# A TLA+ verification of LibPolyCall

LibPolyCall is a C library with a daemon and bindings for several languages. A
program creates a state machine, runs a protocol session on top of it, keeps a
table of micro-services, reads layered configuration files and serves clients over
TCP. This directory models the C core and the client of the Node binding in TLA+,
checks the models with TLC on small instances, and proves their safety properties,
for every value of their constants, with TLAPS.

`PROJECT.json` is the index: components, runs, the source lines behind every
definition, the hazards and the theorems.

## 1. The system

### Components, state and operations

| component | state it keeps | operations |
|---|---|---|
| state machine, `polycall_state_machine.c` | table of states (name, version, checksum, lock), table of named transitions, current state, diagnostics; snapshots live in buffers of the caller | create, destroy, add_state, add_transition, execute_transition, verify, lock, unlock, snapshot, restore |
| protocol session, `polycall_protocol.c` | session state, next sequence number, the state machine it owns | init, cleanup, send, process, update, start and complete handshake, authenticate, set_error |
| micro-service table, `polycall_micro.c` | array of services with an active mask and a count, a bounded command queue each, time stamps | init, cleanup, create, destroy, batch, process, update state, collect garbage |
| network program, `network.c` | listening endpoint, client table, one mutex for the table and one per client | init program, run, add client, remove client, cleanup |
| runtime, `main.c` | table of network programs, port mappings, command history, flags | the commands, the configuration file, the event loop, cleanup, the signal handler |
| library context, `polycall.c` | one struct | init, cleanup |
| configuration loader, `polycall_config.c` | the layers Polycallfile, Polycallrc and Polycallrc.<language> (or .polycallrc) merged into one struct; the files themselves | load, show, validate, rc show and validate, migrate |
| tokenizer, `polycall_token.c`, `polycall_tokenizer.c` | input buffer with position, line and column; a bounded token array | set input, process, reset, filter, chain, destroy |
| parser, `polycall_parser.c` | the tokenizer it owns, a node pool | parse string, parse file; operations on a finished tree |
| Node binding | this.socket and the sockets before it, retry counter, queue of unsent data, pending messages with timers; an asynchronous state machine | connect, disconnect, send, sendMessage, reset, the socket events and timers; transition |
| Go binding | connection, mutex, a message goroutine | connect, disconnect, send, read |
| Lua, Python, Java, Zig and COBOL bindings | a few flags, or none | wrappers |

### How they interact

* The protocol session owns a state machine. Each change of its state is a
  `polycall_sm_execute_transition` on that machine, whose callbacks are user code.
* The micro-service context owns a state machine and a protocol session; it creates
  and destroys them and otherwise does not use them.
* The runtime owns up to `MAX_PROGRAMS` network programs. Its event loop calls
  `net_run` on each in turn, on the only thread of the process; its signal handler
  runs on the same thread, at any point.
* The parser owns a tokenizer and parses whatever tokens its array holds.
* The processes of the `config` command family share a directory with each other and
  with a user who edits the files.
* The Node endpoint owns a protocol handler; the handler's send event becomes a write
  to a socket, or an entry of a queue and a new connection.
* Peers and the wall clock act on their own.

### What is hard about it, and what makes it correct

* *State machine.* User callbacks run between the checks and the assignment of a
  transition and may call back into the machine. Snapshots outlive updates and even
  the machine; a restore looks at the version only, and versions wrap. Correct means:
  no index leaves its table, a lock is honoured, a restore does not bring back old
  data, and a verification notices what was written over a state, as far as a sum of 32
  bits can.
* *Protocol.* The session state is kept twice (`ctx->state` and the machine's current
  state); a message may be sent and the transition refused afterwards; sequence
  numbers are used up by failed sends and wrap; the machine's callbacks run while
  `ctx->state` has its old value and may call the session again. Correct means: the two
  copies agree whenever user code runs, the handshake is sent once, numbers on the wire
  increase, and the session becomes ready.
* *Micro-services.* Mask, count and slots are three views of one set. The collector
  decides on a slot and destroys by id; it goes by a wall clock that may be set back.
  Correct means: the views agree, no slot hands old commands to a new service, and
  collection removes the idle services and no other.
* *Network.* One thread, two levels of mutexes, a signal handler that takes the same
  mutexes, full tables, failing system calls, a receive handler that sends on an endpoint
  whose lock was never initialised. Correct means: no descriptor is leaked or shared,
  every return releases the mutexes, and no client starves while the thread lives.
* *Runtime.* Programs are freed in loops a signal may interrupt; a mapping is added
  before its program exists and must be taken back. Correct means: no listening socket
  is lost, mappings stay disjoint and served, the handler finds live programs only, the
  event loop comes to every program.
* *Configuration.* A command tests for a file, opens it later, and reads it line by line
  while others change the directory; a migration reads its source twice and writes the
  destination piecewise. Correct means: later layers win, what is reported valid is
  complete, a migration leaves a usable override or none and overwrites nothing.
* *Tokenizer and parser.* The scan runs to the size of the buffer and not to the length
  of the input; the array drops what does not fit; tokens of earlier inputs stay; the
  parser's loops end only when the tokens are right, and its child arrays have no bound
  check. Correct means: the tokens are those of the current text, at the right places, and
  a scan ends.
* *Node endpoint.* Every connect makes a socket whose events keep coming after it was
  replaced; error and close both schedule a retry; answers are late, lost, split or for
  nobody, and carry whatever number the peer gives them; timers are never stopped. Correct
  means: every request is settled and is delivered once at most, and an answer under the
  number of its request settles that request.

## 2. Modules and the code

| module | models | composed of |
|---|---|---|
| `StateMachine` | `polycall_state_machine.c` | |
| `Protocol` | `polycall_protocol.c` | `StateMachine` (EXTENDS) |
| `Micro` | `polycall_micro.c` | implements `ServiceRegistry` (INSTANCE) |
| `ServiceRegistry` | what `polycall_micro.c` promises: an abstract specification | |
| `Network` | `network.c`, the signal handler of `main.c` | |
| `Runtime` | `main.c` | a program here is an abstraction of `Network` |
| `Config` | `polycall_config.c` | |
| `Tokenizer` | `polycall_tokenizer.c`, `polycall_token.c` | |
| `Parser` | `polycall_parser.c` | `Tokenizer` (EXTENDS) |
| `NodeEndpoint` | `NetworkEndpoint.js` as a client, `ProtocolHandler.js` | |
| `MCStateMachine`, `MCProtocol`, `MCMicro` | names and batches for TLC | |
| `StateMachine_proofs`, `Protocol_proofs`, `Micro_proofs`, `Network_proofs`, `Runtime_proofs`, `Config_proofs`, `Parser_proofs`, `NodeEndpoint_proofs` | the theorems | each the module it is named after; `Parser_proofs` is about the tokenizer too |
| `MCConfig` | directories, files and command lines | `Config` |
| `MCParser` | inputs, pattern lists and the order of calls | `Parser` |

`Network`, `Runtime` and `NodeEndpoint` need no MC module: their constants are plain sets
and numbers.

Conventions. Variables carry the names of the C fields. C arrays are functions over
their index range. A call that returns an error without touching anything is a
stuttering step and has no action of its own. *History* variables (marked so in the
declarations) remember what a property needs; guards read them only to bound them. An
operator under a comment "Mutant:" is a plausible wrong version of the definition
after it; it is not part of any specification.

**StateMachine.** One action per call. `polycall_sm_execute_transition` is
`ExecuteBegin` (look up, lock check, guard) and `ExecuteCommit` (assignment, time
stamp), with a stack `frame` of running transitions, because any call may be made by
the callbacks in between. `Checksum` is the rotate-and-add sum of
`calculate_state_checksum`: a turn (`Mix`) rotates a word of `Radix * Top` values by one byte
and adds the next byte, modulo the word, so it collides as the code's does. One byte (`Code`)
stands for the bytes of a name. `Damage` names the fields that stray writes hit, and the
history variable `written` remembers which they have hit. `Trunc` is what `strncpy` keeps of
a name: lookups compare the untruncated name with truncated ones, as the code does. Versions
are modulo `VersionMod`.

**Protocol.** `Send` uses up a number whether or not `net_send` takes the message.
`TransitionTo` is `transition_protocol_state`: the machine runs the transition, counts
a failure, or refuses a locked one without counting. While it runs, `ctx->state` has its old
value and the callbacks may make every call of the session but cleanup, transitions
included, `MaxDepth` deep; `target` holds, for each running transition, the state that is assigned
when it is done (`TransitionDone`). `Populated` selects between the machine as
`polycall_protocol_init` leaves it (empty) and one whose states and transitions the application
has registered through the public field.

`polycall_protocol_process` changes nothing of the session: a message with a valid
header reaches its callback in every state, and `handled` remembers that one did.

**Micro.** One action per call; the collector takes one step per slot because each may
destroy another slot than it looked at. `Tick` and `StepBack` are the wall clock.
`Expired` subtracts modulo `TimeMod`, as `uint64_t` does. `Filtered` is the loop of
`polycall_micro_filter_commands` as a recursive function over the queue, with `Keep` as its body.

**ServiceRegistry.** A bounded set of services, each with an id and a queue of its own:
no slots, no mask, no count. The refinement mapping in `Micro` (`ImplementsRegistry`) sends
each active slot to the number of the creation that filled it, with the slot's id and
queue; so a slot that is reused must look like a new service to its caller. The mapping is
made call by call (`CallByCall`): destruction and a batch act on a service with the id the
call names, a filter on the service in the slot the call points to, and each touches no
other; what the call says must be in the queue afterwards is stated there by an order of
positions (`Picks`), not by the loop of the code.

**Network.** The thread's program counter `pc` stands at the places where `net_run`
takes or releases a mutex or calls the kernel. `MayLock` is the mutex: not recursive
with pthreads, recursive with the critical sections of `polycall_pthread.h`; the
variable `build` picks one for a behaviour and never changes. Descriptors are handed
out lowest first. Peers connect, send and hang up at any time, also while they wait in
the backlog; `select`, `accept` and `set_nonblocking` may fail. `Receive` goes on into the
handler of `main.c`, `on_network_receive`, with both mutexes held: `net_send` locks the endpoint
that `net_run` built on its stack and nobody initialised, so it returns (`EchoReturns`) or never
does (`EchoBlocks`), and a send to a peer that has hung up may end the process by SIGPIPE
(`EchoKills`).

**Runtime.** `mode` is the way the runtime is driven. A program is made (`OpenProgram`) and
stored into the table (`StoreProgram`) in two steps, and a signal may come between them. A
turn of the event loop returns (`RunProgram`) or never does (`RunBlocks`), and a signal that meets
a program with its mutexes held never lets the process end (`SignalBlocks`). The clean-up loops take
a step
per statement (`net_cleanup_program`, `free`, `= NULL`) so that `Signal` can come
between them. Other processes bind and release ports at any time. The `list`
command stands for all commands that only print.

**Config.** A step is one call on the file system, or one line taken from an open file,
with all the code does up to the next such call. A file is a sequence of lines; a line is
what the parser's tests tell apart, a value is its text and what `strtoul` makes of it. A
process has a program counter and the locals of the call it is in. `writers` tells whether
the output a process has open is still the file at its path, so a migration writes on into
a file that was removed. `file_exists` is what the code asks, whether `fopen` can read the
file, and `Present` whether there is one; they differ for the files in `Unreadable`. The copy
fills its buffer (`Fill`), writes it (`CopyChunk`), and may fail in either (`ReadFails`, `WriteFails`);
after a read error the output is still open when it is removed, and whether `remove` then works
is `RemovesOpen` (true for POSIX). `disturbed` is history: the migrations whose source, from the first
reading on, or destination somebody else has changed. A killed process stops where it is. `Parsed`,
what a reader makes of
a whole file, is a recursive function over its lines; only properties use it.

**Tokenizer.** Characters are classes. The matchers are translated as they stand; `TextsMatch`
compares them with a description of the same texts that is written from the grammar. The
buffer has one more byte than the code allocates, because `set_input` writes the terminator
of a full buffer there. The scan loop tests what a matcher returns (`matched`) and not the length;
`match_comment` is a
pattern of the application that accepts the empty text, the case in which the two differ. One
step is one call or one turn of the scan loop. `filter` (its
loop is the recursive function in `Kept`) and `chain` make derived arrays that share their text with
the buffer.

**Parser.** The recursive descent as steps on a node pool: `at` is the function that waits for
the next token. It extends `Tokenizer`, so application and parser share the token array.
`parse_tokens` calls `polycall_tokenizer_process` with no patterns, so `ScanSpace` takes white
space only. A child beyond `MaxChildren` (16) is written behind its array: `Store` then leaves the
parser where it has no step (`overrun`). `EndParse` frees the pool, as the code does before it returns
the tree.

**NodeEndpoint.** Node runs a handler to its end, so a step is a call of the application, a
socket event or a timer. `sockets` holds every socket ever made and `socket` is `this.socket`;
events of replaced sockets act on the endpoint like those of the current one, as the
closures in `connect` do. A write goes to `this.socket`, also in the connect event of another
socket. The application is assumed to handle `error` events and rejected promises; without
that Node ends the process. The server answers each message once, well or badly, or not
at all, and numbers its answers as it likes: the message builders of this repository stamp
answers with a counter of their own (`ProtocolHandler.js:66`, `polycall_protocol.c:172`), a server
that echoes the number is one of many. The bytes of an answer may arrive split or joined
(`Garbled`).

## 3. Runs

Deadlock checking is off everywhere: a caller may stop calling, and the bounds on
history end every behaviour.

| run | question | bounds, and why they are enough |
|---|---|---|
| `sm_snapshots` | what restore may change, what verify shows, whether a lock holds, callbacks re-entering the machine | 1 state and 1 transition from it to itself, 1 buffer, versions wrap at 3, 2 machines: a snapshot grows old, wraps around, and meets another machine; checksums of nine values, so that writes to two fields do cancel out |
| `sm_source` (violation) | is a transition taken only in its source state? | 2 states, 1 transition, callbacks 1 deep |
| `protocol_session` | every call of a session, from callbacks too, with the READY state locked and unlocked at any time; does repeated `update` reach READY? | callbacks 2 deep: a transition inside a transition; numbers wrap at 4, 2 messages remembered: enough for two handshakes or a wrap |
| `micro_table` | mask, count, queues, collection; does the table implement `ServiceRegistry`? | 2 slots, 2 ids (one is 0, the id of a cleared slot), queue of 2 with a batch of 3, one of them oversized, 3 creations: reuse and duplicates |
| `network_server` | descriptors, mutexes, signals, hang-ups, packets and their echo | 2 slots, 3 peers, 4 descriptors: both the client table and the descriptor table fill up |
| `network_hangup` (violation) | is a hang-up handled in every build? | 1 slot, 1 peer |
| `runtime` | programs, mappings, history, signal, event loop | 3 programs, 3 ports, 2 mappings, history of 2 with 7 commands: each table fills, the history shifts, and the round of the event loop has a middle |
| `config_layers` | precedence, validation and migration while the directory changes | one process that reads in any of seven ways, one that migrates, one edit of the project file or of the source of the migration, kills, failing reads and writes, files that may not be read; arrays of 2 servers and 5 values, which fill up across layers; files of up to 3 lines |
| `config_rivals` (violation) | does a migration refuse to overwrite? | two processes that migrate one file to one language |
| `tokenizer` | what a scan and a parse make of a text | every text of up to 2 characters, of 3 and 4 over the characters of numbers, strings and identifiers; buffer of 4, so texts fill it exactly or exceed it; three lists of patterns, one with a pattern that accepts the empty text; an array of 6, a pool of 6, 2 children; five calls |
| `tokens_owned` (violation) | is what destroying tokens frees an allocation of theirs? | as `tokenizer`, five given calls |
| `node_endpoint` | requests, answers, timers and connections of the Node client | 2 requests, 2 sockets, 1 retry, 1 reset, numbers up to 3: two sockets alive at once, a late answer over the old one, a number used twice |

`micro_table` and `config_layers` check a type invariant too, since it says that queues and
tables do not outgrow their arrays. The type invariants of the state machine, the session
and the parser are proved (section 5), so no run repeats them. What the passing runs
check beyond that:

* `LockHolds`, `LockedOnlyFromInside` (the latter in `protocol_session`): see section 5.
* `VerifySound`, `RestoreOnlyHeals`: see section 5. `VerifySound` is about states that stray writes
  have hit in one field, once or often: writes to two fields may cancel out in the sum, as they
  do in this instance, and pass. The qualification "same machine, fewer than 2^32 updates ago"
  in `RestoreOnlyHeals` is needed: a snapshot of another machine, or an old one met again after
  a wrap, is accepted.
* `InStep`: whenever user code runs, inside callbacks too, `ctx->state` and the machine's current
  state agree, whichever sends or transitions failed.
* `WireIncreasing`: until the number wraps, messages carry increasing numbers.
* `OneHandshake`: while the machine refuses nothing and no callback starts a transition, one
  handshake is sent. Both conditions are needed: `start_handshake` sends first, so when the
  transition is refused (a locked state) the next `update` sends another, and so does an `update`
  called by a callback of `to_handshake`, which finds `ctx->state` still INIT.
* `EventuallyReady`: a populated session becomes READY, whatever is called in between, unless
  it is put into ERROR or closed, or its machine refuses a transition.
* `CountMatchesMask`, `OwnCommandsOnly`, `CollectsOnlyIdle`, `CollectsAllIdle`: the last two
  while no id is shared and the clock is not set back (`Dependable`). Both conditions
  are needed: a clock set back makes the unsigned difference huge, so that services
  just used are collected, and with a shared id the collector destroys the first
  service that has it, which may be the busy one.
* `ImplementsRegistry`: every call has, in `ServiceRegistry`, the effect its own arguments ask for.
* `DescriptorsOwned`, `LocksReleased`: see section 1. `ServedUntilStopped`: in both builds every hang-up
  and every packet is handled, however many peers come and go, unless the process ends or the
  thread stops for good, for which there are two places only: `net_remove_client` with POSIX
  mutexes (`network_hangup`) and `net_send` on the endpoint without a lock.
* `SignalExits`: a signal outside the regions that hold `clients_lock` ends the
  process. Inside them the handler waits for a mutex of its own thread, for ever.
* `NoProgramLost`, `MappingsServed`: the runtime's tables; a mapping has a program, and no two
  share a port. A program that a signal catches before it is in the table is closed by the end
  of the process only.
* `HandlerSafe`: a signal outside the clean-up loops finds live programs only. Inside
  them it may find one already closed or freed, and clean it up again.
* `EveryProgramRuns`: while `net_run` returns and no signal comes, the event loop comes to every
  program again and again. What `net_run` does with its peers is the matter of `network_server`.
* `LayersOverride`: at any moment a lookup finds the last value in the latest layer read,
  whatever the order of the entries. `ValidMeansComplete`: a load that reports success has, over
  all its layers, every required field, even when the files changed between the layers.
* `MigratedIsUsable`: a migration that succeeds has left a file that `config rc validate` accepts.
  `FailedMigrationLeavesNothing`: one that fails leaves no file. `PartialIsPrefix`: while a migration
  writes, and after it was killed at any point, the destination holds the first lines of the
  source, in order. All three are about migrations whose files nobody else changed meanwhile
  (`disturbed`). The instance has others too: the user may edit the source between its two
  readings, and then an unvalidated text is copied.
* `OnlyCurrentInput`, `NothingSkipped`, `TextsMatch`, `LocationsCorrect`: the tokens of the current
  input lie inside it, in order, without gaps, have the form of their type, and carry the
  right line and column. The exceptions are stated in the properties: tokens dropped by a
  full array, and columns after a string that contains a line end.
* `ScansEnd`: `polycall_tokenizer_process` returns, also when the array is full and tokens are dropped,
  unless a pattern accepts the empty text; then it never does. `ParsesBlanksOnly`: whatever texts and
  calls came before, `parse_string` parses tokens only after a text of exactly the size of the
  buffer that is white space throughout.
* `AnswersMatch`: until `reset` starts the numbers again, an answer that carries the number of its
  request settles that request or none, whatever the other answers carry. Nothing of the kind
  holds for answers numbered otherwise: they settle whichever request has their number.
  `DeliveredOnce`: a message is in one place at a time and reaches the server once at most, with
  two sockets alive. `RequestsSettle`: no request is pending for ever, also when its connection was
  lost, its answer garbled, or the handler reset.

### Fairness

* Protocol: the application opens the session and calls `update` again and again
  (weak fairness; the calls return), and among the sends that keep being tried one is
  accepted (strong fairness on `Update(TRUE)`; a network that refuses everything gives no
  session). Callbacks return (weak fairness on `TransitionDone`).
* Network: weak fairness on the thread and on the handler, which the kernel schedules.
  Strong fairness on `SelectReturns` and on `SetNonblocking`: their failures (EINTR,
  memory pressure) are transient. Nothing is assumed of the peers.
* Runtime: weak fairness on the event loop, whose turn returns or blocks: the process is scheduled,
  and nothing is assumed of `net_run`.
* Tokenizer and parser: weak fairness on the scan loop and the parse loops: a function that
  was called keeps running.
* Node endpoint: weak fairness on each request's timer, which Node fires while the process
  lives. Nothing is assumed of the network or the server.
* State machine, micro-services, configuration: none; the properties are safety properties.

### Disagreements between the code and its documents

Each violation run is one, with the document quoted in `PROJECT.json` under "findings".

* `sm_source`: `execute_transition` never compares `current_state` with the FROM state of
  the transition it found.
* `network_hangup`: `net_run` calls `net_remove_client` with both mutexes held that it locks.
* `tokens_owned`: `create_token` stores a pointer into the tokenizer's buffer as the text of an
  identifier or a string, and destroying an array hands that pointer to `free`; a filtered
  or chained array frees the same text again.
* `config_rivals`: two migrations to one language both pass the test for the destination, and the
  second one empties what the first has written, although `docs/CONFIGURATION_STANDARD.md` says
  that migration "refuses to overwrite an existing destination".

Met while modelling, without a run of their own:

* Protocol: nothing in the library fills the session's machine, so as `polycall_protocol_init`
  leaves it each transition fails and the session stays in INIT; the clean-up frees the caller's
  `ctx` and loses the context that init allocated (`polycall_protocol.c:104`, `140-153`), and
  `polycall_micro.c:77` hands it a pointer into the middle of its own allocation; commands are
  dispatched, and
  `authenticate` and `set_error` honoured, in every session state.
* Micro-services: with two services of one id the collector destroys the first of them.
* Network: `on_network_receive` sends on a copy of the endpoint whose lock was never initialised,
  with both mutexes held; SIGPIPE is not ignored.
* Runtime: a signal between `net_init_program` and the store into `programs` leaves a program the
  handler does not know; the program table is not tested against `MAX_PROGRAMS` (the model stops
  there); an
  endpoint's port field is overwritten after the socket is bound; in interactive mode nothing
  calls `net_run`, so connections are accepted by the kernel only.
* Configuration: a destination that exists but may not be read counts as absent; a migration that
  is killed leaves a partial override, which hides `.polycallrc` and makes the next migration refuse,
  and so does one that fails to read its source where an open file cannot be removed;
  `config load` accepts an override that lacks fields Polycallrc supplies, `config rc validate` does
  not.
* Tokenizer: the terminator of an input as long as the buffer is written one byte behind it;
  since the scan goes on to the size of the buffer, it succeeds only for inputs that fill the
  buffer exactly, and stops with "Invalid input" at the terminator of all others; a pattern of
  the application that accepts the empty text is tried for ever.
* Parser: `parse_string` scans with no patterns, so only white space can be parsed; with tokens
  an application has scanned into the array the loops may run for ever; every function but
  the first takes its name from the token after the one that was tested; the nodes of a tree
  are freed before the tree is returned.
* Node: an answer finds its request by number, but the senders of this repository number answers
  with a counter of their own, so that two of them agree only by accident; error and close
  schedule a retry each, so two sockets may be connected at once; a close
  of an old socket clears `connected` although the new one is open; what waits may be written to
  a socket that has not connected, or to none; `reset` does not stop timers, so the timer of a
  forgotten message removes the newer one with its number, whose answer is then ignored;
  `PolyCallClient.js` needs a class that `Router.js` does not export.

## 4. Hazards

`PROJECT.json` lists them by line. Each names the properties that would catch it, or says
why there is none: undefined behaviour without state to relate it to, or a component
the plan below still has to reach.

## 5. Proofs

Every safety property that a passing run checks is also a theorem. TLAPS checks the proofs to the
last leaf. They assume the named assumptions of
the modules: table sizes are positive or natural numbers, versions count at least to 3, a
truncation is idempotent, a clock stays below the width of a time stamp, names and files
are of the sets the module says. TLC evaluates all of them in the runs. One theorem,
`FailedMigrationsClean`, has a hypothesis of its own (`RemovesOpen`). Bounds on history (`MaxWire`,
`MaxBirths`,
`MaxSockets` and the like) are any numbers.

In each module `IndInv` is the inductive invariant, one lemma per action shows that the action
preserves it, and the theorems follow from it. Each `IndInv` was an invariant of a TLC run before
it was proved. Searches ("the first slot that ...") are CHOOSE expressions; `LeastSlot`, `LeastIndex` and
the like, from the well-foundedness of the natural numbers, give what they find.

### State machine

Theorems: `TypeCorrect`, `BoundsCorrect` (`IndicesInBounds`), `LocksChecked`
(`LockedOnlyFromInside`), `VerificationSound` (`VerifySound`), `RestoreCorrect`
(`RestoreOnlyHeals`), `LocksHold` (`LockHolds`).

The type invariant is inductive by itself. The others are not: whether a restore is
harmless depends on how a version and the age of a snapshot are related, and whether a
verification is sound depends on where each stored checksum came from. `IndInv` adds

* `SlotsInv`: the id stored in a slot is its index;
* `AgeInv`: a snapshot and its state are exactly `age` updates apart, modulo `VersionMod`;
* `ChecksumInv`: the stored checksum is the sum of registration, and each field that differs from
  registration was hit by a stray write, unless the state was overwritten from another machine's
  snapshot; the same for snapshots;
* `OriginInv`: snapshots come from machines that exist or have existed.

The two action properties follow from `IndInv` in the state before the step; the arithmetic of
wrapping versions is in `ApartStep` and `ApartZero`. `VerificationSound` rests on `MixInjective`: a
turn of the
sum is injective in the word and in the byte added, for every radix and width, so
(`ChecksumSeparates`) two states that differ in one covered field have different sums.
`IndicesInBounds` is proved only; no run spends states on it.

### Protocol session

Theorems: `SessionTypes` (`PTypeOK`), `CopiesAgree` (`InStep`), `NumbersIncrease` (`WireIncreasing`),
`HandshakeOnce` (`OneHandshake`).

`InStep` compares the two copies of the session state. It needs to know what the machine is
about to do: `TableInv` (the transition named after a state leads to that state), `RunningInv` (the
transitions on the machine's stack are those the session has started, each to its `target`)
and `EmptyInv` (a machine nobody populated never leaves INIT). Since the assignments to `ctx->state` and
to `current_state` are made in one go when a transition is done, for whichever transition is
innermost, nesting does not separate the copies, however deep. `OneHandshake` needs `HandshakeInv`:
a handshake on the
wire has been followed by a transition out of INIT, unless the machine refused one or a callback
started another.

### Micro-service table

Theorems: `CountCorrect` (`CountMatchesMask`), `CollectorSafe` (`CollectsOnlyIdle`),
`CollectorComplete` (`CollectsAllIdle`), `TableTypes` (`MTypeOK`), `CommandsOwned` (`OwnCommandsOnly`),
`TableImplementsRegistry` (`ImplementsRegistry`).

The collector needs three conjuncts beyond the count: `IdsInv` (without shared ids a search by
id is exact), `QuietInv` (on a clock never set back the time stamps tell the idle time, so
`ExpiredMeansIdle`), and `SweptInv` (what the collector has passed is not idle). `Shaped` leaves the
queues open, so this part does not depend on what the queue operations compute. The rest does:
`FullInv` adds the types, the owner of every queued command and `BornInv` (no two services stem
from one creation). That `Filtered` keeps entries, order and length bounds is proved without an
induction rule: a least counterexample among the prefixes is impossible.

The refinement has a lemma per kind of step (`ShowsCreate`, `ShowsRemove`, `ShowsSubmit`,
`ShowsFilter`) that
tells how the set of services shown through the mapping changes; each call is then the step of
`ServiceRegistry` with the same arguments, and the rest stutters. `BornInv` is what makes
the mapping injective: without it a reused slot could show its old service.

### Network program

Theorems: `DescriptorsCorrect` (`DescriptorsOwned`), `MutexesReleased` (`LocksReleased`), for both
builds.

`LocksReleased` is about the places where `net_run` returns; `LockInv` tells for every place which
mutexes
are held. `DescriptorsOwned` needs `OwnerInv`, which also counts the descriptor that was accepted but is
in no slot yet, `AcceptInv` (which places have one) and `ListenInv`.

### Runtime

Theorems: `ProgramsKept` (`NoProgramLost`), `MappingsCorrect` (`MappingsServed`),
`SignalOutsideLoopsSafe`
(`HandlerSafe`).

The strengthening is about the clean-up loops: `LoopInv` (nothing is left behind the loop, and the
only program that is closed or freed but still pointed to is the one the loop is at) and
`ModeInv` (who may run a loop, and that none runs while a program is made but not stored).

### Configuration

Theorems: `ConfigTypes` (`CTypeOK`), `LayersOverrideCorrect` (`LayersOverride`), `ValidLoadsComplete`
(`ValidMeansComplete`), `FailedMigrationsClean` (`FailedMigrationLeavesNothing`), `MigrationsUsable`
(`MigratedIsUsable`), `MigrationsCopyInOrder` (`PartialIsPrefix`).

`LayersOverride` is preserved by a line only because `LayersRead` holds: a layer that comes after the
one being read has given nothing yet. `Checked` remembers that a successful load validated what
it holds now.

The theorems about migrations hold for any commands, edits and kills; what others do to the files
of a migration puts it into `disturbed`, which the properties name. `FailedMigrationsClean` assumes
`RemovesOpen`: without it the partial destination stays after a read error.

`CopyInv` says how far an undisturbed migration has come, at each place of its program: while it
validates, the destination was absent when it looked (or unreadable) and what it holds is `Parsed`
of the lines it
has taken; from then on the source is accepted; while it copies, the destination holds what was
copied and the buffer the rest; when it has succeeded, the destination equals the source.
`ViewInv` says so of every migration that nobody disturbed, and each action has a lemma. `Parsed` is
handled by its defining equation, one line at a time;
that the function exists (`ParsesExists`) is shown by a least counterexample.

### Tokenizer and parser

Theorems: `ParserTypes` (`ParserTypeOK`), `ScansCurrentInput` (`OnlyCurrentInput`), `ScansEverything`
(`NothingSkipped`), `LocationsKept` (`LocationsCorrect`), `MatchersFollowGrammar` (`TextsMatch`),
`OnlyBlanksParsed` (`ParsesBlanksOnly`).

The heart is `MatchFits`: no pattern, at whatever place before a terminator, matches beyond it.
`ScanInv` says what a scan of an accepted input has done (`Sound`): the terminator is in place and not
passed; the tokens lie before the position, in order; while the array has room everything
before the position is covered and line and column are those of the position. The last part is
what `LocationsCorrect` lacks to be inductive, `LocatedAlong` and `LocatedBreak` carry it over a
token and a
line end. `BlankInv` says that what `parse_string` has passed is white space and that its loops begin at
the end of the buffer; with the terminator of `ScanInv` the text must then fill the buffer. `LoopInv`
tells which nodes the function and the block being parsed are in each loop. `TextsMatch` is
inductive together with `IndInv`: each pattern has a lemma
(`IdentifierFits`, `NumberFits`, `StringFits`, `OperatorFits`) that its match has the form the
grammar gives. In
`StringFits` the flag the code carries through a string meets the property's count of backslashes:
`EscapedStep` shows that the count satisfies the equation of the flag, so a function that
satisfies it exists, and `EscapesParity` that it is the only one.

### Node endpoint

Theorems: `AnswersCorrect` (`AnswersMatch`), `DeliveredAtMostOnce` (`DeliveredOnce`).

`NumbersInv` says that without a reset no two messages that are remembered, waiting or on their
way carry one number; the numbers of answers are not restricted, an answer is recorded for its
request when it repeats the number. `PlaceInv` says that a request has one message in one place, or
has arrived.

### What is only model-checked

Liveness (`EventuallyReady`, `ServedUntilStopped`, `SignalExits`, `EveryProgramRuns`, `ScansEnd`,
`RequestsSettle`): the prover supports neither fairness nor ENABLED.

## 6. What is not modelled

* Inside the modelled files: time stamps that are only reported, printing, logging,
  directory listing, the layout of headers and checksums of messages (messages are valid
  or not processed), transform chains (pure calls of user functions), `net_send` and
  `net_receive` on an endpoint of the caller, and the Windows console handler, which runs
  on a thread of its own.
* State machine and session: stray writes to callback pointers (which would be called) and to ids;
  an application that moves the session's machine behind its back, by other calls than those of
  the session; destroying a machine or closing a session from one of its own callbacks.
* Protocol clean-up of a context that did not come from `malloc`, which `free` makes undefined.
* The command history of the runtime is modelled, for the commands that fill it; no property
  is about it.
* Undefined behaviour that ends the model: the protocol context a caller holds is
  smaller than what `process` reads; programs beyond `MAX_PROGRAMS`; the seventeenth child of a
  root or a block; a tree after its nodes were freed, and with it `filter`, `transform`, `find`,
  `optimize` and
  `add_child` of the parser.
* `polycall_token_map`, the value constructors and the lists of patterns and consumers: pure
  copies.
* Of the Node binding: the endpoint as a server, which only forwards events, `State.js` and
  `StateMachine.js` (see the plan), and `PolyCallClient.js`, which cannot be constructed.
* The library context (one allocation), and the Go binding, see the plan. The Lua, Python, Java, Zig
  and COBOL bindings are wrappers or skeletons without
  state of their own worth a model.

## 7. Plan

What is left, in order of what is most likely to matter:

1. `NodeStateMachine`: `StateMachine.js` and `State.js` with steps between the awaits. Two
   `executeTransition` calls interleave there, and `restoreFromSnapshot` makes the machine's history
   the array of the snapshot itself, so that later transitions change the snapshot. An
   abstract machine, in which a transition is atomic, is what it should implement while
   calls do not overlap.
2. `GoClient`: the mutex, the goroutine and the handshake of `polycall_client.go`, where `Connect`
   calls `Disconnect` with the mutex held.
3. The composition of `Micro` with `Protocol`: the context creates and destroys a session that it
   does not use yet.
