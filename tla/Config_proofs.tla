--------------------------- MODULE Config_proofs ---------------------------
(***************************************************************************)
(* Proofs about the "polycall config" commands, for any number of          *)
(* processes, any directory, any files and any edits made meanwhile.       *)
(***************************************************************************)
EXTENDS Config, WellFoundedInduction, TLAPS

----------------------------------------------------------------------------
(* The inductive invariant.  Its parts speak of one process: s is its       *)
(* control state, c its configuration, g what its layers have given.        *)

Labels ==
  {"idle", "test_project", "test_runtime", "test_language", "test_legacy", "test_dest",
   "open", "read", "open_input", "open_output", "fill", "copy", "exited", "killed"}

Process ==
  [pc: Labels, op: {"load", "one", "rc", "migrate", "usage", None},
   language: STRING \cup {None}, path: Paths \cup {None},
   layer: Layers \cup {None}, dest: Paths \cup {None},
   buf: Seq(Line), copied: Nat, created: BOOLEAN, status: {0, 1, None}]

\* What a process knows of its arguments wherever it uses them.
Consistent(s) ==
  /\ s.pc \in {"test_project", "test_runtime"} => s.op = "load"
  /\ s.pc \in {"test_language", "test_legacy"} =>
       s.op \in {"load", "rc"} /\ s.language \in Languages
  /\ s.pc \in {"open", "read"} =>
       /\ s.op \in {"load", "one", "rc", "migrate"}
       /\ s.path \in Paths
       /\ s.layer \in Layers
  /\ s.pc \in {"test_dest", "open_input", "open_output", "fill", "copy"} => s.op = "migrate"
  /\ s.op = "migrate" /\ s.pc # "idle" => s.path \in Paths /\ s.dest \in Paths
  /\ s.created => s.op = "migrate" /\ s.pc \in {"fill", "copy", "exited", "killed"}

Silent(g, layer) == \A key \in Keys : g[layer][key] = None

\* The layers that come after the one being read have given nothing yet.
LayersRead(s, g) ==
  /\ \/ s.pc \in {"idle", "test_project", "test_runtime"}
     \/ s.pc \in {"open", "read"} /\ s.layer = "project"
     => Silent(g, "runtime") /\ Silent(g, "language")
  /\ s.pc \in {"open", "read"} /\ s.layer = "runtime" => Silent(g, "language")

\* A load that has reported success has validated what it now holds.
Checked(s, c) ==
  s.pc = "exited" /\ s.status = 0 /\ s.op = "load" =>
    validate_required(c, TRUE, s.language)

Bounded(c) ==
  /\ c \in PolycallConfig
  /\ Len(c.servers) <= MAX_SERVERS
  /\ Len(c.values) <= MAX_VALUES

Given == [Layers -> [Keys -> Value \cup {None}]]

\* A process that still writes to the file at a path sees it there.
FilesInv ==
  /\ files \in [Paths -> Seq(Line) \cup {Absent}]
  /\ writers \in [Paths -> SUBSET Procs]
  /\ edits \in 0 .. MaxEdits
  /\ \A f \in Paths : writers[f] # {} => files[f] # Absent

ProcessInv ==
  /\ st \in [Procs -> Process]
  /\ config \in [Procs -> PolycallConfig]
  /\ given \in [Procs -> Given]
  /\ \A p \in Procs : Bounded(config[p])
  /\ \A p \in Procs : Consistent(st[p])
  /\ \A p \in Procs : LayersRead(st[p], given[p])
  /\ \A p \in Procs : Checked(st[p], config[p])

IndInv == FilesInv /\ ProcessInv /\ LayersOverride /\ disturbed \subseteq Procs

----------------------------------------------------------------------------
(* Keys and values *)

First(c, key, i) ==
  /\ i \in DOMAIN c.values
  /\ c.values[i].key = key
  /\ \A j \in 1 .. (i - 1) : c.values[j].key # key

\* A key that is held has a first entry, and IndexOf finds it.
LEMMA FirstIndex ==
  ASSUME NEW c \in PolycallConfig, NEW key, Holds(c, key)
  PROVE  First(c, key, IndexOf(c, key))
<1>1. c.values \in Seq(Entry)
  BY DEF PolycallConfig
<1> DEFINE S == {i \in DOMAIN c.values : c.values[i].key = key}
<1>2. S # {} /\ S \subseteq Nat
  BY <1>1 DEF Holds
<1>3. PICK i \in S : \A j \in S : ~(<<j, i>> \in OpToRel(<, Nat))
  BY <1>2, NatLessThanWellFounded, WFMin
<1>4. \A j \in S : ~(j < i)
  BY <1>2, <1>3 DEF OpToRel
<1>5. First(c, key, i)
  BY <1>1, <1>4 DEF First
<1> QED
  BY <1>5 DEF First, IndexOf

LEMMA FirstUnique ==
  ASSUME NEW c \in PolycallConfig, NEW key, NEW i, First(c, key, i)
  PROVE  Holds(c, key) /\ IndexOf(c, key) = i /\ config_get(c, key) = c.values[i].value
<1>1. c.values \in Seq(Entry)
  BY DEF PolycallConfig
<1>2. Holds(c, key)
  BY DEF First, Holds
<1> DEFINE k == IndexOf(c, key)
<1>3. First(c, key, k)
  BY <1>2, FirstIndex
<1>4. k = i
  <2> HIDE DEF k
  <2>1. k \in Nat /\ i \in Nat /\ k >= 1 /\ i >= 1
    BY <1>1, <1>3 DEF First
  <2>2. ~(k < i) /\ ~(i < k)
    BY <1>3, <2>1 DEF First
  <2> QED
    BY <2>1, <2>2
<1> QED
  BY <1>2, <1>4 DEF config_get

LEMMA SetHeld ==
  ASSUME NEW c \in PolycallConfig, NEW key \in Keys, NEW value \in Value, Holds(c, key)
  PROVE  /\ config_set(c, key, value) \in PolycallConfig
         /\ Len(config_set(c, key, value).values) = Len(c.values)
         /\ config_set(c, key, value).servers = c.servers
         /\ config_get(config_set(c, key, value), key) = value
         /\ \A other \in Keys \ {key} :
              config_get(config_set(c, key, value), other) = config_get(c, other)
<1> DEFINE i == IndexOf(c, key)
           v == [c.values EXCEPT ![i].value = value]
           d == [c EXCEPT !.values = v]
<1>1. config_set(c, key, value) = d
  BY DEF config_set
<1>2. First(c, key, i)
  BY FirstIndex
<1>3. c.values \in Seq(Entry)
  BY DEF PolycallConfig
<1> HIDE DEF i
<1>4. /\ v \in Seq(Entry) /\ Len(v) = Len(c.values) /\ DOMAIN v = DOMAIN c.values
      /\ \A j \in DOMAIN v : v[j].key = c.values[j].key
      /\ v[i].value = value
      /\ \A j \in DOMAIN v \ {i} : v[j] = c.values[j]
  <2>1. i \in 1 .. Len(c.values) /\ c.values[i] \in Entry
    BY <1>2, <1>3 DEF First
  <2> DEFINE e == [c.values[i] EXCEPT !.value = value]
  <2>2. e \in Entry /\ e.key = c.values[i].key /\ e.value = value
    BY <2>1 DEF Entry
  <2>3. v = [c.values EXCEPT ![i] = e]
    OBVIOUS
  <2> HIDE DEF e, v
  <2> QED
    BY <1>3, <2>1, <2>2, <2>3
<1>5. d \in PolycallConfig /\ d.values = v /\ d.servers = c.servers
  <2> HIDE DEF v
  <2> QED
    BY <1>4 DEF PolycallConfig
<1> HIDE DEF v, d
<1>6. First(d, key, i)
  BY <1>2, <1>3, <1>4, <1>5 DEF First
<1>7. config_get(d, key) = value
  BY <1>4, <1>5, <1>6, FirstUnique
<1>8. ASSUME NEW other \in Keys \ {key}
      PROVE  config_get(d, other) = config_get(c, other)
  <2>1. CASE Holds(c, other)
    <3>1. PICK k : First(c, other, k)
      BY <2>1, FirstIndex
    <3>2. First(d, other, k)
      BY <1>3, <1>4, <1>5, <3>1 DEF First
    <3>3. k # i /\ k \in DOMAIN v
      BY <1>2, <1>4, <3>1 DEF First
    <3> QED
      BY <1>4, <1>5, <3>1, <3>2, <3>3, FirstUnique
  <2>2. CASE ~Holds(c, other)
    <3>1. ~Holds(d, other)
      BY <1>4, <1>5, <2>2 DEF Holds
    <3> QED
      BY <2>2, <3>1 DEF config_get
  <2> QED
    BY <2>1, <2>2
<1> QED
  BY <1>1, <1>4, <1>5, <1>7, <1>8

LEMMA SetNew ==
  ASSUME NEW c \in PolycallConfig, NEW key \in Keys, NEW value \in Value, ~Holds(c, key)
  PROVE  /\ config_set(c, key, value) \in PolycallConfig
         /\ Len(config_set(c, key, value).values) = Len(c.values) + 1
         /\ config_set(c, key, value).servers = c.servers
         /\ config_get(config_set(c, key, value), key) = value
         /\ \A other \in Keys \ {key} :
              config_get(config_set(c, key, value), other) = config_get(c, other)
<1> DEFINE e == [key |-> key, value |-> value]
           v == Append(c.values, e)
           d == [c EXCEPT !.values = v]
<1>1. config_set(c, key, value) = d
  BY DEF config_set
<1>3. c.values \in Seq(Entry)
  BY DEF PolycallConfig
<1>4. /\ v \in Seq(Entry) /\ Len(v) = Len(c.values) + 1 /\ DOMAIN v = 1 .. (Len(c.values) + 1)
      /\ \A j \in 1 .. Len(c.values) : v[j] = c.values[j]
      /\ v[Len(c.values) + 1] = e
  <2>1. e \in Entry
    BY DEF Entry
  <2> HIDE DEF e
  <2> QED
    BY <1>3, <2>1
<1>5. d \in PolycallConfig /\ d.values = v /\ d.servers = c.servers
  <2> HIDE DEF v
  <2> QED
    BY <1>4 DEF PolycallConfig
<1>6. DOMAIN c.values = 1 .. Len(c.values) /\ Len(c.values) \in Nat
  BY <1>3
<1>7. e.key = key /\ e.value = value
  OBVIOUS
<1> HIDE DEF v, d, e
<1>8. config_get(d, key) = value
  <2>1. First(d, key, Len(c.values) + 1)
    BY <1>4, <1>5, <1>6, <1>7 DEF First, Holds
  <2> QED
    BY <1>4, <1>5, <1>7, <2>1, FirstUnique
<1>9. ASSUME NEW other \in Keys \ {key}
      PROVE  config_get(d, other) = config_get(c, other)
  <2>1. CASE Holds(c, other)
    <3>1. PICK k : First(c, other, k)
      BY <2>1, FirstIndex
    <3>2. k \in 1 .. Len(c.values)
      BY <1>6, <3>1 DEF First
    <3>3. First(d, other, k)
      BY <1>4, <1>5, <1>6, <3>1, <3>2 DEF First
    <3> QED
      BY <1>4, <1>5, <3>1, <3>2, <3>3, FirstUnique
  <2>2. CASE ~Holds(c, other)
    <3>1. ~Holds(d, other)
      BY <1>4, <1>5, <1>6, <1>7, <2>2 DEF Holds
    <3> QED
      BY <2>2, <3>1 DEF config_get
  <2> QED
    BY <2>1, <2>2
<1> QED
  BY <1>1, <1>4, <1>5, <1>8, <1>9

----------------------------------------------------------------------------
(* Lines *)

LEMMA LineFields ==
  ASSUME NEW line \in Line
  PROVE  /\ line.kind = "value" => line.key \in Keys /\ line.value \in Value
         /\ line.kind = "server" => line.language \in STRING /\ line.mapping \in Value
BY DEF Line

\* What config_get sees depends on the values only.
LEMMA GetSame ==
  ASSUME NEW c, NEW d, d.values = c.values, NEW key
  PROVE  /\ config_get(d, key) = config_get(c, key)
         /\ Holds(d, key) = Holds(c, key)
BY DEF config_get, Holds, IndexOf

LEMMA TakeValue ==
  ASSUME NEW c, Bounded(c), NEW layer, NEW line \in Line,
         line.kind = "value", Accepts(c, layer, line)
  PROVE  /\ Bounded(parse_line(c, layer, line))
         /\ config_get(parse_line(c, layer, line), line.key) = line.value
         /\ \A other \in Keys \ {line.key} :
              config_get(parse_line(c, layer, line), other) = config_get(c, other)
<1> DEFINE n == IF is_known_key(line.key, layer) THEN c.warnings ELSE c.warnings + 1
           w == [c EXCEPT !.warnings = n]
<1>1. line.key \in Keys /\ line.value \in Value
  BY LineFields
<1>2. parse_line(c, layer, line) = config_set(w, line.key, line.value)
  BY DEF parse_line
<1>3. w \in PolycallConfig /\ w.values = c.values /\ w.servers = c.servers
  <2>1. n \in Nat
    BY DEF Bounded, PolycallConfig
  <2> HIDE DEF n
  <2> QED
    BY <2>1 DEF Bounded, PolycallConfig
<1>4. can_set(c, line.key)
  BY DEF Accepts, AcceptsValue
<1> HIDE DEF w
<1>5. \A key : config_get(w, key) = config_get(c, key) /\ Holds(w, key) = Holds(c, key)
  BY <1>3, GetSame
<1>6. c.values \in Seq(Entry) /\ Len(c.values) \in Nat /\ MAX_VALUES \in Nat
  BY ConfigAssumption DEF Bounded, PolycallConfig
<1>7. CASE Holds(w, line.key)
  BY <1>1, <1>2, <1>3, <1>5, <1>7, SetHeld DEF Bounded
<1>8. CASE ~Holds(w, line.key)
  <2>1. Len(c.values) < MAX_VALUES
    BY <1>4, <1>5, <1>8 DEF can_set
  <2> QED
    BY <1>1, <1>2, <1>3, <1>5, <1>6, <1>8, <2>1, SetNew DEF Bounded
<1> QED
  BY <1>7, <1>8

LEMMA TakeOther ==
  ASSUME NEW c, Bounded(c), NEW layer, NEW line \in Line,
         line.kind # "value", Accepts(c, layer, line)
  PROVE  /\ Bounded(parse_line(c, layer, line))
         /\ \A key : config_get(parse_line(c, layer, line), key) = config_get(c, key)
<1> DEFINE d == parse_line(c, layer, line)
<1>1. CASE line.kind = "blank"
  BY <1>1 DEF parse_line
<1>2. CASE line.kind = "server"
  <2> DEFINE r == [language |-> line.language, host_port |-> line.mapping.host,
                   target_port |-> line.mapping.target]
             q == Append(c.servers, r)
  <2>1. r \in Server
    BY <1>2, LineFields DEF Server, Value
  <2>2. c.servers \in Seq(Server) /\ Len(c.servers) < MAX_SERVERS
    BY <1>2 DEF Accepts, AcceptsServer, can_add_server, Bounded, PolycallConfig
  <2>3. d = [c EXCEPT !.servers = q]
    BY <1>2 DEF parse_line, add_server
  <2> HIDE DEF r, d
  <2>4. q \in Seq(Server) /\ Len(q) <= MAX_SERVERS
    BY <2>1, <2>2, ConfigAssumption
  <2> HIDE DEF q
  <2>5. d.values = c.values /\ Bounded(d)
    BY <2>3, <2>4 DEF Bounded, PolycallConfig
  <2> QED
    BY <2>5, GetSame DEF d
<1>3. CASE line.kind = "network"
  <2>1. d = [c EXCEPT !.network_enabled = (line.action = "start"), !.network_seen = TRUE]
    BY <1>3 DEF parse_line
  <2> DEFINE b == (line.action = "start")
  <2>2. b \in BOOLEAN /\ d = [c EXCEPT !.network_enabled = b, !.network_seen = TRUE]
    BY <2>1
  <2> HIDE DEF d, b
  <2>3. d.values = c.values /\ Bounded(d)
    BY <2>2 DEF Bounded, PolycallConfig
  <2> QED
    BY <2>3, GetSame DEF d
<1> QED
  BY <1>1, <1>2, <1>3 DEF Accepts

----------------------------------------------------------------------------
(* Control states *)

LEMMA Went ==
  ASSUME NEW s \in Process, NEW label \in Labels
  PROVE  LET x == [s EXCEPT !.pc = label] IN
         /\ x \in Process /\ x.pc = label /\ x.op = s.op /\ x.path = s.path
         /\ x.layer = s.layer /\ x.language = s.language /\ x.dest = s.dest
         /\ x.created = s.created
BY DEF Process

LEMMA Exited ==
  ASSUME NEW s \in Process, Consistent(s), s.pc # "idle", NEW n \in {0, 1}
  PROVE  LET x == [s EXCEPT !.pc = "exited", !.status = n] IN
         /\ x \in Process /\ Consistent(x) /\ \A g : LayersRead(x, g)
         /\ x.status = n /\ x.op = s.op /\ x.language = s.language
<1> DEFINE y == [s EXCEPT !.pc = "exited"]
           x == [s EXCEPT !.pc = "exited", !.status = n]
<1>0. x \in Process
  <2>1. y \in Process
    BY Went DEF Labels
  <2>2. x = [y EXCEPT !.status = n]
    BY DEF Process
  <2> HIDE DEF x, y
  <2> QED
    BY <2>1, <2>2 DEF Process
<1>1. /\ x \in Process /\ x.pc = "exited" /\ x.status = n /\ x.op = s.op
      /\ x.language = s.language /\ x.path = s.path /\ x.dest = s.dest
      /\ x.created = s.created
  BY <1>0 DEF Process
<1> HIDE DEF x
<1>2. Consistent(x)
  BY <1>1 DEF Consistent
<1>3. \A g : LayersRead(x, g)
  BY <1>1 DEF LayersRead
<1> QED
  BY <1>1, <1>2, <1>3 DEF x

\* A process about to open the file of a layer that comes after those read.
LEMMA Opening ==
  ASSUME NEW s \in Process, Consistent(s), NEW path \in Paths, NEW layer \in Layers,
         s.op \in {"load", "rc"}, s.pc \notin {"copy", "exited", "killed"},
         NEW g, NEW c,
         layer # "language" => Silent(g, "runtime") /\ Silent(g, "language")
  PROVE  LET x == [s EXCEPT !.pc = "open", !.path = path, !.layer = layer] IN
         x \in Process /\ Consistent(x) /\ LayersRead(x, g) /\ Checked(x, c)
<1> DEFINE x == [s EXCEPT !.pc = "open", !.path = path, !.layer = layer]
<1>0. x \in Process
  <2> DEFINE y == [s EXCEPT !.pc = "open"]
             z == [y EXCEPT !.path = path]
  <2>1. y \in Process
    BY Went DEF Labels
  <2>2. z \in Process
    <3> HIDE DEF y
    <3> QED
      BY <2>1 DEF Process
  <2>3. x = [z EXCEPT !.layer = layer]
    BY DEF Process
  <2> HIDE DEF x, z
  <2> QED
    BY <2>2, <2>3 DEF Process
<1>1. /\ x \in Process /\ x.pc = "open" /\ x.path = path /\ x.layer = layer
      /\ x.op = s.op /\ x.created = s.created
  BY <1>0 DEF Process
<1> HIDE DEF x
<1>2. Consistent(x)
  BY <1>1 DEF Consistent
<1>3. LayersRead(x, g) /\ Checked(x, c)
  BY <1>1 DEF LayersRead, Checked
<1> QED
  BY <1>1, <1>2, <1>3 DEF x

\* A step that changes the control state of one process and no configuration.
LEMMA ControlStep ==
  ASSUME ProcessInv, LayersOverride, NEW p \in Procs, NEW x \in Process, Becomes(p, x),
         Consistent(x), LayersRead(x, given[p]), Checked(x, config[p]),
         UNCHANGED <<config, given>>
  PROVE  ProcessInv' /\ LayersOverride'
<1>1. st' \in [Procs -> Process]
  BY DEF ProcessInv, Becomes
<1>2. \A q \in Procs : st'[q] = IF q = p THEN x ELSE st[q]
  BY DEF ProcessInv, Becomes
<1>3. \A q \in Procs : Consistent(st'[q])
  BY <1>2 DEF ProcessInv
<1>4. \A q \in Procs : LayersRead(st'[q], given[q]) /\ Checked(st'[q], config[q])
  BY <1>2 DEF ProcessInv
<1>5. ProcessInv'
  BY <1>1, <1>3, <1>4 DEF ProcessInv
<1>6. LayersOverride'
  BY DEF LayersOverride, Layered
<1> QED
  BY <1>5, <1>6

\* A step that ends a command without reporting success.
LEMMA FailStep ==
  ASSUME ProcessInv, LayersOverride, NEW p \in Procs, ~At(p, "idle"), Exit(p, 1),
         UNCHANGED <<config, given>>
  PROVE  ProcessInv' /\ LayersOverride'
<1> DEFINE x == [st[p] EXCEPT !.pc = "exited", !.status = 1]
<1>1. st[p] \in Process /\ Consistent(st[p]) /\ st[p].pc # "idle"
  BY DEF ProcessInv, At
<1>2. x \in Process /\ Consistent(x) /\ LayersRead(x, given[p]) /\ x.status = 1
  BY <1>1, Exited
<1>3. Becomes(p, x)
  BY DEF Exit
<1> HIDE DEF x
<1>4. Checked(x, config[p])
  BY <1>2 DEF Checked
<1> QED
  BY <1>2, <1>3, <1>4, ControlStep

\* A step that ends a command with the answer of its validation.
LEMMA ReturnStep ==
  ASSUME ProcessInv, LayersOverride, NEW p \in Procs, ~At(p, "idle"),
         NEW ok, Return(p, ok),
         ok /\ st[p].op = "load" => validate_required(config[p], TRUE, st[p].language),
         UNCHANGED <<config, given>>
  PROVE  ProcessInv' /\ LayersOverride'
<1> DEFINE n == IF ok THEN 0 ELSE 1
           x == [st[p] EXCEPT !.pc = "exited", !.status = n]
<1>1. st[p] \in Process /\ Consistent(st[p]) /\ st[p].pc # "idle"
  BY DEF ProcessInv, At
<1>2. n \in {0, 1} /\ (n = 0 => ok)
  OBVIOUS
<1>3. Becomes(p, x)
  BY DEF Return, Exit
<1> HIDE DEF n
<1>4. /\ x \in Process /\ Consistent(x) /\ LayersRead(x, given[p])
      /\ x.status = n /\ x.op = st[p].op /\ x.language = st[p].language
  BY <1>1, <1>2, Exited
<1> HIDE DEF x
<1>5. Checked(x, config[p])
  BY <1>2, <1>4 DEF Checked
<1> QED
  BY <1>3, <1>4, <1>5, ControlStep

----------------------------------------------------------------------------
(* The start of a command *)

LEMMA CommandForms ==
  ASSUME NEW args
  PROVE  \/ \E language : polycall_config_cli(args) = Load(language)
         \/ \E path : polycall_config_cli(args) = ValidateOne(path)
         \/ \E language : polycall_config_cli(args) = Rc(language)
         \/ \E source, dest : polycall_config_cli(args) = Migrate(source, dest)
         \/ polycall_config_cli(args) = Usage
BY DEF polycall_config_cli

LEMMA IdleProcess == Idle \in Process
<1>1. <<>> \in Seq(Line)
  OBVIOUS
<1> QED
  BY <1>1 DEF Idle, Process, Labels

LEMMA InferLayer == ASSUME NEW path PROVE infer_layer(path) \in Layers
BY DEF infer_layer, Layers

LEMMA Started ==
  ASSUME NEW p \in Procs, NEW args \in Commands[p],
         NEW g, Silent(g, "runtime"), Silent(g, "language"), NEW c
  PROVE  LET x == polycall_config_cli(args) IN
         /\ x \in Process /\ Consistent(x) /\ LayersRead(x, g) /\ Checked(x, c)
         /\ ~x.created
<1> DEFINE x == polycall_config_cli(args)
<1>0. /\ x.language \in STRING \cup {None}
      /\ x.op \in {"one", "migrate"} => x.path \in Paths
      /\ x.op = "migrate" => x.dest \in Paths
  BY CommandsAssumption
<1>1. <<>> \in Seq(Line)
  OBVIOUS
<1> HIDE DEF x
<1>2. CASE \E language : x = Load(language)
  <2>1. PICK language : x = Load(language)
    BY <1>2
  <2>2. /\ x.pc = "test_project" /\ x.op = "load" /\ x.language = language
        /\ x.path = None /\ x.layer = None /\ x.dest = None /\ x.buf = <<>>
        /\ x.copied = 0 /\ x.created = FALSE /\ x.status = None
    BY <2>1 DEF Load, Idle
  <2>3. x \in Process
    BY <1>0, <1>1, <2>1, <2>2 DEF Load, Idle, Process, Labels
  <2> QED
    BY <2>2, <2>3 DEF Consistent, LayersRead, Checked, x
<1>3. CASE \E path : x = ValidateOne(path)
  <2>1. PICK path : x = ValidateOne(path)
    BY <1>3
  <2>2. /\ x.pc = "open" /\ x.op = "one" /\ x.path = path /\ x.layer = infer_layer(path)
        /\ x.language = infer_language(path) /\ x.created = FALSE
    BY <2>1 DEF ValidateOne, Idle
  <2>3. x.layer \in Layers
    BY <2>2, InferLayer
  <2>4. x \in Process
    BY <1>0, <1>1, <2>1, <2>2, <2>3 DEF ValidateOne, Idle, Process, Labels
  <2> QED
    BY <1>0, <2>2, <2>3, <2>4 DEF Consistent, LayersRead, Checked, x
<1>4. CASE \E language : x = Rc(language)
  <2>1. PICK language : x = Rc(language)
    BY <1>4
  <2>2. CASE language \in Languages
    <3>1. /\ x.pc = "test_language" /\ x.op = "rc" /\ x.language = language
          /\ x.created = FALSE
      BY <2>1, <2>2 DEF Rc, Idle
    <3>2. x \in Process
      BY <1>0, <1>1, <2>1, <2>2, <3>1 DEF Rc, Idle, Process, Labels
    <3> QED
      BY <2>2, <3>1, <3>2 DEF Consistent, LayersRead, Checked, x
  <2>3. CASE language \notin Languages
    <3>1. x.pc = "exited" /\ x.op = "rc" /\ x.created = FALSE
      BY <2>1, <2>3 DEF Rc, Idle
    <3>2. x \in Process
      BY <1>0, <1>1, <2>1, <2>3, <3>1 DEF Rc, Idle, Process, Labels
    <3> QED
      BY <3>1, <3>2 DEF Consistent, LayersRead, Checked, x
  <2> QED
    BY <2>2, <2>3
<1>5. CASE \E source, dest : x = Migrate(source, dest)
  <2>1. PICK source, dest : x = Migrate(source, dest)
    BY <1>5
  <2>2. /\ x.pc = "test_dest" /\ x.op = "migrate" /\ x.path = source /\ x.dest = dest
        /\ x.created = FALSE
    BY <2>1 DEF Migrate, Idle
  <2>3. x \in Process
    BY <1>0, <1>1, <2>1, <2>2 DEF Migrate, Idle, Process, Labels
  <2> QED
    BY <1>0, <2>2, <2>3 DEF Consistent, LayersRead, Checked, x
<1>6. CASE x = Usage
  <2>1. x.pc = "exited" /\ x.op = "usage" /\ x.created = FALSE
    BY <1>6 DEF Usage, Idle
  <2>2. x \in Process
    BY <1>0, <1>1, <1>6, <2>1 DEF Usage, Idle, Process, Labels
  <2> QED
    BY <2>1, <2>2 DEF Consistent, LayersRead, Checked, x
<1> QED
  BY <1>2, <1>3, <1>4, <1>5, <1>6, CommandForms DEF x

----------------------------------------------------------------------------
(* The steps of a command *)

Control == ProcessInv /\ LayersOverride

LEMMA PathFacts ==
  /\ Polycallfile \in Paths /\ Polycallrc \in Paths /\ Legacy \in Paths
  /\ \A l \in Languages : Override(l) \in Paths
BY ConfigAssumption

LEMMA StartStep ==
  ASSUME Control, NEW p \in Procs, Start(p)
  PROVE  Control'
<1>1. PICK args \in Commands[p] : Becomes(p, polycall_config_cli(args))
  BY DEF Start
<1>2. Silent(given[p], "runtime") /\ Silent(given[p], "language")
  BY DEF Start, At, Control, ProcessInv, LayersRead
<1> DEFINE x == polycall_config_cli(args)
<1>3. x \in Process /\ Consistent(x) /\ LayersRead(x, given[p]) /\ Checked(x, config[p])
  BY <1>2, Started
<1> HIDE DEF x
<1>4. UNCHANGED <<config, given>>
  BY DEF Start
<1> QED
  BY <1>1, <1>3, <1>4, ControlStep DEF x, Control

\* Opening the file of a layer that comes after those read.
LEMMA OpensStep ==
  ASSUME Control, NEW p \in Procs, NEW path \in Paths, NEW layer \in Layers,
         Opens(p, path, layer), UNCHANGED <<config, given>>,
         st[p].pc \in {"test_project", "test_runtime", "test_language", "test_legacy"},
         layer # "language" => st[p].pc \in {"test_project", "test_runtime"}
  PROVE  Control'
<1> DEFINE x == [st[p] EXCEPT !.pc = "open", !.path = path, !.layer = layer]
<1>1. st[p] \in Process /\ Consistent(st[p]) /\ LayersRead(st[p], given[p])
  BY DEF Control, ProcessInv
<1>2. st[p].op \in {"load", "rc"} /\ st[p].pc \notin {"copy", "exited", "killed"}
  BY <1>1 DEF Consistent
<1>3. layer # "language" => Silent(given[p], "runtime") /\ Silent(given[p], "language")
  BY <1>1 DEF LayersRead
<1>4. x \in Process /\ Consistent(x) /\ LayersRead(x, given[p]) /\ Checked(x, config[p])
  BY <1>1, <1>2, <1>3, Opening
<1>5. Becomes(p, x)
  BY DEF Opens
<1> HIDE DEF x
<1> QED
  BY <1>4, <1>5, ControlStep DEF Control

\* Going on to another label with the same arguments.
LEMMA GotoStep ==
  ASSUME Control, NEW p \in Procs, NEW label \in Labels \ {"idle", "open", "read", "exited"},
         Goto(p, label), UNCHANGED <<config, given>>, ~At(p, "idle"),
         label \in {"test_project", "test_runtime"} =>
            /\ st[p].op = "load" 
            /\ Silent(given[p], "runtime") /\ Silent(given[p], "language"),
         label \in {"test_language", "test_legacy"} =>
            st[p].op \in {"load", "rc"} /\ st[p].language \in Languages,
         label \in {"test_dest", "open_input", "open_output", "fill", "copy"} => st[p].op = "migrate",
         st[p].created => label = "killed"
  PROVE  Control'
<1> DEFINE x == [st[p] EXCEPT !.pc = label]
<1>1. st[p] \in Process /\ Consistent(st[p]) /\ st[p].pc # "idle"
  BY DEF Control, ProcessInv, At
<1>2. /\ x \in Process /\ x.pc = label /\ x.op = st[p].op /\ x.path = st[p].path
      /\ x.language = st[p].language /\ x.dest = st[p].dest /\ x.created = st[p].created
  BY <1>1, Went
<1>3. Becomes(p, x)
  BY DEF Goto
<1> HIDE DEF x
<1>4. Consistent(x)
  BY <1>1, <1>2 DEF Consistent
<1>5. LayersRead(x, given[p]) /\ Checked(x, config[p])
  BY <1>1, <1>2 DEF LayersRead, Checked
<1> QED
  BY <1>2, <1>3, <1>4, <1>5, ControlStep DEF Control

LEMMA TestProjectStep ==
  ASSUME Control, NEW p \in Procs, TestProject(p)
  PROVE  Control'
<1>1. ~At(p, "idle") /\ UNCHANGED <<config, given>>
  BY DEF TestProject, At
<1>2. CASE Opens(p, Polycallfile, "project")
  <2>1. st[p].pc = "test_project" /\ "project" \in Layers
    BY DEF TestProject, At, Layers
  <2> QED
    BY <1>1, <1>2, <2>1, OpensStep, PathFacts
<1>3. CASE Exit(p, 1)
  BY <1>1, <1>3, FailStep DEF Control
<1> QED
  BY <1>2, <1>3 DEF TestProject

LEMMA AfterRuntimeStep ==
  ASSUME Control, NEW p \in Procs, AfterRuntime(p), st[p].op = "load",
         st[p].pc \in {"test_runtime", "read"}, UNCHANGED <<config, given>>
  PROVE  Control'
<1>1. ~At(p, "idle") /\ st[p].created = FALSE
  BY DEF At, Control, ProcessInv, Consistent, Process
<1>2. CASE st[p].language = None
  <2>1. Return(p, validate_required(config[p], TRUE, None))
    BY <1>2, ConfigAssumption DEF AfterRuntime
  <2> DEFINE ok == validate_required(config[p], TRUE, None)
  <2>2. ok => validate_required(config[p], TRUE, st[p].language)
    BY <1>2
  <2> HIDE DEF ok
  <2> QED
    BY <1>1, <2>1, <2>2, ReturnStep DEF Control, ok
<1>3. CASE st[p].language # None /\ st[p].language \in Languages
  <2>1. Goto(p, "test_language")
    BY <1>3 DEF AfterRuntime
  <2>2. "test_language" \in Labels \ {"idle", "open", "read", "exited"}
    BY DEF Labels
  <2> QED
    BY <1>1, <1>3, <2>1, <2>2, GotoStep
<1>4. CASE st[p].language # None /\ st[p].language \notin Languages
  <2>1. Exit(p, 1)
    BY <1>4 DEF AfterRuntime
  <2> QED
    BY <1>1, <2>1, FailStep DEF Control
<1> QED
  BY <1>2, <1>3, <1>4

LEMMA TestRuntimeStep ==
  ASSUME Control, NEW p \in Procs, TestRuntime(p)
  PROVE  Control'
<1>1. st[p].pc = "test_runtime" /\ st[p].op = "load" /\ UNCHANGED <<config, given>>
  BY DEF TestRuntime, At, Control, ProcessInv, Consistent
<1>2. CASE Opens(p, Polycallrc, "runtime")
  <2>1. "runtime" \in Layers
    BY DEF Layers
  <2> QED
    BY <1>1, <1>2, <2>1, OpensStep, PathFacts
<1>3. CASE AfterRuntime(p)
  BY <1>1, <1>3, AfterRuntimeStep
<1> QED
  BY <1>2, <1>3 DEF TestRuntime

LEMMA TestLanguageStep ==
  ASSUME Control, NEW p \in Procs, TestLanguage(p)
  PROVE  Control'
<1>1. /\ st[p].pc = "test_language" /\ st[p].op \in {"load", "rc"}
      /\ st[p].language \in Languages /\ st[p].created = FALSE
      /\ UNCHANGED <<config, given>>
  BY DEF TestLanguage, At, Control, ProcessInv, Consistent, Process
<1>2. CASE Opens(p, Override(st[p].language), "language")
  <2>1. "language" \in Layers /\ Override(st[p].language) \in Paths
    BY <1>1, PathFacts DEF Layers
  <2> QED
    BY <1>1, <1>2, <2>1, OpensStep
<1>3. CASE Goto(p, "test_legacy")
  <2>1. "test_legacy" \in Labels \ {"idle", "open", "read", "exited"} /\ ~At(p, "idle")
    BY <1>1 DEF Labels, At
  <2> QED
    BY <1>1, <1>3, <2>1, GotoStep
<1> QED
  BY <1>2, <1>3 DEF TestLanguage

LEMMA TestLegacyStep ==
  ASSUME Control, NEW p \in Procs, TestLegacy(p)
  PROVE  Control'
<1>1. st[p].pc = "test_legacy" /\ ~At(p, "idle") /\ UNCHANGED <<config, given>>
  BY DEF TestLegacy, At
<1>2. CASE Opens(p, Legacy, "language")
  <2>1. "language" \in Layers
    BY DEF Layers
  <2> QED
    BY <1>1, <1>2, <2>1, OpensStep, PathFacts
<1>3. CASE Exit(p, 1)
  BY <1>1, <1>3, FailStep DEF Control
<1> QED
  BY <1>2, <1>3 DEF TestLegacy

\* A file that is there is a sequence of lines.
LEMMA Content ==
  ASSUME FilesInv, NEW path \in Paths, Present(path)
  PROVE  files[path] \in Seq(Line)
BY DEF FilesInv, Present

\* Taking a file in on the way to a label.
LEMMA Taken ==
  ASSUME NEW s \in Process, Consistent(s), NEW content \in Seq(Line),
         NEW label,
         \/ s.pc = "open" /\ label = "read"
         \/ s.pc = "open_input" /\ label = "open_output"
         \/ s.pc = "fill" /\ label = "copy",
         NEW g, LayersRead(s, g), NEW c
  PROVE  LET x == [s EXCEPT !.pc = label, !.buf = content] IN
         x \in Process /\ Consistent(x) /\ LayersRead(x, g) /\ Checked(x, c)
<1> DEFINE y == [s EXCEPT !.pc = label]
           x == [s EXCEPT !.pc = label, !.buf = content]
<1>1. y \in Process
  BY Went DEF Labels
<1>2. x = [y EXCEPT !.buf = content]
  BY DEF Process
<1>3. /\ x.pc = label /\ x.op = s.op /\ x.path = s.path /\ x.layer = s.layer
      /\ x.dest = s.dest /\ x.created = s.created
  BY DEF Process
<1> HIDE DEF x, y
<1>4. x \in Process
  BY <1>1, <1>2 DEF Process
<1>5. Consistent(x)
  BY <1>3 DEF Consistent
<1>6. LayersRead(x, g) /\ Checked(x, c)
  BY <1>3 DEF LayersRead, Checked
<1> QED
  BY <1>4, <1>5, <1>6 DEF x

LEMMA OpenStep ==
  ASSUME FilesInv, Control, NEW p \in Procs, Open(p)
  PROVE  Control'
<1>1. /\ st[p] \in Process /\ st[p].pc = "open" /\ Consistent(st[p])
      /\ LayersRead(st[p], given[p]) /\ UNCHANGED <<config, given>>
  BY DEF Open, At, Control, ProcessInv
<1>2. CASE file_exists(st[p].path)
  <2> DEFINE content == files[st[p].path]
             x == [st[p] EXCEPT !.pc = "read", !.buf = content]
  <2>1. content \in Seq(Line)
    <3>1. st[p].path \in Paths
      BY <1>1 DEF Consistent
    <3> QED
      BY <1>2, <3>1, Content DEF file_exists
  <2>2. Becomes(p, x)
    BY <1>2 DEF Open
  <2> HIDE DEF content
  <2>3. x \in Process /\ Consistent(x) /\ LayersRead(x, given[p]) /\ Checked(x, config[p])
    BY <1>1, <2>1, Taken
  <2> HIDE DEF x
  <2> QED
    BY <1>1, <2>2, <2>3, ControlStep DEF Control
<1>3. CASE ~file_exists(st[p].path)
  <2>1. Exit(p, 1) /\ ~At(p, "idle")
    BY <1>1, <1>3 DEF Open, At
  <2> QED
    BY <1>1, <2>1, FailStep DEF Control
<1> QED
  BY <1>2, <1>3

LEMMA OpenInputStep ==
  ASSUME FilesInv, Control, NEW p \in Procs, OpenInput(p)
  PROVE  Control'
<1>1. /\ st[p] \in Process /\ st[p].pc = "open_input" /\ Consistent(st[p])
      /\ LayersRead(st[p], given[p]) /\ UNCHANGED <<config, given>>
  BY DEF OpenInput, At, Control, ProcessInv
<1>2. CASE file_exists(st[p].path)
  <2> DEFINE content == files[st[p].path]
             x == [st[p] EXCEPT !.pc = "open_output", !.buf = content]
  <2>1. content \in Seq(Line)
    <3>1. st[p].path \in Paths
      BY <1>1 DEF Consistent
    <3> QED
      BY <1>2, <3>1, Content DEF file_exists
  <2>2. Becomes(p, x)
    BY <1>2 DEF OpenInput
  <2> HIDE DEF content
  <2>3. x \in Process /\ Consistent(x) /\ LayersRead(x, given[p]) /\ Checked(x, config[p])
    BY <1>1, <2>1, Taken
  <2> HIDE DEF x
  <2> QED
    BY <1>1, <2>2, <2>3, ControlStep DEF Control
<1>3. CASE ~file_exists(st[p].path)
  <2>1. Exit(p, 1) /\ ~At(p, "idle")
    BY <1>1, <1>3 DEF OpenInput, At
  <2> QED
    BY <1>1, <2>1, FailStep DEF Control
<1> QED
  BY <1>2, <1>3

LEMMA FillStep ==
  ASSUME FilesInv, Control, NEW p \in Procs, Fill(p)
  PROVE  Control'
<1>1. /\ st[p] \in Process /\ st[p].pc = "fill" /\ Consistent(st[p])
      /\ LayersRead(st[p], given[p]) /\ UNCHANGED <<config, given>>
  BY DEF Fill, At, Control, ProcessInv
<1>2. PICK text \in {st[p].buf, files[st[p].path]} \ {Absent} :
        Becomes(p, [st[p] EXCEPT !.pc = "copy", !.buf = text])
  BY DEF Fill
<1>3. text \in Seq(Line)
  <2>1. st[p].path \in Paths
    BY <1>1 DEF Consistent
  <2>2. st[p].buf \in Seq(Line)
    BY <1>1 DEF Process
  <2> QED
    BY <1>2, <2>1, <2>2, Content DEF Present
<1> DEFINE x == [st[p] EXCEPT !.pc = "copy", !.buf = text]
<1>4. x \in Process /\ Consistent(x) /\ LayersRead(x, given[p]) /\ Checked(x, config[p])
  BY <1>1, <1>3, Taken
<1>5. Becomes(p, x)
  BY <1>2
<1> HIDE DEF x
<1> QED
  BY <1>1, <1>4, <1>5, ControlStep DEF Control

LEMMA EndOfFileStep ==
  ASSUME Control, NEW p \in Procs, EndOfFile(p)
  PROVE  Control'
<1>1. /\ st[p].pc = "read" /\ ~At(p, "idle") /\ st[p].created = FALSE
      /\ st[p].op \in {"load", "one", "rc", "migrate"} /\ st[p].layer \in Layers
      /\ UNCHANGED <<config, given>>
  BY DEF EndOfFile, At, Control, ProcessInv, Consistent, Process
<1>2. CASE st[p].op = "load" /\ st[p].layer = "project"
  <2>1. Goto(p, "test_runtime")
    BY <1>2 DEF EndOfFile
  <2>2. Silent(given[p], "runtime") /\ Silent(given[p], "language")
    BY <1>1, <1>2 DEF Control, ProcessInv, LayersRead
  <2>3. "test_runtime" \in Labels \ {"idle", "open", "read", "exited"}
    BY DEF Labels
  <2> QED
    BY <1>1, <1>2, <2>1, <2>2, <2>3, GotoStep
<1>3. CASE st[p].op = "load" /\ st[p].layer = "runtime"
  <2>1. AfterRuntime(p)
    BY <1>3 DEF EndOfFile
  <2> QED
    BY <1>1, <1>3, <2>1, AfterRuntimeStep
<1>4. CASE st[p].op = "load" /\ st[p].layer = "language"
  <2> DEFINE ok == validate_required(config[p], TRUE, st[p].language)
  <2>1. Return(p, ok)
    BY <1>4 DEF EndOfFile
  <2>2. ok /\ st[p].op = "load" => validate_required(config[p], TRUE, st[p].language)
    OBVIOUS
  <2> HIDE DEF ok
  <2> QED
    BY <1>1, <2>1, <2>2, ReturnStep DEF Control
<1>5. CASE st[p].op = "one"
  <2> DEFINE ok == validate_required(config[p], st[p].layer = "project", st[p].language)
  <2>1. Return(p, ok)
    BY <1>5 DEF EndOfFile
  <2> HIDE DEF ok
  <2> QED
    BY <1>1, <1>5, <2>1, ReturnStep DEF Control
<1>6. CASE st[p].op = "rc"
  <2> DEFINE ok == validate_required(config[p], FALSE, st[p].language)
  <2>1. Return(p, ok)
    BY <1>6 DEF EndOfFile
  <2> HIDE DEF ok
  <2> QED
    BY <1>1, <1>6, <2>1, ReturnStep DEF Control
<1>7. CASE st[p].op = "migrate"
  <2>1. Goto(p, "open_input") \/ Exit(p, 1)
    BY <1>7 DEF EndOfFile
  <2>2. "open_input" \in Labels \ {"idle", "open", "read", "exited"}
    BY DEF Labels
  <2>3. CASE Goto(p, "open_input")
    BY <1>1, <1>7, <2>2, <2>3, GotoStep
  <2>4. CASE Exit(p, 1)
    BY <1>1, <2>4, FailStep DEF Control
  <2> QED
    BY <2>1, <2>3, <2>4
<1> QED
  BY <1>1, <1>2, <1>3, <1>4, <1>5, <1>6, <1>7 DEF Layers

LEMMA TestDestStep ==
  ASSUME Control, NEW p \in Procs, TestDest(p)
  PROVE  Control'
<1>1. /\ st[p] \in Process /\ Consistent(st[p]) /\ st[p].pc = "test_dest"
      /\ ~At(p, "idle") /\ UNCHANGED <<config, given>>
  BY DEF TestDest, At, Control, ProcessInv
<1>2. CASE Exit(p, 1)
  BY <1>1, <1>2, FailStep DEF Control
<1>3. CASE ~Exit(p, 1)
  <2> DEFINE l == infer_language(st[p].dest)
             y == [st[p] EXCEPT !.pc = "open"]
             z == [y EXCEPT !.layer = "language"]
             x == [st[p] EXCEPT !.pc = "open", !.layer = "language", !.language = l]
  <2>1. l \in Languages /\ Becomes(p, x)
    BY <1>3 DEF TestDest
  <2>2. l \in STRING
    BY <2>1, ConfigAssumption
  <2> HIDE DEF l
  <2>3. y \in Process
    BY <1>1, Went DEF Labels
  <2>4. z \in Process
    <3> HIDE DEF y
    <3> QED
      BY <2>3 DEF Process, Layers
  <2>5. x = [z EXCEPT !.language = l]
    BY <1>1 DEF Process
  <2>6. /\ x.pc = "open" /\ x.layer = "language" /\ x.op = st[p].op /\ x.path = st[p].path
        /\ x.dest = st[p].dest /\ x.created = st[p].created
    BY <1>1 DEF Process
  <2> HIDE DEF x, y, z
  <2>7. x \in Process
    BY <2>2, <2>4, <2>5 DEF Process
  <2>8. Consistent(x) /\ LayersRead(x, given[p]) /\ Checked(x, config[p])
    BY <1>1, <2>6 DEF Consistent, LayersRead, Checked, Layers
  <2> QED
    BY <1>1, <2>1, <2>7, <2>8, ControlStep DEF Control
<1> QED
  BY <1>2, <1>3

\* Giving a key a value in one layer changes nothing else that was given.
LEMMA Give ==
  ASSUME NEW g \in Given, NEW layer \in Layers, NEW key \in Keys, NEW value \in Value
  PROVE  LET h == [g EXCEPT ![layer][key] = value] IN
         /\ h \in Given
         /\ \A l \in Layers, k \in Keys :
              h[l][k] = IF l = layer /\ k = key THEN value ELSE g[l][k]
BY DEF Given

\* The value the layers of g give a key.
LayeredIn(g, key) ==
  IF g["language"][key] # None THEN g["language"][key]
  ELSE IF g["runtime"][key] # None THEN g["runtime"][key]
  ELSE g["project"][key]

LEMMA ReadLineStep ==
  ASSUME Control, NEW p \in Procs, ReadLine(p)
  PROVE  Control'
<1> DEFINE line == Head(st[p].buf)
           layer == st[p].layer
           b == Tail(st[p].buf)
           x == [st[p] EXCEPT !.buf = b]
           c == config[p]
           d == parse_line(c, layer, line)
           g == given[p]
           h == IF line.kind = "value"
                THEN [g EXCEPT ![layer][line.key] = line.value] ELSE g
<1>1. /\ st[p].pc = "read" /\ st[p].buf # <<>> /\ Accepts(c, layer, line)
      /\ config' = [config EXCEPT ![p] = d]
      /\ given' = IF line.kind = "value"
                  THEN [given EXCEPT ![p][layer][line.key] = line.value] ELSE given
      /\ Becomes(p, x)
  BY DEF ReadLine, At
<1>2. /\ st[p] \in Process /\ Consistent(st[p]) /\ LayersRead(st[p], g)
      /\ Bounded(c) /\ g \in Given
  BY DEF Control, ProcessInv
<1>3. line \in Line /\ b \in Seq(Line)
  <2>1. st[p].buf \in Seq(Line)
    BY <1>2 DEF Process
  <2> QED
    BY <1>1, <2>1
<1>4. layer \in Layers
  BY <1>1, <1>2 DEF Consistent
<1>5. x \in Process /\ Consistent(x) /\ x.pc = "read" /\ x.layer = layer
  <2> HIDE DEF b
  <2>1. /\ x \in Process /\ x.pc = st[p].pc /\ x.op = st[p].op /\ x.path = st[p].path
        /\ x.layer = st[p].layer /\ x.language = st[p].language /\ x.dest = st[p].dest
        /\ x.created = st[p].created
    BY <1>2, <1>3 DEF Process
  <2> HIDE DEF x
  <2> QED
    BY <1>1, <1>2, <2>1 DEF Consistent
<1>6. given' \in [Procs -> Given] /\ \A q \in Procs : given'[q] = IF q = p THEN h ELSE given[q]
  <2> HIDE DEF line, layer
  <2>1. CASE line.kind = "value"
    <3>1. h \in Given
      BY <1>2, <1>3, <1>4, <2>1, LineFields, Give
    <3>2. given' = [given EXCEPT ![p] = h]
      BY <1>1, <2>1
    <3> HIDE DEF h
    <3> QED
      BY <3>1, <3>2 DEF Control, ProcessInv
  <2>2. CASE line.kind # "value"
    BY <1>1, <2>2 DEF Control, ProcessInv
  <2> QED
    BY <2>1, <2>2
<1> HIDE DEF line, layer, x, b
<1>7. /\ Bounded(d)
      /\ \A key \in Keys :
           config_get(d, key) = IF line.kind = "value" /\ key = line.key
                                THEN line.value ELSE config_get(c, key)
  <2> HIDE DEF c, d
  <2>1. CASE line.kind = "value"
    BY <1>1, <1>2, <1>3, <2>1, TakeValue DEF d
  <2>2. CASE line.kind # "value"
    BY <1>1, <1>2, <1>3, <2>2, TakeOther DEF d
  <2> QED
    BY <2>1, <2>2
<1> HIDE DEF d
<1>8. /\ h \in Given
      /\ \A l \in Layers, k \in Keys :
           h[l][k] = IF line.kind = "value" /\ l = layer /\ k = line.key
                     THEN line.value ELSE g[l][k]
  <2>1. CASE line.kind = "value"
    <3> DEFINE k == line.key
               v == line.value
    <3>1. k \in Keys /\ v \in Value
      BY <1>3, <2>1, LineFields
    <3>2. h = [g EXCEPT ![layer][k] = v]
      BY <2>1
    <3> HIDE DEF g, h, k, v
    <3>3. h \in Given
          /\ \A l \in Layers, j \in Keys : h[l][j] = IF l = layer /\ j = k THEN v ELSE g[l][j]
      BY <1>2, <1>4, <3>1, <3>2 DEF Given
    <3> QED
      BY <2>1, <3>3 DEF k, v
  <2>2. CASE line.kind # "value"
    BY <1>2, <2>2
  <2> QED
    BY <2>1, <2>2
<1> HIDE DEF h
<1>9. config' \in [Procs -> PolycallConfig]
      /\ \A q \in Procs : config'[q] = IF q = p THEN d ELSE config[q]
  BY <1>1, <1>7 DEF Control, ProcessInv, Bounded
<1>10. st' \in [Procs -> Process] /\ \A q \in Procs : st'[q] = IF q = p THEN x ELSE st[q]
  BY <1>1, <1>5 DEF Control, ProcessInv, Becomes
<1>11. LayersRead(x, h)
  <2>1. \A l \in Layers \ {layer} : Silent(g, l) => Silent(h, l)
    BY <1>8 DEF Silent
  <2>2. LayersRead(x, g)
    BY <1>1, <1>2, <1>5 DEF LayersRead, layer
  <2> QED
    BY <1>5, <2>1, <2>2 DEF LayersRead, Layers
<1>12. Checked(x, d)
  BY <1>5 DEF Checked
<1>13. ProcessInv'
  <2>1. \A q \in Procs : Bounded(config'[q])
    BY <1>7, <1>9 DEF Control, ProcessInv
  <2>2. \A q \in Procs : Consistent(st'[q])
    BY <1>5, <1>10 DEF Control, ProcessInv
  <2>3. \A q \in Procs : LayersRead(st'[q], given'[q])
    BY <1>6, <1>10, <1>11 DEF Control, ProcessInv
  <2>4. \A q \in Procs : Checked(st'[q], config'[q])
    BY <1>9, <1>10, <1>12 DEF Control, ProcessInv
  <2>5. given' \in [Procs -> Given] /\ config' \in [Procs -> PolycallConfig]
        /\ st' \in [Procs -> Process]
    BY <1>6, <1>9, <1>10
  <2> QED
    BY <2>1, <2>2, <2>3, <2>4, <2>5 DEF ProcessInv
<1>14. LayersOverride'
  <2>1. \A q \in Procs, key \in Keys :
          config_get(config[q], key) = LayeredIn(given[q], key)
    BY DEF Control, LayersOverride, Layered, LayeredIn
  <2>2. \A key \in Keys : config_get(d, key) = LayeredIn(h, key)
    <3> TAKE key \in Keys
    <3>1. config_get(c, key) = LayeredIn(g, key)
      BY <2>1
    <3>2. CASE line.kind = "value" /\ key = line.key
      <4>1. config_get(d, key) = line.value /\ line.value # None /\ h[layer][key] = line.value
        BY <1>3, <1>4, <1>7, <1>8, <3>2, LineFields, ConfigAssumption
      <4>2. layer = "project" => h["runtime"][key] = None /\ h["language"][key] = None
        BY <1>5, <1>11 DEF LayersRead, Silent
      <4>3. layer = "runtime" => h["language"][key] = None
        BY <1>5, <1>11 DEF LayersRead, Silent
      <4> QED
        BY <1>4, <4>1, <4>2, <4>3 DEF LayeredIn, Layers
    <3>3. CASE ~(line.kind = "value" /\ key = line.key)
      <4>1. \A l \in Layers : h[l][key] = g[l][key]
        BY <1>8, <3>3
      <4>2. LayeredIn(h, key) = LayeredIn(g, key)
        BY <4>1 DEF LayeredIn, Layers
      <4>3. config_get(d, key) = config_get(c, key)
        BY <1>7, <3>3
      <4> QED
        BY <3>1, <4>2, <4>3
    <3> QED
      BY <3>2, <3>3
  <2>3. \A q \in Procs, key \in Keys :
          config_get(config'[q], key) = LayeredIn(given'[q], key)
    BY <1>6, <1>9, <2>1, <2>2
  <2> QED
    BY <2>3 DEF LayersOverride, Layered, LayeredIn
<1> QED
  BY <1>13, <1>14 DEF Control

----------------------------------------------------------------------------
(* The steps of a migration, and of the surroundings *)

LEMMA OpenOutputStep ==
  ASSUME Control, NEW p \in Procs, OpenOutput(p)
  PROVE  Control'
<1> DEFINE y == [st[p] EXCEPT !.pc = "fill"]
           x == [st[p] EXCEPT !.pc = "fill", !.created = TRUE]
<1>1. /\ st[p] \in Process /\ Consistent(st[p]) /\ st[p].pc = "open_output"
      /\ Becomes(p, x) /\ UNCHANGED <<config, given>>
  BY DEF OpenOutput, At, Control, ProcessInv
<1>2. y \in Process
  BY <1>1, Went DEF Labels
<1>3. x = [y EXCEPT !.created = TRUE]
  BY <1>1 DEF Process
<1>4. x.pc = "fill" /\ x.op = st[p].op /\ x.path = st[p].path /\ x.dest = st[p].dest
  BY <1>1 DEF Process
<1> HIDE DEF x, y
<1>5. x \in Process
  BY <1>2, <1>3 DEF Process
<1>6. Consistent(x) /\ LayersRead(x, given[p]) /\ Checked(x, config[p])
  BY <1>1, <1>4 DEF Consistent, LayersRead, Checked
<1> QED
  BY <1>1, <1>5, <1>6, ControlStep DEF Control

LEMMA CopyChunkStep ==
  ASSUME Control, NEW p \in Procs, CopyChunk(p)
  PROVE  Control'
<1> DEFINE b == Tail(st[p].buf)
           n == st[p].copied + 1
           y == [st[p] EXCEPT !.buf = b]
           x == [st[p] EXCEPT !.buf = b, !.copied = n]
<1>1. /\ st[p] \in Process /\ Consistent(st[p]) /\ st[p].pc = "copy" /\ st[p].buf # <<>>
      /\ Becomes(p, x) /\ UNCHANGED <<config, given>>
  BY DEF CopyChunk, At, Control, ProcessInv
<1>2. b \in Seq(Line) /\ n \in Nat
  BY <1>1 DEF Process
<1> HIDE DEF b, n
<1>3. y \in Process
  BY <1>1, <1>2 DEF Process
<1>4. x = [y EXCEPT !.copied = n]
  BY <1>1 DEF Process
<1>5. /\ x.pc = "copy" /\ x.op = st[p].op /\ x.path = st[p].path /\ x.dest = st[p].dest
      /\ x.created = st[p].created
  BY <1>1 DEF Process
<1> HIDE DEF x, y
<1>6. x \in Process
  BY <1>2, <1>3, <1>4 DEF Process
<1>7. Consistent(x) /\ LayersRead(x, given[p]) /\ Checked(x, config[p])
  BY <1>1, <1>5 DEF Consistent, LayersRead, Checked
<1> QED
  BY <1>1, <1>6, <1>7, ControlStep DEF Control

LEMMA CloseOutputStep ==
  ASSUME Control, NEW p \in Procs, CloseOutput(p)
  PROVE  Control'
<1>1. st[p].pc = "copy" /\ st[p].op = "migrate" /\ UNCHANGED <<config, given>>
  BY DEF CloseOutput, At, Control, ProcessInv, Consistent
<1>2. Return(p, TRUE) /\ ~At(p, "idle")
  BY <1>1 DEF CloseOutput, Return, At
<1> QED
  BY <1>1, <1>2, ReturnStep DEF Control

\* The steps that only report a failure.
LEMMA FailureSteps ==
  ASSUME Control, NEW p \in Procs,
         RefuseLine(p) \/ ReadError(p) \/ OpenOutputFails(p)
         \/ WriteFails(p) \/ ReadFails(p)
  PROVE  Control'
<1>1. Exit(p, 1) /\ ~At(p, "idle") /\ UNCHANGED <<config, given>>
  BY DEF RefuseLine, ReadError, OpenOutputFails, WriteFails, ReadFails, At
<1> QED
  BY <1>1, FailStep DEF Control

LEMMA KillStep ==
  ASSUME Control, NEW p \in Procs, Kill(p)
  PROVE  Control'
<1>1. Goto(p, "killed") /\ ~At(p, "idle") /\ UNCHANGED <<config, given>>
  BY DEF Kill, Running, At
<1>2. "killed" \in Labels \ {"idle", "open", "read", "exited"}
  BY DEF Labels
<1> QED
  BY <1>1, <1>2, GotoStep

\* Steps of the user, and steps that change nothing.
LEMMA UserStep ==
  ASSUME Control, UNCHANGED <<st, config, given>>
  PROVE  Control'
BY DEF Control, ProcessInv, LayersOverride, Layered

\* A chunk written into a file leaves a file.
LEMMA OverwriteType ==
  ASSUME NEW content \in Seq(Line), NEW offset \in Nat, NEW line \in Line
  PROVE  Overwrite(content, offset, line) \in Seq(Line)
<1> DEFINE n == IF Len(content) > offset THEN Len(content) ELSE offset + 1
<1>1. n \in Nat
  OBVIOUS
<1>2. [kind |-> "too_long"] \in Line
  BY DEF Line
<1>3. \A i \in 1 .. n : (IF i = offset + 1 THEN line
                       ELSE IF i <= Len(content) THEN content[i]
                       ELSE [kind |-> "too_long"]) \in Line
  BY <1>2
<1> HIDE DEF n
<1>4. Overwrite(content, offset, line) \in [1 .. n -> Line]
  BY <1>3 DEF Overwrite, n
<1> QED
  BY <1>1, <1>4

LEMMA UnlinkFiles ==
  ASSUME FilesInv, NEW path, Unlink(path), edits' \in 0 .. MaxEdits
  PROVE  FilesInv'
BY DEF FilesInv, Unlink

LEMMA ProcessFiles ==
  ASSUME FilesInv, Control, NEW p \in Procs, Start(p) \/ Step(p) \/ Kill(p)
  PROVE  FilesInv'
<1>1. CASE \/ Start(p) \/ TestProject(p) \/ TestRuntime(p) \/ TestLanguage(p)
           \/ TestLegacy(p) \/ Open(p) \/ ReadLine(p) \/ RefuseLine(p) \/ ReadError(p)
           \/ EndOfFile(p) \/ TestDest(p) \/ OpenInput(p) \/ OpenOutputFails(p)
           \/ Fill(p)
  <2>1. UNCHANGED <<files, writers, edits>>
    BY <1>1 DEF Start, TestProject, TestRuntime, TestLanguage, TestLegacy, Open, ReadLine,
                RefuseLine, ReadError, EndOfFile, TestDest, OpenInput, OpenOutputFails,
                Fill
  <2> QED
    BY <2>1 DEF FilesInv
<1>2. CASE OpenOutput(p)
  <2>1. <<>> \in Seq(Line) /\ <<>> # Absent
    <3>1. <<>> \in Seq(Line)
      OBVIOUS
    <3> QED
      BY <3>1, ConfigAssumption
  <2>2. /\ files' = [files EXCEPT ![st[p].dest] = <<>>]
        /\ writers' = [writers EXCEPT ![st[p].dest] = @ \cup {p}]
        /\ edits' = edits
    BY <1>2 DEF OpenOutput
  <2> QED
    BY <2>1, <2>2 DEF FilesInv
<1>3. CASE CopyChunk(p)
  <2> DEFINE f == st[p].dest
             n == st[p].copied
             line == Head(st[p].buf)
  <2>1. /\ files' = IF p \in writers[f]
                    THEN [files EXCEPT ![f] = Overwrite(files[f], n, line)] ELSE files
        /\ writers' = writers /\ edits' = edits /\ st[p].buf # <<>>
    BY <1>3 DEF CopyChunk
  <2>2. st[p] \in Process
    BY DEF Control, ProcessInv
  <2>3. n \in Nat /\ line \in Line
    BY <2>1, <2>2 DEF Process
  <2>4. f \in Paths
    <3>1. Consistent(st[p]) /\ st[p].pc = "copy"
      BY <1>3 DEF CopyChunk, At, Control, ProcessInv
    <3> QED
      BY <3>1 DEF Consistent
  <2> HIDE DEF f, n, line
  <2>5. CASE p \in writers[f]
    <3>1. files[f] \in Seq(Line)
      BY <2>4, <2>5 DEF FilesInv
    <3>2. Overwrite(files[f], n, line) \in Seq(Line)
      BY <2>3, <3>1, OverwriteType
    <3>3. Overwrite(files[f], n, line) # Absent
      BY <3>2, ConfigAssumption
    <3> QED
      BY <2>1, <2>4, <2>5, <3>2, <3>3 DEF FilesInv
  <2>6. CASE p \notin writers[f]
    BY <2>1, <2>6 DEF FilesInv
  <2> QED
    BY <2>5, <2>6
<1>4. CASE (WriteFails(p) \/ ReadFails(p)) /\ Unlink(st[p].dest)
  <2>1. edits' \in 0 .. MaxEdits
    BY <1>4 DEF WriteFails, ReadFails, FilesInv
  <2> QED
    BY <1>4, <2>1, UnlinkFiles
<1>5. CASE CloseOutput(p) \/ (ReadFails(p) /\ ~RemovesOpen)
  <2>1. /\ writers' = [writers EXCEPT ![st[p].dest] = @ \ {p}]
        /\ files' = files /\ edits' = edits
    BY <1>5 DEF CloseOutput, ReadFails
  <2> QED
    BY <2>1 DEF FilesInv
<1>6. CASE Kill(p)
  BY <1>6 DEF Kill, FilesInv
<1> QED
  BY <1>1, <1>2, <1>3, <1>4, <1>5, <1>6 DEF Step, WriteFails, ReadFails

LEMMA UserFiles ==
  ASSUME FilesInv, NEW path, Save(path) \/ Delete(path)
  PROVE  FilesInv'
<1>1. edits' \in 0 .. MaxEdits
  BY ConfigAssumption DEF FilesInv, Save, Delete
<1>2. CASE Save(path)
  <2>1. PICK content \in Drafts : files' = [files EXCEPT ![path] = content]
    BY <1>2 DEF Save
  <2>2. content \in Seq(Line) /\ content # Absent
    BY ConfigAssumption
  <2>3. writers' = writers
    BY <1>2 DEF Save
  <2> QED
    BY <1>1, <2>1, <2>2, <2>3 DEF FilesInv
<1>3. CASE Delete(path)
  BY <1>1, <1>3, UnlinkFiles DEF Delete
<1> QED
  BY <1>2, <1>3

----------------------------------------------------------------------------
(* The theorems *)

LEMMA InitHolds == Init => IndInv
<1> SUFFICES ASSUME Init PROVE IndInv
  OBVIOUS
<1>1. FilesInv
  BY ConfigAssumption DEF Init, FilesInv
<1>2. /\ NoConfig \in PolycallConfig /\ NoConfig.values = <<>> /\ NoConfig.servers = <<>>
  <2>1. <<>> \in Seq(Server) /\ <<>> \in Seq(Entry)
    OBVIOUS
  <2> QED
    BY <2>1 DEF NoConfig, PolycallConfig
<1>3. Bounded(NoConfig)
  BY <1>2, ConfigAssumption DEF Bounded
<1>4. Nothing \in Given /\ \A l \in Layers, k \in Keys : Nothing[l][k] = None
  BY DEF Nothing, Given
<1>5. Idle.pc = "idle" /\ Idle.created = FALSE
  BY DEF Idle
<1>6. Consistent(Idle) /\ LayersRead(Idle, Nothing) /\ Checked(Idle, NoConfig)
  BY <1>4, <1>5 DEF Consistent, LayersRead, Checked, Silent, Layers
<1>7. ProcessInv
  BY <1>2, <1>3, <1>4, <1>6, IdleProcess DEF Init, ProcessInv
<1>8. ASSUME NEW key \in Keys
      PROVE  config_get(NoConfig, key) = None
  BY <1>2 DEF config_get, Holds
<1>9. LayersOverride
  BY <1>4, <1>8 DEF Init, LayersOverride, Layered, Layers
<1> QED
  BY <1>1, <1>7, <1>9 DEF IndInv, Init

LEMMA NextHolds == IndInv /\ [Next]_vars => IndInv'
<1> SUFFICES ASSUME IndInv, [Next]_vars PROVE IndInv'
  OBVIOUS
<1>1. FilesInv /\ Control
  BY DEF IndInv, Control
<1>2. ASSUME NEW p \in Procs, Start(p) \/ Step(p) \/ Kill(p)
      PROVE  FilesInv' /\ Control'
  <2>1. FilesInv'
    BY <1>1, <1>2, ProcessFiles
  <2>2. Control'
    BY <1>1, <1>2, StartStep, TestProjectStep, TestRuntimeStep, TestLanguageStep,
       TestLegacyStep, OpenStep, ReadLineStep, EndOfFileStep, TestDestStep, OpenInputStep,
       OpenOutputStep, FillStep, CopyChunkStep, CloseOutputStep, FailureSteps, KillStep
       DEF Step
  <2> QED
    BY <2>1, <2>2
<1>3. ASSUME NEW path, Save(path) \/ Delete(path)
      PROVE  FilesInv' /\ Control'
  <2>1. UNCHANGED <<st, config, given>>
    BY <1>3 DEF Save, Delete
  <2> QED
    BY <1>1, <1>3, <2>1, UserFiles, UserStep
<1>4. ASSUME UNCHANGED vars
      PROVE  FilesInv' /\ Control'
  <2>1. UNCHANGED <<files, writers, edits>> /\ UNCHANGED <<st, config, given>>
    BY <1>4 DEF vars
  <2>2. FilesInv'
    BY <1>1, <2>1 DEF FilesInv
  <2>3. Control'
    BY <1>1, <2>1, UserStep
  <2> QED
    BY <2>2, <2>3
<1>5. disturbed' \subseteq Procs
  BY DEF IndInv, Next, Disturb, vars
<1> QED
  BY <1>2, <1>3, <1>4, <1>5 DEF Next, User, IndInv, Control

LEMMA Inductive == Spec => []IndInv
<1>1. Init => IndInv
  BY InitHolds
<1>2. IndInv /\ [Next]_vars => IndInv'
  BY NextHolds
<1> QED
  BY <1>1, <1>2, PTL DEF Spec

\* Whatever the files say and however they change under a running command,
\* the loader's arrays never outgrow POLYCALL_CONFIG_MAX_SERVERS and
\* POLYCALL_CONFIG_MAX_VALUES, and every variable keeps its type.
THEOREM ConfigTypes == Spec => []CTypeOK
<1>1. IndInv => CTypeOK
  <2> SUFFICES ASSUME IndInv PROVE CTypeOK
    OBVIOUS
  <2>1. ASSUME NEW p \in Procs
        PROVE  /\ Bounded(config[p]) /\ given[p] \in Given
               /\ st[p].buf \in Seq(Line) /\ st[p].status \in {0, 1, None}
    <3>1. st[p] \in Process
      BY DEF IndInv, ProcessInv
    <3> QED
      BY <3>1 DEF IndInv, ProcessInv, Process
  <2> QED
    BY <2>1 DEF IndInv, FilesInv, CTypeOK, Bounded, Given
<1> QED
  BY <1>1, Inductive, PTL

\* polycall_config_load reads its layers in order and config_set overwrites the
\* first entry of a key: at any time config_get answers with the last value of
\* the latest layer read so far.
THEOREM LayersOverrideCorrect == Spec => []LayersOverride
<1>1. IndInv => LayersOverride
  BY DEF IndInv
<1> QED
  BY <1>1, Inductive, PTL

\* A load that reports success has validated the very configuration it holds:
\* the required fields, the TLS files and the server type are all given by
\* some layer, whatever happened to the files meanwhile.
THEOREM ValidLoadsComplete == Spec => []ValidMeansComplete
<1>1. IndInv => ValidMeansComplete
  <2> SUFFICES ASSUME IndInv, NEW p \in Procs, Succeeded(p, "load")
               PROVE  /\ Gives(p, "workspace_root") /\ Gives(p, "log_directory")
                      /\ (Gives(p, "tls_enabled") /\ Layered(p, "tls_enabled").text = "true")
                           => Gives(p, "cert_file") /\ Gives(p, "key_file")
                      /\ st[p].language # None =>
                           /\ Gives(p, "workspace")
                           /\ Gives(p, "server_type")
                           /\ Layered(p, "server_type").text = st[p].language
    BY DEF ValidMeansComplete
  <2>1. validate_required(config[p], TRUE, st[p].language)
    BY DEF IndInv, ProcessInv, Checked, Succeeded, At
  <2>2. ASSUME NEW key \in Keys
        PROVE  /\ config_get(config[p], key) = Layered(p, key)
               /\ Holds(config[p], key) <=> Gives(p, key)
    <3>1. config_get(config[p], key) = Layered(p, key)
      BY DEF IndInv, LayersOverride
    <3>2. ASSUME Holds(config[p], key)
          PROVE  config_get(config[p], key) # None
      <4>1. config[p] \in PolycallConfig
        BY DEF IndInv, ProcessInv
      <4>2. First(config[p], key, IndexOf(config[p], key))
        BY <3>2, <4>1, FirstIndex
      <4>3. config_get(config[p], key) \in Value
        <5> DEFINE i == IndexOf(config[p], key)
                   v == config[p].values
        <5>1. v \in Seq(Entry) /\ i \in DOMAIN v
          BY <4>1, <4>2 DEF First, PolycallConfig
        <5>2. config_get(config[p], key) = v[i].value
          BY <3>2 DEF config_get
        <5> HIDE DEF i, v
        <5>3. v[i] \in Entry
          BY <5>1
        <5> QED
          BY <5>2, <5>3 DEF Entry
      <4> QED
        BY <4>3, ConfigAssumption
    <3>3. ~Holds(config[p], key) => config_get(config[p], key) = None
      BY DEF config_get
    <3> QED
      BY <3>1, <3>2, <3>3 DEF Gives
  <2>3. \A key \in REQUIRED_KEYS : key \in Keys
    BY ConfigAssumption
  <2> QED
    BY <2>1, <2>2, <2>3 DEF validate_required, REQUIRED_KEYS
<1> QED
  BY <1>1, Inductive, PTL

----------------------------------------------------------------------------
(* Migrations.  Another process or a user may change the files of a         *)
(* migration at any time; what holds of the migrations they leave alone     *)
(* needs no hypothesis about them.                                          *)

\* The arguments of a running command do not change.
Kept(p) ==
  /\ st[p].pc # "idle"
  /\ st'[p].op = st[p].op
  /\ st'[p].dest = st[p].dest
  /\ st[p].op = "migrate" => st'[p].path = st[p].path
  /\ \A q \in Procs \ {p} : st'[q] = st[q]

LEMMA KeptBy ==
  ASSUME ProcessInv, NEW p \in Procs, ~At(p, "idle"), NEW x, Becomes(p, x),
         x.op = st[p].op, x.dest = st[p].dest,
         st[p].op = "migrate" => x.path = st[p].path
  PROVE  Kept(p) /\ st'[p] = x
BY DEF ProcessInv, Becomes, Kept, At

\* Up to the copy a command has created nothing.
LEMMA QuietSteps ==
  ASSUME IndInv, NEW p \in Procs,
         \/ TestProject(p) \/ TestRuntime(p) \/ TestLanguage(p) \/ TestLegacy(p)
         \/ Open(p) \/ ReadLine(p) \/ RefuseLine(p) \/ ReadError(p) \/ EndOfFile(p)
         \/ TestDest(p) \/ OpenInput(p) \/ OpenOutputFails(p)
  PROVE  Kept(p) /\ ~st'[p].created /\ files' = files
<1> DEFINE s == st[p]
<1>1. s \in Process /\ Consistent(s) /\ ProcessInv
  BY DEF IndInv, ProcessInv
<1>2. /\ ~At(p, "idle") /\ s.pc \notin {"fill", "copy", "exited", "killed"} /\ files' = files
      /\ \/ \E a : Goto(p, a)
         \/ \E n : Exit(p, n)
         \/ s.op # "migrate" /\ \E path, layer : Opens(p, path, layer)
         \/ \E a, b : Becomes(p, [s EXCEPT !.pc = a, !.buf = b])
         \/ \E b, c : Becomes(p, [s EXCEPT !.pc = "open", !.layer = b, !.language = c])
         \/ \E b : Becomes(p, [s EXCEPT !.buf = b])
  <2>1. CASE TestProject(p)
    BY <1>1, <2>1 DEF TestProject, At, Consistent
  <2>2. CASE TestRuntime(p)
    BY <1>1, <2>2, ConfigAssumption DEF TestRuntime, AfterRuntime, Return, At, Consistent
  <2>3. CASE TestLanguage(p) \/ TestLegacy(p)
    BY <1>1, <2>3 DEF TestLanguage, TestLegacy, At, Consistent
  <2>4. CASE Open(p) \/ OpenInput(p)
    BY <2>4 DEF Open, OpenInput, At
  <2>5. CASE ReadLine(p)
    <3>1. Becomes(p, [s EXCEPT !.buf = Tail(s.buf)])
      BY <2>5 DEF ReadLine
    <3> QED
      BY <2>5, <3>1 DEF ReadLine, At
  <2>6. CASE RefuseLine(p) \/ ReadError(p) \/ OpenOutputFails(p)
    BY <2>6 DEF RefuseLine, ReadError, OpenOutputFails, At
  <2>7. CASE TestDest(p)
    BY <2>7 DEF TestDest, At
  <2>8. CASE EndOfFile(p)
    <3>1. s.pc = "read" /\ ~At(p, "idle") /\ files' = files
      BY <2>8 DEF EndOfFile, At
    <3>2. s.op \in {"load", "one", "rc", "migrate"} /\ s.layer \in Layers
      BY <1>1, <3>1 DEF Consistent
    <3>3. \/ \E a : Goto(p, a)
          \/ \E n : Exit(p, n)
      BY <2>8, <3>2, ConfigAssumption DEF EndOfFile, AfterRuntime, Return, Layers
    <3> QED
      BY <3>1, <3>3
  <2> QED
    BY <2>1, <2>2, <2>3, <2>4, <2>5, <2>6, <2>7, <2>8
<1>3. PICK x : /\ Becomes(p, x) /\ x.op = s.op /\ x.dest = s.dest
               /\ x.created = s.created /\ (s.op = "migrate" => x.path = s.path)
  <2>1. CASE \E a : Goto(p, a)
    <3>1. PICK a : Becomes(p, [s EXCEPT !.pc = a])
      BY <2>1 DEF Goto
    <3>2. LET x == [s EXCEPT !.pc = a] IN
          x.op = s.op /\ x.dest = s.dest /\ x.created = s.created
          /\ x.path = s.path
      BY <1>1 DEF Process
    <3> QED
      BY <3>1, <3>2
  <2>2. CASE \E n : Exit(p, n)
    <3>1. PICK n : Becomes(p, [s EXCEPT !.pc = "exited", !.status = n])
      BY <2>2 DEF Exit
    <3>2. LET x == [s EXCEPT !.pc = "exited", !.status = n] IN
          x.op = s.op /\ x.dest = s.dest /\ x.created = s.created
          /\ x.path = s.path
      BY <1>1 DEF Process
    <3> QED
      BY <3>1, <3>2
  <2>3. CASE s.op # "migrate" /\ \E path, layer : Opens(p, path, layer)
    <3>1. PICK path, layer : 
            Becomes(p, [s EXCEPT !.pc = "open", !.path = path, !.layer = layer])
      BY <2>3 DEF Opens
    <3>2. LET x == [s EXCEPT !.pc = "open", !.path = path, !.layer = layer] IN
          x.op = s.op /\ x.dest = s.dest /\ x.created = s.created
      BY <1>1 DEF Process
    <3> QED
      BY <2>3, <3>1, <3>2
  <2>4. CASE \E a, b : Becomes(p, [s EXCEPT !.pc = a, !.buf = b])
    <3>1. PICK a, b : Becomes(p, [s EXCEPT !.pc = a, !.buf = b])
      BY <2>4
    <3>2. LET x == [s EXCEPT !.pc = a, !.buf = b] IN
          x.op = s.op /\ x.dest = s.dest /\ x.created = s.created
          /\ x.path = s.path
      BY <1>1 DEF Process
    <3> QED
      BY <3>1, <3>2
  <2>5. CASE \E b, c : Becomes(p, [s EXCEPT !.pc = "open", !.layer = b, !.language = c])
    <3>1. PICK b, c : Becomes(p, [s EXCEPT !.pc = "open", !.layer = b, !.language = c])
      BY <2>5
    <3>2. LET x == [s EXCEPT !.pc = "open", !.layer = b, !.language = c] IN
          x.op = s.op /\ x.dest = s.dest /\ x.created = s.created
          /\ x.path = s.path
      BY <1>1 DEF Process
    <3> QED
      BY <3>1, <3>2
  <2>6. CASE \E b : Becomes(p, [s EXCEPT !.buf = b])
    <3>1. PICK b : Becomes(p, [s EXCEPT !.buf = b])
      BY <2>6
    <3>2. LET x == [s EXCEPT !.buf = b] IN
          x.op = s.op /\ x.dest = s.dest /\ x.created = s.created
          /\ x.path = s.path
      BY <1>1 DEF Process
    <3> QED
      BY <3>1, <3>2
  <2> QED
    BY <1>2, <2>1, <2>2, <2>3, <2>4, <2>5, <2>6
<1>4. ~s.created
  BY <1>1, <1>2 DEF Consistent
<1> QED
  BY <1>1, <1>2, <1>3, <1>4, KeptBy

\* The steps of the copy.
LEMMA CopySteps ==
  ASSUME IndInv, NEW p \in Procs,
         \/ OpenOutput(p) \/ Fill(p) \/ CopyChunk(p) \/ WriteFails(p) \/ ReadFails(p)
         \/ CloseOutput(p) \/ Kill(p)
  PROVE  Kept(p)
<1> DEFINE s == st[p]
<1>1. s \in Process /\ ProcessInv
  BY DEF IndInv, ProcessInv
<1>2. CASE OpenOutput(p)
  <2> DEFINE x == [s EXCEPT !.pc = "fill", !.created = TRUE]
  <2>1. Becomes(p, x) /\ ~At(p, "idle")
    BY <1>2 DEF OpenOutput, At
  <2>2. x.op = s.op /\ x.dest = s.dest /\ x.path = s.path
    BY <1>1 DEF Process
  <2> HIDE DEF x
  <2> QED
    BY <1>1, <2>1, <2>2, KeptBy
<1>3. CASE CopyChunk(p)
  <2> DEFINE x == [s EXCEPT !.buf = Tail(s.buf), !.copied = s.copied + 1]
  <2>1. Becomes(p, x) /\ ~At(p, "idle")
    BY <1>3 DEF CopyChunk, At
  <2>2. x.op = s.op /\ x.dest = s.dest /\ x.path = s.path
    BY <1>1 DEF Process
  <2> HIDE DEF x
  <2> QED
    BY <1>1, <2>1, <2>2, KeptBy
<1>4. CASE Fill(p)
  <2>1. PICK text : Becomes(p, [s EXCEPT !.pc = "copy", !.buf = text])
    BY <1>4 DEF Fill
  <2> DEFINE x == [s EXCEPT !.pc = "copy", !.buf = text]
  <2>2. Becomes(p, x) /\ ~At(p, "idle")
    BY <1>4, <2>1 DEF Fill, At
  <2>3. x.op = s.op /\ x.dest = s.dest /\ x.path = s.path
    BY <1>1 DEF Process
  <2> HIDE DEF x
  <2> QED
    BY <1>1, <2>2, <2>3, KeptBy
<1>5. CASE WriteFails(p) \/ ReadFails(p) \/ CloseOutput(p)
  <2>1. PICK n : Exit(p, n)
    BY <1>5 DEF WriteFails, ReadFails, CloseOutput
  <2> DEFINE x == [s EXCEPT !.pc = "exited", !.status = n]
  <2>2. Becomes(p, x) /\ ~At(p, "idle")
    BY <1>5, <2>1 DEF WriteFails, ReadFails, CloseOutput, Exit, At
  <2>3. x.op = s.op /\ x.dest = s.dest /\ x.path = s.path
    BY <1>1 DEF Process
  <2> HIDE DEF x
  <2> QED
    BY <1>1, <2>2, <2>3, KeptBy
<1>6. CASE Kill(p)
  <2> DEFINE x == [s EXCEPT !.pc = "killed"]
  <2>1. Becomes(p, x) /\ ~At(p, "idle")
    BY <1>6 DEF Kill, Goto, Running, At
  <2>2. x.op = s.op /\ x.dest = s.dest /\ x.path = s.path
    BY <1>1 DEF Process
  <2> HIDE DEF x
  <2> QED
    BY <1>1, <2>1, <2>2, KeptBy
<1> QED
  BY <1>2, <1>3, <1>4, <1>5, <1>6

----------------------------------------------------------------------------
(* What is known of a migration nobody disturbs: the text that is copied is *)
(* the text that was validated, line by line.                               *)

\* buf is what follows the first n lines of src.
Rest(buf, src, n) ==
  /\ n + Len(buf) = Len(src)
  /\ \A i \in 1 .. Len(buf) : buf[i] = src[n + i]

\* How far a migration has come: s is its control state, c its configuration,
\* src and out what is at its source and its destination.
CopyInv(s, c, src, out, writing) ==
  /\ s.pc \in {"test_dest", "open"} => c = NoConfig
  /\ s.pc \in {"open", "read"} => s.layer = "language" /\ s.language = infer_language(s.dest)
  /\ s.pc = "open" => out = Absent \/ s.dest \in Unreadable
  /\ s.pc \in {"read", "open_input", "open_output"} \/ s.created => s.path # s.dest
  /\ s.pc = "read" =>
       /\ src \in Seq(Line)
       /\ \E n \in 0 .. Len(src) : Rest(s.buf, src, n) /\ c = Parsed(src)[n]
  /\ s.pc \in {"open_input", "open_output"} \/ s.created =>
       src \in Seq(Line) /\ RcAccepts(src, infer_language(s.dest))
  /\ s.pc \in {"open_output", "fill"} => s.buf = src /\ s.copied = 0
  /\ ~s.created => s.copied = 0
  /\ s.pc \in {"fill", "copy"} =>
       writing /\ s.created /\ out \in Seq(Line) /\ Len(out) = s.copied
  /\ s.pc = "copy" => Rest(s.buf, src, s.copied)
  /\ s.created /\ out # Absent => out \in Seq(Line) /\ Len(out) <= Len(src)
       /\ \A i \in 1 .. Len(out) : out[i] = src[i]
  /\ s.pc = "exited" /\ s.status = 0 => s.created /\ out = src
  /\ s.pc = "exited" /\ s.status = 1 /\ s.created /\ RemovesOpen => out = Absent

View(p) ==
  CopyInv(st[p], config[p], files[st[p].path], files[st[p].dest], p \in writers[st[p].dest])

ViewInv ==
  \A p \in Procs :
    /\ st[p].pc = "idle" => config[p] = NoConfig
    /\ st[p].op = "migrate" /\ st[p].pc # "idle" /\ p \notin disturbed => View(p)

MigrationInv == IndInv /\ ViewInv

\* f is the function of Parsed over the first m lines of q.
Parses(f, q, m) ==
  f = [n \in 0 .. m |-> IF n = 0 THEN NoConfig ELSE TakeLine(f[n - 1], q[n])]

LEMMA ParsesExists ==
  ASSUME NEW q, NEW m \in Nat
  PROVE  \E f : Parses(f, q, m)
<1> DEFINE Bad == {k \in Nat : ~\E f : Parses(f, q, k)}
<1> SUFFICES ASSUME Bad # {} PROVE FALSE
  OBVIOUS
<1>1. PICK k \in Bad : \A j \in Bad : ~(<<j, k>> \in OpToRel(<, Nat))
  BY NatLessThanWellFounded, WFMin
<1>2. \A j \in Nat : j < k => \E f : Parses(f, q, j)
  BY <1>1 DEF OpToRel
<1>3. k \in Nat /\ ~\E f : Parses(f, q, k)
  OBVIOUS
<1> HIDE DEF Bad
<1>4. CASE k = 0
  <2> DEFINE f == [n \in 0 .. 0 |-> NoConfig]
  <2>1. Parses(f, q, 0)
    BY DEF Parses
  <2> QED
    BY <1>3, <1>4, <2>1
<1>5. CASE k # 0
  <2>1. k - 1 \in Nat /\ k - 1 < k
    BY <1>3, <1>5
  <2>2. PICK f : Parses(f, q, k - 1)
    BY <1>2, <2>1
  <2> DEFINE last == TakeLine(f[k - 1], q[k])
             g == [n \in 0 .. k |-> IF n < k THEN f[n] ELSE last]
             h == [n \in 0 .. k |-> IF n = 0 THEN NoConfig ELSE TakeLine(g[n - 1], q[n])]
  <2>3. \A n \in 0 .. k - 1 : f[n] = IF n = 0 THEN NoConfig ELSE TakeLine(f[n - 1], q[n])
    BY <2>2 DEF Parses
  <2>4. \A n \in 0 .. k - 1 : g[n] = f[n]
    BY <1>3
  <2>5. g[k] = last
    BY <1>3
  <2>6. \A n \in 0 .. k : g[n] = h[n]
    <3> TAKE n \in 0 .. k
    <3>1. CASE n = k
      BY <1>3, <1>5, <2>1, <2>4, <2>5, <3>1
    <3>2. CASE n # k
      <4>1. n \in 0 .. k - 1 /\ (n # 0 => n - 1 \in 0 .. k - 1)
        BY <1>3, <3>2
      <4> HIDE DEF g
      <4> QED
        BY <2>3, <2>4, <4>1
    <3> QED
      BY <3>1, <3>2
  <2>7. Parses(g, q, k)
    <3> HIDE DEF last
    <3>1. g = h
      BY <2>6
    <3> HIDE DEF g
    <3> QED
      BY <3>1 DEF Parses
  <2> QED
    BY <1>3, <2>7
<1> QED
  BY <1>4, <1>5

\* Parsed takes the lines one after the other.
LEMMA ParsedLines ==
  ASSUME NEW src \in Seq(Line)
  PROVE  /\ Parsed(src)[0] = NoConfig
         /\ \A n \in 1 .. Len(src) : Parsed(src)[n] = TakeLine(Parsed(src)[n - 1], src[n])
<1> DEFINE f == CHOOSE g : Parses(g, src, Len(src))
<1>1. Parsed(src) = f
  BY DEF Parsed, Parses
<1>2. Len(src) \in Nat
  OBVIOUS
<1>3. Parses(f, src, Len(src))
  BY <1>2, ParsesExists
<1> HIDE DEF f
<1>4. \A n \in 0 .. Len(src) :
        f[n] = IF n = 0 THEN NoConfig ELSE TakeLine(f[n - 1], src[n])
  BY <1>3 DEF Parses
<1> QED
  BY <1>1, <1>2, <1>4

\* A migration that has started, undisturbed.
LEMMA MigrationFiles ==
  ASSUME MigrationInv, NEW p \in Procs, st[p].op = "migrate", st[p].pc # "idle",
         p \notin disturbed
  PROVE  /\ st[p] \in Process /\ Consistent(st[p]) /\ config[p] \in PolycallConfig
         /\ st[p].path \in Paths /\ st[p].dest \in Paths
         /\ View(p)
BY DEF MigrationInv, ViewInv, IndInv, ProcessInv, Consistent, Bounded

\* A step of one process leaves the configurations of the others alone.
LEMMA OthersConfig ==
  ASSUME IndInv, NEW p \in Procs, Step(p) \/ Kill(p), NEW q \in Procs, q # p
  PROVE  config'[q] = config[q]
<1>1. CASE ReadLine(p)
  BY <1>1 DEF ReadLine, IndInv, ProcessInv
<1> QED
  BY <1>1 DEF Step, Kill, TestProject, TestRuntime, TestLanguage, TestLegacy, Open,
       RefuseLine, ReadError, EndOfFile, TestDest, OpenInput, OpenOutput,
       OpenOutputFails, Fill, CopyChunk, WriteFails, ReadFails, CloseOutput

\* A command that has started does not become idle again.
LEMMA StepGoesOn ==
  ASSUME IndInv, NEW p \in Procs, Step(p) \/ Kill(p)
  PROVE  st'[p].pc # "idle"
<1> DEFINE s == st[p]
<1>1. s \in Process /\ Consistent(s) /\ \A x : Becomes(p, x) => st'[p] = x
  BY DEF IndInv, ProcessInv, Becomes
<1>2. ASSUME NEW a, a # "idle", Goto(p, a)
      PROVE  st'[p].pc # "idle"
  BY <1>1, <1>2 DEF Goto, Process
<1>3. ASSUME NEW n, Exit(p, n)
      PROVE  st'[p].pc # "idle"
  BY <1>1, <1>3 DEF Exit, Process
<1>4. ASSUME NEW path, NEW layer, Opens(p, path, layer)
      PROVE  st'[p].pc # "idle"
  BY <1>1, <1>4 DEF Opens, Process
<1>5. CASE AfterRuntime(p)
  BY <1>2, <1>3, <1>5 DEF AfterRuntime, Return
<1>6. CASE TestProject(p) \/ TestRuntime(p) \/ TestLanguage(p) \/ TestLegacy(p)
  BY <1>2, <1>3, <1>4, <1>5, <1>6 DEF TestProject, TestRuntime, TestLanguage, TestLegacy
<1>7. CASE Open(p)
  BY <1>1, <1>3, <1>7 DEF Open, Process
<1>8. CASE ReadLine(p)
  BY <1>1, <1>8 DEF ReadLine, At, Process
<1>9. CASE \/ RefuseLine(p) \/ ReadError(p) \/ OpenOutputFails(p) \/ WriteFails(p)
           \/ ReadFails(p) \/ CloseOutput(p)
  BY <1>3, <1>9 DEF RefuseLine, ReadError, OpenOutputFails, WriteFails, ReadFails, CloseOutput
<1>10. CASE EndOfFile(p)
  <2>1. s.op \in {"load", "one", "rc", "migrate"} /\ s.layer \in Layers
    BY <1>1, <1>10 DEF EndOfFile, At, Consistent
  <2> QED
    BY <1>2, <1>3, <1>5, <1>10, <2>1 DEF EndOfFile, Return, Layers
<1>11. CASE TestDest(p)
  BY <1>1, <1>3, <1>11 DEF TestDest, Process
<1>12. CASE OpenInput(p)
  BY <1>1, <1>3, <1>12 DEF OpenInput, Process
<1>13. CASE OpenOutput(p)
  BY <1>1, <1>13 DEF OpenOutput, Process
<1>14. CASE CopyChunk(p)
  BY <1>1, <1>14 DEF CopyChunk, At, Process
<1>15. CASE Kill(p)
  BY <1>2, <1>15 DEF Kill
<1>16. CASE Fill(p)
  BY <1>1, <1>16 DEF Fill, Process
<1> QED
  BY <1>6, <1>7, <1>8, <1>9, <1>10, <1>11, <1>12, <1>13, <1>14, <1>15, <1>16 DEF Step

\* Before the first reading nothing is known of the source.
LEMMA EarlyView ==
  ASSUME NEW s, NEW c, NEW src, NEW src2, NEW out, NEW w, NEW w2,
         CopyInv(s, c, src, out, w),
         \/ src2 = src /\ w2 = w
         \/ s.pc \in {"test_dest", "open"} /\ ~s.created
  PROVE  CopyInv(s, c, src2, out, w2)
BY DEF CopyInv

\* What is known of a migration stays true when neither its process nor, of the
\* files it depends on, anything changes.
LEMMA ViewKept ==
  ASSUME MigrationInv, NEW q \in Procs, st[q].op = "migrate", st[q].pc # "idle",
         q \notin disturbed, st'[q] = st[q], config'[q] = config[q],
         \A f \in Involved(q) : files'[f] = files[f],
         (q \in writers'[st[q].dest]) = (q \in writers[st[q].dest])
  PROVE  View(q)'
<1>1. View(q) /\ Consistent(st[q])
  BY MigrationFiles
<1>2. files'[st[q].dest] = files[st[q].dest]
  BY DEF Involved
<1>3. CASE st[q].pc \in {"test_dest", "open"}
  <2>1. ~st[q].created
    BY <1>1, <1>3 DEF Consistent
  <2> QED
    BY <1>1, <1>2, <1>3, <2>1, EarlyView DEF View
<1>4. CASE st[q].pc \notin {"test_dest", "open"}
  <2>1. files'[st[q].path] = files[st[q].path]
    BY <1>4 DEF Involved
  <2> QED
    BY <1>1, <1>2, <2>1 DEF View
<1> QED
  BY <1>3, <1>4

\* A file that stays absent when it is removed had no writers.
LEMMA UnlinkWriters ==
  ASSUME FilesInv, NEW path, Unlink(path), NEW f \in Paths, files'[f] = files[f]
  PROVE  writers'[f] = writers[f]
<1>1. CASE f = path
  BY <1>1 DEF FilesInv, Unlink
<1>2. CASE f # path
  BY <1>2 DEF FilesInv, Unlink
<1> QED
  BY <1>1, <1>2

\* A step of one process, as another's migration sees it.
LEMMA OthersView ==
  ASSUME MigrationInv, NEW p \in Procs, Step(p) \/ Kill(p),
         NEW q \in Procs, q # p, st[q].op = "migrate", st[q].pc # "idle", q \notin disturbed,
         \A f \in Involved(q) : files'[f] = files[f]
  PROVE  View(q)'
<1>1. IndInv /\ FilesInv /\ st[q].dest \in Paths /\ writers \in [Paths -> SUBSET Procs]
  BY MigrationFiles DEF MigrationInv, IndInv, FilesInv
<1>2. Kept(p)
  BY <1>1, QuietSteps, CopySteps DEF Step
<1>3. st'[q] = st[q] /\ config'[q] = config[q]
  BY <1>1, <1>2, OthersConfig DEF Kept
<1>4. files'[st[q].dest] = files[st[q].dest]
  BY DEF Involved
<1>5. (q \in writers'[st[q].dest]) = (q \in writers[st[q].dest])
  <2>1. CASE Unlink(st[p].dest)
    BY <1>1, <1>4, <2>1, UnlinkWriters
  <2>2. CASE writers' = [writers EXCEPT ![st[p].dest] = @ \cup {p}]
    BY <1>1, <2>2
  <2>3. CASE writers' = [writers EXCEPT ![st[p].dest] = @ \ {p}]
    BY <1>1, <2>3
  <2>4. CASE Kill(p)
    BY <1>1, <2>4 DEF Kill
  <2> QED
    BY <2>1, <2>2, <2>3, <2>4 DEF Step, TestProject, TestRuntime, TestLanguage, TestLegacy,
         Open, ReadLine, RefuseLine, ReadError, EndOfFile, TestDest, OpenInput, OpenOutput,
         OpenOutputFails, Fill, CopyChunk, WriteFails, ReadFails, CloseOutput
<1> QED
  BY <1>3, <1>5, ViewKept

\* An edit, as a migration sees it.
LEMMA UserView ==
  ASSUME MigrationInv, NEW path, Save(path) \/ Delete(path),
         NEW q \in Procs, st[q].op = "migrate", st[q].pc # "idle", q \notin disturbed,
         \A f \in Involved(q) : files'[f] = files[f]
  PROVE  View(q)'
<1>1. FilesInv /\ st[q].dest \in Paths
  BY MigrationFiles DEF MigrationInv, IndInv
<1>2. st' = st /\ config' = config
  BY DEF Save, Delete
<1>3. files'[st[q].dest] = files[st[q].dest]
  BY DEF Involved
<1>4. writers'[st[q].dest] = writers[st[q].dest]
  BY <1>1, <1>3, UnlinkWriters DEF Save, Delete
<1> QED
  BY <1>2, <1>4, ViewKept

\* A migration that gives up before it has created anything.
LEMMA GivesUp ==
  ASSUME NEW s \in Process, ~s.created, s.copied = 0, NEW x, NEW c, NEW src, NEW out, NEW w,
         \/ x = [s EXCEPT !.pc = "exited", !.status = 1]
         \/ x = [s EXCEPT !.pc = "killed"]
  PROVE  CopyInv(x, c, src, out, w)
<1>1. x.pc \in {"exited", "killed"} /\ ~x.created /\ x.copied = 0
  BY DEF Process
<1>2. x.pc = "exited" => x.status = 1
  BY DEF Process
<1> QED
  BY <1>1, <1>2 DEF CopyInv

LEMMA TestDestView ==
  ASSUME MigrationInv, NEW p \in Procs, p \notin disturbed, TestDest(p)
  PROVE  View(p)'
<1> DEFINE s == st[p]
<1>1. s.pc = "test_dest" /\ s.op = "migrate"
  BY DEF TestDest, At, MigrationInv, IndInv, ProcessInv, Consistent
<1>2. s \in Process /\ Consistent(s) /\ View(p)
  BY <1>1, MigrationFiles
<1>3. ~s.created /\ s.copied = 0 /\ config[p] = NoConfig
  BY <1>1, <1>2 DEF Consistent, View, CopyInv
<1>4. config' = config /\ files' = files /\ writers' = writers
  BY DEF TestDest
<1>5. CASE Exit(p, 1)
  <2>1. st'[p] = [s EXCEPT !.pc = "exited", !.status = 1]
    BY <1>5 DEF Exit, Becomes, MigrationInv, IndInv, ProcessInv
  <2> QED
    BY <1>2, <1>3, <2>1, GivesUp DEF View
<1>6. CASE /\ ~file_exists(s.dest)
           /\ Becomes(p, [s EXCEPT !.pc = "open", !.layer = "language",
                                   !.language = infer_language(s.dest)])
  <2> DEFINE x == [s EXCEPT !.pc = "open", !.layer = "language",
                            !.language = infer_language(s.dest)]
  <2>1. st'[p] = x
    BY <1>6 DEF Becomes, MigrationInv, IndInv, ProcessInv
  <2>2. /\ x.pc = "open" /\ x.layer = "language" /\ x.language = infer_language(s.dest)
        /\ x.dest = s.dest /\ x.created = s.created /\ x.copied = s.copied
    BY <1>2 DEF Process
  <2> HIDE DEF x
  <2> QED
    BY <1>3, <1>4, <1>6, <2>1, <2>2 DEF View, CopyInv, file_exists, Present
<1> QED
  BY <1>5, <1>6 DEF TestDest

LEMMA OpenView ==
  ASSUME MigrationInv, NEW p \in Procs, p \notin disturbed, Open(p), st[p].op = "migrate"
  PROVE  View(p)'
<1> DEFINE s == st[p]
           src == files[s.path]
<1>1. s.pc = "open" /\ s.pc # "idle"
  BY DEF Open, At
<1>2. s \in Process /\ Consistent(s) /\ View(p) /\ s.path \in Paths
  BY <1>1, MigrationFiles
<1>3. /\ ~s.created /\ s.copied = 0 /\ config[p] = NoConfig
      /\ files[s.dest] = Absent \/ s.dest \in Unreadable
      /\ s.layer = "language" /\ s.language = infer_language(s.dest)
  BY <1>1, <1>2 DEF Consistent, View, CopyInv
<1>4. config' = config /\ files' = files /\ writers' = writers
  BY DEF Open
<1>5. CASE Exit(p, 1)
  <2>1. st'[p] = [s EXCEPT !.pc = "exited", !.status = 1]
    BY <1>5 DEF Exit, Becomes, MigrationInv, IndInv, ProcessInv
  <2> QED
    BY <1>2, <1>3, <2>1, GivesUp DEF View
<1>6. CASE file_exists(s.path) /\ Becomes(p, [s EXCEPT !.pc = "read", !.buf = src])
  <2> DEFINE x == [s EXCEPT !.pc = "read", !.buf = src]
  <2>1. st'[p] = x
    BY <1>6 DEF Becomes, MigrationInv, IndInv, ProcessInv
  <2>2. /\ x.pc = "read" /\ x.layer = s.layer /\ x.language = s.language /\ x.buf = src
        /\ x.path = s.path /\ x.dest = s.dest /\ x.created = s.created /\ x.copied = s.copied
    BY <1>2 DEF Process
  <2> HIDE DEF x
  <2>3. src \in Seq(Line)
    BY <1>2, <1>6 DEF file_exists, Present, MigrationInv, IndInv, FilesInv
  <2>7. s.path # s.dest
    BY <1>3, <1>6 DEF file_exists, Present
  <2>4. Rest(src, src, 0) /\ 0 \in 0 .. Len(src)
    BY <2>3 DEF Rest
  <2>5. Parsed(src)[0] = NoConfig
    BY <2>3, ParsedLines
  <2> HIDE DEF src
  <2>6. \E n \in 0 .. Len(src) : Rest(x.buf, src, n) /\ config[p] = Parsed(src)[n]
    BY <1>3, <2>2, <2>4, <2>5
  <2> QED
    BY <1>3, <1>4, <2>1, <2>2, <2>3, <2>6, <2>7 DEF View, CopyInv, src
<1> QED
  BY <1>5, <1>6 DEF Open

LEMMA ReadLineView ==
  ASSUME MigrationInv, NEW p \in Procs, p \notin disturbed, ReadLine(p), st[p].op = "migrate"
  PROVE  View(p)'
<1> DEFINE s == st[p]
           c == config[p]
           src == files[s.path]
<1>1. s.pc = "read" /\ s.pc # "idle" /\ s.buf # <<>>
  BY DEF ReadLine, At
<1>2. s \in Process /\ Consistent(s) /\ View(p) /\ c \in PolycallConfig
  BY <1>1, MigrationFiles
<1>3. /\ ~s.created /\ s.copied = 0 /\ s.path # s.dest
      /\ s.layer = "language" /\ s.language = infer_language(s.dest)
      /\ src \in Seq(Line)
  BY <1>1, <1>2 DEF Consistent, View, CopyInv
<1>4. PICK n \in 0 .. Len(src) : Rest(s.buf, src, n) /\ c = Parsed(src)[n]
  BY <1>1, <1>2 DEF View, CopyInv
<1> DEFINE line == Head(s.buf)
           x == [s EXCEPT !.buf = Tail(s.buf)]
<1>5. /\ Accepts(c, "language", line)
      /\ config'[p] = parse_line(c, "language", line)
      /\ st'[p] = x /\ files' = files /\ writers' = writers
  BY <1>3 DEF ReadLine, Becomes, MigrationInv, IndInv, ProcessInv
<1>6. s.buf \in Seq(Line)
  BY <1>2 DEF Process
<1>7. /\ x.pc = "read" /\ x.layer = s.layer /\ x.language = s.language
      /\ x.buf = Tail(s.buf)
      /\ x.path = s.path /\ x.dest = s.dest /\ x.created = s.created /\ x.copied = s.copied
  BY <1>1, <1>2 DEF Process
<1>8. n + 1 \in 1 .. Len(src) /\ line = src[n + 1] /\ Rest(Tail(s.buf), src, n + 1)
  <2>1. /\ Len(s.buf) \in Nat \ {0} /\ line = s.buf[1]
        /\ Len(Tail(s.buf)) = Len(s.buf) - 1
        /\ \A i \in 1 .. Len(s.buf) - 1 : Tail(s.buf)[i] = s.buf[i + 1]
    BY <1>1, <1>6
  <2>2. Len(src) \in Nat /\ n \in Nat
    BY <1>3, <1>4
  <2> HIDE DEF line, src
  <2>3. n + Len(s.buf) = Len(src) /\ \A i \in 1 .. Len(s.buf) : s.buf[i] = src[n + i]
    BY <1>4 DEF Rest
  <2>4. \A i \in 1 .. Len(s.buf) - 1 : Tail(s.buf)[i] = src[(n + 1) + i]
    <3> TAKE i \in 1 .. Len(s.buf) - 1
    <3>1. i + 1 \in 1 .. Len(s.buf) /\ n + (i + 1) = (n + 1) + i
      BY <2>1, <2>2
    <3> QED
      BY <2>1, <2>3, <3>1
  <2>5. n + 1 \in 1 .. Len(src) /\ 1 \in 1 .. Len(s.buf)
    BY <2>1, <2>2, <2>3
  <2>6. line = src[n + 1]
    BY <2>1, <2>3, <2>5
  <2>7. (n + 1) + Len(Tail(s.buf)) = Len(src)
    <3> DEFINE k == Len(s.buf)
               j == Len(Tail(s.buf))
               m == Len(src)
    <3>1. k \in Nat \ {0} /\ j = k - 1 /\ n \in Nat /\ m \in Nat /\ n + k = m
      BY <2>1, <2>2, <2>3
    <3> HIDE DEF k, j, m
    <3>2. (n + 1) + j = m
      BY <3>1
    <3> QED
      BY <3>2 DEF j, m
  <2>8. Rest(Tail(s.buf), src, n + 1)
    BY <2>1, <2>4, <2>7 DEF Rest
  <2> QED
    BY <2>5, <2>6, <2>8
<1>9. config'[p] = Parsed(src)[n + 1]
  <2>1. Parsed(src)[n + 1] = TakeLine(Parsed(src)[(n + 1) - 1], src[n + 1])
    BY <1>3, <1>8, ParsedLines
  <2>2. (n + 1) - 1 = n
    BY <1>3, <1>4
  <2>3. c # None
    BY <1>2, ConfigAssumption
  <2> HIDE DEF c, line, src
  <2> QED
    BY <1>4, <1>5, <1>8, <2>1, <2>2, <2>3 DEF TakeLine
<1> HIDE DEF x, c, line
<1>10. \E m \in 0 .. Len(src) : Rest(x.buf, src, m) /\ config'[p] = Parsed(src)[m]
  <2>1. n + 1 \in 0 .. Len(src)
    BY <1>3, <1>8
  <2> QED
    BY <1>7, <1>8, <1>9, <2>1
<1> HIDE DEF src
<1> QED
  BY <1>3, <1>5, <1>7, <1>10 DEF View, CopyInv, src

LEMMA EndOfFileView ==
  ASSUME MigrationInv, NEW p \in Procs, p \notin disturbed, EndOfFile(p), st[p].op = "migrate"
  PROVE  View(p)'
<1> DEFINE s == st[p]
           c == config[p]
           src == files[s.path]
<1>1. s.pc = "read" /\ s.pc # "idle" /\ s.buf = <<>>
  BY DEF EndOfFile, At
<1>2. s \in Process /\ Consistent(s) /\ View(p) /\ c \in PolycallConfig
  BY <1>1, MigrationFiles
<1>3. /\ ~s.created /\ s.copied = 0 /\ s.path # s.dest
      /\ s.language = infer_language(s.dest) /\ src \in Seq(Line)
  BY <1>1, <1>2 DEF Consistent, View, CopyInv
<1>4. PICK n \in 0 .. Len(src) : Rest(s.buf, src, n) /\ c = Parsed(src)[n]
  BY <1>1, <1>2 DEF View, CopyInv
<1>5. config' = config /\ files' = files /\ writers' = writers
  BY DEF EndOfFile
<1>6. \/ validate_required(c, FALSE, s.language) /\ Goto(p, "open_input")
      \/ Exit(p, 1)
  BY DEF EndOfFile
<1>7. CASE Exit(p, 1)
  <2>1. st'[p] = [s EXCEPT !.pc = "exited", !.status = 1]
    BY <1>7 DEF Exit, Becomes, MigrationInv, IndInv, ProcessInv
  <2> QED
    BY <1>2, <1>3, <2>1, GivesUp DEF View
<1>8. CASE validate_required(c, FALSE, s.language) /\ Goto(p, "open_input")
  <2> DEFINE x == [s EXCEPT !.pc = "open_input"]
  <2>1. st'[p] = x
    BY <1>8 DEF Goto, Becomes, MigrationInv, IndInv, ProcessInv
  <2>2. /\ x.pc = "open_input" /\ x.path = s.path /\ x.dest = s.dest
        /\ x.created = s.created /\ x.copied = s.copied
    BY <1>2 DEF Process
  <2> HIDE DEF x
  <2>3. n = Len(src)
    BY <1>1, <1>3, <1>4 DEF Rest
  <2>4. c # None
    BY <1>2, ConfigAssumption
  <2> HIDE DEF c, src
  <2>5. RcAccepts(src, infer_language(s.dest))
    BY <1>3, <1>4, <1>8, <2>3, <2>4 DEF RcAccepts
  <2> QED
    BY <1>3, <1>5, <2>1, <2>2, <2>5 DEF View, CopyInv, src
<1> QED
  BY <1>6, <1>7, <1>8

LEMMA OpenInputView ==
  ASSUME MigrationInv, NEW p \in Procs, p \notin disturbed, OpenInput(p)
  PROVE  View(p)'
<1> DEFINE s == st[p]
           src == files[s.path]
<1>1. s.pc = "open_input" /\ s.op = "migrate"
  BY DEF OpenInput, At, MigrationInv, IndInv, ProcessInv, Consistent
<1>2. s \in Process /\ Consistent(s) /\ View(p)
  BY <1>1, MigrationFiles
<1>3. /\ ~s.created /\ s.copied = 0 /\ s.path # s.dest
      /\ src \in Seq(Line) /\ RcAccepts(src, infer_language(s.dest))
  BY <1>1, <1>2 DEF Consistent, View, CopyInv
<1>4. config' = config /\ files' = files /\ writers' = writers
  BY DEF OpenInput
<1>5. CASE Exit(p, 1)
  <2>1. st'[p] = [s EXCEPT !.pc = "exited", !.status = 1]
    BY <1>5 DEF Exit, Becomes, MigrationInv, IndInv, ProcessInv
  <2> QED
    BY <1>2, <1>3, <2>1, GivesUp DEF View
<1>6. CASE Becomes(p, [s EXCEPT !.pc = "open_output", !.buf = src])
  <2> DEFINE x == [s EXCEPT !.pc = "open_output", !.buf = src]
  <2>1. st'[p] = x
    BY <1>6 DEF Becomes, MigrationInv, IndInv, ProcessInv
  <2>2. /\ x.pc = "open_output" /\ x.buf = src /\ x.path = s.path /\ x.dest = s.dest
        /\ x.created = s.created /\ x.copied = s.copied
    BY <1>2 DEF Process
  <2> HIDE DEF x
  <2> QED
    BY <1>3, <1>4, <2>1, <2>2 DEF View, CopyInv
<1> QED
  BY <1>5, <1>6 DEF OpenInput

LEMMA OpenOutputView ==
  ASSUME MigrationInv, NEW p \in Procs, p \notin disturbed, OpenOutput(p)
  PROVE  View(p)'
<1> DEFINE s == st[p]
           src == files[s.path]
           x == [s EXCEPT !.pc = "fill", !.created = TRUE]
<1>1. s.pc = "open_output" /\ s.op = "migrate"
  BY DEF OpenOutput, At, MigrationInv, IndInv, ProcessInv, Consistent
<1>2. /\ s \in Process /\ View(p) /\ s.path \in Paths /\ s.dest \in Paths
  BY <1>1, MigrationFiles
<1>3. /\ s.copied = 0 /\ s.buf = src /\ s.path # s.dest
      /\ src \in Seq(Line) /\ RcAccepts(src, infer_language(s.dest))
  BY <1>1, <1>2 DEF View, CopyInv
<1>4. /\ st'[p] = x /\ files'[s.dest] = <<>> /\ files'[s.path] = src
      /\ p \in writers'[s.dest]
  BY <1>2, <1>3 DEF OpenOutput, Becomes, MigrationInv, IndInv, ProcessInv, FilesInv
<1>5. /\ x.pc = "fill" /\ x.created /\ x.path = s.path /\ x.dest = s.dest
      /\ x.buf = s.buf /\ x.copied = s.copied
  BY <1>2 DEF Process
<1> HIDE DEF x
<1>7. /\ <<>> \in Seq(Line) /\ Len(<<>>) = 0 /\ 0 <= Len(src)
      /\ \A i \in 1 .. Len(<<>>) : <<>>[i] = src[i]
  BY <1>3
<1> DEFINE none == <<>>
<1>8. files'[s.dest] = none
  BY <1>4
<1> HIDE DEF src, none
<1>9. /\ none \in Seq(Line) /\ Len(none) = 0 /\ 0 <= Len(src)
      /\ \A i \in 1 .. Len(none) : none[i] = src[i]
  BY <1>7 DEF none
<1>10. CopyInv(x, config'[p], src, none, p \in writers'[s.dest])
  BY <1>3, <1>4, <1>5, <1>9 DEF CopyInv
<1> QED
  BY <1>4, <1>5, <1>8, <1>10 DEF View

\* What the first fread finds is what was validated.
LEMMA FillView ==
  ASSUME MigrationInv, NEW p \in Procs, p \notin disturbed, Fill(p)
  PROVE  View(p)'
<1> DEFINE s == st[p]
           src == files[s.path]
           out == files[s.dest]
           x == [s EXCEPT !.pc = "copy", !.buf = src]
<1>1. s.pc = "fill" /\ s.op = "migrate"
  BY DEF Fill, At, MigrationInv, IndInv, ProcessInv, Consistent
<1>2. /\ s \in Process /\ View(p)
  BY <1>1, MigrationFiles
<1>3. /\ s.copied = 0 /\ s.buf = src /\ s.path # s.dest /\ s.created
      /\ src \in Seq(Line) /\ RcAccepts(src, infer_language(s.dest))
      /\ p \in writers[s.dest] /\ out \in Seq(Line) /\ Len(out) = 0
  BY <1>1, <1>2 DEF View, CopyInv
<1>4. /\ st'[p] = x /\ files' = files /\ writers' = writers
  BY <1>3 DEF Fill, Becomes, MigrationInv, IndInv, ProcessInv
<1>5. /\ x.pc = "copy" /\ x.created /\ x.path = s.path /\ x.dest = s.dest
      /\ x.buf = src /\ x.copied = s.copied
  BY <1>2, <1>3 DEF Process
<1>6. Rest(src, src, 0) /\ 0 <= Len(src)
  BY <1>3 DEF Rest
<1>7. \A i \in 1 .. Len(out) : out[i] = src[i]
  BY <1>3
<1> HIDE DEF x, src, out
<1>8. CopyInv(x, config'[p], src, out, p \in writers[s.dest])
  BY <1>3, <1>5, <1>6, <1>7 DEF CopyInv
<1> QED
  BY <1>4, <1>5, <1>8 DEF View, src, out

LEMMA OpenOutputFailsView ==
  ASSUME MigrationInv, NEW p \in Procs, p \notin disturbed, st[p].op = "migrate",
         OpenOutputFails(p) \/ RefuseLine(p) \/ ReadError(p)
  PROVE  View(p)'
<1> DEFINE s == st[p]
<1>1. s.pc \in {"open_output", "read"} /\ Exit(p, 1)
  BY DEF OpenOutputFails, RefuseLine, ReadError, At
<1>2. s \in Process /\ Consistent(s) /\ View(p)
  BY <1>1, MigrationFiles
<1>3. ~s.created /\ s.copied = 0
  BY <1>1, <1>2 DEF Consistent, View, CopyInv
<1>4. st'[p] = [s EXCEPT !.pc = "exited", !.status = 1]
  BY <1>1 DEF Exit, Becomes, MigrationInv, IndInv, ProcessInv
<1> QED
  BY <1>2, <1>3, <1>4, GivesUp DEF View

\* Writing at the end of a file.
LEMMA OverwriteEnd ==
  ASSUME NEW out \in Seq(Line), NEW line \in Line
  PROVE  LET new == Overwrite(out, Len(out), line) IN
         /\ new \in Seq(Line)
         /\ Len(new) = Len(out) + 1
         /\ \A i \in 1 .. Len(out) : new[i] = out[i]
         /\ new[Len(out) + 1] = line
<1> DEFINE k == Len(out)
           new == Overwrite(out, k, line)
<1>1. k \in Nat /\ \A i \in 1 .. k : out[i] \in Line
  OBVIOUS
<1> DEFINE f == [i \in 1 .. k + 1 |-> IF i = k + 1 THEN line ELSE out[i]]
<1>2. new = [i \in 1 .. k + 1 |-> IF i = k + 1 THEN line
                                  ELSE IF i <= k THEN out[i] ELSE [kind |-> "too_long"]]
  BY <1>1 DEF Overwrite
<1>3. \A i \in 1 .. k + 1 : i = k + 1 \/ i <= k
  BY <1>1
<1> HIDE DEF k, new
<1>4. new = f
  BY <1>2, <1>3
<1>5. \A i \in 1 .. k + 1 : i # k + 1 => i \in 1 .. k
  BY <1>1
<1>6. f \in [1 .. k + 1 -> Line]
  BY <1>1, <1>5
<1>7. f \in Seq(Line) /\ Len(f) = k + 1
  BY <1>1, <1>6
<1>8. \A i \in 1 .. k : f[i] = out[i]
  BY <1>1
<1>9. f[k + 1] = line
  BY <1>1
<1> QED
  BY <1>4, <1>7, <1>8, <1>9 DEF k, new

LEMMA CopyChunkView ==
  ASSUME MigrationInv, NEW p \in Procs, p \notin disturbed, CopyChunk(p)
  PROVE  View(p)'
<1> DEFINE s == st[p]
           src == files[s.path]
           out == files[s.dest]
           line == Head(s.buf)
           new == Overwrite(out, s.copied, line)
           x == [s EXCEPT !.buf = Tail(s.buf), !.copied = s.copied + 1]
<1>1. s.pc = "copy" /\ s.op = "migrate" /\ s.buf # <<>>
  BY DEF CopyChunk, At, MigrationInv, IndInv, ProcessInv, Consistent
<1>2. /\ s \in Process /\ View(p) /\ s.path \in Paths /\ s.dest \in Paths
  BY <1>1, MigrationFiles
<1>3. /\ p \in writers[s.dest] /\ s.created /\ out \in Seq(Line) /\ Len(out) = s.copied
      /\ Rest(s.buf, src, s.copied) /\ src \in Seq(Line)
      /\ RcAccepts(src, infer_language(s.dest)) /\ s.path # s.dest
  BY <1>1, <1>2 DEF View, CopyInv
<1>4. \A i \in 1 .. Len(out) : out[i] = src[i]
  <2>1. out # Absent
    BY <1>3, ConfigAssumption
  <2> QED
    BY <1>2, <1>3, <2>1 DEF View, CopyInv
<1>5. st'[p] = x /\ writers' = writers /\ files'[s.path] = src /\ files'[s.dest] = new
  BY <1>2, <1>3 DEF CopyChunk, Becomes, MigrationInv, IndInv, ProcessInv, FilesInv
<1>6. /\ x.pc = "copy" /\ x.created = s.created /\ x.path = s.path /\ x.dest = s.dest
      /\ x.buf = Tail(s.buf) /\ x.copied = s.copied + 1
  BY <1>1, <1>2 DEF Process
<1>7. s.buf \in Seq(Line) /\ s.copied \in Nat
  BY <1>2 DEF Process
<1>8. /\ Len(s.buf) \in Nat \ {0} /\ line = s.buf[1] /\ line \in Line
      /\ Len(Tail(s.buf)) = Len(s.buf) - 1
      /\ \A i \in 1 .. Len(s.buf) - 1 : Tail(s.buf)[i] = s.buf[i + 1]
  BY <1>1, <1>7
<1>9. /\ new \in Seq(Line) /\ Len(new) = s.copied + 1
      /\ \A i \in 1 .. s.copied : new[i] = out[i]
      /\ new[s.copied + 1] = line
  <2>1. new = Overwrite(out, Len(out), line)
    BY <1>3
  <2>0. out \in Seq(Line) /\ line \in Line
    BY <1>3, <1>8
  <2> HIDE DEF new, out, line
  <2>2. /\ new \in Seq(Line) /\ Len(new) = Len(out) + 1
        /\ \A i \in 1 .. Len(out) : new[i] = out[i]
        /\ new[Len(out) + 1] = line
    BY <2>0, <2>1, OverwriteEnd
  <2> QED
    BY <1>3, <2>2
<1> DEFINE k == s.copied
           j == Len(s.buf)
           m == Len(src)
           t == Tail(s.buf)
<1>10. /\ k \in Nat /\ j \in Nat \ {0} /\ m \in Nat /\ k + j = m
       /\ \A i \in 1 .. j : s.buf[i] = src[k + i]
  BY <1>3, <1>7, <1>8 DEF Rest
<1>11. Len(t) = j - 1 /\ \A i \in 1 .. j - 1 : t[i] = s.buf[i + 1]
  BY <1>8
<1> HIDE DEF x, new, line, out, src, k, j, m, t
<1>12. Rest(t, src, k + 1)
  <2>1. (k + 1) + Len(t) = m
    BY <1>10, <1>11
  <2>2. \A i \in 1 .. j - 1 : t[i] = src[(k + 1) + i]
    <3> TAKE i \in 1 .. j - 1
    <3>1. i + 1 \in 1 .. j /\ k + (i + 1) = (k + 1) + i
      BY <1>10
    <3> QED
      BY <1>10, <1>11, <3>1
  <2> QED
    BY <1>11, <2>1, <2>2 DEF Rest, m
<1>13. \A i \in 1 .. k + 1 : new[i] = src[i]
  <2> TAKE i \in 1 .. k + 1
  <2>1. CASE i = k + 1
    <3>1. 1 \in 1 .. j
      BY <1>10
    <3> QED
      BY <1>8, <1>9, <1>10, <2>1, <3>1 DEF k
  <2>2. CASE i # k + 1
    <3>1. i \in 1 .. k
      BY <1>10, <2>2
    <3> QED
      BY <1>3, <1>4, <1>9, <3>1 DEF k
  <2> QED
    BY <2>1, <2>2
<1>14. k + 1 <= m
  BY <1>10
<1>15. CopyInv(x, config'[p], src, new, p \in writers[s.dest])
  <2>1. /\ x.pc = "copy" /\ x.created /\ x.dest = s.dest /\ x.path = s.path /\ x.buf = t
        /\ x.copied = k + 1 /\ Len(new) = k + 1
    BY <1>3, <1>6, <1>9 DEF k, t
  <2>2. Len(new) <= Len(src) /\ \A i \in 1 .. Len(new) : new[i] = src[i]
    BY <1>13, <1>14, <2>1 DEF m
  <2> QED
    BY <1>3, <1>9, <1>12, <2>1, <2>2 DEF CopyInv
<1> QED
  BY <1>5, <1>6, <1>15 DEF View

LEMMA CopyEndsView ==
  ASSUME MigrationInv, NEW p \in Procs, p \notin disturbed,
         WriteFails(p) \/ ReadFails(p) \/ CloseOutput(p)
  PROVE  View(p)'
<1> DEFINE s == st[p]
           src == files[s.path]
           out == files[s.dest]
<1>1. s.pc \in {"fill", "copy"} /\ s.op = "migrate"
  BY DEF WriteFails, ReadFails, CloseOutput, At, MigrationInv, IndInv, ProcessInv, Consistent
<1>2. /\ s \in Process /\ View(p) /\ s.path \in Paths /\ s.dest \in Paths
  BY <1>1, MigrationFiles
<1>3. /\ s.created /\ out \in Seq(Line) /\ Len(out) = s.copied
      /\ src \in Seq(Line) /\ s.path # s.dest
      /\ RcAccepts(src, infer_language(s.dest))
      /\ s.pc = "copy" => Rest(s.buf, src, s.copied)
  BY <1>1, <1>2 DEF View, CopyInv
<1>4. Len(out) <= Len(src) /\ \A i \in 1 .. Len(out) : out[i] = src[i]
  <2>1. out # Absent
    BY <1>3, ConfigAssumption
  <2> QED
    BY <1>2, <1>3, <2>1 DEF View, CopyInv
<1>5. CASE WriteFails(p) \/ ReadFails(p)
  <2> DEFINE x == [s EXCEPT !.pc = "exited", !.status = 1]
             new == files'[s.dest]
  <2>1. /\ st'[p] = x /\ files'[s.path] = src
        /\ new = Absent \/ (~RemovesOpen /\ new = out)
    BY <1>2, <1>3, <1>5 DEF WriteFails, ReadFails, Unlink, Exit, Becomes, MigrationInv, IndInv,
         ProcessInv, FilesInv
  <2>2. /\ x.pc = "exited" /\ x.status = 1 /\ x.created = s.created
        /\ x.path = s.path /\ x.dest = s.dest
    BY <1>2 DEF Process
  <2> HIDE DEF x, src, out, new
  <2>3. CopyInv(x, config'[p], src, new, (p \in writers[s.dest])')
    BY <1>3, <1>4, <2>1, <2>2 DEF CopyInv
  <2> QED
    BY <2>1, <2>2, <2>3 DEF View, new
<1>6. CASE CloseOutput(p)
  <2> DEFINE x == [s EXCEPT !.pc = "exited", !.status = 0]
  <2>1. st'[p] = x /\ files' = files /\ s.buf = <<>> /\ s.pc = "copy"
    BY <1>6 DEF CloseOutput, At, Exit, Becomes, MigrationInv, IndInv, ProcessInv
  <2>2. /\ x.pc = "exited" /\ x.status = 0 /\ x.created = s.created
        /\ x.path = s.path /\ x.dest = s.dest
    BY <1>2 DEF Process
  <2>3. s.copied \in Nat
    BY <1>2 DEF Process
  <2>4. Len(out) = Len(src)
    BY <1>3, <2>1, <2>3 DEF Rest
  <2> HIDE DEF x, src, out
  <2>5. out = src
    BY <1>3, <1>4, <2>4
  <2>6. CopyInv(x, config'[p], src, out, (p \in writers[s.dest])')
    BY <1>3, <1>4, <2>2, <2>4, <2>5 DEF CopyInv
  <2> QED
    BY <2>1, <2>2, <2>6 DEF View, src, out
<1> QED
  BY <1>5, <1>6

LEMMA KillView ==
  ASSUME MigrationInv, NEW p \in Procs, p \notin disturbed, Kill(p), st[p].op = "migrate"
  PROVE  View(p)'
<1> DEFINE s == st[p]
           src == files[s.path]
           out == files[s.dest]
           x == [s EXCEPT !.pc = "killed"]
<1>1. s.pc \notin {"idle", "exited", "killed"}
  BY DEF Kill, Running
<1>2. s \in Process /\ View(p) /\ Consistent(s)
  BY <1>1, MigrationFiles
<1>3. st'[p] = x /\ files' = files
  BY DEF Kill, Goto, Becomes, MigrationInv, IndInv, ProcessInv
<1>4. CASE ~s.created
  <2>1. s.copied = 0
    BY <1>2, <1>4 DEF View, CopyInv
  <2> QED
    BY <1>2, <1>3, <1>4, <2>1, GivesUp DEF View
<1>5. CASE s.created
  <2>1. /\ x.pc = "killed" /\ x.created = s.created /\ x.path = s.path /\ x.dest = s.dest
    BY <1>2 DEF Process
  <2> HIDE DEF x, src, out
  <2>2. /\ src \in Seq(Line) /\ RcAccepts(src, infer_language(s.dest)) /\ s.path # s.dest
        /\ out # Absent => /\ out \in Seq(Line) /\ Len(out) <= Len(src)
                           /\ \A i \in 1 .. Len(out) : out[i] = src[i]
    BY <1>2, <1>5 DEF View, CopyInv, src, out
  <2>3. CopyInv(x, config'[p], src, out, (p \in writers[s.dest])')
    BY <1>5, <2>1, <2>2 DEF CopyInv
  <2> QED
    BY <1>3, <2>1, <2>3 DEF View, src, out
<1> QED
  BY <1>4, <1>5

\* A step of a process keeps what is known of its own migration.
LEMMA OwnView ==
  ASSUME MigrationInv, NEW p \in Procs, p \notin disturbed, Step(p) \/ Kill(p),
         st[p].op = "migrate"
  PROVE  View(p)'
<1>1. ~(TestProject(p) \/ TestRuntime(p) \/ TestLanguage(p) \/ TestLegacy(p))
  BY DEF TestProject, TestRuntime, TestLanguage, TestLegacy, At, MigrationInv,
         IndInv, ProcessInv, Consistent
<1> QED
  BY <1>1, TestDestView, OpenView, ReadLineView, EndOfFileView, OpenInputView,
     OpenOutputView, FillView, OpenOutputFailsView, CopyChunkView, CopyEndsView, KillView DEF Step

\* A migration starts with an empty configuration and has created nothing.
LEMMA StartView ==
  ASSUME MigrationInv, NEW p \in Procs, Start(p), disturbed \subseteq disturbed'
  PROVE  ViewInv'
<1>1. PICK args \in Commands[p] : Becomes(p, polycall_config_cli(args))
  BY DEF Start
<1> DEFINE x == polycall_config_cli(args)
<1>2. \A q \in Procs : st'[q] = IF q = p THEN x ELSE st[q]
  BY <1>1 DEF Becomes, MigrationInv, IndInv, ProcessInv
<1>3. config' = config /\ files' = files /\ writers' = writers /\ config[p] = NoConfig
  BY DEF Start, MigrationInv, ViewInv, At
<1>4. x.op = "migrate" => x.pc = "test_dest" /\ ~x.created /\ x.copied = 0
  <2>1. ASSUME NEW language, x = Load(language) PROVE x.op # "migrate"
    BY <2>1 DEF Load, Idle
  <2>2. ASSUME NEW path, x = ValidateOne(path) PROVE x.op # "migrate"
    BY <2>2 DEF ValidateOne, Idle
  <2>3. ASSUME NEW language, x = Rc(language) PROVE x.op # "migrate"
    BY <2>3 DEF Rc, Idle
  <2>4. ASSUME NEW source, NEW dest, x = Migrate(source, dest)
        PROVE  x.pc = "test_dest" /\ ~x.created /\ x.copied = 0
    BY <2>4 DEF Migrate, Idle
  <2>5. x = Usage => x.op # "migrate"
    BY DEF Usage, Idle
  <2> HIDE DEF x
  <2> QED
    BY <2>1, <2>2, <2>3, <2>4, <2>5, CommandForms DEF x
<1> HIDE DEF x
<1>5. x.op = "migrate" => CopyInv(x, config[p], files[x.path], files[x.dest], p \in writers[x.dest])
  BY <1>3, <1>4 DEF CopyInv
<1>6. ASSUME NEW q \in Procs
      PROVE  /\ (st[q].pc = "idle")' => (config[q] = NoConfig)'
             /\ (st[q].op = "migrate" /\ st[q].pc # "idle" /\ q \notin disturbed => View(q))'
  <2>1. CASE q = p
    BY <1>2, <1>3, <1>5, <2>1 DEF View
  <2>2. CASE q # p
    BY <1>2, <1>3, <2>2 DEF View, MigrationInv, ViewInv
  <2> QED
    BY <2>1, <2>2
<1> QED
  BY <1>6 DEF ViewInv

LEMMA ProcessView ==
  ASSUME MigrationInv, NEW p \in Procs, Step(p) \/ Kill(p), Disturb(Procs \ {p})
  PROVE  ViewInv'
<1>1. Kept(p)
  BY QuietSteps, CopySteps DEF Step, MigrationInv
<1>2. ASSUME NEW q \in Procs
      PROVE  /\ (st[q].pc = "idle")' => (config[q] = NoConfig)'
             /\ (st[q].op = "migrate" /\ st[q].pc # "idle" /\ q \notin disturbed => View(q))'
  <2>1. CASE q = p
    <3>1. st'[p].op = st[p].op
      BY <1>1 DEF Kept
    <3>2. st'[p].pc # "idle"
      BY StepGoesOn DEF MigrationInv
    <3>3. p \notin disturbed' => p \notin disturbed
      BY DEF Disturb
    <3> QED
      BY <2>1, <3>1, <3>2, <3>3, OwnView
  <2>2. CASE q # p
    <3>1. st'[q] = st[q]
      BY <1>1, <2>2 DEF Kept
    <3>2. config'[q] = config[q]
      BY <2>2, OthersConfig DEF MigrationInv
    <3>3. q \notin disturbed' /\ st[q].op = "migrate" =>
            q \notin disturbed /\ \A f \in Involved(q) : files'[f] = files[f]
      BY <2>2 DEF Disturb
    <3>4. (st[q].pc = "idle")' => (config[q] = NoConfig)'
      BY <3>1, <3>2 DEF MigrationInv, ViewInv
    <3>5. (st[q].op = "migrate" /\ st[q].pc # "idle" /\ q \notin disturbed => View(q))'
      BY <2>2, <3>1, <3>3, OthersView
    <3> QED
      BY <3>4, <3>5
  <2> QED
    BY <2>1, <2>2
<1> QED
  BY <1>2 DEF ViewInv

LEMMA MigrationInductive == Spec => []MigrationInv
<1>1. Init => MigrationInv
  <2> SUFFICES ASSUME Init PROVE MigrationInv
    OBVIOUS
  <2>1. \A p \in Procs : st[p].pc = "idle" /\ config[p] = NoConfig
    BY DEF Init, Idle
  <2> QED
    BY <2>1, InitHolds DEF MigrationInv, ViewInv
<1>2. MigrationInv /\ [Next]_vars => MigrationInv'
  <2> SUFFICES ASSUME MigrationInv, [Next]_vars PROVE MigrationInv'
    OBVIOUS
  <2>1. IndInv'
    BY NextHolds DEF MigrationInv
  <2>2. ViewInv'
    <3>1. CASE UNCHANGED vars
      BY <3>1 DEF vars, MigrationInv, ViewInv, View
    <3>2. ASSUME NEW p \in Procs, Start(p) \/ Step(p) \/ Kill(p), Disturb(Procs \ {p})
          PROVE  ViewInv'
      <4>1. disturbed \subseteq disturbed'
        BY <3>2 DEF Disturb
      <4> QED
        BY <3>2, <4>1, StartView, ProcessView
    <3>3. ASSUME NEW path \in Editable, Save(path) \/ Delete(path), Disturb(Procs)
          PROVE  ViewInv'
      <4>1. st' = st /\ config' = config
        BY <3>3 DEF Save, Delete
      <4>2. ASSUME NEW q \in Procs, st[q].op = "migrate", st[q].pc # "idle", q \notin disturbed'
            PROVE  View(q)'
        <5>1. q \notin disturbed /\ \A f \in Involved(q) : files'[f] = files[f]
          BY <3>3, <4>2 DEF Disturb
        <5> QED
          BY <3>3, <4>2, <5>1, UserView
      <4> QED
        BY <4>1, <4>2 DEF MigrationInv, ViewInv
    <3> QED
      BY <3>1, <3>2, <3>3 DEF Next, User
  <2> QED
    BY <2>1, <2>2 DEF MigrationInv
<1> QED
  BY <1>1, <1>2, PTL DEF Spec

\* migrate_config reads its source twice.  Whatever other processes and users
\* do, a migration that reports success has left a file that "config rc
\* validate" accepts for its language, unless one of them changed its source
\* after the first reading, or its destination.
THEOREM MigrationsUsable == Spec => []MigratedIsUsable
<1>1. MigrationInv => MigratedIsUsable
  <2> SUFFICES ASSUME MigrationInv, NEW p \in Procs, Succeeded(p, "migrate"), p \notin disturbed
               PROVE  /\ Present(st[p].dest)
                      /\ RcAccepts(files[st[p].dest], infer_language(st[p].dest))
    BY DEF MigratedIsUsable
  <2>1. st[p].op = "migrate" /\ st[p].pc = "exited" /\ st[p].status = 0
    BY DEF Succeeded, At
  <2>2. View(p)
    BY <2>1, MigrationFiles
  <2> QED
    BY <2>1, <2>2, ConfigAssumption DEF View, CopyInv, Present
<1> QED
  BY <1>1, MigrationInductive, PTL

\* Whenever a migration has created its destination, and whatever became of it
\* since (it writes on, was killed, has finished), the file there is the
\* beginning of the source, unless somebody else changed one of the two.
THEOREM MigrationsCopyInOrder == Spec => []PartialIsPrefix
<1>1. MigrationInv => PartialIsPrefix
  <2> SUFFICES ASSUME MigrationInv, NEW p \in Procs \ disturbed, st[p].created,
                      Present(st[p].dest)
               PROVE  /\ Present(st[p].path)
                      /\ IsPrefix(files[st[p].dest], files[st[p].path])
    BY DEF PartialIsPrefix
  <2> DEFINE out == files[st[p].dest]
             src == files[st[p].path]
  <2>1. st[p].op = "migrate" /\ st[p].pc # "idle"
    BY DEF MigrationInv, IndInv, ProcessInv, Consistent
  <2>2. View(p)
    BY <2>1, MigrationFiles
  <2>3. /\ src \in Seq(Line) /\ out \in Seq(Line) /\ Len(out) <= Len(src)
        /\ \A i \in 1 .. Len(out) : out[i] = src[i]
    BY <2>2 DEF View, CopyInv, Present
  <2> HIDE DEF out, src
  <2>4. IsPrefix(out, src)
    BY <2>3 DEF IsPrefix
  <2>5. src # Absent
    BY <2>3, ConfigAssumption
  <2> QED
    BY <2>4, <2>5 DEF Present, out, src
<1> QED
  BY <1>1, MigrationInductive, PTL

\* Where remove() takes a file that is still open (POSIX), a migration that
\* reports a failure of fwrite, fread or fclose has left no destination behind,
\* unless somebody else wrote that file too.
THEOREM FailedMigrationsClean ==
  ASSUME RemovesOpen
  PROVE  Spec => []FailedMigrationLeavesNothing
<1>1. MigrationInv => FailedMigrationLeavesNothing
  <2> SUFFICES ASSUME MigrationInv, NEW p \in Procs \ disturbed, st[p].op = "migrate",
                      At(p, "exited"), st[p].status = 1, st[p].created
               PROVE  ~Present(st[p].dest)
    BY DEF FailedMigrationLeavesNothing
  <2>1. View(p) /\ st[p].pc = "exited"
    BY MigrationFiles DEF At
  <2> QED
    BY <2>1, RemovesOpen DEF View, CopyInv, Present
<1> QED
  BY <1>1, MigrationInductive, PTL

============================================================================
