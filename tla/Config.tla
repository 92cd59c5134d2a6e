------------------------------- MODULE Config -------------------------------
(***************************************************************************)
(* The "polycall config" command family of polycall_config.c: processes    *)
(* that load, validate and migrate the layered configuration files of one  *)
(* directory, while a user may save or remove some of those files.  A step *)
(* is one call on the file system (a probe, an open, a chunk written, a    *)
(* close) or one line taken from an open file, with all that the code does *)
(* up to the next such call.                                               *)
(*                                                                         *)
(* A file is a sequence of lines.  A line is what the parser's tests tell  *)
(* apart: its kind, its words, and what the conversions make of its value. *)
(***************************************************************************)
EXTENDS Naturals, Sequences, FiniteSets, SequencesExt

CONSTANTS Procs,          \* processes, each of which runs one command
          Commands,       \* the arguments each process may be started with
          Keys,           \* the keys the files mention
          Languages,      \* the names valid_language accepts
          Paths,          \* the files of the directory
          Filesystems,    \* the contents the directory may start with
          Editable,       \* the files the user changes meanwhile
          Drafts,         \* the contents the user may save
          MaxEdits,       \* bound on the user's changes
          MAX_SERVERS, MAX_VALUES,   \* POLYCALL_CONFIG_MAX_...
          Kills,          \* whether a process may be killed
          Unreadable,     \* the files that fopen(path, "rb") is refused
          RemovesOpen,    \* whether remove() takes a file that is open (POSIX does)
          Absent, None    \* no such file; no such value

VARIABLES files,    \* what is at each path
          writers,  \* the processes whose open output is the file at a path
          edits,    \* changes made by the user
          st,       \* where each process is, and its local variables
          config,   \* the PolycallConfig of each process
          given,    \* history: the last value each layer gave to each key
          disturbed \* history: the migrations whose files somebody else changed

vars == <<files, writers, edits, st, config, given, disturbed>>

-----------------------------------------------------------------------------
(* Names, keys and values.                                                 *)

Polycallfile == <<"Polycallfile">>
Polycallrc == <<"Polycallrc">>
Legacy == <<".polycallrc">>
Override(language) == <<"Polycallrc", language>>

Layers == {"project", "runtime", "language"}

TLS_KEYS == {"tls_enabled", "cert_file", "key_file"}
SHARED_KEYS == TLS_KEYS \cup
    {"network_timeout", "max_connections", "log_directory", "workspace_root",
     "auto_discover", "discovery_interval", "max_memory_per_service",
     "max_cpu_per_service", "enable_metrics", "metrics_port"}

PROJECT_KEYS == SHARED_KEYS
RUNTIME_KEYS == SHARED_KEYS \cup
    {"port", "server_type", "workspace", "log_level", "supports_diagnostics",
     "supports_completion", "supports_formatting", "max_memory", "timeout",
     "allow_remote", "require_auth"}

BOOLEAN_KEYS ==
    {"auto_discover", "tls_enabled", "enable_metrics", "supports_diagnostics",
     "supports_completion", "supports_formatting", "allow_remote", "require_auth"}
POSITIVE_INTEGER_KEYS ==
    {"network_timeout", "max_connections", "discovery_interval",
     "max_cpu_per_service", "metrics_port", "timeout"}

is_known_key(key, layer) ==
    key \in (IF layer = "project" THEN PROJECT_KEYS ELSE RUNTIME_KEYS)

\* The text of a value, and what strtoul makes of it and of its two halves
\* around a ':' (0 when the conversion is refused).
Value == [text: STRING, number: Nat, host: Nat, target: Nat]

parse_positive_integer(value) == value.number > 0
parse_port_mapping(value) ==
    value.host \in 1..65535 /\ value.target \in 1..65535

Line == [kind: {"blank", "malformed", "too_long"}]
        \cup [kind: {"server"}, words: 1..3, language: STRING, mapping: Value]
        \cup [kind: {"network"}, words: 1..2, action: STRING]
        \cup [kind: {"value"}, key: Keys, value: Value]

Entry == [key: Keys, value: Value]
Server == [language: STRING, host_port: Nat, target_port: Nat]

PolycallConfig ==
    [servers: Seq(Server), values: Seq(Entry), network_enabled: BOOLEAN,
     network_seen: BOOLEAN, warnings: Nat]

NoConfig ==
    [servers |-> <<>>, values |-> <<>>, network_enabled |-> FALSE,
     network_seen |-> FALSE, warnings |-> 0]

-----------------------------------------------------------------------------
(* Reading and changing a configuration.                                   *)

Holds(c, key) == \E i \in DOMAIN c.values : c.values[i].key = key

\* The first entry with the key.
IndexOf(c, key) ==
    CHOOSE i \in DOMAIN c.values :
        /\ c.values[i].key = key
        /\ \A j \in 1..(i - 1) : c.values[j].key # key

config_get(c, key) ==
    IF Holds(c, key) THEN c.values[IndexOf(c, key)].value ELSE None

\* Mutant: the limit forgotten.
can_set_Unbounded(c, key) == c = c /\ key = key

can_set(c, key) == Holds(c, key) \/ Len(c.values) < MAX_VALUES

\* Mutant: an entry added although the key has one.
config_set_Appends(c, key, value) ==
    [c EXCEPT !.values = Append(@, [key |-> key, value |-> value])]

config_set(c, key, value) ==
    IF Holds(c, key)
    THEN [c EXCEPT !.values[IndexOf(c, key)].value = value]
    ELSE [c EXCEPT !.values = Append(@, [key |-> key, value |-> value])]

validate_value(key, value) ==
    /\ key = "port" => parse_port_mapping(value)
    /\ key \in BOOLEAN_KEYS => value.text \in {"true", "false"}
    /\ key \in POSITIVE_INTEGER_KEYS => parse_positive_integer(value)
    /\ key = "metrics_port" => value.number \in 1..65535

can_add_server(c, language, mapping) ==
    /\ parse_port_mapping(mapping)
    /\ \A i \in DOMAIN c.servers : c.servers[i].language # language
    /\ Len(c.servers) < MAX_SERVERS

add_server(c, language, mapping) ==
    [c EXCEPT !.servers = Append(@, [language |-> language,
                                     host_port |-> mapping.host,
                                     target_port |-> mapping.target])]

\* Mutant: the certificate asked for without its key.
validate_required_NoKeyFile(c, require_project_fields, language) ==
    /\ require_project_fields =>
        Holds(c, "workspace_root") /\ Holds(c, "log_directory")
    /\ (Holds(c, "tls_enabled") /\ config_get(c, "tls_enabled").text = "true") =>
        Holds(c, "cert_file")
    /\ language # None =>
        /\ Holds(c, "workspace")
        /\ Holds(c, "server_type")
        /\ config_get(c, "server_type").text = language

validate_required(c, require_project_fields, language) ==
    /\ require_project_fields =>
        Holds(c, "workspace_root") /\ Holds(c, "log_directory")
    /\ (Holds(c, "tls_enabled") /\ config_get(c, "tls_enabled").text = "true") =>
        Holds(c, "cert_file") /\ Holds(c, "key_file")
    /\ language # None =>
        /\ Holds(c, "workspace")
        /\ Holds(c, "server_type")
        /\ config_get(c, "server_type").text = language

-----------------------------------------------------------------------------
(* The lines of a file.  A line that is refused ends the command.          *)

AcceptsServer(c, layer, line) ==
    /\ layer = "project"
    /\ line.words = 2
    /\ can_add_server(c, line.language, line.mapping)

AcceptsNetwork(layer, line) ==
    /\ layer = "project"
    /\ line.words = 1
    /\ line.action \in {"start", "stop"}

AcceptsValue(c, line) ==
    /\ validate_value(line.key, line.value)
    /\ can_set(c, line.key)

Accepts(c, layer, line) ==
    \/ line.kind = "blank"
    \/ line.kind = "server" /\ AcceptsServer(c, layer, line)
    \/ line.kind = "network" /\ AcceptsNetwork(layer, line)
    \/ line.kind = "value" /\ AcceptsValue(c, line)

\* What an accepted line makes of the configuration.
parse_line(c, layer, line) ==
    CASE line.kind = "server" -> add_server(c, line.language, line.mapping)
      [] line.kind = "network" ->
            [c EXCEPT !.network_enabled = (line.action = "start"),
                      !.network_seen = TRUE]
      [] line.kind = "value" ->
            config_set([c EXCEPT !.warnings =
                            IF is_known_key(line.key, layer) THEN @ ELSE @ + 1],
                       line.key, line.value)
      [] OTHER -> c

-----------------------------------------------------------------------------
(* Where a path belongs, and what a command line asks for.                 *)

infer_layer(path) ==
    CASE path = Polycallfile -> "project"
      [] path[1] = "Polycallrc" /\ Len(path) = 2 -> "language"
      [] path = Legacy -> "language"
      [] OTHER -> "runtime"

infer_language(path) ==
    IF path[1] = "Polycallrc" /\ Len(path) = 2 THEN path[2] ELSE None

Idle == [pc |-> "idle", op |-> None, language |-> None, path |-> None,
         layer |-> None, dest |-> None, buf |-> <<>>, copied |-> 0,
         created |-> FALSE, status |-> None]

Load(language) == [Idle EXCEPT !.pc = "test_project", !.op = "load",
                               !.language = language]

ValidateOne(path) == [Idle EXCEPT !.pc = "open", !.op = "one", !.path = path,
                                  !.layer = infer_layer(path),
                                  !.language = infer_language(path)]

\* show_rc: an invalid language name ends the command at once.
Rc(language) ==
    IF language \in Languages
    THEN [Idle EXCEPT !.pc = "test_language", !.op = "rc", !.language = language]
    ELSE [Idle EXCEPT !.pc = "exited", !.op = "rc", !.status = 1]

Migrate(source, dest) == [Idle EXCEPT !.pc = "test_dest", !.op = "migrate",
                                      !.path = source, !.dest = dest]

Usage == [Idle EXCEPT !.pc = "exited", !.op = "usage", !.status = 1]

polycall_config_cli(args) ==
    LET argc == Len(args) IN
    CASE argc \in 1..2 /\ args[1] \in {"load", "show"} ->
            Load(IF argc = 2 THEN args[2] ELSE None)
      [] argc = 1 /\ args[1] = "validate" -> Load(None)
      [] argc = 2 /\ args[1] = "validate" -> ValidateOne(args[2])
      [] argc = 3 /\ args[1] = "migrate" -> Migrate(args[2], args[3])
      [] argc = 4 /\ args[1] = "rc" /\ args[2] = "migrate" ->
            Migrate(args[3], args[4])
      [] argc = 3 /\ args[1] = "rc" /\ args[2] \in {"show", "validate"} ->
            Rc(args[3])
      [] OTHER -> Usage

Present(path) == files[path] # Absent

\* The code asks fopen, which a file that may not be read refuses.
file_exists(path) == Present(path) /\ path \notin Unreadable

\* The keys validate_required asks for.
REQUIRED_KEYS ==
    {"workspace_root", "log_directory", "tls_enabled", "cert_file", "key_file",
     "workspace", "server_type"}

\* The directory has the files the code names, its files are made of lines,
\* and the commands name files and languages.
ASSUME ConfigAssumption ==
    /\ REQUIRED_KEYS \subseteq Keys
    /\ None \notin Value \cup PolycallConfig /\ None \notin Languages
    /\ Absent \notin Seq(Line)
    /\ {Polycallfile, Polycallrc, Legacy} \subseteq Paths
    /\ \A l \in Languages : l \in STRING /\ Override(l) \in Paths
    /\ \A d \in Filesystems : d \in [Paths -> Seq(Line) \cup {Absent}]
    /\ \A d \in Drafts : d \in Seq(Line)
    /\ Unreadable \subseteq Paths /\ RemovesOpen \in BOOLEAN
    /\ MAX_SERVERS \in Nat /\ MAX_VALUES \in Nat /\ MaxEdits \in Nat

ASSUME CommandsAssumption ==
    \A p \in Procs : \A args \in Commands[p] :
        LET s == polycall_config_cli(args) IN
        /\ s.language \in STRING \cup {None}
        /\ s.op \in {"one", "migrate"} => s.path \in Paths
        /\ s.op = "migrate" => s.dest \in Paths

-----------------------------------------------------------------------------
Nothing == [l \in Layers |-> [k \in Keys |-> None]]

Init ==
    /\ files \in Filesystems
    /\ writers = [f \in Paths |-> {}]
    /\ edits = 0
    /\ st = [p \in Procs |-> Idle]
    /\ config = [p \in Procs |-> NoConfig]
    /\ given = [p \in Procs |-> Nothing]
    /\ disturbed = {}

At(p, label) == st[p].pc = label

Becomes(p, s) == st' = [st EXCEPT ![p] = s]

Goto(p, label) == Becomes(p, [st[p] EXCEPT !.pc = label])

Exit(p, status) ==
    Becomes(p, [st[p] EXCEPT !.pc = "exited", !.status = status])

Opens(p, path, layer) ==
    Becomes(p, [st[p] EXCEPT !.pc = "open", !.path = path, !.layer = layer])

Return(p, ok) == Exit(p, IF ok THEN 0 ELSE 1)

Start(p) ==
    /\ At(p, "idle")
    /\ \E args \in Commands[p] : Becomes(p, polycall_config_cli(args))
    /\ UNCHANGED <<files, writers, edits, config, given>>

\* load_hierarchy: the project file must be there.
TestProject(p) ==
    /\ At(p, "test_project")
    /\ IF file_exists(Polycallfile) THEN Opens(p, Polycallfile, "project")
                                    ELSE Exit(p, 1)
    /\ UNCHANGED <<files, writers, edits, config, given>>

\* What follows the first two layers.
AfterRuntime(p) ==
    CASE st[p].language = None ->
            Return(p, validate_required(config[p], TRUE, None))
      [] st[p].language \in Languages -> Goto(p, "test_language")
      [] OTHER -> Exit(p, 1)

TestRuntime(p) ==
    /\ At(p, "test_runtime")
    /\ IF file_exists(Polycallrc) THEN Opens(p, Polycallrc, "runtime")
                                  ELSE AfterRuntime(p)
    /\ UNCHANGED <<files, writers, edits, config, given>>

\* load_hierarchy and show_rc: the legacy file is a fallback.
TestLanguage(p) ==
    /\ At(p, "test_language")
    /\ IF file_exists(Override(st[p].language))
       THEN Opens(p, Override(st[p].language), "language")
       ELSE Goto(p, "test_legacy")
    /\ UNCHANGED <<files, writers, edits, config, given>>

TestLegacy(p) ==
    /\ At(p, "test_legacy")
    /\ IF file_exists(Legacy) THEN Opens(p, Legacy, "language") ELSE Exit(p, 1)
    /\ UNCHANGED <<files, writers, edits, config, given>>

\* parse_config_file: fopen; a file that has gone since it was tested ends
\* the command.  stdio takes a file of this size in with its first read.
Open(p) ==
    /\ At(p, "open")
    /\ IF file_exists(st[p].path)
       THEN Becomes(p, [st[p] EXCEPT !.pc = "read", !.buf = files[st[p].path]])
       ELSE Exit(p, 1)
    /\ UNCHANGED <<files, writers, edits, config, given>>

ReadLine(p) ==
    /\ At(p, "read")
    /\ st[p].buf # <<>>
    /\ LET line == Head(st[p].buf) IN
        /\ Accepts(config[p], st[p].layer, line)
        /\ config' = [config EXCEPT ![p] = parse_line(@, st[p].layer, line)]
        /\ given' = IF line.kind = "value"
                    THEN [given EXCEPT ![p][st[p].layer][line.key] = line.value]
                    ELSE given
    /\ Becomes(p, [st[p] EXCEPT !.buf = Tail(@)])
    /\ UNCHANGED <<files, writers, edits>>

RefuseLine(p) ==
    /\ At(p, "read")
    /\ st[p].buf # <<>>
    /\ ~Accepts(config[p], st[p].layer, Head(st[p].buf))
    /\ Exit(p, 1)
    /\ UNCHANGED <<files, writers, edits, config, given>>

\* ferror: the file could not be read to its end.
ReadError(p) ==
    /\ At(p, "read")
    /\ Exit(p, 1)
    /\ UNCHANGED <<files, writers, edits, config, given>>

EndOfFile(p) ==
    /\ At(p, "read")
    /\ st[p].buf = <<>>
    /\ LET c == config[p]  s == st[p] IN
       CASE s.op = "load" /\ s.layer = "project" -> Goto(p, "test_runtime")
         [] s.op = "load" /\ s.layer = "runtime" -> AfterRuntime(p)
         [] s.op = "load" /\ s.layer = "language" ->
                Return(p, validate_required(c, TRUE, s.language))
         [] s.op = "one" ->
                Return(p, validate_required(c, s.layer = "project", s.language))
         [] s.op = "rc" -> Return(p, validate_required(c, FALSE, s.language))
         [] s.op = "migrate" ->
                IF validate_required(c, FALSE, s.language)
                THEN Goto(p, "open_input")
                ELSE Exit(p, 1)
    /\ UNCHANGED <<files, writers, edits, config, given>>

-----------------------------------------------------------------------------
(* migrate_config.                                                         *)

TestDest(p) ==
    /\ At(p, "test_dest")
    /\ IF ~file_exists(st[p].dest) /\ infer_language(st[p].dest) \in Languages
       THEN Becomes(p, [st[p] EXCEPT !.pc = "open", !.layer = "language",
                                     !.language = infer_language(st[p].dest)])
       ELSE Exit(p, 1)
    /\ UNCHANGED <<files, writers, edits, config, given>>

\* Mutant: the stream of the validation used again, at its end.
OpenInput_NotRewound(p) ==
    /\ At(p, "open_input")
    /\ IF file_exists(st[p].path)
       THEN Becomes(p, [st[p] EXCEPT !.pc = "open_output"])
       ELSE Exit(p, 1)
    /\ UNCHANGED <<files, writers, edits, config, given>>

\* The source is opened a second time.
OpenInput(p) ==
    /\ At(p, "open_input")
    /\ IF file_exists(st[p].path)
       THEN Becomes(p, [st[p] EXCEPT !.pc = "open_output",
                                     !.buf = files[st[p].path]])
       ELSE Exit(p, 1)
    /\ UNCHANGED <<files, writers, edits, config, given>>

\* fopen(destination, "wb") creates the file or empties it.
OpenOutput(p) ==
    /\ At(p, "open_output")
    /\ files' = [files EXCEPT ![st[p].dest] = <<>>]
    /\ writers' = [writers EXCEPT ![st[p].dest] = @ \cup {p}]
    /\ Becomes(p, [st[p] EXCEPT !.pc = "fill", !.created = TRUE])
    /\ UNCHANGED <<edits, config, given>>

OpenOutputFails(p) ==
    /\ At(p, "open_output")
    /\ Exit(p, 1)
    /\ UNCHANGED <<files, writers, edits, config, given>>

\* The first fread, after both files are open: a source rewritten in place since
\* it was opened shows its new text, one that was removed or replaced its old.
Fill(p) ==
    /\ At(p, "fill")
    /\ \E text \in {st[p].buf, files[st[p].path]} \ {Absent} :
        Becomes(p, [st[p] EXCEPT !.pc = "copy", !.buf = text])
    /\ UNCHANGED <<files, writers, edits, config, given>>

\* A chunk at this process's offset; a gap before it reads as NUL bytes, which
\* the parser takes for a line without end.
Overwrite(content, offset, line) ==
    [i \in 1..(IF Len(content) > offset THEN Len(content) ELSE offset + 1) |->
        IF i = offset + 1 THEN line
        ELSE IF i <= Len(content) THEN content[i] ELSE [kind |-> "too_long"]]

\* Mutant: the next chunk written over the one before it.
CopyChunk_SameOffset(p) ==
    /\ At(p, "copy")
    /\ st[p].buf # <<>>
    /\ files' = IF p \in writers[st[p].dest]
                THEN [files EXCEPT ![st[p].dest] =
                        Overwrite(@, st[p].copied, Head(st[p].buf))]
                ELSE files
    /\ Becomes(p, [st[p] EXCEPT !.buf = Tail(@)])
    /\ UNCHANGED <<writers, edits, config, given>>

\* One turn of the fread/fwrite loop.  Once the file has been removed or
\* replaced at its path the output goes to a file without a name.
CopyChunk(p) ==
    /\ At(p, "copy")
    /\ st[p].buf # <<>>
    /\ files' = IF p \in writers[st[p].dest]
                THEN [files EXCEPT ![st[p].dest] =
                        Overwrite(@, st[p].copied, Head(st[p].buf))]
                ELSE files
    /\ Becomes(p, [st[p] EXCEPT !.buf = Tail(@), !.copied = @ + 1])
    /\ UNCHANGED <<writers, edits, config, given>>

Unlink(path) ==
    /\ files' = [files EXCEPT ![path] = Absent]
    /\ writers' = [writers EXCEPT ![path] = {}]

\* Mutant: the partial destination left behind.
WriteFails_KeepsFile(p) ==
    /\ At(p, "copy")
    /\ writers' = [writers EXCEPT ![st[p].dest] = @ \ {p}]
    /\ Exit(p, 1)
    /\ UNCHANGED <<files, edits, config, given>>

\* fwrite or fclose fails: the output is closed, and removed.
WriteFails(p) ==
    /\ At(p, "copy")
    /\ Unlink(st[p].dest)
    /\ Exit(p, 1)
    /\ UNCHANGED <<edits, config, given>>

\* ferror(input): the output is removed while it is still open.
ReadFails(p) ==
    /\ At(p, "fill") \/ At(p, "copy")
    /\ IF RemovesOpen THEN Unlink(st[p].dest)
       ELSE /\ writers' = [writers EXCEPT ![st[p].dest] = @ \ {p}]
            /\ UNCHANGED files
    /\ Exit(p, 1)
    /\ UNCHANGED <<edits, config, given>>

CloseOutput(p) ==
    /\ At(p, "copy")
    /\ st[p].buf = <<>>
    /\ writers' = [writers EXCEPT ![st[p].dest] = @ \ {p}]
    /\ Exit(p, 0)
    /\ UNCHANGED <<files, edits, config, given>>

-----------------------------------------------------------------------------
(* The surroundings: a user at the files, and a process killed.            *)

Save(path) ==
    /\ edits < MaxEdits
    /\ edits' = edits + 1
    /\ \E content \in Drafts : files' = [files EXCEPT ![path] = content]
    /\ UNCHANGED <<writers, st, config, given>>

Delete(path) ==
    /\ edits < MaxEdits
    /\ edits' = edits + 1
    /\ Present(path)
    /\ Unlink(path)
    /\ UNCHANGED <<st, config, given>>

Running(p) == st[p].pc \notin {"idle", "exited", "killed"}

Kill(p) ==
    /\ Kills
    /\ Running(p)
    /\ Goto(p, "killed")
    /\ writers' = [f \in Paths |-> writers[f] \ {p}]
    /\ UNCHANGED <<files, edits, config, given>>

-----------------------------------------------------------------------------
Step(p) ==
    \/ TestProject(p) \/ TestRuntime(p) \/ TestLanguage(p) \/ TestLegacy(p)
    \/ Open(p) \/ ReadLine(p) \/ RefuseLine(p) \/ ReadError(p) \/ EndOfFile(p)
    \/ TestDest(p) \/ OpenInput(p) \/ OpenOutput(p) \/ OpenOutputFails(p)
    \/ Fill(p) \/ CopyChunk(p) \/ WriteFails(p) \/ ReadFails(p) \/ CloseOutput(p)

User == \E path \in Editable : Save(path) \/ Delete(path)

\* The files a migration depends on: its destination, and its source from the
\* first reading on.
Involved(q) ==
    {st[q].dest} \cup (IF st[q].pc \in {"test_dest", "open"} THEN {} ELSE {st[q].path})

\* The step of somebody else than the processes qs changes a file of their migrations.
Disturb(qs) ==
    disturbed' = disturbed \cup
        {q \in qs : st[q].op = "migrate" /\ \E f \in Involved(q) : files'[f] # files[f]}

Next ==
    \/ \E p \in Procs : (Start(p) \/ Step(p) \/ Kill(p)) /\ Disturb(Procs \ {p})
    \/ User /\ Disturb(Procs)

Spec == Init /\ [][Next]_vars

-----------------------------------------------------------------------------
(* Properties.                                                             *)

\* Every variable has the type the code gives it; no configuration outgrows
\* its arrays.
CTypeOK ==
    /\ files \in [Paths -> Seq(Line) \cup {Absent}]
    /\ writers \in [Paths -> SUBSET Procs]
    /\ edits \in 0..MaxEdits
    /\ \A p \in Procs :
        /\ config[p] \in PolycallConfig
        /\ Len(config[p].servers) <= MAX_SERVERS
        /\ Len(config[p].values) <= MAX_VALUES
        /\ given[p] \in [Layers -> [Keys -> Value \cup {None}]]
        /\ st[p].buf \in Seq(Line)
        /\ st[p].status \in {0, 1, None}
    /\ disturbed \subseteq Procs

\* The value the layers give a key: that of the last layer that mentions it.
Layered(p, key) ==
    IF given[p]["language"][key] # None THEN given[p]["language"][key]
    ELSE IF given[p]["runtime"][key] # None THEN given[p]["runtime"][key]
    ELSE given[p]["project"][key]

\* Later layers override earlier ones (docs/CONFIGURATION_STANDARD.md): what
\* config_get finds is, at any time and for any key, the last value in the
\* latest layer read so far, whatever order the entries were added in.
LayersOverride ==
    \A p \in Procs, key \in Keys : config_get(config[p], key) = Layered(p, key)

Succeeded(p, op) == At(p, "exited") /\ st[p].status = 0 /\ st[p].op = op

Gives(p, key) == Layered(p, key) # None

\* A load that reports a valid configuration has, counting all its layers, the
\* required fields, a certificate and a key when TLS is on, and for a language
\* a server_type that names that language.
ValidMeansComplete ==
    \A p \in Procs : Succeeded(p, "load") =>
        /\ Gives(p, "workspace_root") /\ Gives(p, "log_directory")
        /\ (Gives(p, "tls_enabled") /\ Layered(p, "tls_enabled").text = "true") =>
            Gives(p, "cert_file") /\ Gives(p, "key_file")
        /\ st[p].language # None =>
            /\ Gives(p, "workspace")
            /\ Gives(p, "server_type")
            /\ Layered(p, "server_type").text = st[p].language

\* A line of an override file; None once a line has been refused.
TakeLine(c, line) ==
    IF c # None /\ Accepts(c, "language", line)
    THEN parse_line(c, "language", line) ELSE None

\* What the lines of an override file make of a configuration, one by one.
Parsed(content) ==
    LET after[n \in 0 .. Len(content)] ==
            IF n = 0 THEN NoConfig ELSE TakeLine(after[n - 1], content[n])
    IN  after

\* What "config rc validate" would say of a file, in one go.
RcAccepts(content, language) ==
    LET c == Parsed(content)[Len(content)]
    IN  c # None /\ validate_required(c, FALSE, language)

\* The source of a migration is read twice, once to validate it and once to copy
\* it.  A migration that reports success has left a file which "config rc
\* validate" accepts for its language, unless somebody else changed the source
\* after it was first read, or the destination.
MigratedIsUsable ==
    \A p \in Procs : Succeeded(p, "migrate") /\ p \notin disturbed =>
        /\ Present(st[p].dest)
        /\ RcAccepts(files[st[p].dest], infer_language(st[p].dest))

\* However far a migration came, and also when it was killed between fopen and
\* fclose, what it has created is the beginning of its source (which nobody else
\* changed): no line is lost, repeated or out of place.
PartialIsPrefix ==
    \A p \in Procs \ disturbed : st[p].created /\ Present(st[p].dest) =>
        /\ Present(st[p].path)
        /\ IsPrefix(files[st[p].dest], files[st[p].path])

\* "Migration ... refuses to overwrite an existing destination"
\* (docs/CONFIGURATION_STANDARD.md): fopen with "wb" empties a file that is
\* there, so it must come only when none is, although the code looked for one
\* long before.
RefusesToOverwrite ==
    [][\A p \in Procs : OpenOutput(p) => ~Present(st[p].dest)]_vars

\* A migration that reports failure leaves no half-written destination, which
\* would shadow the legacy file and refuse the next migration, unless somebody
\* else wrote that file too.
FailedMigrationLeavesNothing ==
    \A p \in Procs \ disturbed :
        (st[p].op = "migrate" /\ At(p, "exited") /\ st[p].status = 1
            /\ st[p].created) => ~Present(st[p].dest)
=============================================================================
