------------------------------ MODULE MCConfig ------------------------------
(* Instances of Config for TLC: directories of short files and the commands  *)
(* run in them.                                                              *)
EXTENDS Config, TLC

CONSTANTS p1, p2

ProcsDef == {p1, p2}
KeysDef == {"workspace_root", "log_directory", "tls_enabled", "cert_file",
            "key_file", "metrics_port", "workspace", "server_type", "unknown"}
LanguagesDef == {"node", "python"}
PathsDef == {Polycallfile, Polycallrc, Legacy, Override("node"), Override("python")}

Text(t) == [text |-> t, number |-> 0, host |-> 0, target |-> 0]
Number(n) == [text |-> "number", number |-> n, host |-> 0, target |-> 0]
Mapping(h, t) == [text |-> "mapping", number |-> 0, host |-> h, target |-> t]

Set(key, value) == [kind |-> "value", key |-> key, value |-> value]
Serve(language, mapping) ==
    [kind |-> "server", words |-> 2, language |-> language, mapping |-> mapping]
Net(action) == [kind |-> "network", words |-> 1, action |-> action]

\* Project files: the fields in both orders, TLS with and without its files,
\* topology, a value refused, a language twice, a language too many.
Root == Set("workspace_root", Text("/opt"))
Logs == Set("log_directory", Text("/log"))
Projects ==
    {<<Root, Logs, Serve("node", Mapping(80, 81))>>,
     <<Root, Set("tls_enabled", Text("true")), Logs>>,
     <<Net("start"), Set("metrics_port", Number(65536))>>,
     <<Serve("node", Mapping(80, 81)), Serve("node", Mapping(82, 83)), Logs>>,
     <<Serve("node", Mapping(1, 65535)), Serve("go", Mapping(1, 2)),
       Serve("python", Mapping(1, 2))>>}

Secure == <<Set("cert_file", Text("c")), Set("key_file", Text("k")),
            Set("tls_enabled", Text("true"))>>
Runtimes ==
    {<<Set("cert_file", Text("c")), Set("tls_enabled", Text("true"))>>,
     <<Set("tls_enabled", Text("false")), [kind |-> "blank"],
       Set("log_directory", Text("/tmp"))>>,
     <<Serve("node", Mapping(80, 81))>>}

Node == Set("server_type", Text("node"))
Python == Set("server_type", Text("python"))
Work == Set("workspace", Text("/node"))
Overrides == {Absent, <<Node, Work>>, <<Set("log_directory", Text("/n")), Work>>}
Legacies == {Absent, <<Python, Work, Node>>, <<Work, Python>>,
             <<Work, Set("unknown", Text("x")), [kind |-> "malformed"]>>}

Directory(a, b, c, d) ==
    [f \in PathsDef |->
        CASE f = Polycallfile -> a [] f = Polycallrc -> b [] f = Legacy -> c
          [] f = Override("node") -> d [] OTHER -> Absent]

\* Every project file, every runtime file and every override, not all at once.
FilesystemsDef ==
    {Directory(a, b, <<Work, Node>>, Absent) :
        a \in Projects, b \in {Absent, Secure}}
    \cup {Directory(<<Logs, Root>>, b, Absent, <<Node, Work>>) : b \in Runtimes}
    \cup {Directory(<<Root, Logs>>, Absent, c, d) : c \in Legacies, d \in Overrides}
    \cup {Directory(Absent, Absent, <<Work, Node>>, Absent)}
    \cup {[Directory(<<Root, Logs>>, Absent, <<Work, Python>>, Absent)
            EXCEPT ![Override("python")] = <<Python>>]}

\* One process reads, the other migrates the legacy file.
CommandsDef ==
    p1 :> {<<"show", "node">>, <<"load", "no/de">>, <<"load", "node", "go">>,
           <<"validate">>, <<"validate", Polycallfile>>,
           <<"rc", "validate", "node">>, <<"rc", "show", "../x">>} @@
    p2 :> {<<"migrate", Legacy, Override("node")>>, <<"migrate", Legacy, Polycallrc>>,
           <<"migrate", Legacy, Override("python")>>}

\* The user edits the project file and the source of the migration.
EditableDef == {Polycallfile, Legacy}
DraftsDef == {<<Logs, Root>>, <<Work>>}

\* A file without read permission.
UnreadableDef == {Override("python")}

\* Two processes migrate the legacy file to one language.
RivalCommands == [p \in ProcsDef |-> {<<"migrate", Legacy, Override("node")>>}]
RivalFilesystem == {Directory(Absent, Absent, <<Work, Node>>, Absent)}
=============================================================================
