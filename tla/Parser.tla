------------------------------- MODULE Parser -------------------------------
(***************************************************************************)
(* polycall_parser.c on top of the tokenizer it owns: parse_string sets the *)
(* input, scans it with no patterns at all and parses whatever the token   *)
(* array then holds.  parser->tokenizer is a public field, so the array    *)
(* may hold tokens the application scanned itself.  One step is one turn   *)
(* of a loop of the parser.  Nodes come from a pool of max_nodes and are   *)
(* numbered in the order they are taken; node 1 is the root.               *)
(***************************************************************************)
EXTENDS Tokenizer

CONSTANTS MaxNodes,      \* config->max_nodes
          MaxChildren,   \* the 16 entries of a child array
          ParseInputs    \* the inputs given to parse_string

ASSUME ParserAssumption ==
    /\ MaxNodes \in Nat \ {0} /\ MaxChildren \in Nat
    /\ \A s \in ParseInputs : s \in Seq(Chars)

VARIABLES at,        \* the loop the parser is in: "none" when it is not running
          token,     \* current_token, as an index into tokens; 0 for NULL
          next,      \* token_index: how many tokens advance_token has taken
          nodes,     \* the node pool
          function, block,  \* the function and block being parsed, 0 for none
          returned   \* what the last parse returned: "null", "ast" or "none"

parsing == <<at, token, next, nodes, function, block>>
pvars == <<tvars, parsing, returned>>

NodeTypes == {"PROGRAM", "FUNCTION", "BLOCK", "STATEMENT", "EXPRESSION"}
Node == [type: NodeTypes, parent: Nat, children: Nat]

PInit ==
    /\ TInit
    /\ at = "none" /\ token = 0 /\ next = 0 /\ nodes = <<>>
    /\ function = 0 /\ block = 0
    /\ returned = "none"

TokenType == IF token = 0 THEN "NULL" ELSE tokens[token].type
Is(type) == TokenType = type

CanAdvance == next < Len(tokens)
advance_token == IF CanAdvance THEN token' = next + 1 /\ next' = next + 1
                               ELSE UNCHANGED <<token, next>>

\* expect_token moves on when the type is right; it reports success when it
\* could move.
expect_token(type) == Is(type) /\ CanAdvance

Full == Len(nodes) >= MaxNodes

New(type, parent) == [type |-> type, parent |-> parent, children |-> 0]
Adopt(pool, parent) == [pool EXCEPT ![parent].children = @ + 1]

\* The child arrays of the root and of a block have a fixed size and nothing
\* compares child_count with it.  The store behind the last entry overruns the
\* heap: what the program does from then on is undefined and the model stops.
Store(pool, parent, loop) ==
    IF pool[parent].children < MaxChildren
    THEN nodes' = Adopt(pool, parent) /\ at' = loop
    ELSE nodes' = pool /\ at' = "overrun"

Running == current = "PARSING"

-----------------------------------------------------------------------------
(* parse_string: set_input and the start of the scan.                      *)

ParseString(input) ==
    /\ Call("parse_string")
    /\ Len(input) > 0
    /\ IF Len(input) > BufferSize
       THEN set_input(input) /\ at' = "none" /\ returned' = "null"
       ELSE /\ buffer' = Filled(input)
            /\ position' = 0 /\ line' = 1 /\ column' = 1
            /\ current' = "SCANNING"
            /\ accepted' = Len(input) /\ base' = Len(tokens)
            /\ at' = "scan" /\ returned' = "none"
    /\ ops' = <<>>
    /\ UNCHANGED <<tokens, derived, bad_free, token, next, nodes, function, block>>

\* The scan of parse_string fails, or ends and parse_tokens begins.
ScanFailed ==
    /\ at = "scan"
    /\ NoMatch
    /\ at' = "none" /\ returned' = "null"
    /\ UNCHANGED <<token, next, nodes, function, block>>

ScanSpace == at = "scan" /\ SkipSpace /\ UNCHANGED <<parsing, returned>>

\* Mutant: the scan ends with the input, not with the buffer.
BeginParse_AtInputEnd ==
    /\ at = "scan"
    /\ current = "SCANNING"
    /\ position >= accepted
    /\ Add(create_token("EOF", position, 0))
    /\ current' = "PARSING"
    /\ at' = "program" /\ token' = 1 /\ next' = 0
    /\ nodes' = <<New("PROGRAM", 0)>>
    /\ function' = 0 /\ block' = 0
    /\ UNCHANGED <<place, ops, calls, accepted, base, derived, bad_free, returned>>

\* parse_tokens: current_token is the first token and token_index is 0, so the
\* first advance takes the first token again.
BeginParse ==
    /\ at = "scan"
    /\ current = "SCANNING"
    /\ position >= BufferSize
    /\ Add(create_token("EOF", position, 0))
    /\ current' = "PARSING"
    /\ at' = "program" /\ token' = 1 /\ next' = 0
    /\ nodes' = <<New("PROGRAM", 0)>>
    /\ function' = 0 /\ block' = 0
    /\ UNCHANGED <<place, ops, calls, accepted, base, derived, bad_free, returned>>

-----------------------------------------------------------------------------
(* The loop of parse_tokens, with parse_function up to its parameters.  A   *)
(* function that cannot be parsed gives no node and the loop goes on.       *)

Function ==
    /\ Running /\ at = "program"
    /\ ~Is("EOF")
    /\ expect_token("IDENTIFIER")
    /\ LET after == tokens[next + 1].type
           skip == ~Full /\ after = "SEPARATOR" /\ next + 1 < Len(tokens)
       IN  \* the separator before the parameters is taken too
           /\ token' = IF skip THEN next + 2 ELSE next + 1
           /\ next' = IF skip THEN next + 2 ELSE next + 1
    /\ IF Full
       THEN UNCHANGED <<at, nodes, function>>
       ELSE /\ nodes' = Append(nodes, New("FUNCTION", 0))
            /\ function' = Len(nodes) + 1
            /\ at' = "parameters"
    /\ UNCHANGED <<tvars, block, returned>>

Parameter ==
    /\ Running /\ at = "parameters"
    /\ ~Is("SEPARATOR")
    /\ advance_token
    /\ UNCHANGED <<tvars, at, nodes, function, block, returned>>

\* The function goes to the root, with or without a body.
EndFunction(pool) ==
    /\ Store([pool EXCEPT ![function].parent = 1], 1, "program")
    /\ function' = 0 /\ block' = 0

\* The separator after the parameters and the one that opens the block.
OpenBlock ==
    /\ Running /\ at = "parameters"
    /\ Is("SEPARATOR")
    /\ LET first == IF CanAdvance THEN next + 1 ELSE token
           taken == IF CanAdvance THEN next + 1 ELSE next
           opens == tokens[first].type = "SEPARATOR" /\ taken < Len(tokens)
       IN  /\ token' = IF opens THEN taken + 1 ELSE first
           /\ next' = IF opens THEN taken + 1 ELSE taken
           /\ IF opens /\ ~Full
              THEN /\ nodes' = Append(nodes, New("BLOCK", 0))
                   /\ block' = Len(nodes) + 1
                   /\ at' = "statements"
                   /\ UNCHANGED function
              ELSE EndFunction(nodes)
    /\ UNCHANGED <<tvars, returned>>

\* parse_statement: a token that starts no expression is not passed over.
Statement ==
    /\ Running /\ at = "statements"
    /\ ~Is("SEPARATOR")
    /\ ~Full
    /\ LET s == Len(nodes) + 1
           pool == Append(nodes, New("STATEMENT", block))
           expression == /\ TokenType \in {"NUMBER", "STRING", "IDENTIFIER"}
                         /\ s < MaxNodes
       IN  IF expression
           THEN /\ Store(Adopt(Append(pool, New("EXPRESSION", s)), s), block, "statements")
                /\ advance_token
           ELSE Store(pool, block, "statements") /\ UNCHANGED <<token, next>>
    /\ UNCHANGED <<tvars, function, block, returned>>

CloseBlock ==
    /\ Running /\ at = "statements"
    /\ Is("SEPARATOR")
    /\ advance_token
    /\ EndFunction(Adopt([nodes EXCEPT ![block].parent = function], function))
    /\ UNCHANGED <<tvars, returned>>

\* The pool is freed and the tree returned: its root and its array of nodes
\* point into the freed pool, and nothing of the tree is left to speak about.
EndParse ==
    /\ Running /\ at = "program"
    /\ Is("EOF")
    /\ nodes' = <<>>
    /\ current' = "READY"
    /\ at' = "none" /\ returned' = "ast"
    /\ token' = 0 /\ next' = 0
    /\ UNCHANGED <<place, tokens, ops, calls, accepted, base, derived, bad_free,
                   function, block>>

\* parse_file cannot open or read the file, or allocate.
ParseFileFails ==
    /\ Call("parse_file")
    /\ returned' = "null"
    /\ UNCHANGED <<place, current, tokens, ops, accepted, base, derived, bad_free,
                   parsing>>

-----------------------------------------------------------------------------
Parse == Function \/ Parameter \/ OpenBlock \/ Statement \/ CloseBlock \/ EndParse

Work == ScanSpace \/ ScanFailed \/ BeginParse \/ Parse

PNext ==
    \/ TNext /\ at # "scan" /\ UNCHANGED <<parsing, returned>>
    \/ \E i \in ParseInputs : ParseString(i)
    \/ ParseFileFails
    \/ Work

Scanner == Scan /\ at # "scan" /\ UNCHANGED <<parsing, returned>>

Fairness == WF_pvars(Work) /\ WF_pvars(Scanner)

PSpec == PInit /\ [][PNext]_pvars /\ Fairness

-----------------------------------------------------------------------------
(* Properties.                                                             *)

\* Every variable has its type; neither the token array nor the node pool is
\* overrun.
ParserTypeOK ==
    /\ TTypeOK
    /\ at \in {"none", "scan", "program", "parameters", "statements", "overrun"}
    /\ nodes \in Seq(Node) /\ Len(nodes) <= MaxNodes
    /\ token \in 0..Len(tokens) /\ next \in Nat
    /\ function \in 0..MaxNodes /\ block \in 0..MaxNodes
    /\ returned \in {"none", "null", "ast"}

\* The loop tries a pattern that matches the empty text, and will try it again.
Stalled ==
    /\ Scanning
    /\ c(position) \notin Space
    /\ FirstMatch(position) > 0
    /\ match(ops[FirstMatch(position)].produces, position) = 0

\* process returns, also when the array is full and tokens are dropped, unless
\* a pattern matches the empty text: then it never does.
ScansEnd ==
    /\ (current = "SCANNING") ~> (current # "SCANNING" \/ Stalled)
    /\ [][Stalled => Stalled']_pvars

\* parse_string scans without patterns and up to the size of the buffer, where
\* the terminator of any shorter text stops it with an error: whatever texts
\* and calls came before, tokens are parsed only after a text of exactly the
\* size of the buffer that is white space throughout.
ParsesBlanksOnly ==
    Running => /\ accepted = BufferSize
               /\ \A k \in 0..(BufferSize - 1) : buffer[k] \in Space
=============================================================================
