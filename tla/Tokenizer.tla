------------------------------ MODULE Tokenizer ------------------------------
(***************************************************************************)
(* polycall_tokenizer.c and polycall_token.c: an input buffer of fixed     *)
(* size, the loop that scans it with a list of patterns, and the token     *)
(* array it fills.  One step is one API call or one turn of the loop.      *)
(*                                                                         *)
(* A character is one of the classes the code tells apart.  The buffer has *)
(* BufferSize bytes, 0 .. BufferSize-1; index BufferSize is the first byte *)
(* behind it, which the terminator of a full buffer overwrites.            *)
(***************************************************************************)
EXTENDS Naturals, Sequences, FiniteSets

CONSTANTS BufferSize, TokenLimit,   \* limits.buffer and limits.token
          DefaultCapacity,          \* the 16 of polycall_token_create_array
          Garbage,                  \* what malloc may have left in the buffer
          Inputs,                   \* Inputs[n]: the n-th call's inputs
          OpsChoices,               \* the pattern lists of the application
          Filters,                  \* the types polycall_token_filter selects
          Calls                     \* Calls[n]: the API calls that may come n-th

ASSUME TokenizerAssumption ==
    /\ BufferSize \in Nat \ {0} /\ TokenLimit \in Nat \ {0}
    /\ DefaultCapacity \in Nat \ {0} /\ Calls \in Seq(SUBSET STRING)

VARIABLES buffer,      \* input.buffer and the byte behind it
          position,    \* input.position
          line, column,
          current,     \* state.current
          tokens,      \* the token array
          ops,         \* the patterns of the process call that is running
          calls,       \* API calls made
          accepted,    \* history: length of the last accepted input, or 0
          base,        \* history: tokens there when it was set
          derived,     \* what polycall_token_filter or _chain made last
          bad_free     \* history: free() was given a pointer it must not get

tvars == <<buffer, position, line, column, current, tokens, ops, calls, accepted,
           base, derived, bad_free>>
place == <<buffer, position, line, column>>

-----------------------------------------------------------------------------
Alpha == {"a", "e"}
Digit == {"1"}
Space == {"space", "newline"}
Chars == Alpha \cup Digit \cup Space
         \cup {".", "+", "=", "quote", "backslash", "other", "nul"}

\* A byte of a buffer; what lies beyond the next byte is taken to stop any
\* pattern.
Byte(b, i) == IF i <= BufferSize THEN b[i] ELSE "nul"
c(i) == Byte(buffer, i)

\* The first index from i on whose byte is not in S.
RunEnd(i, S) ==
    CHOOSE j \in i..(BufferSize + 2) :
        c(j) \notin S /\ \A k \in i..(j - 1) : c(k) \in S

(* The length a pattern reports for the text at i.  The four patterns of the *)
(* library match exactly when they report more than 0.                       *)

match_identifier(i) ==
    IF c(i) \in Alpha THEN RunEnd(i, Alpha \cup Digit) - i ELSE 0

match_number(i) ==
    LET start == IF c(i) = "+" THEN i + 1 ELSE i
        whole == RunEnd(start, Digit)
        fraction == IF c(whole) = "." THEN RunEnd(whole + 1, Digit) ELSE whole
        exponent == IF c(fraction + 1) = "+" THEN fraction + 2 ELSE fraction + 1
        end == IF c(fraction) = "e" THEN RunEnd(exponent, Digit) ELSE fraction
    IN  IF \/ c(start) \notin Digit
           \/ c(whole) = "." /\ c(whole + 1) \notin Digit
           \/ c(fraction) = "e" /\ c(exponent) \notin Digit
        THEN 0 ELSE end - i

\* Mutant: the first quote ends the string, escaped or not.
match_string_Naive(i) ==
    LET stops == {j \in (i + 1)..(BufferSize + 2) : c(j) \in {"nul", "quote"}}
        end == CHOOSE j \in stops : \A k \in stops : j <= k
    IN  IF c(i) = "quote" /\ c(end) = "quote" THEN end + 1 - i ELSE 0

match_string(i) ==
    LET escaped[j \in (i + 1)..(BufferSize + 2)] ==
            j > i + 1 /\ c(j - 1) = "backslash" /\ ~escaped[j - 1]
        stops == {j \in (i + 1)..(BufferSize + 2) :
                    c(j) = "nul" \/ (c(j) = "quote" /\ ~escaped[j])}
        end == CHOOSE j \in stops : \A k \in stops : j <= k
    IN  IF c(i) = "quote" /\ c(end) = "quote" THEN end + 1 - i ELSE 0

\* The list tries the operators of two characters first.
match_operator(i) ==
    IF <<c(i), c(i + 1)>> \in {<<"+", "+">>, <<"+", "=">>, <<"=", "=">>} THEN 2
    ELSE IF c(i) \in {"+", "="} THEN 1
    ELSE 0

\* A separator is a pattern of the application: one character.
match_separator(i) == IF c(i) = "other" THEN 1 ELSE 0

\* An optional comment is another: the texts have none, so it matches the empty
\* text wherever it is tried.
match_comment(i) == 0

Types == {"IDENTIFIER", "NUMBER", "STRING", "OPERATOR", "SEPARATOR", "COMMENT"}

match(type, i) ==
    CASE type = "IDENTIFIER" -> match_identifier(i)
      [] type = "NUMBER" -> match_number(i)
      [] type = "STRING" -> match_string(i)
      [] type = "OPERATOR" -> match_operator(i)
      [] type = "SEPARATOR" -> match_separator(i)
      [] OTHER -> match_comment(i)

\* What the pattern returns: the loop looks at this and not at the length.
matched(type, i) == type = "COMMENT" \/ match(type, i) > 0

\* An entry of the operations: a pattern and a consumer, which is called for
\* tokens of the type it accepts and may change that type.
Operation == [produces: Types, accepts: Types, makes: Types \cup {"KEYWORD"}]

\* The first pattern of the list that matches at i, or 0.
FirstMatch(i) ==
    LET hits == {n \in DOMAIN ops : matched(ops[n].produces, i)} IN
    IF hits = {} THEN 0 ELSE CHOOSE n \in hits : \A m \in hits : n <= m

\* The application's buffer, texts and patterns are made of these.
ASSUME TextAssumption ==
    /\ \A g \in Garbage : g \in [0..BufferSize -> Chars]
    /\ \A n \in DOMAIN Inputs : \A s \in Inputs[n] : s \in Seq(Chars)
    /\ \A o \in OpsChoices : o \in Seq(Operation)

-----------------------------------------------------------------------------
\* polycall_token_create_array
Capacity ==
    LET n == BufferSize \div TokenLimit IN IF n = 0 THEN DefaultCapacity ELSE n

\* The text of a token stays where it was read: the value of an identifier or
\* a string points into the buffer.
Token == [type: Types \cup {"KEYWORD", "EOF"}, by: Types \cup {"EOF"},
          value: {"IDENTIFIER", "STRING", "INTEGER", "FLOAT", "NONE"},
          start: Nat, length: Nat, line: Nat, column: Nat]

\* A number is an integer when no '.' follows in the rest of the input.
value_type(type, start) ==
    CASE type \in {"IDENTIFIER", "STRING"} -> type
      [] type = "NUMBER" ->
            IF \E j \in start..BufferSize :
                c(j) = "." /\ \A k \in start..j : c(k) # "nul"
            THEN "FLOAT" ELSE "INTEGER"
      [] OTHER -> "NONE"

create_token(type, start, len) ==
    [type |-> type, by |-> type, value |-> value_type(type, start),
     start |-> start, length |-> len, line |-> line, column |-> column]

consume(op, token) ==
    IF op.accepts = token.type THEN [token EXCEPT !.type = op.makes] ELSE token

\* Appending to the array; a token that does not fit is dropped.
Add(token) ==
    tokens' = IF Len(tokens) < Capacity THEN Append(tokens, token) ELSE tokens

TInit ==
    /\ buffer \in Garbage
    /\ position = 0 /\ line = 1 /\ column = 1
    /\ current = "READY"
    /\ tokens = <<>> /\ ops = <<>> /\ derived = <<>>
    /\ calls = 0 /\ accepted = 0 /\ base = 0
    /\ bad_free = FALSE

Idle == current \notin {"SCANNING", "PARSING", "DESTROYED"}

\* An API call; the program makes at most Len(Calls) of them.
Call(name) ==
    /\ Idle
    /\ calls < Len(Calls)
    /\ name \in Calls[calls + 1]
    /\ calls' = calls + 1

\* Mutant: the terminator forgotten.
Filled_NoTerminator(input) ==
    [i \in 0..BufferSize |-> IF i < Len(input) THEN input[i + 1] ELSE buffer[i]]

\* What set_input leaves in the buffer: the bytes and a terminator.
Filled(input) ==
    [i \in 0..BufferSize |->
        IF i < Len(input) THEN input[i + 1]
        ELSE IF i = Len(input) THEN "nul" ELSE buffer[i]]

\* polycall_tokenizer_set_input: the tokens of earlier inputs stay.
set_input(input) ==
    IF Len(input) > BufferSize
    THEN /\ current' = "ERROR"
         /\ UNCHANGED <<place, accepted, base>>
    ELSE /\ buffer' = Filled(input)
         /\ position' = 0 /\ line' = 1 /\ column' = 1
         /\ current' = "READY"
         /\ accepted' = Len(input) /\ base' = Len(tokens)

SetInput(input) ==
    /\ Call("set_input")
    /\ Len(input) > 0
    /\ set_input(input)
    /\ UNCHANGED <<tokens, ops, derived, bad_free>>

\* polycall_tokenizer_process, up to the loop: the scan goes on from where the
\* last one stopped.
Process(patterns) ==
    /\ Call("process")
    /\ ops' = patterns
    /\ current' = "SCANNING"
    /\ UNCHANGED <<place, tokens, accepted, base, derived, bad_free>>

Scanning == current = "SCANNING" /\ position < BufferSize

\* Mutant: the column not reset at a line end.
SkipSpace_KeepsColumn ==
    /\ Scanning
    /\ c(position) \in Space
    /\ position' = position + 1
    /\ line' = IF c(position) = "newline" THEN line + 1 ELSE line
    /\ column' = column + 1
    /\ UNCHANGED <<buffer, current, tokens, ops, calls, accepted, base, derived,
                   bad_free>>

SkipSpace ==
    /\ Scanning
    /\ c(position) \in Space
    /\ position' = position + 1
    /\ IF c(position) = "newline" THEN line' = line + 1 /\ column' = 1
                                  ELSE line' = line /\ column' = column + 1
    /\ UNCHANGED <<buffer, current, tokens, ops, calls, accepted, base, derived,
                   bad_free>>

\* Mutant: one character too many passed over.
ScanToken_TooFar ==
    /\ Scanning
    /\ c(position) \notin Space
    /\ FirstMatch(position) > 0
    /\ LET op == ops[FirstMatch(position)]
           len == match(op.produces, position)
       IN  /\ Add(consume(op, create_token(op.produces, position, len)))
           /\ position' = position + len + 1
           /\ column' = column + len + 1
    /\ UNCHANGED <<buffer, line, current, ops, calls, accepted, base, derived,
                   bad_free>>

\* Mutant: the scan moves on only past tokens it has stored.
ScanToken_OnlyStored ==
    /\ Scanning
    /\ c(position) \notin Space
    /\ FirstMatch(position) > 0
    /\ LET op == ops[FirstMatch(position)]
           len == match(op.produces, position)
           step == IF Len(tokens) < Capacity THEN len ELSE 0
       IN  /\ Add(consume(op, create_token(op.produces, position, len)))
           /\ position' = position + step
           /\ column' = column + step
    /\ UNCHANGED <<buffer, line, current, ops, calls, accepted, base, derived,
                   bad_free>>

\* The position moves by the length the pattern reported, whatever it is: after
\* an empty match the loop tries the same text again.
ScanToken ==
    /\ Scanning
    /\ c(position) \notin Space
    /\ FirstMatch(position) > 0
    /\ LET op == ops[FirstMatch(position)]
           len == match(op.produces, position)
       IN  /\ Add(consume(op, create_token(op.produces, position, len)))
           /\ position' = position + len
           /\ column' = column + len
    /\ UNCHANGED <<buffer, line, current, ops, calls, accepted, base, derived,
                   bad_free>>

\* "Invalid input"
NoMatch ==
    /\ Scanning
    /\ c(position) \notin Space
    /\ FirstMatch(position) = 0
    /\ current' = "ERROR"
    /\ UNCHANGED <<place, tokens, ops, calls, accepted, base, derived, bad_free>>

\* The end-of-file token, if there is room.
EndScan ==
    /\ current = "SCANNING"
    /\ position >= BufferSize
    /\ Add(create_token("EOF", position, 0))
    /\ current' = "READY"
    /\ UNCHANGED <<place, ops, calls, accepted, base, derived, bad_free>>

\* polycall_tokenizer_reset
Reset ==
    /\ Call("reset")
    /\ position' = 0 /\ line' = 1 /\ column' = 1
    /\ current' = "READY"
    /\ tokens' = <<>> /\ base' = 0
    /\ UNCHANGED <<buffer, ops, accepted, derived, bad_free>>

\* One turn of the loop of polycall_token_filter.
Keep(result, t, type) == IF t.type = type THEN Append(result, t) ELSE result

\* What that loop has copied at its end.
Kept(array, type) ==
    LET result[n \in 0..Len(array)] ==
            IF n = 0 THEN <<>> ELSE Keep(result[n - 1], array[n], type)
    IN  result[Len(array)]

\* polycall_token_filter: the tokens are copied, the text they point to is not.
\* The copy has the capacity of the original, so it never grows.
Filter(type) ==
    /\ Call("filter")
    /\ derived' = Kept(tokens, type)
    /\ UNCHANGED <<place, current, tokens, ops, accepted, base, bad_free>>

\* polycall_token_chain with an operation that turns identifiers into keywords
Chain ==
    /\ Call("chain")
    /\ derived' = [i \in DOMAIN tokens |->
                    IF tokens[i].type = "IDENTIFIER"
                    THEN [tokens[i] EXCEPT !.type = "KEYWORD"] ELSE tokens[i]]
    /\ UNCHANGED <<place, current, tokens, ops, accepted, base, bad_free>>

\* polycall_value_destroy frees the text of every string and identifier.
FreesText(array) ==
    \E i \in DOMAIN array : array[i].value \in {"IDENTIFIER", "STRING"}

\* polycall_token_destroy_array on a derived array
DestroyDerived ==
    /\ Call("destroy_array")
    /\ bad_free' = (bad_free \/ FreesText(derived))
    /\ derived' = <<>>
    /\ UNCHANGED <<place, current, tokens, ops, accepted, base>>

\* polycall_tokenizer_destroy: the buffer goes first, then the array.
Destroy ==
    /\ Call("destroy")
    /\ bad_free' = (bad_free \/ FreesText(tokens))
    /\ current' = "DESTROYED"
    /\ tokens' = <<>>
    /\ UNCHANGED <<place, ops, accepted, base, derived>>

Scan == SkipSpace \/ ScanToken \/ NoMatch \/ EndScan

Api ==
    \/ \E n \in {calls + 1} \cap DOMAIN Inputs : \E i \in Inputs[n] : SetInput(i)
    \/ \E o \in OpsChoices : Process(o)
    \/ Reset
    \/ \E type \in Filters : Filter(type)
    \/ Chain
    \/ DestroyDerived
    \/ Destroy

TNext == Api \/ Scan

TSpec == TInit /\ [][TNext]_tvars /\ WF_tvars(Scan)
-----------------------------------------------------------------------------
(* Properties.                                                             *)

\* Every variable has its type, and the array never holds more than it can.
TTypeOK ==
    /\ buffer \in [0..BufferSize -> Chars]
    /\ position \in Nat /\ line \in Nat /\ column \in Nat
    /\ current \in {"READY", "SCANNING", "ERROR", "PARSING", "DESTROYED"}
    /\ tokens \in Seq(Token) /\ Len(tokens) <= Capacity
    /\ derived \in Seq(Token) /\ Len(derived) <= Capacity
    /\ ops \in Seq(Operation)
    /\ calls \in 0..Len(Calls) /\ accepted \in 0..BufferSize /\ base \in Nat

\* The tokens made of the current input.
Fresh == {i \in (base + 1)..Len(tokens) : tokens[i].type # "EOF"}
Past(t) == t.start + t.length

\* Once an input was accepted the scan stays inside the buffer and makes
\* tokens only of that input, never of what an earlier, longer one left.
OnlyCurrentInput ==
    (accepted > 0 /\ current # "DESTROYED") =>
        /\ position <= BufferSize
        /\ \A i \in Fresh : Past(tokens[i]) <= accepted

\* The tokens come in the order of the text and do not overlap, and as long as
\* the array has room everything scanned is white space or part of a token.
NothingSkipped ==
    (accepted > 0 /\ current # "DESTROYED") =>
        /\ \A i, j \in Fresh : i < j => Past(tokens[i]) <= tokens[j].start
        /\ Len(tokens) < Capacity =>
            \A k \in 0..(position - 1) :
                \/ buffer[k] \in Space
                \/ \E i \in Fresh : k \in tokens[i].start..(Past(tokens[i]) - 1)

(* What the text of a token should look like, read off the grammar rather  *)
(* than computed as the matchers do: the bytes i .. j-1 of the buffer b.    *)

All(b, i, j, S) == \A k \in i..(j - 1) : Byte(b, k) \in S

IsIdentifier(b, i, j) == /\ Byte(b, i) \in Alpha
                         /\ All(b, i, j, Alpha \cup Digit)
                         /\ Byte(b, j) \notin Alpha \cup Digit

Digits(b, i, j) == i < j /\ All(b, i, j, Digit)
Signed(b, i, j) == Digits(b, i, j) \/ (Byte(b, i) = "+" /\ Digits(b, i + 1, j))
Mantissa(b, i, j) ==
    \/ Signed(b, i, j)
    \/ \E d \in i..j : Byte(b, d) = "." /\ Signed(b, i, d) /\ Digits(b, d + 1, j)
IsNumber(b, i, j) ==
    /\ \/ Mantissa(b, i, j)
       \/ \E x \in i..j : Byte(b, x) = "e" /\ Mantissa(b, i, x) /\ Signed(b, x + 1, j)
    /\ Byte(b, j) \notin Digit

\* A quote is escaped when an odd number of backslashes comes before it.
Escaped(b, i, k) ==
    \E n \in 1..(k - i - 1) :
        /\ n % 2 = 1
        /\ All(b, k - n, k, {"backslash"})
        /\ k - n - 1 = i \/ Byte(b, k - n - 1) # "backslash"
IsString(b, i, j) ==
    /\ j >= i + 2 /\ Byte(b, i) = "quote"
    /\ Byte(b, j - 1) = "quote" /\ ~Escaped(b, i, j - 1)
    /\ \A k \in (i + 1)..(j - 2) : Byte(b, k) = "quote" => Escaped(b, i, k)

Text(b, i, j) == [k \in 1..(j - i) |-> Byte(b, i + k - 1)]
OperatorTexts == {<<"+", "+">>, <<"+", "=">>, <<"=", "=">>, <<"+">>, <<"=">>}
IsOperator(b, i, j) == /\ Text(b, i, j) \in OperatorTexts
                       /\ Text(b, i, j + 1) \notin OperatorTexts

\* The token has the form its pattern stands for and ends where that form ends;
\* a number with a fraction is not an integer.
OfForm(b, t) ==
    /\ CASE t.by = "IDENTIFIER" -> IsIdentifier(b, t.start, Past(t))
         [] t.by = "NUMBER" -> IsNumber(b, t.start, Past(t))
         [] t.by = "STRING" -> IsString(b, t.start, Past(t))
         [] t.by = "OPERATOR" -> IsOperator(b, t.start, Past(t))
         [] t.by = "SEPARATOR" -> t.length = 1
         [] OTHER -> t.length = 0
    /\ t.value = "INTEGER" => All(b, t.start, Past(t), Chars \ {"."})

\* Every token of the current input has the text that its type stands for,
\* whatever consumers have made of its type since.
TextsMatch ==
    (accepted > 0 /\ current # "DESTROYED") =>
        \A i \in Fresh : OfForm(buffer, tokens[i])

Newlines(i) == {k \in 0..(i - 1) : c(k) = "newline"}

\* Unless a string runs over a line end, the line and the column of every
\* token are those of its first character in the input.
LocationsCorrect ==
    (/\ accepted > 0 /\ current # "DESTROYED"
     /\ \A k \in Newlines(position) : \A i \in Fresh :
            k \notin tokens[i].start..(Past(tokens[i]) - 1)) =>
        \A i \in Fresh :
            LET t == tokens[i]  breaks == Newlines(t.start) IN
            /\ t.line = 1 + Cardinality(breaks)
            /\ t.column = IF breaks = {} THEN t.start + 1
                          ELSE t.start - (CHOOSE k \in breaks : \A m \in breaks : m <= k)

\* "we own this allocation from polycall_value_create": free() is given only
\* what was allocated for a value.
FreesOwnText == ~bad_free
=============================================================================
