------------------------------ MODULE MCParser ------------------------------
(* A first input out of all short texts, and of longer ones over the         *)
(* characters of numbers and of strings; then a few calls in every order.    *)
EXTENDS Parser, TLC

Texts(n, S) == [1..n -> S]

InputsDef ==
    1 :> Texts(1, Chars \ {"nul"}) \cup Texts(2, Chars \ {"nul"})
         \cup Texts(3, {"a", "1", "newline", "+", "other"})
         \cup Texts(4, {"1", ".", "e", "+"})
         \cup Texts(4, {"quote", "backslash", "newline", "a"})
         \cup Texts(4, {"a", "other"}) @@
    3 :> {<<"1", "other">>, <<"quote", "a">>, <<"a", "a", "a", "a", "a">>}

ParseInputsDef ==
    {<<"space", "newline", "space", "space">>, <<"space">>, <<"a">>, [i \in 1..5 |-> "a"]}

GarbageDef == {[i \in 0..BufferSize |-> "a"]}

Plain(type) == [produces |-> type, accepts |-> "SEPARATOR", makes |-> "SEPARATOR"]
OpsDef ==
    {<<Plain("IDENTIFIER"), Plain("NUMBER"), Plain("STRING"), Plain("OPERATOR"),
       Plain("SEPARATOR")>>,
     <<Plain("OPERATOR"),
       [produces |-> "IDENTIFIER", accepts |-> "IDENTIFIER", makes |-> "KEYWORD"],
       Plain("NUMBER"), Plain("COMMENT")>>,
     <<>>}

CallsDef ==
    <<{"set_input", "parse_string", "process"},
      {"process", "parse_string"},
      {"set_input", "process", "reset", "filter", "chain", "parse_string"},
      {"process", "destroy_array", "destroy", "parse_file"},
      {"parse_string"}>>

OwnershipCalls ==
    <<{"set_input"}, {"process"}, {"filter", "chain"}, {"destroy_array"}, {"destroy"}>>
=============================================================================
