------------------------------- MODULE MCCli -------------------------------
(* All lines of "get" with up to six further words: three options, one too *)
(* many for two places, and option words in the place of values.           *)
EXTENDS Cli

const_Words ==
    OptionWords \cup {"get", "run", "post", "put", "", "200", "hex:7F", "hex:7"}
Further == OptionWords \cup {"200", "hex:7F", "hex:7"}
Short(n) == UNION {[1 .. k -> Further] : k \in 0 .. n}

const_CommandLines ==
    {<<>>, <<"get">>, <<"get", "">>}
    \cup {<<"get", "200">> \o further : further \in Short(6)}
    \cup {<<command, "200">> \o further :
             command \in {"run", "post", "put"}, further \in Short(2)}

const_Atoi == [w \in const_Words |-> IF w = "200" THEN 200 ELSE 0]
const_Bytes == [w \in const_Words |-> IF w = "200" THEN <<50, 48, 48>> ELSE <<0>>]
const_HexDigits ==
    [w \in {"hex:7F", "hex:7"} |-> IF w = "hex:7F" THEN <<7, 15>> ELSE <<7>>]
=============================================================================
