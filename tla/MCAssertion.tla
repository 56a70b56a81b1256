---------------------------- MODULE MCAssertion ----------------------------
(* Five characters hold two header lines with their blanks.  A is a in      *)
(* another case; a tab is treated as the space, other characters as a.      *)
EXTENDS Assertion

const_Char == {" ", "\r", "\n", ":", "a", "A"}
const_Lower == [c \in const_Char |-> IF c = "A" THEN "a" ELSE c]
const_Texts == UNION {[1 .. n -> const_Char \ {"A"}] : n \in 0 .. 5}
const_Words == {<<>>, <<"a">>, <<"A">>, <<"a", "a">>, <<"a", " ">>}
=============================================================================
