---------------------------- MODULE MCDslParser ----------------------------
(* Two methods stand for the five: the parser treats them alike. *)
EXTENDS DslParser

const_Methods == {"GET", "POST"}
=============================================================================
