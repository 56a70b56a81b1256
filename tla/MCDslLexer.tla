----------------------------- MODULE MCDslLexer -----------------------------
(* DslLexer on every text of a few characters. *)
EXTENDS DslLexer
=============================================================================
