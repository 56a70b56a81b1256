----------------------------- MODULE MCTransfer -----------------------------
(* Transfer with small sizes: a word of 64 values, blocks of up to 24 bytes *)
(* and chunks of up to 4, so that blocks grow, are refused and fill up.     *)
EXTENDS Transfer
=============================================================================
