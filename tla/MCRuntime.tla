----------------------------- MODULE MCRuntime -----------------------------
(* Runtime on two workers, two tasks and two commands. *)
EXTENDS Runtime

CONSTANTS t1, t2, cSave, cOdd

MCCommandType == [c \in Commands |-> IF c = cSave THEN "save" ELSE "unknown"]
=============================================================================
