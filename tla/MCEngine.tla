------------------------------ MODULE MCEngine ------------------------------
(* Engine on two or three cases and two starts of the program. *)
EXTENDS Engine

OwnKeys == [c \in Cases |-> c]       \* every case has its own identity
\* the first two cases differ in headers only
SharedKey == [c \in Cases |-> IF c <= 2 THEN 1 ELSE 2]
=============================================================================
