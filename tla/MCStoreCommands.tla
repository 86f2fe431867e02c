---------------------------- MODULE MCStoreCommands ----------------------------
(***************************************************************************)
(* Two processes and two plans.  Both ids end with "tail"; "mid" is inside  *)
(* the first id and the end of the second.                                  *)
(***************************************************************************)
EXTENDS StoreCommands

CONSTANTS i1, i2, tail, mid

MCEndsWith == [f \in Fragments |-> IF f = tail THEN {i1, i2} ELSE IF f = mid THEN {i2} ELSE {f}]
MCContains == [f \in Fragments |-> IF f \in {tail, mid} THEN {i1, i2} ELSE {f}]
================================================================================
