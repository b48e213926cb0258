----------------------------- MODULE MCTaskDeps -----------------------------
(* TaskDeps on a small instance: one thread gives its tasks depend clauses  *)
(* on two addresses, the other creates tasks without any.                  *)
EXTENDS TaskDeps, TLC

CONSTANTS i1, i2, x, y

Writer == [in |-> {}, out |-> {x}]
ReaderWriter == [in |-> {x}, out |-> {y}]

MCDepends == (i1 :> {Writer, ReaderWriter}) @@ (i2 :> {NoDepends})
=============================================================================
