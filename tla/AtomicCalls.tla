----------------------------- MODULE AtomicCalls -----------------------------
(***************************************************************************)
(* The calls a compiled "#pragma omp atomic" makes, and what each of them  *)
(* is to do to the variable.                                               *)
(***************************************************************************)
EXTENDS Integers

CONSTANTS
  Thread,
  NoCall,    \* in place of the call of a thread that is in none
  Modulus    \* the variable holds 0..(Modulus - 1)

ASSUME ModulusAssumption == Modulus \in Nat \ {0}

Value == 0..(Modulus - 1)

\* add stands for add and sub, other for the operators that do not commute with
\* them (div, shl, _rev, ...), mix for an update with an operand of a larger type,
\* gen for an update by a function (__kmpc_atomic_8 and its like), max for max and
\* min, rd, wr and swp for read, write and swap.  The reversed operators and swap
\* are compiled with OMP_40_ENABLED only.
Op == {"add", "other", "mix", "gen", "max", "rd", "wr", "swp"}

\* capture is what the caller gets: nothing, or the value before or after.
Call == [op : Op, rhs : Value, capture : {"none", "before", "after"}]

ASSUME NoCallAssumption == NoCall \notin Call /\ NoCall \notin Thread

\* What the call c makes of the value v.
Update(c, v) ==
  CASE c.op \in {"add", "mix", "gen"} -> (v + c.rhs) % Modulus
    [] c.op = "other" -> (c.rhs - v) % Modulus
    [] c.op = "max" -> IF v < c.rhs THEN c.rhs ELSE v
    [] c.op = "rd" -> v
    [] c.op \in {"wr", "swp"} -> c.rhs

\* What it returns when it finds the value v.
Result(c, v) ==
  CASE c.capture = "none" -> 0
    [] c.capture = "before" -> v
    [] c.capture = "after" -> Update(c, v)
=============================================================================
