------------------------------- MODULE Schedule -------------------------------
(***************************************************************************)
(* The arithmetic of loop_schedule.cpp: which iterations of a loop a call  *)
(* of omp_static_init or of kmp_next gives to a thread.  All of it is done *)
(* in int, whatever the type of the loop variable, so every result wraps   *)
(* at the width of int; division is that of C++, which truncates.          *)
(***************************************************************************)
EXTENDS Integers

CONSTANT IntMax   \* the largest int

ASSUME IntMaxAssumption == IntMax \in Nat \ {0}

CInt == (-IntMax - 1)..IntMax

\* What an int holds after x is stored in it (two's complement).
Wrap(x) == ((x + IntMax + 1) % (2 * (IntMax + 1))) - (IntMax + 1)

Magnitude(x) == IF x < 0 THEN -x ELSE x

\* a / b in C++, for b # 0.
Quot(a, b) ==
  LET q == Magnitude(a) \div Magnitude(b) IN IF (a < 0) = (b < 0) THEN q ELSE -q

TripCount(lower, upper, incr) == Wrap(Quot(upper - lower, incr) + 1)

\* The iterations the program asks for.
Iterations(lower, upper, incr) ==
  {x \in (IF incr > 0 THEN lower..upper ELSE upper..lower) : (x - lower) % Magnitude(incr) = 0}

-----------------------------------------------------------------------------
(* omp_static_init for kmp_sch_static: one block for each thread gtid.     *)

Adjustment(trip, team_size) == IF trip % team_size = 0 THEN -1 ELSE 0

\* The distance between two blocks, and from the first to the last iteration
\* of one.
Stride(trip, team_size, incr) ==
  Wrap((trip \div team_size + Adjustment(trip, team_size) + 1) * incr)

BlockSize(trip, team_size, incr) ==
  Wrap((trip \div team_size + Adjustment(trip, team_size)) * incr)

\* Mutant: the last block is not cut off at the end of the loop.
NotClipped(my_upper, upper) == my_upper

Clipped(my_upper, upper) == IF my_upper > upper THEN upper ELSE my_upper

StaticInit(gtid, team_size, lower, upper, incr) ==
  LET trip == TripCount(lower, upper, incr)
      my_lower == Wrap(lower + gtid * Stride(trip, team_size, incr))
      my_upper == Wrap(my_lower + BlockSize(trip, team_size, incr))
  IN  [lower |-> my_lower, upper |-> Clipped(my_upper, upper)]

-----------------------------------------------------------------------------
(* omp_static_init for kmp_sch_static_chunked: the first chunk of a thread *)
(* and the distance to its next one.                                       *)

StaticInitChunked(gtid, team_size, lower, incr, chunk) ==
  LET my_lower == Wrap(lower + gtid * incr * chunk)
  IN  [lower |-> my_lower, upper |-> Wrap(my_lower + incr * chunk - 1),
       stride |-> Wrap(incr * chunk * team_size)]
=============================================================================
