------------------------------ MODULE StaticLoop ------------------------------
(***************************************************************************)
(* A loop without ordered and with a static schedule: every thread of the  *)
(* team calls __kmpc_for_static_init once, with the bounds of the whole    *)
(* loop, and runs what it is given.  The loop over the chunks of a chunked *)
(* schedule is the compiler's.  The names differ from those of             *)
(* LoopDispatch, so that LoopProofs can extend both.                       *)
(***************************************************************************)
EXTENDS Schedule, FiniteSets

CONSTANTS
  MaxThreads,   \* bound on the team size
  Lowers,       \* the first iterations tried
  MaxTrip,      \* bound on the number of iterations
  Increments,   \* the steps tried
  MaxChunk      \* bound on the chunk size

ASSUME ParametersAssumption ==
  /\ MaxThreads \in Nat \ {0} /\ MaxTrip \in Nat \ {0} /\ MaxChunk \in Nat \ {0}
  /\ Lowers \subseteq CInt /\ Increments \subseteq Int \ {0}

\* Both compilers skip the call for a loop of no iteration.  SafeUpper keeps
\* every block within int: below, the loops for which it does.
SafeUpper(l) ==
  Magnitude(l.upper) + (l.team_size + 1) * Magnitude(l.incr) * l.chunk <= IntMax

Loop ==
  {l \in [team_size : 1..MaxThreads, schedule : {"static", "chunked"}, lower : Lowers,
          upper : CInt, incr : Increments, chunk : 1..MaxChunk] :
     /\ \E n \in 1..MaxTrip : l.upper = l.lower + (n - 1) * l.incr
     /\ l.schedule = "static" => l.chunk = 1
     /\ l.schedule = "chunked" => l.incr = 1
     /\ SafeUpper(l)}

\* The loops count up, and their length is one an int has.
Forward == \A l \in Loop : l.incr > 0 /\ l.upper - l.lower + l.incr <= IntMax

VARIABLES
  loop,       \* the loop and the team that runs it
  stage,      \* where each thread is: "init", "block" or "done"
  p_lower,    \* *p_lower of each thread
  p_upper,    \* *p_upper of each thread
  p_stride,   \* *p_stride of each thread
  run_count   \* how often each iteration was run

static_vars == <<loop, stage, p_lower, p_upper, p_stride, run_count>>

Team == 0..(loop.team_size - 1)

StaticBegin ==
  /\ loop \in Loop
  /\ stage = [i \in Team |-> "init"]
  /\ p_lower = [i \in Team |-> loop.lower]
  /\ p_upper = [i \in Team |-> loop.upper]
  /\ p_stride = [i \in Team |-> loop.incr]
  /\ run_count = [x \in CInt |-> 0]

\* __kmpc_for_static_init_4, schedule static.
InitStatic(i) ==
  /\ stage[i] = "init" /\ loop.schedule = "static"
  /\ LET block == StaticInit(i, loop.team_size, loop.lower, loop.upper, loop.incr)
     IN  /\ p_lower' = [p_lower EXCEPT ![i] = block.lower]
         /\ p_upper' = [p_upper EXCEPT ![i] = block.upper]
  /\ stage' = [stage EXCEPT ![i] = "block"]
  /\ UNCHANGED <<loop, p_stride, run_count>>

\* __kmpc_for_static_init_4, schedule static with a chunk size.
InitChunked(i) ==
  /\ stage[i] = "init" /\ loop.schedule = "chunked"
  /\ LET block == StaticInitChunked(i, loop.team_size, loop.lower, loop.incr, loop.chunk)
     IN  /\ p_lower' = [p_lower EXCEPT ![i] = block.lower]
         /\ p_upper' = [p_upper EXCEPT ![i] = block.upper]
         /\ p_stride' = [p_stride EXCEPT ![i] = block.stride]
  /\ stage' = [stage EXCEPT ![i] = "block"]
  /\ UNCHANGED <<loop, run_count>>

RunAll(block) == [x \in CInt |-> run_count[x] + IF x \in block THEN 1 ELSE 0]

\* The compiled loop over the block the thread was given; with a chunk size,
\* the compiler cuts the chunk at the end of the loop and goes on to the next.
RunBlock(i) ==
  /\ stage[i] = "block"
  /\ \/ /\ loop.schedule = "static"
        /\ run_count' = RunAll(Iterations(p_lower[i], p_upper[i], loop.incr))
        /\ stage' = [stage EXCEPT ![i] = "done"]
        /\ UNCHANGED <<p_lower, p_upper>>
     \/ /\ loop.schedule = "chunked" /\ p_lower[i] <= loop.upper
        /\ run_count' = RunAll(p_lower[i]..Clipped(p_upper[i], loop.upper))
        /\ p_lower' = [p_lower EXCEPT ![i] = @ + p_stride[i]]
        /\ p_upper' = [p_upper EXCEPT ![i] = @ + p_stride[i]]
        /\ UNCHANGED stage
     \/ /\ loop.schedule = "chunked" /\ p_lower[i] > loop.upper
        /\ stage' = [stage EXCEPT ![i] = "done"]
        /\ UNCHANGED <<p_lower, p_upper, run_count>>
  /\ UNCHANGED <<loop, p_stride>>

StaticNext == \E i \in Team : InitStatic(i) \/ InitChunked(i) \/ RunBlock(i)

StaticSpec == StaticBegin /\ [][StaticNext]_static_vars

-----------------------------------------------------------------------------

Whole == Iterations(loop.lower, loop.upper, loop.incr)

\* The blocks omp_static_init gives the threads of the team do not overlap and
\* stay within the loop.
BlocksDisjoint ==
  \A x \in CInt : run_count[x] <= IF x \in Whole THEN 1 ELSE 0

\* Together the blocks are the whole loop, whether or not the team size divides
\* the number of iterations, and also when there are more threads.
BlocksCover ==
  (\A i \in Team : stage[i] = "done") => \A x \in Whole : run_count[x] >= 1

\* The blocks and chunks of the static schedules share the loop out exactly.
IterationsExact == BlocksDisjoint /\ BlocksCover

-----------------------------------------------------------------------------
(* Why: the pieces of the loop that were run are the ones the threads have *)
(* passed.  A piece is a block or a chunk.                                 *)

Trip == TripCount(loop.lower, loop.upper, loop.incr)

PieceSize ==
  IF loop.schedule = "static"
  THEN Trip \div loop.team_size + Adjustment(Trip, loop.team_size) + 1
  ELSE loop.chunk

PieceLower(j) == loop.lower + j * (PieceSize * loop.incr)

PieceUpper(j) == PieceLower(j) + (PieceSize - 1) * loop.incr

Piece(j) == Iterations(PieceLower(j), Clipped(PieceUpper(j), loop.upper), loop.incr)

\* The numbers of the pieces that have been run.
PiecesRun ==
  {j \in 0..IntMax :
     IF loop.schedule = "static"
     THEN j \in Team /\ stage[j] = "done"
     ELSE LET i == j % loop.team_size IN stage[i] # "init" /\ PieceLower(j) < p_lower[i]}

StaticType ==
  /\ loop \in Loop
  /\ stage \in [Team -> {"init", "block", "done"}]
  /\ p_lower \in [Team -> Int] /\ p_upper \in [Team -> Int] /\ p_stride \in [Team -> Int]
  /\ run_count \in [CInt -> Nat]

\* A thread is at a piece of its own, and leaves when it is past the loop.
AtPiece ==
  \A i \in Team :
    /\ loop.schedule = "static" /\ stage[i] = "block" =>
         p_lower[i] = PieceLower(i) /\ p_upper[i] = Clipped(PieceUpper(i), loop.upper)
    /\ loop.schedule = "chunked" /\ stage[i] # "init" =>
         /\ p_stride[i] = PieceSize * loop.team_size
         /\ \E k \in 0..IntMax : p_lower[i] = PieceLower(k * loop.team_size + i)
         /\ p_upper[i] = p_lower[i] + PieceSize - 1
    /\ loop.schedule = "chunked" /\ stage[i] = "done" => p_lower[i] > loop.upper

PiecesExact ==
  \A x \in CInt :
    run_count[x] = IF \E j \in PiecesRun : x \in Piece(j) THEN 1 ELSE 0

StaticInv == StaticType /\ AtPiece /\ PiecesExact
=============================================================================
