----------------------------- MODULE LoopDispatch -----------------------------
(***************************************************************************)
(* The loops a team shares out while it runs them: scheduler_init          *)
(* (__kmpc_dispatch_init), kmp_next (__kmpc_dispatch_next), __kmpc_ordered *)
(* and __kmpc_end_ordered.  All threads meet the same loops in the same    *)
(* order; after a loop without nowait they meet a barrier.                 *)
(*                                                                         *)
(* team->loop_list is a std::vector: when emplace_back finds it full, the  *)
(* elements are copied into new storage, and the copy constructor of       *)
(* loop_data starts the counters again.  heap holds every storage the      *)
(* vector had, the last one being its own: a pointer into an earlier one   *)
(* dangles.  The model lets a thread go on with such a pointer as if the   *)
(* freed memory still held what it last held.                              *)
(***************************************************************************)
EXTENDS Schedule, Sequences, FiniteSets

CONSTANTS
  NumThreads,   \* the size of the team
  Programs      \* sequences of the loops the team may meet

ASSUME NumThreadsAssumption == NumThreads \in Nat \ {0}

Thread == 0..(NumThreads - 1)

\* What the compiler passes to __kmpc_dispatch_init, and what follows the loop.
\* "static" stands for static and static_greedy, "dynamic" for dynamic, guided
\* and runtime, "other" for the rest of sched_type.
LoopKind ==
  [schedule : {"static", "chunked", "dynamic", "other"}, lower : CInt, upper : CInt,
   stride : CInt, chunk : CInt, ordered : BOOLEAN, nowait : BOOLEAN]

ASSUME ProgramsAssumption == Programs \subseteq Seq(LoopKind)

VARIABLES
  program,      \* the loops of the team's program
  heap,         \* the storages of team->loop_list, the current one last
  loop_num,     \* omp_task_data::loop_num of each thread
  loop_sched,   \* the pointer each thread has into a storage
  pc,           \* where each thread is
  loop_id,      \* the number each thread got from schedule_count
  lb,           \* *p_lower of each thread
  ub,           \* *p_upper of each thread
  times,        \* how often each iteration of each loop was run
  sequence,     \* the iterations of each loop whose ordered part ran, in order
  dangled       \* a thread used a pointer into freed storage

vars == <<program, heap, loop_num, loop_sched, pc, loop_id, lb, ub, times, sequence, dangled>>

PC == {"body", "slots", "pointer", "next", "bounds", "run", "wait", "end_ordered", "barrier"}

-----------------------------------------------------------------------------
(* loop_data, and the vector of them.                                      *)

\* What scheduler_init makes of its arguments (ordered schedules become their
\* unordered counterparts), and what the copy constructor makes of a loop.
NewLoop(l) ==
  [lower |-> l.lower, upper |-> l.upper,
   stride |-> IF l.stride = 0 THEN 1 ELSE l.stride,
   chunk |-> IF l.chunk = 0 THEN 1 ELSE l.chunk, schedule |-> l.schedule,
   ordered_count |-> 0, schedule_count |-> 0,
   first_iter |-> [i \in Thread |-> 0], last_iter |-> [i \in Thread |-> 0],
   iter_count |-> [i \in Thread |-> 0]]

loop_list == heap[Len(heap)]

\* libstdc++ doubles the capacity: storage number g has room for 2^(g-1) loops.
Capacity == 2 ^ (Len(heap) - 1)

\* team->loop_list.emplace_back(d)
EmplaceBack(d) ==
  IF Len(loop_list) < Capacity
  THEN [heap EXCEPT ![Len(heap)] = Append(@, d)]
  ELSE Append(heap, Append([k \in DOMAIN loop_list |-> NewLoop(loop_list[k])], d))

\* The loop thread i is in, through its pointer.
Sched(i) == heap[loop_sched[i].storage][loop_sched[i].index]

Dereference(i) == dangled' = (dangled \/ loop_sched[i].storage # Len(heap))

Current(i) == program[loop_num[i]]

Init ==
  /\ program \in Programs
  /\ heap = << <<>> >>
  /\ loop_num = [i \in Thread |-> 0]
  /\ loop_sched = [i \in Thread |-> [storage |-> 1, index |-> 0]]
  /\ pc = [i \in Thread |-> "body"]
  /\ loop_id = [i \in Thread |-> 0]
  /\ lb = [i \in Thread |-> 0]
  /\ ub = [i \in Thread |-> 0]
  /\ times = [k \in DOMAIN program |-> [x \in CInt |-> 0]]
  /\ sequence = [k \in DOMAIN program |-> <<>>]
  /\ dangled = FALSE

Goto(i, from, to) ==
  /\ pc[i] = from
  /\ pc' = [pc EXCEPT ![i] = to]

-----------------------------------------------------------------------------
(* scheduler_init                                                          *)

\* Mutant: every thread adds the loop.
AddLoopAlways(i) ==
  /\ loop_num[i] < Len(program)
  /\ Goto(i, "body", "slots")
  /\ heap' = EmplaceBack(NewLoop(program[loop_num[i] + 1]))
  /\ UNCHANGED <<program, loop_num, loop_sched, loop_id, lb, ub, times, sequence, dangled>>

\* What it does with loop_mtx: the first thread to come to the loop adds it.
AddLoop(i) ==
  /\ loop_num[i] < Len(program)
  /\ Goto(i, "body", "slots")
  /\ heap' = IF Len(loop_list) = loop_num[i]
             THEN EmplaceBack(NewLoop(program[loop_num[i] + 1])) ELSE heap
  /\ UNCHANGED <<program, loop_num, loop_sched, loop_id, lb, ub, times, sequence, dangled>>

\* The thread's own slots, without the lock; task->loop_num++
InitSlots(i) ==
  /\ Goto(i, "slots", "pointer")
  /\ heap' = [heap EXCEPT ![Len(heap)][loop_num[i] + 1] =
       [@ EXCEPT !.first_iter[i] = 0, !.last_iter[i] = 0, !.iter_count[i] = 0]]
  /\ loop_num' = [loop_num EXCEPT ![i] = @ + 1]
  /\ UNCHANGED <<program, loop_sched, loop_id, lb, ub, times, sequence, dangled>>

-----------------------------------------------------------------------------
(* kmp_next                                                                *)

\* loop_sched = &loop_list[current_loop], in kmp_next.
TakePointer(i) ==
  /\ Goto(i, "pointer", "next")
  /\ loop_sched' = [loop_sched EXCEPT ![i] = [storage |-> Len(heap), index |-> loop_num[i]]]
  /\ UNCHANGED <<program, heap, loop_num, loop_id, lb, ub, times, sequence, dangled>>

\* Where the thread goes when it returned 0.
AfterLoop(i) == IF Current(i).nowait THEN "body" ELSE "barrier"

\* The switch on the schedule.
Case(i, schedule) == pc[i] = "next" /\ Sched(i).schedule = schedule

SetSched(i, d) ==
  heap' = [heap EXCEPT ![loop_sched[i].storage][loop_sched[i].index] = d]

\* kmp_next returns 1 with the bounds lower and upper.
Give(i, lower, upper) ==
  /\ lb' = [lb EXCEPT ![i] = lower]
  /\ ub' = [ub EXCEPT ![i] = upper]

\* case kmp_sch_static: one block for each thread.
NextStatic(i) ==
  /\ Case(i, "static")
  /\ LET d == Sched(i)
         block == StaticInit(i, NumThreads, d.lower, d.upper, d.stride)
     IN  /\ IF d.iter_count[i] > 0
            THEN /\ Goto(i, "next", AfterLoop(i))
                 /\ UNCHANGED <<heap, lb, ub>>
            ELSE /\ Goto(i, "next", "run")
                 /\ SetSched(i, [d EXCEPT
                      !.schedule_count = @ + 1, !.iter_count[i] = 1,
                      !.first_iter[i] = Quot(block.lower, d.stride),
                      !.last_iter[i] = Quot(block.upper, d.stride)])
                 /\ Give(i, block.lower, block.upper)
         /\ Dereference(i)
         /\ UNCHANGED <<program, loop_num, loop_sched, loop_id, times, sequence>>

\* case kmp_sch_static_chunked: the thread's next chunk, round robin.
NextChunked(i) ==
  /\ Case(i, "chunked")
  /\ LET d == Sched(i)
         n == d.iter_count[i]
         lower == Wrap(d.lower + d.chunk * (i + NumThreads * d.stride * n))
         upper == Wrap(lower + d.stride * (d.chunk - 1))
         first == i + n * d.stride * NumThreads
     IN  /\ SetSched(i, [d EXCEPT
              !.schedule_count = @ + d.chunk, !.iter_count[i] = n + 1,
              !.first_iter[i] = first, !.last_iter[i] = first + d.stride])
         /\ Give(i, lower, Clipped(upper, d.upper))
         /\ Goto(i, "next", IF lower > d.upper THEN AfterLoop(i) ELSE "run")
         /\ Dereference(i)
         /\ UNCHANGED <<program, loop_num, loop_sched, loop_id, times, sequence>>

\* Mutant: ++schedule_count for schedule_count++.
FetchIncreased(i) ==
  /\ Case(i, "dynamic")
  /\ LET d == Sched(i)
     IN  /\ Goto(i, "next", "bounds")
         /\ loop_id' = [loop_id EXCEPT ![i] = Wrap(d.schedule_count + 1)]
         /\ SetSched(i, [d EXCEPT !.schedule_count = Wrap(@ + 1)])
         /\ Dereference(i)
         /\ UNCHANGED <<program, loop_num, loop_sched, lb, ub, times, sequence>>

\* case kmp_sch_dynamic_chunked and its like: loop_id = loop_sched->schedule_count++
Fetch(i) ==
  /\ Case(i, "dynamic")
  /\ LET d == Sched(i)
     IN  /\ Goto(i, "next", "bounds")
         /\ loop_id' = [loop_id EXCEPT ![i] = d.schedule_count]
         /\ SetSched(i, [d EXCEPT !.schedule_count = Wrap(@ + 1)])
         /\ Dereference(i)
         /\ UNCHANGED <<program, loop_num, loop_sched, lb, ub, times, sequence>>

\* Mutant: a chunk goes up to the first iteration of the next.
BoundsInclusive(i) ==
  /\ pc[i] = "bounds"
  /\ LET d == Sched(i)
         lower == Wrap(d.lower + loop_id[i] * d.stride * d.chunk)
         upper == Wrap(lower + d.chunk * d.stride)
     IN  /\ SetSched(i, [d EXCEPT
              !.first_iter[i] = loop_id[i], !.last_iter[i] = loop_id[i] + d.chunk])
         /\ Give(i, lower, Clipped(upper, d.upper))
         /\ Goto(i, "bounds", IF lower > d.upper THEN AfterLoop(i) ELSE "run")
         /\ Dereference(i)
         /\ UNCHANGED <<program, loop_num, loop_sched, loop_id, times, sequence>>

\* ... and the chunk with that number, if the loop has it.
Bounds(i) ==
  /\ pc[i] = "bounds"
  /\ LET d == Sched(i)
         lower == Wrap(d.lower + loop_id[i] * d.stride * d.chunk)
         upper == Wrap(lower + (d.chunk - 1) * d.stride)
     IN  /\ SetSched(i, [d EXCEPT
              !.first_iter[i] = loop_id[i], !.last_iter[i] = loop_id[i] + d.chunk])
         /\ Give(i, lower, Clipped(upper, d.upper))
         /\ Goto(i, "bounds", IF lower > d.upper THEN AfterLoop(i) ELSE "run")
         /\ Dereference(i)
         /\ UNCHANGED <<program, loop_num, loop_sched, loop_id, times, sequence>>

\* default: kmp_next does not know the schedule, and returns 0.
NextOther(i) ==
  /\ Case(i, "other")
  /\ Goto(i, "next", AfterLoop(i))
  /\ Dereference(i)
  /\ UNCHANGED <<program, heap, loop_num, loop_sched, loop_id, lb, ub, times, sequence>>

-----------------------------------------------------------------------------
(* The compiled loop over the bounds, __kmpc_ordered, __kmpc_end_ordered.  *)

Iterates(i) == Iterations(lb[i], ub[i], Current(i).stride)

Execute(k, xs) == times' = [times EXCEPT ![k] = [x \in CInt |-> @[x] + IF x \in xs THEN 1 ELSE 0]]

\* All the iterations it was given, when none has an ordered part.
RunChunk(i) ==
  /\ Goto(i, "run", "pointer")
  /\ ~Current(i).ordered
  /\ Execute(loop_num[i], Iterates(i))
  /\ UNCHANGED <<program, heap, loop_num, loop_sched, loop_id, lb, ub, sequence, dangled>>

\* The next iteration comes to its ordered part; or there is none left.
StartOrdered(i) ==
  /\ pc[i] = "run" /\ Current(i).ordered
  /\ Goto(i, "run", IF lb[i] > ub[i] THEN "pointer" ELSE "wait")
  /\ loop_sched' = [loop_sched EXCEPT ![i] = [storage |-> Len(heap), index |-> loop_num[i]]]
  /\ UNCHANGED <<program, heap, loop_num, loop_id, lb, ub, times, sequence, dangled>>

\* Mutant: only the upper bound is waited for.
OrderedNoLower(i) ==
  /\ Goto(i, "wait", "end_ordered")
  /\ ~(Sched(i).ordered_count > Sched(i).last_iter[i])
  /\ Execute(loop_num[i], {lb[i]})
  /\ sequence' = [sequence EXCEPT ![loop_num[i]] = Append(@, lb[i])]
  /\ Dereference(i)
  /\ UNCHANGED <<program, heap, loop_num, loop_sched, loop_id, lb, ub>>

\* __kmpc_ordered lets it in, once ordered_count is in its range.
Ordered(i) ==
  /\ Goto(i, "wait", "end_ordered")
  /\ ~(Sched(i).ordered_count < Sched(i).first_iter[i] \/ Sched(i).ordered_count > Sched(i).last_iter[i])
  /\ Execute(loop_num[i], {lb[i]})
  /\ sequence' = [sequence EXCEPT ![loop_num[i]] = Append(@, lb[i])]
  /\ Dereference(i)
  /\ UNCHANGED <<program, heap, loop_num, loop_sched, loop_id, lb, ub>>

\* Mutant: __kmpc_end_ordered does nothing, like __kmpc_dispatch_fini.
EndOrderedNothing(i) ==
  /\ Goto(i, "end_ordered", "run")
  /\ lb' = [lb EXCEPT ![i] = @ + Current(i).stride]
  /\ UNCHANGED <<program, heap, loop_num, loop_sched, loop_id, ub, times, sequence, dangled>>

\* __kmpc_end_ordered: loop_list[current_loop].ordered_count++
EndOrdered(i) ==
  /\ Goto(i, "end_ordered", "run")
  /\ heap' = [heap EXCEPT ![Len(heap)][loop_num[i]].ordered_count = @ + 1]
  /\ lb' = [lb EXCEPT ![i] = @ + Current(i).stride]
  /\ UNCHANGED <<program, loop_num, loop_sched, loop_id, ub, times, sequence, dangled>>

\* The barrier after a loop without nowait.
Barrier ==
  /\ \A i \in Thread : pc[i] = "barrier"
  /\ pc' = [i \in Thread |-> "body"]
  /\ UNCHANGED <<program, heap, loop_num, loop_sched, loop_id, lb, ub, times, sequence, dangled>>

-----------------------------------------------------------------------------

Step(i) ==
  \/ AddLoop(i) \/ InitSlots(i)
  \/ TakePointer(i) \/ NextStatic(i) \/ NextChunked(i) \/ Fetch(i) \/ Bounds(i) \/ NextOther(i)
  \/ RunChunk(i) \/ StartOrdered(i) \/ Ordered(i) \/ EndOrdered(i)

Next == (\E i \in Thread : Step(i)) \/ Barrier

Spec == Init /\ [][Next]_vars

\* HPX runs every ready thread, and __kmpc_ordered yields while it waits.
FairSpec == Spec /\ WF_vars(Barrier) /\ \A i \in Thread : WF_vars(Step(i))

-----------------------------------------------------------------------------
(* Properties.                                                             *)

Asked(k) == Iterations(program[k].lower, program[k].upper, program[k].stride)

\* Thread i has got 0 from kmp_next for loop k.
Past(i, k) ==
  loop_num[i] > k \/ (loop_num[i] = k /\ pc[i] \in {"body", "slots", "barrier"})

\* "return one if there is work to be done": kmp_next never hands out an
\* iteration that another call was given, nor one that is not in the loop.
NoIterationTwice ==
  \A k \in DOMAIN program, x \in CInt :
    times[k][x] <= IF x \in Asked(k) THEN 1 ELSE 0

\* "... zero otherwise": when kmp_next has returned 0 to the whole team, every
\* iteration of the loop has been run, if it has a case for the schedule.
AllIterationsRun ==
  \A k \in DOMAIN program :
    program[k].schedule # "other" /\ (\A i \in Thread : Past(i, k)) => \A x \in Asked(k) : times[k][x] >= 1

\* The ordered parts of a loop run in the order of its iterations, whichever
\* threads the schedule gave them to.
OrderedInSequence ==
  \A k \in DOMAIN program : \A n \in DOMAIN sequence[k] :
    sequence[k][n] = program[k].lower + (n - 1) * program[k].stride

\* No thread uses a pointer into storage that the vector has given back.
NoDangling == ~dangled

\* Every thread gets through all loops: the wait for ordered_count ends.
LoopsComplete ==
  \A i \in Thread : <>(loop_num[i] = Len(program) /\ pc[i] = "body")

-----------------------------------------------------------------------------
(* Why: with a barrier after every loop the team is in one loop at a time. *)

\* Only the last loop of a program may have no barrier after it.
Barriers == \A p \in Programs : \A k \in 1..(Len(p) - 1) : ~p[k].nowait

LoopData ==
  [lower : CInt, upper : CInt, stride : CInt \ {0}, chunk : CInt,
   schedule : {"static", "chunked", "dynamic", "other"},
   ordered_count : Int, schedule_count : Int,
   first_iter : [Thread -> Int], last_iter : [Thread -> Int], iter_count : [Thread -> Int]]

DispatchType ==
  /\ program \in Programs
  /\ heap \in Seq(Seq(LoopData)) /\ heap # <<>>
  /\ loop_num \in [Thread -> 0..Len(program)]
  /\ loop_sched \in [Thread -> [storage : Nat, index : Nat]]
  /\ pc \in [Thread -> PC]
  /\ loop_id \in [Thread -> Int] /\ lb \in [Thread -> Int] /\ ub \in [Thread -> Int]
  /\ times \in [DOMAIN program -> [CInt -> Nat]]
  /\ sequence \in [DOMAIN program -> Seq(Int)]

\* The number of the loop the team is in, or left last.
last == Len(loop_list)

Inside == {"next", "bounds", "run", "wait", "end_ordered"}

\* Some threads may have to come to it yet; the next one begins for all.
OneLoop ==
  /\ last <= Len(program)
  /\ \A i \in Thread :
       /\ pc[i] = "body" => loop_num[i] = last \/ loop_num[i] + 1 = last
       /\ pc[i] = "slots" => loop_num[i] + 1 = last
       /\ pc[i] \in {"pointer", "barrier"} \cup Inside => loop_num[i] = last /\ last > 0
       /\ pc[i] \in Inside => loop_sched[i] = [storage |-> Len(heap), index |-> last]
       /\ pc[i] = "body" /\ loop_num[i] = last /\ last < Len(program) =>
            \A j \in Thread : pc[j] = "body" /\ loop_num[j] = last

RoundInv == DispatchType /\ OneLoop /\ NoDangling

-----------------------------------------------------------------------------
(* Why: what is handed out of the loop is run, or left to the thread that  *)
(* has it.                                                                 *)

ChunkSize(l) ==
  IF l.schedule = "static"
  THEN LET trip == TripCount(l.lower, l.upper, l.stride)
       IN  trip \div NumThreads + Adjustment(trip, NumThreads) + 1
  ELSE IF l.chunk = 0 THEN 1 ELSE l.chunk

\* The loops that count up, and whose bounds and chunks, with the chunks that
\* are computed after the last, fit an int.
Upward(l) ==
  /\ l.stride > 0 /\ l.chunk >= 0 /\ l.lower <= l.upper
  /\ l.schedule = "chunked" => l.stride = 1
  /\ LET over == (NumThreads + 1) * l.stride * IF l.schedule = "static" \/ l.chunk = 0 THEN 1 ELSE l.chunk
     IN  l.upper - l.lower + over <= IntMax /\ l.upper + over <= IntMax

AllUpward == \A p \in Programs : \A k \in DOMAIN p : Upward(p[k])

ChunkLower(j) ==
  program[last].lower + j * (ChunkSize(program[last]) * program[last].stride)

ChunkUpper(j) ==
  Clipped(ChunkLower(j) + (ChunkSize(program[last]) - 1) * program[last].stride,
          program[last].upper)

Chunk(j) == Iterations(ChunkLower(j), ChunkUpper(j), program[last].stride)

Data == loop_list[last]

DataKept ==
  last > 0 =>
    /\ Data.lower = program[last].lower /\ Data.upper = program[last].upper
    /\ Data.stride = program[last].stride /\ Data.schedule = program[last].schedule
    /\ Data.schedule # "static" => Data.chunk = ChunkSize(program[last])

\* The chunks that have been handed out, by number.
HandedOut ==
  {j \in 0..IntMax :
     \/ Data.schedule = "static" /\ j \in Thread /\ Data.iter_count[j] > 0
     \/ Data.schedule = "chunked" /\ j \div NumThreads < Data.iter_count[j % NumThreads]
     \/ Data.schedule = "dynamic" /\ j < Data.schedule_count}

\* The number of the chunk thread i was given last.
Own(i) ==
  IF Data.schedule = "static" THEN i
  ELSE IF Data.schedule = "chunked" THEN i + NumThreads * (Data.iter_count[i] - 1)
  ELSE loop_id[i]

\* What thread i has still to run of it.
Left(i) ==
  CASE pc[i] = "bounds" -> Chunk(loop_id[i])
    [] pc[i] \in {"run", "wait"} -> Iterations(lb[i], ub[i], program[last].stride)
    [] pc[i] = "end_ordered" -> Iterations(lb[i] + program[last].stride, ub[i], program[last].stride)
    [] OTHER -> {}

Holds(i) == pc[i] \in {"bounds", "run", "wait", "end_ordered"}

\* Thread i is through with the loop.
Through(i) == loop_num[i] = last /\ pc[i] \in {"body", "barrier"}

SharedBy(i) ==
  /\ Data.iter_count[i] >= 0
  /\ loop_num[i] # last => Data.iter_count[i] = 0
  /\ Holds(i) => Data.schedule # "other" /\ Own(i) \in HandedOut
  /\ pc[i] = "bounds" => Data.schedule = "dynamic"
  /\ pc[i] \in {"run", "wait", "end_ordered"} =>
       /\ ub[i] = ChunkUpper(Own(i))
       /\ \E q \in 0..IntMax : lb[i] = ChunkLower(Own(i)) + q * program[last].stride
  /\ pc[i] \in {"wait", "end_ordered"} => lb[i] <= ub[i]

Shared ==
  /\ \A i \in Thread : SharedBy(i)
  /\ \A i, j \in Thread : i # j /\ Holds(i) /\ Holds(j) => Own(i) # Own(j)

\* Who is through with the loop has been told that nothing is left; only then is
\* a chunk after the last one computed, so every thread does that once at most.
ExhaustedBy(i) ==
  /\ Data.schedule = "static" /\ Through(i) => Data.iter_count[i] > 0
  /\ Data.schedule = "chunked" =>
       /\ Through(i) => Data.iter_count[i] > 0 /\ ChunkLower(Own(i)) > Data.upper
       /\ ~Through(i) /\ Data.iter_count[i] > 0 => ChunkLower(Own(i)) <= Data.upper
  /\ Data.schedule = "dynamic" =>
       /\ Through(i) => Own(i) \in HandedOut /\ ChunkLower(Own(i)) > Data.upper

Exhausted == \A i \in Thread : ExhaustedBy(i)

OverOnce ==
  Data.schedule = "dynamic" =>
    /\ Data.schedule_count \in 0..IntMax
    /\ \A j \in HandedOut :
         ChunkLower(j) > Data.upper =>
           \E i \in Thread : loop_id[i] = j /\ (pc[i] = "bounds" \/ Through(i))

RunOrLeft ==
  \A x \in CInt :
    times[last][x] =
      IF (\E j \in HandedOut : x \in Chunk(j)) /\ ~(\E i \in Thread : x \in Left(i)) THEN 1 ELSE 0

\* The loops before, and those to come.
OtherLoops ==
  \A k \in DOMAIN program : k # last =>
    \A x \in CInt :
      times[k][x] = IF k < last /\ program[k].schedule # "other" /\ x \in Asked(k) THEN 1 ELSE 0

WorkInv ==
  /\ DataKept /\ OtherLoops
  /\ last > 0 => Shared /\ Exhausted /\ OverOnce /\ RunOrLeft

-----------------------------------------------------------------------------
(* Why: __kmpc_ordered lets the iterations in by their number.             *)

\* The loops whose ranges kmp_next gives in iterations.
InRange(l) ==
  l.ordered => IF l.schedule = "static" THEN 0 <= l.lower /\ l.lower < l.stride
                                        ELSE l.chunk <= 1

AllInRange == \A p \in Programs : \A k \in DOMAIN p : InRange(p[k])

\* How many ordered parts of the loop have begun.
Ran == Len(sequence[last])

\* The iterations that were run are those whose ordered parts ran.
RanInOrder ==
  \A x \in CInt :
    times[last][x] > 0 <=>
      \E m \in 0..(Ran - 1) : x = program[last].lower + m * program[last].stride

\* ordered_count is the number of those that have ended: of all, or of all but one.
Counted ==
  /\ \A i \in Thread :
       pc[i] = "end_ordered" =>
         /\ Data.ordered_count = Ran - 1
         /\ lb[i] = program[last].lower + (Ran - 1) * program[last].stride
  /\ (\A i \in Thread : pc[i] # "end_ordered") => Data.ordered_count = Ran

\* first_iter is the number of the first iteration of the thread's chunk.
Numbered(i) ==
  pc[i] \in {"run", "wait", "end_ordered"} =>
    Data.first_iter[i] = Own(i) * ChunkSize(program[last])

OrderInv ==
  /\ OrderedInSequence
  /\ \A k \in DOMAIN program : k > last => sequence[k] = <<>>
  /\ last > 0 =>
       IF program[last].ordered
       THEN RanInOrder /\ Counted /\ \A i \in Thread : Numbered(i)
       ELSE \A i \in Thread : pc[i] \notin {"wait", "end_ordered"}
=============================================================================
