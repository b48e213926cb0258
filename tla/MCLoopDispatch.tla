---------------------------- MODULE MCLoopDispatch ----------------------------
(* LoopDispatch on short programs. *)
EXTENDS LoopDispatch

Loop(schedule, upper, chunk, ordered) ==
  [schedule |-> schedule, lower |-> 0, upper |-> upper, stride |-> 1, chunk |-> chunk,
   ordered |-> ordered, nowait |-> FALSE]

Nowait(l) == [l EXCEPT !.nowait = TRUE]

Dynamic == Loop("dynamic", 3, 1, FALSE)

\* A loop as icc passes it: not from 0 and not in steps of 1.
Strided == [Loop("dynamic", 6, 2, FALSE) EXCEPT !.lower = 1, !.stride = 2]

\* Each kind of loop after others, so that loop_list grows twice, with barriers;
\* the last loop may have none. A loop of a schedule kmp_next has no case for is
\* left at once.
BarrierPrograms ==
  { <<Dynamic, Loop("static", 3, 0, FALSE), Nowait(Loop("dynamic", 4, 2, FALSE))>>,
    <<Loop("chunked", 4, 2, FALSE), Loop("dynamic", 2, 1, TRUE), Strided>>,
    <<Loop("static", 3, 0, TRUE), Loop("chunked", 3, 1, TRUE), Loop("static", 0, 0, FALSE)>>,
    <<Loop("other", 2, 1, FALSE), Loop("dynamic", 3, 0, TRUE)>> }

\* A loop that some thread can leave while another is still in it.
NowaitPrograms == { <<Nowait(Loop("dynamic", 1, 1, FALSE)), Dynamic>> }
=============================================================================
