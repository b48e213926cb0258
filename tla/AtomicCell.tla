------------------------------ MODULE AtomicCell ------------------------------
(***************************************************************************)
(* What "#pragma omp atomic" promises of one variable: every call takes    *)
(* effect in one step between its invocation and its return.               *)
(***************************************************************************)
EXTENDS AtomicCalls

VARIABLES
  cell,     \* the variable
  call,     \* the call each thread is in
  status,   \* "idle", "called" or "committed"
  result    \* what the call of each thread is to return

Init ==
  /\ cell = 0
  /\ call = [i \in Thread |-> NoCall]
  /\ status = [i \in Thread |-> "idle"]
  /\ result = [i \in Thread |-> 0]

Invoke(i, c) ==
  /\ status[i] = "idle"
  /\ call' = [call EXCEPT ![i] = c]
  /\ status' = [status EXCEPT ![i] = "called"]
  /\ UNCHANGED <<cell, result>>

Commit(i) ==
  /\ status[i] = "called"
  /\ cell' = Update(call[i], cell)
  /\ result' = [result EXCEPT ![i] = Result(call[i], cell)]
  /\ status' = [status EXCEPT ![i] = "committed"]
  /\ UNCHANGED call

Return(i) ==
  /\ status[i] = "committed"
  /\ call' = [call EXCEPT ![i] = NoCall]
  /\ status' = [status EXCEPT ![i] = "idle"]
  /\ result' = [result EXCEPT ![i] = 0]
  /\ UNCHANGED cell

Next == \E i \in Thread : (\E c \in Call : Invoke(i, c)) \/ Commit(i) \/ Return(i)

Spec == Init /\ [][Next]_<<cell, call, status, result>>
=============================================================================
