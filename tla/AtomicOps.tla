------------------------------ MODULE AtomicOps ------------------------------
(***************************************************************************)
(* The __kmpc_atomic_ routines of kmp_atomic.cpp on one variable, compiled *)
(* without KMP_GOMP_COMPAT, as the repository builds them: OP_GOMP_CRITICAL*)
(* and its like are empty.  The tables of the file give each operation on  *)
(* each type one of a few shapes (Routine); a shape is modelled step by    *)
(* step, where a load, a store, a fetch-and-add, an exchange and a         *)
(* compare-and-store are one step each.                                    *)
(***************************************************************************)
EXTENDS AtomicCalls

CONSTANTS
  Programs   \* what programs do with the variable: its type, and the calls they make

VARIABLES
  program,   \* what the program does with the variable
  x,      \* *lhs
  call,   \* the call each thread is in
  pc,     \* where each thread is
  old,    \* its old_value
  ret,    \* the value it returns
  lock    \* the thread that holds each lock, or NoCall

vars == <<program, x, call, pc, old, ret, lock>>

-----------------------------------------------------------------------------
(* The tables.  fixed4 stands for the integers of 4 and 8 bytes, float4    *)
(* for the floats of that size and the integers of 1 and 2 bytes, float10  *)
(* for it and the larger complex types; float16 is _Quad.                  *)

Type == {"fixed4", "float4", "float10", "cmplx4", "float16"}

ASSUME ProgramsAssumption == Programs \subseteq [type : Type, calls : SUBSET Call]

type == program.type

\* The types that fit a compare-and-store, used without a lock.
LockFree == {"fixed4", "float4"}

\* The arithmetic and logical operators.
UpdateRoutine(t, op) ==
  CASE op = "add" /\ t = "fixed4" -> "xadd"
    [] t \in LockFree -> "cas"
    [] OTHER -> "lock"

MaxRoutine(t) == IF t \in LockFree THEN "max_cas" ELSE "max_lock"

\* The only updates of a complex<float> without a lock are those by a complex<double>
\* and, as it has 8 bytes, by a function.
MixRoutine(t) == IF t \in LockFree \cup {"cmplx4"} THEN "cas" ELSE "lock"

GenRoutine(t) == IF t \in LockFree \cup {"cmplx4"} THEN "cas" ELSE "lock"

ReadRoutine(t) ==
  CASE t = "fixed4" -> "xadd" [] t = "float4" -> "cas_read" [] OTHER -> "lock"

\* Of a write and of a swap.
WriteRoutine(t) == IF t \in LockFree THEN "xchg" ELSE "lock"

\* A capturing routine has the shape of the one that does not capture.
Routine(t, c) ==
  CASE c.op = "rd" -> ReadRoutine(t)
    [] c.op \in {"wr", "swp"} -> WriteRoutine(t)
    [] c.op = "max" -> MaxRoutine(t)
    [] c.op = "mix" -> MixRoutine(t)
    [] c.op = "gen" -> GenRoutine(t)
    [] OTHER -> UpdateRoutine(t, c.op)

\* The routines there are: a read or a swap returns the value it found, a write,
\* an update by a larger operand or by a function returns nothing.
Exists(t, c) ==
  /\ c.op \in {"rd", "swp"} => c.capture = "before"
  /\ c.op \in {"wr", "mix", "gen"} => c.capture = "none"
  /\ c.op = "max" => t \in {"fixed4", "float4", "float16"}
  /\ c.op = "mix" => t # "float16"

\* ATOMIC_LOCK##LCK_ID: one lock for each type, but __kmpc_atomic_16 takes that of
\* complex<double> also for _Quad.
LockId(t, c) == IF t = "float16" /\ c.op = "gen" THEN "16c" ELSE t

Lock == Type \cup {"16c"}

My(i) == LockId(type, call[i])

Init ==
  /\ program \in Programs
  /\ x = 0
  /\ call = [i \in Thread |-> NoCall]
  /\ pc = [i \in Thread |-> "idle"]
  /\ old = [i \in Thread |-> 0]
  /\ ret = [i \in Thread |-> 0]
  /\ lock = [l \in Lock |-> NoCall]

Goto(i, from, to) ==
  /\ pc[i] = from
  /\ pc' = [pc EXCEPT ![i] = to]

Give(i, v) == ret' = [ret EXCEPT ![i] = IF call[i].capture = "none" THEN 0 ELSE v]

\* if (flag) return new_value; else return old_value;
GiveOf(i, before, after) == Give(i, IF call[i].capture = "after" THEN after ELSE before)

\* Where a routine starts: OP_GOMP_CRITICAL before it is empty.
FirstStep(routine) ==
  CASE routine \in {"max_cas", "max_lock"} -> "test"
    [] routine = "cas" -> "load"
    [] routine = "lock" -> "acquire"
    [] OTHER -> routine

Enter(i) ==
  /\ \E c \in program.calls :
       /\ Exists(type, c)
       /\ Goto(i, "idle", FirstStep(Routine(type, c)))
       /\ call' = [call EXCEPT ![i] = c]
  /\ UNCHANGED <<program, x, old, ret, lock>>

-----------------------------------------------------------------------------
(* Lock-free shapes.                                                       *)

\* KMP_TEST_THEN_ADD; a read adds 0.
FetchAdd(i) ==
  /\ Goto(i, "xadd", "done")
  /\ x' = IF call[i].op = "rd" THEN x ELSE Update(call[i], x)
  /\ GiveOf(i, x, Update(call[i], x))
  /\ UNCHANGED <<program, call, old, lock>>

\* KMP_XCHG_FIXED and KMP_XCHG_REAL.
Exchange(i) ==
  /\ Goto(i, "xchg", "done")
  /\ x' = call[i].rhs
  /\ Give(i, x)
  /\ UNCHANGED <<program, call, old, lock>>

\* old_value = *lhs, of OP_CMPXCHG and its like.
Load(i) ==
  /\ Goto(i, "load", "cas")
  /\ old' = [old EXCEPT ![i] = x]
  /\ UNCHANGED <<program, x, call, ret, lock>>

\* Mutant: a load, a computation and a store.
Store(i) ==
  /\ Goto(i, "cas", "done")
  /\ x' = Update(call[i], old[i])
  /\ GiveOf(i, old[i], Update(call[i], old[i]))
  /\ UNCHANGED <<program, call, old, lock>>

\* KMP_COMPARE_AND_STORE_ACQ of new_value = old_value OP rhs; again if x has changed.
CompareAndStore(i) ==
  /\ pc[i] = "cas"
  /\ IF x = old[i]
     THEN /\ Goto(i, "cas", "done")
          /\ x' = Update(call[i], old[i])
          /\ GiveOf(i, old[i], Update(call[i], old[i]))
     ELSE Goto(i, "cas", "load") /\ UNCHANGED <<x, ret>>
  /\ UNCHANGED <<program, call, old, lock>>

\* KMP_COMPARE_AND_STORE_RET returns x whether or not it is what temp_val was.
CasRead(i) ==
  /\ Goto(i, "cas_read", "done")
  /\ Give(i, x)
  /\ UNCHANGED <<program, x, call, old, lock>>

-----------------------------------------------------------------------------
(* MIN_MAX_COMPXCHG and MIN_MAX_CRITICAL: first a test, without a lock.    *)

\* Another thread is storing a _Quad, in two halves: the test may go either way.
Torn(i) == type = "float16" /\ \E j \in Thread \ {i} : pc[j] = "critical_store"

TestMax(i) ==
  /\ pc[i] = "test"
  /\ \/ /\ x < call[i].rhs \/ Torn(i)
        /\ Goto(i, "test", IF Routine(type, call[i]) = "max_cas" THEN "max_load" ELSE "acquire")
     \/ /\ ~(x < call[i].rhs) \/ Torn(i)
        /\ Goto(i, "test", IF call[i].capture = "none" THEN "done" ELSE "reread")
  /\ UNCHANGED <<program, x, call, old, ret, lock>>

\* return *lhs, of the capturing ones.
Reread(i) ==
  /\ Goto(i, "reread", "done")
  /\ Give(i, x)
  /\ UNCHANGED <<program, x, call, old, lock>>

\* old_value = *lhs; with flag it returns rhs, also when there is nothing to do.
LoadMax(i) ==
  /\ pc[i] = "max_load"
  /\ old' = [old EXCEPT ![i] = x]
  /\ IF x < call[i].rhs
     THEN Goto(i, "max_load", "max_cas") /\ UNCHANGED ret
     ELSE Goto(i, "max_load", "done") /\ GiveOf(i, x, call[i].rhs)
  /\ UNCHANGED <<program, x, call, lock>>

CompareAndStoreMax(i) ==
  /\ pc[i] = "max_cas"
  /\ IF x = old[i]
     THEN /\ Goto(i, "max_cas", "done")
          /\ x' = call[i].rhs
          /\ GiveOf(i, old[i], call[i].rhs)
     ELSE Goto(i, "max_cas", "max_load") /\ UNCHANGED <<x, ret>>
  /\ UNCHANGED <<program, call, old, lock>>

-----------------------------------------------------------------------------
(* OP_CRITICAL and its like, MIN_MAX_CRITSECT, __kmpc_atomic_10 and on.    *)

Acquire(i) ==
  /\ Goto(i, "acquire", "critical_load")
  /\ lock[My(i)] = NoCall
  /\ lock' = [lock EXCEPT ![My(i)] = i]
  /\ UNCHANGED <<program, x, call, old, ret>>

CriticalLoad(i) ==
  /\ Goto(i, "critical_load", "critical_store")
  /\ old' = [old EXCEPT ![i] = x]
  /\ UNCHANGED <<program, x, call, ret, lock>>

\* The capturing MIN_MAX_CRITSECT leaves new_value without a value when x is
\* no longer below rhs.
CriticalStore(i) ==
  /\ Goto(i, "critical_store", "release")
  /\ x' = IF call[i].op = "rd" THEN x ELSE Update(call[i], old[i])
  /\ IF call[i].op = "max" /\ ~(old[i] < call[i].rhs)
     THEN \E v \in Value : Give(i, v)
     ELSE GiveOf(i, old[i], Update(call[i], old[i]))
  /\ UNCHANGED <<program, call, old, lock>>

\* Mutant: the early return of a critical section that forgets the lock.
ReleaseNothing(i) ==
  /\ Goto(i, "release", "done")
  /\ UNCHANGED <<program, x, call, old, ret, lock>>

Release(i) ==
  /\ Goto(i, "release", "done")
  /\ lock' = [lock EXCEPT ![My(i)] = NoCall]
  /\ UNCHANGED <<program, x, call, old, ret>>

-----------------------------------------------------------------------------

Return(i) ==
  /\ Goto(i, "done", "idle")
  /\ call' = [call EXCEPT ![i] = NoCall]
  /\ old' = [old EXCEPT ![i] = 0]
  /\ ret' = [ret EXCEPT ![i] = 0]
  /\ UNCHANGED <<program, x, lock>>

Step(i) ==
  \/ FetchAdd(i) \/ Exchange(i) \/ Load(i) \/ CompareAndStore(i) \/ CasRead(i)
  \/ TestMax(i) \/ Reread(i) \/ LoadMax(i) \/ CompareAndStoreMax(i)
  \/ Acquire(i) \/ CriticalLoad(i) \/ CriticalStore(i) \/ Release(i)
  \/ Return(i)

Next == \E i \in Thread : Enter(i) \/ Step(i)

Spec == Init /\ [][Next]_vars

\* A thread in a routine goes on; it need never call another.
FairSpec == Spec /\ \A i \in Thread : WF_vars(Step(i))

-----------------------------------------------------------------------------
(* Properties.                                                             *)

\* How far a thread at the place p is with its call.
StatusOf(p) ==
  CASE p = "idle" -> "idle"
    [] p \in {"release", "done"} -> "committed"
    [] OTHER -> "called"

Status == [i \in Thread |-> StatusOf(pc[i])]

Atomic == INSTANCE AtomicCell WITH cell <- x, status <- Status, result <- ret

\* Every call takes effect in one step, on the value that is there at that step,
\* and returns what it found or left, whichever routines the threads mix: no
\* update is lost and no captured value was never there.
Linearizes == Atomic!Spec

\* Some call always gets through: neither the compare-and-store loops nor the
\* locks can block all threads for ever.
SomeCallReturns ==
  (\E i \in Thread : pc[i] # "idle") ~> (\E i \in Thread : pc[i] = "done")

-----------------------------------------------------------------------------
(* The programs whose calls linearize, and the inductive invariant.         *)

\* The calls a program can make.
CallsOf(p) == {c \in p.calls : Exists(p.type, c)}

Locked(t, c) == Routine(t, c) \in {"lock", "max_lock"}

\* The routines it uses take one lock, or none of them takes a lock.
OneLockOrNone(p) ==
  \/ \A c \in CallsOf(p) : ~Locked(p.type, c)
  \/ \A c, d \in CallsOf(p) : Locked(p.type, c) /\ LockId(p.type, c) = LockId(p.type, d)

\* A max is not used on a _Quad, which its first test can find half stored.
NoTornTest(p) == \A c \in CallsOf(p) : c.op = "max" => p.type # "float16"

\* The variable only rises beside a max that captures, and not above the operand
\* of one that captures the value after.
MaxCaptures(p) ==
  \A c, d \in CallsOf(p) :
    c.op = "max" /\ c.capture # "none" =>
      d.op \in {"max", "rd"} /\ (c.capture = "after" /\ d.op = "max" => d.rhs <= c.rhs)

Linearizable ==
  \A p \in Programs : OneLockOrNone(p) /\ NoTornTest(p) /\ MaxCaptures(p)

InCritical == {"critical_load", "critical_store", "release"}

\* Where a thread can be in a routine before it is done (in these programs no
\* routine is a max with a lock).
Places(routine) ==
  CASE routine = "cas" -> {"load", "cas"}
    [] routine = "max_cas" -> {"test", "max_load", "max_cas", "reread"}
    [] routine = "lock" -> {"acquire"} \cup InCritical
    [] OTHER -> {routine}

AtomicPC ==
  {"idle", "xadd", "xchg", "load", "cas", "cas_read", "test", "reread", "max_load",
   "max_cas", "acquire", "done"} \cup InCritical

AtomicType ==
  /\ program \in Programs
  /\ x \in Value
  /\ call \in [Thread -> Call \cup {NoCall}]
  /\ pc \in [Thread -> AtomicPC]
  /\ old \in [Thread -> Value]
  /\ ret \in [Thread -> Value]
  /\ lock \in [Lock -> Thread \cup {NoCall}]

\* A thread is where its call's routine can be, and returns nothing yet.
InPlace(i) ==
  IF pc[i] = "idle"
  THEN call[i] = NoCall /\ ret[i] = 0
  ELSE /\ call[i] \in CallsOf(program)
       /\ pc[i] # "done" => pc[i] \in Places(Routine(type, call[i]))
       /\ pc[i] \notin {"release", "done"} => ret[i] = 0

\* In a critical section the thread has the lock, and *lhs is what it has read.
HoldsLock(i) ==
  /\ pc[i] \in InCritical => lock[My(i)] = i
  /\ pc[i] = "critical_store" => old[i] = x

\* What a max knows: old_value is below its operand before the compare-and-store,
\* and the variable is not when it reads it again to return it.
KnowsMax(i) ==
  /\ pc[i] = "max_cas" => old[i] < call[i].rhs
  /\ pc[i] = "reread" => call[i].capture # "none" /\ call[i].rhs <= x

\* The variable is never above the operand of a max that captures the value after.
NotAbove ==
  \A c \in CallsOf(program) : c.op = "max" /\ c.capture = "after" => x <= c.rhs

\* What the refinement of AtomicCell rests on.
AtomicInv ==
  /\ AtomicType /\ NotAbove
  /\ \A i \in Thread : InPlace(i) /\ HoldsLock(i) /\ KnowsMax(i)
=============================================================================
