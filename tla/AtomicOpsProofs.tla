--------------------------- MODULE AtomicOpsProofs ---------------------------
(***************************************************************************)
(* AtomicOps implements AtomicCell, for any threads, any width of the      *)
(* variable and any programs of the kind Linearizable describes.           *)
(***************************************************************************)
EXTENDS AtomicOps, TLAPS

\* The cell and the routines agree on what a call does.
LEMMA SameCalls ==
  /\ Atomic!Call = Call
  /\ \A c, v : Atomic!Update(c, v) = Update(c, v)
  /\ \A c, v : Atomic!Result(c, v) = Result(c, v)
<1>1. Atomic!Call = Call
  BY DEF Atomic!Call, Call, Atomic!Op, Op, Atomic!Value, Value
<1>2. ASSUME NEW c, NEW v PROVE Atomic!Update(c, v) = Update(c, v)
  BY DEF Atomic!Update, Update
<1>3. ASSUME NEW c, NEW v PROVE Atomic!Result(c, v) = Result(c, v)
  BY <1>2 DEF Atomic!Result, Result
<1>4. QED
  BY <1>1, <1>2, <1>3

\* A remainder is a value of the variable.
LEMMA WrapType ==
  ASSUME NEW n \in Int
  PROVE  n % Modulus \in Value
BY ModulusAssumption DEF Value

\* Updating keeps the variable within its width.
LEMMA UpdateType ==
  ASSUME NEW c \in Call, NEW v \in Value
  PROVE  Update(c, v) \in Value
<1>1. c.rhs \in Value /\ c.op \in Op
  BY DEF Call
<1>2. v \in Int /\ c.rhs \in Int
  BY <1>1 DEF Value
<1>3. (v + c.rhs) % Modulus \in Value /\ (c.rhs - v) % Modulus \in Value
  BY <1>2, WrapType
<1>4. QED
  BY <1>1, <1>3 DEF Update, Op

\* A step of one thread moves the status of that thread alone.
LEMMA StatusStep ==
  ASSUME AtomicType, NEW i \in Thread, NEW p, pc' = [pc EXCEPT ![i] = p]
  PROVE  /\ Status' = [Status EXCEPT ![i] = StatusOf(p)]
         /\ Status[i] = StatusOf(pc[i])
BY DEF AtomicType, Status

\* A thread in a call: what the tables and the invariant say of it.
LEMMA CallFacts ==
  ASSUME AtomicInv, Linearizable, NEW i \in Thread, pc[i] # "idle"
  PROVE  /\ call[i] \in Call /\ call[i] \in CallsOf(program)
         /\ call[i].op \in Op /\ call[i].rhs \in Value
         /\ call[i].capture \in {"none", "before", "after"}
         /\ x \in Value /\ old[i] \in Value
         /\ Update(call[i], x) \in Value /\ Update(call[i], old[i]) \in Value
<1>1. call[i] \in CallsOf(program)
  BY DEF AtomicInv, InPlace
<1>2. call[i] \in Call
  BY <1>1, ProgramsAssumption DEF CallsOf, AtomicInv, AtomicType
<1>3. x \in Value /\ old[i] \in Value
  BY DEF AtomicInv, AtomicType
<1>4. QED
  BY <1>1, <1>2, <1>3, UpdateType DEF Call

\* The shape of each operation, from the tables.
LEMMA RoutineFacts ==
  ASSUME NEW p \in Programs, NEW c \in CallsOf(p), NEW r, r = Routine(p.type, c),
         c \in Call, NoTornTest(p)
  PROVE  /\ r \in {"xadd", "xchg", "cas", "cas_read", "max_cas", "lock"}
         /\ r = "xadd" => c.op \in {"add", "rd"}
         /\ r = "xchg" => c.op \in {"wr", "swp"}
         /\ r = "cas" => c.op \notin {"rd", "max", "wr", "swp"}
         /\ r = "cas_read" => c.op = "rd"
         /\ r = "max_cas" <=> c.op = "max"
         /\ c.op = "wr" => c.capture = "none"
         /\ c.op \in {"rd", "swp"} => c.capture = "before"
         /\ r = "lock" <=> Locked(p.type, c)
<1>1. p.type \in Type
  BY ProgramsAssumption
<1>2. Exists(p.type, c) /\ c.op \in Op
  BY DEF CallsOf, Call
<1>3. c.op = "max" => p.type \in LockFree
  BY <1>2 DEF Exists, NoTornTest, LockFree
<1>4. QED
  BY <1>1, <1>2, <1>3
     DEF Routine, ReadRoutine, WriteRoutine, MaxRoutine, MixRoutine, GenRoutine,
         UpdateRoutine, LockFree, Locked, Exists, Op, Type


\* What a thread in a call uses of the tables at once.
LEMMA ShapeFacts ==
  ASSUME AtomicInv, Linearizable, NEW i \in Thread, pc[i] # "idle"
  PROVE  /\ Routine(type, call[i]) \in {"xadd", "xchg", "cas", "cas_read", "max_cas", "lock"}
         /\ Routine(type, call[i]) = "xadd" => call[i].op \in {"add", "rd"}
         /\ Routine(type, call[i]) = "xchg" => call[i].op \in {"wr", "swp"}
         /\ Routine(type, call[i]) = "cas" => call[i].op \notin {"rd", "max", "wr", "swp"}
         /\ Routine(type, call[i]) = "cas_read" => call[i].op = "rd"
         /\ Routine(type, call[i]) = "max_cas" <=> call[i].op = "max"
         /\ call[i].op = "wr" => call[i].capture = "none"
         /\ call[i].op \in {"rd", "swp"} => call[i].capture = "before"
         /\ Routine(type, call[i]) = "lock" <=> Locked(type, call[i])
<1>1. program \in Programs /\ NoTornTest(program)
  BY DEF AtomicInv, AtomicType, Linearizable
<1>2. QED
  BY <1>1, CallFacts, RoutineFacts DEF type

\* Every call has a lock of its own type's.
LEMMA MyType ==
  ASSUME AtomicInv, NEW i \in Thread
  PROVE  My(i) \in Lock
BY ProgramsAssumption DEF AtomicInv, AtomicType, My, LockId, Lock, type

-----------------------------------------------------------------------------
(* A step of one thread does not disturb what is known of the others.      *)

\* i changes the variable by its call, in its critical section or without a lock.
Changes(i) ==
  /\ pc[i] # "idle"
  /\ pc[i] = "critical_store" \/ ~Locked(type, call[i])
  /\ x' = Update(call[i], x)

\* i takes or gives back the lock of its call.
MovesLock(i) ==
  \/ lock[My(i)] = NoCall /\ lock' = [lock EXCEPT ![My(i)] = i]
  \/ lock[My(i)] = i /\ lock' = [lock EXCEPT ![My(i)] = NoCall]

\* Only one thread at a time is in a critical section, and nobody then updates
\* the variable without a lock.
LEMMA Exclusion ==
  ASSUME AtomicInv, Linearizable, NEW i \in Thread, NEW j \in Thread, i # j,
         pc[j] \in InCritical, pc[i] # "idle"
  PROVE  pc[i] \notin InCritical /\ Locked(type, call[i])
<1>1. pc[j] # "idle" /\ pc[j] \in Places(Routine(type, call[j])) /\ pc[j] # "done"
  BY DEF AtomicInv, InPlace, InCritical
<1>2. Routine(type, call[j]) = "lock"
  BY <1>1, ShapeFacts DEF Places, InCritical
<1>3. Locked(type, call[j]) /\ call[j] \in CallsOf(program) /\ call[i] \in CallsOf(program)
  BY <1>1, <1>2, ShapeFacts, CallFacts
<1>4. OneLockOrNone(program)
  BY DEF Linearizable, AtomicInv, AtomicType
<1>5. Locked(type, call[i]) /\ My(i) = My(j)
  BY <1>3, <1>4 DEF OneLockOrNone, type, My
<1>6. QED
  BY <1>5 DEF AtomicInv, HoldsLock

\* The others keep what they know, whatever i does to the variable and its lock.
LEMMA OthersKeep ==
  ASSUME AtomicInv, Linearizable, NEW i \in Thread, program' = program,
         \A j \in Thread \ {i} :
           /\ pc'[j] = pc[j] /\ call'[j] = call[j]
           /\ old'[j] = old[j] /\ ret'[j] = ret[j],
         x' = x \/ Changes(i),
         lock' = lock \/ MovesLock(i)
  PROVE  /\ \A j \in Thread \ {i} : InPlace(j)' /\ HoldsLock(j)' /\ KnowsMax(j)'
         /\ NotAbove'
<1>1. /\ type' = type /\ CallsOf(program)' = CallsOf(program)
      /\ MaxCaptures(program)
  BY DEF type, CallsOf, Linearizable, AtomicInv, AtomicType
<1>2. x' = x \/ (pc[i] # "idle" /\ x' = Update(call[i], x) /\ call[i] \in CallsOf(program))
  BY CallFacts DEF Changes
<1>3. ASSUME NEW c \in CallsOf(program), c.op = "max", c.capture # "none", x' # x
      PROVE  /\ call[i].op \in {"max", "rd"} /\ x \in Nat /\ call[i].rhs \in Nat
             /\ c.capture = "after" /\ call[i].op = "max" => call[i].rhs <= c.rhs
             /\ c.rhs \in Nat
  <2>1. call[i].rhs \in Value /\ x \in Value
    BY <1>2, <1>3, CallFacts
  <2>2. c.rhs \in Value
    BY ProgramsAssumption DEF CallsOf, Call, AtomicInv, AtomicType
  <2>3. QED
    BY <1>1, <1>2, <1>3, <2>1, <2>2 DEF MaxCaptures, Value
<1>4. NotAbove'
  <2> SUFFICES ASSUME NEW c \in CallsOf(program), c.op = "max", c.capture = "after"
               PROVE  x' <= c.rhs
    BY <1>1 DEF NotAbove
  <2>1. x <= c.rhs
    BY DEF AtomicInv, NotAbove
  <2>2. QED
    BY <1>2, <1>3, <2>1 DEF Update
<1>5. ASSUME NEW j \in Thread \ {i} PROVE InPlace(j)'
  BY <1>1, <1>5 DEF InPlace, AtomicInv
<1>6. ASSUME NEW j \in Thread \ {i} PROVE HoldsLock(j)'
  <2>1. My(j)' = My(j)
    BY <1>1, <1>6 DEF My
  <2>2. ASSUME pc[j] \in InCritical PROVE lock'[My(j)] = j
    <3>1. lock[My(j)] = j /\ j # NoCall /\ j # i
      BY <2>2, NoCallAssumption DEF AtomicInv, HoldsLock
    <3>2. lock \in [Lock -> Thread \cup {NoCall}]
      BY DEF AtomicInv, AtomicType
    <3>3. My(j) \in Lock
      BY MyType
    <3>4. CASE lock' = lock
      BY <3>1, <3>4
    <3>5. CASE MovesLock(i)
      <4>1. My(i) # My(j)
        BY <3>1, <3>5 DEF MovesLock
      <4>2. lock'[My(j)] = lock[My(j)]
        BY <3>2, <3>3, <3>5, <4>1 DEF MovesLock
      <4>3. QED
        BY <3>1, <4>2
    <3>6. QED
      BY <3>4, <3>5
  <2>3. ASSUME pc[j] = "critical_store" PROVE old[j] = x'
    <3>1. old[j] = x
      BY <2>3 DEF AtomicInv, HoldsLock
    <3>2. x' = x
      BY <2>3, Exclusion DEF Changes, InCritical
    <3>3. QED
      BY <3>1, <3>2
  <2>4. QED
    BY <1>6, <2>1, <2>2, <2>3 DEF HoldsLock
<1>7. ASSUME NEW j \in Thread \ {i} PROVE KnowsMax(j)'
  <2>1. ASSUME pc[j] = "reread" PROVE call[j].rhs <= x'
    <3>1. call[j] \in CallsOf(program) /\ call[j].op = "max"
      BY <2>1, CallFacts, ShapeFacts DEF AtomicInv, InPlace, Places, InCritical
    <3>2. call[j].capture # "none" /\ call[j].rhs <= x
      BY <2>1 DEF AtomicInv, KnowsMax
    <3>3. CASE x' # x
      <4>1. call[i].op \in {"max", "rd"} /\ x \in Nat /\ call[i].rhs \in Nat
            /\ call[j].rhs \in Nat
        BY <1>3, <3>1, <3>2, <3>3
      <4>2. x <= x'
        BY <1>2, <3>3, <4>1 DEF Update
      <4>3. x' \in Nat
        BY <1>2, <3>3, <4>1 DEF Update
      <4>4. QED
        BY <3>2, <4>1, <4>2, <4>3
    <3>4. QED
      BY <3>2, <3>3
  <2>2. QED
    BY <1>7, <2>1 DEF KnowsMax, AtomicInv
<1>8. QED
  BY <1>4, <1>5, <1>6, <1>7

-----------------------------------------------------------------------------
(* One step of a thread in a call, whatever its routine.                   *)

\* What AtomicCell has for variables.
Cell == <<x, call, Status, ret>>

\* The step of AtomicCell that i takes by going on to p and returning r: none,
\* or its call takes effect.
Stays(i, p, r) == StatusOf(p) = StatusOf(pc[i]) /\ x' = x /\ r = ret[i]

Commits(i, p, r) ==
  /\ StatusOf(pc[i]) = "called" /\ StatusOf(p) = "committed"
  /\ x' = Update(call[i], x)
  /\ r = Result(call[i], x)

\* Such a step is one of AtomicCell, or none.
LEMMA CellStep ==
  ASSUME AtomicType, NEW i \in Thread, NEW p, NEW r,
         pc' = [pc EXCEPT ![i] = p], ret' = [ret EXCEPT ![i] = r], call' = call,
         Stays(i, p, r) \/ Commits(i, p, r)
  PROVE  [Atomic!Next]_Cell
<1>1. Status' = [Status EXCEPT ![i] = StatusOf(p)] /\ Status[i] = StatusOf(pc[i])
  BY StatusStep
<1>2. CASE Stays(i, p, r)
  <2>1. Status' = Status
    BY <1>1, <1>2 DEF Stays, Status
  <2>2. ret' = ret
    BY <1>2 DEF Stays, AtomicType
  <2>3. QED
    BY <1>2, <2>1, <2>2 DEF Stays, Cell
<1>3. CASE Commits(i, p, r)
  <2>1. x' = Atomic!Update(call[i], x) /\ r = Atomic!Result(call[i], x)
    BY <1>3, SameCalls DEF Commits
  <2>2. Atomic!Commit(i)
    BY <1>1, <1>3, <2>1 DEF Commits, Atomic!Commit
  <2>3. QED
    BY <2>2 DEF Atomic!Next
<1>4. QED
  BY <1>2, <1>3

\* A step that goes from place to place as the tables allow keeps the invariant.
LEMMA CallStep ==
  ASSUME AtomicInv, Linearizable, NEW i \in Thread, pc[i] # "idle",
         NEW p \in AtomicPC \ {"idle"}, NEW o \in Value, NEW r \in Value,
         pc' = [pc EXCEPT ![i] = p], old' = [old EXCEPT ![i] = o],
         ret' = [ret EXCEPT ![i] = r], UNCHANGED <<program, call>>,
         x' = x \/ Changes(i),
         lock' = lock \/ MovesLock(i),
         p # "done" => p \in Places(Routine(type, call[i])),
         p \notin {"release", "done"} => r = 0,
         p \in InCritical => lock'[My(i)] = i,
         p = "critical_store" => o = x',
         p = "max_cas" => o < call[i].rhs,
         p = "reread" => call[i].capture # "none" /\ call[i].rhs <= x',
         Stays(i, p, r) \/ Commits(i, p, r)
  PROVE  AtomicInv' /\ [Atomic!Next]_Cell
<1>1. [Atomic!Next]_Cell
  BY CellStep DEF AtomicInv
<1>2. AtomicType
  BY DEF AtomicInv
<1>3. \A j \in Thread \ {i} : /\ pc'[j] = pc[j] /\ call'[j] = call[j]
                              /\ old'[j] = old[j] /\ ret'[j] = ret[j]
  BY <1>2 DEF AtomicType
<1>4. /\ \A j \in Thread \ {i} : InPlace(j)' /\ HoldsLock(j)' /\ KnowsMax(j)'
      /\ NotAbove'
  BY <1>3, OthersKeep
<1>5. pc'[i] = p /\ old'[i] = o /\ ret'[i] = r
  BY <1>2 DEF AtomicType
<1>6. AtomicType'
  <2>1. x' \in Value
    BY <1>2, CallFacts DEF AtomicType, Changes
  <2>2. lock' \in [Lock -> Thread \cup {NoCall}]
    BY <1>2 DEF AtomicType, MovesLock
  <2>3. pc' \in [Thread -> AtomicPC]
    BY <1>2 DEF AtomicType
  <2>4. old' \in [Thread -> Value] /\ ret' \in [Thread -> Value]
    BY <1>2 DEF AtomicType
  <2>5. QED
    BY <1>2, <2>1, <2>2, <2>3, <2>4 DEF AtomicType
<1>7. type' = type /\ My(i)' = My(i) /\ CallsOf(program)' = CallsOf(program)
  BY DEF type, My, CallsOf
<1>8. InPlace(i)'
  BY <1>5, <1>7, CallFacts DEF InPlace
<1>9. HoldsLock(i)' /\ KnowsMax(i)'
  BY <1>5, <1>7 DEF HoldsLock, KnowsMax
<1>10. QED
  BY <1>1, <1>4, <1>6, <1>8, <1>9 DEF AtomicInv

-----------------------------------------------------------------------------
(* The steps.                                                              *)

\* What the function of a thread is that does not change there.
LEMMA SamePlace ==
  ASSUME AtomicType, NEW i \in Thread
  PROVE  /\ old = [old EXCEPT ![i] = old[i]] /\ old[i] \in Value
         /\ ret = [ret EXCEPT ![i] = ret[i]] /\ ret[i] \in Value
BY DEF AtomicType

\* 0 is a value.
LEMMA ZeroValue == 0 \in Value
BY ModulusAssumption DEF Value

\* What a routine gives its caller, by Give and GiveOf.
LEMMA Gives ==
  ASSUME AtomicInv, Linearizable, NEW i \in Thread, pc[i] # "idle", NEW v \in Value,
         NEW w \in Value
  PROVE  /\ Give(i, v) => ret' = [ret EXCEPT ![i] = IF call[i].capture = "none" THEN 0 ELSE v]
         /\ GiveOf(i, v, w) =>
              ret' = [ret EXCEPT ![i] = CASE call[i].capture = "none" -> 0
                                          [] call[i].capture = "before" -> v
                                          [] call[i].capture = "after" -> w]
         /\ (IF call[i].capture = "none" THEN 0 ELSE v) \in Value
<1>1. call[i].capture \in {"none", "before", "after"}
  BY CallFacts
<1>2. QED
  BY <1>1, ZeroValue DEF Give, GiveOf

\* The result of a call is a value.
LEMMA ResultType ==
  ASSUME AtomicInv, Linearizable, NEW i \in Thread, pc[i] # "idle"
  PROVE  Result(call[i], x) \in Value
BY CallFacts, ZeroValue DEF Result

\* KMP_TEST_THEN_ADD and KMP_XCHG take effect as they are.
LEMMA FetchAddStep ==
  ASSUME AtomicInv, Linearizable, NEW i \in Thread, FetchAdd(i) \/ Exchange(i)
  PROVE  AtomicInv' /\ [Atomic!Next]_Cell
<1> DEFINE r == Result(call[i], x)
<1>1. pc[i] \in {"xadd", "xchg"} /\ pc[i] # "idle"
  BY DEF FetchAdd, Exchange, Goto
<1>2. r \in Value
  BY <1>1, ResultType
<1>3. Routine(type, call[i]) = pc[i] /\ ~Locked(type, call[i])
  <2>1. pc[i] \in Places(Routine(type, call[i]))
    BY <1>1 DEF AtomicInv, InPlace
  <2>2. Routine(type, call[i]) \in {"xadd", "xchg"}
    BY <1>1, <2>1, ShapeFacts DEF Places, InCritical
  <2>3. QED
    BY <1>1, <2>1, <2>2, ShapeFacts DEF Places, InCritical
<1>4. x' = Update(call[i], x) /\ ret' = [ret EXCEPT ![i] = r]
  <2>1. CASE FetchAdd(i)
    <3>1. pc[i] = "xadd"
      BY <2>1 DEF FetchAdd, Goto
    <3>2. call[i].op \in {"add", "rd"}
      BY <1>1, <1>3, <3>1, ShapeFacts
    <3>3. GiveOf(i, x, Update(call[i], x)) /\ x' = Update(call[i], x)
      BY <2>1, <3>2 DEF FetchAdd, Update
    <3>4. QED
      BY <1>1, <3>3, Gives, CallFacts DEF Result
  <2>2. CASE Exchange(i)
    <3>1. pc[i] = "xchg"
      BY <2>2 DEF Exchange, Goto
    <3>2. /\ call[i].op \in {"wr", "swp"}
          /\ call[i].capture = IF call[i].op = "swp" THEN "before" ELSE "none"
      BY <1>1, <1>3, <3>1, ShapeFacts
    <3>3. Give(i, x) /\ x' = Update(call[i], x)
      BY <2>2, <3>2 DEF Exchange, Update
    <3>4. QED
      BY <1>1, <3>2, <3>3, Gives, CallFacts DEF Result
  <2>3. QED
    BY <2>1, <2>2
<1> HIDE DEF r
<1>5. /\ pc' = [pc EXCEPT ![i] = "done"] /\ UNCHANGED <<program, call, old, lock>>
  BY DEF FetchAdd, Exchange, Goto
<1>6. Commits(i, "done", r) /\ Changes(i)
  BY <1>1, <1>3, <1>4 DEF Commits, Changes, StatusOf, r
<1>7. old' = [old EXCEPT ![i] = old[i]] /\ old[i] \in Value
  BY <1>5, SamePlace DEF AtomicInv
<1>8. "done" \in AtomicPC \ {"idle"} /\ "done" \notin InCritical
  BY DEF AtomicPC, InCritical
<1>9. QED
  BY <1>1, <1>2, <1>4, <1>5, <1>6, <1>7, <1>8, CallStep

\* The place of a thread tells its routine.
LEMMA RoutineAt ==
  ASSUME AtomicInv, Linearizable, NEW i \in Thread, pc[i] # "idle"
  PROVE  /\ pc[i] \in {"load", "cas"} => Routine(type, call[i]) = "cas"
         /\ pc[i] = "cas_read" => Routine(type, call[i]) = "cas_read"
         /\ pc[i] \in {"test", "max_load", "max_cas", "reread"} =>
              Routine(type, call[i]) = "max_cas"
         /\ pc[i] \in {"acquire"} \cup InCritical => Routine(type, call[i]) = "lock"
<1>1. pc[i] # "done" => pc[i] \in Places(Routine(type, call[i]))
  BY DEF AtomicInv, InPlace
<1>2. QED
  BY <1>1, ShapeFacts DEF Places, InCritical

\* The loop of OP_CMPXCHG takes effect when its compare-and-store succeeds.
LEMMA CasStep ==
  ASSUME AtomicInv, Linearizable, NEW i \in Thread, Load(i) \/ CompareAndStore(i)
  PROVE  AtomicInv' /\ [Atomic!Next]_Cell
<1>1. /\ pc[i] \in {"load", "cas"} /\ pc[i] # "idle" /\ Routine(type, call[i]) = "cas"
      /\ ~Locked(type, call[i]) /\ ret[i] = 0
  <2>1. pc[i] \in {"load", "cas"} /\ pc[i] # "idle"
    BY DEF Load, CompareAndStore, Goto
  <2>2. Routine(type, call[i]) = "cas"
    BY <2>1, RoutineAt
  <2>3. QED
    BY <2>1, <2>2, ShapeFacts DEF AtomicInv, InPlace
<1>2. AtomicType /\ x \in Value /\ old[i] \in Value
  BY <1>1, CallFacts DEF AtomicInv
<1>3. Places("cas") = {"load", "cas"}
  BY DEF Places
<1>4. {"load", "cas", "done"} \subseteq AtomicPC \ ({"idle", "release"} \cup InCritical)
  BY DEF AtomicPC, InCritical
<1>5. CASE Load(i)
  <2>1. /\ pc' = [pc EXCEPT ![i] = "cas"] /\ old' = [old EXCEPT ![i] = x]
        /\ ret' = [ret EXCEPT ![i] = 0] /\ UNCHANGED <<program, x, call, lock>>
        /\ pc[i] = "load"
    BY <1>1, <1>2, <1>5, SamePlace DEF Load, Goto
  <2>2. Stays(i, "cas", 0)
    BY <1>1, <2>1 DEF Stays, StatusOf
  <2>3. QED
    BY <1>1, <1>2, <1>3, <1>4, <2>1, <2>2, ZeroValue, CallStep
<1>6. CASE CompareAndStore(i) /\ x = old[i]
  <2> DEFINE r == Result(call[i], x)
  <2>1. r \in Value
    BY <1>1, ResultType
  <2>2. /\ pc' = [pc EXCEPT ![i] = "done"] /\ old' = [old EXCEPT ![i] = old[i]]
        /\ UNCHANGED <<program, call, lock>> /\ x' = Update(call[i], x)
        /\ pc[i] = "cas" /\ GiveOf(i, x, Update(call[i], x))
    BY <1>1, <1>2, <1>6, SamePlace DEF CompareAndStore, Goto
  <2>3. ret' = [ret EXCEPT ![i] = r]
    BY <1>1, <2>2, CallFacts, Gives DEF Result
  <2> HIDE DEF r
  <2>4. Commits(i, "done", r) /\ Changes(i)
    BY <1>1, <2>2 DEF Commits, Changes, StatusOf, r
  <2>5. QED
    BY <1>1, <1>2, <1>3, <1>4, <2>1, <2>2, <2>3, <2>4, CallStep
<1>7. CASE CompareAndStore(i) /\ x # old[i]
  <2>1. /\ pc' = [pc EXCEPT ![i] = "load"] /\ old' = [old EXCEPT ![i] = old[i]]
        /\ ret' = [ret EXCEPT ![i] = 0] /\ UNCHANGED <<program, x, call, lock>>
        /\ pc[i] = "cas"
    BY <1>1, <1>2, <1>7, SamePlace DEF CompareAndStore, Goto
  <2>2. Stays(i, "load", 0)
    BY <1>1, <2>1 DEF Stays, StatusOf
  <2>3. QED
    BY <1>1, <1>2, <1>3, <1>4, <2>1, <2>2, ZeroValue, CallStep
<1>8. QED
  BY <1>5, <1>6, <1>7

\* The read by a compare-and-store takes effect at once.
LEMMA CasReadStep ==
  ASSUME AtomicInv, Linearizable, NEW i \in Thread, CasRead(i)
  PROVE  AtomicInv' /\ [Atomic!Next]_Cell
<1> DEFINE r == Result(call[i], x)
<1>1. pc[i] = "cas_read" /\ pc[i] # "idle"
  BY DEF CasRead, Goto
<1>2. call[i].op = "rd" /\ call[i].capture = "before"
  BY <1>1, RoutineAt, ShapeFacts
<1>3. r = x /\ Update(call[i], x) = x /\ r \in Value
  BY <1>1, <1>2, ResultType DEF Result, Update
<1>4. /\ pc' = [pc EXCEPT ![i] = "done"] /\ old' = [old EXCEPT ![i] = old[i]]
      /\ UNCHANGED <<program, x, call, lock>> /\ Give(i, x) /\ old[i] \in Value
  BY SamePlace DEF CasRead, Goto, AtomicInv
<1>5. ret' = [ret EXCEPT ![i] = r]
  BY <1>1, <1>2, <1>3, <1>4, Gives
<1> HIDE DEF r
<1>6. Commits(i, "done", r)
  BY <1>1, <1>3, <1>4 DEF Commits, StatusOf, r
<1>7. "done" \in AtomicPC \ {"idle"} /\ "done" \notin InCritical
  BY DEF AtomicPC, InCritical
<1>8. QED
  BY <1>1, <1>3, <1>4, <1>5, <1>6, <1>7, CallStep

\* A max takes effect when its compare-and-store succeeds, or when it finds that
\* the variable is not below its operand: at its first test, if it captures
\* nothing, else when it reads the variable again.
LEMMA MaxStep ==
  ASSUME AtomicInv, Linearizable, NEW i \in Thread,
         TestMax(i) \/ Reread(i) \/ LoadMax(i) \/ CompareAndStoreMax(i)
  PROVE  AtomicInv' /\ [Atomic!Next]_Cell
<1>1. /\ pc[i] \in {"test", "max_load", "max_cas", "reread"} /\ pc[i] # "idle"
      /\ Routine(type, call[i]) = "max_cas" /\ call[i].op = "max"
      /\ ~Locked(type, call[i]) /\ ret[i] = 0
  <2>1. pc[i] \in {"test", "max_load", "max_cas", "reread"} /\ pc[i] # "idle"
    BY DEF TestMax, Reread, LoadMax, CompareAndStoreMax, Goto
  <2>2. Routine(type, call[i]) = "max_cas"
    BY <2>1, RoutineAt
  <2>3. QED
    BY <2>1, <2>2, ShapeFacts DEF AtomicInv, InPlace
<1>2. /\ AtomicType /\ x \in Value /\ old[i] \in Value
      /\ x \in Nat /\ call[i].rhs \in Nat /\ call[i].capture \in {"none", "before", "after"}
      /\ call[i].rhs \in Value
  BY <1>1, CallFacts DEF AtomicInv, Value
<1>3. Places("max_cas") = {"test", "max_load", "max_cas", "reread"}
  BY DEF Places
<1>4. {"max_load", "max_cas", "reread", "done"}
        \subseteq AtomicPC \ ({"idle", "release"} \cup InCritical)
  BY DEF AtomicPC, InCritical
<1>5. ~Torn(i)
  <2>1. call[i] \in CallsOf(program) /\ NoTornTest(program)
    BY <1>1, CallFacts DEF Linearizable, AtomicInv, AtomicType
  <2>2. QED
    BY <1>1, <2>1 DEF NoTornTest, Torn, type
<1>6. call[i].capture = "after" => x <= call[i].rhs
  BY <1>1, CallFacts DEF AtomicInv, NotAbove
<1>7. /\ x < call[i].rhs => Update(call[i], x) = call[i].rhs
      /\ ~(x < call[i].rhs) => Update(call[i], x) = x
  BY <1>1 DEF Update
<1>8. old = [old EXCEPT ![i] = old[i]] /\ ret = [ret EXCEPT ![i] = 0]
  BY <1>1, <1>2, SamePlace
<1>9. CASE TestMax(i) /\ x < call[i].rhs
  <2>1. /\ pc' = [pc EXCEPT ![i] = "max_load"] /\ pc[i] = "test"
        /\ UNCHANGED <<program, x, call, old, ret, lock>>
    BY <1>1, <1>5, <1>9 DEF TestMax, Goto
  <2>2. Stays(i, "max_load", 0)
    BY <1>1, <2>1 DEF Stays, StatusOf
  <2>3. QED
    BY <1>1, <1>2, <1>3, <1>4, <1>8, <2>1, <2>2, ZeroValue, CallStep
<1>10. CASE TestMax(i) /\ ~(x < call[i].rhs) /\ call[i].capture = "none"
  <2>1. /\ pc' = [pc EXCEPT ![i] = "done"] /\ pc[i] = "test"
        /\ UNCHANGED <<program, x, call, old, ret, lock>>
    BY <1>1, <1>5, <1>10 DEF TestMax, Goto
  <2>2. Commits(i, "done", 0)
    BY <1>7, <1>10, <2>1 DEF Commits, StatusOf, Result
  <2>3. QED
    BY <1>1, <1>2, <1>3, <1>4, <1>8, <2>1, <2>2, ZeroValue, CallStep
<1>11. CASE TestMax(i) /\ ~(x < call[i].rhs) /\ call[i].capture # "none"
  <2>1. /\ pc' = [pc EXCEPT ![i] = "reread"] /\ pc[i] = "test"
        /\ UNCHANGED <<program, x, call, old, ret, lock>>
    BY <1>1, <1>5, <1>11 DEF TestMax, Goto
  <2>2. Stays(i, "reread", 0)
    BY <1>1, <2>1 DEF Stays, StatusOf
  <2>3. call[i].rhs <= x
    BY <1>2, <1>11
  <2>4. QED
    BY <1>1, <1>2, <1>3, <1>4, <1>8, <1>11, <2>1, <2>2, <2>3, ZeroValue, CallStep
<1>12. CASE Reread(i)
  <2>1. /\ pc' = [pc EXCEPT ![i] = "done"] /\ pc[i] = "reread"
        /\ UNCHANGED <<program, x, call, old, lock>> /\ Give(i, x)
    BY <1>12 DEF Reread, Goto
  <2>2. call[i].capture # "none" /\ ~(x < call[i].rhs)
    <3>1. call[i].capture # "none" /\ call[i].rhs <= x
      BY <2>1 DEF AtomicInv, KnowsMax
    <3>2. QED
      BY <1>2, <3>1
  <2>3. ret' = [ret EXCEPT ![i] = x]
    BY <1>1, <1>2, <2>1, <2>2, Gives
  <2>4. Commits(i, "done", x)
    BY <1>2, <1>7, <2>1, <2>2 DEF Commits, StatusOf, Result
  <2>5. QED
    BY <1>1, <1>2, <1>3, <1>4, <1>8, <2>1, <2>3, <2>4, CallStep
<1>13. CASE LoadMax(i) /\ x < call[i].rhs
  <2>1. /\ pc' = [pc EXCEPT ![i] = "max_cas"] /\ pc[i] = "max_load"
        /\ old' = [old EXCEPT ![i] = x]
        /\ UNCHANGED <<program, x, call, ret, lock>>
    BY <1>13 DEF LoadMax, Goto
  <2>2. Stays(i, "max_cas", 0)
    BY <1>1, <2>1 DEF Stays, StatusOf
  <2>3. QED
    BY <1>1, <1>2, <1>3, <1>4, <1>8, <1>13, <2>1, <2>2, ZeroValue, CallStep
<1>14. CASE LoadMax(i) /\ ~(x < call[i].rhs)
  <2> DEFINE r == Result(call[i], x)
  <2>1. /\ pc' = [pc EXCEPT ![i] = "done"] /\ pc[i] = "max_load"
        /\ old' = [old EXCEPT ![i] = x]
        /\ UNCHANGED <<program, x, call, lock>> /\ GiveOf(i, x, call[i].rhs)
    BY <1>14 DEF LoadMax, Goto
  <2>2. call[i].capture = "after" => call[i].rhs = x
    BY <1>2, <1>6, <1>14
  <2>3. ret' = [ret EXCEPT ![i] = r]
    BY <1>1, <1>2, <1>7, <1>14, <2>1, <2>2, Gives DEF Result
  <2>4. r \in Value
    BY <1>1, ResultType
  <2> HIDE DEF r
  <2>5. Commits(i, "done", r)
    BY <1>7, <1>14, <2>1 DEF Commits, StatusOf, r
  <2>6. QED
    BY <1>1, <1>2, <1>3, <1>4, <2>1, <2>3, <2>4, <2>5, CallStep
<1>15. CASE CompareAndStoreMax(i) /\ x = old[i]
  <2> DEFINE r == Result(call[i], x)
  <2>1. /\ pc' = [pc EXCEPT ![i] = "done"] /\ pc[i] = "max_cas" /\ x' = call[i].rhs
        /\ UNCHANGED <<program, call, old, lock>> /\ GiveOf(i, x, call[i].rhs)
    BY <1>15 DEF CompareAndStoreMax, Goto
  <2>2. x < call[i].rhs
    BY <1>15, <2>1 DEF AtomicInv, KnowsMax
  <2>3. ret' = [ret EXCEPT ![i] = r]
    BY <1>1, <1>2, <1>7, <2>1, <2>2, Gives DEF Result
  <2>4. r \in Value
    BY <1>1, ResultType
  <2> HIDE DEF r
  <2>5. Commits(i, "done", r) /\ Changes(i)
    BY <1>1, <1>7, <2>1, <2>2 DEF Commits, Changes, StatusOf, r
  <2>6. QED
    BY <1>1, <1>2, <1>3, <1>4, <1>8, <2>1, <2>3, <2>4, <2>5, CallStep
<1>16. CASE CompareAndStoreMax(i) /\ x # old[i]
  <2>1. /\ pc' = [pc EXCEPT ![i] = "max_load"] /\ pc[i] = "max_cas"
        /\ UNCHANGED <<program, x, call, old, ret, lock>>
    BY <1>16 DEF CompareAndStoreMax, Goto
  <2>2. Stays(i, "max_load", 0)
    BY <1>1, <2>1 DEF Stays, StatusOf
  <2>3. QED
    BY <1>1, <1>2, <1>3, <1>4, <1>8, <2>1, <2>2, ZeroValue, CallStep
<1>17. QED
  BY <1>9, <1>10, <1>11, <1>12, <1>13, <1>14, <1>15, <1>16

\* A routine with a lock takes effect at the store of its critical section.
LEMMA LockStep ==
  ASSUME AtomicInv, Linearizable, NEW i \in Thread,
         Acquire(i) \/ CriticalLoad(i) \/ CriticalStore(i) \/ Release(i)
  PROVE  AtomicInv' /\ [Atomic!Next]_Cell
<1>1. pc[i] \in {"acquire"} \cup InCritical /\ pc[i] # "idle" /\ pc[i] # "done"
  BY DEF Acquire, CriticalLoad, CriticalStore, Release, Goto, InCritical
<1>2. /\ Routine(type, call[i]) = "lock" /\ call[i].op # "max"
      /\ pc[i] # "release" => ret[i] = 0
  BY <1>1, RoutineAt, ShapeFacts DEF AtomicInv, InPlace
<1>3. /\ AtomicType /\ x \in Value /\ old[i] \in Value /\ ret[i] \in Value
      /\ old = [old EXCEPT ![i] = old[i]] /\ ret = [ret EXCEPT ![i] = ret[i]]
      /\ lock \in [Lock -> Thread \cup {NoCall}] /\ My(i) \in Lock
  BY <1>1, CallFacts, SamePlace, MyType DEF AtomicInv, AtomicType
<1>4. Places("lock") = {"acquire", "critical_load", "critical_store", "release"}
  BY DEF Places, InCritical
<1>5. /\ {"critical_load", "critical_store", "release", "done"} \subseteq AtomicPC \ {"idle"}
      /\ InCritical = {"critical_load", "critical_store", "release"}
  BY DEF AtomicPC, InCritical
<1>6. pc[i] \in InCritical => lock[My(i)] = i
  BY DEF AtomicInv, HoldsLock
<1>7. CASE Acquire(i)
  <2>1. /\ pc' = [pc EXCEPT ![i] = "critical_load"] /\ pc[i] = "acquire"
        /\ UNCHANGED <<program, x, call, old, ret>>
        /\ lock[My(i)] = NoCall /\ lock' = [lock EXCEPT ![My(i)] = i]
    BY <1>7 DEF Acquire, Goto
  <2>2. MovesLock(i) /\ lock'[My(i)] = i
    BY <1>3, <2>1 DEF MovesLock
  <2>3. Stays(i, "critical_load", ret[i])
    BY <2>1 DEF Stays, StatusOf
  <2>4. ret[i] = 0
    BY <1>2, <2>1
  <2>5. QED
    BY <1>1, <1>2, <1>3, <1>4, <1>5, <2>1, <2>2, <2>3, <2>4, CallStep
<1>8. CASE CriticalLoad(i)
  <2>1. /\ pc' = [pc EXCEPT ![i] = "critical_store"] /\ pc[i] = "critical_load"
        /\ old' = [old EXCEPT ![i] = x] /\ UNCHANGED <<program, x, call, ret, lock>>
    BY <1>8 DEF CriticalLoad, Goto
  <2>2. Stays(i, "critical_store", ret[i])
    BY <2>1 DEF Stays, StatusOf
  <2>3. ret[i] = 0 /\ lock'[My(i)] = i
    BY <1>2, <1>5, <1>6, <2>1
  <2>4. QED
    BY <1>1, <1>2, <1>3, <1>4, <1>5, <2>1, <2>2, <2>3, CallStep
<1>9. CASE CriticalStore(i)
  <2> DEFINE r == Result(call[i], x)
  <2>1. old[i] = x /\ pc[i] = "critical_store"
    BY <1>9 DEF CriticalStore, Goto, AtomicInv, HoldsLock
  <2>2. /\ pc' = [pc EXCEPT ![i] = "release"] /\ UNCHANGED <<program, call, old, lock>>
        /\ x' = Update(call[i], x) /\ GiveOf(i, x, Update(call[i], x))
    BY <1>2, <1>9, <2>1 DEF CriticalStore, Goto, Update
  <2>3. ret' = [ret EXCEPT ![i] = r]
    BY <1>1, <2>2, CallFacts, Gives DEF Result
  <2>4. r \in Value
    BY <1>1, ResultType
  <2> HIDE DEF r
  <2>5. Commits(i, "release", r) /\ Changes(i)
    BY <1>1, <2>1, <2>2 DEF Commits, Changes, StatusOf, r
  <2>6. lock'[My(i)] = i
    BY <1>5, <1>6, <2>1, <2>2
  <2>7. QED
    BY <1>1, <1>2, <1>3, <1>4, <1>5, <2>2, <2>3, <2>4, <2>5, <2>6, CallStep
<1>10. CASE Release(i)
  <2>1. /\ pc' = [pc EXCEPT ![i] = "done"] /\ pc[i] = "release"
        /\ UNCHANGED <<program, x, call, old, ret>>
        /\ lock' = [lock EXCEPT ![My(i)] = NoCall]
    BY <1>10 DEF Release, Goto
  <2>2. MovesLock(i)
    BY <1>5, <1>6, <2>1 DEF MovesLock
  <2>3. Stays(i, "done", ret[i])
    BY <2>1 DEF Stays, StatusOf
  <2>4. "done" \notin InCritical
    BY <1>5
  <2>5. QED
    BY <1>1, <1>2, <1>3, <1>4, <1>5, <2>1, <2>2, <2>3, <2>4, CallStep
<1>11. QED
  BY <1>7, <1>8, <1>9, <1>10

-----------------------------------------------------------------------------
(* Calls and returns.                                                      *)

\* A thread calls one of the routines of the program.
LEMMA EnterStep ==
  ASSUME AtomicInv, Linearizable, NEW i \in Thread, Enter(i)
  PROVE  AtomicInv' /\ [Atomic!Next]_Cell
<1>1. PICK c \in program.calls :
        /\ Exists(type, c)
        /\ Goto(i, "idle", FirstStep(Routine(type, c)))
        /\ call' = [call EXCEPT ![i] = c]
  BY DEF Enter
<1>2. UNCHANGED <<program, x, old, ret, lock>> /\ AtomicType
  BY DEF Enter, AtomicInv
<1>3. c \in CallsOf(program) /\ c \in Call /\ program \in Programs /\ NoTornTest(program)
  BY <1>1, <1>2, ProgramsAssumption DEF CallsOf, type, AtomicType, Linearizable
<1> DEFINE routine == Routine(type, c)
           p == FirstStep(routine)
<1>4. routine \in {"xadd", "xchg", "cas", "cas_read", "max_cas", "lock"}
  BY <1>3, RoutineFacts DEF type
<1> HIDE DEF routine
<1>5. p \in {"xadd", "xchg", "load", "cas_read", "test", "acquire"} /\ p \in Places(routine)
  BY <1>4 DEF FirstStep, Places
<1>6. pc[i] = "idle" /\ pc' = [pc EXCEPT ![i] = p]
  BY <1>1 DEF Goto, routine
<1> HIDE DEF p
<1>7. p \in AtomicPC \ ({"idle", "release", "done", "critical_store", "max_cas", "reread"}
                        \cup InCritical) /\ StatusOf(p) = "called"
  BY <1>5 DEF AtomicPC, InCritical, StatusOf
<1>8. pc'[i] = p /\ call'[i] = c
      /\ \A j \in Thread \ {i} : pc'[j] = pc[j] /\ call'[j] = call[j]
  BY <1>1, <1>2, <1>6 DEF AtomicType
<1>9. /\ \A j \in Thread \ {i} : InPlace(j)' /\ HoldsLock(j)' /\ KnowsMax(j)'
      /\ NotAbove'
  BY <1>2, <1>8, OthersKeep
<1>10. ret'[i] = 0
  BY <1>2, <1>6 DEF AtomicInv, InPlace
<1>11. InPlace(i)'
  BY <1>2, <1>3, <1>5, <1>7, <1>8, <1>10 DEF InPlace, routine, type, CallsOf
<1>12. HoldsLock(i)' /\ KnowsMax(i)'
  BY <1>7, <1>8 DEF HoldsLock, KnowsMax, InCritical
<1>13. AtomicType'
  BY <1>1, <1>2, <1>3, <1>6, <1>7 DEF AtomicType
<1>14. Status[i] = "idle" /\ Status' = [Status EXCEPT ![i] = "called"]
  BY <1>2, <1>6, <1>7, StatusStep DEF StatusOf
<1>15. Atomic!Invoke(i, c) /\ c \in Atomic!Call
  BY <1>1, <1>2, <1>3, <1>14, SameCalls DEF Atomic!Invoke
<1>16. QED
  BY <1>9, <1>11, <1>12, <1>13, <1>15 DEF AtomicInv, Atomic!Next

\* A routine returns.
LEMMA ReturnStep ==
  ASSUME AtomicInv, Linearizable, NEW i \in Thread, Return(i)
  PROVE  AtomicInv' /\ [Atomic!Next]_Cell
<1>1. /\ pc[i] = "done" /\ pc' = [pc EXCEPT ![i] = "idle"]
      /\ call' = [call EXCEPT ![i] = NoCall]
      /\ old' = [old EXCEPT ![i] = 0] /\ ret' = [ret EXCEPT ![i] = 0]
      /\ UNCHANGED <<program, x, lock>> /\ AtomicType
  BY DEF Return, Goto, AtomicInv
<1>2. /\ pc'[i] = "idle" /\ call'[i] = NoCall /\ ret'[i] = 0
      /\ \A j \in Thread \ {i} : /\ pc'[j] = pc[j] /\ call'[j] = call[j]
                                 /\ old'[j] = old[j] /\ ret'[j] = ret[j]
  BY <1>1 DEF AtomicType
<1>3. /\ \A j \in Thread \ {i} : InPlace(j)' /\ HoldsLock(j)' /\ KnowsMax(j)'
      /\ NotAbove'
  BY <1>1, <1>2, OthersKeep
<1>4. InPlace(i)' /\ HoldsLock(i)' /\ KnowsMax(i)'
  BY <1>2 DEF InPlace, HoldsLock, KnowsMax, InCritical
<1>5. AtomicType'
  <2>1. pc' \in [Thread -> AtomicPC]
    BY <1>1 DEF AtomicType, AtomicPC
  <2>2. QED
    BY <1>1, <2>1, ZeroValue DEF AtomicType
<1>6. Status[i] = "committed" /\ Status' = [Status EXCEPT ![i] = "idle"]
  BY <1>1, StatusStep DEF StatusOf
<1>7. Atomic!Return(i)
  BY <1>1, <1>6 DEF Atomic!Return
<1>8. QED
  BY <1>3, <1>4, <1>5, <1>7 DEF AtomicInv, Atomic!Next

-----------------------------------------------------------------------------
(* The theorems.                                                           *)

\* The invariant holds at first.
LEMMA InitAtomic == Init => AtomicInv /\ Atomic!Init
<1> SUFFICES ASSUME Init PROVE AtomicInv /\ Atomic!Init
  OBVIOUS
<1>1. AtomicType
  BY ZeroValue DEF Init, AtomicType, AtomicPC
<1>2. NotAbove
  <2> SUFFICES ASSUME NEW c \in CallsOf(program) PROVE 0 <= c.rhs
    BY DEF Init, NotAbove
  <2>1. c.rhs \in Value
    BY ProgramsAssumption DEF Init, CallsOf, Call
  <2>2. QED
    BY <2>1 DEF Value
<1>3. \A i \in Thread : InPlace(i) /\ HoldsLock(i) /\ KnowsMax(i)
  BY DEF Init, InPlace, HoldsLock, KnowsMax, InCritical
<1>4. Atomic!Init
  BY DEF Init, Atomic!Init, Status, StatusOf
<1>5. QED
  BY <1>1, <1>2, <1>3, <1>4 DEF AtomicInv

\* Every step keeps the invariant and is a step of AtomicCell or none.
LEMMA StepRefines ==
  ASSUME AtomicInv, Linearizable, [Next]_vars
  PROVE  AtomicInv' /\ [Atomic!Next]_Cell
<1>1. CASE Next
  <2>1. PICK i \in Thread : Enter(i) \/ Step(i)
    BY <1>1 DEF Next
  <2>2. QED
    BY <2>1, EnterStep, FetchAddStep, CasStep, CasReadStep, MaxStep, LockStep, ReturnStep
       DEF Step
<1>2. CASE UNCHANGED vars
  <2>1. AtomicType' /\ NotAbove'
    BY <1>2 DEF vars, AtomicInv, AtomicType, NotAbove, CallsOf
  <2>2. \A i \in Thread : InPlace(i)' /\ HoldsLock(i)' /\ KnowsMax(i)'
    BY <1>2 DEF vars, AtomicInv, InPlace, HoldsLock, KnowsMax, CallsOf, My, type
  <2>3. UNCHANGED Cell
    BY <1>2 DEF vars, Cell, Status
  <2>4. QED
    BY <2>1, <2>2, <2>3 DEF AtomicInv
<1>3. QED
  BY <1>1, <1>2

\* The locks of kmp_atomic.cpp keep their critical sections apart, and the
\* places of the threads agree with the tables: see AtomicInv.
THEOREM AtomicInvariant ==
  ASSUME Linearizable
  PROVE  Spec => []AtomicInv
<1>1. AtomicInv /\ [Next]_vars => AtomicInv'
  BY StepRefines
<1>2. Init => AtomicInv
  BY InitAtomic
<1>3. QED
  BY <1>1, <1>2, PTL DEF Spec

\* Every __kmpc_atomic_ routine takes effect in one step between its call and
\* its return, on the value that is there, and returns what it found or left,
\* whatever shapes the tables give the calls that threads mix.
THEOREM AtomicLinearizes ==
  ASSUME Linearizable
  PROVE  Spec => Linearizes
<1>1. Init => Atomic!Init
  BY InitAtomic
<1>2. AtomicInv /\ [Next]_vars => [Atomic!Next]_Cell
  BY StepRefines
<1>3. Init => AtomicInv
  BY InitAtomic
<1>4. AtomicInv /\ [Next]_vars => AtomicInv'
  BY StepRefines
<1>5. Spec => Atomic!Init /\ [][Atomic!Next]_Cell
  BY <1>1, <1>2, <1>3, <1>4, PTL DEF Spec
<1>6. QED
  BY <1>5 DEF Linearizes, Atomic!Spec, Cell
=============================================================================
