------------------------- MODULE ThreadPrivateProofs -------------------------
(***************************************************************************)
(* Theorems about ThreadPrivate for any number of teams, threads and calls *)
(* when teams run one after the other and none is larger than one before   *)
(* it: the cache fits, and each thread number keeps a copy of its own.     *)
(***************************************************************************)
EXTENDS ThreadPrivate, TLAPS

\* A team has at least one thread and at most MaxThreads.
LEMMA NumberFacts ==
  ASSUME CacheType
  PROVE  \A k \in Team :
           num_threads[k] \in 1..MaxThreads /\ Number(k) \subseteq Tid /\ 0 \in Number(k)
BY SizesAssumption, BoundsAssumption DEF CacheType, Number, Tid, Team

\* While a thread of one team is in a call, no thread of another team is.
LEMMA OneTeam ==
  ASSUME OrderInv, NEW j \in Team, NEW k \in Team, NEW t \in Tid, NEW u \in Tid,
         pc[j][t] \notin {"none", "end"}, pc[k][u] \notin {"none", "end"}
  PROVE  j = k
<1>1. ~(j < k)
  BY DEF OrderInv, Ended
<1>2. ~(k < j)
  BY DEF OrderInv, Ended
<1>3. QED
  BY <1>1, <1>2 DEF Team

\* The invariant holds at first.
LEMMA InitCacheInv == Init => CacheInv
<1> SUFFICES ASSUME Init PROVE CacheInv
  OBVIOUS
<1>1. CacheType
  BY DEF Init, CacheType, PC
<1>2. LockInv
  BY NoneAssumption DEF Init, LockInv, Tid
<1>3. QED
  BY <1>1, <1>2 DEF Init, CacheInv, OrderInv, ArrayInv, SlotInv, CopyFilled

\* A team begins, and a thread comes to a call or to its end.
LEMMA ProgramStep ==
  ASSUME CacheInv, ~Together, NEW k \in Team,
         Begin(k) \/ \E t \in Tid : Call(k, t) \/ Leave(k, t)
  PROVE  CacheInv'
<1>1. CASE Begin(k)
  <2>1. /\ pc' = [pc EXCEPT ![k] = [t \in Tid |-> IF t \in Number(k) THEN "body" ELSE "none"]]
        /\ \A t \in Tid : pc[k][t] = "none"
        /\ UNCHANGED <<num_threads, thread_mtx, cache, slot, last_copy, copied, given>>
    BY <1>1 DEF Begin, threadVars, copyVars
  <2>2. \A j \in Team, t \in Tid :
          pc'[j][t] = IF j = k /\ t \in Number(k) THEN "body" ELSE pc[j][t]
    BY <2>1, NumberFacts DEF CacheInv, CacheType
  <2>3. CacheType'
    BY <2>1, <2>2 DEF CacheInv, CacheType, PC
  <2>4. \A j \in Team : j # k => (Ended(j) <=> Ended(j)')
    BY <2>1, <2>2, NumberFacts DEF CacheInv, Ended, Number
  <2>5. \A j \in Team : j < k => Ended(j)
    BY <1>1 DEF Begin
  <2>6. \A j \in Team, t \in Tid : pc[j][t] # "none" => ~(k < j)
    <3>1. ~Ended(k)
      BY <2>1, NumberFacts DEF CacheInv, Ended
    <3>2. QED
      BY <3>1 DEF CacheInv, OrderInv
  <2>7. OrderInv'
    BY <2>1, <2>2, <2>4, <2>5, <2>6 DEF CacheInv, OrderInv, Number, Team
  <2>8. LockInv' /\ ArrayInv' /\ SlotInv' /\ CopyFilled'
    BY <2>1, <2>2 DEF CacheInv, LockInv, ArrayInv, SlotInv, CopyFilled, Number
  <2>9. QED
    BY <2>3, <2>7, <2>8 DEF CacheInv
<1>2. ASSUME NEW t \in Tid, Call(k, t) \/ Leave(k, t) PROVE CacheInv'
  <2>1. /\ pc[k][t] = "body"
        /\ \E to \in {"test", "end"} : pc' = [pc EXCEPT ![k][t] = to]
        /\ UNCHANGED <<num_threads, thread_mtx, cache, slot, last_copy, copied, given>>
    BY <1>2 DEF Call, Leave, Goto, threadVars, copyVars
  <2>2. QED
    BY <2>1 DEF CacheInv, CacheType, OrderInv, Ended, LockInv, ArrayInv, SlotInv,
                CopyFilled, Number, PC, InCall
<1>3. QED
  BY <1>1, <1>2

\* A step of one thread of team k inside a call moves only its own pc.
Moves(k, t, from, to) ==
  /\ pc[k][t] = from
  /\ pc' = [pc EXCEPT ![k][t] = to]
  /\ UNCHANGED num_threads

\* Such a step keeps the order of the teams.
LEMMA MoveOrder ==
  ASSUME CacheType, OrderInv, NEW k \in Team, NEW t \in Tid,
         NEW from \in InCall, NEW to \in InCall \cup {"body"}, Moves(k, t, from, to)
  PROVE  /\ OrderInv'
         /\ pc' \in [Team -> [Tid -> PC]]
         /\ \A j \in Team, u \in Tid :
              pc'[j][u] = IF j = k /\ u = t THEN to ELSE pc[j][u]
<1>1. pc' \in [Team -> [Tid -> PC]]
  BY DEF CacheType, Moves, PC
<1>2. \A j \in Team, u \in Tid :
        pc'[j][u] = IF j = k /\ u = t THEN to ELSE pc[j][u]
  BY DEF CacheType, Moves
<1>3. pc[k][t] \notin {"none", "end"} /\ to \notin {"none", "end"}
  BY DEF Moves, InCall
<1>4. \A j \in Team : Number(j)' = Number(j) /\ Number(j) \subseteq Tid
  BY NumberFacts DEF Moves, Number
<1>5. \A j \in Team : Ended(j) => Ended(j)'
  BY <1>2, <1>3, <1>4 DEF Ended
<1>6. OrderInv'
  BY <1>2, <1>3, <1>4, <1>5 DEF OrderInv
<1>7. QED
  BY <1>1, <1>2, <1>6

\* The tests, and the lock.
LEMMA TestStep ==
  ASSUME CacheInv, NEW k \in Team, NEW t \in Tid,
         Test(k, t) \/ Lock(k, t) \/ Recheck(k, t) \/ Unlock(k, t) \/ TestSlot(k, t)
  PROVE  CacheInv'
<1> USE DEF CacheInv
<1>1. ASSUME NEW from \in InCall, NEW to \in InCall \cup {"body"}, Moves(k, t, from, to)
      PROVE  /\ OrderInv'
             /\ pc' \in [Team -> [Tid -> PC]]
             /\ \A j \in Team, u \in Tid :
                  pc'[j][u] = IF j = k /\ u = t THEN to ELSE pc[j][u]
             /\ \A j \in Team : Number(j)' = Number(j)
             /\ pc[k][t] = from
  BY <1>1, MoveOrder DEF Moves, Number
<1>2. CASE Test(k, t)
  <2>1. PICK to \in {"lock", "slot"} :
          Moves(k, t, "test", to) /\ (to = "slot" => cache # {})
    BY <1>2 DEF Test, Goto, IsNull, Moves, threadVars
  <2>2. UNCHANGED <<num_threads, thread_mtx, cache, slot, last_copy, copied, given>>
    BY <1>2 DEF Test, threadVars, copyVars
  <2>3. /\ OrderInv' /\ pc' \in [Team -> [Tid -> PC]] /\ pc[k][t] = "test"
        /\ \A j \in Team, u \in Tid :
             pc'[j][u] = IF j = k /\ u = t THEN to ELSE pc[j][u]
        /\ \A j \in Team : Number(j)' = Number(j)
    BY <1>1, <2>1 DEF InCall
  <2>4. CacheType'
    BY <2>3, <2>1, <2>2 DEF CacheType
  <2>5. LockInv'
    BY <2>3, <2>1, <2>2 DEF LockInv
  <2>6. ArrayInv'
    BY <2>3, <2>1, <2>2 DEF ArrayInv
  <2>7. SlotInv' /\ CopyFilled'
    BY <2>3, <2>1, <2>2 DEF SlotInv, CopyFilled, CacheType
  <2>8. QED
    BY <2>3, <2>4, <2>5, <2>6, <2>7
<1>3. CASE Lock(k, t)
  <2>1. Moves(k, t, "lock", "recheck") /\ thread_mtx[k] = None
    BY <1>3 DEF Lock, Goto, Moves, threadVars
  <2>2. /\ thread_mtx' = [thread_mtx EXCEPT ![k] = t]
        /\ UNCHANGED <<num_threads, cache, slot, last_copy, copied, given>>
    BY <1>3 DEF Lock, threadVars, copyVars
  <2>3. QED
    BY <1>1, <2>1, <2>2, NoneAssumption
       DEF CacheType, LockInv, ArrayInv, SlotInv, CopyFilled, InCall, Tid
<1>4. CASE Recheck(k, t)
  <2>1. PICK to \in {"alloc", "unlock"} :
          Moves(k, t, "recheck", to) /\ (to = "alloc" <=> cache = {})
    BY <1>4 DEF Recheck, Goto, IsNull, Moves, threadVars
  <2>2. UNCHANGED <<num_threads, thread_mtx, cache, slot, last_copy, copied, given>>
    BY <1>4 DEF Recheck, threadVars, copyVars
  <2>3. /\ OrderInv' /\ pc' \in [Team -> [Tid -> PC]] /\ pc[k][t] = "recheck"
        /\ \A j \in Team, u \in Tid :
             pc'[j][u] = IF j = k /\ u = t THEN to ELSE pc[j][u]
        /\ \A j \in Team : Number(j)' = Number(j)
    BY <1>1, <2>1 DEF InCall
  <2>4. CacheType'
    BY <2>3, <2>1, <2>2 DEF CacheType
  <2>5. LockInv'
    BY <2>3, <2>1, <2>2 DEF LockInv
  <2>6. ArrayInv'
    BY <2>3, <2>1, <2>2 DEF ArrayInv
  <2>7. SlotInv' /\ CopyFilled'
    BY <2>3, <2>1, <2>2 DEF SlotInv, CopyFilled, CacheType
  <2>8. QED
    BY <2>3, <2>4, <2>5, <2>6, <2>7
<1>5. CASE Unlock(k, t)
  <2>1. Moves(k, t, "unlock", "slot")
    BY <1>5 DEF Unlock, Goto, Moves, threadVars
  <2>2. /\ thread_mtx' = [thread_mtx EXCEPT ![k] = None]
        /\ UNCHANGED <<num_threads, cache, slot, last_copy, copied, given>>
    BY <1>5 DEF Unlock, threadVars, copyVars
  <2>3. QED
    BY <1>1, <2>1, <2>2, NoneAssumption
       DEF CacheType, LockInv, ArrayInv, SlotInv, CopyFilled, InCall, Tid
<1>6. CASE TestSlot(k, t)
  <2>1. PICK to \in {"new", "return"} :
          Moves(k, t, "slot", to) /\ (to = "new" <=> slot[t] = 0)
    BY <1>6 DEF TestSlot, Goto, Moves, threadVars
  <2>2. UNCHANGED <<num_threads, thread_mtx, cache, slot, last_copy, copied, given>>
    BY <1>6 DEF TestSlot, threadVars, copyVars
  <2>3. \A j \in Team : pc[j][t] # "copy"
    BY <2>1, OneTeam DEF Moves
  <2>4. /\ OrderInv' /\ pc' \in [Team -> [Tid -> PC]] /\ pc[k][t] = "slot"
        /\ \A j \in Team, u \in Tid :
             pc'[j][u] = IF j = k /\ u = t THEN to ELSE pc[j][u]
        /\ \A j \in Team : Number(j)' = Number(j)
    BY <1>1, <2>1 DEF InCall
  <2>5. CacheType'
    BY <2>4, <2>1, <2>2 DEF CacheType
  <2>6. LockInv'
    BY <2>4, <2>1, <2>2 DEF LockInv
  <2>7. ArrayInv'
    BY <2>4, <2>1, <2>2 DEF ArrayInv
  <2>8. SlotInv' /\ CopyFilled'
    BY <2>4, <2>1, <2>2, <2>3 DEF SlotInv, CopyFilled, CacheType
  <2>9. QED
    BY <2>4, <2>5, <2>6, <2>7, <2>8
<1>7. QED
  BY <1>2, <1>3, <1>4, <1>5, <1>6

\* The steps that write the array, a slot or a copy, and the return.
LEMMA WriteStep ==
  ASSUME CacheInv, NEW k \in Team, NEW t \in Tid,
         Allocate(k, t) \/ NewCopy(k, t) \/ FillCopy(k, t) \/ Return(k, t)
  PROVE  CacheInv'
<1> USE DEF CacheInv
<1>1. ASSUME NEW from \in InCall, NEW to \in InCall \cup {"body"}, Moves(k, t, from, to)
      PROVE  /\ OrderInv'
             /\ pc' \in [Team -> [Tid -> PC]]
             /\ \A j \in Team, u \in Tid :
                  pc'[j][u] = IF j = k /\ u = t THEN to ELSE pc[j][u]
             /\ \A j \in Team : Number(j)' = Number(j)
             /\ pc[k][t] = from
  BY <1>1, MoveOrder DEF Moves, Number
<1>2. CASE Allocate(k, t)
  <2>1. Moves(k, t, "alloc", "unlock")
    BY <1>2 DEF Allocate, Goto, Moves, threadVars
  <2>2. /\ cache' = Number(k)
        /\ slot' = [u \in Tid |-> 0]
        /\ UNCHANGED <<num_threads, thread_mtx, last_copy, copied, given>>
    BY <1>2 DEF Allocate, threadVars
  <2>3. cache = {} /\ slot = slot'
    BY <1>1, <2>1, <2>2 DEF LockInv, SlotInv, CacheType, InCall
  <2>4. Number(k) # {} /\ Number(k) \subseteq Tid
    BY NumberFacts
  <2>5. \A j \in Team, u \in Tid : pc[j][u] = "alloc" => j = k /\ u = t
    BY <1>1, <2>1, OneTeam, NoneAssumption DEF LockInv, InCall
  <2>6. LockInv'
    BY <1>1, <2>1, <2>2, <2>4, <2>5 DEF LockInv, InCall
  <2>7. ArrayInv'
    BY <1>1, <2>1, <2>2 DEF ArrayInv, InCall
  <2>8. CacheType' /\ SlotInv' /\ CopyFilled'
    BY <1>1, <2>1, <2>2, <2>3, <2>4 DEF CacheType, SlotInv, CopyFilled, InCall
  <2>9. QED
    BY <1>1, <2>1, <2>6, <2>7, <2>8 DEF InCall
<1>3. CASE NewCopy(k, t)
  <2>1. Moves(k, t, "new", "copy")
    BY <1>3 DEF NewCopy, Goto, Moves, threadVars
  <2>2. /\ last_copy' = last_copy + 1
        /\ slot' = [slot EXCEPT ![t] = last_copy + 1]
        /\ UNCHANGED <<num_threads, thread_mtx, cache, copied, given>>
    BY <1>3 DEF NewCopy, threadVars
  <2>3. slot[t] = 0 /\ given[t] = {} /\ cache # {}
    BY <1>1, <2>1 DEF SlotInv, CacheType, LockInv, InCall
  <2>4. \A j \in Team : j # k => pc[j][t] \notin InCall
    BY <1>1, <2>1, OneTeam DEF InCall
  <2>5. CacheType'
    BY <1>1, <2>1, <2>2 DEF CacheType, InCall
  <2>6. LockInv' /\ ArrayInv' /\ CopyFilled'
    BY <1>1, <2>1, <2>2, <2>3 DEF LockInv, ArrayInv, CopyFilled, InCall
  <2>7. SlotInv'
    BY <1>1, <2>1, <2>2, <2>3, <2>4 DEF SlotInv, CacheType, InCall
  <2>8. QED
    BY <1>1, <2>1, <2>5, <2>6, <2>7 DEF InCall
<1>4. CASE FillCopy(k, t)
  <2>1. Moves(k, t, "copy", "return")
    BY <1>4 DEF FillCopy, Goto, Moves, threadVars
  <2>2. /\ copied' = copied \cup {slot[t]}
        /\ UNCHANGED <<num_threads, thread_mtx, cache, slot, last_copy, given>>
    BY <1>4 DEF FillCopy, threadVars
  <2>3. slot[t] # 0
    BY <1>1, <2>1 DEF SlotInv, InCall
  <2>4. /\ OrderInv' /\ pc' \in [Team -> [Tid -> PC]] /\ pc[k][t] = "copy"
        /\ \A j \in Team, u \in Tid :
             pc'[j][u] = IF j = k /\ u = t THEN "return" ELSE pc[j][u]
        /\ \A j \in Team : Number(j)' = Number(j)
    BY <1>1, <2>1 DEF InCall
  <2>5. CacheType'
    <3>1. slot[t] \in 1..last_copy
      BY <2>3 DEF CacheType
    <3>2. copied' \in SUBSET (1..last_copy)
      BY <3>1, <2>2 DEF CacheType
    <3>3. QED
      BY <2>4, <2>2, <3>2 DEF CacheType
  <2>6. LockInv'
    BY <2>4, <2>2 DEF LockInv
  <2>7. ArrayInv'
    BY <2>4, <2>2 DEF ArrayInv
  <2>8. \A u \in Tid : slot'[u] = slot[u] /\ given'[u] = given[u]
    BY <2>2
  <2>9. slot[t] \in copied' /\ copied \subseteq copied'
    BY <2>2
  <2>10. \A u \in Tid :
           slot[u] \in copied' \cup {0} \/ \E j \in Team : pc'[j][u] = "copy"
    BY <2>4, <2>9 DEF SlotInv
  <2>11. SlotInv' /\ CopyFilled'
    BY <2>4, <2>2, <2>8, <2>9, <2>10 DEF SlotInv, CopyFilled
  <2>12. QED
    BY <2>4, <2>5, <2>6, <2>7, <2>11
<1>5. CASE Return(k, t)
  <2>1. Moves(k, t, "return", "body")
    BY <1>5 DEF Return, Goto, Moves, threadVars
  <2>2. /\ given' = [given EXCEPT ![t] = @ \cup {slot[t]}]
        /\ UNCHANGED <<num_threads, thread_mtx, cache, slot, last_copy, copied>>
    BY <1>5 DEF Return, threadVars, copyVars
  <2>3. slot[t] \in copied
    BY <1>1, <2>1 DEF SlotInv, InCall
  <2>4. /\ OrderInv' /\ pc' \in [Team -> [Tid -> PC]] /\ pc[k][t] = "return"
        /\ \A j \in Team, u \in Tid :
             pc'[j][u] = IF j = k /\ u = t THEN "body" ELSE pc[j][u]
        /\ \A j \in Team : Number(j)' = Number(j)
    BY <1>1, <2>1 DEF InCall
  <2>5. CacheType'
    <3>1. slot[t] \in 1..last_copy
      BY <2>3 DEF CacheType
    <3>2. given' \in [Tid -> SUBSET (1..last_copy)]
      BY <3>1, <2>2 DEF CacheType
    <3>3. QED
      BY <2>4, <2>2, <3>2 DEF CacheType
  <2>6. LockInv'
    BY <2>4, <2>2 DEF LockInv
  <2>7. ArrayInv'
    BY <2>4, <2>2 DEF ArrayInv
  <2>8. \A u \in Tid :
          given'[u] = IF u = t THEN given[t] \cup {slot[t]} ELSE given[u]
    BY <2>2 DEF CacheType
  <2>9. UNCHANGED <<cache, slot, copied>>
    BY <2>2
  <2>10. SlotInv' /\ CopyFilled'
    BY <2>3, <2>4, <2>8, <2>9 DEF SlotInv, CopyFilled
  <2>11. QED
    BY <2>4, <2>5, <2>6, <2>7, <2>10
<1>6. QED
  BY <1>2, <1>3, <1>4, <1>5

\* The lock, the array and the slots keep their invariant: see CacheInv.
THEOREM CacheInvariant ==
  ASSUME ~Together
  PROVE  Spec => []CacheInv
<1>1. CacheInv /\ [Next]_vars => CacheInv'
  <2> SUFFICES ASSUME CacheInv, [Next]_vars PROVE CacheInv'
    OBVIOUS
  <2>1. CASE Next
    BY <2>1, ProgramStep, TestStep, WriteStep DEF Next, Cached
  <2>2. CASE UNCHANGED vars
    BY <2>2 DEF vars, threadVars, copyVars, CacheInv, CacheType, OrderInv, Ended, Number,
                LockInv, ArrayInv, SlotInv, CopyFilled
  <2>3. QED
    BY <2>1, <2>2
<1>2. QED
  BY <1>1, InitCacheInv, PTL DEF Spec

\* Every access to the cache is within the array, if no team is larger than one
\* before it.
THEOREM CacheFits ==
  ASSUME TeamsShrink
  PROVE  Spec => []InBounds
<1>1. CacheInv => InBounds
  <2> SUFFICES ASSUME CacheInv, NEW k \in Team, NEW t \in Tid,
                      pc[k][t] \in {"slot", "new", "copy", "return"}
               PROVE  t \in cache
    BY DEF InBounds
  <2>1. cache # {} /\ t \in Number(k)
    BY DEF CacheInv, LockInv, OrderInv
  <2>2. PICK j \in Team : cache = Number(j) /\ \E u \in Tid : pc[j][u] # "none"
    BY <2>1 DEF CacheInv, ArrayInv
  <2>3. ~(k < j)
    BY <2>1, <2>2 DEF CacheInv, OrderInv, Ended
  <2>4. num_threads[k] <= num_threads[j]
    <3>1. CASE j = k
      BY <3>1, NumberFacts DEF CacheInv
    <3>2. CASE j < k
      BY <3>2 DEF TeamsShrink, CacheInv, CacheType
    <3>3. QED
      BY <2>3, <3>1, <3>2 DEF Team
  <2>5. QED
    BY <2>1, <2>2, <2>4, NumberFacts DEF CacheInv, Number
<1>2. Spec => []CacheInv
  BY CacheInvariant DEF TeamsShrink
<1>3. QED
  BY <1>1, <1>2, PTL

\* A thread number keeps one copy through all calls and regions, no other number
\* gets it, and it holds the variable's value when it is given out.
THEOREM CopiesCorrect ==
  ASSUME ~Together
  PROVE  Spec => []OwnCopy
<1>1. CacheInv => OwnCopy
  <2> SUFFICES ASSUME CacheInv PROVE OwnCopy
    OBVIOUS
  <2>1. \A t \in Tid : given[t] \subseteq {slot[t]} /\ 0 \notin given[t]
    BY DEF CacheInv, SlotInv, CacheType
  <2>2. CopyPersists
    BY <2>1 DEF CopyPersists
  <2>3. CopiesDiffer
    BY <2>1 DEF CopiesDiffer, CacheInv, SlotInv
  <2>4. QED
    BY <2>2, <2>3 DEF CacheInv, OwnCopy
<1>2. QED
  BY <1>1, CacheInvariant, PTL
=============================================================================
