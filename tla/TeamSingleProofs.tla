------------------------- MODULE TeamSingleProofs -------------------------
(***************************************************************************)
(* Proofs about __kmpc_single, __kmpc_copyprivate and __kmpc_reduce, for   *)
(* every team and every program of single, copyprivate and reduce          *)
(* constructs.                                                             *)
(***************************************************************************)
EXTENDS TeamSingle, TLAPS

\* A new team satisfies the invariant.
LEMMA InitSingle == Init => SingleInv
<1> SUFFICES ASSUME Init PROVE SingleInv
  OBVIOUS
<1>1. SingleType
  BY NumConstructsAssumption DEF Init, SingleType, PC, Kind
<1>2. CounterInv
  BY DEF Init, CounterInv, Uncounted
<1>3. LockInv
  BY NoneAssumption DEF Init, LockInv
<1>4. WinnersInv
  BY NumConstructsAssumption DEF Init, WinnersInv, Construct
<1>5. QED BY <1>1, <1>2, <1>3, <1>4 DEF SingleInv

\* A step of one thread that stays in its construct, outside __kmpc_single or
\* on its way in, preserves the invariant.
LEMMA LocalStep ==
  ASSUME SingleInv, NEW i \in Thread, NEW from, NEW to,
         Goto(i, from, to), to \in PC \ {"body", "test", "count", "unlock", "leave"},
         from \notin {"test", "count", "unlock", "leave"},
         to = "lock" => from = "body" /\ at[i] <= NumConstructs,
         from \in {"body", "lock"} => to = "lock",
         UNCHANGED <<program, at, singleVars>>
  PROVE  SingleInv'
<1>1. /\ pc[i] = from /\ pc' = [pc EXCEPT ![i] = to] /\ pc \in [Thread -> PC]
      /\ \A j \in Thread : pc'[j] = IF j = i THEN to ELSE pc[j]
  BY DEF Goto, SingleInv, SingleType
<1>2. UNCHANGED <<program, at, team_single_counter, task_single_counter, single_mtx,
                  do_work, winners>>
  BY DEF singleVars
<1>3. SingleType'
  BY <1>1, <1>2 DEF SingleInv, SingleType
<1>4. CounterInv'
  BY <1>1, <1>2 DEF SingleInv, CounterInv, Uncounted, PC
<1>5. LockInv'
  BY <1>1, <1>2 DEF SingleInv, LockInv, PC
<1>6. WinnersInv'
  BY <1>2 DEF SingleInv, WinnersInv
<1>7. QED BY <1>3, <1>4, <1>5, <1>6 DEF SingleInv

\* single_mtx.lock()
LEMMA SingleLockStep ==
  ASSUME SingleInv, NEW i \in Thread, SingleLock(i)
  PROVE  SingleInv'
<1>1. /\ pc[i] = "lock" /\ single_mtx = None /\ single_mtx' = i
      /\ \A j \in Thread : pc'[j] = IF j = i THEN "test" ELSE pc[j]
  BY DEF SingleLock, Goto, SingleInv, SingleType
<1>2. SingleType'
  BY DEF SingleLock, Goto, SingleInv, SingleType, PC
<1>3. CounterInv'
  BY <1>1 DEF SingleLock, SingleInv, CounterInv, Uncounted
<1>4. LockInv'
  BY <1>1, NoneAssumption DEF SingleInv, LockInv
<1>5. WinnersInv'
  BY DEF SingleLock, SingleInv, WinnersInv
<1>6. QED BY <1>2, <1>3, <1>4, <1>5 DEF SingleInv

\* The comparison of the two counters.
LEMMA SingleTestStep ==
  ASSUME SingleInv, NEW i \in Thread, SingleTest(i)
  PROVE  SingleInv'
<1> DEFINE first == team_single_counter = task_single_counter[i]
           to == IF first THEN "count" ELSE "unlock"
<1>1. /\ pc[i] = "test"
      /\ \A j \in Thread : pc'[j] = IF j = i THEN to ELSE pc[j]
      /\ do_work' = [do_work EXCEPT ![i] = first]
      /\ pc' = [pc EXCEPT ![i] = to]
  BY DEF SingleTest, Goto, SingleInv, SingleType
<1>2. UNCHANGED <<program, at, team_single_counter, task_single_counter, single_mtx,
                  winners>>
  BY DEF SingleTest
<1>3. team_single_counter \in Nat /\ task_single_counter[i] \in Nat
  BY DEF SingleInv, SingleType
<1>4. SingleType'
  <2>1. first \in BOOLEAN /\ to \in PC
    BY DEF PC
  <2>2. QED BY <1>1, <1>2, <2>1 DEF SingleInv, SingleType
<1>5. CounterInv'
  BY <1>1, <1>2, <1>3 DEF SingleInv, CounterInv, Uncounted
<1>6. LockInv'
  BY <1>1, <1>2 DEF SingleInv, LockInv
<1>7. WinnersInv'
  BY <1>2 DEF SingleInv, WinnersInv
<1>8. QED BY <1>4, <1>5, <1>6, <1>7 DEF SingleInv

\* The winner counts the construct, still holding single_mtx.
LEMMA SingleCountStep ==
  ASSUME SingleInv, NEW i \in Thread, SingleCount(i)
  PROVE  SingleInv'
<1>1. /\ pc[i] = "count" /\ single_mtx = i
      /\ \A j \in Thread : pc'[j] = IF j = i THEN "unlock" ELSE pc[j]
      /\ pc' = [pc EXCEPT ![i] = "unlock"]
  BY DEF SingleCount, Goto, SingleInv, SingleType, LockInv
<1>2. /\ team_single_counter' = team_single_counter + 1
      /\ winners' = [winners EXCEPT ![at[i]] = @ \cup {i}]
      /\ UNCHANGED <<program, at, task_single_counter, single_mtx, do_work>>
  BY DEF SingleCount
<1>3. /\ team_single_counter \in Nat /\ at[i] \in Nat /\ NumConstructs \in Nat
      /\ task_single_counter \in [Thread -> 0..NumConstructs]
      /\ \A j \in Thread : at[j] \in Nat /\ task_single_counter[j] \in Nat
  BY NumConstructsAssumption DEF SingleInv, SingleType
<1>4. team_single_counter = at[i] - 1 /\ at[i] \in Construct
  BY <1>1, <1>3 DEF SingleInv, CounterInv, Uncounted, SingleType, Construct
<1>5. SingleType'
  BY <1>1, <1>2, <1>3, <1>4 DEF SingleInv, SingleType, PC, Construct
<1>6. CounterInv'
  <2>1. \A j \in Thread : j # i => pc[j] # "count"
    BY <1>1 DEF SingleInv, LockInv
  <2>2. QED BY <1>1, <1>2, <1>3, <2>1 DEF SingleInv, CounterInv, Uncounted
<1>7. LockInv'
  BY <1>1, <1>2 DEF SingleInv, LockInv
<1>8. WinnersInv'
  <2>1. winners[at[i]] = {}
    BY <1>3, <1>4 DEF SingleInv, WinnersInv
  <2>2. winners \in [Construct -> SUBSET Thread]
    BY DEF SingleInv, SingleType
  <2>3. \A k \in Construct : winners'[k] = IF k = at[i] THEN {i} ELSE winners[k]
    BY <1>2, <2>1, <2>2
  <2>4. \A k \in Construct : k \in Nat
    BY DEF Construct
  <2>5. ASSUME NEW k \in Construct
        PROVE  /\ k > team_single_counter' => winners'[k] = {}
               /\ k <= team_single_counter' => winners'[k] # {}
               /\ \A x, y \in winners'[k] : x = y
    BY <1>2, <1>3, <1>4, <2>3, <2>4 DEF SingleInv, WinnersInv
  <2>6. QED BY <2>5 DEF WinnersInv
<1>9. QED BY <1>5, <1>6, <1>7, <1>8 DEF SingleInv

\* single_mtx.unlock()
LEMMA SingleUnlockStep ==
  ASSUME SingleInv, NEW i \in Thread, SingleUnlock(i)
  PROVE  SingleInv'
<1>1. /\ pc[i] = "unlock" /\ single_mtx = i /\ single_mtx' = None
      /\ \A j \in Thread : pc'[j] = IF j = i THEN "leave" ELSE pc[j]
  BY DEF SingleUnlock, Goto, SingleInv, SingleType, LockInv
<1>2. SingleType'
  BY DEF SingleUnlock, Goto, SingleInv, SingleType, PC
<1>3. CounterInv'
  BY <1>1 DEF SingleUnlock, SingleInv, CounterInv, Uncounted
<1>4. LockInv'
  BY <1>1, NoneAssumption DEF SingleInv, LockInv
<1>5. WinnersInv'
  BY DEF SingleUnlock, SingleInv, WinnersInv
<1>6. QED BY <1>2, <1>3, <1>4, <1>5 DEF SingleInv

\* task->single_counter++
LEMMA SingleLeaveStep ==
  ASSUME SingleInv, NEW i \in Thread, SingleLeave(i)
  PROVE  SingleInv'
<1> DEFINE to == IF program[at[i]] = "reduce" THEN "store" ELSE "work"
<1>1. /\ pc[i] = "leave"
      /\ \A j \in Thread : pc'[j] = IF j = i THEN to ELSE pc[j]
      /\ pc' = [pc EXCEPT ![i] = to]
  BY DEF SingleLeave, Goto, SingleInv, SingleType
<1>2. /\ task_single_counter' = [task_single_counter EXCEPT ![i] = @ + 1]
      /\ UNCHANGED <<program, at, team_single_counter, single_mtx, do_work, winners>>
  BY DEF SingleLeave
<1>3. /\ team_single_counter \in 0..NumConstructs /\ NumConstructs \in Nat
      /\ task_single_counter \in [Thread -> 0..NumConstructs]
      /\ \A j \in Thread : at[j] \in Nat /\ task_single_counter[j] \in Nat
  BY NumConstructsAssumption DEF SingleInv, SingleType
<1>4. /\ task_single_counter[i] < team_single_counter
      /\ task_single_counter[i] = at[i] - 1
      /\ at[i] <= NumConstructs
  BY <1>1 DEF SingleInv, CounterInv, Uncounted
<1>5. \A j \in Thread :
        task_single_counter'[j] = IF j = i THEN at[i] ELSE task_single_counter[j]
  BY <1>2, <1>3, <1>4
<1>6. SingleType'
  <2>1. to \in PC
    BY DEF PC
  <2>2. task_single_counter' \in [Thread -> 0..NumConstructs]
    BY <1>2, <1>3, <1>4
  <2>3. QED BY <1>1, <1>2, <2>1, <2>2 DEF SingleInv, SingleType
<1>7. CounterInv'
  BY <1>1, <1>2, <1>3, <1>4, <1>5 DEF SingleInv, CounterInv, Uncounted
<1>8. LockInv'
  BY <1>1, <1>2 DEF SingleInv, LockInv
<1>9. WinnersInv'
  BY <1>2 DEF SingleInv, WinnersInv
<1>10. QED BY <1>6, <1>7, <1>8, <1>9 DEF SingleInv

\* Threads that leave their construct, one by one or at a barrier.
LEMMA LeaveStep ==
  ASSUME SingleInv, NEW S \in SUBSET Thread,
         \A i \in S : pc[i] \in {"work", "merge", "bar2"} /\ pc'[i] = "body"
                       /\ at'[i] = at[i] + 1,
         \A i \in Thread \ S :
           \/ pc'[i] = pc[i] /\ at'[i] = at[i]
           \/ /\ at'[i] = at[i]
              /\ {pc[i], pc'[i]} \subseteq {"bar1", "copy", "combine", "bar2", "merge"},
         pc' \in [Thread -> PC], at' \in [Thread -> Int],
         UNCHANGED <<program, singleVars>>
  PROVE  SingleInv'
<1>1. UNCHANGED <<program, team_single_counter, task_single_counter, single_mtx,
                  do_work, winners>>
  BY DEF singleVars
<1>2. /\ NumConstructs \in Nat
      /\ \A i \in Thread : at[i] \in Nat /\ at[i] >= 1 /\ at[i] <= NumConstructs + 1
  BY NumConstructsAssumption DEF SingleInv, SingleType
<1>3. \A i \in S : at[i] <= NumConstructs
  BY DEF SingleInv, CounterInv
<1>4. SingleType'
  <2>1. \A i \in Thread : at'[i] \in 1..(NumConstructs + 1)
    BY <1>2, <1>3
  <2>2. at' \in [Thread -> 1..(NumConstructs + 1)]
    BY <2>1
  <2>3. QED BY <1>1, <2>2 DEF SingleInv, SingleType
<1>5. CounterInv'
  <2>1. ASSUME NEW i \in S
        PROVE  /\ task_single_counter'[i] = at'[i] - 1
               /\ task_single_counter'[i] <= team_single_counter'
    BY <1>1, <1>2 DEF SingleInv, CounterInv, Uncounted
  <2>2. QED BY <1>1, <1>2, <2>1 DEF SingleInv, CounterInv, Uncounted
<1>6. LockInv'
  BY <1>1 DEF SingleInv, LockInv
<1>7. WinnersInv'
  BY <1>1 DEF SingleInv, WinnersInv
<1>8. QED BY <1>4, <1>5, <1>6, <1>7 DEF SingleInv

\* Every step preserves the invariant.
LEMMA NextSingle == SingleInv /\ [Next]_vars => SingleInv'
<1> SUFFICES ASSUME SingleInv, [Next]_vars PROVE SingleInv'
  OBVIOUS
<1>0. /\ pc \in [Thread -> PC] /\ at \in [Thread -> 1..(NumConstructs + 1)]
      /\ NumConstructs \in Nat
  BY NumConstructsAssumption DEF SingleInv, SingleType
<1>1. ASSUME NEW i \in Thread, Enter(i) PROVE SingleInv'
  BY <1>1, LocalStep DEF Enter, PC
<1>2. ASSUME NEW i \in Thread, UserWrite(i) PROVE SingleInv'
  BY <1>2 DEF UserWrite, singleVars, SingleInv, SingleType, CounterInv, LockInv, WinnersInv
<1>3. ASSUME NEW i \in Thread,
             SingleLock(i) \/ SingleTest(i) \/ SingleCount(i) \/ SingleUnlock(i)
             \/ SingleLeave(i)
      PROVE  SingleInv'
  BY <1>3, SingleLockStep, SingleTestStep, SingleCountStep, SingleUnlockStep,
     SingleLeaveStep
<1>4. ASSUME NEW i \in Thread, Work(i) PROVE SingleInv'
  <2>1. CASE program[at[i]] = "nowait"
    <3>1. /\ pc[i] = "work" /\ pc' = [pc EXCEPT ![i] = "body"]
          /\ at' = [at EXCEPT ![i] = @ + 1]
      BY <1>4, <2>1 DEF Work, Finish, Goto
    <3>2. pc' \in [Thread -> PC] /\ at' \in [Thread -> Int]
      BY <1>0, <3>1 DEF PC
    <3>3. QED BY <1>0, <1>4, <3>1, <3>2, LeaveStep, {i} \in SUBSET Thread DEF Work
  <2>2. CASE program[at[i]] # "nowait"
    BY <1>4, <2>2, LocalStep DEF Work, PC
  <2>3. QED BY <2>1, <2>2
<1>5. ASSUME NEW i \in Thread, Publish(i) \/ Copy(i) \/ Store(i) PROVE SingleInv'
  BY <1>5, LocalStep DEF Publish, Copy, Store, PC
<1>6. ASSUME NEW i \in Thread, Combine(i) PROVE SingleInv'
  <2>1. CASE Goto(i, "combine", "bar2")
    BY <1>6, <2>1, LocalStep DEF Combine, PC
  <2>2. CASE UNCHANGED pc
    BY <1>6, <2>2 DEF Combine, singleVars, SingleInv, SingleType, CounterInv, LockInv,
                      WinnersInv
  <2>3. QED BY <1>6, <2>1, <2>2 DEF Combine
<1>7. ASSUME NEW i \in Thread, Merge(i) PROVE SingleInv'
  <2>1. /\ pc[i] = "merge" /\ pc' = [pc EXCEPT ![i] = "body"]
        /\ at' = [at EXCEPT ![i] = @ + 1]
    BY <1>7 DEF Merge, Finish, Goto
  <2>2. pc' \in [Thread -> PC] /\ at' \in [Thread -> Int]
    BY <1>0, <2>1 DEF PC
  <2>3. QED BY <1>0, <1>7, <2>1, <2>2, LeaveStep, {i} \in SUBSET Thread DEF Merge
<1>8. CASE ReleaseFirst
  <2>1. pc' \in [Thread -> PC] /\ at' \in [Thread -> Int]
    BY <1>0, <1>8 DEF ReleaseFirst, AfterFirst, PC
  <2>2. \A i \in Thread :
          {pc[i], pc'[i]} \subseteq {"bar1", "copy", "combine", "bar2", "merge"}
    BY <1>8 DEF ReleaseFirst, AfterFirst
  <2>3. QED BY <1>8, <2>1, <2>2, LeaveStep, {} \in SUBSET Thread DEF ReleaseFirst
<1>9. CASE ReleaseSecond
  <2> DEFINE S == {i \in Thread : AfterSecond(i) = "body"}
  <2>1. pc' \in [Thread -> PC] /\ at' \in [Thread -> Int]
    BY <1>0, <1>9 DEF ReleaseSecond, AfterSecond, PC
  <2>2. \A i \in Thread :
          /\ pc[i] = "bar2" /\ pc'[i] \in {"body", "merge"}
          /\ pc'[i] = AfterSecond(i)
          /\ at'[i] = IF i \in S THEN at[i] + 1 ELSE at[i]
    BY <1>9 DEF ReleaseSecond, AfterSecond
  <2>3. S \in SUBSET Thread
    OBVIOUS
  <2>4. \A i \in S : pc[i] = "bar2" /\ pc'[i] = "body" /\ at'[i] = at[i] + 1
    BY <2>2
  <2>5. \A i \in Thread \ S :
          at'[i] = at[i] /\ {pc[i], pc'[i]} \subseteq {"bar1", "copy", "combine", "bar2", "merge"}
    BY <2>2
  <2> HIDE DEF S
  <2>6. QED BY <1>9, <2>1, <2>3, <2>4, <2>5, LeaveStep DEF ReleaseSecond
<1>10. CASE UNCHANGED vars
  BY <1>10 DEF vars, singleVars, SingleInv, SingleType, CounterInv, LockInv, WinnersInv
<1>11. QED
  BY <1>1, <1>2, <1>3, <1>4, <1>5, <1>6, <1>7, <1>8, <1>9, <1>10
     DEF Next, Step, Release

\* The invariant holds in every reachable state.
THEOREM SingleInvariant == Spec => []SingleInv
  BY InitSingle, NextSingle, PTL DEF Spec

\* At most one thread of the team is chosen for a construct.
THEOREM SingleOnce == Spec => []SingleAtMostOnce
<1>1. SingleInv => SingleAtMostOnce
  BY DEF SingleInv, WinnersInv, SingleAtMostOnce
<1>2. QED BY <1>1, SingleInvariant, PTL

\* No thread gets past a construct for which nobody was chosen.
THEOREM SingleComplete == Spec => []SingleNotSkipped
<1>1. SingleInv => SingleNotSkipped
  <2>1. SUFFICES ASSUME SingleInv, NEW i \in Thread, NEW k \in Construct, k < at[i]
                 PROVE  winners[k] # {}
    BY DEF SingleNotSkipped
  <2>2. /\ k \in Nat /\ at[i] \in Nat /\ task_single_counter[i] \in Nat
        /\ team_single_counter \in Nat
    BY <2>1, NumConstructsAssumption DEF SingleInv, SingleType, Construct
  <2>3. k <= team_single_counter
    BY <2>1, <2>2 DEF SingleInv, CounterInv
  <2>4. QED BY <2>1, <2>3 DEF SingleInv, WinnersInv
<1>2. QED BY <1>1, SingleInvariant, PTL

\* The body of each single is run by exactly one thread of the team.
THEOREM SingleCorrect == Spec => []SingleExactlyOnce
BY SingleOnce, SingleComplete, PTL DEF SingleExactlyOnce

(***************************************************************************)
(* Where the threads of the team are in their constructs.                  *)
(***************************************************************************)

\* What the proofs below need of SingleInv.
LEMMA SingleFacts ==
  ASSUME SingleInv
  PROVE  /\ pc \in [Thread -> PC] /\ program \in [Construct -> Kind]
         /\ at \in [Thread -> 1..(NumConstructs + 1)]
         /\ do_work \in [Thread -> BOOLEAN] /\ winners \in [Construct -> SUBSET Thread]
         /\ NumConstructs \in Nat
         /\ \A i \in Thread : at[i] \in Nat /\ at[i] >= 1 /\ at[i] <= NumConstructs + 1
         /\ \A i \in Thread : pc[i] # "body" => at[i] \in Construct
         /\ \A k \in Construct : k \in Nat
<1>1. /\ pc \in [Thread -> PC] /\ program \in [Construct -> Kind]
      /\ at \in [Thread -> 1..(NumConstructs + 1)]
      /\ do_work \in [Thread -> BOOLEAN] /\ winners \in [Construct -> SUBSET Thread]
      /\ NumConstructs \in Nat
  BY NumConstructsAssumption DEF SingleInv, SingleType
<1>2. \A i \in Thread : at[i] \in Nat /\ at[i] >= 1 /\ at[i] <= NumConstructs + 1
  BY <1>1
<1>3. \A i \in Thread : pc[i] # "body" => at[i] \in Construct
  BY <1>1, <1>2 DEF SingleInv, CounterInv, Construct
<1>4. QED BY <1>1, <1>2, <1>3 DEF Construct

\* A new team is at its first construct.
LEMMA InitPlaces == Init => KindInv /\ SyncInv /\ ChosenInv
<1> SUFFICES ASSUME Init PROVE KindInv /\ SyncInv /\ ChosenInv
  OBVIOUS
<1>1. \A i \in Thread : pc[i] = "body" /\ at[i] = 1
  BY DEF Init
<1>2. KindInv
  BY <1>1 DEF KindInv
<1>3. SyncInv
  BY <1>1, NumConstructsAssumption DEF SyncInv, Past, Construct
<1>4. ChosenInv
  BY <1>1 DEF Init, ChosenInv
<1>5. QED BY <1>2, <1>3, <1>4

\* A step of one thread within its construct keeps the team together.
LEMMA SyncMove ==
  ASSUME SingleInv, SyncInv, NEW i \in Thread, UNCHANGED <<program, at>>,
         \A j \in Thread : j # i => pc'[j] = pc[j],
         pc[i] # "merge", pc'[i] # "merge", Past(i)' <=> Past(i)
  PROVE  SyncInv'
<1>1. \A j \in Thread : Past(j)' <=> Past(j)
  BY DEF Past
<1>2. \A j \in Thread : pc'[j] = "merge" <=> pc[j] = "merge"
  OBVIOUS
<1>3. QED BY <1>1, <1>2 DEF SyncInv

\* So does a thread that leaves a nowait single, or the merge of a reduction.
LEMMA SyncFinish ==
  ASSUME SingleInv, SyncInv, NEW i \in Thread, UNCHANGED program,
         \A j \in Thread : pc'[j] = IF j = i THEN "body" ELSE pc[j],
         \A j \in Thread : at'[j] = IF j = i THEN at[i] + 1 ELSE at[j],
         pc[i] = "merge" \/ (pc[i] = "work" /\ program[at[i]] = "nowait")
  PROVE  SyncInv'
<1>0. /\ \A j \in Thread : at[j] \in Nat
      /\ \A k \in Construct : k \in Nat
  BY SingleFacts
<1>1. \A j \in Thread : ~Past(j)
  BY DEF SyncInv, Past
<1>2. \A j \in Thread : ~Past(j)'
  <2>1. ASSUME NEW j \in Thread, j # i PROVE Past(j)' <=> Past(j)
    BY <2>1 DEF Past
  <2>2. ~Past(i)'
    BY DEF Past
  <2>3. QED BY <1>1, <2>1, <2>2
<1>3. ASSUME NEW x \in Thread, NEW y \in Thread, NEW k \in Construct,
             at'[x] <= k, k < at'[y]
      PROVE  program'[k] = "nowait" \/ (k = at'[x] /\ pc'[x] = "merge")
  <2>1. x # y
    BY <1>0, <1>3
  <2>2. CASE x = i
    <3>1. at[x] <= k /\ k < at[y] /\ k # at[x]
      BY <1>0, <1>3, <2>1, <2>2
    <3>2. QED BY <3>1 DEF SyncInv
  <2>3. CASE x # i /\ (y # i \/ k < at[i])
    <3>1. at[x] <= k /\ k < at[y] /\ at'[x] = at[x] /\ pc'[x] = pc[x]
      BY <1>0, <1>3, <2>3
    <3>2. QED BY <3>1 DEF SyncInv
  <2>4. CASE x # i /\ y = i /\ ~(k < at[i])
    <3>1. k = at[i] /\ at[x] <= at[i]
      BY <1>0, <1>3, <2>4
    <3>2. pc[i] # "merge"
      BY <1>0, <2>4, <3>1 DEF SyncInv
    <3>3. QED BY <3>1, <3>2
  <2>5. QED BY <2>2, <2>3, <2>4
<1>4. ASSUME NEW x \in Thread, NEW y \in Thread, pc'[x] = "merge", x # y
      PROVE  at'[x] < at'[y]
  <2>1. x # i /\ pc[x] = "merge"
    BY <1>4
  <2>2. at[x] < at[y]
    BY <1>4, <2>1 DEF SyncInv
  <2>3. QED BY <1>0, <2>1, <2>2
<1>5. QED BY <1>2, <1>3, <1>4 DEF SyncInv

\* The whole team at a barrier is in one construct.
LEMMA SamePlace ==
  ASSUME SingleInv, KindInv, SyncInv, \A i \in Thread : pc[i] \in {"bar1", "bar2"}
  PROVE  \A i, j \in Thread : at[i] = at[j]
<1>1. ASSUME NEW i \in Thread, NEW j \in Thread, at[i] < at[j] PROVE FALSE
  <2>1. at[i] \in Construct /\ at[i] \in Nat
    BY SingleFacts
  <2>2. program[at[i]] = "nowait"
    BY <1>1, <2>1 DEF SyncInv
  <2>3. QED BY <2>2 DEF KindInv
<1>2. QED BY <1>1, SingleFacts

\* A construct that a thread has come through the lock of has one winner.
LEMMA WinnerExists ==
  ASSUME SingleInv, NEW i \in Thread, pc[i] \notin Uncounted
  PROVE  \E w \in Thread : winners[at[i]] = {w}
<1>1. at[i] \in Construct /\ at[i] \in Nat /\ at[i] <= team_single_counter
  BY SingleFacts DEF SingleInv, CounterInv, Uncounted
<1>2. winners[at[i]] # {} /\ winners[at[i]] \subseteq Thread
  BY <1>1, SingleFacts DEF SingleInv, WinnersInv
<1>3. PICK w : w \in winners[at[i]]
  BY <1>2
<1>4. \A x \in winners[at[i]] : x = w
  BY <1>1, <1>3 DEF SingleInv, WinnersInv
<1>5. QED BY <1>2, <1>3, <1>4

\* A step of one thread within its construct, after __kmpc_single.
LEMMA PlacesMove ==
  ASSUME SingleInv, KindInv, SyncInv, ChosenInv, NEW i \in Thread, NEW from, NEW to,
         Goto(i, from, to), UNCHANGED <<program, at, do_work, winners>>,
         {from, to} \subseteq PC \ {"merge", "test", "count", "unlock", "body", "lock"}
           \/ (from = "body" /\ to = "lock") \/ (from = "lock" /\ to = "test")
           \/ (from = "unlock" /\ to = "leave"),
         Past(i)' <=> Past(i),
         to # "combine", KindInv'
  PROVE  KindInv' /\ SyncInv' /\ ChosenInv'
<1>1. \A j \in Thread : pc'[j] = IF j = i THEN to ELSE pc[j]
  BY SingleFacts DEF Goto
<1>2. pc[i] = from
  BY DEF Goto
<1>3. SyncInv'
  BY <1>1, <1>2, SyncMove
<1>4. ChosenInv'
  BY <1>1, <1>2 DEF ChosenInv
<1>5. QED BY <1>3, <1>4

\* The comparison of the counters: nobody is chosen yet.
LEMMA PlacesTest ==
  ASSUME SingleInv, KindInv, SyncInv, ChosenInv, NEW i \in Thread, SingleTest(i)
  PROVE  KindInv' /\ SyncInv' /\ ChosenInv'
<1> DEFINE first == team_single_counter = task_single_counter[i]
           to == IF first THEN "count" ELSE "unlock"
<1>1. /\ pc[i] = "test" /\ UNCHANGED <<program, at, winners>>
      /\ \A j \in Thread : pc'[j] = IF j = i THEN to ELSE pc[j]
      /\ \A j \in Thread : do_work'[j] = IF j = i THEN first ELSE do_work[j]
  BY SingleFacts DEF SingleTest, Goto
<1>2. KindInv'
  BY <1>1 DEF KindInv
<1>3. SyncInv'
  <2>1. Past(i)' <=> Past(i)
    BY <1>1 DEF Past
  <2>2. QED BY <1>1, <2>1, SyncMove
<1>4. i \notin winners[at[i]]
  <2>1. at[i] \in Construct /\ at[i] \in Nat
    BY <1>1, SingleFacts
  <2>2. QED BY <1>1, <2>1 DEF ChosenInv
<1>5. ChosenInv'
  <2>1. ASSUME NEW j \in Thread, NEW k \in Construct, j \in winners'[k]
        PROVE  k < at'[j] \/ (k = at'[j] /\ pc'[j] \notin {"body", "lock", "test", "count"})
    BY <1>1, <1>4, <2>1, SingleFacts DEF ChosenInv
  <2>2. ASSUME NEW j \in Thread
        PROVE  /\ pc'[j] = "count" => do_work'[j]
               /\ pc'[j] \notin {"body", "lock", "test", "count"} =>
                    (do_work'[j] <=> j \in winners'[at'[j]])
               /\ pc'[j] \in {"combine", "merge"} => do_work'[j]
    BY <1>1, <1>4 DEF ChosenInv
  <2>3. QED BY <2>1, <2>2 DEF ChosenInv
<1>6. QED BY <1>2, <1>3, <1>5

\* The winner is recorded.
LEMMA PlacesCount ==
  ASSUME SingleInv, KindInv, SyncInv, ChosenInv, NEW i \in Thread, SingleCount(i)
  PROVE  KindInv' /\ SyncInv' /\ ChosenInv'
<1>1. /\ pc[i] = "count" /\ UNCHANGED <<program, at, do_work>>
      /\ \A j \in Thread : pc'[j] = IF j = i THEN "unlock" ELSE pc[j]
      /\ at[i] \in Construct
      /\ winners' = [winners EXCEPT ![at[i]] = @ \cup {i}]
      /\ winners \in [Construct -> SUBSET Thread]
  BY SingleFacts DEF SingleCount, Goto
<1>2. \A k \in Construct : winners'[k] = IF k = at[i] THEN winners[k] \cup {i} ELSE winners[k]
  BY <1>1
<1>3. KindInv'
  BY <1>1 DEF KindInv
<1>4. SyncInv'
  <2>1. Past(i)' <=> Past(i)
    BY <1>1 DEF Past
  <2>2. QED BY <1>1, <2>1, SyncMove
<1>5. ChosenInv'
  <2>1. ASSUME NEW j \in Thread, NEW k \in Construct, j \in winners'[k]
        PROVE  k < at'[j] \/ (k = at'[j] /\ pc'[j] \notin {"body", "lock", "test", "count"})
    BY <1>1, <1>2, <2>1 DEF ChosenInv
  <2>2. ASSUME NEW j \in Thread
        PROVE  /\ pc'[j] = "count" => do_work'[j]
               /\ pc'[j] \notin {"body", "lock", "test", "count"} =>
                    (do_work'[j] <=> j \in winners'[at'[j]])
               /\ pc'[j] \in {"combine", "merge"} => do_work'[j]
    <3>1. CASE j = i
      BY <1>1, <1>2, <3>1 DEF ChosenInv
    <3>2. CASE j # i
      <4>1. pc[j] # "body" => (j \in winners'[at[j]] <=> j \in winners[at[j]])
        BY <1>2, <3>2, SingleFacts
      <4>2. QED BY <1>1, <3>2, <4>1 DEF ChosenInv
    <3>3. QED BY <3>1, <3>2
  <2>3. QED BY <2>1, <2>2 DEF ChosenInv
<1>6. QED BY <1>3, <1>4, <1>5

\* A thread that leaves its construct alone.
LEMMA PlacesFinish ==
  ASSUME SingleInv, KindInv, SyncInv, ChosenInv, NEW i \in Thread, NEW from,
         Finish(i, from), UNCHANGED <<program, do_work, winners>>,
         from = "merge" \/ (from = "work" /\ program[at[i]] = "nowait")
  PROVE  KindInv' /\ SyncInv' /\ ChosenInv'
<1>1. /\ pc[i] = from
      /\ \A j \in Thread : pc'[j] = IF j = i THEN "body" ELSE pc[j]
      /\ \A j \in Thread : at'[j] = IF j = i THEN at[i] + 1 ELSE at[j]
  BY SingleFacts DEF Finish, Goto
<1>2. KindInv'
  BY <1>1 DEF KindInv
<1>3. SyncInv'
  BY <1>1, SyncFinish
<1>4. ChosenInv'
  <2>1. ASSUME NEW j \in Thread, NEW k \in Construct, j \in winners'[k]
        PROVE  k < at'[j] \/ (k = at'[j] /\ pc'[j] \notin {"body", "lock", "test", "count"})
    <3>1. k < at[j] \/ (k = at[j] /\ pc[j] \notin {"body", "lock", "test", "count"})
      BY <2>1 DEF ChosenInv
    <3>2. k \in Nat /\ at[j] \in Nat
      BY SingleFacts
    <3>3. QED BY <1>1, <3>1, <3>2
  <2>2. ASSUME NEW j \in Thread
        PROVE  /\ pc'[j] = "count" => do_work'[j]
               /\ pc'[j] \notin {"body", "lock", "test", "count"} =>
                    (do_work'[j] <=> j \in winners'[at'[j]])
               /\ pc'[j] \in {"combine", "merge"} => do_work'[j]
    BY <1>1 DEF ChosenInv
  <2>3. QED BY <2>1, <2>2 DEF ChosenInv
<1>5. QED BY <1>2, <1>3, <1>4

\* The first barrier opens for the whole team, in one construct.
LEMMA PlacesFirst ==
  ASSUME SingleInv, KindInv, SyncInv, ChosenInv, ReleaseFirst
  PROVE  KindInv' /\ SyncInv' /\ ChosenInv'
<1>1. /\ UNCHANGED <<program, at, do_work, winners>>
      /\ \A i \in Thread :
           pc[i] = "bar1" /\ pc'[i] = AfterFirst(i) /\ program[at[i]] \in {"copyprivate", "reduce"}
  BY DEF ReleaseFirst, singleVars, KindInv
<1>2. \A i, j \in Thread : at[i] = at[j]
  BY <1>1, SamePlace
<1>3. KindInv'
  BY <1>1 DEF KindInv, AfterFirst
<1>4. SyncInv'
  <2>1. \A i \in Thread : Past(i)' /\ pc'[i] # "merge"
    BY <1>1 DEF Past, AfterFirst
  <2>2. ASSUME NEW i \in Thread, NEW j \in Thread, NEW k \in Construct,
               at'[i] <= k, k < at'[j]
        PROVE  FALSE
    BY <1>1, <1>2, <2>2, SingleFacts
  <2>3. QED BY <1>1, <1>2, <2>1, <2>2 DEF SyncInv
<1>5. ChosenInv'
  BY <1>1 DEF ChosenInv, AfterFirst
<1>6. QED BY <1>3, <1>4, <1>5

\* The second barrier opens: all leave but the thread that merges a reduction.
LEMMA PlacesSecond ==
  ASSUME SingleInv, KindInv, SyncInv, ChosenInv, ReleaseSecond
  PROVE  KindInv' /\ SyncInv' /\ ChosenInv'
<1>1. /\ UNCHANGED <<program, do_work, winners>>
      /\ \A i \in Thread :
           /\ pc[i] = "bar2" /\ pc'[i] = AfterSecond(i)
           /\ at'[i] = IF AfterSecond(i) = "body" THEN at[i] + 1 ELSE at[i]
           /\ at[i] \in Construct /\ at[i] \in Nat
  BY SingleFacts DEF ReleaseSecond, singleVars
<1>2. \A i, j \in Thread : at[i] = at[j]
  BY <1>1, SamePlace
<1>3. KindInv'
  BY <1>1 DEF KindInv, AfterSecond
<1>4. \A i, j \in Thread : AfterSecond(i) = "merge" /\ AfterSecond(j) = "merge" => i = j
  <2>1. ASSUME NEW i \in Thread, NEW j \in Thread,
               AfterSecond(i) = "merge", AfterSecond(j) = "merge"
        PROVE  i = j
    <3>1. do_work[i] /\ do_work[j]
      BY <2>1 DEF AfterSecond
    <3>2. i \in winners[at[i]] /\ j \in winners[at[i]]
      BY <1>1, <1>2, <3>1 DEF ChosenInv
    <3>3. QED BY <1>1, <3>2 DEF SingleInv, WinnersInv
  <2>2. QED BY <2>1
<1>5. SyncInv'
  <2>1. \A i \in Thread : ~Past(i)'
    BY <1>1 DEF Past, AfterSecond
  <2>2. ASSUME NEW i \in Thread, NEW j \in Thread, NEW k \in Construct,
               at'[i] <= k, k < at'[j]
        PROVE  k = at'[i] /\ pc'[i] = "merge"
    <3>1. k \in Nat /\ AfterSecond(i) \in {"body", "merge"} /\ at[i] = at[j]
      BY <1>2, SingleFacts DEF AfterSecond
    <3>2. QED BY <1>1, <2>2, <3>1
  <2>3. ASSUME NEW i \in Thread, NEW j \in Thread, pc'[i] = "merge", i # j
        PROVE  at'[i] < at'[j]
    <3>1. AfterSecond(i) = "merge" /\ AfterSecond(j) = "body" /\ at[i] = at[j]
      BY <1>1, <1>2, <1>4, <2>3 DEF AfterSecond
    <3>2. QED BY <1>1, <3>1
  <2>4. QED BY <2>1, <2>2, <2>3 DEF SyncInv
<1>6. ChosenInv'
  <2>1. ASSUME NEW j \in Thread, NEW k \in Construct, j \in winners'[k]
        PROVE  k < at'[j] \/ (k = at'[j] /\ pc'[j] \notin {"body", "lock", "test", "count"})
    <3>1. k < at[j] \/ k = at[j]
      BY <1>1, <2>1 DEF ChosenInv
    <3>2. k \in Nat /\ AfterSecond(j) \in {"body", "merge"}
      BY SingleFacts DEF AfterSecond
    <3>3. QED BY <1>1, <3>1, <3>2
  <2>2. ASSUME NEW j \in Thread
        PROVE  /\ pc'[j] = "count" => do_work'[j]
               /\ pc'[j] \notin {"body", "lock", "test", "count"} =>
                    (do_work'[j] <=> j \in winners'[at'[j]])
               /\ pc'[j] \in {"combine", "merge"} => do_work'[j]
    BY <1>1 DEF ChosenInv, AfterSecond
  <2>3. QED BY <2>1, <2>2 DEF ChosenInv
<1>7. QED BY <1>3, <1>5, <1>6

\* Every step keeps the team together and its winner known.
LEMMA NextPlaces ==
  ASSUME SingleInv, KindInv, SyncInv, ChosenInv, [Next]_vars
  PROVE  KindInv' /\ SyncInv' /\ ChosenInv'
<1> USE DEF singleVars
<1>0. pc \in [Thread -> PC]
  BY SingleFacts
<1>1. ASSUME NEW i \in Thread, Enter(i) \/ SingleLock(i) \/ SingleUnlock(i)
      PROVE  KindInv' /\ SyncInv' /\ ChosenInv'
  <2>1. PICK from, to :
          /\ Goto(i, from, to)
          /\ \/ from = "body" /\ to = "lock"
             \/ from = "lock" /\ to = "test"
             \/ from = "unlock" /\ to = "leave"
    BY <1>1 DEF Enter, SingleLock, SingleUnlock
  <2>2. UNCHANGED <<program, at, do_work, winners>>
    BY <1>1 DEF Enter, SingleLock, SingleUnlock
  <2>3. pc[i] = from /\ \A j \in Thread : pc'[j] = IF j = i THEN to ELSE pc[j]
    BY <1>0, <2>1 DEF Goto
  <2>4. KindInv' /\ (Past(i)' <=> Past(i))
    BY <2>1, <2>2, <2>3 DEF KindInv, Past
  <2>5. QED BY <2>1, <2>2, <2>4, PlacesMove
<1>2. ASSUME NEW i \in Thread, SingleLeave(i)
      PROVE  KindInv' /\ SyncInv' /\ ChosenInv'
  <2>1. PICK to \in {"store", "work"} :
          /\ Goto(i, "leave", to)
          /\ to = "store" => program[at[i]] = "reduce"
          /\ to = "work" => program[at[i]] # "reduce"
          /\ UNCHANGED <<program, at, do_work, winners>>
    BY <1>2 DEF SingleLeave
  <2>2. pc[i] = "leave" /\ \A j \in Thread : pc'[j] = IF j = i THEN to ELSE pc[j]
    BY <1>0, <2>1 DEF Goto
  <2>3. KindInv' /\ (Past(i)' <=> Past(i))
    BY <2>1, <2>2 DEF KindInv, Past
  <2>4. {"leave", to} \subseteq PC \ {"merge", "test", "count", "unlock", "body", "lock"}
    BY DEF PC
  <2>5. QED BY <2>1, <2>3, <2>4, PlacesMove
<1>3. ASSUME NEW i \in Thread, Work(i) PROVE KindInv' /\ SyncInv' /\ ChosenInv'
  <2>1. CASE program[at[i]] = "nowait"
    BY <1>3, <2>1, PlacesFinish DEF Work
  <2>2. CASE program[at[i]] # "nowait"
    <3>1. PICK to \in {"bar2", "publish"} :
            /\ Goto(i, "work", to)
            /\ to = "bar2" => program[at[i]] = "single"
            /\ to = "publish" => program[at[i]] = "copyprivate"
            /\ UNCHANGED <<program, at, do_work, winners>>
      BY <1>3, <2>2 DEF Work
    <3>2. pc[i] = "work" /\ \A j \in Thread : pc'[j] = IF j = i THEN to ELSE pc[j]
      BY <1>0, <3>1 DEF Goto
    <3>3. KindInv' /\ (Past(i)' <=> Past(i))
      BY <3>1, <3>2 DEF KindInv, Past
    <3>4. {"work", to} \subseteq PC \ {"merge", "test", "count", "unlock", "body", "lock"}
      BY DEF PC
    <3>5. QED BY <3>1, <3>3, <3>4, PlacesMove
  <2>3. QED BY <2>1, <2>2
<1>4. ASSUME NEW i \in Thread, Publish(i) \/ Copy(i) \/ Store(i) \/ Combine(i)
      PROVE  KindInv' /\ SyncInv' /\ ChosenInv'
  <2>1. CASE UNCHANGED pc
    BY <1>4, <2>1 DEF Publish, Copy, Store, Combine, KindInv, SyncInv, ChosenInv, Past
  <2>2. CASE pc' # pc
    <3>1. PICK from \in {"publish", "copy", "store", "combine"}, to \in {"bar1", "bar2"} :
            /\ Goto(i, from, to)
            /\ to = "bar1" <=> from \in {"publish", "store"}
            /\ UNCHANGED <<program, at, do_work, winners>>
      BY <1>4, <2>2 DEF Publish, Copy, Store, Combine
    <3>2. pc[i] = from /\ \A j \in Thread : pc'[j] = IF j = i THEN to ELSE pc[j]
      BY <1>0, <3>1 DEF Goto
    <3>3. KindInv' /\ (Past(i)' <=> Past(i))
      BY <3>1, <3>2 DEF KindInv, Past
    <3>4. {from, to} \subseteq PC \ {"merge", "test", "count", "unlock", "body", "lock"}
      BY DEF PC
    <3>5. QED BY <3>1, <3>3, <3>4, PlacesMove
  <2>3. QED BY <2>1, <2>2
<1>5. ASSUME NEW i \in Thread, SingleTest(i) \/ SingleCount(i)
      PROVE  KindInv' /\ SyncInv' /\ ChosenInv'
  BY <1>5, PlacesTest, PlacesCount
<1>6. ASSUME NEW i \in Thread, Merge(i) PROVE KindInv' /\ SyncInv' /\ ChosenInv'
  BY <1>6, PlacesFinish DEF Merge
<1>7. CASE ReleaseFirst \/ ReleaseSecond
  BY <1>7, PlacesFirst, PlacesSecond
<1>8. CASE UNCHANGED vars \/ \E i \in Thread : UserWrite(i)
  <2>1. UNCHANGED <<program, at, pc, do_work, winners>>
    BY <1>8 DEF vars, UserWrite
  <2>2. QED BY <2>1 DEF KindInv, SyncInv, ChosenInv, Past
<1>9. QED
  BY <1>1, <1>2, <1>3, <1>4, <1>5, <1>6, <1>7, <1>8 DEF Next, Step, Release

(***************************************************************************)
(* Copyprivate.                                                            *)
(***************************************************************************)

\* No other thread can be at a copyprivate while a thread is in another one.
LEMMA OneCopyprivate ==
  ASSUME SingleInv, SyncInv, NEW i \in Thread, NEW j \in Thread,
         pc[i] # "body", pc[j] # "body", pc[i] # "merge", pc[j] # "merge",
         program[at[i]] # "nowait", program[at[j]] # "nowait"
  PROVE  at[i] = at[j]
<1>1. /\ at[i] \in Construct /\ at[j] \in Construct
      /\ at[i] \in Nat /\ at[j] \in Nat
  BY SingleFacts
<1>2. ~(at[i] < at[j]) /\ ~(at[j] < at[i])
  BY <1>1 DEF SyncInv
<1>3. QED BY <1>1, <1>2

\* Two threads with do_work in one construct are one.
LEMMA OneWinner ==
  ASSUME SingleInv, ChosenInv, NEW i \in Thread, NEW j \in Thread, at[i] = at[j],
         pc[i] \notin Uncounted, pc[j] \notin Uncounted, do_work[i], do_work[j]
  PROVE  i = j
<1>1. at[i] \in Construct
  BY SingleFacts DEF Uncounted
<1>2. i \in winners[at[i]] /\ j \in winners[at[i]]
  BY DEF ChosenInv, Uncounted
<1>3. QED BY <1>1, <1>2 DEF SingleInv, WinnersInv

\* A step that changes neither the pointer nor a variable keeps them right as
\* long as it takes nobody to where they matter.
LEMMA CopyKept ==
  ASSUME SingleInv, CopyInv, UNCHANGED <<program, copyVars>>,
         \A i \in Thread :
           pc'[i] \in {"publish", "bar1", "copy", "bar2"} =>
             \/ /\ UNCHANGED <<pc[i], at[i], do_work[i]>>
             \/ program[at'[i]] # "copyprivate"
             \/ /\ UNCHANGED <<at[i], do_work[i]>>
                /\ pc[i] = "bar1" /\ pc'[i] = "copy"
  PROVE  CopyInv'
<1>1. UNCHANGED <<copyprivate_data, value>>
  BY DEF copyVars
<1>2. ASSUME NEW i \in Thread
      PROVE  /\ /\ pc'[i] \in {"publish", "bar1", "copy", "bar2"}
                /\ program'[at'[i]] = "copyprivate" /\ do_work'[i]
                => value'[i] = at'[i] /\ (pc'[i] # "publish" => copyprivate_data' = i)
             /\ pc'[i] = "bar2" /\ program'[at'[i]] = "copyprivate" => value'[i] = at'[i]
  BY <1>1 DEF CopyInv
<1>3. QED BY <1>1, <1>2 DEF CopyInv

\* User code changes only variables of threads outside the constructs.
LEMMA CopyWrite ==
  ASSUME SingleInv, CopyInv, NEW i \in Thread, UserWrite(i)
  PROVE  CopyInv'
<1>1. /\ pc[i] = "body" /\ value' = [value EXCEPT ![i] = 0]
      /\ UNCHANGED <<program, at, pc, do_work, copyprivate_data>>
      /\ value \in [Thread -> Int]
  BY DEF UserWrite, singleVars, CopyInv
<1>2. value' \in [Thread -> Int] /\ \A j \in Thread : j # i => value'[j] = value[j]
  BY <1>1
<1>3. QED BY <1>1, <1>2 DEF CopyInv

\* The winner's body sets its variable.
LEMMA CopyWork ==
  ASSUME SingleInv, CopyInv, NEW i \in Thread, Work(i), program[at[i]] = "copyprivate"
  PROVE  CopyInv'
<1>1. /\ pc[i] = "work" /\ at[i] \in Int
      /\ \A j \in Thread : pc'[j] = IF j = i THEN "publish" ELSE pc[j]
      /\ value' = IF do_work[i] THEN [value EXCEPT ![i] = at[i]] ELSE value
      /\ UNCHANGED <<program, at, do_work, copyprivate_data>>
      /\ value \in [Thread -> Int]
  BY SingleFacts DEF Work, Goto, singleVars, CopyInv
<1>2. /\ value' \in [Thread -> Int]
      /\ \A j \in Thread : value'[j] = IF j = i /\ do_work[i] THEN at[i] ELSE value[j]
  BY <1>1
<1>3. ASSUME NEW j \in Thread
      PROVE  /\ /\ pc'[j] \in {"publish", "bar1", "copy", "bar2"}
                /\ program'[at'[j]] = "copyprivate" /\ do_work'[j]
                => value'[j] = at'[j] /\ (pc'[j] # "publish" => copyprivate_data' = j)
             /\ pc'[j] = "bar2" /\ program'[at'[j]] = "copyprivate" => value'[j] = at'[j]
  BY <1>1, <1>2 DEF CopyInv
<1>4. QED BY <1>1, <1>2, <1>3 DEF CopyInv

\* __kmpc_copyprivate: the winner sets the pointer, nobody else does.
LEMMA CopyPublish ==
  ASSUME SingleInv, KindInv, SyncInv, ChosenInv, CopyInv, NEW i \in Thread, Publish(i)
  PROVE  CopyInv'
<1>1. /\ pc[i] = "publish" /\ program[at[i]] = "copyprivate"
      /\ \A j \in Thread : pc'[j] = IF j = i THEN "bar1" ELSE pc[j]
      /\ copyprivate_data' = IF do_work[i] THEN i ELSE copyprivate_data
      /\ UNCHANGED <<program, at, do_work, value>>
  BY SingleFacts DEF Publish, Goto, singleVars, KindInv
<1>2. ASSUME NEW j \in Thread, j # i, pc[j] \in {"bar1", "copy", "bar2"},
             program[at[j]] = "copyprivate", do_work[j]
      PROVE  ~do_work[i]
  <2>1. at[i] = at[j]
    BY <1>1, <1>2, OneCopyprivate
  <2>2. QED BY <1>1, <1>2, <2>1, OneWinner DEF Uncounted
<1>3. ASSUME NEW j \in Thread
      PROVE  /\ /\ pc'[j] \in {"publish", "bar1", "copy", "bar2"}
                /\ program'[at'[j]] = "copyprivate" /\ do_work'[j]
                => value'[j] = at'[j] /\ (pc'[j] # "publish" => copyprivate_data' = j)
             /\ pc'[j] = "bar2" /\ program'[at'[j]] = "copyprivate" => value'[j] = at'[j]
  <2>1. CASE j = i
    BY <1>1, <2>1 DEF CopyInv
  <2>2. CASE j # i
    BY <1>1, <1>2, <2>2 DEF CopyInv
  <2>3. QED BY <2>1, <2>2
<1>4. QED BY <1>1, <1>3 DEF CopyInv

\* The copy reads the winner's variable, which still has its value.
LEMMA CopyCopy ==
  ASSUME SingleInv, KindInv, SyncInv, ChosenInv, CopyInv, NEW i \in Thread, Copy(i)
  PROVE  CopyInv'
<1>1. /\ pc[i] = "copy" /\ program[at[i]] = "copyprivate"
      /\ \A j \in Thread : pc'[j] = IF j = i THEN "bar2" ELSE pc[j]
      /\ value' = [value EXCEPT ![i] = value[copyprivate_data]]
      /\ UNCHANGED <<program, at, do_work, copyprivate_data>>
      /\ value \in [Thread -> Int]
  BY SingleFacts DEF Copy, Goto, singleVars, KindInv, CopyInv
<1>2. PICK w \in Thread : winners[at[i]] = {w}
  BY <1>1, WinnerExists DEF Uncounted
<1>3. Past(w) /\ at[w] = at[i]
  BY <1>1 DEF SyncInv, Past
<1>4. pc[w] \in {"copy", "bar2"}
  BY <1>1, <1>3 DEF Past, KindInv
<1>5. do_work[w]
  BY <1>2, <1>3, <1>4 DEF ChosenInv
<1>6. copyprivate_data = w /\ value[w] = at[i]
  BY <1>1, <1>3, <1>4, <1>5 DEF CopyInv
<1>7. /\ value' \in [Thread -> Int]
      /\ \A j \in Thread : value'[j] = IF j = i THEN at[i] ELSE value[j]
  BY <1>1, <1>6
<1>8. ASSUME NEW j \in Thread
      PROVE  /\ /\ pc'[j] \in {"publish", "bar1", "copy", "bar2"}
                /\ program'[at'[j]] = "copyprivate" /\ do_work'[j]
                => value'[j] = at'[j] /\ (pc'[j] # "publish" => copyprivate_data' = j)
             /\ pc'[j] = "bar2" /\ program'[at'[j]] = "copyprivate" => value'[j] = at'[j]
  BY <1>1, <1>7 DEF CopyInv
<1>9. QED BY <1>1, <1>7, <1>8 DEF CopyInv

\* Every step keeps the pointer and the copies right.
LEMMA NextCopy ==
  ASSUME SingleInv, KindInv, SyncInv, ChosenInv, CopyInv, [Next]_vars
  PROVE  CopyInv'
<1> USE DEF singleVars
<1>0. pc \in [Thread -> PC] /\ at \in [Thread -> 1..(NumConstructs + 1)]
      /\ do_work \in [Thread -> BOOLEAN]
  BY SingleFacts
<1>1. ASSUME NEW i \in Thread,
             Enter(i) \/ SingleLock(i) \/ SingleTest(i) \/ SingleCount(i)
             \/ SingleUnlock(i) \/ SingleLeave(i)
      PROVE  CopyInv'
  <2>1. /\ UNCHANGED <<program, copyVars, at>>
        /\ \A j \in Thread : j # i => pc'[j] = pc[j] /\ do_work'[j] = do_work[j]
        /\ pc'[i] \in {"lock", "test", "count", "unlock", "leave", "work", "store"}
    BY <1>0, <1>1 DEF Enter, SingleLock, SingleTest, SingleCount, SingleUnlock,
                      SingleLeave, Goto
  <2>2. QED BY <2>1, CopyKept
<1>2. ASSUME NEW i \in Thread, Work(i) \/ Merge(i), program[at[i]] # "copyprivate"
      PROVE  CopyInv'
  <2>1. /\ UNCHANGED <<program, copyVars, do_work>>
        /\ \A j \in Thread : j # i => pc'[j] = pc[j] /\ at'[j] = at[j]
        /\ pc'[i] = "body" \/ at'[i] = at[i]
    BY <1>0, <1>2 DEF Work, Merge, Finish, Goto, copyVars
  <2>2. QED BY <1>2, <2>1, CopyKept
<1>3. ASSUME NEW i \in Thread, Work(i), program[at[i]] = "copyprivate" PROVE CopyInv'
  BY <1>3, CopyWork
<1>4. ASSUME NEW i \in Thread, Merge(i) PROVE program[at[i]] # "copyprivate"
  BY <1>4 DEF Merge, Finish, Goto, KindInv
<1>5. ASSUME NEW i \in Thread, Publish(i) \/ Copy(i) \/ UserWrite(i) PROVE CopyInv'
  BY <1>5, CopyPublish, CopyCopy, CopyWrite
<1>6. ASSUME NEW i \in Thread, Store(i) \/ Combine(i) PROVE CopyInv'
  <2>1. /\ UNCHANGED <<program, copyVars, do_work, at>>
        /\ \A j \in Thread : j # i => pc'[j] = pc[j]
        /\ program[at[i]] = "reduce"
    BY <1>0, <1>6 DEF Store, Combine, Goto, KindInv
  <2>2. QED BY <2>1, CopyKept
<1>7. CASE ReleaseFirst
  <2>1. /\ UNCHANGED <<program, copyVars, do_work, at>>
        /\ \A i \in Thread : pc[i] = "bar1" /\ pc'[i] = AfterFirst(i)
    BY <1>7 DEF ReleaseFirst
  <2>2. \A i \in Thread : pc'[i] = "copy" \/ program[at'[i]] # "copyprivate"
    BY <2>1 DEF AfterFirst
  <2>3. QED BY <2>1, <2>2, CopyKept
<1>8. CASE ReleaseSecond
  <2>1. UNCHANGED <<program, copyVars>> /\ \A i \in Thread : pc'[i] \in {"body", "merge"}
    BY <1>8 DEF ReleaseSecond, AfterSecond
  <2>2. QED BY <2>1, CopyKept
<1>9. CASE UNCHANGED vars
  BY <1>9 DEF vars, copyVars, CopyInv
<1>10. QED
  BY <1>1, <1>2, <1>3, <1>4, <1>5, <1>6, <1>7, <1>8, <1>9 DEF Next, Step, Release

(***************************************************************************)
(* The reduction.                                                          *)
(***************************************************************************)

\* A thread that does not combine, or has just begun to, has its own share.
LEMMA SharesOwn ==
  ASSUME NEW i \in Thread, pc[i] # "merge",
         ~Past(i) \/ ~do_work[i] \/ program[at[i]] # "reduce"
  PROVE  Shares(i) = [t \in Thread |-> IF t = i THEN 1 ELSE 0]
  BY DEF Shares

\* A step that changes no data of a reduction.
LEMMA SumKept ==
  ASSUME SingleInv, SumInv, UNCHANGED <<program, reduceVars>>,
         \A i \in Thread :
           /\ at'[i] \in Nat /\ at'[i] >= at[i]
           /\ pc'[i] # "body" => pc[i] # "body" /\ Shares(i)' = Shares(i)
           /\ pc'[i] # "combine" => todo[i] = {}
           /\ (pc'[i] = "bar1" \/ Past(i)') /\ program[at'[i]] = "reduce" => reduce_data[i] = i
  PROVE  SumInv'
<1>1. UNCHANGED <<reduce_data, acc, todo, result>>
  BY DEF reduceVars
<1>2. ASSUME NEW i \in Thread
      PROVE  /\ pc'[i] # "body" => acc'[i] = Shares(i)'
             /\ i \notin todo'[i]
             /\ pc'[i] # "combine" => todo'[i] = {}
             /\ (pc'[i] = "bar1" \/ Past(i)') /\ program'[at'[i]] = "reduce" => reduce_data'[i] = i
  BY <1>1 DEF SumInv
<1>3. ASSUME NEW i \in Thread, NEW k \in Construct, at'[i] <= k PROVE result'[k] = NoShare
  BY <1>1, <1>3, SingleFacts DEF SumInv
<1>4. NoShare' = NoShare
  BY DEF NoShare
<1>5. QED BY <1>1, <1>2, <1>3, <1>4 DEF SumInv

\* A step of one thread within its construct that changes no data and does not
\* take it into or out of the reduction's own part.
LEMMA SumMove ==
  ASSUME SingleInv, SumInv, NEW i \in Thread, UNCHANGED <<program, reduceVars, at>>,
         \A j \in Thread : j # i => pc'[j] = pc[j] /\ do_work'[j] = do_work[j],
         pc[i] \notin {"body", "merge"}, pc'[i] # "merge",
         \/ ~Past(i) /\ pc'[i] \notin {"bar1", "copy", "combine", "bar2"}
         \/ program[at[i]] # "reduce" /\ pc[i] # "combine"
         \/ Past(i) /\ Past(i)' /\ do_work'[i] = do_work[i] /\ todo[i] = {}
  PROVE  SumInv'
<1>1. UNCHANGED todo
  BY DEF reduceVars
<1>2. ASSUME NEW j \in Thread, j # i
      PROVE  (Past(j)' <=> Past(j)) /\ Shares(j)' = Shares(j)
  <2>1. Past(j)' <=> Past(j)
    BY <1>2 DEF Past
  <2>2. QED BY <1>1, <1>2, <2>1 DEF Shares
<1>3. Shares(i)' = Shares(i)
  BY <1>1 DEF Shares, Past
<1>4. \A j \in Thread : at[j] \in Nat
  BY SingleFacts
<1>5. ASSUME NEW j \in Thread
      PROVE  /\ at'[j] \in Nat /\ at'[j] >= at[j]
             /\ pc'[j] # "body" => pc[j] # "body" /\ Shares(j)' = Shares(j)
             /\ pc'[j] # "combine" => todo[j] = {}
             /\ (pc'[j] = "bar1" \/ Past(j)') /\ program[at'[j]] = "reduce" => reduce_data[j] = j
  <2>1. CASE j # i
    BY <1>2, <1>4, <2>1 DEF SumInv
  <2>2. CASE j = i
    <3>1. pc'[j] # "combine" => todo[j] = {}
      BY <2>2 DEF SumInv, Past
    <3>2. (pc'[j] = "bar1" \/ Past(j)') /\ program[at'[j]] = "reduce" => reduce_data[j] = j
      BY <2>2 DEF SumInv, Past
    <3>3. QED BY <1>3, <1>4, <2>2, <3>1, <3>2
  <2>3. QED BY <2>1, <2>2
<1>6. QED BY <1>5, SumKept

\* The thread comes to a construct with its own share.
LEMMA SumEnter ==
  ASSUME SingleInv, SumInv, NEW i \in Thread, Enter(i)
  PROVE  SumInv'
<1>1. /\ pc[i] = "body" /\ UNCHANGED <<program, at, do_work, reduce_data, todo, result>>
      /\ \A j \in Thread : pc'[j] = IF j = i THEN "lock" ELSE pc[j]
      /\ acc' = [acc EXCEPT ![i] = [NoShare EXCEPT ![i] = 1]]
      /\ acc \in [Thread -> [Thread -> Nat]]
  BY SingleFacts DEF Enter, Goto, singleVars, SumInv
<1>2. /\ [NoShare EXCEPT ![i] = 1] = [t \in Thread |-> IF t = i THEN 1 ELSE 0]
      /\ [NoShare EXCEPT ![i] = 1] \in [Thread -> Nat]
  BY DEF NoShare
<1>3. /\ acc' \in [Thread -> [Thread -> Nat]]
      /\ \A j \in Thread : acc'[j] = IF j = i THEN [NoShare EXCEPT ![i] = 1] ELSE acc[j]
  BY <1>1, <1>2
<1>4. ASSUME NEW j \in Thread, j # i
      PROVE  (Past(j)' <=> Past(j)) /\ Shares(j)' = Shares(j)
  <2>1. Past(j)' <=> Past(j)
    BY <1>1, <1>4 DEF Past
  <2>2. QED BY <1>1, <1>4, <2>1 DEF Shares
<1>5. ~Past(i)' /\ Shares(i)' = [t \in Thread |-> IF t = i THEN 1 ELSE 0]
  BY <1>1 DEF Past, Shares
<1>6. ASSUME NEW j \in Thread
      PROVE  /\ pc'[j] # "body" => acc'[j] = Shares(j)'
             /\ j \notin todo'[j]
             /\ pc'[j] # "combine" => todo'[j] = {}
             /\ (pc'[j] = "bar1" \/ Past(j)') /\ program'[at'[j]] = "reduce" => reduce_data'[j] = j
  <2>1. CASE j = i
    BY <1>1, <1>2, <1>3, <1>5, <2>1 DEF SumInv
  <2>2. CASE j # i
    BY <1>1, <1>3, <1>4, <2>2 DEF SumInv
  <2>3. QED BY <2>1, <2>2
<1>7. NoShare' = NoShare
  BY DEF NoShare
<1>8. QED BY <1>1, <1>3, <1>6, <1>7 DEF SumInv

\* The slot of a thread points to its data.
LEMMA SumStore ==
  ASSUME SingleInv, KindInv, SumInv, NEW i \in Thread, Store(i)
  PROVE  SumInv'
<1>1. /\ pc[i] = "store" /\ UNCHANGED <<program, at, do_work, acc, todo, result>>
      /\ \A j \in Thread : pc'[j] = IF j = i THEN "bar1" ELSE pc[j]
      /\ reduce_data' = [reduce_data EXCEPT ![i] = i]
      /\ reduce_data \in [Thread -> Thread \cup {None}]
  BY SingleFacts DEF Store, Goto, singleVars, SumInv
<1>2. /\ reduce_data' \in [Thread -> Thread \cup {None}]
      /\ \A j \in Thread : reduce_data'[j] = IF j = i THEN i ELSE reduce_data[j]
  BY <1>1
<1>3. ASSUME NEW j \in Thread
      PROVE  (Past(j)' <=> Past(j)) /\ Shares(j)' = Shares(j)
  <2>1. Past(j)' <=> Past(j)
    BY <1>1 DEF Past
  <2>2. QED BY <1>1, <2>1 DEF Shares
<1>4. ASSUME NEW j \in Thread
      PROVE  /\ pc'[j] # "body" => acc'[j] = Shares(j)'
             /\ j \notin todo'[j]
             /\ pc'[j] # "combine" => todo'[j] = {}
             /\ (pc'[j] = "bar1" \/ Past(j)') /\ program'[at'[j]] = "reduce" => reduce_data'[j] = j
  <2>1. CASE j = i
    BY <1>1, <1>2, <1>3, <2>1 DEF SumInv
  <2>2. CASE j # i
    BY <1>1, <1>2, <1>3, <2>2 DEF SumInv
  <2>3. QED BY <2>1, <2>2
<1>5. NoShare' = NoShare
  BY DEF NoShare
<1>6. QED BY <1>1, <1>2, <1>4, <1>5 DEF SumInv

\* The winner adds the share of one slot, which its thread still keeps.
LEMMA SumCombine ==
  ASSUME SingleInv, KindInv, SyncInv, ChosenInv, SumInv, NEW i \in Thread, NEW j \in todo[i],
         pc[i] = "combine", UNCHANGED <<program, at, pc, do_work, reduce_data, result>>,
         acc' = [acc EXCEPT ![i] = [t \in Thread |-> @[t] + acc[reduce_data[j]][t]]],
         todo' = [todo EXCEPT ![i] = @ \ {j}]
  PROVE  SumInv'
<1>1. /\ acc \in [Thread -> [Thread -> Nat]] /\ todo \in [Thread -> SUBSET Thread]
      /\ j \in Thread /\ j # i /\ program[at[i]] = "reduce" /\ Past(i) /\ do_work[i]
  BY DEF SumInv, KindInv, ChosenInv, Past
<1>2. Past(j) /\ at[j] = at[i]
  BY <1>1 DEF SyncInv
<1>3. pc[j] \notin Uncounted /\ pc[i] \notin Uncounted /\ pc[j] \notin {"body", "merge"}
  BY <1>2 DEF Past, Uncounted
<1>4. ~do_work[j]
  BY <1>1, <1>2, <1>3, OneWinner
<1>5. reduce_data[j] = j /\ acc[j] = [t \in Thread |-> IF t = j THEN 1 ELSE 0]
  BY <1>1, <1>2, <1>3, <1>4, SharesOwn DEF SumInv
<1>6. acc[i] = [t \in Thread |-> IF t \in todo[i] THEN 0 ELSE 1]
  BY <1>1 DEF SumInv, Shares
<1>7. /\ todo' \in [Thread -> SUBSET Thread]
      /\ \A t \in Thread : todo'[t] = IF t = i THEN todo[i] \ {j} ELSE todo[t]
  BY <1>1
<1>8. [t \in Thread |-> acc[i][t] + acc[reduce_data[j]][t]]
        = [t \in Thread |-> IF t \in todo'[i] THEN 0 ELSE 1]
  BY <1>1, <1>5, <1>6, <1>7
<1>9. [t \in Thread |-> IF t \in todo'[i] THEN 0 ELSE 1] \in [Thread -> Nat]
  OBVIOUS
<1>10. /\ acc' \in [Thread -> [Thread -> Nat]]
       /\ \A t \in Thread : acc'[t] = IF t = i THEN [x \in Thread |-> IF x \in todo'[i] THEN 0 ELSE 1]
                                      ELSE acc[t]
  <2>1. acc' = [acc EXCEPT ![i] = [t \in Thread |-> acc[i][t] + acc[reduce_data[j]][t]]]
    OBVIOUS
  <2>2. QED BY <1>1, <1>8, <1>9, <2>1
<1>11. \A t \in Thread : Past(t)' <=> Past(t)
  BY DEF Past
<1>12. ASSUME NEW t \in Thread
       PROVE  /\ pc'[t] # "body" => acc'[t] = Shares(t)'
              /\ t \notin todo'[t]
              /\ pc'[t] # "combine" => todo'[t] = {}
              /\ (pc'[t] = "bar1" \/ Past(t)') /\ program'[at'[t]] = "reduce" => reduce_data'[t] = t
  <2>1. CASE t = i
    <3>1. Shares(t)' = [x \in Thread |-> IF x \in todo'[i] THEN 0 ELSE 1]
      BY <1>1, <1>11, <2>1 DEF Shares
    <3>2. acc'[t] = Shares(t)'
      BY <1>10, <2>1, <3>1
    <3>3. QED BY <1>7, <1>11, <2>1, <3>2 DEF SumInv
  <2>2. CASE t # i
    <3>1. acc'[t] = acc[t] /\ todo'[t] = todo[t]
      BY <1>7, <1>10, <2>2
    <3>2. Shares(t)' = Shares(t)
      BY <1>11, <3>1 DEF Shares
    <3>3. QED BY <1>11, <3>1, <3>2 DEF SumInv
  <2>3. QED BY <2>1, <2>2
<1>13. NoShare' = NoShare
  BY DEF NoShare
<1>14. QED BY <1>7, <1>10, <1>12, <1>13 DEF SumInv

\* The winner's data, with every share once, goes into the shared variable.
LEMMA SumMerge ==
  ASSUME SingleInv, KindInv, SyncInv, SumInv, NEW i \in Thread, Merge(i)
  PROVE  SumInv'
<1>1. /\ pc[i] = "merge" /\ UNCHANGED <<program, do_work, reduce_data, todo>>
      /\ \A j \in Thread : pc'[j] = IF j = i THEN "body" ELSE pc[j]
      /\ \A j \in Thread : at'[j] = IF j = i THEN at[i] + 1 ELSE at[j]
      /\ result' = [result EXCEPT ![at[i]] = [t \in Thread |-> @[t] + acc[i][t]]]
      /\ acc' = [acc EXCEPT ![i] = NoShare]
      /\ program[at[i]] = "reduce" /\ at[i] \in Construct /\ at[i] \in Nat
  BY SingleFacts DEF Merge, Finish, Goto, singleVars, KindInv
<1>2. /\ acc \in [Thread -> [Thread -> Nat]] /\ NoShare \in [Thread -> Nat]
      /\ result \in [Construct -> {NoShare, [t \in Thread |-> 1]}]
      /\ NoShare' = NoShare
  BY DEF SumInv, NoShare
<1>3. /\ acc' \in [Thread -> [Thread -> Nat]]
      /\ \A j \in Thread : j # i => acc'[j] = acc[j]
  BY <1>1, <1>2
<1>4. acc[i] = [t \in Thread |-> 1]
  <2>1. todo[i] = {} /\ acc[i] = Shares(i)
    BY <1>1 DEF SumInv
  <2>2. QED BY <1>1, <2>1 DEF Shares
<1>5. result[at[i]] = NoShare
  BY <1>1 DEF SumInv
<1>6. [t \in Thread |-> result[at[i]][t] + acc[i][t]] = [t \in Thread |-> 1]
  BY <1>4, <1>5 DEF NoShare
<1>7. /\ result' \in [Construct -> {NoShare, [t \in Thread |-> 1]}]
      /\ \A k \in Construct : k # at[i] => result'[k] = result[k]
  <2>1. result' = [result EXCEPT ![at[i]] = [t \in Thread |-> 1]]
    BY <1>1, <1>6
  <2>2. QED BY <1>1, <1>2, <2>1
<1>8. ASSUME NEW j \in Thread, NEW k \in Construct, at'[j] <= k
      PROVE  result'[k] = NoShare
  <2>1. k \in Nat /\ at[j] \in Nat
    BY SingleFacts
  <2>2. at[j] <= k /\ k # at[i]
    <3>1. CASE j = i
      BY <1>1, <1>8, <2>1, <3>1
    <3>2. CASE j # i
      BY <1>1, <1>8, <2>1, <3>2 DEF SyncInv
    <3>3. QED BY <3>1, <3>2
  <2>3. QED BY <1>7, <2>1, <2>2 DEF SumInv
<1>9. ASSUME NEW j \in Thread
      PROVE  /\ pc'[j] # "body" => acc'[j] = Shares(j)'
             /\ j \notin todo'[j]
             /\ pc'[j] # "combine" => todo'[j] = {}
             /\ (pc'[j] = "bar1" \/ Past(j)') /\ program'[at'[j]] = "reduce" => reduce_data'[j] = j
  <2>1. CASE j = i
    BY <1>1, <2>1 DEF SumInv, Past
  <2>2. CASE j # i
    <3>1. Past(j)' <=> Past(j)
      BY <1>1, <2>2 DEF Past
    <3>2. Shares(j)' = Shares(j)
      BY <1>1, <2>2, <3>1 DEF Shares
    <3>3. QED BY <1>1, <1>3, <2>2, <3>1, <3>2 DEF SumInv
  <2>3. QED BY <2>1, <2>2
<1>10. QED BY <1>1, <1>2, <1>3, <1>7, <1>8, <1>9 DEF SumInv

\* The first barrier: the winner of a reduction has everybody else's slot to do.
LEMMA SumFirst ==
  ASSUME SingleInv, KindInv, ChosenInv, SumInv, ReleaseFirst
  PROVE  SumInv'
<1>1. /\ UNCHANGED <<program, at, do_work, reduce_data, acc, result>>
      /\ \A i \in Thread :
           pc[i] = "bar1" /\ pc'[i] = AfterFirst(i) /\ program[at[i]] \in {"copyprivate", "reduce"}
      /\ todo' = [i \in Thread |-> IF AfterFirst(i) = "combine" THEN Thread \ {i} ELSE {}]
  BY DEF ReleaseFirst, singleVars, KindInv
<1>2. todo' \in [Thread -> SUBSET Thread]
  BY <1>1
<1>3. ASSUME NEW i \in Thread
      PROVE  /\ pc'[i] # "body" => acc'[i] = Shares(i)'
             /\ i \notin todo'[i]
             /\ pc'[i] # "combine" => todo'[i] = {}
             /\ (pc'[i] = "bar1" \/ Past(i)') /\ program'[at'[i]] = "reduce" => reduce_data'[i] = i
  <2>1. acc[i] = [t \in Thread |-> IF t = i THEN 1 ELSE 0]
    BY <1>1, SharesOwn DEF SumInv, Past
  <2>2. Shares(i)' = [t \in Thread |-> IF t = i THEN 1 ELSE 0]
    <3>1. CASE program[at[i]] = "reduce" /\ do_work[i]
      <4>1. todo'[i] = Thread \ {i} /\ pc'[i] = "combine"
        BY <1>1, <3>1 DEF AfterFirst
      <4>2. Past(i)'
        BY <4>1 DEF Past
      <4>3. QED BY <1>1, <3>1, <4>1, <4>2 DEF Shares
    <3>2. CASE ~(program[at[i]] = "reduce" /\ do_work[i])
      <4>1. pc'[i] # "merge"
        BY <1>1 DEF AfterFirst
      <4>2. QED BY <1>1, <3>2, <4>1 DEF Shares
    <3>3. QED BY <3>1, <3>2
  <2>3. i \notin todo'[i] /\ (pc'[i] # "combine" => todo'[i] = {})
    BY <1>1
  <2>4. (pc'[i] = "bar1" \/ Past(i)') /\ program'[at'[i]] = "reduce" => reduce_data'[i] = i
    BY <1>1 DEF SumInv
  <2>5. QED BY <1>1, <2>1, <2>2, <2>3, <2>4
<1>4. NoShare' = NoShare
  BY DEF NoShare
<1>5. QED BY <1>1, <1>2, <1>3, <1>4 DEF SumInv

\* The second barrier: the winner keeps what it has combined.
LEMMA SumSecond ==
  ASSUME SingleInv, KindInv, SumInv, ReleaseSecond
  PROVE  SumInv'
<1>1. /\ UNCHANGED <<program, do_work, reduce_data, todo, result>>
      /\ \A i \in Thread :
           /\ pc[i] = "bar2" /\ pc'[i] = AfterSecond(i)
           /\ at'[i] = IF AfterSecond(i) = "body" THEN at[i] + 1 ELSE at[i]
           /\ acc'[i] = IF AfterSecond(i) = "body" THEN NoShare ELSE acc[i]
      /\ acc' = [i \in Thread |-> IF AfterSecond(i) = "body" THEN NoShare ELSE acc[i]]
  BY DEF ReleaseSecond, singleVars
<1>2. acc' \in [Thread -> [Thread -> Nat]] /\ NoShare' = NoShare
  BY <1>1 DEF SumInv, NoShare
<1>3. ASSUME NEW i \in Thread
      PROVE  /\ pc'[i] # "body" => acc'[i] = Shares(i)'
             /\ i \notin todo'[i]
             /\ pc'[i] # "combine" => todo'[i] = {}
             /\ (pc'[i] = "bar1" \/ Past(i)') /\ program'[at'[i]] = "reduce" => reduce_data'[i] = i
  <2>1. i \notin todo'[i] /\ todo'[i] = {}
    BY <1>1 DEF SumInv
  <2>2. ~Past(i)' /\ pc'[i] # "bar1"
    BY <1>1 DEF Past, AfterSecond
  <2>3. CASE AfterSecond(i) = "body"
    BY <1>1, <2>1, <2>2, <2>3
  <2>4. CASE AfterSecond(i) # "body"
    <3>1. program[at[i]] = "reduce" /\ do_work[i] /\ pc'[i] = "merge" /\ at'[i] = at[i]
      BY <1>1, <2>4 DEF AfterSecond
    <3>2. Past(i)
      BY <1>1, <3>1 DEF Past
    <3>3. Shares(i)' = Shares(i)
      BY <1>1, <3>1, <3>2 DEF Shares
    <3>4. acc'[i] = acc[i] /\ acc[i] = Shares(i)
      BY <1>1, <2>4 DEF SumInv
    <3>5. QED BY <2>1, <2>2, <3>3, <3>4
  <2>5. QED BY <2>3, <2>4
<1>4. ASSUME NEW i \in Thread, NEW k \in Construct, at'[i] <= k PROVE result'[k] = NoShare
  <2>1. at[i] <= k
    BY <1>1, <1>4, SingleFacts
  <2>2. QED BY <1>1, <2>1 DEF SumInv
<1>5. QED BY <1>1, <1>2, <1>3, <1>4 DEF SumInv

\* Every step keeps the shares right.
LEMMA NextSum ==
  ASSUME SingleInv, KindInv, SyncInv, ChosenInv, SumInv, [Next]_vars
  PROVE  SumInv'
<1> USE DEF singleVars
<1>0. pc \in [Thread -> PC] /\ do_work \in [Thread -> BOOLEAN]
  BY SingleFacts
<1>1. ASSUME NEW i \in Thread, Enter(i) \/ Store(i) \/ Merge(i) PROVE SumInv'
  BY <1>1, SumEnter, SumStore, SumMerge
<1>2. ASSUME NEW i \in Thread,
             SingleLock(i) \/ SingleTest(i) \/ SingleCount(i) \/ SingleUnlock(i) \/ SingleLeave(i)
      PROVE  SumInv'
  <2>1. /\ UNCHANGED <<program, reduceVars, at>>
        /\ \A j \in Thread : j # i => pc'[j] = pc[j] /\ do_work'[j] = do_work[j]
        /\ pc[i] \in {"lock", "test", "count", "unlock", "leave"}
        /\ pc'[i] \in {"test", "count", "unlock", "leave", "store", "work"}
    BY <1>0, <1>2 DEF SingleLock, SingleTest, SingleCount, SingleUnlock, SingleLeave, Goto
  <2>2. ~Past(i)
    BY <2>1 DEF Past
  <2>3. QED BY <2>1, <2>2, SumMove
<1>3. ASSUME NEW i \in Thread, Work(i), program[at[i]] = "nowait" PROVE SumInv'
  <2>1. /\ UNCHANGED <<program, reduceVars, do_work>>
        /\ pc[i] = "work"
        /\ \A j \in Thread : pc'[j] = IF j = i THEN "body" ELSE pc[j]
        /\ \A j \in Thread : at'[j] = IF j = i THEN at[i] + 1 ELSE at[j]
        /\ UNCHANGED todo
    BY <1>3, SingleFacts DEF Work, Finish, Goto, reduceVars
  <2>2. ASSUME NEW j \in Thread
        PROVE  /\ at'[j] \in Nat /\ at'[j] >= at[j]
               /\ pc'[j] # "body" => pc[j] # "body" /\ Shares(j)' = Shares(j)
               /\ pc'[j] # "combine" => todo[j] = {}
               /\ (pc'[j] = "bar1" \/ Past(j)') /\ program[at'[j]] = "reduce" => reduce_data[j] = j
    <3>1. at[j] \in Nat
      BY SingleFacts
    <3>2. CASE j = i
      BY <2>1, <3>1, <3>2 DEF SumInv, Past
    <3>3. CASE j # i
      <4>1. Past(j)' <=> Past(j)
        BY <2>1, <3>3 DEF Past
      <4>2. Shares(j)' = Shares(j)
        BY <2>1, <3>3, <4>1 DEF Shares
      <4>3. QED BY <2>1, <3>1, <3>3, <4>1, <4>2 DEF SumInv
    <3>4. QED BY <3>2, <3>3
  <2>3. QED BY <2>1, <2>2, SumKept
<1>4. ASSUME NEW i \in Thread, Work(i) \/ Publish(i) \/ Copy(i), program[at[i]] # "nowait"
      PROVE  SumInv'
  <2>1. /\ UNCHANGED <<program, reduceVars, at>>
        /\ \A j \in Thread : j # i => pc'[j] = pc[j] /\ do_work'[j] = do_work[j]
        /\ pc[i] \in {"work", "publish", "copy"} /\ pc'[i] # "merge"
        /\ program[at[i]] # "reduce"
    BY <1>0, <1>4 DEF Work, Publish, Copy, Goto, KindInv
  <2>2. QED BY <2>1, SumMove
<1>5. ASSUME NEW i \in Thread, Publish(i) \/ Copy(i) PROVE program[at[i]] # "nowait"
  BY <1>5 DEF Publish, Copy, Goto, KindInv
<1>6. ASSUME NEW i \in Thread, Combine(i) PROVE SumInv'
  <2>1. CASE pc[i] = "combine" /\ todo[i] # {}
    <3>1. PICK j \in todo[i] :
            /\ acc' = [acc EXCEPT ![i] = [t \in Thread |-> @[t] + acc[reduce_data[j]][t]]]
            /\ todo' = [todo EXCEPT ![i] = @ \ {j}]
            /\ UNCHANGED <<program, at, pc, do_work, reduce_data, result>>
      BY <1>6, <2>1 DEF Combine
    <3>2. QED BY <2>1, <3>1, SumCombine
  <2>2. CASE todo[i] = {}
    <3>1. /\ UNCHANGED <<program, reduceVars, at, do_work>>
          /\ \A j \in Thread : pc'[j] = IF j = i THEN "bar2" ELSE pc[j]
          /\ pc[i] = "combine"
      BY <1>0, <1>6, <2>2 DEF Combine, Goto
    <3>2. Past(i) /\ Past(i)'
      BY <3>1 DEF Past, KindInv
    <3>3. QED BY <2>2, <3>1, <3>2, SumMove
  <2>3. QED BY <1>6, <2>1, <2>2 DEF Combine, Goto
<1>7. CASE ReleaseFirst \/ ReleaseSecond
  BY <1>7, SumFirst, SumSecond
<1>8. CASE UNCHANGED vars \/ \E i \in Thread : UserWrite(i)
  <2>1. UNCHANGED <<program, at, pc, do_work, reduce_data, acc, todo, result>>
    BY <1>8 DEF vars, UserWrite, reduceVars
  <2>2. \A i \in Thread : (Past(i)' <=> Past(i)) /\ Shares(i)' = Shares(i)
    BY <2>1 DEF Past, Shares
  <2>3. NoShare' = NoShare
    BY DEF NoShare
  <2>4. QED BY <2>1, <2>2, <2>3 DEF SumInv
<1>9. QED
  BY <1>1, <1>2, <1>3, <1>4, <1>5, <1>6, <1>7, <1>8 DEF Next, Step, Release

\* A new team has published and combined nothing.
LEMMA InitData == Init => DataInv
<1> SUFFICES ASSUME Init PROVE DataInv
  OBVIOUS
<1>1. CopyInv
  BY DEF Init, CopyInv
<1>2. SumInv
  <2>1. \A i \in Thread : ~Past(i)
    BY DEF Init, Past
  <2>2. QED BY <2>1 DEF Init, SumInv, NoShare
<1>3. QED BY <1>1, <1>2, InitPlaces DEF DataInv

\* The team stays together, and what its constructs pass on is right.
THEOREM DataInvariant == Spec => []DataInv
<1>1. SingleInv /\ DataInv /\ [Next]_vars => DataInv'
  BY NextPlaces, NextCopy, NextSum DEF DataInv
<1>2. QED BY <1>1, InitData, SingleInvariant, PTL DEF Spec

\* A reduction adds the share of every thread of the team exactly once.
THEOREM ReduceCorrect == Spec => []ReduceExact
<1>1. DataInv => ReduceExact
  BY DEF DataInv, SumInv, ReduceExact
<1>2. QED BY <1>1, DataInvariant, PTL

\* Every thread leaves a copyprivate with the value of its winner.
THEOREM CopyprivateCorrect == Spec => CopyprivateDelivers
<1>1. DataInv
        => [\A i \in Thread :
              pc[i] = "bar2" /\ at'[i] # at[i] /\ program[at[i]] = "copyprivate" =>
                value[i] = at[i]]_vars
  BY DEF DataInv, CopyInv
<1>2. QED BY <1>1, DataInvariant, PTL DEF CopyprivateDelivers
=============================================================================
