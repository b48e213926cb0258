-------------------------- MODULE TeamTasksProofs --------------------------
(***************************************************************************)
(* Proofs about TeamTasks, for every team and every set of tasks.          *)
(***************************************************************************)
EXTENDS TeamTasks, FiniteSetTheorems, TLAPS

(***************************************************************************)
(* The counters, from what a step does to the sets they count.             *)
(***************************************************************************)

\* The sets the counters stand for are finite, so that their sizes are numbers.
LEMMA CountedFinite ==
  /\ IsFiniteSet(CountedByTeam)
  /\ \A a : IsFiniteSet(CountedByParent(a))
  /\ IsFiniteSet(Running)
<1>1. IsFiniteSet(CountedByTeam)
  BY TaskAssumption, FS_Subset DEF CountedByTeam
<1>2. \A a : IsFiniteSet(CountedByParent(a))
  <2>1. ASSUME NEW a PROVE IsFiniteSet(CountedByParent(a))
    BY TaskAssumption, FS_Subset DEF CountedByParent
  <2>2. QED BY <2>1
<1>3. IsFiniteSet(Running)
  BY ThreadAssumption, FS_Subset DEF Running
<1>4. QED BY <1>1, <1>2, <1>3

\* With no unfinished task counted, none is unfinished at all unless a call of
\* create_task is half way through.
LEMMA DrainedTeam ==
  ASSUME TypeOK, CountersExact, CreatorInv, num_tasks = 0,
         \A i \in Thread : pc[i] # "count"
  PROVE  Quiet
<1>1. CountedByTeam = {}
  BY CountedFinite, FS_EmptySet DEF CountersExact
<1>2. SUFFICES ASSUME NEW t \in Task PROVE pc[t] \in {"unborn", "done"}
  BY DEF Quiet
<1>3. pc[t] \in {"unborn", "alloc", "done"}
  BY <1>1 DEF CountedByTeam, TypeOK, TaskPC
<1>4. pc[t] # "alloc"
  <2>1. SUFFICES ASSUME pc[t] = "alloc" PROVE FALSE
    OBVIOUS
  <2>2. parent[t] \in Actor /\ pc[parent[t]] = "count"
    BY <2>1 DEF CreatorInv, TypeOK
  <2>3. parent[t] \in Task
    BY <2>2 DEF Actor
  <2>4. parent[t] \in CountedByTeam
    BY <2>2, <2>3 DEF CountedByTeam, Calls
  <2>5. QED BY <2>4, <1>1
<1>5. QED BY <1>3, <1>4

\* A step that leaves the three sets and the counters alone leaves the counters
\* exact.
LEMMA SameCounters ==
  ASSUME CountersExact,
         UNCHANGED <<num_child_tasks, num_tasks, running_threads>>,
         CountedByTeam' = CountedByTeam,
         \A a \in Actor : CountedByParent(a)' = CountedByParent(a),
         Running' = Running
  PROVE  CountersExact'
<1>1. ASSUME NEW a \in Actor
      PROVE  num_child_tasks'[a] = Cardinality(CountedByParent(a)')
  BY DEF CountersExact
<1>2. QED BY <1>1 DEF CountersExact

\* The counters are numbers as long as they are exact.
LEMMA CountersTyped ==
  ASSUME TypeOK, CountersExact',
         num_child_tasks' \in [Actor -> Int]
  PROVE  /\ num_child_tasks' \in [Actor -> Nat]
         /\ num_tasks' \in Nat
         /\ running_threads' \in Nat
<1>1. \A S : IsFiniteSet(S) => Cardinality(S) \in Nat
  BY FS_CardinalityType
<1>2. num_tasks' \in Nat
  <2>1. IsFiniteSet(CountedByTeam')
    BY TaskAssumption, FS_Subset DEF CountedByTeam
  <2>2. QED BY <1>1, <2>1 DEF CountersExact
<1>3. running_threads' \in Nat
  <2>1. IsFiniteSet(Running')
    BY ThreadAssumption, FS_Subset DEF Running
  <2>2. QED BY <1>1, <2>1 DEF CountersExact
<1>4. ASSUME NEW a \in Actor PROVE num_child_tasks'[a] \in Nat
  <2>1. IsFiniteSet(CountedByParent(a)')
    BY TaskAssumption, FS_Subset DEF CountedByParent
  <2>2. QED BY <1>1, <2>1 DEF CountersExact
<1>5. QED BY <1>2, <1>3, <1>4

(***************************************************************************)
(* One lemma per kind of step: it preserves the inductive invariant.       *)
(***************************************************************************)

\* Calls of user code in which no task is being created.
Resting == Calls \ {"count", "apply"}

\* A step that only moves one actor between places that count alike, none of
\* them in create_task, at globalBarrier or past the end of the thread.
LEMMA PlainStep ==
  ASSUME IInv, NEW a \in Actor, NEW from, NEW to,
         Goto(a, from, to),
         UNCHANGED <<fork_pc, parent, num_child_tasks, num_tasks, running_threads>>,
         barriers' \in [Thread -> Nat],
         a \in Task => {from, to} \subseteq Resting \cup {"pending", "dec_child"},
         a \in Thread =>
           {from, to} \subseteq ThreadPC \ {"count", "apply", "bar_enter",
                                           "bar_blocked", "notify", "done"}
  PROVE  IInv'
<1> USE DisjointAssumption
<1>1. /\ pc[a] = from /\ pc' = [pc EXCEPT ![a] = to]
      /\ pc \in [Actor -> ThreadPC \cup TaskPC]
      /\ a \in Thread \/ a \in Task
  BY DEF Goto, IInv, TypeOK, Actor
<1>2. \A b \in Actor : pc'[b] = IF b = a THEN to ELSE pc[b]
  BY <1>1
<1>3. TypeOK'
  BY <1>1, <1>2 DEF IInv, TypeOK, Resting, Calls, TaskPC, ThreadPC, Actor
<1>4. CountersExact'
  <2>1. CountedByTeam' = CountedByTeam
    BY <1>1, <1>2 DEF CountedByTeam, Resting, Actor
  <2>2. ASSUME NEW b \in Actor
        PROVE  CountedByParent(b)' = CountedByParent(b)
    BY <1>1, <1>2 DEF CountedByParent, Resting, Actor
  <2>3. Running' = Running
    BY <1>1, <1>2 DEF Running, Actor
  <2>4. QED BY <2>1, <2>2, <2>3, SameCounters DEF IInv
<1>5. CreatorInv'
  BY <1>1, <1>2, <1>3 DEF IInv, CreatorInv, TypeOK, Resting, Calls, TaskPC, Actor
<1>6. BarrierInv'
  <2>1. CASE a \in Thread
    BY <1>1, <1>2, <2>1 DEF BarrierInv, Actor
  <2>2. CASE a \in Task
    <3>1. ~Quiet
      BY <1>1, <2>2 DEF Quiet, Resting, Calls
    <3>2. QED BY <1>2, <2>2, <3>1 DEF IInv, BarrierInv, Actor
  <2>3. QED BY <1>1, <2>1, <2>2
<1>7. JoinInv'
  <2>1. CASE a \in Thread
    BY <1>1, <1>2, <2>1 DEF IInv, JoinInv, Actor
  <2>2. CASE a \in Task
    <3>1. ~Quiet
      BY <1>1, <2>2 DEF Quiet, Resting, Calls
    <3>2. QED BY <1>2, <2>2, <3>1 DEF IInv, JoinInv, Actor
  <2>3. QED BY <1>1, <2>1, <2>2
<1>8. QED BY <1>3, <1>4, <1>5, <1>6, <1>7 DEF IInv

\* create_task: the thunk exists and its parent counts it.
LEMMA CreateTaskStep ==
  ASSUME IInv, NEW a \in Actor, NEW t \in Task, CreateTask(a, t)
  PROVE  IInv'
<1> USE DisjointAssumption
<1>1. /\ pc[a] = "body" /\ pc[t] = "unborn" /\ a # t /\ t \in Actor
      /\ pc' = [pc EXCEPT ![a] = "count", ![t] = "alloc"]
      /\ pc \in [Actor -> ThreadPC \cup TaskPC]
      /\ parent \in [Task -> Actor]
  BY DEF CreateTask, IInv, TypeOK, Actor
<1>2. \A b \in Actor :
        pc'[b] = IF b = a THEN "count" ELSE IF b = t THEN "alloc" ELSE pc[b]
  BY <1>1
<1>3. \A u \in Task : parent'[u] = IF u = t THEN a ELSE parent[u]
  BY <1>1 DEF CreateTask
<1>4. CountersExact'
  <2>1. CountedByTeam' = CountedByTeam
    BY <1>1, <1>2 DEF CountedByTeam, Calls, Actor
  <2>2. ASSUME NEW b \in Actor
        PROVE  num_child_tasks'[b] = Cardinality(CountedByParent(b)')
    <3>1. CASE b = a
      <4>1. CountedByParent(b)' = CountedByParent(b) \cup {t}
        BY <1>1, <1>2, <1>3, <3>1 DEF CountedByParent, Calls, Actor
      <4>2. t \notin CountedByParent(b)
        BY <1>1 DEF CountedByParent, Calls
      <4>3. Cardinality(CountedByParent(b)') = Cardinality(CountedByParent(b)) + 1
        <5>1. IsFiniteSet(CountedByParent(b))
          BY CountedFinite
        <5>2. QED BY <4>1, <4>2, <5>1, FS_AddElement
      <4>4. num_child_tasks'[b] = num_child_tasks[b] + 1
        BY <3>1 DEF CreateTask, IInv, TypeOK
      <4>5. num_child_tasks[b] = Cardinality(CountedByParent(b))
        BY DEF IInv, CountersExact
      <4>6. QED BY <4>3, <4>4, <4>5
    <3>2. CASE b # a
      <4>1. CountedByParent(b)' = CountedByParent(b)
        BY <1>1, <1>2, <1>3, <3>2 DEF CountedByParent, Calls, Actor
      <4>2. QED BY <3>2, <4>1 DEF CreateTask, IInv, TypeOK, CountersExact
    <3>3. QED BY <3>1, <3>2
  <2>3. Running' = Running
    BY <1>1, <1>2 DEF Running, Actor
  <2>4. QED BY <2>1, <2>2, <2>3 DEF CreateTask, IInv, CountersExact
<1>5. TypeOK'
  BY <1>1, <1>2, <1>4, CountersTyped
     DEF CreateTask, IInv, TypeOK, Calls, ThreadPC, TaskPC, Actor
<1>6. CreatorInv'
  <2>1. ASSUME NEW u \in Task
        PROVE  /\ pc'[u] = "alloc" => pc'[parent'[u]] = "count"
               /\ pc'[u] = "counted" => pc'[parent'[u]] = "apply"
               /\ pc'[u] = "unborn" => parent'[u] = u
    BY <1>1, <1>2, <1>3 DEF IInv, CreatorInv, Actor
  <2>2. ASSUME NEW u \in Task, NEW v \in Task,
               pc'[u] \in {"alloc", "counted"}, pc'[v] \in {"alloc", "counted"},
               parent'[u] = parent'[v]
        PROVE  u = v
    BY <1>1, <1>2, <1>3, <2>2 DEF IInv, CreatorInv, Actor
  <2>3. QED BY <2>1, <2>2 DEF CreatorInv
<1>7. BarrierInv'
  BY <1>1, <1>2 DEF IInv, BarrierInv, Quiet, Actor
<1>8. JoinInv'
  BY <1>1, <1>2 DEF CreateTask, IInv, JoinInv, Quiet, Actor
<1>9. QED BY <1>4, <1>5, <1>6, <1>7, <1>8 DEF IInv

\* create_task: the team counts the thunk.
LEMMA CountTaskStep ==
  ASSUME IInv, NEW a \in Actor, NEW t \in Task, CountTask(a, t)
  PROVE  IInv'
<1> USE DisjointAssumption
<1>1. /\ pc[a] = "count" /\ pc[t] = "alloc" /\ parent[t] = a /\ a # t /\ t \in Actor
      /\ pc' = [pc EXCEPT ![a] = "apply", ![t] = "counted"]
      /\ pc \in [Actor -> ThreadPC \cup TaskPC]
      /\ parent' = parent /\ parent \in [Task -> Actor]
  BY DEF CountTask, IInv, TypeOK, Actor
<1>2. \A b \in Actor :
        pc'[b] = IF b = a THEN "apply" ELSE IF b = t THEN "counted" ELSE pc[b]
  BY <1>1
<1>3. CountersExact'
  <2>1. num_tasks' = Cardinality(CountedByTeam')
    <3>1. CountedByTeam' = CountedByTeam \cup {t}
      BY <1>1, <1>2 DEF CountedByTeam, Calls, Actor
    <3>2. t \notin CountedByTeam
      BY <1>1 DEF CountedByTeam, Calls
    <3>3. QED
      BY <3>1, <3>2, CountedFinite, FS_AddElement DEF CountTask, IInv, CountersExact
  <2>2. ASSUME NEW b \in Actor
        PROVE  CountedByParent(b)' = CountedByParent(b)
    BY <1>1, <1>2 DEF CountedByParent, Calls, Actor
  <2>3. Running' = Running
    BY <1>1, <1>2 DEF Running, Actor
  <2>4. QED BY <2>1, <2>2, <2>3 DEF CountTask, IInv, CountersExact
<1>4. TypeOK'
  BY <1>1, <1>2, <1>3, CountersTyped
     DEF CountTask, IInv, TypeOK, Calls, ThreadPC, TaskPC, Actor
<1>5. CreatorInv'
  <2>1. ASSUME NEW u \in Task
        PROVE  /\ pc'[u] = "alloc" => pc'[parent'[u]] = "count"
               /\ pc'[u] = "counted" => pc'[parent'[u]] = "apply"
               /\ pc'[u] = "unborn" => parent'[u] = u
    BY <1>1, <1>2 DEF IInv, CreatorInv, Actor
  <2>2. ASSUME NEW u \in Task, NEW v \in Task,
               pc'[u] \in {"alloc", "counted"}, pc'[v] \in {"alloc", "counted"},
               parent'[u] = parent'[v]
        PROVE  u = v
    BY <1>1, <1>2, <2>2 DEF IInv, CreatorInv, Actor
  <2>3. QED BY <2>1, <2>2 DEF CreatorInv
<1>6. BarrierInv'
  BY <1>1, <1>2 DEF IInv, BarrierInv, Quiet, Actor
<1>7. JoinInv'
  BY <1>1, <1>2 DEF CountTask, IInv, JoinInv, Quiet, Actor
<1>8. QED BY <1>3, <1>4, <1>5, <1>6, <1>7 DEF IInv

\* create_task: HPX gets the thunk.
LEMMA ApplyTaskStep ==
  ASSUME IInv, NEW a \in Actor, NEW t \in Task, ApplyTask(a, t)
  PROVE  IInv'
<1> USE DisjointAssumption
<1>1. /\ pc[a] = "apply" /\ pc[t] = "counted" /\ parent[t] = a /\ a # t /\ t \in Actor
      /\ pc' = [pc EXCEPT ![a] = "body", ![t] = "pending"]
      /\ pc \in [Actor -> ThreadPC \cup TaskPC]
      /\ parent' = parent /\ parent \in [Task -> Actor]
  BY DEF ApplyTask, IInv, TypeOK, Actor
<1>2. \A b \in Actor :
        pc'[b] = IF b = a THEN "body" ELSE IF b = t THEN "pending" ELSE pc[b]
  BY <1>1
<1>3. CountersExact'
  <2>1. CountedByTeam' = CountedByTeam
    BY <1>1, <1>2 DEF CountedByTeam, Calls, Actor
  <2>2. ASSUME NEW b \in Actor
        PROVE  CountedByParent(b)' = CountedByParent(b)
    BY <1>1, <1>2 DEF CountedByParent, Calls, Actor
  <2>3. Running' = Running
    BY <1>1, <1>2 DEF Running, Actor
  <2>4. QED BY <2>1, <2>2, <2>3, SameCounters DEF ApplyTask, IInv
<1>4. TypeOK'
  BY <1>1, <1>2 DEF ApplyTask, IInv, TypeOK, Calls, ThreadPC, TaskPC, Actor
<1>5. CreatorInv'
  <2>1. ASSUME NEW u \in Task
        PROVE  /\ pc'[u] = "alloc" => pc'[parent'[u]] = "count"
               /\ pc'[u] = "counted" => pc'[parent'[u]] = "apply"
               /\ pc'[u] = "unborn" => parent'[u] = u
    BY <1>1, <1>2 DEF IInv, CreatorInv, Actor
  <2>2. ASSUME NEW u \in Task, NEW v \in Task,
               pc'[u] \in {"alloc", "counted"}, pc'[v] \in {"alloc", "counted"},
               parent'[u] = parent'[v]
        PROVE  u = v
    BY <1>1, <1>2, <2>2 DEF IInv, CreatorInv, Actor
  <2>3. QED BY <2>1, <2>2 DEF CreatorInv
<1>6. BarrierInv'
  BY <1>1, <1>2 DEF IInv, BarrierInv, Quiet, Actor
<1>7. JoinInv'
  BY <1>1, <1>2 DEF ApplyTask, IInv, JoinInv, Quiet, Actor
<1>8. QED BY <1>3, <1>4, <1>5, <1>6, <1>7 DEF IInv

\* task_setup: the task leaves its parent's count.
LEMMA LeaveParentStep ==
  ASSUME IInv, NEW t \in Task, LeaveParent(t)
  PROVE  IInv'
<1> USE DisjointAssumption
<1>1. /\ pc[t] = "dec_child" /\ t \in Actor /\ t \notin Thread
      /\ pc' = [pc EXCEPT ![t] = "dec_team"]
      /\ pc \in [Actor -> ThreadPC \cup TaskPC]
      /\ parent' = parent /\ parent \in [Task -> Actor]
  BY DEF LeaveParent, Goto, IInv, TypeOK, Actor
<1>2. \A b \in Actor : pc'[b] = IF b = t THEN "dec_team" ELSE pc[b]
  BY <1>1
<1>3. num_child_tasks' \in [Actor -> Int]
  BY <1>1 DEF LeaveParent, IInv, TypeOK
<1>4. CountersExact'
  <2>1. CountedByTeam' = CountedByTeam
    BY <1>1, <1>2 DEF CountedByTeam, Calls, Actor
  <2>2. ASSUME NEW b \in Actor
        PROVE  num_child_tasks'[b] = Cardinality(CountedByParent(b)')
    <3>1. num_child_tasks[b] = Cardinality(CountedByParent(b))
      BY DEF IInv, CountersExact
    <3>2. CASE b = parent[t]
      <4>1. CountedByParent(b)' = CountedByParent(b) \ {t}
        BY <1>1, <1>2, <3>2 DEF CountedByParent, Calls, Actor
      <4>2. t \in CountedByParent(b)
        BY <1>1, <3>2 DEF CountedByParent, Calls
      <4>3. Cardinality(CountedByParent(b)') = Cardinality(CountedByParent(b)) - 1
        <5>1. IsFiniteSet(CountedByParent(b))
          BY CountedFinite
        <5>2. QED BY <4>1, <4>2, <5>1, FS_RemoveElement
      <4>4. num_child_tasks'[b] = num_child_tasks[b] - 1
        BY <3>2 DEF LeaveParent, IInv, TypeOK
      <4>5. QED BY <3>1, <4>3, <4>4
    <3>3. CASE b # parent[t]
      <4>1. CountedByParent(b)' = CountedByParent(b)
        BY <1>1, <1>2, <3>3 DEF CountedByParent, Calls, Actor
      <4>2. num_child_tasks'[b] = num_child_tasks[b]
        BY <1>1, <3>3 DEF LeaveParent, IInv, TypeOK
      <4>3. QED BY <3>1, <4>1, <4>2
    <3>4. QED BY <3>2, <3>3
  <2>3. Running' = Running
    BY <1>1, <1>2 DEF Running, Actor
  <2>4. QED BY <2>1, <2>2, <2>3 DEF LeaveParent, IInv, CountersExact
<1>5. TypeOK'
  <2>1. /\ num_child_tasks' \in [Actor -> Nat]
        /\ num_tasks' \in Nat
        /\ running_threads' \in Nat
    BY <1>3, <1>4, CountersTyped DEF IInv
  <2>2. QED
    BY <1>1, <1>2, <2>1 DEF LeaveParent, IInv, TypeOK, Calls, ThreadPC, TaskPC, Actor
<1>6. CreatorInv'
  BY <1>1, <1>2 DEF IInv, CreatorInv, TypeOK, Actor
<1>7. ~Quiet
  BY <1>1 DEF Quiet
<1>8. BarrierInv'
  BY <1>1, <1>2, <1>7 DEF IInv, BarrierInv, Actor
<1>9. JoinInv'
  BY <1>1, <1>2, <1>7 DEF LeaveParent, IInv, JoinInv, Actor
<1>10. QED BY <1>4, <1>5, <1>6, <1>8, <1>9 DEF IInv

\* task_setup: the task leaves the team's count and is gone.
LEMMA LeaveTeamStep ==
  ASSUME IInv, NEW t \in Task, LeaveTeam(t)
  PROVE  IInv'
<1> USE DisjointAssumption
<1>1. /\ pc[t] = "dec_team" /\ t \in Actor /\ t \notin Thread
      /\ pc' = [pc EXCEPT ![t] = "done"]
      /\ pc \in [Actor -> ThreadPC \cup TaskPC]
      /\ parent' = parent /\ parent \in [Task -> Actor]
  BY DEF LeaveTeam, Goto, IInv, TypeOK, Actor
<1>2. \A b \in Actor : pc'[b] = IF b = t THEN "done" ELSE pc[b]
  BY <1>1
<1>3. CountersExact'
  <2>1. num_tasks' = Cardinality(CountedByTeam')
    <3>1. CountedByTeam' = CountedByTeam \ {t}
      BY <1>1, <1>2 DEF CountedByTeam, Calls, Actor
    <3>2. t \in CountedByTeam
      BY <1>1 DEF CountedByTeam, Calls
    <3>3. QED
      BY <3>1, <3>2, CountedFinite, FS_RemoveElement DEF LeaveTeam, IInv, CountersExact
  <2>2. ASSUME NEW b \in Actor
        PROVE  CountedByParent(b)' = CountedByParent(b)
    BY <1>1, <1>2 DEF CountedByParent, Calls, Actor
  <2>3. Running' = Running
    BY <1>1, <1>2 DEF Running, Actor
  <2>4. QED BY <2>1, <2>2, <2>3 DEF LeaveTeam, IInv, CountersExact
<1>4. TypeOK'
  <2>1. num_tasks' \in Nat
    BY <1>3, CountersTyped DEF LeaveTeam, IInv, TypeOK
  <2>2. QED
    BY <1>1, <1>2, <2>1 DEF LeaveTeam, IInv, TypeOK, Calls, ThreadPC, TaskPC, Actor
<1>5. CreatorInv'
  BY <1>1, <1>2 DEF IInv, CreatorInv, TypeOK, Actor
<1>6. ~Quiet
  BY <1>1 DEF Quiet
<1>7. BarrierInv'
  BY <1>1, <1>2, <1>6 DEF IInv, BarrierInv, Actor
<1>8. JoinInv'
  BY <1>1, <1>2, <1>6 DEF LeaveTeam, IInv, JoinInv, Actor
<1>9. QED BY <1>3, <1>4, <1>5, <1>7, <1>8 DEF IInv

\* Moving threads between places outside create_task and before the end of
\* thread_setup, all of them at once for globalBarrier, disturbs no counter.
LEMMA ThreadsMove ==
  ASSUME IInv, pc' \in [Actor -> ThreadPC \cup TaskPC],
         \A t \in Task : pc'[t] = pc[t],
         \A i \in Thread :
           \/ pc'[i] = pc[i]
           \/ {pc[i], pc'[i]} \subseteq ThreadPC \ {"count", "apply", "notify", "done"},
         UNCHANGED <<parent, num_child_tasks, num_tasks, running_threads, barriers>>,
         fork_pc' \in ForkPC
  PROVE  TypeOK' /\ CountersExact' /\ CreatorInv'
<1> USE DisjointAssumption
<1>1. TypeOK'
  BY DEF IInv, TypeOK
<1>2. CountersExact'
  <2>1. CountedByTeam' = CountedByTeam
    BY DEF CountedByTeam
  <2>2. ASSUME NEW b \in Actor
        PROVE  CountedByParent(b)' = CountedByParent(b)
    BY DEF CountedByParent
  <2>3. Running' = Running
    BY DEF Running
  <2>4. QED BY <2>1, <2>2, <2>3, SameCounters DEF IInv
<1>3. CreatorInv'
  <2>1. \A b \in Actor :
          /\ pc[b] = "count" => pc'[b] = "count"
          /\ pc[b] = "apply" => pc'[b] = "apply"
    BY DEF Actor
  <2>2. QED BY <2>1 DEF IInv, CreatorInv, TypeOK
<1>4. QED BY <1>1, <1>2, <1>3

\* barrier_wait: the caller finds num_tasks at 0.
LEMMA BarrierTeamStep ==
  ASSUME IInv, NEW i \in Thread, BarrierTeam(i)
  PROVE  IInv'
<1> USE DisjointAssumption
<1>1. /\ pc[i] = "bar_team" /\ i \in Actor
      /\ pc' = [pc EXCEPT ![i] = "bar_enter"]
      /\ pc \in [Actor -> ThreadPC \cup TaskPC]
      /\ num_tasks = 0
  BY DEF BarrierTeam, TeamTasksDone, Goto, IInv, TypeOK, Actor
<1>2. \A b \in Actor : pc'[b] = IF b = i THEN "bar_enter" ELSE pc[b]
  BY <1>1
<1>3. TypeOK' /\ CountersExact' /\ CreatorInv'
  BY <1>1, <1>2, ThreadsMove DEF BarrierTeam, IInv, TypeOK, ThreadPC, Actor
<1>4. BarrierInv'
  <2>1. SUFFICES ASSUME \A j \in Thread : pc'[j] \in {"bar_enter", "bar_blocked"}
                 PROVE  Quiet'
    BY DEF BarrierInv
  <2>2. \A j \in Thread : pc[j] # "count"
    BY <1>1, <1>2, <2>1 DEF Actor
  <2>3. Quiet
    BY <1>1, <2>2, DrainedTeam DEF IInv
  <2>4. QED BY <1>2, <2>3 DEF Quiet, Actor
<1>5. JoinInv'
  BY <1>1, <1>2 DEF BarrierTeam, IInv, JoinInv, Quiet, Actor
<1>6. QED BY <1>3, <1>4, <1>5 DEF IInv

\* barrier_wait: globalBarrier blocks the caller or lets the team go.
LEMMA GlobalBarrierStep ==
  ASSUME IInv, NEW i \in Thread, GlobalBarrier(i)
  PROVE  IInv'
<1> USE DisjointAssumption
<1>1. /\ pc[i] = "bar_enter" /\ i \in Actor
      /\ pc \in [Actor -> ThreadPC \cup TaskPC]
  BY DEF GlobalBarrier, IInv, TypeOK, Actor
<1>2. CASE /\ \A j \in Thread \ {i} : pc[j] = "bar_blocked"
           /\ pc' = [a \in Actor |-> IF a \in Thread THEN "body" ELSE pc[a]]
  <2>1. /\ \A j \in Thread : pc'[j] = "body" /\ pc[j] \in {"bar_enter", "bar_blocked"}
        /\ \A t \in Task : pc'[t] = pc[t]
    BY <1>1, <1>2 DEF Actor
  <2>2. pc' \in [Actor -> ThreadPC \cup TaskPC]
    BY <1>1, <1>2 DEF ThreadPC, Calls
  <2>3. TypeOK' /\ CountersExact' /\ CreatorInv'
    <3>1. \A j \in Thread :
            {pc[j], pc'[j]} \subseteq ThreadPC \ {"count", "apply", "notify", "done"}
      BY <2>1 DEF ThreadPC, Calls
    <3>2. QED BY <2>1, <2>2, <3>1, ThreadsMove DEF GlobalBarrier, IInv, TypeOK
  <2>4. BarrierInv'
    BY <2>1 DEF BarrierInv
  <2>5. JoinInv'
    BY <1>1, <2>1 DEF GlobalBarrier, IInv, JoinInv
  <2>6. QED BY <2>3, <2>4, <2>5 DEF IInv
<1>3. CASE /\ \E j \in Thread \ {i} : pc[j] # "bar_blocked"
           /\ pc' = [pc EXCEPT ![i] = "bar_blocked"]
  <2>1. \A b \in Actor : pc'[b] = IF b = i THEN "bar_blocked" ELSE pc[b]
    BY <1>1, <1>3
  <2>2. TypeOK' /\ CountersExact' /\ CreatorInv'
    BY <1>1, <1>3, <2>1, ThreadsMove DEF GlobalBarrier, IInv, TypeOK, ThreadPC, Actor
  <2>3. BarrierInv'
    BY <1>1, <2>1 DEF IInv, BarrierInv, Quiet, Actor
  <2>4. JoinInv'
    BY <1>1, <2>1 DEF GlobalBarrier, IInv, JoinInv, Quiet, Actor
  <2>5. QED BY <2>2, <2>3, <2>4 DEF IInv
<1>4. QED BY <1>2, <1>3 DEF GlobalBarrier

\* thread_setup: --running_threads.
LEMMA ExitDecrementStep ==
  ASSUME IInv, NEW i \in Thread, ExitDecrement(i)
  PROVE  IInv'
<1> USE DisjointAssumption
<1> DEFINE to == IF running_threads = 1 THEN "notify" ELSE "done"
<1>1. /\ pc[i] = "exit_dec" /\ i \in Actor /\ i \notin Task
      /\ pc' = [pc EXCEPT ![i] = to] /\ to \in {"notify", "done"}
      /\ pc \in [Actor -> ThreadPC \cup TaskPC]
      /\ parent' = parent /\ parent \in [Task -> Actor]
  BY DEF ExitDecrement, Goto, IInv, TypeOK, Actor
<1>2. \A b \in Actor : pc'[b] = IF b = i THEN to ELSE pc[b]
  BY <1>1
<1> HIDE DEF to
<1>3. CountersExact'
  <2>1. running_threads' = Cardinality(Running')
    <3>1. Running' = Running \ {i}
      BY <1>1, <1>2 DEF Running, Actor
    <3>2. i \in Running
      BY <1>1 DEF Running
    <3>3. QED
      BY <3>1, <3>2, CountedFinite, FS_RemoveElement DEF ExitDecrement, IInv, CountersExact
  <2>2. ASSUME NEW b \in Actor
        PROVE  CountedByParent(b)' = CountedByParent(b)
    BY <1>1, <1>2 DEF CountedByParent, Actor
  <2>3. CountedByTeam' = CountedByTeam
    BY <1>1, <1>2 DEF CountedByTeam, Actor
  <2>4. QED BY <2>1, <2>2, <2>3 DEF ExitDecrement, IInv, CountersExact
<1>4. TypeOK'
  <2>1. running_threads' \in Nat
    BY <1>3, CountersTyped DEF ExitDecrement, IInv, TypeOK
  <2>2. QED
    BY <1>1, <1>2, <2>1 DEF ExitDecrement, IInv, TypeOK, ThreadPC, TaskPC, Actor
<1>5. CreatorInv'
  BY <1>1, <1>2 DEF IInv, CreatorInv, TypeOK, Actor
<1>6. BarrierInv'
  BY <1>1, <1>2 DEF BarrierInv, Actor
<1>7. JoinInv'
  BY <1>1, <1>2 DEF ExitDecrement, IInv, JoinInv, Actor
<1>8. QED BY <1>3, <1>4, <1>5, <1>6, <1>7 DEF IInv

\* thread_setup: the last thread notifies fork_worker.
LEMMA ExitNotifyStep ==
  ASSUME IInv, NEW i \in Thread, ExitNotify(i)
  PROVE  IInv'
<1> USE DisjointAssumption
<1>1. /\ pc[i] = "notify" /\ i \in Actor /\ i \notin Task
      /\ pc' = [pc EXCEPT ![i] = "done"]
      /\ pc \in [Actor -> ThreadPC \cup TaskPC]
      /\ parent' = parent /\ parent \in [Task -> Actor]
  BY DEF ExitNotify, Goto, IInv, TypeOK, Actor
<1>2. \A b \in Actor : pc'[b] = IF b = i THEN "done" ELSE pc[b]
  BY <1>1
<1>3. CountersExact'
  <2>1. CountedByTeam' = CountedByTeam
    BY <1>1, <1>2 DEF CountedByTeam, Actor
  <2>2. ASSUME NEW b \in Actor
        PROVE  CountedByParent(b)' = CountedByParent(b)
    BY <1>1, <1>2 DEF CountedByParent, Actor
  <2>3. Running' = Running
    BY <1>1, <1>2 DEF Running, Actor
  <2>4. QED BY <2>1, <2>2, <2>3, SameCounters DEF ExitNotify, IInv
<1>4. TypeOK'
  BY <1>1, <1>2 DEF ExitNotify, IInv, TypeOK, ForkPC, ThreadPC, TaskPC, Actor
<1>5. CreatorInv'
  BY <1>1, <1>2 DEF IInv, CreatorInv, TypeOK, Actor
<1>6. BarrierInv'
  BY <1>1, <1>2 DEF BarrierInv, Actor
<1>7. JoinInv'
  BY <1>1, <1>2 DEF ExitNotify, IInv, JoinInv, Quiet, Actor
<1>8. QED BY <1>3, <1>4, <1>5, <1>6, <1>7 DEF IInv

\* fork_worker registers a thread.
LEMMA ForkRegisterStep ==
  ASSUME IInv, NEW i \in Thread, ForkRegister(i)
  PROVE  IInv'
<1> USE DisjointAssumption
<1>1. /\ pc[i] = "unregistered" /\ i \in Actor
      /\ pc' = [pc EXCEPT ![i] = "start"]
      /\ pc \in [Actor -> ThreadPC \cup TaskPC]
      /\ fork_pc' \in {"register", "check"}
  BY DEF ForkRegister, Goto, IInv, TypeOK, Actor
<1>2. \A b \in Actor : pc'[b] = IF b = i THEN "start" ELSE pc[b]
  BY <1>1
<1>3. TypeOK' /\ CountersExact' /\ CreatorInv'
  BY <1>1, <1>2, ThreadsMove DEF ForkRegister, IInv, TypeOK, ForkPC, ThreadPC, Actor
<1>4. BarrierInv'
  BY <1>1, <1>2 DEF BarrierInv, Actor
<1>5. JoinInv'
  BY <1>1 DEF JoinInv
<1>6. QED BY <1>3, <1>4, <1>5 DEF IInv

\* fork_worker finds running_threads positive or 0, sleeps, or returns.
LEMMA ForkOnlyStep ==
  ASSUME IInv, ForkCheck \/ ForkSleep \/ ForkReturn
  PROVE  IInv'
<1>1. /\ UNCHANGED <<pc, parent, num_child_tasks, num_tasks, running_threads, barriers>>
      /\ fork_pc' \in ForkPC
  BY DEF ForkCheck, ForkSleep, ForkReturn, ForkPC
<1>2. TypeOK' /\ CountersExact' /\ CreatorInv'
  BY <1>1, ThreadsMove DEF IInv, TypeOK
<1>3. BarrierInv'
  BY <1>1 DEF IInv, BarrierInv, Quiet
<1>4. CASE ForkCheck
  <2>1. ASSUME running_threads > 0 PROVE JoinInv'
    BY <1>4, <2>1 DEF ForkCheck, JoinInv
  <2>2. ASSUME running_threads = 0 PROVE JoinInv'
    <3>1. Running = {}
      BY <2>2, CountedFinite, FS_EmptySet DEF IInv, CountersExact
    <3>2. \A i \in Thread : pc'[i] \in {"notify", "done"}
      BY <1>1, <3>1 DEF Running
    <3>3. fork_pc' = "drain"
      BY <1>4, <2>2 DEF ForkCheck
    <3>4. QED BY <3>2, <3>3 DEF JoinInv
  <2>3. JoinInv'
    BY <2>1, <2>2 DEF IInv, TypeOK
  <2>4. QED BY <1>2, <1>3, <2>3 DEF IInv
<1>5. CASE ForkSleep
  BY <1>2, <1>3, <1>5 DEF ForkSleep, JoinInv, IInv
<1>6. CASE ForkReturn
  <2>1. \A i \in Thread : pc[i] \in {"notify", "done"}
    BY <1>6 DEF ForkReturn, IInv, JoinInv
  <2>2. Quiet
    <3>1. num_tasks = 0
      BY <1>6 DEF ForkReturn, TeamTasksDone, IInv, TypeOK
    <3>2. QED BY <2>1, <3>1, DrainedTeam DEF IInv
  <2>3. JoinInv'
    BY <1>1, <2>1, <2>2 DEF JoinInv, Quiet
  <2>4. QED BY <1>2, <1>3, <2>3 DEF IInv
<1>7. QED BY <1>4, <1>5, <1>6

(***************************************************************************)
(* The invariant is inductive.                                             *)
(***************************************************************************)

\* A new region satisfies the invariant.
LEMMA InitInvariant == Init => IInv
<1> SUFFICES ASSUME Init PROVE IInv
  OBVIOUS
<1>1. \A i \in Thread : pc[i] = "unregistered"
  BY DEF Init, Actor
<1>2. \A t \in Task : pc[t] = "unborn"
  BY DisjointAssumption DEF Init, Actor
<1>3. CountersExact
  <2>1. CountedByTeam = {}
    BY <1>2 DEF CountedByTeam, Calls
  <2>2. \A a \in Actor : CountedByParent(a) = {}
    BY <1>2 DEF CountedByParent, Calls
  <2>3. Running = Thread
    BY <1>1 DEF Running
  <2>4. QED BY <2>1, <2>2, <2>3, FS_EmptySet DEF Init, CountersExact
<1>4. TypeOK
  <2>1. running_threads \in Nat
    BY ThreadAssumption, FS_CardinalityType DEF Init
  <2>2. QED BY <1>1, <1>2, <2>1 DEF Init, TypeOK, ThreadPC, TaskPC, ForkPC, Actor
<1>5. CreatorInv /\ BarrierInv /\ JoinInv
  BY <1>1, <1>2 DEF Init, CreatorInv, BarrierInv, JoinInv, Quiet
<1>6. QED BY <1>3, <1>4, <1>5 DEF IInv

\* Every step of the region preserves it.
LEMMA NextInvariant == IInv /\ [Next]_vars => IInv'
<1> SUFFICES ASSUME IInv, [Next]_vars PROVE IInv'
  OBVIOUS
<1> USE DisjointAssumption
<1>1. ASSUME NEW a \in Actor, NEW t \in Task,
             CreateTask(a, t) \/ CountTask(a, t) \/ ApplyTask(a, t)
      PROVE  IInv'
  BY <1>1, CreateTaskStep, CountTaskStep, ApplyTaskStep
<1>2. ASSUME NEW t \in Task, StartTask(t) PROVE IInv'
  BY <1>2, PlainStep DEF StartTask, IInv, TypeOK, Resting, Calls, Actor
<1>3. ASSUME NEW t \in Task, EndTask(t) PROVE IInv'
  BY <1>3, PlainStep DEF EndTask, IInv, TypeOK, Resting, Calls, Actor
<1>4. ASSUME NEW a \in Actor, TaskWait(a) PROVE IInv'
  BY <1>4, PlainStep DEF TaskWait, IInv, TypeOK, Resting, Calls, ThreadPC
<1>5. ASSUME NEW a \in Actor, TaskWaitReturn(a) PROVE IInv'
  BY <1>5, PlainStep DEF TaskWaitReturn, IInv, TypeOK, Resting, Calls, ThreadPC
<1>6. ASSUME NEW t \in Task, LeaveParent(t) \/ LeaveTeam(t) PROVE IInv'
  BY <1>6, LeaveParentStep, LeaveTeamStep
<1>7. ASSUME NEW i \in Thread, BarrierWait(i) PROVE IInv'
  BY <1>7, PlainStep DEF BarrierWait, IInv, TypeOK, Calls, ThreadPC, Actor
<1>8. ASSUME NEW i \in Thread, BarrierChildren(i) PROVE IInv'
  BY <1>8, PlainStep DEF BarrierChildren, IInv, TypeOK, ThreadPC, Actor
<1>9. ASSUME NEW i \in Thread, BarrierTeam(i) \/ GlobalBarrier(i) PROVE IInv'
  BY <1>9, BarrierTeamStep, GlobalBarrierStep
<1>10. ASSUME NEW i \in Thread, StartThread(i) PROVE IInv'
  BY <1>10, PlainStep DEF StartThread, IInv, TypeOK, Calls, ThreadPC, Actor
<1>11. ASSUME NEW i \in Thread, EndThread(i) PROVE IInv'
  BY <1>11, PlainStep DEF EndThread, IInv, TypeOK, Calls, ThreadPC, Actor
<1>12. ASSUME NEW i \in Thread, ExitChildren(i) PROVE IInv'
  BY <1>12, PlainStep DEF ExitChildren, IInv, TypeOK, Calls, ThreadPC, Actor
<1>13. ASSUME NEW i \in Thread, ExitDecrement(i) \/ ExitNotify(i) PROVE IInv'
  BY <1>13, ExitDecrementStep, ExitNotifyStep
<1>14. ASSUME ForkNext PROVE IInv'
  BY <1>14, ForkRegisterStep, ForkOnlyStep DEF ForkNext
<1>15. CASE UNCHANGED vars
  BY <1>15 DEF vars, IInv, TypeOK, CountersExact, CreatorInv, BarrierInv, JoinInv,
               Quiet, CountedByTeam, CountedByParent, Running
<1>16. QED
  BY <1>1, <1>2, <1>3, <1>4, <1>5, <1>6, <1>7, <1>8, <1>9, <1>10, <1>11, <1>12,
     <1>13, <1>14, <1>15
     DEF Next, ThreadRuntime, TaskRuntime, Program, ThreadEnds, Actor

(***************************************************************************)
(* The theorems.                                                           *)
(***************************************************************************)

\* Every reachable state of the region satisfies the inductive invariant.
THEOREM Invariant == Spec => []IInv
  BY InitInvariant, NextInvariant, PTL DEF Spec

\* Type correctness, and no counter of the runtime ever goes below 0.
THEOREM TypeCorrect == Spec => []TypeOK
<1>1. IInv => TypeOK
  BY DEF IInv
<1>2. QED BY <1>1, Invariant, PTL

\* num_tasks, num_child_tasks and running_threads count what they stand for.
THEOREM CountersCorrect == Spec => []CountersExact
<1>1. IInv => CountersExact
  BY DEF IInv
<1>2. QED BY <1>1, Invariant, PTL

\* The team in fork_worker's frame outlives every task and user code of its
\* threads.
THEOREM TeamSafe == Spec => []TeamOutlivesTasks
<1>1. IInv => TeamOutlivesTasks
  BY DEF IInv, JoinInv, TeamOutlivesTasks
<1>2. QED BY <1>1, Invariant, PTL

\* No thread leaves a barrier while a task of the team is unfinished.
THEOREM BarrierCorrect == Spec => BarrierCompletesTasks
<1>1. ASSUME IInv, [Next]_vars, NEW i \in Thread,
             pc[i] \in {"bar_enter", "bar_blocked"}, pc'[i] = "body"
      PROVE  Quiet
  <2>1. PICK j \in Thread : GlobalBarrier(j) /\ pc'[i] = "body"
    BY <1>1, DisjointAssumption
       DEF Next, ForkNext, ThreadRuntime, TaskRuntime, Program, ThreadEnds, Actor, Goto,
           IInv, TypeOK, CreateTask, CountTask, ApplyTask, StartTask, EndTask,
           LeaveParent, LeaveTeam, TaskWait, TaskWaitReturn, BarrierWait,
           BarrierChildren, BarrierTeam, StartThread, EndThread, ExitChildren,
           ExitDecrement, ExitNotify, ForkRegister, ForkCheck, ForkSleep, ForkReturn,
           vars
  <2>2. \A k \in Thread : pc[k] \in {"bar_enter", "bar_blocked"}
    BY <1>1, <2>1 DEF GlobalBarrier, IInv, TypeOK, Actor
  <2>3. QED BY <1>1, <2>2 DEF IInv, BarrierInv
<1>2. IInv /\ [Next]_vars =>
        [\A i \in Thread :
           pc[i] \in {"bar_enter", "bar_blocked"} /\ pc'[i] = "body" => Quiet]_vars
  BY <1>1
<1>3. QED BY <1>2, Invariant, PTL DEF Spec, BarrierCompletesTasks

\* No taskwait returns while a task its caller created has yet to run.
THEOREM TaskwaitCorrect == Spec => TaskwaitCompletesChildren
<1>1. ASSUME IInv, [Next]_vars, NEW a \in Actor, NEW t \in Task,
             pc[a] = "taskwait", pc'[a] # "taskwait", parent[t] = a
      PROVE  pc[t] \in {"dec_team", "done"}
  <2>1. TaskWaitReturn(a)
    BY <1>1, DisjointAssumption
       DEF Next, ForkNext, ThreadRuntime, TaskRuntime, Program, ThreadEnds, Actor, Goto,
           IInv, TypeOK, CreateTask, CountTask, ApplyTask, StartTask, EndTask,
           LeaveParent, LeaveTeam, TaskWait, TaskWaitReturn, BarrierWait,
           BarrierChildren, BarrierTeam, GlobalBarrier, StartThread, EndThread,
           ExitChildren, ExitDecrement, ExitNotify, ForkRegister, ForkCheck,
           ForkSleep, ForkReturn, vars
  <2>2. num_child_tasks[a] = 0
    <3>1. num_child_tasks[a] \in Nat
      BY <1>1 DEF IInv, TypeOK
    <3>2. ~(num_child_tasks[a] > 0)
      BY <2>1 DEF TaskWaitReturn, ChildrenDone
    <3>3. QED BY <3>1, <3>2
  <2>3. CountedByParent(a) = {}
    BY <1>1, <2>2, CountedFinite, FS_EmptySet DEF IInv, CountersExact
  <2>4. pc[t] # "unborn"
    BY <1>1 DEF IInv, CreatorInv
  <2>5. QED BY <1>1, <2>3, <2>4 DEF CountedByParent, IInv, TypeOK, TaskPC
<1>2. IInv /\ [Next]_vars =>
        [\A a \in Actor :
           pc[a] = "taskwait" /\ pc'[a] # "taskwait" =>
             \A t \in Task : parent[t] = a => pc[t] \in {"dec_team", "done"}]_vars
  BY <1>1
<1>3. QED BY <1>2, Invariant, PTL DEF Spec, TaskwaitCompletesChildren

(***************************************************************************)
(* The region implements ParallelRegion.                                   *)
(***************************************************************************)

RegionStatus == [a \in Actor |-> StatusAt(pc[a])]

\* What a move of one actor is in the region.
LEMMA StatusMove ==
  ASSUME TypeOK, NEW a \in Actor, NEW from, NEW to, Goto(a, from, to)
  PROVE  /\ RegionStatus[a] = StatusAt(from)
         /\ RegionStatus' = [RegionStatus EXCEPT ![a] = StatusAt(to)]
<1>1. pc[a] = from /\ pc' = [pc EXCEPT ![a] = to] /\ pc \in [Actor -> ThreadPC \cup TaskPC]
  BY DEF Goto, TypeOK
<1>2. \A b \in Actor : pc'[b] = IF b = a THEN to ELSE pc[b]
  BY <1>1
<1>3. \A b \in Actor : RegionStatus'[b] = IF b = a THEN StatusAt(to) ELSE StatusAt(pc[b])
  BY <1>2 DEF RegionStatus
<1>4. \A b \in Actor : RegionStatus[b] = StatusAt(pc[b])
  BY DEF RegionStatus
<1>5. RegionStatus' = [RegionStatus EXCEPT ![a] = StatusAt(to)]
  BY <1>3, <1>4 DEF RegionStatus
<1>6. QED BY <1>1, <1>4, <1>5

\* A move that the region cannot see.
LEMMA StatusStutter ==
  ASSUME TypeOK, NEW a \in Actor, NEW from, NEW to, Goto(a, from, to),
         StatusAt(from) = StatusAt(to)
  PROVE  RegionStatus' = RegionStatus
<1>1. RegionStatus[a] = StatusAt(from)
  BY StatusMove
<1>2. RegionStatus' = [RegionStatus EXCEPT ![a] = StatusAt(to)]
  BY StatusMove
<1>3. QED BY <1>1, <1>2 DEF RegionStatus

\* The names of the places the region tells apart.
LEMMA StatusNames ==
  /\ \A p \in {"unregistered", "start", "unborn"} : StatusAt(p) = "idle"
  /\ \A p \in {"body", "count", "apply", "alloc", "counted", "pending"} :
       StatusAt(p) = "run"
  /\ StatusAt("taskwait") = "taskwait"
  /\ \A p \in {"bar_child", "bar_team", "bar_enter", "bar_blocked"} :
       StatusAt(p) = "barrier"
  /\ \A p \in {"exit_wait", "exit_dec", "notify", "dec_child", "dec_team", "done"} :
       StatusAt(p) = "end"
  BY DEF StatusAt, Calls

\* An invisible move is a stutter of the region.
LEMMA RegionStutter ==
  ASSUME RegionStatus' = RegionStatus, UNCHANGED <<parent, fork_pc>>
  PROVE  UNCHANGED Region!vars
  BY DEF Region!vars, RegionStatus

\* The region the runtime starts from.
LEMMA RegionInit == Init => Region!Init
<1> SUFFICES ASSUME Init PROVE Region!Init
  OBVIOUS
<1>1. \A a \in Actor : StatusAt(pc[a]) = "idle"
  BY StatusNames, DisjointAssumption DEF Init, Actor
<1>2. QED BY <1>1 DEF Init, Region!Init, Region!Actor, Actor

\* Every step of the runtime is a step of the region or a stutter.
LEMMA RegionNext == IInv /\ [Next]_vars => [Region!Next]_(Region!vars)
<1> SUFFICES ASSUME IInv, [Next]_vars PROVE [Region!Next]_(Region!vars)
  OBVIOUS
<1> USE DisjointAssumption
<1>0. TypeOK
  BY DEF IInv
<1>1. ASSUME NEW a \in Actor, NEW t \in Task, CreateTask(a, t)
      PROVE  [Region!Next]_(Region!vars)
  <2>1. /\ pc[a] = "body" /\ pc[t] = "unborn" /\ a # t /\ t \in Actor
        /\ pc' = [pc EXCEPT ![a] = "count", ![t] = "alloc"]
        /\ pc \in [Actor -> ThreadPC \cup TaskPC]
    BY <1>1 DEF CreateTask, IInv, TypeOK, Actor
  <2>2. \A b \in Actor :
          pc'[b] = IF b = a THEN "count" ELSE IF b = t THEN "alloc" ELSE pc[b]
    BY <2>1
  <2>3. \A b \in Actor : StatusAt(pc'[b]) = IF b = t THEN "run" ELSE StatusAt(pc[b])
    BY <2>1, <2>2, StatusNames
  <2>4. RegionStatus[a] = "run" /\ RegionStatus[t] = "idle"
    BY <2>1, StatusNames DEF RegionStatus
  <2>5. RegionStatus' = [RegionStatus EXCEPT ![t] = "run"]
    BY <2>3 DEF RegionStatus
  <2>6. Region!Create(a, t)
    BY <1>1, <2>4, <2>5 DEF CreateTask, Region!Create, Region!Move, RegionStatus
  <2>7. QED BY <2>6 DEF Region!Next, Region!Actor, Actor
<1>2. ASSUME NEW a \in Actor, NEW t \in Task, CountTask(a, t) \/ ApplyTask(a, t)
      PROVE  [Region!Next]_(Region!vars)
  <2>1. pc \in [Actor -> ThreadPC \cup TaskPC] /\ t \in Actor
    BY DEF IInv, TypeOK, Actor
  <2>2. \A b \in Actor : StatusAt(pc'[b]) = StatusAt(pc[b])
    BY <1>2, <2>1, StatusNames DEF CountTask, ApplyTask
  <2>3. RegionStatus' = RegionStatus
    BY <2>2 DEF RegionStatus
  <2>4. QED BY <1>2, <2>3, RegionStutter DEF CountTask, ApplyTask
<1>3. ASSUME NEW t \in Task, StartTask(t) \/ LeaveParent(t) \/ LeaveTeam(t)
      PROVE  [Region!Next]_(Region!vars)
  <2>1. RegionStatus' = RegionStatus
    BY <1>0, <1>3, StatusStutter, StatusNames
       DEF StartTask, LeaveParent, LeaveTeam, Actor
  <2>2. QED BY <1>3, <2>1, RegionStutter DEF StartTask, LeaveParent, LeaveTeam
<1>4. ASSUME NEW t \in Task, EndTask(t)
      PROVE  [Region!Next]_(Region!vars)
  <2>1. /\ RegionStatus[t] = "run"
        /\ RegionStatus' = [RegionStatus EXCEPT ![t] = "end"]
    BY <1>0, <1>4, StatusMove, StatusNames DEF EndTask, Actor
  <2>2. Region!End(t)
    BY <1>4, <2>1 DEF EndTask, Region!End, Region!Move, RegionStatus
  <2>3. QED BY <2>2 DEF Region!Next, Region!Actor
<1>5. ASSUME NEW a \in Actor, TaskWait(a)
      PROVE  [Region!Next]_(Region!vars)
  <2>1. /\ RegionStatus[a] = "run"
        /\ RegionStatus' = [RegionStatus EXCEPT ![a] = "taskwait"]
    BY <1>0, <1>5, StatusMove, StatusNames DEF TaskWait
  <2>2. Region!TaskWait(a)
    BY <1>5, <2>1 DEF TaskWait, Region!TaskWait, Region!Move, RegionStatus
  <2>3. QED BY <2>2 DEF Region!Next, Region!Actor, Actor
<1>6. ASSUME NEW a \in Actor, TaskWaitReturn(a)
      PROVE  [Region!Next]_(Region!vars)
  <2>1. /\ RegionStatus[a] = "taskwait"
        /\ RegionStatus' = [RegionStatus EXCEPT ![a] = "run"]
    BY <1>0, <1>6, StatusMove, StatusNames DEF TaskWaitReturn
  <2>2. ASSUME NEW t \in Task, parent[t] = a PROVE RegionStatus[t] = "end"
    <3>1. num_child_tasks[a] = 0
      <4>1. num_child_tasks[a] \in Nat
        BY DEF IInv, TypeOK
      <4>2. ~(num_child_tasks[a] > 0)
        BY <1>6 DEF TaskWaitReturn, ChildrenDone
      <4>3. QED BY <4>1, <4>2
    <3>2. CountedByParent(a) = {}
      BY <3>1, CountedFinite, FS_EmptySet DEF IInv, CountersExact
    <3>3. pc[t] # "unborn"
      BY <1>6, <2>2 DEF IInv, CreatorInv, TaskWaitReturn, Goto
    <3>4. pc[t] \in {"dec_team", "done"}
      BY <2>2, <3>2, <3>3 DEF CountedByParent, IInv, TypeOK, TaskPC
    <3>5. QED BY <3>4, StatusNames DEF RegionStatus, Actor
  <2>3. Region!TaskWaitReturn(a)
    BY <1>6, <2>1, <2>2 DEF TaskWaitReturn, Region!TaskWaitReturn, Region!Move, RegionStatus
  <2>4. QED BY <2>3 DEF Region!Next, Region!Actor, Actor
<1>7. ASSUME NEW i \in Thread, BarrierWait(i)
      PROVE  [Region!Next]_(Region!vars)
  <2>1. /\ RegionStatus[i] = "run"
        /\ RegionStatus' = [RegionStatus EXCEPT ![i] = "barrier"]
    BY <1>0, <1>7, StatusMove, StatusNames DEF BarrierWait, Actor
  <2>2. Region!Arrive(i)
    BY <1>7, <2>1 DEF BarrierWait, Region!Arrive, Region!Move, RegionStatus
  <2>3. QED BY <2>2 DEF Region!Next
<1>8. ASSUME NEW i \in Thread,
             BarrierChildren(i) \/ BarrierTeam(i) \/ ExitChildren(i)
      PROVE  [Region!Next]_(Region!vars)
  <2>1. RegionStatus' = RegionStatus
    BY <1>0, <1>8, StatusStutter, StatusNames
       DEF BarrierChildren, BarrierTeam, ExitChildren, Actor
  <2>2. QED BY <1>8, <2>1, RegionStutter DEF BarrierChildren, BarrierTeam, ExitChildren
<1>9. ASSUME NEW i \in Thread, GlobalBarrier(i)
      PROVE  [Region!Next]_(Region!vars)
  <2>1. pc[i] = "bar_enter" /\ i \in Actor
    BY <1>9 DEF GlobalBarrier, Actor
  <2>2. CASE /\ \A j \in Thread \ {i} : pc[j] = "bar_blocked"
             /\ pc' = [a \in Actor |-> IF a \in Thread THEN "body" ELSE pc[a]]
    <3>1. \A j \in Thread : pc[j] \in {"bar_enter", "bar_blocked"}
      BY <2>1, <2>2
    <3>2. Quiet
      BY <3>1 DEF IInv, BarrierInv
    <3>3. \A j \in Thread : RegionStatus[j] = "barrier"
      BY <3>1, StatusNames DEF RegionStatus, Actor
    <3>4. \A t \in Task : RegionStatus[t] \in {"idle", "end"}
      BY <3>2, StatusNames DEF Quiet, RegionStatus, Actor
    <3>5. RegionStatus' = [a \in Actor |-> IF a \in Thread THEN "run" ELSE RegionStatus[a]]
      BY <2>2, StatusNames DEF RegionStatus
    <3>6. Region!Release
      BY <1>9, <3>3, <3>4, <3>5
         DEF GlobalBarrier, Region!Release, Region!Quiet, Region!Actor, Actor, RegionStatus
    <3>7. QED BY <3>6 DEF Region!Next
  <2>3. CASE pc' = [pc EXCEPT ![i] = "bar_blocked"]
    <3>1. RegionStatus' = RegionStatus
      BY <1>0, <2>1, <2>3, StatusStutter, StatusNames DEF Goto
    <3>2. QED BY <1>9, <3>1, RegionStutter DEF GlobalBarrier
  <2>4. QED BY <1>9, <2>2, <2>3 DEF GlobalBarrier
<1>10. ASSUME NEW i \in Thread, StartThread(i)
       PROVE  [Region!Next]_(Region!vars)
  <2>1. /\ RegionStatus[i] = "idle"
        /\ RegionStatus' = [RegionStatus EXCEPT ![i] = "run"]
    BY <1>0, <1>10, StatusMove, StatusNames DEF StartThread, Actor
  <2>2. Region!Begin(i)
    BY <1>10, <2>1 DEF StartThread, Region!Begin, Region!Move, RegionStatus
  <2>3. QED BY <2>2 DEF Region!Next
<1>11. ASSUME NEW i \in Thread, EndThread(i)
       PROVE  [Region!Next]_(Region!vars)
  <2>1. /\ RegionStatus[i] = "run"
        /\ RegionStatus' = [RegionStatus EXCEPT ![i] = "end"]
    BY <1>0, <1>11, StatusMove, StatusNames DEF EndThread, Actor
  <2>2. Region!End(i)
    BY <1>11, <2>1 DEF EndThread, Region!End, Region!Move, RegionStatus
  <2>3. QED BY <2>2 DEF Region!Next, Region!Actor
<1>12. ASSUME NEW i \in Thread, ExitDecrement(i)
       PROVE  [Region!Next]_(Region!vars)
  <2>1. RegionStatus' = RegionStatus
    BY <1>0, <1>12, StatusStutter, StatusNames DEF ExitDecrement, Actor
  <2>2. QED BY <1>12, <2>1, RegionStutter DEF ExitDecrement
<1>13. ASSUME NEW i \in Thread, ExitNotify(i)
       PROVE  [Region!Next]_(Region!vars)
  <2>1. RegionStatus' = RegionStatus
    BY <1>0, <1>13, StatusStutter, StatusNames DEF ExitNotify, Actor
  <2>2. UNCHANGED parent /\ (fork_pc' # "returned") = (fork_pc # "returned")
    BY <1>13 DEF ExitNotify
  <2>3. QED BY <2>1, <2>2 DEF Region!vars, RegionStatus
<1>14. ASSUME NEW i \in Thread, ForkRegister(i)
       PROVE  [Region!Next]_(Region!vars)
  <2>1. RegionStatus' = RegionStatus
    BY <1>0, <1>14, StatusStutter, StatusNames DEF ForkRegister, Actor
  <2>2. UNCHANGED parent /\ (fork_pc' # "returned") = (fork_pc # "returned")
    BY <1>14 DEF ForkRegister
  <2>3. QED BY <2>1, <2>2 DEF Region!vars, RegionStatus
<1>15. ASSUME ForkCheck \/ ForkSleep
       PROVE  [Region!Next]_(Region!vars)
  <2>1. UNCHANGED <<pc, parent>> /\ (fork_pc' # "returned") = (fork_pc # "returned")
    BY <1>15 DEF ForkCheck, ForkSleep
  <2>2. QED BY <2>1 DEF Region!vars
<1>16. ASSUME ForkReturn
       PROVE  [Region!Next]_(Region!vars)
  <2>1. IInv'
    BY <1>16, ForkOnlyStep
  <2>2. Quiet /\ \A i \in Thread : pc[i] \in {"notify", "done"}
    BY <1>16, <2>1 DEF ForkReturn, IInv, JoinInv, Quiet
  <2>3. /\ \A i \in Thread : RegionStatus[i] = "end"
        /\ \A t \in Task : RegionStatus[t] \in {"idle", "end"}
    BY <2>2, StatusNames DEF Quiet, RegionStatus, Actor
  <2>4. Region!Close
    BY <1>16, <2>3 DEF ForkReturn, Region!Close, Region!Quiet, RegionStatus
  <2>5. QED BY <2>4 DEF Region!Next
<1>17. CASE UNCHANGED vars
  BY <1>17 DEF vars, Region!vars
<1>18. QED
  BY <1>1, <1>2, <1>3, <1>4, <1>5, <1>6, <1>7, <1>8, <1>9, <1>10, <1>11, <1>12,
     <1>13, <1>14, <1>15, <1>16, <1>17
     DEF Next, ForkNext, ThreadRuntime, TaskRuntime, Program, ThreadEnds, Actor

\* The runtime's region is a ParallelRegion, for every team and set of tasks.
THEOREM RegionImplemented == Spec => ImplementsRegion
  BY RegionInit, RegionNext, Invariant, PTL DEF Spec, ImplementsRegion, Region!Spec
=============================================================================
