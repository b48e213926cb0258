--------------------------- MODULE TaskDepsProofs ---------------------------
(***************************************************************************)
(* Proofs about create_df_task, for every team, every set of tasks and     *)
(* addresses and every program: df_map, which remembers the last writer of *)
(* an address only, makes a task wait for all of its earlier writers.      *)
(***************************************************************************)
EXTENDS TaskDeps, FiniteSetTheorems, TLAPS

\* A new team satisfies the invariant.
LEMMA InitDeps == Init => DepsInv
<1> SUFFICES ASSUME Init PROVE DepsInv
  OBVIOUS
<1>1. \A t \in Task : pc[t] = "unborn" /\ parent[t] = t /\ depends[t] = NoDepends
  BY DisjointAssumption DEF Init, Actor
<1>2. DepsType
  <2>1. NoDepends \in DependList
    BY DEF NoDepends, DependList
  <2>2. QED
    BY <1>1, <2>1, DisjointAssumption
    DEF Init, DepsType, Actor, ThreadPC, TaskPC, Calls
<1>3. CreatorInv
  BY <1>1 DEF Init, CreatorInv, New
<1>4. MapInv
  BY <1>1 DEF Init, MapInv, Writers, Children, Launched
<1>5. FuturesInv
  BY DEF Init, FuturesInv
<1>6. DependencesHold
  BY DEF Init, DependencesHold, DependsOn
<1>7. QED BY <1>2, <1>3, <1>4, <1>5, <1>6 DEF DepsInv

\* A step that leaves df_map and the tasks in create_df_task alone preserves
\* all but the order of the tasks.
LEMMA OutsideStep ==
  ASSUME DepsInv, UNCHANGED <<parent, depends, dep_futures, elders, df_map>>,
         pc' \in [Actor -> ThreadPC \cup TaskPC],
         \A i \in Thread : pc'[i] \in ThreadPC,
         \A t \in Task : pc'[t] \in TaskPC,
         \A t \in Task : pc'[t] # pc[t] => Launched(t) /\ Launched(t)',
         \A a \in Actor : pc[a] \in {"count", "launch"} => pc'[a] = pc[a]
  PROVE  DepsType' /\ CreatorInv' /\ MapInv' /\ FuturesInv'
<1>1. DepsType'
  BY DEF DepsInv, DepsType
<1>2. \A t \in Task : (Launched(t)' <=> Launched(t)) /\ (New(t)' <=> New(t))
  BY DEF Launched, New
<1>3. CreatorInv'
  <2>1. \A a : Children(a)' = Children(a)
    BY DEF Children
  <2>2. \A t \in Task : parent[t] \in Actor /\ elders[t] \subseteq Task
    BY DEF DepsInv, DepsType
  <2>3. ASSUME NEW t \in Task
        PROVE  /\ pc'[t] = "unborn" => parent'[t] = t /\ elders'[t] = {}
               /\ pc'[t] # "unborn" => parent'[t] # t
    BY DEF DepsInv, CreatorInv, Launched
  <2>4. ASSUME NEW t \in Task
        PROVE  /\ pc'[t] = "alloc" => pc'[parent'[t]] = "count"
               /\ pc'[t] = "counted" => pc'[parent'[t]] = "launch"
    BY <2>2 DEF DepsInv, CreatorInv, Launched
  <2>5. ASSUME NEW t \in Task, New(t)'
        PROVE  /\ \A u \in Children(parent[t])' : New(u)' => u = t
               /\ elders'[t] = Children(parent[t])' \ {t}
    BY <1>2, <2>1, <2>5 DEF DepsInv, CreatorInv, Children
  <2>6. ASSUME NEW t \in Task, NEW u \in elders'[t]
        PROVE  parent'[u] = parent'[t] /\ Launched(u)'
    BY <1>2, <2>2 DEF DepsInv, CreatorInv
  <2>7. QED BY <2>1, <2>3, <2>4, <2>5, <2>6 DEF CreatorInv
<1>4. MapInv'
  <2>1. \A a \in Actor, x \in Addr : Writers(a, x)' = Writers(a, x)
    BY <1>2 DEF Writers, Children
  <2>2. QED BY <2>1 DEF DepsInv, MapInv, LastOf
<1>5. FuturesInv'
  BY DEF DepsInv, FuturesInv, LastOf, Named
<1>6. QED BY <1>1, <1>3, <1>4, <1>5

\* If moreover it starts no task, and none that has returned goes on, it
\* preserves the whole invariant.
LEMMA NoStartStep ==
  ASSUME DepsInv, UNCHANGED <<parent, depends, dep_futures, elders, df_map>>,
         pc' \in [Actor -> ThreadPC \cup TaskPC],
         \A i \in Thread : pc'[i] \in ThreadPC,
         \A t \in Task : pc'[t] \in TaskPC,
         \A t \in Task : pc'[t] # pc[t] => Launched(t) /\ Launched(t)',
         \A a \in Actor : pc[a] \in {"count", "launch"} => pc'[a] = pc[a],
         \A t \in Task : pc'[t] # pc[t] => Started(t) /\ pc[t] # "done"
  PROVE  DepsInv'
<1>1. DepsType' /\ CreatorInv' /\ MapInv' /\ FuturesInv'
  BY OutsideStep
<1>2. DependencesHold'
  <2>1. \A t, u \in Task : DependsOn(t, u)' <=> DependsOn(t, u)
    BY DEF DependsOn, Named
  <2>2. \A t \in Task : Started(t)' => Started(t)
    BY DEF Started
  <2>3. QED BY <2>1, <2>2 DEF DepsInv, DependencesHold
<1>3. QED BY <1>1, <1>2 DEF DepsInv

\* The parent of a new task has no other task in create_df_task.
LEMMA CreatorIdle ==
  ASSUME DepsInv, NEW a \in Actor, pc[a] \notin {"count", "launch", "unborn"}
  PROVE  \A u \in Children(a) : Launched(u)
<1>1. ASSUME NEW u \in Children(a), ~Launched(u) PROVE FALSE
  <2>1. u \in Task /\ parent[u] = a
    BY DEF Children
  <2>2. CASE pc[u] = "unborn"
    BY <2>1, <2>2 DEF DepsInv, CreatorInv
  <2>3. CASE pc[u] \in {"alloc", "counted"}
    BY <2>1, <2>3 DEF DepsInv, CreatorInv
  <2>4. QED BY <1>1, <2>2, <2>3 DEF Launched
<1>2. QED BY <1>1

\* A new task: what it waits for is in df_map.
LEMMA CreateStep ==
  ASSUME DepsInv, NEW a \in Actor, NEW t \in Task, NEW d \in DependList,
         CreateTask(a, t, d)
  PROVE  DepsInv'
<1>1. pc[a] = "body" /\ pc[t] = "unborn" /\ a # t /\ parent[t] = t /\ df_map' = df_map
  BY DEF CreateTask, mapVars, DepsInv, CreatorInv
<1>0. /\ pc' = [pc EXCEPT ![a] = "count", ![t] = "alloc"]
      /\ parent' = [parent EXCEPT ![t] = a]
      /\ depends' = [depends EXCEPT ![t] = d]
      /\ dep_futures' = [dep_futures EXCEPT ![t] = Gather(a, d)]
      /\ elders' = [elders EXCEPT ![t] = Children(a)]
  BY DEF CreateTask
<1>2. /\ pc \in [Actor -> ThreadPC \cup TaskPC] /\ parent \in [Task -> Actor]
      /\ depends \in [Task -> DependList] /\ dep_futures \in [Task -> SUBSET Task]
      /\ df_map \in [Actor -> [Addr -> SUBSET Task]] /\ elders \in [Task -> SUBSET Task]
      /\ t \in Actor
  BY DEF DepsInv, DepsType, Actor
<1>3. /\ \A b \in Actor : pc'[b] = IF b = t THEN "alloc" ELSE IF b = a THEN "count" ELSE pc[b]
      /\ \A u \in Task : parent'[u] = IF u = t THEN a ELSE parent[u]
      /\ \A u \in Task : depends'[u] = IF u = t THEN d ELSE depends[u]
      /\ \A u \in Task : dep_futures'[u] = IF u = t THEN Gather(a, d) ELSE dep_futures[u]
      /\ \A u \in Task : elders'[u] = IF u = t THEN Children(a) ELSE elders[u]
  BY <1>1, <1>0, <1>2
<1>4. /\ \A x \in d.in \cup d.out : x \in Addr
      /\ Gather(a, d) \subseteq Task /\ Children(a) \subseteq Task
  <2>1. d.in \subseteq Addr /\ d.out \subseteq Addr
    BY DEF DependList
  <2>2. QED BY <1>2, <2>1 DEF Gather, Children
<1>5. \A u \in Children(a) : Launched(u)
  BY <1>1, CreatorIdle
<1>6. /\ \A u \in Task : Launched(u)' <=> Launched(u)
      /\ \A u \in Task : New(u)' <=> New(u) \/ u = t
      /\ \A u \in Task : Started(u)' <=> Started(u)
      /\ ~Launched(t)
  <2>1. ASSUME NEW u \in Task
        PROVE  pc'[u] = IF u = t THEN "alloc" ELSE IF u = a THEN "count" ELSE pc[u]
    BY <1>3 DEF Actor
  <2>2. pc[a] = "body" /\ pc[t] = "unborn" /\ a # t
    BY <1>1
  <2>3. ASSUME NEW u \in Task
        PROVE  /\ Launched(u)' <=> Launched(u)
               /\ New(u)' <=> New(u) \/ u = t
               /\ Started(u)' <=> Started(u)
    <3>1. CASE u = t
      BY <2>1, <2>2, <3>1 DEF Launched, New, Started, Calls
    <3>2. CASE u = a
      BY <2>1, <2>2, <3>2 DEF Launched, New, Started, Calls
    <3>3. CASE u # t /\ u # a
      <4>1. pc'[u] = pc[u]
        BY <2>1, <3>3
      <4>2. QED BY <3>3, <4>1 DEF Launched, New, Started
    <3>4. QED BY <3>1, <3>2, <3>3
  <2>4. QED BY <2>2, <2>3 DEF Launched
<1>7. \A u \in Task : t \notin elders[u]
  BY <1>2, <1>6 DEF DepsInv, CreatorInv
<1>8. DepsType'
  <2>1. pc' \in [Actor -> ThreadPC \cup TaskPC]
    BY <1>0, <1>2 DEF ThreadPC, TaskPC, Calls
  <2>2. \A i \in Thread : pc'[i] \in ThreadPC
    BY <1>3, DisjointAssumption DEF DepsInv, DepsType, ThreadPC, Calls, Actor
  <2>3. \A u \in Task : pc'[u] \in TaskPC
    BY <1>3 DEF DepsInv, DepsType, TaskPC, Calls, Actor
  <2>4. /\ parent' \in [Task -> Actor] /\ depends' \in [Task -> DependList]
        /\ dep_futures' \in [Task -> SUBSET Task] /\ elders' \in [Task -> SUBSET Task]
    BY <1>0, <1>2, <1>4
  <2>5. QED BY <1>1, <1>2, <2>1, <2>2, <2>3, <2>4 DEF DepsType
<1>9. CreatorInv'
  <2>1. ASSUME NEW u \in Task
        PROVE  /\ pc'[u] = "unborn" => parent'[u] = u /\ elders'[u] = {}
               /\ pc'[u] # "unborn" => parent'[u] # u
    <3>1. CASE u = t
      BY <1>1, <1>2, <1>3, <3>1
    <3>2. CASE u # t
      <4>1. /\ parent'[u] = parent[u] /\ elders'[u] = elders[u]
            /\ pc'[u] = "unborn" <=> pc[u] = "unborn"
        BY <1>1, <1>3, <3>2 DEF Actor
      <4>2. QED BY <4>1 DEF DepsInv, CreatorInv
    <3>3. QED BY <3>1, <3>2
  <2>2. ASSUME NEW u \in Task, pc'[u] \in {"alloc", "counted"}, u # t
        PROVE  parent[u] \notin {a, t}
    BY <1>1, <1>3, <2>2 DEF DepsInv, CreatorInv, Actor
  <2>3. ASSUME NEW u \in Task
        PROVE  /\ pc'[u] = "alloc" => pc'[parent'[u]] = "count"
               /\ pc'[u] = "counted" => pc'[parent'[u]] = "launch"
    <3>1. CASE u = t
      BY <1>1, <1>2, <1>3, <3>1
    <3>2. CASE u # t /\ pc'[u] \in {"alloc", "counted"}
      <4>1. parent'[u] = parent[u] /\ parent[u] \in Actor /\ pc'[parent[u]] = pc[parent[u]]
        BY <1>2, <1>3, <2>2, <3>2
      <4>2. pc[u] = pc'[u]
        BY <1>3, <3>2 DEF Actor
      <4>3. QED BY <4>1, <4>2 DEF DepsInv, CreatorInv
    <3>3. QED BY <3>1, <3>2
  <2>4. ASSUME NEW u \in Task, New(u)'
        PROVE  /\ \A v \in Children(parent[u])' : New(v)' => v = u
               /\ elders'[u] = Children(parent[u])' \ {u}
    <3>1. CASE u = t
      <4>1. Children(parent[u])' = Children(a) \cup {t}
        BY <1>3, <3>1 DEF Children
      <4>2. t \notin Children(a)
        BY <1>1 DEF Children
      <4>3. \A v \in Children(a) : ~New(v)
        BY <1>5 DEF Launched, New
      <4>4. QED BY <1>3, <1>4, <1>6, <3>1, <4>1, <4>2, <4>3
    <3>2. CASE u # t
      <4>1. parent[u] \notin {a, t} /\ New(u)
        BY <1>6, <2>2, <2>4, <3>2 DEF New
      <4>2. Children(parent[u])' = Children(parent[u])
        BY <1>1, <1>3, <3>2, <4>1 DEF Children
      <4>3. t \notin Children(parent[u])
        BY <1>1, <4>1 DEF Children
      <4>4. /\ \A v \in Children(parent[u]) : New(v) => v = u
            /\ elders[u] = Children(parent[u]) \ {u}
        BY <4>1 DEF DepsInv, CreatorInv
      <4>5. QED BY <1>3, <1>6, <3>2, <4>2, <4>3, <4>4 DEF Children
    <3>3. QED BY <3>1, <3>2
  <2>5. ASSUME NEW u \in Task, NEW v \in elders'[u]
        PROVE  parent'[v] = parent'[u] /\ Launched(v)'
    <3>1. CASE u = t
      <4>1. v \in Children(a) /\ v \in Task /\ parent[v] = a /\ v # t
        <5>1. elders'[u] = Children(a)
          BY <1>3, <3>1
        <5>2. QED BY <1>1, <5>1 DEF Children
      <4>2. QED BY <1>3, <1>5, <1>6, <3>1, <4>1
    <3>2. CASE u # t
      BY <1>2, <1>3, <1>6, <1>7, <3>2 DEF DepsInv, CreatorInv
    <3>3. QED BY <3>1, <3>2
  <2>6. QED BY <2>1, <2>3, <2>4, <2>5 DEF CreatorInv
<1>10. MapInv'
  <2>1. \A b \in Actor, x \in Addr : Writers(b, x)' = Writers(b, x)
    BY <1>3, <1>6 DEF Writers, Children
  <2>2. \A b \in Actor, x \in Addr : t \notin Writers(b, x) /\ Writers(b, x) \subseteq Task
    BY <1>6 DEF Writers, Children
  <2>3. \A b \in Actor, x \in Addr, w \in Task :
          LastOf(w, Writers(b, x)) => LastOf(w, Writers(b, x))'
    BY <1>3, <2>1, <2>2 DEF LastOf
  <2>4. QED BY <1>1, <2>1, <2>2, <2>3 DEF DepsInv, MapInv
<1>11. FuturesInv'
  <2> SUFFICES ASSUME NEW u \in Task, NEW x \in Named(u)',
                      {v \in elders'[u] : x \in depends'[v].out} # {}
               PROVE  \E w \in dep_futures'[u] :
                        LastOf(w, {v \in elders[u] : x \in depends[v].out})'
    BY DEF FuturesInv
  <2>1. CASE u = t
    <3>1. x \in d.in \cup d.out /\ x \in Addr
      BY <1>3, <1>4, <2>1 DEF Named
    <3>2. {v \in elders'[u] : x \in depends'[v].out} = Writers(a, x)
      <4>1. t \notin Children(a) /\ elders'[u] = Children(a)
        BY <1>1, <1>3, <2>1 DEF Children
      <4>2. \A v \in Children(a) : Launched(v) /\ depends'[v] = depends[v]
        BY <1>3, <1>4, <1>5, <4>1
      <4>3. QED BY <4>1, <4>2 DEF Writers
    <3>3. PICK w \in Writers(a, x) : df_map[a][x] = {w} /\ LastOf(w, Writers(a, x))
      BY <3>1, <3>2 DEF DepsInv, MapInv
    <3>4. w \in dep_futures'[u]
      BY <1>3, <2>1, <3>1, <3>3 DEF Gather
    <3>5. w # t /\ w \in Task
      BY <1>1, <3>3 DEF Writers, Children
    <3>6. QED BY <1>3, <3>2, <3>3, <3>4, <3>5 DEF LastOf
  <2>2. CASE u # t
    <3>1. /\ elders'[u] = elders[u] /\ x \in Named(u) /\ dep_futures'[u] = dep_futures[u]
          /\ elders[u] \subseteq Task
      BY <1>2, <1>3, <2>2 DEF Named
    <3>2. {v \in elders'[u] : x \in depends'[v].out} = {v \in elders[u] : x \in depends[v].out}
      BY <1>3, <1>7, <3>1
    <3>3. PICK w \in dep_futures[u] : LastOf(w, {v \in elders[u] : x \in depends[v].out})
      BY <3>1, <3>2 DEF DepsInv, FuturesInv
    <3>4. w # t /\ w \in Task
      BY <1>7, <3>1, <3>3 DEF LastOf
    <3>5. QED BY <1>3, <3>1, <3>2, <3>3, <3>4 DEF LastOf
  <2>3. QED BY <2>1, <2>2
<1>12. DependencesHold'
  <2> SUFFICES ASSUME NEW u \in Task, NEW v \in Task, Started(u)', DependsOn(u, v)'
               PROVE  pc'[v] = "done"
    BY DEF DependencesHold
  <2>1. Started(u) /\ u # t
    BY <1>1, <1>6 DEF Started, Calls
  <2>2. v # t /\ DependsOn(u, v)
    BY <1>3, <1>7, <2>1 DEF DependsOn, Named
  <2>3. pc[v] = "done" /\ v # a
    BY <1>1, <2>1, <2>2 DEF DepsInv, DependencesHold
  <2>4. QED BY <1>3, <2>2, <2>3 DEF Actor
<1>13. QED BY <1>8, <1>9, <1>10, <1>11, <1>12 DEF DepsInv

\* team->num_tasks++ changes no task but the new one.
LEMMA CountStep ==
  ASSUME DepsInv, NEW a \in Actor, NEW t \in Task, CountTask(a, t)
  PROVE  DepsInv'
<1>1. /\ pc[a] = "count" /\ pc[t] = "alloc" /\ parent[t] = a /\ a # t
      /\ UNCHANGED <<parent, depends, dep_futures, elders, df_map>>
  BY DEF CountTask, taskVars, mapVars
<1>2. \A b \in Actor : pc'[b] = IF b = t THEN "counted" ELSE IF b = a THEN "launch" ELSE pc[b]
  BY DEF CountTask, DepsInv, DepsType
<1>3. DepsType'
  <2>1. pc' \in [Actor -> ThreadPC \cup TaskPC]
    BY DEF CountTask, DepsInv, DepsType, ThreadPC, TaskPC, Calls
  <2>2. \A i \in Thread : pc'[i] \in ThreadPC
    BY <1>2, DisjointAssumption DEF DepsInv, DepsType, ThreadPC, Calls, Actor
  <2>3. \A u \in Task : pc'[u] \in TaskPC
    BY <1>2 DEF DepsInv, DepsType, TaskPC, Calls, Actor
  <2>4. QED BY <1>1, <2>1, <2>2, <2>3 DEF DepsInv, DepsType
<1>4. ASSUME NEW u \in Task
      PROVE  /\ Launched(u)' <=> Launched(u)
             /\ New(u)' <=> New(u)
             /\ Started(u)' <=> Started(u)
             /\ pc[u] = "done" => pc'[u] = "done"
             /\ pc'[u] = "unborn" <=> pc[u] = "unborn"
  <2>1. CASE u = t
    BY <1>1, <1>2, <2>1 DEF Launched, New, Started, Calls, Actor
  <2>2. CASE u = a
    BY <1>1, <1>2, <2>2 DEF Launched, New, Started, Calls, Actor
  <2>3. CASE u # t /\ u # a
    BY <1>2, <2>3 DEF Launched, New, Started, Actor
  <2>4. QED BY <2>1, <2>2, <2>3
<1>5. CreatorInv'
  <2>1. ASSUME NEW u \in Task
        PROVE  /\ pc'[u] = "unborn" => parent'[u] = u /\ elders'[u] = {}
               /\ pc'[u] # "unborn" => parent'[u] # u
    BY <1>1, <1>4 DEF DepsInv, CreatorInv
  <2>2. ASSUME NEW u \in Task, New(u), u # t
        PROVE  parent[u] # a /\ parent[u] # t /\ parent[u] \in Actor
    <3>1. parent[u] # a
      BY <1>1, <2>2 DEF New, DepsInv, CreatorInv, Children
    <3>2. parent[u] # t
      BY <1>1, <2>2 DEF New, DepsInv, CreatorInv
    <3>3. QED BY <3>1, <3>2 DEF DepsInv, DepsType
  <2>3. ASSUME NEW u \in Task
        PROVE  /\ pc'[u] = "alloc" => pc'[parent'[u]] = "count"
               /\ pc'[u] = "counted" => pc'[parent'[u]] = "launch"
    <3>1. CASE u = t
      BY <1>1, <1>2, <3>1 DEF Actor
    <3>2. CASE u # t /\ pc'[u] \in {"alloc", "counted"}
      <4>1. New(u) /\ pc'[u] = pc[u]
        BY <1>1, <1>2, <3>2 DEF New, Actor
      <4>2. parent'[u] = parent[u] /\ pc'[parent[u]] = pc[parent[u]]
        BY <1>1, <1>2, <2>2, <3>2, <4>1
      <4>3. QED BY <4>1, <4>2 DEF DepsInv, CreatorInv
    <3>3. QED BY <3>1, <3>2
  <2>4. ASSUME NEW u \in Task, New(u)'
        PROVE  /\ \A v \in Children(parent[u])' : New(v)' => v = u
               /\ elders'[u] = Children(parent[u])' \ {u}
    BY <1>1, <1>4, <2>4 DEF DepsInv, CreatorInv, Children
  <2>5. ASSUME NEW u \in Task, NEW v \in elders'[u]
        PROVE  parent'[v] = parent'[u] /\ Launched(v)'
    <3>1. v \in Task /\ v \in elders[u]
      BY <1>1 DEF DepsInv, DepsType
    <3>2. QED BY <1>1, <1>4, <3>1 DEF DepsInv, CreatorInv
  <2>6. QED BY <2>1, <2>3, <2>4, <2>5 DEF CreatorInv
<1>6. MapInv'
  <2>1. \A b \in Actor, x \in Addr : Writers(b, x)' = Writers(b, x)
    BY <1>1, <1>4 DEF Writers, Children
  <2>2. QED BY <1>1, <2>1 DEF DepsInv, MapInv, LastOf
<1>7. FuturesInv'
  BY <1>1 DEF DepsInv, FuturesInv, LastOf, Named
<1>8. DependencesHold'
  <2>1. \A u, v \in Task : DependsOn(u, v)' <=> DependsOn(u, v)
    BY <1>1 DEF DependsOn, Named
  <2>2. QED BY <1>4, <2>1 DEF DepsInv, DependencesHold
<1>9. QED BY <1>3, <1>5, <1>6, <1>7, <1>8 DEF DepsInv

\* A task handed to HPX is the last writer of what it writes.
LEMMA LaunchStep ==
  ASSUME DepsInv, NEW a \in Actor, NEW t \in Task, Launch(a, t)
  PROVE  DepsInv'
<1>1. /\ pc[a] = "launch" /\ pc[t] = "counted" /\ parent[t] = a /\ a # t
      /\ UNCHANGED <<parent, depends, dep_futures, elders>>
  BY DEF Launch, taskVars
<1>2. \A b \in Actor : pc'[b] = IF b = t THEN "pending" ELSE IF b = a THEN "body" ELSE pc[b]
  BY DEF Launch, DepsInv, DepsType
<1>3. \A b \in Actor, x \in Addr :
        df_map'[b][x] = IF b = a /\ x \in depends[t].out THEN {t} ELSE df_map[b][x]
  BY DEF Launch, DepsInv, DepsType
<1>4. DepsType'
  <2>1. pc' \in [Actor -> ThreadPC \cup TaskPC]
    BY DEF Launch, DepsInv, DepsType, ThreadPC, TaskPC, Calls
  <2>2. \A i \in Thread : pc'[i] \in ThreadPC
    BY <1>2, DisjointAssumption DEF DepsInv, DepsType, ThreadPC, Calls, Actor
  <2>3. \A u \in Task : pc'[u] \in TaskPC
    BY <1>2 DEF DepsInv, DepsType, TaskPC, Calls, Actor
  <2>4. df_map' \in [Actor -> [Addr -> SUBSET Task]]
    BY DEF Launch, DepsInv, DepsType
  <2>5. QED BY <1>1, <2>1, <2>2, <2>3, <2>4 DEF DepsInv, DepsType
<1>5. ASSUME NEW u \in Task
      PROVE  /\ Launched(u)' <=> Launched(u) \/ u = t
             /\ New(u)' <=> New(u) /\ u # t
             /\ Started(u)' <=> Started(u)
             /\ pc[u] = "done" => pc'[u] = "done"
             /\ pc'[u] = "unborn" <=> pc[u] = "unborn"
  <2>1. CASE u = t
    BY <1>1, <1>2, <2>1 DEF Launched, New, Started, Calls, Actor
  <2>2. CASE u = a
    BY <1>1, <1>2, <2>2 DEF Launched, New, Started, Calls, Actor
  <2>3. CASE u # t /\ u # a
    BY <1>2, <2>3 DEF Launched, New, Started, Actor
  <2>4. QED BY <2>1, <2>2, <2>3
<1>6. New(t) /\ ~Launched(t) /\ elders[t] = Children(a) \ {t}
  BY <1>1 DEF DepsInv, CreatorInv, New, Launched
<1>7. CreatorInv'
  <2>1. ASSUME NEW u \in Task
        PROVE  /\ pc'[u] = "unborn" => parent'[u] = u /\ elders'[u] = {}
               /\ pc'[u] # "unborn" => parent'[u] # u
    BY <1>1, <1>5 DEF DepsInv, CreatorInv
  <2>2. ASSUME NEW u \in Task, New(u), u # t
        PROVE  parent[u] # a /\ parent[u] # t /\ parent[u] \in Actor
    <3>1. parent[u] # a
      BY <1>1, <1>6, <2>2 DEF DepsInv, CreatorInv, Children
    <3>2. parent[u] # t
      BY <1>1, <2>2 DEF New, DepsInv, CreatorInv
    <3>3. QED BY <3>1, <3>2 DEF DepsInv, DepsType
  <2>3. ASSUME NEW u \in Task
        PROVE  /\ pc'[u] = "alloc" => pc'[parent'[u]] = "count"
               /\ pc'[u] = "counted" => pc'[parent'[u]] = "launch"
    <3>1. CASE u = t
      BY <1>1, <1>2, <3>1 DEF Actor
    <3>2. CASE u # t /\ pc'[u] \in {"alloc", "counted"}
      <4>1. New(u) /\ pc'[u] = pc[u]
        BY <1>1, <1>2, <3>2 DEF New, Actor
      <4>2. parent'[u] = parent[u] /\ pc'[parent[u]] = pc[parent[u]]
        BY <1>1, <1>2, <2>2, <3>2, <4>1
      <4>3. QED BY <4>1, <4>2 DEF DepsInv, CreatorInv
    <3>3. QED BY <3>1, <3>2
  <2>4. ASSUME NEW u \in Task, New(u)'
        PROVE  /\ \A v \in Children(parent[u])' : New(v)' => v = u
               /\ elders'[u] = Children(parent[u])' \ {u}
    BY <1>1, <1>5, <2>4 DEF DepsInv, CreatorInv, Children
  <2>5. ASSUME NEW u \in Task, NEW v \in elders'[u]
        PROVE  parent'[v] = parent'[u] /\ Launched(v)'
    <3>1. v \in Task /\ v \in elders[u]
      BY <1>1 DEF DepsInv, DepsType
    <3>2. QED BY <1>1, <1>5, <3>1 DEF DepsInv, CreatorInv
  <2>6. QED BY <2>1, <2>3, <2>4, <2>5 DEF CreatorInv
<1>8. MapInv'
  <2> SUFFICES ASSUME NEW b \in Actor, NEW x \in Addr
               PROVE  \/ df_map'[b][x] = {} /\ Writers(b, x)' = {}
                      \/ \E w \in Writers(b, x)' :
                           df_map'[b][x] = {w} /\ LastOf(w, Writers(b, x))'
    BY DEF MapInv
  <2>1. CASE b = a /\ x \in depends[t].out
    <3>1. Writers(b, x)' = Writers(a, x) \cup {t}
      BY <1>1, <1>5, <2>1 DEF Writers, Children
    <3>2. Writers(a, x) \subseteq elders[t]
      BY <1>6 DEF Writers
    <3>3. df_map'[b][x] = {t}
      BY <1>3, <2>1
    <3>4. LastOf(t, Writers(b, x))'
      BY <1>1, <3>1, <3>2 DEF LastOf
    <3>5. QED BY <3>1, <3>3, <3>4
  <2>2. CASE ~(b = a /\ x \in depends[t].out)
    <3>1. Writers(b, x)' = Writers(b, x)
      BY <1>1, <1>5, <2>2 DEF Writers, Children
    <3>2. df_map'[b][x] = df_map[b][x]
      BY <1>3, <2>2
    <3>3. \A w : LastOf(w, Writers(b, x)) => LastOf(w, Writers(b, x))'
      BY <1>1, <3>1 DEF LastOf
    <3>4. QED BY <3>1, <3>2, <3>3 DEF DepsInv, MapInv
  <2>3. QED BY <2>1, <2>2
<1>9. FuturesInv'
  BY <1>1 DEF DepsInv, FuturesInv, LastOf, Named
<1>10. DependencesHold'
  <2>1. \A u, v \in Task : DependsOn(u, v)' <=> DependsOn(u, v)
    BY <1>1 DEF DependsOn, Named
  <2>2. QED BY <1>5, <2>1 DEF DepsInv, DependencesHold
<1>11. QED BY <1>4, <1>7, <1>8, <1>9, <1>10 DEF DepsInv

\* A task starts: the last writer of each address it names has returned, and
\* had itself waited for the writers before it.
LEMMA StartStep ==
  ASSUME DepsInv, NEW t \in Task, StartTask(t)
  PROVE  DepsInv'
<1>1. /\ pc[t] = "pending" /\ pc' = [pc EXCEPT ![t] = "body"] /\ t \in Actor
      /\ UNCHANGED <<parent, depends, dep_futures, elders, df_map>>
      /\ \A w \in dep_futures[t] : pc[w] = "done"
  BY DEF StartTask, Goto, taskVars, mapVars, Actor
<1>2. \A b \in Actor : pc'[b] = IF b = t THEN "body" ELSE pc[b]
  BY <1>1 DEF DepsInv, DepsType
<1>3. /\ pc' \in [Actor -> ThreadPC \cup TaskPC]
      /\ \A i \in Thread : pc'[i] \in ThreadPC
      /\ \A u \in Task : pc'[u] \in TaskPC
      /\ \A u \in Task : pc'[u] # pc[u] => Launched(u) /\ Launched(u)'
      /\ \A a \in Actor : pc[a] \in {"count", "launch"} => pc'[a] = pc[a]
  <2>1. pc' \in [Actor -> ThreadPC \cup TaskPC]
    BY <1>1 DEF DepsInv, DepsType, ThreadPC, TaskPC, Calls
  <2>2. \A i \in Thread : pc'[i] \in ThreadPC
    BY <1>2, DisjointAssumption DEF DepsInv, DepsType, Actor
  <2>3. \A u \in Task : pc'[u] \in TaskPC
    BY <1>2 DEF DepsInv, DepsType, Actor, TaskPC, Calls
  <2>4. \A u \in Task : pc'[u] # pc[u] => Launched(u) /\ Launched(u)'
    BY <1>1, <1>2 DEF Launched, Actor
  <2>5. \A a \in Actor : pc[a] \in {"count", "launch"} => pc'[a] = pc[a]
    BY <1>1, <1>2
  <2>6. QED BY <2>1, <2>2, <2>3, <2>4, <2>5
<1>4. DepsType' /\ CreatorInv' /\ MapInv' /\ FuturesInv'
  BY <1>1, <1>3, OutsideStep
<1>5. DependencesHold'
  <2> SUFFICES ASSUME NEW v \in Task, NEW u \in Task, Started(v)', DependsOn(v, u)'
               PROVE  pc'[u] = "done"
    BY DEF DependencesHold
  <2>1. DependsOn(v, u)
    BY <1>1 DEF DependsOn, Named
  <2>2. CASE v # t
    <3>1. Started(v)
      BY <1>2, <2>2 DEF Started, Actor
    <3>2. pc[u] = "done"
      BY <2>1, <3>1 DEF DepsInv, DependencesHold
    <3>3. QED BY <1>1, <1>2, <3>2 DEF Actor
  <2>3. CASE v = t
    <3>1. PICK x \in Named(t) : u \in elders[t] /\ x \in depends[u].out
      BY <2>1, <2>3 DEF DependsOn
    <3>2. PICK w \in dep_futures[t] : LastOf(w, {z \in elders[t] : x \in depends[z].out})
      BY <3>1 DEF DepsInv, FuturesInv
    <3>3. pc[w] = "done" /\ w \in Task /\ w \in elders[t] /\ x \in depends[w].out
      BY <1>1, <3>2 DEF LastOf, DepsInv, DepsType
    <3>4. u = w \/ u \in elders[w]
      BY <3>1, <3>2 DEF LastOf
    <3>5. CASE u \in elders[w]
      <4>1. DependsOn(w, u) /\ Started(w)
        BY <3>1, <3>3, <3>5 DEF DependsOn, Named, Started
      <4>2. pc[u] = "done"
        BY <3>3, <4>1 DEF DepsInv, DependencesHold
      <4>3. QED BY <1>1, <1>2, <4>2 DEF Actor
    <3>6. CASE u = w
      BY <1>1, <1>2, <3>3, <3>6 DEF Actor
    <3>7. QED BY <3>4, <3>5, <3>6
  <2>4. QED BY <2>2, <2>3
<1>6. QED BY <1>4, <1>5 DEF DepsInv

\* A step of one thread or task outside create_df_task and before its end.
LEMMA GotoStep ==
  ASSUME DepsInv, NEW a \in Actor, NEW from, NEW to, Goto(a, from, to),
         UNCHANGED <<parent, depends, dep_futures, elders, df_map>>,
         from \notin {"count", "launch", "done"},
         a \in Thread => to \in ThreadPC,
         a \in Task => /\ from \in Calls \cup {"dec_child", "dec_team"}
                       /\ to \in TaskPC \ {"unborn", "alloc", "counted"}
  PROVE  DepsInv'
<1>1. /\ pc[a] = from /\ pc' = [pc EXCEPT ![a] = to]
      /\ \A b \in Actor : pc'[b] = IF b = a THEN to ELSE pc[b]
  BY DEF Goto, DepsInv, DepsType
<1>2. pc' \in [Actor -> ThreadPC \cup TaskPC]
  BY <1>1 DEF DepsInv, DepsType, Actor
<1>3. \A i \in Thread : pc'[i] \in ThreadPC
  BY <1>1 DEF DepsInv, DepsType, Actor
<1>4. \A u \in Task : pc'[u] \in TaskPC
  BY <1>1 DEF DepsInv, DepsType, Actor
<1>5. \A u \in Task : pc'[u] # pc[u] => /\ Launched(u) /\ Launched(u)'
                                        /\ Started(u) /\ pc[u] # "done"
  <2>1. ASSUME NEW u \in Task, pc'[u] # pc[u] PROVE u = a
    BY <1>1, <2>1 DEF Actor
  <2>2. a \in Task => /\ Launched(a) /\ Launched(a)' /\ Started(a) /\ pc[a] # "done"
    BY <1>1 DEF Launched, Started, Calls
  <2>3. QED BY <2>1, <2>2
<1>6. \A b \in Actor : pc[b] \in {"count", "launch"} => pc'[b] = pc[b]
  BY <1>1
<1>7. QED BY <1>2, <1>3, <1>4, <1>5, <1>6, NoStartStep

\* The end of the barrier moves only the implicit threads.
LEMMA BarrierStep ==
  ASSUME DepsInv, GlobalBarrier
  PROVE  DepsInv'
<1>1. /\ \A i \in Thread : pc[i] = "bar_enter"
      /\ pc' = [a \in Actor |-> IF a \in Thread THEN "done" ELSE pc[a]]
      /\ UNCHANGED <<parent, depends, dep_futures, elders, df_map>>
  BY DEF GlobalBarrier, taskVars, mapVars
<1>2. \A u \in Task : pc'[u] = pc[u]
  BY <1>1, DisjointAssumption DEF Actor
<1>3. pc' \in [Actor -> ThreadPC \cup TaskPC]
  BY <1>1 DEF DepsInv, DepsType, ThreadPC
<1>4. \A i \in Thread : pc'[i] \in ThreadPC
  BY <1>1 DEF ThreadPC, Actor
<1>5. \A u \in Task : pc'[u] \in TaskPC
  BY <1>2 DEF DepsInv, DepsType
<1>6. \A b \in Actor : pc[b] \in {"count", "launch"} => pc'[b] = pc[b]
  BY <1>1
<1>7. QED BY <1>1, <1>2, <1>3, <1>4, <1>5, <1>6, NoStartStep

\* Every step preserves the invariant.
LEMMA NextDeps == DepsInv /\ [Next]_vars => DepsInv'
<1> SUFFICES ASSUME DepsInv, [Next]_vars PROVE DepsInv'
  OBVIOUS
<1> USE DEF taskVars, mapVars
<1>1. ASSUME NEW a \in Creator, Program(a) PROVE DepsInv'
  <2>1. a \in Actor
    BY CreatorAssumption DEF Actor
  <2>2. ASSUME NEW t \in Task, NEW d \in DependList, CreateTask(a, t, d) PROVE DepsInv'
    BY <2>1, <2>2, CreateStep
  <2>3. CASE StartTaskgroup(a) \/ EndTaskgroup(a)
    <3>1. UNCHANGED <<pc, parent, depends, dep_futures, elders, df_map>>
      BY <2>3 DEF StartTaskgroup, EndTaskgroup
    <3>2. QED BY <3>1, NoStartStep DEF DepsInv, DepsType
  <2>4. CASE TaskWait(a)
    <3>1. /\ Goto(a, "body", "taskwait")
          /\ UNCHANGED <<parent, depends, dep_futures, elders, df_map>>
      BY <2>4 DEF TaskWait
    <3>2. QED BY <2>1, <3>1, GotoStep DEF ThreadPC, TaskPC, Calls
  <2>5. Depends[a] \subseteq DependList
    BY DependsAssumption
  <2>6. QED BY <1>1, <2>2, <2>3, <2>4, <2>5 DEF Program
<1>2. ASSUME NEW a \in Actor, ActorRuntime(a) PROVE DepsInv'
  <2>1. ASSUME NEW t \in Task, CountTask(a, t) \/ Launch(a, t) PROVE DepsInv'
    BY <2>1, CountStep, LaunchStep
  <2>2. CASE TaskWaitReturn(a)
    <3>1. /\ Goto(a, "taskwait", "body")
          /\ UNCHANGED <<parent, depends, dep_futures, elders, df_map>>
      BY <2>2 DEF TaskWaitReturn
    <3>2. QED BY <3>1, GotoStep DEF ThreadPC, TaskPC, Calls
  <2>3. QED BY <1>2, <2>1, <2>2 DEF ActorRuntime
<1>3. ASSUME NEW i \in Thread, BarrierChildren(i) \/ BarrierTeam(i) \/ BarrierWait(i)
      PROVE  DepsInv'
  <2>1. PICK from \in ThreadPC, to \in ThreadPC :
          /\ Goto(i, from, to) /\ from \notin {"count", "launch", "done"}
          /\ UNCHANGED <<parent, depends, dep_futures, elders, df_map>>
    BY <1>3 DEF BarrierChildren, BarrierTeam, BarrierWait, ThreadPC, Calls
  <2>2. i \in Actor /\ i \notin Task
    BY DisjointAssumption DEF Actor
  <2>3. QED BY <2>1, <2>2, GotoStep
<1>4. ASSUME NEW t \in Task, StartTask(t) PROVE DepsInv'
  BY <1>4, StartStep
<1>5. ASSUME NEW t \in Task, EndTask(t) \/ LeaveParent(t) \/ LeaveTeam(t)
      PROVE  DepsInv'
  <2>1. PICK from \in Calls \cup {"dec_child", "dec_team"},
             to \in TaskPC \ {"unborn", "alloc", "counted"} :
          /\ Goto(t, from, to) /\ from \notin {"count", "launch", "done"}
          /\ UNCHANGED <<parent, depends, dep_futures, elders, df_map>>
    BY <1>5 DEF EndTask, LeaveParent, LeaveTeam, TaskPC, Calls
  <2>2. t \in Actor /\ t \notin Thread
    BY DisjointAssumption DEF Actor
  <2>3. QED BY <2>1, <2>2, GotoStep
<1>6. CASE GlobalBarrier
  BY <1>6, BarrierStep
<1>7. CASE UNCHANGED vars
  <2>1. UNCHANGED <<pc, parent, depends, dep_futures, elders, df_map>>
    BY <1>7 DEF vars
  <2>2. QED BY <2>1, NoStartStep DEF DepsInv, DepsType
<1>8. QED
  BY <1>1, <1>2, <1>3, <1>4, <1>5, <1>6, <1>7
     DEF Next, ThreadRuntime, TaskRuntime, Actor

\* The last writers in df_map are enough, for every program of depend clauses.
THEOREM DepsInvariant == Spec => []DepsInv
  BY InitDeps, NextDeps, PTL DEF Spec

\* A task starts only after every earlier task of its parent that writes an
\* address it names.
THEOREM DependencesCorrect == Spec => []DependencesHold
<1>1. DepsInv => DependencesHold
  BY DEF DepsInv
<1>2. QED BY <1>1, DepsInvariant, PTL

(***************************************************************************)
(* The tasks are ordered as TaskOrder asks.                                *)
(***************************************************************************)

OrderStatus == [t \in Task |-> StatusAt(pc[t])]
OrderFollows == {p \in Task \X Task : DependsOn(p[2], p[1])}

\* The status of each place a task can be at.
LEMMA StatusNames ==
  /\ StatusAt("unborn") = "idle"
  /\ \A p \in {"alloc", "counted", "pending"} : StatusAt(p) = "waiting"
  /\ \A p \in Calls \cup {"dec_child", "dec_team"} : StatusAt(p) = "run"
  /\ StatusAt("done") = "end"
  BY DEF StatusAt, Calls

\* A step that leaves every task's status and the dependences alone is none of
\* the order's.
LEMMA OrderStutter ==
  ASSUME \A t \in Task : StatusAt(pc'[t]) = StatusAt(pc[t]),
         UNCHANGED <<depends, elders>>
  PROVE  UNCHANGED Order!vars
<1>1. OrderStatus' = OrderStatus
  BY DEF OrderStatus
<1>2. OrderFollows' = OrderFollows
  BY DEF OrderFollows, DependsOn, Named
<1>3. QED BY <1>1, <1>2 DEF Order!vars, OrderStatus, OrderFollows

\* A step of one task from one status to another.
LEMMA OrderMove ==
  ASSUME DepsInv, NEW t \in Task, NEW from, NEW to, Goto(t, from, to),
         UNCHANGED <<depends, elders>>
  PROVE  /\ OrderStatus[t] = StatusAt(from)
         /\ OrderStatus' = [OrderStatus EXCEPT ![t] = StatusAt(to)]
         /\ OrderFollows' = OrderFollows
<1>1. pc[t] = from /\ \A u \in Task : pc'[u] = IF u = t THEN to ELSE pc[u]
  BY DEF Goto, DepsInv, DepsType, Actor
<1>2. OrderStatus[t] = StatusAt(from)
  BY <1>1 DEF OrderStatus
<1>3. \A u \in Task : OrderStatus'[u] = IF u = t THEN StatusAt(to) ELSE OrderStatus[u]
  BY <1>1 DEF OrderStatus
<1>4. OrderStatus' = [OrderStatus EXCEPT ![t] = StatusAt(to)]
  BY <1>3 DEF OrderStatus
<1>5. OrderFollows' = OrderFollows
  BY DEF OrderFollows, DependsOn, Named
<1>6. QED BY <1>2, <1>4, <1>5

\* create_df_task puts a new task behind the writers of what it names.
LEMMA OrderCreate ==
  ASSUME DepsInv, NEW a \in Actor, NEW t \in Task, NEW d \in DependList,
         CreateTask(a, t, d)
  PROVE  Order!Create(t)
<1>1. /\ pc[a] = "body" /\ pc[t] = "unborn" /\ a # t /\ t \in Actor /\ parent[t] = t
      /\ pc' = [pc EXCEPT ![a] = "count", ![t] = "alloc"]
      /\ depends' = [depends EXCEPT ![t] = d]
      /\ elders' = [elders EXCEPT ![t] = Children(a)]
      /\ pc \in [Actor -> ThreadPC \cup TaskPC] /\ depends \in [Task -> DependList]
      /\ elders \in [Task -> SUBSET Task]
  BY DEF CreateTask, DepsInv, DepsType, CreatorInv, Actor
<1>2. /\ \A u \in Task : pc'[u] = IF u = a THEN "count" ELSE IF u = t THEN "alloc" ELSE pc[u]
      /\ \A u \in Task : depends'[u] = IF u = t THEN d ELSE depends[u]
      /\ \A u \in Task : elders'[u] = IF u = t THEN Children(a) ELSE elders[u]
  BY <1>1 DEF Actor
<1>3. \A u \in Task : StatusAt(pc'[u]) = IF u = t THEN "waiting" ELSE StatusAt(pc[u])
  <2>1. StatusAt("count") = StatusAt("body") /\ StatusAt("alloc") = "waiting"
    BY StatusNames DEF Calls
  <2>2. pc[a] = "body" /\ a # t
    BY <1>1
  <2>3. QED BY <1>2, <2>1, <2>2
<1>4. OrderStatus[t] = "idle" /\ OrderStatus' = [OrderStatus EXCEPT ![t] = "waiting"]
  BY <1>1, <1>3, StatusNames DEF OrderStatus
<1>5. \A u \in Children(a) : u \in Task /\ u # t /\ OrderStatus[u] # "idle"
  <2>1. ASSUME NEW u \in Children(a) PROVE OrderStatus[u] # "idle"
    <3>1. Launched(u) /\ u \in Task
      BY <1>1, CreatorIdle DEF Children
    <3>2. pc[u] \in {"pending"} \cup Calls \cup {"dec_child", "dec_team", "done"}
      BY <3>1 DEF Launched, DepsInv, DepsType, TaskPC
    <3>3. QED BY <3>1, <3>2, StatusNames DEF OrderStatus
  <2>2. QED BY <1>1, <2>1 DEF Children
<1>6. \A u \in Task : t \notin elders[u]
  BY <1>1 DEF DepsInv, CreatorInv, Launched
<1>7. \A u, v \in Task :
        DependsOn(u, v)' <=> IF u = t THEN v \in Children(a) /\ depends[v].out \cap (d.in \cup d.out) # {}
                             ELSE DependsOn(u, v)
  <2>1. ASSUME NEW u \in Task, NEW v \in Task, u = t
        PROVE  DependsOn(u, v)' <=> v \in Children(a) /\ depends[v].out \cap (d.in \cup d.out) # {}
    <3>1. elders'[u] = Children(a) /\ depends'[u] = d
      BY <1>2, <2>1
    <3>2. v \in Children(a) => depends'[v] = depends[v]
      BY <1>2, <1>5
    <3>3. QED BY <3>1, <3>2 DEF DependsOn, Named
  <2>2. ASSUME NEW u \in Task, NEW v \in Task, u # t
        PROVE  DependsOn(u, v)' <=> DependsOn(u, v)
    <3>1. elders'[u] = elders[u] /\ depends'[u] = depends[u]
      BY <1>2, <2>2
    <3>2. v \in elders[u] => depends'[v] = depends[v]
      BY <1>2, <1>6
    <3>3. QED BY <3>1, <3>2 DEF DependsOn, Named
  <2>3. QED BY <2>1, <2>2
<1>8. \A v \in Task : ~DependsOn(t, v)
  BY <1>1 DEF DependsOn, DepsInv, CreatorInv
<1> DEFINE S == {v \in Children(a) : depends[v].out \cap (d.in \cup d.out) # {}}
<1>9. OrderFollows' = OrderFollows \cup (S \X {t})
  <2>1. \A u, v \in Task : <<u, v>> \in OrderFollows' <=> <<u, v>> \in OrderFollows \cup (S \X {t})
    BY <1>5, <1>7, <1>8 DEF OrderFollows
  <2>2. OrderFollows' \subseteq Task \X Task /\ OrderFollows \cup (S \X {t}) \subseteq Task \X Task
    BY <1>5 DEF OrderFollows
  <2>3. QED BY <2>1, <2>2
<1>10. S \in SUBSET {u \in Task : OrderStatus[u] # "idle"}
  BY <1>5
<1>11. QED BY <1>4, <1>9, <1>10 DEF Order!Create, Order!Move, OrderStatus, OrderFollows

\* The runtime starts from an empty order.
LEMMA OrderInit == Init => Order!Init
<1> SUFFICES ASSUME Init PROVE Order!Init
  OBVIOUS
<1>1. \A t \in Task : StatusAt(pc[t]) = "idle"
  BY StatusNames, DisjointAssumption DEF Init, Actor
<1>2. OrderFollows = {}
  BY DEF Init, OrderFollows, DependsOn
<1>3. QED BY <1>1, <1>2 DEF Order!Init, OrderFollows

\* Every step of the runtime is a step of the order or none of it.
LEMMA OrderNext == DepsInv /\ DepsInv' /\ [Next]_vars => [Order!Next]_(Order!vars)
<1> SUFFICES ASSUME DepsInv, DepsInv', [Next]_vars PROVE [Order!Next]_(Order!vars)
  OBVIOUS
<1> USE DEF taskVars, mapVars
<1>0. pc \in [Actor -> ThreadPC \cup TaskPC]
  BY DEF DepsInv, DepsType
<1>1. ASSUME NEW a \in Creator, Program(a) PROVE [Order!Next]_(Order!vars)
  <2>1. a \in Actor
    BY CreatorAssumption DEF Actor
  <2>2. ASSUME NEW t \in Task, NEW d \in DependList, CreateTask(a, t, d)
        PROVE  [Order!Next]_(Order!vars)
    BY <2>1, <2>2, OrderCreate DEF Order!Next
  <2>3. CASE StartTaskgroup(a) \/ EndTaskgroup(a)
    <3>1. UNCHANGED <<pc, depends, elders>>
      BY <2>3 DEF StartTaskgroup, EndTaskgroup
    <3>2. QED BY <3>1, OrderStutter
  <2>4. CASE TaskWait(a)
    <3>1. /\ pc[a] = "body" /\ pc' = [pc EXCEPT ![a] = "taskwait"]
          /\ UNCHANGED <<depends, elders>>
      BY <2>4 DEF TaskWait, Goto
    <3>2. \A t \in Task : StatusAt(pc'[t]) = StatusAt(pc[t])
      BY <1>0, <2>1, <3>1, StatusNames DEF Calls, Actor
    <3>3. QED BY <3>1, <3>2, OrderStutter
  <2>5. Depends[a] \subseteq DependList
    BY DependsAssumption
  <2>6. QED BY <1>1, <2>2, <2>3, <2>4, <2>5 DEF Program
<1>2. ASSUME NEW a \in Actor, NEW t \in Task, CountTask(a, t) \/ Launch(a, t)
      PROVE  [Order!Next]_(Order!vars)
  <2>1. PICK p \in {"body", "launch"}, q \in {"counted", "pending"} :
             pc' = [pc EXCEPT ![a] = p, ![t] = q]
    BY <1>2 DEF CountTask, Launch
  <2>2. pc[a] \in {"count", "launch"} /\ pc[t] \in {"alloc", "counted"}
        /\ UNCHANGED <<depends, elders>>
    BY <1>2 DEF CountTask, Launch
  <2>3. \A b \in Actor : pc'[b] = IF b = t THEN q ELSE IF b = a THEN p ELSE pc[b]
    BY <1>0, <2>1, <2>2 DEF Actor
  <2>4. \A u \in Task : StatusAt(pc'[u]) = StatusAt(pc[u])
    <3>1. StatusAt(p) = StatusAt(pc[a]) /\ StatusAt(q) = StatusAt(pc[t])
      BY <2>2, StatusNames DEF Calls
    <3>2. QED BY <2>3, <3>1 DEF Actor
  <2>5. QED BY <2>2, <2>4, OrderStutter
<1>3. ASSUME NEW a \in Actor, TaskWaitReturn(a) PROVE [Order!Next]_(Order!vars)
  <2>1. /\ pc[a] = "taskwait" /\ pc' = [pc EXCEPT ![a] = "body"]
        /\ UNCHANGED <<depends, elders>>
    BY <1>3 DEF TaskWaitReturn, Goto
  <2>2. \A t \in Task : StatusAt(pc'[t]) = StatusAt(pc[t])
    BY <1>0, <2>1, StatusNames DEF Calls, Actor
  <2>3. QED BY <2>1, <2>2, OrderStutter
<1>4. ASSUME NEW i \in Thread, BarrierChildren(i) \/ BarrierTeam(i) \/ BarrierWait(i)
      PROVE  [Order!Next]_(Order!vars)
  <2>1. \A t \in Task : pc'[t] = pc[t]
    BY <1>0, <1>4, DisjointAssumption
       DEF BarrierChildren, BarrierTeam, BarrierWait, Goto, Actor
  <2>2. UNCHANGED <<depends, elders>>
    BY <1>4 DEF BarrierChildren, BarrierTeam, BarrierWait
  <2>3. QED BY <2>1, <2>2, OrderStutter
<1>5. ASSUME NEW t \in Task, StartTask(t) PROVE [Order!Next]_(Order!vars)
  <2>1. /\ Goto(t, "pending", "body") /\ UNCHANGED <<depends, elders>>
    BY <1>5 DEF StartTask
  <2>2. /\ OrderStatus[t] = "waiting"
        /\ OrderStatus' = [OrderStatus EXCEPT ![t] = "run"]
        /\ OrderFollows' = OrderFollows
    BY <2>1, OrderMove, StatusNames DEF Calls
  <2>3. ASSUME NEW u \in Task, <<u, t>> \in OrderFollows PROVE OrderStatus[u] = "end"
    <3>1. \A v \in Task : pc'[v] = IF v = t THEN "body" ELSE pc[v]
      BY <1>0, <2>1 DEF Goto, Actor
    <3>2. DependsOn(t, u)'
      BY <2>1, <2>3 DEF OrderFollows, DependsOn, Named
    <3>3. Started(t)'
      BY <3>1 DEF Started, Calls
    <3>4. pc'[u] = "done"
      BY <3>2, <3>3 DEF DepsInv, DependencesHold
    <3>5. pc[u] = "done"
      BY <3>1, <3>4
    <3>6. QED BY <3>5, StatusNames DEF OrderStatus
  <2>4. Order!Start(t)
    BY <2>2, <2>3 DEF Order!Start, Order!Move, OrderStatus, OrderFollows
  <2>5. QED BY <2>4 DEF Order!Next
<1>6. ASSUME NEW t \in Task, EndTask(t) \/ LeaveParent(t)
      PROVE  [Order!Next]_(Order!vars)
  <2>1. PICK from \in {"body", "dec_child"}, to \in {"dec_child", "dec_team"} :
          Goto(t, from, to) /\ UNCHANGED <<depends, elders>>
    BY <1>6 DEF EndTask, LeaveParent
  <2>2. StatusAt(from) = "run" /\ StatusAt(to) = "run"
    BY StatusNames DEF Calls
  <2>3. \A u \in Task : StatusAt(pc'[u]) = StatusAt(pc[u])
    BY <1>0, <2>1, <2>2 DEF Goto, Actor
  <2>4. QED BY <2>1, <2>3, OrderStutter
<1>7. ASSUME NEW t \in Task, LeaveTeam(t) PROVE [Order!Next]_(Order!vars)
  <2>1. /\ Goto(t, "dec_team", "done") /\ UNCHANGED <<depends, elders>>
    BY <1>7 DEF LeaveTeam
  <2>2. /\ OrderStatus[t] = "run"
        /\ OrderStatus' = [OrderStatus EXCEPT ![t] = "end"]
        /\ OrderFollows' = OrderFollows
    BY <2>1, OrderMove, StatusNames
  <2>3. Order!End(t)
    BY <2>2 DEF Order!End, Order!Move, OrderStatus, OrderFollows
  <2>4. QED BY <2>3 DEF Order!Next
<1>8. CASE GlobalBarrier
  <2>1. \A t \in Task : pc'[t] = pc[t]
    BY <1>8, DisjointAssumption DEF GlobalBarrier, Actor
  <2>2. UNCHANGED <<depends, elders>>
    BY <1>8 DEF GlobalBarrier
  <2>3. QED BY <2>1, <2>2, OrderStutter
<1>9. CASE UNCHANGED vars
  <2>1. UNCHANGED <<pc, depends, elders>>
    BY <1>9 DEF vars
  <2>2. QED BY <2>1, OrderStutter
<1>10. QED
  BY <1>1, <1>2, <1>3, <1>4, <1>5, <1>6, <1>7, <1>8, <1>9
     DEF Next, ThreadRuntime, TaskRuntime, ActorRuntime, Actor

\* df_map gives the program the order of TaskOrder, for every program.
THEOREM OrderImplemented == Spec => ImplementsOrder
  BY OrderInit, OrderNext, DepsInvariant, PTL DEF Spec, ImplementsOrder, Order!Spec

(***************************************************************************)
(* The counters, and the waits for them.                                   *)
(***************************************************************************)

\* The sets the counters stand for are finite.
LEMMA CountedFinite ==
  /\ IsFiniteSet(CountedByTeam)
  /\ \A a : IsFiniteSet(CountedByParent(a)) /\ IsFiniteSet(UncountedByParent(a))
<1>1. \A S : S \subseteq Task => IsFiniteSet(S)
  BY TaskAssumption, FS_Subset
<1>2. \A a : CountedByParent(a) \subseteq Task /\ UncountedByParent(a) \subseteq Task
  BY DEF CountedByParent, UncountedByParent, Children
<1>3. CountedByTeam \subseteq Task
  BY DEF CountedByTeam
<1>4. QED BY <1>1, <1>2, <1>3

\* A new team has counted nothing.
LEMMA InitCount == Init => CountInv
<1> SUFFICES ASSUME Init PROVE CountInv
  OBVIOUS
<1>1. \A t \in Task : pc[t] = "unborn"
  BY DisjointAssumption DEF Init, Actor
<1>2. CountType
  BY DEF Init, CountType
<1>3. CountersExact
  <2>1. CountedByTeam = {}
    BY <1>1 DEF CountedByTeam, Calls
  <2>2. \A a : CountedByParent(a) = {} /\ UncountedByParent(a) = {}
    BY <1>1 DEF CountedByParent, UncountedByParent, Children
  <2>3. Cardinality({}) = 0
    BY FS_EmptySet
  <2>4. ASSUME NEW a \in Actor
        PROVE  num_child_tasks[a] =
                 Cardinality(CountedByParent(a)) - Cardinality(UncountedByParent(a))
    <3>1. num_child_tasks[a] = 0
      BY DEF Init
    <3>2. Cardinality(CountedByParent(a)) = 0 /\ Cardinality(UncountedByParent(a)) = 0
      BY <2>2, <2>3
    <3>3. QED BY <3>1, <3>2
  <2>5. num_tasks = Cardinality(CountedByTeam)
    BY <2>1, <2>3 DEF Init
  <2>6. QED BY <2>4, <2>5 DEF CountersExact
<1>4. BarrierInv
  BY <1>1 DEF BarrierInv, Quiet
<1>5. QED BY <1>2, <1>3, <1>4 DEF CountInv

\* No step of one actor that moves no thread to the end of the barrier's loops
\* is taken while the whole team is there, unless it is a thread's or a task's
\* that is not quiet.
LEMMA BarrierKept ==
  ASSUME BarrierInv, NEW a \in Actor,
         a \in Task => pc[a] \notin {"unborn", "done"},
         a \in Thread => pc'[a] # "bar_enter",
         \A i \in Thread : i # a => pc'[i] = pc[i]
  PROVE  BarrierInv'
<1>1. CASE a \in Thread
  BY <1>1 DEF BarrierInv
<1>2. CASE a \in Task
  <2>1. ~Quiet
    BY <1>2 DEF Quiet
  <2>2. \A i \in Thread : pc'[i] = pc[i]
    BY <1>2, DisjointAssumption
  <2>3. QED BY <2>1, <2>2 DEF BarrierInv
<1>3. QED BY <1>1, <1>2 DEF Actor

\* A step that leaves the counters alone and moves tasks only between places
\* that count alike leaves the counters exact.
LEMMA SameCounters ==
  ASSUME CountInv, UNCHANGED <<parent, grouped, num_child_tasks, num_tasks>>,
         in_taskgroup' \in [Actor -> BOOLEAN],
         \A t \in Task : pc'[t] = pc[t]
            \/ {pc[t], pc'[t]} \subseteq Calls \cup {"counted", "pending", "dec_child"}
  PROVE  CountType' /\ CountersExact'
<1>1. ASSUME NEW t \in Task
      PROVE  /\ pc'[t] = "unborn" <=> pc[t] = "unborn"
             /\ pc'[t] = "dec_team" <=> pc[t] = "dec_team"
             /\ pc'[t] = "done" <=> pc[t] = "done"
             /\ pc'[t] \in Calls \cup {"counted", "pending", "dec_child", "dec_team"}
                  <=> pc[t] \in Calls \cup {"counted", "pending", "dec_child", "dec_team"}
  BY DEF Calls
<1>2. CountType'
  BY <1>1 DEF CountInv, CountType
<1>3. CountedByTeam' = CountedByTeam
  BY <1>1 DEF CountedByTeam
<1>4. \A a : CountedByParent(a)' = CountedByParent(a)
  BY <1>1 DEF CountedByParent, Children
<1>5. \A a : UncountedByParent(a)' = UncountedByParent(a)
  BY <1>1 DEF UncountedByParent, Children
<1>6. CountersExact'
  BY <1>3, <1>4, <1>5 DEF CountInv, CountersExact
<1>7. QED BY <1>2, <1>6

\* A step of one actor along its own code, outside create_df_task.
LEMMA CountGoto ==
  ASSUME DepsInv, CountInv, NEW a \in Actor, NEW from, NEW to, Goto(a, from, to),
         UNCHANGED <<parent, grouped, num_child_tasks, num_tasks, in_taskgroup>>,
         a \in Task => {from, to} \subseteq Calls \cup {"counted", "pending", "dec_child"},
         a \in Thread => to # "bar_enter"
  PROVE  CountInv'
<1>1. pc[a] = from /\ \A b \in Actor : pc'[b] = IF b = a THEN to ELSE pc[b]
  BY DEF Goto, DepsInv, DepsType
<1>2. BarrierInv'
  BY <1>1, BarrierKept DEF CountInv, Calls, Actor
<1>3. \A t \in Task : pc'[t] = pc[t]
            \/ {pc[t], pc'[t]} \subseteq Calls \cup {"counted", "pending", "dec_child"}
  BY <1>1 DEF Actor
<1>4. CountType' /\ CountersExact'
  BY <1>3, SameCounters DEF CountInv, CountType
<1>5. QED BY <1>2, <1>4 DEF CountInv

\* create_df_task counts the new task for its parent, or puts it in a taskgroup.
LEMMA CountCreate ==
  ASSUME DepsInv, CountInv, NEW a \in Actor, NEW t \in Task, NEW d \in DependList,
         CreateTask(a, t, d)
  PROVE  CountInv'
<1>1. /\ pc[a] = "body" /\ pc[t] = "unborn" /\ a # t /\ t \in Actor
      /\ pc' = [pc EXCEPT ![a] = "count", ![t] = "alloc"]
      /\ parent' = [parent EXCEPT ![t] = a] /\ parent[t] = t
      /\ pc \in [Actor -> ThreadPC \cup TaskPC] /\ parent \in [Task -> Actor]
      /\ in_taskgroup' = in_taskgroup /\ num_tasks' = num_tasks
  BY DEF CreateTask, mapVars, DepsInv, DepsType, CreatorInv, Actor
<1>2. /\ \A b \in Actor : pc'[b] = IF b = a THEN "count" ELSE IF b = t THEN "alloc" ELSE pc[b]
      /\ \A u \in Task : parent'[u] = IF u = t THEN a ELSE parent[u]
  BY <1>1
<1>3. BarrierInv'
  BY <1>1, <1>2, BarrierKept, DisjointAssumption DEF CountInv, Actor
<1>4. /\ t \notin grouped /\ grouped \subseteq Task
      /\ num_child_tasks \in [Actor -> Int]
  BY <1>1 DEF CountInv, CountType
<1>5. CountedByTeam' = CountedByTeam
  BY <1>1, <1>2 DEF CountedByTeam, Calls, Actor
<1>6. \A b : UncountedByParent(b)' = UncountedByParent(b)
  <2>1. grouped' = grouped \/ grouped' = grouped \cup {t}
    BY DEF CreateTask
  <2>2. QED BY <1>1, <1>2, <1>4, <2>1 DEF UncountedByParent, Children, Actor
<1>7. CASE in_taskgroup[a] /\ d # NoDepends
  <2>1. grouped' = grouped \cup {t} /\ num_child_tasks' = num_child_tasks
    BY <1>7 DEF CreateTask
  <2>2. \A b \in Actor : CountedByParent(b)' = CountedByParent(b)
    BY <1>1, <1>2, <1>4, <2>1 DEF CountedByParent, Children, Calls, Actor
  <2>3. CountersExact'
    BY <1>1, <1>5, <1>6, <2>1, <2>2 DEF CountInv, CountersExact
  <2>4. CountType'
    BY <1>1, <1>2, <2>1 DEF CountInv, CountType, Actor
  <2>5. QED BY <1>3, <2>3, <2>4 DEF CountInv
<1>8. CASE ~in_taskgroup[a] \/ d = NoDepends
  <2>1. grouped' = grouped /\ num_child_tasks' = [num_child_tasks EXCEPT ![a] = @ + 1]
    BY <1>8 DEF CreateTask
  <2>2. ASSUME NEW b \in Actor
        PROVE  num_child_tasks'[b] =
                 Cardinality(CountedByParent(b)') - Cardinality(UncountedByParent(b)')
    <3>1. num_child_tasks[b] = Cardinality(CountedByParent(b)) - Cardinality(UncountedByParent(b))
      BY DEF CountInv, CountersExact
    <3>2. CASE b = a
      <4>1. CountedByParent(b)' = CountedByParent(b) \cup {t} /\ t \notin CountedByParent(b)
        BY <1>1, <1>2, <1>4, <2>1, <3>2 DEF CountedByParent, Children, Calls, Actor
      <4>2. Cardinality(CountedByParent(b)') = Cardinality(CountedByParent(b)) + 1
        BY <4>1, CountedFinite, FS_AddElement
      <4>3. num_child_tasks'[b] = num_child_tasks[b] + 1
        BY <1>4, <2>1, <3>2
      <4>4. Cardinality(CountedByParent(b)) \in Nat /\ Cardinality(UncountedByParent(b)) \in Nat
        BY CountedFinite, FS_CardinalityType
      <4>5. QED BY <1>6, <3>1, <4>2, <4>3, <4>4
    <3>3. CASE b # a
      <4>1. CountedByParent(b)' = CountedByParent(b)
        BY <1>1, <1>2, <1>4, <2>1, <3>3 DEF CountedByParent, Children, Calls, Actor
      <4>2. num_child_tasks'[b] = num_child_tasks[b]
        BY <1>4, <2>1, <3>3
      <4>3. QED BY <1>6, <3>1, <4>1, <4>2
    <3>4. QED BY <3>2, <3>3
  <2>3. CountersExact'
    BY <1>1, <1>5, <2>2 DEF CountInv, CountersExact
  <2>4. CountType'
    BY <1>1, <1>2, <1>4, <2>1 DEF CountInv, CountType, Actor
  <2>5. QED BY <1>3, <2>3, <2>4 DEF CountInv
<1>9. QED BY <1>7, <1>8

\* create_df_task: the team counts the new task.
LEMMA CountCount ==
  ASSUME DepsInv, CountInv, NEW a \in Actor, NEW t \in Task, CountTask(a, t)
  PROVE  CountInv'
<1>1. /\ pc[a] = "count" /\ pc[t] = "alloc" /\ a # t /\ t \in Actor
      /\ pc' = [pc EXCEPT ![a] = "launch", ![t] = "counted"]
      /\ UNCHANGED <<parent, grouped, in_taskgroup, num_child_tasks>>
      /\ num_tasks' = num_tasks + 1
      /\ pc \in [Actor -> ThreadPC \cup TaskPC]
  BY DEF CountTask, taskVars, mapVars, DepsInv, DepsType, Actor
<1>2. \A b \in Actor : pc'[b] = IF b = a THEN "launch" ELSE IF b = t THEN "counted" ELSE pc[b]
  BY <1>1
<1>3. BarrierInv'
  BY <1>1, <1>2, BarrierKept, DisjointAssumption DEF CountInv, Actor
<1>4. CountersExact'
  <2>1. CountedByTeam' = CountedByTeam \cup {t} /\ t \notin CountedByTeam
    BY <1>1, <1>2 DEF CountedByTeam, Calls, Actor
  <2>2. Cardinality(CountedByTeam') = Cardinality(CountedByTeam) + 1
    BY <2>1, CountedFinite, FS_AddElement
  <2>3. \A b : CountedByParent(b)' = CountedByParent(b)
    BY <1>1, <1>2 DEF CountedByParent, Children, Calls, Actor
  <2>4. \A b : UncountedByParent(b)' = UncountedByParent(b)
    BY <1>1, <1>2 DEF UncountedByParent, Children, Calls, Actor
  <2>5. QED BY <1>1, <2>2, <2>3, <2>4 DEF CountInv, CountersExact
<1>5. CountType'
  BY <1>1, <1>2 DEF CountInv, CountType, Actor
<1>6. QED BY <1>3, <1>4, <1>5 DEF CountInv

\* create_df_task: HPX gets the new task.
LEMMA CountLaunch ==
  ASSUME DepsInv, CountInv, NEW a \in Actor, NEW t \in Task, Launch(a, t)
  PROVE  CountInv'
<1>1. /\ pc[a] = "launch" /\ pc[t] = "counted" /\ a # t
      /\ pc' = [pc EXCEPT ![a] = "body", ![t] = "pending"]
      /\ UNCHANGED <<parent, grouped, in_taskgroup, num_child_tasks, num_tasks>>
      /\ pc \in [Actor -> ThreadPC \cup TaskPC]
  BY DEF Launch, taskVars, DepsInv, DepsType
<1>2. \A b \in Actor : pc'[b] = IF b = a THEN "body" ELSE IF b = t THEN "pending" ELSE pc[b]
  BY <1>1 DEF Actor
<1>3. BarrierInv'
  BY <1>1, <1>2, BarrierKept, DisjointAssumption DEF CountInv, Actor
<1>4. \A u \in Task : pc'[u] = pc[u]
            \/ {pc[u], pc'[u]} \subseteq Calls \cup {"counted", "pending", "dec_child"}
  BY <1>1, <1>2 DEF Calls, Actor
<1>5. CountType' /\ CountersExact'
  BY <1>1, <1>4, SameCounters DEF CountInv, CountType
<1>6. QED BY <1>3, <1>5 DEF CountInv

\* task_setup: the task leaves its parent's count, in which it was or was not.
LEMMA CountLeaveParent ==
  ASSUME DepsInv, CountInv, NEW t \in Task, LeaveParent(t)
  PROVE  CountInv'
<1>1. /\ pc[t] = "dec_child" /\ t \in Actor
      /\ pc' = [pc EXCEPT ![t] = "dec_team"]
      /\ UNCHANGED <<parent, grouped, in_taskgroup, num_tasks>>
      /\ num_child_tasks' = [num_child_tasks EXCEPT ![parent[t]] = @ - 1]
      /\ pc \in [Actor -> ThreadPC \cup TaskPC] /\ parent \in [Task -> Actor]
      /\ num_child_tasks \in [Actor -> Int]
  BY DEF LeaveParent, Goto, taskVars, mapVars, DepsInv, DepsType, CountInv, CountType, Actor
<1>2. \A b \in Actor : pc'[b] = IF b = t THEN "dec_team" ELSE pc[b]
  BY <1>1
<1>3. BarrierInv'
  BY <1>1, <1>2, BarrierKept, DisjointAssumption DEF CountInv, Actor
<1>4. CountedByTeam' = CountedByTeam
  BY <1>1, <1>2 DEF CountedByTeam, Calls, Actor
<1>5. ASSUME NEW b \in Actor
      PROVE  num_child_tasks'[b] =
               Cardinality(CountedByParent(b)') - Cardinality(UncountedByParent(b)')
  <2>1. /\ num_child_tasks[b] = Cardinality(CountedByParent(b)) - Cardinality(UncountedByParent(b))
        /\ Cardinality(CountedByParent(b)) \in Nat /\ Cardinality(UncountedByParent(b)) \in Nat
    BY CountedFinite, FS_CardinalityType DEF CountInv, CountersExact
  <2>2. CASE b = parent[t] /\ t \in grouped
    <3>1. CountedByParent(b)' = CountedByParent(b)
      BY <1>1, <1>2, <2>2 DEF CountedByParent, Children, Actor
    <3>2. UncountedByParent(b)' = UncountedByParent(b) \cup {t} /\ t \notin UncountedByParent(b)
      BY <1>1, <1>2, <2>2 DEF UncountedByParent, Children, Actor
    <3>3. Cardinality(UncountedByParent(b)') = Cardinality(UncountedByParent(b)) + 1
      BY <3>2, CountedFinite, FS_AddElement
    <3>4. num_child_tasks'[b] = num_child_tasks[b] - 1
      BY <1>1, <2>2
    <3>5. QED BY <2>1, <3>1, <3>3, <3>4
  <2>3. CASE b = parent[t] /\ t \notin grouped
    <3>1. UncountedByParent(b)' = UncountedByParent(b)
      BY <1>1, <1>2, <2>3 DEF UncountedByParent, Children, Actor
    <3>2. CountedByParent(b)' = CountedByParent(b) \ {t} /\ t \in CountedByParent(b)
      BY <1>1, <1>2, <2>3 DEF CountedByParent, Children, Actor
    <3>3. Cardinality(CountedByParent(b)') = Cardinality(CountedByParent(b)) - 1
      BY <3>2, CountedFinite, FS_RemoveElement
    <3>4. num_child_tasks'[b] = num_child_tasks[b] - 1
      BY <1>1, <2>3
    <3>5. QED BY <2>1, <3>1, <3>3, <3>4
  <2>4. CASE b # parent[t]
    <3>1. CountedByParent(b)' = CountedByParent(b)
      BY <1>1, <1>2, <2>4 DEF CountedByParent, Children, Actor
    <3>2. UncountedByParent(b)' = UncountedByParent(b)
      BY <1>1, <1>2, <2>4 DEF UncountedByParent, Children, Actor
    <3>3. num_child_tasks'[b] = num_child_tasks[b]
      BY <1>1, <2>4
    <3>4. QED BY <2>1, <3>1, <3>2, <3>3
  <2>5. QED BY <2>2, <2>3, <2>4
<1>6. CountersExact'
  BY <1>1, <1>4, <1>5 DEF CountInv, CountersExact
<1>7. CountType'
  <2>1. num_child_tasks' \in [Actor -> Int]
    BY <1>1
  <2>2. \A u \in Task : pc[u] # "unborn" => pc'[u] # "unborn"
    BY <1>2 DEF Actor
  <2>3. QED BY <1>1, <2>1, <2>2 DEF CountInv, CountType
<1>8. QED BY <1>3, <1>6, <1>7 DEF CountInv

\* task_setup: the task leaves the team's count.
LEMMA CountLeaveTeam ==
  ASSUME DepsInv, CountInv, NEW t \in Task, LeaveTeam(t)
  PROVE  CountInv'
<1>1. /\ pc[t] = "dec_team" /\ t \in Actor
      /\ pc' = [pc EXCEPT ![t] = "done"]
      /\ UNCHANGED <<parent, grouped, in_taskgroup, num_child_tasks>>
      /\ num_tasks' = num_tasks - 1
      /\ pc \in [Actor -> ThreadPC \cup TaskPC]
  BY DEF LeaveTeam, Goto, taskVars, mapVars, DepsInv, DepsType, Actor
<1>2. \A b \in Actor : pc'[b] = IF b = t THEN "done" ELSE pc[b]
  BY <1>1
<1>3. BarrierInv'
  BY <1>1, <1>2, BarrierKept, DisjointAssumption DEF CountInv, Actor
<1>4. CountersExact'
  <2>1. CountedByTeam' = CountedByTeam \ {t} /\ t \in CountedByTeam
    BY <1>1, <1>2 DEF CountedByTeam, Calls, Actor
  <2>2. Cardinality(CountedByTeam') = Cardinality(CountedByTeam) - 1
    BY <2>1, CountedFinite, FS_RemoveElement
  <2>3. \A b : CountedByParent(b)' = CountedByParent(b)
    BY <1>1, <1>2 DEF CountedByParent, Children, Actor
  <2>4. \A b : UncountedByParent(b)' = UncountedByParent(b)
    BY <1>1, <1>2 DEF UncountedByParent, Children, Actor
  <2>5. QED BY <1>1, <2>2, <2>3, <2>4 DEF CountInv, CountersExact
<1>5. CountType'
  BY <1>1, <1>2 DEF CountInv, CountType, Actor
<1>6. QED BY <1>3, <1>4, <1>5 DEF CountInv

\* With no task counted and no thread in create_df_task, none is unfinished.
LEMMA DrainedTeam ==
  ASSUME DepsInv, CountInv, num_tasks = 0, \A i \in Thread : pc[i] # "count"
  PROVE  Quiet
<1>1. CountedByTeam = {}
  BY CountedFinite, FS_EmptySet DEF CountInv, CountersExact
<1>2. SUFFICES ASSUME NEW t \in Task PROVE pc[t] \in {"unborn", "done"}
  BY DEF Quiet
<1>3. pc[t] \in {"unborn", "alloc", "done"}
  BY <1>1 DEF CountedByTeam, DepsInv, DepsType, TaskPC
<1>4. pc[t] # "alloc"
  <2>1. SUFFICES ASSUME pc[t] = "alloc" PROVE FALSE
    OBVIOUS
  <2>2. parent[t] \in Actor /\ pc[parent[t]] = "count"
    BY <2>1 DEF DepsInv, CreatorInv, DepsType
  <2>3. parent[t] \in CountedByTeam
    BY <2>2 DEF CountedByTeam, Calls, Actor
  <2>4. QED BY <1>1, <2>3
<1>5. QED BY <1>3, <1>4

\* barrier_wait: a thread finds num_tasks at 0.
LEMMA CountBarrierTeam ==
  ASSUME DepsInv, CountInv, NEW i \in Thread, BarrierTeam(i)
  PROVE  CountInv'
<1>1. /\ pc[i] = "bar_team" /\ pc' = [pc EXCEPT ![i] = "bar_enter"] /\ i \in Actor
      /\ UNCHANGED <<parent, grouped, in_taskgroup, num_child_tasks, num_tasks>>
      /\ ~(num_tasks > 0)
      /\ pc \in [Actor -> ThreadPC \cup TaskPC]
  BY DEF BarrierTeam, Goto, TeamTasksDone, taskVars, mapVars, DepsInv, DepsType, Actor
<1>2. \A b \in Actor : pc'[b] = IF b = i THEN "bar_enter" ELSE pc[b]
  BY <1>1
<1>3. \A t \in Task : pc'[t] = pc[t]
  BY <1>2, DisjointAssumption DEF Actor
<1>4. num_tasks = 0
  <2>1. num_tasks \in Nat
    BY CountedFinite, FS_CardinalityType DEF CountInv, CountersExact
  <2>2. QED BY <1>1, <2>1
<1>5. BarrierInv'
  <2>1. SUFFICES ASSUME \A j \in Thread : pc'[j] = "bar_enter" PROVE Quiet'
    BY DEF BarrierInv
  <2>2. \A j \in Thread : pc[j] # "count"
    BY <1>1, <1>2, <2>1 DEF Actor
  <2>3. Quiet
    BY <1>4, <2>2, DrainedTeam
  <2>4. QED BY <1>3, <2>3 DEF Quiet
<1>6. CountType' /\ CountersExact'
  BY <1>1, <1>3, SameCounters DEF CountInv, CountType
<1>7. QED BY <1>5, <1>6 DEF CountInv


\* Every step keeps the counters exact.
LEMMA NextCount == DepsInv /\ CountInv /\ [Next]_vars => CountInv'
<1> SUFFICES ASSUME DepsInv, CountInv, [Next]_vars PROVE CountInv'
  OBVIOUS
<1> USE DEF taskVars, mapVars
<1>1. ASSUME NEW a \in Creator, Program(a) PROVE CountInv'
  <2>1. a \in Actor
    BY CreatorAssumption DEF Actor
  <2>2. ASSUME NEW t \in Task, NEW d \in DependList, CreateTask(a, t, d) PROVE CountInv'
    BY <2>1, <2>2, CountCreate
  <2>3. CASE StartTaskgroup(a) \/ EndTaskgroup(a)
    <3>1. /\ UNCHANGED <<pc, parent, grouped, num_child_tasks, num_tasks>>
          /\ in_taskgroup' \in [Actor -> BOOLEAN]
      BY <2>3 DEF StartTaskgroup, EndTaskgroup, CountInv, CountType
    <3>2. CountType' /\ CountersExact'
      BY <3>1, SameCounters
    <3>3. BarrierInv'
      BY <3>1 DEF CountInv, BarrierInv, Quiet
    <3>4. QED BY <3>2, <3>3 DEF CountInv
  <2>4. CASE TaskWait(a)
    BY <2>1, <2>4, CountGoto DEF TaskWait, Calls
  <2>5. Depends[a] \subseteq DependList
    BY DependsAssumption
  <2>6. QED BY <1>1, <2>2, <2>3, <2>4, <2>5 DEF Program
<1>2. ASSUME NEW a \in Actor, ActorRuntime(a) PROVE CountInv'
  <2>1. ASSUME NEW t \in Task, CountTask(a, t) \/ Launch(a, t) PROVE CountInv'
    BY <2>1, CountCount, CountLaunch
  <2>2. CASE TaskWaitReturn(a)
    BY <2>2, CountGoto DEF TaskWaitReturn, Calls
  <2>3. QED BY <1>2, <2>1, <2>2 DEF ActorRuntime
<1>3. ASSUME NEW i \in Thread, BarrierChildren(i) \/ BarrierWait(i) PROVE CountInv'
  <2>1. i \in Actor /\ i \notin Task
    BY DisjointAssumption DEF Actor
  <2>2. QED BY <1>3, <2>1, CountGoto DEF BarrierChildren, BarrierWait
<1>4. ASSUME NEW i \in Thread, BarrierTeam(i) PROVE CountInv'
  BY <1>4, CountBarrierTeam
<1>5. ASSUME NEW t \in Task, StartTask(t) \/ EndTask(t) PROVE CountInv'
  <2>1. t \in Actor /\ t \notin Thread
    BY DisjointAssumption DEF Actor
  <2>2. QED BY <1>5, <2>1, CountGoto DEF StartTask, EndTask, Calls
<1>6. ASSUME NEW t \in Task, LeaveParent(t) \/ LeaveTeam(t) PROVE CountInv'
  BY <1>6, CountLeaveParent, CountLeaveTeam
<1>7. CASE GlobalBarrier
  <2>1. /\ \A t \in Task : pc'[t] = pc[t]
        /\ \A i \in Thread : pc'[i] = "done"
        /\ UNCHANGED <<parent, grouped, in_taskgroup, num_child_tasks, num_tasks>>
    BY <1>7, DisjointAssumption DEF GlobalBarrier, Actor
  <2>2. CountType' /\ CountersExact'
    BY <2>1, SameCounters DEF CountInv, CountType
  <2>3. Thread # {}
    BY ThreadAssumption, FS_EmptySet
  <2>4. BarrierInv'
    BY <2>1, <2>3 DEF BarrierInv
  <2>5. QED BY <2>2, <2>4 DEF CountInv
<1>8. CASE UNCHANGED vars
  <2>1. UNCHANGED <<pc, parent, grouped, in_taskgroup, num_child_tasks, num_tasks>>
    BY <1>8 DEF vars
  <2>2. CountType' /\ CountersExact'
    BY <2>1, SameCounters DEF CountInv, CountType
  <2>3. BarrierInv'
    BY <2>1 DEF CountInv, BarrierInv, Quiet
  <2>4. QED BY <2>2, <2>3 DEF CountInv
<1>9. QED
  BY <1>1, <1>2, <1>3, <1>4, <1>5, <1>6, <1>7, <1>8
     DEF Next, ThreadRuntime, TaskRuntime, Actor

\* The counters are exact and the barrier's loops are enough.
THEOREM CountInvariant == Spec => []CountInv
  BY InitCount, NextCount, DepsInvariant, PTL DEF Spec

\* create_df_task and task_setup keep the counters: num_tasks exactly, and
\* num_child_tasks but for the tasks of taskgroups.
THEOREM DepsCountersCorrect == Spec => []CountersExact
<1>1. CountInv => CountersExact
  BY DEF CountInv
<1>2. QED BY <1>1, CountInvariant, PTL

\* What an actor can do once it waits in task_wait.
LEMMA TaskwaitStep ==
  ASSUME DepsInv, [Next]_vars, NEW a \in Actor, pc[a] = "taskwait", pc'[a] # "taskwait"
  PROVE  ChildrenDone(a)
<1> SUFFICES ASSUME ~TaskWaitReturn(a) PROVE FALSE
  BY DEF TaskWaitReturn
<1>0. pc \in [Actor -> ThreadPC \cup TaskPC]
  BY DEF DepsInv, DepsType
<1>1. ASSUME NEW b \in Creator, Program(b) PROVE FALSE
  BY <1>0, <1>1 DEF Program, CreateTask, StartTaskgroup, EndTaskgroup, TaskWait, Goto
<1>2. ASSUME NEW b \in Actor, ActorRuntime(b) PROVE FALSE
  BY <1>0, <1>2 DEF ActorRuntime, CountTask, Launch, TaskWaitReturn, Goto
<1>3. ASSUME NEW i \in Thread, BarrierChildren(i) \/ BarrierTeam(i) \/ BarrierWait(i)
      PROVE  FALSE
  BY <1>0, <1>3 DEF BarrierChildren, BarrierTeam, BarrierWait, Goto
<1>4. ASSUME NEW t \in Task,
             StartTask(t) \/ EndTask(t) \/ LeaveParent(t) \/ LeaveTeam(t)
      PROVE  FALSE
  BY <1>0, <1>4 DEF StartTask, EndTask, LeaveParent, LeaveTeam, Goto
<1>5. ~GlobalBarrier
  BY DEF GlobalBarrier
<1>6. QED
  BY <1>1, <1>2, <1>3, <1>4, <1>5 DEF Next, ThreadRuntime, TaskRuntime, Actor, vars

\* task_wait returns only when every task its caller created has run, if its
\* caller has created none with depend clauses in a taskgroup.
THEOREM DepsTaskwaitCorrect == Spec => TaskwaitCompletesChildren
<1>1. DepsInv /\ CountInv /\ [Next]_vars
        => [\A a \in Actor :
              /\ pc[a] = "taskwait" /\ pc'[a] # "taskwait"
              /\ Children(a) \cap grouped = {}
              => \A t \in Children(a) : pc[t] \in {"dec_team", "done"}]_vars
  <2> SUFFICES ASSUME DepsInv, CountInv, [Next]_vars, NEW a \in Actor,
                      pc[a] = "taskwait", pc'[a] # "taskwait",
                      Children(a) \cap grouped = {}, NEW t \in Children(a)
               PROVE  pc[t] \in {"dec_team", "done"}
    OBVIOUS
  <2>1. ~(num_child_tasks[a] > 0)
    BY TaskwaitStep DEF ChildrenDone
  <2>2. UncountedByParent(a) = {}
    BY DEF UncountedByParent
  <2>3. Cardinality(UncountedByParent(a)) = 0
    BY <2>2, FS_EmptySet
  <2>4. Cardinality(CountedByParent(a)) = 0
    <3>1. num_child_tasks[a] = Cardinality(CountedByParent(a)) - 0
      BY <2>3 DEF CountInv, CountersExact
    <3>2. Cardinality(CountedByParent(a)) \in Nat
      BY CountedFinite, FS_CardinalityType
    <3>3. QED BY <2>1, <3>1, <3>2
  <2>5. CountedByParent(a) = {}
    BY <2>4, CountedFinite, FS_EmptySet
  <2>6. t \in Task /\ parent[t] = a /\ t \notin grouped
    BY DEF Children
  <2>7. pc[t] # "unborn"
    BY <2>6 DEF DepsInv, CreatorInv
  <2>8. QED BY <2>5, <2>6, <2>7 DEF CountedByParent
<1>2. QED
  BY <1>1, DepsInvariant, CountInvariant, PTL DEF Spec, TaskwaitCompletesChildren

\* No thread leaves the barrier while a task of the team is left.
THEOREM DepsBarrierCorrect == Spec => BarrierCompletesTasks
<1>1. DepsInv /\ CountInv /\ [Next]_vars
        => [\A i \in Thread : pc[i] = "bar_enter" /\ pc'[i] = "done" => Quiet]_vars
  <2> SUFFICES ASSUME DepsInv, CountInv, [Next]_vars, NEW i \in Thread,
                      pc[i] = "bar_enter", pc'[i] = "done", ~Quiet
               PROVE  FALSE
    OBVIOUS
  <2>0. pc \in [Actor -> ThreadPC \cup TaskPC] /\ i \in Actor
    BY DEF DepsInv, DepsType, Actor
  <2>1. ASSUME NEW b \in Creator, Program(b) PROVE FALSE
    BY <2>0, <2>1 DEF Program, CreateTask, StartTaskgroup, EndTaskgroup, TaskWait, Goto
  <2>2. ASSUME NEW b \in Actor, ActorRuntime(b) PROVE FALSE
    BY <2>0, <2>2 DEF ActorRuntime, CountTask, Launch, TaskWaitReturn, Goto
  <2>3. ASSUME NEW j \in Thread, BarrierChildren(j) \/ BarrierTeam(j) \/ BarrierWait(j)
        PROVE  FALSE
    BY <2>0, <2>3 DEF BarrierChildren, BarrierTeam, BarrierWait, Goto
  <2>4. ASSUME NEW t \in Task,
               StartTask(t) \/ EndTask(t) \/ LeaveParent(t) \/ LeaveTeam(t)
        PROVE  FALSE
    BY <2>0, <2>4 DEF StartTask, EndTask, LeaveParent, LeaveTeam, Goto
  <2>5. ~GlobalBarrier
    BY DEF GlobalBarrier, CountInv, BarrierInv
  <2>6. QED
    BY <2>1, <2>2, <2>3, <2>4, <2>5 DEF Next, ThreadRuntime, TaskRuntime, Actor, vars
<1>2. QED
  BY <1>1, DepsInvariant, CountInvariant, PTL DEF Spec, BarrierCompletesTasks
=============================================================================
