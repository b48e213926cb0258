-------------------------- MODULE TeamLocksProofs --------------------------
(***************************************************************************)
(* Theorems about TeamLocks for any team, any programs, and any number of  *)
(* names and locks.                                                        *)
(***************************************************************************)
EXTENDS TeamLocks, WellFoundedInduction, TLAPS

\* The item a thread is in is one of its program's.
LEMMA ItemFacts ==
  ASSUME LocksType, NEW i \in Thread, at[i] <= Len(program[i])
  PROVE  /\ ItemOf(i) \in Item
         /\ ItemOf(i).kind = "section" => Guards(i) \in Seq(Guard)
<1>1. program \in Programs /\ at[i] \in Nat \ {0}
  BY DEF LocksType
<1>2. program[i] \in Seq(Item) /\ at[i] \in DOMAIN program[i]
  BY <1>1, ProgramsAssumption
<1>3. ItemOf(i) \in Item
  BY <1>2 DEF ItemOf
<1>4. ItemOf(i).kind = "section" => Guards(i) \in Seq(Guard)
  BY <1>3 DEF Item, Guards
<1>5. QED
  BY <1>3, <1>4

\* Every guard is for a place, and has a mutex.
LEMMA GuardFacts ==
  ASSUME NEW g \in Guard
  PROVE  g.on \in Place /\ MutexOf(g.on) \in Mutex /\ g.by \in {"critical", "set", "test"}
BY DEF Guard, Place, Mutex, MutexOf

\* In a section a thread holds mutexes there are.
LEMMA SectionFacts ==
  ASSUME LocksType, NEW i \in Thread, pc[i] \in InSection
  PROVE  /\ Guards(i) \in Seq(Guard)
         /\ depth[i] \in Nat /\ depth[i] <= Len(Guards(i))
         /\ \A d \in 1..Len(Guards(i)) : Guards(i)[d] \in Guard
<1>1. pc[i] # "next" /\ ItemOf(i).kind = "section"
  BY DEF LocksType, InSection
<1>2. Guards(i) \in Seq(Guard)
  BY <1>1, ItemFacts DEF LocksType
<1>3. Len(Guards(i)) \in Nat /\ \A d \in 1..Len(Guards(i)) : Guards(i)[d] \in Guard
  BY <1>2
<1>4. depth[i] \in Nat /\ depth[i] <= Len(Guards(i))
  BY <1>3 DEF LocksType, InSection
<1>5. QED
  BY <1>2, <1>3, <1>4

\* Who holds which mutex.
OwnerInv ==
  /\ \A m \in Mutex, i \in Thread : owner[m] = i <=> m \in Holds(i)
  /\ \A i \in Thread : HoldsOnce(i)

\* The invariant holds at first.
LEMMA InitLocks == Init => LocksInv
<1> SUFFICES ASSUME Init PROVE LocksInv
  OBVIOUS
<1>1. LocksType
  <2>1. \A i \in Thread : pc[i] = "next" /\ depth[i] = 0
    BY DEF Init
  <2>2. pc \in [Thread -> PC] /\ depth \in [Thread -> Nat] /\ at \in [Thread -> Nat \ {0}]
    BY DEF Init, PC
  <2>3. /\ program \in Programs /\ owner \in [Mutex -> Thread \cup {None}]
        /\ reg \in [Thread -> Nat] /\ value \in [Place -> Nat] /\ stores \in [Place -> Nat]
        /\ result \in [Thread -> Nat] /\ reduced \in [Thread -> Nat]
    BY DEF Init
  <2>4. QED
    BY <2>1, <2>2, <2>3 DEF LocksType, InSection
<1>2. OwnerInv
  <2>1. \A i \in Thread : 1..depth[i] = {}
    <3>1. \A i \in Thread : depth[i] = 0
      BY DEF Init
    <3>2. 1..0 = {}
      OBVIOUS
    <3>3. QED
      BY <3>1, <3>2
  <2>2. \A i \in Thread : Holds(i) = {}
    BY <2>1 DEF Holds
  <2>3. \A m \in Mutex : owner[m] = None
    BY DEF Init
  <2>4. \A i \in Thread : HoldsOnce(i)
    BY <2>1 DEF HoldsOnce
  <2>5. QED
    BY <2>2, <2>3, <2>4, NoneAssumption DEF OwnerInv
<1>3. BodyInv
  BY DEF Init, BodyInv, UpdatesExact
<1>4. ReduceInv
  BY DEF Init, ReduceInv
<1>5. QED
  BY <1>1, <1>2, <1>3, <1>4 DEF LocksInv, TypeOK, OwnerInv

\* A step of one thread moves nobody else.
OnlyMoves(i) ==
  \A j \in Thread \ {i} :
    pc'[j] = pc[j] /\ at'[j] = at[j] /\ depth'[j] = depth[j] /\ reg'[j] = reg[j]

\* Threads that do not move keep their guards.
LEMMA OthersKeep ==
  ASSUME NEW i \in Thread, OnlyMoves(i), program' = program
  PROVE  \A j \in Thread \ {i} :
           /\ ItemOf(j)' = ItemOf(j) /\ Guards(j)' = Guards(j) /\ Holds(j)' = Holds(j)
           /\ Variable(j)' = Variable(j) /\ HoldsOnce(j)' = HoldsOnce(j)
BY DEF OnlyMoves, ItemOf, Guards, Holds, HoldsOnce, Variable

\* What LocksType says of one thread.
ThreadType(i) ==
  /\ pc[i] # "next" => at[i] <= Len(program[i])
  /\ pc[i] \in InSection => ItemOf(i).kind = "section"
  /\ pc[i] \notin InSection => depth[i] = 0
  /\ pc[i] = "enter" => depth[i] < Len(Guards(i))
  /\ pc[i] \in {"load", "store"} => depth[i] = Len(Guards(i))
  /\ pc[i] = "exit" => depth[i] \in 1..Len(Guards(i))

\* A step of one thread keeps the types if that thread stays well placed.
LEMMA KeepType ==
  ASSUME LocksType, NEW i \in Thread, OnlyMoves(i), program' = program,
         pc' \in [Thread -> PC], at' \in [Thread -> Nat \ {0}], depth' \in [Thread -> Nat],
         owner' \in [Mutex -> Thread \cup {None}],
         reg' \in [Thread -> Nat], value' \in [Place -> Nat], stores' \in [Place -> Nat],
         result' \in [Thread -> Nat], UNCHANGED reduced, ThreadType(i)'
  PROVE  LocksType'
<1>1. ASSUME NEW j \in Thread \ {i} PROVE ThreadType(j)'
  <2>1. ItemOf(j)' = ItemOf(j) /\ Guards(j)' = Guards(j)
    BY OthersKeep
  <2>2. pc'[j] = pc[j] /\ at'[j] = at[j] /\ depth'[j] = depth[j]
    BY DEF OnlyMoves
  <2>3. ThreadType(j)
    BY DEF LocksType, ThreadType
  <2>4. QED
    BY <2>1, <2>2, <2>3 DEF ThreadType
<1>2. \A j \in Thread : ThreadType(j)'
  BY <1>1
<1>3. program' \in Programs /\ reduced' \in [Thread -> Nat]
  BY DEF LocksType
<1>4. QED
  BY <1>2, <1>3 DEF LocksType, ThreadType

\* A step outside the body's load and store keeps what the body has loaded.
LEMMA KeepBody ==
  ASSUME BodyInv, NEW i \in Thread, OnlyMoves(i), pc'[i] # "store",
         UNCHANGED <<program, value, stores>>
  PROVE  BodyInv'
<1>1. \A j \in Thread \ {i} : Variable(j)' = Variable(j) /\ pc'[j] = pc[j] /\ reg'[j] = reg[j]
  BY OthersKeep DEF OnlyMoves
<1>2. QED
  BY <1>1 DEF BodyInv, UpdatesExact

\* A step of a thread that is in no reduction keeps the team's.
LEMMA KeepReduce ==
  ASSUME ReduceInv, NEW i \in Thread, OnlyMoves(i), UNCHANGED reduceVars,
         {pc[i], pc'[i]} \cap {"add", "bar2"} = {}
  PROVE  ReduceInv'
<1>1. \A j \in Thread : pc[j] \notin {"add", "bar2"}
  BY DEF ReduceInv
<1>2. \A j \in Thread : pc'[j] \notin {"add", "bar2"}
  BY <1>1 DEF OnlyMoves
<1>3. QED
  BY <1>1, <1>2 DEF ReduceInv, reduceVars

\* A step that takes and frees nothing keeps the owners.
LEMMA KeepOwner ==
  ASSUME OwnerInv, NEW i \in Thread, OnlyMoves(i), UNCHANGED <<program, owner>>,
         Holds(i)' = Holds(i), HoldsOnce(i)'
  PROVE  OwnerInv'
BY OthersKeep DEF OwnerInv

\* The steps of the program outside the guards.
LEMMA BeginStep ==
  ASSUME LocksInv, NEW i \in Thread, Begin(i)
  PROVE  LocksInv'
<1> DEFINE to == IF ItemOf(i).kind = "section" THEN "enter" ELSE "bar1"
<1>1. /\ pc[i] = "next" /\ at[i] <= Len(program[i])
      /\ pc' = [pc EXCEPT ![i] = to]
      /\ UNCHANGED <<program, at, depth, owner, reg, value, stores, result, reduced>>
  BY DEF Begin, Goto, bodyVars, reduceVars
<1>2. pc' \in [Thread -> PC] /\ pc'[i] = to /\ OnlyMoves(i)
  BY <1>1 DEF LocksInv, TypeOK, LocksType, PC, OnlyMoves
<1>3. /\ ItemOf(i)' = ItemOf(i) /\ Guards(i)' = Guards(i) /\ Holds(i)' = Holds(i)
      /\ HoldsOnce(i)'
  BY <1>1 DEF ItemOf, Guards, Holds, HoldsOnce, LocksInv, TypeOK
<1>4. depth[i] = 0
  BY <1>1 DEF LocksInv, TypeOK, LocksType, InSection
<1>5. ItemOf(i) \in Item
  BY <1>1, ItemFacts DEF LocksInv, TypeOK
<1>6. ItemOf(i).kind = "section" => Guards(i) # <<>> /\ Guards(i) \in Seq(Guard)
  BY <1>5 DEF Item, Guards
<1>7. ThreadType(i)'
  <2>1. CASE ItemOf(i).kind = "section"
    <3>1. Len(Guards(i)) > 0
      BY <1>6, <2>1
    <3>2. pc'[i] = "enter"
      BY <1>2, <2>1
    <3>3. QED
      BY <1>1, <1>3, <1>4, <2>1, <3>1, <3>2 DEF ThreadType, InSection
  <2>2. CASE ItemOf(i).kind # "section"
    <3>1. pc'[i] = "bar1"
      BY <1>2, <2>2
    <3>2. QED
      BY <1>1, <1>4, <3>1 DEF ThreadType, InSection
  <2>3. QED
    BY <2>1, <2>2
<1>8. LocksType'
  BY <1>1, <1>2, <1>7, KeepType DEF LocksInv, TypeOK, LocksType
<1>9. OwnerInv' /\ BodyInv' /\ ReduceInv'
  BY <1>1, <1>2, <1>3, KeepOwner, KeepBody, KeepReduce
     DEF LocksInv, TypeOK, OwnerInv, reduceVars
<1>10. QED
  BY <1>8, <1>9 DEF LocksInv, TypeOK, OwnerInv

\* The body of a section: a load, and a store of what was loaded.
LEMMA LoadStep ==
  ASSUME LocksInv, NEW i \in Thread, Load(i)
  PROVE  LocksInv'
<1>1. /\ pc[i] = "load" /\ pc' = [pc EXCEPT ![i] = "store"]
      /\ reg' = [reg EXCEPT ![i] = value[Variable(i)]]
      /\ UNCHANGED <<program, at, depth, owner, value, stores, result, reduced>>
  BY DEF Load, Goto, reduceVars
<1>2. pc' \in [Thread -> PC] /\ pc'[i] = "store" /\ OnlyMoves(i)
  BY <1>1 DEF LocksInv, TypeOK, LocksType, PC, OnlyMoves
<1>3. /\ ItemOf(i)' = ItemOf(i) /\ Guards(i)' = Guards(i) /\ Holds(i)' = Holds(i)
      /\ Variable(i)' = Variable(i) /\ HoldsOnce(i)'
  BY <1>1 DEF ItemOf, Guards, Holds, HoldsOnce, Variable, LocksInv, TypeOK
<1>4. Variable(i) \in Place
  <2>1. depth[i] = Len(Guards(i)) /\ depth[i] \in Nat
    BY <1>1 DEF LocksInv, TypeOK, LocksType
  <2>2. Guards(i) # <<>> /\ Guards(i) \in Seq(Guard)
    BY <1>1, ItemFacts DEF LocksInv, TypeOK, LocksType, InSection, Item, Guards
  <2>3. Guards(i)[Len(Guards(i))] \in Guard
    BY <2>2
  <2>4. QED
    BY <2>3, GuardFacts DEF Variable
<1>5. value[Variable(i)] \in Nat
  BY <1>4 DEF LocksInv, TypeOK, LocksType
<1>6. ThreadType(i)'
  BY <1>1, <1>2, <1>3 DEF LocksInv, TypeOK, LocksType, ThreadType, InSection
<1>7. LocksType'
  BY <1>1, <1>2, <1>5, <1>6, KeepType DEF LocksInv, TypeOK, LocksType
<1>8. OwnerInv' /\ ReduceInv'
  BY <1>1, <1>2, <1>3, KeepOwner, KeepReduce DEF LocksInv, TypeOK, OwnerInv, reduceVars
<1>9. BodyInv'
  <2>1. reg'[i] = value[Variable(i)]
    BY <1>1 DEF LocksInv, TypeOK, LocksType
  <2>2. \A j \in Thread \ {i} : Variable(j)' = Variable(j) /\ pc'[j] = pc[j] /\ reg'[j] = reg[j]
    BY <1>1, <1>2, OthersKeep DEF OnlyMoves
  <2>3. UNCHANGED <<value, stores>>
    BY <1>1
  <2>4. QED
    BY <1>3, <2>1, <2>2, <2>3 DEF LocksInv, BodyInv, UpdatesExact
<1>10. QED
  BY <1>7, <1>8, <1>9 DEF LocksInv, TypeOK, OwnerInv

\* In the body a thread holds the mutex of the variable.
LEMMA BodyHolds ==
  ASSUME LocksType, NEW i \in Thread, pc[i] \in {"load", "store"}
  PROVE  Variable(i) \in Place /\ MutexOf(Variable(i)) \in Mutex \cap Holds(i)
<1>1. depth[i] = Len(Guards(i))
  BY DEF LocksType
<1>2. Guards(i) # <<>> /\ Guards(i) \in Seq(Guard)
  BY ItemFacts DEF LocksType, InSection, Item, Guards
<1>3. Len(Guards(i)) \in 1..Len(Guards(i)) /\ Guards(i)[Len(Guards(i))] \in Guard
  BY <1>2
<1>4. Variable(i) \in Place /\ MutexOf(Variable(i)) \in Mutex
  BY <1>3, GuardFacts DEF Variable
<1>5. MutexOf(Variable(i)) \in Holds(i)
  BY <1>1, <1>3 DEF Holds, Variable
<1>6. QED
  BY <1>4, <1>5

LEMMA StoreStep ==
  ASSUME LocksInv, NEW i \in Thread, Store(i)
  PROVE  LocksInv'
<1>1. /\ pc[i] = "store" /\ pc' = [pc EXCEPT ![i] = "exit"]
      /\ value' = [value EXCEPT ![Variable(i)] = reg[i] + 1]
      /\ stores' = [stores EXCEPT ![Variable(i)] = @ + 1]
      /\ UNCHANGED <<program, at, depth, owner, reg, result, reduced>>
  BY DEF Store, Goto, reduceVars
<1>2. pc' \in [Thread -> PC] /\ pc'[i] = "exit" /\ OnlyMoves(i)
  BY <1>1 DEF LocksInv, TypeOK, LocksType, PC, OnlyMoves
<1>3. /\ ItemOf(i)' = ItemOf(i) /\ Guards(i)' = Guards(i) /\ Holds(i)' = Holds(i)
      /\ HoldsOnce(i)'
  BY <1>1 DEF ItemOf, Guards, Holds, HoldsOnce, LocksInv, TypeOK
<1>4. Variable(i) \in Place /\ MutexOf(Variable(i)) \in Mutex \cap Holds(i)
  BY <1>1, BodyHolds DEF LocksInv, TypeOK
<1>5. ThreadType(i)'
  <2>1. depth[i] = Len(Guards(i)) /\ at[i] <= Len(program[i]) /\ ItemOf(i).kind = "section"
    BY <1>1 DEF LocksInv, TypeOK, LocksType, InSection
  <2>2. Guards(i) # <<>> /\ Guards(i) \in Seq(Guard)
    BY <2>1, ItemFacts DEF LocksInv, TypeOK, Item, Guards
  <2>3. Len(Guards(i)) \in 1..Len(Guards(i))
    BY <2>2
  <2>4. QED
    BY <1>1, <1>2, <1>3, <2>1, <2>3 DEF ThreadType, InSection
<1>6. value' \in [Place -> Nat] /\ stores' \in [Place -> Nat]
  BY <1>1, <1>4 DEF LocksInv, TypeOK, LocksType
<1>7. LocksType'
  BY <1>1, <1>2, <1>5, <1>6, KeepType DEF LocksInv, TypeOK, LocksType
<1>8. OwnerInv' /\ ReduceInv'
  BY <1>1, <1>2, <1>3, KeepOwner, KeepReduce DEF LocksInv, TypeOK, OwnerInv, reduceVars
<1>9. BodyInv'
  <2>1. /\ \A v \in Place : value'[v] = IF v = Variable(i) THEN reg[i] + 1 ELSE value[v]
        /\ \A v \in Place : stores'[v] = IF v = Variable(i) THEN stores[v] + 1 ELSE stores[v]
    BY <1>1, <1>4 DEF LocksInv, TypeOK, LocksType
  <2>2. reg[i] = value[Variable(i)]
    BY <1>1 DEF LocksInv, BodyInv
  <2>3. UpdatesExact'
    BY <1>4, <2>1, <2>2 DEF LocksInv, BodyInv, UpdatesExact
  <2>4. ASSUME NEW j \in Thread, pc'[j] = "store"
        PROVE  reg'[j] = value'[Variable(j)']
    <3>1. j # i
      BY <1>2, <2>4
    <3>2. pc[j] = "store" /\ reg'[j] = reg[j] /\ Variable(j)' = Variable(j)
      BY <1>1, <1>2, <2>4, <3>1, OthersKeep DEF OnlyMoves
    <3>3. Variable(j) \in Place /\ MutexOf(Variable(j)) \in Mutex \cap Holds(j)
      BY <3>2, BodyHolds DEF LocksInv, TypeOK
    <3>4. Variable(j) # Variable(i)
      BY <1>4, <3>1, <3>3 DEF LocksInv, TypeOK
    <3>5. reg[j] = value[Variable(j)]
      BY <3>2 DEF LocksInv, BodyInv
    <3>6. QED
      BY <2>1, <3>2, <3>3, <3>4, <3>5
  <2>5. QED
    BY <2>3, <2>4 DEF BodyInv
<1>10. QED
  BY <1>7, <1>8, <1>9 DEF LocksInv, TypeOK, OwnerInv

\* A thread takes the mutex of the guard it comes to.
LEMMA ComeStep ==
  ASSUME LocksInv, NEW i \in Thread, pc[i] = "enter", Acquire(i, Wanted(i).on), Come(i)
  PROVE  LocksInv'
<1> DEFINE m == MutexOf(Wanted(i).on)
           to == IF depth[i] + 1 = Len(Guards(i)) THEN "load" ELSE "enter"
<1>1. /\ owner[m] = None /\ owner' = [owner EXCEPT ![m] = i]
      /\ pc' = [pc EXCEPT ![i] = to] /\ depth' = [depth EXCEPT ![i] = depth[i] + 1]
      /\ UNCHANGED <<program, at, reg, value, stores, result, reduced>>
  BY DEF Acquire, Come, Goto, bodyVars, reduceVars
<1>2. /\ LocksType /\ depth[i] \in Nat /\ depth[i] < Len(Guards(i))
      /\ Guards(i) \in Seq(Guard) /\ Wanted(i) \in Guard
  <2>1. LocksType /\ depth[i] \in Nat /\ depth[i] < Len(Guards(i)) /\ Guards(i) \in Seq(Guard)
    BY SectionFacts DEF LocksInv, TypeOK, LocksType, InSection
  <2>2. Wanted(i) \in Guard
    BY <2>1 DEF Wanted
  <2>3. QED
    BY <2>1, <2>2
<1>3. m \in Mutex
  BY <1>2, GuardFacts
<1>4. /\ pc' \in [Thread -> PC] /\ pc'[i] = to /\ depth'[i] = depth[i] + 1
      /\ depth' \in [Thread -> Nat] /\ OnlyMoves(i)
  BY <1>1, <1>2 DEF LocksType, PC, OnlyMoves
<1>5. ItemOf(i)' = ItemOf(i) /\ Guards(i)' = Guards(i)
  BY <1>1 DEF ItemOf, Guards
<1>6. Holds(i)' = Holds(i) \cup {m}
  <2>1. 1..depth'[i] = (1..depth[i]) \cup {depth[i] + 1}
    BY <1>2, <1>4
  <2>2. QED
    BY <1>5, <2>1 DEF Holds, Wanted
<1>7. ThreadType(i)'
  <2>1. at[i] <= Len(program[i]) /\ ItemOf(i).kind = "section"
    BY <1>2 DEF LocksType, InSection
  <2>2. Len(Guards(i)) \in Nat
    BY <1>2
  <2>3. QED
    BY <1>1, <1>2, <1>4, <1>5, <2>1, <2>2 DEF ThreadType, InSection
<1>8. owner' \in [Mutex -> Thread \cup {None}]
  BY <1>1, <1>2, <1>3 DEF LocksType
<1>9. LocksType'
  BY <1>1, <1>2, <1>4, <1>7, <1>8, KeepType DEF LocksType
<1>10. OwnerInv'
  <2>1. \A n \in Mutex : owner'[n] = IF n = m THEN i ELSE owner[n]
    BY <1>1, <1>2, <1>3 DEF LocksType
  <2>2. \A j \in Thread \ {i} : Holds(j)' = Holds(j)
    BY <1>1, <1>4, OthersKeep
  <2>3. \A j \in Thread : m \notin Holds(j)
    BY <1>1, <1>3, NoneAssumption DEF LocksInv, TypeOK
  <2> HIDE DEF m
  <2>4. ASSUME NEW n \in Mutex, NEW j \in Thread PROVE owner'[n] = j <=> n \in Holds(j)'
    <3>1. owner[n] = j <=> n \in Holds(j)
      BY DEF LocksInv, TypeOK
    <3>2. CASE j = i
      BY <1>6, <2>1, <3>1, <3>2
    <3>3. CASE j # i
      BY <2>1, <2>2, <2>3, <3>1, <3>3
    <3>4. QED
      BY <3>2, <3>3
  <2>5. HoldsOnce(i)'
    <3>1. \A d \in 1..depth[i] : MutexOf(Guards(i)[d].on) # MutexOf(Guards(i)[depth[i] + 1].on)
      BY <2>3 DEF Holds, Wanted, m
    <3>2. 1..depth'[i] = (1..depth[i]) \cup {depth[i] + 1}
      BY <1>2, <1>4
    <3>3. QED
      BY <1>5, <3>1, <3>2 DEF HoldsOnce, LocksInv, TypeOK
  <2>6. \A j \in Thread : HoldsOnce(j)'
    BY <1>1, <1>4, <2>5, OthersKeep DEF LocksInv, TypeOK
  <2>7. QED
    BY <2>4, <2>6 DEF OwnerInv
<1>11. BodyInv' /\ ReduceInv'
  BY <1>1, <1>4, KeepBody, KeepReduce DEF LocksInv, reduceVars
<1>12. QED
  BY <1>9, <1>10, <1>11 DEF LocksInv, TypeOK, OwnerInv

\* A thread goes without the body when try_lock fails.
LEMMA TestFailsStep ==
  ASSUME LocksInv, NEW i \in Thread, pc[i] = "enter",
         IF depth[i] = 0 THEN Finish(i, "enter") ELSE Goto(i, "enter", "exit") /\ UNCHANGED at,
         UNCHANGED <<program, depth, owner, bodyVars, reduceVars>>
  PROVE  LocksInv'
<1>1. UNCHANGED <<program, depth, owner, reg, value, stores, result, reduced>>
  BY DEF bodyVars, reduceVars
<1>2. LocksType /\ depth[i] \in Nat /\ depth[i] < Len(Guards(i)) /\ Guards(i) \in Seq(Guard)
  BY SectionFacts DEF LocksInv, TypeOK, LocksType, InSection
<1>3. PICK to \in {"next", "exit"} : pc' = [pc EXCEPT ![i] = to]
  BY DEF Finish, Goto
<1>4. /\ pc' \in [Thread -> PC] /\ at' \in [Thread -> Nat \ {0}] /\ OnlyMoves(i)
      /\ pc'[i] = to
  <2>1. pc' \in [Thread -> PC] /\ pc'[i] = to /\ \A j \in Thread \ {i} : pc'[j] = pc[j]
    BY <1>2, <1>3 DEF LocksType, PC
  <2>2. at' = at \/ at' = [at EXCEPT ![i] = @ + 1]
    BY DEF Finish
  <2>3. at' \in [Thread -> Nat \ {0}] /\ \A j \in Thread \ {i} : at'[j] = at[j]
    <3>1. at \in [Thread -> Nat \ {0}] /\ at[i] + 1 \in Nat \ {0}
      BY <1>2 DEF LocksType
    <3>2. QED
      BY <2>2, <3>1
  <2>4. QED
    BY <1>1, <2>1, <2>3 DEF OnlyMoves
<1>5. Holds(i)' = Holds(i) /\ HoldsOnce(i)' /\ ThreadType(i)'
  <2>1. CASE depth[i] = 0
    <3>1. pc'[i] = "next"
      BY <1>2, <2>1 DEF Finish, Goto, LocksType
    <3>2. 1..depth[i] = {} /\ 1..depth'[i] = {}
      BY <1>1, <2>1
    <3>3. Holds(i)' = Holds(i) /\ HoldsOnce(i)'
      BY <3>2 DEF Holds, HoldsOnce
    <3>4. QED
      BY <1>1, <2>1, <3>1, <3>3 DEF ThreadType, InSection
  <2>2. CASE depth[i] # 0
    <3>1. pc'[i] = "exit" /\ at' = at
      BY <1>2, <2>2 DEF Goto, LocksType
    <3>2. /\ ItemOf(i)' = ItemOf(i) /\ Guards(i)' = Guards(i) /\ Holds(i)' = Holds(i)
          /\ HoldsOnce(i)'
      BY <1>1, <3>1 DEF ItemOf, Guards, Holds, HoldsOnce, LocksInv, TypeOK
    <3>3. at[i] <= Len(program[i]) /\ ItemOf(i).kind = "section"
      BY <1>2 DEF LocksType, InSection
    <3>4. depth[i] \in 1..Len(Guards(i))
      BY <1>2, <2>2
    <3>5. QED
      BY <1>1, <3>1, <3>2, <3>3, <3>4 DEF ThreadType, InSection
  <2>3. QED
    BY <2>1, <2>2
<1>6. LocksType'
  BY <1>1, <1>2, <1>4, <1>5, KeepType DEF LocksType
<1>7. OwnerInv' /\ BodyInv' /\ ReduceInv'
  <2>1. OwnerInv'
    BY <1>1, <1>4, <1>5, KeepOwner DEF LocksInv, TypeOK, OwnerInv
  <2>2. BodyInv'
    BY <1>1, <1>3, <1>4, KeepBody DEF LocksInv
  <2>3. ReduceInv'
    BY <1>1, <1>3, <1>4, KeepReduce DEF LocksInv, reduceVars
  <2>4. QED
    BY <2>1, <2>2, <2>3
<1>8. QED
  BY <1>6, <1>7 DEF LocksInv, TypeOK, OwnerInv

\* A thread frees the mutex of the guard it has come into last.
LEMMA GoStep ==
  ASSUME LocksInv, NEW i \in Thread, pc[i] = "exit", Free(Inside(i).on), Go(i)
  PROVE  LocksInv'
<1> DEFINE m == MutexOf(Inside(i).on)
<1>1. /\ owner' = [owner EXCEPT ![m] = None] /\ depth' = [depth EXCEPT ![i] = depth[i] - 1]
      /\ UNCHANGED <<program, reg, value, stores, result, reduced>>
  BY DEF Free, Go, bodyVars, reduceVars
<1>2. /\ LocksType /\ depth[i] \in Nat /\ depth[i] \in 1..Len(Guards(i))
      /\ Guards(i) \in Seq(Guard)
  BY SectionFacts DEF LocksInv, TypeOK, LocksType, InSection
<1>3. Inside(i) \in Guard /\ m \in Mutex
  <2>1. Inside(i) \in Guard
    BY <1>2 DEF Inside
  <2>2. QED
    BY <2>1, GuardFacts
<1>4. PICK to \in {"next", "exit"} : pc' = [pc EXCEPT ![i] = to]
  BY DEF Go, Finish, Goto
<1>5. /\ pc' \in [Thread -> PC] /\ at' \in [Thread -> Nat \ {0}] /\ pc'[i] = to
      /\ depth' \in [Thread -> Nat] /\ depth'[i] = depth[i] - 1
      /\ \A j \in Thread \ {i} : pc'[j] = pc[j] /\ at'[j] = at[j] /\ depth'[j] = depth[j]
  <2>1. pc' \in [Thread -> PC] /\ pc'[i] = to /\ \A j \in Thread \ {i} : pc'[j] = pc[j]
    BY <1>2, <1>4 DEF LocksType, PC
  <2>2. at' = at \/ at' = [at EXCEPT ![i] = @ + 1]
    BY DEF Go, Finish
  <2>3. at' \in [Thread -> Nat \ {0}] /\ \A j \in Thread \ {i} : at'[j] = at[j]
    <3>1. at \in [Thread -> Nat \ {0}] /\ at[i] + 1 \in Nat \ {0}
      BY <1>2 DEF LocksType
    <3>2. QED
      BY <2>2, <3>1
  <2>4. depth[i] - 1 \in Nat
    BY <1>2
  <2>5. /\ depth' \in [Thread -> Nat] /\ depth'[i] = depth[i] - 1
        /\ \A j \in Thread \ {i} : depth'[j] = depth[j]
    BY <1>1, <1>2, <2>4 DEF LocksType
  <2>6. QED
    BY <2>1, <2>3, <2>5
<1>6. OnlyMoves(i)
  BY <1>1, <1>5 DEF OnlyMoves
<1>7. Holds(i)' = Holds(i) \ {m}
  <2>1. CASE depth[i] = 1
    <3>1. 1..depth[i] = {1} /\ 1..depth'[i] = {}
      BY <1>5, <2>1
    <3>2. Holds(i)' = {}
      BY <3>1 DEF Holds
    <3>3. Holds(i) = {m}
      BY <2>1, <3>1 DEF Holds, Inside
    <3>4. QED
      BY <3>2, <3>3
  <2>2. CASE depth[i] # 1
    <3>1. at' = at
      BY <2>2 DEF Go
    <3>2. Guards(i)' = Guards(i)
      BY <1>1, <3>1 DEF Guards, ItemOf
    <3>3. 1..depth[i] = (1..depth'[i]) \cup {depth[i]}
      BY <1>2, <1>5
    <3>4. ASSUME NEW d \in 1..depth'[i] PROVE MutexOf(Guards(i)[d].on) # m
      <4>1. d \in 1..depth[i] /\ depth[i] \in 1..depth[i] /\ d # depth[i]
        BY <1>2, <1>5
      <4>2. HoldsOnce(i)
        BY DEF LocksInv, TypeOK
      <4>3. QED
        BY <4>1, <4>2 DEF HoldsOnce, Inside
    <3>5. Holds(i) = Holds(i)' \cup {m}
      BY <3>2, <3>3 DEF Holds, Inside
    <3>6. m \notin Holds(i)'
      BY <3>2, <3>4 DEF Holds
    <3> HIDE DEF m
    <3>7. QED
      BY <3>5, <3>6
  <2>3. QED
    BY <2>1, <2>2
<1>8. ThreadType(i)'
  <2>1. CASE depth[i] = 1
    <3>1. pc'[i] = "next" /\ depth'[i] = 0
      BY <1>2, <1>5, <2>1 DEF Go, Finish, Goto, LocksType
    <3>2. QED
      BY <3>1 DEF ThreadType, InSection
  <2>2. CASE depth[i] # 1
    <3>1. pc'[i] = "exit" /\ at' = at
      BY <1>2, <2>2 DEF Go, Goto, LocksType
    <3>2. ItemOf(i)' = ItemOf(i) /\ Guards(i)' = Guards(i)
      BY <1>1, <3>1 DEF Guards, ItemOf
    <3>3. at[i] <= Len(program[i]) /\ ItemOf(i).kind = "section"
      BY <1>2 DEF LocksType, InSection
    <3>4. depth'[i] \in 1..Len(Guards(i))
      BY <1>2, <1>5, <2>2
    <3>5. QED
      BY <1>1, <3>1, <3>2, <3>3, <3>4 DEF ThreadType, InSection
  <2>3. QED
    BY <2>1, <2>2
<1>9. owner' \in [Mutex -> Thread \cup {None}]
  BY <1>1, <1>2, <1>3 DEF LocksType
<1>10. LocksType'
  BY <1>1, <1>2, <1>5, <1>6, <1>8, <1>9, KeepType DEF LocksType
<1>11. OwnerInv'
  <2>1. \A n \in Mutex : owner'[n] = IF n = m THEN None ELSE owner[n]
    BY <1>1, <1>2, <1>3 DEF LocksType
  <2>2. \A j \in Thread \ {i} : Holds(j)' = Holds(j)
    BY <1>1, <1>6, OthersKeep
  <2>3. m \in Holds(i)
    BY <1>2 DEF Holds, Inside
  <2>4. owner[m] = i
    BY <1>3, <2>3 DEF LocksInv, TypeOK
  <2> HIDE DEF m
  <2>5. ASSUME NEW n \in Mutex, NEW j \in Thread PROVE owner'[n] = j <=> n \in Holds(j)'
    <3>1. owner[n] = j <=> n \in Holds(j)
      BY DEF LocksInv, TypeOK
    <3>2. CASE j = i
      BY <1>7, <2>1, <3>1, <3>2, NoneAssumption
    <3>3. CASE j # i
      BY <2>1, <2>2, <2>4, <3>1, <3>3, NoneAssumption
    <3>4. QED
      BY <3>2, <3>3
  <2>6. HoldsOnce(i)'
    <3>1. CASE depth[i] = 1
      <4>1. 1..depth'[i] = {}
        BY <1>5, <3>1
      <4>2. QED
        BY <4>1 DEF HoldsOnce
    <3>2. CASE depth[i] # 1
      <4>1. Guards(i)' = Guards(i)
        BY <1>1, <3>2 DEF Go, Guards, ItemOf
      <4>2. 1..depth'[i] \subseteq 1..depth[i]
        BY <1>2, <1>5
      <4>3. QED
        BY <4>1, <4>2 DEF HoldsOnce, LocksInv, TypeOK
    <3>3. QED
      BY <3>1, <3>2
  <2>7. \A j \in Thread : HoldsOnce(j)'
    BY <1>1, <1>6, <2>6, OthersKeep DEF LocksInv, TypeOK
  <2>8. QED
    BY <2>5, <2>7 DEF OwnerInv
<1>12. BodyInv' /\ ReduceInv'
  BY <1>1, <1>4, <1>5, <1>6, KeepBody, KeepReduce DEF LocksInv, reduceVars
<1>13. QED
  BY <1>10, <1>11, <1>12 DEF LocksInv, TypeOK, OwnerInv

\* A thread adds its share, between the two barriers of a reduction.
LEMMA AddStep ==
  ASSUME LocksInv, NEW i \in Thread, Add(i)
  PROVE  LocksInv'
<1>1. /\ pc[i] = "add" /\ pc' = [pc EXCEPT ![i] = "bar2"]
      /\ result' = [result EXCEPT ![i] = @ + 1]
      /\ UNCHANGED <<program, at, depth, owner, reg, value, stores, reduced>>
  BY DEF Add, Goto, bodyVars
<1>2. pc' \in [Thread -> PC] /\ pc'[i] = "bar2" /\ OnlyMoves(i)
  BY <1>1 DEF LocksInv, TypeOK, LocksType, PC, OnlyMoves
<1>3. Holds(i)' = Holds(i) /\ HoldsOnce(i)'
  BY <1>1 DEF ItemOf, Guards, Holds, HoldsOnce, LocksInv, TypeOK
<1>4. ThreadType(i)'
  BY <1>1, <1>2 DEF LocksInv, TypeOK, LocksType, ThreadType, InSection
<1>5. /\ result' \in [Thread -> Nat]
      /\ \A j \in Thread : result'[j] = IF j = i THEN result[i] + 1 ELSE result[j]
  BY <1>1 DEF LocksInv, TypeOK, LocksType
<1>6. LocksType'
  BY <1>1, <1>2, <1>4, <1>5, KeepType DEF LocksInv, TypeOK, LocksType
<1>7. OwnerInv' /\ BodyInv'
  BY <1>1, <1>2, <1>3, KeepOwner, KeepBody DEF LocksInv, TypeOK, OwnerInv
<1>8. ReduceInv'
  <2>1. \A j \in Thread : pc'[j] = IF j = i THEN "bar2" ELSE pc[j]
    BY <1>2 DEF OnlyMoves
  <2>2. \A j \in Thread : pc[j] \in {"add", "bar2"}
    BY <1>1 DEF LocksInv, ReduceInv
  <2>3. UNCHANGED reduced
    BY <1>1
  <2>4. pc[i] = "add"
    BY <1>1
  <2>5. QED
    BY <1>5, <2>1, <2>2, <2>3, <2>4 DEF LocksInv, ReduceInv
<1>9. QED
  BY <1>6, <1>7, <1>8 DEF LocksInv, TypeOK, OwnerInv

\* The two barriers of a reduction let the whole team go.
LEMMA BarrierStep ==
  ASSUME LocksInv, Reduce \/ EndReduce
  PROVE  LocksInv'
<1>1. UNCHANGED <<program, depth, owner, reg, value, stores, result>>
  BY DEF Reduce, EndReduce, bodyVars, reduceVars
<1>2. \A i \in Thread : pc[i] \notin InSection /\ pc[i] # "next" /\ depth[i] = 0
  BY DEF Reduce, EndReduce, InSection, LocksInv, TypeOK, LocksType
<1>3. \A i \in Thread : Holds(i) = {} /\ Holds(i)' = {} /\ HoldsOnce(i)'
  <2>1. \A i \in Thread : 1..depth[i] = {} /\ 1..depth'[i] = {}
    BY <1>1, <1>2
  <2>2. QED
    BY <2>1 DEF Holds, HoldsOnce
<1>4. OwnerInv'
  BY <1>1, <1>3 DEF LocksInv, TypeOK, OwnerInv
<1>5. CASE Reduce
  <2>1. /\ \A i \in Thread : pc[i] = "bar1" /\ pc'[i] = "add"
        /\ pc' \in [Thread -> PC] /\ UNCHANGED <<at, reduced>>
    BY <1>5 DEF Reduce, PC, reduceVars
  <2>2. LocksType'
    BY <1>1, <1>2, <2>1 DEF LocksInv, TypeOK, LocksType, InSection
  <2>3. BodyInv' /\ ReduceInv'
    BY <1>1, <2>1 DEF LocksInv, BodyInv, UpdatesExact, ReduceInv
  <2>4. QED
    BY <1>4, <2>2, <2>3 DEF LocksInv, TypeOK, OwnerInv
<1>6. CASE EndReduce
  <2>1. /\ \A i \in Thread : pc[i] = "bar2" /\ pc'[i] = "next" /\ at'[i] = at[i] + 1
        /\ \A i \in Thread : reduced'[i] = reduced[i] + 1
        /\ pc' \in [Thread -> PC]
    BY <1>6 DEF EndReduce, PC
  <2>2. at' \in [Thread -> Nat \ {0}] /\ reduced' \in [Thread -> Nat]
    BY <1>6 DEF EndReduce, LocksInv, TypeOK, LocksType
  <2>3. LocksType'
    BY <1>1, <1>2, <2>1, <2>2 DEF LocksInv, TypeOK, LocksType, InSection
  <2>4. BodyInv' /\ ReduceInv'
    BY <1>1, <2>1 DEF LocksInv, BodyInv, UpdatesExact, ReduceInv
  <2>5. QED
    BY <1>4, <2>3, <2>4 DEF LocksInv, TypeOK, OwnerInv
<1>7. QED
  BY <1>5, <1>6

\* The owners of the mutexes, what bodies have loaded and the shares of a
\* reduction keep their invariant: see LocksInv.
THEOREM LocksInvariant == Spec => []LocksInv
<1>1. LocksInv /\ [Next]_vars => LocksInv'
  <2> SUFFICES ASSUME LocksInv, [Next]_vars PROVE LocksInv'
    OBVIOUS
  <2>1. ASSUME NEW i \in Thread, Step(i) PROVE LocksInv'
    <3>1. CASE Begin(i) \/ Load(i) \/ Store(i) \/ Add(i)
      BY <3>1, BeginStep, LoadStep, StoreStep, AddStep
    <3>2. CASE Critical(i) \/ SetLock(i)
      BY <3>2, ComeStep DEF Critical, SetLock
    <3>3. CASE TestLock(i)
      BY <3>3, ComeStep, TestFailsStep DEF TestLock
    <3>4. CASE EndCritical(i) \/ UnsetLock(i)
      BY <3>4, GoStep DEF EndCritical, UnsetLock
    <3>5. QED
      BY <2>1, <3>1, <3>2, <3>3, <3>4 DEF Step
  <2>2. CASE Reduce \/ EndReduce
    BY <2>2, BarrierStep
  <2>3. CASE UNCHANGED vars
    BY <2>3 DEF vars, bodyVars, reduceVars, LocksInv, TypeOK, LocksType, Holds, HoldsOnce, Guards,
                ItemOf, Variable, BodyInv, UpdatesExact, ReduceInv
  <2>4. QED
    BY <2>1, <2>2, <2>3 DEF Next
<1>2. QED
  BY <1>1, InitLocks, PTL DEF Spec

\* No update of a variable that is only touched inside its critical section or
\* its lock is lost.
THEOREM NoLostUpdate == Spec => []UpdatesExact
<1>1. LocksInv => UpdatesExact
  BY DEF LocksInv, BodyInv
<1>2. QED
  BY <1>1, LocksInvariant, PTL

\* A thread past a reduction with atomics finds exactly its result.
THEOREM ReductionComplete == Spec => []ReduceComplete
<1>1. LocksInv => ReduceComplete
  BY DEF LocksInv, ReduceInv, ReduceComplete
<1>2. QED
  BY <1>1, LocksInvariant, PTL

\* Every program nests its guards downwards in r; all critical sections count as one.
Ordered(r) ==
  \A p \in Programs, i \in Thread : \A k \in DOMAIN p[i] : p[i][k].kind = "section" =>
    LET guards == p[i][k].guards IN
    \A d, e \in DOMAIN guards : d < e => r[MutexOf(guards[e].on)] < r[MutexOf(guards[d].on)]

\* Of a thread that spins, the mutexes of the guards it is inside are above the one it wants.
LEMMA WantsLower ==
  ASSUME NEW r \in [Mutex -> Nat], Ordered(r), LocksType, NEW i \in Thread, Waits(i)
  PROVE  /\ MutexOf(Wanted(i).on) \in Mutex
         /\ \A m \in Holds(i) : r[MutexOf(Wanted(i).on)] < r[m]
<1>1. /\ pc[i] \in InSection /\ pc[i] # "next" /\ depth[i] < Len(Guards(i))
      /\ ItemOf(i).kind = "section" /\ at[i] <= Len(program[i])
      /\ program \in Programs /\ at[i] \in Nat \ {0}
  BY DEF Waits, LocksType, InSection
<1>2. Guards(i) \in Seq(Guard) /\ depth[i] \in Nat
  BY <1>1, SectionFacts
<1>3. Wanted(i) \in Guard
  BY <1>1, <1>2 DEF Wanted
<1>4. at[i] \in DOMAIN program[i]
  BY <1>1, ProgramsAssumption
<1>5. ASSUME NEW d \in 1..depth[i]
      PROVE  r[MutexOf(Wanted(i).on)] < r[MutexOf(Guards(i)[d].on)]
  <2>1. d \in DOMAIN Guards(i) /\ depth[i] + 1 \in DOMAIN Guards(i) /\ d < depth[i] + 1
    BY <1>1, <1>2
  <2>2. QED
    BY <1>1, <1>4, <2>1 DEF Ordered, ItemOf, Guards, Wanted
<1>6. QED
  BY <1>3, <1>5, GuardFacts DEF Holds

\* Where some order of the mutexes, all critical sections being one of them, has
\* every program nest its guards along it, the threads of a team never all wait
\* for each other's mutexes. The hypothesis leaves out critical sections inside
\* one another, whatever their names: the second waits for the first.
THEOREM NoDeadlock ==
  ASSUME NEW r \in [Mutex -> Nat], Ordered(r)
  PROVE  Spec => []HoldersGoOn
<1>1. LocksInv => HoldersGoOn
  <2> DEFINE want(i) == MutexOf(Wanted(i).on)
             levels == {r[want(i)] : i \in {t \in Thread : Blocked(t)}}
  <2> SUFFICES ASSUME LocksInv, NEW i0 \in Thread, Blocked(i0),
                      \A j \in Thread : depth[j] > 0 => Blocked(j)
               PROVE  FALSE
    BY DEF HoldersGoOn
  <2>1. LocksType
    BY DEF LocksInv, TypeOK
  <2>2. \A i \in Thread : Blocked(i) => Waits(i) /\ want(i) \in Mutex /\ r[want(i)] \in Nat
    BY <2>1, WantsLower DEF Blocked
  <2>3. levels \subseteq Nat /\ levels # {}
    BY <2>2
  <2>4. PICK x \in levels : \A y \in levels : <<y, x>> \notin OpToRel(<, Nat)
    BY <2>3, NatLessThanWellFounded, WFMin
  <2>5. PICK i \in Thread : Blocked(i) /\ x = r[want(i)]
    OBVIOUS
  <2>6. PICK j \in Thread : owner[want(i)] = j
    BY <2>1, <2>2, <2>5 DEF Blocked, LocksType
  <2>7. want(i) \in Holds(j)
    BY <2>2, <2>5, <2>6 DEF LocksInv, TypeOK
  <2>8. depth[j] > 0
    <3>1. 1..depth[j] # {} /\ depth[j] \in Nat
      BY <2>1, <2>7 DEF Holds, LocksType
    <3>2. QED
      BY <3>1
  <2>9. Blocked(j) /\ r[want(j)] < x
    BY <2>1, <2>2, <2>5, <2>7, <2>8, WantsLower
  <2>10. r[want(j)] \in levels
    BY <2>9
  <2> HIDE DEF levels, want
  <2>11. <<r[want(j)], x>> \in OpToRel(<, Nat)
    BY <2>3, <2>9, <2>10 DEF OpToRel
  <2>12. QED
    BY <2>4, <2>10, <2>11
<1>2. QED
  BY <1>1, LocksInvariant, PTL
=============================================================================
