---------------------------- MODULE ThreadPrivate ----------------------------
(***************************************************************************)
(* threadprivate variables: __kmpc_threadprivate_cached, which every       *)
(* thread of a team calls before each use of the variable.  One cache, a   *)
(* pointer to an array with one slot per thread number, serves all teams   *)
(* of the program.  It is allocated on first use under thread_mtx of the   *)
(* team, tested before and after the lock is taken; each slot gets its     *)
(* copy of the variable when a thread of that number first comes to it.    *)
(*                                                                         *)
(* Every access reads *cache again.  The number of a thread is the one     *)
(* thread_setup passes to the outlined function.                           *)
(***************************************************************************)
EXTENDS Integers

CONSTANTS
  NumTeams,    \* the teams of the program
  MaxThreads,  \* how many threads a team may have
  Sizes,       \* the numbers of threads of the teams
  NumCalls,    \* how often a thread uses the variable
  Together,    \* whether teams run at the same time, as in nested regions
  None         \* no thread

Team == 1..NumTeams
Tid == 0..(MaxThreads - 1)

ASSUME BoundsAssumption == NumTeams \in Nat /\ MaxThreads \in Nat /\ NumCalls \in Nat
ASSUME SizesAssumption == Sizes \subseteq [Team -> 1..MaxThreads]
ASSUME TogetherAssumption == Together \in BOOLEAN
ASSUME NoneAssumption == None \notin Nat

VARIABLES
  num_threads,   \* parallel_region::num_threads of each team
  pc,            \* where each team's thread of each number is
  calls,         \* how often it has still to call
  thread_mtx,    \* parallel_region::thread_mtx of each team: its owner
  cache,         \* the numbers with a slot in the array *cache points to
  slot,          \* the copy in each slot; 0 is NULL
  last_copy,     \* history: the copies there are
  copied,        \* history: those that memcpy has filled
  given          \* history: the copies returned to the threads of a number

threadVars == <<num_threads, calls>>
copyVars == <<slot, last_copy, copied>>
vars == <<threadVars, pc, thread_mtx, cache, copyVars, given>>

Number(k) == 0..(num_threads[k] - 1)

InCall == {"test", "lock", "recheck", "alloc", "unlock", "slot", "new", "copy", "return"}
PC == InCall \cup {"none", "body", "end"}

Init ==
  /\ num_threads \in Sizes
  /\ pc = [k \in Team |-> [t \in Tid |-> "none"]]
  /\ calls = [k \in Team |-> [t \in Tid |-> NumCalls]]
  /\ thread_mtx = [k \in Team |-> None]
  /\ cache = {}
  /\ slot = [t \in Tid |-> 0]
  /\ last_copy = 0
  /\ copied = {}
  /\ given = [t \in Tid |-> {}]

Goto(k, t, from, to) ==
  /\ pc[k][t] = from
  /\ pc' = [pc EXCEPT ![k][t] = to]

IsNull == cache = {}

-----------------------------------------------------------------------------
(* The program: teams one after the other, or together.                    *)

Ended(k) == \A t \in Number(k) : pc[k][t] = "end"

Begin(k) ==
  /\ Together \/ \A j \in Team : j < k => Ended(j)
  /\ \A t \in Tid : pc[k][t] = "none"
  /\ pc' = [pc EXCEPT ![k] = [t \in Tid |-> IF t \in Number(k) THEN "body" ELSE "none"]]
  /\ UNCHANGED <<threadVars, thread_mtx, cache, copyVars, given>>

Call(k, t) ==
  /\ calls[k][t] > 0
  /\ Goto(k, t, "body", "test")
  /\ calls' = [calls EXCEPT ![k][t] = @ - 1]
  /\ UNCHANGED <<num_threads, thread_mtx, cache, copyVars, given>>

Leave(k, t) ==
  /\ calls[k][t] = 0
  /\ Goto(k, t, "body", "end")
  /\ UNCHANGED <<threadVars, thread_mtx, cache, copyVars, given>>

-----------------------------------------------------------------------------
(* __kmpc_threadprivate_cached                                             *)

\* if(!(*cache))
Test(k, t) ==
  /\ Goto(k, t, "test", IF IsNull THEN "lock" ELSE "slot")
  /\ UNCHANGED <<threadVars, thread_mtx, cache, copyVars, given>>

\* team->thread_mtx.lock()
Lock(k, t) ==
  /\ thread_mtx[k] = None
  /\ Goto(k, t, "lock", "recheck")
  /\ thread_mtx' = [thread_mtx EXCEPT ![k] = t]
  /\ UNCHANGED <<threadVars, cache, copyVars, given>>

\* Mutant: the cache is not tested again under the lock.
RecheckNothing(k, t) ==
  /\ Goto(k, t, "recheck", "alloc")
  /\ UNCHANGED <<threadVars, thread_mtx, cache, copyVars, given>>

\* The second if(!(*cache)).
Recheck(k, t) ==
  /\ Goto(k, t, "recheck", IF IsNull THEN "alloc" ELSE "unlock")
  /\ UNCHANGED <<threadVars, thread_mtx, cache, copyVars, given>>

\* Mutant: room for one thread less.
AllocateShort(k, t) ==
  /\ Goto(k, t, "alloc", "unlock")
  /\ cache' = 0..(num_threads[k] - 2)
  /\ slot' = [u \in Tid |-> 0]
  /\ UNCHANGED <<threadVars, thread_mtx, last_copy, copied, given>>

\* *cache = (void**)calloc(8, num_threads)
Allocate(k, t) ==
  /\ Goto(k, t, "alloc", "unlock")
  /\ cache' = Number(k)
  /\ slot' = [u \in Tid |-> 0]
  /\ UNCHANGED <<threadVars, thread_mtx, last_copy, copied, given>>

\* Mutant: the lock is kept.
UnlockNothing(k, t) ==
  /\ Goto(k, t, "unlock", "slot")
  /\ UNCHANGED <<threadVars, thread_mtx, cache, copyVars, given>>

\* team->thread_mtx.unlock()
Unlock(k, t) ==
  /\ Goto(k, t, "unlock", "slot")
  /\ thread_mtx' = [thread_mtx EXCEPT ![k] = None]
  /\ UNCHANGED <<threadVars, cache, copyVars, given>>

\* if(!((*cache)[tid]))
TestSlot(k, t) ==
  /\ Goto(k, t, "slot", IF slot[t] = 0 THEN "new" ELSE "return")
  /\ UNCHANGED <<threadVars, thread_mtx, cache, copyVars, given>>

\* (*cache)[tid] = new char[size]
NewCopy(k, t) ==
  /\ Goto(k, t, "new", "copy")
  /\ last_copy' = last_copy + 1
  /\ slot' = [slot EXCEPT ![t] = last_copy + 1]
  /\ UNCHANGED <<threadVars, thread_mtx, cache, copied, given>>

\* std::memcpy((*cache)[tid], data, size)
FillCopy(k, t) ==
  /\ Goto(k, t, "copy", "return")
  /\ copied' = copied \cup {slot[t]}
  /\ UNCHANGED <<threadVars, thread_mtx, cache, slot, last_copy, given>>

\* return (*cache)[tid]
Return(k, t) ==
  /\ Goto(k, t, "return", "body")
  /\ given' = [given EXCEPT ![t] = @ \cup {slot[t]}]
  /\ UNCHANGED <<threadVars, thread_mtx, cache, copyVars>>

-----------------------------------------------------------------------------

Cached(k, t) ==
  \/ Test(k, t) \/ Lock(k, t) \/ Recheck(k, t) \/ Allocate(k, t) \/ Unlock(k, t)
  \/ TestSlot(k, t) \/ NewCopy(k, t) \/ FillCopy(k, t) \/ Return(k, t)

Next ==
  \E k \in Team :
    \/ Begin(k)
    \/ \E t \in Tid : Call(k, t) \/ Leave(k, t) \/ Cached(k, t)

Spec == Init /\ [][Next]_vars

\* HPX runs every ready thread, and thread_mtx is taken finitely often.
FairSpec == Spec /\ \A k \in Team, t \in Tid : WF_vars(Cached(k, t))

-----------------------------------------------------------------------------
(* Properties.                                                             *)

\* The state of the lock and of the array.
CacheType ==
  /\ num_threads \in Sizes
  /\ pc \in [Team -> [Tid -> PC]]
  /\ thread_mtx \in [Team -> Tid \cup {None}]
  /\ cache \in SUBSET Tid
  /\ slot \in [Tid -> 0..last_copy]
  /\ last_copy \in Nat
  /\ copied \in SUBSET (1..last_copy)
  /\ given \in [Tid -> SUBSET (1..last_copy)]

\* No thread reads or writes a slot beyond the end of the array.
InBounds ==
  \A k \in Team, t \in Tid :
    pc[k][t] \in {"slot", "new", "copy", "return"} => t \in cache

\* The threads of a number get one copy, in all calls and all teams: what one
\* region has written to the variable is there in the next.
CopyPersists == \A t \in Tid : \A p, q \in given[t] : p = q

\* Threads of different numbers have different copies.
CopiesDiffer == \A t, u \in Tid : t # u => given[t] \cap given[u] = {}

\* No thread gets a copy that does not hold the variable's value yet.
CopyFilled == \A t \in Tid : given[t] \subseteq copied

\* Every thread number has one filled copy of its own through the program.
OwnCopy == CopyPersists /\ CopiesDiffer /\ CopyFilled

\* Every call returns.
CallsReturn == \A k \in Team, t \in Tid : pc[k][t] \in InCall ~> pc[k][t] = "body"

-----------------------------------------------------------------------------
(* The inductive invariant of the safety properties.                       *)

\* Teams run one after the other and none is larger than one before it; with
\* other teams the code does not keep the properties.
TeamsShrink ==
  /\ ~Together
  /\ \A n \in Sizes : \A j, k \in Team : j < k => n[k] <= n[j]

\* A team begins when those before it have ended.
OrderInv ==
  \A k \in Team, t \in Tid : pc[k][t] # "none" =>
    t \in Number(k) /\ \A j \in Team : j < k => Ended(j)

\* One thread at a time is inside the lock, and allocates only what is not there.
LockInv ==
  \A k \in Team, t \in Tid :
    /\ pc[k][t] \in {"recheck", "alloc", "unlock"} <=> thread_mtx[k] = t
    /\ pc[k][t] = "alloc" => cache = {}
    /\ pc[k][t] \in {"unlock", "slot", "new", "copy", "return"} => cache # {}

\* The array has a slot for each thread of a team that has begun.
ArrayInv ==
  cache # {} => \E j \in Team : cache = Number(j) /\ \E t \in Tid : pc[j][t] # "none"

\* A slot is filled once; what is in it is the copy the threads get.
SlotInv ==
  /\ cache = {} => \A t \in Tid : slot[t] = 0
  /\ \A t, u \in Tid : t # u /\ slot[t] = slot[u] => slot[t] = 0
  /\ \A t \in Tid :
       /\ given[t] \subseteq {slot[t]}
       /\ slot[t] \in copied \cup {0} \/ \E k \in Team : pc[k][t] = "copy"
       /\ \A k \in Team :
            /\ pc[k][t] = "new" => slot[t] = 0
            /\ pc[k][t] = "copy" => slot[t] # 0
            /\ pc[k][t] = "return" => slot[t] \in copied

\* What the theorems of ThreadPrivateProofs rest on.
CacheInv == CacheType /\ OrderInv /\ LockInv /\ ArrayInv /\ SlotInv /\ CopyFilled
=============================================================================
