---------------------------- MODULE MCTeamLocks ----------------------------
(* TeamLocks with three threads, two critical names and two locks.         *)
EXTENDS TeamLocks

CONSTANTS i1, i2, i3, l1, l2

Critical1(name) == [by |-> "critical", on |-> name]
Set(lock) == [by |-> "set", on |-> lock]
Test(lock) == [by |-> "test", on |-> lock]

In(guards) == [kind |-> "section", guards |-> guards]
Reduction == [kind |-> "reduce"]

By(p1, p2, p3) ==
  [i \in Thread |-> CASE i = i1 -> p1 [] i = i2 -> p2 [] i = i3 -> p3]

MCPrograms ==
  { \* Critical sections of two names, alone, inside a lock and around one.
    By(<<In(<<Critical1("a")>>), In(<<Set(l1), Critical1("b")>>), Reduction>>,
       <<In(<<Critical1("b"), Set(l2)>>), In(<<Critical1("a")>>), Reduction>>,
       <<In(<<Set(l1), Set(l2)>>), In(<<Critical1("b")>>), Reduction>>),
    \* Locks that are tested, alone and inside another guard.
    By(<<In(<<Set(l1), Test(l2)>>), In(<<Test(l1)>>)>>,
       <<In(<<Test(l1)>>), In(<<Critical1("a"), Test(l2)>>)>>,
       <<In(<<Set(l2)>>), In(<<Set(l1), Critical1("a")>>)>>),
    \* Locks nested in opposite orders, but always inside one critical section.
    By(<<In(<<Critical1("a"), Set(l1), Set(l2)>>)>>,
       <<In(<<Critical1("a"), Set(l2), Set(l1)>>)>>,
       <<In(<<Set(l1)>>), In(<<Set(l2)>>)>>),
    \* Two reductions, with sections before, between and after them.
    By(<<Reduction, In(<<Critical1("a")>>), Reduction>>,
       <<Reduction, Reduction, In(<<Critical1("a")>>)>>,
       <<In(<<Set(l1)>>), Reduction, In(<<Set(l1)>>), Reduction>>) }
=============================================================================
