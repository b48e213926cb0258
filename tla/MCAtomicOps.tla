----------------------------- MODULE MCAtomicOps -----------------------------
(* AtomicOps with small sets of calls. *)
EXTENDS AtomicOps

Of(op, rhs, capture) == [op |-> op, rhs |-> rhs, capture |-> capture]

\* Calls of all routines; a max captures nothing.
MixedCalls ==
  { Of("add", 1, "before"), Of("other", 2, "after"), Of("gen", 1, "none"),
    Of("max", 2, "none"), Of("rd", 0, "before"), Of("wr", 0, "none") }

\* A max that captures the value before, among calls that only raise the variable.
RaisingCalls ==
  { Of("max", rhs, "before") : rhs \in 1..2 } \cup { Of("max", 2, "none"), Of("rd", 0, "before") }

\* A max that captures the value after, where nothing goes beyond its operand.
TopCalls ==
  { Of("max", 2, "after"), Of("max", 1, "none"), Of("rd", 0, "before") }

\* On a _Quad, calls that take its lock throughout; on a complex<float>, the
\* updates without a lock.
LockedCalls == { Of("add", 1, "after"), Of("swp", 2, "before"), Of("rd", 0, "before") }
CasCalls == { Of("mix", 1, "none"), Of("gen", 2, "none") }

\* Programs whose calls linearize.
AtomicPrograms ==
  [type : {"fixed4", "float4", "float10"}, calls : {MixedCalls}]
    \cup [type : {"fixed4", "float4"}, calls : {RaisingCalls, TopCalls}]
    \cup [type : {"float16"}, calls : {LockedCalls}]
    \cup [type : {"cmplx4"}, calls : {CasCalls}]
=============================================================================
