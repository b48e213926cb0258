----------------------------- MODULE MCForkMain -----------------------------
(* ForkMain with two callers.                                              *)
EXTENDS ForkMain, TLC

CONSTANTS c1, c2

\* One caller asks for different numbers, or both take the default.
MCPrograms ==
  {(c1 :> <<3, Region, Region>>) @@ (c2 :> <<>>),
   (c1 :> <<Region, 1, Region>>) @@ (c2 :> <<>>),
   (c1 :> <<Region, Region>>) @@ (c2 :> <<Region>>)}

\* One caller asks for a number while the other has a region.
MCMixedPrograms == {(c1 :> <<Region>>) @@ (c2 :> <<1, Region>>)}
=============================================================================
