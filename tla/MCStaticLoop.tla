----------------------------- MODULE MCStaticLoop -----------------------------
(* StaticLoop on small loops. *)
EXTENDS StaticLoop

Increasing == {1, 2, 3}
=============================================================================
