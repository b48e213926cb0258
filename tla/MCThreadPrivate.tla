-------------------------- MODULE MCThreadPrivate --------------------------
(* ThreadPrivate on teams that do not grow.                                *)
EXTENDS ThreadPrivate

MCSizes == {<<3, 3>>, <<3, 1>>, <<2, 2>>}
=============================================================================
