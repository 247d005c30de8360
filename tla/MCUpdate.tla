----------------------------- MODULE MCUpdate ------------------------------
(* Update with three files, of which the program is the second and the last  *)
(* is new in the bundle.                                                     *)
EXTENDS Update

MCAdded == {3}
=============================================================================
