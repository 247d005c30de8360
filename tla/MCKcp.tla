------------------------------- MODULE MCKcp --------------------------------
(* Kcp on eight segments in four messages, of one, two, one and four.       *)
EXTENDS Kcp

MCLast == {0, 2, 3, 7}
=============================================================================
