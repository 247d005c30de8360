------------------------------ MODULE MCEncode ------------------------------
(* Encode with the numbers of its .cfg files: few frames, and pipes with    *)
(* room for one or two messages, which are full as soon as they are used.   *)
EXTENDS Encode
=============================================================================
