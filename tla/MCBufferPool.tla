----------------------------- MODULE MCBufferPool -----------------------------
(* The instance of BufferPool for TLC.  There are as many arrays as can be  *)
(* reachable at once, so that `new` never fails.  Its properties are        *)
(* temporal, so it uses no symmetry.                                        *)
EXTENDS BufferPool
=============================================================================
