----------------------------- MODULE MCProtoWriter -----------------------------
(* The instance of ProtoWriter for TLC: buffers so short that most writes   *)
(* flush, grow or bypass them, and a base so small that lengths take one,   *)
(* two or three bytes.                                                      *)
EXTENDS ProtoWriter
=============================================================================
