---------------------------- MODULE MCMetadataLock ----------------------------
(* Instances of MetadataLock for TLC.                                       *)
EXTENDS MetadataLock, TLC

MCSymmetry == Permutations(Threads)
=============================================================================
