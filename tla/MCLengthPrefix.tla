---------------------------- MODULE MCLengthPrefix ----------------------------
(* An instance of LengthPrefix for TLC: all streams of up to three items    *)
(* with two tags, cut off anywhere; 2 takes a varint of two digits.         *)
EXTENDS LengthPrefix
=============================================================================
