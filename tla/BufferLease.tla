----------------------------- MODULE BufferLease -----------------------------
(***************************************************************************)
(* What BufferPool promises to the readers and writers that share it: an   *)
(* array belongs to one of them from the moment it gets it until it gives  *)
(* it up, and what a client finds in its array is what it put there.       *)
(***************************************************************************)
CONSTANTS
  Clients, (* the ProtoReaders and ProtoWriters alive on all threads        *)
  Arrays,  (* byte arrays                                                   *)
  Nothing  (* the buffer of a client that has put nothing in it             *)

VARIABLES
  held, (* the arrays each client may touch                                 *)
  bytes (* whose bytes each client would take out of its array              *)

vars == <<held, bytes>>

Free(a) == \A c \in Clients : a \notin held[c]

Init == /\ held = [c \in Clients |-> {}]
        /\ bytes = [c \in Clients |-> Nothing]

Acquire(c) == \E a \in Arrays :
  /\ Free(a)
  /\ held' = [held EXCEPT ![c] = @ \union {a}]
  /\ UNCHANGED bytes

\* What the array held may go with it.
Release(c) == \E a \in held[c] :
  /\ held' = [held EXCEPT ![c] = @ \ {a}]
  /\ bytes' \in {bytes, [bytes EXCEPT ![c] = Nothing]}

Put(c) ==
  /\ held[c] # {}
  /\ bytes' = [bytes EXCEPT ![c] = c]
  /\ UNCHANGED held

Take(c) ==
  /\ bytes[c] = c
  /\ bytes' = [bytes EXCEPT ![c] = Nothing]
  /\ UNCHANGED held

Next == \E c \in Clients : Acquire(c) \/ Release(c) \/ Put(c) \/ Take(c)

Spec == Init /\ [][Next]_vars
=============================================================================
