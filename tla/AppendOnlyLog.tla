---------------------------- MODULE AppendOnlyLog ----------------------------
(***************************************************************************)
(* What a BasicList promises to readers that take no lock: the list only   *)
(* grows at its end, an enumeration returns it as it was when the          *)
(* enumeration began, and the index that Add returned names the same value *)
(* for ever ("Immutable in the tail, so a node can be read (iterated)      *)
(* without locking", Meta/BasicList.cs).                                   *)
(***************************************************************************)
EXTENDS Integers, Sequences

CONSTANTS Readers, Values

VARIABLES
  log,      (* the values, oldest first                                     *)
  view,     (* what a reader's enumeration is over; <<>> when it has none   *)
  seen,     (* what a reader has been given since it last began             *)
  returned  (* the indexes that Add returned for each value                 *)

vars == <<log, view, seen, returned>>

Init ==
  /\ log = <<>>
  /\ view = [r \in Readers |-> <<>>]
  /\ seen = [r \in Readers |-> <<>>]
  /\ returned = [v \in Values |-> {}]

Add(v) ==
  /\ log' = Append(log, v)
  /\ returned' = [returned EXCEPT ![v] = @ \union {Len(log)}]
  /\ UNCHANGED <<view, seen>>

Enumerate(r) ==
  /\ view' = [view EXCEPT ![r] = log]
  /\ seen' = [seen EXCEPT ![r] = <<>>]
  /\ UNCHANGED <<log, returned>>

\* A walk by index is over the list as it is at each step.
Walk(r) ==
  /\ view' = [view EXCEPT ![r] = <<>>]
  /\ seen' = [seen EXCEPT ![r] = <<>>]
  /\ UNCHANGED <<log, returned>>

Give(r, list) ==
  /\ Len(seen[r]) < Len(list)
  /\ seen' = [seen EXCEPT ![r] = Append(@, list[Len(@) + 1])]
  /\ UNCHANGED <<log, view, returned>>

MoveNext(r) == Give(r, view[r])
Index(r) == view[r] = <<>> /\ Give(r, log)

Leave(r) ==
  /\ view' = [view EXCEPT ![r] = <<>>]
  /\ UNCHANGED <<log, seen, returned>>

Next ==
  \/ \E v \in Values : Add(v)
  \/ \E r \in Readers :
       Enumerate(r) \/ Walk(r) \/ MoveNext(r) \/ Index(r) \/ Leave(r)

Spec == Init /\ [][Next]_vars
=============================================================================
