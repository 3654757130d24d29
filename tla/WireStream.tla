------------------------------ MODULE WireStream ------------------------------
(***************************************************************************)
(* What a ProtoWriter promises: a tree of items is framed bottom up, each  *)
(* with the exact length of its body, and what reaches the destination is  *)
(* a prefix of the message and is never taken back.                        *)
(***************************************************************************)
EXTENDS Wire, SequencesExt

VARIABLES
  kinds,  (* how each open item is framed, outermost first                  *)
  bodies, (* bodies[1]: the message so far; bodies[k + 1]: of open item k   *)
  sent    (* what the destination has                                       *)

vars == <<kinds, bodies, sent>>

Kinds == [style : {"group", "base128", "fixed32"}, field : Fields \union {0}]

Framed(kind, body) ==
  CASE kind.style = "group" -> Append(body, Header(kind.field, "EndGroup"))
    [] kind.style = "base128" -> Digits(Len(body)) \o body
    [] kind.style = "fixed32" -> Fixed(Len(body)) \o body

Init == kinds = <<>> /\ bodies = << <<>> >> /\ sent = <<>>

\* The innermost open item gets longer, or stays as it is.
Extended ==
  LET n == Len(bodies) IN
  /\ \A i \in 1 .. n - 1 : bodies'[i] = bodies[i]
  /\ IsPrefix(bodies[n], bodies'[n])

\* Headers and values.
Write == Len(bodies') = Len(bodies) /\ Extended /\ UNCHANGED kinds

\* The header of an item may come with it.
Open ==
  LET n == Len(bodies) IN
  /\ Len(bodies') = n + 1 /\ Last(bodies') = <<>> /\ Extended
  /\ \E k \in Kinds : kinds' = Append(kinds, k)

\* Only an item that is complete is part of the item around it.
Close ==
  /\ kinds # <<>>
  /\ kinds' = Front(kinds)
  /\ bodies' = [Front(bodies) EXCEPT
                  ![Len(kinds)] = @ \o Framed(Last(kinds), Last(bodies))]

\* What no length still to come can change: all that is not in an open item
\* with a length prefix.
Settled(ks, bs) ==
  FlattenSeq([k \in {i \in DOMAIN bs : \A j \in 1 .. i - 1 : ks[j].style = "group"}
               |-> bs[k]])

Send == IsPrefix(sent, sent') /\ IsPrefix(sent', Settled(kinds', bodies'))

Next == (Write \/ Open \/ Close) /\ Send

Spec == Init /\ [][Next]_vars
=============================================================================
