------------------------------ MODULE WireCursor ------------------------------
(***************************************************************************)
(* What a ProtoReader promises: a walk over the tree of fields that the    *)
(* sender framed, however the bytes arrive.  Each field is taken where it  *)
(* starts and left where it stops, an item is left only at its end, and    *)
(* a message that is complete is never refused.                            *)
(***************************************************************************)
EXTENDS Naturals, Sequences

VARIABLES
  fields,   (* the tree: a record for each field, by its number in the walk *)
  cut,      (* how much of the message arrives                              *)
  complete, (* whether that is all of it                                    *)
  place,    (* where in the message the walk is                             *)
  current,  (* the field whose header has been taken, or 0                  *)
  open,     (* the items that the walk is in, outermost first               *)
  status    (* "reading", "finished" or "failed"                            *)

vars == <<fields, cut, complete, place, current, open, status>>
input == <<fields, cut, complete>>

\* The message itself has number 0.
Parent == IF open = <<>> THEN 0 ELSE open[Len(open)]

Init == place = 0 /\ current = 0 /\ open = <<>> /\ status = "reading"

Take == \E f \in DOMAIN fields :
  /\ current = 0 /\ fields[f].parent = Parent /\ fields[f].start = place
  /\ current' = f
  /\ place' = fields[f].value
  /\ UNCHANGED <<input, open, status>>

Leave == /\ current # 0
         /\ place' = fields[current].stop
         /\ current' = 0
         /\ UNCHANGED <<input, open, status>>

Enter == /\ current # 0
         /\ open' = Append(open, current)
         /\ place' = fields[current].body
         /\ current' = 0
         /\ UNCHANGED <<input, status>>

\* The end of a group is a marker of its own.
Mark == /\ open # <<>> /\ current = 0
        /\ place = fields[Parent].end
        /\ place' = fields[Parent].stop
        /\ UNCHANGED <<input, current, open, status>>

Exit == /\ open # <<>> /\ current = 0
        /\ place = fields[Parent].stop
        /\ open' = SubSeq(open, 1, Len(open) - 1)
        /\ UNCHANGED <<input, place, current, status>>

\* A message cut short between two of its own fields looks whole; anything else
\* that is missing is noticed.
Finish == /\ open = <<>> /\ current = 0 /\ cut <= place
          /\ status' = "finished"
          /\ UNCHANGED <<input, place, current, open>>

Fail == /\ ~complete
        /\ status' = "failed"
        /\ UNCHANGED <<input, place, current, open>>

Next == status = "reading" /\ (Take \/ Leave \/ Enter \/ Mark \/ Exit \/ Finish \/ Fail)

Spec == Init /\ [][Next]_vars
=============================================================================
