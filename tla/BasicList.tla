------------------------------ MODULE BasicList ------------------------------
(***************************************************************************)
(* The append-only list behind every list of types and members             *)
(* (Meta/BasicList.cs): the head is one reference to an immutable node, a  *)
(* node is an array and how much of it counts, and nodes share arrays.     *)
(* Writers hold a lock of their callers (RuntimeTypeModel.types and        *)
(* MetaType.fields); readers enumerate, or walk by index, with no lock.    *)
(* Stores become visible in program order, as in the memory model of the   *)
(* CLR.                                                                    *)
(***************************************************************************)
EXTENDS Integers, Sequences

CONSTANTS
  Writers,
  Readers,
  Values,
  Null,          (* an array slot not written yet                           *)
  InitialLength, (* the length of the first array: 10 in the code           *)
  MaxLength      (* BOUND: values added                                     *)

ASSUME ListAssumption ==
  /\ Null \notin Values
  /\ InitialLength \in Nat \ {0}
  /\ MaxLength \in Nat

VARIABLES
  heap,     (* the arrays                                                   *)
  head,     (* BasicList.head                                               *)
  writer,   (* what each writer is doing                                    *)
  reader,   (* what each reader is doing                                    *)
  seen,     (* history: what each reader was given since it last began      *)
  returned  (* history: the indexes that Add returned for each value        *)

vars == <<heap, head, writer, reader, seen, returned>>

nil == [data |-> 0, length |-> 0]

Items(node) == [i \in 1..node.length |-> heap[node.data][i]]
Idle == [pc |-> "idle", node |-> nil]

Copied_short(node, length) ==
  [i \in 1..length |-> IF i < node.length THEN heap[node.data][i] ELSE Null]

\* Array.Copy of what counts into a longer or a shorter array.
Copied(node, length) ==
  [i \in 1..length |-> IF i <= node.length THEN heap[node.data][i] ELSE Null]

-----------------------------------------------------------------------------
(* Writers: Add and Trim, under the lock of the caller.                    *)

Locked_notTaken(w) == FALSE
Locked(w) == \E u \in Writers \ {w} : writer[u] # Idle

\* Append uses the array of the head when it has room ...
HasRoom == head.data # 0 /\ head.length < Len(heap[head.data])

\* ... or else a new one, twice as long.
Longer ==
  Copied(head, IF head.data = 0 THEN InitialLength ELSE 2 * Len(heap[head.data]))

StartAdd(w) ==
  /\ writer[w] = Idle /\ ~Locked(w)
  /\ head.length < MaxLength
  /\ \/ HasRoom /\ UNCHANGED heap
        /\ writer' = [writer EXCEPT ![w] = [pc |-> "store",
             node |-> [data |-> head.data, length |-> head.length + 1]]]
     \/ ~HasRoom /\ heap' = Append(heap, Longer)
        /\ writer' = [writer EXCEPT ![w] = [pc |-> "store",
             node |-> [data |-> Len(heap) + 1, length |-> head.length + 1]]]
  /\ UNCHANGED <<head, reader, seen, returned>>

Store(w) ==
  LET n == writer[w].node IN
  /\ writer[w].pc = "store"
  /\ \E v \in Values : heap' = [heap EXCEPT ![n.data][n.length] = v]
  /\ writer' = [writer EXCEPT ![w] = [pc |-> "publish", node |-> n]]
  /\ UNCHANGED <<head, reader, seen, returned>>

PublishAdd(w) ==
  LET n == writer[w].node IN
  /\ writer[w].pc = "publish"
  /\ head' = n
  /\ returned' = [returned EXCEPT ![heap[n.data][n.length]] = @ \union {n.length - 1}]
  /\ writer' = [writer EXCEPT ![w] = Idle]
  /\ UNCHANGED <<heap, reader, seen>>

IsTight == head.length = 0 \/ head.length = Len(heap[head.data])

Trim_unlocked(w) ==
  /\ writer[w] = Idle
  /\ ~IsTight
  /\ heap' = Append(heap, Copied(head, head.length))
  /\ writer' = [writer EXCEPT ![w] = [pc |-> "trimmed",
       node |-> [data |-> Len(heap) + 1, length |-> head.length]]]
  /\ UNCHANGED <<head, reader, seen, returned>>

Trim(w) ==
  /\ writer[w] = Idle /\ ~Locked(w)
  /\ ~IsTight
  /\ heap' = Append(heap, Copied(head, head.length))
  /\ writer' = [writer EXCEPT ![w] = [pc |-> "trimmed",
       node |-> [data |-> Len(heap) + 1, length |-> head.length]]]
  /\ UNCHANGED <<head, reader, seen, returned>>

PublishTrim(w) ==
  /\ writer[w].pc = "trimmed"
  /\ head' = writer[w].node
  /\ writer' = [writer EXCEPT ![w] = Idle]
  /\ UNCHANGED <<heap, reader, seen, returned>>

-----------------------------------------------------------------------------
(* Readers, with no lock.                                                  *)

Give(r, node) ==
  seen' = [seen EXCEPT ![r] = Append(@, heap[node.data][Len(@) + 1])]

\* foreach and IndexOf keep the node that was the head when they began, to its
\* end or to the item they look for.
GetEnumerator(r) ==
  /\ reader[r] = Idle
  /\ reader' = [reader EXCEPT ![r] = [pc |-> "each", node |-> head]]
  /\ seen' = [seen EXCEPT ![r] = <<>>]
  /\ UNCHANGED <<heap, head, writer, returned>>

MoveNext(r) ==
  LET node == reader[r].node IN
  /\ reader[r].pc = "each"
  /\ \/ Len(seen[r]) < node.length /\ Give(r, node) /\ UNCHANGED reader
     \/ reader' = [reader EXCEPT ![r] = Idle] /\ UNCHANGED seen
  /\ UNCHANGED <<heap, head, writer, returned>>

\* for (i = 0; i < list.Count; i++) list[i]: Count and the indexer each read
\* the head, which may be another by then.
StartWalk(r) ==
  /\ reader[r] = Idle
  /\ reader' = [reader EXCEPT ![r] = [pc |-> "count", node |-> nil]]
  /\ seen' = [seen EXCEPT ![r] = <<>>]
  /\ UNCHANGED <<heap, head, writer, returned>>

Count(r) ==
  /\ reader[r].pc = "count"
  /\ reader' = [reader EXCEPT ![r] =
       IF Len(seen[r]) < head.length THEN [pc |-> "index", node |-> nil]
       ELSE Idle]
  /\ UNCHANGED <<heap, head, writer, seen, returned>>

Index(r) ==
  /\ reader[r].pc = "index"
  /\ \/ /\ Len(seen[r]) < head.length
        /\ Give(r, head)
        /\ reader' = [reader EXCEPT ![r] = [pc |-> "count", node |-> nil]]
     \/ /\ Len(seen[r]) >= head.length
        /\ reader' = [reader EXCEPT ![r] = [pc |-> "thrown", node |-> nil]]
        /\ UNCHANGED seen
  /\ UNCHANGED <<heap, head, writer, returned>>

-----------------------------------------------------------------------------
Init ==
  /\ heap = <<>>
  /\ head = nil
  /\ writer = [w \in Writers |-> Idle]
  /\ reader = [r \in Readers |-> Idle]
  /\ seen = [r \in Readers |-> <<>>]
  /\ returned = [v \in Values |-> {}]

Next ==
  \/ \E w \in Writers :
       StartAdd(w) \/ Store(w) \/ PublishAdd(w) \/ Trim(w) \/ PublishTrim(w)
  \/ \E r \in Readers :
       GetEnumerator(r) \/ MoveNext(r) \/ StartWalk(r) \/ Count(r) \/ Index(r)

Spec == Init /\ [][Next]_vars

-----------------------------------------------------------------------------
(* Properties.                                                             *)

\* A reader is never given a slot that is not written yet and never finds an
\* index out of range that it has just compared with Count, whatever writers do
\* meanwhile ("this list is thread-safe for reading", FindWithoutAdd).
ReadersAreSafe ==
  \A r \in Readers :
    /\ reader[r].pc # "thrown"
    /\ \A i \in 1..Len(seen[r]) : seen[r][i] # Null

\* The key of a type is the index that Add returned for it: it names that type
\* for ever, through every growth and Trim of the list (FindOrAddAuto, GetKey).
KeyIsIndex ==
  \A v \in Values : \A k \in returned[v] :
    k < head.length /\ Items(head)[k + 1] = v

\* The nodes and their shared arrays show as one list that only grows: what an
\* enumeration is over never changes, and what it returns is that list.
Log == INSTANCE AppendOnlyLog WITH
  log <- Items(head),
  view <- [r \in Readers |->
             IF reader[r].pc = "each" THEN Items(reader[r].node) ELSE <<>>]

ImplementsLog == Log!Spec
=============================================================================
