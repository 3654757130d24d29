--------------------------- MODULE BasicListProofs ---------------------------
(***************************************************************************)
(* Proofs about BasicList: for any number of readers and writers, values,  *)
(* and lengths, readers that take no lock are safe, keys keep their        *)
(* meaning, and the nodes implement AppendOnlyLog.                         *)
(*                                                                         *)
(* The argument is about who can see the slot that a writer stores in: it  *)
(* lies behind every node that is published in the same array, or in an    *)
(* array that no reader has yet.                                           *)
(***************************************************************************)
EXTENDS BasicList, SequenceTheorems, TLAPS

Slot == Values \union {Null}
Node == [data : Nat, length : Nat]

TypeInv ==
  /\ heap \in Seq(Seq(Slot))
  /\ head \in Node
  /\ writer \in [Writers ->
       [pc : {"idle", "store", "publish", "trimmed"}, node : Node]]
  /\ reader \in [Readers ->
       [pc : {"idle", "each", "count", "index", "thrown"}, node : Node]]
  /\ seen \in [Readers -> Seq(Values)]
  /\ returned \in [Values -> SUBSET Nat]

Fits(n, h) ==
  \/ n.data \in 1..Len(h) /\ n.length \in 1..Len(h[n.data])
  \/ n.data = 0 /\ n.length = 0

Written(n) ==
  Fits(n, heap) /\ \A i \in 1..n.length : heap[n.data][i] \in Values

ReaderInv ==
  \A r \in Readers :
    /\ Written(reader[r].node)
    /\ reader[r].node.data = head.data => reader[r].node.length <= head.length
    /\ reader[r].pc = "index" => Len(seen[r]) < head.length
    /\ reader[r].pc # "thrown"

WriterInv ==
  /\ \A w, u \in Writers : writer[w] # Idle /\ writer[u] # Idle => w = u
  /\ \A w \in Writers : writer[w] # Idle =>
       LET n == writer[w].node IN
       /\ n.data # 0 /\ Fits(n, heap)
       /\ \A i \in 1..head.length : heap[n.data][i] = heap[head.data][i]
       /\ n.data = head.data \/ \A r \in Readers : reader[r].node.data # n.data
       /\ writer[w].pc \in {"store", "publish"} => n.length = head.length + 1
       /\ writer[w].pc = "trimmed" => n.length = head.length
       /\ writer[w].pc = "publish" => heap[n.data][n.length] \in Values
       /\ writer[w].pc # "idle"

KeyInv ==
  \A v \in Values : \A k \in returned[v] :
    k < head.length /\ heap[head.data][k + 1] = v

Inv == TypeInv /\ Written(head) /\ ReaderInv /\ WriterInv /\ KeyInv

LEMMA InitInv == Init => Inv
<1> SUFFICES ASSUME Init PROVE Inv
  OBVIOUS
<1> USE DEF Init, nil, Idle
<1>1. TypeInv
  BY EmptySeq DEF TypeInv, Node
<1>2. Written(head) /\ ReaderInv /\ WriterInv /\ KeyInv
  BY DEF Written, Fits, ReaderInv, WriterInv, KeyInv
<1>3. QED
  BY <1>1, <1>2 DEF Inv

-----------------------------------------------------------------------------
(* What happens to the arrays.                                             *)

\* Copied is an array.
LEMMA CopiedIsArray ==
  ASSUME TypeInv, NEW n \in Node, Fits(n, heap), NEW length \in Nat
  PROVE  /\ Copied(n, length) \in Seq(Slot)
         /\ Len(Copied(n, length)) = length
         /\ \A i \in 1..length : i <= n.length =>
              Copied(n, length)[i] = heap[n.data][i]
<1> DEFINE e(i) == IF i <= n.length THEN heap[n.data][i] ELSE Null
<1>1. \A i \in 1..length : e(i) \in Slot
  <2> SUFFICES ASSUME NEW i \in 1..length, i <= n.length
               PROVE  heap[n.data][i] \in Slot
    BY DEF Slot
  <2>1. n.data \in 1..Len(heap) /\ n.length \in 1..Len(heap[n.data])
    BY DEF Fits, Node
  <2>2. heap[n.data] \in Seq(Slot)
    BY <2>1, ElementOfSeq DEF TypeInv
  <2>3. QED
    BY <2>1, <2>2, ElementOfSeq DEF Node
<1>2. Copied(n, length) \in [1..length -> Slot]
  BY <1>1 DEF Copied
<1>3. QED
  BY <1>2, SeqDef DEF Copied

\* A new array leaves the old ones as they are.
LEMMA AppendKeeps ==
  ASSUME TypeInv, NEW a \in Seq(Slot), heap' = Append(heap, a)
  PROVE  /\ heap' \in Seq(Seq(Slot))
         /\ Len(heap') = Len(heap) + 1 /\ heap'[Len(heap) + 1] = a
         /\ \A d \in 1..Len(heap) : heap'[d] = heap[d]
  BY DEF TypeInv

\* A node that is in the heap before an array is added is the same afterwards.
LEMMA OldNodes ==
  ASSUME TypeInv, NEW a \in Seq(Slot), heap' = Append(heap, a),
         NEW n \in Node, Fits(n, heap)
  PROVE  /\ Fits(n, heap') /\ n.data # Len(heap) + 1
         /\ \A i \in 1..n.length : heap'[n.data][i] = heap[n.data][i]
  BY AppendKeeps DEF TypeInv, Fits, Node

-----------------------------------------------------------------------------
(* The writers keep the invariant.                                         *)

LEMMA KeyKept ==
  ASSUME TypeInv, KeyInv, UNCHANGED <<head, returned>>,
         \A i \in 1..head.length : heap'[head.data][i] = heap[head.data][i]
  PROVE  KeyInv'
<1> SUFFICES ASSUME NEW v \in Values, NEW k \in returned[v]
             PROVE  k < head.length /\ heap'[head.data][k + 1] = v
  BY DEF KeyInv
<1>1. k \in Nat /\ head.length \in Nat
  BY DEF TypeInv, Node
<1>2. k < head.length /\ heap[head.data][k + 1] = v
  BY DEF KeyInv
<1>3. QED
  BY <1>1, <1>2

LEMMA StartAddInv ==
  ASSUME Inv, NEW w \in Writers, StartAdd(w)
  PROVE  Inv'
<1> USE ListAssumption DEF Inv
<1>1. \A u \in Writers : writer[u] = Idle
  BY DEF StartAdd, Locked
<1>2. CASE HasRoom /\ UNCHANGED heap /\ writer' = [writer EXCEPT ![w] =
             [pc |-> "store", node |->
               [data |-> head.data, length |-> head.length + 1]]]
  <2> UNCHANGED <<head, reader, seen, returned>>
    BY DEF StartAdd
  <2>1. TypeInv'
    BY <1>2 DEF TypeInv, Node
  <2>2. Written(head)' /\ ReaderInv' /\ KeyInv'
    BY <1>2 DEF Written, Fits, ReaderInv, KeyInv
  <2>3. WriterInv'
    <3>1. head.data \in 1..Len(heap) /\ head.length + 1 \in 1..Len(heap[head.data])
      <4>1. head.data \in 1..Len(heap) /\ heap[head.data] \in Seq(Slot)
        BY <1>2, ElementOfSeq DEF HasRoom, Written, Fits, TypeInv, Node
      <4>2. QED
        BY <1>2, <4>1, LenProperties DEF HasRoom, TypeInv, Node
    <3>2. head.data # 0
      BY <3>1
    <3> QED
      BY <1>1, <1>2, <3>1, <3>2 DEF WriterInv, Fits, Idle, TypeInv
  <2>4. QED
    BY <2>1, <2>2, <2>3
<1>3. CASE ~HasRoom /\ heap' = Append(heap, Longer) /\ writer' = [writer EXCEPT
             ![w] = [pc |-> "store", node |->
               [data |-> Len(heap) + 1, length |-> head.length + 1]]]
  <2> DEFINE n == [data |-> Len(heap) + 1, length |-> head.length + 1]
             size == IF head.data = 0 THEN InitialLength
                     ELSE 2 * Len(heap[head.data])
  <2> UNCHANGED <<head, reader, seen, returned>>
    BY DEF StartAdd
  <2>1. head \in Node /\ Fits(head, heap) /\ Len(heap) \in Nat
    BY DEF TypeInv, Written
  <2>2. size \in Nat /\ head.length + 1 \in 1..size
    <3>1. CASE head.data = 0
      BY <2>1, <3>1 DEF Fits, Node
    <3>2. CASE head.data # 0
      <4>1. heap[head.data] \in Seq(Slot) /\ head.length \in 1..Len(heap[head.data])
        BY <2>1, <3>2, ElementOfSeq DEF Fits, Node, TypeInv
      <4>2. QED
        BY <3>2, <4>1, LenProperties DEF Node
    <3>3. QED
      BY <3>1, <3>2
  <2>3. /\ Longer \in Seq(Slot) /\ Len(Longer) = size
        /\ \A i \in 1..head.length : Longer[i] = heap[head.data][i]
    <3>1. Longer = Copied(head, size)
      BY DEF Longer
    <3> HIDE DEF size
    <3>2. /\ Copied(head, size) \in Seq(Slot) /\ Len(Copied(head, size)) = size
          /\ \A i \in 1..size : i <= head.length =>
               Copied(head, size)[i] = heap[head.data][i]
      BY <2>1, <2>2, CopiedIsArray
    <3>3. \A i \in 1..head.length : i \in 1..size /\ i <= head.length
      BY <2>1, <2>2 DEF Node
    <3>4. QED
      BY <3>1, <3>2, <3>3
  <2>4. /\ heap' \in Seq(Seq(Slot)) /\ Len(heap') = Len(heap) + 1
        /\ heap'[Len(heap) + 1] = Longer
    BY <1>3, <2>3, AppendKeeps
  <2>5. ASSUME NEW m \in Node, Fits(m, heap)
        PROVE  /\ Fits(m, heap') /\ m.data # Len(heap) + 1
               /\ \A i \in 1..m.length : heap'[m.data][i] = heap[m.data][i]
    BY <1>3, <2>3, <2>5, OldNodes
  <2>6. \A r \in Readers : reader[r].node \in Node /\ Fits(reader[r].node, heap)
    BY DEF TypeInv, ReaderInv, Written
  <2>7. TypeInv'
    BY <1>3, <2>1, <2>4 DEF TypeInv, Node
  <2>8. Written(head)' /\ ReaderInv'
    BY <2>1, <2>5, <2>6 DEF Written, ReaderInv
  <2>9. KeyInv'
    BY <2>1, <2>5, KeyKept
  <2>10. WriterInv'
    <3>1. writer'[w].node = n /\ writer'[w].pc = "store"
          /\ \A u \in Writers : u # w => writer'[u] = Idle
      BY <1>1, <1>3 DEF TypeInv
    <3>2. n.data # 0 /\ Fits(n, heap')
      BY <2>1, <2>2, <2>3, <2>4 DEF Fits
    <3>3. \A i \in 1..head.length : heap'[n.data][i] = heap'[head.data][i]
      BY <2>1, <2>3, <2>4, <2>5
    <3>4. \A r \in Readers : reader[r].node.data # n.data
      BY <2>5, <2>6
    <3>5. QED
      BY <3>1, <3>2, <3>3, <3>4 DEF WriterInv, Idle
  <2>11. QED
    BY <2>7, <2>8, <2>9, <2>10
<1>4. QED
  BY <1>2, <1>3 DEF StartAdd

LEMMA StoreInv ==
  ASSUME Inv, NEW w \in Writers, Store(w)
  PROVE  Inv'
<1> USE ListAssumption DEF Inv
<1> DEFINE n == writer[w].node
<1>1. PICK v \in Values : heap' = [heap EXCEPT ![n.data][n.length] = v]
  BY DEF Store
<1>2. /\ writer' = [writer EXCEPT ![w] = [pc |-> "publish", node |-> n]]
      /\ UNCHANGED <<head, reader, seen, returned>> /\ writer[w].pc = "store"
  BY DEF Store
<1>3. writer[w] # Idle /\ n \in Node /\ n.data \in 1..Len(heap)
      /\ n.length \in 1..Len(heap[n.data]) /\ n.length = head.length + 1
  BY <1>2 DEF WriterInv, Fits, Idle, TypeInv
<1>4. heap[n.data] \in Seq(Slot) /\ v \in Slot
  BY <1>3, ElementOfSeq DEF TypeInv, Slot
<1>5. /\ Len(heap') = Len(heap) /\ heap' \in Seq(Seq(Slot))
      /\ \A d \in 1..Len(heap) : d # n.data => heap'[d] = heap[d]
      /\ heap'[n.data] = [heap[n.data] EXCEPT ![n.length] = v]
  <2>1. [heap[n.data] EXCEPT ![n.length] = v] \in Seq(Slot)
    BY <1>3, <1>4, ExceptSeq
  <2>2. heap' = [heap EXCEPT ![n.data] = [heap[n.data] EXCEPT ![n.length] = v]]
    BY <1>1
  <2> DEFINE a == [heap[n.data] EXCEPT ![n.length] = v]
  <2>3. a \in Seq(Slot) /\ heap \in Seq(Seq(Slot)) /\ heap' = [heap EXCEPT ![n.data] = a]
    BY <2>1, <2>2 DEF TypeInv
  <2> HIDE DEF a, n
  <2>4. /\ heap' \in Seq(Seq(Slot)) /\ Len(heap') = Len(heap)
        /\ \A j \in 1..Len(heap) : heap'[j] = IF j = n.data THEN a ELSE heap[j]
    BY <1>3, <2>3, ExceptSeq
  <2>5. QED
    BY <1>3, <2>4 DEF a
<1>6. /\ Len(heap'[n.data]) = Len(heap[n.data]) /\ heap'[n.data][n.length] = v
      /\ \A j \in 1..Len(heap[n.data]) : j # n.length =>
           heap'[n.data][j] = heap[n.data][j]
  BY <1>3, <1>4, <1>5, ExceptSeq
<1>7. ASSUME NEW m \in Node, Fits(m, heap), m.data = n.data => m.length < n.length
      PROVE  /\ Fits(m, heap')
             /\ \A i \in 1..m.length : heap'[m.data][i] = heap[m.data][i]
  <2>1. CASE m.data = n.data
    <3>1. m.length \in 1..Len(heap[n.data])
      BY <1>3, <1>7, <2>1 DEF Fits
    <3>2. Len(heap[n.data]) \in Nat
      BY <1>4, LenProperties
    <3>3. Fits(m, heap')
      BY <1>3, <1>5, <1>6, <2>1, <3>1 DEF Fits
    <3>4. \A i \in 1..m.length : i \in 1..Len(heap[n.data]) /\ i # n.length
      BY <1>3, <1>7, <2>1, <3>1, <3>2 DEF Node
    <3>5. QED
      BY <1>6, <2>1, <3>3, <3>4
  <2>2. CASE m.data # n.data /\ m.data # 0
    BY <1>5, <1>7, <2>2 DEF Fits
  <2>3. CASE m.data = 0
    BY <1>7, <2>3 DEF Fits, TypeInv
  <2>4. QED
    BY <2>1, <2>2, <2>3
<1>8. head \in Node /\ Fits(head, heap) /\ head.length < n.length
  BY <1>3 DEF TypeInv, Written, Node
<1>9. \A r \in Readers : /\ reader[r].node \in Node /\ Fits(reader[r].node, heap)
                         /\ reader[r].node.data = n.data =>
                              reader[r].node.length < n.length
  <2> TAKE r \in Readers
  <2>1. reader[r].node \in Node /\ Fits(reader[r].node, heap)
    BY DEF TypeInv, ReaderInv, Written
  <2>2. n.data = head.data \/ reader[r].node.data # n.data
    BY <1>3 DEF WriterInv
  <2>3. QED
    BY <1>3, <1>8, <2>1, <2>2 DEF ReaderInv, Node
<1>10. TypeInv'
  BY <1>2, <1>5 DEF TypeInv
<1>11. Written(head)' /\ ReaderInv'
  BY <1>2, <1>7, <1>8, <1>9 DEF Written, ReaderInv
<1>12. KeyInv'
  BY <1>2, <1>7, <1>8, KeyKept
<1>13. WriterInv'
  <2>1. \A u \in Writers : writer[u] # Idle => u = w
    BY <1>3 DEF WriterInv
  <2>2. writer'[w] = [pc |-> "publish", node |-> n]
        /\ \A u \in Writers : u # w => writer'[u] = writer[u]
    BY <1>2 DEF TypeInv
  <2>3. n.data # 0 /\ Fits(n, heap')
    BY <1>3, <1>5, <1>6 DEF Fits
  <2>4. \A i \in 1..head.length : heap'[n.data][i] = heap'[head.data][i]
    <3> TAKE i \in 1..head.length
    <3>1. heap[n.data][i] = heap[head.data][i]
      BY <1>3 DEF WriterInv
    <3>2. heap'[head.data][i] = heap[head.data][i]
      BY <1>7, <1>8
    <3>3. i \in 1..Len(heap[n.data]) /\ i # n.length
      BY <1>3, <1>4, <1>8, LenProperties DEF Node
    <3>4. QED
      BY <1>6, <3>1, <3>2, <3>3
  <2>5. n.data = head.data \/ \A r \in Readers : reader[r].node.data # n.data
    BY <1>3 DEF WriterInv
  <2>6. QED
    <3>1. \A u \in Writers : writer'[u] # Idle => u = w
      BY <2>1, <2>2
    <3>2. writer'[w].pc = "publish" /\ writer'[w].node = n
      BY <2>2
    <3>3. UNCHANGED <<head, reader>> /\ heap'[n.data][n.length] \in Values
      BY <1>2, <1>6
    <3>4. n.length = head.length + 1
      BY <1>3
    <3> HIDE DEF n
    <3>5. QED
      BY <2>3, <2>4, <2>5, <3>1, <3>2, <3>3, <3>4 DEF WriterInv
<1>14. QED
  BY <1>10, <1>11, <1>12, <1>13

LEMMA PublishAddInv ==
  ASSUME Inv, NEW w \in Writers, PublishAdd(w)
  PROVE  /\ Inv'
         /\ head'.length = head.length + 1
         /\ heap[head'.data][head'.length] \in Values
         /\ \A i \in 1..head.length : heap[head'.data][i] = heap[head.data][i]
<1> USE DEF Inv
<1> DEFINE n == writer[w].node
           v == heap[n.data][n.length]
<1>1. /\ head' = n /\ writer' = [writer EXCEPT ![w] = Idle]
      /\ returned' = [returned EXCEPT ![v] = @ \union {n.length - 1}]
      /\ UNCHANGED <<heap, reader, seen>> /\ writer[w].pc = "publish"
  BY DEF PublishAdd
<1>2. /\ n \in Node /\ n.data # 0 /\ Fits(n, heap) /\ v \in Values
      /\ n.length = head.length + 1 /\ writer[w] # Idle
      /\ \A i \in 1..head.length : heap[n.data][i] = heap[head.data][i]
      /\ n.data = head.data \/ \A r \in Readers : reader[r].node.data # n.data
  BY <1>1 DEF WriterInv, TypeInv, Idle
<1>3. head.length \in Nat /\ \A i \in 1..head.length : heap[head.data][i] \in Values
  BY DEF TypeInv, Node, Written
<1>4. TypeInv'
  BY <1>1, <1>2, <1>3 DEF TypeInv, Idle, nil, Node
<1>5. Written(head)'
  <2> SUFFICES ASSUME NEW i \in 1..n.length PROVE heap[n.data][i] \in Values
    BY <1>1, <1>2 DEF Written
  <2>1. i \in 1..head.length \/ i = n.length
    BY <1>2, <1>3
  <2>2. QED
    BY <1>2, <1>3, <2>1
<1>6. ReaderInv'
  <2> SUFFICES ASSUME NEW r \in Readers, reader[r].node.data = n.data
               PROVE  reader[r].node.length <= n.length
    BY <1>1, <1>2, <1>3, LenProperties DEF ReaderInv, Written, TypeInv
  <2>1. reader[r].node.length <= head.length
    BY <1>2 DEF ReaderInv
  <2>2. QED
    BY <1>2, <1>3, <2>1 DEF TypeInv, Node
<1>7. WriterInv'
  BY <1>1, <1>2 DEF WriterInv, TypeInv
<1>8. KeyInv'
  <2> SUFFICES ASSUME NEW x \in Values, NEW k \in returned'[x]
               PROVE  k < n.length /\ heap[n.data][k + 1] = x
    BY <1>1 DEF KeyInv
  <2>1. CASE k \in returned[x]
    <3>1. k \in Nat /\ k < head.length /\ heap[head.data][k + 1] = x
      BY <2>1 DEF TypeInv, KeyInv
    <3>2. QED
      BY <1>2, <1>3, <3>1
  <2>2. CASE k \notin returned[x]
    <3>1. x = v /\ k = n.length - 1
      BY <1>1, <2>2 DEF TypeInv
    <3>2. QED
      BY <1>2, <1>3, <3>1
  <2>3. QED
    BY <2>1, <2>2
<1>9. QED
  BY <1>1, <1>2, <1>4, <1>5, <1>6, <1>7, <1>8

LEMMA TrimInv ==
  ASSUME Inv, NEW w \in Writers, Trim(w)
  PROVE  Inv'
<1> USE ListAssumption DEF Inv
<1> DEFINE a == Copied(head, head.length)
<1>1. \A u \in Writers : writer[u] = Idle
  BY DEF Trim, Locked
<1>2. /\ ~IsTight /\ heap' = Append(heap, a)
      /\ writer' = [writer EXCEPT ![w] = [pc |-> "trimmed", node |->
           [data |-> Len(heap) + 1, length |-> head.length]]]
      /\ UNCHANGED <<head, reader, seen, returned>>
  BY DEF Trim
<1>3. head \in Node /\ Fits(head, heap) /\ Len(heap) \in Nat /\ head.length # 0
  BY <1>2 DEF TypeInv, Written, IsTight
<1>4. /\ a \in Seq(Slot) /\ Len(a) = head.length
      /\ \A i \in 1..head.length : a[i] = heap[head.data][i]
  <2>1. head.length \in Nat
    BY <1>3 DEF Node
  <2>2. /\ a \in Seq(Slot) /\ Len(a) = head.length
        /\ \A i \in 1..head.length : i <= head.length => a[i] = heap[head.data][i]
    BY <1>3, <2>1, CopiedIsArray
  <2>3. QED
    BY <2>1, <2>2
<1> HIDE DEF a
<1>5. /\ heap' \in Seq(Seq(Slot)) /\ Len(heap') = Len(heap) + 1
      /\ heap'[Len(heap) + 1] = a
  BY <1>2, <1>4, AppendKeeps
<1>6. ASSUME NEW m \in Node, Fits(m, heap)
      PROVE  /\ Fits(m, heap') /\ m.data # Len(heap) + 1
             /\ \A i \in 1..m.length : heap'[m.data][i] = heap[m.data][i]
  BY <1>2, <1>4, <1>6, OldNodes
<1>7. \A r \in Readers : reader[r].node \in Node /\ Fits(reader[r].node, heap)
  BY DEF TypeInv, ReaderInv, Written
<1>8. TypeInv'
  BY <1>2, <1>3, <1>5 DEF TypeInv, Node
<1>9. Written(head)' /\ ReaderInv'
  BY <1>2, <1>3, <1>6, <1>7 DEF Written, ReaderInv
<1>10. KeyInv'
  BY <1>2, <1>3, <1>6, KeyKept
<1>11. WriterInv'
  <2> DEFINE n == [data |-> Len(heap) + 1, length |-> head.length]
  <2>1. writer'[w].node = n /\ writer'[w].pc = "trimmed"
        /\ \A u \in Writers : u # w => writer'[u] = Idle
    BY <1>1, <1>2 DEF TypeInv
  <2>2. n.data # 0 /\ Fits(n, heap')
    BY <1>3, <1>4, <1>5 DEF Fits, Node
  <2>3. \A i \in 1..head.length : heap'[n.data][i] = heap'[head.data][i]
    BY <1>3, <1>4, <1>5, <1>6
  <2>4. \A r \in Readers : reader[r].node.data # n.data
    BY <1>6, <1>7
  <2>5. UNCHANGED <<head, reader>>
    BY <1>2
  <2> HIDE DEF n
  <2>6. n.length = head.length
    BY DEF n
  <2>7. QED
    BY <2>1, <2>2, <2>3, <2>4, <2>5, <2>6 DEF WriterInv, Idle
<1>12. QED
  BY <1>8, <1>9, <1>10, <1>11

LEMMA PublishTrimInv ==
  ASSUME Inv, NEW w \in Writers, PublishTrim(w)
  PROVE  /\ Inv'
         /\ head'.length = head.length
         /\ \A i \in 1..head.length : heap[head'.data][i] = heap[head.data][i]
<1> USE DEF Inv
<1> DEFINE n == writer[w].node
<1>1. /\ head' = n /\ writer' = [writer EXCEPT ![w] = Idle]
      /\ UNCHANGED <<heap, reader, seen, returned>> /\ writer[w].pc = "trimmed"
  BY DEF PublishTrim
<1>2. /\ n \in Node /\ n.data # 0 /\ Fits(n, heap)
      /\ n.length = head.length /\ writer[w] # Idle
      /\ \A i \in 1..head.length : heap[n.data][i] = heap[head.data][i]
      /\ n.data = head.data \/ \A r \in Readers : reader[r].node.data # n.data
  <2>1. writer[w] # Idle /\ n \in Node
    BY <1>1 DEF TypeInv, Idle
  <2>2. QED
    BY <1>1, <2>1 DEF WriterInv
<1>3. head.length \in Nat /\ \A i \in 1..head.length : heap[head.data][i] \in Values
  BY DEF TypeInv, Node, Written
<1>4. TypeInv'
  BY <1>1, <1>2 DEF TypeInv, Idle, nil, Node
<1>5. Written(head)'
  BY <1>1, <1>2, <1>3 DEF Written
<1>6. ReaderInv'
  BY <1>1, <1>2 DEF ReaderInv, Written
<1>7. WriterInv'
  BY <1>1, <1>2 DEF WriterInv, TypeInv
<1>8. KeyInv'
  <2> SUFFICES ASSUME NEW x \in Values, NEW k \in returned[x]
               PROVE  k < n.length /\ heap[n.data][k + 1] = x
    BY <1>1 DEF KeyInv
  <2>1. k \in Nat /\ k < head.length /\ heap[head.data][k + 1] = x
    BY DEF TypeInv, KeyInv
  <2>2. QED
    BY <1>2, <1>3, <2>1
<1>9. QED
  BY <1>1, <1>2, <1>4, <1>5, <1>6, <1>7, <1>8

-----------------------------------------------------------------------------
(* The readers keep the invariant.                                         *)

ReaderStep(r) ==
  GetEnumerator(r) \/ MoveNext(r) \/ StartWalk(r) \/ Count(r) \/ Index(r)

\* A slot that counts holds a value.
LEMMA GivenIsValue ==
  ASSUME TypeInv, NEW n \in Node, Written(n), NEW s \in Seq(Values),
         Len(s) < n.length
  PROVE  /\ heap[n.data][Len(s) + 1] \in Values
         /\ Append(s, heap[n.data][Len(s) + 1]) \in Seq(Values)
         /\ Len(Append(s, heap[n.data][Len(s) + 1])) = Len(s) + 1
<1>1. Len(s) + 1 \in 1..n.length
  BY LenProperties DEF Node
<1>2. heap[n.data][Len(s) + 1] \in Values
  BY <1>1 DEF Written
<1>3. QED
  BY <1>2

LEMMA ReaderStepInv ==
  ASSUME Inv, NEW r \in Readers, ReaderStep(r)
  PROVE  Inv'
<1> USE DEF Inv
<1>1. UNCHANGED <<heap, head, writer, returned>>
  BY DEF ReaderStep, GetEnumerator, MoveNext, StartWalk, Count, Index
<1>2. Written(nil) /\ nil \in Node /\ nil.length = 0 /\ nil.data = 0
  BY DEF nil, Written, Fits, Node
<1>3. SUFFICES /\ seen' \in [Readers -> Seq(Values)]
               /\ reader' \in [Readers ->
                    [pc : {"idle", "each", "count", "index", "thrown"},
                     node : Node]]
               /\ \A s \in Readers : s # r =>
                    reader'[s] = reader[s] /\ seen'[s] = seen[s]
               /\ reader'[r].node \in {nil, head, reader[r].node}
               /\ reader'[r].pc = "index" => Len(seen'[r]) < head.length
               /\ reader'[r].pc # "thrown"
  <2>1. TypeInv' /\ Written(head)' /\ KeyInv'
    BY <1>1, <1>3 DEF TypeInv, Written, KeyInv
  <2>2. ReaderInv'
    <3>1. head.length \in Nat
      BY DEF TypeInv, Node
    <3>2. QED
      BY <1>1, <1>2, <1>3, <3>1 DEF ReaderInv, Written
  <2>3. WriterInv'
    <3>1. \A w \in Writers : writer[w] # Idle => writer[w].node.data # 0
      BY DEF WriterInv
    <3>2. ASSUME NEW w \in Writers, writer[w] # Idle,
                 writer[w].node.data # head.data, NEW s \in Readers
          PROVE  reader'[s].node.data # writer[w].node.data
      <4>1. reader[s].node.data # writer[w].node.data
        BY <3>2 DEF WriterInv
      <4>2. QED
        BY <1>2, <1>3, <3>1, <3>2, <4>1
    <3>3. QED
      BY <1>1, <3>2 DEF WriterInv
  <2>4. QED
    BY <2>1, <2>2, <2>3
<1>4. head \in Node /\ seen[r] \in Seq(Values) /\ reader[r].node \in Node
  BY DEF TypeInv
<1>5. CASE GetEnumerator(r)
  BY <1>4, <1>5, EmptySeq DEF GetEnumerator, TypeInv
<1>6. CASE MoveNext(r)
  <2>1. CASE reader' = [reader EXCEPT ![r] = Idle] /\ UNCHANGED seen
    BY <1>2, <2>1 DEF Idle, TypeInv
  <2>2. CASE /\ Len(seen[r]) < reader[r].node.length
             /\ Give(r, reader[r].node) /\ UNCHANGED reader
    <3>1. seen'[r] \in Seq(Values)
      BY <1>4, <2>2, GivenIsValue DEF Give, TypeInv, ReaderInv
    <3>2. QED
      BY <1>6, <2>2, <3>1 DEF Give, TypeInv, MoveNext
  <2>3. QED
    BY <1>6, <2>1, <2>2 DEF MoveNext
<1>7. CASE StartWalk(r)
  BY <1>2, <1>7, EmptySeq DEF StartWalk, TypeInv
<1>8. CASE Count(r)
  <2>1. CASE Len(seen[r]) < head.length
    BY <1>2, <1>8, <2>1 DEF Count, TypeInv
  <2>2. CASE ~(Len(seen[r]) < head.length)
    BY <1>2, <1>8, <2>2 DEF Count, TypeInv, Idle
  <2>3. QED
    BY <2>1, <2>2
<1>9. CASE Index(r)
  <2>1. Len(seen[r]) < head.length /\ head.length \in Nat /\ Len(seen[r]) \in Nat
    BY <1>4, <1>9, LenProperties DEF Index, ReaderInv, TypeInv, Node
  <2>2. /\ Give(r, head)
        /\ reader' = [reader EXCEPT ![r] = [pc |-> "count", node |-> nil]]
    BY <1>9, <2>1 DEF Index
  <2>3. seen'[r] \in Seq(Values)
    BY <1>4, <2>1, <2>2, GivenIsValue DEF Give, TypeInv
  <2>4. QED
    BY <1>2, <2>2, <2>3 DEF Give, TypeInv
<1>10. QED
  BY <1>5, <1>6, <1>7, <1>8, <1>9 DEF ReaderStep

-----------------------------------------------------------------------------
(* The theorems.                                                           *)

LEMMA StepInv == Inv /\ [Next]_vars => Inv'
<1> SUFFICES ASSUME Inv, [Next]_vars PROVE Inv'
  OBVIOUS
<1>1. CASE UNCHANGED vars
  <2> USE <1>1 DEF vars, Inv
  <2>1. TypeInv'
    BY DEF TypeInv
  <2>2. Written(head)' /\ ReaderInv'
    BY DEF Written, Fits, ReaderInv
  <2>3. WriterInv'
    BY DEF WriterInv, Fits
  <2>4. KeyInv'
    BY DEF KeyInv
  <2>5. QED
    BY <2>1, <2>2, <2>3, <2>4
<1>2. ASSUME NEW w \in Writers, StartAdd(w) \/ Store(w) \/ PublishAdd(w)
                                \/ Trim(w) \/ PublishTrim(w)
      PROVE  Inv'
  BY <1>2, StartAddInv, StoreInv, PublishAddInv, TrimInv, PublishTrimInv
<1>3. ASSUME NEW r \in Readers, ReaderStep(r) PROVE Inv'
  BY <1>3, ReaderStepInv
<1>4. QED
  BY <1>1, <1>2, <1>3 DEF Next, ReaderStep

THEOREM Invariant == Spec => []Inv
BY InitInv, StepInv, PTL DEF Spec

\* A reader with no lock never meets an unwritten slot or an index out of
\* range, for any number of readers and writers (FindWithoutAdd, IndexOf).
THEOREM ReadersSafe == Spec => []ReadersAreSafe
<1>1. Inv => ReadersAreSafe
  BY ElementOfSeq, ListAssumption DEF Inv, TypeInv, ReaderInv, ReadersAreSafe
<1>2. QED
  BY <1>1, Invariant, PTL

\* The index that Add returned names the same value for ever (GetKey).
THEOREM KeysNameTheirValues == Spec => []KeyIsIndex
<1>1. Inv => KeyIsIndex
  <2> SUFFICES ASSUME Inv, NEW v \in Values, NEW k \in returned[v]
               PROVE  k < head.length /\ Items(head)[k + 1] = v
    BY DEF KeyIsIndex
  <2>1. k \in Nat /\ head.length \in Nat
    BY DEF Inv, TypeInv, Node
  <2>2. QED
    BY <2>1 DEF Inv, KeyInv, Items
<1>2. QED
  BY <1>1, Invariant, PTL

-----------------------------------------------------------------------------
(* The refinement.                                                         *)

LEMMA ItemsIsSeq ==
  ASSUME NEW n \in Node, Written(n)
  PROVE  /\ Items(n) \in Seq(Values) /\ Len(Items(n)) = n.length
         /\ \A i \in 1..n.length : Items(n)[i] = heap[n.data][i]
<1>1. Items(n) \in [1..n.length -> Values]
  BY DEF Items, Written
<1>2. QED
  BY <1>1, SeqDef DEF Items, Node

\* A published node shows the same items before and after a step.
LEMMA ItemsKept ==
  ASSUME Inv, [Next]_vars, NEW n \in Node, Written(n),
         n.data = head.data => n.length <= head.length,
         \A w \in Writers : writer[w] # Idle =>
           n.data = head.data \/ n.data # writer[w].node.data
  PROVE  \A i \in 1..n.length : heap'[n.data][i] = heap[n.data][i]
<1> USE DEF Inv
<1>1. CASE UNCHANGED heap
  BY <1>1
<1>2. ASSUME NEW a \in Seq(Slot), heap' = Append(heap, a)
      PROVE  \A i \in 1..n.length : heap'[n.data][i] = heap[n.data][i]
  BY <1>2, OldNodes DEF Written
<1>3. ASSUME NEW w \in Writers, Store(w), NEW i \in 1..n.length
      PROVE  heap'[n.data][i] = heap[n.data][i]
  <2> DEFINE m == writer[w].node
  <2>1. PICK v \in Values : heap' = [heap EXCEPT ![m.data][m.length] = v]
    BY <1>3 DEF Store
  <2>2. writer[w] # Idle /\ m.length = head.length + 1 /\ head.length \in Nat
    BY <1>3 DEF Store, WriterInv, Idle, TypeInv, Node
  <2>3. n.data # m.data \/ i # m.length
    BY <2>2 DEF Node
  <2>4. n.data \in 1..Len(heap) /\ heap[n.data] \in Seq(Slot)
        /\ i \in 1..Len(heap[n.data])
    <3>1. n.data \in 1..Len(heap) /\ n.length \in 1..Len(heap[n.data])
      BY <1>3 DEF Written, Fits, Node
    <3>2. heap[n.data] \in Seq(Slot)
      BY <3>1, ElementOfSeq DEF TypeInv
    <3>3. QED
      BY <3>1, <3>2, LenProperties DEF Node
  <2>5. heap' = [heap EXCEPT ![m.data] = [heap[m.data] EXCEPT ![m.length] = v]]
    BY <2>1
  <2> HIDE DEF m
  <2>6. CASE n.data # m.data
    BY <2>4, <2>5, <2>6 DEF TypeInv
  <2>7. CASE n.data = m.data /\ i # m.length
    <3>1. heap'[n.data] = [heap[n.data] EXCEPT ![m.length] = v]
      BY <2>4, <2>5, <2>7 DEF TypeInv
    <3>2. QED
      BY <2>4, <2>7, <3>1
  <2>8. QED
    BY <2>3, <2>6, <2>7
<1>4. ASSUME NEW w \in Writers, StartAdd(w) \/ Trim(w)
      PROVE  UNCHANGED heap \/ \E a \in Seq(Slot) : heap' = Append(heap, a)
  <2>1. head \in Node /\ Fits(head, heap)
    BY DEF TypeInv, Written
  <2>2. CASE heap' = Append(heap, Copied(head, head.length))
    BY <2>1, <2>2, CopiedIsArray DEF Node
  <2>3. CASE heap' = Append(heap, Longer)
    <3> DEFINE size == IF head.data = 0 THEN InitialLength
                       ELSE 2 * Len(heap[head.data])
    <3>1. size \in Nat
      <4>1. head.data # 0 => heap[head.data] \in Seq(Slot)
        BY <2>1, ElementOfSeq DEF Fits, Node, TypeInv
      <4>2. QED
        BY <4>1, LenProperties, ListAssumption
    <3>2. Longer = Copied(head, size)
      BY DEF Longer
    <3> HIDE DEF size
    <3>3. Longer \in Seq(Slot)
      BY <2>1, <3>1, <3>2, CopiedIsArray
    <3>4. QED
      BY <2>3, <3>3
  <2>4. QED
    BY <1>4, <2>2, <2>3 DEF StartAdd, Trim
<1>5. QED
  BY <1>1, <1>2, <1>3, <1>4 DEF Next, vars, PublishAdd, PublishTrim, GetEnumerator,
     MoveNext, StartWalk, Count, Index

\* What each reader enumerates, as the refinement maps it.
View ==
  [r \in Readers |->
     IF reader[r].pc = "each" THEN Items(reader[r].node) ELSE <<>>]

\* An enumeration is over the same items after a step that is not its own.
LEMMA ViewsKept ==
  ASSUME Inv, [Next]_vars, NEW r \in Readers, reader'[r] = reader[r]
  PROVE  View'[r] = View[r]
<1> USE DEF Inv
<1> DEFINE n == reader[r].node
<1>1. /\ n \in Node /\ Written(n) /\ (n.data = head.data => n.length <= head.length)
      /\ \A w \in Writers : writer[w] # Idle =>
           n.data = head.data \/ n.data # writer[w].node.data
  BY DEF TypeInv, ReaderInv, WriterInv
<1>2. \A i \in 1..n.length : heap'[n.data][i] = heap[n.data][i]
  BY <1>1, ItemsKept
<1>3. [i \in 1..n.length |-> heap'[n.data][i]] = [i \in 1..n.length |-> heap[n.data][i]]
  BY <1>2
<1>4. QED
  BY <1>3 DEF View, Items

\* The list itself is the same after every step that publishes no item.
LEMMA LogKept ==
  ASSUME Inv, [Next]_vars,
         UNCHANGED head \/ \E w \in Writers : PublishTrim(w)
  PROVE  Items(head)' = Items(head)
<1> USE DEF Inv
<1>1. CASE UNCHANGED head
  <2>1. head \in Node /\ head.length <= head.length
    BY DEF TypeInv, Node
  <2>2. \A i \in 1..head.length : heap'[head.data][i] = heap[head.data][i]
    BY <2>1, ItemsKept
  <2>3. QED
    BY <1>1, <2>2 DEF Items
<1>2. ASSUME NEW w \in Writers, PublishTrim(w)
      PROVE  Items(head)' = Items(head)
  <2>1. /\ head'.length = head.length /\ UNCHANGED heap
        /\ \A i \in 1..head.length : heap[head'.data][i] = heap[head.data][i]
    BY <1>2, PublishTrimInv DEF PublishTrim
  <2>2. QED
    BY <2>1 DEF Items
<1>3. QED
  BY <1>1, <1>2

LEMMA PublishAddLog ==
  ASSUME Inv, [Next]_vars, NEW w \in Writers, PublishAdd(w)
  PROVE  \E v \in Values : Log!Add(v)
<1> USE DEF Inv
<1> DEFINE n == writer[w].node
           v == heap[n.data][n.length]
<1>1. /\ head' = n /\ UNCHANGED <<heap, reader, seen>>
      /\ returned' = [returned EXCEPT ![v] = @ \union {n.length - 1}]
  BY DEF PublishAdd
<1>2. /\ Inv' /\ n.length = head.length + 1 /\ v \in Values
      /\ \A i \in 1..head.length : heap[n.data][i] = heap[head.data][i]
  BY <1>1, PublishAddInv
<1>3. /\ Items(head) \in Seq(Values) /\ Len(Items(head)) = head.length
      /\ \A i \in 1..head.length : Items(head)[i] = heap[head.data][i]
  BY ItemsIsSeq DEF TypeInv
<1>4. head.length \in Nat
  BY DEF TypeInv, Node
<1>5. Items(head)' = Append(Items(head), v)
  <2>1. n \in Node /\ Written(n) /\ Items(head)' = Items(n)
    BY <1>1, <1>2 DEF TypeInv, Written, Items
  <2>2. /\ Items(n) \in Seq(Values) /\ Len(Items(n)) = head.length + 1
        /\ \A i \in 1..head.length + 1 : Items(n)[i] = heap[n.data][i]
    BY <1>2, <2>1, ItemsIsSeq
  <2> DEFINE s == Items(head)
             t == Items(n)
  <2>3. ASSUME NEW i \in 1..head.length PROVE t[i] = s[i]
    <3>1. i \in 1..head.length + 1
      BY <1>4
    <3>2. t[i] = heap[n.data][i] /\ s[i] = heap[head.data][i]
      BY <1>3, <2>2, <3>1
    <3>3. QED
      BY <1>2, <3>2
  <2>4. t[head.length + 1] = v
    BY <1>2, <1>4, <2>2
  <2>5. s \in Seq(Values) /\ t \in Seq(Values) /\ v \in Values
        /\ Len(s) = head.length /\ Len(t) = head.length + 1
    BY <1>2, <1>3, <2>2
  <2> HIDE DEF s, t, v
  <2>6. /\ Append(s, v) \in Seq(Values) /\ Len(Append(s, v)) = Len(s) + 1
        /\ Append(s, v)[Len(s) + 1] = v
        /\ \A i \in 1..Len(s) : Append(s, v)[i] = s[i]
    BY <2>5, AppendProperties
  <2>7. \A i \in 1..Len(t) : t[i] = Append(s, v)[i]
    BY <1>4, <2>3, <2>4, <2>5, <2>6
  <2>8. t = Append(s, v)
    BY <2>5, <2>6, <2>7, SeqEqual
  <2>9. QED
    BY <2>1, <2>8 DEF s, t
<1>6. returned' = [returned EXCEPT ![v] = @ \union {Len(Items(head))}]
  <2>1. n.length - 1 = Len(Items(head))
    BY <1>2, <1>3, <1>4
  <2>2. QED
    BY <1>1, <2>1
<1>7. View' = View
  BY <1>1 DEF View, Items
<1>8. Log!Add(v)
  BY <1>1, <1>5, <1>6, <1>7 DEF Log!Add, View
<1>9. QED
  BY <1>2, <1>8

LEMMA ReaderLog ==
  ASSUME Inv, [Next]_vars, NEW r \in Readers, ReaderStep(r)
  PROVE  [Log!Next]_(Log!vars)
<1> USE DEF Inv
<1>1. UNCHANGED <<heap, head, writer, returned>>
  BY DEF ReaderStep, GetEnumerator, MoveNext, StartWalk, Count, Index
<1>2. Items(head)' = Items(head)
  BY <1>1, LogKept
<1>3. /\ \A s \in Readers : s # r => reader'[s] = reader[s]
      /\ reader' \in [Readers ->
           [pc : {"idle", "each", "count", "index", "thrown"}, node : Node]]
  BY ReaderStepInv
     DEF ReaderStep, GetEnumerator, MoveNext, StartWalk, Count, Index, TypeInv
<1>4. \A s \in Readers : s # r => View'[s] = View[s]
  BY <1>3, ViewsKept
<1>5. /\ View = [s \in Readers |-> View[s]] /\ View' = [s \in Readers |-> View'[s]]
      /\ View[r] = IF reader[r].pc = "each" THEN Items(reader[r].node) ELSE <<>>
      /\ View'[r] = IF reader'[r].pc = "each" THEN Items(reader[r].node)' ELSE <<>>
  BY DEF View
<1>6. View' = [View EXCEPT ![r] = View'[r]]
  BY <1>4, <1>5
<1>7. CASE GetEnumerator(r)
  <2>1. View'[r] = Items(head) /\ seen' = [seen EXCEPT ![r] = <<>>]
    BY <1>1, <1>5, <1>7 DEF GetEnumerator, TypeInv, Items
  <2>2. Log!Enumerate(r)
    BY <1>1, <1>2, <1>6, <2>1 DEF Log!Enumerate, View
  <2>3. QED
    BY <2>2 DEF Log!Next
<1>8. CASE MoveNext(r)
  <2>1. CASE reader' = [reader EXCEPT ![r] = Idle] /\ UNCHANGED seen
    <3>1. View'[r] = <<>>
      BY <1>5, <2>1 DEF Idle, TypeInv
    <3>2. Log!Leave(r)
      BY <1>1, <1>2, <1>6, <2>1, <3>1 DEF Log!Leave, View
    <3>3. QED
      BY <3>2 DEF Log!Next
  <2>2. CASE /\ Len(seen[r]) < reader[r].node.length
             /\ Give(r, reader[r].node) /\ UNCHANGED reader
    <3> DEFINE n == reader[r].node
    <3>1. /\ n \in Node /\ Written(n) /\ reader[r].pc = "each"
          /\ Len(seen[r]) \in Nat /\ Len(seen[r]) < n.length
      BY <1>8, <2>2, LenProperties DEF TypeInv, ReaderInv, MoveNext
    <3>2. /\ View[r] = Items(n) /\ Len(Items(n)) = n.length
          /\ Items(n)[Len(seen[r]) + 1] = heap[n.data][Len(seen[r]) + 1]
      <4>1. Len(seen[r]) + 1 \in 1..n.length
        BY <3>1 DEF Node
      <4>2. QED
        BY <1>5, <3>1, <4>1, ItemsIsSeq
    <3>3. View' = View
      BY <1>1, <2>2 DEF View, Items
    <3>4. Len(seen[r]) < Len(View[r])
      BY <3>1, <3>2
    <3>5. seen' = [seen EXCEPT ![r] = Append(@, View[r][Len(@) + 1])]
      BY <2>2, <3>2 DEF Give
    <3>6. Log!MoveNext(r)
      BY <1>1, <1>2, <3>3, <3>4, <3>5 DEF Log!MoveNext, Log!Give, View
    <3>7. QED
      BY <3>6 DEF Log!Next
  <2>3. QED
    BY <1>8, <2>1, <2>2 DEF MoveNext
<1>9. CASE StartWalk(r)
  <2>1. View'[r] = <<>> /\ seen' = [seen EXCEPT ![r] = <<>>]
    BY <1>5, <1>9 DEF StartWalk, TypeInv
  <2>2. Log!Walk(r)
    BY <1>1, <1>2, <1>6, <2>1 DEF Log!Walk, View
  <2>3. QED
    BY <2>2 DEF Log!Next
<1>10. CASE Count(r)
  <2>1. View[r] = <<>> /\ UNCHANGED seen
    BY <1>5, <1>10 DEF Count
  <2>2. View'[r] = <<>>
    BY <1>5, <1>10 DEF Count, TypeInv, Idle
  <2>3. View' = View
    BY <1>5, <1>6, <2>1, <2>2
  <2>4. QED
    BY <1>1, <1>2, <2>1, <2>3 DEF Log!vars, View
<1>11. CASE Index(r)
  <2>1. /\ Give(r, head)
        /\ reader' = [reader EXCEPT ![r] = [pc |-> "count", node |-> nil]]
        /\ reader[r].pc = "index" /\ Len(seen[r]) < head.length
    BY <1>11, LenProperties DEF Index, ReaderInv, TypeInv, Node
  <2>2. View[r] = <<>> /\ View'[r] = <<>>
    BY <1>5, <2>1 DEF TypeInv
  <2>3. View' = View
    BY <1>5, <1>6, <2>2
  <2>4. Len(seen[r]) \in Nat /\ head \in Node
    BY LenProperties DEF TypeInv
  <2>5. /\ Len(Items(head)) = head.length
        /\ Items(head)[Len(seen[r]) + 1] = heap[head.data][Len(seen[r]) + 1]
    BY <2>1, <2>4, ItemsIsSeq DEF Node
  <2>6. Len(seen[r]) < Len(Items(head))
    BY <2>1, <2>5
  <2>7. seen' = [seen EXCEPT ![r] = Append(@, Items(head)[Len(@) + 1])]
    BY <2>1, <2>5 DEF Give
  <2>8. Log!Index(r)
    BY <1>1, <1>2, <2>2, <2>3, <2>6, <2>7 DEF Log!Index, Log!Give, View
  <2>9. QED
    BY <2>8 DEF Log!Next
<1>12. QED
  BY <1>7, <1>8, <1>9, <1>10, <1>11 DEF ReaderStep

\* Shared arrays, growth and trimming show to nobody: for any number of readers
\* and writers the list implements AppendOnlyLog.
THEOREM ListIsLog == Spec => ImplementsLog
<1>1. Init => Log!Init
  <2> SUFFICES ASSUME Init PROVE Log!Init
    OBVIOUS
  <2>1. Items(head) = <<>>
    BY DEF Init, Items, nil
  <2>2. [r \in Readers |-> IF reader[r].pc = "each" THEN Items(reader[r].node)
                           ELSE <<>>] = [r \in Readers |-> <<>>]
    BY DEF Init, Idle
  <2>3. QED
    BY <2>1, <2>2 DEF Init, Log!Init
<1>2. Inv /\ [Next]_vars => [Log!Next]_(Log!vars)
  <2> SUFFICES ASSUME Inv, [Next]_vars PROVE [Log!Next]_(Log!vars)
    OBVIOUS
  <2>1. ASSUME NEW w \in Writers, PublishAdd(w) PROVE [Log!Next]_(Log!vars)
    BY <2>1, PublishAddLog DEF Log!Next
  <2>2. ASSUME UNCHANGED <<reader, seen, returned>>,
               UNCHANGED head \/ \E w \in Writers : PublishTrim(w)
        PROVE  [Log!Next]_(Log!vars)
    <3>1. Items(head)' = Items(head)
      BY <2>2, LogKept
    <3>2. \A r \in Readers : View'[r] = View[r]
      BY <2>2, ViewsKept
    <3>3. View' = View
      BY <3>2 DEF View
    <3>4. QED
      BY <2>2, <3>1, <3>3 DEF Log!vars, View
  <2>3. ASSUME NEW w \in Writers, StartAdd(w) \/ Store(w) \/ Trim(w) \/ PublishTrim(w)
        PROVE  [Log!Next]_(Log!vars)
    BY <2>2, <2>3 DEF StartAdd, Store, Trim, PublishTrim
  <2>4. ASSUME NEW r \in Readers, ReaderStep(r) PROVE [Log!Next]_(Log!vars)
    BY <2>4, ReaderLog
  <2>5. CASE UNCHANGED vars
    BY <2>2, <2>5 DEF vars
  <2>6. QED
    BY <2>1, <2>3, <2>4, <2>5 DEF Next, ReaderStep
<1>3. QED
  BY <1>1, <1>2, Invariant, PTL DEF Spec, ImplementsLog, Log!Spec
=============================================================================
