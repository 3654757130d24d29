--------------------------- MODULE BufferPoolProofs ---------------------------
(***************************************************************************)
(* Proofs about BufferPool: for any number of clients, arrays and slots,   *)
(* an array is in one place only and keeps its owner's bytes, and the pool *)
(* implements BufferLease.                                                 *)
(***************************************************************************)
EXTENDS BufferPool, TLAPS

\* Where a client is says which of its two references are set.
PhaseOK ==
  \A c \in Clients :
    /\ pc[c] \in {"idle", "get", "flush"} => buf[c] = NoArray
    /\ pc[c] = "have" => buf[c] # NoArray
    /\ pc[c] = "resize" <=> grown[c] # NoArray
    /\ buf[c] = grown[c] => buf[c] = NoArray
    /\ buffered[c] => pc[c] \in {"have", "resize"}

\* Exclusive, reference by reference.
Apart ==
  /\ \A c, d \in Clients : c # d =>
       /\ buf[c] # NoArray => buf[c] # buf[d] /\ buf[c] # grown[d]
       /\ grown[c] # NoArray => grown[c] # grown[d]
  /\ \A c \in Clients : \A i \in Slots : pool[i] # NoArray =>
       pool[i] # buf[c] /\ pool[i] # grown[c]
  /\ \A i, j \in Slots : pool[i] = pool[j] /\ pool[i] # NoArray => i = j

LEMMA ApartIsExclusive == Apart <=> Exclusive
<1>1. \A c, d \in Clients :
        Held(c) \intersect Held(d) = {} <=>
          /\ buf[c] # NoArray => buf[c] # buf[d] /\ buf[c] # grown[d]
          /\ grown[c] # NoArray => grown[c] # buf[d] /\ grown[c] # grown[d]
  BY DEF Held
<1>2. \A c \in Clients : \A i \in Slots :
        pool[i] \notin Held(c) <=>
          (pool[i] # NoArray => pool[i] # buf[c] /\ pool[i] # grown[c])
  BY DEF Held
<1>3. QED
  BY <1>1, <1>2 DEF Apart, Exclusive

Inv == TypeOK /\ Apart /\ PhaseOK /\ OwnBytes

LEMMA InitInv == Init => Inv
<1> SUFFICES ASSUME Init PROVE Inv
  OBVIOUS
<1>1. TypeOK
  BY PoolAssumption DEF Init, TypeOK, PC
<1>2. Apart /\ PhaseOK /\ OwnBytes
  BY DEF Init, Apart, PhaseOK, OwnBytes
<1>3. QED
  BY <1>1, <1>2 DEF Inv

-----------------------------------------------------------------------------
(* The actions that move an array.                                         *)

LEMMA GetSlotInv ==
  ASSUME Inv, NEW c \in Clients, GetSlot(c)
  PROVE  Inv'
<1> USE PoolAssumption DEF Inv
<1>1. CASE /\ pool[idx[c]] # NoArray
           /\ buf' = [buf EXCEPT ![c] = pool[idx[c]]]
           /\ pool' = [pool EXCEPT ![idx[c]] = NoArray]
           /\ EndScan(c, "have")
  <2>1. TypeOK'
    BY <1>1 DEF GetSlot, TypeOK, EndScan, PC, Slots, dataVars
  <2>2. Apart'
    BY <1>1 DEF GetSlot, TypeOK, Apart, PhaseOK, Slots
  <2>3. PhaseOK'
    BY <1>1 DEF GetSlot, TypeOK, PhaseOK, EndScan, dataVars
  <2>4. OwnBytes'
    BY <1>1 DEF GetSlot, TypeOK, PhaseOK, OwnBytes, Bytes, EndScan, dataVars
  <2>6. QED
    BY <2>1, <2>2, <2>3, <2>4
<1>2. CASE NextSlot(c) /\ UNCHANGED <<pool, buf>>
  <2>1. TypeOK'
    BY <1>2 DEF GetSlot, TypeOK, NextSlot, Slots, dataVars
  <2>2. QED
    BY <1>2, <2>1 DEF GetSlot, NextSlot, dataVars, Apart, PhaseOK,
                      OwnBytes, Bytes
<1>3. QED
  BY <1>1, <1>2 DEF GetSlot

LEMMA NewBufferInv ==
  ASSUME Inv, NEW c \in Clients, NewBuffer(c)
  PROVE  Inv'
<1> USE PoolAssumption DEF Inv
<1>1. PICK a \in Standard :
        /\ ~Reachable(a)
        /\ buf' = [buf EXCEPT ![c] = a]
        /\ content' = [content EXCEPT ![a] = Zero]
  BY DEF NewBuffer
<1>2. TypeOK'
  BY <1>1 DEF NewBuffer, TypeOK, EndScan, PC, Arrays
<1>3. Apart'
  BY <1>1 DEF NewBuffer, TypeOK, Apart, PhaseOK, Reachable
<1>4. PhaseOK'
  BY <1>1 DEF NewBuffer, TypeOK, PhaseOK, EndScan, Arrays
<1>5. OwnBytes'
  BY <1>1 DEF NewBuffer, TypeOK, PhaseOK, OwnBytes, Bytes, EndScan, Reachable
<1>7. QED
  BY <1>2, <1>3, <1>4, <1>5

LEMMA ResizeInv ==
  ASSUME Inv, NEW c \in Clients, Resize(c)
  PROVE  Inv'
<1> USE PoolAssumption DEF Inv
<1>1. PICK a \in Large :
        /\ ~Reachable(a)
        /\ grown' = [grown EXCEPT ![c] = a]
        /\ content' = [content EXCEPT ![a] =
             IF buffered[c] THEN content[buf[c]] ELSE Zero]
  BY DEF Resize
<1>2. TypeOK'
  BY <1>1 DEF Resize, TypeOK, PhaseOK, Scan, PC, Arrays
<1>3. Apart'
  BY <1>1 DEF Resize, TypeOK, Apart, PhaseOK, Reachable
<1>4. PhaseOK'
  BY <1>1 DEF Resize, TypeOK, PhaseOK, Scan, Arrays, Reachable
<1>5. OwnBytes'
  BY <1>1 DEF Resize, TypeOK, PhaseOK, OwnBytes, Bytes, Scan, Reachable, Arrays
<1>7. QED
  BY <1>2, <1>3, <1>4, <1>5

LEMMA ResizeDoneInv ==
  ASSUME Inv, NEW c \in Clients, ResizeDone(c)
  PROVE  Inv'
<1> USE PoolAssumption DEF Inv
<1>1. TypeOK'
  BY DEF ResizeDone, TypeOK, EndScan, PC, Arrays, dataVars
<1>2. Apart'
  BY DEF ResizeDone, TypeOK, Apart
<1>3. PhaseOK'
  BY DEF ResizeDone, TypeOK, PhaseOK, EndScan, dataVars
<1>4. OwnBytes'
  BY DEF ResizeDone, TypeOK, PhaseOK, OwnBytes, Bytes, EndScan, dataVars
<1>6. QED
  BY <1>1, <1>2, <1>3, <1>4

LEMMA PutSlotInv ==
  ASSUME Inv, NEW c \in Clients, PutSlot(c)
  PROVE  Inv'
<1> USE PoolAssumption DEF Inv
<1>1. CASE /\ pool[idx[c]] = NoArray
           /\ pool' = [pool EXCEPT ![idx[c]] = buf[c]]
           /\ buf' = [buf EXCEPT ![c] = NoArray]
           /\ UNCHANGED <<pc, idx>>
  <2>1. TypeOK'
    BY <1>1 DEF PutSlot, TypeOK, Slots, Arrays, dataVars
  <2>2. Apart'
    BY <1>1 DEF PutSlot, TypeOK, Apart, Arrays, PhaseOK
  <2>3. PhaseOK'
    BY <1>1 DEF PutSlot, TypeOK, PhaseOK, dataVars
  <2>4. OwnBytes'
    BY <1>1 DEF PutSlot, TypeOK, PhaseOK, OwnBytes, Bytes, dataVars
  <2>6. QED
    BY <2>1, <2>2, <2>3, <2>4
<1>2. CASE NextSlot(c) /\ UNCHANGED <<pool, buf>>
  <2>1. TypeOK'
    BY <1>2 DEF PutSlot, TypeOK, NextSlot, Slots, dataVars
  <2>2. QED
    BY <1>2, <2>1 DEF PutSlot, NextSlot, dataVars, Apart, PhaseOK,
                      OwnBytes, Bytes
<1>3. QED
  BY <1>1, <1>2 DEF PutSlot

\* Letting go of an array without putting it anywhere.
LEMMA DropInv ==
  ASSUME Inv, NEW c \in Clients, PutDrop(c) \/ Abandon(c)
  PROVE  Inv'
<1> USE PoolAssumption DEF Inv
<1>1. TypeOK'
  <2>1. CASE PutDrop(c)
    BY <2>1 DEF PutDrop, TypeOK, dataVars
  <2>2. CASE Abandon(c)
    BY <2>2 DEF Abandon, TypeOK, EndScan, PC
  <2>3. QED
    BY <2>1, <2>2
<1>2. Apart'
  BY DEF PutDrop, Abandon, TypeOK, Apart
<1>3. PhaseOK'
  BY DEF PutDrop, Abandon, TypeOK, PhaseOK, EndScan, dataVars
<1>4. OwnBytes'
  BY DEF PutDrop, Abandon, TypeOK, PhaseOK, OwnBytes, Bytes, EndScan, dataVars
<1>6. QED
  BY <1>1, <1>2, <1>3, <1>4

LEMMA FlushSlotInv ==
  ASSUME Inv, NEW c \in Clients, FlushSlot(c)
  PROVE  Inv'
<1> USE PoolAssumption DEF Inv
<1>1. TypeOK'
  BY DEF FlushSlot, TypeOK, NextSlot, Slots, dataVars
<1>2. Apart'
  BY DEF FlushSlot, TypeOK, Apart
<1>3. PhaseOK' /\ OwnBytes'
  BY DEF FlushSlot, TypeOK, PhaseOK, OwnBytes, Bytes, NextSlot, dataVars
<1>5. QED
  BY <1>1, <1>2, <1>3

-----------------------------------------------------------------------------
(* The actions that leave every array where it is.                         *)

LEMMA FillInv ==
  ASSUME Inv, NEW c \in Clients, Fill(c)
  PROVE  Inv'
<1> USE PoolAssumption DEF Inv
<1>1. TypeOK'
  BY DEF Fill, TypeOK
<1>2. Apart' /\ PhaseOK'
  BY DEF Fill, TypeOK, Apart, PhaseOK
<1>3. OwnBytes'
  <2>1. \A d \in Clients : d # c => buf[d] # buf[c] /\ grown[d] # buf[c]
    BY DEF Fill, Apart, PhaseOK
  <2>2. QED
    BY <2>1 DEF Fill, TypeOK, PhaseOK, OwnBytes, Bytes
<1>4. QED
  BY <1>1, <1>2, <1>3

LEMMA ScanInv ==
  ASSUME Inv, NEW c \in Clients,
         \/ GetBuffer(c) \/ Dispose(c) \/ DisposeUnread(c) \/ Flush(c)
         \/ PutNothing(c) \/ FlushDone(c) \/ Drain(c)
  PROVE  Inv'
<1> USE PoolAssumption DEF Inv
<1>1. TypeOK'
  <2>1. CASE GetBuffer(c) \/ Dispose(c) \/ Flush(c)
    BY <2>1 DEF GetBuffer, Dispose, Flush, TypeOK, Scan, PC, dataVars
  <2>2. CASE DisposeUnread(c)
    BY <2>2 DEF DisposeUnread, TypeOK, Scan, PC
  <2>3. CASE PutNothing(c) \/ FlushDone(c)
    BY <2>3 DEF PutNothing, FlushDone, TypeOK, EndScan, PC, dataVars
  <2>4. CASE Drain(c)
    BY <2>4 DEF Drain, TypeOK
  <2>5. QED
    BY <2>1, <2>2, <2>3, <2>4
<1>2. Apart'
  BY DEF GetBuffer, Dispose, DisposeUnread, Flush, PutNothing, FlushDone, Drain,
         Apart
<1>3. PhaseOK'
  BY DEF GetBuffer, Dispose, DisposeUnread, Flush, PutNothing, FlushDone, Drain,
         TypeOK, PhaseOK, Scan, EndScan, dataVars
<1>4. OwnBytes'
  BY DEF GetBuffer, Dispose, DisposeUnread, Flush, PutNothing, FlushDone, Drain,
         TypeOK, PhaseOK, OwnBytes, Bytes, Scan, EndScan, dataVars
<1>5. QED
  BY <1>1, <1>2, <1>3, <1>4

LEMMA NextInv == Inv /\ [Next]_vars => Inv'
<1> SUFFICES ASSUME Inv, [Next]_vars PROVE Inv'
  OBVIOUS
<1>1. ASSUME NEW c \in Clients, PoolStep(c) \/ ClientStep(c)
      PROVE  Inv'
  BY <1>1, GetSlotInv, NewBufferInv, ResizeInv, ResizeDoneInv, PutSlotInv,
     DropInv, FlushSlotInv, FillInv, ScanInv DEF PoolStep, ClientStep
<1>2. CASE UNCHANGED vars
  BY <1>2 DEF Inv, vars, TypeOK, Apart, PhaseOK, OwnBytes, Bytes
<1>3. QED
  BY <1>1, <1>2 DEF Next

LEMMA InvHolds == Spec => []Inv
<1>1. QED
  BY InitInv, NextInv, PTL DEF Spec

-----------------------------------------------------------------------------
(* The refinement: each step maps to a step of BufferLease or to a stutter.*)

LEMMA FreshIsFree ==
  ASSUME NEW a \in Arrays, ~Reachable(a)
  PROVE  Lease!Free(a)
BY DEF Held, Reachable, Lease!Free

LEMMA Stutters ==
  ASSUME \A d \in Clients : Held(d)' = Held(d) /\ Bytes(d)' = Bytes(d)
  PROVE  UNCHANGED Lease!vars
BY DEF Lease!vars

LEMMA Acquires ==
  ASSUME NEW c \in Clients, NEW a \in Arrays, Lease!Free(a),
         Held(c)' = Held(c) \union {a},
         \A d \in Clients : d # c => Held(d)' = Held(d),
         \A d \in Clients : Bytes(d)' = Bytes(d)
  PROVE  Lease!Next
<1>1. Lease!Acquire(c)
  BY DEF Lease!Acquire
<1>2. QED
  BY <1>1 DEF Lease!Next

LEMMA Releases ==
  ASSUME NEW c \in Clients, NEW a \in Held(c),
         Held(c)' = Held(c) \ {a},
         \A d \in Clients : d # c => Held(d)' = Held(d) /\ Bytes(d)' = Bytes(d),
         Bytes(c)' \in {Bytes(c), Zero}
  PROVE  Lease!Next
<1> DEFINE bytes == [d \in Clients |-> Bytes(d)]
<1>1. [d \in Clients |-> Bytes(d)'] \in {bytes, [bytes EXCEPT ![c] = Zero]}
  <2>1. CASE Bytes(c)' = Bytes(c)
    BY <2>1
  <2>2. CASE Bytes(c)' = Zero
    BY <2>2
  <2>3. QED
    BY <2>1, <2>2
<1>2. Lease!Release(c)
  BY <1>1 DEF Lease!Release
<1>3. QED
  BY <1>2 DEF Lease!Next

\* The bytes of one client change: it puts some in, or takes its own out.
LEMMA Moves ==
  ASSUME NEW c \in Clients,
         \A d \in Clients : Held(d)' = Held(d),
         \A d \in Clients : d # c => Bytes(d)' = Bytes(d),
         \/ Held(c) # {} /\ Bytes(c)' = c
         \/ Bytes(c) = c /\ Bytes(c)' = Zero
  PROVE  Lease!Next
<1>1. CASE Held(c) # {} /\ Bytes(c)' = c
  <2>1. Lease!Put(c)
    BY <1>1 DEF Lease!Put
  <2>2. QED
    BY <2>1 DEF Lease!Next
<1>2. CASE Bytes(c) = c /\ Bytes(c)' = Zero
  <2>1. Lease!Take(c)
    BY <1>2 DEF Lease!Take
  <2>2. QED
    BY <2>1 DEF Lease!Next
<1>3. QED
  BY <1>1, <1>2

LEMMA StepRefines ==
  ASSUME Inv, NEW c \in Clients, PoolStep(c) \/ ClientStep(c)
  PROVE  \/ Lease!Next
         \/ UNCHANGED Lease!vars
<1> USE PoolAssumption DEF Inv
<1>1. CASE GetSlot(c)
  <2> DEFINE a == pool[idx[c]]
  <2>1. CASE a # NoArray /\ buf' = [buf EXCEPT ![c] = a] /\ EndScan(c, "have")
    <3>1. a \in Arrays /\ Lease!Free(a)
      BY <1>1, <2>1 DEF GetSlot, TypeOK, Apart, Held, Lease!Free
    <3>2. Held(c)' = Held(c) \union {a}
      BY <1>1, <2>1 DEF GetSlot, TypeOK, PhaseOK, Held
    <3>3. \A d \in Clients : d # c => Held(d)' = Held(d)
      BY <1>1, <2>1 DEF GetSlot, TypeOK, Held
    <3>4. \A d \in Clients : Bytes(d)' = Bytes(d)
      BY <1>1, <2>1 DEF GetSlot, EndScan, TypeOK, PhaseOK, Bytes, dataVars
    <3>5. QED
      BY <3>1, <3>2, <3>3, <3>4, Acquires
  <2>2. CASE NextSlot(c) /\ UNCHANGED <<pool, buf>>
    BY <1>1, <2>2, Stutters DEF GetSlot, NextSlot, Held, Bytes, dataVars
  <2>3. QED
    BY <1>1, <2>1, <2>2 DEF GetSlot
<1>2. CASE NewBuffer(c)
  <2>1. PICK a \in Standard :
          /\ ~Reachable(a)
          /\ buf' = [buf EXCEPT ![c] = a]
          /\ content' = [content EXCEPT ![a] = Zero]
    BY <1>2 DEF NewBuffer
  <2>2. a \in Arrays /\ Lease!Free(a)
    BY <2>1, FreshIsFree DEF Arrays
  <2>3. Held(c)' = Held(c) \union {a}
    BY <1>2, <2>1, <2>2 DEF NewBuffer, TypeOK, PhaseOK, Held
  <2>4. \A d \in Clients : d # c => Held(d)' = Held(d)
    BY <1>2, <2>1 DEF NewBuffer, TypeOK, Held
  <2>5. \A d \in Clients : Bytes(d)' = Bytes(d)
    BY <1>2, <2>1
       DEF NewBuffer, EndScan, TypeOK, PhaseOK, Bytes, Reachable
  <2>6. QED
    BY <2>2, <2>3, <2>4, <2>5, Acquires
<1>3. CASE Resize(c)
  <2>1. PICK a \in Large :
          /\ ~Reachable(a)
          /\ grown' = [grown EXCEPT ![c] = a]
          /\ content' = [content EXCEPT ![a] =
               IF buffered[c] THEN content[buf[c]] ELSE Zero]
    BY <1>3 DEF Resize
  <2>2. a \in Arrays /\ Lease!Free(a)
    BY <2>1, FreshIsFree DEF Arrays
  <2>3. Held(c)' = Held(c) \union {a}
    BY <1>3, <2>1, <2>2 DEF Resize, TypeOK, PhaseOK, Held
  <2>4. \A d \in Clients : d # c => Held(d)' = Held(d)
    BY <1>3, <2>1 DEF Resize, TypeOK, Held
  <2>5. \A d \in Clients : Bytes(d)' = Bytes(d)
    BY <1>3, <2>1, <2>2
       DEF Resize, Scan, TypeOK, PhaseOK, Bytes, Reachable
  <2>6. QED
    BY <2>2, <2>3, <2>4, <2>5, Acquires
<1>4. CASE ResizeDone(c)
  <2>1. \A d \in Clients : Held(d)' = Held(d)
    BY <1>4 DEF ResizeDone, TypeOK, Held
  <2>2. \A d \in Clients : Bytes(d)' = Bytes(d)
    BY <1>4 DEF ResizeDone, EndScan, TypeOK, Bytes, dataVars
  <2>3. QED
    BY <2>1, <2>2, Stutters
<1>5. CASE PutSlot(c) \/ PutDrop(c)
  <2>1. CASE buf' = [buf EXCEPT ![c] = NoArray] /\ UNCHANGED pc
    <3>1. buf[c] \in Held(c)
      BY <1>5 DEF PutSlot, PutDrop, Held, Arrays
    <3>2. Held(c)' = Held(c) \ {buf[c]}
      BY <1>5, <2>1 DEF PutSlot, PutDrop, TypeOK, PhaseOK, Held
    <3>3. \A d \in Clients : d # c => Held(d)' = Held(d) /\ Bytes(d)' = Bytes(d)
      BY <1>5, <2>1 DEF PutSlot, PutDrop, TypeOK, Held, Bytes, dataVars
    <3>4. Bytes(c)' = Bytes(c)
      BY <1>5, <2>1 DEF PutSlot, PutDrop, PhaseOK, Bytes, dataVars
    <3>5. QED
      BY <3>1, <3>2, <3>3, <3>4, Releases
  <2>2. CASE NextSlot(c) /\ UNCHANGED <<pool, buf>>
    BY <1>5, <2>2, Stutters DEF PutSlot, PutDrop, NextSlot, Held, Bytes, dataVars
  <2>3. QED
    BY <1>5, <2>1, <2>2 DEF PutSlot, PutDrop
<1>6. CASE Abandon(c)
  <2>1. buf[c] \in Held(c)
    BY <1>6 DEF Abandon, PhaseOK, Held
  <2>2. Held(c)' = Held(c) \ {buf[c]}
    BY <1>6 DEF Abandon, TypeOK, PhaseOK, Held
  <2>3. \A d \in Clients : d # c => Held(d)' = Held(d) /\ Bytes(d)' = Bytes(d)
    BY <1>6 DEF Abandon, EndScan, TypeOK, Held, Bytes
  <2>4. Bytes(c)' = Zero
    BY <1>6 DEF Abandon, TypeOK, Bytes
  <2>5. QED
    BY <2>1, <2>2, <2>3, <2>4, Releases
<1>7. CASE Fill(c)
  <2>1. \A d \in Clients : Held(d)' = Held(d)
    BY <1>7 DEF Fill, Held
  <2>2. Held(c) # {} /\ Bytes(c)' = c
    BY <1>7 DEF Fill, TypeOK, PhaseOK, Held, Bytes
  <2>3. \A d \in Clients : d # c => Bytes(d)' = Bytes(d)
    BY <1>7 DEF Fill, TypeOK, PhaseOK, Apart, Bytes
  <2>4. QED
    BY <2>1, <2>2, <2>3, Moves
<1>8. CASE Drain(c) \/ DisposeUnread(c)
  <2>1. \A d \in Clients : Held(d)' = Held(d)
    BY <1>8 DEF Drain, DisposeUnread, Held
  <2>2. Bytes(c) = c /\ Bytes(c)' = Zero
    BY <1>8 DEF Drain, DisposeUnread, TypeOK, OwnBytes, Bytes
  <2>3. \A d \in Clients : d # c => Bytes(d)' = Bytes(d)
    BY <1>8 DEF Drain, DisposeUnread, Scan, TypeOK, Bytes
  <2>4. QED
    BY <2>1, <2>2, <2>3, Moves
<1>9. CASE \/ GetBuffer(c) \/ Dispose(c) \/ Flush(c) \/ PutNothing(c)
           \/ FlushSlot(c) \/ FlushDone(c)
  <2>1. \A d \in Clients : Held(d)' = Held(d)
    BY <1>9 DEF GetBuffer, Dispose, Flush, PutNothing, FlushSlot, FlushDone, Held
  <2>2. \A d \in Clients : Bytes(d)' = Bytes(d)
    BY <1>9 DEF GetBuffer, Dispose, Flush, PutNothing, FlushSlot, FlushDone,
                Scan, NextSlot, EndScan, TypeOK, PhaseOK, Bytes, dataVars
  <2>3. QED
    BY <2>1, <2>2, Stutters
<1>10. QED
  BY <1>1, <1>2, <1>3, <1>4, <1>5, <1>6, <1>7, <1>8, <1>9
     DEF PoolStep, ClientStep

-----------------------------------------------------------------------------
(* What it adds up to.                                                     *)

\* Every variable keeps its type; a resized buffer is always a longer one.
THEOREM TypeCorrect == Spec => []TypeOK
<1>1. Inv => TypeOK
  BY DEF Inv
<1>2. QED
  BY <1>1, InvHolds, PTL

\* However many readers, writers and flushes scan the pool at once, and with
\* any number of slots, no array is ever in two places.
THEOREM ArraysAreExclusive == Spec => []Exclusive
<1>1. Inv => Exclusive
  BY ApartIsExclusive DEF Inv
<1>2. QED
  BY <1>1, InvHolds, PTL

\* The bytes a client buffered are there when it takes them out.
THEOREM BytesAreOwn == Spec => []OwnBytes
<1>1. Inv => OwnBytes
  BY DEF Inv
<1>2. QED
  BY <1>1, InvHolds, PTL

\* The lock-free pool implements exclusive leases of arrays.
THEOREM PoolIsLease == Spec => ImplementsLease
<1>1. Init => Lease!Init
  <2> SUFFICES ASSUME Init PROVE Lease!Init
    OBVIOUS
  <2>1. \A c \in Clients : Held(c) = {} /\ Bytes(c) = Zero
    BY DEF Init, Held, Bytes
  <2>2. QED
    BY <2>1 DEF Lease!Init
<1>2. Inv /\ [Next]_vars => [Lease!Next]_Lease!vars
  <2> SUFFICES ASSUME Inv, [Next]_vars PROVE [Lease!Next]_Lease!vars
    OBVIOUS
  <2>1. CASE UNCHANGED vars
    <3>1. \A c \in Clients : Held(c)' = Held(c) /\ Bytes(c)' = Bytes(c)
      BY <2>1 DEF vars, Held, Bytes
    <3>2. QED
      BY <3>1, Stutters
  <2>2. ASSUME NEW c \in Clients, PoolStep(c) \/ ClientStep(c)
        PROVE  [Lease!Next]_Lease!vars
    BY <2>2, StepRefines
  <2>3. QED
    BY <2>1, <2>2 DEF Next
<1>3. QED
  BY <1>1, <1>2, InvHolds, PTL DEF Spec, ImplementsLease, Lease!Spec
=============================================================================
