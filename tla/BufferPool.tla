------------------------------ MODULE BufferPool ------------------------------
(***************************************************************************)
(* The static pool of byte arrays that every ProtoReader and ProtoWriter   *)
(* of the process shares (BufferPool.cs and its callers).                  *)
(*                                                                         *)
(* There is no lock: a slot is emptied by Interlocked.Exchange and filled  *)
(* by Interlocked.CompareExchange, one slot at a time, so the scans of two *)
(* threads interleave slot by slot.  A client is a reader or a writer; its *)
(* buf is the ioBuffer field, passed by reference to the pool.             *)
(***************************************************************************)
EXTENDS Naturals

CONSTANTS
  Clients,   (* the ProtoReaders and ProtoWriters alive on all threads      *)
  Standard,  (* arrays of BufferLength bytes                                *)
  Large,     (* longer arrays, made by ResizeAndFlushLeft                   *)
  NoArray,   (* null                                                        *)
  Zero,      (* the content of a new array                                  *)
  PoolSize

Arrays == Standard \union Large
Slots == 1 .. PoolSize

ASSUME PoolAssumption ==
  /\ Standard \intersect Large = {}
  /\ NoArray \notin Arrays
  /\ Zero \notin Clients
  /\ PoolSize \in Nat \ {0}

VARIABLES
  pool,     (* BufferPool.pool                                              *)
  pc,       (* the next step of each client                                 *)
  idx,      (* i of the loop a client is in                                 *)
  buf,      (* ioBuffer                                                     *)
  grown,    (* newBuffer of ResizeAndFlushLeft                              *)
  buffered, (* does ioBuffer hold bytes (ioIndex > 0, available > 0)?       *)
  content   (* who wrote the bytes of each array last                       *)

vars == <<pool, pc, idx, buf, grown, buffered, content>>
dataVars == <<buffered, content>>

PC == {"idle", "get", "have", "resize", "put", "flush"}

Reachable(a) ==
  \/ \E i \in Slots : pool[i] = a
  \/ \E c \in Clients : buf[c] = a \/ grown[c] = a

\* Enter the scan over the slots.
Scan(c, label) == /\ pc' = [pc EXCEPT ![c] = label]
                  /\ idx' = [idx EXCEPT ![c] = 1]
NextSlot(c) == idx' = [idx EXCEPT ![c] = @ + 1] /\ UNCHANGED pc
EndScan(c, label) == /\ pc' = [pc EXCEPT ![c] = label]
                     /\ idx' = [idx EXCEPT ![c] = 0]

-----------------------------------------------------------------------------
(* GetBuffer, called by the constructors and by ProtoReader.Seek.          *)

GetBuffer(c) ==
  /\ pc[c] = "idle"
  /\ Scan(c, "get")
  /\ UNCHANGED <<pool, buf, grown, dataVars>>

GetSlot_notExchanged(c) ==
  /\ pc[c] = "get" /\ idx[c] \in Slots
  /\ \/ /\ pool[idx[c]] # NoArray
        /\ buf' = [buf EXCEPT ![c] = pool[idx[c]]]
        /\ EndScan(c, "have")
     \/ pool[idx[c]] = NoArray /\ NextSlot(c) /\ UNCHANGED buf
  /\ UNCHANGED <<pool, grown, dataVars>>

GetSlot_wraps(c) ==
  /\ pc[c] = "get" /\ idx[c] \in Slots
  /\ \/ /\ pool[idx[c]] # NoArray
        /\ buf' = [buf EXCEPT ![c] = pool[idx[c]]]
        /\ pool' = [pool EXCEPT ![idx[c]] = NoArray]
        /\ EndScan(c, "have")
     \/ /\ pool[idx[c]] = NoArray
        /\ idx' = [idx EXCEPT ![c] = (@ % PoolSize) + 1]
        /\ UNCHANGED <<pc, pool, buf>>
  /\ UNCHANGED <<grown, dataVars>>

\* Interlocked.Exchange(ref pool[i], null).
GetSlot(c) ==
  /\ pc[c] = "get" /\ idx[c] \in Slots
  /\ \/ /\ pool[idx[c]] # NoArray
        /\ buf' = [buf EXCEPT ![c] = pool[idx[c]]]
        /\ pool' = [pool EXCEPT ![idx[c]] = NoArray]
        /\ EndScan(c, "have")
     \/ pool[idx[c]] = NoArray /\ NextSlot(c) /\ UNCHANGED <<pool, buf>>
  /\ UNCHANGED <<grown, dataVars>>

\* new byte[BufferLength] when every slot was empty.
NewBuffer(c) ==
  /\ pc[c] = "get" /\ idx[c] \notin Slots
  /\ \E a \in Standard :
       /\ ~Reachable(a)
       /\ buf' = [buf EXCEPT ![c] = a]
       /\ content' = [content EXCEPT ![a] = Zero]
  /\ EndScan(c, "have")
  /\ UNCHANGED <<pool, grown, buffered>>

-----------------------------------------------------------------------------
(* What a client does with its buffer: put bytes in (a Write method, or    *)
(* Ensure reading the stream), take them out (Flush, or a Read method).    *)

Fill(c) ==
  /\ pc[c] = "have"
  /\ content' = [content EXCEPT ![buf[c]] = c]
  /\ buffered' = [buffered EXCEPT ![c] = TRUE]
  /\ UNCHANGED <<pool, pc, idx, buf, grown>>

Drain(c) ==
  /\ pc[c] = "have" /\ buffered[c]
  /\ buffered' = [buffered EXCEPT ![c] = FALSE]
  /\ UNCHANGED <<pool, pc, idx, buf, grown, content>>

-----------------------------------------------------------------------------
(* ResizeAndFlushLeft, called by DemandSpace and by Ensure.                *)

Resize_sameLength(c) ==
  /\ pc[c] = "have"
  /\ \E a \in Standard :
       /\ ~Reachable(a)
       /\ grown' = [grown EXCEPT ![c] = a]
       /\ content' = [content EXCEPT ![a] =
            IF buffered[c] THEN content[buf[c]] ELSE Zero]
  /\ Scan(c, "resize")
  /\ UNCHANGED <<pool, buf, buffered>>

Resize_lateCopy(c) ==
  /\ pc[c] = "have"
  /\ \E a \in Large :
       /\ ~Reachable(a)
       /\ grown' = [grown EXCEPT ![c] = a]
       /\ content' = [content EXCEPT ![a] = Zero]
  /\ Scan(c, "resize")
  /\ UNCHANGED <<pool, buf, buffered>>

\* The longer array gets a copy of the buffered bytes before the old one is
\* released (a long one is dropped: PutDrop) and the field is set.
Resize(c) ==
  /\ pc[c] = "have"
  /\ \E a \in Large :
       /\ ~Reachable(a)
       /\ grown' = [grown EXCEPT ![c] = a]
       /\ content' = [content EXCEPT ![a] =
            IF buffered[c] THEN content[buf[c]] ELSE Zero]
  /\ Scan(c, "resize")
  /\ UNCHANGED <<pool, buf, buffered>>

\* `buffer = newBuffer`, once the release has set buffer to null.
ResizeDone(c) ==
  /\ pc[c] = "resize" /\ buf[c] = NoArray
  /\ buf' = [buf EXCEPT ![c] = grown[c]]
  /\ grown' = [grown EXCEPT ![c] = NoArray]
  /\ EndScan(c, "have")
  /\ UNCHANGED <<pool, dataVars>>

-----------------------------------------------------------------------------
(* ReleaseBufferToPool, called by Dispose, by Seek and by the resizing.    *)

\* Dispose; a writer has flushed first.  Nothing stops a second Dispose.
Dispose(c) ==
  /\ pc[c] \in {"idle", "have"} /\ ~buffered[c]
  /\ Scan(c, "put")
  /\ UNCHANGED <<pool, buf, grown, dataVars>>

\* A reader is disposed with bytes it never looked at.
DisposeUnread(c) ==
  /\ pc[c] = "have" /\ buffered[c]
  /\ buffered' = [buffered EXCEPT ![c] = FALSE]
  /\ Scan(c, "put")
  /\ UNCHANGED <<pool, buf, grown, content>>

\* The buffer is null already.
PutNothing(c) ==
  /\ pc[c] = "put" /\ buf[c] = NoArray
  /\ EndScan(c, "idle")
  /\ UNCHANGED <<pool, buf, grown, dataVars>>

PutSlot_keeps(c) ==
  /\ pc[c] \in {"put", "resize"} /\ idx[c] \in Slots
  /\ buf[c] \in Standard
  /\ \/ /\ pool[idx[c]] = NoArray
        /\ pool' = [pool EXCEPT ![idx[c]] = buf[c]]
        /\ EndScan(c, "have")
     \/ pool[idx[c]] # NoArray /\ NextSlot(c) /\ UNCHANGED pool
  /\ UNCHANGED <<buf, grown, dataVars>>

\* Interlocked.CompareExchange(ref pool[i], buffer, null), and the `buffer =
\* null` that follows the break: nobody else can see this client's field.
PutSlot(c) ==
  /\ pc[c] \in {"put", "resize"} /\ idx[c] \in Slots
  /\ buf[c] \in Standard
  /\ \/ /\ pool[idx[c]] = NoArray
        /\ pool' = [pool EXCEPT ![idx[c]] = buf[c]]
        /\ buf' = [buf EXCEPT ![c] = NoArray]
        /\ UNCHANGED <<pc, idx>>
     \/ pool[idx[c]] # NoArray /\ NextSlot(c) /\ UNCHANGED <<pool, buf>>
  /\ UNCHANGED <<grown, dataVars>>

\* No space, or an array the pool does not keep: drop it on the floor.
PutDrop(c) ==
  /\ pc[c] \in {"put", "resize"} /\ buf[c] # NoArray
  /\ idx[c] \notin Slots \/ buf[c] \notin Standard
  /\ buf' = [buf EXCEPT ![c] = NoArray]
  /\ UNCHANGED <<pool, pc, idx, grown, dataVars>>

\* The garbage collector takes a client that was never disposed, or whose
\* last Flush threw before the release.
Abandon(c) ==
  /\ pc[c] = "have"
  /\ buf' = [buf EXCEPT ![c] = NoArray]
  /\ buffered' = [buffered EXCEPT ![c] = FALSE]
  /\ EndScan(c, "idle")
  /\ UNCHANGED <<pool, grown, content>>

-----------------------------------------------------------------------------
(* Flush, called by Serializer.FlushPool: empties the slots one by one     *)
(* while others go on filling them.                                        *)

Flush(c) ==
  /\ pc[c] = "idle"
  /\ Scan(c, "flush")
  /\ UNCHANGED <<pool, buf, grown, dataVars>>

FlushSlot(c) ==
  /\ pc[c] = "flush" /\ idx[c] \in Slots
  /\ pool' = [pool EXCEPT ![idx[c]] = NoArray]
  /\ NextSlot(c)
  /\ UNCHANGED <<buf, grown, dataVars>>

FlushDone(c) ==
  /\ pc[c] = "flush" /\ idx[c] \notin Slots
  /\ EndScan(c, "idle")
  /\ UNCHANGED <<pool, buf, grown, dataVars>>

-----------------------------------------------------------------------------
Init ==
  /\ pool = [i \in Slots |-> NoArray]
  /\ pc = [c \in Clients |-> "idle"]
  /\ idx = [c \in Clients |-> 0]
  /\ buf = [c \in Clients |-> NoArray]
  /\ grown = [c \in Clients |-> NoArray]
  /\ buffered = [c \in Clients |-> FALSE]
  /\ content = [a \in Arrays |-> Zero]

\* A step inside a method of BufferPool, which runs to its end.
PoolStep(c) ==
  \/ GetSlot(c) \/ NewBuffer(c)
  \/ ResizeDone(c) \/ PutNothing(c) \/ PutSlot(c) \/ PutDrop(c)
  \/ FlushSlot(c) \/ FlushDone(c)

\* A step a reader, a writer or its user chooses to make.
ClientStep(c) ==
  \/ GetBuffer(c) \/ Fill(c) \/ Drain(c) \/ Resize(c)
  \/ Dispose(c) \/ DisposeUnread(c) \/ Abandon(c) \/ Flush(c)

Next == \E c \in Clients : PoolStep(c) \/ ClientStep(c)

Spec == Init /\ [][Next]_vars

FairSpec == Spec /\ \A c \in Clients : WF_vars(PoolStep(c))

-----------------------------------------------------------------------------
(* Properties.                                                             *)

TypeOK ==
  /\ pool \in [Slots -> Arrays \union {NoArray}]
  /\ pc \in [Clients -> PC]
  /\ idx \in [Clients -> 0 .. PoolSize + 1]
  /\ buf \in [Clients -> Arrays \union {NoArray}]
  /\ grown \in [Clients -> Large \union {NoArray}]
  /\ buffered \in [Clients -> BOOLEAN]
  /\ content \in [Arrays -> Clients \union {Zero}]

\* The arrays a client may touch.
Held(c) == {buf[c], grown[c]} \ {NoArray}

\* An array is in the hands of one client, or in one slot of the pool, and
\* never in two places, whatever the interleaving of the scans (GetBuffer,
\* ReleaseBufferToPool, Flush).
Exclusive ==
  /\ \A c, d \in Clients : c # d => Held(c) \intersect Held(d) = {}
  /\ \A c \in Clients : \A i \in Slots : pool[i] \notin Held(c)
  /\ \A i, j \in Slots : pool[i] = pool[j] /\ pool[i] # NoArray => i = j

\* Whose bytes a client would take out of its buffer, if there are any.
Bytes(c) ==
  IF ~buffered[c] THEN Zero
  ELSE IF pc[c] = "resize" THEN content[grown[c]] ELSE content[buf[c]]

\* What a reader takes out of its buffer is what it read from its own stream,
\* and what a writer flushes is what it wrote: no bytes of another client,
\* also when the buffer was exchanged for a longer one meanwhile.
OwnBytes == \A c \in Clients : buffered[c] => Bytes(c) = c

\* GetBuffer, ReleaseBufferToPool and Flush return after one scan, whatever
\* the other clients do: an empty or a full pool delays nobody.
PoolCallsReturn ==
  \A c \in Clients : pc[c] \in {"get", "resize", "put", "flush"} ~>
                     pc[c] \in {"idle", "have"}

Lease == INSTANCE BufferLease WITH
  Nothing <- Zero,
  held <- [c \in Clients |-> Held(c)],
  bytes <- [c \in Clients |-> Bytes(c)]

\* Every step of the pool gives a client an array nobody has, takes one back,
\* moves its own bytes, or changes nothing a client can see.
ImplementsLease == Lease!Spec
=============================================================================
