------------------------------ MODULE ProtoWriter ------------------------------
(***************************************************************************)
(* A ProtoWriter (ProtoWriter.cs) between its constructor and its disposal *)
(* and the serializers that drive it.                                      *)
(*                                                                         *)
(* The length of a sub-item is not known when the sub-item starts, so the  *)
(* writer leaves room for it in its buffer and fills it in at the end; the *)
(* room may turn out too small, and then the body is moved.  Meanwhile the *)
(* buffer must not be flushed, and grows instead.                          *)
(***************************************************************************)
EXTENDS Wire, Integers, SequencesExt

CONSTANTS
  Objects, NoObject,   (* the instances being serialized, and null          *)
  BufferLength,        (* the length of a new ioBuffer                      *)
  ItemSpace,           (* 32 in the code: asked for when a sub-item starts  *)
  CopySpace,           (* 128 in the code: asked for when copying a stream  *)
  RecursionCheckDepth, (* 25 in the code                                    *)
  MaxDepth             (* BOUND: nested sub-items                           *)

ASSUME WriterAssumption ==
  /\ NoObject \notin Objects
  /\ BufferLength \in Nat \ {0}
  /\ ItemSpace \in Nat /\ ItemSpace >= 1 /\ ItemSpace >= FixedLength
  /\ CopySpace \in Nat \ {0}
  /\ RecursionCheckDepth \in Nat
  /\ MaxDepth \in Nat

VARIABLES
  io,                (* ioBuffer[0 .. ioIndex), its length, position, dest  *)
  wireType,          (* of the value that must come next, or "None"         *)
  fieldNumber,
  packedFieldNumber, (* 0 when not packing                                  *)
  depth,
  flushLock,
  recursionStack,
  tokens,            (* the SubItemTokens that the callers hold             *)
  copying,           (* where CopyRawFromStream is, or "no"                 *)
  source,            (* what is left of the stream that it copies           *)
  status             (* "open", "closed", or "disposed" after an exception  *)

copyVars == <<copying, source>>
vars == <<io, wireType, fieldNumber, packedFieldNumber, depth, flushLock,
          recursionStack, tokens, copyVars, status>>
itemVars == <<depth, flushLock, recursionStack, tokens>>

Styles == {"group", "base128", "fixed32"}

\* value: what the token says.  The rest is history: how the item is framed,
\* of which field, for which object, and where in the message its body begins.
Token == [value : Int, style : Styles, field : Fields \union {0},
          object : Objects \union {NoObject}, start : Nat]

Top == Last(tokens)
IsPrefixed(token) == token.style # "group"

\* The room that StartSubItem leaves for a length.
Room(style) == CASE style = "group" -> 0
                 [] style = "base128" -> 1
                 [] style = "fixed32" -> FixedLength

-----------------------------------------------------------------------------
(* The buffer.                                                             *)

\* Flush, when nothing is locked.
Flushed(b) == [b EXCEPT !.dest = @ \o b.buffer, !.buffer = <<>>]

\* The length that ResizeAndFlushLeft gives a buffer.
Longer(size, needed) == IF 2 * size < needed THEN needed ELSE 2 * size

Lacks(b, required) == b.size - Len(b.buffer) < required

Resized(b, required) ==
  IF Lacks(b, required)
  THEN [b EXCEPT !.size = Longer(b.size, Len(b.buffer) + required)] ELSE b

DemandSpace_flushes(b, required) ==
  Resized(IF Lacks(b, required) THEN Flushed(b) ELSE b, required)

DemandSpace(b, required) ==
  Resized(IF Lacks(b, required) /\ flushLock = 0 THEN Flushed(b) ELSE b, required)

\* Ask for space, then write.
Emit(b, required, cells) ==
  LET d == DemandSpace(b, required) IN
  [d EXCEPT !.buffer = @ \o cells, !.position = @ + Len(cells)]

\* Between two calls of the writer's methods.
Ready == status = "open" /\ copying = "no"
MayWrite(n) == Ready /\ io.position + n <= MaxCells

-----------------------------------------------------------------------------
(* Field headers and values.                                               *)

WriteFieldHeader(f, w) ==
  /\ MayWrite(1) /\ wireType = "None"
  /\ \/ packedFieldNumber = 0 /\ io' = Emit(io, VarintSpace, <<Header(f, w)>>)
     \/ packedFieldNumber = f /\ w \in ScalarTypes /\ UNCHANGED io
  /\ wireType' = w
  /\ fieldNumber' = f
  /\ UNCHANGED <<packedFieldNumber, itemVars, copyVars, status>>

\* IncrementedAndReset, or wireType = None.
Written == wireType' = "None"
           /\ UNCHANGED <<fieldNumber, packedFieldNumber, itemVars, copyVars, status>>

\* The varint writers ask for the most a varint takes.
WriteVariant(n) ==
  /\ MayWrite(n) /\ wireType = "Variant"
  /\ io' = Emit(io, VarintSpace, Bytes(n))
  /\ Written

WriteFixed ==
  /\ MayWrite(FixedLength) /\ wireType = "Fixed32"
  /\ io' = Emit(io, FixedLength, Bytes(FixedLength))
  /\ Written

WriteString(n) ==
  /\ MayWrite(n + Width(n)) /\ wireType = "String"
  /\ io' = LET prefixed == Emit(io, VarintSpace, Digits(n)) IN
           IF n = 0 THEN prefixed ELSE Emit(prefixed, n, Bytes(n))
  /\ Written

\* A blob longer than the buffer goes straight to the destination.
WriteBytes(n) ==
  /\ MayWrite(n + Width(n)) /\ wireType = "String" /\ n > 0
  /\ io' = LET prefixed == Emit(io, VarintSpace, Digits(n)) IN
           IF flushLock # 0 \/ n <= prefixed.size
           THEN Emit(prefixed, n, Bytes(n))
           ELSE [Flushed(prefixed) EXCEPT !.dest = @ \o Bytes(n),
                                          !.position = @ + n]
  /\ Written

-----------------------------------------------------------------------------
(* CopyRawFromStream.  A read returns some of what is left, at most as much *)
(* as there is room for, and nothing at the end of the source.             *)

Free == io.size - Len(io.buffer)

Copied(b, read) ==
  /\ io' = [b EXCEPT !.buffer = @ \o Bytes(read), !.position = @ + read]
  /\ source' = source - read
  /\ UNCHANGED copying

CopyTo(phase) == copying' = phase /\ UNCHANGED source

\* Extension data: whole fields, headers included.
AppendExtensionData(n) ==
  /\ MayWrite(n) /\ wireType = "None"
  /\ copying' = "fill" /\ source' = n
  /\ UNCHANGED <<io, wireType, fieldNumber, packedFieldNumber, itemVars, status>>

\* First the buffer is filled; if it is full then, also when the source has come
\* to its end with it, the rest bypasses it or, when locked, makes it grow.
FillBuffer ==
  /\ copying = "fill"
  /\ \/ \E read \in 1 .. source : read <= Free /\ Copied(io, read)
     \/ Free > 0 /\ source = 0 /\ CopyTo("no") /\ UNCHANGED io
     \/ Free = 0 /\ flushLock = 0 /\ CopyTo("send") /\ io' = Flushed(io)
     \/ Free = 0 /\ flushLock # 0 /\ CopyTo("grow") /\ UNCHANGED io

SendRest ==
  /\ copying = "send"
  /\ \/ \E read \in 1 .. source :
          /\ read <= io.size
          /\ io' = [io EXCEPT !.dest = @ \o Bytes(read), !.position = @ + read]
          /\ source' = source - read
          /\ UNCHANGED copying
     \/ source = 0 /\ CopyTo("no") /\ UNCHANGED io

GrowBuffer ==
  /\ copying = "grow"
  /\ LET d == DemandSpace(io, CopySpace) IN
     \/ \E read \in 1 .. source : read <= d.size - Len(d.buffer) /\ Copied(d, read)
     \/ source = 0 /\ CopyTo("no") /\ io' = d

Copy == /\ status = "open"
        /\ FillBuffer \/ SendRest \/ GrowBuffer
        /\ UNCHANGED <<wireType, fieldNumber, packedFieldNumber, itemVars, status>>

-----------------------------------------------------------------------------
(* Sub-items.                                                              *)

\* ++depth and CheckRecursionStackAndPush.
Repeated(o) == /\ depth + 1 > RecursionCheckDepth
               /\ o # NoObject
               /\ \E i \in DOMAIN recursionStack : recursionStack[i] = o
Push(o) ==
  /\ depth' = depth + 1
  /\ recursionStack' = IF depth + 1 > RecursionCheckDepth
                       THEN Append(recursionStack, o) ELSE recursionStack

Opened(o, style, value, start, f) ==
  tokens' = Append(tokens, [value |-> value, style |-> style, field |-> f,
                            object |-> o, start |-> start])

\* The token of a group is its field number, negative.
StartGroup(o) ==
  /\ MayWrite(1) /\ Len(tokens) < MaxDepth
  /\ wireType = "StartGroup" /\ packedFieldNumber = 0 /\ ~Repeated(o)
  /\ Push(o)
  /\ Opened(o, "group", -fieldNumber, io.position, fieldNumber)
  /\ wireType' = "None"
  /\ UNCHANGED <<io, fieldNumber, packedFieldNumber, flushLock, copyVars, status>>

\* The token of any other item is where in the buffer its length belongs.
Reserve(o, b, style, f) ==
  LET d == DemandSpace(b, ItemSpace) IN
  /\ io' = [d EXCEPT !.buffer = @ \o Holes(Room(style)),
                     !.position = @ + Room(style)]
  /\ Push(o)
  /\ Opened(o, style, Len(d.buffer), d.position + Room(style), f)
  /\ flushLock' = flushLock + 1
  /\ wireType' = "None"
  /\ UNCHANGED <<packedFieldNumber, copyVars, status>>

StartString(o) ==
  /\ MayWrite(1) /\ Len(tokens) < MaxDepth
  /\ wireType = "String" /\ packedFieldNumber = 0 /\ ~Repeated(o)
  /\ Reserve(o, io, "base128", fieldNumber)
  /\ UNCHANGED fieldNumber

\* WriteObject with a PrefixStyle: a message of its own, with or without a
\* header before its length.
StartPrefixed(o, style, f) ==
  /\ MayWrite(1 + Room(style)) /\ Len(tokens) < MaxDepth
  /\ tokens = <<>> /\ wireType = "None" /\ packedFieldNumber = 0 /\ ~Repeated(o)
  /\ style \in (IF f = 0 THEN {"base128", "fixed32"} ELSE {"base128"})
  /\ Reserve(o, IF f = 0 THEN io ELSE Emit(io, VarintSpace, <<Header(f, "String")>>),
             style, f)
  /\ fieldNumber' = f

\* SetPackedField, right after the sub-item of the field has been started.
SetPackedField ==
  /\ Ready /\ wireType = "None" /\ tokens # <<>>
  /\ Top.style = "base128" /\ Top.field # 0 /\ Top.start = io.position
  /\ packedFieldNumber' = Top.field
  /\ UNCHANGED <<io, wireType, fieldNumber, itemVars, copyVars, status>>

Ending_popsLate ==
  /\ Ready /\ wireType = "None" /\ tokens # <<>>
  /\ depth' = depth - 1
  /\ recursionStack' = IF depth - 1 > RecursionCheckDepth
                       THEN Front(recursionStack) ELSE recursionStack
  /\ packedFieldNumber' = 0
  /\ tokens' = Front(tokens)
  /\ UNCHANGED <<wireType, fieldNumber, copyVars, status>>

\* What every EndSubItem does; the group's and the prefix's parts follow.
Ending ==
  /\ Ready /\ wireType = "None" /\ tokens # <<>>
  /\ depth' = depth - 1
  /\ recursionStack' = IF depth > RecursionCheckDepth THEN Front(recursionStack)
                       ELSE recursionStack
  /\ packedFieldNumber' = 0
  /\ tokens' = Front(tokens)
  /\ UNCHANGED <<wireType, fieldNumber, copyVars, status>>

EndGroup_unlocks ==
  /\ Ending /\ MayWrite(1) /\ Top.value < 0
  /\ io' = Emit(io, VarintSpace, <<Header(-Top.value, "EndGroup")>>)
  /\ flushLock' = flushLock - 1

EndGroup ==
  /\ Ending /\ MayWrite(1) /\ Top.value < 0
  /\ io' = Emit(io, VarintSpace, <<Header(-Top.value, "EndGroup")>>)
  /\ UNCHANGED flushLock

EndFixed_unsized ==
  LET v == Top.value
      len == Len(io.buffer) - v
  IN
  /\ Ending /\ Top.value >= 0 /\ Top.style = "fixed32"
  /\ io' = [io EXCEPT !.buffer = SubSeq(@, 1, v) \o Fixed(len)
              \o SubSeq(@, v + FixedLength + 1, Len(@))]
  /\ flushLock' = flushLock - 1

EndFixed ==
  LET v == Top.value
      len == Len(io.buffer) - v - FixedLength
  IN
  /\ Ending /\ Top.value >= 0 /\ Top.style = "fixed32"
  /\ io' = [io EXCEPT !.buffer = SubSeq(@, 1, v) \o Fixed(len)
              \o SubSeq(@, v + FixedLength + 1, Len(@))]
  /\ flushLock' = flushLock - 1

EndString_uncounted ==
  LET v == Top.value
      len == Len(io.buffer) - v - 1
      offset == Width(len) - 1
      d == IF offset = 0 THEN io ELSE DemandSpace(io, offset)
  IN
  /\ Ending /\ Top.value >= 0 /\ Top.style = "base128"
  /\ MayWrite(offset)
  /\ io' = [d EXCEPT !.buffer = SubSeq(@, 1, v) \o Digits(len)
                                \o SubSeq(@, v + 2, v + 1 + len)]
  /\ flushLock' = flushLock - 1

\* One byte is left for the length: when it takes more, the body moves.
EndString ==
  LET v == Top.value
      len == Len(io.buffer) - v - 1
      offset == Width(len) - 1
      d == IF offset = 0 THEN io ELSE DemandSpace(io, offset)
  IN
  /\ Ending /\ Top.value >= 0 /\ Top.style = "base128"
  /\ MayWrite(offset)
  /\ io' = [d EXCEPT !.buffer = SubSeq(@, 1, v) \o Digits(len)
                                \o SubSeq(@, v + 2, v + 1 + len),
                     !.position = @ + offset]
  /\ flushLock' = flushLock - 1

-----------------------------------------------------------------------------
(* The end.                                                                *)

\* Some exception: a call out of order, an instance met again (Repeated), a
\* null string, a getter of the application, a source or a destination that
\* fails in the middle of a copy.  Every caller has the writer in a using block,
\* whose Dispose flushes what it can, if the destination takes it.
Dispose ==
  /\ status = "open"
  /\ \/ flushLock = 0 /\ io' = Flushed(io)
     \/ UNCHANGED io
  /\ status' = "disposed"
  /\ UNCHANGED <<wireType, fieldNumber, packedFieldNumber, itemVars, copyVars>>

Close_unchecked ==
  /\ Ready
  /\ io' = Flushed(io)
  /\ status' = "closed"
  /\ UNCHANGED <<wireType, fieldNumber, packedFieldNumber, itemVars, copyVars>>

\* Close refuses while an item is open.
Close ==
  /\ Ready /\ depth = 0 /\ flushLock = 0
  /\ io' = Flushed(io)
  /\ status' = "closed"
  /\ UNCHANGED <<wireType, fieldNumber, packedFieldNumber, itemVars, copyVars>>

-----------------------------------------------------------------------------
Init ==
  /\ io = [dest |-> <<>>, buffer |-> <<>>, size |-> BufferLength, position |-> 0]
  /\ wireType = "None"
  /\ fieldNumber = 0
  /\ packedFieldNumber = 0
  /\ depth = 0
  /\ flushLock = 0
  /\ recursionStack = <<>>
  /\ tokens = <<>>
  /\ copying = "no" /\ source = 0
  /\ status = "open"

WriteValue ==
  \/ \E f \in Fields, w \in ScalarTypes \union ItemTypes : WriteFieldHeader(f, w)
  \/ \E n \in 1 .. VarintSpace : WriteVariant(n)
  \/ WriteFixed
  \/ \E n \in 0 .. MaxCells : WriteString(n) \/ WriteBytes(n)
  \/ \E n \in 0 .. MaxCells : AppendExtensionData(n)
  \/ Copy

StartItem ==
  \E o \in Objects \union {NoObject} :
    \/ StartGroup(o) \/ StartString(o)
    \/ \E f \in Fields \union {0}, style \in Styles : StartPrefixed(o, style, f)

EndItem == EndGroup \/ EndFixed \/ EndString

Done == status # "open" /\ UNCHANGED vars

Next == \/ WriteValue \/ StartItem \/ SetPackedField \/ EndItem
        \/ Close \/ Dispose \/ Done

Spec == Init /\ [][Next]_vars

-----------------------------------------------------------------------------
(* Properties.                                                             *)

TypeOK ==
  /\ io \in [dest : Seq(Cells), buffer : Seq(Cells), size : Nat, position : Nat]
  /\ wireType \in ScalarTypes \union ItemTypes \union {"None"}
  /\ fieldNumber \in Fields \union {0}
  /\ packedFieldNumber \in Fields \union {0}
  /\ depth \in Nat
  /\ flushLock \in Nat
  /\ recursionStack \in Seq(Objects \union {NoObject})
  /\ tokens \in Seq(Token)
  /\ copying \in {"no", "fill", "send", "grow"}
  /\ source \in Nat
  /\ status \in {"open", "closed", "disposed"}

\* The buffer is never written beyond its end, whatever was asked for before
\* (DemandSpace), and the position counts each byte once, also those that
\* bypass the buffer and those that a longer length pushes in (EndSubItem).
BufferAccounts ==
  /\ Len(io.buffer) <= io.size
  /\ io.position = Len(io.dest) + Len(io.buffer)

\* The room for the length of each open item is still in the buffer, where the
\* item's token says, however the buffer was flushed, exchanged or shifted
\* since, and the flush lock counts those items (StartSubItem).
RoomIsKept ==
  /\ flushLock = Cardinality({i \in DOMAIN tokens : IsPrefixed(tokens[i])})
  /\ \A i \in DOMAIN tokens : IsPrefixed(tokens[i]) =>
       LET room == Room(tokens[i].style)
           v == tokens[i].value
       IN /\ v >= 0
          /\ Len(io.dest) + v + room = tokens[i].start
          /\ v + room <= Len(io.buffer)
          /\ \A j \in 1 .. room : io.buffer[v + j] = Hole

\* Below the check depth nothing is remembered, and beyond it exactly the open
\* instances: a cycle is found when it comes round once more, and an instance
\* that is met twice side by side is no cycle (CheckRecursionStackAndPush).
RecursionStackMatches ==
  /\ depth = Len(tokens)
  /\ recursionStack = [i \in 1 .. depth - RecursionCheckDepth |->
                         tokens[RecursionCheckDepth + i].object]
  /\ \A i, j \in DOMAIN recursionStack :
       recursionStack[i] = recursionStack[j] /\ recursionStack[i] # NoObject => i = j

\* A writer that was closed has delivered the message to its last byte, with
\* every length filled in.
ClosedIsComplete ==
  status = "closed" => /\ tokens = <<>> /\ io.buffer = <<>>
                       /\ io.position = Len(io.dest)
                       /\ \A i \in DOMAIN io.dest : io.dest[i] # Hole

-----------------------------------------------------------------------------
(* What the stream holds, cut where the open items begin.                  *)

Whole == io.dest \o io.buffer
Begin(k) == IF k = 0 THEN 0 ELSE tokens[k].start
End(k) == IF k = Len(tokens) THEN Len(Whole)
          ELSE tokens[k + 1].start - Room(tokens[k + 1].style)

\* How the open items are framed, and what each has so far.
Framings == [k \in DOMAIN tokens |->
               [style |-> tokens[k].style, field |-> tokens[k].field]]
Bodies == [k \in 1 .. Len(tokens) + 1 |-> SubSeq(Whole, Begin(k - 1) + 1, End(k - 1))]

Stream == INSTANCE WireStream WITH kinds <- Framings, bodies <- Bodies, sent <- io.dest

\* Flushing, growing, backfilling and shifting show in the destination only as
\* a message that gets longer, in which each item has the length of its body;
\* also when the writer is given up half way.
ImplementsStream == Stream!Spec
=============================================================================
