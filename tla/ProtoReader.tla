------------------------------ MODULE ProtoReader ------------------------------
(***************************************************************************)
(* A ProtoReader (ProtoReader.cs) and the serializers that drive it, over  *)
(* a stream that delivers its bytes in chunks of any length, possibly not  *)
(* all of them, possibly with other data behind them.                      *)
(*                                                                         *)
(* A serializer loops over ReadFieldHeader and for each field reads it,    *)
(* skips it, or appends it to the extension data of the object.  Groups    *)
(* are skipped and appended field by field, by recursion; a frame stands   *)
(* for each active call.                                                   *)
(***************************************************************************)
EXTENDS Wire, Integers, SequencesExt

CONSTANTS
  Messages,     (* what may be sent: records of cells and of fields          *)
  Following,    (* what may come behind a message of known length            *)
  BufferLength, (* the length of a new ioBuffer                              *)
  Lookahead     (* 10 in the code: asked for before a varint                 *)

-----------------------------------------------------------------------------
(* What a ProtoWriter sends: a message is cells, and a record of places    *)
(* for each field: its header is at start, its value from value to stop,   *)
(* the content of an item from body to end.                                *)

\* "value", "message", or the wire type of the elements of a packed field.
Kinds == {"value", "message"} \union ScalarTypes

FieldRecords == [kind : Kinds, parent : Nat, start : Nat, value : Nat, body : Nat,
                 end : Nat, stop : Nat]

\* An element of a packed field has no header of its own.
InPacked(m, f) == m.fields[f].parent # 0 /\ m.fields[m.fields[f].parent].kind \in ScalarTypes

Number(m, f) == m.cells[m.fields[f].value][2]
WireTypeOf(m, f) == IF InPacked(m, f) THEN m.fields[m.fields[f].parent].kind
                    ELSE m.cells[m.fields[f].value][3]

Continues(cell) == cell[1] = "digit" /\ cell[3]

\* Each value is as long as its wire type and its length say, and each group
\* ends with the number that it began with.  Lengths are written short; other
\* writers may pad a varint with zeros.
HasItsLength(m, f) ==
  LET r == m.fields[f]
      w == WireTypeOf(m, f)
  IN \/ /\ w = "Variant" /\ r.kind = "value"
        /\ \E k \in 1 .. VarintSpace :
             /\ r.stop = r.value + k
             /\ \A i \in 1 .. k :
                  m.cells[r.value + i] \in {<<"digit", d, i < k>> : d \in 0 .. Base - 1}
     \/ w = "Fixed32" /\ r.kind = "value" /\ r.stop = r.value + FixedLength
     \/ /\ w = "String"
        /\ \E n \in 0 .. MaxCells - 1 :
             LET from == r.value + Width(n) IN
             /\ r.stop = from + n
             /\ \A i \in 1 .. Width(n) : m.cells[r.value + i] = Digits(n)[i]
             /\ r.kind # "value" => r.body = from /\ r.end = r.stop
     \/ /\ w = "StartGroup" /\ r.kind = "message"
        /\ r.body = r.value /\ r.body <= r.end /\ r.stop = r.end + 1
        /\ m.cells[r.stop] = Header(Number(m, f), "EndGroup")

Framed(m, f) ==
  LET r == m.fields[f] IN
  /\ r.stop <= Len(m.cells)
  /\ IF InPacked(m, f) THEN r.value = r.start
     ELSE /\ r.value = r.start + 1
          /\ m.cells[r.value] \in {Header(n, w) : n \in Fields, w \in HeaderTypes}
  /\ HasItsLength(m, f)

\* The fields of an item follow each other from one place to another.
Tiled(m, p, from, to) ==
  LET own == {f \in DOMAIN m.fields : m.fields[f].parent = p}
  IN /\ \A f \in own : from <= m.fields[f].start /\ m.fields[f].stop <= to
     /\ {m.fields[f].start : f \in own} \union {to}
          = {m.fields[f].stop : f \in own} \union {from}
     /\ \A f, g \in own : \/ f = g
                          \/ m.fields[f].stop <= m.fields[g].start
                          \/ m.fields[g].stop <= m.fields[f].start

WellFramed(m) ==
  /\ m.fields \in Seq(FieldRecords)
  /\ \A f \in DOMAIN m.fields :
       LET r == m.fields[f] IN
       /\ r.parent # 0 => r.parent \in DOMAIN m.fields /\ m.fields[r.parent].kind # "value"
       /\ Framed(m, f)
       /\ r.kind # "value" => Tiled(m, f, r.body, r.end)
  /\ Tiled(m, 0, 0, Len(m.cells))

ASSUME ReaderAssumption ==
  /\ \A m \in Messages : /\ m.cells \in Seq(Cells) /\ Len(m.cells) <= MaxCells
                          /\ WellFramed(m)
  /\ Following \in Seq(Cells)
  /\ BufferLength \in Nat \ {0}
  /\ Lookahead \in Nat /\ Lookahead >= VarintSpace

VARIABLES
  source,      (* the stream, and how the reader was created                *)
  io,          (* the buffer, and how far the stream has been read          *)
  wireType,
  fieldNumber,
  blockEnd,
  frames,      (* the active calls that hold a SubItemToken or skip a group *)
  pc,          (* "header": between fields; "value": a header was read;     *)
               (* "bytes": in AppendBytes; "end": ReadFieldHeader gave 0    *)
  blob,        (* what AppendBytes has so far                               *)
  extension,   (* the last field appended to an extension object            *)
  status

vars == <<source, io, wireType, fieldNumber, blockEnd, frames, pc, blob,
          extension, status>>

Unbounded == MaxCells + 1  (* int.MaxValue in the code *)

\* What is done with a field; "packed": read, as an element of a packed field.
Modes == {"read", "packed", "skip", "copy"}
Mode == IF frames = <<>> THEN "read" ELSE Last(frames).mode
Token == IF frames = <<>> THEN 0 ELSE Last(frames).token

\* In a group that is skipped or copied, everything is.
May(how) == \/ Mode = how
            \/ Mode = "read" /\ how \in {"skip", "copy"}
            \/ Mode = "packed" /\ how = "read"

-----------------------------------------------------------------------------
(* The tree of the sender, to say what the serializer takes a field for    *)
(* and, in the properties, where the walk should be.                       *)

Tree == source.fields
OpenItem == IF frames = <<>> THEN 0 ELSE Last(frames).id

\* The field whose header has been read (0 if there is none: the reader is lost).
FieldWhere(test(_)) ==
  LET found == {f \in DOMAIN Tree : Tree[f].parent = OpenItem /\ test(Tree[f])} IN
  IF found = {} THEN 0 ELSE CHOOSE f \in found : TRUE

Current == CASE pc = "value" -> FieldWhere(LAMBDA r : r.value = io.position)
             [] pc = "bytes" -> FieldWhere(LAMBDA r : r.stop = io.position)
             [] OTHER -> 0

\* "value", "message", or the wire type of the elements of a packed field.
Kind == IF Current = 0 THEN "value" ELSE Tree[Current].kind

-----------------------------------------------------------------------------
(* The buffer: window is ioBuffer[ioIndex .. ioIndex + available).         *)

Longer(size, needed) == IF 2 * size < needed THEN needed ELSE 2 * size

Least(m, n) == IF m < n THEN m ELSE n
Left(b) == IF b.fetched < Len(source.cells) THEN Len(source.cells) - b.fetched ELSE 0

\* Make room: exchange the buffer for a longer one, or shift it to the left.
Shifted_offByOne(b, count) ==
  CASE count > b.size -> [b EXCEPT !.size = Longer(b.size, count), !.index = 0]
    [] count <= b.size /\ b.index + count > b.size + 1 -> [b EXCEPT !.index = 0]
    [] OTHER -> b

Shifted(b, count) ==
  CASE count > b.size -> [b EXCEPT !.size = Longer(b.size, count), !.index = 0]
    [] count <= b.size /\ b.index + count >= b.size -> [b EXCEPT !.index = 0]
    [] OTHER -> b

Took(b, n) == [b EXCEPT !.window = @ \o SubSeq(source.cells, b.fetched + 1, b.fetched + n),
                        !.fetched = @ + n,
                        !.remaining = IF source.fixed THEN @ - n ELSE @]

CanRead_unthrottled(b) == b.size - b.index - Len(b.window)

CanRead(b) ==
  LET space == b.size - b.index - Len(b.window) IN
  IF source.fixed THEN Least(space, b.remaining) ELSE space

\* Ensure: read on until there is enough, the buffer is full or the stream has
\* ended; a read gives one byte or more, up to what there is room for.
Ensured(b, count) ==
  LET s == Shifted(b, count)
      most == Least(CanRead(s), Left(s))
  IN {Took(s, n) : n \in Least(count - Len(b.window), most) .. most}

\* The buffer, filled up if it has less than that.
With(count) == IF Len(io.window) < count THEN Ensured(io, count) ELSE {io}

Consumed(b, n) == [b EXCEPT !.window = SubSeq(@, n + 1, Len(@)),
                            !.index = @ + n, !.position = @ + n]

-----------------------------------------------------------------------------
(* Varints.                                                                *)

\* A varint ends with the first byte that says so; none does if it is cut off.
VarintEnds(w) ==
  {k \in DOMAIN w : ~Continues(w[k]) /\ \A i \in 1 .. k - 1 : Continues(w[i])}
CutOff(w) == VarintEnds(w) = {}

\* What a writer makes of a varint that was read: no zeros at its end.
Shortest(w) ==
  LET n == Max({i \in DOMAIN w : i = 1 \/ w[i] \notin {<<"digit", 0, more>> : more \in BOOLEAN}})
  IN [i \in 1 .. n |-> IF i = n /\ Continues(w[i]) THEN <<"digit", w[i][2], FALSE>>
                       ELSE w[i]]

\* The length at the front of a String field, and the cells that it takes.
Lengths(w) ==
  {l \in [value : 0 .. MaxCells, cells : VarintEnds(w)] :
     /\ l.value < Power[l.cells]
     /\ \A i \in 1 .. l.cells : w[i][2] = (l.value \div Power[i - 1]) % Base}

-----------------------------------------------------------------------------
(* Outcomes.                                                               *)

\* An exception ends the whole deserialization; BufferExtension discards what
\* was appended.
Fail == /\ status' = "failed"
        /\ UNCHANGED <<source, io, wireType, fieldNumber, blockEnd, frames, pc,
                       blob, extension>>

\* The next field, or the end of the item, with the buffer as given.
Proceed(b, next) == /\ io' = b
                    /\ pc' = next
                    /\ UNCHANGED <<source, status>>

\* cells come into the extension object, which takes them when the outermost
\* field has been copied.
Copied(how, cells, from, to, whole) ==
  extension' = IF how # "copy" THEN extension
               ELSE [cells |-> (IF Mode = "copy" THEN extension.cells ELSE <<>>) \o cells,
                     from |-> IF Mode = "copy" THEN extension.from ELSE from,
                     to |-> to,
                     committed |-> whole /\ Mode # "copy"]

Reading(place) == status = "reading" /\ pc = place
Scalar(w) == w \in ScalarTypes

-----------------------------------------------------------------------------
(* Field headers.                                                          *)

\* The virtual end of the stream.
AtEnd == blockEnd <= io.position \/ wireType = "EndGroup"

ReadFieldHeader ==
  /\ Reading("header") /\ Mode # "packed"
  /\ \/ AtEnd /\ Proceed(io, "end") /\ UNCHANGED <<wireType, fieldNumber>>
     \/ /\ ~AtEnd
        /\ \E b \in With(Lookahead) :
             IF b.window = <<>>
             THEN Proceed(b, "end") /\ wireType' = "None" /\ fieldNumber' = 0
             ELSE LET cell == b.window[1] IN
                  IF cell[1] = "header"
                  THEN /\ Proceed(Consumed(b, 1), IF cell[3] = "EndGroup" THEN "end"
                                                  ELSE "value")
                       /\ wireType' = cell[3]
                       /\ fieldNumber' = cell[2]
                  ELSE Fail
  /\ UNCHANGED <<blockEnd, frames, blob, extension>>

\* A list looks whether its next element follows.
TryReadFieldHeader(f) ==
  /\ Reading("header") /\ Mode = "read" /\ ~AtEnd
  /\ \E b \in With(Lookahead) :
       IF b.window # <<>> /\ b.window[1] \in {Header(f, w) : w \in HeaderTypes \ {"EndGroup"}}
       THEN /\ Proceed(Consumed(b, 1), "value")
            /\ wireType' = b.window[1][3]
            /\ fieldNumber' = f
       ELSE Proceed(b, pc) /\ UNCHANGED <<wireType, fieldNumber>>
  /\ UNCHANGED <<blockEnd, frames, blob, extension>>

\* Its argument is the wire type of the elements, which is never EndGroup.
HasSubValue ==
  /\ Reading("header") /\ Mode = "packed"
  /\ IF blockEnd <= io.position THEN Proceed(io, "end") /\ UNCHANGED wireType
     ELSE Proceed(io, "value") /\ wireType' = Last(frames).packed
  /\ UNCHANGED <<fieldNumber, blockEnd, frames, blob, extension>>

-----------------------------------------------------------------------------
(* Values.                                                                 *)

\* Read, skip or append a varint or a value of fixed size.  What is appended is
\* the value that was read, written again: four bytes are four bytes, but a varint
\* loses its padding.
ReadScalar(how) ==
  /\ Reading("value") /\ Scalar(wireType) /\ May(how)
  /\ \E b \in With(IF wireType = "Variant" THEN Lookahead ELSE FixedLength) :
       LET ends == IF wireType = "Variant" THEN VarintEnds(b.window)
                   ELSE {FixedLength} \intersect DOMAIN b.window
           rewritten(w) == IF wireType = "Variant" THEN Shortest(w) ELSE w
       IN \/ ends = {} /\ Fail
          \/ \E n \in ends :
               /\ Proceed(Consumed(b, n), "header")
               /\ Copied(how, <<Header(fieldNumber, wireType)>>
                                \o rewritten(SubSeq(b.window, 1, n)),
                         io.position - 1, io.position + n, TRUE)
  /\ UNCHANGED <<wireType, fieldNumber, blockEnd, frames, blob>>

\* ReadString wants all of it in the buffer.
ReadString ==
  /\ Reading("value") /\ wireType = "String" /\ Mode = "read" /\ Kind = "value"
  /\ \E b \in With(Lookahead) :
       \/ CutOff(b.window) /\ Fail
       \/ \E l \in Lengths(b.window) :
            LET p == Consumed(b, l.cells) IN
            \E e \in IF Len(p.window) < l.value THEN Ensured(p, l.value) ELSE {p} :
              IF Len(e.window) < l.value THEN Fail
              ELSE Proceed(Consumed(e, l.value), "header")
  /\ UNCHANGED <<wireType, fieldNumber, blockEnd, frames, blob, extension>>

\* AppendBytes copies what the buffer has and refills it.
AppendBytes(how) ==
  /\ Reading("value") /\ wireType = "String" /\ May(how)
  /\ how \in {"read", "copy"} /\ (how = "read" => Kind = "value")
  /\ \E b \in With(Lookahead) :
       \/ CutOff(b.window) /\ Fail
       \/ \E l \in Lengths(b.window) :
            /\ Proceed([Consumed(b, l.cells) EXCEPT !.position = @ + l.value], "bytes")
            /\ blob' = [left |-> l.value, cells |-> <<>>, how |-> how,
                        from |-> io.position - 1]
            /\ wireType' = "None"
  /\ UNCHANGED <<fieldNumber, blockEnd, frames, extension>>

Drained == IF io.window = <<>> THEN io ELSE [io EXCEPT !.window = <<>>, !.index = 0]

RefillBytes_lenient ==
  /\ Reading("bytes") /\ blob.left > Len(io.window)
  /\ \E b \in Ensured(Drained, Least(blob.left - Len(io.window), io.size)) :
       /\ Proceed(b, pc)
       /\ blob' = [blob EXCEPT !.cells = @ \o io.window, !.left = @ - Len(io.window)]
  /\ UNCHANGED <<wireType, fieldNumber, blockEnd, frames, extension>>

RefillBytes ==
  /\ Reading("bytes") /\ blob.left > Len(io.window)
  /\ LET rest == blob.left - Len(io.window)
         count == Least(rest, io.size)
     IN \E b \in Ensured(Drained, count) :
          IF Len(b.window) < count THEN Fail
          ELSE /\ Proceed(b, pc)
               /\ blob' = [blob EXCEPT !.cells = @ \o io.window, !.left = rest]
  /\ UNCHANGED <<wireType, fieldNumber, blockEnd, frames, extension>>

EndBytes_overwrites ==
  LET all == SubSeq(io.window, 1, blob.left) IN
  /\ Reading("bytes") /\ blob.left <= Len(io.window)
  /\ Proceed([io EXCEPT !.window = SubSeq(@, blob.left + 1, Len(@)),
                        !.index = @ + blob.left], "header")
  /\ Copied(blob.how, <<Header(fieldNumber, "String")>> \o Digits(Len(all)) \o all,
            blob.from, io.position, TRUE)
  /\ blob' = [blob EXCEPT !.left = 0, !.cells = <<>>]
  /\ UNCHANGED <<wireType, fieldNumber, blockEnd, frames>>

EndBytes ==
  LET all == blob.cells \o SubSeq(io.window, 1, blob.left) IN
  /\ Reading("bytes") /\ blob.left <= Len(io.window)
  /\ Proceed([io EXCEPT !.window = SubSeq(@, blob.left + 1, Len(@)),
                        !.index = @ + blob.left], "header")
  /\ Copied(blob.how, <<Header(fieldNumber, "String")>> \o Digits(Len(all)) \o all,
            blob.from, io.position, TRUE)
  /\ blob' = [blob EXCEPT !.left = 0, !.cells = <<>>]
  /\ UNCHANGED <<wireType, fieldNumber, blockEnd, frames>>

\* A field that is not in the buffer to its end is skipped in the stream.  What
\* a stream that can seek does not have is passed over like the rest.
Sought_ignoringBuffer(b, len) ==
  [b EXCEPT !.window = <<>>, !.index = 0, !.position = @ + len,
            !.fetched = @ + len, !.remaining = IF source.fixed THEN @ - len ELSE @]

Sought(b, len) ==
  LET rest == len - Len(b.window) IN
  [b EXCEPT !.window = <<>>, !.index = 0, !.position = @ + len,
            !.fetched = @ + rest, !.remaining = IF source.fixed THEN @ - rest ELSE @]

SkipString ==
  /\ Reading("value") /\ wireType = "String" /\ May("skip")
  /\ \E b \in With(Lookahead) :
       \/ CutOff(b.window) /\ Fail
       \/ \E l \in Lengths(b.window) :
            LET p == Consumed(b, l.cells)
                rest == l.value - Len(p.window)
                missing == \/ source.fixed /\ rest > p.remaining
                           \/ ~source.seekable /\ rest > Left(p)
            IN \/ rest <= 0 /\ Proceed(Consumed(p, l.value), "header")
               \/ rest > 0 /\ missing /\ Fail
               \/ rest > 0 /\ ~missing /\ Proceed(Sought(p, l.value), "header")
  /\ UNCHANGED <<wireType, fieldNumber, blockEnd, frames, blob, extension>>

-----------------------------------------------------------------------------
(* Sub-items, and groups that are skipped or copied.                       *)

Called(mode, token, packed) ==
  frames' = Append(frames, [mode |-> mode, token |-> token, packed |-> packed, id |-> Current])

SkipGroup ==
  /\ Reading("value") /\ wireType = "StartGroup" /\ May("skip")
  /\ Called("skip", fieldNumber, "None")
  /\ Proceed(io, "header")
  /\ UNCHANGED <<wireType, fieldNumber, blockEnd, blob, extension>>

EndSkip ==
  /\ Reading("end") /\ Mode = "skip"
  /\ IF wireType = "EndGroup" /\ fieldNumber = Token
     THEN /\ Proceed(io, "header") /\ wireType' = "None"
          /\ frames' = Front(frames)
          /\ UNCHANGED <<fieldNumber, blockEnd, blob, extension>>
     ELSE Fail

StartGroup(how) ==
  /\ Reading("value") /\ wireType = "StartGroup" /\ May(how)
  /\ how \in {"read", "copy"}
  /\ Called(how, -fieldNumber, "None")
  /\ Proceed(io, "header")
  /\ wireType' = "None"
  /\ Copied(how, <<Header(fieldNumber, "StartGroup")>>, io.position - 1, io.position,
            FALSE)
  /\ UNCHANGED <<fieldNumber, blockEnd, blob>>

\* A sub-message or a packed field; the token is the end of the block around it.
StartString ==
  /\ Reading("value") /\ wireType = "String" /\ Mode = "read" /\ Kind # "value"
  /\ \E b \in With(Lookahead) :
       \/ CutOff(b.window) /\ Fail
       \/ \E l \in Lengths(b.window) :
            /\ Proceed(Consumed(b, l.cells), "header")
            /\ blockEnd' = io.position + l.cells + l.value
            /\ IF Kind = "message" THEN Called("read", blockEnd, "None")
               ELSE Called("packed", blockEnd, Kind)
  /\ UNCHANGED <<wireType, fieldNumber, blob, extension>>

Ended == /\ Proceed(io, "header")
         /\ frames' = Front(frames)
         /\ UNCHANGED <<fieldNumber, blob>>

EndSubItem ==
  /\ Reading("end") /\ frames # <<>> /\ Mode # "skip"
  /\ CASE wireType = "EndGroup" /\ (Token >= 0 \/ -Token # fieldNumber) -> Fail
       [] wireType = "EndGroup" /\ Token < 0 /\ -Token = fieldNumber ->
            /\ Ended /\ wireType' = "None" /\ UNCHANGED blockEnd
            /\ LET outer == Front(frames)
                   nested == outer # <<>> /\ Last(outer).mode = "copy"
               IN extension' = IF Mode # "copy" THEN extension
                               ELSE [extension EXCEPT
                                       !.cells = Append(@, Header(-Token, "EndGroup")),
                                       !.to = io.position, !.committed = ~nested]
       [] OTHER ->
            IF Token < io.position \/ blockEnd \notin {io.position, Unbounded}
            THEN Fail
            ELSE Ended /\ blockEnd' = Token /\ UNCHANGED <<wireType, extension>>

\* Deserialize with a length compares it with the position; items with a length
\* prefix do not.
Finish ==
  /\ Reading("end") /\ frames = <<>>
  /\ status' = IF source.exact /\ io.position # source.length THEN "failed"
               ELSE "finished"
  /\ UNCHANGED <<source, io, wireType, fieldNumber, blockEnd, frames, pc, blob,
                 extension>>

-----------------------------------------------------------------------------
\* The first n cells of a message arrive.  fixed: the reader was created with a
\* length; exact: by Deserialize with a length.  A stream that was cut short has
\* nothing behind the message.
Delivered(m, n, fixed, exact, seekable) ==
  [cells |-> SubSeq(m.cells, 1, n)
               \o (IF fixed /\ n = Len(m.cells) THEN Following ELSE <<>>),
   fields |-> m.fields, cut |-> n, complete |-> n = Len(m.cells),
   fixed |-> fixed, length |-> Len(m.cells), exact |-> exact, seekable |-> seekable]

NothingRead(m, fixed) ==
  [window |-> <<>>, index |-> 0, size |-> BufferLength, position |-> 0,
   fetched |-> 0, remaining |-> IF fixed THEN Len(m.cells) ELSE 0]

Init ==
  /\ \E m \in Messages, fixed \in BOOLEAN, exact \in BOOLEAN, seekable \in BOOLEAN :
     \E n \in 0 .. Len(m.cells) :
       /\ exact => fixed
       /\ source = Delivered(m, n, fixed, exact, seekable)
       /\ io = NothingRead(m, fixed)
  /\ wireType = "None"
  /\ fieldNumber = 0
  /\ blockEnd = Unbounded
  /\ frames = <<>>
  /\ pc = "header"
  /\ blob = [left |-> 0, cells |-> <<>>, how |-> "read", from |-> 0]
  /\ extension = [cells |-> <<>>, from |-> 0, to |-> 0, committed |-> FALSE]
  /\ status = "reading"

Headers == ReadFieldHeader \/ HasSubValue \/ \E f \in Fields : TryReadFieldHeader(f)
Values == \/ \E how \in {"read", "skip", "copy"} : ReadScalar(how) \/ AppendBytes(how)
          \/ ReadString \/ RefillBytes \/ EndBytes \/ SkipString
Items == \/ \E how \in {"read", "copy"} : StartGroup(how)
         \/ StartString \/ EndSubItem \/ SkipGroup \/ EndSkip

Done == status # "reading" /\ UNCHANGED vars

Next == Headers \/ Values \/ Items \/ Finish \/ Done

Spec == Init /\ [][Next]_vars

\* A thread that deserializes goes on; it only stops between two bytes.
FairSpec == Spec /\ WF_vars(Next)

-----------------------------------------------------------------------------
(* Properties.                                                             *)

TypeOK ==
  /\ io \in [window : Seq(Cells), index : Nat, size : Nat, position : Nat,
              fetched : Nat, remaining : Nat]
  /\ wireType \in HeaderTypes \union {"None"}
  /\ fieldNumber \in Fields \union {0}
  /\ blockEnd \in Nat
  /\ frames \in Seq([mode : Modes, token : Int, packed : ScalarTypes \union {"None"},
                     id : Nat])
  /\ pc \in {"header", "value", "bytes", "end"}
  /\ blob \in [left : Nat, cells : Seq(Cells), how : Modes, from : Nat]
  /\ extension \in [cells : Seq(Cells), from : Nat, to : Nat, committed : BOOLEAN]
  /\ status \in {"reading", "finished", "failed"}

\* Through refills, shifts, exchanges and seeks the window holds exactly what
\* follows the position in the stream, and ends where the stream has been read
\* to; in AppendBytes the position is already past the bytes (Ensure, SkipField).
WindowIsStream ==
  LET at == io.position - blob.left IN
  /\ io.index + Len(io.window) <= io.size
  /\ at + Len(io.window) = io.fetched
  /\ io.window = SubSeq(source.cells, at + 1, io.fetched)

\* A reader that was given a length leaves what lies behind it in the stream to
\* the next reader (Ensure, SkipField).
OnlyOwnBytes ==
  source.fixed => io.fetched <= source.length /\ io.remaining = source.length - io.fetched

\* A varint with zeros at its end, which the writers of this library never send.
Padded(f) ==
  /\ WireTypeOf(source, f) = "Variant"
  /\ Tree[f].stop > Tree[f].value + 1
  /\ source.cells[Tree[f].stop][2] = 0

CopiedFields ==
  {f \in DOMAIN Tree : extension.from <= Tree[f].start /\ Tree[f].stop <= extension.to}

\* What an extension object has committed is one field of the message, from its
\* header to its last byte, groups with their end, and cell for cell unless a
\* varint was padded, which is written again without (AppendExtensionField).
ExtensionIsVerbatim ==
  /\ (\A f \in CopiedFields : ~Padded(f)) =>
       extension.cells = SubSeq(source.cells, extension.from + 1, extension.to)
  /\ extension.committed =>
       \E f \in DOMAIN Tree : /\ Tree[f].start = extension.from
                              /\ Tree[f].stop = extension.to

\* Every deserialization comes to an end, also of a stream that was cut short.
Terminates == <>(status # "reading")

Cursor == INSTANCE WireCursor WITH
  fields <- Tree, cut <- source.cut, complete <- source.complete,
  place <- IF pc = "bytes" THEN blob.from + 1 ELSE io.position,
  current <- Current,
  open <- [i \in DOMAIN frames |-> frames[i].id]

\* The walk: no field is missed, misread or taken for part of another, however
\* the bytes arrive and whatever is skipped; a complete message is never refused
\* and a message cut inside a field that is looked at always is.
ImplementsCursor == Cursor!Spec
=============================================================================
