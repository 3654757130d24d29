----------------------------- MODULE LengthPrefix -----------------------------
(***************************************************************************)
(* Items with length prefixes, one behind the other on a stream            *)
(* (SerializeWithLengthPrefix, DeserializeWithLengthPrefix and             *)
(* DeserializeItems of Meta/TypeModel.cs; ReadLengthPrefix and Seek of     *)
(* ProtoReader.cs).  The receiver takes the items it asks for, by their    *)
(* tag or by a resolver from tags to types, and skips the others, with     *)
(* nothing read ahead, so that the next call can go on behind the item.    *)
(* The stream may end anywhere.                                            *)
(***************************************************************************)
EXTENDS Wire, Integers, SequencesExt, FiniteSetsExt

CONSTANTS
  Lengths,  (* the lengths of the bodies                                    *)
  MaxItems  (* BOUND: items on the stream                                   *)

ASSUME PrefixAssumption == Lengths \subseteq 0 .. MaxCells - 1 /\ MaxItems \in Nat

\* "tagged": Base128 behind a header; "length": Base128 with no header.
Styles == {"tagged", "length", "fixed"}

VARIABLES
  sent,     (* the stream: its style, its items, how much of it arrives     *)
  at,       (* where the stream has been read to                            *)
  receiver, (* what it asks for, and the state of DeserializeItemsIterator  *)
  call,     (* the call of DeserializeWithLengthPrefix that is active       *)
  outcome   (* history: what the last call came to                          *)

vars == <<sent, at, receiver, call, outcome>>

NoTag == 0

\* from: where the call began; prefix: where the prefix it last read began.
NoCall == [pc |-> "none", from |-> 0, prefix |-> 0, tag |-> NoTag, length |-> 0,
           bytesRead |-> 0]
NoOutcome == [kind |-> "none", call |-> NoCall, body |-> 0]

-----------------------------------------------------------------------------
(* What the sender writes.                                                 *)

Prefix(style, item) ==
  CASE style = "tagged" -> <<Header(item.tag, "String")>> \o Digits(item.length)
    [] style = "length" -> Digits(item.length)
    [] style = "fixed" -> Fixed(item.length)

Framed(style, item) == Prefix(style, item) \o Bytes(item.length)

Written(style, items) == FlattenSeq([k \in DOMAIN items |-> Framed(style, items[k])])

Streams ==
  UNION {[style : {s}, items : {i}, arrives : 0 .. Len(Written(s, i)),
          seekable : BOOLEAN] :
           s \in Styles,
           i \in UNION {[1..n -> [tag : Fields, length : Lengths]] : n \in 0..MaxItems}}

Item(k) == sent.items[k]
Start(k) == Len(Written(sent.style, SubSeq(sent.items, 1, k - 1)))
Body(k) == Start(k) + Len(Prefix(sent.style, Item(k)))
Stop(k) == Body(k) + Item(k).length

\* The cells that can be read.
Arrived == SubSeq(Written(sent.style, sent.items), 1, sent.arrives)
AtEnd == at >= sent.arrives

-----------------------------------------------------------------------------
(* Reading from the stream, and how a call ends.                           *)

\* Where the varint that begins here ends (0: it is cut off), and its value.
VarintStop ==
  LET stops == {q \in at + 1 .. sent.arrives :
                  ~(Arrived[q][1] = "digit" /\ Arrived[q][3])}
  IN IF stops = {} THEN 0 ELSE Min(stops)

\* The number that the digits of a varint spell, the lowest first.
Number(digits) ==
  LET upTo[i \in 0 .. Len(digits)] ==
        IF i = 0 THEN 0 ELSE upTo[i - 1] + digits[i][2] * Power[i - 1]
  IN upTo[Len(digits)]

VarintValue == Number(SubSeq(Arrived, at + 1, VarintStop))

Throws(kind) == /\ outcome' = [kind |-> kind, call |-> call, body |-> 0]
                /\ call' = NoCall
                /\ UNCHANGED receiver

\* The caller is told there is nothing: haveObject stays as the call began.
ReturnsNothing(c) == /\ outcome' = [kind |-> "nothing", call |-> c, body |-> 0]
                     /\ call' = NoCall
                     /\ UNCHANGED <<sent, at, receiver>>

-----------------------------------------------------------------------------
(* A call.  An iterator asks for the same items every time, and goes on    *)
(* only while it has objects; other callers ask for what they like, but    *)
(* not again of a stream that failed them.                                 *)

MayCall_ignoresEnd(wanted) ==
  IF receiver.iterates THEN wanted = receiver.wanted
  ELSE outcome.kind \notin {"cut", "failed"}

MayCall(wanted) ==
  IF receiver.iterates THEN receiver.haveObject /\ wanted = receiver.wanted
  ELSE outcome.kind \notin {"cut", "failed"}

Begin(wanted) ==
  /\ call.pc = "none" /\ MayCall(wanted)
  /\ call' = [NoCall EXCEPT !.pc = "prefix", !.from = at, !.prefix = at]
  /\ receiver' = [receiver EXCEPT !.wanted = wanted, !.haveObject = FALSE]
  /\ UNCHANGED <<sent, at, outcome>>

\* ReadLengthPrefix with a header: the field whose tag it is.
ReadHeader ==
  /\ call.pc = "prefix" /\ sent.style = "tagged"
  /\ \/ AtEnd /\ ReturnsNothing(call)
     \/ /\ ~AtEnd
        /\ at' = at + 1
        /\ call' = [call EXCEPT !.pc = "length", !.bytesRead = @ + 1,
                                !.tag = Arrived[at + 1][2]]
        /\ UNCHANGED <<sent, receiver, outcome>>

\* The length behind a header: one that is missing altogether is taken for 0.
ReadTaggedLength ==
  /\ call.pc = "length"
  /\ \/ /\ AtEnd
        /\ call' = [call EXCEPT !.pc = "choose", !.length = 0]
        /\ UNCHANGED <<at, receiver, outcome>>
     \/ /\ ~AtEnd /\ VarintStop = 0
        /\ at' = sent.arrives /\ Throws("cut")
     \/ /\ ~AtEnd /\ VarintStop # 0
        /\ at' = VarintStop
        /\ call' = [call EXCEPT !.pc = "choose", !.length = VarintValue,
                                !.bytesRead = @ + VarintStop - at]
        /\ UNCHANGED <<receiver, outcome>>
  /\ UNCHANGED sent

\* The length with nothing before it.
ReadLength ==
  /\ call.pc = "prefix" /\ sent.style = "length"
  /\ \/ AtEnd /\ ReturnsNothing(call)
     \/ /\ ~AtEnd /\ VarintStop = 0
        /\ at' = sent.arrives /\ Throws("cut")
        /\ UNCHANGED sent
     \/ /\ VarintStop # 0
        /\ at' = VarintStop
        /\ call' = [call EXCEPT !.pc = "choose", !.length = VarintValue,
                                !.bytesRead = @ + VarintStop - at]
        /\ UNCHANGED <<sent, receiver, outcome>>

ReadFixed ==
  /\ call.pc = "prefix" /\ sent.style = "fixed"
  /\ \/ AtEnd /\ ReturnsNothing(call)
     \/ /\ ~AtEnd /\ at + FixedLength > sent.arrives
        /\ at' = sent.arrives /\ Throws("cut")
        /\ UNCHANGED sent
     \/ /\ at + FixedLength <= sent.arrives
        /\ at' = at + FixedLength
        /\ call' = [call EXCEPT !.pc = "choose", !.length = Arrived[at + 1][2],
                                !.bytesRead = @ + FixedLength]
        /\ UNCHANGED <<sent, receiver, outcome>>

\* Only what is tagged can be chosen: by its tag, or by a resolver.
Wanted(tag) == sent.style = "tagged" => tag \in receiver.wanted

Skipped_notCounted(length) == [call EXCEPT !.pc = "prefix", !.prefix = at + length]

Skipped(length) == [call EXCEPT !.pc = "prefix", !.prefix = at + length,
                                !.bytesRead = @ + length]

\* Seek: past the end of a stream that can seek without notice, else by reading.
Skip ==
  /\ call.pc = "choose" /\ ~Wanted(call.tag)
  /\ \/ /\ sent.seekable \/ at + call.length <= sent.arrives
        /\ at' = at + call.length
        /\ call' = Skipped(call.length)
        /\ UNCHANGED <<receiver, outcome>>
     \/ /\ ~sent.seekable /\ at + call.length > sent.arrives
        /\ at' = sent.arrives /\ Throws("cut")
  /\ UNCHANGED sent

\* The reader is made for the length and takes no byte behind it.
Taken_unbounded == sent.arrives - at
Taken == Min({call.length, sent.arrives - at})

\* Where it may leave the stream: behind what it took or, if a field that it
\* skipped was cut off and the stream can seek, where that field would have ended.
MayStop == {at + Taken} \union {q \in at + Taken .. at + call.length : sent.seekable}

\* An item that is cut off may end between two of its fields or within one that is
\* passed over, which no one notices, or within one that is read.  What the object
\* itself runs (a setter, a callback, a conversion) may fail when some of the item
\* has been read.
Deserialize ==
  /\ call.pc = "choose" /\ Wanted(call.tag)
  /\ \/ \E stop \in MayStop :
          /\ at' = stop
          /\ outcome' = [kind |-> "object", body |-> at,
                         call |-> [call EXCEPT !.bytesRead = @ + (stop - at)]]
          /\ receiver' = [receiver EXCEPT !.haveObject = TRUE]
          /\ call' = NoCall
     \/ Taken < call.length /\ at' \in MayStop /\ Throws("cut")
     \/ at' \in (at .. at + Taken) \union MayStop /\ Throws("failed")
  /\ UNCHANGED sent

-----------------------------------------------------------------------------
Init ==
  /\ sent \in Streams
  /\ at = 0
  /\ receiver \in [iterates : BOOLEAN, wanted : SUBSET Fields, haveObject : {TRUE}]
  /\ call = NoCall
  /\ outcome = NoOutcome

Next ==
  \/ \E wanted \in SUBSET Fields : Begin(wanted)
  \/ ReadHeader \/ ReadTaggedLength \/ ReadLength \/ ReadFixed
  \/ Skip \/ Deserialize

Spec == Init /\ [][Next]_vars

-----------------------------------------------------------------------------
(* Properties.                                                             *)

Asked(from) ==
  {k \in DOMAIN sent.items : Start(k) >= from /\ Wanted(Item(k).tag)}

\* A call returns the first item behind its start that was asked for, the whole
\* of it if the whole of it arrived; it returns nothing only when not a byte of
\* such an item arrived, and misses data only when an item is cut off.
FirstMatch ==
  LET c == outcome.call IN
  call.pc = "none" =>
    CASE outcome.kind = "object" ->
           \E k \in Asked(c.from) :
             /\ Start(k) = c.prefix
             /\ \A j \in Asked(c.from) : k <= j
             /\ Stop(k) <= sent.arrives => outcome.body = Body(k) /\ at = Stop(k)
      [] outcome.kind = "nothing" ->
           \A k \in Asked(c.from) : Start(k) >= sent.arrives
      [] outcome.kind = "cut" ->
           \E k \in DOMAIN sent.items :
             Start(k) < sent.arrives /\ sent.arrives < Stop(k)
      [] OTHER -> TRUE

\* bytesRead, by which callers go on in a buffer, is how far the stream has
\* moved: prefixes, bodies and everything that was skipped.
BytesReadAgree ==
  call.pc = "none" /\ outcome.kind \in {"object", "nothing"} =>
    outcome.call.bytesRead = at - outcome.call.from

\* A prefix is read only where one begins, in every call and after every skip,
\* and in an iteration after a failure nowhere.
FramesAreKept ==
  call.pc = "prefix" /\ ~AtEnd => \E k \in DOMAIN sent.items : at = Start(k)
=============================================================================
