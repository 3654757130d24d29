----------------------------- MODULE WriterProofs -----------------------------
(***************************************************************************)
(* Proofs about ProtoWriter: for any lengths of buffers and messages, any  *)
(* base of the varints and any nesting, the buffer is never overrun, the   *)
(* room for each length stays where its token says until it is filled in,  *)
(* a message that was closed has no hole in it, and what the destination   *)
(* gets is the framed message of WireStream.                               *)
(***************************************************************************)
EXTENDS ProtoWriter, SequenceTheorems, FiniteSetTheorems, WellFoundedInduction, TLAPS

\* What is written for good, which is never a hole.
DigitCell(n, i) == <<"digit", (n \div Power[i - 1]) % Base, i < Width(n)>>
Filled == {Byte} \union {Header(f, w) : f \in Fields, w \in HeaderTypes}
          \union {DigitCell(n, i) : n \in Nat, i \in Nat}
          \union {<<"fixed", n, i>> : n \in Nat, i \in Nat}
Cell == Filled \union {Hole}

LEMMA HoleIsNotFilled == Hole \notin Filled
<1>1. Hole # Byte
  BY DEF Hole, Byte
<1>2. \A f, w : Header(f, w) # Hole
  BY DEF Hole, Header
<1>3. \A n, i : DigitCell(n, i) # Hole
  <2>1. \A d, more : <<"digit", d, more>> # Hole
    BY DEF Hole
  <2>2. QED
    BY <2>1, Zenon DEF DigitCell
<1>4. \A n, i : <<"fixed", n, i>> # Hole
  BY DEF Hole
<1>5. QED
  BY <1>1, <1>2, <1>3, <1>4 DEF Filled

\* A varint takes at least a byte and at most VarintSpace.
LEMMA WidthBounds ==
  ASSUME NEW n \in Nat
  PROVE  Width(n) \in 1 .. VarintSpace
<1> DEFINE K == 1 .. VarintSpace - 1
           S == {k \in K : Power[k] <= n}
<1>1. VarintSpace \in Nat \ {0}
  BY WireAssumption
<1>2. IsFiniteSet(K) /\ Cardinality(K) = VarintSpace - 1
  BY <1>1, FS_Interval
<1>3. IsFiniteSet(S) /\ Cardinality(S) <= VarintSpace - 1
  <2>1. S \in SUBSET K
    OBVIOUS
  <2> HIDE DEF S, K
  <2>2. QED
    BY <1>2, <2>1, FS_Subset
<1>4. Cardinality(S) \in Nat
  BY <1>3, FS_CardinalityType
<1>5. Width(n) = 1 + Cardinality(S)
  BY DEF Width
<1> HIDE DEF S, K
<1>6. QED
  BY <1>1, <1>3, <1>4, <1>5

LEMMA CellsWritten ==
  /\ \A n \in Nat : /\ Digits(n) \in Seq(Filled) /\ Len(Digits(n)) = Width(n)
                    /\ Fixed(n) \in Seq(Filled) /\ Len(Fixed(n)) = FixedLength
                    /\ Bytes(n) \in Seq(Filled) /\ Len(Bytes(n)) = n
                    /\ Holes(n) \in Seq(Cell) /\ Len(Holes(n)) = n
                    /\ \A i \in 1 .. n : Holes(n)[i] = Hole
  /\ \A f \in Fields, w \in HeaderTypes :
       <<Header(f, w)>> \in Seq(Filled) /\ Len(<<Header(f, w)>>) = 1
<1>1. ASSUME NEW n \in Nat
      PROVE  Digits(n) \in Seq(Filled) /\ Len(Digits(n)) = Width(n)
  <2>1. Width(n) \in Nat /\ DOMAIN Digits(n) = 1 .. Width(n)
    BY WidthBounds, WireAssumption DEF Digits
  <2>2. \A i \in 1 .. Width(n) : Digits(n)[i] \in Filled
    <3>1. \A i \in 1 .. Width(n) : Digits(n)[i] = DigitCell(n, i)
      BY Zenon DEF Digits, DigitCell
    <3>2. \A i \in 1 .. Width(n) : i \in Nat
      BY <2>1
    <3>3. \A i \in Nat : DigitCell(n, i) \in Filled
      BY DEF Filled
    <3>4. QED
      BY <3>1, <3>2, <3>3
  <2>3. Digits(n) = [i \in 1 .. Width(n) |-> Digits(n)[i]]
    BY DEF Digits
  <2>4. QED
    BY <2>1, <2>2, <2>3
<1>2. ASSUME NEW n \in Nat
      PROVE  Fixed(n) \in Seq(Filled) /\ Len(Fixed(n)) = FixedLength
  <2>1. FixedLength \in Nat /\ DOMAIN Fixed(n) = 1 .. FixedLength
    BY WireAssumption DEF Fixed
  <2>2. \A i \in 1 .. FixedLength : Fixed(n)[i] \in Filled
    <3>1. \A i \in 1 .. FixedLength : Fixed(n)[i] = <<"fixed", n, i>> /\ i \in Nat
      BY <2>1 DEF Fixed
    <3>2. \A i \in Nat : <<"fixed", n, i>> \in Filled
      BY DEF Filled
    <3>3. QED
      BY <3>1, <3>2
  <2>3. Fixed(n) = [i \in 1 .. FixedLength |-> Fixed(n)[i]]
    BY DEF Fixed
  <2>4. QED
    BY <2>1, <2>2, <2>3
<1>3. ASSUME NEW n \in Nat
      PROVE  /\ Bytes(n) \in Seq(Filled) /\ Len(Bytes(n)) = n
             /\ Holes(n) \in Seq(Cell) /\ Len(Holes(n)) = n
             /\ \A i \in 1 .. n : Holes(n)[i] = Hole
  <2>1. Byte \in Filled /\ Hole \in Cell
    BY DEF Filled, Cell
  <2>2. QED
    BY <2>1 DEF Bytes, Holes
<1>4. ASSUME NEW f \in Fields, NEW w \in HeaderTypes
      PROVE  <<Header(f, w)>> \in Seq(Filled) /\ Len(<<Header(f, w)>>) = 1
  <2>1. Header(f, w) \in Filled
    BY DEF Filled
  <2> HIDE DEF Filled
  <2>2. QED
    BY <2>1
<1>5. QED
  BY <1>1, <1>2, <1>3, <1>4

-----------------------------------------------------------------------------
(* What holds of a buffer b while the items ts are open.                   *)

Prefixed(ts) == {i \in DOMAIN ts : IsPrefixed(ts[i])}

RoomAt(b, token) ==
  LET room == Room(token.style)
      v == token.value
  IN /\ v >= 0
     /\ Len(b.dest) + v + room = token.start
     /\ v + room <= Len(b.buffer)
     /\ \A j \in 1 .. room : b.buffer[v + j] = Hole

InRoom(token, p) == token.value < p /\ p <= token.value + Room(token.style)

Buffers == [dest : Seq(Cell), buffer : Seq(Cell), size : Nat, position : Nat]

IsBuffer(b) ==
  /\ b \in Buffers
  /\ Len(b.buffer) <= b.size
  /\ b.position = Len(b.dest) + Len(b.buffer)

\* Every hole is room for a length.
HolesAreRoom(b, ts) ==
  /\ \A i \in DOMAIN b.dest : b.dest[i] # Hole
  /\ \A p \in DOMAIN b.buffer : b.buffer[p] = Hole =>
       \E i \in Prefixed(ts) : InRoom(ts[i], p)

BufInv(b, ts) == /\ IsBuffer(b)
                 /\ \A i \in Prefixed(ts) : RoomAt(b, ts[i])
                 /\ HolesAreRoom(b, ts)

\* The rooms are one behind the other.
Nested(ts) == \A i, j \in Prefixed(ts) :
  i < j => ts[i].value + Room(ts[i].style) <= ts[j].value

Locked(ts) == flushLock = 0 => Prefixed(ts) = {}

LEMMA RoomIsNat ==
  \A token \in Token :
    /\ Room(token.style) \in 0 .. ItemSpace
    /\ IsPrefixed(token) => Room(token.style) > 0
BY WireAssumption, WriterAssumption DEF Token, Styles, Room, IsPrefixed

Built(x, y, m, p) == [dest |-> x, buffer |-> y, size |-> m, position |-> p]

\* A record with two of its fields changed.
LEMMA DestAndBuffer ==
  ASSUME NEW b \in Buffers, NEW x, NEW y
  PROVE  [b EXCEPT !.dest = x, !.buffer = y] = Built(x, y, b.size, b.position)
<1>1. PICK c : c = [b EXCEPT !.dest = x]
  OBVIOUS
<1>2. PICK d : d = [c EXCEPT !.buffer = y]
  OBVIOUS
<1>3. d = Built(x, y, b.size, b.position)
  BY <1>1, <1>2 DEF Buffers, Built
<1>4. d = [b EXCEPT !.dest = x, !.buffer = y]
  BY <1>1, <1>2, Zenon
<1>5. QED
  BY <1>3, <1>4, Zenon

LEMMA BufferAndPosition ==
  ASSUME NEW b \in Buffers, NEW x, NEW y
  PROVE  [b EXCEPT !.buffer = x, !.position = y] = Built(b.dest, x, b.size, y)
<1>1. PICK c : c = [b EXCEPT !.buffer = x]
  OBVIOUS
<1>2. PICK d : d = [c EXCEPT !.position = y]
  OBVIOUS
<1>3. d = Built(b.dest, x, b.size, y)
  BY <1>1, <1>2 DEF Buffers, Built
<1>4. d = [b EXCEPT !.buffer = x, !.position = y]
  BY <1>1, <1>2, Zenon
<1>5. QED
  BY <1>3, <1>4, Zenon

LEMMA DestAndPosition ==
  ASSUME NEW b \in Buffers, NEW x, NEW y
  PROVE  [b EXCEPT !.dest = x, !.position = y] = Built(x, b.buffer, b.size, y)
<1>1. PICK c : c = [b EXCEPT !.dest = x]
  OBVIOUS
<1>2. PICK d : d = [c EXCEPT !.position = y]
  OBVIOUS
<1>3. d = Built(x, b.buffer, b.size, y)
  BY <1>1, <1>2 DEF Buffers, Built
<1>4. d = [b EXCEPT !.dest = x, !.position = y]
  BY <1>1, <1>2, Zenon
<1>5. QED
  BY <1>3, <1>4, Zenon

LEMMA FlushedIs ==
  ASSUME NEW b, IsBuffer(b)
  PROVE  Flushed(b) = Built(b.dest \o b.buffer, <<>>, b.size, b.position)
BY DestAndBuffer, Zenon DEF IsBuffer, Flushed

LEMMA FlushedInv ==
  ASSUME NEW ts, NEW b, BufInv(b, ts), Prefixed(ts) = {}
  PROVE  /\ BufInv(Flushed(b), ts)
         /\ Flushed(b).size = b.size /\ Flushed(b).buffer = <<>>
<1> DEFINE d == Flushed(b)
<1>1. /\ b \in Buffers
      /\ b.dest \in Seq(Cell) /\ b.buffer \in Seq(Cell)
      /\ b.size \in Nat /\ b.position \in Nat
  BY DEF BufInv, IsBuffer, Buffers
<1>a. d = Built(b.dest \o b.buffer, <<>>, b.size, b.position)
  BY FlushedIs DEF BufInv
<1> HIDE DEF d
<1>2. /\ d.dest = b.dest \o b.buffer /\ d.buffer = <<>> /\ d.size = b.size
      /\ d.position = b.position
  BY <1>a DEF Built
<1>3. /\ b.dest \o b.buffer \in Seq(Cell)
      /\ Len(b.dest \o b.buffer) = Len(b.dest) + Len(b.buffer)
      /\ \A i \in 1 .. Len(b.dest) + Len(b.buffer) : (b.dest \o b.buffer)[i] =
           IF i <= Len(b.dest) THEN b.dest[i] ELSE b.buffer[i - Len(b.dest)]
  BY <1>1, ConcatProperties
<1>4. <<>> \in Seq(Cell) /\ Len(<<>>) = 0 /\ DOMAIN <<>> = {}
  OBVIOUS
<1>5. IsBuffer(d)
  <2>1. d \in Buffers
    BY <1>1, <1>a, <1>3, <1>4 DEF Buffers, Built
  <2>2. Len(b.buffer) <= b.size /\ b.position = Len(b.dest) + Len(b.buffer)
    BY DEF BufInv, IsBuffer
  <2>3. Len(d.buffer) = 0 /\ Len(d.dest) = Len(b.dest) + Len(b.buffer)
    BY <1>2, <1>3, <1>4
  <2>4. Len(b.dest) \in Nat /\ Len(b.buffer) \in Nat
    BY <1>1
  <2>5. QED
    BY <1>1, <1>2, <2>1, <2>2, <2>3, <2>4 DEF IsBuffer
<1>6. \A i \in DOMAIN d.dest : d.dest[i] # Hole
  <2>1. \A i \in 1 .. Len(b.dest) : b.dest[i] # Hole
    BY <1>1 DEF BufInv, HolesAreRoom
  <2>2. \A i \in 1 .. Len(b.buffer) : b.buffer[i] # Hole
    BY <1>1 DEF BufInv, HolesAreRoom
  <2>3. ASSUME NEW i \in 1 .. Len(b.dest) + Len(b.buffer) PROVE d.dest[i] # Hole
    <3>1. CASE i <= Len(b.dest)
      BY <1>1, <1>2, <1>3, <2>1, <3>1
    <3>2. CASE ~(i <= Len(b.dest))
      <4>1. i - Len(b.dest) \in 1 .. Len(b.buffer)
        <5>1. Len(b.dest) \in Nat /\ Len(b.buffer) \in Nat
          BY <1>1
        <5>2. \A m, k \in Nat : i \in 1 .. m + k /\ ~(i <= m) => i - m \in 1 .. k
          OBVIOUS
        <5>3. QED
          BY <3>2, <5>1, <5>2
      <4>2. QED
        BY <1>2, <1>3, <2>2, <3>2, <4>1
    <3>3. QED
      BY <3>1, <3>2
  <2>4. DOMAIN d.dest = 1 .. Len(b.dest) + Len(b.buffer)
    BY <1>2, <1>3
  <2>5. QED
    BY <2>3, <2>4
<1>7. HolesAreRoom(d, ts)
  BY <1>2, <1>4, <1>6 DEF HolesAreRoom
<1>8. QED
  BY <1>2, <1>5, <1>7 DEF BufInv, d

\* A longer array with the same content.
LEMMA ResizedInv ==
  ASSUME NEW ts, NEW b, BufInv(b, ts), NEW n \in Nat
  PROVE  /\ BufInv(Resized(b, n), ts)
         /\ Resized(b, n).buffer = b.buffer /\ Resized(b, n).dest = b.dest
         /\ Resized(b, n).position = b.position
         /\ n <= Resized(b, n).size - Len(b.buffer)
<1>1. b \in Buffers
      /\ Len(b.buffer) \in Nat /\ b.size \in Nat /\ Len(b.buffer) <= b.size
  BY DEF BufInv, IsBuffer, Buffers
<1>2. CASE ~Lacks(b, n)
  BY <1>1, <1>2 DEF Resized, Lacks
<1>3. CASE Lacks(b, n)
  <2> DEFINE s == Longer(b.size, Len(b.buffer) + n)
             d == [b EXCEPT !.size = s]
  <2>1. s \in Nat /\ s >= Len(b.buffer) + n
    BY <1>1 DEF Longer
  <2>2. Resized(b, n) = d
    BY <1>3 DEF Resized
  <2> HIDE DEF s
  <2>3. /\ d \in Buffers
        /\ d.size = s /\ d.buffer = b.buffer /\ d.dest = b.dest
        /\ d.position = b.position
    BY <1>1, <2>1 DEF Buffers
  <2> HIDE DEF d
  <2>4. Len(d.buffer) <= d.size /\ n <= d.size - Len(b.buffer)
    BY <1>1, <2>1, <2>3
  <2>5. BufInv(d, ts)
    BY <2>3, <2>4 DEF BufInv, IsBuffer, Buffers, RoomAt, HolesAreRoom
  <2>6. QED
    BY <2>2, <2>3, <2>4, <2>5
<1>4. QED
  BY <1>2, <1>3

\* DemandSpace flushes only what is not waiting for a length.
LEMMA DemandInv ==
  ASSUME NEW ts, NEW b, BufInv(b, ts), Locked(ts), NEW n \in Nat
  PROVE  LET d == DemandSpace(b, n) IN
         /\ BufInv(d, ts)
         /\ n <= d.size - Len(d.buffer)
         /\ d.position = b.position
         /\ flushLock # 0 => d.buffer = b.buffer /\ d.dest = b.dest
<1>1. PICK d : d = DemandSpace(b, n)
  OBVIOUS
<1>2. SUFFICES /\ BufInv(d, ts) /\ n <= d.size - Len(d.buffer)
               /\ d.position = b.position
               /\ flushLock # 0 => d.buffer = b.buffer /\ d.dest = b.dest
  BY <1>1
<1>3. CASE Lacks(b, n) /\ flushLock = 0
  <2>1. PICK c : c = Flushed(b)
    OBVIOUS
  <2>2. BufInv(c, ts)
    BY <1>3, <2>1, FlushedInv DEF Locked
  <2>3. c.position = b.position
    BY <2>1 DEF BufInv, IsBuffer, Buffers, Flushed
  <2>4. d = Resized(c, n)
    BY <1>1, <1>3, <2>1 DEF DemandSpace
  <2>5. /\ BufInv(d, ts) /\ n <= d.size - Len(c.buffer)
        /\ d.buffer = c.buffer /\ d.position = c.position
    BY <2>2, <2>4, ResizedInv
  <2>6. QED
    BY <1>3, <2>3, <2>5
<1>4. CASE ~(Lacks(b, n) /\ flushLock = 0)
  <2>1. d = Resized(b, n)
    BY <1>1, <1>4 DEF DemandSpace
  <2>2. /\ BufInv(d, ts) /\ n <= d.size - Len(b.buffer)
        /\ d.buffer = b.buffer /\ d.dest = b.dest /\ d.position = b.position
    BY <2>1, ResizedInv
  <2>3. QED
    BY <2>2
<1>5. QED
  BY <1>3, <1>4

LEMMA BufferTypes ==
  ASSUME NEW ts, NEW b, BufInv(b, ts)
  PROVE  /\ b \in Buffers
         /\ b.dest \in Seq(Cell) /\ b.buffer \in Seq(Cell)
         /\ b.size \in Nat /\ b.position \in Nat
         /\ Len(b.dest) \in Nat /\ Len(b.buffer) \in Nat
         /\ Len(b.buffer) <= b.size
         /\ b.position = Len(b.dest) + Len(b.buffer)
BY DEF BufInv, IsBuffer, Buffers

\* What is written behind the rest of the buffer, where there is space for it.
LEMMA WriteInv ==
  ASSUME NEW ts \in Seq(Token), NEW b, BufInv(b, ts), NEW cells \in Seq(Filled),
         NEW n \in Nat, n = Len(cells), n <= b.size - Len(b.buffer)
  PROVE  BufInv(Built(b.dest, b.buffer \o cells, b.size, b.position + n), ts)
<1>0. /\ b \in Buffers
      /\ b.dest \in Seq(Cell) /\ b.buffer \in Seq(Cell)
      /\ b.size \in Nat /\ b.position \in Nat
      /\ Len(b.dest) \in Nat /\ Len(b.buffer) \in Nat
  BY BufferTypes
<1>a. Len(b.buffer) <= b.size /\ b.position = Len(b.dest) + Len(b.buffer)
  BY BufferTypes
<1>1. cells \in Seq(Cell) /\ \A i \in 1 .. n : cells[i] # Hole
  BY HoleIsNotFilled DEF Cell
<1> DEFINE y == b.buffer \o cells
<1>2. /\ y \in Seq(Cell) /\ Len(y) = Len(b.buffer) + n
      /\ \A i \in 1 .. Len(b.buffer) + n : y[i] =
           IF i <= Len(b.buffer) THEN b.buffer[i] ELSE cells[i - Len(b.buffer)]
  BY <1>0, <1>1, ConcatProperties
<1> DEFINE e == Built(b.dest, y, b.size, b.position + n)
<1> HIDE DEF y
<1>3. b.position + n \in Nat
  BY <1>0
<1>4. /\ IsBuffer(e)
      /\ e.dest = b.dest /\ e.buffer = y
  <2>1. Len(y) = Len(b.buffer) + n /\ y \in Seq(Cell)
    BY <1>2
  <2>2. /\ Len(b.dest) \in Nat /\ Len(b.buffer) \in Nat /\ b.size \in Nat
        /\ b.position = Len(b.dest) + Len(b.buffer)
    BY <1>0, <1>a
  <2>3. Len(y) <= b.size /\ b.position + n = Len(b.dest) + Len(y)
    <3>1. \A k, l \in Nat : (k + l) + n = k + (l + n)
      OBVIOUS
    <3>2. Len(y) <= b.size
      BY <1>0, <2>1
    <3>3. (Len(b.dest) + Len(b.buffer)) + n = Len(b.dest) + (Len(b.buffer) + n)
      BY <2>2, <3>1, Zenon
    <3>4. b.position + n = (Len(b.dest) + Len(b.buffer)) + n
      BY <2>2, Zenon
    <3>5. Len(b.dest) + Len(y) = Len(b.dest) + (Len(b.buffer) + n)
      BY <2>1, Zenon
    <3>6. QED
      BY <3>2, <3>3, <3>4, <3>5, Zenon
  <2>4. /\ e.dest = b.dest /\ e.buffer = y /\ e.size = b.size
        /\ e.position = b.position + n
    BY DEF Built
  <2>5. e \in Buffers
    <3>1. b.dest \in Seq(Cell) /\ b.buffer \in Seq(Cell) /\ b.size \in Nat
      BY <1>0
    <3>2. QED
      BY <1>3, <2>1, <3>1 DEF Built, Buffers
  <2> HIDE DEF e
  <2>6. QED
    BY <2>5, <2>3, <2>4 DEF IsBuffer
<1> HIDE DEF e
<1>5. ASSUME NEW i \in Prefixed(ts) PROVE RoomAt(e, ts[i])
  <2>1. RoomAt(b, ts[i])
    BY DEF BufInv
  <2>2. PICK v \in Int, room \in Nat : v = ts[i].value /\ room = Room(ts[i].style)
    <3>1. ts[i] \in Token
      BY DEF Prefixed
    <3>2. ts[i].value \in Int /\ Room(ts[i].style) \in Nat
      BY <3>1, RoomIsNat DEF Token
    <3>3. QED
      BY <3>2
  <2>3. /\ v >= 0 /\ v + room <= Len(b.buffer)
        /\ Len(b.dest) + v + room = ts[i].start
        /\ \A j \in 1 .. room : b.buffer[v + j] = Hole
    BY <2>1, <2>2 DEF RoomAt
  <2>4. ASSUME NEW j \in 1 .. room PROVE y[v + j] = b.buffer[v + j]
    <3>1. v + j \in 1 .. Len(b.buffer) + n /\ v + j <= Len(b.buffer)
      <4>1. Len(b.buffer) \in Nat /\ v >= 0 /\ v + room <= Len(b.buffer)
        BY <1>0, <2>3
      <4>2. QED
        BY <4>1
    <3>2. QED
      BY <1>2, <3>1
  <2>5. v + room <= Len(y)
    BY <1>0, <1>2, <2>3
  <2>6. QED
    BY <1>4, <2>2, <2>3, <2>4, <2>5 DEF RoomAt
<1>6. ASSUME NEW p \in DOMAIN e.buffer, e.buffer[p] = Hole
      PROVE  \E i \in Prefixed(ts) : InRoom(ts[i], p)
  <2>1. p \in 1 .. Len(b.buffer) + n
    BY <1>2, <1>4
  <2>2. p <= Len(b.buffer)
    <3>1. SUFFICES ASSUME ~(p <= Len(b.buffer)) PROVE FALSE
      OBVIOUS
    <3>2. p - Len(b.buffer) \in 1 .. n
      BY <2>1, <3>1, <1>0
    <3>3. QED
      BY <1>1, <1>2, <1>4, <1>6, <2>1, <3>1, <3>2
  <2>3. p \in DOMAIN b.buffer /\ b.buffer[p] = Hole
    BY <1>2, <1>4, <1>6, <2>1, <2>2, <1>0
  <2>4. QED
    BY <2>3 DEF BufInv, HolesAreRoom
<1>7. HolesAreRoom(e, ts)
  BY <1>4, <1>6 DEF HolesAreRoom, BufInv
<1>8. QED
  BY <1>4, <1>5, <1>7 DEF BufInv, e, y

\* Emit: whatever it asks for is enough for what it writes.
LEMMA EmitInv ==
  ASSUME NEW ts \in Seq(Token), NEW b, BufInv(b, ts), Locked(ts), NEW n \in Nat,
         NEW cells \in Seq(Filled), Len(cells) <= n
  PROVE  BufInv(Emit(b, n, cells), ts)
<1>1. PICK d : d = DemandSpace(b, n)
  OBVIOUS
<1>2. BufInv(d, ts) /\ n <= d.size - Len(d.buffer)
  BY <1>1, DemandInv
<1>3. PICK m \in Nat : m = Len(cells)
  OBVIOUS
<1>5. m <= d.size - Len(d.buffer)
  <2>1. d.size \in Nat /\ Len(d.buffer) \in Nat
    BY <1>2, BufferTypes
  <2>2. QED
    BY <1>2, <1>3, <2>1
<1>6. BufInv(Built(d.dest, d.buffer \o cells, d.size, d.position + m), ts)
  BY <1>2, <1>3, <1>5, WriteInv
<1>7. Emit(b, n, cells) =
        Built(d.dest, d.buffer \o cells, d.size, d.position + m)
  <2>1. PICK x, y : x = d.buffer \o cells /\ y = d.position + m
    OBVIOUS
  <2>2. Emit(b, n, cells) = [d EXCEPT !.buffer = x, !.position = y]
    BY <1>1, <1>3, <2>1, Zenon DEF Emit
  <2>3. d \in Buffers
    BY <1>2, BufferTypes
  <2>4. [d EXCEPT !.buffer = x, !.position = y] = Built(d.dest, x, d.size, y)
    BY <2>3, BufferAndPosition, Zenon
  <2>5. Emit(b, n, cells) = Built(d.dest, x, d.size, y)
    BY <2>2, <2>4, Zenon
  <2>6. QED
    BY <2>1, <2>5, Zenon
<1>8. QED
  BY <1>6, <1>7

\* What bypasses the buffer, which nothing is waiting in.
LEMMA SendInv ==
  ASSUME NEW ts, NEW b, BufInv(b, ts), Prefixed(ts) = {},
         NEW cells \in Seq(Filled), NEW n \in Nat, n = Len(cells)
  PROVE  BufInv(Built(b.dest \o cells, b.buffer, b.size, b.position + n), ts)
<1>0. /\ b \in Buffers
      /\ b.dest \in Seq(Cell) /\ b.buffer \in Seq(Cell)
      /\ b.size \in Nat /\ b.position \in Nat
      /\ Len(b.dest) \in Nat /\ Len(b.buffer) \in Nat
  BY BufferTypes
<1>a. Len(b.buffer) <= b.size /\ b.position = Len(b.dest) + Len(b.buffer)
  BY BufferTypes
<1>1. cells \in Seq(Cell) /\ \A i \in 1 .. n : cells[i] # Hole
  BY HoleIsNotFilled DEF Cell
<1> DEFINE x == b.dest \o cells
<1>2. /\ x \in Seq(Cell) /\ Len(x) = Len(b.dest) + n
      /\ \A i \in 1 .. Len(b.dest) + n : x[i] =
           IF i <= Len(b.dest) THEN b.dest[i] ELSE cells[i - Len(b.dest)]
  BY <1>0, <1>1, ConcatProperties
<1> DEFINE e == Built(x, b.buffer, b.size, b.position + n)
<1> HIDE DEF x
<1>3. b.position + n \in Nat
  BY <1>0
<1>4. /\ IsBuffer(e)
      /\ e.dest = x /\ e.buffer = b.buffer
  <2>1. Len(x) = Len(b.dest) + n /\ x \in Seq(Cell)
    BY <1>2
  <2>2. /\ Len(b.dest) \in Nat /\ Len(b.buffer) \in Nat
        /\ Len(b.buffer) <= b.size
        /\ b.position = Len(b.dest) + Len(b.buffer)
    BY <1>0, <1>a
  <2>3. b.position + n = Len(x) + Len(b.buffer)
    <3>1. \A k, l \in Nat : (k + l) + n = (k + n) + l
      OBVIOUS
    <3>2. (Len(b.dest) + Len(b.buffer)) + n = (Len(b.dest) + n) + Len(b.buffer)
      BY <2>2, <3>1, Zenon
    <3>3. b.position + n = (Len(b.dest) + Len(b.buffer)) + n
      BY <2>2, Zenon
    <3>4. Len(x) + Len(b.buffer) = (Len(b.dest) + n) + Len(b.buffer)
      BY <2>1, Zenon
    <3>5. QED
      BY <3>2, <3>3, <3>4, Zenon
  <2>4. /\ e.dest = x /\ e.buffer = b.buffer /\ e.size = b.size
        /\ e.position = b.position + n
    BY DEF Built
  <2>5. e \in Buffers
    <3>1. b.dest \in Seq(Cell) /\ b.buffer \in Seq(Cell) /\ b.size \in Nat
      BY <1>0
    <3>2. QED
      BY <1>3, <2>1, <3>1 DEF Built, Buffers
  <2> HIDE DEF e
  <2>6. QED
    BY <2>5, <2>2, <2>3, <2>4 DEF IsBuffer
<1> HIDE DEF e
<1>5. ASSUME NEW i \in DOMAIN e.dest PROVE e.dest[i] # Hole
  <2>1. i \in 1 .. Len(b.dest) + n
    BY <1>2, <1>4
  <2>2. CASE i <= Len(b.dest)
    <3>1. i \in DOMAIN b.dest /\ x[i] = b.dest[i]
      BY <1>2, <2>1, <2>2, <1>0
    <3>2. QED
      BY <1>4, <3>1 DEF BufInv, HolesAreRoom
  <2>3. CASE ~(i <= Len(b.dest))
    <3>1. i - Len(b.dest) \in 1 .. n
      BY <2>1, <2>3, <1>0
    <3>2. QED
      BY <1>1, <1>2, <1>4, <2>1, <2>3, <3>1
  <2>4. QED
    BY <2>2, <2>3
<1>6. HolesAreRoom(e, ts)
  BY <1>4, <1>5 DEF HolesAreRoom, BufInv
<1>7. QED
  BY <1>4, <1>6 DEF BufInv, e, x

-----------------------------------------------------------------------------
(* Items that open and close.                                              *)

LEMMA PrefixedFinite ==
  ASSUME NEW ts \in Seq(Token)
  PROVE  IsFiniteSet(Prefixed(ts)) /\ Cardinality(Prefixed(ts)) \in Nat
<1>1. IsFiniteSet(1 .. Len(ts))
  BY FS_Interval
<1>2. Prefixed(ts) \subseteq 1 .. Len(ts)
  BY DEF Prefixed
<1>3. QED
  BY <1>1, <1>2, FS_Subset, FS_CardinalityType

LEMMA OpenedItems ==
  ASSUME NEW ts \in Seq(Token), NEW t \in Token
  PROVE  LET us == Append(ts, t)
             n == Len(ts) + 1
         IN /\ us \in Seq(Token) /\ us # <<>> /\ Len(us) = n /\ us[n] = t
            /\ \A i \in 1 .. Len(ts) : us[i] = ts[i]
            /\ n \notin Prefixed(ts)
            /\ Prefixed(us) = IF IsPrefixed(t) THEN Prefixed(ts) \union {n}
                              ELSE Prefixed(ts)
            /\ Cardinality(Prefixed(us)) =
                 Cardinality(Prefixed(ts)) + IF IsPrefixed(t) THEN 1 ELSE 0
<1> DEFINE us == Append(ts, t)
           n == Len(ts) + 1
<1>1. /\ us \in Seq(Token) /\ us # <<>> /\ Len(us) = n /\ us[n] = t
      /\ \A i \in 1 .. Len(ts) : us[i] = ts[i]
  BY AppendProperties
<1>2. n \notin Prefixed(ts) /\ n \in Nat
  BY DEF Prefixed
<1> HIDE DEF us
<1>3. Prefixed(us) = IF IsPrefixed(t) THEN Prefixed(ts) \union {n} ELSE Prefixed(ts)
  <2>1. DOMAIN us = (1 .. Len(ts)) \union {n} /\ DOMAIN ts = 1 .. Len(ts)
    BY <1>1
  <2>2. \A i \in DOMAIN us :
          IsPrefixed(us[i]) <=> IF i = n THEN IsPrefixed(t) ELSE IsPrefixed(ts[i])
    BY <1>1, <2>1
  <2> HIDE DEF n
  <2>3. QED
    BY <1>2, <2>1, <2>2 DEF Prefixed
<1> HIDE DEF n
<1>4. Cardinality(Prefixed(us)) =
        Cardinality(Prefixed(ts)) + IF IsPrefixed(t) THEN 1 ELSE 0
  <2>1. CASE IsPrefixed(t)
    BY <1>2, <1>3, <2>1, PrefixedFinite, FS_AddElement
  <2>2. CASE ~IsPrefixed(t)
    BY <1>3, <2>2, PrefixedFinite
  <2>3. QED
    BY <2>1, <2>2
<1>5. QED
  BY <1>1, <1>2, <1>3, <1>4 DEF us, n

LEMMA ClosedItems ==
  ASSUME NEW ts \in Seq(Token), ts # <<>>
  PROVE  LET us == Front(ts)
             n == Len(ts)
         IN /\ n \in Nat \ {0} /\ Last(ts) = ts[n] /\ ts[n] \in Token
            /\ us \in Seq(Token) /\ Len(us) = n - 1
            /\ \A i \in 1 .. n - 1 : us[i] = ts[i]
            /\ Prefixed(us) = Prefixed(ts) \ {n}
            /\ n \in Prefixed(ts) <=> IsPrefixed(ts[n])
            /\ Cardinality(Prefixed(us)) =
                 Cardinality(Prefixed(ts)) - IF IsPrefixed(ts[n]) THEN 1 ELSE 0
<1> DEFINE us == Front(ts)
           n == Len(ts)
<1>1. n \in Nat \ {0} /\ Last(ts) = ts[n] /\ ts[n] \in Token
  BY DEF Last
<1>2. /\ us \in Seq(Token) /\ Len(us) = n - 1
      /\ \A i \in 1 .. n - 1 : us[i] = ts[i]
  <2>1. us = SubSeq(ts, 1, n - 1)
    BY DEF Front
  <2>2. PICK m \in Nat : m = n - 1 /\ m <= Len(ts)
    <3>1. \A k \in Nat \ {0} : k - 1 \in Nat /\ k - 1 <= k
      OBVIOUS
    <3>2. QED
      BY <1>1, <3>1
  <2>3. SubSeq(ts, 1, m) \in Seq(Token)
    BY <2>2
  <2>4. Len(SubSeq(ts, 1, m)) = m
    BY <2>2
  <2>5. \A i \in 1 .. m : SubSeq(ts, 1, m)[i] = ts[i]
    BY <2>2
  <2>6. QED
    BY <2>1, <2>2, <2>3, <2>4, <2>5, Zenon
<1> HIDE DEF us
<1>3. Prefixed(us) = Prefixed(ts) \ {n} /\ (n \in Prefixed(ts) <=> IsPrefixed(ts[n]))
  <2>1. DOMAIN us = (1 .. n) \ {n} /\ DOMAIN ts = 1 .. n /\ n \in 1 .. n
    <3>1. DOMAIN us = 1 .. n - 1
      BY <1>1, <1>2
    <3>2. 1 .. n - 1 = (1 .. n) \ {n} /\ n \in 1 .. n
      BY <1>1
    <3>3. QED
      BY <3>1, <3>2
  <2>2. \A i \in DOMAIN us : us[i] = ts[i]
    BY <1>1, <1>2
  <2> HIDE DEF n
  <2>3. QED
    BY <2>1, <2>2 DEF Prefixed
<1> HIDE DEF n
<1>4. Cardinality(Prefixed(us)) =
        Cardinality(Prefixed(ts)) - IF IsPrefixed(ts[n]) THEN 1 ELSE 0
  <2>1. CASE IsPrefixed(ts[n])
    BY <1>3, <2>1, PrefixedFinite, FS_RemoveElement
  <2>2. CASE ~IsPrefixed(ts[n])
    <3>1. Prefixed(us) = Prefixed(ts)
      BY <1>3, <2>2
    <3>2. QED
      BY <2>2, <3>1, PrefixedFinite
  <2>3. QED
    BY <2>1, <2>2
<1>5. QED
  BY <1>1, <1>2, <1>3, <1>4 DEF us, n

\* A group keeps no room in the buffer.
LEMMA SameRooms ==
  ASSUME NEW ts, NEW us, NEW b, BufInv(b, ts), Nested(ts),
         Prefixed(us) = Prefixed(ts), \A i \in Prefixed(ts) : us[i] = ts[i]
  PROVE  BufInv(b, us) /\ Nested(us)
BY DEF BufInv, HolesAreRoom, Nested

LEMMA Typed ==
  ASSUME NEW ts \in Seq(Token), NEW i \in Prefixed(ts)
  PROVE  /\ i \in 1 .. Len(ts) /\ ts[i] \in Token
         /\ ts[i].value \in Int /\ Room(ts[i].style) \in Nat
<1>1. i \in 1 .. Len(ts) /\ ts[i] \in Token
  BY DEF Prefixed
<1>2. QED
  BY <1>1, RoomIsNat DEF Token

LEMMA Joined ==
  ASSUME NEW s1 \in Seq(Cell), NEW s2 \in Seq(Cell)
  PROVE  /\ s1 \o s2 \in Seq(Cell) /\ Len(s1 \o s2) = Len(s1) + Len(s2)
         /\ \A i \in 1 .. Len(s1) : (s1 \o s2)[i] = s1[i]
         /\ \A i \in 1 .. Len(s2) : (s1 \o s2)[Len(s1) + i] = s2[i]
<1>1. /\ s1 \o s2 \in Seq(Cell) /\ Len(s1 \o s2) = Len(s1) + Len(s2)
      /\ \A i \in 1 .. Len(s1) + Len(s2) : (s1 \o s2)[i] =
           IF i <= Len(s1) THEN s1[i] ELSE s2[i - Len(s1)]
  BY ConcatProperties
<1>2. Len(s1) \in Nat /\ Len(s2) \in Nat
  OBVIOUS
<1>3. \A l, r \in Nat :
        /\ \A i \in 1 .. l : i \in 1 .. l + r /\ i <= l
        /\ \A i \in 1 .. r : l + i \in 1 .. l + r /\ ~(l + i <= l) /\ (l + i) - l = i
  OBVIOUS
<1>4. QED
  BY <1>1, <1>2, <1>3

\* Room for a length behind the rest of the buffer.
LEMMA ReserveInv ==
  ASSUME NEW ts \in Seq(Token), NEW b, BufInv(b, ts), Nested(ts),
         NEW t \in Token, IsPrefixed(t), t.value = Len(b.buffer),
         NEW r \in Nat, r = Room(t.style), r <= b.size - Len(b.buffer),
         t.start = b.position + r
  PROVE  /\ BufInv(Built(b.dest, b.buffer \o Holes(r), b.size, b.position + r),
                   Append(ts, t))
         /\ Nested(Append(ts, t))
<1>0. /\ b \in Buffers
      /\ b.dest \in Seq(Cell) /\ b.buffer \in Seq(Cell)
      /\ b.size \in Nat /\ b.position \in Nat
      /\ Len(b.dest) \in Nat /\ Len(b.buffer) \in Nat
  BY BufferTypes
<1>1. PICK k \in Nat, l \in Nat : k = Len(b.dest) /\ l = Len(b.buffer)
  BY <1>0
<1>2. b.position = k + l /\ r <= b.size - l /\ t.value = l /\ t.start = k + l + r
  BY <1>1, BufferTypes
<1> DEFINE y == b.buffer \o Holes(r)
           e == Built(b.dest, y, b.size, b.position + r)
           us == Append(ts, t)
           m == Len(ts) + 1
<1>3. /\ y \in Seq(Cell) /\ Len(y) = l + r
      /\ \A i \in 1 .. l : y[i] = b.buffer[i]
      /\ \A i \in 1 .. r : y[l + i] = Hole
  <2>1. /\ Holes(r) \in Seq(Cell) /\ Len(Holes(r)) = r
        /\ \A i \in 1 .. r : Holes(r)[i] = Hole
    BY CellsWritten
  <2>2. PICK s1 \in Seq(Cell), s2 \in Seq(Cell) : s1 = b.buffer /\ s2 = Holes(r)
    BY <1>0, <2>1
  <2>3. y = s1 \o s2
    BY <2>2
  <2>4. Len(s1) = l /\ Len(s2) = r
    BY <1>1, <2>1, <2>2
  <2> HIDE DEF y
  <2>5. /\ y \in Seq(Cell) /\ Len(y) = l + r
        /\ \A i \in 1 .. l : y[i] = s1[i]
        /\ \A i \in 1 .. r : y[l + i] = s2[i]
    <3>1. /\ s1 \o s2 \in Seq(Cell) /\ Len(s1 \o s2) = Len(s1) + Len(s2)
          /\ \A i \in 1 .. Len(s1) : (s1 \o s2)[i] = s1[i]
          /\ \A i \in 1 .. Len(s2) : (s1 \o s2)[Len(s1) + i] = s2[i]
      BY Joined, Zenon
    <3>2. QED
      BY <2>3, <2>4, <3>1, Zenon
  <2>6. QED
    BY <2>1, <2>2, <2>5
<1> HIDE DEF y
<1>4. /\ us[m] = t /\ Prefixed(us) = Prefixed(ts) \union {m}
      /\ \A i \in Prefixed(ts) : i < m /\ us[i] = ts[i]
  <2>1. \A i \in Prefixed(ts) : i \in 1 .. Len(ts)
    BY DEF Prefixed
  <2>2. QED
    BY <2>1, OpenedItems
<1> HIDE DEF us, m
<1>5. e.dest = b.dest /\ e.buffer = y /\ e.size = b.size /\ e.position = k + l + r
  BY <1>2 DEF Built
<1>6. IsBuffer(e)
  <2>1. k + l + r \in Nat /\ b.position + r = k + l + r
    BY <1>2
  <2>2. e \in Buffers
    BY <1>0, <1>3, <2>1 DEF Built, Buffers
  <2>3. Len(y) <= b.size /\ k + l + r = k + Len(y)
    BY <1>0, <1>2, <1>3
  <2> HIDE DEF e
  <2>4. QED
    BY <1>1, <1>5, <2>2, <2>3 DEF IsBuffer
<1> HIDE DEF e
<1>7. ASSUME NEW i \in Prefixed(ts)
      PROVE  /\ RoomAt(e, ts[i])
             /\ ts[i].value + Room(ts[i].style) <= l
  <2>1. PICK v \in Int, q \in Nat : v = ts[i].value /\ q = Room(ts[i].style)
    BY Typed
  <2>2. /\ v >= 0 /\ v + q <= l /\ k + v + q = ts[i].start
        /\ \A j \in 1 .. q : b.buffer[v + j] = Hole
    BY <1>1, <2>1 DEF BufInv, RoomAt
  <2>3. \A j \in 1 .. q : v + j \in 1 .. l
    BY <2>2
  <2>4. v + q <= l + r
    BY <2>2
  <2>5. QED
    BY <1>1, <1>3, <1>5, <2>1, <2>2, <2>3, <2>4 DEF RoomAt
<1>8. RoomAt(e, t)
  BY <1>1, <1>2, <1>3, <1>5 DEF RoomAt
<1>9. ASSUME NEW p \in DOMAIN e.buffer, e.buffer[p] = Hole
      PROVE  \E i \in Prefixed(us) : InRoom(us[i], p)
  <2>1. p \in 1 .. l + r /\ y[p] = Hole
    BY <1>3, <1>5, <1>9
  <2>2. CASE p <= l
    <3>1. p \in DOMAIN b.buffer /\ b.buffer[p] = Hole
      BY <1>0, <1>1, <1>3, <2>1, <2>2
    <3>2. PICK i \in Prefixed(ts) : InRoom(ts[i], p)
      BY <3>1 DEF BufInv, HolesAreRoom
    <3>3. QED
      BY <1>4, <3>2
  <2>3. CASE p > l
    BY <1>2, <1>4, <2>1, <2>3 DEF InRoom
  <2>4. QED
    BY <2>1, <2>2, <2>3
<1>10. \A i \in DOMAIN e.dest : e.dest[i] # Hole
  BY <1>5 DEF BufInv, HolesAreRoom
<1>11. BufInv(e, us)
  <2>1. \A i \in Prefixed(us) : RoomAt(e, us[i])
    BY <1>4, <1>7, <1>8
  <2>2. QED
    BY <1>6, <1>9, <1>10, <2>1 DEF BufInv, HolesAreRoom
<1>12. Nested(us)
  <2>1. SUFFICES ASSUME NEW i \in Prefixed(us), NEW j \in Prefixed(us), i < j
                 PROVE  us[i].value + Room(us[i].style) <= us[j].value
    BY DEF Nested
  <2>2. CASE j = m
    <3>1. i \in Prefixed(ts)
      BY <1>4, <2>1, <2>2 DEF m
    <3>2. QED
      BY <1>2, <1>4, <1>7, <2>2, <3>1
  <2>3. CASE j # m
    <3>1. j \in Prefixed(ts) /\ i \in Prefixed(ts)
      <4>1. j \in Prefixed(ts) /\ j \in 1 .. Len(ts)
        BY <1>4, <2>3 DEF Prefixed
      <4>2. i # m
        BY <2>1, <4>1 DEF m
      <4>3. QED
        BY <1>4, <4>1, <4>2
    <3>2. QED
      BY <1>4, <2>1, <3>1 DEF Nested
  <2>4. QED
    BY <2>2, <2>3
<1>13. QED
  BY <1>11, <1>12 DEF e, y, us

\* The room of the innermost item is filled in, and what follows it moves on by
\* as much as the length is longer than its room.
Filling(y, v, r, cells) == SubSeq(y, 1, v) \o cells \o SubSeq(y, v + r + 1, Len(y))

LEMMA Slice ==
  ASSUME NEW y \in Seq(Cell), NEW m \in Nat, NEW n \in Nat, m + n <= Len(y)
  PROVE  /\ SubSeq(y, m + 1, m + n) \in Seq(Cell)
         /\ Len(SubSeq(y, m + 1, m + n)) = n
         /\ \A i \in 1 .. n : SubSeq(y, m + 1, m + n)[i] = y[m + i]
<1>1. SubSeq(y, m + 1, m + n) \in Seq(Cell)
  OBVIOUS
<1>2. Len(SubSeq(y, m + 1, m + n)) = n
  OBVIOUS
<1>3. \A i \in 1 .. n : SubSeq(y, m + 1, m + n)[i] = y[m + i]
  OBVIOUS
<1>4. QED
  BY <1>1, <1>2, <1>3

LEMMA FirstSlice ==
  ASSUME NEW y \in Seq(Cell), NEW n \in Nat, n <= Len(y)
  PROVE  /\ SubSeq(y, 1, n) \in Seq(Cell)
         /\ Len(SubSeq(y, 1, n)) = n
         /\ \A i \in 1 .. n : SubSeq(y, 1, n)[i] = y[i]
<1>1. SubSeq(y, 1, n) \in Seq(Cell)
  OBVIOUS
<1>2. Len(SubSeq(y, 1, n)) = n
  OBVIOUS
<1>3. \A i \in 1 .. n : SubSeq(y, 1, n)[i] = y[i]
  OBVIOUS
<1>4. QED
  BY <1>1, <1>2, <1>3

IsFilling(z, y, v, r, cells, w, x) ==
  /\ z \in Seq(Cell) /\ Len(z) = v + w + x
  /\ \A i \in 1 .. v : z[i] = y[i]
  /\ \A i \in 1 .. w : z[v + i] = cells[i]
  /\ \A i \in 1 .. x : z[v + w + i] = y[v + r + i]

LEMMA FillingIs ==
  ASSUME NEW y \in Seq(Cell),
         NEW v \in Nat, NEW r \in Nat, NEW x \in Nat, Len(y) = v + r + x,
         NEW cells \in Seq(Cell), NEW w \in Nat, w = Len(cells)
  PROVE  IsFilling(Filling(y, v, r, cells), y, v, r, cells, w, x)
<1>1. PICK s1 : s1 = SubSeq(y, 1, v)
  OBVIOUS
<1>2. PICK s3 : s3 = SubSeq(y, v + r + 1, Len(y))
  OBVIOUS
<1>3. /\ s1 \in Seq(Cell) /\ Len(s1) = v
      /\ \A i \in 1 .. v : s1[i] = y[i]
  <2>1. v <= Len(y)
    OBVIOUS
  <2>2. QED
    BY <1>1, <2>1, FirstSlice
<1>4. /\ s3 \in Seq(Cell) /\ Len(s3) = x
      /\ \A i \in 1 .. x : s3[i] = y[v + r + i]
  <2>1. PICK m \in Nat : m = v + r
    OBVIOUS
  <2>2. Len(y) = m + x /\ m + x <= Len(y)
    BY <2>1
  <2>3. s3 = SubSeq(y, m + 1, m + x)
    BY <1>2, <2>1, <2>2
  <2>4. /\ SubSeq(y, m + 1, m + x) \in Seq(Cell)
        /\ Len(SubSeq(y, m + 1, m + x)) = x
        /\ \A i \in 1 .. x : SubSeq(y, m + 1, m + x)[i] = y[m + i]
    BY <2>2, Slice
  <2>5. QED
    BY <2>1, <2>3, <2>4
<1>5. PICK s2 : s2 = s1 \o cells
  OBVIOUS
<1>6. /\ s2 \in Seq(Cell) /\ Len(s2) = v + w
      /\ \A i \in 1 .. v : s2[i] = s1[i]
      /\ \A i \in 1 .. w : s2[v + i] = cells[i]
  BY <1>3, <1>5, Joined
<1>7. PICK z : z = s2 \o s3
  OBVIOUS
<1>8. /\ z \in Seq(Cell) /\ Len(z) = Len(s2) + Len(s3)
      /\ \A i \in 1 .. Len(s2) : z[i] = s2[i]
      /\ \A i \in 1 .. Len(s3) : z[Len(s2) + i] = s3[i]
  <2>1. s2 \in Seq(Cell) /\ s3 \in Seq(Cell)
    BY <1>4, <1>6
  <2>2. QED
    BY <1>7, <2>1, Joined
<1>9. /\ Len(z) = v + w + x
      /\ \A i \in 1 .. v + w : z[i] = s2[i]
      /\ \A i \in 1 .. x : z[v + w + i] = s3[i]
  <2>1. Len(s2) = v + w /\ Len(s3) = x
    BY <1>4, <1>6
  <2>2. QED
    BY <1>8, <2>1, Zenon
<1>10. /\ \A i \in 1 .. v : i \in 1 .. v + w
       /\ \A i \in 1 .. w : v + i \in 1 .. v + w
  OBVIOUS
<1>11. /\ \A i \in 1 .. v : z[i] = y[i]
       /\ \A i \in 1 .. w : z[v + i] = cells[i]
       /\ \A i \in 1 .. x : z[v + w + i] = y[v + r + i]
  <2>1. \A i \in 1 .. v : z[i] = y[i]
    BY <1>3, <1>6, <1>9, <1>10, Zenon
  <2>2. \A i \in 1 .. w : z[v + i] = cells[i]
    BY <1>6, <1>9, <1>10, Zenon
  <2>3. \A i \in 1 .. x : z[v + w + i] = y[v + r + i]
    BY <1>4, <1>9, Zenon
  <2>4. QED
    BY <2>1, <2>2, <2>3
<1>12. Filling(y, v, r, cells) = z
  BY <1>1, <1>2, <1>5, <1>7, Zenon DEF Filling
<1>13. QED
  BY <1>8, <1>9, <1>11, <1>12, Zenon DEF IsFilling

\* o: by how much the cells are more than their room r at v.
Fillable(ts, b, v, r, cells, o) ==
  /\ ts # <<>> /\ IsPrefixed(Last(ts))
  /\ v = Last(ts).value /\ r = Room(Last(ts).style)
  /\ Len(cells) = r + o
  /\ o <= b.size - Len(b.buffer)

LEMMA FillInv ==
  ASSUME NEW ts \in Seq(Token), NEW b, BufInv(b, ts), Nested(ts),
         NEW v \in Nat, NEW r \in Nat, NEW cells \in Seq(Filled), NEW o \in Nat,
         Fillable(ts, b, v, r, cells, o)
  PROVE  /\ BufInv(Built(b.dest, Filling(b.buffer, v, r, cells),
                         b.size, b.position + o), Front(ts))
         /\ Nested(Front(ts))
<1>0. /\ b \in Buffers
      /\ b.dest \in Seq(Cell) /\ b.buffer \in Seq(Cell)
      /\ b.size \in Nat /\ b.position \in Nat
      /\ Len(b.dest) \in Nat /\ Len(b.buffer) \in Nat
  BY BufferTypes
<1>1. PICK k \in Nat, l \in Nat, w \in Nat :
        k = Len(b.dest) /\ l = Len(b.buffer) /\ w = r + o
  BY <1>0
<1>2. b.position = k + l /\ o <= b.size - l /\ Len(cells) = w
  BY <1>1, BufferTypes DEF Fillable
<1> DEFINE us == Front(ts)
           n == Len(ts)
           z == Filling(b.buffer, v, r, cells)
           e == Built(b.dest, z, b.size, b.position + o)
<1>3. /\ n \in Nat /\ n \in Prefixed(ts) /\ v = ts[n].value /\ r = Room(ts[n].style)
      /\ Prefixed(us) = Prefixed(ts) \ {n}
      /\ \A i \in Prefixed(us) : us[i] = ts[i] /\ i \in Prefixed(ts) /\ i < n
  <2>1. \A i \in Prefixed(us) : i \in 1 .. Len(us)
    BY DEF Prefixed
  <2>2. /\ n \in Nat \ {0} /\ Last(ts) = ts[n] /\ Len(us) = n - 1
        /\ \A i \in 1 .. n - 1 : us[i] = ts[i]
        /\ Prefixed(us) = Prefixed(ts) \ {n}
        /\ (n \in Prefixed(ts) <=> IsPrefixed(ts[n]))
    BY ClosedItems DEF Fillable
  <2> HIDE DEF us, n
  <2>3. ASSUME NEW i \in Prefixed(us) PROVE i \in 1 .. n - 1
    BY <2>1, <2>2
  <2>4. QED
    BY <2>2, <2>3 DEF Fillable
<1> HIDE DEF us, n
<1>4. PICK x \in Nat : l = v + r + x
  <2>1. v + r <= l
    BY <1>1, <1>3 DEF BufInv, RoomAt
  <2>2. l - v - r \in Nat /\ l = v + r + (l - v - r)
    BY <2>1
  <2>3. QED
    BY <2>2
<1>5. cells \in Seq(Cell) /\ \A i \in 1 .. w : cells[i] # Hole
  BY <1>1, <1>2, HoleIsNotFilled DEF Cell
<1>6. /\ z \in Seq(Cell) /\ Len(z) = v + w + x
      /\ \A i \in 1 .. v : z[i] = b.buffer[i]
      /\ \A i \in 1 .. w : z[v + i] = cells[i]
      /\ \A i \in 1 .. x : z[v + w + i] = b.buffer[v + r + i]
  <2>1. PICK y \in Seq(Cell) : y = b.buffer
    BY <1>0
  <2>2. cells \in Seq(Cell) /\ Len(y) = v + r + x /\ w = Len(cells)
    BY <1>1, <1>2, <1>4, <1>5, <2>1
  <2>3. IsFilling(Filling(y, v, r, cells), y, v, r, cells, w, x)
    BY <2>2, FillingIs, Zenon
  <2>4. QED
    BY <2>1, <2>3 DEF IsFilling
<1> HIDE DEF z
<1>7. Len(z) = l + o
  BY <1>1, <1>4, <1>6
<1>8. /\ e.dest = b.dest /\ e.buffer = z /\ e.size = b.size
      /\ e.position = k + l + o
  BY <1>2 DEF Built
<1>9. IsBuffer(e)
  <2>1. k + l + o \in Nat /\ b.position + o = k + l + o
    BY <1>2
  <2>2. e \in Buffers
    BY <1>0, <1>6, <2>1 DEF Built, Buffers
  <2>3. Len(z) <= b.size /\ k + l + o = k + Len(z)
    BY <1>0, <1>2, <1>7
  <2> HIDE DEF e
  <2>4. QED
    BY <1>1, <1>8, <2>2, <2>3 DEF IsBuffer
<1> HIDE DEF e
<1>10. ASSUME NEW i \in Prefixed(us)
       PROVE  RoomAt(e, us[i]) /\ ts[i].value + Room(ts[i].style) <= v
  <2>1. i \in Prefixed(ts) /\ us[i] = ts[i] /\ i < n
    BY <1>3
  <2>2. PICK u \in Int, q \in Nat : u = ts[i].value /\ q = Room(ts[i].style)
    BY <2>1, Typed
  <2>3. /\ u >= 0 /\ u + q <= l /\ k + u + q = ts[i].start
        /\ \A j \in 1 .. q : b.buffer[u + j] = Hole
    BY <1>1, <2>1, <2>2 DEF BufInv, RoomAt
  <2>4. u + q <= v
    BY <1>3, <2>1, <2>2 DEF Nested
  <2>5. (\A j \in 1 .. q : u + j \in 1 .. v) /\ u + q <= l + o
    BY <2>3, <2>4
  <2>6. \A j \in 1 .. q : z[u + j] = Hole
    BY <1>6, <2>3, <2>5
  <2>7. RoomAt(e, ts[i])
    BY <1>1, <1>7, <1>8, <2>2, <2>3, <2>5, <2>6 DEF RoomAt
  <2>8. QED
    BY <2>1, <2>2, <2>4, <2>7
<1>11. ASSUME NEW p \in DOMAIN e.buffer, e.buffer[p] = Hole
       PROVE  \E i \in Prefixed(us) : InRoom(us[i], p)
  <2>1. p \in 1 .. l + o /\ z[p] = Hole
    BY <1>6, <1>7, <1>8, <1>11
  <2>2. CASE p <= v
    <3>1. p \in DOMAIN b.buffer /\ b.buffer[p] = Hole
      <4>1. p \in 1 .. v /\ p \in 1 .. l
        BY <1>4, <2>1, <2>2
      <4>2. b.buffer[p] = Hole
        BY <1>6, <2>1, <4>1
      <4>3. QED
        BY <1>0, <1>1, <4>1, <4>2
    <3>2. PICK i \in Prefixed(ts) : InRoom(ts[i], p)
      BY <3>1 DEF BufInv, HolesAreRoom
    <3>3. i # n
      BY <1>3, <2>1, <2>2, <3>2 DEF InRoom
    <3>4. QED
      BY <1>3, <3>2, <3>3
  <2>3. CASE p > v /\ p <= v + w
    <3>1. p - v \in 1 .. w /\ v + (p - v) = p
      BY <2>1, <2>3
    <3>2. QED
      BY <1>5, <1>6, <2>1, <3>1
  <2>4. CASE p > v + w
    <3>1. PICK g \in 1 .. x : p = v + w + g
      <4>1. p \in Nat /\ p <= v + w + x
        BY <1>1, <1>4, <2>1
      <4>2. p - (v + w) \in 1 .. x /\ p = v + w + (p - (v + w))
        BY <2>4, <4>1
      <4>3. QED
        BY <4>2
    <3>2. v + r + g \in DOMAIN b.buffer /\ b.buffer[v + r + g] = Hole
      <4>1. v + r + g \in 1 .. l
        BY <1>4
      <4>2. b.buffer[v + r + g] = Hole
        BY <1>6, <2>1, <3>1
      <4>3. QED
        BY <1>0, <1>1, <4>1, <4>2
    <3>3. PICK i \in Prefixed(ts) : InRoom(ts[i], v + r + g)
      BY <3>2 DEF BufInv, HolesAreRoom
    <3>4. PICK u \in Int, q \in Nat : u = ts[i].value /\ q = Room(ts[i].style)
      BY Typed
    <3>5. u < v + r + g /\ v + r + g <= u + q
      BY <3>3, <3>4 DEF InRoom
    <3>6. CASE i = n
      <4>1. u = v /\ q = r
        BY <1>3, <3>4, <3>6
      <4>2. QED
        BY <3>5, <4>1
    <3>7. CASE i # n
      <4>1. u + q <= v
        BY <1>3, <1>10, <3>4, <3>7
      <4>2. QED
        BY <3>5, <4>1
    <3>8. QED
      BY <3>6, <3>7
  <2>5. QED
    <3>1. p \in Nat /\ v + w \in Nat
      BY <2>1
    <3>2. QED
      BY <2>2, <2>3, <2>4, <3>1
<1>12. BufInv(e, us)
  <2>1. \A i \in DOMAIN e.dest : e.dest[i] # Hole
    BY <1>8 DEF BufInv, HolesAreRoom
  <2>2. QED
    BY <1>9, <1>10, <1>11, <2>1 DEF BufInv, HolesAreRoom
<1>13. Nested(us)
  BY <1>3 DEF Nested
<1>14. QED
  BY <1>12, <1>13 DEF e, z, us

-----------------------------------------------------------------------------
(* The recursion stack.                                                    *)

LEMMA PushStack ==
  ASSUME RecursionStackMatches, tokens \in Seq(Token), NEW o, Push(o), ~Repeated(o),
         NEW t \in Token, t.object = o, tokens' = Append(tokens, t)
  PROVE  RecursionStackMatches'
<1> DEFINE n == Len(tokens)
           k == n - RecursionCheckDepth
<1>1. /\ n \in Nat /\ RecursionCheckDepth \in Nat
      /\ tokens' \in Seq(Token) /\ Len(tokens') = n + 1 /\ tokens'[n + 1] = t
      /\ \A i \in 1 .. n : tokens'[i] = tokens[i]
  BY OpenedItems, WriterAssumption
<1>2. depth = n /\ depth' = n + 1
  BY DEF RecursionStackMatches, Push
<1>3. /\ recursionStack = [i \in 1 .. k |-> tokens[RecursionCheckDepth + i].object]
      /\ \A i, j \in 1 .. k :
           recursionStack[i] = recursionStack[j] /\ recursionStack[i] # NoObject => i = j
  BY <1>2 DEF RecursionStackMatches
<1>4. /\ DOMAIN recursionStack = 1 .. k
      /\ \A i \in 1 .. k : recursionStack[i] = tokens[RecursionCheckDepth + i].object
  BY <1>3
<1>5. CASE n + 1 > RecursionCheckDepth
  <2>1. k \in Nat /\ recursionStack' = Append(recursionStack, o)
    BY <1>1, <1>2, <1>5 DEF Push
  <2>2. recursionStack \in Seq(Objects \union {NoObject}) /\ Len(recursionStack) = k
    <3>1. ASSUME NEW i \in 1 .. k
          PROVE  tokens[RecursionCheckDepth + i].object \in Objects \union {NoObject}
      <4>1. RecursionCheckDepth + i \in 1 .. n
        BY <1>1
      <4>2. tokens[RecursionCheckDepth + i] \in Token
        BY <4>1
      <4>3. QED
        BY <4>2 DEF Token
    <3>2. k \in Nat /\ DOMAIN recursionStack = 1 .. k
      BY <1>3, <2>1
    <3>3. \A i \in 1 .. k : recursionStack[i] \in Objects \union {NoObject}
      BY <1>3, <3>1
    <3>4. recursionStack = [i \in 1 .. k |-> recursionStack[i]]
      BY <1>3
    <3>5. recursionStack \in [1 .. k -> Objects \union {NoObject}]
      BY <3>3, <3>4
    <3> HIDE DEF k
    <3>6. \A f \in [1 .. k -> Objects \union {NoObject}] :
            f \in Seq(Objects \union {NoObject}) /\ Len(f) = k
      BY <3>2
    <3>7. QED
      BY <3>5, <3>6
  <2>3. /\ o \in Objects \union {NoObject}
    BY DEF Token
  <2>4. /\ Len(recursionStack') = k + 1 /\ recursionStack'[k + 1] = o
        /\ \A i \in 1 .. k : recursionStack'[i] = recursionStack[i]
        /\ recursionStack' \in Seq(Objects \union {NoObject})
    BY <2>1, <2>2, <2>3, AppendProperties
  <2>5. k + 1 = depth' - RecursionCheckDepth
    BY <1>1, <1>2
  <2>6. ASSUME NEW i \in 1 .. k + 1
        PROVE  recursionStack'[i] = tokens'[RecursionCheckDepth + i].object
    <3>1. CASE i \in 1 .. k
      <4>1. RecursionCheckDepth + i \in 1 .. n
        BY <1>1, <3>1
      <4>2. QED
        BY <1>1, <1>4, <2>4, <3>1, <4>1
    <3>2. CASE i = k + 1
      <4>1. RecursionCheckDepth + i = n + 1
        BY <1>1, <3>2
      <4>2. tokens'[RecursionCheckDepth + i] = t
        BY <1>1, <4>1, Zenon
      <4>3. recursionStack'[i] = o
        BY <2>4, <3>2, Zenon
      <4>4. tokens'[RecursionCheckDepth + i].object = t.object
        BY <4>2, Zenon
      <4>5. t.object = o
        OBVIOUS
      <4>6. QED
        BY <4>3, <4>4, <4>5, Zenon
    <3>3. \A m \in 1 .. k + 1 : m \in 1 .. k \/ m = k + 1
      BY <2>1
    <3>4. QED
      BY <3>1, <3>2, <3>3, Zenon
  <2>7. recursionStack' = [i \in 1 .. k + 1 |-> tokens'[RecursionCheckDepth + i].object]
    <3>1. recursionStack' = [i \in 1 .. k + 1 |-> recursionStack'[i]]
      BY <2>4
    <3>2. QED
      BY <2>6, <3>1
  <2>8. ASSUME NEW i \in 1 .. k + 1, NEW j \in 1 .. k + 1,
               recursionStack'[i] = recursionStack'[j],
               recursionStack'[i] # NoObject
        PROVE  i = j
    <3>1. o # NoObject => \A m \in 1 .. k : recursionStack[m] # o
      BY <1>2, <1>4, <1>5 DEF Repeated
    <3>2. \A m \in 1 .. k + 1 : m \in 1 .. k \/ m = k + 1
      BY <2>1
    <3>3. CASE i \in 1 .. k /\ j \in 1 .. k
      BY <1>3, <2>4, <2>8, <3>3
    <3>4. CASE i = k + 1 /\ j \in 1 .. k
      BY <2>4, <2>8, <3>1, <3>4
    <3>5. CASE j = k + 1 /\ i \in 1 .. k
      BY <2>4, <2>8, <3>1, <3>5
    <3>6. QED
      BY <3>2, <3>3, <3>4, <3>5
  <2>9. DOMAIN recursionStack' = 1 .. k + 1
    BY <2>4
  <2>10. depth' = Len(tokens')
    BY <1>1, <1>2
  <2>11. recursionStack' = [i \in 1 .. depth' - RecursionCheckDepth |->
                             tokens'[RecursionCheckDepth + i].object]
    BY <2>5, <2>7, Zenon
  <2>12. \A i, j \in DOMAIN recursionStack' :
           recursionStack'[i] = recursionStack'[j] /\ recursionStack'[i] # NoObject => i = j
    <3>1. \A i, j \in 1 .. k + 1 :
            recursionStack'[i] = recursionStack'[j] /\ recursionStack'[i] # NoObject => i = j
      BY <2>8
    <3>2. QED
      BY <2>9, <3>1, Zenon
  <2>13. QED
    BY <2>10, <2>11, <2>12, Zenon DEF RecursionStackMatches
<1>6. CASE ~(n + 1 > RecursionCheckDepth)
  <2>1. recursionStack' = recursionStack
    BY <1>2, <1>6 DEF Push
  <2>2. 1 .. k = {} /\ 1 .. depth' - RecursionCheckDepth = {}
    BY <1>1, <1>2, <1>6
  <2>3. recursionStack' =
          [i \in 1 .. depth' - RecursionCheckDepth |->
             tokens'[RecursionCheckDepth + i].object]
    BY <1>3, <2>1, <2>2
  <2>4. DOMAIN recursionStack' = {}
    BY <2>2, <2>3
  <2>5. depth' = Len(tokens')
    BY <1>1, <1>2
  <2>6. \A i, j \in DOMAIN recursionStack' :
          recursionStack'[i] = recursionStack'[j] /\ recursionStack'[i] # NoObject => i = j
    BY <2>4
  <2>7. QED
    BY <2>3, <2>5, <2>6, Zenon DEF RecursionStackMatches
<1>7. QED
  BY <1>5, <1>6

LEMMA PopStack ==
  ASSUME RecursionStackMatches, tokens \in Seq(Token), Ending
  PROVE  RecursionStackMatches'
<1> DEFINE n == Len(tokens)
           k == n - RecursionCheckDepth
<1>1. /\ n \in Nat \ {0} /\ RecursionCheckDepth \in Nat
      /\ Len(tokens') = n - 1
      /\ \A i \in 1 .. n - 1 : tokens'[i] = tokens[i]
  BY ClosedItems, WriterAssumption DEF Ending
<1>2. depth = n /\ depth' = n - 1
  BY DEF RecursionStackMatches, Ending
<1>3. /\ recursionStack = [i \in 1 .. k |-> tokens[RecursionCheckDepth + i].object]
      /\ \A i, j \in 1 .. k :
           recursionStack[i] = recursionStack[j] /\ recursionStack[i] # NoObject => i = j
  BY <1>2 DEF RecursionStackMatches
<1>4. CASE n > RecursionCheckDepth
  <2>1. k \in Nat \ {0} /\ recursionStack' = Front(recursionStack)
    BY <1>1, <1>2, <1>4 DEF Ending
  <2>2. recursionStack \in Seq(Objects \union {NoObject}) /\ Len(recursionStack) = k
    <3>1. ASSUME NEW i \in 1 .. k
          PROVE  tokens[RecursionCheckDepth + i].object \in Objects \union {NoObject}
      <4>1. RecursionCheckDepth + i \in 1 .. n
        BY <1>1
      <4>2. tokens[RecursionCheckDepth + i] \in Token
        BY <4>1
      <4>3. QED
        BY <4>2 DEF Token
    <3>2. k \in Nat /\ DOMAIN recursionStack = 1 .. k
      BY <1>3, <2>1
    <3>3. \A i \in 1 .. k : recursionStack[i] \in Objects \union {NoObject}
      BY <1>3, <3>1
    <3>4. recursionStack = [i \in 1 .. k |-> recursionStack[i]]
      BY <1>3
    <3>5. recursionStack \in [1 .. k -> Objects \union {NoObject}]
      BY <3>3, <3>4
    <3> HIDE DEF k
    <3>6. \A f \in [1 .. k -> Objects \union {NoObject}] :
            f \in Seq(Objects \union {NoObject}) /\ Len(f) = k
      BY <3>2
    <3>7. QED
      BY <3>5, <3>6
  <2>3. /\ Len(recursionStack') = k - 1
        /\ \A i \in 1 .. k - 1 : recursionStack'[i] = recursionStack[i]
        /\ recursionStack' \in Seq(Objects \union {NoObject})
    BY <2>1, <2>2 DEF Front
  <2>4. ASSUME NEW i \in 1 .. k - 1
        PROVE  recursionStack'[i] = tokens'[RecursionCheckDepth + i].object
    <3>1. RecursionCheckDepth + i \in 1 .. n - 1 /\ i \in 1 .. k
      BY <1>1, <2>1
    <3>2. QED
      BY <1>1, <1>3, <2>3, <3>1
  <2>5. recursionStack' = [i \in 1 .. k - 1 |-> tokens'[RecursionCheckDepth + i].object]
    <3>1. recursionStack' = [i \in 1 .. k - 1 |-> recursionStack'[i]]
      BY <2>3
    <3>2. QED
      BY <2>4, <3>1
  <2>6. k - 1 = depth' - RecursionCheckDepth
    BY <1>1, <1>2
  <2>7. \A i \in 1 .. k - 1 : i \in 1 .. k
    BY <2>1
  <2>8. DOMAIN recursionStack' = 1 .. k - 1
    BY <2>5
  <2>9. \A i, j \in DOMAIN recursionStack' :
          recursionStack'[i] = recursionStack'[j] /\ recursionStack'[i] # NoObject => i = j
    BY <1>3, <2>3, <2>7, <2>8
  <2>10. depth' = Len(tokens')
    BY <1>1, <1>2
  <2>11. recursionStack' = [i \in 1 .. depth' - RecursionCheckDepth |->
                             tokens'[RecursionCheckDepth + i].object]
    BY <2>5, <2>6, Zenon
  <2>12. QED
    BY <2>9, <2>10, <2>11, Zenon DEF RecursionStackMatches
<1>5. CASE ~(n > RecursionCheckDepth)
  <2>1. recursionStack' = recursionStack
    BY <1>2, <1>5 DEF Ending
  <2>2. 1 .. k = {} /\ 1 .. depth' - RecursionCheckDepth = {}
    BY <1>1, <1>2, <1>5
  <2>3. recursionStack' =
          [i \in 1 .. depth' - RecursionCheckDepth |->
             tokens'[RecursionCheckDepth + i].object]
    BY <1>3, <2>1, <2>2
  <2>4. DOMAIN recursionStack' = {}
    BY <2>2, <2>3
  <2>5. depth' = Len(tokens')
    BY <1>1, <1>2
  <2>6. \A i, j \in DOMAIN recursionStack' :
          recursionStack'[i] = recursionStack'[j] /\ recursionStack'[i] # NoObject => i = j
    BY <2>4
  <2>7. QED
    BY <2>3, <2>5, <2>6, Zenon DEF RecursionStackMatches
<1>6. QED
  BY <1>4, <1>5

-----------------------------------------------------------------------------
(* The invariant.                                                          *)

\* What the tokens say: a group's, its field.
ItemsOpen ==
  /\ tokens \in Seq(Token)
  /\ flushLock = Cardinality(Prefixed(tokens))
  /\ Nested(tokens)
  /\ \A i \in DOMAIN tokens : ~IsPrefixed(tokens[i]) => -tokens[i].value \in Fields

HeaderKnown == /\ fieldNumber \in Fields \union {0}
               /\ wireType # "None" => fieldNumber \in Fields

CopyBypasses == /\ source \in Nat
                /\ copying = "send" => flushLock = 0

ClosedIsEmpty == status = "closed" => tokens = <<>> /\ io.buffer = <<>>

WriterInv ==
  /\ BufInv(io, tokens)
  /\ ItemsOpen
  /\ HeaderKnown
  /\ CopyBypasses
  /\ ClosedIsEmpty
  /\ RecursionStackMatches

LEMMA InvFacts ==
  ASSUME WriterInv
  PROVE  /\ tokens \in Seq(Token) /\ BufInv(io, tokens) /\ Nested(tokens)
         /\ flushLock \in Nat /\ Locked(tokens)
         /\ flushLock = 0 <=> Prefixed(tokens) = {}
<1>1. IsFiniteSet(Prefixed(tokens)) /\ flushLock = Cardinality(Prefixed(tokens))
  BY PrefixedFinite DEF WriterInv, ItemsOpen
<1>2. flushLock \in Nat /\ (flushLock = 0 <=> Prefixed(tokens) = {})
  BY <1>1, FS_CardinalityType, FS_EmptySet
<1>3. QED
  BY <1>2 DEF WriterInv, ItemsOpen, Locked

\* A step that only writes.
LEMMA ContentStep ==
  ASSUME WriterInv, BufInv(io', tokens), UNCHANGED itemVars, HeaderKnown',
         CopyBypasses', status' # "closed"
  PROVE  WriterInv'
<1>1. tokens' = tokens /\ BufInv(io', tokens')
  BY DEF itemVars
<1>2. ItemsOpen'
  BY DEF WriterInv, ItemsOpen, itemVars
<1>3. RecursionStackMatches'
  BY DEF WriterInv, RecursionStackMatches, itemVars
<1>4. QED
  BY <1>1, <1>2, <1>3 DEF WriterInv, ClosedIsEmpty

LEMMA FieldHeaderStep ==
  ASSUME WriterInv, NEW f \in Fields, NEW w \in ScalarTypes \union ItemTypes,
         WriteFieldHeader(f, w)
  PROVE  WriterInv'
<1>1. BufInv(io', tokens)
  <2>1. CASE io' = Emit(io, VarintSpace, <<Header(f, w)>>)
    <3>1. PICK cells \in Seq(Filled) : cells = <<Header(f, w)>> /\ Len(cells) = 1
      <4>1. w \in HeaderTypes
        BY DEF HeaderTypes
      <4>2. QED
        BY <4>1, CellsWritten
    <3>2. VarintSpace \in Nat /\ Len(cells) <= VarintSpace
      BY <3>1, WireAssumption
    <3>3. BufInv(Emit(io, VarintSpace, cells), tokens)
      BY <3>2, InvFacts, EmitInv
    <3>4. QED
      BY <2>1, <3>1, <3>3
  <2>2. CASE io' = io
    BY <2>2, InvFacts
  <2>3. QED
    BY <2>1, <2>2 DEF WriteFieldHeader
<1>2. UNCHANGED itemVars /\ UNCHANGED copyVars /\ status' # "closed"
  BY DEF WriteFieldHeader, MayWrite, Ready
<1>3. HeaderKnown'
  BY DEF WriteFieldHeader, HeaderKnown
<1>4. CopyBypasses'
  BY <1>2 DEF WriterInv, CopyBypasses, copyVars, itemVars
<1>5. QED
  BY <1>1, <1>2, <1>3, <1>4, ContentStep

\* Every value is written after it was asked for room for it.
LEMMA WrittenStep ==
  ASSUME WriterInv, status = "open", BufInv(io', tokens), Written
  PROVE  WriterInv'
<1>1. UNCHANGED itemVars /\ UNCHANGED copyVars /\ status' # "closed"
  BY DEF Written
<1>2. HeaderKnown'
  BY DEF WriterInv, Written, HeaderKnown
<1>3. CopyBypasses'
  BY <1>1 DEF WriterInv, CopyBypasses, copyVars, itemVars
<1>4. QED
  BY <1>1, <1>2, <1>3, ContentStep

LEMMA EmitBytes ==
  ASSUME NEW ts \in Seq(Token), NEW b, BufInv(b, ts), Locked(ts),
         NEW n \in Nat, NEW m \in Nat, m <= n
  PROVE  BufInv(Emit(b, n, Bytes(m)), ts)
<1>1. Bytes(m) \in Seq(Filled) /\ Len(Bytes(m)) = m
  BY CellsWritten
<1>2. QED
  BY <1>1, EmitInv

LEMMA EmitDigits ==
  ASSUME NEW ts \in Seq(Token), NEW b, BufInv(b, ts), Locked(ts), NEW n \in Nat
  PROVE  BufInv(Emit(b, VarintSpace, Digits(n)), ts)
<1>1. Digits(n) \in Seq(Filled) /\ Len(Digits(n)) <= VarintSpace /\ VarintSpace \in Nat
  <2>1. VarintSpace \in Nat /\ Width(n) \in 1 .. VarintSpace
    BY WidthBounds, WireAssumption
  <2>2. Digits(n) \in Seq(Filled) /\ Len(Digits(n)) = Width(n)
    BY CellsWritten
  <2>3. QED
    BY <2>1, <2>2
<1>2. QED
  BY <1>1, EmitInv

LEMMA VariantStep ==
  ASSUME WriterInv, NEW n \in 1 .. VarintSpace, WriteVariant(n)
  PROVE  WriterInv'
<1>1. n \in Nat /\ VarintSpace \in Nat /\ n <= VarintSpace
  BY WireAssumption
<1>2. BufInv(Emit(io, VarintSpace, Bytes(n)), tokens)
  BY <1>1, InvFacts, EmitBytes
<1>3. QED
  BY <1>2, WrittenStep DEF WriteVariant, MayWrite, Ready

LEMMA FixedStep ==
  ASSUME WriterInv, WriteFixed
  PROVE  WriterInv'
<1>1. FixedLength \in Nat /\ FixedLength <= FixedLength
  BY WireAssumption
<1>2. BufInv(Emit(io, FixedLength, Bytes(FixedLength)), tokens)
  BY <1>1, InvFacts, EmitBytes
<1>3. QED
  BY <1>2, WrittenStep DEF WriteFixed, MayWrite, Ready

LEMMA StringStep ==
  ASSUME WriterInv, NEW n \in Nat, WriteString(n)
  PROVE  WriterInv'
<1>1. PICK b : b = Emit(io, VarintSpace, Digits(n))
  OBVIOUS
<1>2. BufInv(b, tokens)
  BY <1>1, InvFacts, EmitDigits
<1>3. BufInv(Emit(b, n, Bytes(n)), tokens)
  BY <1>2, InvFacts, EmitBytes
<1>4. io' = b \/ io' = Emit(b, n, Bytes(n))
  BY <1>1 DEF WriteString
<1>5. BufInv(io', tokens)
  BY <1>2, <1>3, <1>4
<1>6. QED
  BY <1>5, WrittenStep DEF WriteString, MayWrite, Ready

\* What is sent past the buffer, after the buffer was flushed.
LEMMA SentBytes ==
  ASSUME NEW ts, NEW b, BufInv(b, ts), Prefixed(ts) = {}, NEW n \in Nat
  PROVE  BufInv([b EXCEPT !.dest = @ \o Bytes(n), !.position = @ + n], ts)
<1>1. PICK cells \in Seq(Filled) : cells = Bytes(n) /\ n = Len(cells)
  BY CellsWritten
<1>2. BufInv(Built(b.dest \o cells, b.buffer, b.size, b.position + n), ts)
  BY <1>1, SendInv
<1>3. PICK x, y : x = b.dest \o cells /\ y = b.position + n
  OBVIOUS
<1>4. b \in Buffers
  BY BufferTypes
<1>5. [b EXCEPT !.dest = x, !.position = y] = Built(x, b.buffer, b.size, y)
  BY <1>4, DestAndPosition, Zenon
<1>6. [b EXCEPT !.dest = @ \o Bytes(n), !.position = @ + n] =
        [b EXCEPT !.dest = x, !.position = y]
  BY <1>1, <1>3, Zenon
<1>7. QED
  BY <1>2, <1>3, <1>5, <1>6, Zenon

LEMMA BytesStep ==
  ASSUME WriterInv, NEW n \in Nat, WriteBytes(n)
  PROVE  WriterInv'
<1>1. PICK b : b = Emit(io, VarintSpace, Digits(n))
  OBVIOUS
<1>2. BufInv(b, tokens)
  BY <1>1, InvFacts, EmitDigits
<1>3. BufInv(Emit(b, n, Bytes(n)), tokens)
  BY <1>2, InvFacts, EmitBytes
<1>4. CASE io' = Emit(b, n, Bytes(n))
  <2>1. BufInv(io', tokens)
    BY <1>3, <1>4
  <2>2. QED
    BY <2>1, WrittenStep DEF WriteBytes, MayWrite, Ready
<1>5. CASE flushLock = 0 /\ io' = [Flushed(b) EXCEPT !.dest = @ \o Bytes(n),
                                                 !.position = @ + n]
  <2>1. Prefixed(tokens) = {}
    BY <1>5, InvFacts
  <2>2. BufInv(Flushed(b), tokens)
    BY <1>2, <2>1, FlushedInv
  <2>3. BufInv(io', tokens)
    BY <1>5, <2>1, <2>2, SentBytes, Zenon
  <2>4. QED
    BY <2>3, WrittenStep, Zenon DEF WriteBytes, MayWrite, Ready
<1>6. QED
  BY <1>1, <1>4, <1>5, Zenon DEF WriteBytes

\* CopyRawFromStream: the first reads fill what is free in the buffer, the rest
\* asks for room or bypasses the buffer when nothing waits for a length.
LEMMA CopiedInv ==
  ASSUME NEW ts \in Seq(Token), NEW b, BufInv(b, ts),
         NEW n \in Nat, n <= b.size - Len(b.buffer)
  PROVE  BufInv([b EXCEPT !.buffer = @ \o Bytes(n), !.position = @ + n], ts)
<1>1. PICK cells \in Seq(Filled) : cells = Bytes(n) /\ n = Len(cells)
  BY CellsWritten
<1>2. BufInv(Built(b.dest, b.buffer \o cells, b.size, b.position + n), ts)
  BY <1>1, WriteInv
<1>3. PICK x, y : x = b.buffer \o cells /\ y = b.position + n
  OBVIOUS
<1>4. b \in Buffers
  BY BufferTypes
<1>5. [b EXCEPT !.buffer = x, !.position = y] = Built(b.dest, x, b.size, y)
  BY <1>4, BufferAndPosition, Zenon
<1>6. [b EXCEPT !.buffer = @ \o Bytes(n), !.position = @ + n] =
        [b EXCEPT !.buffer = x, !.position = y]
  BY <1>1, <1>3, Zenon
<1>7. QED
  BY <1>2, <1>3, <1>5, <1>6, Zenon

LEMMA CopyStep ==
  ASSUME WriterInv, Copy
  PROVE  WriterInv'
<1>1. /\ UNCHANGED itemVars /\ status' = "open"
      /\ wireType' = wireType /\ fieldNumber' = fieldNumber
      /\ source \in Nat
  BY DEF Copy, WriterInv, CopyBypasses
<1>2. HeaderKnown'
  BY <1>1 DEF WriterInv, HeaderKnown
<1>3. SUFFICES BufInv(io', tokens) /\ CopyBypasses'
  BY <1>1, <1>2, ContentStep
<1>4. flushLock' = flushLock
  BY <1>1 DEF itemVars
<1>a. \A read \in 1 .. source : read \in Nat /\ source - read \in Nat
  BY <1>1
<1>5. CASE FillBuffer
  <2>1. ASSUME NEW read \in 1 .. source, read <= Free, Copied(io, read)
        PROVE  BufInv(io', tokens) /\ CopyBypasses'
    <3>1. read \in Nat /\ read <= io.size - Len(io.buffer)
      BY <1>1, <2>1 DEF Free
    <3>2. BufInv(io', tokens)
      BY <2>1, <3>1, InvFacts, CopiedInv, Zenon DEF Copied
    <3>3. source' \in Nat /\ copying' = "fill"
      BY <1>a, <1>5, <2>1, Zenon DEF Copied, FillBuffer
    <3>4. QED
      BY <3>2, <3>3 DEF CopyBypasses
  <2>2. CASE CopyTo("no") /\ UNCHANGED io
    BY <1>1, <2>2, InvFacts DEF CopyTo, CopyBypasses
  <2>3. CASE flushLock = 0 /\ CopyTo("send") /\ io' = Flushed(io)
    <3>1. BufInv(io', tokens)
      BY <2>3, InvFacts, FlushedInv
    <3>2. QED
      BY <1>1, <1>4, <2>3, <3>1 DEF CopyTo, CopyBypasses
  <2>4. CASE CopyTo("grow") /\ UNCHANGED io
    BY <1>1, <2>4, InvFacts DEF CopyTo, CopyBypasses
  <2>5. QED
    BY <1>5, <2>1, <2>2, <2>3, <2>4 DEF FillBuffer
<1>6. CASE SendRest
  <2>1. Prefixed(tokens) = {} /\ flushLock = 0
    BY <1>6, InvFacts DEF SendRest, WriterInv, CopyBypasses
  <2>2. ASSUME NEW read \in 1 .. source,
               io' = [io EXCEPT !.dest = @ \o Bytes(read), !.position = @ + read],
               source' = source - read
        PROVE  BufInv(io', tokens) /\ CopyBypasses'
    <3>1. read \in Nat
      BY <1>a, Zenon
    <3>2. BufInv(io', tokens)
      BY <2>1, <2>2, <3>1, InvFacts, SentBytes, Zenon
    <3>3. QED
      BY <1>a, <1>4, <2>1, <2>2, <3>2, Zenon DEF CopyBypasses
  <2>3. CASE source = 0 /\ CopyTo("no") /\ UNCHANGED io
    BY <1>1, <2>3, InvFacts DEF CopyTo, CopyBypasses
  <2>4. QED
    BY <1>6, <2>2, <2>3, Zenon DEF SendRest
<1>7. CASE GrowBuffer
  <2>1. PICK d : d = DemandSpace(io, CopySpace)
    OBVIOUS
  <2>2. BufInv(d, tokens)
    BY <2>1, InvFacts, DemandInv, WriterAssumption
  <2>3. ASSUME NEW read \in 1 .. source, read <= d.size - Len(d.buffer),
               Copied(d, read)
        PROVE  BufInv(io', tokens) /\ CopyBypasses'
    <3>1. read \in Nat
      BY <1>1
    <3>2. BufInv(io', tokens)
      BY <2>2, <2>3, <3>1, InvFacts, CopiedInv, Zenon DEF Copied
    <3>3. source' \in Nat /\ copying' = "grow"
      BY <1>a, <1>7, <2>3, Zenon DEF Copied, GrowBuffer
    <3>4. QED
      BY <3>2, <3>3 DEF CopyBypasses
  <2>4. CASE CopyTo("no") /\ io' = d
    BY <1>1, <2>2, <2>4 DEF CopyTo, CopyBypasses
  <2>5. QED
    BY <1>7, <2>1, <2>3, <2>4, Zenon DEF GrowBuffer
<1>8. QED
  BY <1>5, <1>6, <1>7 DEF Copy

LEMMA GroupStartStep ==
  ASSUME WriterInv, NEW o \in Objects \union {NoObject}, StartGroup(o)
  PROVE  WriterInv'
<1>1. PICK t : t = [value |-> -fieldNumber, style |-> "group", field |-> fieldNumber,
                    object |-> o, start |-> io.position]
  OBVIOUS
<1>2. t \in Token /\ ~IsPrefixed(t) /\ t.object = o /\ t.value = -fieldNumber
  <2>1. fieldNumber \in Fields /\ fieldNumber \in Int
    BY WireAssumption DEF WriterInv, HeaderKnown, StartGroup
  <2>2. io.position \in Nat
    BY InvFacts, BufferTypes
  <2>3. QED
    BY <1>1, <2>1, <2>2 DEF Token, Styles, IsPrefixed
<1>3. tokens' = Append(tokens, t) /\ Push(o) /\ ~Repeated(o)
  BY <1>1 DEF StartGroup, Opened
<1>4. /\ io' = io /\ flushLock' = flushLock /\ copying' = copying /\ source' = source
      /\ status' = "open" /\ wireType' = "None" /\ fieldNumber' = fieldNumber
  BY DEF StartGroup, MayWrite, Ready, copyVars
<1>5. PICK us : us = Append(tokens, t)
  OBVIOUS
<1>6. /\ us \in Seq(Token) /\ Len(us) = Len(tokens) + 1 /\ us[Len(tokens) + 1] = t
      /\ \A i \in 1 .. Len(tokens) : us[i] = tokens[i]
      /\ Prefixed(us) = Prefixed(tokens)
  BY <1>2, <1>5, InvFacts, OpenedItems
<1>7. BufInv(io, us) /\ Nested(us)
  <2>1. \A i \in Prefixed(tokens) : us[i] = tokens[i]
    BY <1>6, InvFacts, Typed
  <2>2. QED
    BY <1>6, <2>1, InvFacts, SameRooms
<1>8. ItemsOpen'
  <2>1. \A i \in DOMAIN us : ~IsPrefixed(us[i]) => -us[i].value \in Fields
    <3>1. ASSUME NEW i \in DOMAIN us, ~IsPrefixed(us[i]) PROVE -us[i].value \in Fields
      <4>1. i \in 1 .. Len(tokens) \/ i = Len(tokens) + 1
        BY <1>6, InvFacts
      <4>2. CASE i \in 1 .. Len(tokens)
        BY <1>6, <3>1, <4>2, InvFacts DEF WriterInv, ItemsOpen
      <4>3. CASE i = Len(tokens) + 1
        <5>1. fieldNumber \in Fields /\ -(-fieldNumber) = fieldNumber
          BY WireAssumption DEF WriterInv, HeaderKnown, StartGroup
        <5>2. us[i].value = -fieldNumber
          BY <1>2, <1>6, <4>3
        <5>3. QED
          BY <5>1, <5>2
      <4>4. QED
        BY <4>1, <4>2, <4>3
    <3>2. QED
      BY <3>1
  <2>2. tokens' = us /\ flushLock' = Cardinality(Prefixed(us))
    BY <1>3, <1>4, <1>5, <1>6 DEF WriterInv, ItemsOpen
  <2>3. QED
    BY <1>6, <1>7, <2>1, <2>2 DEF ItemsOpen
<1>9. RecursionStackMatches'
  BY <1>2, <1>3, InvFacts, PushStack DEF WriterInv
<1>10. BufInv(io', tokens')
  BY <1>3, <1>4, <1>5, <1>7
<1>11. HeaderKnown' /\ CopyBypasses' /\ ClosedIsEmpty'
  BY <1>4 DEF WriterInv, HeaderKnown, CopyBypasses, ClosedIsEmpty
<1>12. QED
  BY <1>8, <1>9, <1>10, <1>11 DEF WriterInv

\* An item with a length: its room is asked for, then left open.
LEMMA ReserveStep ==
  ASSUME WriterInv, Ready, NEW b, BufInv(b, tokens),
         NEW style \in {"base128", "fixed32"}, NEW o \in Objects \union {NoObject},
         NEW f \in Fields \union {0}, ~Repeated(o),
         Reserve(o, b, style, f), fieldNumber' \in Fields \union {0}
  PROVE  WriterInv'
<1>1. PICK d : d = DemandSpace(b, ItemSpace)
  OBVIOUS
<1>2. /\ BufInv(d, tokens) /\ ItemSpace <= d.size - Len(d.buffer)
      /\ ItemSpace \in Nat
  BY <1>1, InvFacts, DemandInv, WriterAssumption
<1>3. PICK r \in Nat : r = Room(style) /\ r <= ItemSpace
  BY WireAssumption, WriterAssumption DEF Room
<1>4. PICK t : t = [value |-> Len(d.buffer), style |-> style, field |-> f,
                    object |-> o, start |-> d.position + r]
  OBVIOUS
<1>5. /\ d \in Buffers /\ Len(d.buffer) \in Nat /\ d.position \in Nat
      /\ d.size \in Nat
  BY <1>2, BufferTypes
<1>6. /\ t \in Token /\ IsPrefixed(t) /\ t.object = o /\ t.value = Len(d.buffer)
      /\ t.start = d.position + r /\ r = Room(t.style)
  <2>1. d.position + r \in Nat
    BY <1>5
  <2>2. QED
    BY <1>3, <1>4, <1>5, <2>1 DEF Token, Styles, IsPrefixed
<1>7. r <= d.size - Len(d.buffer)
  BY <1>2, <1>3, <1>5
<1>8. PICK us : us = Append(tokens, t)
  OBVIOUS
<1>9. PICK e : e = Built(d.dest, d.buffer \o Holes(r), d.size, d.position + r)
  OBVIOUS
<1>10. BufInv(e, us) /\ Nested(us)
  BY <1>2, <1>6, <1>7, <1>8, <1>9, InvFacts, ReserveInv
<1>11. io' = e
  <2>1. PICK x, y : x = d.buffer \o Holes(r) /\ y = d.position + r
    OBVIOUS
  <2>2. [d EXCEPT !.buffer = x, !.position = y] = Built(d.dest, x, d.size, y)
    BY <1>5, BufferAndPosition, Zenon
  <2>3. io' = [d EXCEPT !.buffer = x, !.position = y]
    BY <1>1, <1>3, <2>1, Zenon DEF Reserve
  <2>4. QED
    BY <1>9, <2>1, <2>2, <2>3, Zenon
<1>12. /\ tokens' = us /\ Push(o) /\ flushLock' = flushLock + 1
       /\ copying' = copying /\ source' = source
       /\ status' = status /\ wireType' = "None"
  BY <1>1, <1>3, <1>4, <1>8, Zenon DEF Reserve, Opened, copyVars
<1>13. /\ us \in Seq(Token) /\ Len(us) = Len(tokens) + 1 /\ us[Len(tokens) + 1] = t
       /\ \A i \in 1 .. Len(tokens) : us[i] = tokens[i]
       /\ Cardinality(Prefixed(us)) = Cardinality(Prefixed(tokens)) + 1
  BY <1>6, <1>8, InvFacts, OpenedItems
<1>14. ItemsOpen'
  <2>1. ASSUME NEW i \in DOMAIN us, ~IsPrefixed(us[i]) PROVE -us[i].value \in Fields
    <3>1. i \in 1 .. Len(tokens) \/ i = Len(tokens) + 1
      BY <1>13, InvFacts
    <3>2. i \in 1 .. Len(tokens)
      BY <1>6, <1>13, <2>1, <3>1
    <3>3. QED
      BY <1>13, <2>1, <3>2, InvFacts DEF WriterInv, ItemsOpen
  <2>2. flushLock' = Cardinality(Prefixed(us))
    BY <1>12, <1>13 DEF WriterInv, ItemsOpen
  <2>3. QED
    BY <1>10, <1>12, <1>13, <2>1, <2>2 DEF ItemsOpen
<1>15. RecursionStackMatches'
  BY <1>6, <1>8, <1>12, InvFacts, PushStack DEF WriterInv
<1>16. BufInv(io', tokens')
  BY <1>10, <1>11, <1>12
<1>17. HeaderKnown' /\ CopyBypasses' /\ ClosedIsEmpty'
  BY <1>12 DEF WriterInv, HeaderKnown, CopyBypasses, ClosedIsEmpty, Ready
<1>18. QED
  BY <1>14, <1>15, <1>16, <1>17 DEF WriterInv

LEMMA StringStartStep ==
  ASSUME WriterInv, NEW o \in Objects \union {NoObject}, StartString(o)
  PROVE  WriterInv'
<1>1. /\ Ready /\ ~Repeated(o) /\ Reserve(o, io, "base128", fieldNumber)
      /\ fieldNumber' = fieldNumber
  BY DEF StartString, MayWrite
<1>2. fieldNumber \in Fields \union {0}
  BY DEF WriterInv, HeaderKnown
<1>3. QED
  BY <1>1, <1>2, InvFacts, ReserveStep

LEMMA HeadedInv ==
  ASSUME WriterInv, NEW f \in Fields \union {0}, NEW b,
         b = IF f = 0 THEN io ELSE Emit(io, VarintSpace, <<Header(f, "String")>>)
  PROVE  BufInv(b, tokens)
<1>1. CASE f = 0
  BY <1>1, InvFacts
<1>2. CASE f # 0
  <2>1. PICK cells \in Seq(Filled) : cells = <<Header(f, "String")>> /\ Len(cells) = 1
    <3>1. f \in Fields /\ "String" \in HeaderTypes
      BY <1>2 DEF HeaderTypes, ItemTypes
    <3>2. QED
      BY <3>1, CellsWritten
  <2>2. VarintSpace \in Nat /\ Len(cells) <= VarintSpace
    BY <2>1, WireAssumption
  <2>3. BufInv(Emit(io, VarintSpace, cells), tokens)
    BY <2>2, InvFacts, EmitInv
  <2>4. QED
    BY <1>2, <2>1, <2>3
<1>3. QED
  BY <1>1, <1>2

LEMMA PrefixedStartStep ==
  ASSUME WriterInv, NEW o \in Objects \union {NoObject},
         NEW f \in Fields \union {0}, NEW style \in Styles, StartPrefixed(o, style, f)
  PROVE  WriterInv'
<1>1. PICK b : b = IF f = 0 THEN io ELSE Emit(io, VarintSpace, <<Header(f, "String")>>)
  OBVIOUS
<1>2. /\ Ready /\ ~Repeated(o) /\ style \in {"base128", "fixed32"}
      /\ Reserve(o, b, style, f) /\ fieldNumber' = f
  BY <1>1 DEF StartPrefixed, MayWrite
<1>3. BufInv(b, tokens)
  BY <1>1, HeadedInv
<1>4. QED
  BY <1>2, <1>3, ReserveStep

\* What is common to every EndSubItem.
LEMMA EndingStep ==
  ASSUME WriterInv, Ending, BufInv(io', Front(tokens)), Nested(Front(tokens)),
         flushLock' = flushLock - IF IsPrefixed(Last(tokens)) THEN 1 ELSE 0
  PROVE  WriterInv'
<1>1. /\ tokens # <<>> /\ tokens' = Front(tokens) /\ Ready
      /\ wireType' = wireType /\ fieldNumber' = fieldNumber
      /\ copying' = copying /\ source' = source /\ status' = status
  BY DEF Ending, copyVars
<1>2. PICK us : us = Front(tokens)
  OBVIOUS
<1>3. PICK n : n = Len(tokens)
  OBVIOUS
<1>4. /\ n \in Nat \ {0} /\ Last(tokens) = tokens[n]
      /\ us \in Seq(Token) /\ Len(us) = n - 1
      /\ \A i \in 1 .. n - 1 : us[i] = tokens[i]
      /\ Cardinality(Prefixed(us)) =
           Cardinality(Prefixed(tokens)) - IF IsPrefixed(tokens[n]) THEN 1 ELSE 0
  BY <1>1, <1>2, <1>3, InvFacts, ClosedItems
<1>5. ItemsOpen'
  <2>1. ASSUME NEW i \in DOMAIN us, ~IsPrefixed(us[i]) PROVE -us[i].value \in Fields
    <3>1. i \in 1 .. n - 1 /\ i \in DOMAIN tokens
      BY <1>3, <1>4, InvFacts
    <3>2. QED
      BY <1>4, <2>1, <3>1 DEF WriterInv, ItemsOpen
  <2>2. flushLock' = Cardinality(Prefixed(us))
    BY <1>4 DEF WriterInv, ItemsOpen
  <2>3. QED
    BY <1>1, <1>2, <1>4, <2>1, <2>2 DEF ItemsOpen
<1>6. RecursionStackMatches'
  BY InvFacts, PopStack DEF WriterInv
<1>7. BufInv(io', tokens')
  BY <1>1
<1>8. HeaderKnown' /\ CopyBypasses' /\ ClosedIsEmpty'
  BY <1>1 DEF WriterInv, HeaderKnown, CopyBypasses, ClosedIsEmpty, Ready
<1>9. QED
  BY <1>5, <1>6, <1>7, <1>8 DEF WriterInv

LEMMA TopFacts ==
  ASSUME WriterInv, tokens # <<>>
  PROVE  /\ Top \in Token
         /\ IsPrefixed(Top) => /\ Top.value \in Nat /\ flushLock # 0
                               /\ Top.value + Room(Top.style) <= Len(io.buffer)
         /\ ~IsPrefixed(Top) => -Top.value \in Fields
<1>1. PICK n : n = Len(tokens)
  OBVIOUS
<1>2. /\ n \in Nat \ {0} /\ Top = tokens[n] /\ tokens[n] \in Token
      /\ n \in Prefixed(tokens) <=> IsPrefixed(tokens[n])
  BY <1>1, InvFacts, ClosedItems DEF Top
<1>3. ASSUME IsPrefixed(Top)
      PROVE  /\ Top.value \in Nat /\ flushLock # 0
             /\ Top.value + Room(Top.style) <= Len(io.buffer)
  <2>1. n \in Prefixed(tokens) /\ RoomAt(io, tokens[n])
    BY <1>2, <1>3, InvFacts DEF BufInv
  <2>2. Top.value \in Int
    BY <1>2 DEF Token
  <2>3. QED
    BY <1>2, <2>1, <2>2, InvFacts DEF RoomAt
<1>4. ~IsPrefixed(Top) => -Top.value \in Fields
  <2>1. n \in DOMAIN tokens
    BY <1>1, <1>2, InvFacts
  <2>2. QED
    BY <1>2, <2>1 DEF WriterInv, ItemsOpen
<1>5. QED
  BY <1>2, <1>3, <1>4

LEMMA GroupEndStep ==
  ASSUME WriterInv, EndGroup
  PROVE  WriterInv'
<1>1. /\ Ending /\ tokens # <<>> /\ Top.value < 0 /\ flushLock' = flushLock
      /\ io' = Emit(io, VarintSpace, <<Header(-Top.value, "EndGroup")>>)
  BY DEF EndGroup, Ending
<1>2. ~IsPrefixed(Top) /\ -Top.value \in Fields
  BY <1>1, TopFacts
<1>3. PICK cells \in Seq(Filled) :
        cells = <<Header(-Top.value, "EndGroup")>> /\ Len(cells) = 1
  <2>1. "EndGroup" \in HeaderTypes
    BY DEF HeaderTypes
  <2>2. QED
    BY <1>2, <2>1, CellsWritten
<1>4. VarintSpace \in Nat /\ Len(cells) <= VarintSpace
  BY <1>3, WireAssumption
<1>5. BufInv(Emit(io, VarintSpace, cells), tokens)
  BY <1>4, InvFacts, EmitInv
<1>6. BufInv(io', tokens)
  BY <1>1, <1>3, <1>5
<1>7. PICK us : us = Front(tokens)
  OBVIOUS
<1>8. Prefixed(us) = Prefixed(tokens) /\ \A i \in Prefixed(tokens) : us[i] = tokens[i]
  <2>1. PICK n : n = Len(tokens)
    OBVIOUS
  <2>2. /\ n \in Nat \ {0} /\ Top = tokens[n]
        /\ \A i \in 1 .. n - 1 : us[i] = tokens[i]
        /\ Prefixed(us) = Prefixed(tokens) \ {n}
        /\ n \in Prefixed(tokens) <=> IsPrefixed(tokens[n])
    BY <1>1, <1>7, <2>1, InvFacts, ClosedItems DEF Top
  <2>3. n \notin Prefixed(tokens)
    BY <1>2, <2>2
  <2>4. ASSUME NEW i \in Prefixed(tokens) PROVE i \in 1 .. n - 1
    BY <2>1, <2>2, <2>3 DEF Prefixed
  <2>5. QED
    BY <2>2, <2>3, <2>4
<1>9. BufInv(io', us) /\ Nested(us)
  BY <1>6, <1>8, InvFacts, SameRooms
<1>10. flushLock' = flushLock - IF IsPrefixed(Last(tokens)) THEN 1 ELSE 0
  BY <1>1, <1>2, InvFacts DEF Top
<1>11. QED
  BY <1>1, <1>7, <1>9, <1>10, EndingStep

LEMMA BufferOnly ==
  ASSUME NEW b \in Buffers, NEW y
  PROVE  [b EXCEPT !.buffer = y] = Built(b.dest, y, b.size, b.position)
<1>1. PICK c : c = [b EXCEPT !.buffer = y]
  OBVIOUS
<1>2. c = Built(b.dest, y, b.size, b.position)
  BY <1>1 DEF Buffers, Built
<1>3. QED
  BY <1>1, <1>2, Zenon

LEMMA FixedEndStep ==
  ASSUME WriterInv, EndFixed
  PROVE  WriterInv'
<1>1. /\ Ending /\ tokens # <<>> /\ Top.style = "fixed32"
      /\ flushLock' = flushLock - 1
  BY DEF EndFixed, Ending
<1>2. IsPrefixed(Top) /\ Room(Top.style) = FixedLength /\ FixedLength \in Nat
  BY <1>1, WireAssumption DEF IsPrefixed, Room
<1>3. PICK v \in Nat : v = Top.value /\ v + FixedLength <= Len(io.buffer)
  BY <1>1, <1>2, TopFacts
<1>4. /\ io \in Buffers /\ io.position \in Nat /\ Len(io.buffer) \in Nat
      /\ Len(io.buffer) <= io.size /\ io.size \in Nat
  BY InvFacts, BufferTypes
<1>5. PICK len \in Nat : len = Len(io.buffer) - v - FixedLength
  BY <1>2, <1>3, <1>4
<1>6. PICK cells \in Seq(Filled) : cells = Fixed(len) /\ Len(cells) = FixedLength
  BY CellsWritten
<1>7. PICK z : z = Filling(io.buffer, v, FixedLength, cells)
  OBVIOUS
<1>8. Fillable(tokens, io, v, FixedLength, cells, 0)
  BY <1>1, <1>2, <1>3, <1>4, <1>6 DEF Fillable, Top
<1>9. /\ BufInv(Built(io.dest, z, io.size, io.position + 0), Front(tokens))
      /\ Nested(Front(tokens))
  BY <1>2, <1>7, <1>8, InvFacts, FillInv
<1>10. io' = Built(io.dest, z, io.size, io.position)
  <2>1. io' = [io EXCEPT !.buffer = z]
    BY <1>3, <1>5, <1>6, <1>7, Zenon DEF EndFixed, Filling
  <2>2. QED
    BY <1>4, <2>1, BufferOnly, Zenon
<1>11. io.position + 0 = io.position
  BY <1>4
<1>12. BufInv(io', Front(tokens))
  BY <1>9, <1>10, <1>11, Zenon
<1>13. flushLock' = flushLock - IF IsPrefixed(Last(tokens)) THEN 1 ELSE 0
  BY <1>1, <1>2 DEF Top
<1>14. QED
  BY <1>1, <1>9, <1>12, <1>13, EndingStep

LEMMA StringEndStep ==
  ASSUME WriterInv, EndString
  PROVE  WriterInv'
<1>1. /\ Ending /\ tokens # <<>> /\ Top.style = "base128"
      /\ flushLock' = flushLock - 1
  BY DEF EndString, Ending
<1>2. IsPrefixed(Top) /\ Room(Top.style) = 1
  BY <1>1 DEF IsPrefixed, Room
<1>3. PICK v \in Nat : v = Top.value /\ v + 1 <= Len(io.buffer) /\ flushLock # 0
  BY <1>1, <1>2, TopFacts
<1>4. /\ io \in Buffers /\ io.position \in Nat /\ Len(io.buffer) \in Nat
      /\ Len(io.buffer) <= io.size /\ io.size \in Nat
  BY InvFacts, BufferTypes
<1>5. PICK len \in Nat : len = Len(io.buffer) - v - 1 /\ v + 1 + len = Len(io.buffer)
  <2>1. \A l \in Nat : v + 1 <= l => l - v - 1 \in Nat /\ v + 1 + (l - v - 1) = l
    OBVIOUS
  <2>2. QED
    BY <1>3, <1>4, <2>1, Zenon
<1>6. PICK offset \in Nat : offset = Width(len) - 1 /\ Width(len) = 1 + offset
  <2>1. Width(len) \in 1 .. VarintSpace /\ VarintSpace \in Nat
    BY WidthBounds, WireAssumption
  <2>2. QED
    BY <2>1
<1>7. PICK d : d = IF offset = 0 THEN io ELSE DemandSpace(io, offset)
  OBVIOUS
<1>8. /\ BufInv(d, tokens) /\ offset <= d.size - Len(d.buffer)
      /\ d.buffer = io.buffer
  <2>1. CASE offset = 0
    BY <1>4, <1>7, <2>1, InvFacts
  <2>2. CASE offset # 0
    BY <1>3, <1>7, <2>2, InvFacts, DemandInv
  <2>3. QED
    BY <2>1, <2>2
<1>9. PICK cells \in Seq(Filled) : cells = Digits(len) /\ Len(cells) = 1 + offset
  BY <1>6, CellsWritten
<1>10. PICK z : z = Filling(d.buffer, v, 1, cells)
  OBVIOUS
<1>11. Fillable(tokens, d, v, 1, cells, offset)
  BY <1>1, <1>2, <1>3, <1>8, <1>9 DEF Fillable, Top
<1>12. /\ BufInv(Built(d.dest, z, d.size, d.position + offset), Front(tokens))
       /\ Nested(Front(tokens))
  BY <1>8, <1>10, <1>11, InvFacts, FillInv
<1>13. io' = Built(d.dest, z, d.size, d.position + offset)
  <2>1. PICK y : y = d.position + offset
    OBVIOUS
  <2>2. z = SubSeq(d.buffer, 1, v) \o Digits(len) \o SubSeq(d.buffer, v + 2, v + 1 + len)
    <3>1. v + 1 + 1 = v + 2
      OBVIOUS
    <3>2. v + 1 + len = Len(d.buffer)
      BY <1>5, <1>8, Zenon
    <3>3. QED
      BY <1>9, <1>10, <3>1, <3>2, Zenon DEF Filling
  <2>3. io' = [d EXCEPT !.buffer = z, !.position = y]
    BY <1>3, <1>5, <1>6, <1>7, <2>1, <2>2, Zenon DEF EndString
  <2>4. d \in Buffers
    BY <1>8, BufferTypes
  <2>5. [d EXCEPT !.buffer = z, !.position = y] = Built(d.dest, z, d.size, y)
    BY <2>4, BufferAndPosition, Zenon
  <2>6. QED
    BY <2>1, <2>3, <2>5, Zenon
<1>14. flushLock' = flushLock - IF IsPrefixed(Last(tokens)) THEN 1 ELSE 0
  BY <1>1, <1>2 DEF Top
<1>15. QED
  BY <1>1, <1>12, <1>13, <1>14, EndingStep, Zenon

LEMMA PackedStep ==
  ASSUME WriterInv, SetPackedField
  PROVE  WriterInv'
<1>1. /\ io' = io /\ UNCHANGED itemVars /\ UNCHANGED copyVars
      /\ wireType' = wireType /\ fieldNumber' = fieldNumber /\ status' = "open"
  BY DEF SetPackedField, Ready
<1>2. HeaderKnown' /\ CopyBypasses'
  BY <1>1 DEF WriterInv, HeaderKnown, CopyBypasses, copyVars, itemVars
<1>3. QED
  BY <1>1, <1>2, InvFacts, ContentStep

LEMMA AppendStep ==
  ASSUME WriterInv, NEW n \in Nat, AppendExtensionData(n)
  PROVE  WriterInv'
<1>1. /\ io' = io /\ UNCHANGED itemVars /\ copying' = "fill" /\ source' = n
      /\ wireType' = wireType /\ fieldNumber' = fieldNumber /\ status' = "open"
  BY DEF AppendExtensionData, MayWrite, Ready
<1>2. HeaderKnown' /\ CopyBypasses'
  BY <1>1 DEF WriterInv, HeaderKnown, CopyBypasses
<1>3. QED
  BY <1>1, <1>2, InvFacts, ContentStep

LEMMA CloseStep ==
  ASSUME WriterInv, Close
  PROVE  WriterInv'
<1>1. /\ depth = 0 /\ flushLock = 0 /\ io' = Flushed(io) /\ UNCHANGED itemVars
      /\ UNCHANGED copyVars /\ wireType' = wireType /\ fieldNumber' = fieldNumber
  BY DEF Close
<1>2. BufInv(io', tokens) /\ io'.buffer = <<>>
  BY <1>1, InvFacts, FlushedInv
<1>3. tokens = <<>>
  <2>1. Len(tokens) = 0
    BY <1>1 DEF WriterInv, RecursionStackMatches
  <2>2. \A ts \in Seq(Token) : Len(ts) = 0 => ts = <<>>
    OBVIOUS
  <2>3. QED
    BY <2>1, <2>2, InvFacts, Zenon
<1>4. tokens' = tokens /\ BufInv(io', tokens')
  BY <1>1, <1>2 DEF itemVars
<1>5. ItemsOpen' /\ RecursionStackMatches'
  BY <1>1 DEF WriterInv, ItemsOpen, RecursionStackMatches, itemVars
<1>6. HeaderKnown' /\ CopyBypasses'
  BY <1>1 DEF WriterInv, HeaderKnown, CopyBypasses, copyVars, itemVars
<1>7. ClosedIsEmpty'
  BY <1>2, <1>3, <1>4 DEF ClosedIsEmpty
<1>8. QED
  BY <1>4, <1>5, <1>6, <1>7 DEF WriterInv

LEMMA DisposeStep ==
  ASSUME WriterInv, Dispose
  PROVE  WriterInv'
<1>1. /\ UNCHANGED itemVars /\ UNCHANGED copyVars /\ status' = "disposed"
      /\ wireType' = wireType /\ fieldNumber' = fieldNumber
      /\ (flushLock = 0 /\ io' = Flushed(io)) \/ io' = io
  BY DEF Dispose
<1>2. BufInv(io', tokens)
  BY <1>1, InvFacts, FlushedInv
<1>3. HeaderKnown' /\ CopyBypasses'
  BY <1>1 DEF WriterInv, HeaderKnown, CopyBypasses, copyVars, itemVars
<1>4. QED
  BY <1>1, <1>2, <1>3, ContentStep

LEMMA WriterInit == Init => WriterInv
<1> SUFFICES ASSUME Init PROVE WriterInv
  OBVIOUS
<1>1. tokens = <<>> /\ tokens \in Seq(Token) /\ Len(tokens) = 0 /\ DOMAIN tokens = {}
  BY DEF Init
<1>2. Prefixed(tokens) = {}
  BY <1>1 DEF Prefixed
<1>3. /\ io.dest = <<>> /\ io.buffer = <<>> /\ io.position = 0 /\ io.size = BufferLength
      /\ io \in Buffers
  BY WriterAssumption DEF Init, Buffers
<1>4. BufInv(io, tokens)
  <2>1. /\ <<>> \in Seq(Cell) /\ Len(<<>>) = 0 /\ DOMAIN <<>> = {}
        /\ BufferLength \in Nat
    BY WriterAssumption
  <2>2. IsBuffer(io)
    BY <1>3, <2>1 DEF IsBuffer
  <2>3. QED
    BY <1>2, <1>3, <2>1, <2>2 DEF BufInv, HolesAreRoom
<1>5. ItemsOpen
  <2>1. flushLock = Cardinality(Prefixed(tokens))
    BY <1>2, FS_EmptySet DEF Init
  <2>2. QED
    BY <1>1, <1>2, <2>1 DEF ItemsOpen, Nested
<1>6. RecursionStackMatches
  <2>1. 1 .. 0 - RecursionCheckDepth = {}
    BY WriterAssumption
  <2>2. /\ recursionStack = <<>> /\ DOMAIN recursionStack = {}
        /\ depth = 0 /\ Len(tokens) = 0
    BY <1>1 DEF Init
  <2>3. recursionStack = [i \in {} |-> tokens[RecursionCheckDepth + i].object]
    BY <2>2
  <2>4. QED
    BY <2>1, <2>2, <2>3 DEF RecursionStackMatches
<1>7. HeaderKnown /\ CopyBypasses /\ ClosedIsEmpty
  BY DEF Init, HeaderKnown, CopyBypasses, ClosedIsEmpty
<1>8. QED
  BY <1>4, <1>5, <1>6, <1>7 DEF WriterInv

LEMMA WriterNext == WriterInv /\ [Next]_vars => WriterInv'
<1> SUFFICES ASSUME WriterInv, [Next]_vars PROVE WriterInv'
  OBVIOUS
<1>1. CASE WriteValue
  <2>1. VarintSpace \in Nat /\ MaxCells \in Nat
    BY WireAssumption
  <2>2. \A n \in 0 .. MaxCells : n \in Nat
    BY <2>1
  <2>3. QED
    BY <1>1, <2>2, FieldHeaderStep, VariantStep, FixedStep, StringStep, BytesStep,
       AppendStep, CopyStep DEF WriteValue
<1>2. CASE StartItem
  BY <1>2, GroupStartStep, StringStartStep, PrefixedStartStep DEF StartItem
<1>3. CASE SetPackedField
  BY <1>3, PackedStep
<1>4. CASE EndItem
  BY <1>4, GroupEndStep, FixedEndStep, StringEndStep DEF EndItem
<1>5. CASE Close
  BY <1>5, CloseStep
<1>6. CASE Dispose
  BY <1>6, DisposeStep
<1>7. CASE UNCHANGED vars
  <2>1. /\ io' = io /\ tokens' = tokens /\ flushLock' = flushLock
        /\ fieldNumber' = fieldNumber /\ wireType' = wireType /\ source' = source
        /\ copying' = copying /\ status' = status
        /\ depth' = depth /\ recursionStack' = recursionStack
    BY <1>7 DEF vars, itemVars, copyVars
  <2>2. ItemsOpen' /\ RecursionStackMatches'
    BY <2>1 DEF WriterInv, ItemsOpen, RecursionStackMatches
  <2>3. HeaderKnown' /\ CopyBypasses' /\ ClosedIsEmpty'
    BY <2>1 DEF WriterInv, HeaderKnown, CopyBypasses, ClosedIsEmpty
  <2>4. BufInv(io', tokens')
    BY <2>1 DEF WriterInv
  <2>5. QED
    BY <2>2, <2>3, <2>4 DEF WriterInv
<1>8. QED
  BY <1>1, <1>2, <1>3, <1>4, <1>5, <1>6, <1>7 DEF Next, Done

LEMMA WriterAlways == Spec => []WriterInv
BY WriterInit, WriterNext, PTL DEF Spec

\* Induction, over a set of naturals.
LEMMA NatSets ==
  ASSUME NEW S, 0 \in S, \A n \in Nat : n \in S => n + 1 \in S
  PROVE  Nat \subseteq S
<1>1. SUFFICES ASSUME Nat \ S # {} PROVE FALSE
  OBVIOUS
<1>2. PICK T : T = Nat \ S
  OBVIOUS
<1>3. PICK x \in T : \A y \in T : ~(y < x)
  <2>1. PICK R : R = OpToRel(<, Nat)
    OBVIOUS
  <2>2. IsWellFoundedOn(R, Nat)
    BY <2>1, NatLessThanWellFounded, Zenon
  <2>3. T \subseteq Nat /\ T # {}
    BY <1>1, <1>2
  <2>4. PICK x \in T : \A y \in T : ~(<<y, x>> \in R)
    BY <2>2, <2>3, WFMin
  <2>5. \A y \in T : ~(y < x)
    BY <2>1, <2>3, <2>4 DEF OpToRel
  <2>6. QED
    BY <2>5
<1>4. x # 0 /\ x \in Nat
  BY <1>2
<1>5. x - 1 \in T
  BY <1>2, <1>4
<1>6. QED
  BY <1>3, <1>4, <1>5

LEMMA LeastOf ==
  ASSUME NEW T, T \subseteq Nat, T # {}
  PROVE  \E x \in T : \A y \in T : x <= y
<1>1. PICK R : R = OpToRel(<, Nat)
  OBVIOUS
<1>2. IsWellFoundedOn(R, Nat)
  BY <1>1, NatLessThanWellFounded, Zenon
<1>3. PICK x \in T : \A y \in T : ~(<<y, x>> \in R)
  BY <1>2, WFMin
<1>4. \A y \in T : ~(y < x)
  BY <1>1, <1>3 DEF OpToRel
<1>5. QED
  BY <1>4

Begins(s, t) == Len(s) <= Len(t) /\ \A i \in 1 .. Len(s) : s[i] = t[i]

LEMMA SeqSame ==
  ASSUME NEW S, NEW s \in Seq(S), NEW t \in Seq(S), Len(s) = Len(t),
         \A i \in 1 .. Len(s) : s[i] = t[i]
  PROVE  s = t
OBVIOUS

LEMMA PrefixIs ==
  ASSUME NEW S, NEW s \in Seq(S), NEW t \in Seq(S), Begins(s, t)
  PROVE  IsPrefix(s, t)
<1>1. PICK n \in Nat : n = Len(s)
  OBVIOUS
<1>2. n <= Len(t) /\ \A i \in 1 .. n : s[i] = t[i]
  BY <1>1 DEF Begins
<1>3. SubSeq(s, 1, n) \in Seq(S) /\ Len(SubSeq(s, 1, n)) = n
      /\ \A i \in 1 .. n : SubSeq(s, 1, n)[i] = s[i]
  BY <1>1
<1>4. SubSeq(t, 1, n) \in Seq(S) /\ Len(SubSeq(t, 1, n)) = n
      /\ \A i \in 1 .. n : SubSeq(t, 1, n)[i] = t[i]
  BY <1>1, <1>2
<1>5. SubSeq(s, 1, n) = SubSeq(t, 1, n)
  BY <1>2, <1>3, <1>4, SeqSame
<1>6. QED
  BY <1>1, <1>2, <1>5 DEF IsPrefix

IsFlattening(f, s, m) ==
  f = [i \in 1 .. m |-> IF i = 1 THEN s[i] ELSE f[i - 1] \o s[i]]

\* FlattenSeq is what its recursion says.
LEMMA Flattened ==
  ASSUME NEW s, NEW m \in Nat \ {0}, m = Len(s)
  PROVE  \E f : IsFlattening(f, s, m) /\ FlattenSeq(s) = f[m]
<1> DEFINE Is(f, n) == f = [i \in 1 .. n |-> IF i = 1 THEN s[i] ELSE f[i - 1] \o s[i]]
<1>1. PICK S : S = {n \in Nat : \E f : Is(f, n)}
  OBVIOUS
<1>2. 0 \in S
  <2>1. Is([i \in 1 .. 0 |-> 0], 0)
    OBVIOUS
  <2>2. QED
    BY <1>1, <2>1
<1>3. ASSUME NEW n \in Nat, n \in S PROVE n + 1 \in S
  <2>1. PICK f : Is(f, n)
    BY <1>1, <1>3
  <2>2. PICK g : g = [i \in 1 .. n + 1 |-> IF i \in 1 .. n THEN f[i]
                                           ELSE IF i = 1 THEN s[i] ELSE f[i - 1] \o s[i]]
    OBVIOUS
  <2>3. ASSUME NEW i \in 1 .. n + 1
        PROVE  g[i] = IF i = 1 THEN s[i] ELSE g[i - 1] \o s[i]
    <3>1. CASE i \in 1 .. n
      <4>1. g[i] = f[i] /\ f[i] = IF i = 1 THEN s[i] ELSE f[i - 1] \o s[i]
        BY <2>1, <2>2, <3>1
      <4>2. i # 1 => g[i - 1] = f[i - 1]
        BY <2>2, <3>1
      <4>3. QED
        BY <4>1, <4>2
    <3>2. CASE i \notin 1 .. n
      <4>1. g[i] = IF i = 1 THEN s[i] ELSE f[i - 1] \o s[i]
        BY <2>2, <3>2
      <4>2. i # 1 => g[i - 1] = f[i - 1]
        BY <2>2, <3>2
      <4>3. QED
        BY <4>1, <4>2
    <3>3. QED
      BY <3>1, <3>2
  <2>4. Is(g, n + 1)
    <3>1. g = [i \in 1 .. n + 1 |-> g[i]]
      BY <2>2
    <3>2. QED
      BY <2>3, <3>1
  <2>5. \E h : Is(h, n + 1)
    BY <2>4, Zenon
  <2>6. n + 1 \in Nat
    OBVIOUS
  <2> HIDE DEF Is
  <2>7. QED
    BY <1>1, <2>5, <2>6, Zenon
<1>4. m \in S
  BY <1>2, <1>3, NatSets
<1>5. Is(CHOOSE f : Is(f, m), m)
  BY <1>1, <1>4
<1>6. FlattenSeq(s) = (CHOOSE f : Is(f, m))[m]
  BY Zenon DEF FlattenSeq
<1>7. IsFlattening(CHOOSE f : Is(f, m), s, m)
  BY <1>5, Zenon DEF IsFlattening
<1>8. QED
  BY <1>6, <1>7, Zenon

-----------------------------------------------------------------------------
(* What a buffer and its destination hold together.                        *)

WholeOf(b) == b.dest \o b.buffer

\* Between two buffers nothing was written, and maybe something was flushed.
Kept(b, c) == WholeOf(c) = WholeOf(b) /\ Begins(b.dest, c.dest)

Grew(b, c) == Begins(WholeOf(b), WholeOf(c)) /\ Begins(b.dest, c.dest)

LEMMA BeginsSelf ==
  ASSUME NEW s \in Seq(Cell)
  PROVE  Begins(s, s)
BY DEF Begins

LEMMA BeginsTrans ==
  ASSUME NEW s \in Seq(Cell), NEW t \in Seq(Cell), NEW u \in Seq(Cell),
         Begins(s, t), Begins(t, u)
  PROVE  Begins(s, u)
BY DEF Begins

LEMMA BeginsJoined ==
  ASSUME NEW s \in Seq(Cell), NEW t \in Seq(Cell)
  PROVE  Begins(s, s \o t)
<1>1. /\ Len(s \o t) = Len(s) + Len(t)
      /\ \A i \in 1 .. Len(s) : (s \o t)[i] = s[i]
  BY Joined
<1>2. Len(s) \in Nat /\ Len(t) \in Nat
  OBVIOUS
<1>3. Len(s) <= Len(s \o t)
  BY <1>1, <1>2
<1>4. QED
  BY <1>1, <1>3 DEF Begins

LEMMA BufferParts ==
  ASSUME NEW b, IsBuffer(b)
  PROVE  /\ b \in Buffers /\ b.dest \in Seq(Cell) /\ b.buffer \in Seq(Cell)
         /\ b.size \in Nat /\ b.position \in Nat
         /\ WholeOf(b) \in Seq(Cell)
         /\ Len(WholeOf(b)) = Len(b.dest) + Len(b.buffer)
         /\ b.position = Len(WholeOf(b))
         /\ Begins(b.dest, WholeOf(b))
<1>1. /\ b \in Buffers /\ b.dest \in Seq(Cell) /\ b.buffer \in Seq(Cell)
      /\ b.size \in Nat /\ b.position \in Nat
      /\ b.position = Len(b.dest) + Len(b.buffer)
  BY DEF IsBuffer, Buffers
<1>2. /\ WholeOf(b) \in Seq(Cell)
      /\ Len(WholeOf(b)) = Len(b.dest) + Len(b.buffer)
  BY <1>1, Joined DEF WholeOf
<1>3. Begins(b.dest, WholeOf(b))
  BY <1>1, BeginsJoined DEF WholeOf
<1>4. QED
  BY <1>1, <1>2, <1>3

LEMMA JoinedTwice ==
  ASSUME NEW s \in Seq(Cell), NEW t \in Seq(Cell), NEW u \in Seq(Cell)
  PROVE  s \o (t \o u) = (s \o t) \o u
OBVIOUS

LEMMA JoinedEmpty ==
  ASSUME NEW s \in Seq(Cell)
  PROVE  s \o <<>> = s
OBVIOUS

LEMMA FlushedKept ==
  ASSUME NEW b, IsBuffer(b)
  PROVE  Kept(b, Flushed(b))
<1>1. PICK d : d = Flushed(b)
  OBVIOUS
<1>2. PICK w : w = WholeOf(b)
  OBVIOUS
<1>3. d.dest = w /\ d.buffer = <<>>
  <2>1. d = Built(b.dest \o b.buffer, <<>>, b.size, b.position)
    BY <1>1, FlushedIs
  <2>2. d.dest = b.dest \o b.buffer /\ d.buffer = <<>>
    BY <2>1 DEF Built
  <2>3. QED
    BY <1>2, <2>2 DEF WholeOf
<1>4. w \in Seq(Cell) /\ Begins(b.dest, w)
  BY <1>2, BufferParts
<1>5. WholeOf(d) = w
  <2>1. WholeOf(d) = w \o <<>>
    BY <1>3 DEF WholeOf
  <2>2. w \o <<>> = w
    BY <1>4, JoinedEmpty
  <2>3. QED
    BY <2>1, <2>2
<1>6. QED
  BY <1>1, <1>2, <1>3, <1>4, <1>5 DEF Kept

LEMMA SameKept ==
  ASSUME NEW b, IsBuffer(b), NEW c, c.dest = b.dest, c.buffer = b.buffer
  PROVE  Kept(b, c)
<1>1. Begins(b.dest, b.dest)
  BY BufferParts, BeginsSelf
<1>2. QED
  BY <1>1 DEF Kept, WholeOf

LEMMA KeptTrans ==
  ASSUME NEW b, NEW c, NEW d, IsBuffer(b), IsBuffer(c), IsBuffer(d),
         Kept(b, c), Kept(c, d)
  PROVE  Kept(b, d)
<1>1. b.dest \in Seq(Cell) /\ c.dest \in Seq(Cell) /\ d.dest \in Seq(Cell)
  BY BufferParts
<1>2. Begins(b.dest, d.dest)
  BY <1>1, BeginsTrans DEF Kept
<1>3. QED
  BY <1>2 DEF Kept

LEMMA DemandKept ==
  ASSUME NEW ts, NEW b, BufInv(b, ts), Locked(ts), NEW n \in Nat
  PROVE  IsBuffer(DemandSpace(b, n)) /\ Kept(b, DemandSpace(b, n))
<1>1. PICK d : d = DemandSpace(b, n)
  OBVIOUS
<1>2. PICK c : c = IF Lacks(b, n) /\ flushLock = 0 THEN Flushed(b) ELSE b
  OBVIOUS
<1>3. d = Resized(c, n)
  BY <1>1, <1>2, Zenon DEF DemandSpace
<1>4. BufInv(c, ts) /\ Kept(b, c)
  <2>1. CASE Lacks(b, n) /\ flushLock = 0
    BY <1>2, <2>1, FlushedInv, FlushedKept DEF Locked, BufInv
  <2>2. CASE ~(Lacks(b, n) /\ flushLock = 0)
    BY <1>2, <2>2, SameKept DEF BufInv
  <2>3. QED
    BY <2>1, <2>2
<1>5. BufInv(d, ts) /\ d.buffer = c.buffer /\ d.dest = c.dest
  BY <1>3, <1>4, ResizedInv
<1>6. IsBuffer(b) /\ IsBuffer(c) /\ IsBuffer(d)
  BY <1>4, <1>5 DEF BufInv
<1>7. Kept(c, d)
  BY <1>5, <1>6, SameKept
<1>8. QED
  BY <1>1, <1>4, <1>6, <1>7, KeptTrans

\* What is written goes behind the rest.
Wrote(b, c, cells) == WholeOf(c) = WholeOf(b) \o cells /\ Begins(b.dest, c.dest)

LEMMA WroteGrew ==
  ASSUME NEW b, NEW c, NEW cells \in Seq(Cell), IsBuffer(b), Wrote(b, c, cells)
  PROVE  Grew(b, c)
BY BufferParts, BeginsJoined DEF Wrote, Grew

LEMMA KeptGrew ==
  ASSUME NEW b, NEW c, IsBuffer(b), Kept(b, c)
  PROVE  Grew(b, c)
BY BufferParts, BeginsSelf DEF Kept, Grew

LEMMA GrewTrans ==
  ASSUME NEW b, NEW c, NEW d, IsBuffer(b), IsBuffer(c), IsBuffer(d),
         Grew(b, c), Grew(c, d)
  PROVE  Grew(b, d)
<1>1. /\ b.dest \in Seq(Cell) /\ c.dest \in Seq(Cell) /\ d.dest \in Seq(Cell)
      /\ WholeOf(b) \in Seq(Cell) /\ WholeOf(c) \in Seq(Cell) /\ WholeOf(d) \in Seq(Cell)
  BY BufferParts
<1>2. Begins(b.dest, d.dest)
  BY <1>1, BeginsTrans DEF Grew
<1>3. Begins(WholeOf(b), WholeOf(d))
  BY <1>1, BeginsTrans DEF Grew
<1>4. QED
  BY <1>2, <1>3 DEF Grew

\* Into the buffer of d, which holds what b held.
LEMMA BehindWrote ==
  ASSUME NEW b, NEW d, IsBuffer(b), IsBuffer(d), Kept(b, d), NEW cells \in Seq(Cell),
         NEW c, c.dest = d.dest, c.buffer = d.buffer \o cells
  PROVE  Wrote(b, c, cells)
<1>1. d.dest \in Seq(Cell) /\ d.buffer \in Seq(Cell)
  BY BufferParts
<1>2. d.dest \o (d.buffer \o cells) = (d.dest \o d.buffer) \o cells
  BY <1>1, JoinedTwice
<1>3. WholeOf(c) = WholeOf(d) \o cells
  BY <1>2 DEF WholeOf
<1>4. QED
  BY <1>3 DEF Kept, Wrote

LEMMA EmitWrote ==
  ASSUME NEW ts, NEW b, BufInv(b, ts), Locked(ts), NEW n \in Nat, NEW cells \in Seq(Cell)
  PROVE  Wrote(b, Emit(b, n, cells), cells)
<1>1. PICK d : d = DemandSpace(b, n)
  OBVIOUS
<1>2. IsBuffer(b) /\ IsBuffer(d) /\ Kept(b, d)
  BY <1>1, DemandKept DEF BufInv
<1>3. PICK x : x = d.buffer \o cells
  OBVIOUS
<1>4. PICK y : y = d.position + Len(cells)
  OBVIOUS
<1>5. PICK c : c = [d EXCEPT !.buffer = x, !.position = y]
  OBVIOUS
<1>6. c = Built(d.dest, x, d.size, y)
  BY <1>2, <1>5, BufferParts, BufferAndPosition
<1>7. c.dest = d.dest /\ c.buffer = d.buffer \o cells
  BY <1>3, <1>6 DEF Built
<1>8. c = Emit(b, n, cells)
  BY <1>1, <1>3, <1>4, <1>5, Zenon DEF Emit
<1>9. QED
  BY <1>2, <1>7, <1>8, BehindWrote

-----------------------------------------------------------------------------
(* The message, cut where the items ts begin.                              *)

StartOf(ts, k) == IF k = 0 THEN 0 ELSE ts[k].start
RoomBefore(ts, k) == ts[k].start - Room(ts[k].style)
EndOf(w, ts, k) == IF k = Len(ts) THEN Len(w) ELSE RoomBefore(ts, k + 1)
Piece(w, ts, k) == SubSeq(w, StartOf(ts, k - 1) + 1, EndOf(w, ts, k - 1))
Pieces(w, ts) == [k \in 1 .. Len(ts) + 1 |-> Piece(w, ts, k)]
FramingsOf(ts) == [k \in DOMAIN ts |-> [style |-> ts[k].style, field |-> ts[k].field]]

\* Each item begins behind the ones around it, with its room before it.
Ordered(w, ts) ==
  /\ \A i \in 1 .. Len(ts) : 0 <= RoomBefore(ts, i) /\ ts[i].start <= Len(w)
  /\ \A i, j \in 1 .. Len(ts) : i < j => ts[i].start <= RoomBefore(ts, j)

LEMMA StartsAndRooms ==
  ASSUME NEW ts \in Seq(Token), NEW i \in 1 .. Len(ts)
  PROVE  /\ ts[i] \in Token /\ ts[i].start \in Nat /\ Room(ts[i].style) \in Nat
         /\ RoomBefore(ts, i) \in Int /\ RoomBefore(ts, i) <= ts[i].start
<1>1. ts[i] \in Token
  OBVIOUS
<1>2. ts[i].start \in Nat
  BY <1>1 DEF Token
<1>3. Room(ts[i].style) \in Nat
  BY <1>1, RoomIsNat
<1>4. PICK r \in Nat : r = Room(ts[i].style)
  BY <1>3
<1>5. PICK a \in Nat : a = ts[i].start
  BY <1>2
<1>6. RoomBefore(ts, i) = a - r
  BY <1>4, <1>5 DEF RoomBefore
<1>7. QED
  BY <1>1, <1>2, <1>3, <1>5, <1>6

\* Where a piece begins and ends.
LEMMA PieceBounds ==
  ASSUME NEW ts \in Seq(Token), NEW w \in Seq(Cell), Ordered(w, ts),
         NEW k \in 1 .. Len(ts) + 1
  PROVE  /\ StartOf(ts, k - 1) \in Nat /\ EndOf(w, ts, k - 1) \in Nat
         /\ StartOf(ts, k - 1) <= EndOf(w, ts, k - 1)
         /\ EndOf(w, ts, k - 1) <= Len(w)
<1>1. PICK n \in Nat : n = Len(ts)
  OBVIOUS
<1>2. PICK h \in Nat : h = k - 1 /\ h + 1 = k /\ h <= n
  BY <1>1
<1>3. PICK l \in Nat : l = Len(w)
  OBVIOUS
<1>4. StartOf(ts, h) \in Nat /\ StartOf(ts, h) <= l
  <2>1. CASE h = 0
    BY <1>3, <2>1 DEF StartOf
  <2>2. CASE h # 0
    <3>1. h \in 1 .. Len(ts)
      BY <1>1, <1>2, <2>2
    <3>2. StartOf(ts, h) = ts[h].start
      BY <2>2 DEF StartOf
    <3>3. QED
      BY <1>3, <3>1, <3>2, StartsAndRooms DEF Ordered
  <2>3. QED
    BY <2>1, <2>2
<1>5. CASE h = n
  <2>1. EndOf(w, ts, h) = l
    BY <1>1, <1>3, <1>5 DEF EndOf
  <2>2. QED
    BY <1>2, <1>3, <1>4, <2>1
<1>6. CASE h # n
  <2>1. k \in 1 .. Len(ts)
    BY <1>1, <1>2, <1>6
  <2>2. EndOf(w, ts, h) = RoomBefore(ts, k)
    BY <1>1, <1>2, <1>6 DEF EndOf
  <2>3. /\ RoomBefore(ts, k) \in Nat /\ RoomBefore(ts, k) <= l
    <3>1. ts[k].start \in Nat /\ RoomBefore(ts, k) \in Int
          /\ RoomBefore(ts, k) <= ts[k].start
      BY <2>1, StartsAndRooms
    <3>2. 0 <= RoomBefore(ts, k) /\ ts[k].start <= Len(w)
      BY <2>1 DEF Ordered
    <3>3. QED
      BY <1>3, <3>1, <3>2
  <2>4. StartOf(ts, h) <= RoomBefore(ts, k)
    <3>1. CASE h = 0
      BY <2>3, <3>1 DEF StartOf
    <3>2. CASE h # 0
      <4>1. h \in 1 .. Len(ts) /\ h < k
        BY <1>1, <1>2, <3>2
      <4>2. ts[h].start <= RoomBefore(ts, k)
        BY <2>1, <4>1 DEF Ordered
      <4>3. QED
        BY <3>2, <4>2 DEF StartOf
    <3>3. QED
      BY <3>1, <3>2
  <2>5. QED
    BY <1>2, <1>3, <1>4, <2>2, <2>3, <2>4
<1>7. QED
  BY <1>5, <1>6

\* Slices of a longer message.
LEMMA Cut ==
  ASSUME NEW w \in Seq(Cell), NEW a \in Nat, NEW e \in Nat, a <= e, e <= Len(w)
  PROVE  /\ SubSeq(w, a + 1, e) \in Seq(Cell) /\ Len(SubSeq(w, a + 1, e)) = e - a
         /\ \A i \in 1 .. e - a : SubSeq(w, a + 1, e)[i] = w[a + i]
<1>1. PICK n \in Nat : n = e - a /\ a + n = e
  OBVIOUS
<1>2. /\ SubSeq(w, a + 1, a + n) \in Seq(Cell)
      /\ Len(SubSeq(w, a + 1, a + n)) = n
      /\ \A i \in 1 .. n : SubSeq(w, a + 1, a + n)[i] = w[a + i]
  BY <1>1, Slice
<1>3. QED
  BY <1>1, <1>2

LEMMA CutOfLonger ==
  ASSUME NEW w \in Seq(Cell), NEW x \in Seq(Cell),
         NEW a \in Nat, NEW e \in Nat, NEW f \in Nat,
         a <= e, e <= Len(w), e <= f, f <= Len(x),
         \A i \in 1 .. e : x[i] = w[i]
  PROVE  Begins(SubSeq(w, a + 1, e), SubSeq(x, a + 1, f))
<1>1. PICK s : s = SubSeq(w, a + 1, e)
  OBVIOUS
<1>2. PICK t : t = SubSeq(x, a + 1, f)
  OBVIOUS
<1>3. Len(s) = e - a /\ \A i \in 1 .. e - a : s[i] = w[a + i]
  BY <1>1, Cut
<1>4. Len(t) = f - a /\ \A i \in 1 .. f - a : t[i] = x[a + i]
  BY <1>2, Cut
<1>5. ASSUME NEW i \in 1 .. e - a PROVE s[i] = t[i]
  <2>1. i \in 1 .. f - a /\ a + i \in 1 .. e
    OBVIOUS
  <2>2. QED
    BY <1>3, <1>4, <2>1
<1>6. Len(s) <= Len(t)
  BY <1>3, <1>4
<1>7. QED
  BY <1>1, <1>2, <1>3, <1>5, <1>6 DEF Begins

LEMMA SameCut ==
  ASSUME NEW w \in Seq(Cell), NEW x \in Seq(Cell), NEW a \in Nat, NEW e \in Nat,
         a <= e, e <= Len(w), e <= Len(x), \A i \in 1 .. e : x[i] = w[i]
  PROVE  SubSeq(w, a + 1, e) = SubSeq(x, a + 1, e)
<1>1. PICK s : s = SubSeq(w, a + 1, e)
  OBVIOUS
<1>2. PICK t : t = SubSeq(x, a + 1, e)
  OBVIOUS
<1>3. s \in Seq(Cell) /\ Len(s) = e - a /\ \A i \in 1 .. e - a : s[i] = w[a + i]
  BY <1>1, Cut
<1>4. t \in Seq(Cell) /\ Len(t) = e - a /\ \A i \in 1 .. e - a : t[i] = x[a + i]
  BY <1>2, Cut
<1>5. ASSUME NEW i \in 1 .. e - a PROVE s[i] = t[i]
  <2>1. a + i \in 1 .. e
    OBVIOUS
  <2>2. QED
    BY <1>3, <1>4, <2>1
<1>6. s = t
  <2>1. Len(s) = Len(t)
    BY <1>3, <1>4
  <2>2. \A i \in 1 .. Len(s) : s[i] = t[i]
    BY <1>3, <1>5
  <2>3. QED
    BY <1>3, <1>4, <2>1, <2>2, SeqSame
<1>7. QED
  BY <1>1, <1>2, <1>6

LEMMA PieceIs ==
  ASSUME NEW ts \in Seq(Token), NEW w, NEW k \in 1 .. Len(ts) + 1
  PROVE  Pieces(w, ts)[k] = Piece(w, ts, k)
BY DEF Pieces

LEMMA PiecesLen ==
  ASSUME NEW ts \in Seq(Token), NEW w
  PROVE  /\ Len(Pieces(w, ts)) = Len(ts) + 1
         /\ DOMAIN Pieces(w, ts) = 1 .. Len(ts) + 1
<1>1. PICK n \in Nat : n = Len(ts) + 1
  OBVIOUS
<1>2. PICK p : p = Pieces(w, ts)
  OBVIOUS
<1>3. p = [k \in 1 .. n |-> Piece(w, ts, k)]
  BY <1>1, <1>2 DEF Pieces
<1>4. Len(p) = n /\ DOMAIN p = 1 .. n
  BY <1>3
<1>5. QED
  BY <1>1, <1>2, <1>4

-----------------------------------------------------------------------------
(* A step that writes.                                                     *)

LEMMA OrderedLonger ==
  ASSUME NEW ts \in Seq(Token), NEW w \in Seq(Cell), NEW x \in Seq(Cell),
         Ordered(w, ts), Begins(w, x)
  PROVE  Ordered(x, ts)
<1>1. Len(w) \in Nat /\ Len(x) \in Nat /\ Len(w) <= Len(x)
  BY DEF Begins
<1>2. \A i \in 1 .. Len(ts) : ts[i].start <= Len(x)
  BY <1>1, StartsAndRooms DEF Ordered
<1>3. QED
  BY <1>2 DEF Ordered

LEMMA WriteMaps ==
  ASSUME NEW ts \in Seq(Token), NEW w \in Seq(Cell), NEW x \in Seq(Cell),
         Ordered(w, ts), Begins(w, x), NEW n \in Nat, n = Len(ts) + 1
  PROVE  /\ \A k \in 1 .. n - 1 : Piece(x, ts, k) = Piece(w, ts, k)
         /\ IsPrefix(Piece(w, ts, n), Piece(x, ts, n))
<1>1. Ordered(x, ts)
  BY OrderedLonger
<1>2. /\ Len(w) \in Nat /\ Len(x) \in Nat /\ Len(w) <= Len(x)
      /\ \A i \in 1 .. Len(w) : x[i] = w[i]
  BY DEF Begins
<1>3. ASSUME NEW k \in 1 .. n - 1 PROVE Piece(x, ts, k) = Piece(w, ts, k)
  <2>1. k \in 1 .. Len(ts) + 1 /\ k - 1 # Len(ts)
    OBVIOUS
  <2>2. PICK a \in Nat : a = StartOf(ts, k - 1)
    BY <2>1, PieceBounds
  <2>3. PICK e \in Nat : e = EndOf(w, ts, k - 1) /\ a <= e /\ e <= Len(w)
    BY <2>1, <2>2, PieceBounds
  <2>4. e = EndOf(x, ts, k - 1)
    BY <2>1, <2>3 DEF EndOf
  <2>5. e <= Len(x) /\ \A i \in 1 .. e : x[i] = w[i]
    BY <1>2, <2>3
  <2>6. SubSeq(w, a + 1, e) = SubSeq(x, a + 1, e)
    BY <2>3, <2>5, SameCut
  <2>7. QED
    BY <2>2, <2>3, <2>4, <2>6 DEF Piece
<1>4. IsPrefix(Piece(w, ts, n), Piece(x, ts, n))
  <2>1. n \in 1 .. Len(ts) + 1 /\ n - 1 = Len(ts)
    OBVIOUS
  <2>2. PICK a \in Nat : a = StartOf(ts, n - 1)
    BY <2>1, PieceBounds
  <2>3. PICK e \in Nat : e = EndOf(w, ts, n - 1) /\ a <= e /\ e = Len(w)
    BY <2>1, <2>2, PieceBounds DEF EndOf
  <2>4. PICK f \in Nat : f = EndOf(x, ts, n - 1) /\ f = Len(x)
    BY <1>2, <2>1 DEF EndOf
  <2>5. Begins(SubSeq(w, a + 1, e), SubSeq(x, a + 1, f))
    <3>1. e <= f /\ e <= Len(w) /\ f <= Len(x)
      BY <1>2, <2>3, <2>4
    <3>2. \A i \in 1 .. e : x[i] = w[i]
      BY <1>2, <2>3
    <3>3. QED
      BY <2>3, <3>1, <3>2, CutOfLonger
  <2>6. SubSeq(w, a + 1, e) \in Seq(Cell) /\ SubSeq(x, a + 1, f) \in Seq(Cell)
    <3>1. a <= f
      BY <1>2, <2>3, <2>4
    <3>2. QED
      BY <2>3, <2>4, <3>1, Cut
  <2>7. IsPrefix(SubSeq(w, a + 1, e), SubSeq(x, a + 1, f))
    BY <2>5, <2>6, PrefixIs
  <2>8. QED
    BY <2>2, <2>3, <2>4, <2>7 DEF Piece
<1>5. QED
  BY <1>3, <1>4

\* A step that opens an item.
LEMMA OpenMaps ==
  ASSUME NEW ts \in Seq(Token), NEW w \in Seq(Cell), NEW x \in Seq(Cell),
         Ordered(w, ts), Begins(w, x), NEW n \in Nat, n = Len(ts) + 1,
         NEW us \in Seq(Token), Len(us) = n, \A i \in 1 .. n - 1 : us[i] = ts[i],
         us[n].start = Len(x), Len(w) <= RoomBefore(us, n)
  PROVE  /\ Ordered(x, us)
         /\ \A k \in 1 .. n - 1 : Piece(x, us, k) = Piece(w, ts, k)
         /\ IsPrefix(Piece(w, ts, n), Piece(x, us, n))
         /\ Piece(x, us, n + 1) = <<>>
<1>1. /\ Len(w) \in Nat /\ Len(x) \in Nat /\ Len(w) <= Len(x)
      /\ \A i \in 1 .. Len(w) : x[i] = w[i]
  BY DEF Begins
<1>2. \A i \in 1 .. n - 1 : /\ i \in 1 .. Len(ts) /\ us[i] = ts[i]
                            /\ RoomBefore(us, i) = RoomBefore(ts, i)
  BY DEF RoomBefore
<1>3. PICK r \in Nat : r = RoomBefore(us, n) /\ Len(w) <= r /\ r <= Len(x)
  <2>1. n \in 1 .. Len(us)
    OBVIOUS
  <2>2. RoomBefore(us, n) \in Int /\ RoomBefore(us, n) <= us[n].start
    BY <2>1, StartsAndRooms
  <2>3. QED
    BY <1>1, <2>2
<1>4. Ordered(x, us)
  <2>1. ASSUME NEW i \in 1 .. Len(us)
        PROVE  0 <= RoomBefore(us, i) /\ us[i].start <= Len(x)
    <3>1. CASE i = n
      BY <1>1, <1>3, <3>1
    <3>2. CASE i # n
      <4>1. i \in 1 .. n - 1 /\ i \in 1 .. Len(ts)
        BY <3>2
      <4>2. 0 <= RoomBefore(ts, i) /\ ts[i].start <= Len(w) /\ ts[i].start \in Nat
        BY <4>1, StartsAndRooms DEF Ordered
      <4>3. QED
        BY <1>1, <1>2, <4>1, <4>2
    <3>3. QED
      BY <3>1, <3>2
  <2>2. ASSUME NEW i \in 1 .. Len(us), NEW j \in 1 .. Len(us), i < j
        PROVE  us[i].start <= RoomBefore(us, j)
    <3>1. i \in 1 .. n - 1 /\ i \in 1 .. Len(ts)
      BY <2>2
    <3>2. CASE j = n
      <4>1. ts[i].start <= Len(w) /\ ts[i].start \in Nat
        BY <3>1, StartsAndRooms DEF Ordered
      <4>2. QED
        BY <1>1, <1>2, <1>3, <3>1, <3>2, <4>1
    <3>3. CASE j # n
      <4>1. j \in 1 .. n - 1 /\ j \in 1 .. Len(ts)
        BY <3>3
      <4>2. ts[i].start <= RoomBefore(ts, j)
        BY <2>2, <3>1, <4>1 DEF Ordered
      <4>3. QED
        BY <1>2, <3>1, <4>1, <4>2
    <3>4. QED
      BY <3>2, <3>3
  <2>3. QED
    BY <2>1, <2>2 DEF Ordered
<1>5. ASSUME NEW k \in 1 .. n PROVE StartOf(us, k - 1) = StartOf(ts, k - 1)
  <2>1. k - 1 # 0 => k - 1 \in 1 .. n - 1
    OBVIOUS
  <2>2. QED
    BY <1>2, <2>1 DEF StartOf
<1>6. ASSUME NEW k \in 1 .. n - 1 PROVE Piece(x, us, k) = Piece(w, ts, k)
  <2>1. k \in 1 .. Len(ts) + 1 /\ k - 1 # Len(ts) /\ k - 1 # Len(us) /\ k - 1 + 1 = k
        /\ k \in 1 .. n
    OBVIOUS
  <2>2. PICK a \in Nat : a = StartOf(ts, k - 1)
    BY <2>1, PieceBounds
  <2>3. PICK e \in Nat : e = EndOf(w, ts, k - 1) /\ a <= e /\ e <= Len(w)
    BY <2>1, <2>2, PieceBounds
  <2>4. e = RoomBefore(ts, k) /\ EndOf(x, us, k - 1) = RoomBefore(us, k)
    BY <2>1, <2>3 DEF EndOf
  <2>5. e = EndOf(x, us, k - 1)
    BY <1>2, <2>4
  <2>6. e <= Len(x) /\ \A i \in 1 .. e : x[i] = w[i]
    BY <1>1, <2>3
  <2>7. SubSeq(w, a + 1, e) = SubSeq(x, a + 1, e)
    BY <2>3, <2>6, SameCut
  <2>8. a = StartOf(us, k - 1)
    BY <1>5, <2>1, <2>2
  <2>9. QED
    BY <2>2, <2>3, <2>5, <2>7, <2>8 DEF Piece
<1>7. IsPrefix(Piece(w, ts, n), Piece(x, us, n))
  <2>1. n \in 1 .. Len(ts) + 1 /\ n - 1 = Len(ts) /\ n - 1 # Len(us) /\ n - 1 + 1 = n
        /\ n \in 1 .. n
    OBVIOUS
  <2>2. PICK a \in Nat : a = StartOf(ts, n - 1)
    BY <2>1, PieceBounds
  <2>3. PICK e \in Nat : e = EndOf(w, ts, n - 1) /\ a <= e /\ e = Len(w)
    BY <2>1, <2>2, PieceBounds DEF EndOf
  <2>4. r = EndOf(x, us, n - 1)
    BY <1>3, <2>1 DEF EndOf
  <2>5. e <= r /\ e <= Len(w) /\ r <= Len(x) /\ a <= r
    BY <1>1, <1>3, <2>3
  <2>6. \A i \in 1 .. e : x[i] = w[i]
    BY <1>1, <2>3
  <2>7. Begins(SubSeq(w, a + 1, e), SubSeq(x, a + 1, r))
    BY <2>3, <2>5, <2>6, CutOfLonger
  <2>8. SubSeq(w, a + 1, e) \in Seq(Cell) /\ SubSeq(x, a + 1, r) \in Seq(Cell)
    BY <2>3, <2>5, Cut
  <2>9. IsPrefix(SubSeq(w, a + 1, e), SubSeq(x, a + 1, r))
    BY <2>7, <2>8, PrefixIs
  <2>10. a = StartOf(us, n - 1)
    BY <1>5, <2>1, <2>2
  <2>11. QED
    BY <2>2, <2>3, <2>4, <2>9, <2>10 DEF Piece
<1>8. Piece(x, us, n + 1) = <<>>
  <2>1. PICK l \in Nat : l = Len(x)
    BY <1>1
  <2>2. n + 1 - 1 = n /\ n # 0
    OBVIOUS
  <2>3. StartOf(us, n) = l /\ EndOf(x, us, n) = l
    BY <2>1, <2>2 DEF StartOf, EndOf
  <2>4. SubSeq(x, l + 1, l) = <<>>
    BY <2>1
  <2>5. QED
    BY <2>2, <2>3, <2>4 DEF Piece
<1>9. QED
  BY <1>4, <1>6, <1>7, <1>8

Fronted(us, ts) == /\ us \in Seq(Token) /\ Len(us) = Len(ts) - 1
                   /\ \A i \in 1 .. Len(ts) - 1 : us[i] = ts[i]

\* Up to e, x has what w has, and then what is framed.
Shut(w, x, e, framed) ==
  /\ Len(x) = e + Len(framed)
  /\ \A i \in 1 .. e : x[i] = w[i]
  /\ \A i \in 1 .. Len(framed) : x[e + i] = framed[i]

\* A step that closes an item: it ends with framed, its body and its length.
LEMMA CloseMaps ==
  ASSUME NEW ts \in Seq(Token), NEW w \in Seq(Cell), NEW x \in Seq(Cell),
         Ordered(w, ts), NEW n \in Nat \ {0}, n = Len(ts),
         NEW us, Fronted(us, ts),
         NEW framed \in Seq(Cell), NEW e \in Nat, e = RoomBefore(ts, n),
         Shut(w, x, e, framed)
  PROVE  /\ Ordered(x, us)
         /\ \A k \in 1 .. n - 1 : Piece(x, us, k) = Piece(w, ts, k)
         /\ Piece(x, us, n) = Piece(w, ts, n) \o framed
<1>0. /\ Len(x) = e + Len(framed)
      /\ \A i \in 1 .. e : x[i] = w[i]
      /\ \A i \in 1 .. Len(framed) : x[e + i] = framed[i]
  BY DEF Shut
<1>a. us \in Seq(Token) /\ Len(us) = n - 1 /\ \A i \in 1 .. n - 1 : us[i] = ts[i]
  BY DEF Fronted
<1>1. Len(w) \in Nat /\ Len(framed) \in Nat /\ e <= Len(x) /\ Len(x) \in Nat
  BY <1>0
<1>t. w \in Seq(Cell) /\ x \in Seq(Cell) /\ framed \in Seq(Cell) /\ e \in Nat
  OBVIOUS
<1>2. \A i \in 1 .. n - 1 : /\ i \in 1 .. Len(ts) /\ us[i] = ts[i]
                            /\ RoomBefore(us, i) = RoomBefore(ts, i)
  BY <1>a DEF RoomBefore
<1>3. e <= Len(w)
  <2>1. n \in 1 .. Len(ts)
    OBVIOUS
  <2>2. e <= ts[n].start /\ ts[n].start \in Nat /\ ts[n].start <= Len(w)
    BY <2>1, StartsAndRooms DEF Ordered
  <2>3. QED
    BY <1>1, <2>2
<1>4. Ordered(x, us)
  <2>1. ASSUME NEW i \in 1 .. Len(us)
        PROVE  0 <= RoomBefore(us, i) /\ us[i].start <= Len(x)
    <3>1. i \in 1 .. n - 1 /\ i \in 1 .. Len(ts) /\ n \in 1 .. Len(ts) /\ i < n
      BY <1>a
    <3>2. 0 <= RoomBefore(ts, i) /\ ts[i].start <= e /\ ts[i].start \in Nat
      BY <3>1, StartsAndRooms DEF Ordered
    <3>3. QED
      BY <1>1, <1>2, <3>1, <3>2
  <2>2. ASSUME NEW i \in 1 .. Len(us), NEW j \in 1 .. Len(us), i < j
        PROVE  us[i].start <= RoomBefore(us, j)
    <3>1. /\ i \in 1 .. n - 1 /\ i \in 1 .. Len(ts)
          /\ j \in 1 .. n - 1 /\ j \in 1 .. Len(ts)
      BY <1>a
    <3>2. ts[i].start <= RoomBefore(ts, j)
      BY <2>2, <3>1 DEF Ordered
    <3>3. QED
      BY <1>2, <3>1, <3>2
  <2>3. QED
    BY <2>1, <2>2 DEF Ordered
<1>5. ASSUME NEW k \in 1 .. n PROVE StartOf(us, k - 1) = StartOf(ts, k - 1)
  <2>1. k - 1 # 0 => k - 1 \in 1 .. n - 1
    OBVIOUS
  <2>2. QED
    BY <1>2, <2>1 DEF StartOf
<1>6. ASSUME NEW k \in 1 .. n - 1 PROVE Piece(x, us, k) = Piece(w, ts, k)
  <2>1. k \in 1 .. Len(ts) + 1 /\ k - 1 # Len(ts) /\ k - 1 # Len(us) /\ k - 1 + 1 = k
        /\ k \in 1 .. n /\ k \in 1 .. Len(ts) /\ n \in 1 .. Len(ts) /\ k < n
    BY <1>a
  <2>2. PICK a \in Nat : a = StartOf(ts, k - 1)
    BY <2>1, PieceBounds
  <2>3. PICK f \in Nat : f = EndOf(w, ts, k - 1) /\ a <= f /\ f <= Len(w)
    BY <2>1, <2>2, PieceBounds
  <2>4. f = RoomBefore(ts, k) /\ EndOf(x, us, k - 1) = RoomBefore(us, k)
    BY <2>1, <2>3 DEF EndOf
  <2>5. f = EndOf(x, us, k - 1)
    BY <1>2, <2>4
  <2>6. f <= e
    <3>1. RoomBefore(ts, k) <= ts[k].start /\ ts[k].start \in Nat
      BY <2>1, StartsAndRooms
    <3>2. ts[k].start <= e
      BY <2>1 DEF Ordered
    <3>3. QED
      BY <2>4, <3>1, <3>2
  <2>7. f <= Len(x) /\ \A i \in 1 .. f : x[i] = w[i]
    BY <1>0, <1>1, <2>6
  <2>8. SubSeq(w, a + 1, f) = SubSeq(x, a + 1, f)
    <3>1. a \in Nat /\ f \in Nat /\ a <= f /\ f <= Len(w) /\ f <= Len(x)
      BY <2>3, <2>7
    <3>2. \A i \in 1 .. f : x[i] = w[i]
      BY <2>7
    <3>3. QED
      BY ONLY <1>t, <3>1, <3>2, SameCut
  <2>9. a = StartOf(us, k - 1)
    BY <1>5, <2>1, <2>2
  <2>10. QED
    BY <2>2, <2>3, <2>5, <2>8, <2>9 DEF Piece
<1>7. Piece(x, us, n) = Piece(w, ts, n) \o framed
  <2>1. n \in 1 .. Len(ts) + 1 /\ n - 1 # Len(ts) /\ n - 1 = Len(us) /\ n - 1 + 1 = n
        /\ n \in 1 .. n
    BY <1>a
  <2>2. PICK a \in Nat : a = StartOf(ts, n - 1)
    BY <2>1, PieceBounds
  <2>3. e = EndOf(w, ts, n - 1) /\ a <= e
    <3>1. e = EndOf(w, ts, n - 1)
      BY <2>1 DEF EndOf
    <3>2. QED
      BY <2>1, <2>2, <3>1, PieceBounds
  <2>4. PICK l \in Nat : l = Len(x) /\ l = EndOf(x, us, n - 1)
    BY <1>1, <2>1 DEF EndOf
  <2>a. a \in Nat /\ a <= e /\ e <= Len(w)
    BY <1>3, <2>2, <2>3
  <2>l. l \in Nat /\ l = Len(x) /\ e <= l
    BY <1>1, <2>4
  <2>5. PICK s : s = SubSeq(w, a + 1, e)
    OBVIOUS
  <2>6. PICK t : t = SubSeq(x, a + 1, l)
    OBVIOUS
  <2>7. s \in Seq(Cell) /\ Len(s) = e - a /\ \A i \in 1 .. e - a : s[i] = w[a + i]
    BY ONLY <1>t, <2>a, <2>5, Cut
  <2>8. t \in Seq(Cell) /\ Len(t) = l - a /\ \A i \in 1 .. l - a : t[i] = x[a + i]
    <3>1. a <= l /\ l <= Len(x)
      BY ONLY <1>t, <2>a, <2>l
    <3>2. QED
      BY ONLY <1>t, <2>a, <2>l, <2>6, <3>1, Cut
  <2>9. PICK u : u = s \o framed
    OBVIOUS
  <2>10. /\ u \in Seq(Cell) /\ Len(u) = Len(s) + Len(framed)
         /\ \A i \in 1 .. Len(s) : u[i] = s[i]
         /\ \A i \in 1 .. Len(framed) : u[Len(s) + i] = framed[i]
    <3>1. s \in Seq(Cell) /\ framed \in Seq(Cell)
      BY <2>7
    <3>2. /\ s \o framed \in Seq(Cell) /\ Len(s \o framed) = Len(s) + Len(framed)
          /\ \A i \in 1 .. Len(s) : (s \o framed)[i] = s[i]
          /\ \A i \in 1 .. Len(framed) : (s \o framed)[Len(s) + i] = framed[i]
      BY ONLY <3>1, Joined
    <3>3. QED
      BY <2>9, <3>2, Zenon
  <2>11. PICK m \in Nat : m = e - a /\ a + m = e
    BY ONLY <1>t, <2>a
  <2>12. PICK q \in Nat : q = Len(framed)
    BY <1>1
  <2>13. /\ Len(u) = m + q /\ Len(t) = m + q
         /\ \A i \in 1 .. m : u[i] = s[i]
         /\ \A i \in 1 .. q : u[m + i] = framed[i]
    <3>1. Len(s) = m
      BY <2>7, <2>11
    <3>2. l - a = m + q
      <4>1. l = e + q
        BY <1>0, <2>4, <2>12
      <4>2. QED
        BY ONLY <1>t, <2>a, <2>11, <2>12, <4>1
    <3>3. QED
      BY <2>8, <2>10, <2>12, <3>1, <3>2
  <2>14. ASSUME NEW i \in 1 .. m + q PROVE t[i] = u[i]
    <3>1. t[i] = x[a + i]
      <4>1. l - a = m + q
        <5>1. l = e + q
          BY <1>0, <2>4, <2>12
        <5>2. QED
          BY ONLY <1>t, <2>a, <2>11, <2>12, <5>1
      <4>2. QED
        BY <2>8, <4>1
    <3>2. CASE i <= m
      <4>1. i \in 1 .. m /\ i \in 1 .. e - a /\ a + i \in 1 .. e
        BY <2>11, <3>2
      <4>2. u[i] = w[a + i] /\ x[a + i] = w[a + i]
        BY <1>0, <2>7, <2>13, <4>1
      <4>3. QED
        BY <3>1, <4>2
    <3>3. CASE ~(i <= m)
      <4>1. PICK j \in 1 .. q : j = i - m /\ i = m + j
        BY <3>3
      <4>2. a + i = e + j
        BY <2>11, <4>1
      <4>3. x[e + j] = framed[j] /\ u[m + j] = framed[j]
        BY <1>0, <2>12, <2>13, <4>1
      <4>4. QED
        BY <3>1, <4>1, <4>2, <4>3
    <3>4. QED
      BY <3>2, <3>3
  <2>15. t = u
    <3>1. Len(t) = Len(u) /\ \A i \in 1 .. Len(t) : t[i] = u[i]
      BY <2>13, <2>14
    <3>2. QED
      BY <2>8, <2>10, <3>1, SeqSame
  <2>16. a = StartOf(us, n - 1)
    BY <1>5, <2>1, <2>2
  <2>17. Piece(w, ts, n) = s
    BY <2>2, <2>3, <2>5 DEF Piece
  <2>18. Piece(x, us, n) = t
    BY <2>4, <2>6, <2>16 DEF Piece
  <2>19. QED
    BY <2>9, <2>15, <2>17, <2>18
<1>8. QED
  BY <1>4, <1>6, <1>7

-----------------------------------------------------------------------------
(* What is settled.                                                        *)

LEMMA JoinedCuts ==
  ASSUME NEW w \in Seq(Cell), NEW a \in Nat, NEW e \in Nat, a <= e, e <= Len(w)
  PROVE  SubSeq(w, 1, a) \o SubSeq(w, a + 1, e) = SubSeq(w, 1, e)
<1>1. PICK s : s = SubSeq(w, 1, a)
  OBVIOUS
<1>2. PICK t : t = SubSeq(w, a + 1, e)
  OBVIOUS
<1>3. PICK u : u = SubSeq(w, 1, e)
  OBVIOUS
<1>4. PICK z : z = s \o t
  OBVIOUS
<1>5. s \in Seq(Cell) /\ Len(s) = a /\ \A i \in 1 .. a : s[i] = w[i]
  <2>1. a <= Len(w)
    OBVIOUS
  <2>2. QED
    BY <1>1, <2>1, FirstSlice
<1>6. t \in Seq(Cell) /\ Len(t) = e - a /\ \A i \in 1 .. e - a : t[i] = w[a + i]
  BY <1>2, Cut
<1>7. u \in Seq(Cell) /\ Len(u) = e /\ \A i \in 1 .. e : u[i] = w[i]
  BY <1>3, FirstSlice
<1>8. /\ z \in Seq(Cell) /\ Len(z) = Len(s) + Len(t)
      /\ \A i \in 1 .. Len(s) : z[i] = s[i]
      /\ \A i \in 1 .. Len(t) : z[Len(s) + i] = t[i]
  BY <1>4, <1>5, <1>6, Joined
<1>9. /\ Len(z) = e
      /\ \A i \in 1 .. a : z[i] = s[i]
      /\ \A i \in 1 .. e - a : z[a + i] = t[i]
  BY <1>5, <1>6, <1>8
<1>10. ASSUME NEW i \in 1 .. e PROVE z[i] = u[i]
  <2>1. CASE i <= a
    BY <1>5, <1>7, <1>9, <2>1
  <2>2. CASE ~(i <= a)
    <3>1. PICK j \in 1 .. e - a : i = a + j
      BY <2>2
    <3>2. z[a + j] = w[a + j]
      BY <1>6, <1>9, <3>1
    <3>3. QED
      BY <1>7, <3>1, <3>2
  <2>3. QED
    BY <2>1, <2>2
<1>11. z = u
  <2>1. Len(z) = Len(u) /\ \A i \in 1 .. Len(z) : z[i] = u[i]
    BY <1>7, <1>9, <1>10
  <2>2. QED
    BY <1>7, <1>8, <2>1, SeqSame
<1>12. QED
  BY <1>1, <1>2, <1>3, <1>4, <1>11

\* The first pieces, joined, as far as no item has a length.
LEMMA JoinedPieces ==
  ASSUME NEW ts \in Seq(Token), NEW w \in Seq(Cell), Ordered(w, ts),
         NEW m \in 1 .. Len(ts) + 1, \A j \in 1 .. m - 1 : ~IsPrefixed(ts[j]),
         NEW s, \A i \in 1 .. m : s[i] = Piece(w, ts, i),
         NEW f, IsFlattening(f, s, m)
  PROVE  f[m] = SubSeq(w, 1, EndOf(w, ts, m - 1))
<1> DEFINE Joins(i) == i \in 1 .. m => f[i] = SubSeq(w, 1, EndOf(w, ts, i - 1))
<1>1. PICK S : S = {i \in Nat : Joins(i)}
  OBVIOUS
<1>2. 0 \in S
  BY <1>1
<1>3. ASSUME NEW i \in Nat, i \in S PROVE i + 1 \in S
  <2>0. SUFFICES Joins(i + 1)
    <3>1. i + 1 \in Nat
      OBVIOUS
    <3> HIDE DEF Joins
    <3>2. QED
      BY <1>1, <3>1, Zenon
  <2>1. SUFFICES ASSUME i + 1 \in 1 .. m PROVE Joins(i + 1)
    BY DEF Joins
  <2>2. PICK h \in Nat : h = i + 1 /\ h - 1 = i /\ h \in 1 .. m /\ h \in 1 .. Len(ts) + 1
    BY <2>1
  <2>3. f[h] = IF h = 1 THEN s[h] ELSE f[h - 1] \o s[h]
    <3>1. f = [g \in 1 .. m |-> IF g = 1 THEN s[g] ELSE f[g - 1] \o s[g]]
      BY DEF IsFlattening
    <3>2. QED
      BY <2>2, <3>1
  <2>4. PICK a \in Nat : a = StartOf(ts, h - 1)
    BY <2>2, PieceBounds
  <2>5. PICK e \in Nat : e = EndOf(w, ts, h - 1) /\ a <= e /\ e <= Len(w)
    BY <2>2, <2>4, PieceBounds
  <2>6. s[h] = SubSeq(w, a + 1, e)
    BY <2>2, <2>4, <2>5 DEF Piece
  <2>7. f[h] = SubSeq(w, 1, e)
    <3>1. CASE i = 0
      <4>1. h = 1 /\ a = 0
        BY <2>2, <2>4, <3>1 DEF StartOf
      <4>2. f[h] = s[h] /\ a + 1 = 1
        BY <2>3, <4>1
      <4>3. QED
        BY <2>6, <4>2
    <3>2. CASE i # 0
      <4>1. i \in 1 .. m /\ i \in 1 .. m - 1 /\ i \in 1 .. Len(ts) /\ h # 1
            /\ i - 1 # Len(ts) /\ i - 1 + 1 = i
        BY <2>2, <3>2
      <4>2. f[i] = SubSeq(w, 1, EndOf(w, ts, i - 1))
        BY <1>1, <1>3, <4>1
      <4>3. ts[i].style = "group"
        BY <4>1 DEF IsPrefixed
      <4>4. RoomBefore(ts, i) = ts[i].start
        <5>1. Room(ts[i].style) = 0
          BY <4>3 DEF Room
        <5>2. ts[i].start \in Nat
          BY <4>1, StartsAndRooms
        <5>3. QED
          BY <5>1, <5>2 DEF RoomBefore
      <4>5. EndOf(w, ts, i - 1) = a
        <5>1. EndOf(w, ts, i - 1) = RoomBefore(ts, i)
          BY <4>1 DEF EndOf
        <5>2. a = ts[i].start
          BY <2>2, <2>4, <3>2 DEF StartOf
        <5>3. QED
          BY <4>4, <5>1, <5>2
      <4>6. f[h] = SubSeq(w, 1, a) \o SubSeq(w, a + 1, e)
        BY <2>2, <2>3, <2>6, <4>1, <4>2, <4>5
      <4>7. QED
        BY <2>5, <4>6, JoinedCuts
    <3>3. QED
      BY <3>1, <3>2
  <2>8. QED
    BY <2>2, <2>5, <2>7
<1>4. m \in Nat /\ m \in S
  <2>1. m \in Nat
    OBVIOUS
  <2>2. Nat \subseteq S
    BY <1>2, <1>3, NatSets
  <2>3. QED
    BY <2>1, <2>2
<1>5. Joins(m)
  <2> HIDE DEF Joins
  <2>1. QED
    BY <1>1, <1>4, Zenon
<1>6. m \in 1 .. m
  OBVIOUS
<1>7. QED
  BY ONLY <1>5, <1>6

\* The pieces that no length still to come can move.
LEMMA SettledPieces ==
  ASSUME NEW ts \in Seq(Token)
  PROVE  \E m \in 1 .. Len(ts) + 1 :
           /\ \A j \in 1 .. m - 1 : ~IsPrefixed(ts[j])
           /\ m <= Len(ts) => IsPrefixed(ts[m])
           /\ {i \in 1 .. Len(ts) + 1 : \A j \in 1 .. i - 1 : ~IsPrefixed(ts[j])} = 1 .. m
<1>1. PICK n \in Nat : n = Len(ts)
  OBVIOUS
<1>2. PICK T : T = {i \in 1 .. n : IsPrefixed(ts[i])} \union {n + 1}
  OBVIOUS
<1>3. T \subseteq Nat /\ T # {}
  BY <1>2
<1>4. PICK m \in T : \A y \in T : m <= y
  BY <1>3, LeastOf
<1>5. m \in 1 .. n + 1
  BY <1>2
<1>6. \A j \in 1 .. m - 1 : ~IsPrefixed(ts[j])
  <2>1. ASSUME NEW j \in 1 .. m - 1, IsPrefixed(ts[j]) PROVE FALSE
    <3>1. j \in 1 .. n /\ ~(m <= j)
      BY <1>5
    <3>2. j \in T
      BY <1>2, <2>1, <3>1
    <3>3. QED
      BY <1>4, <3>1, <3>2
  <2>2. QED
    BY <2>1
<1>7. m <= n => IsPrefixed(ts[m])
  BY <1>2, <1>4, <1>5
<1>8. ASSUME NEW i \in 1 .. n + 1
      PROVE  (\A j \in 1 .. i - 1 : ~IsPrefixed(ts[j])) <=> i \in 1 .. m
  <2>1. CASE i <= m
    <3>1. \A j \in 1 .. i - 1 : j \in 1 .. m - 1
      BY <1>5, <2>1
    <3>2. i \in 1 .. m
      BY <1>5, <2>1
    <3>3. QED
      BY <1>6, <3>1, <3>2
  <2>2. CASE ~(i <= m)
    <3>1. m \in 1 .. i - 1 /\ m <= n /\ i \notin 1 .. m
      BY <1>5, <2>2
    <3>2. QED
      BY <1>7, <3>1
  <2>3. QED
    BY <2>1, <2>2
<1>9. {i \in 1 .. n + 1 : \A j \in 1 .. i - 1 : ~IsPrefixed(ts[j])} = 1 .. m
  <2>1. 1 .. m \subseteq 1 .. n + 1
    BY <1>5
  <2>2. QED
    BY <1>8, <2>1
<1>10. QED
  BY <1>1, <1>5, <1>6, <1>7, <1>9

LEMMA StreamFlattenSeq ==
  ASSUME NEW s
  PROVE  Stream!FlattenSeq(s) = FlattenSeq(s)
BY Zenon DEF Stream!FlattenSeq, FlattenSeq

LEMMA StreamIsPrefix ==
  ASSUME NEW s, NEW t
  PROVE  Stream!IsPrefix(s, t) = IsPrefix(s, t)
BY DEF Stream!IsPrefix, IsPrefix

LEMMA StreamEnds ==
  ASSUME NEW s
  PROVE  Stream!Last(s) = Last(s) /\ Stream!Front(s) = Front(s)
BY DEF Stream!Last, Last, Stream!Front, Front

LEMMA StreamPower == Stream!Power = Power
BY Zenon DEF Stream!Power, Power

LEMMA StreamDigits ==
  ASSUME NEW n
  PROVE  Stream!Digits(n) = Digits(n)
<1>1. Stream!Width(n) = Width(n)
  <2>1. PICK S : S = {k \in 1 .. VarintSpace - 1 : Power[k] <= n}
    OBVIOUS
  <2>2. Stream!Cardinality(S) = Cardinality(S)
    BY Zenon DEF Stream!Cardinality, Cardinality
  <2>3. QED
    BY <2>1, <2>2, StreamPower, Zenon DEF Stream!Width, Width
<1>2. PICK k : k = Width(n) /\ k = Stream!Width(n)
  BY <1>1
<1>3. Digits(n) = [i \in 1 .. k |-> <<"digit", (n \div Power[i - 1]) % Base, i < k>>]
  BY <1>2, Zenon DEF Digits
<1>4. Stream!Digits(n) =
        [i \in 1 .. k |-> <<"digit", (n \div Power[i - 1]) % Base, i < k>>]
  BY <1>2, StreamPower, Zenon DEF Stream!Digits
<1>5. QED
  BY <1>3, <1>4, Zenon

LEMMA StreamFixed ==
  ASSUME NEW n
  PROVE  Stream!Fixed(n) = Fixed(n)
BY Zenon DEF Stream!Fixed, Fixed

\* What the destination has is settled.
LEMMA SentIsSettled ==
  ASSUME NEW ts \in Seq(Token), NEW b, BufInv(b, ts), Ordered(WholeOf(b), ts)
  PROVE  Stream!IsPrefix(b.dest, Stream!Settled(FramingsOf(ts), Pieces(WholeOf(b), ts)))
<1>1. PICK w : w = WholeOf(b)
  OBVIOUS
<1>2. PICK n \in Nat : n = Len(ts)
  OBVIOUS
<1>3. PICK ks : ks = FramingsOf(ts)
  OBVIOUS
<1>4. PICK bs : bs = Pieces(w, ts)
  OBVIOUS
<1>5. DOMAIN bs = 1 .. n + 1 /\ \A i \in 1 .. n + 1 : bs[i] = Piece(w, ts, i)
  BY <1>2, <1>4, PiecesLen, PieceIs
<1>6. \A j \in 1 .. n : ks[j].style = ts[j].style
  BY <1>2, <1>3 DEF FramingsOf
<1>7. PICK m \in 1 .. Len(ts) + 1 :
        /\ \A j \in 1 .. m - 1 : ~IsPrefixed(ts[j])
        /\ m <= Len(ts) => IsPrefixed(ts[m])
        /\ {i \in 1 .. Len(ts) + 1 : \A j \in 1 .. i - 1 : ~IsPrefixed(ts[j])} = 1 .. m
  BY SettledPieces
<1>8. PICK D : D = {i \in DOMAIN bs : \A j \in 1 .. i - 1 : ks[j].style = "group"}
  OBVIOUS
<1>9. D = 1 .. m
  <2>1. ASSUME NEW i \in 1 .. n + 1
        PROVE  (\A j \in 1 .. i - 1 : ks[j].style = "group")
               <=> (\A j \in 1 .. i - 1 : ~IsPrefixed(ts[j]))
    <3>1. \A j \in 1 .. i - 1 : j \in 1 .. n
      OBVIOUS
    <3>2. QED
      BY <1>6, <3>1 DEF IsPrefixed
  <2>2. D = {i \in 1 .. n + 1 : \A j \in 1 .. i - 1 : ~IsPrefixed(ts[j])}
    BY <1>5, <1>8, <2>1
  <2>3. QED
    BY <1>2, <1>7, <2>2
<1>10. PICK s : s = [k \in D |-> bs[k]]
  OBVIOUS
<1>11. m \in Nat \ {0} /\ m = Len(s) /\ \A i \in 1 .. m : s[i] = Piece(w, ts, i)
  <2>1. m \in Nat \ {0} /\ m \in 1 .. n + 1
    BY <1>2, <1>7
  <2>2. s = [k \in 1 .. m |-> bs[k]]
    BY <1>9, <1>10
  <2>3. Len(s) = m
    BY <2>1, <2>2
  <2>4. ASSUME NEW i \in 1 .. m PROVE s[i] = Piece(w, ts, i)
    <3>1. i \in 1 .. n + 1
      BY <2>1
    <3>2. QED
      BY <1>5, <2>2, <3>1
  <2>5. QED
    BY <2>1, <2>3, <2>4
<1>12. Stream!Settled(ks, bs) = FlattenSeq(s)
  <2>1. Stream!Settled(ks, bs) = Stream!FlattenSeq(s)
    BY <1>8, <1>10, Zenon DEF Stream!Settled
  <2>2. QED
    BY <2>1, StreamFlattenSeq
<1>13. PICK f : IsFlattening(f, s, m) /\ FlattenSeq(s) = f[m]
  <2>1. m \in Nat \ {0} /\ m = Len(s)
    BY <1>11
  <2>2. QED
    BY ONLY <2>1, Flattened
<1>14. w \in Seq(Cell) /\ Ordered(w, ts) /\ IsBuffer(b)
  BY <1>1, BufferParts DEF BufInv
<1>15. f[m] = SubSeq(w, 1, EndOf(w, ts, m - 1))
  <2>1. \A j \in 1 .. m - 1 : ~IsPrefixed(ts[j])
    BY <1>7
  <2>2. \A i \in 1 .. m : s[i] = Piece(w, ts, i)
    BY <1>11
  <2>3. IsFlattening(f, s, m)
    BY <1>13
  <2>4. w \in Seq(Cell) /\ Ordered(w, ts) /\ ts \in Seq(Token) /\ m \in 1 .. Len(ts) + 1
    BY <1>7, <1>14
  <2>5. QED
    BY ONLY <2>1, <2>2, <2>3, <2>4, JoinedPieces
<1>16. PICK e \in Nat : e = EndOf(w, ts, m - 1) /\ e <= Len(w)
  BY <1>7, <1>14, PieceBounds
<1>17. b.dest \in Seq(Cell) /\ Begins(b.dest, w)
  BY <1>1, <1>14, BufferParts
<1>18. Len(b.dest) <= e
  <2>1. CASE m = n + 1
    <3>1. e = Len(w)
      BY <1>2, <1>16, <2>1 DEF EndOf
    <3>2. QED
      BY <1>17, <3>1 DEF Begins
  <2>2. CASE m # n + 1
    <3>1. m \in 1 .. n /\ m - 1 # n /\ m - 1 + 1 = m
      BY <1>2, <1>7, <2>2
    <3>2. IsPrefixed(ts[m])
      BY <1>2, <1>7, <3>1
    <3>3. m \in Prefixed(ts)
      BY <1>2, <3>1, <3>2 DEF Prefixed
    <3>4. RoomAt(b, ts[m])
      BY <3>3 DEF BufInv
    <3>5. PICK v \in Int : v = ts[m].value
      BY <3>3, Typed
    <3>6. PICK r \in Nat : r = Room(ts[m].style)
      BY <3>3, Typed
    <3>7. v >= 0 /\ Len(b.dest) + v + r = ts[m].start
      BY <3>4, <3>5, <3>6 DEF RoomAt
    <3>8. e = ts[m].start - r
      BY <1>2, <1>16, <3>1, <3>6 DEF EndOf, RoomBefore
    <3>9. Len(b.dest) \in Nat
      BY <1>17
    <3>10. QED
      BY <3>7, <3>8, <3>9
  <2>3. QED
    BY <2>1, <2>2
<1>19. PICK u : u = SubSeq(w, 1, e)
  OBVIOUS
<1>20. u \in Seq(Cell) /\ Len(u) = e /\ \A i \in 1 .. e : u[i] = w[i]
  BY <1>14, <1>16, <1>19, FirstSlice
<1>21. Begins(b.dest, u)
  <2>1. \A i \in 1 .. Len(b.dest) : i \in 1 .. e
    BY <1>16, <1>17, <1>18
  <2>2. QED
    BY <1>17, <1>18, <1>20, <2>1 DEF Begins
<1>22. IsPrefix(b.dest, u)
  BY <1>17, <1>20, <1>21, PrefixIs
<1>23. u = Stream!Settled(ks, bs)
  BY <1>12, <1>13, <1>15, <1>16, <1>19
<1>24. Stream!IsPrefix(b.dest, u)
  BY <1>22, StreamIsPrefix
<1>25. QED
  BY <1>1, <1>3, <1>4, <1>23, <1>24

-----------------------------------------------------------------------------
(* The steps of the stream.                                                *)

\* What is sent past the buffer leaves nothing behind in it.
Bypassing == copying = "send" => io.buffer = <<>>

\* A group's token says its field.
FieldsNamed(ts) == \A i \in 1 .. Len(ts) :
  ts[i].style = "group" => ts[i].field = -ts[i].value

\* Beside WriterInv: where in the message the items begin.
StreamInv == /\ WriterInv
             /\ Ordered(WholeOf(io), tokens)
             /\ FieldsNamed(tokens)
             /\ Bypassing

LEMMA MappedIs ==
  /\ Framings = FramingsOf(tokens) /\ Bodies = Pieces(WholeOf(io), tokens)
  /\ Framings' = FramingsOf(tokens') /\ Bodies' = Pieces(WholeOf(io'), tokens')
<1>1. Framings = FramingsOf(tokens) /\ Framings' = FramingsOf(tokens')
  BY DEF Framings, FramingsOf
<1>2. PICK w : w = WholeOf(io) /\ w = Whole
  BY DEF WholeOf, Whole
<1>3. ASSUME NEW k \in 1 .. Len(tokens) + 1
      PROVE  SubSeq(Whole, Begin(k - 1) + 1, End(k - 1)) = Piece(w, tokens, k)
  BY <1>2, Zenon DEF Begin, End, StartOf, EndOf, RoomBefore, Piece
<1>4. Bodies = Pieces(w, tokens)
  BY <1>3, Zenon DEF Bodies, Pieces
<1>5. PICK x : x = WholeOf(io') /\ x = Whole'
  BY DEF WholeOf, Whole
<1>6. ASSUME NEW k \in 1 .. Len(tokens') + 1
      PROVE  SubSeq(Whole', Begin(k - 1)' + 1, End(k - 1)') = Piece(x, tokens', k)
  BY <1>5, Zenon DEF Begin, End, StartOf, EndOf, RoomBefore, Piece
<1>7. Bodies' = Pieces(x, tokens')
  BY <1>6, Zenon DEF Bodies, Pieces
<1>8. QED
  BY <1>1, <1>2, <1>4, <1>5, <1>7

LEMMA SendStep ==
  ASSUME WriterInv, WriterInv', Ordered(WholeOf(io'), tokens'),
         Begins(io.dest, io'.dest)
  PROVE  Stream!Send
<1>1. IsPrefix(io.dest, io'.dest)
  <2>1. io.dest \in Seq(Cell) /\ io'.dest \in Seq(Cell)
    BY BufferParts DEF WriterInv, BufInv
  <2>2. QED
    BY <2>1, PrefixIs
<1>2. Stream!IsPrefix(io.dest, io'.dest)
  BY <1>1, StreamIsPrefix
<1>3. tokens' \in Seq(Token) /\ BufInv(io', tokens')
  BY DEF WriterInv, ItemsOpen
<1>4. PICK b : b = io'
  OBVIOUS
<1>5. PICK ts : ts = tokens'
  OBVIOUS
<1>6. Stream!IsPrefix(b.dest, Stream!Settled(FramingsOf(ts), Pieces(WholeOf(b), ts)))
  <2>1. ts \in Seq(Token) /\ BufInv(b, ts) /\ Ordered(WholeOf(b), ts)
    BY <1>3, <1>4, <1>5
  <2>2. QED
    BY ONLY <2>1, SentIsSettled
<1>7. Framings' = FramingsOf(ts) /\ Bodies' = Pieces(WholeOf(b), ts)
  BY <1>4, <1>5, MappedIs
<1>8. Stream!IsPrefix(io'.dest, Stream!Settled(Framings', Bodies'))
  BY <1>4, <1>6, <1>7, Zenon
<1>9. QED
  BY <1>2, <1>8, Zenon DEF Stream!Send

\* The innermost open item, or the message, gets longer.
LEMMA ExtendedIs ==
  ASSUME NEW n \in Nat \ {0}, Len(Bodies) = n,
         \A k \in 1 .. n - 1 : Bodies'[k] = Bodies[k],
         IsPrefix(Bodies[n], Bodies'[n])
  PROVE  Stream!Extended
BY StreamIsPrefix, Zenon DEF Stream!Extended

LEMMA StreamWrite ==
  ASSUME StreamInv, WriterInv', tokens' = tokens, Grew(io, io')
  PROVE  Ordered(WholeOf(io'), tokens') /\ Stream!Next
<1>1. PICK ts \in Seq(Token) : ts = tokens
  BY InvFacts DEF StreamInv
<1>2. PICK w \in Seq(Cell) : w = WholeOf(io) /\ Ordered(w, ts)
  BY <1>1, BufferParts DEF StreamInv, WriterInv, BufInv
<1>3. PICK x \in Seq(Cell) : x = WholeOf(io') /\ Begins(w, x)
  BY <1>2, BufferParts DEF WriterInv, BufInv, Grew
<1>4. Ordered(x, ts)
  BY <1>2, <1>3, OrderedLonger
<1>5. PICK n \in Nat \ {0} : n = Len(ts) + 1
  OBVIOUS
<1>6. /\ \A k \in 1 .. n - 1 : Piece(x, ts, k) = Piece(w, ts, k)
      /\ IsPrefix(Piece(w, ts, n), Piece(x, ts, n))
  <2>1. n \in Nat
    OBVIOUS
  <2>2. QED
    BY <1>2, <1>3, <1>5, <2>1, WriteMaps
<1>7. /\ Framings' = Framings /\ Bodies = Pieces(w, ts) /\ Bodies' = Pieces(x, ts)
  BY <1>1, <1>2, <1>3, MappedIs
<1>8. Len(Bodies) = n /\ Len(Bodies') = n
  BY <1>5, <1>7, PiecesLen
<1>9. \A k \in 1 .. n : Bodies[k] = Piece(w, ts, k) /\ Bodies'[k] = Piece(x, ts, k)
  BY <1>5, <1>7, PieceIs
<1>10. /\ \A k \in 1 .. n - 1 : Bodies'[k] = Bodies[k]
       /\ IsPrefix(Bodies[n], Bodies'[n])
  <2>1. n \in 1 .. n /\ \A k \in 1 .. n - 1 : k \in 1 .. n
    OBVIOUS
  <2>2. QED
    BY <1>6, <1>9, <2>1, Zenon
<1>11. Stream!Write
  <2>1. Stream!Extended
    BY <1>8, <1>10, ExtendedIs
  <2>2. QED
    BY <1>7, <1>8, <2>1, Zenon DEF Stream!Write
<1>12. Ordered(WholeOf(io'), tokens')
  BY <1>1, <1>3, <1>4
<1>13. Stream!Send
  BY <1>12, SendStep DEF StreamInv, Grew
<1>14. QED
  BY <1>11, <1>12, <1>13, Zenon DEF Stream!Next

LEMMA StreamOpen ==
  ASSUME StreamInv, WriterInv', NEW t \in Token, tokens' = Append(tokens, t),
         Grew(io, io'), t.start = Len(WholeOf(io')),
         Len(WholeOf(io)) <= t.start - Room(t.style)
  PROVE  Ordered(WholeOf(io'), tokens') /\ Stream!Next
<1>1. PICK ts \in Seq(Token) : ts = tokens
  BY InvFacts DEF StreamInv
<1>2. PICK w \in Seq(Cell) : w = WholeOf(io) /\ Ordered(w, ts)
  BY <1>1, BufferParts DEF StreamInv, WriterInv, BufInv
<1>3. PICK x \in Seq(Cell) : x = WholeOf(io') /\ Begins(w, x)
  BY <1>2, BufferParts DEF WriterInv, BufInv, Grew
<1>4. PICK n \in Nat \ {0} : n = Len(ts) + 1 /\ n - 1 = Len(ts)
  OBVIOUS
<1>5. PICK us : us = Append(ts, t)
  OBVIOUS
<1>6. /\ us \in Seq(Token) /\ Len(us) = n /\ us[n] = t
      /\ \A i \in 1 .. n - 1 : us[i] = ts[i]
  BY <1>4, <1>5, OpenedItems
<1>7. us[n].start = Len(x) /\ Len(w) <= RoomBefore(us, n)
  BY <1>2, <1>3, <1>6 DEF RoomBefore
<1>8. /\ Ordered(x, us)
      /\ \A k \in 1 .. n - 1 : Piece(x, us, k) = Piece(w, ts, k)
      /\ IsPrefix(Piece(w, ts, n), Piece(x, us, n))
      /\ Piece(x, us, n + 1) = <<>>
  <2>1. n \in Nat /\ n = Len(ts) + 1
    BY <1>4
  <2>2. ts \in Seq(Token) /\ w \in Seq(Cell) /\ x \in Seq(Cell)
        /\ Ordered(w, ts) /\ Begins(w, x)
    BY <1>2, <1>3
  <2>3. QED
    BY ONLY <1>6, <1>7, <2>1, <2>2, OpenMaps
<1>9. tokens' = us
  BY <1>1, <1>5
<1>10. /\ Framings = FramingsOf(ts) /\ Framings' = FramingsOf(us)
       /\ Bodies = Pieces(w, ts) /\ Bodies' = Pieces(x, us)
  BY <1>1, <1>2, <1>3, <1>9, MappedIs
<1>11. Len(Bodies) = n /\ Len(Bodies') = n + 1
  BY <1>4, <1>6, <1>10, PiecesLen
<1>12. \A k \in 1 .. n : Bodies[k] = Piece(w, ts, k)
  BY <1>4, <1>10, PieceIs
<1>13. \A k \in 1 .. n + 1 : Bodies'[k] = Piece(x, us, k)
  BY <1>6, <1>10, PieceIs
<1>14. /\ \A k \in 1 .. n - 1 : Bodies'[k] = Bodies[k]
       /\ IsPrefix(Bodies[n], Bodies'[n])
       /\ Bodies'[n + 1] = <<>>
  <2>1. n \in 1 .. n /\ n \in 1 .. n + 1 /\ n + 1 \in 1 .. n + 1
        /\ \A k \in 1 .. n - 1 : k \in 1 .. n /\ k \in 1 .. n + 1
    OBVIOUS
  <2>2. QED
    BY <1>8, <1>12, <1>13, <2>1, Zenon
<1>15. \E k \in Stream!Kinds : Framings' = Append(Framings, k)
  <2>1. PICK k : k = [style |-> t.style, field |-> t.field]
    OBVIOUS
  <2>2. k \in Stream!Kinds
    BY <2>1 DEF Stream!Kinds, Token, Styles
  <2>3. PICK ks : ks = FramingsOf(ts)
    OBVIOUS
  <2>4. ks = [i \in 1 .. n - 1 |-> [style |-> ts[i].style, field |-> ts[i].field]]
    BY <1>4, <2>3 DEF FramingsOf
  <2>5. PICK ls : ls = FramingsOf(us)
    OBVIOUS
  <2>6. ls = [i \in 1 .. n |-> [style |-> us[i].style, field |-> us[i].field]]
    BY <1>6, <2>5 DEF FramingsOf
  <2>7. \A i \in 1 .. n - 1 : ls[i] = ks[i]
    BY <1>6, <2>4, <2>6
  <2>8. ls[n] = k
    BY <1>6, <2>1, <2>6
  <2>9. ls = Append(ks, k)
    <3>1. PICK F : F = Stream!Kinds
      OBVIOUS
    <3>2. ks \in Seq(F) /\ Len(ks) = n - 1
      <4>1. ASSUME NEW i \in 1 .. n - 1 PROVE ks[i] \in F
        <5>1. ks[i] = [style |-> ts[i].style, field |-> ts[i].field]
          BY <2>4
        <5>2. ts[i] \in Token
          BY <1>4
        <5>3. QED
          BY <3>1, <5>1, <5>2 DEF Stream!Kinds, Token, Styles
      <4>2. n - 1 \in Nat
        OBVIOUS
      <4>3. QED
        BY <2>4, <4>1, <4>2
    <3>3. ls \in Seq(F) /\ Len(ls) = n
      <4>1. \A i \in 1 .. n : ls[i] \in F
        BY <2>2, <2>7, <2>8, <3>1, <3>2
      <4>2. QED
        BY <2>6, <4>1
    <3>4. PICK ms : ms = Append(ks, k)
      OBVIOUS
    <3>5. /\ ms \in Seq(F) /\ Len(ms) = n /\ ms[n] = k
          /\ \A i \in 1 .. n - 1 : ms[i] = ks[i]
      BY <2>2, <3>1, <3>2, <3>4
    <3>6. \A i \in 1 .. n : ls[i] = ms[i]
      <4>1. \A i \in 1 .. n : i = n \/ i \in 1 .. n - 1
        OBVIOUS
      <4>2. QED
        BY <2>7, <2>8, <3>5, <4>1
    <3>7. ls = ms
      BY <3>3, <3>5, <3>6, SeqSame
    <3>8. QED
      BY <3>4, <3>7
  <2>10. QED
    BY <1>10, <2>2, <2>3, <2>5, <2>9
<1>16. Stream!Open
  <2>1. Stream!Extended
    BY <1>11, <1>14, ExtendedIs
  <2>2. Stream!Last(Bodies') = <<>>
    <3>1. Last(Bodies') = <<>>
      BY <1>11, <1>14 DEF Last
    <3>2. QED
      BY <3>1, StreamEnds
  <2>3. QED
    BY <1>11, <1>15, <2>1, <2>2, Zenon DEF Stream!Open
<1>17. Ordered(WholeOf(io'), tokens')
  BY <1>3, <1>8, <1>9
<1>18. Stream!Send
  BY <1>17, SendStep DEF StreamInv, Grew
<1>19. QED
  BY <1>16, <1>17, <1>18, Zenon DEF Stream!Next

\* An item ends with its body framed, and its tokens are taken away.
LEMMA StreamClose ==
  ASSUME StreamInv, WriterInv', tokens # <<>>, tokens' = Front(tokens),
         Begins(io.dest, io'.dest), NEW n \in Nat \ {0}, n = Len(tokens),
         NEW body, body = Piece(WholeOf(io), tokens, n + 1),
         NEW framed \in Seq(Cell), framed = Stream!Framed(FramingsOf(tokens)[n], body),
         NEW e \in Nat, e = RoomBefore(tokens, n),
         Shut(WholeOf(io), WholeOf(io'), e, framed)
  PROVE  Ordered(WholeOf(io'), tokens') /\ Stream!Next
<1>1. PICK ts \in Seq(Token) : ts = tokens
  BY InvFacts DEF StreamInv
<1>2. PICK w \in Seq(Cell) : w = WholeOf(io) /\ Ordered(w, ts)
  BY <1>1, BufferParts DEF StreamInv, WriterInv, BufInv
<1>3. PICK x \in Seq(Cell) : x = WholeOf(io')
  BY BufferParts DEF WriterInv, BufInv
<1>4. PICK us : us = Front(ts)
  OBVIOUS
<1>5. /\ us \in Seq(Token) /\ Len(us) = n - 1
      /\ \A i \in 1 .. n - 1 : us[i] = ts[i]
  BY <1>1, <1>4, ClosedItems
<1>6. /\ Ordered(x, us)
      /\ \A k \in 1 .. n - 1 : Piece(x, us, k) = Piece(w, ts, k)
      /\ Piece(x, us, n) = Piece(w, ts, n) \o framed
  <2>1. /\ n = Len(ts) /\ e = RoomBefore(ts, n) /\ Shut(w, x, e, framed)
        /\ n \in Nat \ {0} /\ e \in Nat /\ framed \in Seq(Cell)
        /\ ts \in Seq(Token) /\ w \in Seq(Cell) /\ x \in Seq(Cell)
    BY <1>1, <1>2, <1>3
  <2>2. Ordered(w, ts)
    BY <1>2
  <2>3. Fronted(us, ts)
    BY <1>1, <1>5 DEF Fronted
  <2>4. Ordered(x, us)
    BY ONLY <2>1, <2>2, <2>3, CloseMaps
  <2>5. \A k \in 1 .. n - 1 : Piece(x, us, k) = Piece(w, ts, k)
    BY ONLY <2>1, <2>2, <2>3, CloseMaps
  <2>6. Piece(x, us, n) = Piece(w, ts, n) \o framed
    BY ONLY <2>1, <2>2, <2>3, CloseMaps
  <2>7. QED
    BY <2>4, <2>5, <2>6
<1>7. tokens' = us
  BY <1>1, <1>4
<1>8. /\ Framings = FramingsOf(ts) /\ Framings' = FramingsOf(us)
      /\ Bodies = Pieces(w, ts) /\ Bodies' = Pieces(x, us)
  BY <1>1, <1>2, <1>3, <1>7, MappedIs
<1>9. PICK ks : ks = FramingsOf(ts) /\ ks = Framings
  BY <1>8
<1>10. PICK ls : ls = FramingsOf(us) /\ ls = Framings'
  BY <1>8
<1>11. PICK bs : bs = Pieces(w, ts) /\ bs = Bodies
  BY <1>8
<1>12. PICK cs : cs = Pieces(x, us) /\ cs = Bodies'
  BY <1>8
<1>13. n = Len(ts) /\ n - 1 + 1 = n
  BY <1>1
<1>14. /\ bs = [k \in 1 .. n + 1 |-> Piece(w, ts, k)]
       /\ cs = [k \in 1 .. n |-> Piece(x, us, k)]
  BY <1>5, <1>11, <1>12, <1>13, Zenon DEF Pieces
<1>15. /\ ks = [k \in 1 .. n |-> [style |-> ts[k].style, field |-> ts[k].field]]
       /\ ls = [k \in 1 .. n - 1 |-> [style |-> us[k].style, field |-> us[k].field]]
  BY <1>5, <1>9, <1>10, <1>13 DEF FramingsOf
<1>16. Len(ks) = n /\ ks # <<>>
  <2>1. Len(ks) = n
    BY <1>15
  <2>2. QED
    BY <2>1
<1>17. Front(ks) = ls
  <2>1. Front(ks) = [k \in 1 .. n - 1 |-> ks[k]]
    BY <1>15, <1>16 DEF Front
  <2>2. \A k \in 1 .. n - 1 : ks[k] = ls[k]
    BY <1>5, <1>15
  <2>3. Front(ks) = [k \in 1 .. n - 1 |-> ls[k]]
    BY <2>1, <2>2
  <2>4. ls = [k \in 1 .. n - 1 |-> ls[k]]
    BY <1>15
  <2>5. QED
    BY <2>3, <2>4, Zenon
<1>18. Len(bs) = n + 1 /\ Last(bs) = body /\ Last(ks) = ks[n]
  <2>1. Len(bs) = n + 1 /\ n + 1 \in 1 .. n + 1
    BY <1>14
  <2>2. bs[n + 1] = Piece(w, ts, n + 1)
    BY <1>14, <2>1
  <2>3. body = Piece(w, ts, n + 1)
    BY <1>1, <1>2
  <2>4. QED
    BY <1>16, <2>1, <2>2, <2>3 DEF Last
<1>19. Stream!Framed(Last(ks), Last(bs)) = framed
  BY <1>1, <1>9, <1>18, Zenon
<1>20. Front(bs) = [k \in 1 .. n |-> Piece(w, ts, k)]
  <2>1. Front(bs) = [k \in 1 .. n |-> bs[k]]
    BY <1>14, <1>18 DEF Front
  <2>2. \A k \in 1 .. n : bs[k] = Piece(w, ts, k)
    BY <1>14
  <2>3. QED
    BY <2>1, <2>2
<1>21. PICK fs : fs = Front(bs)
  OBVIOUS
<1>22. cs = [fs EXCEPT ![n] = @ \o framed]
  <2>1. PICK z : z = Piece(w, ts, n) \o framed
    OBVIOUS
  <2>2. fs = [k \in 1 .. n |-> Piece(w, ts, k)]
    BY <1>20, <1>21
  <2>3. fs[n] = Piece(w, ts, n) /\ n \in 1 .. n
    BY <2>2
  <2>4. [fs EXCEPT ![n] = @ \o framed] = [fs EXCEPT ![n] = z]
    BY <2>1, <2>3
  <2>5. \A k \in 1 .. n : Piece(x, us, k) = IF k = n THEN z ELSE Piece(w, ts, k)
    <3>1. \A k \in 1 .. n : k = n \/ k \in 1 .. n - 1
      OBVIOUS
    <3>2. QED
      BY <1>6, <2>1, <3>1
  <2>6. [fs EXCEPT ![n] = z] = [k \in 1 .. n |-> IF k = n THEN z ELSE Piece(w, ts, k)]
    BY <2>2
  <2>7. QED
    BY <1>14, <2>4, <2>5, <2>6
<1>23. Stream!Close
  <2>1. ls = Stream!Front(ks)
    BY <1>17, StreamEnds
  <2>2. cs = [Stream!Front(bs) EXCEPT
                ![Len(ks)] = @ \o Stream!Framed(Stream!Last(ks), Stream!Last(bs))]
    <3>1. Stream!Front(bs) = fs /\ Stream!Last(ks) = Last(ks) /\ Stream!Last(bs) = Last(bs)
      BY <1>21, StreamEnds
    <3>2. QED
      BY <1>16, <1>19, <1>22, <3>1
  <2>3. QED
    BY <1>9, <1>10, <1>11, <1>12, <1>16, <2>1, <2>2, Zenon DEF Stream!Close
<1>24. Ordered(WholeOf(io'), tokens')
  BY <1>3, <1>6, <1>7
<1>25. Stream!Send
  BY <1>24, SendStep DEF StreamInv
<1>26. QED
  BY <1>23, <1>24, <1>25, Zenon DEF Stream!Next

-----------------------------------------------------------------------------
(* The steps of the writer.                                                *)

Streams == Ordered(WholeOf(io'), tokens') /\ Stream!Next

LEMMA WriteStreams ==
  ASSUME StreamInv, WriterInv', UNCHANGED itemVars, Grew(io, io')
  PROVE  Streams
<1>1. tokens' = tokens
  BY DEF itemVars
<1>2. QED
  BY <1>1, StreamWrite DEF Streams

LEMMA SameGrew ==
  ASSUME NEW b, IsBuffer(b)
  PROVE  Grew(b, b)
BY BufferParts, BeginsSelf DEF Grew

\* What is written is behind what was there.
LEMMA EmitGrew ==
  ASSUME NEW ts, NEW b, BufInv(b, ts), Locked(ts), NEW n \in Nat, NEW cells \in Seq(Cell)
  PROVE  Grew(b, Emit(b, n, cells))
BY EmitWrote, WroteGrew DEF BufInv

LEMMA CellsAreCells ==
  /\ \A n \in Nat : /\ Digits(n) \in Seq(Cell) /\ Fixed(n) \in Seq(Cell)
                    /\ Bytes(n) \in Seq(Cell)
  /\ \A f \in Fields, w \in HeaderTypes : <<Header(f, w)>> \in Seq(Cell)
<1>1. \A s \in Seq(Filled) : s \in Seq(Cell)
  <2>1. Filled \subseteq Cell
    BY DEF Cell
  <2> HIDE DEF Filled
  <2>2. QED
    BY <2>1
<1>2. QED
  BY <1>1, CellsWritten

LEMMA SentGrew ==
  ASSUME NEW b, IsBuffer(b), b.buffer = <<>>, NEW cells \in Seq(Cell), NEW n
  PROVE  Grew(b, [b EXCEPT !.dest = @ \o cells, !.position = @ + n])
<1>1. PICK x : x = b.dest \o cells
  OBVIOUS
<1>2. PICK y : y = b.position + n
  OBVIOUS
<1>3. PICK c : c = [b EXCEPT !.dest = x, !.position = y]
  OBVIOUS
<1>4. c = Built(x, b.buffer, b.size, y)
  BY <1>3, BufferParts, DestAndPosition
<1>5. c.dest = x /\ c.buffer = <<>>
  BY <1>4 DEF Built
<1>6. b.dest \in Seq(Cell)
  BY BufferParts
<1>7. x \in Seq(Cell) /\ Begins(b.dest, x)
  BY <1>1, <1>6, BeginsJoined, Joined
<1>8. WholeOf(b) = b.dest /\ WholeOf(c) = x
  <2>1. WholeOf(b) = b.dest \o <<>> /\ WholeOf(c) = x \o <<>>
    BY <1>5 DEF WholeOf
  <2>2. QED
    BY <1>6, <1>7, <2>1, JoinedEmpty
<1>9. Grew(b, c)
  BY <1>5, <1>7, <1>8 DEF Grew
<1>10. QED
  BY <1>1, <1>2, <1>3, <1>9, Zenon

LEMMA BehindGrew ==
  ASSUME NEW b, IsBuffer(b), NEW cells \in Seq(Cell), NEW n
  PROVE  Grew(b, [b EXCEPT !.buffer = @ \o cells, !.position = @ + n])
<1>1. PICK x : x = b.buffer \o cells
  OBVIOUS
<1>2. PICK y : y = b.position + n
  OBVIOUS
<1>3. PICK c : c = [b EXCEPT !.buffer = x, !.position = y]
  OBVIOUS
<1>4. c = Built(b.dest, x, b.size, y)
  BY <1>3, BufferParts, BufferAndPosition
<1>5. c.dest = b.dest /\ c.buffer = b.buffer \o cells
  BY <1>1, <1>4 DEF Built
<1>6. Wrote(b, c, cells)
  BY <1>5, SameKept, BehindWrote
<1>7. Grew(b, c)
  BY <1>6, WroteGrew
<1>8. QED
  BY <1>1, <1>2, <1>3, <1>7, Zenon

LEMMA HeaderStreams ==
  ASSUME StreamInv, WriterInv', NEW f \in Fields, NEW w \in ScalarTypes \union ItemTypes,
         WriteFieldHeader(f, w)
  PROVE  Streams
<1>1. BufInv(io, tokens) /\ Locked(tokens)
  BY InvFacts DEF StreamInv
<1>2. Grew(io, io')
  <2>1. CASE io' = Emit(io, VarintSpace, <<Header(f, w)>>)
    <3>1. PICK cells \in Seq(Cell) : cells = <<Header(f, w)>>
      BY CellsAreCells DEF HeaderTypes
    <3>2. VarintSpace \in Nat
      BY WireAssumption
    <3>3. QED
      BY <1>1, <2>1, <3>1, <3>2, EmitGrew
  <2>2. CASE io' = io
    BY <1>1, <2>2, SameGrew DEF BufInv
  <2>3. QED
    BY <2>1, <2>2 DEF WriteFieldHeader
<1>3. UNCHANGED itemVars
  BY DEF WriteFieldHeader
<1>4. QED
  BY <1>2, <1>3, WriteStreams

LEMMA VariantStreams ==
  ASSUME StreamInv, WriterInv', NEW n \in Nat, WriteVariant(n)
  PROVE  Streams
<1>1. BufInv(io, tokens) /\ Locked(tokens) /\ VarintSpace \in Nat
  BY InvFacts, WireAssumption DEF StreamInv
<1>2. PICK cells \in Seq(Cell) : cells = Bytes(n)
  BY CellsAreCells
<1>3. Grew(io, io')
  BY <1>1, <1>2, EmitGrew DEF WriteVariant
<1>4. UNCHANGED itemVars
  BY DEF WriteVariant, Written
<1>5. QED
  BY <1>3, <1>4, WriteStreams

LEMMA FixedStreams ==
  ASSUME StreamInv, WriterInv', WriteFixed
  PROVE  Streams
<1>1. BufInv(io, tokens) /\ Locked(tokens) /\ FixedLength \in Nat
  BY InvFacts, WireAssumption DEF StreamInv
<1>2. PICK cells \in Seq(Cell) : cells = Bytes(FixedLength)
  BY <1>1, CellsAreCells
<1>3. Grew(io, io')
  BY <1>1, <1>2, EmitGrew DEF WriteFixed
<1>4. UNCHANGED itemVars
  BY DEF WriteFixed, Written
<1>5. QED
  BY <1>3, <1>4, WriteStreams

\* The length of a string or a blob.
LEMMA LengthGrew ==
  ASSUME StreamInv, NEW n \in Nat, NEW b, b = Emit(io, VarintSpace, Digits(n))
  PROVE  BufInv(b, tokens) /\ Locked(tokens) /\ Grew(io, b) /\ IsBuffer(io) /\ IsBuffer(b)
<1>1. BufInv(io, tokens) /\ Locked(tokens) /\ VarintSpace \in Nat
  BY InvFacts, WireAssumption DEF StreamInv
<1>2. BufInv(b, tokens)
  BY <1>1, InvFacts, EmitDigits DEF StreamInv
<1>3. PICK cells \in Seq(Cell) : cells = Digits(n)
  BY CellsAreCells
<1>4. Grew(io, b)
  BY <1>1, <1>3, EmitGrew
<1>5. QED
  BY <1>1, <1>2, <1>4 DEF BufInv

LEMMA StringStreams ==
  ASSUME StreamInv, WriterInv', NEW n \in Nat, WriteString(n)
  PROVE  Streams
<1>1. PICK b : b = Emit(io, VarintSpace, Digits(n))
  OBVIOUS
<1>2. BufInv(b, tokens) /\ Locked(tokens) /\ Grew(io, b) /\ IsBuffer(io) /\ IsBuffer(b)
  BY <1>1, LengthGrew
<1>3. PICK cells \in Seq(Cell) : cells = Bytes(n)
  BY CellsAreCells
<1>4. Grew(b, Emit(b, n, cells))
  BY <1>2, EmitGrew
<1>5. io' = b \/ io' = Emit(b, n, cells)
  BY <1>1, <1>3 DEF WriteString
<1>6. Grew(io, io')
  <2>1. CASE io' = b
    BY <1>2, <2>1
  <2>2. CASE io' = Emit(b, n, cells)
    <3>1. IsBuffer(io')
      BY DEF WriterInv, BufInv
    <3>2. Grew(b, io')
      BY <1>4, <2>2
    <3>3. QED
      BY <1>2, <3>1, <3>2, GrewTrans
  <2>3. QED
    BY <1>5, <2>1, <2>2
<1>7. UNCHANGED itemVars
  BY DEF WriteString, Written
<1>8. QED
  BY <1>6, <1>7, WriteStreams

LEMMA BytesStreams ==
  ASSUME StreamInv, WriterInv', NEW n \in Nat, WriteBytes(n)
  PROVE  Streams
<1>1. PICK b : b = Emit(io, VarintSpace, Digits(n))
  OBVIOUS
<1>2. BufInv(b, tokens) /\ Locked(tokens) /\ Grew(io, b) /\ IsBuffer(io) /\ IsBuffer(b)
  BY <1>1, LengthGrew
<1>3. PICK cells \in Seq(Cell) : cells = Bytes(n)
  BY CellsAreCells
<1>4. IsBuffer(io')
  BY DEF WriterInv, BufInv
<1>5. Grew(b, io')
  <2>1. CASE io' = Emit(b, n, Bytes(n))
    BY <1>2, <1>3, <2>1, EmitGrew
  <2>2. CASE flushLock = 0 /\ io' = [Flushed(b) EXCEPT !.dest = @ \o Bytes(n),
                                                   !.position = @ + n]
    <3>1. PICK c : c = Flushed(b)
      OBVIOUS
    <3>2. Prefixed(tokens) = {}
      BY <2>2, InvFacts DEF StreamInv
    <3>3. IsBuffer(c) /\ c.buffer = <<>>
      BY <1>2, <3>1, <3>2, FlushedInv DEF BufInv
    <3>4. Grew(b, c)
      BY <1>2, <3>1, FlushedKept, KeptGrew
    <3>5. Grew(c, [c EXCEPT !.dest = @ \o cells, !.position = @ + n])
      BY <3>3, SentGrew
    <3>6. io' = [c EXCEPT !.dest = @ \o cells, !.position = @ + n]
      BY <1>3, <2>2, <3>1, Zenon
    <3>7. Grew(c, io')
      BY <3>5, <3>6, Zenon
    <3>8. QED
      BY <1>2, <1>4, <3>3, <3>4, <3>7, GrewTrans
  <2>3. QED
    BY <1>1, <2>1, <2>2, Zenon DEF WriteBytes
<1>6. Grew(io, io')
  BY <1>2, <1>4, <1>5, GrewTrans
<1>7. UNCHANGED itemVars
  BY DEF WriteBytes, Written
<1>8. QED
  BY <1>6, <1>7, WriteStreams

LEMMA CopyStreams ==
  ASSUME StreamInv, WriterInv', Copy
  PROVE  Streams
<1>1. BufInv(io, tokens) /\ Locked(tokens) /\ IsBuffer(io)
  BY InvFacts DEF StreamInv, BufInv
<1>2. IsBuffer(io') /\ UNCHANGED itemVars
  BY DEF WriterInv, BufInv, Copy
<1>3. source \in Nat /\ \A read \in 1 .. source : Bytes(read) \in Seq(Cell)
  <2>1. source \in Nat
    BY DEF StreamInv, WriterInv, CopyBypasses
  <2>2. \A read \in 1 .. source : read \in Nat
    BY <2>1
  <2>3. QED
    BY <2>1, <2>2, CellsAreCells
<1>4. CASE FillBuffer
  <2>1. ASSUME NEW read \in 1 .. source, Copied(io, read) PROVE Grew(io, io')
    <3>1. PICK cells \in Seq(Cell) : cells = Bytes(read)
      BY <1>3
    <3>2. io' = [io EXCEPT !.buffer = @ \o cells, !.position = @ + read]
      BY <2>1, <3>1, Zenon DEF Copied
    <3>3. Grew(io, [io EXCEPT !.buffer = @ \o cells, !.position = @ + read])
      BY <1>1, BehindGrew
    <3>4. QED
      BY <3>2, <3>3, Zenon
  <2>2. Grew(io, io) /\ Grew(io, Flushed(io))
    BY <1>1, SameGrew, FlushedKept, KeptGrew
  <2>3. \/ \E read \in 1 .. source : Copied(io, read)
        \/ io' = io
        \/ io' = Flushed(io)
    BY <1>4, Zenon DEF FillBuffer
  <2>4. Grew(io, io')
    BY <2>1, <2>2, <2>3, Zenon
  <2>5. QED
    BY <1>2, <2>4, WriteStreams
<1>5. CASE SendRest
  <2>1. ASSUME NEW read \in 1 .. source,
               io' = [io EXCEPT !.dest = @ \o Bytes(read), !.position = @ + read]
        PROVE  Grew(io, io')
    <3>1. PICK cells \in Seq(Cell) : cells = Bytes(read)
      BY <1>3
    <3>2. io.buffer = <<>>
      BY <1>5 DEF SendRest, StreamInv, Bypassing
    <3>3. Grew(io, [io EXCEPT !.dest = @ \o cells, !.position = @ + read])
      BY <1>1, <3>2, SentGrew
    <3>4. QED
      BY <2>1, <3>1, <3>3, Zenon
  <2>2. Grew(io, io)
    BY <1>1, SameGrew
  <2>3. Grew(io, io')
    BY <1>5, <2>1, <2>2, Zenon DEF SendRest
  <2>4. QED
    BY <1>2, <2>3, WriteStreams
<1>6. CASE GrowBuffer
  <2>1. PICK d : d = DemandSpace(io, CopySpace)
    OBVIOUS
  <2>2. IsBuffer(d) /\ Grew(io, d)
    <3>1. CopySpace \in Nat
      BY WriterAssumption
    <3>2. QED
      BY <1>1, <2>1, <3>1, DemandKept, KeptGrew
  <2>3. ASSUME NEW read \in 1 .. source, Copied(d, read) PROVE Grew(d, io')
    <3>1. PICK cells \in Seq(Cell) : cells = Bytes(read)
      BY <1>3
    <3>2. io' = [d EXCEPT !.buffer = @ \o cells, !.position = @ + read]
      BY <2>3, <3>1, Zenon DEF Copied
    <3>3. Grew(d, [d EXCEPT !.buffer = @ \o cells, !.position = @ + read])
      BY <2>2, BehindGrew
    <3>4. QED
      BY <3>2, <3>3, Zenon
  <2>4. Grew(d, d)
    BY <2>2, SameGrew
  <2>5. Grew(d, io')
    BY <1>6, <2>1, <2>3, <2>4, Zenon DEF GrowBuffer
  <2>6. Grew(io, io')
    BY <1>1, <1>2, <2>2, <2>5, GrewTrans
  <2>7. QED
    BY <1>2, <2>6, WriteStreams
<1>7. QED
  BY <1>4, <1>5, <1>6 DEF Copy

LEMMA GroupStartStreams ==
  ASSUME StreamInv, WriterInv', NEW o \in Objects \union {NoObject}, StartGroup(o)
  PROVE  Streams
<1>1. PICK t : t = [value |-> -fieldNumber, style |-> "group", field |-> fieldNumber,
                    object |-> o, start |-> io.position]
  OBVIOUS
<1>2. BufInv(io, tokens) /\ IsBuffer(io)
  BY InvFacts DEF StreamInv, BufInv
<1>3. io.position \in Nat /\ io.position = Len(WholeOf(io))
  BY <1>2, BufferParts
<1>4. t \in Token /\ t.start = io.position /\ t.style = "group"
  <2>1. fieldNumber \in Fields /\ fieldNumber \in Int
    BY WireAssumption DEF StreamInv, WriterInv, HeaderKnown, StartGroup
  <2>2. QED
    BY <1>1, <1>3, <2>1 DEF Token, Styles
<1>5. tokens' = Append(tokens, t) /\ io' = io
  BY <1>1 DEF StartGroup, Opened
<1>6. Room(t.style) = 0
  BY <1>4 DEF Room
<1>7. t.start = Len(WholeOf(io')) /\ Len(WholeOf(io)) <= t.start - Room(t.style)
  BY <1>3, <1>4, <1>5, <1>6
<1>8. Grew(io, io')
  BY <1>2, <1>5, SameGrew
<1>9. QED
  BY <1>4, <1>5, <1>7, <1>8, StreamOpen DEF Streams

LEMMA ReserveStreams ==
  ASSUME StreamInv, WriterInv', NEW b, BufInv(b, tokens), Grew(io, b),
         NEW style \in {"base128", "fixed32"}, NEW o \in Objects \union {NoObject},
         NEW f \in Fields \union {0}, Reserve(o, b, style, f)
  PROVE  Streams
<1>1. PICK d : d = DemandSpace(b, ItemSpace)
  OBVIOUS
<1>2. IsBuffer(io) /\ IsBuffer(b) /\ IsBuffer(io') /\ Locked(tokens) /\ ItemSpace \in Nat
  BY InvFacts, WriterAssumption DEF StreamInv, WriterInv, BufInv
<1>3. IsBuffer(d) /\ Grew(b, d)
  BY <1>1, <1>2, DemandKept, KeptGrew
<1>4. PICK r \in Nat : r = Room(style)
  BY WireAssumption DEF Room
<1>5. PICK cells \in Seq(Cell) : cells = Holes(r) /\ Len(cells) = r
  BY CellsWritten
<1>6. PICK t : t = [value |-> Len(d.buffer), style |-> style, field |-> f,
                    object |-> o, start |-> d.position + r]
  OBVIOUS
<1>7. /\ Len(d.buffer) \in Nat /\ d.position \in Nat /\ d.position = Len(WholeOf(d))
      /\ d.buffer \in Seq(Cell)
  <2>1. IsBuffer(d)
    BY <1>3
  <2>2. d.buffer \in Seq(Cell) /\ d.position \in Nat /\ d.position = Len(WholeOf(d))
    BY <2>1, BufferParts
  <2>3. QED
    BY <2>2
<1>8. t \in Token /\ t.start = d.position + r /\ r = Room(t.style)
  <2>1. d.position + r \in Nat
    BY <1>7
  <2>2. QED
    BY <1>4, <1>6, <1>7, <2>1 DEF Token, Styles
<1>9. tokens' = Append(tokens, t)
  BY <1>1, <1>4, <1>6, Zenon DEF Reserve, Opened
<1>10. io' = [d EXCEPT !.buffer = @ \o cells, !.position = @ + r]
  BY <1>1, <1>4, <1>5, Zenon DEF Reserve
<1>11. Grew(d, io')
  BY <1>3, <1>10, BehindGrew, Zenon
<1>12. Grew(io, d)
  BY <1>2, <1>3, GrewTrans
<1>13. Grew(io, io')
  BY <1>2, <1>3, <1>11, <1>12, GrewTrans
<1>14. io'.position = d.position + r
  BY <1>3, <1>10, BufferParts DEF Buffers
<1>15. t.start = Len(WholeOf(io'))
  BY <1>2, <1>8, <1>14, BufferParts
<1>16. Len(WholeOf(io)) <= Len(WholeOf(d))
  BY <1>12 DEF Grew, Begins
<1>17. Len(WholeOf(io)) <= t.start - Room(t.style)
  <2>1. t.start - r = d.position
    BY <1>7, <1>8
  <2>2. QED
    BY <1>7, <1>8, <1>16, <2>1
<1>18. QED
  BY <1>8, <1>9, <1>13, <1>15, <1>17, StreamOpen DEF Streams

LEMMA StringStartStreams ==
  ASSUME StreamInv, WriterInv', NEW o \in Objects \union {NoObject}, StartString(o)
  PROVE  Streams
<1>1. Reserve(o, io, "base128", fieldNumber)
  BY DEF StartString
<1>2. fieldNumber \in Fields \union {0}
  BY DEF StreamInv, WriterInv, HeaderKnown
<1>3. BufInv(io, tokens) /\ Grew(io, io)
  BY InvFacts, SameGrew DEF StreamInv, BufInv
<1>4. QED
  BY <1>1, <1>2, <1>3, ReserveStreams

LEMMA PrefixedStartStreams ==
  ASSUME StreamInv, WriterInv', NEW o \in Objects \union {NoObject},
         NEW f \in Fields \union {0}, NEW style \in Styles, StartPrefixed(o, style, f)
  PROVE  Streams
<1>1. PICK b : b = IF f = 0 THEN io ELSE Emit(io, VarintSpace, <<Header(f, "String")>>)
  OBVIOUS
<1>2. style \in {"base128", "fixed32"} /\ Reserve(o, b, style, f)
  BY <1>1 DEF StartPrefixed
<1>3. BufInv(io, tokens) /\ IsBuffer(io) /\ Locked(tokens) /\ VarintSpace \in Nat
  BY InvFacts, WireAssumption DEF StreamInv, BufInv
<1>4. BufInv(b, tokens) /\ Grew(io, b)
  <2>1. CASE f = 0
    BY <1>1, <1>3, <2>1, SameGrew
  <2>2. CASE f # 0
    <3>1. PICK cells \in Seq(Filled) : cells = <<Header(f, "String")>> /\ Len(cells) = 1
      <4>1. f \in Fields /\ "String" \in HeaderTypes
        BY <2>2 DEF HeaderTypes, ItemTypes
      <4>2. QED
        BY <4>1, CellsWritten
    <3>2. Len(cells) <= VarintSpace
      BY <3>1, WireAssumption
    <3>3. BufInv(Emit(io, VarintSpace, cells), tokens)
      BY <1>3, <3>2, InvFacts, EmitInv DEF StreamInv
    <3>4. cells \in Seq(Cell)
      <4>1. f \in Fields /\ "String" \in HeaderTypes
        BY <2>2 DEF HeaderTypes, ItemTypes
      <4>2. QED
        BY <3>1, <4>1, CellsAreCells
    <3>5. Grew(io, Emit(io, VarintSpace, cells))
      BY <1>3, <3>4, EmitGrew
    <3>6. QED
      BY <1>1, <2>2, <3>1, <3>3, <3>5
  <2>3. QED
    BY <2>1, <2>2
<1>5. QED
  BY <1>2, <1>4, ReserveStreams

LEMMA PackedStreams ==
  ASSUME StreamInv, WriterInv', SetPackedField \/ UNCHANGED <<io, itemVars>>
  PROVE  Streams
<1>1. io' = io /\ UNCHANGED itemVars
  BY DEF SetPackedField
<1>2. Grew(io, io')
  BY <1>1, SameGrew DEF StreamInv, WriterInv, BufInv
<1>3. QED
  BY <1>1, <1>2, WriteStreams

\* Close and Dispose.
LEMMA FlushStreams ==
  ASSUME StreamInv, WriterInv', UNCHANGED itemVars, io' = Flushed(io) \/ io' = io
  PROVE  Streams
<1>1. IsBuffer(io)
  BY DEF StreamInv, WriterInv, BufInv
<1>2. Grew(io, io')
  BY <1>1, SameGrew, FlushedKept, KeptGrew
<1>3. QED
  BY <1>2, WriteStreams

\* A group's end is appended to its body.
LEMMA ShutGroup ==
  ASSUME NEW w \in Seq(Cell), NEW e \in Nat, e <= Len(w), NEW h \in Cell,
         NEW body, body = SubSeq(w, e + 1, Len(w))
  PROVE  Append(body, h) \in Seq(Cell) /\ Shut(w, w \o <<h>>, e, Append(body, h))
<1>1. PICK l \in Nat : l = Len(w) /\ e <= l
  OBVIOUS
<1>2. body \in Seq(Cell) /\ Len(body) = l - e /\ \A i \in 1 .. l - e : body[i] = w[e + i]
  <2>1. body = SubSeq(w, e + 1, l) /\ l <= Len(w)
    BY <1>1
  <2>2. w \in Seq(Cell) /\ e \in Nat
    OBVIOUS
  <2>3. QED
    BY ONLY <1>1, <2>1, <2>2, Cut
<1>3. PICK framed : framed = Append(body, h)
  OBVIOUS
<1>4. PICK m \in Nat : m = l - e /\ e + m = l
  <2>1. l \in Nat /\ e \in Nat /\ e <= l
    BY <1>1
  <2>2. l - e \in Nat /\ e + (l - e) = l
    BY ONLY <2>1
  <2>3. QED
    BY <2>2
<1>5. /\ framed \in Seq(Cell) /\ Len(framed) = m + 1 /\ framed[m + 1] = h
      /\ \A i \in 1 .. m : framed[i] = body[i]
  <2>1. body \in Seq(Cell) /\ Len(body) = m /\ h \in Cell
    BY <1>2, <1>4
  <2>2. QED
    BY ONLY <1>3, <1>4, <2>1, AppendProperties
<1>6. PICK t : t = <<h>>
  OBVIOUS
<1>7. t \in Seq(Cell) /\ Len(t) = 1 /\ t[1] = h
  BY <1>6
<1>8. PICK x : x = w \o t
  OBVIOUS
<1>9. /\ Len(x) = l + 1
      /\ \A i \in 1 .. l : x[i] = w[i]
      /\ x[l + 1] = h
  <2>1. /\ Len(x) = Len(w) + Len(t)
        /\ \A i \in 1 .. Len(w) : x[i] = w[i]
        /\ \A i \in 1 .. Len(t) : x[Len(w) + i] = t[i]
    BY <1>7, <1>8, Joined
  <2>2. QED
    BY <1>1, <1>7, <2>1
<1>10. \A i \in 1 .. e : x[i] = w[i]
  BY <1>1, <1>9
<1>11. ASSUME NEW i \in 1 .. m + 1 PROVE x[e + i] = framed[i]
  <2>1. CASE i = m + 1
    <3>1. e + i = l + 1
      BY <1>4, <2>1
    <3>2. QED
      BY <1>5, <1>9, <2>1, <3>1
  <2>2. CASE i # m + 1
    <3>1. i \in 1 .. m /\ e + i \in 1 .. l
      BY <1>4, <2>2
    <3>2. body[i] = w[e + i]
      BY <1>2, <1>4, <3>1
    <3>3. QED
      BY <1>5, <1>9, <3>1, <3>2
  <2>3. QED
    BY <2>1, <2>2
<1>12. Len(x) = e + Len(framed)
  BY <1>4, <1>5, <1>9
<1>13. Shut(w, x, e, framed)
  BY <1>5, <1>10, <1>11, <1>12 DEF Shut
<1>14. QED
  BY <1>3, <1>5, <1>6, <1>8, <1>13

\* A length of q cells is filled in before its body of l cells, which may move.
Backfills(s, y, z, v, r, l, cells, q, e, w, x, body, framed) ==
  /\ Len(y) = v + r + l /\ q = Len(cells) /\ IsFilling(z, y, v, r, cells, q, l)
  /\ e = Len(s) + v /\ w = s \o y /\ x = s \o z
  /\ body = SubSeq(w, e + r + 1, Len(w)) /\ framed = cells \o body

LEMMA ShutPrefixed ==
  ASSUME NEW s \in Seq(Cell), NEW y \in Seq(Cell), NEW z \in Seq(Cell),
         NEW v \in Nat, NEW r \in Nat, NEW l \in Nat,
         NEW cells \in Seq(Cell), NEW q \in Nat, NEW e \in Nat,
         NEW w \in Seq(Cell), NEW x \in Seq(Cell), NEW body, NEW framed,
         Backfills(s, y, z, v, r, l, cells, q, e, w, x, body, framed)
  PROVE  /\ Len(body) = l
         /\ framed \in Seq(Cell)
         /\ Shut(w, x, e, framed)
<1>0. /\ Len(y) = v + r + l /\ q = Len(cells) /\ IsFilling(z, y, v, r, cells, q, l)
      /\ e = Len(s) + v /\ w = s \o y /\ x = s \o z
      /\ body = SubSeq(w, e + r + 1, Len(w)) /\ framed = cells \o body
  BY Zenon DEF Backfills
<1> USE <1>0
<1>1. w = s \o y
  OBVIOUS
<1>2. PICK k \in Nat : k = Len(s)
  OBVIOUS
<1>n. /\ v \in Nat /\ r \in Nat /\ l \in Nat /\ q \in Nat /\ e \in Nat /\ k \in Nat
      /\ s \in Seq(Cell) /\ y \in Seq(Cell) /\ z \in Seq(Cell)
  BY <1>2
<1>3. /\ Len(w) = k + Len(y)
      /\ \A i \in 1 .. k : w[i] = s[i]
      /\ \A i \in 1 .. Len(y) : w[k + i] = y[i]
  <2>1. /\ Len(s \o y) = Len(s) + Len(y)
        /\ \A i \in 1 .. Len(s) : (s \o y)[i] = s[i]
        /\ \A i \in 1 .. Len(y) : (s \o y)[Len(s) + i] = y[i]
    BY ONLY <1>n, Joined
  <2>2. QED
    BY ONLY <1>1, <1>2, <2>1
<1>5. /\ Len(z) = v + q + l
      /\ \A i \in 1 .. v : z[i] = y[i]
      /\ \A i \in 1 .. q : z[v + i] = cells[i]
      /\ \A i \in 1 .. l : z[v + q + i] = y[v + r + i]
  BY DEF IsFilling
<1>6. /\ Len(x) = k + Len(z)
      /\ \A i \in 1 .. k : x[i] = s[i]
      /\ \A i \in 1 .. Len(z) : x[k + i] = z[i]
  BY <1>2, Joined
<1>7. PICK a \in Nat : a = e + r
  OBVIOUS
<1>a. Len(y) = v + r + l
  OBVIOUS
<1>8. a = k + v + r /\ e = k + v /\ Len(w) = a + l /\ Len(x) = e + q + l
  BY <1>2, <1>3, <1>5, <1>6, <1>7
<1>9. body \in Seq(Cell) /\ Len(body) = l /\ \A i \in 1 .. l : body[i] = w[a + i]
  <2>1. body = SubSeq(w, a + 1, a + l) /\ a + l <= Len(w)
    <3>1. body = SubSeq(w, e + r + 1, Len(w))
      BY <1>1
    <3>2. e + r + 1 = a + 1 /\ Len(w) = a + l /\ a + l <= Len(w)
      BY ONLY <1>n, <1>7, <1>8
    <3>3. QED
      BY ONLY <3>1, <3>2
  <2>2. w \in Seq(Cell) /\ a \in Nat /\ l \in Nat
    BY <1>1, <1>7
  <2>3. /\ SubSeq(w, a + 1, a + l) \in Seq(Cell)
        /\ Len(SubSeq(w, a + 1, a + l)) = l
        /\ \A i \in 1 .. l : SubSeq(w, a + 1, a + l)[i] = w[a + i]
    BY ONLY <2>1, <2>2, Slice
  <2>4. QED
    BY ONLY <2>1, <2>3
<1>11. /\ framed \in Seq(Cell) /\ Len(framed) = q + l
       /\ \A i \in 1 .. q : framed[i] = cells[i]
       /\ \A i \in 1 .. l : framed[q + i] = body[i]
  <2>1. /\ framed \in Seq(Cell) /\ Len(framed) = Len(cells) + Len(body)
        /\ \A i \in 1 .. Len(cells) : framed[i] = cells[i]
        /\ \A i \in 1 .. Len(body) : framed[Len(cells) + i] = body[i]
    <3>1. cells \in Seq(Cell) /\ body \in Seq(Cell)
      BY <1>9
    <3>2. /\ cells \o body \in Seq(Cell) /\ Len(cells \o body) = Len(cells) + Len(body)
          /\ \A i \in 1 .. Len(cells) : (cells \o body)[i] = cells[i]
          /\ \A i \in 1 .. Len(body) : (cells \o body)[Len(cells) + i] = body[i]
      BY ONLY <3>1, Joined
    <3>3. QED
      BY <3>2
  <2>2. q = Len(cells) /\ l = Len(body)
    BY <1>9
  <2>3. QED
    BY ONLY <2>1, <2>2
<1>12. ASSUME NEW i \in 1 .. e PROVE x[i] = w[i]
  <2>1. CASE i <= k
    <3>1. i \in 1 .. k
      BY <2>1
    <3>2. QED
      BY <1>3, <1>6, <3>1
  <2>2. CASE ~(i <= k)
    <3>1. PICK j \in 1 .. v : i = k + j
      <4>1. i - k \in 1 .. v /\ i = k + (i - k)
        BY <1>8, <2>2
      <4>2. QED
        BY <4>1
    <3>2. j \in 1 .. Len(y) /\ j \in 1 .. Len(z)
      BY <1>5
    <3>3. w[k + j] = y[j] /\ x[k + j] = z[j] /\ z[j] = y[j]
      BY <1>3, <1>5, <1>6, <3>2
    <3>4. QED
      BY <3>1, <3>3
  <2>3. QED
    BY <2>1, <2>2
<1>13. ASSUME NEW i \in 1 .. q + l PROVE x[e + i] = framed[i]
  <2>1. CASE i <= q
    <3>1. i \in 1 .. q /\ v + i \in 1 .. Len(z) /\ e + i = k + (v + i)
      <4>1. Len(z) = v + q + l /\ e = k + v
        BY <1>5, <1>8
      <4>2. QED
        BY ONLY <1>n, <2>1, <4>1
    <3>2. x[k + (v + i)] = z[v + i] /\ z[v + i] = cells[i] /\ framed[i] = cells[i]
      BY <1>5, <1>6, <1>11, <3>1
    <3>3. QED
      BY <3>1, <3>2
  <2>2. CASE ~(i <= q)
    <3>1. PICK j \in 1 .. l : i = q + j
      <4>1. i - q \in 1 .. l /\ i = q + (i - q)
        BY <2>2
      <4>2. QED
        BY <4>1
    <3>2. /\ v + q + j \in 1 .. Len(z) /\ e + i = k + (v + q + j)
          /\ v + r + j \in 1 .. Len(y) /\ a + j = k + (v + r + j)
      <4>1. Len(z) = v + q + l /\ e = k + v /\ a = k + v + r
        BY <1>5, <1>8
      <4>2. QED
        BY ONLY <1>n, <1>a, <3>1, <4>1
    <3>3. x[k + (v + q + j)] = z[v + q + j] /\ z[v + q + j] = y[v + r + j]
      BY <1>5, <1>6, <3>2
    <3>4. framed[q + j] = body[j] /\ body[j] = w[a + j]
      BY <1>9, <1>11
    <3>5. w[k + (v + r + j)] = y[v + r + j]
      BY <1>3, <3>2
    <3>6. QED
      BY <3>1, <3>2, <3>3, <3>4, <3>5
  <2>3. QED
    BY <2>1, <2>2
<1>14. Len(x) = e + Len(framed)
  <2>1. Len(x) = e + q + l /\ Len(framed) = q + l
    BY <1>8, <1>11
  <2>2. QED
    BY ONLY <1>n, <2>1
<1>15. Shut(w, x, e, framed)
  BY <1>11, <1>12, <1>13, <1>14 DEF Shut
<1>16. QED
  BY <1>9, <1>11, <1>15

\* The body of the item on top, and where it goes.
LEMMA TopPiece ==
  ASSUME StreamInv, tokens # <<>>
  PROVE  LET n == Len(tokens)
             w == WholeOf(io)
         IN /\ n \in Nat \ {0} /\ n \in 1 .. n /\ Top = tokens[n] /\ Top \in Token
            /\ RoomBefore(tokens, n) \in Nat /\ RoomBefore(tokens, n) <= Len(w)
            /\ Top.start \in Nat /\ Top.start <= Len(w)
            /\ RoomBefore(tokens, n) = Top.start - Room(Top.style)
            /\ Piece(w, tokens, n + 1) = SubSeq(w, Top.start + 1, Len(w))
            /\ FramingsOf(tokens)[n] = [style |-> Top.style, field |-> Top.field]
<1>1. PICK n : n = Len(tokens)
  OBVIOUS
<1>2. PICK ts \in Seq(Token) : ts = tokens
  BY InvFacts DEF StreamInv
<1>3. PICK w \in Seq(Cell) : w = WholeOf(io)
  BY BufferParts DEF StreamInv, WriterInv, BufInv
<1>4. /\ n \in Nat \ {0} /\ n \in 1 .. n /\ n \in 1 .. Len(ts)
      /\ Top = ts[n] /\ Top \in Token
  <2>1. n \in Nat \ {0} /\ Last(ts) = ts[n] /\ ts[n] \in Token
    BY <1>1, <1>2, ClosedItems
  <2>2. QED
    BY <1>1, <1>2, <2>1 DEF Top
<1>5. Ordered(w, ts)
  BY <1>2, <1>3 DEF StreamInv
<1>6. /\ RoomBefore(ts, n) \in Int /\ RoomBefore(ts, n) <= ts[n].start
      /\ ts[n].start \in Nat /\ 0 <= RoomBefore(ts, n) /\ ts[n].start <= Len(w)
  BY <1>4, <1>5, StartsAndRooms DEF Ordered
<1>7. RoomBefore(ts, n) \in Nat /\ RoomBefore(ts, n) <= Len(w)
  <2>1. Len(w) \in Nat
    OBVIOUS
  <2>2. QED
    BY ONLY <1>6, <2>1
<1>8. RoomBefore(ts, n) = Top.start - Room(Top.style)
  BY <1>4 DEF RoomBefore
<1>9. Piece(w, ts, n + 1) = SubSeq(w, Top.start + 1, Len(w))
  <2>1. PICK k : k = n + 1
    OBVIOUS
  <2>2. k - 1 = n /\ n # 0
    BY <1>4, <2>1
  <2>3. StartOf(ts, n) = Top.start /\ EndOf(w, ts, n) = Len(w)
    BY <1>1, <1>2, <1>4 DEF StartOf, EndOf
  <2>4. Piece(w, ts, k) = SubSeq(w, StartOf(ts, k - 1) + 1, EndOf(w, ts, k - 1))
    BY DEF Piece
  <2>5. QED
    BY <2>1, <2>2, <2>3, <2>4
<1>10. FramingsOf(ts)[n] = [style |-> Top.style, field |-> Top.field]
  BY <1>4 DEF FramingsOf
<1>11. QED
  BY <1>1, <1>2, <1>3, <1>4, <1>6, <1>7, <1>8, <1>9, <1>10

LEMMA FramedIs ==
  ASSUME NEW style, NEW field, NEW body
  PROVE  LET kind == [style |-> style, field |-> field] IN
         /\ style = "group" => Stream!Framed(kind, body)
                                 = Append(body, Header(field, "EndGroup"))
         /\ style = "base128" => Stream!Framed(kind, body) = Digits(Len(body)) \o body
         /\ style = "fixed32" => Stream!Framed(kind, body) = Fixed(Len(body)) \o body
BY StreamDigits, StreamFixed DEF Stream!Framed, Stream!Header, Header

LEMMA GroupEndStreams ==
  ASSUME StreamInv, WriterInv', EndGroup
  PROVE  Streams
<1>1. /\ tokens # <<>> /\ tokens' = Front(tokens) /\ Top.value < 0
      /\ io' = Emit(io, VarintSpace, <<Header(-Top.value, "EndGroup")>>)
  BY DEF EndGroup, Ending
<1>2. ~IsPrefixed(Top) /\ -Top.value \in Fields
  BY <1>1, TopFacts DEF StreamInv
<1>3. PICK h \in Cell : h = Header(-Top.value, "EndGroup")
  BY <1>2 DEF Cell, Filled, HeaderTypes
<1>4. <<h>> \in Seq(Cell) /\ VarintSpace \in Nat
  BY WireAssumption
<1>5. BufInv(io, tokens) /\ Locked(tokens) /\ IsBuffer(io)
  BY InvFacts DEF StreamInv, BufInv
<1>6. Wrote(io, io', <<h>>)
  BY <1>1, <1>3, <1>4, <1>5, EmitWrote
<1>7. PICK w \in Seq(Cell) : w = WholeOf(io)
  BY <1>5, BufferParts
<1>8. PICK n : n = Len(tokens)
  OBVIOUS
<1>9. PICK body : body = Piece(w, tokens, n + 1)
  OBVIOUS
<1>10. /\ n \in Nat \ {0} /\ Top = tokens[n] /\ n \in 1 .. Len(tokens)
       /\ body = SubSeq(w, Top.start + 1, Len(w))
       /\ Top.start \in Nat /\ Top.start <= Len(w)
       /\ RoomBefore(tokens, n) = Top.start - Room(Top.style)
       /\ FramingsOf(tokens)[n] = [style |-> Top.style, field |-> Top.field]
  BY <1>1, <1>7, <1>8, <1>9, TopPiece
<1>11. PICK e \in Nat : e = Top.start /\ e = RoomBefore(tokens, n)
  <2>1. Room(Top.style) = 0
    BY <1>2 DEF IsPrefixed, Room
  <2>2. QED
    BY <1>10, <2>1
<1>12. PICK framed : framed = Append(body, h)
  OBVIOUS
<1>13. framed \in Seq(Cell) /\ Shut(w, w \o <<h>>, e, framed)
  <2>1. body = SubSeq(w, e + 1, Len(w)) /\ e <= Len(w)
    BY <1>10, <1>11
  <2>2. w \in Seq(Cell) /\ e \in Nat /\ h \in Cell
    OBVIOUS
  <2>3. Append(body, h) \in Seq(Cell) /\ Shut(w, w \o <<h>>, e, Append(body, h))
    BY ONLY <2>1, <2>2, ShutGroup
  <2>4. QED
    BY <1>12, <2>3
<1>14. Shut(WholeOf(io), WholeOf(io'), e, framed)
  BY <1>6, <1>7, <1>13 DEF Wrote
<1>15. framed = Stream!Framed(FramingsOf(tokens)[n], body)
  <2>1. Top.style = "group"
    BY <1>2 DEF IsPrefixed
  <2>2. Top.field = -Top.value
    BY <1>10, <2>1 DEF StreamInv, FieldsNamed
  <2>3. Stream!Framed([style |-> Top.style, field |-> Top.field], body)
          = Append(body, Header(Top.field, "EndGroup"))
    BY ONLY <2>1, FramedIs
  <2>4. QED
    BY <1>3, <1>10, <1>12, <2>2, <2>3, Zenon
<1>16. Begins(io.dest, io'.dest)
  BY <1>6 DEF Wrote
<1>17. body = Piece(WholeOf(io), tokens, n + 1)
  BY <1>7, <1>9
<1>18. QED
  BY ONLY StreamInv, WriterInv', <1>1, <1>8, <1>10, <1>11, <1>13, <1>14, <1>15, <1>16, <1>17, StreamClose DEF Streams

\* The room of the item on top is filled with cells, which are what comes before
\* a body as long as its own.
TopRoom(v, r, l) ==
  v = Top.value /\ r = Room(Top.style) /\ Len(io.buffer) = v + r + l
FramedBy(l, cells) ==
  \A body : Len(body) = l =>
    Stream!Framed([style |-> Top.style, field |-> Top.field], body) = cells \o body
RoomFilled(v, r, cells) ==
  io'.dest = io.dest /\ io'.buffer = Filling(io.buffer, v, r, cells)

LEMMA FillingStreams ==
  ASSUME StreamInv, WriterInv', tokens # <<>>, tokens' = Front(tokens), IsPrefixed(Top),
         NEW v \in Nat, NEW r \in Nat, NEW l \in Nat, NEW cells \in Seq(Cell),
         TopRoom(v, r, l), FramedBy(l, cells), RoomFilled(v, r, cells)
  PROVE  Streams
<1>0. v = Top.value /\ r = Room(Top.style) /\ Len(io.buffer) = v + r + l
  BY DEF TopRoom
<1>f. io'.dest = io.dest /\ io'.buffer = Filling(io.buffer, v, r, cells)
  BY DEF RoomFilled
<1>1. PICK n : n = Len(tokens)
  OBVIOUS
<1>2. BufInv(io, tokens) /\ IsBuffer(io) /\ tokens \in Seq(Token)
  BY InvFacts DEF StreamInv, BufInv
<1>3. PICK s \in Seq(Cell) : s = io.dest
  BY <1>2, BufferParts
<1>4. PICK y \in Seq(Cell) : y = io.buffer
  BY <1>2, BufferParts
<1>5. PICK w \in Seq(Cell) : w = WholeOf(io) /\ w = s \o y
  BY <1>2, <1>3, <1>4, BufferParts DEF WholeOf
<1>6. PICK body : body = Piece(w, tokens, n + 1)
  OBVIOUS
<1>7. /\ n \in Nat \ {0} /\ Top = tokens[n] /\ n \in 1 .. n
      /\ body = SubSeq(w, Top.start + 1, Len(w))
      /\ RoomBefore(tokens, n) \in Nat
      /\ RoomBefore(tokens, n) = Top.start - Room(Top.style)
      /\ Top.start \in Nat
      /\ FramingsOf(tokens)[n] = [style |-> Top.style, field |-> Top.field]
  BY <1>1, <1>5, <1>6, TopPiece
<1>8. Len(s) + v + r = Top.start
  <2>1. n \in Prefixed(tokens)
    BY <1>1, <1>2, <1>7 DEF Prefixed
  <2>2. RoomAt(io, Top)
    BY <1>2, <1>7, <2>1 DEF BufInv
  <2>3. QED
    BY <1>0, <1>3, <2>2 DEF RoomAt
<1>9. PICK e \in Nat : e = Len(s) + v /\ e = RoomBefore(tokens, n) /\ Top.start = e + r
  <2>1. Len(s) \in Nat /\ v \in Nat /\ r \in Nat
    OBVIOUS
  <2>2. r = Room(Top.style)
    BY <1>0
  <2>3. Len(s) + v \in Nat /\ Top.start = Len(s) + v + r
        /\ RoomBefore(tokens, n) = Len(s) + v
    BY ONLY <1>7, <1>8, <2>1, <2>2
  <2>4. QED
    BY <2>3
<1>10. PICK z \in Seq(Cell) : z = Filling(y, v, r, cells)
  <2>1. Len(y) = v + r + l
    BY <1>0, <1>4
  <2>2. IsFilling(Filling(y, v, r, cells), y, v, r, cells, Len(cells), l)
    BY <2>1, FillingIs
  <2>3. QED
    BY <2>2 DEF IsFilling
<1>11. PICK q \in Nat : q = Len(cells)
  OBVIOUS
<1>12. IsFilling(z, y, v, r, cells, q, l)
  <2>1. Len(y) = v + r + l
    BY <1>0, <1>4
  <2>2. QED
    BY <1>10, <1>11, <2>1, FillingIs
<1>14. PICK x \in Seq(Cell) : x = s \o z
  BY Joined
<1>15. PICK framed : framed = cells \o body
  OBVIOUS
<1>13. Len(body) = l /\ framed \in Seq(Cell) /\ Shut(w, x, e, framed)
  <2>1. Len(y) = v + r + l
    BY <1>0, <1>4
  <2>2. /\ v \in Nat /\ r \in Nat /\ l \in Nat /\ cells \in Seq(Cell) /\ q \in Nat
        /\ e \in Nat /\ e = Len(s) + v /\ w \in Seq(Cell) /\ x \in Seq(Cell)
        /\ s \in Seq(Cell) /\ y \in Seq(Cell) /\ z \in Seq(Cell)
    BY <1>9
  <2>3. q = Len(cells) /\ IsFilling(z, y, v, r, cells, q, l)
    BY <1>11, <1>12
  <2>4. w = s \o y /\ x = s \o z /\ framed = cells \o body
    BY <1>5, <1>14, <1>15
  <2>5. body = SubSeq(w, e + r + 1, Len(w))
    BY <1>7, <1>9
  <2>6. Backfills(s, y, z, v, r, l, cells, q, e, w, x, body, framed)
    BY <2>1, <2>2, <2>3, <2>4, <2>5, Zenon DEF Backfills
  <2>7. Len(body) = l
    <3>1. PICK a \in Nat : a = e + r
      BY ONLY <2>2
    <3>2. PICK k \in Nat : k = Len(w)
      BY ONLY <2>2
    <3>3. k = Len(s) + Len(y)
      BY ONLY <2>2, <2>4, <3>2, Joined
    <3>4. k = a + l
      <4>1. Len(s) \in Nat /\ a \in Nat /\ k \in Nat
        BY ONLY <2>2, <3>1, <3>2
      <4>2. QED
        BY ONLY <2>1, <2>2, <3>1, <3>3, <4>1
    <3>5. a \in Nat /\ k \in Nat /\ k - a = l /\ a <= k /\ k <= Len(w)
      BY ONLY <2>2, <3>1, <3>2, <3>4
    <3>6. Len(SubSeq(w, a + 1, k)) = k - a
      BY ONLY <2>2, <3>5, Cut
    <3>7. body = SubSeq(w, a + 1, k)
      BY <2>5, <3>1, <3>2, Zenon
    <3>8. QED
      BY ONLY <3>5, <3>6, <3>7
  <2>8. framed \in Seq(Cell)
    BY ONLY <2>2, <2>6, ShutPrefixed, Zenon
  <2>9. Shut(w, x, e, framed)
    BY ONLY <2>2, <2>6, ShutPrefixed
  <2>10. QED
    BY <2>7, <2>8, <2>9
<1>16. WholeOf(io') = x
  BY <1>f, <1>3, <1>4, <1>10, <1>14 DEF WholeOf
<1>17. Shut(WholeOf(io), WholeOf(io'), e, framed) /\ framed \in Seq(Cell)
  BY <1>5, <1>13, <1>16
<1>18. framed = Stream!Framed(FramingsOf(tokens)[n], body)
  BY <1>7, <1>13, <1>15 DEF FramedBy
<1>19. Begins(io.dest, io'.dest)
  BY <1>f, <1>3, BeginsSelf
<1>20. body = Piece(WholeOf(io), tokens, n + 1)
  BY <1>5, <1>6
<1>21. QED
  BY ONLY StreamInv, WriterInv', tokens # <<>>, tokens' = Front(tokens), <1>1, <1>7, <1>9, <1>17, <1>18, <1>19, <1>20, StreamClose DEF Streams

LEMMA FixedEndStreams ==
  ASSUME StreamInv, WriterInv', EndFixed
  PROVE  Streams
<1>1. /\ tokens # <<>> /\ tokens' = Front(tokens) /\ Top.style = "fixed32"
  BY DEF EndFixed, Ending
<1>w. WriterInv
  BY DEF StreamInv
<1>2. PICK r \in Nat : r = Room(Top.style) /\ r = FixedLength
  BY <1>1, WireAssumption DEF Room
<1>3. IsPrefixed(Top)
  BY <1>1 DEF IsPrefixed
<1>4. PICK v \in Nat : v = Top.value /\ v + r <= Len(io.buffer)
  BY <1>1, <1>2, <1>3, <1>w, TopFacts
<1>5. IsBuffer(io) /\ io \in Buffers /\ Len(io.buffer) \in Nat
  BY <1>w, InvFacts, BufferTypes DEF BufInv
<1>6. PICK l \in Nat : l = Len(io.buffer) - v - r /\ Len(io.buffer) = v + r + l
  <2>1. \A k \in Nat : v + r <= k => k - v - r \in Nat /\ v + r + (k - v - r) = k
    OBVIOUS
  <2>2. QED
    BY <1>4, <1>5, <2>1, Zenon
<1>7. PICK cells \in Seq(Cell) : cells = Fixed(l)
  BY CellsAreCells
<1>8. PICK z : z = Filling(io.buffer, v, r, cells)
  OBVIOUS
<1>9. io' = Built(io.dest, z, io.size, io.position)
  <2>1. io' = [io EXCEPT !.buffer = z]
    BY <1>2, <1>4, <1>6, <1>7, <1>8, Zenon DEF EndFixed, Filling
  <2>2. QED
    BY <1>5, <2>1, BufferOnly, Zenon
<1>10. io'.dest = io.dest /\ io'.buffer = Filling(io.buffer, v, r, cells)
  BY <1>8, <1>9 DEF Built
<1>11. ASSUME NEW body, Len(body) = l
       PROVE  Stream!Framed([style |-> Top.style, field |-> Top.field], body)
                = cells \o body
  <2>1. Stream!Framed([style |-> Top.style, field |-> Top.field], body)
          = Fixed(Len(body)) \o body
    BY ONLY <1>1, FramedIs
  <2>2. QED
    BY <1>7, <1>11, <2>1
<1>12. FramedBy(l, cells)
  BY <1>11 DEF FramedBy
<1>13. RoomFilled(v, r, cells)
  BY <1>10 DEF RoomFilled
<1>14. TopRoom(v, r, l)
  BY <1>2, <1>4, <1>6 DEF TopRoom
<1>15. QED
  BY <1>1, <1>3, <1>12, <1>13, <1>14, FillingStreams

LEMMA StringEndStreams ==
  ASSUME StreamInv, WriterInv', EndString
  PROVE  Streams
<1>1. /\ tokens # <<>> /\ tokens' = Front(tokens) /\ Top.style = "base128"
  BY DEF EndString, Ending
<1>w. WriterInv
  BY DEF StreamInv
<1>2. PICK r \in Nat : r = Room(Top.style) /\ r = 1
  BY <1>1 DEF Room
<1>3. IsPrefixed(Top)
  BY <1>1 DEF IsPrefixed
<1>4. PICK v \in Nat : v = Top.value /\ v + r <= Len(io.buffer) /\ flushLock # 0
  BY <1>1, <1>2, <1>3, <1>w, TopFacts
<1>5. IsBuffer(io) /\ BufInv(io, tokens) /\ Locked(tokens) /\ Len(io.buffer) \in Nat
  BY <1>w, InvFacts, BufferTypes DEF BufInv
<1>6. PICK l \in Nat : l = Len(io.buffer) - v - r /\ Len(io.buffer) = v + r + l
  <2>1. \A k \in Nat : v + r <= k => k - v - r \in Nat /\ v + r + (k - v - r) = k
    OBVIOUS
  <2>2. QED
    BY <1>4, <1>5, <2>1, Zenon
<1>7. PICK cells \in Seq(Cell) : cells = Digits(l)
  BY CellsAreCells
<1>8. PICK offset \in Nat : offset = Width(l) - 1
  <2>1. Width(l) \in 1 .. VarintSpace /\ VarintSpace \in Nat
    BY WidthBounds, WireAssumption
  <2>2. QED
    BY <2>1
<1>9. PICK d : d = IF offset = 0 THEN io ELSE DemandSpace(io, offset)
  OBVIOUS
<1>10. BufInv(d, tokens) /\ d.buffer = io.buffer
  BY <1>4, <1>5, <1>9, <1>w, InvFacts, DemandInv
<1>11. IsBuffer(d) /\ d \in Buffers
  BY <1>10, BufferTypes DEF BufInv
<1>12. d.dest = io.dest
  BY <1>4, <1>5, <1>9, DemandInv
<1>13. PICK z : z = Filling(d.buffer, v, r, cells)
  OBVIOUS
<1>14. PICK y : y = d.position + offset
  OBVIOUS
<1>15. z = SubSeq(d.buffer, 1, v) \o Digits(l) \o SubSeq(d.buffer, v + 2, v + 1 + l)
  <2>1. v + r + 1 = v + 2
    BY <1>2
  <2>2. v + 1 + l = Len(d.buffer)
    BY <1>2, <1>6, <1>10
  <2>3. QED
    BY <1>7, <1>13, <2>1, <2>2, Zenon DEF Filling
<1>16. io' = [d EXCEPT !.buffer = z, !.position = y]
  BY <1>2, <1>4, <1>6, <1>8, <1>9, <1>14, <1>15, Zenon DEF EndString
<1>17. io' = Built(d.dest, z, d.size, y)
  BY <1>11, <1>16, BufferAndPosition, Zenon
<1>18. io'.dest = d.dest /\ io'.buffer = Filling(d.buffer, v, r, cells)
  BY <1>13, <1>17 DEF Built
<1>19. ASSUME NEW body, Len(body) = l
       PROVE  Stream!Framed([style |-> Top.style, field |-> Top.field], body)
                = cells \o body
  <2>1. Stream!Framed([style |-> Top.style, field |-> Top.field], body)
          = Digits(Len(body)) \o body
    BY ONLY <1>1, FramedIs
  <2>2. QED
    BY <1>7, <1>19, <2>1
<1>20. FramedBy(l, cells)
  BY <1>19 DEF FramedBy
<1>21. RoomFilled(v, r, cells)
  BY <1>10, <1>12, <1>18 DEF RoomFilled
<1>22. TopRoom(v, r, l)
  BY <1>2, <1>4, <1>6 DEF TopRoom
<1>23. QED
  BY <1>1, <1>3, <1>20, <1>21, <1>22, FillingStreams

-----------------------------------------------------------------------------
(* What the stream is told about the items, and what bypasses the buffer.  *)

\* The items stay, but for the one that a step opens or closes.
LEMMA SameFields ==
  ASSUME StreamInv, UNCHANGED itemVars
  PROVE  FieldsNamed(tokens')
BY DEF StreamInv, FieldsNamed, itemVars

LEMMA OpenFields ==
  ASSUME StreamInv, NEW t \in Token, tokens' = Append(tokens, t),
         t.style = "group" => t.field = -t.value
  PROVE  FieldsNamed(tokens')
<1>1. PICK ts \in Seq(Token) : ts = tokens
  BY InvFacts DEF StreamInv
<1>2. PICK us : us = Append(ts, t)
  OBVIOUS
<1>3. FieldsNamed(ts)
  BY <1>1 DEF StreamInv
<1>4. FieldsNamed(us)
  BY <1>2, <1>3 DEF FieldsNamed
<1>5. QED
  BY <1>1, <1>2, <1>4

LEMMA CloseFields ==
  ASSUME StreamInv, Ending
  PROVE  FieldsNamed(tokens')
<1>1. tokens # <<>> /\ tokens' = Front(tokens)
  BY DEF Ending
<1>2. PICK ts \in Seq(Token) : ts = tokens
  BY InvFacts DEF StreamInv
<1>3. PICK n : n = Len(ts)
  OBVIOUS
<1>4. PICK us : us = Front(ts)
  OBVIOUS
<1>5. /\ us \in Seq(Token) /\ Len(us) = n - 1 /\ n \in Nat \ {0}
      /\ \A i \in 1 .. n - 1 : us[i] = ts[i]
  BY <1>1, <1>2, <1>3, <1>4, ClosedItems
<1>6. FieldsNamed(ts)
  BY <1>2 DEF StreamInv
<1>7. ASSUME NEW i \in 1 .. Len(us), us[i].style = "group"
      PROVE  us[i].field = -us[i].value
  <2>1. i \in 1 .. n - 1 /\ i \in 1 .. Len(ts)
    BY <1>3, <1>5
  <2>2. us[i] = ts[i]
    BY <1>5, <2>1
  <2>3. QED
    BY <1>6, <1>7, <2>1, <2>2 DEF FieldsNamed
<1>8. FieldsNamed(us)
  BY <1>7 DEF FieldsNamed
<1>9. QED
  BY <1>1, <1>2, <1>4, <1>8

LEMMA StartFields ==
  ASSUME StreamInv, StartItem
  PROVE  FieldsNamed(tokens')
<1>1. fieldNumber \in Fields \union {0}
  BY DEF StreamInv, WriterInv, HeaderKnown
<1>2. ASSUME NEW o \in Objects \union {NoObject}, StartGroup(o)
      PROVE  FieldsNamed(tokens')
  <2>1. PICK t : t = [value |-> -fieldNumber, style |-> "group", field |-> fieldNumber,
                      object |-> o, start |-> io.position]
    OBVIOUS
  <2>2. t \in Token
    <3>1. io.position \in Nat
      BY InvFacts, BufferTypes DEF StreamInv
    <3>2. fieldNumber \in Int
      BY <1>1, WireAssumption
    <3>3. QED
      BY <1>1, <2>1, <3>1, <3>2 DEF Token, Styles
  <2>3. t.field = -t.value
    <3>1. fieldNumber \in Int
      BY <1>1, WireAssumption
    <3>2. t.field = fieldNumber /\ t.value = -fieldNumber
      BY <2>1
    <3>3. QED
      BY <3>1, <3>2
  <2>4. tokens' = Append(tokens, t)
    BY <1>2, <2>1 DEF StartGroup, Opened
  <2>5. QED
    BY <2>2, <2>3, <2>4, OpenFields
<1>3. ASSUME NEW o \in Objects \union {NoObject}, NEW b, BufInv(b, tokens),
             NEW style \in {"base128", "fixed32"}, NEW f \in Fields \union {0},
             Reserve(o, b, style, f)
      PROVE  FieldsNamed(tokens')
  <2>1. PICK d : d = DemandSpace(b, ItemSpace)
    OBVIOUS
  <2>2. BufInv(d, tokens)
    BY <1>3, <2>1, DemandInv, InvFacts, WriterAssumption DEF StreamInv
  <2>3. PICK v \in Nat : v = Len(d.buffer)
    BY <2>2, BufferTypes
  <2>4. PICK s \in Nat : s = d.position + Room(style)
    <3>1. d.position \in Nat /\ Room(style) \in Nat
      BY <2>2, BufferTypes, WireAssumption DEF Room
    <3>2. QED
      BY <3>1
  <2>5. PICK t : t = [value |-> v, style |-> style, field |-> f, object |-> o,
                      start |-> s]
    OBVIOUS
  <2>6. t \in Token /\ t.style # "group"
    BY <2>5 DEF Token, Styles
  <2>7. tokens' = Append(tokens, t)
    BY <1>3, <2>1, <2>3, <2>4, <2>5 DEF Reserve, Opened
  <2>8. QED
    BY <2>6, <2>7, OpenFields
<1>4. ASSUME NEW o \in Objects \union {NoObject}, StartString(o)
      PROVE  FieldsNamed(tokens')
  BY <1>1, <1>3, <1>4, InvFacts DEF StartString, StreamInv
<1>5. ASSUME NEW o \in Objects \union {NoObject}, NEW f \in Fields \union {0},
             NEW style \in Styles, StartPrefixed(o, style, f)
      PROVE  FieldsNamed(tokens')
  <2>1. PICK b : b = IF f = 0 THEN io ELSE Emit(io, VarintSpace, <<Header(f, "String")>>)
    OBVIOUS
  <2>2. style \in {"base128", "fixed32"} /\ Reserve(o, b, style, f)
    BY <1>5, <2>1 DEF StartPrefixed
  <2>3. BufInv(b, tokens)
    BY <2>1, HeadedInv DEF StreamInv
  <2>4. QED
    BY <1>3, <2>2, <2>3
<1>6. QED
  BY <1>2, <1>4, <1>5 DEF StartItem

\* Only a copy empties the buffer to go past it, and then nothing is put in it.
LEMMA NotCopying ==
  ASSUME StreamInv, UNCHANGED copyVars, copying # "send" \/ io'.buffer = <<>> \/ io' = io
  PROVE  Bypassing'
BY DEF StreamInv, Bypassing, copyVars

LEMMA FlushedEmpty ==
  ASSUME NEW b, IsBuffer(b)
  PROVE  Flushed(b).buffer = <<>>
<1>1. PICK d : d = Flushed(b)
  OBVIOUS
<1>2. d = Built(b.dest \o b.buffer, <<>>, b.size, b.position)
  BY <1>1, FlushedIs
<1>3. d.buffer = <<>>
  BY <1>2 DEF Built
<1>4. QED
  BY <1>1, <1>3

LEMMA CopyBypassing ==
  ASSUME StreamInv, Copy
  PROVE  Bypassing'
<1>1. CASE FillBuffer
  <2>1. copying = "fill"
    BY <1>1 DEF FillBuffer
  <2>2. CASE io' = Flushed(io)
    <3>1. io'.buffer = <<>>
      BY <2>2, FlushedEmpty, InvFacts DEF StreamInv, BufInv
    <3>2. QED
      BY <3>1 DEF Bypassing
  <2>3. CASE copying' # "send"
    BY <2>3 DEF Bypassing
  <2>4. QED
    BY <1>1, <2>1, <2>2, <2>3 DEF FillBuffer, Copied, CopyTo
<1>2. CASE SendRest
  <2>1. io.buffer = <<>>
    BY <1>2 DEF SendRest, StreamInv, Bypassing
  <2>2. io'.buffer = io.buffer
    <3>1. io \in Buffers
      BY InvFacts, BufferTypes DEF StreamInv
    <3>2. ASSUME NEW x, NEW y PROVE [io EXCEPT !.dest = x, !.position = y].buffer = io.buffer
      BY <3>1 DEF Buffers
    <3>3. QED
      BY <1>2, <3>2 DEF SendRest
  <2>3. QED
    BY <2>1, <2>2 DEF Bypassing
<1>3. CASE GrowBuffer
  BY <1>3 DEF GrowBuffer, Copied, CopyTo, Bypassing
<1>4. QED
  BY <1>1, <1>2, <1>3 DEF Copy

-----------------------------------------------------------------------------
(* The steps of the specification.                                         *)

LEMMA StreamInit == Init => StreamInv /\ Stream!Init
<1> SUFFICES ASSUME Init PROVE StreamInv /\ Stream!Init
  OBVIOUS
<1>1. WriterInv
  BY WriterInit
<1>2. /\ tokens = <<>> /\ Len(tokens) = 0 /\ DOMAIN tokens = {}
      /\ io.dest = <<>> /\ io.buffer = <<>>
  BY DEF Init
<1>3. Ordered(WholeOf(io), tokens) /\ FieldsNamed(tokens) /\ Bypassing
  BY <1>2 DEF Ordered, FieldsNamed, Bypassing
<1>4. Framings = <<>>
  BY <1>2 DEF Framings
<1>5. Bodies = << <<>> >>
  <2>1. PICK w \in Seq(Cell) : w = WholeOf(io) /\ Len(w) = 0
    <3>1. /\ WholeOf(io) \in Seq(Cell)
          /\ Len(WholeOf(io)) = Len(io.dest) + Len(io.buffer)
      BY <1>1, BufferParts DEF WriterInv, BufInv
    <3>2. Len(io.dest) = 0 /\ Len(io.buffer) = 0
      BY <1>2
    <3>3. Len(WholeOf(io)) = 0
      BY <3>1, <3>2
    <3>4. QED
      BY <3>1, <3>3
  <2>2. PICK b : b = Bodies
    OBVIOUS
  <2>3. b = Pieces(w, tokens)
    BY <2>1, <2>2, MappedIs
  <2>4. PICK p : p = Piece(w, tokens, 1)
    OBVIOUS
  <2>5. p = <<>>
    <3>1. StartOf(tokens, 0) = 0 /\ EndOf(w, tokens, 0) = 0
      BY <1>2, <2>1 DEF StartOf, EndOf
    <3>2. p = SubSeq(w, 0 + 1, 0)
      <4>1. 1 - 1 = 0
        OBVIOUS
      <4>2. QED
        BY <2>4, <3>1, <4>1 DEF Piece
    <3>3. QED
      BY <2>1, <3>2
  <2>6. b = [k \in {1} |-> p]
    <3>1. 1 .. Len(tokens) + 1 = {1}
      BY <1>2
    <3>2. QED
      BY <2>3, <2>4, <3>1 DEF Pieces
  <2>7. QED
    BY <2>2, <2>5, <2>6
<1>6. QED
  BY <1>1, <1>2, <1>3, <1>4, <1>5 DEF StreamInv, Stream!Init

LEMMA StreamStep == StreamInv /\ [Next]_vars => StreamInv' /\ Stream!Next
<1> SUFFICES ASSUME StreamInv, [Next]_vars PROVE StreamInv' /\ Stream!Next
  OBVIOUS
<1>w. WriterInv'
  BY WriterNext DEF StreamInv
<1>1. SUFFICES Streams /\ FieldsNamed(tokens') /\ Bypassing'
  <2>1. PICK x : x = WholeOf(io')
    OBVIOUS
  <2>2. PICK ts : ts = tokens'
    OBVIOUS
  <2>3. ASSUME Ordered(x, ts), FieldsNamed(ts), Bypassing'
        PROVE  StreamInv'
    BY <1>w, <2>1, <2>2, <2>3, Zenon DEF StreamInv, Ordered, FieldsNamed, WholeOf, RoomBefore
  <2>4. QED
    BY <2>1, <2>2, <2>3 DEF Streams
<1>n. /\ VarintSpace \in Nat /\ \A n \in 0 .. MaxCells : n \in Nat
      /\ \A n \in 1 .. VarintSpace : n \in Nat
  BY WireAssumption
<1>2. CASE Copy
  BY <1>2, <1>w, CopyStreams, CopyBypassing, SameFields DEF Copy
<1>3. CASE \E n \in 0 .. MaxCells : AppendExtensionData(n)
  <2>1. io' = io /\ UNCHANGED itemVars /\ copying' = "fill"
    BY <1>3 DEF AppendExtensionData
  <2>2. QED
    BY <1>w, <2>1, PackedStreams, SameFields DEF Bypassing
<1>4. CASE WriteValue /\ ~Copy /\ ~\E n \in 0 .. MaxCells : AppendExtensionData(n)
  <2>1. Streams
    BY <1>4, <1>n, <1>w, HeaderStreams, VariantStreams, FixedStreams, StringStreams,
       BytesStreams DEF WriteValue
  <2>2. UNCHANGED itemVars /\ UNCHANGED copyVars /\ copying = "no"
    BY <1>4 DEF WriteValue, WriteFieldHeader, WriteVariant, WriteFixed, WriteString,
       WriteBytes, Written, MayWrite, Ready
  <2>3. QED
    BY <2>1, <2>2, SameFields, NotCopying
<1>5. CASE StartItem
  <2>1. Streams
    BY <1>5, <1>w, GroupStartStreams, StringStartStreams, PrefixedStartStreams DEF StartItem
  <2>2. UNCHANGED copyVars /\ copying = "no"
    BY <1>5 DEF StartItem, StartGroup, StartString, StartPrefixed, Reserve, MayWrite, Ready
  <2>3. QED
    BY <1>5, <2>1, <2>2, StartFields, NotCopying
<1>6. CASE SetPackedField
  <2>1. UNCHANGED itemVars /\ UNCHANGED copyVars /\ io' = io
    BY <1>6 DEF SetPackedField
  <2>2. QED
    BY <1>6, <1>w, <2>1, PackedStreams, SameFields, NotCopying
<1>7. CASE EndItem
  <2>1. Streams
    BY <1>7, <1>w, GroupEndStreams, FixedEndStreams, StringEndStreams DEF EndItem
  <2>2. Ending /\ UNCHANGED copyVars /\ copying = "no"
    BY <1>7 DEF EndItem, EndGroup, EndFixed, EndString, Ending, Ready
  <2>3. QED
    BY <2>1, <2>2, CloseFields, NotCopying
<1>8. CASE Close \/ Dispose
  <2>1. /\ UNCHANGED itemVars /\ UNCHANGED copyVars
        /\ io' = Flushed(io) \/ io' = io
    BY <1>8 DEF Close, Dispose
  <2>2. Flushed(io).buffer = <<>>
    BY FlushedEmpty, InvFacts DEF StreamInv, BufInv
  <2>3. QED
    BY <1>w, <2>1, <2>2, FlushStreams, SameFields, NotCopying
<1>9. CASE UNCHANGED vars
  <2>1. UNCHANGED itemVars /\ UNCHANGED copyVars /\ io' = io
    BY <1>9 DEF vars, itemVars, copyVars
  <2>2. QED
    BY <1>w, <2>1, PackedStreams, SameFields, NotCopying
<1>10. QED
  BY <1>2, <1>3, <1>4, <1>5, <1>6, <1>7, <1>8, <1>9 DEF Next, Done, WriteValue

LEMMA StreamAlways == Spec => []StreamInv
BY StreamInit, StreamStep, PTL DEF Spec

-----------------------------------------------------------------------------
(* The theorems.                                                           *)

\* No write goes beyond the end of ioBuffer, and the position counts each byte
\* once, whatever the lengths of the buffer and the message (DemandSpace, Flush,
\* CopyRawFromStream, EndSubItem).
THEOREM NoOverrun == Spec => []BufferAccounts
<1>1. WriterInv => BufferAccounts
  BY DEF WriterInv, BufInv, IsBuffer, BufferAccounts
<1>2. QED
  BY <1>1, WriterAlways, PTL

\* The room for the length of each open item stays where its token says until
\* EndSubItem fills it in, however deep the items are nested, and the flush lock
\* counts those items.
THEOREM RoomStays == Spec => []RoomIsKept
<1>1. WriterInv => RoomIsKept
  BY DEF WriterInv, ItemsOpen, BufInv, RoomAt, Prefixed, RoomIsKept
<1>2. QED
  BY <1>1, WriterAlways, PTL

\* Beyond the check depth, whatever it is, the recursion stack holds the open
\* instances and each once (CheckRecursionStackAndPush, PopRecursionStack).
THEOREM StackIsOpenItems == Spec => []RecursionStackMatches
<1>1. WriterInv => RecursionStackMatches
  BY DEF WriterInv
<1>2. QED
  BY <1>1, WriterAlways, PTL

\* What Close leaves at the destination is the whole message, and each length in
\* it has been filled in: a hole is always the room of an item that is open, and
\* Close refuses while one is.
THEOREM ClosedHasNoHole == Spec => []ClosedIsComplete
<1>1. WriterInv => ClosedIsComplete
  <2> SUFFICES ASSUME WriterInv, status = "closed" PROVE ClosedIsComplete
    BY DEF ClosedIsComplete
  <2>1. tokens = <<>> /\ io.buffer = <<>> /\ Len(io.buffer) = 0
    BY DEF WriterInv, ClosedIsEmpty
  <2>2. \A i \in DOMAIN io.dest : io.dest[i] # Hole
    BY DEF WriterInv, BufInv, HolesAreRoom
  <2>3. io.position = Len(io.dest)
    <3>1. io.position = Len(io.dest) + Len(io.buffer) /\ Len(io.dest) \in Nat
      BY InvFacts, BufferTypes
    <3>2. QED
      BY <2>1, <3>1
  <2>4. QED
    BY <2>1, <2>2, <2>3 DEF ClosedIsComplete
<1>2. QED
  BY <1>1, WriterAlways, PTL

\* However the buffer is flushed, grown, bypassed, backfilled and shifted, the
\* destination gets a message that only gets longer, in which each item that ended
\* has the length of its body before it or an end group behind it, and no byte that
\* a length still to come would move was sent (StartSubItem, EndSubItem, Flush,
\* DemandSpace, CopyRawFromStream): for any sizes, the writer implements WireStream.
THEOREM StreamIsFramed == Spec => ImplementsStream
<1>1. StreamInv /\ [Next]_vars => [Stream!Next]_(Stream!vars)
  BY StreamStep
<1>2. QED
  BY <1>1, StreamInit, StreamAlways, PTL DEF Spec, ImplementsStream, Stream!Spec
=============================================================================
