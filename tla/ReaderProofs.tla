----------------------------- MODULE ReaderProofs -----------------------------
(***************************************************************************)
(* Proofs about ProtoReader, for any messages, chunks and buffers.  However *)
(* fields are read, skipped and appended, the buffer holds what the stream *)
(* has at that place, and nothing behind a given length is taken.  When the *)
(* messages are framed as a writer frames them, the reader visits them as   *)
(* WireCursor says, and the extension data it keeps are fields of the      *)
(* message, copied cell by cell.                                           *)
(***************************************************************************)
EXTENDS ProtoReader, SequenceTheorems, FiniteSetTheorems, WellFoundedInduction, TLAPS

Buffers == [window : Seq(Cells), index : Nat, size : Nat, position : Nat,
            fetched : Nat, remaining : Nat]

\* The window of b is what the stream has from a place on, up to where it has
\* been read; nothing is known of what a seek went past.
WindowAt(b, at) ==
  /\ b \in Buffers /\ at \in Nat
  /\ b.index + Len(b.window) <= b.size
  /\ at + Len(b.window) = b.fetched
  /\ Len(b.window) > 0 => b.fetched <= Len(source.cells)
  /\ \A i \in 1 .. Len(b.window) : b.window[i] = source.cells[at + i]
  /\ source.fixed => b.fetched <= source.length /\ b.remaining = source.length - b.fetched

SourceOK == /\ source.cells \in Seq(Cells) /\ source.length \in Nat
            /\ source.fixed \in BOOLEAN

-----------------------------------------------------------------------------
(* What the operations on a buffer do to it.                               *)

Built(w, i, z, p, f, r) ==
  [window |-> w, index |-> i, size |-> z, position |-> p, fetched |-> f, remaining |-> r]

\* A buffer with some of its fields changed.
LEMMA Exchanged ==
  ASSUME NEW b \in Buffers, NEW x, NEW y
  PROVE  [b EXCEPT !.size = x, !.index = y]
           = Built(b.window, y, x, b.position, b.fetched, b.remaining)
<1>1. PICK c1 : c1 = [b EXCEPT !.size = x]
  OBVIOUS
<1>2. PICK c2 : c2 = [c1 EXCEPT !.index = y]
  OBVIOUS
<1>3. c2 = Built(b.window, y, x, b.position, b.fetched, b.remaining)
  BY <1>1, <1>2 DEF Buffers, Built
<1>4. c2 = [b EXCEPT !.size = x, !.index = y]
  BY <1>1, <1>2, Zenon
<1>5. QED
  BY <1>3, <1>4, Zenon

LEMMA Repositioned ==
  ASSUME NEW b \in Buffers, NEW x
  PROVE  [b EXCEPT !.position = x]
           = Built(b.window, b.index, b.size, x, b.fetched, b.remaining)
BY DEF Buffers, Built

LEMMA Reindexed ==
  ASSUME NEW b \in Buffers, NEW x
  PROVE  [b EXCEPT !.index = x]
           = Built(b.window, x, b.size, b.position, b.fetched, b.remaining)
BY DEF Buffers, Built

LEMMA Replaced ==
  ASSUME NEW b \in Buffers, NEW x, NEW y
  PROVE  [b EXCEPT !.window = x, !.index = y]
           = Built(x, y, b.size, b.position, b.fetched, b.remaining)
<1>1. PICK c1 : c1 = [b EXCEPT !.window = x]
  OBVIOUS
<1>2. PICK c2 : c2 = [c1 EXCEPT !.index = y]
  OBVIOUS
<1>3. c2 = Built(x, y, b.size, b.position, b.fetched, b.remaining)
  BY <1>1, <1>2 DEF Buffers, Built
<1>4. c2 = [b EXCEPT !.window = x, !.index = y]
  BY <1>1, <1>2, Zenon
<1>5. QED
  BY <1>3, <1>4, Zenon

LEMMA Typed ==
  ASSUME NEW b, NEW at, WindowAt(b, at)
  PROVE  /\ b \in Buffers /\ b.window \in Seq(Cells) /\ Len(b.window) \in Nat
         /\ b.index \in Nat /\ b.size \in Nat /\ b.position \in Nat
         /\ b.fetched \in Nat /\ b.remaining \in Nat /\ at \in Nat
BY DEF WindowAt, Buffers

\* A buffer with room at the end, or longer, or both.
LEMMA RoomierAt ==
  ASSUME NEW b, NEW at, WindowAt(b, at), NEW i \in Nat, NEW z \in Nat,
         i <= b.index, z >= b.size
  PROVE  WindowAt(Built(b.window, i, z, b.position, b.fetched, b.remaining), at)
<1>1. /\ b.window \in Seq(Cells) /\ Len(b.window) \in Nat
      /\ b.index \in Nat /\ b.size \in Nat /\ b.position \in Nat
      /\ b.fetched \in Nat /\ b.remaining \in Nat /\ at \in Nat
  BY Typed
<1>2. b.index + Len(b.window) <= b.size
  BY DEF WindowAt
<1>3. i + Len(b.window) <= z
  BY <1>1, <1>2
<1>4. /\ at + Len(b.window) = b.fetched
      /\ Len(b.window) > 0 => b.fetched <= Len(source.cells)
      /\ \A k \in 1 .. Len(b.window) : b.window[k] = source.cells[at + k]
      /\ source.fixed => b.fetched <= source.length /\ b.remaining = source.length - b.fetched
  BY DEF WindowAt
<1>5. PICK c : c = Built(b.window, i, z, b.position, b.fetched, b.remaining)
  OBVIOUS
<1>6. /\ c.window = b.window /\ c.index = i /\ c.size = z /\ c.position = b.position
      /\ c.fetched = b.fetched /\ c.remaining = b.remaining /\ c \in Buffers
  BY <1>1, <1>5 DEF Built, Buffers
<1>7. WindowAt(c, at)
  BY <1>1, <1>3, <1>4, <1>6 DEF WindowAt
<1>8. QED
  BY <1>5, <1>7

LEMMA ShiftedAt ==
  ASSUME NEW b, NEW at, WindowAt(b, at), NEW count \in Nat
  PROVE  /\ WindowAt(Shifted(b, count), at)
         /\ Shifted(b, count).position = b.position
         /\ Shifted(b, count).window = b.window
<1> DEFINE Roomier(i, z) == Built(b.window, i, z, b.position, b.fetched, b.remaining)
<1>1. b \in Buffers /\ b.index \in Nat /\ b.size \in Nat
  BY Typed
<1>2. \A i, z : Roomier(i, z).position = b.position /\ Roomier(i, z).window = b.window
  BY DEF Built
<1>3. CASE count > b.size
  <2>1. ~(count <= b.size)
    BY <1>1, <1>3
  <2>2. Shifted(b, count) = [b EXCEPT !.size = Longer(b.size, count), !.index = 0]
    BY <1>3, <2>1, Zenon DEF Shifted
  <2>3. Shifted(b, count) = Roomier(0, Longer(b.size, count))
    BY <1>1, <2>2, Exchanged, Zenon
  <2>4. Longer(b.size, count) \in Nat /\ Longer(b.size, count) >= b.size
    BY <1>1, <1>3 DEF Longer
  <2>5. WindowAt(Roomier(0, Longer(b.size, count)), at)
    BY <1>1, <2>4, RoomierAt
  <2>6. QED
    BY <1>2, <2>3, <2>5, Zenon
<1>4. CASE count <= b.size /\ b.index + count >= b.size
  <2>1. ~(count > b.size)
    BY <1>1, <1>4
  <2>2. Shifted(b, count) = [b EXCEPT !.index = 0]
    BY <1>4, <2>1, Zenon DEF Shifted
  <2>3. Shifted(b, count) = Roomier(0, b.size)
    BY <1>1, <2>2, Reindexed, Zenon
  <2>4. WindowAt(Roomier(0, b.size), at)
    BY <1>1, RoomierAt
  <2>5. QED
    BY <1>2, <2>3, <2>4, Zenon
<1>5. CASE ~(count > b.size) /\ ~(count <= b.size /\ b.index + count >= b.size)
  <2>1. Shifted(b, count) = b
    BY <1>5 DEF Shifted
  <2>2. QED
    BY <2>1
<1>6. QED
  BY <1>3, <1>4, <1>5

LEMMA PieceOfStream ==
  ASSUME SourceOK, NEW f \in Nat, NEW n \in Nat, n > 0 => f + n <= Len(source.cells)
  PROVE  LET new == SubSeq(source.cells, f + 1, f + n) IN
         /\ new \in Seq(Cells) /\ Len(new) = n
         /\ \A i \in 1 .. n : new[i] = source.cells[f + i]
<1>1. source.cells \in Seq(Cells) /\ Len(source.cells) \in Nat
  BY DEF SourceOK
<1>2. \A i \in f + 1 .. f + n : i \in 1 .. Len(source.cells)
  BY <1>1
<1>3. \A i \in f + 1 .. f + n : source.cells[i] \in Cells
  BY <1>1, <1>2, ElementOfSeq
<1>4. f + 1 \in Int /\ f + n \in Int
  OBVIOUS
<1>5. PICK new : new = SubSeq(source.cells, f + 1, f + n)
  OBVIOUS
<1>6. PICK m \in Int : m = f + 1
  BY <1>4
<1>7. PICK k \in Int : k = f + n
  BY <1>4
<1>8. new = SubSeq(source.cells, m, k)
  BY <1>5, <1>6, <1>7, Zenon
<1>9. /\ new \in Seq(Cells)
      /\ Len(new) = IF m <= k THEN k - m + 1 ELSE 0
      /\ \A i \in 1 .. k - m + 1 : new[i] = source.cells[m + i - 1]
  <2>1. \A i \in m .. k : source.cells[i] \in Cells
    BY <1>3, <1>6, <1>7, Zenon
  <2>2. /\ SubSeq(source.cells, m, k) \in Seq(Cells)
        /\ Len(SubSeq(source.cells, m, k)) = IF m <= k THEN k - m + 1 ELSE 0
        /\ \A i \in 1 .. k - m + 1 : SubSeq(source.cells, m, k)[i] = source.cells[m + i - 1]
    BY <2>1, SubSeqProperties
  <2>3. QED
    BY <1>8, <2>2, Zenon
<1>10. Len(new) = n /\ \A i \in 1 .. n : new[i] = source.cells[f + i]
  <2>1. k - m + 1 = n /\ (m <= k <=> n > 0)
    BY <1>6, <1>7
  <2>2. Len(new) = n
    BY <1>9, <2>1
  <2>3. ASSUME NEW i \in 1 .. n PROVE new[i] = source.cells[f + i]
    <3>1. i \in 1 .. k - m + 1 /\ m + i - 1 = f + i
      BY <1>6, <2>1
    <3>2. QED
      BY <1>9, <3>1, Zenon
  <2>4. QED
    BY <2>2, <2>3
<1>11. QED
  BY <1>5, <1>9, <1>10, Zenon

LEMMA TookAt ==
  ASSUME SourceOK, NEW b, NEW at, WindowAt(b, at), NEW n \in Nat,
         n <= CanRead(b), n <= Left(b)
  PROVE  WindowAt(Took(b, n), at) /\ Took(b, n).position = b.position
<1>1. /\ b \in Buffers /\ b.window \in Seq(Cells) /\ Len(b.window) \in Nat
      /\ b.index \in Nat /\ b.size \in Nat /\ b.position \in Nat
      /\ b.fetched \in Nat /\ b.remaining \in Nat /\ at \in Nat
      /\ Len(source.cells) \in Nat /\ source.length \in Nat
  BY Typed DEF SourceOK
<1>2. /\ n <= b.size - b.index - Len(b.window)
      /\ source.fixed => n <= b.remaining
      /\ n > 0 => b.fetched + n <= Len(source.cells)
  <2>1. Left(b) = IF b.fetched < Len(source.cells) THEN Len(source.cells) - b.fetched ELSE 0
    BY DEF Left
  <2>2. PICK space : space = b.size - b.index - Len(b.window) /\ space \in Int
    BY <1>1
  <2>3. CanRead(b) = IF source.fixed THEN IF space < b.remaining THEN space ELSE b.remaining
                     ELSE space
    BY <2>2 DEF CanRead, Least
  <2>4. n <= space /\ (source.fixed => n <= b.remaining)
    BY <1>1, <2>2, <2>3
  <2>5. QED
    BY <1>1, <2>1, <2>2, <2>4
<1>3. PICK new : new = SubSeq(source.cells, b.fetched + 1, b.fetched + n)
  OBVIOUS
<1>4. /\ new \in Seq(Cells) /\ Len(new) = n
      /\ \A i \in 1 .. n : new[i] = source.cells[b.fetched + i]
  <2>1. PICK f \in Nat : f = b.fetched /\ (n > 0 => f + n <= Len(source.cells))
    BY <1>1, <1>2
  <2>2. LET piece == SubSeq(source.cells, f + 1, f + n) IN
        /\ piece \in Seq(Cells) /\ Len(piece) = n
        /\ \A i \in 1 .. n : piece[i] = source.cells[f + i]
    BY <2>1, PieceOfStream
  <2>3. QED
    BY <1>3, <2>1, <2>2, Zenon
<1>5. PICK r : r = IF source.fixed THEN b.remaining - n ELSE b.remaining
  OBVIOUS
<1>6. r \in Nat /\ b.fetched + n \in Nat
  <2>1. b.remaining \in Nat /\ (source.fixed => n <= b.remaining)
    BY <1>1, <1>2
  <2>2. r \in Nat
    BY <1>5, <2>1
  <2>3. b.fetched + n \in Nat
    BY <1>1
  <2>4. QED
    BY <2>2, <2>3
<1>7. PICK w : w = b.window \o new
  OBVIOUS
<1>8. Took(b, n) = Built(w, b.index, b.size, b.position, b.fetched + n, r)
  <2>1. PICK c1 : c1 = [b EXCEPT !.window = w]
    OBVIOUS
  <2>2. PICK c2 : c2 = [c1 EXCEPT !.fetched = b.fetched + n]
    OBVIOUS
  <2>3. PICK c3 : c3 = [c2 EXCEPT !.remaining = r]
    OBVIOUS
  <2>4. c3 = Built(w, b.index, b.size, b.position, b.fetched + n, r)
    BY <1>1, <2>1, <2>2, <2>3 DEF Buffers, Built
  <2>5. Took(b, n) = c3
    BY <1>3, <1>5, <1>7, <2>1, <2>2, <2>3, Zenon DEF Took
  <2>6. QED
    BY <2>4, <2>5, Zenon
<1>9. /\ w \in Seq(Cells) /\ Len(w) = Len(b.window) + n
      /\ \A i \in 1 .. Len(b.window) + n :
           w[i] = IF i <= Len(b.window) THEN b.window[i] ELSE new[i - Len(b.window)]
  <2>1. b.window \in Seq(Cells) /\ new \in Seq(Cells) /\ Len(new) = n
    BY <1>1, <1>4
  <2>2. QED
    BY <1>7, <2>1, ConcatProperties
<1>10. at + Len(b.window) = b.fetched
  BY DEF WindowAt
<1>11. ASSUME NEW i \in 1 .. Len(w) PROVE w[i] = source.cells[at + i]
  <2>1. CASE i <= Len(b.window)
    <3>1. w[i] = b.window[i] /\ i \in 1 .. Len(b.window)
      BY <1>1, <1>9, <2>1
    <3>2. QED
      BY <3>1 DEF WindowAt
  <2>2. CASE ~(i <= Len(b.window))
    <3>1. PICK j : j = i - Len(b.window)
      OBVIOUS
    <3>2. j \in 1 .. n /\ at + i = b.fetched + j
      BY <1>1, <1>9, <1>10, <2>2, <3>1
    <3>3. w[i] = new[j]
      BY <1>9, <2>2, <3>1
    <3>4. QED
      BY <1>4, <3>2, <3>3
  <2>3. QED
    BY <2>1, <2>2
<1>12. Len(w) > 0 => b.fetched + n <= Len(source.cells)
  <2>1. CASE n > 0
    BY <1>2, <2>1
  <2>2. CASE ~(n > 0)
    <3>1. Len(w) = Len(b.window) /\ b.fetched + n = b.fetched
      BY <1>1, <1>9, <2>2
    <3>2. QED
      BY <3>1 DEF WindowAt
  <2>3. QED
    BY <2>1, <2>2
<1>13. source.fixed => b.fetched + n <= source.length /\ r = source.length - (b.fetched + n)
  <2>1. source.fixed => b.fetched <= source.length /\ b.remaining = source.length - b.fetched
    BY DEF WindowAt
  <2>2. CASE source.fixed
    <3>1. b.remaining = source.length - b.fetched /\ n <= b.remaining /\ r = b.remaining - n
      BY <1>2, <1>5, <2>1, <2>2
    <3>2. QED
      BY <1>1, <3>1
  <2>3. QED
    BY <2>2
<1>14. b.index + Len(w) <= b.size /\ at + Len(w) = b.fetched + n
  <2>1. PICK m \in Nat : m = Len(b.window)
    BY <1>1
  <2>2. Len(w) = m + n /\ n <= b.size - b.index - m /\ at + m = b.fetched
    BY <1>2, <1>9, <1>10, <2>1
  <2>3. b.index \in Nat /\ b.size \in Nat /\ at \in Nat
    BY <1>1
  <2>4. b.index + (m + n) <= b.size
    BY <2>2, <2>3
  <2>5. at + (m + n) = b.fetched + n
    BY <2>2, <2>3
  <2>6. QED
    BY <2>2, <2>4, <2>5, Zenon
<1>15. WindowAt(Built(w, b.index, b.size, b.position, b.fetched + n, r), at)
  <2>1. /\ b.index \in Nat /\ b.size \in Nat /\ b.position \in Nat /\ at \in Nat
        /\ w \in Seq(Cells)
    BY <1>1, <1>9
  <2>2. PICK c : c = Built(w, b.index, b.size, b.position, b.fetched + n, r)
    OBVIOUS
  <2>3. /\ c.window = w /\ c.index = b.index /\ c.size = b.size
        /\ c.fetched = b.fetched + n /\ c.remaining = r /\ c \in Buffers
    BY <1>6, <2>1, <2>2 DEF Built, Buffers
  <2>4. WindowAt(c, at)
    BY <1>11, <1>12, <1>13, <1>14, <2>1, <2>3 DEF WindowAt
  <2>5. QED
    BY <2>2, <2>4
<1>16. QED
  BY <1>8, <1>15 DEF Built

\* Ensure leaves the position alone and only adds to the window.
LEMMA EnsuredAt ==
  ASSUME SourceOK, NEW b, NEW at, WindowAt(b, at),
         NEW count \in Nat, Len(b.window) <= count, NEW e \in Ensured(b, count)
  PROVE  WindowAt(e, at) /\ e.position = b.position
<1> DEFINE s == Shifted(b, count)
           most == Least(CanRead(s), Left(s))
           low == Least(count - Len(b.window), most)
<1>1. WindowAt(s, at) /\ s.position = b.position /\ s.window = b.window
  BY ShiftedAt
<1>2. PICK n \in low .. most : e = Took(s, n)
  BY DEF Ensured
<1> HIDE DEF s
<1>3. CanRead(s) \in Nat
  <2>1. /\ s.index \in Nat /\ s.size \in Nat /\ Len(s.window) \in Nat
        /\ s.remaining \in Nat /\ s.index + Len(s.window) <= s.size
    BY <1>1 DEF WindowAt, Buffers
  <2>2. s.size - s.index - Len(s.window) \in Nat
    BY <2>1
  <2>3. QED
    BY <2>1, <2>2 DEF CanRead, Least
<1>4. Left(s) \in Nat
  <2>1. s.fetched \in Nat /\ Len(source.cells) \in Nat
    BY <1>1 DEF WindowAt, Buffers, SourceOK
  <2>2. QED
    BY <2>1 DEF Left
<1>5. Len(b.window) \in Nat
  BY DEF WindowAt, Buffers
<1>6. most \in Nat /\ most <= CanRead(s) /\ most <= Left(s) /\ low \in Nat
  BY <1>3, <1>4, <1>5 DEF Least
<1> HIDE DEF most, low
<1>7. n \in Nat /\ n <= CanRead(s) /\ n <= Left(s)
  BY <1>3, <1>4, <1>6
<1>8. QED
  BY <1>1, <1>2, <1>7, TookAt

LEMMA WithAt ==
  ASSUME SourceOK, NEW at, WindowAt(io, at), NEW count \in Nat, NEW b \in With(count)
  PROVE  WindowAt(b, at) /\ b.position = io.position
<1>1. CASE Len(io.window) < count
  <2>1. Len(io.window) <= count
    BY <1>1 DEF WindowAt, Buffers
  <2>2. b \in Ensured(io, count)
    BY <1>1 DEF With
  <2>3. QED
    BY <2>1, <2>2, EnsuredAt
<1>2. CASE ~(Len(io.window) < count)
  BY <1>2 DEF With
<1>3. QED
  BY <1>1, <1>2

LEMMA RestOfWindow ==
  ASSUME NEW w \in Seq(Cells), NEW n \in Nat, n <= Len(w)
  PROVE  LET rest == SubSeq(w, n + 1, Len(w)) IN
         /\ rest \in Seq(Cells) /\ Len(rest) = Len(w) - n
         /\ \A i \in 1 .. Len(w) - n : rest[i] = w[n + i]
<1>1. PICK m \in Int : m = n + 1
  OBVIOUS
<1>2. PICK k \in Nat : k = Len(w)
  OBVIOUS
<1>3. \A i \in m .. k : w[i] \in Cells
  <2>1. \A i \in m .. k : i \in 1 .. Len(w)
    BY <1>1, <1>2
  <2>2. QED
    BY <2>1, ElementOfSeq
<1>4. /\ SubSeq(w, m, k) \in Seq(Cells)
      /\ Len(SubSeq(w, m, k)) = IF m <= k THEN k - m + 1 ELSE 0
      /\ \A i \in 1 .. k - m + 1 : SubSeq(w, m, k)[i] = w[m + i - 1]
  BY <1>3, SubSeqProperties
<1>5. k - m + 1 = k - n /\ (~(m <= k) => k - n = 0)
  BY <1>1, <1>2
<1>6. \A i \in 1 .. k - n : SubSeq(w, m, k)[i] = w[n + i]
  <2>1. \A i \in 1 .. k - n : i \in 1 .. k - m + 1 /\ m + i - 1 = n + i
    BY <1>1, <1>5
  <2>2. QED
    BY <1>4, <2>1
<1>7. Len(SubSeq(w, m, k)) = k - n
  BY <1>4, <1>5
<1>8. QED
  BY <1>1, <1>2, <1>4, <1>6, <1>7

\* Without the first n cells, whatever the position is said to be.
LEMMA DroppedAt ==
  ASSUME NEW b, NEW at, WindowAt(b, at), NEW n \in Nat, n <= Len(b.window), NEW p \in Nat
  PROVE  LET rest == SubSeq(b.window, n + 1, Len(b.window)) IN
         WindowAt(Built(rest, b.index + n, b.size, p, b.fetched, b.remaining), at + n)
<1>1. /\ b.window \in Seq(Cells) /\ Len(b.window) \in Nat
      /\ b.index \in Nat /\ b.size \in Nat
      /\ b.fetched \in Nat /\ b.remaining \in Nat /\ at \in Nat
  BY Typed
<1>2. PICK rest : rest = SubSeq(b.window, n + 1, Len(b.window))
  OBVIOUS
<1>3. /\ rest \in Seq(Cells) /\ Len(rest) = Len(b.window) - n
      /\ \A i \in 1 .. Len(b.window) - n : rest[i] = b.window[n + i]
  BY <1>1, <1>2, RestOfWindow
<1>4. PICK c : c = Built(rest, b.index + n, b.size, p, b.fetched, b.remaining)
  OBVIOUS
<1>5. /\ c.window = rest /\ c.index = b.index + n /\ c.size = b.size
      /\ c.fetched = b.fetched /\ c.remaining = b.remaining /\ c \in Buffers
  BY <1>1, <1>3, <1>4 DEF Built, Buffers
<1>6. b.index + Len(b.window) <= b.size /\ at + Len(b.window) = b.fetched
  BY DEF WindowAt
<1>7. c.index + Len(rest) <= b.size /\ at + n + Len(rest) = b.fetched /\ at + n \in Nat
  <2>1. Len(rest) = Len(b.window) - n /\ c.index = b.index + n
    BY <1>3, <1>5
  <2>2. Len(rest) \in Nat /\ b.index + n + Len(rest) <= b.size
    BY <1>1, <1>6, <2>1
  <2>3. at + n + Len(rest) = b.fetched
    <3>1. PICK m \in Nat : m = Len(b.window)
      BY <1>1
    <3>2. Len(rest) = m - n /\ at + m = b.fetched
      BY <1>6, <2>1, <3>1
    <3>3. at + n + (m - n) = at + m
      BY <1>1
    <3>4. QED
      BY <3>2, <3>3
  <2>4. c.index + Len(rest) <= b.size
    BY <2>1, <2>2, Zenon
  <2>5. at + n \in Nat
    BY <1>1
  <2>6. QED
    BY <2>3, <2>4, <2>5, Zenon
<1>8. ASSUME NEW i \in 1 .. Len(rest) PROVE rest[i] = source.cells[at + n + i]
  <2>1. /\ i \in 1 .. Len(b.window) - n /\ n + i \in 1 .. Len(b.window)
        /\ at + (n + i) = at + n + i
    BY <1>1, <1>3
  <2>2. b.window[n + i] = source.cells[at + (n + i)]
    BY <2>1 DEF WindowAt
  <2>3. QED
    BY <1>3, <2>1, <2>2
<1>9. Len(rest) > 0 => b.fetched <= Len(source.cells)
  <2>1. Len(rest) > 0 => Len(b.window) > 0
    BY <1>1, <1>3
  <2>2. QED
    BY <2>1 DEF WindowAt
<1>10. source.fixed => b.fetched <= source.length /\ b.remaining = source.length - b.fetched
  BY DEF WindowAt
<1>11. WindowAt(c, at + n)
  BY <1>5, <1>7, <1>8, <1>9, <1>10 DEF WindowAt
<1>12. QED
  BY <1>2, <1>4, <1>11

LEMMA ConsumedAt ==
  ASSUME NEW b, NEW at, WindowAt(b, at), NEW n \in Nat, n <= Len(b.window)
  PROVE  WindowAt(Consumed(b, n), at + n) /\ Consumed(b, n).position = b.position + n
<1>1. b \in Buffers /\ b.index \in Nat /\ b.position \in Nat
  BY Typed
<1>2. PICK rest : rest = SubSeq(b.window, n + 1, Len(b.window))
  OBVIOUS
<1>3. PICK c1 : c1 = [b EXCEPT !.window = rest]
  OBVIOUS
<1>4. PICK c2 : c2 = [c1 EXCEPT !.index = b.index + n]
  OBVIOUS
<1>5. PICK c3 : c3 = [c2 EXCEPT !.position = b.position + n]
  OBVIOUS
<1>6. c3 = Built(rest, b.index + n, b.size, b.position + n, b.fetched, b.remaining)
  BY <1>1, <1>3, <1>4, <1>5 DEF Buffers, Built
<1>7. Consumed(b, n) = c3
  BY <1>2, <1>3, <1>4, <1>5, Zenon DEF Consumed
<1>8. b.position + n \in Nat
  BY <1>1
<1>9. WindowAt(c3, at + n)
  BY <1>2, <1>6, <1>8, DroppedAt
<1>10. c3.position = b.position + n
  BY <1>6 DEF Built
<1>11. QED
  BY <1>7, <1>9, <1>10

\* Nothing in the window: the stream has been read, or sought, up to this place.
LEMMA EmptyAt ==
  ASSUME NEW z \in Nat, NEW p \in Nat, NEW f \in Nat, NEW r \in Nat,
         source.fixed => f <= source.length /\ r = source.length - f
  PROVE  WindowAt(Built(<<>>, 0, z, p, f, r), f)
<1>1. PICK c : c = Built(<<>>, 0, z, p, f, r)
  OBVIOUS
<1>2. <<>> \in Seq(Cells) /\ Len(<<>>) = 0
  BY EmptySeq
<1>3. /\ c.window = <<>> /\ c.index = 0 /\ c.size = z /\ c.fetched = f
      /\ c.remaining = r /\ c \in Buffers
  BY <1>1, <1>2 DEF Built, Buffers
<1>4. Len(c.window) = 0 /\ f + Len(c.window) = f /\ 0 + Len(c.window) <= z
  BY <1>2, <1>3
<1>5. WindowAt(c, f)
  BY <1>3, <1>4 DEF WindowAt
<1>6. QED
  BY <1>1, <1>5

LEMMA SoughtAt ==
  ASSUME NEW b, NEW at, WindowAt(b, at), NEW len \in Nat, len > Len(b.window),
         source.fixed => len - Len(b.window) <= b.remaining, source.length \in Nat
  PROVE  WindowAt(Sought(b, len), at + len) /\ Sought(b, len).position = b.position + len
<1>1. /\ b \in Buffers /\ b.size \in Nat /\ b.position \in Nat /\ b.fetched \in Nat
      /\ b.remaining \in Nat /\ at \in Nat /\ Len(b.window) \in Nat
  BY Typed
<1>2. PICK rest : rest = len - Len(b.window)
  OBVIOUS
<1>3. rest \in Nat /\ b.fetched + rest = at + len
  <2>1. at + Len(b.window) = b.fetched
    BY DEF WindowAt
  <2>2. QED
    BY <1>1, <1>2, <2>1
<1>4. PICK r : r = IF source.fixed THEN b.remaining - rest ELSE b.remaining
  OBVIOUS
<1>5. r \in Nat /\ b.fetched + rest \in Nat /\ b.position + len \in Nat
  <2>1. source.fixed => rest <= b.remaining
    BY <1>2
  <2>2. r \in Nat
    BY <1>1, <1>3, <1>4, <2>1
  <2>3. QED
    BY <1>1, <1>3, <2>2
<1>6. source.fixed => b.fetched + rest <= source.length
                      /\ r = source.length - (b.fetched + rest)
  <2>1. source.fixed => /\ b.remaining = source.length - b.fetched
                        /\ rest <= b.remaining /\ r = b.remaining - rest
    BY <1>2, <1>4 DEF WindowAt
  <2>2. QED
    BY <1>1, <1>3, <2>1
<1>7. PICK c : c = Built(<<>>, 0, b.size, b.position + len, b.fetched + rest, r)
  OBVIOUS
<1>8. WindowAt(c, b.fetched + rest) /\ c.position = b.position + len
  <2>1. WindowAt(c, b.fetched + rest)
    BY <1>1, <1>5, <1>6, <1>7, EmptyAt
  <2>2. QED
    BY <1>7, <2>1 DEF Built
<1>8a. PICK empty : empty = <<>>
  OBVIOUS
<1>9. PICK c1 : c1 = [b EXCEPT !.window = empty]
  OBVIOUS
<1>10. PICK c2 : c2 = [c1 EXCEPT !.index = 0]
  OBVIOUS
<1>11. PICK c3 : c3 = [c2 EXCEPT !.position = b.position + len]
  OBVIOUS
<1>12. PICK c4 : c4 = [c3 EXCEPT !.fetched = b.fetched + rest]
  OBVIOUS
<1>13. PICK c5 : c5 = [c4 EXCEPT !.remaining = r]
  OBVIOUS
<1>14. c5 = c
  <2>1. c5 = Built(empty, 0, b.size, b.position + len, b.fetched + rest, r)
    BY <1>1, <1>9, <1>10, <1>11, <1>12, <1>13 DEF Buffers, Built
  <2>2. QED
    BY <1>7, <1>8a, <2>1, Zenon
<1>15. Sought(b, len) = c5
  BY <1>2, <1>4, <1>8a, <1>9, <1>10, <1>11, <1>12, <1>13, Zenon DEF Sought
<1>16. QED
  BY <1>3, <1>8, <1>14, <1>15

LEMMA DrainedAt ==
  ASSUME NEW at, WindowAt(io, at)
  PROVE  WindowAt(Drained, at + Len(io.window)) /\ Drained.position = io.position
         /\ Len(Drained.window) = 0
<1>1. /\ io \in Buffers /\ io.size \in Nat /\ io.position \in Nat /\ io.fetched \in Nat
      /\ io.remaining \in Nat /\ at \in Nat
  BY Typed
<1>2. at + Len(io.window) = io.fetched
  BY DEF WindowAt
<1>3. source.fixed => io.fetched <= source.length /\ io.remaining = source.length - io.fetched
  BY DEF WindowAt
<1>4. CASE io.window = <<>>
  <2>1. Drained = io /\ Len(io.window) = 0
    BY <1>4 DEF Drained
  <2>2. at + Len(io.window) = at
    BY <1>1, <2>1
  <2>3. QED
    BY <2>1, <2>2
<1>5. CASE io.window # <<>>
  <2>1. Drained = [io EXCEPT !.window = <<>>, !.index = 0]
    BY <1>5, Zenon DEF Drained
  <2>2. PICK c : c = Built(<<>>, 0, io.size, io.position, io.fetched, io.remaining)
    OBVIOUS
  <2>3. Drained = c
    <3>0. PICK empty : empty = <<>>
      OBVIOUS
    <3>1. PICK c1 : c1 = [io EXCEPT !.window = empty]
      OBVIOUS
    <3>2. PICK c2 : c2 = [c1 EXCEPT !.index = 0]
      OBVIOUS
    <3>3. c2 = c
      <4>1. c2 = Built(empty, 0, io.size, io.position, io.fetched, io.remaining)
        BY <1>1, <3>1, <3>2 DEF Buffers, Built
      <4>2. QED
        BY <2>2, <3>0, <4>1, Zenon
    <3>4. Drained = c2
      BY <2>1, <3>0, <3>1, <3>2, Zenon
    <3>5. QED
      BY <3>3, <3>4
  <2>4. WindowAt(c, io.fetched)
    BY <1>1, <1>3, <2>2, EmptyAt
  <2>5. c.position = io.position /\ Len(c.window) = 0
    BY <2>2 DEF Built
  <2>6. QED
    BY <1>2, <2>3, <2>4, <2>5
<1>6. QED
  BY <1>4, <1>5

-----------------------------------------------------------------------------
(* The invariant.                                                          *)

Blob == [left : Nat, cells : Seq(Cells), how : Modes, from : Int]

\* Only in AppendBytes is the position ahead of the window.
ReaderInv ==
  /\ SourceOK
  /\ blob \in Blob
  /\ pc # "bytes" => blob.left = 0
  /\ WindowAt(io, io.position - blob.left)

LEMMA WhereItIs ==
  ASSUME ReaderInv, pc # "bytes"
  PROVE  SourceOK /\ blob.left = 0 /\ io.position \in Nat /\ WindowAt(io, io.position)
<1>1. io.position \in Nat /\ blob.left = 0
  BY Typed DEF ReaderInv
<1>2. io.position - blob.left = io.position
  BY <1>1
<1>3. QED
  BY <1>1, <1>2 DEF ReaderInv

LEMMA Failing ==
  ASSUME ReaderInv, Fail
  PROVE  ReaderInv'
BY DEF ReaderInv, Fail, SourceOK, WindowAt

LEMMA Staying ==
  ASSUME ReaderInv, UNCHANGED <<source, io, blob>>, pc # "bytes", pc' # "bytes"
  PROVE  ReaderInv'
BY DEF ReaderInv, SourceOK, WindowAt

\* The buffer has come to where the position is.
LEMMA Proceeding ==
  ASSUME ReaderInv, pc # "bytes", NEW b, NEW next, Proceed(b, next), next # "bytes",
         UNCHANGED blob, WindowAt(b, b.position)
  PROVE  ReaderInv'
<1>1. io' = b /\ pc' = next /\ source' = source /\ blob' = blob
  BY DEF Proceed
<1>2. blob \in Blob /\ blob.left = 0 /\ b.position \in Nat
  BY Typed DEF ReaderInv
<1>3. b.position - blob.left = b.position
  BY <1>2
<1>4. WindowAt(b, b.position)'
  BY <1>1 DEF WindowAt
<1>5. WindowAt(io, io.position - blob.left)'
  BY <1>1, <1>3, <1>4
<1>6. SourceOK'
  BY <1>1 DEF ReaderInv, SourceOK
<1>7. QED
  BY <1>1, <1>2, <1>5, <1>6 DEF ReaderInv

\* ... after the buffer was filled up to count cells, and n of them consumed.
LEMMA Filling ==
  ASSUME ReaderInv, pc # "bytes", NEW count \in Nat, NEW b \in With(count)
  PROVE  /\ WindowAt(b, b.position) /\ b.position = io.position
         /\ \A n \in Nat : n <= Len(b.window) =>
              /\ WindowAt(Consumed(b, n), Consumed(b, n).position)
              /\ Consumed(b, n).position = io.position + n
<1>1. SourceOK /\ WindowAt(io, io.position)
  BY WhereItIs
<1>2. WindowAt(b, io.position) /\ b.position = io.position
  BY <1>1, WithAt
<1>3. ASSUME NEW n \in Nat, n <= Len(b.window)
      PROVE  /\ WindowAt(Consumed(b, n), Consumed(b, n).position)
             /\ Consumed(b, n).position = io.position + n
  BY <1>2, <1>3, ConsumedAt
<1>4. QED
  BY <1>2, <1>3

LEMMA LengthFacts ==
  ASSUME NEW w \in Seq(Cells)
  PROVE  /\ \A k \in VarintEnds(w) : k \in Nat /\ k <= Len(w)
         /\ \A l \in Lengths(w) : /\ l.value \in Nat
                                  /\ l.cells \in Nat /\ l.cells <= Len(w)
<1>1. \A k \in VarintEnds(w) : k \in Nat /\ k <= Len(w)
  BY DEF VarintEnds
<1>2. \A l \in Lengths(w) : l.value \in 0 .. MaxCells /\ l.cells \in VarintEnds(w)
  BY DEF Lengths
<1>3. \A n \in 0 .. MaxCells : n \in Nat
  BY WireAssumption
<1>4. QED
  BY <1>1, <1>2, <1>3

LEMMA Space == Lookahead \in Nat /\ FixedLength \in Nat
BY WireAssumption, ReaderAssumption

-----------------------------------------------------------------------------
(* Field headers.                                                          *)

LEMMA ReadFieldHeaderInv ==
  ASSUME ReaderInv, ReadFieldHeader
  PROVE  ReaderInv'
<1>1. pc = "header" /\ pc # "bytes" /\ UNCHANGED blob
  BY DEF ReadFieldHeader, Reading
<1>2. CASE AtEnd
  BY <1>1, <1>2, WhereItIs, Proceeding DEF ReadFieldHeader
<1>3. CASE ~AtEnd
  <2>1. PICK b \in With(Lookahead) :
          IF b.window = <<>>
          THEN Proceed(b, "end")
          ELSE IF b.window[1][1] = "header"
               THEN Proceed(Consumed(b, 1), IF b.window[1][3] = "EndGroup" THEN "end"
                                            ELSE "value")
               ELSE Fail
    BY <1>3 DEF ReadFieldHeader
  <2>2. WindowAt(b, b.position)
    BY <1>1, Space, Filling
  <2>3. CASE b.window = <<>>
    BY <1>1, <2>1, <2>2, <2>3, Proceeding
  <2>4. CASE b.window # <<>> /\ b.window[1][1] = "header"
    <3>1. b.window \in Seq(Cells) /\ 1 \in Nat /\ 1 <= Len(b.window)
      <4>1. b.window \in Seq(Cells) /\ Len(b.window) \in Nat \ {0}
        BY <2>2, <2>4, Typed, EmptySeq
      <4>2. QED
        BY <4>1
    <3>2. WindowAt(Consumed(b, 1), Consumed(b, 1).position)
      BY <1>1, <3>1, Space, Filling
    <3>3. QED
      BY <1>1, <2>1, <2>4, <3>2, Proceeding
  <2>5. CASE b.window # <<>> /\ b.window[1][1] # "header"
    BY <2>1, <2>5, Failing
  <2>6. QED
    BY <2>3, <2>4, <2>5
<1>4. QED
  BY <1>2, <1>3

LEMMA TryReadFieldHeaderInv ==
  ASSUME ReaderInv, NEW f \in Fields, TryReadFieldHeader(f)
  PROVE  ReaderInv'
<1>1. pc = "header" /\ pc # "bytes" /\ UNCHANGED blob
  BY DEF TryReadFieldHeader, Reading
<1>2. PICK b \in With(Lookahead) :
        IF b.window # <<>> /\ b.window[1] \in {Header(f, w) : w \in HeaderTypes \ {"EndGroup"}}
        THEN Proceed(Consumed(b, 1), "value")
        ELSE Proceed(b, pc)
  BY DEF TryReadFieldHeader
<1>3. WindowAt(b, b.position)
  BY <1>1, Space, Filling
<1>4. CASE Proceed(b, pc)
  BY <1>1, <1>3, <1>4, Proceeding
<1>5. CASE b.window # <<>> /\ Proceed(Consumed(b, 1), "value")
  <2>1. b.window \in Seq(Cells) /\ Len(b.window) \in Nat \ {0}
    BY <1>3, <1>5, Typed, EmptySeq
  <2>2. 1 \in Nat /\ 1 <= Len(b.window)
    BY <2>1
  <2>3. WindowAt(Consumed(b, 1), Consumed(b, 1).position)
    BY <1>1, <2>2, Space, Filling
  <2>4. QED
    BY <1>1, <1>5, <2>3, Proceeding
<1>6. QED
  BY <1>2, <1>4, <1>5

LEMMA HasSubValueInv ==
  ASSUME ReaderInv, HasSubValue
  PROVE  ReaderInv'
<1>1. pc = "header" /\ pc' \in {"end", "value"} /\ UNCHANGED <<source, io, blob>>
  BY DEF HasSubValue, Reading, Proceed
<1>2. QED
  BY <1>1, Staying

-----------------------------------------------------------------------------
(* Values.                                                                 *)

LEMMA ReadScalarInv ==
  ASSUME ReaderInv, NEW how, ReadScalar(how)
  PROVE  ReaderInv'
<1>1. pc = "value" /\ pc # "bytes" /\ UNCHANGED blob
  BY DEF ReadScalar, Reading
<1> DEFINE Ends(b) == VarintEnds(b.window) \union ({FixedLength} \intersect DOMAIN b.window)
<1>2. PICK count \in {Lookahead, FixedLength} : \E b \in With(count) :
        \/ Fail
        \/ \E n \in Ends(b) : Proceed(Consumed(b, n), "header")
  BY DEF ReadScalar
<1>3. CASE Fail
  BY <1>3, Failing
<1>4. ASSUME NEW b \in With(count), NEW n \in Ends(b), Proceed(Consumed(b, n), "header")
      PROVE  ReaderInv'
  <2>1. count \in Nat
    BY Space
  <2>2. b.window \in Seq(Cells)
    BY <1>1, <2>1, Filling, Typed
  <2>3. n \in Nat /\ n <= Len(b.window)
    BY <1>4, <2>2, LengthFacts, Space
  <2>4. WindowAt(Consumed(b, n), Consumed(b, n).position)
    BY <1>1, <2>1, <2>3, Filling
  <2>5. QED
    BY <1>1, <1>4, <2>4, Proceeding
<1>5. QED
  BY <1>2, <1>3, <1>4

\* A String field's length has been read: what follows it is in p.
LEMMA AfterLength ==
  ASSUME ReaderInv, pc # "bytes", NEW b \in With(Lookahead), NEW l \in Lengths(b.window)
  PROVE  LET p == Consumed(b, l.cells) IN
         /\ WindowAt(p, p.position) /\ p.position = io.position + l.cells
         /\ l.value \in Nat /\ l.cells \in Nat
<1>1. WindowAt(b, b.position)
  BY Space, Filling
<1>2. b.window \in Seq(Cells)
  BY <1>1, Typed
<1>3. l.value \in Nat /\ l.cells \in Nat /\ l.cells <= Len(b.window)
  BY <1>2, LengthFacts
<1>4. QED
  BY <1>3, Space, Filling

LEMMA ReadStringInv ==
  ASSUME ReaderInv, ReadString
  PROVE  ReaderInv'
<1>1. pc = "value" /\ pc # "bytes" /\ UNCHANGED blob
  BY DEF ReadString, Reading
<1>2. PICK b \in With(Lookahead) :
        \/ Fail
        \/ \E l \in Lengths(b.window) :
             LET p == Consumed(b, l.cells) IN
             \E e \in IF Len(p.window) < l.value THEN Ensured(p, l.value) ELSE {p} :
               IF Len(e.window) < l.value THEN Fail
               ELSE Proceed(Consumed(e, l.value), "header")
  BY DEF ReadString
<1>3. CASE Fail
  BY <1>3, Failing
<1>4. ASSUME NEW l \in Lengths(b.window), NEW p, p = Consumed(b, l.cells),
             NEW e \in IF Len(p.window) < l.value THEN Ensured(p, l.value) ELSE {p},
             ~(Len(e.window) < l.value), Proceed(Consumed(e, l.value), "header")
      PROVE  ReaderInv'
  <2>1. WindowAt(p, p.position) /\ l.value \in Nat
    BY <1>1, <1>4, AfterLength
  <2>2. WindowAt(e, p.position) /\ e.position = p.position
    <3>1. CASE Len(p.window) < l.value
      <4>1. Len(p.window) \in Nat /\ SourceOK
        BY <2>1, Typed DEF ReaderInv
      <4>2. Len(p.window) <= l.value
        BY <2>1, <3>1, <4>1
      <4>3. e \in Ensured(p, l.value)
        BY <1>4, <3>1
      <4>4. QED
        BY <2>1, <4>1, <4>2, <4>3, EnsuredAt
    <3>2. CASE ~(Len(p.window) < l.value)
      BY <1>4, <2>1, <3>2
    <3>3. QED
      BY <3>1, <3>2
  <2>3. l.value <= Len(e.window)
    <3>1. Len(e.window) \in Nat
      BY <2>2, Typed
    <3>2. QED
      BY <1>4, <2>1, <3>1
  <2>4. /\ WindowAt(Consumed(e, l.value), e.position + l.value)
        /\ Consumed(e, l.value).position = e.position + l.value
    BY <2>1, <2>2, <2>3, ConsumedAt
  <2>5. QED
    BY <1>1, <1>4, <2>4, Proceeding
<1>5. QED
  BY <1>2, <1>3, <1>4

LEMMA AppendBytesInv ==
  ASSUME ReaderInv, NEW how, AppendBytes(how)
  PROVE  ReaderInv'
<1>1. pc = "value" /\ pc # "bytes" /\ how \in {"read", "copy"}
  BY DEF AppendBytes, Reading
<1>2. PICK b \in With(Lookahead) :
        \/ Fail /\ UNCHANGED blob
        \/ \E l \in Lengths(b.window) :
             /\ Proceed([Consumed(b, l.cells) EXCEPT !.position = @ + l.value], "bytes")
             /\ blob' = [left |-> l.value, cells |-> <<>>, how |-> how,
                         from |-> io.position - 1]
  BY DEF AppendBytes, Fail
<1>3. CASE Fail
  BY <1>3, Failing
<1>4. ASSUME NEW l \in Lengths(b.window), NEW p, p = Consumed(b, l.cells),
             Proceed([p EXCEPT !.position = @ + l.value], "bytes"),
             blob' = [left |-> l.value, cells |-> <<>>, how |-> how,
                      from |-> io.position - 1]
      PROVE  ReaderInv'
  <2>1. WindowAt(p, p.position) /\ l.value \in Nat
    BY <1>1, <1>4, AfterLength
  <2>2. p \in Buffers /\ p.position \in Nat /\ io.position \in Nat
    BY <1>1, <2>1, Typed, WhereItIs
  <2>3. /\ io' = [p EXCEPT !.position = p.position + l.value]
        /\ pc' = "bytes" /\ source' = source
    BY <1>4 DEF Proceed
  <2>4. /\ io' = Built(p.window, p.index, p.size, p.position + l.value, p.fetched, p.remaining)
    BY <2>2, <2>3, Repositioned
  <2>5. /\ io'.window = p.window /\ io'.index = p.index /\ io'.size = p.size
        /\ io'.fetched = p.fetched /\ io'.remaining = p.remaining
        /\ io'.position = p.position + l.value /\ io' \in Buffers
    BY <2>1, <2>2, <2>4 DEF Built, Buffers
  <2>6. blob' \in Blob /\ blob'.left = l.value
    <3>1. <<>> \in Seq(Cells) /\ how \in Modes /\ io.position - 1 \in Int
      BY <1>1, <2>2, EmptySeq DEF Modes
    <3>2. QED
      BY <1>4, <2>1, <3>1 DEF Blob
  <2>7. io'.position - blob'.left = p.position
    BY <2>1, <2>2, <2>5, <2>6
  <2>8. WindowAt(io', p.position)
    BY <2>1, <2>5 DEF WindowAt
  <2>9. (WindowAt(io, io.position - blob.left))'
    BY <2>3, <2>7, <2>8 DEF WindowAt
  <2>10. QED
    BY <2>3, <2>6, <2>9 DEF ReaderInv, SourceOK
<1>5. QED
  BY <1>2, <1>3, <1>4

\* What AppendBytes has left to do, and has so far.
LEMMA BlobChanged ==
  ASSUME blob \in Blob, NEW left \in Nat, NEW cells \in Seq(Cells)
  PROVE  LET c == [[blob EXCEPT !.cells = cells] EXCEPT !.left = left] IN
         c \in Blob /\ c.left = left
<1>1. PICK c1 : c1 = [blob EXCEPT !.cells = cells]
  OBVIOUS
<1>2. PICK c2 : c2 = [c1 EXCEPT !.left = left]
  OBVIOUS
<1>3. c2 \in Blob /\ c2.left = left
  BY <1>1, <1>2 DEF Blob
<1>4. QED
  BY <1>1, <1>2, <1>3, Zenon

LEMMA RefillBytesInv ==
  ASSUME ReaderInv, RefillBytes
  PROVE  ReaderInv'
<1>1. /\ pc = "bytes" /\ SourceOK /\ blob \in Blob /\ blob.left \in Nat
      /\ WindowAt(io, io.position - blob.left)
      /\ blob.left > Len(io.window)
  BY DEF RefillBytes, Reading, ReaderInv, Blob
<1>2. /\ io.window \in Seq(Cells) /\ Len(io.window) \in Nat /\ io.size \in Nat
      /\ io.position \in Nat
  BY <1>1, Typed
<1>3. PICK rest : rest = blob.left - Len(io.window)
  OBVIOUS
<1>4. PICK count : count = Least(rest, io.size)
  OBVIOUS
<1>5. rest \in Nat /\ count \in Nat
  BY <1>1, <1>2, <1>3, <1>4 DEF Least
<1>6. PICK b \in Ensured(Drained, count) :
        \/ Fail
        \/ /\ Proceed(b, pc)
           /\ blob' = [blob EXCEPT !.cells = @ \o io.window, !.left = rest]
  BY <1>3, <1>4 DEF RefillBytes
<1>7. CASE Fail
  BY <1>7, Failing
<1>8. CASE /\ Proceed(b, pc)
           /\ blob' = [blob EXCEPT !.cells = @ \o io.window, !.left = rest]
  <2>1. /\ WindowAt(Drained, io.position - blob.left + Len(io.window))
        /\ Drained.position = io.position /\ Len(Drained.window) = 0
    BY <1>1, DrainedAt
  <2>2. io.position - blob.left + Len(io.window) = io.position - rest
    BY <1>1, <1>2, <1>3
  <2>3. WindowAt(Drained, io.position - rest) /\ Len(Drained.window) <= count
    BY <1>5, <2>1, <2>2
  <2>4. WindowAt(b, io.position - rest) /\ b.position = io.position
    BY <1>1, <1>5, <2>1, <2>3, EnsuredAt
  <2>5. io' = b /\ pc' = "bytes" /\ source' = source
    BY <1>1, <1>8 DEF Proceed
  <2>6. blob' \in Blob /\ blob'.left = rest
    <3>1. PICK cells : cells = blob.cells \o io.window
      OBVIOUS
    <3>2. cells \in Seq(Cells)
      BY <1>1, <1>2, <3>1, ConcatProperties DEF Blob
    <3>3. blob' = [[blob EXCEPT !.cells = cells] EXCEPT !.left = rest]
      BY <1>8, <3>1, Zenon
    <3>4. QED
      BY <1>1, <1>5, <3>2, <3>3, BlobChanged
  <2>7. WindowAt(io', io'.position - blob'.left)
    BY <2>4, <2>5, <2>6
  <2>8. (WindowAt(io, io.position - blob.left))'
    BY <2>5, <2>7 DEF WindowAt
  <2>9. QED
    BY <1>1, <2>5, <2>6, <2>8 DEF ReaderInv, SourceOK
<1>9. QED
  BY <1>6, <1>7, <1>8

LEMMA EndBytesInv ==
  ASSUME ReaderInv, EndBytes
  PROVE  ReaderInv'
<1>1. /\ pc = "bytes" /\ SourceOK /\ blob \in Blob /\ blob.left \in Nat
      /\ WindowAt(io, io.position - blob.left)
      /\ blob.left <= Len(io.window)
  BY DEF EndBytes, Reading, ReaderInv, Blob
<1>2. io \in Buffers /\ io.position \in Nat /\ io.position - blob.left + blob.left = io.position
  BY <1>1, Typed
<1>3. PICK rest : rest = SubSeq(io.window, blob.left + 1, Len(io.window))
  OBVIOUS
<1>4. PICK b : b = Built(rest, io.index + blob.left, io.size, io.position,
                         io.fetched, io.remaining)
  OBVIOUS
<1>5. WindowAt(b, io.position - blob.left + blob.left)
  BY <1>1, <1>2, <1>3, <1>4, DroppedAt
<1>6. WindowAt(b, io.position) /\ b.position = io.position
  BY <1>2, <1>4, <1>5 DEF Built
<1>7. Proceed(b, "header")
  <2>1. PICK i : i = io.index + blob.left
    OBVIOUS
  <2>2. PICK c : c = [io EXCEPT !.window = rest, !.index = i]
    OBVIOUS
  <2>3. io \in Buffers
    BY <1>2
  <2>4. c = Built(rest, i, io.size, io.position, io.fetched, io.remaining)
    BY <2>2, <2>3, Replaced
  <2>5. c = b
    BY <1>4, <2>1, <2>4, Zenon
  <2>6. Proceed(c, "header")
    BY <1>3, <2>1, <2>2, Zenon DEF EndBytes
  <2>7. QED
    BY <2>5, <2>6
<1>8. blob' \in Blob /\ blob'.left = 0
  <2>1. PICK empty : empty = <<>>
    OBVIOUS
  <2>2. empty \in Seq(Cells) /\ 0 \in Nat
    BY <2>1, EmptySeq
  <2>3. PICK c1 : c1 = [blob EXCEPT !.left = 0]
    OBVIOUS
  <2>4. PICK c2 : c2 = [c1 EXCEPT !.cells = empty]
    OBVIOUS
  <2>5. c2 \in Blob /\ c2.left = 0
    BY <1>1, <2>2, <2>3, <2>4 DEF Blob
  <2>6. blob' = c2
    BY <2>1, <2>3, <2>4, Zenon DEF EndBytes
  <2>7. QED
    BY <2>5, <2>6
<1>9. io' = b /\ pc' = "header" /\ source' = source
  BY <1>7 DEF Proceed
<1>10. WindowAt(io', io'.position - blob'.left)
  <2>1. io.position - 0 = io.position
    BY <1>2
  <2>2. QED
    BY <1>6, <1>8, <1>9, <2>1
<1>11. (WindowAt(io, io.position - blob.left))'
  BY <1>9, <1>10 DEF WindowAt
<1>12. QED
  BY <1>1, <1>8, <1>9, <1>11 DEF ReaderInv, SourceOK

LEMMA SkipStringInv ==
  ASSUME ReaderInv, SkipString
  PROVE  ReaderInv'
<1>1. pc = "value" /\ pc # "bytes" /\ UNCHANGED blob
  BY DEF SkipString, Reading
<1>2. PICK b \in With(Lookahead) :
        \/ Fail
        \/ \E l \in Lengths(b.window) :
             LET p == Consumed(b, l.cells)
                 rest == l.value - Len(p.window)
             IN \/ rest <= 0 /\ Proceed(Consumed(p, l.value), "header")
                \/ /\ rest > 0 /\ ~(source.fixed /\ rest > p.remaining)
                   /\ Proceed(Sought(p, l.value), "header")
  BY DEF SkipString
<1>3. CASE Fail
  BY <1>3, Failing
<1>4. ASSUME NEW l \in Lengths(b.window), NEW p, p = Consumed(b, l.cells)
      PROVE  /\ WindowAt(p, p.position) /\ l.value \in Nat
             /\ Len(p.window) \in Nat /\ p.remaining \in Nat
  BY <1>1, <1>4, AfterLength, Typed
<1>5. ASSUME NEW l \in Lengths(b.window), NEW p, p = Consumed(b, l.cells),
             l.value - Len(p.window) <= 0, Proceed(Consumed(p, l.value), "header")
      PROVE  ReaderInv'
  <2>1. WindowAt(p, p.position) /\ l.value \in Nat /\ l.value <= Len(p.window)
    <3>1. /\ WindowAt(p, p.position) /\ l.value \in Nat
          /\ Len(p.window) \in Nat
      BY <1>4, <1>5
    <3>2. QED
      BY <1>5, <3>1
  <2>2. /\ WindowAt(Consumed(p, l.value), p.position + l.value)
        /\ Consumed(p, l.value).position = p.position + l.value
    BY <2>1, ConsumedAt
  <2>3. QED
    BY <1>1, <1>5, <2>2, Proceeding
<1>6. ASSUME NEW l \in Lengths(b.window), NEW p, p = Consumed(b, l.cells),
             l.value - Len(p.window) > 0,
             ~(source.fixed /\ l.value - Len(p.window) > p.remaining),
             Proceed(Sought(p, l.value), "header")
      PROVE  ReaderInv'
  <2>1. /\ WindowAt(p, p.position) /\ l.value \in Nat
        /\ Len(p.window) \in Nat /\ p.remaining \in Nat
    BY <1>4, <1>6
  <2>2. /\ l.value > Len(p.window)
        /\ source.fixed => l.value - Len(p.window) <= p.remaining
    BY <1>6, <2>1
  <2>3. source.length \in Nat
    BY DEF ReaderInv, SourceOK
  <2>4. /\ WindowAt(Sought(p, l.value), p.position + l.value)
        /\ Sought(p, l.value).position = p.position + l.value
    BY <2>1, <2>2, <2>3, SoughtAt
  <2>5. QED
    BY <1>1, <1>6, <2>4, Proceeding
<1>7. QED
  BY <1>2, <1>3, <1>5, <1>6

-----------------------------------------------------------------------------
(* Sub-items, and the end.                                                 *)

LEMMA StartStringInv ==
  ASSUME ReaderInv, StartString
  PROVE  ReaderInv'
<1>1. pc = "value" /\ pc # "bytes" /\ UNCHANGED blob
  BY DEF StartString, Reading
<1>2. PICK b \in With(Lookahead) :
        \/ Fail
        \/ \E l \in Lengths(b.window) : Proceed(Consumed(b, l.cells), "header")
  BY DEF StartString
<1>3. CASE Fail
  BY <1>3, Failing
<1>4. ASSUME NEW l \in Lengths(b.window), Proceed(Consumed(b, l.cells), "header")
      PROVE  ReaderInv'
  BY <1>1, <1>4, AfterLength, Proceeding
<1>5. QED
  BY <1>2, <1>3, <1>4

\* Groups begin and end with a header alone.
LEMMA GroupInv ==
  ASSUME ReaderInv,
         \/ \E how : StartGroup(how)
         \/ EndSubItem \/ SkipGroup \/ EndSkip \/ Finish
  PROVE  ReaderInv'
<1>1. CASE Fail
  BY <1>1, Failing
<1>2. CASE UNCHANGED <<source, io, blob>> /\ pc # "bytes" /\ pc' # "bytes"
  BY <1>2, Staying
<1>3. CASE \E how : StartGroup(how)
  BY <1>2, <1>3 DEF StartGroup, Reading, Proceed
<1>4. CASE EndSubItem
  BY <1>1, <1>2, <1>4 DEF EndSubItem, Reading, Proceed, Ended
<1>5. CASE SkipGroup
  BY <1>2, <1>5 DEF SkipGroup, Reading, Proceed
<1>6. CASE EndSkip
  BY <1>1, <1>2, <1>6 DEF EndSkip, Reading, Proceed
<1>7. CASE Finish
  BY <1>2, <1>7 DEF Finish, Reading
<1>8. QED
  BY <1>3, <1>4, <1>5, <1>6, <1>7

LEMMA ReaderInit == Init => ReaderInv
<1> SUFFICES ASSUME Init PROVE ReaderInv
  OBVIOUS
<1>1. PICK m \in Messages, fixed \in BOOLEAN, exact \in BOOLEAN, seekable \in BOOLEAN :
        \E n \in 0 .. Len(m.cells) :
          source = Delivered(m, n, fixed, exact, seekable) /\ io = NothingRead(m, fixed)
  BY DEF Init
<1>2. m.cells \in Seq(Cells) /\ Len(m.cells) \in Nat /\ Following \in Seq(Cells)
  BY ReaderAssumption
<1>3. PICK n \in 0 .. Len(m.cells), behind \in {Following, <<>>} :
        source.cells = SubSeq(m.cells, 1, n) \o behind
  <2>1. PICK n \in 0 .. Len(m.cells) : source = Delivered(m, n, fixed, exact, seekable)
    BY <1>1
  <2>2. CASE fixed /\ n = Len(m.cells)
    BY <2>1, <2>2 DEF Delivered
  <2>3. CASE ~(fixed /\ n = Len(m.cells))
    BY <2>1, <2>3 DEF Delivered
  <2>4. QED
    BY <2>2, <2>3
<1>4. SubSeq(m.cells, 1, n) \in Seq(Cells) /\ behind \in Seq(Cells)
  <2>1. \A i \in 1 .. n : m.cells[i] \in Cells
    <3>1. \A i \in 1 .. n : i \in 1 .. Len(m.cells)
      BY <1>2, <1>3
    <3>2. QED
      BY <1>2, <3>1, ElementOfSeq
  <2>2. 1 \in Int /\ n \in Int
    BY <1>2, <1>3
  <2>3. SubSeq(m.cells, 1, n) \in Seq(Cells)
    BY <2>1, <2>2, SubSeqProperties
  <2>4. QED
    BY <1>2, <1>3, <2>3, EmptySeq
<1>5. source.fixed = fixed /\ source.length = Len(m.cells)
  BY <1>1 DEF Delivered
<1>6. SourceOK
  <2>1. source.cells \in Seq(Cells)
    BY <1>3, <1>4, ConcatProperties
  <2>2. QED
    BY <1>2, <1>5, <2>1 DEF SourceOK
<1>7. PICK r : r = IF fixed THEN Len(m.cells) ELSE 0
  OBVIOUS
<1>8. WindowAt(io, 0) /\ io.position = 0
  <2>1. BufferLength \in Nat /\ r \in Nat /\ 0 \in Nat
    BY <1>2, <1>7, ReaderAssumption
  <2>2. io = Built(<<>>, 0, BufferLength, 0, 0, r)
    BY <1>1, <1>7, Zenon DEF NothingRead, Built
  <2>3. source.fixed => 0 <= source.length /\ r = source.length - 0
    BY <1>2, <1>5, <1>7
  <2>4. WindowAt(Built(<<>>, 0, BufferLength, 0, 0, r), 0)
    BY <2>1, <2>3, EmptyAt
  <2>5. io.position = 0
    BY <2>2 DEF Built
  <2>6. QED
    BY <2>2, <2>4, <2>5, Zenon
<1>9. blob \in Blob /\ blob.left = 0
  <2>1. <<>> \in Seq(Cells)
    BY EmptySeq
  <2>2. QED
    BY <2>1 DEF Init, Blob, Modes
<1>10. io.position - blob.left = 0
  BY <1>8, <1>9
<1>11. QED
  BY <1>6, <1>8, <1>9, <1>10 DEF ReaderInv

LEMMA ReaderNext == ReaderInv /\ [Next]_vars => ReaderInv'
<1> SUFFICES ASSUME ReaderInv, [Next]_vars PROVE ReaderInv'
  OBVIOUS
<1>1. CASE Headers
  BY <1>1, ReadFieldHeaderInv, HasSubValueInv, TryReadFieldHeaderInv DEF Headers
<1>2. CASE Values
  BY <1>2, ReadScalarInv, AppendBytesInv, ReadStringInv, RefillBytesInv, EndBytesInv,
     SkipStringInv DEF Values
<1>3. CASE Items \/ Finish
  BY <1>3, GroupInv, StartStringInv DEF Items
<1>4. CASE UNCHANGED vars
  BY <1>4 DEF vars, ReaderInv, SourceOK, WindowAt
<1>5. QED
  BY <1>1, <1>2, <1>3, <1>4 DEF Next, Done

LEMMA ReaderAlways == Spec => []ReaderInv
BY ReaderInit, ReaderNext, PTL DEF Spec

-----------------------------------------------------------------------------
(* The theorems.                                                           *)

\* Through refills, shifts, exchanges and seeks (Ensure, SkipField, AppendBytes) the
\* buffer holds what the stream has behind the position, whatever the length of
\* the buffer, of the chunks and of the fields.
THEOREM WindowStays == Spec => []WindowIsStream
<1>1. ReaderInv => WindowIsStream
  <2> SUFFICES ASSUME ReaderInv PROVE WindowIsStream
    OBVIOUS
  <2>1. PICK at : at = io.position - blob.left
    OBVIOUS
  <2>2. WindowAt(io, at) /\ SourceOK
    BY <2>1 DEF ReaderInv
  <2>3. /\ io.window \in Seq(Cells) /\ Len(io.window) \in Nat /\ at \in Nat
        /\ io.fetched \in Nat
    BY <2>2, Typed
  <2>4. io.index + Len(io.window) <= io.size /\ at + Len(io.window) = io.fetched
    BY <2>2 DEF WindowAt
  <2>5. PICK n \in Nat : n = Len(io.window) /\ io.fetched = at + n
    BY <2>3, <2>4
  <2>6. n > 0 => at + n <= Len(source.cells)
    BY <2>2, <2>5 DEF WindowAt
  <2>7. PICK piece : piece = SubSeq(source.cells, at + 1, at + n)
    OBVIOUS
  <2>8. /\ piece \in Seq(Cells) /\ Len(piece) = n
        /\ \A i \in 1 .. n : piece[i] = source.cells[at + i]
    BY <2>2, <2>3, <2>6, <2>7, PieceOfStream
  <2>9. \A i \in 1 .. Len(io.window) : io.window[i] = piece[i]
    BY <2>2, <2>5, <2>8 DEF WindowAt
  <2>10. io.window = piece
    BY <2>3, <2>5, <2>8, <2>9, SeqEqual
  <2>11. QED
    BY <2>1, <2>4, <2>5, <2>7, <2>10, Zenon DEF WindowIsStream
<1>2. QED
  BY <1>1, ReaderAlways, PTL

\* A reader with a length never takes a byte behind it out of the stream, and
\* dataRemaining counts what is left of its own (Ensure, SkipField).
THEOREM NeverBeyondLength == Spec => []OnlyOwnBytes
<1>1. ReaderInv => OnlyOwnBytes
  BY DEF ReaderInv, WindowAt, OnlyOwnBytes
<1>2. QED
  BY <1>1, ReaderAlways, PTL

-----------------------------------------------------------------------------
(* Induction, over a set of naturals, and recursive functions.             *)

LEMMA LeastOf ==
  ASSUME NEW T, T \subseteq Nat, T # {}
  PROVE  \E x \in T : \A y \in T : x <= y
<1>1. PICK R : R = OpToRel(<, Nat)
  OBVIOUS
<1>2. IsWellFoundedOn(R, Nat)
  BY <1>1, NatLessThanWellFounded, Zenon
<1>3. PICK x \in T : \A y \in T : ~(<<y, x>> \in R)
  BY <1>2, WFMin
<1>4. \A y \in T : ~(y < x)
  BY <1>1, <1>3 DEF OpToRel
<1>5. QED
  BY <1>4

LEMMA NatSets ==
  ASSUME NEW S, 0 \in S, \A n \in Nat : n \in S => n + 1 \in S
  PROVE  Nat \subseteq S
<1>1. SUFFICES ASSUME Nat \ S # {} PROVE FALSE
  OBVIOUS
<1>2. PICK T : T = Nat \ S
  OBVIOUS
<1>3. PICK x \in T : \A y \in T : x <= y
  <2>1. T \subseteq Nat /\ T # {}
    BY <1>1, <1>2
  <2>2. QED
    BY <2>1, LeastOf
<1>4. x # 0 /\ x \in Nat
  BY <1>2
<1>5. x - 1 \in T
  BY <1>2, <1>4
<1>6. QED
  BY <1>3, <1>4, <1>5

\* The powers up to one.
IsPowers(f, n) == f = [i \in 0 .. n |-> IF i = 0 THEN 1 ELSE Base * f[i - 1]]

LEMMA PowersAt ==
  ASSUME NEW n \in Nat, NEW f, IsPowers(f, n), NEW i \in 0 .. n
  PROVE  f[i] = IF i = 0 THEN 1 ELSE Base * f[i - 1]
<1>1. f = [j \in 0 .. n |-> IF j = 0 THEN 1 ELSE Base * f[j - 1]]
  BY DEF IsPowers
<1>2. QED
  BY <1>1

LEMMA PowersExist ==
  ASSUME NEW m \in Nat
  PROVE  \E f : IsPowers(f, m)
<1>1. PICK S : S = {n \in Nat : \E f : IsPowers(f, n)}
  OBVIOUS
<1>2. 0 \in S
  <2>1. [i \in 0 .. 0 |-> 1] = [i \in 0 .. 0 |-> IF i = 0 THEN 1
                                                 ELSE Base * [j \in 0 .. 0 |-> 1][i - 1]]
    OBVIOUS
  <2>2. IsPowers([i \in 0 .. 0 |-> 1], 0)
    BY <2>1 DEF IsPowers
  <2>3. QED
    BY <1>1, <2>2
<1>3. ASSUME NEW n \in Nat, n \in S PROVE n + 1 \in S
  <2>1. PICK f : IsPowers(f, n)
    BY <1>1, <1>3
  <2>2. PICK g : g = [i \in 0 .. n + 1 |-> IF i \in 0 .. n THEN f[i] ELSE Base * f[n]]
    OBVIOUS
  <2>3. ASSUME NEW i \in 0 .. n + 1
        PROVE  g[i] = IF i = 0 THEN 1 ELSE Base * g[i - 1]
    <3>1. CASE i \in 0 .. n
      <4>1. g[i] = f[i] /\ f[i] = IF i = 0 THEN 1 ELSE Base * f[i - 1]
        BY <2>1, <2>2, <3>1, PowersAt
      <4>2. i # 0 => g[i - 1] = f[i - 1]
        BY <2>2, <3>1
      <4>3. QED
        BY <4>1, <4>2
    <3>2. CASE i \notin 0 .. n
      <4>1. i = n + 1 /\ i # 0 /\ i - 1 = n /\ i - 1 \in 0 .. n
        BY <3>2
      <4>2. g[i] = Base * f[n] /\ g[i - 1] = f[n]
        BY <2>2, <3>2, <4>1
      <4>3. QED
        BY <4>1, <4>2
    <3>3. QED
      BY <3>1, <3>2
  <2>4. IsPowers(g, n + 1)
    <3>1. g = [i \in 0 .. n + 1 |-> g[i]]
      BY <2>2
    <3>2. QED
      BY <2>3, <3>1 DEF IsPowers
  <2>5. n + 1 \in Nat
    OBVIOUS
  <2>6. QED
    BY <1>1, <2>4, <2>5
<1>4. Nat \subseteq S
  BY <1>2, <1>3, NatSets
<1>5. QED
  BY <1>1, <1>4

LEMMA PowersAgree ==
  ASSUME NEW m \in Nat, NEW n \in Nat, NEW f, NEW g, IsPowers(f, m), IsPowers(g, n),
         NEW k \in Nat, k <= m, k <= n
  PROVE  f[k] = g[k]
<1>1. PICK S : S = {i \in Nat : i <= k => f[i] = g[i]}
  OBVIOUS
<1>2. 0 \in S
  <2>1. 0 \in 0 .. m /\ 0 \in 0 .. n
    OBVIOUS
  <2>2. f[0] = 1 /\ g[0] = 1
    BY <2>1, PowersAt
  <2>3. QED
    BY <1>1, <2>2
<1>3. ASSUME NEW i \in Nat, i \in S PROVE i + 1 \in S
  <2>1. SUFFICES ASSUME i + 1 <= k PROVE f[i + 1] = g[i + 1]
    BY <1>1
  <2>2. PICK h \in Nat : h = i + 1 /\ h - 1 = i /\ h # 0
    OBVIOUS
  <2>3. h \in 0 .. m /\ h \in 0 .. n /\ i <= k
    BY <2>1, <2>2
  <2>4. f[h] = Base * f[i] /\ g[h] = Base * g[i]
    BY <2>2, <2>3, PowersAt
  <2>5. f[i] = g[i]
    BY <1>1, <1>3, <2>3
  <2>6. QED
    BY <2>2, <2>4, <2>5
<1>4. Nat \subseteq S
  BY <1>2, <1>3, NatSets
<1>5. QED
  BY <1>1, <1>4

\* Power is what its recursion says.
LEMMA PowerIs ==
  /\ Power[0] = 1
  /\ \A k \in Nat : Power[k + 1] = Base * Power[k]
<1> DEFINE Is(p) == p = [k \in Nat |-> IF k = 0 THEN 1 ELSE Base * p[k - 1]]
<1>1. PICK p : p = [k \in Nat |-> (CHOOSE f : IsPowers(f, k))[k]]
  OBVIOUS
<1>2. ASSUME NEW k \in Nat PROVE p[k] = IF k = 0 THEN 1 ELSE Base * p[k - 1]
  <2>1. PICK f : f = CHOOSE g : IsPowers(g, k)
    OBVIOUS
  <2>2. IsPowers(f, k) /\ p[k] = f[k]
    BY <1>1, <2>1, PowersExist
  <2>3. k \in 0 .. k
    OBVIOUS
  <2>4. f[k] = IF k = 0 THEN 1 ELSE Base * f[k - 1]
    BY <2>2, <2>3, PowersAt
  <2>5. CASE k = 0
    BY <2>2, <2>4, <2>5
  <2>6. CASE k # 0
    <3>1. PICK j \in Nat : j = k - 1 /\ j <= k
      BY <2>6
    <3>2. PICK h : h = CHOOSE g : IsPowers(g, j)
      OBVIOUS
    <3>3. IsPowers(h, j) /\ p[j] = h[j]
      BY <1>1, <3>2, PowersExist
    <3>4. j <= j
      OBVIOUS
    <3>5. f[j] = h[j]
      BY <2>2, <3>1, <3>3, <3>4, PowersAgree
    <3>6. QED
      BY <2>2, <2>4, <2>6, <3>1, <3>3, <3>5
  <2>7. QED
    BY <2>5, <2>6
<1>3. Is(p)
  <2>1. p = [k \in Nat |-> p[k]]
    BY <1>1
  <2>2. QED
    BY <1>2, <2>1
<1>4. Is(CHOOSE q : Is(q))
  <2> HIDE DEF Is
  <2>1. QED
    BY <1>3
<1>5. Power = CHOOSE q : Is(q)
  BY Zenon DEF Power
<1>6. Is(Power)
  <2> HIDE DEF Is
  <2>1. QED
    BY <1>4, <1>5
<1>7. Power[0] = 1
  BY <1>6
<1>8. ASSUME NEW k \in Nat PROVE Power[k + 1] = Base * Power[k]
  <2>1. PICK h \in Nat : h = k + 1 /\ h - 1 = k /\ h # 0
    OBVIOUS
  <2>2. Power[h] = Base * Power[h - 1]
    BY <1>6, <2>1
  <2>3. QED
    BY <2>1, <2>2
<1>9. QED
  BY <1>7, <1>8

LEMMA PowerType == \A k \in Nat : Power[k] \in Nat \ {0}
<1>1. PICK S : S = {k \in Nat : Power[k] \in Nat \ {0}}
  OBVIOUS
<1>2. 0 \in S
  BY <1>1, PowerIs
<1>3. ASSUME NEW k \in Nat, k \in S PROVE k + 1 \in S
  <2>1. PICK p \in Nat \ {0} : p = Power[k]
    BY <1>1, <1>3
  <2>2. Base \in Nat \ {0}
    BY WireAssumption
  <2>3. Base * p \in Nat \ {0}
    BY <2>1, <2>2
  <2>4. QED
    BY <1>1, <2>1, <2>3, PowerIs
<1>4. QED
  BY <1>1, <1>2, <1>3, NatSets

LEMMA PowerGrows ==
  ASSUME NEW k \in Nat
  PROVE  \A j \in Nat : Power[k] <= Power[k + j]
<1>1. PICK S : S = {j \in Nat : Power[k] <= Power[k + j]}
  OBVIOUS
<1>2. 0 \in S
  BY <1>1, PowerType
<1>3. ASSUME NEW j \in Nat, j \in S PROVE j + 1 \in S
  <2>1. PICK h \in Nat : h = k + j /\ k + (j + 1) = h + 1
    OBVIOUS
  <2>2. PICK p \in Nat : p = Power[h]
    BY PowerType
  <2>3. Base \in Nat \ {0} /\ Power[k] \in Nat
    BY WireAssumption, PowerType
  <2>4. p <= Base * p
    BY <2>2, <2>3
  <2>5. Power[h + 1] = Base * p /\ Base * p \in Nat
    BY <2>2, <2>3, PowerIs
  <2>6. Power[k] <= p
    BY <1>1, <1>3, <2>1, <2>2
  <2>7. QED
    BY <1>1, <2>1, <2>2, <2>3, <2>4, <2>5, <2>6
<1>4. QED
  BY <1>1, <1>2, <1>3, NatSets

-----------------------------------------------------------------------------
(* The digits of a number.                                                 *)

\* A number is cut at a power of the base.
LEMMA CutAt ==
  ASSUME NEW n \in Nat, NEW b \in Nat \ {0}, NEW p \in Nat \ {0}
  PROVE  n % (b * p) = (n % p) + ((n \div p) % b) * p
<1>1. PICK q \in Nat : q = n \div p
  OBVIOUS
<1>2. PICK r \in Nat : r = n % p /\ r < p /\ n = p * q + r
  BY <1>1
<1>3. PICK t \in Nat : t = q \div b
  OBVIOUS
<1>4. PICK d \in Nat : d = q % b /\ d <= b - 1 /\ q = b * t + d
  BY <1>3
<1>5. p * q = (b * p) * t + d * p
  <2>1. p * (b * t + d) = p * (b * t) + p * d
    OBVIOUS
  <2>2. p * (b * t) = (b * p) * t /\ p * d = d * p
    OBVIOUS
  <2>3. QED
    BY <1>4, <2>1, <2>2
<1>6. PICK e \in Nat : e = d * p + r
  <2>1. d * p \in Nat
    OBVIOUS
  <2>2. QED
    BY <2>1
<1>7. e < b * p
  <2>1. d * p <= (b - 1) * p
    BY <1>4
  <2>2. (b - 1) * p = b * p - p /\ b * p \in Nat /\ d * p \in Nat
    OBVIOUS
  <2>3. QED
    BY <1>2, <1>6, <2>1, <2>2
<1>8. b * p \in Nat \ {0} /\ n = (b * p) * t + e
  <2>1. b * p \in Nat \ {0} /\ (b * p) * t \in Nat /\ d * p \in Nat
    OBVIOUS
  <2>2. QED
    BY <1>2, <1>5, <1>6, <2>1
<1>9. \A m \in Nat \ {0} : n = m * t + e /\ e < m => n % m = e
  OBVIOUS
<1>10. n % (b * p) = e
  BY <1>7, <1>8, <1>9
<1>11. (n \div p) % b = d /\ n % p = r
  BY <1>1, <1>2, <1>4
<1>12. e = r + d * p
  <2>1. d * p \in Nat
    OBVIOUS
  <2>2. QED
    BY <1>6, <2>1
<1>13. QED
  BY <1>10, <1>11, <1>12, Zenon

\* What the digits up to one come to.
IsSums(f, d, n) ==
  f = [i \in 0 .. n |-> IF i = 0 THEN 0 ELSE f[i - 1] + d[i][2] * Power[i - 1]]

\* A varint has the fewest digits that tell the number.
LEMMA WidthIs ==
  ASSUME NEW n \in Nat, n < Power[VarintSpace]
  PROVE  Width(n) \in 1 .. VarintSpace /\ n < Power[Width(n)]
<1>1. VarintSpace \in Nat \ {0}
  BY WireAssumption
<1>2. PICK T : T = {k \in 1 .. VarintSpace : n < Power[k]}
  OBVIOUS
<1>3. T \subseteq Nat /\ VarintSpace \in T
  BY <1>1, <1>2
<1>4. PICK t \in T : \A y \in T : t <= y
  BY <1>3, LeastOf
<1>5. t \in 1 .. VarintSpace /\ n < Power[t]
  BY <1>2
<1>6. PICK S : S = {k \in 1 .. VarintSpace - 1 : Power[k] <= n}
  OBVIOUS
<1>7. S = 1 .. t - 1
  <2>1. ASSUME NEW k \in 1 .. VarintSpace - 1 PROVE Power[k] <= n <=> k <= t - 1
    <3>1. Power[k] \in Nat /\ Power[t] \in Nat /\ k \in 1 .. VarintSpace
      BY <1>1, <1>5, PowerType
    <3>2. ASSUME k <= t - 1 PROVE Power[k] <= n
      <4>1. k \notin T
        BY <1>4, <1>5, <3>2
      <4>2. QED
        BY <1>2, <3>1, <4>1
    <3>3. ASSUME ~(k <= t - 1) PROVE ~(Power[k] <= n)
      <4>1. PICK j \in Nat : k = t + j
        <5>1. k - t \in Nat /\ k = t + (k - t)
          BY <1>5, <3>3
        <5>2. QED
          BY <5>1
      <4>2. Power[t] <= Power[k]
        BY <1>5, <4>1, PowerGrows
      <4>3. QED
        BY <1>5, <3>1, <4>2
    <3>4. QED
      BY <3>2, <3>3
  <2>2. \A k \in 1 .. t - 1 : k \in 1 .. VarintSpace - 1 /\ k <= t - 1
    BY <1>1, <1>5
  <2>3. \A k \in 1 .. VarintSpace - 1 : k <= t - 1 => k \in 1 .. t - 1
    BY <1>1, <1>5
  <2>4. QED
    BY <1>6, <2>1, <2>2, <2>3
<1>8. Cardinality(S) = t - 1
  <2>1. t \in Nat /\ 1 <= t
    BY <1>5
  <2>2. QED
    BY <1>7, <2>1, FS_Interval
<1>9. Width(n) = 1 + Cardinality(S)
  BY <1>6, Zenon DEF Width
<1>10. Width(n) = t
  BY <1>5, <1>8, <1>9
<1>11. QED
  BY <1>5, <1>10

\* Two numbers with the same digits are the same.
LEMMA SameDigits ==
  ASSUME NEW a \in Nat, NEW b \in Nat, NEW k \in Nat, a < Power[k], b < Power[k],
         \A i \in 1 .. k : (a \div Power[i - 1]) % Base = (b \div Power[i - 1]) % Base
  PROVE  a = b
<1>1. PICK S : S = {j \in Nat : j <= k => a % Power[j] = b % Power[j]}
  OBVIOUS
<1>2. 0 \in S
  <2>1. Power[0] = 1 /\ a % 1 = 0 /\ b % 1 = 0
    BY PowerIs
  <2>2. QED
    BY <1>1, <2>1
<1>3. ASSUME NEW j \in Nat, j \in S PROVE j + 1 \in S
  <2>1. SUFFICES ASSUME j + 1 <= k PROVE a % Power[j + 1] = b % Power[j + 1]
    BY <1>1
  <2>2. PICK h \in 1 .. k : h = j + 1 /\ h - 1 = j
    BY <2>1
  <2>3. PICK p \in Nat \ {0} : p = Power[j]
    BY PowerType
  <2>4. (a \div p) % Base = (b \div p) % Base
    <3>1. (a \div Power[h - 1]) % Base = (b \div Power[h - 1]) % Base
      OBVIOUS
    <3>2. QED
      BY <2>2, <2>3, <3>1
  <2>5. a % p = b % p
    BY <1>1, <1>3, <2>1, <2>3
  <2>6. Base \in Nat \ {0}
    BY WireAssumption
  <2>7. /\ a % (Base * p) = (a % p) + ((a \div p) % Base) * p
        /\ b % (Base * p) = (b % p) + ((b \div p) % Base) * p
    BY <2>3, <2>6, CutAt
  <2>8. Power[j + 1] = Base * p
    BY <2>3, PowerIs
  <2>9. QED
    BY <2>4, <2>5, <2>7, <2>8
<1>4. Nat \subseteq S
  BY <1>2, <1>3, NatSets
<1>5. a % Power[k] = b % Power[k]
  BY <1>1, <1>4
<1>6. PICK p \in Nat \ {0} : p = Power[k]
  BY PowerType
<1>7. a % p = a /\ b % p = b
  BY <1>6
<1>8. QED
  BY <1>5, <1>6, <1>7

LEMMA LengthFits ==
  ASSUME NEW n \in 0 .. MaxCells - 1
  PROVE  /\ n \in Nat /\ Width(n) \in 1 .. VarintSpace /\ n < Power[Width(n)]
         /\ \A i \in 1 .. Width(n) :
              Digits(n)[i] = <<"digit", (n \div Power[i - 1]) % Base, i < Width(n)>>
<1>1. PICK p \in Nat : p = Power[VarintSpace]
  BY PowerType, WireAssumption
<1>2. MaxCells \in Nat \ {0} /\ MaxCells <= p
  BY <1>1, WireAssumption
<1>3. n \in Nat /\ n < p
  BY <1>2
<1>4. Width(n) \in 1 .. VarintSpace /\ n < Power[Width(n)]
  BY <1>1, <1>3, WidthIs
<1>5. PICK w : w = Width(n)
  OBVIOUS
<1>6. Digits(n) = [i \in 1 .. w |-> <<"digit", (n \div Power[i - 1]) % Base, i < w>>]
  BY <1>5, Zenon DEF Digits
<1>7. QED
  BY <1>3, <1>4, <1>5, <1>6

\* What is read as a length is what was written as one.
LEMMA LengthReadBack ==
  ASSUME NEW w \in Seq(Cells), NEW n \in 0 .. MaxCells - 1, NEW l \in Lengths(w),
         \A i \in 1 .. Width(n) : i <= Len(w) => w[i] = Digits(n)[i]
  PROVE  l.value = n /\ l.cells = Width(n) /\ Width(n) <= Len(w)
<1>1. PICK k \in 1 .. VarintSpace : k = Width(n)
  BY LengthFits
<1>2. /\ l.value \in Nat /\ l.cells \in VarintEnds(w) /\ l.value < Power[l.cells]
      /\ \A i \in 1 .. l.cells : w[i][2] = (l.value \div Power[i - 1]) % Base
  <2>1. l \in [value : 0 .. MaxCells, cells : VarintEnds(w)]
    BY DEF Lengths
  <2>2. l.value \in 0 .. MaxCells /\ l.cells \in VarintEnds(w)
    BY <2>1
  <2>3. QED
    BY <2>2, WireAssumption DEF Lengths
<1>3. l.cells \in 1 .. Len(w)
  BY <1>2 DEF VarintEnds
<1>4. /\ ~Continues(w[l.cells])
      /\ \A i \in 1 .. l.cells - 1 : Continues(w[i])
  BY <1>2 DEF VarintEnds
<1>5. VarintSpace \in Nat /\ Len(w) \in Nat /\ k \in Nat
  BY WireAssumption
<1>6. ASSUME NEW i \in 1 .. k, i <= Len(w)
      PROVE  /\ w[i][2] = (n \div Power[i - 1]) % Base
             /\ Continues(w[i]) <=> i < k
  <2>1. PICK d : d = (n \div Power[i - 1]) % Base
    OBVIOUS
  <2>2. PICK e : e = w[i]
    OBVIOUS
  <2>3. e = <<"digit", d, i < k>>
    BY <1>1, <1>6, <2>1, <2>2, LengthFits
  <2>4. i \in Nat /\ k \in Nat
    BY <1>5
  <2>5. (Continues(e) <=> i < k) /\ e[2] = d
    <3>1. Continues(e) <=> i < k
      BY ONLY <2>3, <2>4 DEF Continues
    <3>2. e[2] = d
      BY ONLY <2>3, <2>4
    <3>3. QED
      BY <3>1, <3>2
  <2>6. QED
    BY <2>1, <2>2, <2>5
<1>7. l.cells = k
  <2>1. ASSUME l.cells < k PROVE FALSE
    BY <1>3, <1>4, <1>5, <1>6, <2>1
  <2>2. ASSUME k < l.cells PROVE FALSE
    BY <1>3, <1>4, <1>5, <1>6, <2>2
  <2>3. QED
    BY <1>3, <1>5, <2>1, <2>2
<1>8. \A i \in 1 .. k : (l.value \div Power[i - 1]) % Base = (n \div Power[i - 1]) % Base
  <2>1. TAKE i \in 1 .. k
  <2>2. PICK a : a = (l.value \div Power[i - 1]) % Base
    OBVIOUS
  <2>3. PICK b : b = (n \div Power[i - 1]) % Base
    OBVIOUS
  <2>4. i <= Len(w) /\ i \in 1 .. l.cells
    BY <1>3, <1>5, <1>7
  <2>5. w[i][2] = a
    BY <1>2, <2>2, <2>4
  <2>6. w[i][2] = b
    BY <1>6, <2>3, <2>4
  <2>7. a = b
    BY <2>5, <2>6
  <2>8. QED
    BY <2>2, <2>3, <2>7
<1>9. l.value = n
  BY <1>1, <1>2, <1>5, <1>7, <1>8, LengthFits, SameDigits
<1>10. QED
  BY <1>1, <1>3, <1>7, <1>9

\* A varint that is there to its end is not cut off.
LEMMA NotCutOff ==
  ASSUME NEW w \in Seq(Cells), NEW k \in Nat, k > 0, k <= Len(w),
         \A i \in 1 .. k : Continues(w[i]) <=> i < k
  PROVE  VarintEnds(w) = {k}
<1>1. k \in 1 .. Len(w) /\ Len(w) \in Nat /\ DOMAIN w = 1 .. Len(w)
  OBVIOUS
<1>2. ~Continues(w[k]) /\ \A i \in 1 .. k - 1 : Continues(w[i])
  BY <1>1
<1>3. k \in VarintEnds(w)
  BY <1>1, <1>2 DEF VarintEnds
<1>4. ASSUME NEW h \in VarintEnds(w) PROVE h = k
  <2>1. /\ h \in 1 .. Len(w) /\ ~Continues(w[h])
        /\ \A i \in 1 .. h - 1 : Continues(w[i])
    BY <1>1 DEF VarintEnds
  <2>2. ~(h < k)
    BY <1>1, <2>1
  <2>3. ~(k < h)
    BY <1>1, <1>2, <2>1
  <2>4. QED
    BY <1>1, <2>1, <2>2, <2>3
<1>5. QED
  BY <1>3, <1>4

-----------------------------------------------------------------------------
(* The fields of a message.                                                *)

From(m, p) == IF p = 0 THEN 0 ELSE m.fields[p].body
To(m, p) == IF p = 0 THEN Len(m.cells) ELSE m.fields[p].end
OwnOf(m, p) == {f \in DOMAIN m.fields : m.fields[f].parent = p}
IsItem(m, p) == p = 0 \/ (p \in DOMAIN m.fields /\ m.fields[p].kind # "value")

\* Between two fields of item p, before the first or behind the last.
Boundary(m, p, at) == at = From(m, p) \/ \E f \in OwnOf(m, p) : at = m.fields[f].stop

LEMMA MessageFacts ==
  ASSUME NEW m \in Messages
  PROVE  /\ m.cells \in Seq(Cells) /\ Len(m.cells) \in Nat /\ Len(m.cells) <= MaxCells
         /\ m.fields \in Seq(FieldRecords) /\ WellFramed(m)
BY ReaderAssumption DEF WellFramed

LEMMA FieldTyped ==
  ASSUME NEW m \in Messages, NEW f \in DOMAIN m.fields
  PROVE  /\ m.fields[f].kind \in Kinds
         /\ m.fields[f].parent \in Nat /\ m.fields[f].start \in Nat
         /\ m.fields[f].value \in Nat /\ m.fields[f].body \in Nat
         /\ m.fields[f].end \in Nat /\ m.fields[f].stop \in Nat
         /\ f \in Nat /\ f # 0
<1>1. PICK s : s = m.fields
  OBVIOUS
<1>2. s \in Seq(FieldRecords) /\ f \in DOMAIN s
  BY <1>1, MessageFacts
<1>3. s[f] \in FieldRecords /\ f \in 1 .. Len(s) /\ Len(s) \in Nat
  BY <1>2
<1>4. PICK r : r = s[f]
  OBVIOUS
<1>5. /\ r.kind \in Kinds /\ r.parent \in Nat /\ r.start \in Nat /\ r.value \in Nat
      /\ r.body \in Nat /\ r.end \in Nat /\ r.stop \in Nat
  BY <1>3, <1>4 DEF FieldRecords
<1>6. f \in Nat /\ f # 0
  BY <1>3
<1>7. QED
  BY <1>1, <1>4, <1>5, <1>6

LEMMA FieldFramed ==
  ASSUME NEW m \in Messages, NEW f \in DOMAIN m.fields
  PROVE  /\ Framed(m, f) /\ HasItsLength(m, f)
         /\ IsItem(m, m.fields[f].parent)
         /\ m.fields[f].kind # "value" => Tiled(m, f, m.fields[f].body, m.fields[f].end)
<1>1. WellFramed(m)
  BY MessageFacts
<1>2. Framed(m, f)
  BY <1>1 DEF WellFramed
<1>3. QED
  BY <1>1, <1>2 DEF WellFramed, IsItem, Framed

LEMMA ItemTiled ==
  ASSUME NEW m \in Messages, NEW p, IsItem(m, p)
  PROVE  Tiled(m, p, From(m, p), To(m, p))
<1>1. CASE p = 0
  <2>1. From(m, p) = 0 /\ To(m, p) = Len(m.cells)
    BY <1>1 DEF From, To
  <2>2. QED
    BY <1>1, <2>1, MessageFacts DEF WellFramed
<1>2. CASE p # 0
  <2>1. p \in DOMAIN m.fields /\ m.fields[p].kind # "value"
    BY <1>2 DEF IsItem
  <2>2. From(m, p) = m.fields[p].body /\ To(m, p) = m.fields[p].end
    BY <1>2 DEF From, To
  <2>3. QED
    BY <2>1, <2>2, FieldFramed
<1>3. QED
  BY <1>1, <1>2

\* What a field of each wire type looks like.
LEMMA VariantField ==
  ASSUME NEW m \in Messages, NEW f \in DOMAIN m.fields, WireTypeOf(m, f) = "Variant"
  PROVE  /\ m.fields[f].kind = "value"
         /\ \E k \in 1 .. VarintSpace :
              /\ m.fields[f].stop = m.fields[f].value + k
              /\ \A i \in 1 .. k :
                   /\ m.cells[m.fields[f].value + i]
                        \in {<<"digit", d, i < k>> : d \in 0 .. Base - 1}
                   /\ Continues(m.cells[m.fields[f].value + i]) <=> i < k
<1>1. /\ m.fields[f].kind = "value"
      /\ \E k \in 1 .. VarintSpace :
           /\ m.fields[f].stop = m.fields[f].value + k
           /\ \A i \in 1 .. k : m.cells[m.fields[f].value + i]
                                  \in {<<"digit", d, i < k>> : d \in 0 .. Base - 1}
  BY FieldFramed DEF HasItsLength
<1>2. PICK k \in 1 .. VarintSpace :
        /\ m.fields[f].stop = m.fields[f].value + k
        /\ \A i \in 1 .. k : m.cells[m.fields[f].value + i]
                               \in {<<"digit", d, i < k>> : d \in 0 .. Base - 1}
  BY <1>1
<1>3. ASSUME NEW i \in 1 .. k
      PROVE  Continues(m.cells[m.fields[f].value + i]) <=> i < k
  <2>1. PICK d \in 0 .. Base - 1 : m.cells[m.fields[f].value + i] = <<"digit", d, i < k>>
    BY <1>2
  <2>2. PICK more : more = (i < k)
    BY Zenon
  <2>3. PICK c : c = m.cells[m.fields[f].value + i]
    OBVIOUS
  <2>4. c = <<"digit", d, more>>
    BY <2>1, <2>2, <2>3, Zenon
  <2>5. Continues(c) <=> more
    BY <2>4 DEF Continues
  <2>6. QED
    BY <2>2, <2>3, <2>5, Zenon
<1>4. QED
  BY <1>1, <1>2, <1>3

LEMMA FixedField ==
  ASSUME NEW m \in Messages, NEW f \in DOMAIN m.fields, WireTypeOf(m, f) = "Fixed32"
  PROVE  /\ m.fields[f].kind = "value"
         /\ m.fields[f].stop = m.fields[f].value + FixedLength
BY FieldFramed DEF HasItsLength

LEMMA StringField ==
  ASSUME NEW m \in Messages, NEW f \in DOMAIN m.fields, WireTypeOf(m, f) = "String"
  PROVE  \E n \in 0 .. MaxCells - 1 :
           /\ m.fields[f].stop = m.fields[f].value + Width(n) + n
           /\ \A i \in 1 .. Width(n) : m.cells[m.fields[f].value + i] = Digits(n)[i]
           /\ m.fields[f].kind # "value" => /\ m.fields[f].body = m.fields[f].value + Width(n)
                                            /\ m.fields[f].end = m.fields[f].stop
<1>1. HasItsLength(m, f)
  BY FieldFramed
<1>2. QED
  BY <1>1 DEF HasItsLength

LEMMA GroupField ==
  ASSUME NEW m \in Messages, NEW f \in DOMAIN m.fields, WireTypeOf(m, f) = "StartGroup"
  PROVE  /\ m.fields[f].kind = "message"
         /\ m.fields[f].body = m.fields[f].value
         /\ m.fields[f].body <= m.fields[f].end
         /\ m.fields[f].stop = m.fields[f].end + 1
         /\ m.cells[m.fields[f].stop] = Header(Number(m, f), "EndGroup")
BY FieldFramed DEF HasItsLength

LEMMA FourTypes ==
  ASSUME NEW m \in Messages, NEW f \in DOMAIN m.fields
  PROVE  WireTypeOf(m, f) \in {"Variant", "Fixed32", "String", "StartGroup"}
BY FieldFramed DEF HasItsLength

\* Only an element of a packed field has no header.
LEMMA FieldHeader ==
  ASSUME NEW m \in Messages, NEW f \in DOMAIN m.fields, ~InPacked(m, f)
  PROVE  /\ m.fields[f].value = m.fields[f].start + 1
         /\ m.cells[m.fields[f].value] = Header(Number(m, f), WireTypeOf(m, f))
         /\ Number(m, f) \in Fields
<1>1. Framed(m, f)
  BY FieldFramed
<1>2. PICK c : c = m.cells[m.fields[f].value]
  OBVIOUS
<1>3. /\ m.fields[f].value = m.fields[f].start + 1
      /\ c \in {Header(n, w) : n \in Fields, w \in HeaderTypes}
  BY <1>1, <1>2 DEF Framed
<1>4. PICK n \in Fields, w \in HeaderTypes : c = <<"header", n, w>>
  BY <1>3 DEF Header
<1>5. c[2] = n /\ c[3] = w
  BY <1>4
<1>6. Number(m, f) = n /\ WireTypeOf(m, f) = w
  BY <1>2, <1>5 DEF Number, WireTypeOf
<1>7. QED
  BY <1>2, <1>3, <1>4, <1>6 DEF Header

LEMMA PackedElement ==
  ASSUME NEW m \in Messages, NEW f \in DOMAIN m.fields, InPacked(m, f)
  PROVE  /\ m.fields[f].value = m.fields[f].start
         /\ WireTypeOf(m, f) = m.fields[m.fields[f].parent].kind
         /\ WireTypeOf(m, f) \in ScalarTypes
         /\ m.fields[f].kind = "value"
<1>1. Framed(m, f)
  BY FieldFramed
<1>2. /\ m.fields[f].value = m.fields[f].start
      /\ WireTypeOf(m, f) = m.fields[m.fields[f].parent].kind
      /\ WireTypeOf(m, f) \in ScalarTypes
  BY <1>1 DEF Framed, InPacked, WireTypeOf
<1>3. QED
  BY <1>2, VariantField, FixedField DEF ScalarTypes

\* A field takes some room, and all of it is in the message.
LEMMA FieldOrder ==
  ASSUME NEW m \in Messages, NEW f \in DOMAIN m.fields
  PROVE  /\ m.fields[f].start <= m.fields[f].value
         /\ m.fields[f].value < m.fields[f].stop
         /\ m.fields[f].stop <= Len(m.cells)
<1>1. m.fields[f].stop <= Len(m.cells)
  BY FieldFramed DEF Framed
<1>2. m.fields[f].start <= m.fields[f].value
  <2>1. m.fields[f].start \in Nat
    BY FieldTyped
  <2>2. CASE InPacked(m, f)
    BY <2>1, <2>2, PackedElement
  <2>3. CASE ~InPacked(m, f)
    BY <2>1, <2>3, FieldHeader
  <2>4. QED
    BY <2>2, <2>3
<1>3. m.fields[f].value < m.fields[f].stop
  <2>1. m.fields[f].value \in Nat /\ m.fields[f].end \in Nat
    BY FieldTyped
  <2>2. CASE WireTypeOf(m, f) = "Variant"
    <3>1. PICK k \in 1 .. VarintSpace : m.fields[f].stop = m.fields[f].value + k
      BY <2>2, VariantField
    <3>2. k \in Nat /\ k > 0
      BY WireAssumption
    <3>3. QED
      BY <2>1, <3>1, <3>2
  <2>3. CASE WireTypeOf(m, f) = "Fixed32"
    BY <2>1, <2>3, FixedField, WireAssumption
  <2>4. CASE WireTypeOf(m, f) = "String"
    <3>1. PICK n \in 0 .. MaxCells - 1 : m.fields[f].stop = m.fields[f].value + Width(n) + n
      BY <2>4, StringField
    <3>2. n \in Nat /\ Width(n) \in Nat /\ Width(n) > 0
      BY LengthFits, WireAssumption
    <3>3. QED
      BY <2>1, <3>1, <3>2
  <2>5. CASE WireTypeOf(m, f) = "StartGroup"
    BY <2>1, <2>5, GroupField
  <2>6. QED
    BY <2>2, <2>3, <2>4, <2>5, FourTypes
<1>4. QED
  BY <1>1, <1>2, <1>3

LEMMA OwnFacts ==
  ASSUME NEW m \in Messages, NEW p, IsItem(m, p), NEW f \in OwnOf(m, p)
  PROVE  /\ f \in DOMAIN m.fields /\ m.fields[f].parent = p
         /\ From(m, p) <= m.fields[f].start /\ m.fields[f].stop <= To(m, p)
<1>1. Tiled(m, p, From(m, p), To(m, p))
  BY ItemTiled
<1>2. f \in DOMAIN m.fields /\ m.fields[f].parent = p
  BY DEF OwnOf
<1>3. QED
  BY <1>1, <1>2 DEF Tiled

LEMMA ItemPlaces ==
  ASSUME NEW m \in Messages, NEW p, IsItem(m, p)
  PROVE  /\ From(m, p) \in Nat /\ To(m, p) \in Nat /\ From(m, p) <= To(m, p)
         /\ To(m, p) <= Len(m.cells)
         /\ p # 0 => To(m, p) <= m.fields[p].stop /\ m.fields[p].value <= From(m, p)
<1>1. CASE p = 0
  BY <1>1, MessageFacts DEF From, To
<1>2. CASE p # 0
  <2>1. p \in DOMAIN m.fields /\ m.fields[p].kind # "value"
    BY <1>2 DEF IsItem
  <2>2. /\ m.fields[p].body \in Nat /\ m.fields[p].end \in Nat /\ m.fields[p].stop \in Nat
        /\ m.fields[p].value \in Nat /\ m.fields[p].stop <= Len(m.cells)
    BY <2>1, FieldTyped, FieldOrder
  <2>3. CASE WireTypeOf(m, p) = "String"
    <3>1. PICK n \in 0 .. MaxCells - 1 :
            /\ m.fields[p].stop = m.fields[p].value + Width(n) + n
            /\ m.fields[p].body = m.fields[p].value + Width(n)
            /\ m.fields[p].end = m.fields[p].stop
      BY <2>1, <2>3, StringField
    <3>2. n \in Nat /\ Width(n) \in Nat
      BY LengthFits, WireAssumption
    <3>3. QED
      BY <1>2, <2>2, <3>1, <3>2 DEF From, To
  <2>4. CASE WireTypeOf(m, p) = "StartGroup"
    <3>1. /\ m.fields[p].body = m.fields[p].value
          /\ m.fields[p].body <= m.fields[p].end
          /\ m.fields[p].stop = m.fields[p].end + 1
      BY <2>1, <2>4, GroupField
    <3>2. QED
      BY <1>2, <2>2, <3>1, MessageFacts DEF From, To
  <2>5. QED
    BY <2>1, <2>3, <2>4, FourTypes, VariantField, FixedField
<1>3. QED
  BY <1>1, <1>2

\* Fields of one item do not overlap.
LEMMA OneFieldThere ==
  ASSUME NEW m \in Messages, NEW p, IsItem(m, p), NEW f \in OwnOf(m, p), NEW g \in OwnOf(m, p),
         \/ m.fields[f].start = m.fields[g].start
         \/ m.fields[f].value = m.fields[g].value
         \/ m.fields[f].stop = m.fields[g].stop
  PROVE  f = g
<1>1. Tiled(m, p, From(m, p), To(m, p))
  BY ItemTiled
<1>2. f \in DOMAIN m.fields /\ g \in DOMAIN m.fields
  BY OwnFacts
<1>3. \/ f = g
      \/ m.fields[f].stop <= m.fields[g].start
      \/ m.fields[g].stop <= m.fields[f].start
  BY <1>1 DEF Tiled, OwnOf
<1>4. /\ m.fields[f].start \in Nat /\ m.fields[f].value \in Nat /\ m.fields[f].stop \in Nat
      /\ m.fields[g].start \in Nat /\ m.fields[g].value \in Nat /\ m.fields[g].stop \in Nat
  BY <1>2, FieldTyped
<1>5. /\ m.fields[f].start <= m.fields[f].value /\ m.fields[f].value < m.fields[f].stop
      /\ m.fields[g].start <= m.fields[g].value /\ m.fields[g].value < m.fields[g].stop
  BY <1>2, FieldOrder
<1>6. QED
  BY <1>3, <1>4, <1>5

\* Behind a field comes the next one, or the end of the item.
LEMMA NextField ==
  ASSUME NEW m \in Messages, NEW p, IsItem(m, p), NEW at, Boundary(m, p, at)
  PROVE  /\ at \in Nat /\ From(m, p) <= at /\ at <= To(m, p)
         /\ at = To(m, p) \/ \E f \in OwnOf(m, p) : m.fields[f].start = at
<1>1. Tiled(m, p, From(m, p), To(m, p))
  BY ItemTiled
<1>2. PICK own : own = OwnOf(m, p)
  OBVIOUS
<1>3. {m.fields[f].start : f \in own} \union {To(m, p)}
        = {m.fields[f].stop : f \in own} \union {From(m, p)}
  BY <1>1, <1>2 DEF Tiled, OwnOf
<1>4. at \in {m.fields[f].stop : f \in own} \union {From(m, p)}
  BY <1>2 DEF Boundary
<1>5. at = To(m, p) \/ \E f \in OwnOf(m, p) : m.fields[f].start = at
  BY <1>2, <1>3, <1>4
<1>6. at \in Nat /\ From(m, p) <= at /\ at <= To(m, p)
  <2>1. CASE at = From(m, p)
    BY <2>1, ItemPlaces
  <2>2. CASE at # From(m, p)
    <3>1. PICK f \in OwnOf(m, p) : at = m.fields[f].stop
      BY <2>2 DEF Boundary
    <3>2. /\ From(m, p) <= m.fields[f].start /\ m.fields[f].stop <= To(m, p)
          /\ f \in DOMAIN m.fields
      BY OwnFacts
    <3>3. /\ m.fields[f].start \in Nat /\ m.fields[f].value \in Nat /\ m.fields[f].stop \in Nat
          /\ m.fields[f].start <= m.fields[f].value /\ m.fields[f].value < m.fields[f].stop
      BY <3>2, FieldTyped, FieldOrder
    <3>4. From(m, p) \in Nat
      BY ItemPlaces
    <3>5. QED
      BY <3>1, <3>2, <3>3, <3>4
  <2>3. QED
    BY <2>1, <2>2
<1>7. QED
  BY <1>5, <1>6

-----------------------------------------------------------------------------
(* The items that are open, and the end of the block that each is in.      *)

Frames == [mode : Modes, token : Int, packed : ScalarTypes \union {"None"}, id : Nat]

Innermost(fr) == IF fr = <<>> THEN 0 ELSE fr[Len(fr)].id

HasLength(m, fr, i) == WireTypeOf(m, fr[i].id) = "String"

\* The virtual end of the stream in the first n items: that of the innermost
\* one with a length.
IsBlock(m, fr, n, end) ==
  \/ end = Unbounded /\ \A k \in 1 .. n : ~HasLength(m, fr, k)
  \/ \E k \in 1 .. n : /\ HasLength(m, fr, k) /\ end = m.fields[fr[k].id].end
                       /\ \A h \in 1 .. n : h > k => ~HasLength(m, fr, h)

\* What is remembered of a group, and of an item with a length.
GroupFrame(m, c) ==
  /\ WireTypeOf(m, c.id) = "StartGroup"
  /\ \/ c.mode = "skip" /\ c.token = Number(m, c.id)
     \/ c.mode \in {"read", "copy"} /\ c.token = -Number(m, c.id)

LengthFrame(m, c) ==
  /\ WireTypeOf(m, c.id) = "String"
  /\ \/ m.fields[c.id].kind = "message" /\ c.mode = "read"
     \/ m.fields[c.id].kind \in ScalarTypes /\ c.mode = "packed" /\ c.packed = m.fields[c.id].kind

FrameOK(m, fr, i) ==
  /\ fr[i].id \in OwnOf(m, IF i = 1 THEN 0 ELSE fr[i - 1].id)
  /\ m.fields[fr[i].id].kind # "value" /\ ~InPacked(m, fr[i].id)
  /\ \/ GroupFrame(m, fr[i])
     \/ LengthFrame(m, fr[i]) /\ IsBlock(m, fr, i - 1, fr[i].token)
  /\ \A k \in 1 .. Len(fr) : k < i =>
       /\ m.fields[fr[i].id].stop <= m.fields[fr[k].id].end
       /\ fr[k].mode \in {"copy", "skip"} => fr[i].mode = fr[k].mode

Stacked(m, fr, end) ==
  /\ fr \in Seq(Frames)
  /\ \A i \in 1 .. Len(fr) : FrameOK(m, fr, i)
  /\ IsBlock(m, fr, Len(fr), end)

LEMMA NoFrames ==
  ASSUME NEW m
  PROVE  Stacked(m, <<>>, Unbounded)
<1>1. Len(<<>>) = 0 /\ 1 .. 0 = {} /\ <<>> \in Seq(Frames)
  OBVIOUS
<1>2. IsBlock(m, <<>>, Len(<<>>), Unbounded)
  BY <1>1 DEF IsBlock
<1>3. QED
  BY <1>1, <1>2 DEF Stacked

LEMMA InnermostFacts ==
  ASSUME NEW m \in Messages, NEW fr, NEW end, Stacked(m, fr, end)
  PROVE  /\ IsItem(m, Innermost(fr))
         /\ fr # <<>> => /\ Len(fr) \in 1 .. Len(fr) /\ Len(fr) \in Nat
                         /\ fr[Len(fr)] \in Frames /\ FrameOK(m, fr, Len(fr))
                         /\ Innermost(fr) = fr[Len(fr)].id
                         /\ Innermost(fr) \in DOMAIN m.fields /\ Innermost(fr) # 0
                         /\ m.fields[Innermost(fr)].kind # "value"
                         /\ ~InPacked(m, Innermost(fr))
         /\ fr = <<>> => Innermost(fr) = 0
<1>1. CASE fr = <<>>
  BY <1>1 DEF Innermost, IsItem
<1>2. CASE fr # <<>>
  <2>1. fr \in Seq(Frames) /\ Len(fr) \in 1 .. Len(fr) /\ Len(fr) \in Nat
    BY <1>2 DEF Stacked
  <2>2. fr[Len(fr)] \in Frames /\ FrameOK(m, fr, Len(fr))
    BY <2>1 DEF Stacked
  <2>3. Innermost(fr) = fr[Len(fr)].id
    BY <1>2 DEF Innermost
  <2>4. /\ Innermost(fr) \in DOMAIN m.fields /\ m.fields[Innermost(fr)].kind # "value"
        /\ ~InPacked(m, Innermost(fr))
    BY <2>2, <2>3 DEF FrameOK, OwnOf
  <2>5. Innermost(fr) # 0
    BY <2>4, FieldTyped
  <2>6. QED
    BY <1>2, <2>1, <2>2, <2>3, <2>4, <2>5 DEF IsItem
<1>3. QED
  BY <1>1, <1>2

\* Where the block ends, seen from a place in the innermost item.
LEMMA BlockFacts ==
  ASSUME NEW m \in Messages, NEW fr, NEW end, Stacked(m, fr, end),
         NEW at \in Nat, at <= To(m, Innermost(fr))
  PROVE  /\ end \in Nat
         /\ end <= at => /\ fr # <<>> /\ HasLength(m, fr, Len(fr))
                         /\ at = To(m, Innermost(fr)) /\ at = end
         /\ fr # <<>> /\ HasLength(m, fr, Len(fr)) => end = To(m, Innermost(fr))
<1>1. IsItem(m, Innermost(fr)) /\ IsBlock(m, fr, Len(fr), end)
  BY InnermostFacts DEF Stacked
<1>2. /\ To(m, Innermost(fr)) \in Nat /\ To(m, Innermost(fr)) <= Len(m.cells)
      /\ Len(m.cells) \in Nat /\ Len(m.cells) <= MaxCells /\ MaxCells \in Nat
  BY <1>1, ItemPlaces, MessageFacts, WireAssumption
<1>3. CASE end = Unbounded /\ \A k \in 1 .. Len(fr) : ~HasLength(m, fr, k)
  <2>1. end \in Nat /\ end > at
    BY <1>2, <1>3 DEF Unbounded
  <2>2. fr # <<>> => Len(fr) \in 1 .. Len(fr)
    BY InnermostFacts
  <2>3. QED
    BY <1>3, <2>1, <2>2
<1>4. CASE \E k \in 1 .. Len(fr) : /\ HasLength(m, fr, k) /\ end = m.fields[fr[k].id].end
                                   /\ \A h \in 1 .. Len(fr) : h > k => ~HasLength(m, fr, h)
  <2>1. PICK k \in 1 .. Len(fr) :
          /\ HasLength(m, fr, k) /\ end = m.fields[fr[k].id].end
          /\ \A h \in 1 .. Len(fr) : h > k => ~HasLength(m, fr, h)
    BY <1>4
  <2>2. fr # <<>> /\ Len(fr) \in Nat /\ Len(fr) \in 1 .. Len(fr)
    <3>1. fr \in Seq(Frames)
      BY DEF Stacked
    <3>2. fr # <<>>
      BY <2>1, <3>1
    <3>3. QED
      BY <3>2, InnermostFacts
  <2>3. FrameOK(m, fr, k) /\ fr[k].id \in DOMAIN m.fields
    BY <2>1 DEF Stacked, FrameOK, OwnOf
  <2>4. end \in Nat
    BY <2>1, <2>3, FieldTyped
  <2>5. CASE k = Len(fr)
    <3>1. end = To(m, Innermost(fr))
      BY <2>1, <2>2, <2>5, InnermostFacts DEF To
    <3>2. QED
      BY <1>2, <2>1, <2>2, <2>4, <2>5, <3>1
  <2>6. CASE k # Len(fr)
    <3>1. k < Len(fr) /\ ~HasLength(m, fr, Len(fr))
      BY <2>1, <2>2, <2>6
    <3>2. FrameOK(m, fr, Len(fr)) /\ Innermost(fr) = fr[Len(fr)].id /\ Innermost(fr) # 0
          /\ Innermost(fr) \in DOMAIN m.fields
      BY <2>2, InnermostFacts
    <3>3. m.fields[Innermost(fr)].stop <= end
      BY <2>1, <3>1, <3>2 DEF FrameOK
    <3>4. WireTypeOf(m, Innermost(fr)) = "StartGroup"
      BY <3>1, <3>2 DEF FrameOK, GroupFrame, LengthFrame, HasLength
    <3>5. m.fields[Innermost(fr)].stop = m.fields[Innermost(fr)].end + 1
          /\ m.fields[Innermost(fr)].end \in Nat
      BY <3>2, <3>4, GroupField, FieldTyped
    <3>6. To(m, Innermost(fr)) = m.fields[Innermost(fr)].end
      BY <3>2 DEF To
    <3>7. end > at
      BY <2>4, <3>3, <3>5, <3>6
    <3>8. QED
      BY <2>4, <3>1, <3>7
  <2>7. QED
    BY <2>5, <2>6
<1>5. QED
  BY <1>1, <1>3, <1>4 DEF IsBlock

\* The block around an item with a length ends where the item does, or later.
LEMMA TokenFacts ==
  ASSUME NEW m \in Messages, NEW fr, NEW end, Stacked(m, fr, end), fr # <<>>
  PROVE  /\ HasLength(m, fr, Len(fr)) => /\ fr[Len(fr)].token \in Nat
                                         /\ To(m, Innermost(fr)) <= fr[Len(fr)].token
                                         /\ LengthFrame(m, fr[Len(fr)])
         /\ ~HasLength(m, fr, Len(fr)) => GroupFrame(m, fr[Len(fr)])
<1>1. /\ FrameOK(m, fr, Len(fr)) /\ Innermost(fr) = fr[Len(fr)].id /\ Innermost(fr) # 0
      /\ Innermost(fr) \in DOMAIN m.fields /\ Len(fr) \in Nat /\ Len(fr) \in 1 .. Len(fr)
      /\ IsItem(m, Innermost(fr))
  BY InnermostFacts
<1>2. ~HasLength(m, fr, Len(fr)) => GroupFrame(m, fr[Len(fr)])
  BY <1>1 DEF FrameOK, LengthFrame, HasLength
<1>3. ASSUME HasLength(m, fr, Len(fr))
      PROVE  /\ fr[Len(fr)].token \in Nat /\ To(m, Innermost(fr)) <= fr[Len(fr)].token
             /\ LengthFrame(m, fr[Len(fr)])
  <2>1. LengthFrame(m, fr[Len(fr)]) /\ IsBlock(m, fr, Len(fr) - 1, fr[Len(fr)].token)
    BY <1>1, <1>3 DEF FrameOK, GroupFrame, HasLength
  <2>2. PICK t : t = fr[Len(fr)].token
    OBVIOUS
  <2>3. /\ To(m, Innermost(fr)) \in Nat /\ To(m, Innermost(fr)) <= Len(m.cells)
        /\ Len(m.cells) \in Nat /\ Len(m.cells) <= MaxCells /\ MaxCells \in Nat
        /\ To(m, Innermost(fr)) <= m.fields[Innermost(fr)].stop
    BY <1>1, ItemPlaces, MessageFacts, WireAssumption
  <2>4. CASE t = Unbounded
    BY <2>1, <2>2, <2>3, <2>4 DEF Unbounded
  <2>5. CASE t # Unbounded
    <3>1. PICK k \in 1 .. Len(fr) - 1 : t = m.fields[fr[k].id].end
      BY <2>1, <2>2, <2>5 DEF IsBlock
    <3>2. k \in 1 .. Len(fr) /\ k < Len(fr)
      BY <1>1
    <3>3. FrameOK(m, fr, k) /\ fr[k].id \in DOMAIN m.fields
      BY <3>2 DEF Stacked, FrameOK, OwnOf
    <3>4. t \in Nat /\ m.fields[Innermost(fr)].stop \in Nat
      BY <1>1, <3>1, <3>3, FieldTyped
    <3>5. m.fields[Innermost(fr)].stop <= t
      BY <1>1, <3>1, <3>2 DEF FrameOK
    <3>6. QED
      BY <2>1, <2>2, <2>3, <3>4, <3>5
  <2>6. QED
    BY <2>4, <2>5
<1>4. QED
  BY <1>2, <1>3

LEMMA SameBlock ==
  ASSUME NEW m, NEW fr, NEW gr, NEW n \in Nat, NEW end,
         \A i \in 1 .. n : fr[i] = gr[i], IsBlock(m, fr, n, end)
  PROVE  IsBlock(m, gr, n, end)
<1>1. \A i \in 1 .. n : HasLength(m, fr, i) <=> HasLength(m, gr, i)
  BY DEF HasLength
<1>2. CASE end = Unbounded /\ \A k \in 1 .. n : ~HasLength(m, fr, k)
  BY <1>1, <1>2 DEF IsBlock
<1>3. CASE \E k \in 1 .. n : /\ HasLength(m, fr, k) /\ end = m.fields[fr[k].id].end
                             /\ \A h \in 1 .. n : h > k => ~HasLength(m, fr, h)
  <2>1. PICK k \in 1 .. n : /\ HasLength(m, fr, k) /\ end = m.fields[fr[k].id].end
                            /\ \A h \in 1 .. n : h > k => ~HasLength(m, fr, h)
    BY <1>3
  <2>2. /\ HasLength(m, gr, k) /\ end = m.fields[gr[k].id].end
        /\ \A h \in 1 .. n : h > k => ~HasLength(m, gr, h)
    BY <1>1, <2>1
  <2>3. QED
    BY <2>2 DEF IsBlock
<1>4. QED
  BY <1>2, <1>3 DEF IsBlock

\* Frames that agree up to i are as good as each other.
LEMMA SameFrame ==
  ASSUME NEW m, NEW fr, NEW gr, NEW i \in Nat, i > 0, NEW a \in Nat, NEW b \in Nat,
         Len(fr) = a, Len(gr) = b, i <= a, i <= b,
         \A k \in 1 .. i : fr[k] = gr[k], FrameOK(m, fr, i)
  PROVE  FrameOK(m, gr, i)
<1>1. i \in 1 .. i /\ fr[i] = gr[i]
  OBVIOUS
<1>2. i # 1 => i - 1 \in 1 .. i /\ fr[i - 1] = gr[i - 1]
  OBVIOUS
<1>3. gr[i].id \in OwnOf(m, IF i = 1 THEN 0 ELSE gr[i - 1].id)
  BY <1>1, <1>2 DEF FrameOK
<1>4. \/ GroupFrame(m, gr[i])
      \/ LengthFrame(m, gr[i]) /\ IsBlock(m, gr, i - 1, gr[i].token)
  <2>1. CASE GroupFrame(m, fr[i])
    BY <1>1, <2>1
  <2>2. CASE LengthFrame(m, fr[i]) /\ IsBlock(m, fr, i - 1, fr[i].token)
    <3>1. i - 1 \in Nat /\ \A k \in 1 .. i - 1 : fr[k] = gr[k]
      OBVIOUS
    <3>2. IsBlock(m, gr, i - 1, fr[i].token)
      BY <2>2, <3>1, SameBlock
    <3>3. QED
      BY <1>1, <2>2, <3>2
  <2>3. QED
    BY <2>1, <2>2 DEF FrameOK
<1>5. ASSUME NEW k \in 1 .. Len(gr), k < i
      PROVE  /\ m.fields[gr[i].id].stop <= m.fields[gr[k].id].end
             /\ gr[k].mode \in {"copy", "skip"} => gr[i].mode = gr[k].mode
  <2>1. k \in 1 .. Len(fr) /\ fr[k] = gr[k]
    BY <1>5
  <2>2. QED
    BY <1>1, <1>5, <2>1 DEF FrameOK
<1>6. m.fields[gr[i].id].kind # "value" /\ ~InPacked(m, gr[i].id)
  BY <1>1 DEF FrameOK
<1>7. QED
  BY <1>3, <1>4, <1>5, <1>6 DEF FrameOK

\* A call into an item.
LEMMA Entered ==
  ASSUME NEW m \in Messages, NEW fr, NEW end, Stacked(m, fr, end),
         NEW c \in Frames, c.id \in OwnOf(m, Innermost(fr)),
         m.fields[c.id].kind # "value", ~InPacked(m, c.id),
         \/ GroupFrame(m, c)
         \/ LengthFrame(m, c) /\ c.token = end,
         fr # <<>> /\ fr[Len(fr)].mode \in {"copy", "skip"} => c.mode = fr[Len(fr)].mode
  PROVE  /\ Append(fr, c) # <<>> /\ Innermost(Append(fr, c)) = c.id
         /\ Stacked(m, Append(fr, c), IF GroupFrame(m, c) THEN end ELSE m.fields[c.id].end)
<1>1. fr \in Seq(Frames) /\ Len(fr) \in Nat
  BY DEF Stacked
<1>2. PICK n \in Nat : n = Len(fr)
  BY <1>1
<1>3. PICK gr : gr = Append(fr, c)
  OBVIOUS
<1>4. /\ gr \in Seq(Frames) /\ Len(gr) = n + 1 /\ gr # <<>>
      /\ gr[n + 1] = c /\ \A i \in 1 .. n : gr[i] = fr[i]
  BY <1>1, <1>2, <1>3
<1>5. Innermost(gr) = c.id
  BY <1>4 DEF Innermost
<1>6. ASSUME NEW i \in 1 .. n PROVE FrameOK(m, gr, i)
  <2>1. FrameOK(m, fr, i)
    BY <1>2 DEF Stacked
  <2>2. /\ i \in Nat /\ i > 0 /\ i <= n /\ i <= n + 1 /\ n + 1 \in Nat
        /\ \A k \in 1 .. i : fr[k] = gr[k]
    BY <1>4
  <2>3. QED
    BY <1>2, <1>4, <2>1, <2>2, SameFrame
<1>7. FrameOK(m, gr, n + 1)
  <2>1. (IF n + 1 = 1 THEN 0 ELSE gr[n + 1 - 1].id) = Innermost(fr)
    <3>1. CASE n = 0
      <4>1. fr = <<>>
        <5>1. fr # <<>> => Len(fr) \in 1 .. Len(fr)
          BY InnermostFacts
        <5>2. Len(fr) = 0
          BY <1>2, <3>1
        <5>3. QED
          BY <5>1, <5>2
      <4>2. Innermost(fr) = 0 /\ n + 1 = 1
        BY <3>1, <4>1 DEF Innermost
      <4>3. QED
        BY <4>2
    <3>2. CASE n # 0
      <4>1. n + 1 - 1 = n /\ n \in 1 .. n /\ fr # <<>> /\ n + 1 # 1
        BY <1>1, <1>2, <3>2
      <4>2. gr[n + 1 - 1] = fr[n]
        BY <1>4, <4>1
      <4>3. QED
        BY <1>2, <4>1, <4>2 DEF Innermost
    <3>3. QED
      BY <3>1, <3>2
  <2>2. \/ GroupFrame(m, c)
        \/ LengthFrame(m, c) /\ IsBlock(m, gr, n + 1 - 1, c.token)
    <3>1. IsBlock(m, gr, n, end)
      <4>1. IsBlock(m, fr, n, end) /\ \A i \in 1 .. n : fr[i] = gr[i]
        BY <1>2, <1>4 DEF Stacked
      <4>2. QED
        BY <4>1, SameBlock
    <3>2. n + 1 - 1 = n
      OBVIOUS
    <3>3. QED
      BY <3>1, <3>2
  <2>3. ASSUME NEW k \in 1 .. n
        PROVE  /\ m.fields[c.id].stop <= m.fields[fr[k].id].end
               /\ fr[k].mode \in {"copy", "skip"} => c.mode = fr[k].mode
    <3>1. fr # <<>> /\ n \in 1 .. n
      BY <1>1, <1>2
    <3>2. /\ FrameOK(m, fr, n) /\ Innermost(fr) = fr[n].id /\ Innermost(fr) # 0
          /\ IsItem(m, Innermost(fr)) /\ Innermost(fr) \in DOMAIN m.fields
      BY <1>2, <3>1, InnermostFacts
    <3>3. m.fields[c.id].stop <= m.fields[fr[n].id].end
          /\ m.fields[fr[n].id].end <= m.fields[fr[n].id].stop
      BY <3>2, OwnFacts, ItemPlaces DEF To
    <3>4. CASE k = n
      BY <1>2, <3>1, <3>3, <3>4
    <3>5. CASE k # n
      <4>1. k \in 1 .. Len(fr) /\ k < n
        BY <1>2, <3>5
      <4>2. /\ m.fields[fr[n].id].stop <= m.fields[fr[k].id].end
            /\ fr[k].mode \in {"copy", "skip"} => fr[n].mode = fr[k].mode
        BY <3>2, <4>1 DEF FrameOK
      <4>3. FrameOK(m, fr, k) /\ fr[k].id \in DOMAIN m.fields
        BY <4>1 DEF Stacked, FrameOK, OwnOf
      <4>4. c.id \in DOMAIN m.fields
        BY DEF OwnOf
      <4>5. /\ m.fields[c.id].stop \in Nat /\ m.fields[fr[n].id].end \in Nat
            /\ m.fields[fr[n].id].stop \in Nat /\ m.fields[fr[k].id].end \in Nat
        BY <3>2, <4>3, <4>4, FieldTyped
      <4>6. m.fields[c.id].stop <= m.fields[fr[k].id].end
        BY <3>3, <4>2, <4>5
      <4>7. QED
        BY <1>2, <3>1, <4>2, <4>6
    <3>6. QED
      BY <3>4, <3>5
  <2>4. ASSUME NEW k \in 1 .. Len(gr), k < n + 1
        PROVE  /\ m.fields[gr[n + 1].id].stop <= m.fields[gr[k].id].end
               /\ gr[k].mode \in {"copy", "skip"} => gr[n + 1].mode = gr[k].mode
    <3>1. k \in 1 .. n /\ gr[k] = fr[k] /\ gr[n + 1] = c
      BY <1>4, <2>4
    <3>2. QED
      BY <2>3, <3>1
  <2>5. gr[n + 1] = c
    BY <1>4
  <2>6. QED
    BY <2>1, <2>2, <2>4, <2>5 DEF FrameOK
<1>8. \A i \in 1 .. Len(gr) : FrameOK(m, gr, i)
  <2>1. TAKE i \in 1 .. Len(gr)
  <2>2. i \in 1 .. n \/ i = n + 1
    BY <1>4
  <2>3. QED
    BY <1>6, <1>7, <2>2
<1>9. IsBlock(m, gr, Len(gr), IF GroupFrame(m, c) THEN end ELSE m.fields[c.id].end)
  <2>1. /\ HasLength(m, gr, n + 1) <=> WireTypeOf(m, c.id) = "String"
        /\ \A i \in 1 .. n : HasLength(m, gr, i) <=> HasLength(m, fr, i)
    BY <1>4 DEF HasLength
  <2>2. CASE GroupFrame(m, c)
    <3>1. ~HasLength(m, gr, n + 1)
      BY <2>1, <2>2 DEF GroupFrame
    <3>2. IsBlock(m, fr, n, end)
      BY <1>2 DEF Stacked
    <3>3. CASE end = Unbounded /\ \A k \in 1 .. n : ~HasLength(m, fr, k)
      <4>1. \A k \in 1 .. n + 1 : ~HasLength(m, gr, k)
        <5>1. \A k \in 1 .. n + 1 : k \in 1 .. n \/ k = n + 1
          OBVIOUS
        <5>2. QED
          BY <2>1, <3>1, <3>3, <5>1
      <4>2. QED
        BY <1>4, <2>2, <3>3, <4>1 DEF IsBlock
    <3>4. CASE \E k \in 1 .. n : /\ HasLength(m, fr, k) /\ end = m.fields[fr[k].id].end
                                 /\ \A h \in 1 .. n : h > k => ~HasLength(m, fr, h)
      <4>1. PICK k \in 1 .. n : /\ HasLength(m, fr, k) /\ end = m.fields[fr[k].id].end
                                /\ \A h \in 1 .. n : h > k => ~HasLength(m, fr, h)
        BY <3>4
      <4>2. /\ k \in 1 .. n + 1 /\ HasLength(m, gr, k) /\ end = m.fields[gr[k].id].end
            /\ \A h \in 1 .. n + 1 : h \in 1 .. n \/ h = n + 1
        BY <1>4, <2>1, <4>1
      <4>3. \A h \in 1 .. n + 1 : h > k => ~HasLength(m, gr, h)
        BY <2>1, <3>1, <4>1, <4>2
      <4>4. QED
        BY <1>4, <2>2, <4>2, <4>3 DEF IsBlock
    <3>5. QED
      BY <3>2, <3>3, <3>4 DEF IsBlock
  <2>3. CASE ~GroupFrame(m, c)
    <3>1. HasLength(m, gr, n + 1) /\ n + 1 \in 1 .. n + 1
      BY <2>1, <2>3 DEF LengthFrame
    <3>2. \A h \in 1 .. n + 1 : h > n + 1 => ~HasLength(m, gr, h)
      OBVIOUS
    <3>3. \E k \in 1 .. n + 1 : /\ HasLength(m, gr, k) /\ m.fields[c.id].end = m.fields[gr[k].id].end
                                /\ \A h \in 1 .. n + 1 : h > k => ~HasLength(m, gr, h)
      BY <1>4, <3>1, <3>2
    <3>4. QED
      BY <1>4, <2>3, <3>3 DEF IsBlock
  <2>4. QED
    BY <2>2, <2>3
<1>10. QED
  BY <1>3, <1>4, <1>5, <1>8, <1>9 DEF Stacked

\* ... and the return from it.
LEMMA Returned ==
  ASSUME NEW m \in Messages, NEW fr, NEW end, Stacked(m, fr, end), fr # <<>>
  PROVE  /\ Stacked(m, Front(fr), IF HasLength(m, fr, Len(fr)) THEN fr[Len(fr)].token ELSE end)
         /\ Innermost(fr) \in OwnOf(m, Innermost(Front(fr)))
<1>1. fr \in Seq(Frames) /\ Len(fr) \in Nat /\ Len(fr) > 0
  BY DEF Stacked
<1>2. PICK n \in Nat : n + 1 = Len(fr)
  <2>1. Len(fr) - 1 \in Nat /\ Len(fr) - 1 + 1 = Len(fr)
    BY <1>1
  <2>2. QED
    BY <2>1
<1>3. PICK gr : gr = Front(fr)
  OBVIOUS
<1>4. gr \in Seq(Frames) /\ Len(gr) = n /\ \A i \in 1 .. n : gr[i] = fr[i]
  <2>1. gr = SubSeq(fr, 1, n)
    BY <1>2, <1>3 DEF Front
  <2>2. QED
    BY <1>1, <1>2, <2>1
<1>5. \A i \in 1 .. n + 1 : FrameOK(m, fr, i)
  BY <1>2 DEF Stacked
<1>6. ASSUME NEW i \in 1 .. n PROVE FrameOK(m, gr, i)
  <2>1. /\ i \in Nat /\ i > 0 /\ i <= n /\ i <= n + 1 /\ n + 1 \in Nat
        /\ \A k \in 1 .. i : fr[k] = gr[k]
    BY <1>4
  <2>2. FrameOK(m, fr, i)
    BY <1>5
  <2>3. QED
    BY <1>2, <1>4, <2>1, <2>2, SameFrame
<1>7. n + 1 \in 1 .. n + 1 /\ n + 1 - 1 = n /\ FrameOK(m, fr, n + 1)
  BY <1>5
<1>8. Innermost(fr) \in OwnOf(m, Innermost(gr))
  <2>1. Innermost(fr) = fr[n + 1].id
    BY <1>2 DEF Innermost
  <2>2. (IF n + 1 = 1 THEN 0 ELSE fr[n + 1 - 1].id) = Innermost(gr)
    <3>1. CASE n = 0
      BY <1>4, <3>1 DEF Innermost
    <3>2. CASE n # 0
      <4>1. gr # <<>> /\ gr[n] = fr[n] /\ n + 1 # 1
        BY <1>4, <3>2
      <4>2. QED
        BY <1>4, <1>7, <4>1 DEF Innermost
    <3>3. QED
      BY <3>1, <3>2
  <2>3. QED
    BY <1>7, <2>1, <2>2 DEF FrameOK
<1>9. ASSUME NEW e, IsBlock(m, fr, n, e) PROVE IsBlock(m, gr, n, e)
  <2>1. \A i \in 1 .. n : fr[i] = gr[i]
    BY <1>4
  <2>2. QED
    BY <1>9, <2>1, SameBlock
<1>10. CASE HasLength(m, fr, n + 1)
  <2>1. IsBlock(m, fr, n, fr[n + 1].token)
    BY <1>7, <1>10 DEF FrameOK, GroupFrame, HasLength
  <2>2. QED
    BY <1>2, <1>3, <1>4, <1>6, <1>8, <1>9, <1>10, <2>1 DEF Stacked
<1>11. CASE ~HasLength(m, fr, n + 1)
  <2>1. IsBlock(m, fr, n + 1, end)
    BY <1>2 DEF Stacked
  <2>2. \A k \in 1 .. n : k \in 1 .. n + 1
    OBVIOUS
  <2>3. IsBlock(m, fr, n, end)
    <3>1. CASE end = Unbounded /\ \A k \in 1 .. n + 1 : ~HasLength(m, fr, k)
      BY <2>2, <3>1 DEF IsBlock
    <3>2. CASE \E k \in 1 .. n + 1 :
                 /\ HasLength(m, fr, k) /\ end = m.fields[fr[k].id].end
                 /\ \A h \in 1 .. n + 1 : h > k => ~HasLength(m, fr, h)
      <4>1. PICK k \in 1 .. n + 1 : /\ HasLength(m, fr, k) /\ end = m.fields[fr[k].id].end
                                    /\ \A h \in 1 .. n + 1 : h > k => ~HasLength(m, fr, h)
        BY <3>2
      <4>2. k # n + 1
        BY <1>11, <4>1
      <4>3. k \in 1 .. n
        BY <4>2
      <4>4. \A h \in 1 .. n : h > k => ~HasLength(m, fr, h)
        BY <2>2, <4>1
      <4>5. QED
        BY <4>1, <4>3, <4>4 DEF IsBlock
    <3>3. QED
      BY <2>1, <3>1, <3>2 DEF IsBlock
  <2>4. QED
    BY <1>2, <1>3, <1>4, <1>6, <1>8, <1>9, <1>11, <2>3 DEF Stacked
<1>12. QED
  BY <1>10, <1>11

-----------------------------------------------------------------------------
(* What arrives of a message, and the field that the reader is at.         *)

IsSent(m) ==
  /\ m \in Messages
  /\ source.fields = m.fields
  /\ source.length = Len(m.cells)
  /\ source.cut \in 0 .. Len(m.cells) /\ source.cut <= Len(source.cells)
  /\ source.complete <=> source.cut = Len(m.cells)
  /\ (source.fixed /\ source.complete) \/ Len(source.cells) = source.cut
  /\ \A i \in 1 .. source.cut : source.cells[i] = m.cells[i]

LEMMA OpenItemIs == OpenItem = Innermost(frames)
BY DEF OpenItem, Innermost, Last

AtValueOf(m, f) ==
  /\ m \in Messages /\ source.fields = m.fields /\ IsItem(m, Innermost(frames))
  /\ f \in OwnOf(m, Innermost(frames))
  /\ \/ pc = "value" /\ io.position = m.fields[f].value
     \/ pc = "bytes" /\ io.position = m.fields[f].stop

LEMMA CurrentIs == \A m, f : AtValueOf(m, f) => Current = f
<1> SUFFICES ASSUME NEW m, NEW f, AtValueOf(m, f) PROVE Current = f
  OBVIOUS
<1>1. CASE pc = "value" 
  <2>1. PICK S : S = {g \in DOMAIN Tree : Tree[g].parent = OpenItem /\ Tree[g].value = io.position}
    OBVIOUS
  <2>2. S = {f}
    <3>1. /\ Tree = m.fields /\ OpenItem = Innermost(frames) /\ f \in OwnOf(m, Innermost(frames))
          /\ m.fields[f].value = io.position
      BY <1>1, OpenItemIs DEF AtValueOf, Tree
    <3>2. f \in S
      BY <2>1, <3>1 DEF OwnOf
    <3>3. ASSUME NEW g \in S PROVE g = f
      BY <2>1, <3>1, OneFieldThere DEF OwnOf, AtValueOf
    <3>4. QED
      BY <3>2, <3>3
  <2>3. Current = IF S = {} THEN 0 ELSE CHOOSE g \in S : TRUE
    BY <1>1, <2>1 DEF Current, FieldWhere
  <2>4. QED
    BY <2>2, <2>3
<1>2. CASE pc = "bytes" 
  <2>1. PICK S : S = {g \in DOMAIN Tree : Tree[g].parent = OpenItem /\ Tree[g].stop = io.position}
    OBVIOUS
  <2>2. S = {f}
    <3>1. /\ Tree = m.fields /\ OpenItem = Innermost(frames) /\ f \in OwnOf(m, Innermost(frames))
          /\ m.fields[f].stop = io.position
      BY <1>2, OpenItemIs DEF AtValueOf, Tree
    <3>2. f \in S
      BY <2>1, <3>1 DEF OwnOf
    <3>3. ASSUME NEW g \in S PROVE g = f
      BY <2>1, <3>1, OneFieldThere DEF OwnOf, AtValueOf
    <3>4. QED
      BY <3>2, <3>3
  <2>3. Current = IF S = {} THEN 0 ELSE CHOOSE g \in S : TRUE
    BY <1>2, <2>1 DEF Current, FieldWhere
  <2>4. QED
    BY <2>2, <2>3
<1>3. QED
  BY <1>1, <1>2 DEF AtValueOf

LEMMA CurrentWillBe == (\A m, f : AtValueOf(m, f) => Current = f)'
BY CurrentIs, PTL

-----------------------------------------------------------------------------
(* The window on a message.                                                *)

LEMMA WindowIsSent ==
  ASSUME SourceOK, NEW m, IsSent(m), NEW b, NEW at, WindowAt(b, at)
  PROVE  /\ at \in Nat /\ Len(b.window) \in Nat /\ b.window \in Seq(Cells)
         /\ \A i \in 1 .. Len(b.window) :
              at + i <= source.cut /\ b.window[i] = m.cells[at + i]
         /\ Len(b.window) > 0 => at + Len(b.window) <= source.cut
<1>1. /\ b.window \in Seq(Cells) /\ Len(b.window) \in Nat /\ at \in Nat
      /\ b.fetched \in Nat /\ b.remaining \in Nat
      /\ Len(source.cells) \in Nat /\ source.cut \in Nat /\ source.length \in Nat
      /\ Len(m.cells) \in Nat
  <2>1. m \in Messages /\ source.cut \in 0 .. Len(m.cells)
    BY DEF IsSent
  <2>2. Len(m.cells) \in Nat
    BY <2>1, MessageFacts
  <2>3. QED
    BY <2>1, <2>2, Typed DEF SourceOK
<1>2. /\ at + Len(b.window) = b.fetched
      /\ Len(b.window) > 0 => b.fetched <= Len(source.cells)
      /\ \A i \in 1 .. Len(b.window) : b.window[i] = source.cells[at + i]
      /\ source.fixed => b.fetched <= source.length
  BY DEF WindowAt
<1>3. Len(b.window) > 0 => b.fetched <= source.cut
  BY <1>1, <1>2 DEF IsSent
<1>4. ASSUME NEW i \in 1 .. Len(b.window)
      PROVE  at + i <= source.cut /\ b.window[i] = m.cells[at + i]
  <2>1. at + i <= source.cut /\ at + i \in 1 .. source.cut
    BY <1>1, <1>2, <1>3
  <2>2. source.cells[at + i] = m.cells[at + i]
    BY <2>1 DEF IsSent
  <2>3. QED
    BY <1>2, <2>1, <2>2
<1>5. QED
  BY <1>1, <1>2, <1>3, <1>4

LEMMA ShiftedRoom ==
  ASSUME NEW b, NEW at, WindowAt(b, at), NEW count \in Nat
  PROVE  LET s == Shifted(b, count) IN
         s.size - s.index >= count /\ s.fetched = b.fetched /\ s.remaining = b.remaining
<1>1. b \in Buffers /\ b.index \in Nat /\ b.size \in Nat
  BY Typed
<1>2. \A i, z : LET c == Built(b.window, i, z, b.position, b.fetched, b.remaining) IN
                c.size = z /\ c.index = i /\ c.fetched = b.fetched /\ c.remaining = b.remaining
  BY DEF Built
<1>3. CASE count > b.size
  <2>1. ~(count <= b.size)
    BY <1>1, <1>3
  <2>2. Shifted(b, count) = [b EXCEPT !.size = Longer(b.size, count), !.index = 0]
    BY <1>3, <2>1, Zenon DEF Shifted
  <2>3. Shifted(b, count) = Built(b.window, 0, Longer(b.size, count), b.position, b.fetched,
                                  b.remaining)
    BY <1>1, <2>2, Exchanged, Zenon
  <2>4. Longer(b.size, count) \in Nat /\ Longer(b.size, count) >= count
    BY <1>1 DEF Longer
  <2>5. QED
    BY <1>2, <2>3, <2>4
<1>4. CASE count <= b.size /\ b.index + count >= b.size
  <2>1. ~(count > b.size)
    BY <1>1, <1>4
  <2>2. Shifted(b, count) = [b EXCEPT !.index = 0]
    BY <1>4, <2>1, Zenon DEF Shifted
  <2>3. Shifted(b, count) = Built(b.window, 0, b.size, b.position, b.fetched, b.remaining)
    BY <1>1, <2>2, Reindexed, Zenon
  <2>4. QED
    BY <1>1, <1>2, <1>4, <2>3
<1>5. CASE ~(count > b.size) /\ ~(count <= b.size /\ b.index + count >= b.size)
  <2>1. Shifted(b, count) = b
    BY <1>5 DEF Shifted
  <2>2. QED
    BY <1>1, <1>5, <2>1
<1>6. QED
  BY <1>3, <1>4, <1>5

\* Ensure gets what it was asked for, or all that there is of the message.
LEMMA EnsuredGets ==
  ASSUME SourceOK, NEW m, IsSent(m), NEW b, NEW at, WindowAt(b, at),
         NEW count \in Nat, Len(b.window) <= count, NEW e \in Ensured(b, count)
  PROVE  Len(e.window) >= count \/ at + Len(e.window) >= source.cut
<1> DEFINE s == Shifted(b, count)
           most == Least(CanRead(s), Left(s))
           low == Least(count - Len(b.window), most)
<1>1. /\ WindowAt(s, at) /\ s.window = b.window
      /\ s.size - s.index >= count
  BY ShiftedAt, ShiftedRoom
<1>2. PICK n \in low .. most : e = Took(s, n)
  BY DEF Ensured
<1> HIDE DEF s
<1>3. /\ s.index \in Nat /\ s.size \in Nat /\ Len(s.window) \in Nat /\ at \in Nat
      /\ s.remaining \in Nat /\ s.index + Len(s.window) <= s.size /\ s.fetched \in Nat
      /\ at + Len(s.window) = s.fetched /\ s \in Buffers
      /\ source.fixed => s.fetched <= source.length /\ s.remaining = source.length - s.fetched
  BY <1>1 DEF WindowAt, Buffers
<1>4. PICK space \in Nat : space = s.size - s.index - Len(s.window)
  <2>1. s.size - s.index - Len(s.window) \in Nat
    BY <1>3
  <2>2. QED
    BY <2>1
<1>5. CanRead(s) = IF source.fixed THEN IF space < s.remaining THEN space ELSE s.remaining
                   ELSE space
  BY <1>4 DEF CanRead, Least
<1>6. /\ Len(source.cells) \in Nat /\ source.cut \in Nat /\ source.cut <= Len(source.cells)
      /\ source.length \in Nat /\ source.cut <= source.length
  <2>1. /\ m \in Messages /\ source.cut \in 0 .. Len(m.cells)
        /\ source.cut <= Len(source.cells) /\ source.length = Len(m.cells)
    BY DEF IsSent
  <2>2. Len(m.cells) \in Nat
    BY <2>1, MessageFacts
  <2>3. QED
    BY <2>1, <2>2 DEF SourceOK
<1>7. Left(s) = IF s.fetched < Len(source.cells) THEN Len(source.cells) - s.fetched ELSE 0
  BY DEF Left
<1>8. Len(b.window) = Len(s.window)
  BY <1>1
<1>9. /\ CanRead(s) \in Nat /\ Left(s) \in Nat
      /\ CanRead(s) = space \/ s.fetched + CanRead(s) >= source.cut
      /\ s.fetched + Left(s) >= source.cut
  <2>1. Left(s) \in Nat /\ s.fetched + Left(s) >= source.cut
    <3>1. PICK f, c, l : f \in Nat /\ c \in Nat /\ f = s.fetched /\ c = Len(source.cells) /\ l = Left(s)
      BY <1>3, <1>6
    <3>2. l = IF f < c THEN c - f ELSE 0
      BY <1>7, <3>1
    <3>3. l \in Nat /\ f + l >= c
      BY <3>1, <3>2
    <3>4. QED
      BY <1>6, <3>1, <3>3
  <2>2. CASE CanRead(s) = space
    BY <2>1, <2>2
  <2>3. CASE CanRead(s) # space
    <3>1. source.fixed /\ CanRead(s) = s.remaining
      BY <1>5, <2>3
    <3>2. s.fetched <= source.length /\ s.remaining = source.length - s.fetched
      BY <1>3, <3>1
    <3>3. QED
      BY <1>3, <1>6, <2>1, <3>1, <3>2
  <2>4. QED
    BY <2>2, <2>3
<1>10. /\ most \in Nat /\ most <= CanRead(s) /\ most <= Left(s) /\ low \in Nat
       /\ most = CanRead(s) \/ most = Left(s)
       /\ low = most \/ low = count - Len(s.window)
  BY <1>3, <1>8, <1>9 DEF Least
<1> HIDE DEF most, low
<1>11. n \in Nat /\ low <= n /\ n <= CanRead(s) /\ n <= Left(s)
  BY <1>9, <1>10
<1>12. WindowAt(e, at)
  BY <1>1, <1>2, <1>11, TookAt
<1>13. e.fetched = s.fetched + n
  <2>1. PICK c : c = s
    OBVIOUS
  <2>2. PICK w : w = s.window \o SubSeq(source.cells, s.fetched + 1, s.fetched + n)
    OBVIOUS
  <2>3. PICK r : r = IF source.fixed THEN s.remaining - n ELSE s.remaining
    OBVIOUS
  <2>4. e = [s EXCEPT !.window = w, !.fetched = s.fetched + n, !.remaining = r]
    BY <1>2, <2>2, <2>3, Zenon DEF Took
  <2>5. QED
    BY <1>3, <2>4 DEF Buffers
<1>14. at + Len(e.window) = e.fetched /\ Len(e.window) \in Nat
  BY <1>12 DEF WindowAt, Buffers
<1>15. space >= count - Len(s.window)
  BY <1>1, <1>3, <1>4
<1>16. CASE low = count - Len(s.window)
  BY <1>3, <1>11, <1>13, <1>14, <1>16
<1>17. CASE low = most
  <2>1. CASE most = Left(s)
    BY <1>3, <1>6, <1>9, <1>11, <1>13, <1>14, <1>17, <2>1
  <2>2. CASE most = CanRead(s)
    BY <1>3, <1>4, <1>6, <1>9, <1>11, <1>13, <1>14, <1>15, <1>17, <2>2
  <2>3. QED
    BY <1>10, <2>1, <2>2
<1>18. QED
  BY <1>10, <1>16, <1>17

LEMMA WithGets ==
  ASSUME SourceOK, NEW m, IsSent(m), NEW at, WindowAt(io, at),
         NEW count \in Nat, NEW b \in With(count)
  PROVE  Len(b.window) >= count \/ at + Len(b.window) >= source.cut
<1>1. Len(io.window) \in Nat
  BY DEF WindowAt, Buffers
<1>2. CASE Len(io.window) < count
  <2>1. Len(io.window) <= count
    BY <1>1, <1>2
  <2>2. b \in Ensured(io, count)
    BY <1>2 DEF With
  <2>3. QED
    BY <2>1, <2>2, EnsuredGets
<1>3. CASE ~(Len(io.window) < count)
  <2>1. b = io
    BY <1>3 DEF With
  <2>2. QED
    BY <1>1, <1>3, <2>1
<1>4. QED
  BY <1>2, <1>3

-----------------------------------------------------------------------------
(* The steps of the walk.                                                  *)

Place == IF pc = "bytes" THEN blob.from + 1 ELSE io.position

Idle == pc \notin {"value", "bytes"}

LEMMA NoCurrent == Idle => Current = 0
BY DEF Current, Idle

LEMMA NoCurrentNext == (Idle => Current = 0)'
BY NoCurrent, PTL

LEMMA OpenIs ==
  ASSUME NEW m \in Messages, NEW end, Stacked(m, frames, end)
  PROVE  /\ Cursor!Parent = Innermost(frames)
         /\ [i \in DOMAIN frames |-> frames[i].id] = <<>> <=> frames = <<>>
<1>1. frames \in Seq(Frames)
  BY DEF Stacked
<1>2. PICK o : o = [i \in DOMAIN frames |-> frames[i].id]
  OBVIOUS
<1>3. o = [i \in 1 .. Len(frames) |-> frames[i].id] /\ Len(frames) \in Nat
  BY <1>1, <1>2
<1>4. o \in Seq(Nat) /\ Len(o) = Len(frames)
  <2>1. \A i \in 1 .. Len(frames) : frames[i] \in Frames
    BY <1>1
  <2>2. \A i \in 1 .. Len(frames) : frames[i].id \in Nat
    BY <2>1 DEF Frames
  <2>3. QED
    BY <1>3, <2>2
<1>5. CASE frames = <<>>
  <2>1. o = <<>>
    BY <1>3, <1>5
  <2>2. QED
    BY <1>2, <1>5, <2>1 DEF Cursor!Parent, Innermost
<1>6. CASE frames # <<>>
  <2>1. Len(frames) \in 1 .. Len(frames)
    BY <1>6, InnermostFacts
  <2>2. o # <<>>
    BY <1>3, <1>4, <2>1
  <2>3. o[Len(o)] = frames[Len(frames)].id
    BY <1>3, <1>4, <2>1
  <2>4. QED
    BY <1>2, <1>6, <2>2, <2>3 DEF Cursor!Parent, Innermost
<1>7. QED
  BY <1>5, <1>6

LEMMA CursorStutters ==
  ASSUME UNCHANGED <<source, frames, status>>, Place' = Place, Current' = Current
  PROVE  UNCHANGED Cursor!vars
<1>1. (IF pc = "bytes" THEN blob.from + 1 ELSE io.position)' =
      (IF pc = "bytes" THEN blob.from + 1 ELSE io.position)
  BY DEF Place
<1>2. Tree' = Tree
  BY DEF Tree
<1>3. QED
  BY <1>1, <1>2 DEF Cursor!vars

LEMMA CursorTakes ==
  ASSUME NEW m \in Messages, source.fields = m.fields, Stacked(m, frames, blockEnd),
         status = "reading", NEW f \in OwnOf(m, Innermost(frames)),
         Current = 0, Place = m.fields[f].start,
         Current' = f, Place' = m.fields[f].value,
         UNCHANGED <<source, frames, status>>
  PROVE  Cursor!Next
<1>1. Tree = m.fields /\ Tree' = Tree
  BY DEF Tree
<1>2. f \in DOMAIN Tree /\ Tree[f].parent = Cursor!Parent
  BY <1>1, OpenIs DEF OwnOf
<1>3. Cursor!Take
  BY <1>1, <1>2 DEF Cursor!Take, Cursor!input, Place
<1>4. QED
  BY <1>3 DEF Cursor!Next

LEMMA CursorLeaves ==
  ASSUME NEW m \in Messages, source.fields = m.fields,
         status = "reading", NEW f \in DOMAIN m.fields,
         Current = f, Current' = 0, Place' = m.fields[f].stop,
         UNCHANGED <<source, frames, status>>
  PROVE  Cursor!Next
<1>1. Tree = m.fields /\ Tree' = Tree /\ f # 0
  BY FieldTyped DEF Tree
<1>2. Cursor!Leave
  BY <1>1 DEF Cursor!Leave, Cursor!input, Place
<1>3. QED
  BY <1>2 DEF Cursor!Next

LEMMA CursorEnters ==
  ASSUME NEW m \in Messages, source.fields = m.fields, Stacked(m, frames, blockEnd),
         status = "reading", NEW f \in DOMAIN m.fields, NEW c \in Frames, c.id = f,
         Current = f, Current' = 0, Place' = m.fields[f].body,
         frames' = Append(frames, c),
         UNCHANGED <<source, status>>
  PROVE  Cursor!Next
<1>1. Tree = m.fields /\ Tree' = Tree /\ f # 0
  BY FieldTyped DEF Tree
<1>2. [i \in DOMAIN frames |-> frames[i].id]' = Append([i \in DOMAIN frames |-> frames[i].id], f)
  <2>1. frames \in Seq(Frames)
    BY DEF Stacked
  <2>0. PICK n \in Nat : n = Len(frames)
    BY <2>1
  <2>2. PICK fr, gr : n = Len(frames) /\ fr = frames /\ gr = frames'
    BY <2>0
  <2>3. /\ fr \in Seq(Frames) /\ gr = Append(fr, c) /\ Len(fr) = n
        /\ DOMAIN fr = 1 .. n /\ DOMAIN gr = 1 .. n + 1
        /\ gr[n + 1] = c /\ \A i \in 1 .. n : gr[i] = fr[i]
    BY <2>1, <2>2
  <2>4. PICK o : o = [i \in 1 .. n |-> fr[i].id]
    OBVIOUS
  <2>5. PICK p : p = [i \in 1 .. n + 1 |-> gr[i].id]
    OBVIOUS
  <2>6. o \in Seq(Nat) /\ Len(o) = n
    <3>1. \A i \in 1 .. n : fr[i] \in Frames
      BY <2>3
    <3>2. \A i \in 1 .. n : fr[i].id \in Nat
      BY <3>1 DEF Frames
    <3>3. QED
      BY <2>4, <3>2
  <2>7. p = Append(o, f)
    <3>1. f \in Nat
      BY FieldTyped
    <3>2. PICK q : q = Append(o, f)
      OBVIOUS
    <3>3. /\ q \in Seq(Nat) /\ Len(q) = n + 1 /\ q[n + 1] = f
          /\ \A i \in 1 .. n : q[i] = o[i]
      BY <2>6, <3>1, <3>2
    <3>4. q = [i \in 1 .. n + 1 |-> q[i]]
      BY <3>3
    <3>5. \A i \in 1 .. n + 1 : q[i] = p[i]
      <4>1. TAKE i \in 1 .. n + 1
      <4>2. CASE i = n + 1
        BY <2>3, <2>5, <3>3, <4>2
      <4>3. CASE i # n + 1
        <5>1. i \in 1 .. n
          BY <4>3
        <5>2. QED
          BY <2>3, <2>4, <2>5, <3>3, <5>1
      <4>4. QED
        BY <4>2, <4>3
    <3>6. p = [i \in 1 .. n + 1 |-> p[i]]
      BY <2>5
    <3>7. QED
      BY <3>2, <3>4, <3>5, <3>6
  <2>8. [i \in DOMAIN frames |-> frames[i].id] = o
    BY <2>2, <2>3, <2>4
  <2>9. [i \in DOMAIN frames |-> frames[i].id]' = p
    BY <2>2, <2>3, <2>5
  <2>10. QED
    BY <2>7, <2>8, <2>9
<1>3. Cursor!Enter
  BY <1>1, <1>2 DEF Cursor!Enter, Cursor!input, Place
<1>4. QED
  BY <1>3 DEF Cursor!Next

LEMMA CursorMarks ==
  ASSUME NEW m \in Messages, source.fields = m.fields, Stacked(m, frames, blockEnd),
         status = "reading", frames # <<>>,
         Current = 0, Current' = 0, Place = m.fields[Innermost(frames)].end,
         Place' = m.fields[Innermost(frames)].stop,
         UNCHANGED <<source, frames, status>>
  PROVE  Cursor!Next
<1>1. Tree = m.fields /\ Tree' = Tree
  BY DEF Tree
<1>2. Cursor!Mark
  BY <1>1, OpenIs DEF Cursor!Mark, Cursor!input, Place
<1>3. QED
  BY <1>2 DEF Cursor!Next

LEMMA CursorExits ==
  ASSUME NEW m \in Messages, source.fields = m.fields, Stacked(m, frames, blockEnd),
         status = "reading", frames # <<>>,
         Current = 0, Current' = 0, Place = m.fields[Innermost(frames)].stop,
         Place' = Place, frames' = Front(frames),
         UNCHANGED <<source, status>>
  PROVE  Cursor!Next
<1>1. Tree = m.fields /\ Tree' = Tree
  BY DEF Tree
<1>2. PICK o : o = [i \in DOMAIN frames |-> frames[i].id]
  OBVIOUS
<1>3. [i \in DOMAIN frames |-> frames[i].id]' = SubSeq(o, 1, Len(o) - 1)
  <2>1. frames \in Seq(Frames) /\ Len(frames) \in Nat /\ Len(frames) > 0
    BY DEF Stacked
  <2>0. PICK n \in Nat : n + 1 = Len(frames)
    <3>1. Len(frames) - 1 \in Nat /\ Len(frames) - 1 + 1 = Len(frames)
      BY <2>1
    <3>2. QED
      BY <3>1
  <2>2. PICK fr, gr : n + 1 = Len(frames) /\ fr = frames /\ gr = frames'
    BY <2>0
  <2>3. gr = SubSeq(fr, 1, n)
    <3>1. Len(fr) - 1 = n
      BY <2>2
    <3>2. QED
      BY <2>2, <3>1 DEF Front
  <2>4. /\ fr \in Seq(Frames) /\ Len(fr) = n + 1
        /\ DOMAIN fr = 1 .. n + 1 /\ DOMAIN gr = 1 .. n
        /\ \A i \in 1 .. n : gr[i] = fr[i]
    BY <2>1, <2>2, <2>3
  <2>5. o = [i \in 1 .. n + 1 |-> fr[i].id]
    BY <1>2, <2>2, <2>4
  <2>6. o \in Seq(Nat) /\ Len(o) = n + 1
    <3>1. \A i \in 1 .. n + 1 : fr[i] \in Frames
      BY <2>4
    <3>2. \A i \in 1 .. n + 1 : fr[i].id \in Nat
      BY <3>1 DEF Frames
    <3>3. QED
      BY <2>5, <3>2
  <2>7. PICK p : p = [i \in 1 .. n |-> gr[i].id]
    OBVIOUS
  <2>8. PICK q : q = SubSeq(o, 1, n)
    OBVIOUS
  <2>9. q = [i \in 1 .. n |-> q[i]] /\ \A i \in 1 .. n : q[i] = o[i]
    BY <2>6, <2>8
  <2>10. \A i \in 1 .. n : p[i] = q[i]
    <3>1. TAKE i \in 1 .. n
    <3>2. i \in 1 .. n + 1
      OBVIOUS
    <3>3. p[i] = gr[i].id /\ o[i] = fr[i].id
      BY <2>5, <2>7, <3>2
    <3>4. gr[i] = fr[i] /\ q[i] = o[i]
      BY <2>4, <2>9
    <3>5. QED
      BY <3>3, <3>4
  <2>11. p = q
    BY <2>7, <2>9, <2>10
  <2>12. [i \in DOMAIN frames |-> frames[i].id]' = p
    BY <2>2, <2>4, <2>7
  <2>13. Len(o) - 1 = n
    BY <2>6
  <2>14. QED
    BY <2>8, <2>11, <2>12, <2>13
<1>4. Cursor!Exit
  BY <1>1, <1>2, <1>3, OpenIs DEF Cursor!Exit, Cursor!input, Place
<1>5. QED
  BY <1>4 DEF Cursor!Next

LEMMA CursorFinishes ==
  ASSUME status = "reading", frames = <<>>, Current = 0, source.cut <= Place,
         status' = "finished", Current' = Current, Place' = Place,
         UNCHANGED <<source, frames>>
  PROVE  Cursor!Next
<1>1. Tree' = Tree
  BY DEF Tree
<1>2. [i \in DOMAIN frames |-> frames[i].id] = <<>>
  OBVIOUS
<1>3. Cursor!Finish
  BY <1>1, <1>2 DEF Cursor!Finish, Cursor!input, Place
<1>4. QED
  BY <1>3 DEF Cursor!Next

LEMMA CursorFails ==
  ASSUME status = "reading", ~source.complete,
         status' = "failed", Current' = Current, Place' = Place,
         UNCHANGED <<source, frames>>
  PROVE  Cursor!Next
<1>1. Tree' = Tree
  BY DEF Tree
<1>2. Cursor!Fail
  BY <1>1 DEF Cursor!Fail, Cursor!input, Place
<1>3. QED
  BY <1>2 DEF Cursor!Next

-----------------------------------------------------------------------------
(* Where the reader is in the tree.                                        *)

AtHeader(m) == wireType # "EndGroup" /\ Boundary(m, Innermost(frames), io.position)

AtField(m, f) ==
  /\ f \in OwnOf(m, Innermost(frames))
  /\ io.position = m.fields[f].value
  /\ wireType = WireTypeOf(m, f)
  /\ ~InPacked(m, f) => fieldNumber = Number(m, f) /\ io.position <= source.cut

\* In the middle of AppendBytes, in a field f of n bytes.
InBytes(m, f, n) ==
  /\ f \in OwnOf(m, Innermost(frames)) /\ ~InPacked(m, f)
  /\ WireTypeOf(m, f) = "String" /\ n \in 0 .. MaxCells - 1
  /\ io.position = m.fields[f].stop
  /\ m.fields[f].stop = m.fields[f].value + Width(n) + n
  /\ \A i \in 1 .. Width(n) : m.cells[m.fields[f].value + i] = Digits(n)[i]
  /\ wireType = "None" /\ fieldNumber = Number(m, f)
  /\ blob.from = m.fields[f].start /\ blob.left + Len(blob.cells) = n
  /\ \A i \in 1 .. Len(blob.cells) : blob.cells[i] = m.cells[m.fields[f].value + Width(n) + i]
  /\ io.position - blob.left <= source.cut
  /\ blob.how \in {"read", "copy"} /\ (Mode = "copy" => blob.how = "copy")

\* ReadFieldHeader gave 0: the end of a group, of an item with a length, or of
\* what arrives.
AtItsEnd(m) ==
  \/ /\ wireType = "EndGroup" /\ frames # <<>>
     /\ WireTypeOf(m, Innermost(frames)) = "StartGroup"
     /\ io.position = m.fields[Innermost(frames)].stop /\ io.position <= source.cut
     /\ fieldNumber = Number(m, Innermost(frames))
  \/ /\ wireType # "EndGroup" /\ Boundary(m, Innermost(frames), io.position)
     /\ \/ source.cut <= io.position
        \/ /\ frames # <<>> /\ WireTypeOf(m, Innermost(frames)) = "String"
           /\ io.position = m.fields[Innermost(frames)].end

Standing(m) ==
  status = "reading" =>
    /\ Stacked(m, frames, blockEnd)
    /\ pc = "header" => AtHeader(m)
    /\ pc = "value" => \E f : AtField(m, f)
    /\ pc = "bytes" => \E f, n : InBytes(m, f, n)
    /\ pc = "end" => AtItsEnd(m)

Walking(m) == ReaderInv /\ IsSent(m) /\ Standing(m)

Walks(m) == Standing(m)' /\ [Cursor!Next]_(Cursor!vars)

LEMMA ModeIs ==
  /\ frames = <<>> => Mode = "read" /\ Token = 0
  /\ frames # <<>> => Mode = frames[Len(frames)].mode /\ Token = frames[Len(frames)].token
BY DEF Mode, Token, Last

\* What is known between two fields, or in front of a value.
LEMMA Here ==
  ASSUME NEW m, Walking(m), status = "reading"
  PROVE  /\ m \in Messages /\ source.fields = m.fields /\ SourceOK
         /\ Stacked(m, frames, blockEnd) /\ IsItem(m, Innermost(frames))
         /\ Len(m.cells) \in Nat /\ source.cut \in Nat /\ source.cut <= Len(m.cells)
         /\ source.complete <=> source.cut = Len(m.cells)
         /\ pc # "bytes" => /\ WindowAt(io, io.position) /\ io.position \in Nat
                            /\ Place = io.position
<1>1. /\ m \in Messages /\ source.fields = m.fields /\ source.cut \in 0 .. Len(m.cells)
      /\ source.complete <=> source.cut = Len(m.cells)
  BY DEF Walking, IsSent
<1>2. Stacked(m, frames, blockEnd)
  BY DEF Walking, Standing
<1>3. IsItem(m, Innermost(frames)) /\ Len(m.cells) \in Nat
  BY <1>1, <1>2, InnermostFacts, MessageFacts
<1>4. pc # "bytes" => WindowAt(io, io.position) /\ io.position \in Nat
  BY WhereItIs DEF Walking
<1>5. SourceOK
  BY DEF Walking, ReaderInv
<1>6. QED
  BY <1>1, <1>2, <1>3, <1>4, <1>5 DEF Place

LEMMA AtHeaderFacts ==
  ASSUME NEW m, Walking(m), status = "reading", pc = "header"
  PROVE  /\ wireType # "EndGroup" /\ Boundary(m, Innermost(frames), io.position)
         /\ To(m, Innermost(frames)) \in Nat /\ io.position <= To(m, Innermost(frames))
         /\ To(m, Innermost(frames)) <= Len(m.cells)
         /\ Current = 0
<1>1. wireType # "EndGroup" /\ Boundary(m, Innermost(frames), io.position)
  BY DEF Walking, Standing, AtHeader
<1>2. QED
  BY <1>1, Here, NextField, ItemPlaces, NoCurrent DEF Idle

LEMMA PackedMode ==
  ASSUME NEW m \in Messages, NEW fr, NEW end, Stacked(m, fr, end), NEW f \in OwnOf(m, Innermost(fr))
  PROVE  /\ InPacked(m, f) <=> fr # <<>> /\ fr[Len(fr)].mode = "packed"
         /\ InPacked(m, f) => WireTypeOf(m, f) = fr[Len(fr)].packed
<1>1. f \in DOMAIN m.fields /\ m.fields[f].parent = Innermost(fr)
  BY DEF OwnOf
<1>2. CASE fr = <<>>
  BY <1>1, <1>2, InnermostFacts DEF InPacked
<1>3. CASE fr # <<>>
  <2>1. /\ Innermost(fr) = fr[Len(fr)].id /\ Innermost(fr) # 0 /\ Innermost(fr) \in DOMAIN m.fields
        /\ FrameOK(m, fr, Len(fr))
    BY <1>3, InnermostFacts
  <2>2. InPacked(m, f) <=> m.fields[Innermost(fr)].kind \in ScalarTypes
    BY <1>1, <2>1 DEF InPacked
  <2>3. CASE GroupFrame(m, fr[Len(fr)])
    <3>1. m.fields[Innermost(fr)].kind = "message"
      BY <2>1, <2>3, GroupField DEF GroupFrame
    <3>2. ~InPacked(m, f)
      BY <2>2, <3>1 DEF ScalarTypes
    <3>3. fr[Len(fr)].mode # "packed"
      BY <2>3 DEF GroupFrame
    <3>4. QED
      BY <3>2, <3>3
  <2>4. CASE LengthFrame(m, fr[Len(fr)])
    <3>1. \/ m.fields[Innermost(fr)].kind = "message" /\ fr[Len(fr)].mode = "read"
          \/ /\ m.fields[Innermost(fr)].kind \in ScalarTypes /\ fr[Len(fr)].mode = "packed"
             /\ fr[Len(fr)].packed = m.fields[Innermost(fr)].kind
      BY <2>1, <2>4 DEF LengthFrame
    <3>2. InPacked(m, f) => WireTypeOf(m, f) = m.fields[Innermost(fr)].kind
      BY <1>1, PackedElement
    <3>3. "message" \notin ScalarTypes
      BY DEF ScalarTypes
    <3>4. QED
      BY <1>3, <2>2, <3>1, <3>2, <3>3
  <2>5. QED
    BY <2>1, <2>3, <2>4 DEF FrameOK
<1>4. QED
  BY <1>2, <1>3

LEMMA NothingMoves ==
  ASSUME UNCHANGED <<source, io, frames, pc, blob>>
  PROVE  Current' = Current /\ Place' = Place
<1>1. Place' = Place
  BY DEF Place
<1>2. Tree' = Tree /\ OpenItem' = OpenItem
  BY DEF Tree, OpenItem
<1>3. Current' = Current
  BY <1>2 DEF Current, FieldWhere
<1>4. QED
  BY <1>1, <1>3

\* Only what does not arrive whole is refused.
LEMMA Refused ==
  ASSUME NEW m, Walking(m), status = "reading", Fail, ~source.complete
  PROVE  Walks(m)
<1>1. status' = "failed" /\ UNCHANGED <<source, io, frames, pc, blob>>
  BY DEF Fail
<1>2. Current' = Current /\ Place' = Place
  BY <1>1, NothingMoves
<1>3. Cursor!Next
  BY <1>1, <1>2, CursorFails
<1>4. Standing(m)'
  BY <1>1 DEF Standing
<1>5. QED
  BY <1>3, <1>4 DEF Walks

\* The reader waits for the next field of the same item.
LEMMA BackAtHeader ==
  ASSUME NEW m, Walking(m), status = "reading", UNCHANGED <<frames, blockEnd>>,
         pc' = "header", wireType' # "EndGroup",
         Boundary(m, Innermost(frames), io'.position)
  PROVE  Standing(m)'
<1>1. Stacked(m, frames, blockEnd)
  BY Here
<1>2. AtHeader(m)'
  BY DEF AtHeader
<1>3. QED
  BY <1>1, <1>2 DEF Standing

-----------------------------------------------------------------------------
(* Field headers.                                                          *)

LEMMA HeaderRead ==
  ASSUME NEW m, Walking(m), status = "reading", pc = "header", ~AtEnd,
         NEW b \in With(Lookahead), b.window # <<>>
  PROVE  /\ Len(b.window) \in Nat /\ 1 <= Len(b.window) /\ io.position + 1 <= source.cut
         /\ \/ /\ frames # <<>> /\ WireTypeOf(m, Innermost(frames)) = "StartGroup"
               /\ io.position = m.fields[Innermost(frames)].end
               /\ m.fields[Innermost(frames)].stop = io.position + 1
               /\ b.window[1] = Header(Number(m, Innermost(frames)), "EndGroup")
            \/ \E f \in OwnOf(m, Innermost(frames)) :
                 /\ io.position = m.fields[f].start
                 /\ ~InPacked(m, f) =>
                      /\ m.fields[f].value = io.position + 1
                      /\ b.window[1] = Header(Number(m, f), WireTypeOf(m, f))
<1> DEFINE p == Innermost(frames)
<1>1. /\ m \in Messages /\ SourceOK /\ Stacked(m, frames, blockEnd) /\ IsItem(m, p)
      /\ Len(m.cells) \in Nat /\ source.cut \in Nat /\ source.cut <= Len(m.cells)
      /\ WindowAt(io, io.position) /\ io.position \in Nat /\ IsSent(m)
  BY Here DEF Walking
<1>2. /\ Boundary(m, p, io.position) /\ To(m, p) \in Nat /\ io.position <= To(m, p)
  BY AtHeaderFacts
<1>3. WindowAt(b, io.position)
  BY <1>1, Space, WithAt
<1>4. Len(b.window) \in Nat /\ 1 <= Len(b.window)
  BY <1>3 DEF WindowAt, Buffers
<1>5. io.position + 1 <= source.cut /\ b.window[1] = m.cells[io.position + 1]
  <2>1. 1 \in 1 .. Len(b.window)
    BY <1>4
  <2>2. QED
    BY <1>1, <1>3, <2>1, WindowIsSent
<1>6. CASE io.position = To(m, p)
  <2>1. frames # <<>>
    <3>1. SUFFICES ASSUME frames = <<>> PROVE FALSE
      OBVIOUS
    <3>2. io.position = Len(m.cells)
      BY <1>6, <3>1 DEF To, Innermost
    <3>3. QED
      BY <1>1, <1>5, <3>2
  <2>2. /\ p # 0 /\ p \in DOMAIN m.fields /\ p = frames[Len(frames)].id
    BY <1>1, <2>1, InnermostFacts
  <2>3. ~HasLength(m, frames, Len(frames))
    <3>1. SUFFICES ASSUME HasLength(m, frames, Len(frames)) PROVE FALSE
      OBVIOUS
    <3>2. blockEnd = io.position
      BY <1>1, <1>2, <1>6, <2>1, <3>1, BlockFacts
    <3>3. QED
      BY <1>1, <3>2 DEF AtEnd
  <2>4. WireTypeOf(m, p) = "StartGroup"
    BY <1>1, <2>1, <2>2, <2>3, TokenFacts DEF GroupFrame
  <2>5. /\ m.fields[p].stop = m.fields[p].end + 1
        /\ m.cells[m.fields[p].stop] = Header(Number(m, p), "EndGroup")
    BY <1>1, <2>2, <2>4, GroupField
  <2>6. io.position = m.fields[p].end
    BY <1>6, <2>2 DEF To
  <2>7. QED
    BY <1>4, <1>5, <2>1, <2>4, <2>5, <2>6
<1>7. CASE io.position # To(m, p)
  <2>1. PICK f \in OwnOf(m, p) : m.fields[f].start = io.position
    BY <1>1, <1>2, <1>7, NextField
  <2>2. f \in DOMAIN m.fields
    BY DEF OwnOf
  <2>3. ~InPacked(m, f) => /\ m.fields[f].value = io.position + 1
                           /\ b.window[1] = Header(Number(m, f), WireTypeOf(m, f))
    <3>1. SUFFICES ASSUME ~InPacked(m, f)
                   PROVE  /\ m.fields[f].value = io.position + 1
                          /\ b.window[1] = Header(Number(m, f), WireTypeOf(m, f))
      OBVIOUS
    <3>2. /\ m.fields[f].value = m.fields[f].start + 1
          /\ m.cells[m.fields[f].value] = Header(Number(m, f), WireTypeOf(m, f))
      BY <1>1, <2>2, <3>1, FieldHeader
    <3>3. QED
      BY <1>5, <2>1, <3>2
  <2>4. QED
    BY <1>4, <1>5, <2>1, <2>3
<1>8. QED
  BY <1>6, <1>7

\* A header was read: the walk takes its field.
LEMMA HeaderTaken ==
  ASSUME NEW m, Walking(m), status = "reading", pc = "header",
         NEW f \in OwnOf(m, Innermost(frames)), io.position = m.fields[f].start,
         pc' = "value", io'.position = m.fields[f].value, wireType' = WireTypeOf(m, f),
         ~InPacked(m, f) => fieldNumber' = Number(m, f) /\ io'.position <= source.cut,
         UNCHANGED <<source, frames, status, blockEnd>>
  PROVE  Walks(m)
<1>1. /\ m \in Messages /\ source.fields = m.fields /\ Stacked(m, frames, blockEnd)
      /\ IsItem(m, Innermost(frames)) /\ Place = io.position
  BY Here
<1>2. Current = 0
  BY AtHeaderFacts
<1>3. AtValueOf(m, f)'
  BY <1>1 DEF AtValueOf
<1>4. Current' = f
  BY <1>3, CurrentWillBe
<1>5. Place' = m.fields[f].value
  BY DEF Place
<1>6. Cursor!Next
  BY <1>1, <1>2, <1>4, <1>5, CursorTakes
<1>7. AtField(m, f)'
  BY DEF AtField
<1>8. Standing(m)'
  BY <1>1, <1>7 DEF Standing
<1>9. QED
  BY <1>6, <1>8 DEF Walks

\* The end of the item, or of what arrives: nothing is taken.
LEMMA EndReached ==
  ASSUME NEW m, Walking(m), status = "reading", pc = "header",
         pc' = "end", io'.position = io.position, wireType' # "EndGroup",
         UNCHANGED <<source, frames, status, blockEnd>>,
         source.cut <= io.position \/ blockEnd <= io.position
  PROVE  Walks(m)
<1>1. /\ m \in Messages /\ source.fields = m.fields /\ Stacked(m, frames, blockEnd)
      /\ IsItem(m, Innermost(frames)) /\ Place = io.position /\ io.position \in Nat
  BY Here
<1>2. /\ Current = 0 /\ Boundary(m, Innermost(frames), io.position)
      /\ io.position <= To(m, Innermost(frames))
  BY AtHeaderFacts
<1>3. blockEnd <= io.position => /\ frames # <<>>
                                 /\ WireTypeOf(m, Innermost(frames)) = "String"
                                 /\ io.position = m.fields[Innermost(frames)].end
  <2>1. SUFFICES ASSUME blockEnd <= io.position
                 PROVE  /\ frames # <<>>
                        /\ WireTypeOf(m, Innermost(frames)) = "String"
                        /\ io.position = m.fields[Innermost(frames)].end
    OBVIOUS
  <2>2. /\ frames # <<>> /\ HasLength(m, frames, Len(frames))
        /\ io.position = To(m, Innermost(frames))
    BY <1>1, <1>2, <2>1, BlockFacts
  <2>3. Innermost(frames) = frames[Len(frames)].id /\ Innermost(frames) # 0
    BY <1>1, <2>2, InnermostFacts
  <2>4. QED
    BY <2>2, <2>3 DEF HasLength, To
<1>4. AtItsEnd(m)'
  BY <1>2, <1>3 DEF AtItsEnd
<1>5. Standing(m)'
  BY <1>1, <1>4 DEF Standing
<1>6. Current' = Current /\ Place' = Place
  <2>1. Idle'
    BY DEF Idle
  <2>2. Current' = 0
    BY <2>1, NoCurrentNext
  <2>3. QED
    BY <1>1, <1>2, <2>2 DEF Place
<1>7. UNCHANGED Cursor!vars
  BY <1>6, CursorStutters
<1>8. QED
  BY <1>5, <1>7 DEF Walks

LEMMA Buffered ==
  ASSUME NEW m, Walking(m), status = "reading", pc # "bytes",
         NEW count \in Nat, NEW b \in With(count)
  PROVE  /\ WindowAt(b, io.position) /\ b.position = io.position
         /\ b.window \in Seq(Cells) /\ Len(b.window) \in Nat /\ io.position \in Nat
         /\ Len(b.window) >= count \/ io.position + Len(b.window) >= source.cut
         /\ Len(b.window) > 0 => io.position + Len(b.window) <= source.cut
         /\ \A i \in 1 .. Len(b.window) : b.window[i] = m.cells[io.position + i]
         /\ \A n \in Nat : n <= Len(b.window) => Consumed(b, n).position = io.position + n
<1>1. /\ SourceOK /\ IsSent(m) /\ WindowAt(io, io.position) /\ io.position \in Nat
  BY Here DEF Walking
<1>2. WindowAt(b, io.position) /\ b.position = io.position
  BY <1>1, WithAt
<1>3. Len(b.window) >= count \/ io.position + Len(b.window) >= source.cut
  BY <1>1, WithGets
<1>4. /\ b.window \in Seq(Cells) /\ Len(b.window) \in Nat
      /\ Len(b.window) > 0 => io.position + Len(b.window) <= source.cut
      /\ \A i \in 1 .. Len(b.window) : b.window[i] = m.cells[io.position + i]
  BY <1>1, <1>2, WindowIsSent
<1>5. \A n \in Nat : n <= Len(b.window) => Consumed(b, n).position = io.position + n
  BY <1>2, ConsumedAt
<1>6. QED
  BY <1>1, <1>2, <1>3, <1>4, <1>5

LEMMA SomeLookahead == Lookahead \in Nat /\ Lookahead > 0 /\ VarintSpace \in Nat /\ VarintSpace <= Lookahead
BY WireAssumption, ReaderAssumption

LEMMA ReadFieldHeaderWalks ==
  ASSUME NEW m, Walking(m), ReadFieldHeader
  PROVE  Walks(m)
<1> DEFINE p == Innermost(frames)
<1>1. /\ status = "reading" /\ pc = "header" /\ pc # "bytes" /\ Mode # "packed"
      /\ UNCHANGED <<blockEnd, frames>>
  BY DEF ReadFieldHeader, Reading
<1>2. /\ m \in Messages /\ source.fields = m.fields /\ Stacked(m, frames, blockEnd)
      /\ IsItem(m, p) /\ Place = io.position /\ io.position \in Nat /\ source.cut \in Nat
  BY <1>1, Here
<1>3. wireType # "EndGroup" /\ Current = 0
  BY <1>1, AtHeaderFacts
<1>4. CASE AtEnd /\ Proceed(io, "end") /\ UNCHANGED <<wireType, fieldNumber>>
  <2>1. /\ blockEnd <= io.position /\ pc' = "end" /\ io' = io /\ wireType' = wireType
        /\ UNCHANGED <<source, status>>
    BY <1>3, <1>4 DEF AtEnd, Proceed
  <2>2. QED
    BY <1>1, <1>3, <2>1, EndReached
<1>5. CASE /\ ~AtEnd
           /\ \E b \in With(Lookahead) :
             IF b.window = <<>>
             THEN Proceed(b, "end") /\ wireType' = "None" /\ fieldNumber' = 0
             ELSE LET cell == b.window[1] IN
                  IF cell[1] = "header"
                  THEN /\ Proceed(Consumed(b, 1), IF cell[3] = "EndGroup" THEN "end"
                                                  ELSE "value")
                       /\ wireType' = cell[3]
                       /\ fieldNumber' = cell[2]
                  ELSE Fail
  <2>1. PICK b \in With(Lookahead) :
             IF b.window = <<>>
             THEN Proceed(b, "end") /\ wireType' = "None" /\ fieldNumber' = 0
             ELSE LET cell == b.window[1] IN
                  IF cell[1] = "header"
                  THEN /\ Proceed(Consumed(b, 1), IF cell[3] = "EndGroup" THEN "end"
                                                  ELSE "value")
                       /\ wireType' = cell[3]
                       /\ fieldNumber' = cell[2]
                  ELSE Fail
    BY <1>5
  <2>2. /\ b.position = io.position /\ Len(b.window) \in Nat
        /\ Len(b.window) >= Lookahead \/ io.position + Len(b.window) >= source.cut
        /\ 1 <= Len(b.window) => Consumed(b, 1).position = io.position + 1
    BY <1>1, SomeLookahead, Buffered
  <2>3. CASE b.window = <<>>
    <3>1. /\ pc' = "end" /\ io' = b /\ wireType' = "None" /\ UNCHANGED <<source, status>>
      BY <2>1, <2>3 DEF Proceed
    <3>2. Len(b.window) = 0
      BY <2>3
    <3>3. source.cut <= io.position
      BY <1>2, <2>2, <3>2, SomeLookahead
    <3>4. QED
      BY <1>1, <2>2, <3>1, <3>3, EndReached
  <2>4. CASE b.window # <<>>
    <3>1. PICK cell : cell = b.window[1]
      OBVIOUS
    <3>2. /\ Len(b.window) \in Nat /\ 1 <= Len(b.window) /\ io.position + 1 <= source.cut
          /\ \/ /\ frames # <<>> /\ WireTypeOf(m, p) = "StartGroup"
                /\ io.position = m.fields[p].end
                /\ m.fields[p].stop = io.position + 1
                /\ cell = Header(Number(m, p), "EndGroup")
             \/ \E f \in OwnOf(m, p) :
                  /\ io.position = m.fields[f].start
                  /\ ~InPacked(m, f) =>
                       /\ m.fields[f].value = io.position + 1
                       /\ cell = Header(Number(m, f), WireTypeOf(m, f))
      BY <1>1, <1>5, <2>4, <3>1, HeaderRead
    <3>3. ASSUME NEW n, NEW w, cell = Header(n, w)
          PROVE  /\ pc' = (IF w = "EndGroup" THEN "end" ELSE "value")
                 /\ wireType' = w /\ fieldNumber' = n
                 /\ io'.position = io.position + 1 /\ UNCHANGED <<source, status>>
      <4>1. cell[1] = "header" /\ cell[2] = n /\ cell[3] = w
        BY <3>3 DEF Header
      <4>2. /\ Proceed(Consumed(b, 1), IF w = "EndGroup" THEN "end" ELSE "value")
            /\ wireType' = w /\ fieldNumber' = n
        BY <2>1, <2>4, <3>1, <4>1
      <4>3. QED
        BY <2>2, <3>2, <4>2 DEF Proceed
    <3>4. CASE /\ frames # <<>> /\ WireTypeOf(m, p) = "StartGroup"
               /\ io.position = m.fields[p].end
               /\ m.fields[p].stop = io.position + 1
               /\ cell = Header(Number(m, p), "EndGroup")
      <4>1. /\ pc' = "end" /\ wireType' = "EndGroup" /\ fieldNumber' = Number(m, p)
            /\ io'.position = io.position + 1 /\ UNCHANGED <<source, status>>
        BY <3>3, <3>4
      <4>2. Idle'
        BY <4>1 DEF Idle
      <4>3. Current' = 0 /\ Place' = m.fields[p].stop
        BY <3>4, <4>1, <4>2, NoCurrentNext DEF Place
      <4>4. Cursor!Next
        BY <1>1, <1>2, <1>3, <3>4, <4>1, <4>3, CursorMarks
      <4>5. AtItsEnd(m)'
        BY <1>1, <3>2, <3>4, <4>1 DEF AtItsEnd
      <4>6. Standing(m)'
        BY <1>1, <1>2, <4>1, <4>5 DEF Standing
      <4>7. QED
        BY <4>4, <4>6 DEF Walks
    <3>5. CASE \E f \in OwnOf(m, p) :
                 /\ io.position = m.fields[f].start
                 /\ ~InPacked(m, f) =>
                      /\ m.fields[f].value = io.position + 1
                      /\ cell = Header(Number(m, f), WireTypeOf(m, f))
      <4>1. PICK f \in OwnOf(m, p) :
                 /\ io.position = m.fields[f].start
                 /\ ~InPacked(m, f) =>
                      /\ m.fields[f].value = io.position + 1
                      /\ cell = Header(Number(m, f), WireTypeOf(m, f))
        BY <3>5
      <4>2. ~InPacked(m, f)
        BY <1>1, <1>2, PackedMode, ModeIs
      <4>3. WireTypeOf(m, f) # "EndGroup"
        BY <1>2, FourTypes DEF OwnOf
      <4>4. /\ pc' = "value" /\ wireType' = WireTypeOf(m, f) /\ fieldNumber' = Number(m, f)
            /\ io'.position = io.position + 1 /\ UNCHANGED <<source, status>>
        BY <3>3, <4>1, <4>2, <4>3
      <4>5. QED
        BY <1>1, <3>2, <4>1, <4>2, <4>4, HeaderTaken
    <3>6. QED
      BY <3>2, <3>4, <3>5
  <2>5. QED
    BY <2>3, <2>4
<1>6. QED
  BY <1>4, <1>5 DEF ReadFieldHeader

LEMMA TryReadFieldHeaderWalks ==
  ASSUME NEW m, Walking(m), NEW f \in Fields, TryReadFieldHeader(f)
  PROVE  Walks(m)
<1> DEFINE p == Innermost(frames)
<1>1. /\ status = "reading" /\ pc = "header" /\ pc # "bytes" /\ Mode = "read" /\ ~AtEnd
      /\ UNCHANGED <<blockEnd, frames>>
  BY DEF TryReadFieldHeader, Reading
<1>2. /\ m \in Messages /\ source.fields = m.fields /\ Stacked(m, frames, blockEnd)
      /\ IsItem(m, p) /\ Place = io.position /\ io.position \in Nat
  BY <1>1, Here
<1>3. /\ wireType # "EndGroup" /\ Current = 0 /\ Boundary(m, p, io.position)
  BY <1>1, AtHeaderFacts
<1>4. PICK b \in With(Lookahead) :
       IF b.window # <<>> /\ b.window[1] \in {Header(f, w) : w \in HeaderTypes \ {"EndGroup"}}
       THEN /\ Proceed(Consumed(b, 1), "value")
            /\ wireType' = b.window[1][3]
            /\ fieldNumber' = f
       ELSE Proceed(b, pc) /\ UNCHANGED <<wireType, fieldNumber>>
  BY DEF TryReadFieldHeader
<1>5. /\ b.position = io.position /\ Len(b.window) \in Nat
      /\ 1 <= Len(b.window) => Consumed(b, 1).position = io.position + 1
  BY <1>1, SomeLookahead, Buffered
<1>6. CASE b.window # <<>> /\ b.window[1] \in {Header(f, w) : w \in HeaderTypes \ {"EndGroup"}}
  <2>1. /\ 1 <= Len(b.window) /\ io.position + 1 <= source.cut
        /\ \/ b.window[1] = Header(Number(m, p), "EndGroup")
           \/ \E g \in OwnOf(m, p) :
                  /\ io.position = m.fields[g].start
                  /\ ~InPacked(m, g) =>
                       /\ m.fields[g].value = io.position + 1
                       /\ b.window[1] = Header(Number(m, g), WireTypeOf(m, g))
    BY <1>1, <1>6, HeaderRead
  <2>2. PICK w \in HeaderTypes \ {"EndGroup"} : b.window[1] = Header(f, w)
    BY <1>6
  <2>3. b.window[1][3] = w
    BY <2>2 DEF Header
  <2>4. \A n, v : b.window[1] = Header(n, v) => n = f /\ v = w
    BY <2>2 DEF Header
  <2>5. PICK g \in OwnOf(m, p) :
                  /\ io.position = m.fields[g].start
                  /\ ~InPacked(m, g) =>
                       /\ m.fields[g].value = io.position + 1
                       /\ b.window[1] = Header(Number(m, g), WireTypeOf(m, g))
    BY <2>1, <2>4
  <2>6. ~InPacked(m, g)
    BY <1>1, <1>2, PackedMode, ModeIs
  <2>7. Number(m, g) = f /\ WireTypeOf(m, g) = w
    BY <2>4, <2>5, <2>6
  <2>8. /\ pc' = "value" /\ wireType' = WireTypeOf(m, g) /\ fieldNumber' = Number(m, g)
        /\ io'.position = io.position + 1 /\ UNCHANGED <<source, status>>
    BY <1>4, <1>5, <1>6, <2>1, <2>3, <2>7 DEF Proceed
  <2>9. QED
    BY <1>1, <2>1, <2>5, <2>6, <2>8, HeaderTaken
<1>7. CASE ~(b.window # <<>> /\ b.window[1] \in {Header(f, w) : w \in HeaderTypes \ {"EndGroup"}})
  <2>1. /\ pc' = pc /\ io' = b /\ wireType' = wireType /\ UNCHANGED <<source, status>>
    BY <1>4, <1>7 DEF Proceed
  <2>2. Standing(m)'
    BY <1>1, <1>3, <1>5, <2>1, BackAtHeader
  <2>3. Idle'
    BY <1>1, <2>1 DEF Idle
  <2>4. Current' = Current /\ Place' = Place
    BY <1>1, <1>3, <1>5, <2>1, <2>3, NoCurrentNext DEF Place
  <2>5. UNCHANGED Cursor!vars
    BY <1>1, <2>1, <2>4, CursorStutters
  <2>6. QED
    BY <2>2, <2>5 DEF Walks
<1>8. QED
  BY <1>6, <1>7

LEMMA HasSubValueWalks ==
  ASSUME NEW m, Walking(m), HasSubValue
  PROVE  Walks(m)
<1> DEFINE p == Innermost(frames)
<1>1. /\ status = "reading" /\ pc = "header" /\ pc # "bytes" /\ Mode = "packed"
      /\ UNCHANGED <<blockEnd, frames, fieldNumber>>
  BY DEF HasSubValue, Reading
<1>2. /\ m \in Messages /\ source.fields = m.fields /\ Stacked(m, frames, blockEnd)
      /\ IsItem(m, p) /\ Place = io.position /\ io.position \in Nat
  BY <1>1, Here
<1>3. /\ wireType # "EndGroup" /\ Boundary(m, p, io.position)
      /\ To(m, p) \in Nat /\ io.position <= To(m, p)
  BY <1>1, AtHeaderFacts
<1>4. frames # <<>> /\ frames[Len(frames)].mode = "packed"
  BY <1>1, ModeIs
<1>5. CASE blockEnd <= io.position
  <2>1. /\ blockEnd <= io.position /\ pc' = "end" /\ io' = io /\ wireType' = wireType
        /\ UNCHANGED <<source, status>>
    BY <1>5 DEF Proceed, HasSubValue
  <2>2. QED
    BY <1>1, <1>3, <2>1, EndReached
<1>6. CASE ~(blockEnd <= io.position)
  <2>1. /\ pc' = "value" /\ io' = io /\ wireType' = frames[Len(frames)].packed
        /\ UNCHANGED <<source, status>>
    BY <1>6 DEF Proceed, HasSubValue, Last
  <2>2. HasLength(m, frames, Len(frames))
    BY <1>2, <1>4, TokenFacts DEF GroupFrame
  <2>3. io.position # To(m, p)
    <3>1. blockEnd = To(m, p)
      BY <1>2, <1>3, <1>4, <2>2, BlockFacts
    <3>2. QED
      BY <1>2, <1>3, <1>6, <3>1
  <2>4. PICK f \in OwnOf(m, p) : m.fields[f].start = io.position
    BY <1>2, <1>3, <2>3, NextField
  <2>5. InPacked(m, f) /\ WireTypeOf(m, f) = frames[Len(frames)].packed
    BY <1>2, <1>4, PackedMode
  <2>6. m.fields[f].value = m.fields[f].start
    BY <1>2, <2>5, PackedElement DEF OwnOf
  <2>7. QED
    BY <1>1, <2>1, <2>4, <2>5, <2>6, HeaderTaken
<1>7. QED
  BY <1>5, <1>6

-----------------------------------------------------------------------------
(* Values.                                                                 *)

LEMMA AtFieldFacts ==
  ASSUME NEW m, Walking(m), status = "reading", pc = "value", NEW f, AtField(m, f)
  PROVE  /\ f \in DOMAIN m.fields /\ f \in OwnOf(m, Innermost(frames))
         /\ Current = f /\ Kind = m.fields[f].kind /\ Place = m.fields[f].value
         /\ io.position = m.fields[f].value /\ wireType = WireTypeOf(m, f)
         /\ m.fields[f].start \in Nat /\ m.fields[f].value \in Nat /\ m.fields[f].stop \in Nat
         /\ m.fields[f].stop <= Len(m.cells)
         /\ WireTypeOf(m, f) \notin ScalarTypes =>
              /\ ~InPacked(m, f) /\ fieldNumber = Number(m, f) /\ Number(m, f) \in Fields
              /\ io.position <= source.cut /\ m.fields[f].value = m.fields[f].start + 1
<1>1. /\ m \in Messages /\ source.fields = m.fields /\ IsItem(m, Innermost(frames))
      /\ Place = io.position
  BY Here
<1>2. /\ f \in OwnOf(m, Innermost(frames)) /\ io.position = m.fields[f].value
      /\ wireType = WireTypeOf(m, f)
      /\ ~InPacked(m, f) => fieldNumber = Number(m, f) /\ io.position <= source.cut
  BY DEF AtField
<1>3. f \in DOMAIN m.fields
  BY <1>2 DEF OwnOf
<1>4. AtValueOf(m, f)
  BY <1>1, <1>2 DEF AtValueOf
<1>5. Current = f /\ f # 0
  BY <1>1, <1>3, <1>4, CurrentIs, FieldTyped
<1>6. Kind = m.fields[f].kind
  BY <1>1, <1>5 DEF Kind, Tree
<1>7. WireTypeOf(m, f) \notin ScalarTypes =>
        /\ ~InPacked(m, f) /\ Number(m, f) \in Fields
        /\ m.fields[f].value = m.fields[f].start + 1
  BY <1>1, <1>3, PackedElement, FieldHeader
<1>8. QED
  BY <1>1, <1>2, <1>3, <1>5, <1>6, <1>7, FieldTyped, FieldOrder

\* The field has been read or skipped to its end.
LEMMA FieldLeft ==
  ASSUME NEW m, Walking(m), status = "reading", pc = "value", NEW f, AtField(m, f),
         pc' = "header", io'.position = m.fields[f].stop, wireType' # "EndGroup",
         UNCHANGED <<source, frames, status, blockEnd>>
  PROVE  Walks(m)
<1>1. /\ m \in Messages /\ source.fields = m.fields
  BY Here
<1>2. /\ f \in DOMAIN m.fields /\ f \in OwnOf(m, Innermost(frames)) /\ Current = f
  BY AtFieldFacts
<1>3. Idle'
  BY DEF Idle
<1>4. Current' = 0 /\ Place' = m.fields[f].stop
  BY <1>3, NoCurrentNext DEF Place
<1>5. Cursor!Next
  BY <1>1, <1>2, <1>4, CursorLeaves
<1>6. Boundary(m, Innermost(frames), io'.position)
  BY <1>2 DEF Boundary
<1>7. Standing(m)'
  BY <1>6, BackAtHeader
<1>8. QED
  BY <1>5, <1>7 DEF Walks

\* How far a varint or a value of fixed size goes.
LEMMA ScalarRead ==
  ASSUME NEW m, Walking(m), status = "reading", pc = "value", NEW f, AtField(m, f),
         wireType \in ScalarTypes,
         NEW count \in Nat, count = IF wireType = "Variant" THEN Lookahead ELSE FixedLength,
         NEW b \in With(count),
         NEW ends, ends = IF wireType = "Variant" THEN VarintEnds(b.window)
                          ELSE {FixedLength} \intersect DOMAIN b.window
  PROVE  \E k \in Nat :
           /\ k > 0 /\ m.fields[f].stop = io.position + k
           /\ \A n \in ends : n = k /\ k <= Len(b.window)
           /\ ends = {} => ~source.complete
<1>1. /\ m \in Messages /\ Len(m.cells) \in Nat /\ source.cut \in Nat
      /\ source.complete <=> source.cut = Len(m.cells)
  BY Here
<1>2. /\ f \in DOMAIN m.fields /\ io.position = m.fields[f].value
      /\ wireType = WireTypeOf(m, f) /\ m.fields[f].stop \in Nat
      /\ m.fields[f].stop <= Len(m.cells) /\ m.fields[f].value \in Nat
  BY AtFieldFacts
<1>3. /\ b.window \in Seq(Cells) /\ Len(b.window) \in Nat
      /\ Len(b.window) >= count \/ io.position + Len(b.window) >= source.cut
      /\ \A i \in 1 .. Len(b.window) : b.window[i] = m.cells[io.position + i]
  BY Buffered
<1>4. PICK k \in Nat : /\ k > 0 /\ k <= count /\ m.fields[f].stop = io.position + k
                       /\ ends = IF k <= Len(b.window) THEN {k} ELSE ends
                       /\ \A n \in ends : n = k /\ k <= Len(b.window)
  <2>1. CASE wireType = "Variant"
    <3>1. WireTypeOf(m, f) = "Variant"
      BY <1>2, <2>1
    <3>2. PICK k \in 1 .. VarintSpace :
              /\ m.fields[f].stop = m.fields[f].value + k
              /\ \A i \in 1 .. k : Continues(m.cells[m.fields[f].value + i]) <=> i < k
      BY ONLY <1>1, <1>2, <3>1, VariantField
    <3>3. k \in Nat /\ k > 0 /\ k <= count
      BY <2>1, SomeLookahead
    <3>4. \A i \in 1 .. k : i <= Len(b.window) => (Continues(b.window[i]) <=> i < k)
      <4>1. TAKE i \in 1 .. k
      <4>2. SUFFICES ASSUME i <= Len(b.window) PROVE Continues(b.window[i]) <=> i < k
        OBVIOUS
      <4>3. b.window[i] = m.cells[m.fields[f].value + i]
        BY <1>2, <1>3, <3>3, <4>2
      <4>4. QED
        BY <3>2, <4>3
    <3>5. k <= Len(b.window) => ends = {k}
      BY <1>3, <2>1, <3>3, <3>4, NotCutOff
    <3>6. ASSUME NEW n \in ends PROVE n = k /\ k <= Len(b.window)
      <4>1. /\ n \in 1 .. Len(b.window) /\ ~Continues(b.window[n])
            /\ \A i \in 1 .. n - 1 : Continues(b.window[i])
        BY <1>3, <2>1 DEF VarintEnds
      <4>2. ~(n < k)
        BY <1>3, <3>3, <3>4, <4>1
      <4>3. ~(k < n)
        BY <1>3, <3>3, <3>4, <4>1
      <4>4. QED
        BY <1>3, <3>3, <4>1, <4>2, <4>3
    <3>7. QED
      BY <1>2, <3>2, <3>3, <3>5, <3>6
  <2>2. CASE wireType # "Variant"
    <3>1. WireTypeOf(m, f) = "Fixed32"
      BY <1>2, <2>2 DEF ScalarTypes
    <3>2. m.fields[f].stop = m.fields[f].value + FixedLength
      BY ONLY <1>1, <1>2, <3>1, FixedField
    <3>3. PICK k \in Nat : k = FixedLength /\ k > 0 /\ k <= count
      BY <2>2, WireAssumption
    <3>4. m.fields[f].stop = io.position + k
      BY <1>2, <3>2, <3>3
    <3>5. ends = {k} \intersect (1 .. Len(b.window))
      BY <1>3, <2>2, <3>3
    <3>6. k <= Len(b.window) => ends = {k}
      BY <1>3, <3>3, <3>5
    <3>7. \A n \in ends : n = k /\ k <= Len(b.window)
      BY <1>3, <3>3, <3>5
    <3>8. QED
      BY <3>3, <3>4, <3>6, <3>7
  <2>3. QED
    BY <2>1, <2>2
<1>5. ASSUME ends = {} PROVE ~source.complete
  <2>1. ~(k <= Len(b.window))
    BY <1>4, <1>5
  <2>2. QED
    BY <1>1, <1>2, <1>3, <1>4, <2>1
<1>6. QED
  BY <1>4, <1>5

LEMMA ReadScalarWalks ==
  ASSUME NEW m, Walking(m), NEW how, ReadScalar(how)
  PROVE  Walks(m)
<1>1. /\ status = "reading" /\ pc = "value" /\ pc # "bytes" /\ wireType \in ScalarTypes
      /\ UNCHANGED <<wireType, fieldNumber, blockEnd, frames>>
  BY DEF ReadScalar, Reading, Scalar
<1>2. PICK f : AtField(m, f)
  BY <1>1 DEF Walking, Standing
<1>3. PICK count \in Nat : count = IF wireType = "Variant" THEN Lookahead ELSE FixedLength
  BY SomeLookahead, WireAssumption
<1>4. PICK b \in With(count) :
       LET ends == IF wireType = "Variant" THEN VarintEnds(b.window)
                   ELSE {FixedLength} \intersect DOMAIN b.window
       IN \/ ends = {} /\ Fail
          \/ \E n \in ends : Proceed(Consumed(b, n), "header")
  BY <1>3 DEF ReadScalar
<1>5. PICK ends : ends = IF wireType = "Variant" THEN VarintEnds(b.window)
                         ELSE {FixedLength} \intersect DOMAIN b.window
  OBVIOUS
<1>6. PICK k \in Nat : /\ k > 0 /\ m.fields[f].stop = io.position + k
                       /\ \A n \in ends : n = k /\ k <= Len(b.window)
                       /\ ends = {} => ~source.complete
  BY <1>1, <1>2, <1>3, <1>5, ScalarRead, SMTT(30)
<1>7. CASE ends = {} /\ Fail
  BY <1>1, <1>6, <1>7, Refused
<1>8. CASE \E n \in ends : Proceed(Consumed(b, n), "header")
  <2>1. Proceed(Consumed(b, k), "header") /\ k <= Len(b.window)
    BY <1>6, <1>8
  <2>2. Consumed(b, k).position = io.position + k
    BY <1>1, <2>1, Buffered
  <2>3. pc' = "header" /\ io'.position = m.fields[f].stop /\ UNCHANGED <<source, status>>
    BY <1>6, <2>1, <2>2 DEF Proceed
  <2>4. wireType' # "EndGroup"
    BY <1>1 DEF ScalarTypes
  <2>5. QED
    BY <1>1, <1>2, <2>3, <2>4, FieldLeft
<1>9. QED
  BY <1>4, <1>5, <1>7, <1>8

\* The length in front of a String field.
LEMMA LengthRead ==
  ASSUME NEW m, Walking(m), status = "reading", pc = "value", NEW f, AtField(m, f),
         wireType = "String", NEW b \in With(Lookahead)
  PROVE  \E n \in 0 .. MaxCells - 1 :
           /\ m.fields[f].stop = m.fields[f].value + Width(n) + n
           /\ Width(n) \in Nat /\ n \in Nat
           /\ \A i \in 1 .. Width(n) : m.cells[m.fields[f].value + i] = Digits(n)[i]
           /\ m.fields[f].kind # "value" => /\ m.fields[f].body = m.fields[f].value + Width(n)
                                            /\ m.fields[f].end = m.fields[f].stop
           /\ CutOff(b.window) => ~source.complete
           /\ \A l \in Lengths(b.window) :
                /\ l.value = n /\ l.cells = Width(n)
                /\ m.fields[f].value + Width(n) <= source.cut
                /\ WindowAt(Consumed(b, l.cells), m.fields[f].value + Width(n))
                /\ Consumed(b, l.cells).position = m.fields[f].value + Width(n)
<1>1. /\ m \in Messages /\ Len(m.cells) \in Nat /\ source.cut \in Nat
      /\ source.complete <=> source.cut = Len(m.cells)
  BY Here
<1>2. /\ f \in DOMAIN m.fields /\ io.position = m.fields[f].value
      /\ wireType = WireTypeOf(m, f) /\ m.fields[f].stop \in Nat
      /\ m.fields[f].stop <= Len(m.cells) /\ m.fields[f].value \in Nat
  BY AtFieldFacts
<1>3. PICK n \in 0 .. MaxCells - 1 :
           /\ m.fields[f].stop = m.fields[f].value + Width(n) + n
           /\ \A i \in 1 .. Width(n) : m.cells[m.fields[f].value + i] = Digits(n)[i]
           /\ m.fields[f].kind # "value" => /\ m.fields[f].body = m.fields[f].value + Width(n)
                                            /\ m.fields[f].end = m.fields[f].stop
  BY <1>1, <1>2, StringField
<1>4. PICK w \in Nat : w = Width(n) /\ w > 0 /\ w <= Lookahead
  <2>1. Width(n) \in 1 .. VarintSpace
    BY LengthFits
  <2>2. QED
    BY <2>1, SomeLookahead
<1>5. n \in Nat
  BY LengthFits
<1>6. /\ WindowAt(b, io.position) /\ b.position = io.position
      /\ b.window \in Seq(Cells) /\ Len(b.window) \in Nat
      /\ Len(b.window) >= Lookahead \/ io.position + Len(b.window) >= source.cut
      /\ Len(b.window) > 0 => io.position + Len(b.window) <= source.cut
      /\ \A i \in 1 .. Len(b.window) : b.window[i] = m.cells[io.position + i]
  BY SomeLookahead, Buffered
<1>7. \A i \in 1 .. w : i <= Len(b.window) => b.window[i] = Digits(n)[i]
  <2>1. TAKE i \in 1 .. w
  <2>2. SUFFICES ASSUME i <= Len(b.window) PROVE b.window[i] = Digits(n)[i]
    OBVIOUS
  <2>3. i \in 1 .. Len(b.window)
    BY <1>4, <1>6, <2>2
  <2>4. b.window[i] = m.cells[io.position + i]
    BY <1>6, <2>3
  <2>5. QED
    BY <1>2, <1>3, <1>4, <2>4
<1>8. ASSUME CutOff(b.window) PROVE ~source.complete
  <2>1. ~(w <= Len(b.window))
    <3>1. SUFFICES ASSUME w <= Len(b.window) PROVE FALSE
      OBVIOUS
    <3>2. \A i \in 1 .. w : Continues(b.window[i]) <=> i < w
      <4>1. TAKE i \in 1 .. w
      <4>2. PICK c : c = b.window[i]
        OBVIOUS
      <4>3. i <= Len(b.window)
        BY <1>4, <1>6, <3>1
      <4>4. c = Digits(n)[i]
        BY <1>7, <4>2, <4>3
      <4>5. PICK d : d = (n \div Power[i - 1]) % Base
        OBVIOUS
      <4>6. c = <<"digit", d, i < w>>
        BY <1>4, <4>4, <4>5, LengthFits
      <4>7. i \in Nat /\ w \in Nat
        BY <1>4
      <4>8. Continues(c) <=> i < w
        BY ONLY <4>6, <4>7 DEF Continues
      <4>9. QED
        BY <4>2, <4>8
    <3>3. VarintEnds(b.window) = {w}
      BY <1>4, <1>6, <3>1, <3>2, NotCutOff
    <3>4. QED
      BY <1>8, <3>3 DEF CutOff
  <2>2. Len(b.window) < w
    BY <1>4, <1>6, <2>1
  <2>3. io.position + Len(b.window) >= source.cut
    BY <1>4, <1>6, <2>2, SomeLookahead
  <2>4. m.fields[f].stop = m.fields[f].value + w + n
    BY <1>3, <1>4
  <2>5. source.cut < Len(m.cells)
    BY <1>1, <1>2, <1>4, <1>5, <1>6, <2>2, <2>3, <2>4
  <2>6. QED
    BY <1>1, <2>5
<1>9. ASSUME NEW l \in Lengths(b.window)
      PROVE  /\ l.value = n /\ l.cells = w
             /\ m.fields[f].value + w <= source.cut
             /\ WindowAt(Consumed(b, l.cells), m.fields[f].value + w)
             /\ Consumed(b, l.cells).position = m.fields[f].value + w
  <2>1. l.value = n /\ l.cells = w /\ w <= Len(b.window)
    BY <1>4, <1>6, <1>7, LengthReadBack
  <2>2. m.fields[f].value + w <= source.cut
    BY <1>1, <1>2, <1>4, <1>6, <2>1
  <2>3. /\ WindowAt(Consumed(b, w), io.position + w)
        /\ Consumed(b, w).position = b.position + w
    BY <1>6, <2>1, ConsumedAt
  <2>4. QED
    BY <1>2, <1>6, <2>1, <2>2, <2>3
<1>10. QED
  BY <1>3, <1>4, <1>5, <1>8, <1>9

LEMMA ReadStringWalks ==
  ASSUME NEW m, Walking(m), ReadString
  PROVE  Walks(m)
<1>1. /\ status = "reading" /\ pc = "value" /\ pc # "bytes" /\ wireType = "String"
      /\ UNCHANGED <<wireType, fieldNumber, blockEnd, frames>>
  BY DEF ReadString, Reading
<1>2. PICK f : AtField(m, f)
  BY <1>1 DEF Walking, Standing
<1>3. PICK b \in With(Lookahead) :
       \/ CutOff(b.window) /\ Fail
       \/ \E l \in Lengths(b.window) :
            LET p == Consumed(b, l.cells) IN
            \E e \in IF Len(p.window) < l.value THEN Ensured(p, l.value) ELSE {p} :
              IF Len(e.window) < l.value THEN Fail
              ELSE Proceed(Consumed(e, l.value), "header")
  BY DEF ReadString
<1>4. PICK n \in 0 .. MaxCells - 1 :
           /\ m.fields[f].stop = m.fields[f].value + Width(n) + n
           /\ Width(n) \in Nat /\ n \in Nat
           /\ CutOff(b.window) => ~source.complete
           /\ \A l \in Lengths(b.window) :
                /\ l.value = n
                /\ WindowAt(Consumed(b, l.cells), m.fields[f].value + Width(n))
                /\ Consumed(b, l.cells).position = m.fields[f].value + Width(n)
  BY <1>1, <1>2, LengthRead
<1>5. CASE CutOff(b.window) /\ Fail
  BY <1>1, <1>4, <1>5, Refused
<1>6. CASE \E l \in Lengths(b.window) :
            LET p == Consumed(b, l.cells) IN
            \E e \in IF Len(p.window) < l.value THEN Ensured(p, l.value) ELSE {p} :
              IF Len(e.window) < l.value THEN Fail
              ELSE Proceed(Consumed(e, l.value), "header")
  <2>1. PICK p, at, e :
          /\ WindowAt(p, at) /\ p.position = at /\ at = m.fields[f].value + Width(n)
          /\ e \in IF Len(p.window) < n THEN Ensured(p, n) ELSE {p}
          /\ IF Len(e.window) < n THEN Fail ELSE Proceed(Consumed(e, n), "header")
    BY <1>4, <1>6
  <2>2. /\ IsSent(m) /\ SourceOK /\ Len(m.cells) \in Nat /\ source.cut \in Nat
        /\ source.complete <=> source.cut = Len(m.cells)
    BY <1>1, Here DEF Walking
  <2>3. m.fields[f].stop \in Nat /\ m.fields[f].stop <= Len(m.cells)
    BY <1>1, <1>2, AtFieldFacts
  <2>4. Len(p.window) \in Nat
    BY <2>1, Typed
  <2>5. /\ WindowAt(e, at) /\ e.position = at
        /\ Len(e.window) >= n \/ at + Len(e.window) >= source.cut
    <3>1. CASE Len(p.window) < n
      BY <1>4, <2>1, <2>2, <2>4, <3>1, EnsuredAt, EnsuredGets
    <3>2. CASE ~(Len(p.window) < n)
      BY <1>4, <2>1, <2>4, <3>2
    <3>3. QED
      BY <3>1, <3>2
  <2>6. Len(e.window) \in Nat /\ at \in Nat
    BY <2>5, Typed
  <2>7. CASE Len(e.window) < n /\ Fail
    <3>1. ~source.complete
      BY <1>4, <2>1, <2>2, <2>3, <2>5, <2>6, <2>7
    <3>2. QED
      BY <1>1, <2>7, <3>1, Refused
  <2>8. CASE ~(Len(e.window) < n) /\ Proceed(Consumed(e, n), "header")
    <3>1. Consumed(e, n).position = at + n
      BY <1>4, <2>5, <2>6, <2>8, ConsumedAt
    <3>2. pc' = "header" /\ io'.position = m.fields[f].stop /\ UNCHANGED <<source, status>>
      BY <1>4, <2>1, <2>8, <3>1 DEF Proceed
    <3>3. wireType' # "EndGroup"
      BY <1>1
    <3>4. QED
      BY <1>1, <1>2, <3>2, <3>3, FieldLeft
  <2>9. QED
    BY <2>1, <2>7, <2>8
<1>7. QED
  BY <1>3, <1>5, <1>6

LEMMA SkipStringWalks ==
  ASSUME NEW m, Walking(m), SkipString
  PROVE  Walks(m)
<1>1. /\ status = "reading" /\ pc = "value" /\ pc # "bytes" /\ wireType = "String"
      /\ UNCHANGED <<wireType, fieldNumber, blockEnd, frames>>
  BY DEF SkipString, Reading
<1>2. PICK f : AtField(m, f)
  BY <1>1 DEF Walking, Standing
<1>3. PICK b \in With(Lookahead) :
       \/ CutOff(b.window) /\ Fail
       \/ \E l \in Lengths(b.window) :
            LET p == Consumed(b, l.cells)
                rest == l.value - Len(p.window)
                missing == \/ source.fixed /\ rest > p.remaining
                           \/ ~source.seekable /\ rest > Left(p)
            IN \/ rest <= 0 /\ Proceed(Consumed(p, l.value), "header")
               \/ rest > 0 /\ missing /\ Fail
               \/ rest > 0 /\ ~missing /\ Proceed(Sought(p, l.value), "header")
  BY DEF SkipString
<1>4. PICK n \in 0 .. MaxCells - 1 :
           /\ m.fields[f].stop = m.fields[f].value + Width(n) + n
           /\ Width(n) \in Nat /\ n \in Nat
           /\ CutOff(b.window) => ~source.complete
           /\ \A l \in Lengths(b.window) :
                /\ l.value = n
                /\ WindowAt(Consumed(b, l.cells), m.fields[f].value + Width(n))
                /\ Consumed(b, l.cells).position = m.fields[f].value + Width(n)
  BY <1>1, <1>2, LengthRead
<1>5. CASE CutOff(b.window) /\ Fail
  BY <1>1, <1>4, <1>5, Refused
<1>6. CASE \E l \in Lengths(b.window) :
            LET p == Consumed(b, l.cells)
                rest == l.value - Len(p.window)
                missing == \/ source.fixed /\ rest > p.remaining
                           \/ ~source.seekable /\ rest > Left(p)
            IN \/ rest <= 0 /\ Proceed(Consumed(p, l.value), "header")
               \/ rest > 0 /\ missing /\ Fail
               \/ rest > 0 /\ ~missing /\ Proceed(Sought(p, l.value), "header")
  <2> DEFINE Missing(q, r) == \/ source.fixed /\ r > q.remaining
                              \/ ~source.seekable /\ r > Left(q)
  <2>1. PICK p, at, rest :
          /\ WindowAt(p, at) /\ p.position = at /\ at = m.fields[f].value + Width(n)
          /\ rest = n - Len(p.window)
          /\ \/ rest <= 0 /\ Proceed(Consumed(p, n), "header")
             \/ rest > 0 /\ Missing(p, rest) /\ Fail
             \/ rest > 0 /\ ~Missing(p, rest) /\ Proceed(Sought(p, n), "header")
    BY <1>4, <1>6
  <2>2. /\ IsSent(m) /\ SourceOK /\ Len(m.cells) \in Nat /\ source.cut \in Nat
        /\ source.complete <=> source.cut = Len(m.cells)
    BY <1>1, Here DEF Walking
  <2>3. m.fields[f].stop \in Nat /\ m.fields[f].stop <= Len(m.cells)
    BY <1>1, <1>2, AtFieldFacts
  <2>4. /\ Len(p.window) \in Nat /\ p.fetched \in Nat /\ p.remaining \in Nat /\ at \in Nat
        /\ p.fetched = at + Len(p.window)
        /\ source.fixed => p.remaining = source.length - p.fetched
    BY <2>1, Typed DEF WindowAt
  <2>5. /\ source.length = Len(m.cells) /\ source.cut <= Len(source.cells)
        /\ Len(source.cells) \in Nat
    BY <2>2 DEF IsSent, SourceOK
  <2>6. /\ m.fields[f].stop = at + n /\ n \in Nat
        /\ rest = n - Len(p.window)
    BY <1>4, <2>1
  <2>7. CASE rest <= 0 /\ Proceed(Consumed(p, n), "header")
    <3>1. Consumed(p, n).position = at + n
      BY <1>4, <2>1, <2>4, <2>7, ConsumedAt
    <3>2. pc' = "header" /\ io'.position = m.fields[f].stop /\ UNCHANGED <<source, status>>
      BY <2>6, <2>7, <3>1 DEF Proceed
    <3>3. wireType' # "EndGroup"
      BY <1>1
    <3>4. QED
      BY <1>1, <1>2, <3>2, <3>3, FieldLeft
  <2>8. CASE rest > 0 /\ Missing(p, rest) /\ Fail
    <3>1. ~(source.fixed /\ rest > p.remaining)
      <4>1. SUFFICES ASSUME source.fixed PROVE ~(rest > p.remaining)
        OBVIOUS
      <4>2. p.remaining = Len(m.cells) - p.fetched
        BY <2>4, <2>5, <4>1
      <4>3. at + n <= Len(m.cells)
        BY <2>3, <2>6
      <4>4. rest = n - Len(p.window) /\ p.fetched = at + Len(p.window) /\ n \in Nat
        BY <2>4, <2>6
      <4>5. PICK w \in Nat, c \in Nat : w = Len(p.window) /\ c = Len(m.cells)
        BY <2>2, <2>4
      <4>6. p.remaining = c - (at + w) /\ rest = n - w /\ at + n <= c
        BY <4>2, <4>3, <4>4, <4>5
      <4>7. /\ n \in Int /\ w \in Int /\ c \in Int /\ at \in Int
            /\ at + n <= c
        BY <2>4, <4>4, <4>5, <4>6
      <4>8. n - w <= c - (at + w) /\ n - w \in Int /\ c - (at + w) \in Int
        BY ONLY <4>7
      <4>9. ~(n - w > c - (at + w))
        BY ONLY <4>8
      <4>10. QED
        BY ONLY <4>6, <4>9
    <3>2. rest > Left(p) /\ rest > 0
      BY <2>8, <3>1
    <3>3. Len(source.cells) < at + n
      <4>1. CASE p.fetched < Len(source.cells)
        <5>1. PICK c \in Nat : c = Len(source.cells)
          BY <2>5
        <5>2. rest > c - p.fetched
          BY <3>2, <4>1, <5>1 DEF Left
        <5>3. PICK k \in Nat : k = Len(p.window)
          BY <2>4
        <5>4. at \in Nat /\ n \in Nat /\ n - k > c - (at + k)
          BY ONLY <2>4, <2>6, <5>2, <5>3
        <5>5. c < at + n
          BY ONLY <5>4, c \in Nat, k \in Nat
        <5>6. QED
          BY <5>1, <5>5
      <4>2. CASE ~(p.fetched < Len(source.cells))
        BY ONLY <2>4, <2>5, <2>6, <3>2, <4>2
      <4>3. QED
        BY <4>1, <4>2
    <3>4. ~source.complete
      BY <2>2, <2>3, <2>4, <2>5, <2>6, <3>3
    <3>5. QED
      BY <1>1, <2>8, <3>4, Refused
  <2>9. CASE rest > 0 /\ ~Missing(p, rest) /\ Proceed(Sought(p, n), "header")
    <3>1. source.fixed => n - Len(p.window) <= p.remaining
      <4>1. source.fixed => ~(rest > p.remaining)
        BY <2>9
      <4>2. QED
        BY ONLY <2>4, <2>6, <4>1
    <3>2. n > Len(p.window)
      BY ONLY <2>4, <2>6, <2>9
    <3>3. source.length \in Nat
      BY <2>2 DEF SourceOK
    <3>4. Sought(p, n).position = at + n
      BY ONLY <2>1, <2>6, <3>1, <3>2, <3>3, SoughtAt
    <3>5. pc' = "header" /\ io'.position = m.fields[f].stop /\ UNCHANGED <<source, status>>
      BY <2>6, <2>9, <3>4 DEF Proceed
    <3>6. wireType' # "EndGroup"
      BY <1>1
    <3>7. QED
      BY <1>1, <1>2, <3>5, <3>6, FieldLeft
  <2>10. QED
    BY <2>1, <2>7, <2>8, <2>9
<1>7. QED
  BY <1>3, <1>5, <1>6

-----------------------------------------------------------------------------
(* AppendBytes.                                                            *)

LEMMA AppendBytesWalks ==
  ASSUME NEW m, Walking(m), NEW how, AppendBytes(how)
  PROVE  Walks(m)
<1>1. /\ status = "reading" /\ pc = "value" /\ pc # "bytes" /\ wireType = "String"
      /\ how \in {"read", "copy"} /\ May(how)
      /\ UNCHANGED <<fieldNumber, blockEnd, frames>>
  BY DEF AppendBytes, Reading
<1>2. PICK f : AtField(m, f)
  BY <1>1 DEF Walking, Standing
<1>3. PICK b \in With(Lookahead) :
       \/ CutOff(b.window) /\ Fail
       \/ \E l \in Lengths(b.window) :
            /\ Proceed([Consumed(b, l.cells) EXCEPT !.position = @ + l.value], "bytes")
            /\ blob' = [left |-> l.value, cells |-> <<>>, how |-> how,
                        from |-> io.position - 1]
            /\ wireType' = "None"
  BY DEF AppendBytes
<1>4. PICK n \in 0 .. MaxCells - 1 :
           /\ m.fields[f].stop = m.fields[f].value + Width(n) + n
           /\ Width(n) \in Nat /\ n \in Nat
           /\ \A i \in 1 .. Width(n) : m.cells[m.fields[f].value + i] = Digits(n)[i]
           /\ CutOff(b.window) => ~source.complete
           /\ \A l \in Lengths(b.window) :
                /\ l.value = n
                /\ m.fields[f].value + Width(n) <= source.cut
                /\ WindowAt(Consumed(b, l.cells), m.fields[f].value + Width(n))
                /\ Consumed(b, l.cells).position = m.fields[f].value + Width(n)
  BY <1>1, <1>2, LengthRead
<1>5. CASE CutOff(b.window) /\ Fail
  BY <1>1, <1>4, <1>5, Refused
<1>6. CASE \E l \in Lengths(b.window) :
            /\ Proceed([Consumed(b, l.cells) EXCEPT !.position = @ + l.value], "bytes")
            /\ blob' = [left |-> l.value, cells |-> <<>>, how |-> how,
                        from |-> io.position - 1]
            /\ wireType' = "None"
  <2>1. PICK p, at :
          /\ WindowAt(p, at) /\ p.position = at /\ at = m.fields[f].value + Width(n)
          /\ at <= source.cut
          /\ Proceed([p EXCEPT !.position = @ + n], "bytes")
          /\ blob' = [left |-> n, cells |-> <<>>, how |-> how, from |-> io.position - 1]
          /\ wireType' = "None"
    BY <1>4, <1>6
  <2>2. /\ m \in Messages /\ source.fields = m.fields /\ IsItem(m, Innermost(frames))
        /\ Place = io.position /\ Stacked(m, frames, blockEnd) /\ source.cut \in Nat
    BY <1>1, Here
  <2>3. /\ f \in DOMAIN m.fields /\ f \in OwnOf(m, Innermost(frames)) /\ Current = f
        /\ io.position = m.fields[f].value /\ wireType = WireTypeOf(m, f)
        /\ m.fields[f].start \in Nat /\ m.fields[f].value \in Nat /\ m.fields[f].stop \in Nat
    BY <1>1, <1>2, AtFieldFacts
  <2>4. /\ ~InPacked(m, f) /\ fieldNumber = Number(m, f)
        /\ m.fields[f].value = m.fields[f].start + 1
    <3>1. WireTypeOf(m, f) \notin ScalarTypes
      BY <1>1, <2>3 DEF ScalarTypes
    <3>2. QED
      BY <1>1, <1>2, <3>1, AtFieldFacts
  <2>5. /\ io'.position = m.fields[f].stop /\ pc' = "bytes" /\ UNCHANGED <<source, status>>
    <3>1. p \in Buffers
      BY <2>1, Typed
    <3>2. io' = [p EXCEPT !.position = p.position + n]
      BY <2>1 DEF Proceed
    <3>3. io' = Built(p.window, p.index, p.size, p.position + n, p.fetched, p.remaining)
      BY <3>1, <3>2, Repositioned
    <3>4. io'.position = at + n
      BY <2>1, <3>3 DEF Built
    <3>5. QED
      BY <1>4, <2>1, <3>4 DEF Proceed
  <2>6. /\ blob'.left = n /\ blob'.cells = <<>> /\ blob'.how = how
        /\ blob'.from = m.fields[f].start
    <3>1. io.position - 1 = m.fields[f].start
      BY <2>3, <2>4
    <3>2. QED
      BY <2>1, <3>1
  <2>7. Mode' = Mode
    BY <1>1 DEF Mode
  <2>8. Mode = "copy" => how = "copy"
    BY <1>1 DEF May
  <2>9. InBytes(m, f, n)'
    <3>1. Len(blob'.cells) = 0 /\ blob'.left + Len(blob'.cells) = n
      BY <1>4, <2>6, EmptySeq
    <3>2. \A i \in 1 .. Len(blob'.cells) :
             blob'.cells[i] = m.cells[m.fields[f].value + Width(n) + i]
      BY <3>1
    <3>3. io'.position - blob'.left <= source'.cut
      BY <1>4, <2>1, <2>3, <2>5, <2>6
    <3>4. WireTypeOf(m, f) = "String"
      BY <1>1, <2>3
    <3>5. /\ wireType' = "None" /\ fieldNumber' = Number(m, f) /\ frames' = frames
      BY <1>1, <2>1, <2>4
    <3>6. QED
      BY <1>1, <1>4, <2>3, <2>4, <2>5, <2>6, <2>7, <2>8, <3>1, <3>2, <3>3, <3>4, <3>5
      DEF InBytes
  <2>10. Standing(m)'
    BY <1>1, <2>2, <2>5, <2>9 DEF Standing
  <2>11. AtValueOf(m, f)'
    BY <1>1, <2>2, <2>3, <2>5 DEF AtValueOf
  <2>12. Current' = f
    BY <2>11, CurrentWillBe
  <2>13. Place' = Place
    BY <2>2, <2>3, <2>4, <2>5, <2>6 DEF Place
  <2>14. QED
    BY <1>1, <2>3, <2>5, <2>10, <2>12, <2>13, CursorStutters DEF Walks
<1>7. QED
  BY <1>3, <1>5, <1>6

\* In the middle of it: what the buffer has is what comes next.
LEMMA InBytesFacts ==
  ASSUME NEW m, Walking(m), status = "reading", pc = "bytes", NEW f, NEW n, InBytes(m, f, n)
  PROVE  /\ f \in DOMAIN m.fields /\ Current = f /\ n \in Nat /\ Width(n) \in Nat
         /\ m.fields[f].stop \in Nat /\ m.fields[f].stop <= Len(m.cells)
         /\ m.fields[f].start \in Nat /\ m.fields[f].value = m.fields[f].start + 1
         /\ Place = m.fields[f].value
         /\ blob \in Blob /\ blob.left \in Nat
         /\ blob.cells \in Seq(Cells) /\ Len(blob.cells) \in Nat
         /\ WindowAt(io, io.position - blob.left)
         /\ io.window \in Seq(Cells) /\ Len(io.window) \in Nat /\ io.size \in Nat
         /\ io.position \in Nat
         /\ \A i \in 1 .. Len(io.window) : io.window[i] = m.cells[io.position - blob.left + i]
         /\ Len(io.window) > 0 => io.position - blob.left + Len(io.window) <= source.cut
<1>1. /\ m \in Messages /\ source.fields = m.fields /\ IsItem(m, Innermost(frames))
      /\ IsSent(m) /\ SourceOK
  BY Here DEF Walking
<1>2. f \in DOMAIN m.fields /\ n \in 0 .. MaxCells - 1 /\ ~InPacked(m, f)
  BY DEF InBytes, OwnOf
<1>3. AtValueOf(m, f)
  BY <1>1 DEF AtValueOf, InBytes
<1>4. Current = f
  BY <1>3, CurrentIs
<1>5. n \in Nat /\ Width(n) \in Nat
  <2>1. n \in Nat /\ Width(n) \in 1 .. VarintSpace
    BY <1>2, LengthFits
  <2>2. QED
    BY <2>1, SomeLookahead
<1>6. blob \in Blob /\ WindowAt(io, io.position - blob.left)
  BY DEF Walking, ReaderInv
<1>7. blob.left \in Nat /\ blob.cells \in Seq(Cells) /\ Len(blob.cells) \in Nat
  BY <1>6 DEF Blob
<1>8. /\ io.window \in Seq(Cells) /\ Len(io.window) \in Nat /\ io.size \in Nat
      /\ io.position \in Nat
  BY <1>6, Typed
<1>9. /\ \A i \in 1 .. Len(io.window) : io.window[i] = m.cells[io.position - blob.left + i]
      /\ Len(io.window) > 0 => io.position - blob.left + Len(io.window) <= source.cut
  BY <1>1, <1>6, WindowIsSent
<1>10. m.fields[f].value = m.fields[f].start + 1
  BY <1>1, <1>2, FieldHeader
<1>11. /\ m.fields[f].stop \in Nat /\ m.fields[f].stop <= Len(m.cells)
       /\ m.fields[f].start \in Nat
  BY <1>1, <1>2, FieldTyped, FieldOrder
<1>12. Place = m.fields[f].value
  BY <1>10 DEF Place, InBytes
<1>13. QED
  BY <1>2, <1>4, <1>5, <1>6, <1>7, <1>8, <1>9, <1>10, <1>11, <1>12

LEMMA EndBytesWalks ==
  ASSUME NEW m, Walking(m), EndBytes
  PROVE  Walks(m)
<1>1. /\ status = "reading" /\ pc = "bytes" /\ blob.left <= Len(io.window)
      /\ UNCHANGED <<wireType, fieldNumber, blockEnd, frames>>
  BY DEF EndBytes, Reading
<1>2. PICK f, n : InBytes(m, f, n)
  BY <1>1 DEF Walking, Standing
<1>3. /\ f \in OwnOf(m, Innermost(frames)) /\ io.position = m.fields[f].stop
      /\ wireType = "None"
  BY <1>2 DEF InBytes
<1>4. f \in DOMAIN m.fields /\ Current = f /\ WindowAt(io, io.position - blob.left)
  BY <1>1, <1>2, InBytesFacts
<1>5. pc' = "header" /\ io'.position = io.position /\ UNCHANGED <<source, status>>
  <2>1. PICK w, i : w = SubSeq(io.window, blob.left + 1, Len(io.window)) /\ i = io.index + blob.left
    OBVIOUS
  <2>2. PICK c : c = [io EXCEPT !.window = w, !.index = i]
    OBVIOUS
  <2>3. Proceed(c, "header")
    BY <2>1, <2>2, Zenon DEF EndBytes
  <2>4. io \in Buffers
    BY <1>4, Typed
  <2>5. c = Built(w, i, io.size, io.position, io.fetched, io.remaining)
    BY <2>2, <2>4, Replaced
  <2>6. c.position = io.position
    BY <2>5 DEF Built
  <2>7. QED
    BY <2>3, <2>6 DEF Proceed
<1>6. /\ m \in Messages /\ source.fields = m.fields
  BY <1>1, Here
<1>7. Idle'
  BY <1>5 DEF Idle
<1>8. Current' = 0 /\ Place' = m.fields[f].stop
  BY <1>3, <1>5, <1>7, NoCurrentNext DEF Place
<1>9. Cursor!Next
  BY <1>1, <1>4, <1>5, <1>6, <1>8, CursorLeaves
<1>10. Boundary(m, Innermost(frames), io'.position)
  BY <1>3, <1>5 DEF Boundary
<1>11. Standing(m)'
  BY <1>1, <1>3, <1>5, <1>10, BackAtHeader
<1>12. QED
  BY <1>9, <1>11 DEF Walks

LEMMA RefillBytesWalks ==
  ASSUME NEW m, Walking(m), RefillBytes
  PROVE  Walks(m)
<1>1. /\ status = "reading" /\ pc = "bytes" /\ blob.left > Len(io.window)
      /\ UNCHANGED <<wireType, fieldNumber, blockEnd, frames>>
  BY DEF RefillBytes, Reading
<1>2. PICK f, n : InBytes(m, f, n)
  BY <1>1 DEF Walking, Standing
<1>3. /\ f \in DOMAIN m.fields /\ Current = f /\ n \in Nat /\ Width(n) \in Nat
      /\ m.fields[f].stop \in Nat /\ m.fields[f].stop <= Len(m.cells)
      /\ m.fields[f].start \in Nat /\ m.fields[f].value = m.fields[f].start + 1
      /\ Place = m.fields[f].value
      /\ blob \in Blob /\ blob.left \in Nat
      /\ blob.cells \in Seq(Cells) /\ Len(blob.cells) \in Nat
      /\ WindowAt(io, io.position - blob.left)
      /\ io.window \in Seq(Cells) /\ Len(io.window) \in Nat /\ io.size \in Nat
      /\ io.position \in Nat
      /\ \A i \in 1 .. Len(io.window) : io.window[i] = m.cells[io.position - blob.left + i]
      /\ Len(io.window) > 0 => io.position - blob.left + Len(io.window) <= source.cut
  BY <1>1, <1>2, InBytesFacts
<1>4. /\ m \in Messages /\ source.fields = m.fields /\ IsItem(m, Innermost(frames))
      /\ IsSent(m) /\ SourceOK /\ Stacked(m, frames, blockEnd)
      /\ Len(m.cells) \in Nat /\ source.cut \in Nat
      /\ source.complete <=> source.cut = Len(m.cells)
  BY <1>1, Here DEF Walking
<1>5. /\ io.position = m.fields[f].stop /\ io.position - blob.left <= source.cut
      /\ m.fields[f].stop = m.fields[f].value + Width(n) + n
      /\ blob.left + Len(blob.cells) = n
      /\ \A i \in 1 .. Len(blob.cells) :
           blob.cells[i] = m.cells[m.fields[f].value + Width(n) + i]
  BY <1>2 DEF InBytes
<1>6. PICK taken \in Nat : taken = Len(io.window)
  BY <1>3
<1>7. PICK rest : rest = blob.left - taken
  OBVIOUS
<1>8. PICK count : count = Least(rest, io.size)
  OBVIOUS
<1>9. rest \in Nat /\ count \in Nat /\ count <= rest
  BY <1>1, <1>3, <1>6, <1>7, <1>8 DEF Least
<1>10. PICK b \in Ensured(Drained, count) :
         IF Len(b.window) < count THEN Fail
         ELSE /\ Proceed(b, pc)
              /\ blob' = [blob EXCEPT !.cells = @ \o io.window, !.left = rest]
  BY <1>6, <1>7, <1>8 DEF RefillBytes
<1>11. /\ WindowAt(Drained, io.position - rest)
       /\ Drained.position = io.position /\ Len(Drained.window) <= count
  <2>1. /\ WindowAt(Drained, io.position - blob.left + taken)
        /\ Drained.position = io.position /\ Len(Drained.window) = 0
    BY <1>3, <1>6, DrainedAt
  <2>2. io.position - blob.left + taken = io.position - rest
    BY <1>3, <1>6, <1>7
  <2>3. QED
    BY <1>9, <2>1, <2>2
<1>12. /\ b.position = io.position /\ WindowAt(b, io.position - rest)
       /\ Len(b.window) >= count \/ io.position - rest + Len(b.window) >= source.cut
  BY <1>4, <1>9, <1>11, EnsuredAt, EnsuredGets
<1>13. Len(b.window) \in Nat
  BY <1>12, Typed
<1>14. CASE Len(b.window) < count /\ Fail
  <2>1. source.cut < m.fields[f].stop
    <3>1. PICK got \in Nat, stop \in Nat, cut \in Nat :
            got = Len(b.window) /\ stop = m.fields[f].stop /\ cut = source.cut
      BY <1>3, <1>4, <1>13
    <3>2. got < count /\ stop - rest + got >= cut
      BY <1>5, <1>9, <1>12, <1>14, <3>1
    <3>3. cut < stop
      BY ONLY <1>9, <3>1, <3>2
    <3>4. QED
      BY <3>1, <3>3
  <2>2. ~source.complete
    BY <1>3, <1>4, <2>1
  <2>3. QED
    BY <1>1, <1>14, <2>2, Refused
<1>15. CASE /\ Proceed(b, pc)
            /\ blob' = [blob EXCEPT !.cells = @ \o io.window, !.left = rest]
  <2>1. pc' = "bytes" /\ io'.position = io.position /\ UNCHANGED <<source, status>>
    BY <1>1, <1>12, <1>15 DEF Proceed
  <2>2. PICK cells : cells = blob.cells \o io.window
    OBVIOUS
  <2>3. /\ blob'.left = rest /\ blob'.cells = cells /\ blob'.how = blob.how
        /\ blob'.from = blob.from
    <3>1. PICK c1 : c1 = [blob EXCEPT !.cells = cells]
      OBVIOUS
    <3>2. PICK c2 : c2 = [c1 EXCEPT !.left = rest]
      OBVIOUS
    <3>3. blob' = c2
      BY <1>15, <2>2, <3>1, <3>2, Zenon
    <3>4. c2.left = rest /\ c2.cells = cells /\ c2.how = blob.how /\ c2.from = blob.from
      BY <1>3, <3>1, <3>2 DEF Blob
    <3>5. QED
      BY <3>3, <3>4
  <2>4. PICK had \in Nat : had = Len(blob.cells)
    BY <1>3
  <2>5. /\ Len(cells) = had + taken
        /\ \A i \in 1 .. had : cells[i] = blob.cells[i]
        /\ \A i \in 1 .. taken : cells[had + i] = io.window[i]
    <3>1. PICK u \in Seq(Cells), v \in Seq(Cells) :
            u = blob.cells /\ v = io.window /\ had = Len(u) /\ taken = Len(v)
      BY <1>3, <1>6, <2>4
    <3>2. cells = u \o v
      BY <2>2, <3>1
    <3>3. /\ Len(cells) = Len(u) + Len(v)
          /\ \A i \in 1 .. had : cells[i] = u[i]
          /\ \A i \in 1 .. taken : cells[had + i] = v[i]
      <4>1. /\ Len(cells) = Len(u) + Len(v)
            /\ \A i \in 1 .. Len(u) + Len(v) :
                 cells[i] = IF i <= Len(u) THEN u[i] ELSE v[i - Len(u)]
        BY <3>2, ConcatProperties
      <4>2. \A i \in 1 .. had + taken : cells[i] = IF i <= had THEN u[i] ELSE v[i - had]
        BY <3>1, <4>1
      <4>3. \A i \in 1 .. had : cells[i] = u[i]
        BY ONLY <4>2, had \in Nat, taken \in Nat
      <4>4. \A i \in 1 .. taken : cells[had + i] = v[i]
        <5>1. TAKE i \in 1 .. taken
        <5>2. PICK k \in 1 .. had + taken : k = had + i
          OBVIOUS
        <5>3. ~(k <= had) /\ k - had = i
          BY <5>2
        <5>4. QED
          BY <4>2, <5>2, <5>3
      <4>5. QED
        BY <4>1, <4>3, <4>4
    <3>4. QED
      BY <3>1, <3>3
  <2>6. PICK at \in Nat : at = m.fields[f].value + Width(n)
    BY <1>3
  <2>7. /\ rest + (had + taken) = n /\ io.position - blob.left = at + had
        /\ io.position - rest = at + had + taken
    <3>1. PICK left \in Nat, stop \in Nat : left = blob.left /\ stop = m.fields[f].stop
      BY <1>3
    <3>2. /\ stop = at + n /\ left + had = n /\ n \in Nat /\ rest = left - taken
          /\ io.position = stop
      BY <1>3, <1>5, <1>7, <2>4, <2>6, <3>1
    <3>3. /\ rest + (had + taken) = n /\ stop - left = at + had
          /\ stop - rest = at + had + taken
      BY ONLY <3>1, <3>2, had \in Nat, taken \in Nat, at \in Nat
    <3>4. QED
      BY <3>1, <3>2, <3>3
  <2>8. \A i \in 1 .. had + taken : cells[i] = m.cells[at + i]
    <3>1. TAKE i \in 1 .. had + taken
    <3>2. CASE i <= had
      <4>1. i \in 1 .. had
        BY <3>2
      <4>2. QED
        BY <1>5, <2>4, <2>5, <2>6, <4>1
    <3>3. CASE ~(i <= had)
      <4>1. PICK j \in 1 .. taken : i = had + j
        <5>1. i - had \in 1 .. taken /\ i = had + (i - had)
          BY <3>3
        <5>2. QED
          BY <5>1
      <4>2. cells[i] = io.window[j]
        BY <2>5, <4>1
      <4>3. io.window[j] = m.cells[at + had + j]
        BY <1>3, <1>6, <2>7
      <4>4. at + had + j = at + i
        BY <4>1
      <4>5. QED
        BY <4>2, <4>3, <4>4
    <3>4. QED
      BY <3>2, <3>3
  <2>9. at + had + taken <= source.cut
    <3>1. CASE taken > 0
      BY <1>3, <1>6, <2>7, <3>1
    <3>2. CASE taken = 0
      BY <1>5, <2>7, <3>2
    <3>3. QED
      BY <3>1, <3>2
  <2>10. Mode' = Mode
    BY <1>1 DEF Mode
  <2>11. InBytes(m, f, n)'
    <3>1. blob'.left + Len(blob'.cells) = n
      BY <2>3, <2>5, <2>7
    <3>2. \A i \in 1 .. Len(blob'.cells) :
             blob'.cells[i] = m.cells[m.fields[f].value + Width(n) + i]
      BY <2>3, <2>5, <2>6, <2>8
    <3>3. io'.position - blob'.left <= source'.cut
      BY <2>1, <2>3, <2>7, <2>9
    <3>4. /\ wireType' = wireType /\ fieldNumber' = fieldNumber /\ frames' = frames
      BY <1>1
    <3>5. QED
      BY <1>2, <2>1, <2>3, <2>10, <3>1, <3>2, <3>3, <3>4 DEF InBytes
  <2>12. Standing(m)'
    BY <1>1, <1>4, <2>1, <2>11 DEF Standing
  <2>13. AtValueOf(m, f)'
    BY <1>1, <1>4, <2>1, <2>11 DEF AtValueOf, InBytes
  <2>14. Current' = f
    BY <2>13, CurrentWillBe
  <2>15. Place' = Place
    BY <1>1, <2>1, <2>3 DEF Place
  <2>16. QED
    BY <1>1, <1>3, <2>1, <2>12, <2>14, <2>15, CursorStutters DEF Walks
<1>16. QED
  BY <1>10, <1>14, <1>15

-----------------------------------------------------------------------------
(* Into an item, and out of it.                                            *)

LEMMA ItemEntered ==
  ASSUME NEW m, Walking(m), status = "reading", pc = "value", NEW f, AtField(m, f),
         m.fields[f].kind # "value", ~InPacked(m, f),
         NEW c \in Frames, c.id = f, frames' = Append(frames, c),
         \/ GroupFrame(m, c) /\ blockEnd' = blockEnd
         \/ LengthFrame(m, c) /\ c.token = blockEnd /\ blockEnd' = m.fields[f].end,
         Mode \in {"copy", "skip"} => c.mode = Mode,
         pc' = "header", io'.position = m.fields[f].body, wireType' # "EndGroup",
         UNCHANGED <<source, status>>
  PROVE  Walks(m)
<1>1. /\ m \in Messages /\ source.fields = m.fields /\ Stacked(m, frames, blockEnd)
  BY Here
<1>2. /\ f \in DOMAIN m.fields /\ f \in OwnOf(m, Innermost(frames)) /\ Current = f /\ f # 0
  BY <1>1, AtFieldFacts, FieldTyped
<1>3. Idle'
  BY DEF Idle
<1>4. Current' = 0 /\ Place' = m.fields[f].body
  BY <1>3, NoCurrentNext DEF Place
<1>5. Cursor!Next
  BY <1>1, <1>2, <1>4, CursorEnters
<1>6. ~GroupFrame(m, c) \/ ~LengthFrame(m, c)
  BY DEF GroupFrame, LengthFrame
<1>7. /\ Innermost(Append(frames, c)) = f
      /\ Stacked(m, Append(frames, c), IF GroupFrame(m, c) THEN blockEnd ELSE m.fields[f].end)
  <2>1. frames # <<>> /\ frames[Len(frames)].mode \in {"copy", "skip"} =>
          c.mode = frames[Len(frames)].mode
    BY ModeIs
  <2>2. GroupFrame(m, c) \/ (LengthFrame(m, c) /\ c.token = blockEnd)
    OBVIOUS
  <2>3. c.id \in OwnOf(m, Innermost(frames)) /\ m.fields[c.id].kind # "value" /\ ~InPacked(m, c.id)
    BY <1>2
  <2>4. QED
    BY <1>1, <2>1, <2>2, <2>3, Entered
<1>8. Stacked(m, frames', blockEnd') /\ Innermost(frames') = f
  BY <1>6, <1>7
<1>9. Boundary(m, f, io'.position)
  BY <1>2 DEF Boundary, From
<1>10. AtHeader(m)'
  BY <1>8, <1>9 DEF AtHeader, Boundary, From, OwnOf
<1>11. Standing(m)'
  BY <1>8, <1>10 DEF Standing
<1>12. QED
  BY <1>5, <1>11 DEF Walks

LEMMA GroupEntered ==
  ASSUME NEW m, Walking(m), status = "reading", pc = "value", wireType = "StartGroup",
         NEW how \in {"read", "skip", "copy"}, May(how),
         NEW token, token = IF how = "skip" THEN fieldNumber ELSE -fieldNumber,
         Called(how, token, "None"), blockEnd' = blockEnd,
         Proceed(io, "header"), wireType' # "EndGroup"
  PROVE  Walks(m)
<1>1. PICK f : AtField(m, f)
  BY DEF Walking, Standing
<1>2. /\ m \in Messages /\ source.fields = m.fields
  BY Here
<1>3. /\ f \in DOMAIN m.fields /\ Current = f /\ WireTypeOf(m, f) = "StartGroup"
      /\ io.position = m.fields[f].value /\ f \in Nat
  BY <1>1, <1>2, AtFieldFacts, FieldTyped
<1>4. ~InPacked(m, f) /\ fieldNumber = Number(m, f) /\ fieldNumber \in Nat
  <2>1. WireTypeOf(m, f) \notin ScalarTypes
    BY <1>3 DEF ScalarTypes
  <2>2. QED
    BY <1>1, <2>1, AtFieldFacts, WireAssumption
<1>5. m.fields[f].kind = "message" /\ m.fields[f].body = io.position
  BY <1>2, <1>3, GroupField
<1>6. PICK c : c = [mode |-> how, token |-> token, packed |-> "None", id |-> f]
  OBVIOUS
<1>7. c.mode = how /\ c.token = token /\ c.id = f
  BY <1>6
<1>8. c \in Frames
  <2>1. token \in Int
    BY <1>4
  <2>2. how \in Modes
    BY DEF Modes
  <2>3. QED
    BY <1>3, <1>6, <2>1, <2>2 DEF Frames
<1>9. frames' = Append(frames, c)
  BY <1>3, <1>6 DEF Called
<1>10. GroupFrame(m, c)
  BY <1>3, <1>4, <1>7 DEF GroupFrame
<1>11. Mode \in {"copy", "skip"} => c.mode = Mode
  BY <1>7 DEF May
<1>12. pc' = "header" /\ io'.position = m.fields[f].body /\ UNCHANGED <<source, status>>
  BY <1>5 DEF Proceed
<1>13. m.fields[f].kind # "value"
  BY <1>5
<1>14. QED
  BY <1>1, <1>4, <1>7, <1>8, <1>9, <1>10, <1>11, <1>12, <1>13, ItemEntered

LEMMA SkipGroupWalks ==
  ASSUME NEW m, Walking(m), SkipGroup
  PROVE  Walks(m)
<1>1. /\ status = "reading" /\ pc = "value" /\ wireType = "StartGroup" /\ May("skip")
      /\ Called("skip", fieldNumber, "None") /\ Proceed(io, "header")
      /\ UNCHANGED <<wireType, blockEnd>>
  BY DEF SkipGroup, Reading
<1>2. wireType' # "EndGroup"
  BY <1>1
<1>3. QED
  BY <1>1, <1>2, GroupEntered

LEMMA StartGroupWalks ==
  ASSUME NEW m, Walking(m), NEW how, StartGroup(how)
  PROVE  Walks(m)
<1>1. /\ status = "reading" /\ pc = "value" /\ wireType = "StartGroup" /\ May(how)
      /\ how \in {"read", "copy"}
      /\ Called(how, -fieldNumber, "None") /\ Proceed(io, "header")
      /\ wireType' = "None" /\ blockEnd' = blockEnd
  BY DEF StartGroup, Reading
<1>2. wireType' # "EndGroup" /\ how # "skip"
  BY <1>1
<1>3. QED
  BY <1>1, <1>2, GroupEntered

LEMMA StartStringWalks ==
  ASSUME NEW m, Walking(m), StartString
  PROVE  Walks(m)
<1>1. /\ status = "reading" /\ pc = "value" /\ pc # "bytes" /\ wireType = "String"
      /\ Mode = "read" /\ Kind # "value" /\ UNCHANGED <<wireType, fieldNumber>>
  BY DEF StartString, Reading
<1>2. PICK f : AtField(m, f)
  BY <1>1 DEF Walking, Standing
<1>3. PICK b \in With(Lookahead) :
       \/ CutOff(b.window) /\ Fail
       \/ \E l \in Lengths(b.window) :
            /\ Proceed(Consumed(b, l.cells), "header")
            /\ blockEnd' = io.position + l.cells + l.value
            /\ IF Kind = "message" THEN Called("read", blockEnd, "None")
               ELSE Called("packed", blockEnd, Kind)
  BY DEF StartString
<1>4. PICK n \in 0 .. MaxCells - 1 :
           /\ m.fields[f].stop = m.fields[f].value + Width(n) + n
           /\ m.fields[f].kind # "value" => /\ m.fields[f].body = m.fields[f].value + Width(n)
                                            /\ m.fields[f].end = m.fields[f].stop
           /\ CutOff(b.window) => ~source.complete
           /\ \A l \in Lengths(b.window) :
                /\ l.value = n /\ l.cells = Width(n)
                /\ Consumed(b, l.cells).position = m.fields[f].value + Width(n)
  BY <1>1, <1>2, LengthRead
<1>5. CASE CutOff(b.window) /\ Fail
  BY <1>1, <1>4, <1>5, Refused
<1>6. CASE \E l \in Lengths(b.window) :
            /\ Proceed(Consumed(b, l.cells), "header")
            /\ blockEnd' = io.position + l.cells + l.value
            /\ IF Kind = "message" THEN Called("read", blockEnd, "None")
               ELSE Called("packed", blockEnd, Kind)
  <2>1. /\ m \in Messages /\ source.fields = m.fields /\ Stacked(m, frames, blockEnd)
        /\ io.position \in Nat
    BY <1>1, Here
  <2>2. /\ f \in DOMAIN m.fields /\ f \in OwnOf(m, Innermost(frames)) /\ Current = f
        /\ Kind = m.fields[f].kind /\ f \in Nat
        /\ io.position = m.fields[f].value /\ WireTypeOf(m, f) = "String"
    BY <1>1, <1>2, <2>1, AtFieldFacts, FieldTyped
  <2>3. m.fields[f].kind # "value" /\ ~InPacked(m, f)
    BY <1>1, <2>1, <2>2, PackedElement
  <2>4. /\ io'.position = m.fields[f].body /\ pc' = "header" /\ UNCHANGED <<source, status>>
        /\ blockEnd' = m.fields[f].end
    BY <1>4, <1>6, <2>2, <2>3 DEF Proceed
  <2>5. blockEnd \in Nat
    <3>1. IsItem(m, Innermost(frames))
      BY <2>1, InnermostFacts
    <3>2. From(m, Innermost(frames)) \in Nat /\ From(m, Innermost(frames)) <= To(m, Innermost(frames))
      BY <2>1, <3>1, ItemPlaces
    <3>3. QED
      BY <2>1, <3>2, BlockFacts
  <2>6. m.fields[f].kind \in {"message"} \union ScalarTypes
    BY <2>1, <2>2, <2>3, FieldTyped DEF Kinds
  <2>7. PICK c \in Frames : /\ c.id = f /\ frames' = Append(frames, c) /\ c.token = blockEnd
                            /\ LengthFrame(m, c)
    <3>1. CASE Kind = "message"
      <4>1. PICK c : c = [mode |-> "read", token |-> blockEnd, packed |-> "None", id |-> f]
        OBVIOUS
      <4>2. c \in Frames
        BY <2>2, <2>5, <4>1 DEF Frames, Modes
      <4>3. c.id = f /\ c.token = blockEnd /\ c.mode = "read"
        BY <4>1
      <4>4. frames' = Append(frames, c)
        BY <1>6, <2>2, <3>1, <4>1 DEF Called
      <4>5. LengthFrame(m, c)
        BY <2>2, <3>1, <4>3 DEF LengthFrame
      <4>6. QED
        BY <4>2, <4>3, <4>4, <4>5
    <3>2. CASE Kind # "message"
      <4>1. PICK c : c = [mode |-> "packed", token |-> blockEnd, packed |-> Kind, id |-> f]
        OBVIOUS
      <4>2. Kind \in ScalarTypes
        BY <2>2, <2>6, <3>2
      <4>3. c \in Frames
        BY <2>2, <2>5, <4>1, <4>2 DEF Frames, Modes
      <4>4. c.id = f /\ c.token = blockEnd /\ c.mode = "packed" /\ c.packed = Kind
        BY <4>1
      <4>5. frames' = Append(frames, c)
        BY <1>6, <2>2, <3>2, <4>1 DEF Called
      <4>6. LengthFrame(m, c)
        BY <2>2, <4>2, <4>4 DEF LengthFrame
      <4>7. QED
        BY <4>3, <4>4, <4>5, <4>6
    <3>3. QED
      BY <3>1, <3>2
  <2>8. wireType' # "EndGroup" /\ Mode \notin {"copy", "skip"}
    BY <1>1
  <2>9. QED
    BY <1>1, <1>2, <2>3, <2>4, <2>7, <2>8, ItemEntered
<1>7. QED
  BY <1>3, <1>5, <1>6

LEMMA ItemLeft ==
  ASSUME NEW m, Walking(m), status = "reading", pc = "end", frames # <<>>,
         io.position = m.fields[Innermost(frames)].stop,
         frames' = Front(frames),
         blockEnd' = IF HasLength(m, frames, Len(frames)) THEN Token ELSE blockEnd,
         pc' = "header", io' = io, wireType' # "EndGroup",
         UNCHANGED <<source, status>>
  PROVE  Walks(m)
<1>1. /\ m \in Messages /\ source.fields = m.fields /\ Stacked(m, frames, blockEnd)
      /\ Place = io.position
  BY Here
<1>2. Current = 0 /\ Idle'
  BY NoCurrent DEF Idle
<1>3. Current' = 0 /\ Place' = Place
  BY <1>1, <1>2, NoCurrentNext DEF Place
<1>4. Cursor!Next
  BY <1>1, <1>2, <1>3, CursorExits
<1>5. /\ Stacked(m, frames', blockEnd') /\ Innermost(frames) \in OwnOf(m, Innermost(frames'))
  BY <1>1, ModeIs, Returned
<1>6. Boundary(m, Innermost(frames'), io'.position)
  BY <1>5 DEF Boundary
<1>7. AtHeader(m)'
  BY <1>6 DEF AtHeader, Boundary, From, OwnOf, Innermost
<1>8. Standing(m)'
  BY <1>5, <1>7 DEF Standing
<1>9. QED
  BY <1>4, <1>8 DEF Walks

LEMMA NumberIs ==
  ASSUME NEW m \in Messages, NEW f \in DOMAIN m.fields, ~InPacked(m, f)
  PROVE  Number(m, f) \in Nat /\ Number(m, f) > 0
<1>1. PICK n \in Fields : n = Number(m, f)
  BY FieldHeader
<1>2. n \in Nat \ {0}
  BY WireAssumption
<1>3. QED
  BY <1>1, <1>2

\* What ReadFieldHeader gave 0 for.
LEMMA ItsEnd ==
  ASSUME NEW m, Walking(m), status = "reading", pc = "end"
  PROVE  LET p == Innermost(frames) IN
         /\ wireType = "EndGroup" =>
              /\ frames # <<>> /\ WireTypeOf(m, p) = "StartGroup"
              /\ io.position = m.fields[p].stop
              /\ fieldNumber = Number(m, p) /\ Number(m, p) \in Nat /\ Number(m, p) > 0
         /\ wireType # "EndGroup" =>
              /\ To(m, p) \in Nat /\ io.position <= To(m, p) /\ To(m, p) <= Len(m.cells)
              /\ frames # <<>> /\ WireTypeOf(m, p) = "StartGroup" => To(m, p) < Len(m.cells)
              /\ \/ source.cut <= io.position
                 \/ frames # <<>> /\ WireTypeOf(m, p) = "String" /\ io.position = To(m, p)
<1> DEFINE p == Innermost(frames)
<1>1. m \in Messages /\ Stacked(m, frames, blockEnd) /\ IsItem(m, p)
  BY Here
<1>2. AtItsEnd(m)
  BY DEF Walking, Standing
<1>3. frames # <<>> => p \in DOMAIN m.fields /\ p # 0 /\ ~InPacked(m, p)
  BY <1>1, InnermostFacts
<1>4. frames # <<>> => To(m, p) = m.fields[p].end /\ Number(m, p) \in Nat /\ Number(m, p) > 0
  <2>1. SUFFICES ASSUME frames # <<>>
                 PROVE  To(m, p) = m.fields[p].end /\ Number(m, p) \in Nat /\ Number(m, p) > 0
    OBVIOUS
  <2>2. Number(m, p) \in Nat /\ Number(m, p) > 0
    BY <1>1, <1>3, <2>1, NumberIs
  <2>3. To(m, p) = m.fields[p].end
    BY <1>3, <2>1 DEF To
  <2>4. QED
    BY <2>2, <2>3
<1>5. CASE wireType = "EndGroup"
  BY <1>2, <1>4, <1>5 DEF AtItsEnd
<1>6. CASE wireType # "EndGroup"
  <2>1. Boundary(m, p, io.position)
    BY <1>2, <1>6 DEF AtItsEnd
  <2>2. To(m, p) \in Nat /\ io.position <= To(m, p) /\ To(m, p) <= Len(m.cells)
    BY <1>1, <2>1, NextField, ItemPlaces
  <2>3. ASSUME frames # <<>>, WireTypeOf(m, p) = "StartGroup"
        PROVE  To(m, p) < Len(m.cells)
    <3>1. m.fields[p].stop = To(m, p) + 1
      BY <1>1, <1>3, <1>4, <2>3, GroupField
    <3>2. m.fields[p].stop <= Len(m.cells) /\ Len(m.cells) \in Nat
      BY <1>1, <1>3, <2>3, FieldOrder, MessageFacts
    <3>3. QED
      BY <2>2, <3>1, <3>2
  <2>4. \/ source.cut <= io.position
        \/ frames # <<>> /\ WireTypeOf(m, p) = "String" /\ io.position = To(m, p)
    BY <1>2, <1>4, <1>6 DEF AtItsEnd
  <2>5. QED
    BY <1>6, <2>2, <2>3, <2>4
<1>7. QED
  BY <1>5, <1>6

LEMMA EndSkipWalks ==
  ASSUME NEW m, Walking(m), EndSkip
  PROVE  Walks(m)
<1> DEFINE p == Innermost(frames)
<1>1. /\ status = "reading" /\ pc = "end" /\ pc # "bytes" /\ Mode = "skip"
  BY DEF EndSkip, Reading
<1>2. /\ m \in Messages /\ Stacked(m, frames, blockEnd) /\ io.position \in Nat
      /\ Len(m.cells) \in Nat /\ source.cut \in Nat
      /\ source.complete <=> source.cut = Len(m.cells)
  BY <1>1, Here
<1>3. frames # <<>> /\ frames[Len(frames)].mode = "skip" /\ Token = frames[Len(frames)].token
  BY <1>1, ModeIs
<1>4. ~HasLength(m, frames, Len(frames)) /\ GroupFrame(m, frames[Len(frames)])
  BY <1>2, <1>3, TokenFacts DEF LengthFrame
<1>5. p = frames[Len(frames)].id
  BY <1>2, <1>3, InnermostFacts
<1>6. WireTypeOf(m, p) = "StartGroup" /\ Token = Number(m, p)
  BY <1>3, <1>4, <1>5 DEF GroupFrame
<1>7. CASE wireType = "EndGroup" /\ fieldNumber = Token
  <2>1. /\ pc' = "header" /\ io' = io /\ wireType' # "EndGroup" /\ UNCHANGED <<source, status>>
        /\ frames' = Front(frames) /\ blockEnd' = blockEnd
    BY <1>7 DEF EndSkip, Proceed
  <2>2. io.position = m.fields[p].stop
    BY <1>1, <1>7, ItsEnd
  <2>3. QED
    BY <1>1, <1>3, <1>4, <2>1, <2>2, ItemLeft
<1>8. CASE ~(wireType = "EndGroup" /\ fieldNumber = Token)
  <2>1. Fail
    BY <1>8 DEF EndSkip
  <2>2. wireType # "EndGroup"
    BY <1>1, <1>6, <1>8, ItsEnd
  <2>3. /\ To(m, p) \in Nat /\ io.position <= To(m, p) /\ To(m, p) < Len(m.cells)
        /\ source.cut <= io.position
    BY <1>1, <1>3, <1>6, <2>2, ItsEnd
  <2>4. ~source.complete
    BY <1>2, <2>3
  <2>5. QED
    BY <1>1, <2>1, <2>4, Refused
<1>9. QED
  BY <1>7, <1>8

LEMMA EndSubItemWalks ==
  ASSUME NEW m, Walking(m), EndSubItem
  PROVE  Walks(m)
<1> DEFINE p == Innermost(frames)
<1>1. /\ status = "reading" /\ pc = "end" /\ pc # "bytes" /\ Mode # "skip" /\ frames # <<>>
  BY DEF EndSubItem, Reading
<1>2. /\ m \in Messages /\ Stacked(m, frames, blockEnd) /\ io.position \in Nat
      /\ Len(m.cells) \in Nat /\ source.cut \in Nat
      /\ source.complete <=> source.cut = Len(m.cells)
  BY <1>1, Here
<1>3. /\ frames[Len(frames)].mode # "skip" /\ Token = frames[Len(frames)].token
      /\ p = frames[Len(frames)].id /\ p \in DOMAIN m.fields /\ p # 0
      /\ m.fields[p].kind # "value" /\ ~InPacked(m, p)
  BY <1>1, <1>2, ModeIs, InnermostFacts
<1>4. Number(m, p) \in Nat /\ Number(m, p) > 0
  BY <1>2, <1>3, NumberIs
<1>5. WireTypeOf(m, p) = "StartGroup" =>
        ~HasLength(m, frames, Len(frames)) /\ Token = -Number(m, p)
  <2>1. SUFFICES ASSUME WireTypeOf(m, p) = "StartGroup"
                 PROVE  ~HasLength(m, frames, Len(frames)) /\ Token = -Number(m, p)
    OBVIOUS
  <2>2. ~HasLength(m, frames, Len(frames))
    BY <1>3, <2>1 DEF HasLength
  <2>3. GroupFrame(m, frames[Len(frames)])
    BY <1>1, <1>2, <2>2, TokenFacts
  <2>4. QED
    BY <1>3, <2>2, <2>3 DEF GroupFrame
<1>6. CASE wireType = "EndGroup"
  <2>1. /\ WireTypeOf(m, p) = "StartGroup" /\ io.position = m.fields[p].stop
        /\ fieldNumber = Number(m, p)
    BY <1>1, <1>6, ItsEnd
  <2>2. Token < 0 /\ -Token = fieldNumber
    BY <1>4, <1>5, <2>1
  <2>3. Ended /\ wireType' = "None" /\ UNCHANGED blockEnd
    BY <1>6, <2>2 DEF EndSubItem
  <2>4. /\ pc' = "header" /\ io' = io /\ wireType' # "EndGroup" /\ UNCHANGED <<source, status>>
        /\ frames' = Front(frames)
    BY <2>3 DEF Ended, Proceed
  <2>5. QED
    BY <1>1, <1>5, <2>1, <2>3, <2>4, ItemLeft
<1>7. CASE wireType # "EndGroup"
  <2>1. /\ To(m, p) \in Nat /\ io.position <= To(m, p) /\ To(m, p) <= Len(m.cells)
        /\ WireTypeOf(m, p) = "StartGroup" => To(m, p) < Len(m.cells)
        /\ \/ source.cut <= io.position
           \/ WireTypeOf(m, p) = "String" /\ io.position = To(m, p)
    BY <1>1, <1>7, ItsEnd
  <2>2. WireTypeOf(m, p) = "StartGroup" \/ HasLength(m, frames, Len(frames))
    <3>1. ~HasLength(m, frames, Len(frames)) => GroupFrame(m, frames[Len(frames)])
      BY <1>1, <1>2, TokenFacts
    <3>2. QED
      BY <1>3, <3>1 DEF GroupFrame
  <2>3. HasLength(m, frames, Len(frames)) =>
          /\ Token \in Nat /\ io.position <= Token /\ blockEnd = To(m, p)
          /\ WireTypeOf(m, p) = "String"
    <3>1. SUFFICES ASSUME HasLength(m, frames, Len(frames))
                   PROVE  /\ Token \in Nat /\ io.position <= Token /\ blockEnd = To(m, p)
                          /\ WireTypeOf(m, p) = "String"
      OBVIOUS
    <3>2. Token \in Nat /\ To(m, p) <= Token
      BY <1>1, <1>2, <1>3, <3>1, TokenFacts
    <3>3. blockEnd = To(m, p)
      BY <1>1, <1>2, <2>1, <3>1, BlockFacts
    <3>4. WireTypeOf(m, p) = "String"
      BY <1>3, <3>1 DEF HasLength
    <3>5. QED
      BY <1>2, <2>1, <3>2, <3>3, <3>4
  <2>4. IF Token < io.position \/ blockEnd \notin {io.position, Unbounded}
        THEN Fail
        ELSE Ended /\ blockEnd' = Token /\ UNCHANGED <<wireType, extension>>
    BY <1>7 DEF EndSubItem
  <2>5. CASE /\ Token < io.position \/ blockEnd \notin {io.position, Unbounded}
             /\ Fail
    <3>1. CASE WireTypeOf(m, p) = "StartGroup"
      <4>1. source.cut <= io.position /\ To(m, p) < Len(m.cells)
        BY <2>1, <3>1
      <4>2. ~source.complete
        BY <1>2, <2>1, <4>1
      <4>3. QED
        BY <1>1, <2>5, <4>2, Refused
    <3>2. CASE HasLength(m, frames, Len(frames))
      <4>1. ~(Token < io.position)
        BY <1>2, <2>3, <3>2
      <4>2. io.position # To(m, p)
        BY <2>3, <2>5, <3>2, <4>1
      <4>3. ~source.complete
        BY <1>2, <2>1, <4>2
      <4>4. QED
        BY <1>1, <2>5, <4>3, Refused
    <3>3. QED
      BY <2>2, <3>1, <3>2
  <2>6. CASE /\ ~(Token < io.position \/ blockEnd \notin {io.position, Unbounded})
             /\ Ended /\ blockEnd' = Token /\ UNCHANGED <<wireType, extension>>
    <3>1. HasLength(m, frames, Len(frames))
      <4>1. SUFFICES ASSUME WireTypeOf(m, p) = "StartGroup" PROVE FALSE
        BY <2>2
      <4>2. Token = -Number(m, p) /\ ~(Token < io.position)
        BY <1>5, <2>6, <4>1
      <4>3. QED
        BY <1>2, <1>4, <4>2
    <3>2. io.position = To(m, p)
      <4>1. To(m, p) # Unbounded
        <5>1. Len(m.cells) <= MaxCells /\ MaxCells \in Nat
          BY <1>2, MessageFacts, WireAssumption
        <5>2. QED
          BY <1>2, <2>1, <5>1 DEF Unbounded
      <4>2. QED
        BY <2>3, <2>6, <3>1, <4>1
    <3>3. io.position = m.fields[p].stop
      <4>1. To(m, p) = m.fields[p].end
        BY <1>3 DEF To
      <4>2. m.fields[p].end = m.fields[p].stop
        BY <1>2, <1>3, <2>3, <3>1, StringField
      <4>3. QED
        BY <3>2, <4>1, <4>2
    <3>4. /\ pc' = "header" /\ io' = io /\ wireType' # "EndGroup" /\ UNCHANGED <<source, status>>
          /\ frames' = Front(frames)
      BY <1>7, <2>6 DEF Ended, Proceed
    <3>5. QED
      BY <1>1, <2>6, <3>1, <3>3, <3>4, ItemLeft
  <2>7. QED
    BY <2>4, <2>5, <2>6
<1>8. QED
  BY <1>6, <1>7

LEMMA FinishWalks ==
  ASSUME NEW m, Walking(m), Finish
  PROVE  Walks(m)
<1>1. /\ status = "reading" /\ pc = "end" /\ pc # "bytes" /\ frames = <<>>
      /\ UNCHANGED <<source, io, frames, pc, blob>>
      /\ status' = IF source.exact /\ io.position # source.length THEN "failed"
                   ELSE "finished"
  BY DEF Finish, Reading
<1>2. /\ m \in Messages /\ Place = io.position /\ io.position \in Nat
      /\ Len(m.cells) \in Nat /\ source.cut \in Nat
      /\ source.complete <=> source.cut = Len(m.cells)
  BY <1>1, Here
<1>3. Current = 0 /\ Current' = Current /\ Place' = Place
  BY <1>1, NoCurrent, NothingMoves DEF Idle
<1>4. Innermost(frames) = 0 /\ To(m, 0) = Len(m.cells) /\ source.length = Len(m.cells)
  BY <1>1 DEF Innermost, To, Walking, IsSent
<1>5. io.position <= Len(m.cells) /\ source.cut <= io.position
  BY <1>1, <1>4, ItsEnd
<1>6. Standing(m)'
  BY <1>1 DEF Standing
<1>7. CASE status' = "finished"
  BY <1>1, <1>2, <1>3, <1>5, <1>6, <1>7, CursorFinishes DEF Walks
<1>8. CASE status' # "finished"
  <2>1. status' = "failed" /\ io.position # Len(m.cells)
    BY <1>1, <1>4, <1>8
  <2>2. ~source.complete
    BY <1>2, <1>5, <2>1
  <2>3. QED
    BY <1>1, <1>3, <1>6, <2>1, <2>2, CursorFails DEF Walks
<1>9. QED
  BY <1>7, <1>8

LEMMA SentWhole ==
  ASSUME NEW m \in Messages, NEW n \in 0 .. Len(m.cells),
         NEW fixed \in BOOLEAN, NEW exact, NEW seekable,
         source = Delivered(m, n, fixed, exact, seekable)
  PROVE  IsSent(m)
<1>1. /\ m.cells \in Seq(Cells) /\ Len(m.cells) \in Nat /\ Following \in Seq(Cells)
  BY MessageFacts, ReaderAssumption
<1>2. PICK size \in Nat : size = Len(m.cells)
  BY <1>1
<1>3. PICK front \in Seq(Cells) : front = SubSeq(m.cells, 1, n)
  <2>1. \A i \in 1 .. n : m.cells[i] \in Cells
    <3>1. \A i \in 1 .. n : i \in 1 .. Len(m.cells)
      BY <1>1
    <3>2. QED
      BY <1>1, <3>1, ElementOfSeq
  <2>2. 1 \in Int /\ n \in Int
    BY <1>1
  <2>3. SubSeq(m.cells, 1, n) \in Seq(Cells)
    BY <2>1, <2>2, SubSeqProperties
  <2>4. QED
    BY <2>3
<1>4. n \in Nat /\ n <= size /\ Len(front) = n /\ \A i \in 1 .. n : front[i] = m.cells[i]
  BY <1>1, <1>2, <1>3
<1>5. PICK back \in Seq(Cells) : back = IF fixed /\ n = size THEN Following ELSE <<>>
  BY <1>1, EmptySeq
<1>6. PICK extra \in Nat : extra = Len(back)
  BY <1>5
<1>7. (fixed /\ n = size) \/ extra = 0
  BY <1>5, <1>6, EmptySeq
<1>8. PICK all : all = front \o back
  OBVIOUS
<1>9. /\ Len(all) = Len(front) + Len(back)
      /\ \A i \in 1 .. Len(front) + Len(back) :
           all[i] = IF i <= Len(front) THEN front[i] ELSE back[i - Len(front)]
  BY <1>8, ConcatProperties
<1>10. Len(all) = n + extra /\ \A i \in 1 .. n : all[i] = m.cells[i]
  <2>1. Len(all) = n + extra
    BY <1>4, <1>6, <1>9
  <2>2. ASSUME NEW i \in 1 .. n PROVE all[i] = m.cells[i]
    <3>1. i \in 1 .. n + extra /\ i <= n
      BY <1>4
    <3>2. QED
      BY <1>4, <1>6, <1>9, <3>1
  <2>3. QED
    BY <2>1, <2>2
<1>11. /\ source.cells = all /\ source.fields = m.fields /\ source.cut = n
       /\ source.complete = (n = size) /\ source.fixed = fixed /\ source.length = size
  BY <1>2, <1>3, <1>5, <1>8 DEF Delivered
<1>12. /\ source.cut \in 0 .. Len(m.cells) /\ source.cut <= Len(source.cells)
       /\ (source.fixed /\ source.complete) \/ Len(source.cells) = source.cut
  BY <1>2, <1>4, <1>7, <1>10, <1>11
<1>13. QED
  BY <1>2, <1>10, <1>11, <1>12 DEF IsSent

LEMMA WalkBegins == Init => (\E m : Walking(m)) /\ Cursor!Init
<1>1. SUFFICES ASSUME Init PROVE (\E m : Walking(m)) /\ Cursor!Init
  OBVIOUS
<1>2. PICK m \in Messages, fixed \in BOOLEAN, exact \in BOOLEAN, seekable \in BOOLEAN :
         \E n \in 0 .. Len(m.cells) :
           source = Delivered(m, n, fixed, exact, seekable) /\ io = NothingRead(m, fixed)
  BY <1>1 DEF Init
<1>3. PICK n \in 0 .. Len(m.cells) :
        source = Delivered(m, n, fixed, exact, seekable) /\ io = NothingRead(m, fixed)
  BY <1>2
<1>4. /\ wireType = "None" /\ blockEnd = Unbounded /\ frames = <<>> /\ pc = "header"
      /\ status = "reading"
  BY <1>1 DEF Init
<1>5. io.position = 0
  BY <1>3 DEF NothingRead
<1>6. IsSent(m)
  BY <1>3, SentWhole
<1>7. AtHeader(m)
  BY <1>4, <1>5 DEF AtHeader, Boundary, From, Innermost
<1>8. Standing(m)
  BY <1>4, <1>7, NoFrames DEF Standing
<1>9. Walking(m)
  BY <1>1, <1>6, <1>8, ReaderInit DEF Walking
<1>10. Current = 0
  BY <1>4, NoCurrent DEF Idle
<1>11. [i \in DOMAIN frames |-> frames[i].id] = <<>>
  BY <1>4, <1>6, NoFrames, OpenIs DEF IsSent
<1>12. Cursor!Init
  BY <1>4, <1>5, <1>10, <1>11 DEF Cursor!Init
<1>13. QED
  BY <1>9, <1>12

LEMMA SourceStays ==
  ASSUME [Next]_vars
  PROVE  source' = source
<1>1. CASE Headers
  BY <1>1 DEF Headers, ReadFieldHeader, HasSubValue, TryReadFieldHeader, Proceed, Fail
<1>2. CASE Values
  <2>1. ASSUME NEW how, ReadScalar(how) PROVE source' = source
    BY <2>1 DEF ReadScalar, Proceed, Fail
  <2>2. ASSUME NEW how, AppendBytes(how) PROVE source' = source
    BY <2>2 DEF AppendBytes, Proceed, Fail
  <2>3. CASE ReadString
    BY <2>3 DEF ReadString, Proceed, Fail
  <2>4. CASE RefillBytes
    BY <2>4 DEF RefillBytes, Proceed, Fail
  <2>5. CASE EndBytes
    BY <2>5 DEF EndBytes, Proceed
  <2>6. CASE SkipString
    BY <2>6 DEF SkipString, Proceed, Fail
  <2>7. QED
    BY <1>2, <2>1, <2>2, <2>3, <2>4, <2>5, <2>6 DEF Values
<1>3. CASE Items
  <2>1. ASSUME NEW how, StartGroup(how) PROVE source' = source
    BY <2>1 DEF StartGroup, Proceed
  <2>2. CASE StartString
    BY <2>2 DEF StartString, Proceed, Fail
  <2>3. CASE EndSubItem
    BY <2>3 DEF EndSubItem, Ended, Proceed, Fail
  <2>4. CASE SkipGroup
    BY <2>4 DEF SkipGroup, Proceed
  <2>5. CASE EndSkip
    BY <2>5 DEF EndSkip, Proceed, Fail
  <2>6. QED
    BY <1>3, <2>1, <2>2, <2>3, <2>4, <2>5 DEF Items
<1>4. CASE Finish \/ Done \/ UNCHANGED vars
  BY <1>4 DEF Finish, Done, vars
<1>5. QED
  BY <1>1, <1>2, <1>3, <1>4 DEF Next

LEMMA NothingWalks ==
  ASSUME NEW m, Walking(m), UNCHANGED vars
  PROVE  Walks(m)
<1>1. UNCHANGED <<source, io, wireType, fieldNumber, blockEnd, frames, pc, blob, status>>
  BY DEF vars
<1>2. UNCHANGED Cursor!vars
  BY <1>1, NothingMoves, CursorStutters
<1>3. Standing(m)'
  BY <1>1 DEF Walking, Standing, AtHeader, AtField, InBytes, AtItsEnd, Mode
<1>4. QED
  BY <1>2, <1>3 DEF Walks

LEMMA WalkGoesOn ==
  ASSUME NEW m, Walking(m), [Next]_vars
  PROVE  Walking(m)' /\ [Cursor!Next]_(Cursor!vars)
<1>1. Walks(m)
  <2>1. CASE Headers
    BY <2>1, ReadFieldHeaderWalks, HasSubValueWalks, TryReadFieldHeaderWalks DEF Headers
  <2>2. CASE Values
    BY <2>2, ReadScalarWalks, AppendBytesWalks, ReadStringWalks, RefillBytesWalks,
       EndBytesWalks, SkipStringWalks DEF Values
  <2>3. CASE Items
    BY <2>3, StartGroupWalks, StartStringWalks, EndSubItemWalks, SkipGroupWalks,
       EndSkipWalks DEF Items
  <2>4. CASE Finish
    BY <2>4, FinishWalks
  <2>5. CASE Done \/ UNCHANGED vars
    BY <2>5, NothingWalks DEF Done
  <2>6. QED
    BY <2>1, <2>2, <2>3, <2>4, <2>5 DEF Next
<1>2. ReaderInv'
  BY ReaderNext DEF Walking
<1>3. IsSent(m)'
  BY SourceStays DEF Walking, IsSent
<1>4. QED
  BY <1>1, <1>2, <1>3 DEF Walks, Walking

\* The reader implements WireCursor, for any messages that a writer framed, any
\* chunks and any buffer: every field is taken where it starts and left where it
\* stops, each item is left at its end, a complete message is never refused, and
\* one that is cut short is finished only between two of its own fields.
THEOREM WalkIsFollowed == Spec => ImplementsCursor
<1>1. Init => (\E m : Walking(m)) /\ Cursor!Init
  BY WalkBegins
<1>2. (\E m : Walking(m)) /\ [Next]_vars =>
        (\E m : Walking(m))' /\ [Cursor!Next]_(Cursor!vars)
  BY WalkGoesOn
<1>3. QED
  BY <1>1, <1>2, PTL DEF Spec, ImplementsCursor, Cursor!Spec

-----------------------------------------------------------------------------
(* What is copied.                                                         *)

Extensions == [cells : Seq(Cells), from : Nat, to : Nat, committed : BOOLEAN]

\* cells are those of m from one place to another.
IsPiece(m, cells, from, to) ==
  /\ cells \in Seq(Cells) /\ from \in Nat /\ to \in Nat
  /\ from <= to /\ Len(cells) = to - from
  /\ \A i \in 1 .. to - from : cells[i] = m.cells[from + i]

\* The varints between two places are as short as this library writes them.
IsPadded(m, f) == /\ WireTypeOf(m, f) = "Variant"
                  /\ m.fields[f].stop > m.fields[f].value + 1
                  /\ m.cells[m.fields[f].stop][2] = 0

Unpadded(m, from, to) ==
  \A f \in DOMAIN m.fields :
    from <= m.fields[f].start /\ m.fields[f].stop <= to => ~IsPadded(m, f)

\* What is made of a piece of m: its padding may be gone.
IsCopy(m, cells, from, to) ==
  /\ cells \in Seq(Cells) /\ from \in Nat /\ to \in Nat /\ from <= to
  /\ Unpadded(m, from, to) => IsPiece(m, cells, from, to)

IsField(m, from, to) ==
  \E f \in DOMAIN m.fields : m.fields[f].start = from /\ m.fields[f].stop = to

Verbatim(m) ==
  /\ extension \in Extensions
  /\ IsCopy(m, extension.cells, extension.from, extension.to)
  /\ extension.to <= source.cut
  /\ extension.committed => IsField(m, extension.from, extension.to)

\* How far a group that is copied has come.
CopyTo ==
  /\ pc = "header" => extension.to = io.position
  /\ pc = "value" => extension.to = io.position - 1
  /\ pc = "bytes" => extension.to = blob.from
  /\ pc = "end" /\ wireType = "EndGroup" => extension.to = io.position - 1

\* The outermost group that is copied.
CopiedFrom(m, fr, from) ==
  \E k \in 1 .. Len(fr) : /\ \A i \in 1 .. Len(fr) : fr[i].mode = "copy" <=> i >= k
                          /\ from = m.fields[fr[k].id].start

Extended(m) ==
  /\ Verbatim(m)
  /\ status = "reading" /\ Mode = "copy" => CopyTo /\ CopiedFrom(m, frames, extension.from)

LEMMA Joined ==
  ASSUME NEW m, NEW u, NEW v, NEW a, NEW b, NEW c, IsPiece(m, u, a, b), IsPiece(m, v, b, c)
  PROVE  IsPiece(m, u \o v, a, c)
<1>1. /\ u \in Seq(Cells) /\ v \in Seq(Cells) /\ a \in Nat /\ b \in Nat /\ c \in Nat
      /\ a <= b /\ b <= c /\ Len(u) = b - a /\ Len(v) = c - b
      /\ \A i \in 1 .. b - a : u[i] = m.cells[a + i]
      /\ \A i \in 1 .. c - b : v[i] = m.cells[b + i]
  BY DEF IsPiece
<1>2. PICK w : w = u \o v
  OBVIOUS
<1>3. /\ w \in Seq(Cells) /\ Len(w) = Len(u) + Len(v)
      /\ \A i \in 1 .. Len(u) + Len(v) : w[i] = IF i <= Len(u) THEN u[i] ELSE v[i - Len(u)]
  BY <1>1, <1>2, ConcatProperties
<1>4. Len(w) = c - a /\ a <= c
  BY <1>1, <1>3
<1>5. ASSUME NEW i \in 1 .. c - a PROVE w[i] = m.cells[a + i]
  <2>1. i \in 1 .. Len(u) + Len(v)
    BY <1>1
  <2>2. CASE i <= b - a
    <3>1. i \in 1 .. b - a
      BY <1>1, <2>2
    <3>2. QED
      BY <1>1, <1>3, <2>1, <3>1
  <2>3. CASE ~(i <= b - a)
    <3>1. PICK j \in 1 .. c - b : j = i - (b - a)
      <4>1. i - (b - a) \in 1 .. c - b
        BY <1>1, <2>3
      <4>2. QED
        BY <4>1
    <3>2. w[i] = v[j]
      BY <1>1, <1>3, <2>1, <2>3, <3>1
    <3>3. b + j = a + i
      BY <1>1, <3>1
    <3>4. QED
      BY <1>1, <3>2, <3>3
  <2>4. QED
    BY <2>2, <2>3
<1>6. QED
  BY <1>1, <1>2, <1>3, <1>4, <1>5 DEF IsPiece

LEMMA PieceIsCopy ==
  ASSUME NEW m, NEW u, NEW a, NEW b, IsPiece(m, u, a, b)
  PROVE  IsCopy(m, u, a, b)
BY DEF IsPiece, IsCopy

LEMMA CopiesJoined ==
  ASSUME NEW m \in Messages, NEW u, NEW v, NEW a, NEW b, NEW c,
         IsCopy(m, u, a, b), IsCopy(m, v, b, c)
  PROVE  IsCopy(m, u \o v, a, c)
<1>1. /\ u \in Seq(Cells) /\ v \in Seq(Cells) /\ a \in Nat /\ b \in Nat /\ c \in Nat
      /\ a <= b /\ b <= c
  BY DEF IsCopy
<1>2. u \o v \in Seq(Cells) /\ a <= c
  BY <1>1, ConcatProperties
<1>3. ASSUME Unpadded(m, a, c) PROVE IsPiece(m, u \o v, a, c)
  <2>1. Unpadded(m, a, b) /\ Unpadded(m, b, c)
    <3>1. \A f \in DOMAIN m.fields : m.fields[f].start \in Nat /\ m.fields[f].stop \in Nat
      BY FieldTyped
    <3>2. ASSUME NEW f \in DOMAIN m.fields,
                 \/ a <= m.fields[f].start /\ m.fields[f].stop <= b
                 \/ b <= m.fields[f].start /\ m.fields[f].stop <= c
          PROVE  ~IsPadded(m, f)
      <4>1. a <= m.fields[f].start /\ m.fields[f].stop <= c
        BY <1>1, <3>1, <3>2
      <4>2. QED
        BY <1>3, <4>1 DEF Unpadded
    <3>3. QED
      BY <3>2 DEF Unpadded
  <2>2. IsPiece(m, u, a, b) /\ IsPiece(m, v, b, c)
    BY <2>1 DEF IsCopy
  <2>3. QED
    BY <2>2, Joined
<1>4. QED
  BY <1>1, <1>2, <1>3 DEF IsCopy

LEMMA OneCell ==
  ASSUME NEW m \in Messages, NEW at \in Nat, at + 1 <= Len(m.cells), NEW c, c = m.cells[at + 1]
  PROVE  IsPiece(m, <<c>>, at, at + 1)
<1>1. m.cells \in Seq(Cells) /\ Len(m.cells) \in Nat
  BY MessageFacts
<1>2. at + 1 \in 1 .. Len(m.cells)
  BY <1>1
<1>3. c \in Cells
  BY <1>1, <1>2, ElementOfSeq
<1>4. PICK s : s = <<c>>
  OBVIOUS
<1>5. s \in Seq(Cells) /\ Len(s) = 1 /\ s[1] = c
  BY <1>3, <1>4
<1>6. at + 1 - at = 1
  OBVIOUS
<1>7. \A i \in 1 .. 1 : s[i] = m.cells[at + i]
  BY <1>5
<1>8. QED
  BY <1>4, <1>5, <1>6, <1>7 DEF IsPiece

\* The cells at the front of a window.
LEMMA FrontOfWindow ==
  ASSUME NEW m, NEW w \in Seq(Cells), NEW at \in Nat, NEW n \in Nat, n <= Len(w),
         \A i \in 1 .. Len(w) : w[i] = m.cells[at + i]
  PROVE  IsPiece(m, SubSeq(w, 1, n), at, at + n)
<1>1. PICK s : s = SubSeq(w, 1, n)
  OBVIOUS
<1>2. /\ s \in Seq(Cells) /\ Len(s) = n /\ \A i \in 1 .. n : s[i] = w[i]
  <2>1. Len(w) \in Nat
    OBVIOUS
  <2>2. \A i \in 1 .. n : i \in 1 .. Len(w)
    BY <2>1
  <2>3. \A i \in 1 .. n : w[i] \in Cells
    BY <2>2, ElementOfSeq
  <2>4. s \in Seq(Cells)
    BY <1>1, <2>3, SubSeqProperties
  <2>5. Len(s) = n /\ \A i \in 1 .. n : s[i] = w[i]
    BY <1>1, <2>1
  <2>6. QED
    BY <2>4, <2>5
<1>3. \A i \in 1 .. n : i \in 1 .. Len(w)
  OBVIOUS
<1>4. at + n - at = n /\ at <= at + n /\ at + n \in Nat
  OBVIOUS
<1>5. QED
  BY <1>1, <1>2, <1>3, <1>4 DEF IsPiece

\* A piece is added to what was copied.
LEMMA PieceCopied ==
  ASSUME NEW m \in Messages, Verbatim(m), NEW cells, NEW from, NEW to, NEW whole \in BOOLEAN,
         Copied("copy", cells, from, to, whole),
         IsCopy(m, cells, from, to), to <= source.cut, source' = source,
         Mode = "copy" => extension.to = from,
         whole => IsField(m, from, to)
  PROVE  /\ Verbatim(m)' /\ extension'.to = to
         /\ extension'.from = IF Mode = "copy" THEN extension.from ELSE from
<1>1. PICK done \in BOOLEAN : done = (whole /\ Mode # "copy")
  OBVIOUS
<1>2. PICK first : first = IF Mode = "copy" THEN extension.from ELSE from
  OBVIOUS
<1>3. PICK all : all = (IF Mode = "copy" THEN extension.cells ELSE <<>>) \o cells
  OBVIOUS
<1>4. extension' = [cells |-> all, from |-> first, to |-> to, committed |-> done]
  BY <1>1, <1>2, <1>3, Zenon DEF Copied
<1>5. IsCopy(m, all, first, to)
  <2>1. CASE Mode = "copy"
    <3>1. IsCopy(m, extension.cells, extension.from, from)
      BY <2>1 DEF Verbatim
    <3>2. all = extension.cells \o cells /\ first = extension.from
      BY <1>2, <1>3, <2>1
    <3>3. QED
      BY <3>1, <3>2, CopiesJoined
  <2>2. CASE Mode # "copy"
    <3>1. cells \in Seq(Cells)
      BY DEF IsCopy
    <3>2. all = <<>> \o cells /\ first = from
      BY <1>2, <1>3, <2>2
    <3>3. all = cells
      BY <3>1, <3>2, ConcatEmptySeq
    <3>4. QED
      BY <3>2, <3>3
  <2>3. QED
    BY <2>1, <2>2
<1>6. done => IsField(m, first, to)
  BY <1>1, <1>2
<1>7. /\ extension'.cells = all /\ extension'.from = first /\ extension'.to = to
      /\ extension'.committed = done
  BY <1>4
<1>8. extension' \in Extensions
  BY <1>4, <1>5 DEF IsCopy, Extensions
<1>9. Verbatim(m)'
  BY <1>5, <1>6, <1>7, <1>8 DEF Verbatim, IsCopy, IsField
<1>10. QED
  BY <1>2, <1>7, <1>9

\* Nothing is copied in this step.
LEMMA NothingCopied ==
  ASSUME NEW m, Verbatim(m), UNCHANGED <<source, extension>>
  PROVE  Verbatim(m)'
BY DEF Verbatim, IsCopy, IsField

LEMMA SameCopy ==
  ASSUME NEW m, Extended(m), status = "reading", UNCHANGED <<source, frames, extension>>,
         Mode = "copy" /\ status' = "reading" => CopyTo'
  PROVE  Extended(m)'
<1>1. Mode' = Mode
  BY DEF Mode
<1>2. Verbatim(m)'
  BY NothingCopied DEF Extended
<1>3. QED
  BY <1>1, <1>2 DEF Extended, CopiedFrom

LEMMA HeadersCopy ==
  ASSUME NEW m, Walking(m), Extended(m), Headers
  PROVE  Extended(m)'
<1>1. /\ status = "reading" /\ pc = "header" /\ pc # "bytes"
      /\ UNCHANGED <<source, frames, extension>>
  BY DEF Headers, ReadFieldHeader, HasSubValue, TryReadFieldHeader, Reading, Proceed, Fail
<1>2. SUFFICES ASSUME Mode = "copy", status' = "reading" PROVE CopyTo'
  BY <1>1, SameCopy
<1>3. ReadFieldHeader
  BY <1>2 DEF Headers, HasSubValue, TryReadFieldHeader
<1>4. extension.to = io.position /\ io.position \in Nat /\ wireType # "EndGroup"
  BY <1>1, <1>2, Here, AtHeaderFacts DEF Extended, CopyTo
<1>5. CASE AtEnd /\ Proceed(io, "end") /\ UNCHANGED <<wireType, fieldNumber>>
  BY <1>4, <1>5 DEF Proceed, CopyTo
<1>6. ASSUME NEW b \in With(Lookahead),
             IF b.window = <<>>
             THEN Proceed(b, "end") /\ wireType' = "None" /\ fieldNumber' = 0
             ELSE LET cell == b.window[1] IN
                  IF cell[1] = "header"
                  THEN /\ Proceed(Consumed(b, 1), IF cell[3] = "EndGroup" THEN "end"
                                                  ELSE "value")
                       /\ wireType' = cell[3]
                       /\ fieldNumber' = cell[2]
                  ELSE Fail
      PROVE  CopyTo'
  <2>1. CASE b.window = <<>>
    BY <1>6, <2>1 DEF Proceed, CopyTo
  <2>2. CASE b.window # <<>>
    <3>1. ~Fail
      BY <1>2 DEF Fail
    <3>2. pc' \in {"value", "end"} /\ io' = Consumed(b, 1)
      BY <1>6, <2>2, <3>1 DEF Proceed
    <3>3. b.window \in Seq(Cells) /\ Len(b.window) \in Nat
      BY <1>1, SomeLookahead, Buffered
    <3>4. 1 <= Len(b.window)
      BY <2>2, <3>3
    <3>5. io'.position = io.position + 1
      BY <1>1, <3>2, <3>4, SomeLookahead, Buffered
    <3>6. extension'.to = io'.position - 1
      BY <1>1, <1>4, <3>5
    <3>7. QED
      BY <3>2, <3>6 DEF CopyTo
  <2>3. QED
    BY <2>1, <2>2
<1>7. QED
  BY <1>3, <1>5, <1>6 DEF ReadFieldHeader

\* Whoever copies does not read or skip.
LEMMA OnlyCopies ==
  /\ Mode = "copy" => ~May("read") /\ ~May("skip")
  /\ May("copy") => Mode \in {"read", "copy"}
BY DEF May

\* A field is copied whole.
LEMMA FieldCopied ==
  ASSUME NEW m, Walking(m), Extended(m), status = "reading",
         NEW f \in DOMAIN m.fields, NEW cells, NEW from, NEW to,
         from = m.fields[f].start, to = m.fields[f].stop,
         Copied("copy", cells, from, to, TRUE),
         IsCopy(m, cells, from, to), to <= source.cut,
         Mode = "copy" => extension.to = from,
         UNCHANGED <<source, frames>>, pc' = "header", io'.position = to
  PROVE  Extended(m)'
<1>1. IsField(m, from, to)
  BY DEF IsField
<1>2. /\ Verbatim(m)' /\ extension'.to = to
      /\ extension'.from = IF Mode = "copy" THEN extension.from ELSE from
  <2>1. PICK whole \in BOOLEAN : whole = TRUE
    OBVIOUS
  <2>2. Copied("copy", cells, from, to, whole)
    BY <2>1
  <2>3. Verbatim(m)
    BY DEF Extended
  <2>4. m \in Messages /\ source' = source /\ (whole => IsField(m, from, to))
    BY <1>1, Here
  <2>5. QED
    BY <2>2, <2>3, <2>4, PieceCopied
<1>3. Mode' = Mode
  BY DEF Mode
<1>4. CopyTo'
  BY <1>2 DEF CopyTo
<1>5. Mode = "copy" => CopiedFrom(m, frames', extension'.from)
  BY <1>2 DEF Extended, CopiedFrom
<1>6. QED
  BY <1>2, <1>3, <1>4, <1>5 DEF Extended, CopiedFrom

\* The last cell of a varint that is not only zeros, the first if it is.
LEMMA Greatest ==
  ASSUME NEW n \in Nat, NEW S, S \subseteq 1 .. n, S # {}
  PROVE  Max(S) \in S /\ \A x \in S : Max(S) >= x
<1>1. PICK T : T = {n - x : x \in S}
  OBVIOUS
<1>2. T \subseteq Nat /\ T # {}
  <2>1. \A x \in S : x \in 1 .. n
    OBVIOUS
  <2>2. \A x \in S : n - x \in Nat
    BY <2>1
  <2>3. QED
    BY <1>1, <2>2
<1>3. PICK y \in T : \A z \in T : y <= z
  BY <1>2, LeastOf
<1>4. PICK x \in S : y = n - x
  BY <1>1, <1>3
<1>5. ASSUME NEW z \in S PROVE x >= z
  <2>1. n - x <= n - z
    BY <1>1, <1>3, <1>4
  <2>2. x \in 1 .. n /\ z \in 1 .. n
    OBVIOUS
  <2>3. QED
    BY <2>1, <2>2
<1>6. QED
  BY <1>5 DEF Max

Zeros == {<<"digit", 0, more>> : more \in BOOLEAN}

\* Written short, a varint is cells, and the same cells if it was not padded.
LEMMA ShortestIs ==
  ASSUME NEW n \in Nat, n > 0, NEW w \in Seq(Cells), Len(w) = n,
         \A i \in 1 .. n : w[i] \in {<<"digit", d, i < n>> : d \in 0 .. Base - 1}
  PROVE  /\ Shortest(w) \in Seq(Cells)
         /\ n = 1 \/ w[n][2] # 0 => Shortest(w) = w
<1>1. PICK S : S = {i \in DOMAIN w : i = 1 \/ w[i] \notin Zeros}
  OBVIOUS
<1>2. S \subseteq 1 .. n /\ 1 \in S
  BY <1>1
<1>3. Max(S) \in 1 .. n /\ \A i \in S : Max(S) >= i
  <2>1. S # {}
    BY <1>2
  <2>2. QED
    BY <1>2, <2>1, Greatest
<1>4. PICK k \in 1 .. n : k = Max(S)
  BY <1>3
<1>5. Shortest(w) = [i \in 1 .. k |-> IF i = k /\ Continues(w[i])
                                      THEN <<"digit", w[i][2], FALSE>> ELSE w[i]]
  BY <1>1, <1>4 DEF Shortest, Zeros
<1>6. ASSUME NEW i \in 1 .. k
      PROVE  (IF i = k /\ Continues(w[i]) THEN <<"digit", w[i][2], FALSE>> ELSE w[i]) \in Cells
  <2>1. i \in 1 .. n
    OBVIOUS
  <2>2. w[i] \in Cells
    BY <2>1, ElementOfSeq
  <2>3. PICK d \in 0 .. Base - 1 : w[i] = <<"digit", d, i < n>>
    BY <2>1
  <2>4. <<"digit", w[i][2], FALSE>> \in Cells
    <3>1. w[i][2] = d
      BY <2>3
    <3>2. PICK more \in BOOLEAN : more = FALSE
      OBVIOUS
    <3>3. <<"digit", d, more>> \in Cells
      BY DEF Cells
    <3>4. QED
      BY <3>1, <3>2, <3>3
  <2>5. QED
    BY <2>2, <2>4
<1>7. Shortest(w) \in Seq(Cells)
  <2>1. PICK g : g = [i \in 1 .. k |-> IF i = k /\ Continues(w[i])
                                       THEN <<"digit", w[i][2], FALSE>> ELSE w[i]]
    OBVIOUS
  <2>2. g \in [1 .. k -> Cells]
    BY <1>6, <2>1, Zenon
  <2>3. k \in Nat
    OBVIOUS
  <2>4. g \in Seq(Cells)
    BY <2>2, <2>3
  <2>5. QED
    BY <1>5, <2>1, <2>4
<1>8. ASSUME n = 1 \/ w[n][2] # 0 PROVE Shortest(w) = w
  <2>1. n \in S
    <3>1. n \in DOMAIN w
      OBVIOUS
    <3>2. w[n][2] # 0 => w[n] \notin Zeros
      BY DEF Zeros
    <3>3. QED
      BY <1>1, <1>8, <3>1, <3>2
  <2>2. k = n
    BY <1>3, <1>4, <2>1
  <2>3. ~Continues(w[n])
    <3>1. n \in 1 .. n
      OBVIOUS
    <3>2. PICK d \in 0 .. Base - 1 : w[n] = <<"digit", d, n < n>>
      BY <3>1
    <3>3. PICK more : more = (n < n)
      BY Zenon
    <3>4. w[n] = <<"digit", d, more>>
      BY <3>2, <3>3, Zenon
    <3>5. Continues(w[n]) <=> more
      BY <3>4 DEF Continues
    <3>6. ~(n < n)
      OBVIOUS
    <3>7. QED
      BY <3>3, <3>5, <3>6, Zenon
  <2>4. Shortest(w) = [i \in 1 .. n |-> w[i]]
    BY <1>5, <2>2, <2>3
  <2>5. QED
    BY <2>4
<1>9. QED
  BY <1>7, <1>8

\* What is written of a value that was read, and that it is a copy.
Written(w) == IF wireType = "Variant" THEN Shortest(w) ELSE w

LEMMA ScalarWritten ==
  ASSUME NEW m \in Messages, NEW f \in DOMAIN m.fields, NEW h, NEW w,
         NEW start \in Nat, NEW at \in Nat, NEW n \in Nat, n > 0,
         start = m.fields[f].start, at = m.fields[f].value, m.fields[f].stop = at + n,
         IsPiece(m, h, start, at), IsPiece(m, w, at, at + n), wireType = WireTypeOf(m, f)
  PROVE  IsCopy(m, h \o Written(w), start, at + n)
<1>1. /\ h \in Seq(Cells) /\ w \in Seq(Cells) /\ start <= at /\ Len(w) = n
      /\ \A i \in 1 .. n : w[i] = m.cells[at + i]
  <2>1. at + n - at = n
    OBVIOUS
  <2>2. QED
    BY <2>1 DEF IsPiece
<1>2. /\ Written(w) \in Seq(Cells)
      /\ ~IsPadded(m, f) => Written(w) = w
  <2>1. CASE wireType = "Variant"
    <3>1. WireTypeOf(m, f) = "Variant"
      BY <2>1
    <3>2. PICK k \in 1 .. VarintSpace :
            /\ m.fields[f].stop = m.fields[f].value + k
            /\ \A i \in 1 .. k : m.cells[m.fields[f].value + i]
                                   \in {<<"digit", d, i < k>> : d \in 0 .. Base - 1}
      BY <3>1, VariantField
    <3>3. k = n
      BY <3>2
    <3>4. ASSUME NEW i \in 1 .. n
          PROVE  w[i] \in {<<"digit", d, i < n>> : d \in 0 .. Base - 1}
      <4>1. w[i] = m.cells[m.fields[f].value + i]
        BY <1>1
      <4>2. m.cells[m.fields[f].value + i] \in {<<"digit", d, i < n>> : d \in 0 .. Base - 1}
        BY <3>2, <3>3, Zenon
      <4>3. QED
        BY <4>1, <4>2, Zenon
    <3>5. /\ Shortest(w) \in Seq(Cells)
          /\ n = 1 \/ w[n][2] # 0 => Shortest(w) = w
      BY <1>1, <3>4, ShortestIs
    <3>6. ~IsPadded(m, f) => n = 1 \/ w[n][2] # 0
      BY <1>1, <3>1 DEF IsPadded
    <3>7. QED
      BY <2>1, <3>5, <3>6 DEF Written
  <2>2. CASE wireType # "Variant"
    BY <1>1, <2>2 DEF Written
  <2>3. QED
    BY <2>1, <2>2
<1>3. h \o Written(w) \in Seq(Cells) /\ start <= at + n /\ at + n \in Nat
  BY <1>1, <1>2, ConcatProperties
<1>4. ASSUME Unpadded(m, start, at + n) PROVE IsPiece(m, h \o Written(w), start, at + n)
  <2>1. Written(w) = w
    BY <1>2, <1>4 DEF Unpadded
  <2>2. QED
    BY <2>1, Joined
<1>5. QED
  BY <1>3, <1>4 DEF IsCopy

LEMMA ReadScalarCopies ==
  ASSUME NEW m, Walking(m), Extended(m), NEW how, ReadScalar(how)
  PROVE  Extended(m)'
<1>1. /\ status = "reading" /\ pc = "value" /\ pc # "bytes" /\ wireType \in ScalarTypes
      /\ May(how) /\ UNCHANGED <<source, wireType, fieldNumber, blockEnd, frames>>
  BY DEF ReadScalar, Reading, Scalar, Proceed, Fail
<1>2. PICK f : AtField(m, f)
  BY <1>1 DEF Walking, Standing
<1>3. PICK count \in Nat : count = IF wireType = "Variant" THEN Lookahead ELSE FixedLength
  BY SomeLookahead, WireAssumption
<1>4. PICK b \in With(count) :
       LET ends == IF wireType = "Variant" THEN VarintEnds(b.window)
                   ELSE {FixedLength} \intersect DOMAIN b.window
           rewritten(w) == IF wireType = "Variant" THEN Shortest(w) ELSE w
       IN \/ ends = {} /\ Fail
          \/ \E n \in ends :
               /\ Proceed(Consumed(b, n), "header")
               /\ Copied(how, <<Header(fieldNumber, wireType)>>
                                \o rewritten(SubSeq(b.window, 1, n)),
                         io.position - 1, io.position + n, TRUE)
  BY <1>3 DEF ReadScalar
<1>5. CASE Fail
  BY <1>1, <1>5, SameCopy DEF Fail
<1>6. CASE ~Fail
  <2>1. PICK n \in Nat :
          /\ n > 0 /\ m.fields[f].stop = io.position + n /\ n <= Len(b.window)
          /\ Proceed(Consumed(b, n), "header")
          /\ Copied(how, <<Header(fieldNumber, wireType)>> \o Written(SubSeq(b.window, 1, n)),
                    io.position - 1, io.position + n, TRUE)
    <3>1. PICK ends : ends = IF wireType = "Variant" THEN VarintEnds(b.window)
                             ELSE {FixedLength} \intersect DOMAIN b.window
      OBVIOUS
    <3>2. PICK k \in Nat : /\ k > 0 /\ m.fields[f].stop = io.position + k
                           /\ \A n \in ends : n = k /\ k <= Len(b.window)
      BY <1>1, <1>2, <1>3, <3>1, ScalarRead
    <3>3. PICK n \in ends :
            /\ Proceed(Consumed(b, n), "header")
            /\ Copied(how, <<Header(fieldNumber, wireType)>> \o Written(SubSeq(b.window, 1, n)),
                      io.position - 1, io.position + n, TRUE)
      BY <1>4, <1>6, <3>1 DEF Written
    <3>4. n = k /\ k <= Len(b.window)
      BY <3>2
    <3>5. QED
      BY <3>2, <3>3, <3>4
  <2>2. CASE how # "copy"
    <3>1. extension' = extension /\ pc' = "header"
      BY <2>1, <2>2 DEF Copied, Proceed
    <3>2. Mode # "copy"
      BY <1>1, <2>2 DEF May
    <3>3. QED
      BY <1>1, <3>1, <3>2, SameCopy
  <2>3. CASE how = "copy"
    <3>1. /\ m \in Messages /\ source.fields = m.fields /\ Stacked(m, frames, blockEnd)
          /\ io.position \in Nat /\ Len(m.cells) \in Nat /\ source.cut \in Nat
          /\ source.cut <= Len(m.cells)
      BY <1>1, Here
    <3>2. /\ f \in DOMAIN m.fields /\ f \in OwnOf(m, Innermost(frames))
          /\ io.position = m.fields[f].value
          /\ wireType = WireTypeOf(m, f) /\ m.fields[f].start \in Nat
          /\ m.fields[f].stop \in Nat
      BY <1>1, <1>2, AtFieldFacts
    <3>3. ~InPacked(m, f)
      <4>1. Mode # "packed"
        BY <1>1, <2>3, OnlyCopies
      <4>2. QED
        BY <3>1, <3>2, <4>1, PackedMode, ModeIs
    <3>4. /\ m.fields[f].value = m.fields[f].start + 1
          /\ m.cells[m.fields[f].value] = Header(fieldNumber, wireType)
      BY <1>2, <3>1, <3>2, <3>3, FieldHeader DEF AtField
    <3>5. /\ b.window \in Seq(Cells) /\ Len(b.window) \in Nat
          /\ Len(b.window) > 0 => io.position + Len(b.window) <= source.cut
          /\ \A i \in 1 .. Len(b.window) : b.window[i] = m.cells[io.position + i]
          /\ Consumed(b, n).position = io.position + n
      BY <1>1, <2>1, Buffered
    <3>6. pc' = "header" /\ io'.position = io.position + n /\ status' = status
      BY <2>1, <3>5 DEF Proceed
    <3>7. io.position + n <= source.cut
      BY <2>1, <3>1, <3>5
    <3>8. PICK start \in Nat : start = m.fields[f].start
      BY <3>2
    <3>9. io.position = start + 1 /\ io.position - 1 = start
      BY <3>1, <3>2, <3>4, <3>8
    <3>10. IsPiece(m, <<Header(fieldNumber, wireType)>>, start, start + 1)
      BY <3>1, <3>2, <3>4, <3>7, <3>8, <3>9, OneCell
    <3>11. IsPiece(m, SubSeq(b.window, 1, n), io.position, io.position + n)
      BY <2>1, <3>1, <3>5, FrontOfWindow
    <3>12. PICK cells : cells = <<Header(fieldNumber, wireType)>>
                                  \o Written(SubSeq(b.window, 1, n))
      OBVIOUS
    <3>13. IsCopy(m, cells, start, io.position + n)
      <4>1. PICK at \in Nat : at = io.position /\ at = start + 1
        BY <3>1, <3>9
      <4>2. PICK w : w = SubSeq(b.window, 1, n)
        OBVIOUS
      <4>3. IsPiece(m, <<Header(fieldNumber, wireType)>>, start, at)
        BY <3>10, <4>1
      <4>4. IsPiece(m, w, at, at + n)
        BY <3>11, <4>1, <4>2
      <4>5. IsCopy(m, <<Header(fieldNumber, wireType)>> \o Written(w), start, at + n)
        BY <2>1, <3>1, <3>2, <3>8, <4>1, <4>3, <4>4, ScalarWritten
      <4>6. QED
        BY <3>12, <4>1, <4>2, <4>5
    <3>14. Mode = "copy" => extension.to = start
      BY <1>1, <3>9 DEF Extended, CopyTo
    <3>15. Copied("copy", cells, start, io.position + n, TRUE)
      BY <2>1, <2>3, <3>9, <3>12
    <3>16. io.position + n = m.fields[f].stop
      BY <2>1
    <3>17. QED
      BY <1>1, <3>2, <3>6, <3>7, <3>8, <3>13, <3>14, <3>15, <3>16, FieldCopied
  <2>4. QED
    BY <2>2, <2>3
<1>7. QED
  BY <1>5, <1>6

LEMMA CalledMode ==
  ASSUME NEW fr \in Seq(Frames), NEW c, frames' = Append(fr, c)
  PROVE  Mode' = c.mode
<1>1. PICK gr : gr = frames'
  OBVIOUS
<1>2. fr \in Seq(Frames \union {c}) /\ c \in Frames \union {c} /\ Len(fr) \in Nat
  OBVIOUS
<1>3. Len(gr) = Len(fr) + 1 /\ gr[Len(fr) + 1] = c
  BY <1>1, <1>2, AppendProperties
<1>4. gr # <<>>
  BY <1>2, <1>3
<1>5. Last(frames') = c /\ frames' # <<>>
  BY <1>1, <1>3, <1>4 DEF Last
<1>6. QED
  BY <1>5 DEF Mode

\* Without a group that is copied, nothing changes.
LEMMA NotCopying ==
  ASSUME NEW m, Extended(m), UNCHANGED <<source, extension>>,
         Mode' # "copy" \/ status' # "reading"
  PROVE  Extended(m)'
<1>1. Verbatim(m)'
  BY NothingCopied DEF Extended
<1>2. QED
  BY <1>1 DEF Extended

LEMMA StringsCopy ==
  ASSUME NEW m, Walking(m), Extended(m),
         ReadString \/ SkipString \/ StartString \/ SkipGroup
  PROVE  Extended(m)'
<1>1. /\ status = "reading" /\ UNCHANGED <<source, extension>>
  BY DEF ReadString, SkipString, StartString, SkipGroup, Reading, Proceed, Fail
<1>2. frames \in Seq(Frames)
  BY <1>1, Here DEF Stacked
<1>3. CASE ReadString \/ SkipString
  <2>1. Mode # "copy" /\ frames' = frames
    BY <1>3, OnlyCopies DEF ReadString, SkipString
  <2>2. QED
    BY <1>1, <2>1, SameCopy
<1>4. CASE StartString
  <2>1. PICK how, packed : /\ how \in {"read", "packed"}
                           /\ Fail \/ Called(how, blockEnd, packed)
    BY <1>4 DEF StartString
  <2>2. CASE Fail
    BY <1>1, <2>2, NotCopying DEF Fail
  <2>3. CASE Called(how, blockEnd, packed)
    <3>1. PICK c : c = [mode |-> how, token |-> blockEnd, packed |-> packed, id |-> Current]
      OBVIOUS
    <3>2. frames' = Append(frames, c) /\ c.mode = how
      BY <2>3, <3>1 DEF Called
    <3>3. Mode' = how
      BY <1>2, <3>2, CalledMode
    <3>4. Mode' # "copy"
      BY <2>1, <3>3
    <3>5. QED
      BY <1>1, <3>4, NotCopying
  <2>4. QED
    BY <2>1, <2>2, <2>3
<1>5. CASE SkipGroup
  <2>1. PICK c : c = [mode |-> "skip", token |-> fieldNumber, packed |-> "None", id |-> Current]
    OBVIOUS
  <2>2. frames' = Append(frames, c) /\ c.mode = "skip"
    BY <1>5, <2>1 DEF SkipGroup, Called
  <2>3. Mode' = "skip"
    BY <1>2, <2>2, CalledMode
  <2>4. QED
    BY <1>1, <2>3, NotCopying
<1>6. QED
  BY <1>3, <1>4, <1>5

LEMMA BytesCopy ==
  ASSUME NEW m, Walking(m), Extended(m), RefillBytes \/ \E how : AppendBytes(how)
  PROVE  Extended(m)'
<1>1. /\ status = "reading" /\ UNCHANGED <<source, frames, extension>>
  BY DEF RefillBytes, AppendBytes, Reading, Proceed, Fail
<1>2. SUFFICES ASSUME Mode = "copy", status' = "reading" PROVE CopyTo'
  BY <1>1, SameCopy
<1>3. ~Fail
  BY <1>2 DEF Fail
<1>4. CASE RefillBytes
  <2>1. pc = "bytes" /\ pc' = "bytes"
    BY <1>3, <1>4 DEF RefillBytes, Reading, Proceed
  <2>2. blob'.from = blob.from
    <3>1. PICK cells, rest : blob' = [blob EXCEPT !.cells = cells, !.left = rest]
      BY <1>3, <1>4, Zenon DEF RefillBytes
    <3>2. blob \in Blob
      BY DEF Walking, ReaderInv
    <3>3. PICK c : c = [blob EXCEPT !.cells = cells]
      OBVIOUS
    <3>4. blob' = [c EXCEPT !.left = rest]
      BY <3>1, <3>3, Zenon
    <3>5. QED
      BY <3>2, <3>3, <3>4 DEF Blob
  <2>3. QED
    BY <1>1, <1>2, <2>1, <2>2 DEF Extended, CopyTo
<1>5. ASSUME NEW how, AppendBytes(how) PROVE CopyTo'
  <2>1. /\ pc = "value" /\ pc' = "bytes"
        /\ \E l : blob' = [left |-> l, cells |-> <<>>, how |-> how, from |-> io.position - 1]
    BY <1>3, <1>5 DEF AppendBytes, Reading, Proceed
  <2>2. blob'.from = io.position - 1
    BY <2>1
  <2>3. QED
    BY <1>1, <1>2, <2>1, <2>2 DEF Extended, CopyTo
<1>6. QED
  BY <1>4, <1>5

LEMMA EndBytesCopies ==
  ASSUME NEW m, Walking(m), Extended(m), EndBytes
  PROVE  Extended(m)'
<1>1. /\ status = "reading" /\ pc = "bytes" /\ blob.left <= Len(io.window)
      /\ pc' = "header" /\ UNCHANGED <<source, status, frames>>
  BY DEF EndBytes, Reading, Proceed
<1>2. PICK f, n : InBytes(m, f, n)
  BY <1>1 DEF Walking, Standing
<1>3. PICK all : all = blob.cells \o SubSeq(io.window, 1, blob.left)
  OBVIOUS
<1>4. Copied(blob.how, <<Header(fieldNumber, "String")>> \o Digits(Len(all)) \o all,
             blob.from, io.position, TRUE)
  BY <1>3, Zenon DEF EndBytes
<1>5. CASE blob.how # "copy"
  <2>1. extension' = extension
    BY <1>4, <1>5 DEF Copied
  <2>2. Mode # "copy"
    BY <1>2, <1>5 DEF InBytes
  <2>3. QED
    BY <1>1, <2>1, <2>2, SameCopy
<1>6. CASE blob.how = "copy"
  <2>1. /\ f \in DOMAIN m.fields /\ n \in Nat /\ Width(n) \in Nat
        /\ m.fields[f].stop <= Len(m.cells)
        /\ m.fields[f].start \in Nat /\ m.fields[f].value = m.fields[f].start + 1
        /\ blob.left \in Nat /\ blob.cells \in Seq(Cells) /\ Len(blob.cells) \in Nat
        /\ WindowAt(io, io.position - blob.left)
        /\ io.window \in Seq(Cells) /\ Len(io.window) \in Nat /\ io.position \in Nat
        /\ \A i \in 1 .. Len(io.window) : io.window[i] = m.cells[io.position - blob.left + i]
        /\ Len(io.window) > 0 => io.position - blob.left + Len(io.window) <= source.cut
    BY <1>1, <1>2, InBytesFacts
  <2>2. /\ n \in 0 .. MaxCells - 1 /\ ~InPacked(m, f) /\ WireTypeOf(m, f) = "String"
        /\ io.position = m.fields[f].stop
        /\ m.fields[f].stop = m.fields[f].value + Width(n) + n
        /\ \A i \in 1 .. Width(n) : m.cells[m.fields[f].value + i] = Digits(n)[i]
        /\ fieldNumber = Number(m, f)
        /\ blob.from = m.fields[f].start /\ blob.left + Len(blob.cells) = n
        /\ \A i \in 1 .. Len(blob.cells) :
             blob.cells[i] = m.cells[m.fields[f].value + Width(n) + i]
        /\ io.position - blob.left <= source.cut
    BY <1>2 DEF InBytes
  <2>3. /\ m \in Messages /\ source.fields = m.fields /\ Len(m.cells) \in Nat
        /\ source.cut \in Nat /\ source.cut <= Len(m.cells)
    BY <1>1, Here
  <2>4. PICK start \in Nat, w \in Nat, had \in Nat, left \in Nat, taken \in Nat,
             size \in Nat, cut \in Nat :
          /\ start = m.fields[f].start /\ w = Width(n) /\ had = Len(blob.cells)
          /\ left = blob.left /\ taken = Len(io.window) /\ size = Len(m.cells)
          /\ cut = source.cut
    BY <2>1, <2>3
  <2>5. PICK body \in Nat : /\ body = m.fields[f].value + Width(n) /\ body = start + 1 + w
                            /\ io.position = body + n /\ had + left = n
                            /\ io.position - blob.left = body + had
                            /\ m.fields[f].value = start + 1
                            /\ io.position = m.fields[f].stop
    <3>1. PICK stop \in Nat : stop = io.position
      BY <2>1
    <3>2. m.fields[f].value = start + 1
      BY <2>1, <2>4
    <3>3. m.fields[f].value + Width(n) = start + 1 + w
      BY <2>4, <3>2
    <3>4. stop = start + 1 + w + n
      BY <2>2, <3>1, <3>3
    <3>5. had + left = n
      BY <2>2, <2>4
    <3>6. n \in Nat
      BY <2>1
    <3>7. stop - left = start + 1 + w + had
      BY ONLY <3>4, <3>5, <3>6, start \in Nat, w \in Nat, had \in Nat, left \in Nat
    <3>8. PICK at \in Nat : at = start + 1 + w
      OBVIOUS
    <3>9. io.position - blob.left = at + had
      BY <2>4, <3>1, <3>7, <3>8
    <3>10. io.position = m.fields[f].stop
      BY <2>2
    <3>11. at = m.fields[f].value + Width(n) /\ io.position = at + n
      BY <3>1, <3>3, <3>4, <3>8
    <3>12. QED
      BY <3>2, <3>5, <3>8, <3>9, <3>10, <3>11
  <2>6. /\ n \in Nat /\ left <= taken /\ cut <= size /\ had + left = n /\ body = start + 1 + w
        /\ taken > 0 => body + had + taken <= cut
        /\ body + had <= cut
    <3>1. n \in Nat
      BY <2>1
    <3>2. left <= taken /\ cut <= size
      BY <1>1, <2>3, <2>4
    <3>3. taken > 0 => body + had + taken <= cut
      BY <2>1, <2>4, <2>5
    <3>4. body + had <= cut
      BY <2>2, <2>4, <2>5
    <3>5. QED
      BY <2>5, <3>1, <3>2, <3>3, <3>4
  <2>7. body + n <= cut /\ body + n <= size
    BY ONLY <2>6, start \in Nat, w \in Nat, had \in Nat, left \in Nat, taken \in Nat,
            size \in Nat, cut \in Nat, body \in Nat
  <2>8. IsPiece(m, all, body, body + n) /\ Len(all) = n
    <3>1. PICK bytes \in Seq(Cells) : bytes = blob.cells
      BY <2>1
    <3>2. Len(bytes) = had /\ \A i \in 1 .. had : bytes[i] = m.cells[body + i]
      BY <2>2, <2>4, <2>5, <3>1
    <3>3. IsPiece(m, bytes, body, body + had)
      <4>1. body + had - body = had /\ body <= body + had /\ body + had \in Nat
        BY ONLY body \in Nat, had \in Nat
      <4>2. QED
        BY <3>2, <4>1 DEF IsPiece
    <3>4. PICK at \in Nat : at = body + had
      OBVIOUS
    <3>5. PICK win \in Seq(Cells) : win = io.window
      BY <2>1
    <3>6. \A i \in 1 .. Len(win) : win[i] = m.cells[at + i]
      BY <2>1, <2>5, <3>4, <3>5
    <3>7. left <= Len(win)
      BY <2>4, <2>6, <3>5
    <3>8. IsPiece(m, SubSeq(win, 1, left), at, at + left)
      BY <3>6, <3>7, FrontOfWindow
    <3>9. at + left = body + n
      BY ONLY <2>6, <3>4, body \in Nat, had \in Nat, left \in Nat
    <3>10. all = bytes \o SubSeq(win, 1, left)
      BY <1>3, <2>4, <3>1, <3>5
    <3>11. IsPiece(m, all, body, body + n)
      BY <3>3, <3>4, <3>8, <3>9, <3>10, Joined
    <3>12. body + n - body = n
      BY ONLY <2>6, body \in Nat
    <3>13. Len(all) = body + n - body
      BY <2>6, <3>11 DEF IsPiece
    <3>14. QED
      BY ONLY <3>11, <3>12, <3>13
  <2>9. IsPiece(m, Digits(n), start + 1, body)
    <3>1. \A i \in 1 .. w : Digits(n)[i] = m.cells[start + 1 + i]
      BY <2>2, <2>4, <2>5
    <3>2. Digits(n) \in Seq(Cells) /\ Len(Digits(n)) = w
      <4>1. Digits(n) = [i \in 1 .. w |-> Digits(n)[i]]
        BY <2>4 DEF Digits
      <4>2. \A i \in 1 .. w : Digits(n)[i] \in Cells
        <5>1. TAKE i \in 1 .. w
        <5>2. start + 1 + i \in 1 .. size
          BY ONLY <2>6, <2>7, i \in 1 .. w, start \in Nat, w \in Nat, size \in Nat,
                  body \in Nat
        <5>3. m.cells \in Seq(Cells) /\ Len(m.cells) = size
          BY <2>3, <2>4, MessageFacts
        <5>4. m.cells[start + 1 + i] \in Cells
          BY <5>2, <5>3, ElementOfSeq
        <5>5. QED
          BY <3>1, <5>4
      <4>3. QED
        BY <4>1, <4>2
    <3>3. body - (start + 1) = w /\ start + 1 <= body /\ start + 1 \in Nat
      BY ONLY <2>6, start \in Nat, w \in Nat
    <3>4. QED
      BY <3>1, <3>2, <3>3 DEF IsPiece
  <2>10. IsPiece(m, <<Header(fieldNumber, "String")>>, start, start + 1)
    <3>1. m.cells[start + 1] = Header(fieldNumber, "String")
      BY <2>1, <2>2, <2>3, <2>5, FieldHeader
    <3>2. start + 1 <= size
      BY ONLY <2>6, <2>7, start \in Nat, w \in Nat, body \in Nat, size \in Nat
    <3>3. QED
      BY <2>3, <2>4, <3>1, <3>2, OneCell
  <2>11. PICK cells : cells = <<Header(fieldNumber, "String")>> \o Digits(n) \o all
    OBVIOUS
  <2>12. IsCopy(m, cells, start, body + n)
    BY <2>8, <2>9, <2>10, <2>11, Joined, PieceIsCopy
  <2>13. Copied("copy", cells, start, body + n, TRUE)
    BY <1>4, <1>6, <2>2, <2>4, <2>5, <2>8, <2>11
  <2>14. io'.position = body + n
    <3>1. /\ \E u, i : io' = [io EXCEPT !.window = u, !.index = i]
      BY Zenon DEF EndBytes, Proceed
    <3>2. io \in Buffers
      BY <2>1, Typed
    <3>3. io'.position = io.position
      BY <3>1, <3>2, Replaced DEF Built
    <3>4. QED
      BY <2>5, <3>3
  <2>15. Mode = "copy" => extension.to = start
    BY <1>1, <2>2, <2>4 DEF Extended, CopyTo
  <2>16. body + n = m.fields[f].stop
    BY <2>5
  <2>17. QED
    BY <1>1, <2>1, <2>4, <2>7, <2>12, <2>13, <2>14, <2>15, <2>16, FieldCopied
<1>7. QED
  BY <1>5, <1>6

-----------------------------------------------------------------------------
(* The items that are copied.                                              *)

\* The outermost group that is copied, after a call ...
LEMMA CopyEntered ==
  ASSUME NEW m, NEW fr \in Seq(Frames), NEW c, c.mode = "copy", NEW from,
         \/ CopiedFrom(m, fr, from)
         \/ /\ \A i \in 1 .. Len(fr) : fr[i].mode # "copy"
            /\ from = m.fields[c.id].start
  PROVE  CopiedFrom(m, Append(fr, c), from)
<1>1. PICK gr : gr = Append(fr, c)
  OBVIOUS
<1>2. PICK n \in Nat : /\ n = Len(fr) /\ Len(gr) = n + 1 /\ gr[n + 1] = c
                       /\ \A i \in 1 .. n : gr[i] = fr[i]
  <2>1. fr \in Seq(Frames \union {c}) /\ c \in Frames \union {c} /\ Len(fr) \in Nat
    OBVIOUS
  <2>2. QED
    BY <1>1, <2>1, AppendProperties
<1>3. \A i \in 1 .. n + 1 : i \in 1 .. n \/ i = n + 1
  OBVIOUS
<1>4. CASE CopiedFrom(m, fr, from)
  <2>1. PICK k \in 1 .. n : /\ \A i \in 1 .. n : fr[i].mode = "copy" <=> i >= k
                            /\ from = m.fields[fr[k].id].start
    BY <1>2, <1>4 DEF CopiedFrom
  <2>2. k \in 1 .. n + 1 /\ n + 1 >= k /\ from = m.fields[gr[k].id].start
    BY <1>2, <2>1
  <2>3. \A i \in 1 .. n + 1 : gr[i].mode = "copy" <=> i >= k
    <3>1. TAKE i \in 1 .. n + 1
    <3>2. CASE i \in 1 .. n
      BY <1>2, <2>1, <3>2
    <3>3. CASE i = n + 1
      BY <1>2, <2>2, <3>3
    <3>4. QED
      BY <1>3, <3>2, <3>3
  <2>4. QED
    BY <1>1, <1>2, <2>2, <2>3 DEF CopiedFrom
<1>5. CASE /\ \A i \in 1 .. Len(fr) : fr[i].mode # "copy"
           /\ from = m.fields[c.id].start
  <2>1. n + 1 \in 1 .. n + 1 /\ from = m.fields[gr[n + 1].id].start
    BY <1>2, <1>5
  <2>2. \A i \in 1 .. n + 1 : gr[i].mode = "copy" <=> i >= n + 1
    <3>1. TAKE i \in 1 .. n + 1
    <3>2. CASE i \in 1 .. n
      <4>1. gr[i].mode # "copy" /\ ~(i >= n + 1)
        BY <1>2, <1>5, <3>2
      <4>2. QED
        BY <4>1
    <3>3. CASE i = n + 1
      BY <1>2, <3>3
    <3>4. QED
      BY <1>3, <3>2, <3>3
  <2>3. QED
    BY <1>1, <1>2, <2>1, <2>2 DEF CopiedFrom
<1>6. QED
  BY <1>4, <1>5

\* ... and after the return from one.
LEMMA CopyLeft ==
  ASSUME NEW m, NEW fr \in Seq(Frames), fr # <<>>, NEW from, CopiedFrom(m, fr, from)
  PROVE  LET outer == Front(fr)
             nested == outer # <<>> /\ Last(outer).mode = "copy"
         IN /\ nested => CopiedFrom(m, outer, from)
            /\ ~nested => from = m.fields[Innermost(fr)].start
<1>1. PICK n \in Nat : n + 1 = Len(fr)
  <2>1. Len(fr) \in Nat /\ Len(fr) > 0
    OBVIOUS
  <2>2. Len(fr) - 1 \in Nat /\ Len(fr) - 1 + 1 = Len(fr)
    BY <2>1
  <2>3. QED
    BY <2>2
<1>2. PICK gr : gr = Front(fr)
  OBVIOUS
<1>3. gr \in Seq(Frames) /\ Len(gr) = n /\ \A i \in 1 .. n : gr[i] = fr[i]
  <2>1. gr = SubSeq(fr, 1, n)
    BY <1>1, <1>2 DEF Front
  <2>2. QED
    BY <1>1, <2>1
<1>4. PICK k \in 1 .. n + 1 : /\ \A i \in 1 .. n + 1 : fr[i].mode = "copy" <=> i >= k
                              /\ from = m.fields[fr[k].id].start
  BY <1>1 DEF CopiedFrom
<1>5. PICK nested \in BOOLEAN : nested = (gr # <<>> /\ Last(gr).mode = "copy")
  OBVIOUS
<1>6. nested <=> k <= n
  <2>1. CASE n = 0
    <3>1. gr = <<>> /\ ~(k <= n)
      BY <1>3, <2>1
    <3>2. QED
      BY <1>5, <3>1
  <2>2. CASE n # 0
    <3>1. gr # <<>> /\ n \in 1 .. n /\ n \in 1 .. n + 1
      BY <1>3, <2>2
    <3>2. Last(gr) = fr[n]
      BY <1>3, <3>1 DEF Last
    <3>3. QED
      BY <1>4, <1>5, <3>1, <3>2
  <2>3. QED
    BY <2>1, <2>2
<1>7. ASSUME nested PROVE CopiedFrom(m, gr, from)
  <2>1. k \in 1 .. n /\ from = m.fields[gr[k].id].start
    BY <1>3, <1>4, <1>6, <1>7
  <2>2. \A i \in 1 .. n : gr[i].mode = "copy" <=> i >= k
    <3>1. TAKE i \in 1 .. n
    <3>2. i \in 1 .. n + 1
      OBVIOUS
    <3>3. QED
      BY <1>3, <1>4, <3>2
  <2>3. QED
    BY <1>3, <2>1, <2>2 DEF CopiedFrom
<1>8. ASSUME ~nested PROVE from = m.fields[Innermost(fr)].start
  <2>1. k = n + 1
    BY <1>4, <1>6, <1>8
  <2>2. QED
    BY <1>1, <1>4, <2>1 DEF Innermost
<1>9. QED
  BY <1>2, <1>5, <1>7, <1>8

\* An item inside one that is copied or skipped is treated alike.
LEMMA ModesAbove ==
  ASSUME NEW m \in Messages, Stacked(m, frames, blockEnd), frames # <<>>
  PROVE  \A k \in 1 .. Len(frames) : frames[k].mode = "copy" => Mode = "copy"
<1>1. Len(frames) \in 1 .. Len(frames) /\ Len(frames) \in Nat /\ FrameOK(m, frames, Len(frames))
  BY InnermostFacts
<1>2. TAKE k \in 1 .. Len(frames)
<1>3. Mode = frames[Len(frames)].mode
  BY ModeIs
<1>4. k < Len(frames) \/ k = Len(frames)
  BY <1>1
<1>5. QED
  BY <1>1, <1>3, <1>4 DEF FrameOK

LEMMA ModeBehind ==
  ASSUME NEW m \in Messages, Stacked(m, frames, blockEnd), frames # <<>>,
         frames' = Front(frames), Mode' = "copy"
  PROVE  /\ Mode = "copy"
         /\ Front(frames) # <<>> /\ Last(Front(frames)).mode = "copy"
<1>1. frames \in Seq(Frames) /\ Len(frames) \in Nat
  BY DEF Stacked
<1>2. PICK gr : gr = Front(frames)
  OBVIOUS
<1>3. gr # <<>> /\ Last(gr).mode = "copy"
  BY <1>2 DEF Mode
<1>4. PICK n \in Nat : n + 1 = Len(frames)
  <2>1. Len(frames) > 0
    BY <1>1
  <2>2. Len(frames) - 1 \in Nat /\ Len(frames) - 1 + 1 = Len(frames)
    BY <1>1, <2>1
  <2>3. QED
    BY <2>2
<1>5. Len(gr) = n /\ \A i \in 1 .. n : gr[i] = frames[i]
  <2>1. gr = SubSeq(frames, 1, n)
    BY <1>2, <1>4 DEF Front
  <2>2. QED
    BY <1>1, <1>4, <2>1
<1>6. gr \in Seq(Frames)
  BY <1>1, <1>2, <1>4 DEF Front
<1>7. n \in 1 .. n /\ n \in 1 .. n + 1
  BY <1>3, <1>5, <1>6
<1>8. frames[n].mode = "copy"
  BY <1>3, <1>5, <1>7 DEF Last
<1>9. Mode = "copy"
  BY <1>4, <1>7, <1>8, ModesAbove
<1>10. QED
  BY <1>2, <1>3, <1>9

LEMMA SkipGroupEnds ==
  ASSUME NEW m, Walking(m), Extended(m), EndSkip
  PROVE  Extended(m)'
<1>1. /\ status = "reading" /\ Mode = "skip" /\ UNCHANGED <<source, extension>>
      /\ (frames' = Front(frames) \/ status' = "failed")
  BY DEF EndSkip, Reading, Proceed, Fail
<1>2. m \in Messages /\ Stacked(m, frames, blockEnd) /\ frames # <<>>
  BY <1>1, Here, ModeIs
<1>3. Mode' # "copy" \/ status' # "reading"
  BY <1>1, <1>2, ModeBehind
<1>4. QED
  BY <1>1, <1>3, NotCopying

\* A group that is read is not copied.
LEMMA GroupIsRead ==
  ASSUME NEW m, Walking(m), Extended(m), StartGroup("read")
  PROVE  Extended(m)'
<1>1. /\ status = "reading" /\ UNCHANGED <<source, extension>>
      /\ Called("read", -fieldNumber, "None")
  BY DEF StartGroup, Reading, Proceed, Copied
<1>2. frames \in Seq(Frames)
  BY <1>1, Here DEF Stacked
<1>3. PICK c : c = [mode |-> "read", token |-> -fieldNumber, packed |-> "None", id |-> Current]
  OBVIOUS
<1>4. frames' = Append(frames, c) /\ c.mode = "read"
  BY <1>1, <1>3 DEF Called
<1>5. Mode' = "read"
  BY <1>2, <1>4, CalledMode
<1>6. QED
  BY <1>1, <1>5, NotCopying

LEMMA GroupIsCopied ==
  ASSUME NEW m, Walking(m), Extended(m), StartGroup("copy")
  PROVE  Extended(m)'
<1>1. /\ status = "reading" /\ pc = "value" /\ pc # "bytes" /\ wireType = "StartGroup"
      /\ May("copy") /\ Called("copy", -fieldNumber, "None")
      /\ io' = io /\ pc' = "header" /\ source' = source
      /\ Copied("copy", <<Header(fieldNumber, "StartGroup")>>, io.position - 1, io.position,
                FALSE)
  BY DEF StartGroup, Reading, Proceed
<1>2. PICK f : AtField(m, f)
  BY <1>1 DEF Walking, Standing
<1>3. /\ m \in Messages /\ source.fields = m.fields /\ Stacked(m, frames, blockEnd)
      /\ io.position \in Nat /\ Len(m.cells) \in Nat /\ source.cut \in Nat
      /\ source.cut <= Len(m.cells) /\ frames \in Seq(Frames)
  BY <1>1, Here DEF Stacked
<1>4. /\ f \in DOMAIN m.fields /\ Current = f /\ WireTypeOf(m, f) = "StartGroup"
      /\ io.position = m.fields[f].value /\ m.fields[f].start \in Nat
  BY <1>1, <1>2, <1>3, AtFieldFacts, FieldTyped
<1>5. ~InPacked(m, f)
  <2>1. WireTypeOf(m, f) \notin ScalarTypes
    BY <1>4 DEF ScalarTypes
  <2>2. QED
    BY <1>3, <1>4, <2>1, PackedElement
<1>6. /\ m.fields[f].value = m.fields[f].start + 1 /\ io.position <= source.cut
      /\ m.cells[m.fields[f].value] = Header(fieldNumber, "StartGroup")
  BY <1>2, <1>3, <1>4, <1>5, FieldHeader DEF AtField
<1>7. PICK start \in Nat : start = m.fields[f].start
  BY <1>4
<1>8. io.position = start + 1 /\ io.position - 1 = start
  BY <1>3, <1>4, <1>6, <1>7
<1>9. PICK cells : cells = <<Header(fieldNumber, "StartGroup")>>
  OBVIOUS
<1>10. IsCopy(m, cells, start, start + 1)
  BY <1>3, <1>4, <1>6, <1>7, <1>8, <1>9, OneCell, PieceIsCopy
<1>11. /\ Verbatim(m)' /\ extension'.to = start + 1
       /\ extension'.from = IF Mode = "copy" THEN extension.from ELSE start
  <2>1. PICK whole \in BOOLEAN : whole = FALSE
    OBVIOUS
  <2>2. Copied("copy", cells, start, start + 1, whole)
    BY <1>1, <1>8, <1>9, <2>1
  <2>3. Verbatim(m)
    BY DEF Extended
  <2>4. start + 1 <= source.cut /\ (whole => IsField(m, start, start + 1))
    BY <1>6, <1>8, <2>1
  <2>5. Mode = "copy" => extension.to = start
    BY <1>1, <1>8 DEF Extended, CopyTo
  <2>6. QED
    BY <1>1, <1>3, <1>10, <2>2, <2>3, <2>4, <2>5, PieceCopied
<1>12. PICK c : c = [mode |-> "copy", token |-> -fieldNumber, packed |-> "None", id |-> f]
  OBVIOUS
<1>13. frames' = Append(frames, c) /\ c.mode = "copy" /\ c.id = f
  BY <1>1, <1>4, <1>12 DEF Called
<1>14. PICK from : from = extension'.from
  OBVIOUS
<1>15. \/ CopiedFrom(m, frames, from)
       \/ /\ \A i \in 1 .. Len(frames) : frames[i].mode # "copy"
          /\ from = m.fields[c.id].start
  <2>1. CASE Mode = "copy"
    BY <1>1, <1>11, <1>14, <2>1 DEF Extended
  <2>2. CASE Mode # "copy"
    <3>1. \A i \in 1 .. Len(frames) : frames[i].mode # "copy"
      <4>1. CASE frames = <<>>
        BY <4>1
      <4>2. CASE frames # <<>>
        BY <1>3, <2>2, <4>2, ModesAbove
      <4>3. QED
        BY <4>1, <4>2
    <3>2. from = m.fields[c.id].start
      BY <1>7, <1>11, <1>13, <1>14, <2>2
    <3>3. QED
      BY <3>1, <3>2
  <2>3. QED
    BY <2>1, <2>2
<1>16. CopiedFrom(m, frames', extension'.from)
  BY <1>3, <1>13, <1>14, <1>15, CopyEntered
<1>17. CopyTo'
  BY <1>1, <1>8, <1>11 DEF CopyTo
<1>18. QED
  BY <1>11, <1>16, <1>17 DEF Extended

\* The end of a group that is copied.
LEMMA GroupCopied ==
  ASSUME NEW m, Walking(m), Extended(m), status = "reading", pc = "end",
         wireType = "EndGroup", Mode = "copy", -Token = fieldNumber,
         frames' = Front(frames), io' = io, pc' = "header", source' = source,
         NEW nested \in BOOLEAN,
         nested = (Front(frames) # <<>> /\ Last(Front(frames)).mode = "copy"),
         extension' = [extension EXCEPT !.cells = Append(@, Header(-Token, "EndGroup")),
                                        !.to = io.position, !.committed = ~nested]
  PROVE  Extended(m)'
<1> DEFINE p == Innermost(frames)
<1>1. /\ m \in Messages /\ Stacked(m, frames, blockEnd) /\ io.position \in Nat
      /\ Len(m.cells) \in Nat /\ source.cut <= Len(m.cells) /\ source.cut \in Nat
      /\ frames \in Seq(Frames)
  BY Here DEF Stacked
<1>2. /\ frames # <<>> /\ WireTypeOf(m, p) = "StartGroup" /\ io.position = m.fields[p].stop
      /\ fieldNumber = Number(m, p) /\ io.position <= source.cut
  BY ItsEnd DEF Walking, Standing, AtItsEnd
<1>3. p \in DOMAIN m.fields
  BY <1>1, <1>2, InnermostFacts
<1>4. m.cells[io.position] = Header(-Token, "EndGroup")
  BY <1>1, <1>2, <1>3, GroupField
<1>5. /\ extension \in Extensions /\ IsCopy(m, extension.cells, extension.from, extension.to)
      /\ extension.to = io.position - 1 /\ CopiedFrom(m, frames, extension.from)
  BY DEF Extended, Verbatim, CopyTo
<1>6. /\ extension.to \in Nat /\ extension.from \in Nat /\ extension.cells \in Seq(Cells)
  BY <1>5 DEF Extensions
<1>7. PICK at \in Nat, from \in Nat, had \in Seq(Cells) :
        at = extension.to /\ from = extension.from /\ had = extension.cells
  BY <1>6
<1>8. io.position = at + 1 /\ at + 1 <= Len(m.cells)
  BY <1>1, <1>2, <1>5, <1>7
<1>9. PICK c : c = Header(-Token, "EndGroup")
  OBVIOUS
<1>10. IsCopy(m, <<c>>, at, at + 1)
  BY <1>1, <1>4, <1>8, <1>9, OneCell, PieceIsCopy
<1>11. c \in Cells
  <2>1. m.cells \in Seq(Cells) /\ at + 1 \in 1 .. Len(m.cells)
    BY <1>1, <1>8, MessageFacts
  <2>2. QED
    BY <1>4, <1>8, <1>9, <2>1, ElementOfSeq
<1>12. PICK all : all = Append(had, c)
  OBVIOUS
<1>13. IsCopy(m, all, from, at + 1)
  <2>1. all = had \o <<c>>
    BY <1>11, <1>12, AppendIsConcat
  <2>2. QED
    BY <1>1, <1>5, <1>7, <1>10, <2>1, CopiesJoined
<1>14. PICK done \in BOOLEAN : done = ~nested
  OBVIOUS
<1>15. extension' = [cells |-> all, from |-> from, to |-> at + 1, committed |-> done]
  <2>1. extension' = [extension EXCEPT !.cells = all, !.to = at + 1, !.committed = done]
    BY <1>7, <1>8, <1>9, <1>12, <1>14, Zenon
  <2>2. QED
    BY <1>5, <1>7, <2>1 DEF Extensions
<1>16. /\ extension'.cells = all /\ extension'.from = from /\ extension'.to = at + 1
       /\ extension'.committed = done
  BY ONLY <1>15
<1>17. /\ nested => CopiedFrom(m, frames', from)
       /\ ~nested => from = m.fields[p].start
  BY <1>1, <1>2, <1>5, <1>7, CopyLeft
<1>18. done => IsField(m, from, at + 1)
  BY <1>2, <1>3, <1>8, <1>14, <1>17 DEF IsField
<1>19. extension' \in Extensions
  <2>1. all \in Seq(Cells) /\ at + 1 \in Nat
    BY <1>13 DEF IsCopy
  <2>2. QED
    BY <1>15, <2>1 DEF Extensions
<1>20. Verbatim(m)'
  <2>1. at + 1 <= source.cut
    BY <1>2, <1>8
  <2>2. QED
    BY <1>13, <1>16, <1>18, <1>19, <2>1 DEF Verbatim, IsCopy, IsField
<1>21. ASSUME Mode' = "copy" PROVE CopyTo' /\ CopiedFrom(m, frames', extension'.from)
  <2>1. nested
    BY <1>1, <1>2, <1>21, ModeBehind
  <2>2. CopyTo'
    BY <1>8, <1>16 DEF CopyTo
  <2>3. QED
    BY <1>16, <1>17, <2>1, <2>2
<1>22. QED
  BY <1>20, <1>21 DEF Extended, CopiedFrom

LEMMA EndSubItemCopies ==
  ASSUME NEW m, Walking(m), Extended(m), EndSubItem
  PROVE  Extended(m)'
<1> DEFINE p == Innermost(frames)
<1>1. /\ status = "reading" /\ pc = "end" /\ pc # "bytes" /\ frames # <<>>
  BY DEF EndSubItem, Reading
<1>2. m \in Messages /\ Stacked(m, frames, blockEnd) /\ io.position \in Nat
  BY <1>1, Here
<1>3. CASE Fail
  BY <1>1, <1>3, NotCopying DEF Fail
<1>4. CASE wireType = "EndGroup" /\ ~Fail
  <2>1. /\ Token < 0 /\ -Token = fieldNumber
    <3>1. /\ WireTypeOf(m, p) = "StartGroup" /\ fieldNumber = Number(m, p)
          /\ Number(m, p) \in Nat /\ Number(m, p) > 0
      BY <1>1, <1>4, ItsEnd
    <3>2. /\ frames[Len(frames)].mode # "skip" /\ Token = frames[Len(frames)].token
          /\ p = frames[Len(frames)].id
      BY <1>1, <1>2, ModeIs, InnermostFacts DEF EndSubItem
    <3>3. GroupFrame(m, frames[Len(frames)])
      BY <1>1, <1>2, <3>1, <3>2, TokenFacts DEF HasLength
    <3>4. Token = -Number(m, p)
      BY <3>2, <3>3 DEF GroupFrame
    <3>5. QED
      BY <3>1, <3>4
  <2>2. /\ Ended
        /\ LET outer == Front(frames)
               nested == outer # <<>> /\ Last(outer).mode = "copy"
           IN extension' = IF Mode # "copy" THEN extension
                           ELSE [extension EXCEPT
                                   !.cells = Append(@, Header(-Token, "EndGroup")),
                                   !.to = io.position, !.committed = ~nested]
    BY <1>4, <2>1 DEF EndSubItem
  <2>3. /\ frames' = Front(frames) /\ io' = io /\ pc' = "header" /\ source' = source
    BY <2>2 DEF Ended, Proceed
  <2>4. CASE Mode = "copy"
    <3>1. PICK nested \in BOOLEAN :
            nested = (Front(frames) # <<>> /\ Last(Front(frames)).mode = "copy")
      OBVIOUS
    <3>2. extension' = [extension EXCEPT !.cells = Append(@, Header(-Token, "EndGroup")),
                                         !.to = io.position, !.committed = ~nested]
      BY <2>2, <2>4, <3>1
    <3>3. QED
      BY <1>1, <1>4, <2>1, <2>3, <2>4, <3>1, <3>2, GroupCopied
  <2>5. CASE Mode # "copy"
    <3>1. extension' = extension
      BY <2>2, <2>5
    <3>2. Mode' # "copy"
      BY <1>1, <1>2, <2>3, <2>5, ModeBehind
    <3>3. QED
      BY <2>3, <3>1, <3>2, NotCopying
  <2>6. QED
    BY <2>4, <2>5
<1>5. CASE wireType # "EndGroup" /\ ~Fail
  <2>1. /\ ~(Token < io.position) /\ Ended /\ UNCHANGED extension
    BY <1>5 DEF EndSubItem
  <2>2. frames' = Front(frames) /\ source' = source
    BY <2>1 DEF Ended, Proceed
  <2>3. Mode # "copy"
    <3>1. SUFFICES ASSUME Mode = "copy" PROVE FALSE
      OBVIOUS
    <3>2. /\ frames[Len(frames)].mode = "copy" /\ Token = frames[Len(frames)].token
          /\ p = frames[Len(frames)].id /\ p \in DOMAIN m.fields /\ ~InPacked(m, p)
      BY <1>1, <1>2, <3>1, ModeIs, InnermostFacts
    <3>3. GroupFrame(m, frames[Len(frames)])
      BY <1>1, <1>2, <3>2, TokenFacts DEF LengthFrame
    <3>4. Token = -Number(m, p)
      BY <3>2, <3>3 DEF GroupFrame
    <3>5. Number(m, p) \in Nat /\ Number(m, p) > 0
      BY <1>2, <3>2, NumberIs
    <3>6. QED
      BY <1>2, <2>1, <3>4, <3>5
  <2>4. Mode' # "copy"
    BY <1>1, <1>2, <2>2, <2>3, ModeBehind
  <2>5. QED
    BY <2>1, <2>2, <2>4, NotCopying
<1>6. QED
  BY <1>3, <1>4, <1>5

LEMMA CopyGoesOn ==
  ASSUME NEW m, Walking(m), Extended(m), [Next]_vars
  PROVE  Extended(m)'
<1>1. CASE Headers
  BY <1>1, HeadersCopy
<1>2. CASE Values
  BY <1>2, ReadScalarCopies, StringsCopy, BytesCopy, EndBytesCopies DEF Values
<1>3. CASE Items
  BY <1>3, GroupIsRead, GroupIsCopied, StringsCopy, EndSubItemCopies, SkipGroupEnds DEF Items
<1>4. CASE Finish
  <2>1. status' # "reading" /\ UNCHANGED <<source, extension>>
    BY <1>4 DEF Finish
  <2>2. QED
    BY <2>1, NotCopying
<1>5. CASE Done \/ UNCHANGED vars
  <2>1. UNCHANGED <<source, io, wireType, frames, pc, blob, extension, status>>
    BY <1>5 DEF Done, vars
  <2>2. CASE status = "reading"
    <3>1. Mode = "copy" => CopyTo'
      BY <2>1, <2>2 DEF Extended, CopyTo
    <3>2. QED
      BY <2>1, <2>2, <3>1, SameCopy
  <2>3. CASE status # "reading"
    BY <2>1, <2>3, NotCopying
  <2>4. QED
    BY <2>2, <2>3
<1>6. QED
  BY <1>1, <1>2, <1>3, <1>4, <1>5 DEF Next

LEMMA CopyBegins ==
  ASSUME Init, NEW m, Walking(m)
  PROVE  Extended(m)
<1>1. frames = <<>> /\ extension = [cells |-> <<>>, from |-> 0, to |-> 0, committed |-> FALSE]
  BY DEF Init
<1>2. Mode = "read"
  BY <1>1, ModeIs
<1>3. <<>> \in Seq(Cells) /\ Len(<<>>) = 0
  BY EmptySeq
<1>4. IsCopy(m, <<>>, 0, 0)
  <2>1. IsPiece(m, <<>>, 0, 0)
    BY <1>3 DEF IsPiece
  <2>2. QED
    BY <2>1, PieceIsCopy
<1>5. extension \in Extensions
  BY <1>1, <1>3 DEF Extensions
<1>6. source.cut \in Nat
  <2>1. source.cut \in 0 .. Len(m.cells) /\ m \in Messages
    BY DEF Walking, IsSent
  <2>2. QED
    BY <2>1
<1>7. /\ extension.cells = <<>> /\ extension.from = 0 /\ extension.to = 0
      /\ ~extension.committed
  BY <1>1
<1>8. Verbatim(m)
  BY <1>4, <1>5, <1>6, <1>7 DEF Verbatim
<1>9. QED
  BY <1>2, <1>8 DEF Extended

LEMMA CopyIsVerbatim ==
  ASSUME NEW m, Walking(m), Extended(m)
  PROVE  ExtensionIsVerbatim
<1>1. /\ m \in Messages /\ source.fields = m.fields /\ source.cells \in Seq(Cells)
      /\ source.cut \in 0 .. Len(m.cells) /\ source.cut <= Len(source.cells)
      /\ \A i \in 1 .. source.cut : source.cells[i] = m.cells[i]
  BY DEF Walking, IsSent, ReaderInv, SourceOK
<1>2. /\ extension \in Extensions /\ IsCopy(m, extension.cells, extension.from, extension.to)
      /\ extension.to <= source.cut
      /\ extension.committed => IsField(m, extension.from, extension.to)
  BY DEF Extended, Verbatim
<1>3. PICK cut \in Nat, whole \in Seq(Cells), from \in Nat, to \in Nat, cells \in Seq(Cells) :
        /\ cut = source.cut /\ whole = source.cells
        /\ from = extension.from /\ to = extension.to /\ cells = extension.cells
  <2>1. source.cut \in Nat
    BY <1>1
  <2>2. extension.from \in Nat /\ extension.to \in Nat /\ extension.cells \in Seq(Cells)
    BY <1>2 DEF Extensions
  <2>3. QED
    BY <1>1, <2>1, <2>2
<1>4. /\ from <= to /\ to <= cut /\ cut <= Len(whole)
      /\ Unpadded(m, from, to) => IsPiece(m, cells, from, to)
  BY <1>1, <1>2, <1>3 DEF IsCopy
<1>5. \A i \in 1 .. cut : whole[i] = m.cells[i]
  BY <1>1, <1>3
<1>6. ASSUME \A f \in CopiedFields : ~Padded(f)
      PROVE  extension.cells = SubSeq(source.cells, extension.from + 1, extension.to)
  <2>1. ASSUME NEW f \in DOMAIN m.fields,
               from <= m.fields[f].start, m.fields[f].stop <= to, IsPadded(m, f)
        PROVE  Padded(f)
    <3>1. m.fields[f].start \in Nat /\ m.fields[f].value \in Nat /\ m.fields[f].stop \in Nat
      BY <1>1, FieldTyped
    <3>2. m.fields[f].value < m.fields[f].stop
      BY <1>1, FieldOrder
    <3>3. m.fields[f].stop \in 1 .. cut
      BY <1>4, <2>1, <3>1, <3>2
    <3>4. InPacked(source, f) <=> InPacked(m, f)
      BY <1>1 DEF InPacked
    <3>5. ~InPacked(m, f) => m.fields[f].value \in 1 .. cut
      BY <1>1, <3>1, <3>2, <3>3, FieldHeader
    <3>6. WireTypeOf(source, f) = WireTypeOf(m, f)
      BY <1>1, <1>3, <1>5, <3>4, <3>5 DEF WireTypeOf
    <3>7. source.cells[m.fields[f].stop] = m.cells[m.fields[f].stop]
      BY <1>3, <1>5, <3>3
    <3>8. QED
      BY <1>1, <2>1, <3>6, <3>7 DEF IsPadded, Padded, Tree
  <2>2. \A f \in DOMAIN m.fields :
          from <= m.fields[f].start /\ m.fields[f].stop <= to => f \in CopiedFields
    BY <1>1, <1>3 DEF CopiedFields, Tree
  <2>3. Unpadded(m, from, to)
    BY <1>6, <2>1, <2>2 DEF Unpadded
  <2>4. IsPiece(m, cells, from, to)
    BY <1>4, <2>3
  <2>5. Len(cells) = to - from /\ \A i \in 1 .. to - from : cells[i] = m.cells[from + i]
    BY <2>4 DEF IsPiece
  <2>6. PICK part : part = SubSeq(whole, from + 1, to)
    OBVIOUS
  <2>7. /\ part \in Seq(Cells) /\ Len(part) = to - from
        /\ \A i \in 1 .. to - from : part[i] = whole[from + i]
    <3>1. \A i \in from + 1 .. to : whole[i] \in Cells
      <4>1. \A i \in from + 1 .. to : i \in 1 .. Len(whole)
        BY <1>4
      <4>2. QED
        BY <4>1, ElementOfSeq
    <3>2. /\ SubSeq(whole, from + 1, to) \in Seq(Cells)
          /\ Len(SubSeq(whole, from + 1, to)) =
               IF from + 1 <= to THEN to - (from + 1) + 1 ELSE 0
          /\ \A i \in 1 .. to - (from + 1) + 1 :
               SubSeq(whole, from + 1, to)[i] = whole[from + 1 + i - 1]
      BY <3>1, SubSeqProperties
    <3>3. (IF from + 1 <= to THEN to - (from + 1) + 1 ELSE 0) = to - from
      BY <1>4
    <3>4. ASSUME NEW i \in 1 .. to - from PROVE part[i] = whole[from + i]
      <4>1. i \in 1 .. to - (from + 1) + 1 /\ from + 1 + i - 1 = from + i
        OBVIOUS
      <4>2. QED
        BY <2>6, <3>2, <4>1
    <3>5. QED
      BY <2>6, <3>2, <3>3, <3>4
  <2>8. ASSUME NEW i \in 1 .. to - from PROVE cells[i] = part[i]
    <3>1. from + i \in 1 .. cut
      BY <1>4
    <3>2. QED
      BY <1>5, <2>5, <2>7, <3>1
  <2>9. cells = part
    BY <2>5, <2>7, <2>8, SeqEqual
  <2>10. QED
    BY <1>3, <2>6, <2>9
<1>7. extension.committed =>
         \E f \in DOMAIN Tree : /\ Tree[f].start = extension.from
                                /\ Tree[f].stop = extension.to
  BY <1>1, <1>2 DEF IsField, Tree
<1>8. QED
  BY <1>6, <1>7 DEF ExtensionIsVerbatim

\* What an extension object holds is a piece of what was sent, cell for cell if no
\* varint in it was padded (those are read and written again, shorter), and what it
\* has committed is one whole field, also of a group copied field by field through
\* refills, with groups inside it.
THEOREM CopyIsFaithful == Spec => []ExtensionIsVerbatim
<1>1. Init => \E m : Walking(m) /\ Extended(m)
  BY WalkBegins, CopyBegins
<1>2. (\E m : Walking(m) /\ Extended(m)) /\ [Next]_vars =>
        (\E m : Walking(m) /\ Extended(m))'
  BY WalkGoesOn, CopyGoesOn
<1>3. (\E m : Walking(m) /\ Extended(m)) => ExtensionIsVerbatim
  BY CopyIsVerbatim
<1>4. QED
  BY <1>1, <1>2, <1>3, PTL DEF Spec
===============================================================================
