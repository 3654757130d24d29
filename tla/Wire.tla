--------------------------------- MODULE Wire ---------------------------------
(***************************************************************************)
(* The wire format as the writer produces it and the reader takes it.      *)
(*                                                                         *)
(* A cell stands for a byte, or for the few bytes of a field header: what  *)
(* matters is where headers, lengths and values begin and end.  Lengths    *)
(* are written digit by digit, so that they take the room they take.       *)
(***************************************************************************)
EXTENDS Naturals, FiniteSets

CONSTANTS
  Fields,      (* field numbers                                             *)
  Base,        (* 128 in the code: what one byte of a varint can tell apart *)
  VarintSpace, (* 5 in the code: the most bytes a varint takes              *)
  FixedLength, (* 4 in the code: the bytes of a Fixed32 value or length     *)
  MaxCells     (* BOUND: the longest message                                *)

ScalarTypes == {"Variant", "Fixed32"}
ItemTypes == {"String", "StartGroup"}
HeaderTypes == ScalarTypes \union ItemTypes \union {"EndGroup"}

Header(f, w) == <<"header", f, w>>
Byte == <<"byte">>
Hole == <<"hole">>  (* room left for a length that is not known yet         *)

Cells == {Byte, Hole}
         \union {Header(f, w) : f \in Fields, w \in HeaderTypes}
         \union {<<"digit", d, more>> : d \in 0 .. Base - 1, more \in BOOLEAN}
         \union {<<"fixed", n, i>> : n \in 0 .. MaxCells, i \in 1 .. FixedLength}

\* Powers of the base: what the shifts by seven bits come to.
Power[k \in Nat] == IF k = 0 THEN 1 ELSE Base * Power[k - 1]

\* The bytes of a varint: one, and one more for each power of the base that
\* the number reaches; all but the last carry the continuation bit.
Width(n) == 1 + Cardinality({k \in 1 .. VarintSpace - 1 : Power[k] <= n})
Digits(n) == [i \in 1 .. Width(n) |->
               <<"digit", (n \div Power[i - 1]) % Base, i < Width(n)>>]

\* A length of fixed size.
Fixed(n) == [i \in 1 .. FixedLength |-> <<"fixed", n, i>>]

Bytes(n) == [i \in 1 .. n |-> Byte]
Holes(n) == [i \in 1 .. n |-> Hole]

ASSUME WireAssumption ==
  /\ Fields \subseteq Nat \ {0}
  /\ Base \in Nat \ {0, 1}
  /\ VarintSpace \in Nat \ {0}
  /\ FixedLength \in Nat \ {0}
  /\ MaxCells \in Nat \ {0}
  /\ MaxCells <= Power[VarintSpace]  (* lengths fit *)
=============================================================================
