----------------------------- MODULE MCProtoReader -----------------------------
(* Messages for TLC: small trees, encoded as a ProtoWriter would, and one    *)
(* by a writer that pads its varints.                                        *)
EXTENDS ProtoReader

\* A node of a tree: its field, what it is, and its content.
Varint(f, n) == [field |-> f, form |-> "Variant", content |-> n]
PaddedVarint(f, n) == [field |-> f, form |-> "padded", content |-> n]
Fixed32(f) == [field |-> f, form |-> "Fixed32", content |-> 0]
Blob(f, n) == [field |-> f, form |-> "blob", content |-> n]
Message(f, nodes) == [field |-> f, form |-> "message", content |-> nodes]
Group(f, nodes) == [field |-> f, form |-> "group", content |-> nodes]
Packed(f, numbers) == [field |-> f, form |-> "packed", content |-> numbers]

\* The digits of a number and a zero.
DigitsAndZero(n) ==
  [i \in 1 .. Width(n) + 1 |-> <<"digit", (n \div Power[i - 1]) % Base, i <= Width(n)>>]

\* The bytes of a blob, all of them different enough to tell them apart.
Payload(n) == [i \in 1 .. n |-> <<"digit", i % Base, i % 3 = 0>>]

Field(kind, parent, start, value, body, end, stop) ==
  [kind |-> kind, parent |-> parent, start |-> start, value |-> value,
   body |-> body, end |-> end, stop |-> stop]

Nothing == [cells |-> <<>>, fields |-> <<>>]
Joined(a, b) == [cells |-> a.cells \o b.cells, fields |-> a.fields \o b.fields]
Size(e) == Len(e.cells)

\* Nodes in item `parent`, from a place on, numbered from id on.
RECURSIVE Encoded(_, _, _, _), Elements(_, _, _), Node(_, _, _, _)

Encoded(nodes, parent, start, id) ==
  IF nodes = <<>> THEN Nothing
  ELSE LET first == Node(Head(nodes), parent, start, id) IN
       Joined(first, Encoded(Tail(nodes), parent, start + Size(first),
                             id + Len(first.fields)))

Elements(numbers, parent, start) ==
  IF numbers = <<>> THEN Nothing
  ELSE LET cells == Digits(Head(numbers))
           stop == start + Len(cells)
       IN Joined([cells |-> cells, fields |-> <<Field("value", parent, start, start,
                                                      start, stop, stop)>>],
                 Elements(Tail(numbers), parent, stop))

Simple(n, w, kind, parent, start, cells) ==
  LET stop == start + 1 + Len(cells) IN
  [cells |-> <<Header(n.field, w)>> \o cells,
   fields |-> <<Field(kind, parent, start, start + 1, start + 1, stop, stop)>>]

Item(n, kind, parent, start, id, prefix, inner) ==
  LET body == start + 1 + Len(prefix)
      end == body + Size(inner)
      isGroup == n.form = "group"
  IN [cells |-> <<Header(n.field, IF isGroup THEN "StartGroup" ELSE "String")>>
                \o prefix \o inner.cells
                \o (IF isGroup THEN <<Header(n.field, "EndGroup")>> ELSE <<>>),
      fields |-> <<Field(kind, parent, start, start + 1, body, end,
                         IF isGroup THEN end + 1 ELSE end)>> \o inner.fields]

Node(n, parent, start, id) ==
  CASE n.form = "Variant" -> Simple(n, "Variant", "value", parent, start, Digits(n.content))
    [] n.form = "padded" -> Simple(n, "Variant", "value", parent, start,
                                   DigitsAndZero(n.content))
    [] n.form = "Fixed32" -> Simple(n, "Fixed32", "value", parent, start, Fixed(1))
    [] n.form = "blob" -> Simple(n, "String", "value", parent, start,
                                 Digits(n.content) \o Payload(n.content))
    [] n.form = "group" ->
         Item(n, "message", parent, start, id, <<>>, Encoded(n.content, id, start + 1, id + 1))
    [] n.form = "message" ->
         LET prefix == Digits(Size(Encoded(n.content, 0, 0, 0))) IN
         Item(n, "message", parent, start, id, prefix,
              Encoded(n.content, id, start + 1 + Len(prefix), id + 1))
    [] n.form = "packed" ->
         LET prefix == Digits(Size(Elements(n.content, 0, 0))) IN
         Item(n, "Variant", parent, start, id, prefix,
              Elements(n.content, id, start + 1 + Len(prefix)))

Trees == {
  <<>>,
  <<Varint(1, 5), Fixed32(2)>>,
  <<Blob(1, 7), Varint(2, 0)>>,
  <<Blob(1, 0), Blob(1, 2), Blob(2, 3)>>,
  <<Message(1, <<Varint(1, 1), Message(2, <<>>)>>), Varint(2, 2)>>,
  <<Message(1, <<Blob(2, 3)>>), Message(1, <<Group(2, <<Varint(1, 3)>>)>>)>>,
  <<Group(1, <<Varint(1, 1), Group(1, <<Blob(2, 4)>>), Fixed32(2)>>), Varint(1, 1)>>,
  <<Group(2, <<Message(1, <<Packed(2, <<0, 2, 6>>)>>)>>)>>,
  <<Packed(1, <<1, 4>>), Packed(1, <<>>)>>,
  <<PaddedVarint(1, 1), Group(2, <<PaddedVarint(1, 4), Varint(2, 0)>>), PaddedVarint(2, 0)>>,
  <<Varint(2, 20), Group(1, <<Message(2, <<Blob(1, 6)>>), Packed(2, <<9, 1>>)>>)>>}

MCMessages == {Encoded(t, 0, 0, 1) : t \in Trees}

MCFollowing == <<Header(1, "Variant"), <<"digit", 0, FALSE>>, Header(2, "EndGroup")>>
=============================================================================
