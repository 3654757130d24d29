---------------------------- MODULE NetObjectsProofs ----------------------------
(***************************************************************************)
(* Proofs about NetObjects, for any graphs: keys mean the same on both     *)
(* sides, and what the reader finishes is the graph that was written.      *)
(*                                                                         *)
(* Writer and reader walk over the same calls.  A walk says, token by      *)
(* token, which calls are open and which values have keys; the writer      *)
(* leaves one behind in the wire, and the reader follows it.               *)
(***************************************************************************)
EXTENDS NetObjects, SequenceTheorems, TLAPS

Nodes == DOMAIN graph.type
MemberType == [to : Nodes, asReference : BOOLEAN, dynamicType : BOOLEAN]
Entries == {TypeEntry(type) : type \in Nat} \union {Entry(node) : node \in Nodes}

\* A call of Read or Write for a node, at a member; a call of ReadNetObject or
\* WriteNetObject for a member, with what the bundle has so far.
R(node, next) == [call |-> "Read", node |-> node, next |-> next]
B(member, stage) == [call |-> "ReadNetObject", member |-> member, stage |-> stage]
Stages == {"start", "keyed", "typing", "typed", "full"}
Calls == [call : {"Read"}, node : Nodes, next : Nat \ {0}]
           \union [call : {"ReadNetObject"}, member : MemberType, stage : Stages]

MembersOf(node) == graph.members[node]
MemberAt(c) == MembersOf(c.node)[c.next]
AtMemberOf(c) == c.call = "Read" /\ c.next <= Len(MembersOf(c.node))

\* The member is done.
Moved(c) == [c EXCEPT ![Len(c)] = R(Last(c).node, Last(c).next + 1)]
Staged(c, stage) == [c EXCEPT ![Len(c)] = B(Last(c).member, stage)]

HasKey(list, key, value) == key \in DOMAIN list /\ list[key] = value
Fresh(list, key, value) == key = Len(list) + 1 /\ ~Contains(list, value) /\ ~IsRoot(value)

-----------------------------------------------------------------------------
(* What a token does: c and l are the calls and the list before, d and m   *)
(* after it.                                                               *)

EnterRoot(c, l, t, d, m) ==
  t.tag = "enter" /\ c = <<>> /\ t.of = graph.root /\ d = <<R(graph.root, 1)>> /\ m = l

Untracked(c, t) ==
  /\ c # <<>> /\ AtMemberOf(Last(c))
  /\ ~IsTracked(MemberAt(Last(c))) /\ t.of = MemberAt(Last(c)).to

Enters(c, l, t, d, m) ==
  /\ t.tag = "enter" /\ Untracked(c, t) /\ ~IsString(t.of)
  /\ d = Append(c, R(t.of, 1)) /\ m = l

Texts(c, l, t, d, m) ==
  /\ t.tag = "text" /\ Untracked(c, t) /\ IsString(t.of)
  /\ d = Moved(c) /\ m = l

Starts(c, l, t, d, m) ==
  /\ t.tag = "start" /\ c # <<>> /\ AtMemberOf(Last(c))
  /\ t.of = MemberAt(Last(c)) /\ IsTracked(t.of)
  /\ d = Append(c, B(t.of, "start")) /\ m = l

\* The bundle of a member is at that stage.
InBundle(c, stage) == c # <<>> /\ Last(c).call = "ReadNetObject" /\ Last(c).stage = stage
Target(c) == Last(c).member.to
TypeOf(c) == TypeEntry(graph.type[Target(c)])

ExistingObjects(c, l, t, d, m) ==
  /\ t.tag = "existingObject" /\ InBundle(c, "start") /\ Last(c).member.asReference
  /\ t.of = Target(c)
  /\ IF t.key = 0 THEN IsRoot(Entry(t.of))
     ELSE HasKey(l, t.key, Entry(t.of)) /\ ~IsRoot(Entry(t.of))
  /\ d = Staged(c, "full") /\ m = l

NewObjects(c, l, t, d, m) ==
  /\ t.tag = "newObject" /\ InBundle(c, "start") /\ Last(c).member.asReference
  /\ t.of = Target(c) /\ Fresh(l, t.key, Entry(t.of))
  /\ d = Staged(c, "keyed") /\ m = Append(l, Entry(t.of))

\* Where the type belongs.
BeforeType(c) == /\ InBundle(c, IF Last(c).member.asReference THEN "keyed" ELSE "start")
                 /\ Last(c).member.dynamicType

ExistingTypes(c, l, t, d, m) ==
  /\ t.tag = "existingType" /\ BeforeType(c)
  /\ HasKey(l, t.key, TypeOf(c))
  /\ d = Staged(c, "typed") /\ m = l

NewTypes(c, l, t, d, m) ==
  /\ t.tag = "newType" /\ BeforeType(c)
  /\ Fresh(l, t.key, TypeOf(c))
  /\ d = Staged(c, "typing") /\ m = Append(l, TypeOf(c))

TypeNames(c, l, t, d, m) ==
  /\ t.tag = "typeName" /\ InBundle(c, "typing") /\ t.of = graph.type[Target(c)]
  /\ d = Staged(c, "typed") /\ m = l

Objects(c, l, t, d, m) ==
  /\ t.tag = "object"
  /\ \/ InBundle(c, "typed")
     \/ InBundle(c, "keyed") /\ ~Last(c).member.dynamicType
  /\ t.of = Target(c)
  /\ d = (IF IsString(t.of) THEN Staged(c, "full")
          ELSE Append(Staged(c, "full"), R(t.of, 1)))
  /\ m = l

Leaves(c, l, t, d, m) ==
  /\ t.tag = "leave" /\ c # <<>> /\ Last(c).call = "Read"
  /\ Last(c).next = Len(MembersOf(Last(c).node)) + 1
  /\ d = (IF Len(c) > 1 /\ Last(Front(c)).call = "Read" THEN Moved(Front(c)) ELSE Front(c))
  /\ m = l

Ends(c, l, t, d, m) ==
  /\ t.tag = "end" /\ InBundle(c, "full")
  /\ d = Moved(Front(c)) /\ m = l

Walks(c, l, t, d, m) ==
  \/ EnterRoot(c, l, t, d, m) \/ Enters(c, l, t, d, m) \/ Texts(c, l, t, d, m)
  \/ Starts(c, l, t, d, m) \/ ExistingObjects(c, l, t, d, m) \/ NewObjects(c, l, t, d, m)
  \/ ExistingTypes(c, l, t, d, m) \/ NewTypes(c, l, t, d, m) \/ TypeNames(c, l, t, d, m)
  \/ Objects(c, l, t, d, m) \/ Leaves(c, l, t, d, m) \/ Ends(c, l, t, d, m)

Within(l, m) == Len(l) <= Len(m) /\ \A i \in 1 .. Len(l) : l[i] = m[i]

\* How calls lie one above the other.
NestedAt(c, i) ==
  /\ c[i].call = "Read" =>
       /\ c[i].next <= Len(MembersOf(c[i].node)) + 1
       /\ i < Len(c) => c[i].next <= Len(MembersOf(c[i].node))
       /\ i = 1 => c[i].node = graph.root
       /\ (i > 1 /\ c[i - 1].call = "Read") =>
            ~IsTracked(MemberAt(c[i - 1])) /\ c[i].node = MemberAt(c[i - 1]).to
  /\ c[i].call = "ReadNetObject" =>
       /\ i > 1 /\ c[i - 1].call = "Read" /\ c[i].member = MemberAt(c[i - 1])
       /\ IsTracked(c[i].member)
       /\ i < Len(c) => /\ c[i].stage = "full" /\ c[i + 1].call = "Read"
                        /\ c[i + 1].node = c[i].member.to

Nested(c) == c \in Seq(Calls) /\ \A i \in 1 .. Len(c) : NestedAt(c, i)

\* p is the walk along the wire w: a pair of calls and a list before each token,
\* and at the end.
Walk(p, w) ==
  /\ Len(p) = Len(w) + 1
  /\ p[1] = [calls |-> <<>>, list |-> <<>>]
  /\ \A i \in 1 .. Len(p) :
       /\ Nested(p[i].calls)
       /\ p[i].list \in Seq(Entries) /\ Within(p[i].list, p[Len(p)].list)
  /\ \A i \in 1 .. Len(w) :
       Walks(p[i].calls, p[i].list, w[i], p[i + 1].calls, p[i + 1].list)

-----------------------------------------------------------------------------
(* The writer.                                                             *)

Tags == {"enter", "text", "start", "existingObject", "newObject", "existingType", "newType",
         "typeName", "object", "leave", "end"}
Tokens == [tag : Tags, key : Int, of : Nat \union MemberType]
Writes == [node : Nodes, next : Nat, closing : Seq(Tokens)]
LeaveToken(node) == T("leave", NoKey, node)
EndToken(node) == T("end", NoKey, node)

\* The calls of Write in w are the calls of Read in c, and e says where; in
\* between are bundles.
PlaceAt(e, c, w, k) ==
  /\ e[k] \in 1 .. Len(c)
  /\ c[e[k]] = R(w[k].node, IF k = Len(w) THEN w[k].next ELSE w[k].next - 1)
  /\ k < Len(w) => e[k + 1] = IF c[e[k] + 1].call = "Read" THEN e[k] + 1 ELSE e[k] + 2
  /\ w[k].closing = IF k > 1 /\ c[e[k] - 1].call = "ReadNetObject"
                    THEN <<LeaveToken(w[k].node), EndToken(w[k].node)>>
                    ELSE <<LeaveToken(w[k].node)>>

Places(e, c, w) ==
  /\ e \in Seq(Nat) /\ Len(e) = Len(w)
  /\ \A k \in 1 .. Len(w) : \A j \in 1 .. k - 1 : e[j] < e[k]
  /\ IF w = <<>> THEN c = <<>> ELSE e[1] = 1 /\ e[Len(w)] = Len(c)
  /\ \A k \in 1 .. Len(w) : PlaceAt(e, c, w, k)

States == [calls : Seq(Calls), list : Seq(Entries)]
Reached(w, c, l) ==
  /\ w \in Seq(Tokens)
  /\ \E p \in Seq(States) : Walk(p, w) /\ p[Len(p)].calls = c /\ p[Len(p)].list = l

Distinct(list) == \A i, j \in DOMAIN list : list[i] = list[j] => i = j

WriterInv ==
  /\ graph \in Graphs /\ rooted \in BOOLEAN /\ writing \in Seq(Writes)
  /\ Distinct(keyed) /\ (rooted => ~Contains(keyed, Entry(graph.root)))
  /\ \E c : Reached(wire, c, keyed) /\ \E e : Places(e, c, writing)

-----------------------------------------------------------------------------
(* The reader, with frames r, objects ms and a cache k, along a walk that  *)
(* is at the calls c and the list l.                                       *)

Frames == [call : {"Read", "ReadNetObject"}, object : Nat, type : Nat,
           newObjectKey : Int, newTypeKey : Int]
Made == [of : Nat, type : Nat, members : Seq(Nat)]
Keys == {"type", "object"} \X Nat

ObjectIs(ms, o) ==
  /\ ms[o].of \in Nodes /\ ms[o].type = graph.type[ms[o].of]
  /\ Len(ms[o].members) <= Len(MembersOf(ms[o].of))
  /\ \A j \in 1 .. Len(ms[o].members) :
       /\ ms[o].members[j] \in 1 .. Len(ms)
       /\ ms[ms[o].members[j]].of = MembersOf(ms[o].of)[j].to

ObjectsAre(ms) == ms \in Seq(Made) /\ \A o \in 1 .. Len(ms) : ObjectIs(ms, o)

\* The keys and the type that a bundle has so far.
HasObjectKey(f, e, l) ==
  IF f.newObjectKey = NoKey
  THEN e.stage \in {"start", "full"} \/ ~e.member.asReference
  ELSE /\ e.member.asReference /\ e.stage # "start"
       /\ HasKey(l, f.newObjectKey, Entry(e.member.to))

HasTypeKey(f, e, l) ==
  IF f.newTypeKey = NoKey THEN e.stage # "typing"
  ELSE /\ e.member.dynamicType /\ e.stage \in {"typing", "typed", "full"}
       /\ HasKey(l, f.newTypeKey, TypeEntry(graph.type[e.member.to]))
       /\ e.stage \in {"typed", "full"} => f.type = graph.type[e.member.to]

HasType(f, e) ==
  /\ f.type \in {None, graph.type[e.member.to]}
  /\ ~e.member.dynamicType \/ e.stage = "typed" => f.type = graph.type[e.member.to]

\* The frame f is the call e.
FrameIs(f, e, l, ms) ==
  /\ f.call = e.call
  /\ e.call = "Read" =>
       /\ f.object \in 1 .. Len(ms)
       /\ ms[f.object].of = e.node /\ Len(ms[f.object].members) = e.next - 1
  /\ e.call = "ReadNetObject" =>
       /\ HasObjectKey(f, e, l) /\ HasTypeKey(f, e, l) /\ HasType(f, e)
       /\ e.stage = "full" => f.object \in 1 .. Len(ms) /\ ms[f.object].of = e.member.to

FramesAre(c, l, r, ms) ==
  /\ r \in Seq(Frames) /\ Len(r) = Len(c)
  /\ \A i \in 1 .. Len(c) : FrameIs(r[i], c[i], l, ms)

\* The call will give its object to a member of the one below it.
Gives(c, i) == /\ i > 1
               /\ \/ c[i].call = "Read" /\ c[i - 1].call = "Read"
                  \/ c[i].call = "ReadNetObject" /\ c[i].stage = "full"
Shared(c, i) == c[i].call = "ReadNetObject" /\ c[i].member.asReference

IsEntry(k, object) == \E i \in 1 .. Len(k) : k[i] = Entry(object)
Tracked(k, object, node) == IF IsRoot(Entry(node)) THEN object = 1 ELSE IsEntry(k, object)
Private(k, object) == object # 1 /\ ~IsEntry(k, object)
Attached(ms, object) == \E o \in 1 .. Len(ms) : \E j \in 1 .. Len(ms[o].members) :
                          ms[o].members[j] = object

\* The calls have objects of their own, that are not attached yet, but for those
\* that are tracked.
ApartAt(c, r, ms, k, i) ==
  /\ c[i].call = "Read" =>
       \A j \in 1 .. i - 1 : c[j].call = "Read" => r[j].object # r[i].object
  /\ c[i].call = "Read" /\ i > 1 /\ c[i - 1].call = "ReadNetObject" =>
       r[i].object = r[i - 1].object
  /\ Gives(c, i) /\ Shared(c, i) => Tracked(k, r[i].object, c[i].member.to)
  /\ Gives(c, i) /\ ~Shared(c, i) =>
       /\ Private(k, r[i].object) /\ ~Attached(ms, r[i].object)
       /\ \A j \in 1 .. i - 1 :
            Gives(c, j) \/ c[j].call = "Read" => r[j].object # r[i].object

CallsApart(c, r, ms, k) == \A i \in 1 .. Len(c) : ApartAt(c, r, ms, k, i)

\* The members share what is tracked, and nothing else.
MemberApart(ms, k, o, j) ==
  LET object == ms[o].members[j]
      member == MembersOf(ms[o].of)[j]
  IN IF member.asReference THEN Tracked(k, object, member.to)
     ELSE /\ Private(k, object)
          /\ \A q \in 1 .. Len(ms) : \A i \in 1 .. Len(ms[q].members) :
               ms[q].members[i] = object => q = o /\ i = j

MembersApart(ms, k) ==
  \A o \in 1 .. Len(ms) : \A j \in 1 .. Len(ms[o].members) : MemberApart(ms, k, o, j)

\* Who has not all members yet is being read.
AllRead(ms, r) ==
  \A o \in 1 .. Len(ms) :
    \/ Len(ms[o].members) = Len(MembersOf(ms[o].of))
    \/ \E i \in 1 .. Len(r) : r[i].call = "Read" /\ r[i].object = o

CacheIs(k, ms) ==
  /\ k \in Seq(Keys) /\ Len(k) <= Len(keyed)
  /\ \A i \in 1 .. Len(k) :
       IF keyed[i][1] = "type" THEN k[i] = keyed[i]
       ELSE \E o \in 1 .. Len(ms) : k[i] = Entry(o) /\ keyed[i] = Entry(ms[o].of)

RootIs(r, ms) == /\ ms # <<>> => ms[1].of = graph.root
                 /\ r # <<>> => ms # <<>>

Follows(c, l, r, ms, k) ==
  /\ ObjectsAre(ms) /\ FramesAre(c, l, r, ms) /\ CallsApart(c, r, ms, k)
  /\ MembersApart(ms, k) /\ AllRead(ms, r) /\ CacheIs(k, ms) /\ RootIs(r, ms)

\* From these nodes nobody reaches a member that is tracked.
Plain(g, nodes) ==
  \A n \in nodes : \A i \in DOMAIN g.members[n] :
    ~IsTracked(g.members[n][i]) /\ g.members[n][i].to \in nodes

\* A type is asked of objects only (WriteNetObject throws for a string); without
\* a reference, only of those that reach nothing that is tracked.
TypesAreLast(g, nodes) ==
  \A n \in DOMAIN g.type : \A i \in DOMAIN g.members[n] :
    LET m == g.members[n][i] IN
    m.dynamicType => g.type[m.to] # StringType /\ (m.asReference \/ m.to \in nodes)
Settled(g, nodes) == Plain(g, nodes) /\ TypesAreLast(g, nodes)

\* The bundle on top is not read yet; a bundle will set the key of its type when
\* its object is read.
Early(c) == c # <<>> /\ Last(c).call = "ReadNetObject" /\ Last(c).stage # "full"
Late(c, r, i) == /\ c[i].call = "ReadNetObject" /\ c[i].stage = "full"
                 /\ r[i].newObjectKey = NoKey /\ r[i].newTypeKey # NoKey
NoneLate(c, r, n) == \A i \in 1 .. n - 1 : ~Late(c, r, i)

\* Of m keys the cache has n: it has all, or what the bundle f is about to set
\* is missing, or the key of the type that is late.
NextKeys(f, n, m) ==
  /\ f.newObjectKey = NoKey /\ f.newTypeKey = NoKey => m = n
  /\ f.newObjectKey # NoKey /\ f.newTypeKey = NoKey => m = n + 1 /\ f.newObjectKey = n + 1
  /\ f.newObjectKey = NoKey /\ f.newTypeKey # NoKey => m = n + 1 /\ f.newTypeKey = n + 1
  /\ f.newObjectKey # NoKey /\ f.newTypeKey # NoKey =>
       m = n + 2 /\ f.newObjectKey = n + 1 /\ f.newTypeKey = n + 2

Level(c, l, r, k) == ~Early(c) /\ NoneLate(c, r, Len(c)) /\ Len(l) = Len(k)
Ahead(c, l, r, k) == /\ Early(c) /\ NoneLate(c, r, Len(c))
                     /\ NextKeys(Last(r), Len(k), Len(l))
Waits(c, l, r, k, nodes) ==
  \E i \in 1 .. Len(c) - 1 :
    /\ Late(c, r, i) /\ NoneLate(c, r, i)
    /\ Len(l) = Len(k) + 1 /\ r[i].newTypeKey = Len(k) + 1
    /\ \A j \in i + 1 .. Len(c) : c[j].call = "Read" /\ c[j].node \in nodes

Behind(c, l, r, k, nodes) ==
  Level(c, l, r, k) \/ Ahead(c, l, r, k) \/ Waits(c, l, r, k, nodes)
AllBehind(c, l, r, k) ==
  \A nodes : Settled(graph, nodes) => Behind(c, l, r, k, nodes)

-----------------------------------------------------------------------------
(* Graphs and calls.                                                       *)

LEMMA GraphIs ==
  ASSUME graph \in Graphs
  PROVE  /\ graph.root \in Nodes /\ Nodes \subseteq Nat \ {0}
         /\ \A n \in Nodes : /\ MembersOf(n) \in Seq(MemberType) /\ Len(MembersOf(n)) \in Nat
                             /\ graph.type[n] \in Nat \ {0}
                             /\ IsString(n) => MembersOf(n) = <<>>
<1>1. /\ Nodes \subseteq Nat \ {0} /\ graph.root \in Nodes
      /\ \A n \in Nodes :
           /\ graph.type[n] \in Nat \ {0}
           /\ graph.type[n] = StringType => MembersOf(n) = <<>>
           /\ MembersOf(n) \in Seq(MemberType)
  BY GraphAssumption DEF Nodes, MembersOf, MemberType
<1>2. QED
  BY <1>1, LenProperties DEF IsString

LEMMA CallIs ==
  ASSUME NEW e \in Calls
  PROVE  \/ /\ e.call = "Read" /\ e.node \in Nodes /\ e.next \in Nat \ {0}
            /\ e = R(e.node, e.next)
         \/ /\ e.call = "ReadNetObject" /\ e.member \in MemberType /\ e.stage \in Stages
            /\ e = B(e.member, e.stage)
BY DEF Calls, R, B

LEMMA CallsAre ==
  /\ \A node \in Nodes, next \in Nat \ {0} :
       /\ R(node, next) \in Calls /\ R(node, next).call = "Read"
       /\ R(node, next).node = node /\ R(node, next).next = next
  /\ \A member \in MemberType, stage \in Stages :
       /\ B(member, stage) \in Calls /\ B(member, stage).call = "ReadNetObject"
       /\ B(member, stage).member = member /\ B(member, stage).stage = stage
BY DEF Calls, R, B

LEMMA MemberIs ==
  ASSUME graph \in Graphs, NEW e \in Calls, AtMemberOf(e)
  PROVE  /\ e.call = "Read" /\ e.node \in Nodes /\ e.next \in 1 .. Len(MembersOf(e.node))
         /\ MemberAt(e) \in MemberType /\ MemberAt(e).to \in Nodes
<1>1. /\ e.call = "Read" /\ e.node \in Nodes /\ e.next \in Nat \ {0}
  BY CallIs DEF AtMemberOf
<1>2. MembersOf(e.node) \in Seq(MemberType) /\ Len(MembersOf(e.node)) \in Nat
  BY <1>1, GraphIs
<1>3. e.next \in 1 .. Len(MembersOf(e.node))
  BY <1>1, <1>2 DEF AtMemberOf
<1>4. MemberAt(e) \in MemberType
  BY <1>2, <1>3, ElementOfSeq DEF MemberAt
<1>5. QED
  BY <1>1, <1>3, <1>4 DEF MemberType

LEMMA TopIs ==
  ASSUME NEW c \in Seq(Calls), c # <<>>
  PROVE  Len(c) \in Nat \ {0} /\ Len(c) \in 1 .. Len(c) /\ Last(c) = c[Len(c)] /\ Last(c) \in Calls
<1>1. Len(c) \in Nat /\ Len(c) # 0
  BY EmptySeq, LenProperties
<1>2. QED
  BY <1>1, ElementOfSeq DEF Last

-----------------------------------------------------------------------------
(* Calls stay nested when one is made, goes on and returns.                *)

LEMMA Pushed ==
  ASSUME NEW c, Nested(c), NEW e \in Calls,
         c = <<>> => e = R(graph.root, 1),
         c # <<>> => /\ Last(c).call = "Read" => AtMemberOf(Last(c))
                     /\ Last(c).call = "ReadNetObject" =>
                          /\ Last(c).stage = "full" /\ e.call = "Read"
                          /\ e.node = Last(c).member.to
                     /\ e.call = "Read" /\ Last(c).call = "Read" =>
                          ~IsTracked(MemberAt(Last(c))) /\ e.node = MemberAt(Last(c)).to
                     /\ e.call = "ReadNetObject" =>
                          /\ Last(c).call = "Read" /\ e.member = MemberAt(Last(c))
                          /\ IsTracked(e.member),
         e.call = "Read" => e.next <= Len(MembersOf(e.node)) + 1
  PROVE  Nested(Append(c, e))
<1>1. PICK d : d = Append(c, e)
  OBVIOUS
<1>2. c \in Seq(Calls) /\ Len(c) \in Nat
  BY DEF Nested
<1>3. /\ d \in Seq(Calls) /\ Len(d) = Len(c) + 1 /\ d[Len(c) + 1] = e
      /\ \A i \in 1 .. Len(c) : d[i] = c[i]
  BY <1>1, <1>2
<1>4. ASSUME NEW i \in 1 .. Len(d) PROVE NestedAt(d, i)
  <2>1. CASE i < Len(c)
    <3>1. /\ i \in 1 .. Len(c) /\ i + 1 \in 1 .. Len(c) /\ i < Len(d)
          /\ (i > 1 => i - 1 \in 1 .. Len(c))
      BY <1>2, <1>3, <2>1
    <3>2. /\ d[i] = c[i] /\ d[i + 1] = c[i + 1] /\ (i > 1 => d[i - 1] = c[i - 1])
      BY <1>3, <3>1
    <3>3. NestedAt(c, i)
      BY <3>1 DEF Nested
    <3>4. QED
      BY <2>1, <3>1, <3>2, <3>3 DEF NestedAt
  <2>2. CASE i = Len(c)
    <3>1. /\ i \in 1 .. Len(c) /\ i < Len(d) /\ (i > 1 => i - 1 \in 1 .. Len(c)) /\ c # <<>>
      BY <1>2, <1>3, <2>2
    <3>2. /\ d[i] = c[i] /\ d[i + 1] = e /\ (i > 1 => d[i - 1] = c[i - 1]) /\ Last(c) = c[i]
      BY <1>2, <1>3, <2>2, <3>1, TopIs
    <3>3. NestedAt(c, i)
      BY <3>1 DEF Nested
    <3>4. c[i].call = "Read" => c[i].next <= Len(MembersOf(c[i].node))
      BY <3>1, <3>2 DEF AtMemberOf
    <3>5. c[i].call = "ReadNetObject" =>
            c[i].stage = "full" /\ e.call = "Read" /\ e.node = c[i].member.to
      BY <3>1, <3>2
    <3>6. QED
      BY <3>1, <3>2, <3>3, <3>4, <3>5 DEF NestedAt
  <2>3. CASE i = Len(c) + 1
    <3>1. d[i] = e /\ ~(i < Len(d))
      BY <1>2, <1>3, <2>3
    <3>2. CASE c = <<>>
      <4>1. i = 1 /\ e.call = "Read" /\ e.node = graph.root
        BY <1>2, <2>3, <3>2 DEF R
      <4>2. QED
        BY <3>1, <4>1 DEF NestedAt
    <3>3. CASE c # <<>>
      <4>1. i > 1 /\ i # 1 /\ i - 1 \in 1 .. Len(c) /\ d[i - 1] = c[Len(c)] /\ Last(c) = c[Len(c)]
        BY <1>2, <1>3, <2>3, <3>3, TopIs
      <4>2. QED
        BY <3>1, <3>3, <4>1 DEF NestedAt
    <3>4. QED
      BY <3>2, <3>3
  <2>4. QED
    BY <1>2, <1>3, <2>1, <2>2, <2>3
<1>5. QED
  BY <1>1, <1>3, <1>4 DEF Nested

LEMMA Replaced ==
  ASSUME NEW c, Nested(c), c # <<>>, NEW e \in Calls, e.call = Last(c).call,
         e.call = "Read" => e.node = Last(c).node /\ e.next <= Len(MembersOf(e.node)) + 1,
         e.call = "ReadNetObject" => e.member = Last(c).member
  PROVE  Nested([c EXCEPT ![Len(c)] = e])
<1>1. PICK d : d = [c EXCEPT ![Len(c)] = e]
  OBVIOUS
<1>2. c \in Seq(Calls) /\ Len(c) \in Nat \ {0} /\ Last(c) = c[Len(c)]
  BY TopIs DEF Nested
<1>3. /\ d \in Seq(Calls) /\ Len(d) = Len(c) /\ d[Len(c)] = e
      /\ \A i \in 1 .. Len(c) : i # Len(c) => d[i] = c[i]
  BY <1>1, <1>2
<1>4. ASSUME NEW i \in 1 .. Len(d) PROVE NestedAt(d, i)
  <2>1. /\ i \in 1 .. Len(c) /\ i \in Nat /\ (i > 1 => d[i - 1] = c[i - 1])
    BY <1>2, <1>3
  <2>2. NestedAt(c, i)
    BY <2>1 DEF Nested
  <2>3. CASE i = Len(c)
    <3>1. d[i] = e /\ c[i] = Last(c) /\ ~(i < Len(d))
      BY <1>2, <1>3, <2>3
    <3>2. QED
      BY <2>1, <2>2, <3>1 DEF NestedAt
  <2>4. CASE i # Len(c)
    <3>1. d[i] = c[i] /\ i < Len(c) /\ i + 1 \in 1 .. Len(c)
      BY <1>2, <1>3, <2>1, <2>4
    <3>2. d[i + 1].call = c[i + 1].call /\ (c[i + 1].call = "Read" => d[i + 1].node = c[i + 1].node)
      <4>1. CASE i + 1 = Len(c)
        BY <1>2, <1>3, <4>1
      <4>2. CASE i + 1 # Len(c)
        BY <1>3, <3>1, <4>2
      <4>3. QED
        BY <4>1, <4>2
    <3>3. QED
      BY <1>3, <2>1, <2>2, <3>1, <3>2 DEF NestedAt
  <2>5. QED
    BY <2>3, <2>4
<1>5. QED
  BY <1>1, <1>3, <1>4 DEF Nested

LEMMA Popped ==
  ASSUME NEW c, Nested(c), c # <<>>
  PROVE  /\ Nested(Front(c)) /\ Len(Front(c)) = Len(c) - 1
         /\ \A i \in 1 .. Len(c) - 1 : Front(c)[i] = c[i]
         /\ Front(c) = <<>> <=> Len(c) = 1
<1>1. PICK d : d = Front(c)
  OBVIOUS
<1>2. c \in Seq(Calls) /\ Len(c) \in Nat \ {0}
  BY TopIs DEF Nested
<1>3. /\ d \in Seq(Calls) /\ Len(d) = Len(c) - 1
      /\ \A i \in 1 .. Len(c) - 1 : d[i] = c[i]
  <2>1. PICK n \in Nat : n = Len(c) - 1
    BY <1>2
  <2>2. \A i \in 1 .. n : c[i] \in Calls
    BY <1>2, <2>1, ElementOfSeq
  <2>3. /\ SubSeq(c, 1, n) \in Seq(Calls)
        /\ Len(SubSeq(c, 1, n)) = IF 1 <= n THEN n - 1 + 1 ELSE 0
        /\ \A i \in 1 .. n - 1 + 1 : SubSeq(c, 1, n)[i] = c[1 + i - 1]
    BY <2>2, SubSeqProperties
  <2>4. d = SubSeq(c, 1, n)
    BY <1>1, <2>1 DEF Front
  <2>5. QED
    BY <2>1, <2>3, <2>4
<1>4. ASSUME NEW i \in 1 .. Len(d) PROVE NestedAt(d, i)
  <2>1. /\ i \in 1 .. Len(c) /\ i < Len(c) /\ d[i] = c[i] /\ (i > 1 => d[i - 1] = c[i - 1])
        /\ (i < Len(d) => d[i + 1] = c[i + 1])
    BY <1>2, <1>3
  <2>2. NestedAt(c, i)
    BY <2>1 DEF Nested
  <2>3. QED
    BY <2>1, <2>2 DEF NestedAt
<1>5. d = <<>> <=> Len(c) = 1
  BY <1>2, <1>3
<1>6. QED
  BY <1>1, <1>3, <1>4, <1>5 DEF Nested

-----------------------------------------------------------------------------
(* Every token leads from nested calls to nested calls, and adds to the    *)
(* list at most.                                                           *)

LEMMA Lengthened ==
  ASSUME NEW l \in Seq(Entries), NEW x \in Entries
  PROVE  Append(l, x) \in Seq(Entries) /\ Within(l, Append(l, x))
BY DEF Within

LEMMA Unchanged ==
  ASSUME NEW l \in Seq(Entries)
  PROVE  Within(l, l)
BY DEF Within

LEMMA MovedIs ==
  ASSUME NEW c, Nested(c), c # <<>>, AtMemberOf(Last(c)), graph \in Graphs
  PROVE  Nested(Moved(c))
<1>1. Last(c) \in Calls
  BY TopIs DEF Nested
<1>2. Last(c).call = "Read" /\ Last(c).node \in Nodes
      /\ Last(c).next \in 1 .. Len(MembersOf(Last(c).node))
  BY <1>1, MemberIs
<1>3. PICK k \in Nat \ {0} : k = Last(c).next + 1
  BY <1>2
<1>4. Len(MembersOf(Last(c).node)) \in Nat
  BY <1>2, GraphIs
<1>5. k <= Len(MembersOf(Last(c).node)) + 1
  BY <1>2, <1>3, <1>4
<1>6. PICK e : e = R(Last(c).node, k)
  OBVIOUS
<1>7. e \in Calls /\ e.call = "Read" /\ e.node = Last(c).node /\ e.next = k
  BY <1>2, <1>6, CallsAre
<1>8. Nested([c EXCEPT ![Len(c)] = e])
  <2>1. e.call = Last(c).call /\ e.call # "ReadNetObject"
    BY <1>2, <1>7
  <2>2. e.node = Last(c).node /\ e.next <= Len(MembersOf(e.node)) + 1
    BY <1>5, <1>7
  <2>3. QED
    BY <1>7, <2>1, <2>2, Replaced
<1>9. QED
  BY <1>3, <1>6, <1>8 DEF Moved

LEMMA StagedIs ==
  ASSUME NEW c, Nested(c), c # <<>>, Last(c).call = "ReadNetObject", NEW stage \in Stages
  PROVE  Nested(Staged(c, stage)) /\ Staged(c, stage) # <<>>
         /\ Last(Staged(c, stage)) = B(Last(c).member, stage)
<1>1. Last(c) \in Calls /\ c \in Seq(Calls) /\ Len(c) \in 1 .. Len(c) /\ Len(c) \in Nat
  BY TopIs DEF Nested
<1>2. Last(c).member \in MemberType
  BY <1>1, CallIs
<1>3. PICK e : e = B(Last(c).member, stage)
  OBVIOUS
<1>4. e \in Calls /\ e.call = "ReadNetObject" /\ e.member = Last(c).member
  BY <1>2, <1>3, CallsAre
<1>5. Nested([c EXCEPT ![Len(c)] = e])
  <2>1. e.call = Last(c).call /\ e.call # "Read"
    BY <1>4
  <2>2. QED
    BY <1>4, <2>1, Replaced
<1>6. PICK d : d = [c EXCEPT ![Len(c)] = e]
  OBVIOUS
<1>7. Len(d) = Len(c) /\ d[Len(c)] = e /\ d \in Seq(Calls)
  BY <1>1, <1>4, <1>6
<1>8. d # <<>> /\ Last(d) = e
  BY <1>1, <1>7 DEF Last
<1>9. Staged(c, stage) = d
  BY <1>3, <1>6 DEF Staged
<1>10. QED
  BY <1>3, <1>5, <1>6, <1>8, <1>9

\* A call that has returned leaves its caller at the member.
LEMMA ReturnIs ==
  ASSUME graph \in Graphs, NEW c, Nested(c), c # <<>>,
         Last(c).call = "Read" => Len(c) > 1 /\ Last(Front(c)).call = "Read"
  PROVE  /\ Nested(Front(c)) /\ Front(c) # <<>> /\ AtMemberOf(Last(Front(c)))
         /\ Nested(Moved(Front(c)))
<1>1. PICK n \in Nat \ {0} : n = Len(c) /\ Last(c) = c[n] /\ n \in 1 .. Len(c)
  BY TopIs DEF Nested
<1>2. NestedAt(c, n)
  BY <1>1 DEF Nested
<1>3. n > 1
  BY <1>1, <1>2, TopIs, CallIs DEF NestedAt, Nested
<1>4. /\ Nested(Front(c)) /\ Len(Front(c)) = n - 1 /\ Front(c) # <<>>
      /\ \A i \in 1 .. n - 1 : Front(c)[i] = c[i]
  BY <1>1, <1>3, Popped
<1>5. PICK k \in 1 .. n - 1 : k = n - 1
  BY <1>1, <1>3
<1>6. Last(Front(c)) = c[k] /\ k \in 1 .. Len(c) /\ k < Len(c)
  BY <1>1, <1>4, <1>5 DEF Last
<1>7. c[k].call = "Read"
  <2>1. CASE Last(c).call = "Read"
    BY <1>6, <2>1
  <2>2. CASE Last(c).call # "Read"
    <3>1. Last(c).call = "ReadNetObject"
      BY <2>2, TopIs, CallIs DEF Nested
    <3>2. QED
      BY <1>1, <1>2, <1>5, <3>1 DEF NestedAt
  <2>3. QED
    BY <2>1, <2>2
<1>8. AtMemberOf(c[k])
  BY <1>6, <1>7 DEF Nested, NestedAt, AtMemberOf
<1>9. QED
  BY <1>4, <1>6, <1>8, MovedIs

LEMMA WalkKeeps ==
  ASSUME graph \in Graphs, NEW c, NEW l, NEW t, NEW d, NEW m,
         Nested(c), l \in Seq(Entries), Walks(c, l, t, d, m)
  PROVE  Nested(d) /\ m \in Seq(Entries) /\ Within(l, m)
<1>1. /\ Within(l, l)
      /\ c # <<>> => Last(c) \in Calls
  BY Unchanged, TopIs DEF Nested
<1>2. CASE EnterRoot(c, l, t, d, m)
  <2>1. c = <<>> /\ d = <<R(graph.root, 1)>> /\ m = l
    BY <1>2 DEF EnterRoot
  <2>2. graph.root \in Nodes /\ Len(MembersOf(graph.root)) \in Nat
    BY GraphIs
  <2>3. PICK e : e = R(graph.root, 1)
    OBVIOUS
  <2>4. e \in Calls /\ e.node = graph.root /\ e.next = 1
    BY <2>2, <2>3, CallsAre
  <2>5. Nested(Append(c, e))
    <3>1. e.next <= Len(MembersOf(e.node)) + 1
      BY <2>2, <2>4
    <3>2. ~(c # <<>>)
      BY <2>1
    <3>3. QED
      BY <2>3, <2>4, <3>1, <3>2, Pushed
  <2>6. d = Append(c, e)
    BY <2>1, <2>3
  <2>7. QED
    BY <1>1, <2>1, <2>5, <2>6
<1>3. CASE Enters(c, l, t, d, m)
  <2>1. /\ c # <<>> /\ AtMemberOf(Last(c)) /\ ~IsTracked(MemberAt(Last(c)))
        /\ t.of = MemberAt(Last(c)).to /\ d = Append(c, R(t.of, 1)) /\ m = l
    BY <1>3 DEF Enters, Untracked
  <2>2. /\ Last(c).call = "Read" /\ t.of \in Nodes
    BY <1>1, <2>1, MemberIs
  <2>3. PICK e : e = R(t.of, 1)
    OBVIOUS
  <2>4. e \in Calls /\ e.call = "Read" /\ e.node = t.of /\ e.next = 1
    BY <2>2, <2>3, CallsAre
  <2>5. Len(MembersOf(t.of)) \in Nat
    BY <2>2, GraphIs
  <2>6. Nested(Append(c, e))
    BY <2>1, <2>2, <2>4, <2>5, Pushed
  <2>7. QED
    BY <1>1, <2>1, <2>3, <2>6
<1>4. CASE Texts(c, l, t, d, m)
  BY <1>1, <1>4, MovedIs DEF Texts, Untracked
<1>5. CASE Starts(c, l, t, d, m)
  <2>1. /\ c # <<>> /\ AtMemberOf(Last(c)) /\ t.of = MemberAt(Last(c)) /\ IsTracked(t.of)
        /\ d = Append(c, B(t.of, "start")) /\ m = l
    BY <1>5 DEF Starts
  <2>2. Last(c).call = "Read" /\ t.of \in MemberType
    BY <1>1, <2>1, MemberIs
  <2>3. PICK e : e = B(t.of, "start")
    OBVIOUS
  <2>4. e \in Calls /\ e.call = "ReadNetObject" /\ e.member = t.of
    BY <2>2, <2>3, CallsAre DEF Stages
  <2>5. Nested(Append(c, e))
    BY <2>1, <2>2, <2>4, Pushed
  <2>6. QED
    BY <1>1, <2>1, <2>3, <2>5
<1>6. CASE ExistingObjects(c, l, t, d, m)
  BY <1>1, <1>6, StagedIs DEF ExistingObjects, InBundle, Stages
<1>7. CASE NewObjects(c, l, t, d, m)
  <2>1. /\ c # <<>> /\ Last(c).call = "ReadNetObject" /\ t.of = Last(c).member.to
        /\ d = Staged(c, "keyed") /\ m = Append(l, Entry(t.of))
    BY <1>7 DEF NewObjects, InBundle, Target
  <2>2. Last(c).member \in MemberType
    BY <1>1, <2>1, CallIs
  <2>3. Entry(t.of) \in Entries
    BY <2>1, <2>2 DEF MemberType, Entries
  <2>4. QED
    BY <2>1, <2>3, Lengthened, StagedIs DEF Stages
<1>8. CASE ExistingTypes(c, l, t, d, m)
  BY <1>1, <1>8, StagedIs DEF ExistingTypes, BeforeType, InBundle, Stages
<1>9. CASE NewTypes(c, l, t, d, m)
  <2>1. /\ c # <<>> /\ Last(c).call = "ReadNetObject"
        /\ d = Staged(c, "typing") /\ m = Append(l, TypeOf(c))
    BY <1>9 DEF NewTypes, BeforeType, InBundle
  <2>2. Last(c).member \in MemberType
    BY <1>1, <2>1, CallIs
  <2>3. Target(c) \in Nodes
    BY <2>2 DEF MemberType, Target
  <2>4. graph.type[Target(c)] \in Nat
    BY <2>3, GraphIs
  <2>5. TypeOf(c) \in Entries
    BY <2>4 DEF TypeOf, Entries
  <2>6. QED
    BY <2>1, <2>5, Lengthened, StagedIs DEF Stages
<1>10. CASE TypeNames(c, l, t, d, m)
  BY <1>1, <1>10, StagedIs DEF TypeNames, InBundle, Stages
<1>11. CASE Objects(c, l, t, d, m)
  <2>1. /\ c # <<>> /\ Last(c).call = "ReadNetObject" /\ t.of = Last(c).member.to /\ m = l
        /\ d = IF IsString(t.of) THEN Staged(c, "full")
               ELSE Append(Staged(c, "full"), R(t.of, 1))
    BY <1>11 DEF Objects, InBundle, Target
  <2>2. Last(c).member \in MemberType
    BY <1>1, <2>1, CallIs
  <2>3. t.of \in Nodes
    BY <2>1, <2>2 DEF MemberType
  <2>4. PICK f : f = Staged(c, "full")
    OBVIOUS
  <2>5. Nested(f) /\ f # <<>> /\ Last(f) = B(Last(c).member, "full")
    BY <2>1, <2>4, StagedIs DEF Stages
  <2>6. Last(f).call = "ReadNetObject" /\ Last(f).stage = "full" /\ Last(f).member.to = t.of
    BY <2>1, <2>2, <2>5, CallsAre DEF Stages
  <2>7. PICK e : e = R(t.of, 1)
    OBVIOUS
  <2>8. e \in Calls /\ e.call = "Read" /\ e.node = t.of /\ e.next = 1
    BY <2>3, <2>7, CallsAre
  <2>9. Len(MembersOf(t.of)) \in Nat
    BY <2>3, GraphIs
  <2>10. Nested(Append(f, e))
    BY <2>5, <2>6, <2>8, <2>9, Pushed
  <2>11. QED
    BY <1>1, <2>1, <2>4, <2>5, <2>7, <2>10
<1>12. CASE Leaves(c, l, t, d, m)
  <2>1. /\ c # <<>> /\ Last(c).call = "Read" /\ m = l
        /\ d = IF Len(c) > 1 /\ Last(Front(c)).call = "Read" THEN Moved(Front(c)) ELSE Front(c)
    BY <1>12 DEF Leaves
  <2>2. CASE Len(c) > 1 /\ Last(Front(c)).call = "Read"
    BY <1>1, <2>1, <2>2, ReturnIs
  <2>3. CASE ~(Len(c) > 1 /\ Last(Front(c)).call = "Read")
    BY <1>1, <2>1, <2>3, Popped
  <2>4. QED
    BY <2>2, <2>3
<1>13. CASE Ends(c, l, t, d, m)
  BY <1>1, <1>13, ReturnIs DEF Ends, InBundle
<1>14. QED
  BY <1>2, <1>3, <1>4, <1>5, <1>6, <1>7, <1>8, <1>9, <1>10, <1>11, <1>12, <1>13 DEF Walks

-----------------------------------------------------------------------------
(* A walk goes on with another token.                                      *)

LEMMA TransitiveWithin ==
  ASSUME NEW k \in Seq(Entries), NEW l \in Seq(Entries), NEW m \in Seq(Entries),
         Within(k, l), Within(l, m)
  PROVE  Within(k, m)
<1>1. Len(k) <= Len(l) /\ Len(l) <= Len(m) /\ Len(k) \in Nat /\ Len(l) \in Nat /\ Len(m) \in Nat
  BY DEF Within
<1>2. ASSUME NEW i \in 1 .. Len(k) PROVE k[i] = m[i]
  <2>1. i \in 1 .. Len(l)
    BY <1>1
  <2>2. QED
    BY <2>1 DEF Within
<1>3. QED
  BY <1>1, <1>2 DEF Within

LEMMA ReachedOn ==
  ASSUME graph \in Graphs, NEW w, NEW c, NEW l, Reached(w, c, l), NEW t \in Tokens,
         NEW d, NEW m, Walks(c, l, t, d, m)
  PROVE  Reached(Append(w, t), d, m)
<1>1. PICK p \in Seq(States) : Walk(p, w) /\ p[Len(p)].calls = c /\ p[Len(p)].list = l
  BY DEF Reached
<1>2. PICK n \in Nat : n = Len(w)
  BY LenProperties DEF Reached
<1>3. Len(p) = n + 1 /\ n + 1 \in 1 .. Len(p)
  BY <1>1, <1>2 DEF Walk
<1>4. Nested(c) /\ l \in Seq(Entries)
  BY <1>1, <1>3 DEF Walk
<1>5. Nested(d) /\ m \in Seq(Entries) /\ Within(l, m)
  BY <1>4, WalkKeeps
<1>6. PICK s \in States : s = [calls |-> d, list |-> m]
  BY <1>5 DEF States, Nested
<1>7. PICK q : q = Append(p, s)
  OBVIOUS
<1>8. /\ q \in Seq(States) /\ Len(q) = n + 2 /\ q[n + 2] = s
      /\ \A i \in 1 .. n + 1 : q[i] = p[i]
  BY <1>3, <1>7
<1>9. PICK v : v = Append(w, t)
  OBVIOUS
<1>10. /\ v \in Seq(Tokens) /\ Len(v) = n + 1 /\ v[n + 1] = t
       /\ \A i \in 1 .. n : v[i] = w[i]
  BY <1>2, <1>9 DEF Reached
<1>11. q[1] = [calls |-> <<>>, list |-> <<>>]
  BY <1>1, <1>3, <1>8 DEF Walk
<1>12. s.calls = d /\ s.list = m
  BY <1>6
<1>13. ASSUME NEW i \in 1 .. Len(q)
       PROVE  Nested(q[i].calls) /\ q[i].list \in Seq(Entries) /\ Within(q[i].list, m)
  <2>1. CASE i = n + 2
    BY <1>5, <1>8, <1>12, <2>1, Unchanged
  <2>2. CASE i # n + 2
    <3>1. i \in 1 .. Len(p) /\ q[i] = p[i]
      BY <1>3, <1>8, <2>2
    <3>2. Nested(p[i].calls) /\ p[i].list \in Seq(Entries) /\ Within(p[i].list, l)
      BY <1>1, <3>1 DEF Walk
    <3>3. QED
      BY <1>4, <1>5, <3>1, <3>2, TransitiveWithin
  <2>3. QED
    BY <2>1, <2>2
<1>14. ASSUME NEW i \in 1 .. Len(v)
       PROVE  Walks(q[i].calls, q[i].list, v[i], q[i + 1].calls, q[i + 1].list)
  <2>1. CASE i = n + 1
    <3>1. q[i] = p[Len(p)] /\ q[i + 1] = s /\ v[i] = t
      BY <1>3, <1>8, <1>10, <2>1
    <3>2. QED
      BY <1>1, <1>12, <3>1
  <2>2. CASE i # n + 1
    <3>1. i \in 1 .. n /\ i \in 1 .. n + 1 /\ i + 1 \in 1 .. n + 1
      BY <1>10, <2>2
    <3>2. q[i] = p[i] /\ q[i + 1] = p[i + 1] /\ v[i] = w[i]
      BY <1>8, <1>10, <3>1
    <3>3. QED
      BY <1>1, <1>2, <3>1, <3>2 DEF Walk
  <2>3. QED
    BY <2>1, <2>2
<1>15. q[Len(q)] = s /\ Len(q) = Len(v) + 1
  BY <1>8, <1>10
<1>16. Walk(q, v)
  BY <1>11, <1>12, <1>13, <1>14, <1>15 DEF Walk
<1>17. QED
  BY <1>8, <1>9, <1>10, <1>12, <1>15, <1>16 DEF Reached

LEMMA ReachedIs ==
  ASSUME NEW w, NEW c, NEW l, Reached(w, c, l)
  PROVE  w \in Seq(Tokens) /\ Nested(c) /\ l \in Seq(Entries)
<1>1. PICK p \in Seq(States) : Walk(p, w) /\ p[Len(p)].calls = c /\ p[Len(p)].list = l
  BY DEF Reached
<1>2. Len(w) \in Nat
  BY LenProperties DEF Reached
<1>3. Len(p) \in 1 .. Len(p)
  BY <1>1, <1>2 DEF Walk
<1>4. QED
  BY <1>1, <1>3 DEF Walk, Reached

-----------------------------------------------------------------------------
(* Where the calls of Write are.                                           *)

LEMMA TopPlace ==
  ASSUME NEW w \in Seq(Writes), w # <<>>, NEW e, NEW c, Places(e, c, w), Nested(c)
  PROVE  /\ c # <<>> /\ Last(c) = R(Last(w).node, Last(w).next)
         /\ Last(w) \in Writes /\ Last(w) = w[Len(w)] /\ Len(w) \in 1 .. Len(w)
         /\ \A k \in 1 .. Len(w) : k < Len(w) => e[k] \in 1 .. Len(c) - 1
<1>1. Len(w) \in Nat \ {0} /\ Len(w) \in 1 .. Len(w) /\ Last(w) = w[Len(w)] /\ Last(w) \in Writes
  BY LenProperties, EmptySeq, ElementOfSeq DEF Last
<1>2. e[Len(w)] = Len(c) /\ PlaceAt(e, c, w, Len(w))
  BY <1>1 DEF Places
<1>3. c[Len(c)] = R(Last(w).node, Last(w).next) /\ Len(c) \in 1 .. Len(c)
  BY <1>1, <1>2 DEF PlaceAt
<1>4. c # <<>>
  BY <1>3 DEF Nested
<1>5. ASSUME NEW k \in 1 .. Len(w), k < Len(w) PROVE e[k] \in 1 .. Len(c) - 1
  <2>1. PICK j \in 1 .. Len(w) : j = k + 1
    BY <1>1, <1>5
  <2>2. PlaceAt(e, c, w, k) /\ PlaceAt(e, c, w, j)
    BY DEF Places
  <2>3. PICK x \in Int : x = e[k]
    BY <2>2 DEF PlaceAt
  <2>4. PICK y \in Int : y = e[j]
    BY <2>2 DEF PlaceAt
  <2>5. x >= 1 /\ y <= Len(c)
    BY <2>2, <2>3, <2>4 DEF PlaceAt
  <2>6. y = x + 1 \/ y = x + 2
    BY <1>5, <2>1, <2>2, <2>3, <2>4 DEF PlaceAt
  <2>7. Len(c) \in Nat
    BY DEF Nested
  <2>8. QED
    BY <2>3, <2>5, <2>6, <2>7
<1>6. QED
  BY <1>1, <1>3, <1>4, <1>5 DEF Last

LEMMA WriteOn ==
  ASSUME NEW g \in Writes
  PROVE  LET f == [g EXCEPT !.next = @ + 1] IN
         f \in Writes /\ f.node = g.node /\ f.next = g.next + 1 /\ f.closing = g.closing
BY DEF Writes

LEMMA PlacesMoved ==
  ASSUME NEW w \in Seq(Writes), w # <<>>, NEW e, NEW c, Places(e, c, w), Nested(c)
  PROVE  LET v == [w EXCEPT ![Len(w)].next = @ + 1] IN
         /\ v \in Seq(Writes) /\ v # <<>> /\ Places(e, Moved(c), v)
<1>1. PICK n \in Nat \ {0} : n = Len(w) /\ n \in 1 .. Len(w) /\ Last(w) = w[n]
  BY TopPlace, LenProperties, EmptySeq
<1>2. /\ w[n] \in Writes /\ c # <<>> /\ Last(c) = R(w[n].node, w[n].next)
      /\ \A k \in 1 .. n : k < n => e[k] \in 1 .. Len(c) - 1
  BY <1>1, TopPlace
<1>3. PICK f : f = [w[n] EXCEPT !.next = @ + 1]
  OBVIOUS
<1>4. /\ f \in Writes /\ f.node = w[n].node /\ f.next = w[n].next + 1
      /\ f.closing = w[n].closing
  BY <1>2, <1>3, WriteOn
<1>5. PICK v : v = [w EXCEPT ![n] = f]
  OBVIOUS
<1>6. /\ v \in Seq(Writes) /\ Len(v) = n /\ v[n] = f /\ \A k \in 1 .. n : k # n => v[k] = w[k]
  BY <1>1, <1>4, <1>5
<1>7. v = [w EXCEPT ![Len(w)].next = @ + 1]
  BY <1>1, <1>3, <1>5
<1>8. PICK d : d = Moved(c)
  OBVIOUS
<1>9. PICK g \in Calls : g = R(w[n].node, w[n].next + 1)
  BY <1>2, CallsAre DEF Writes
<1>10. g.call = "Read"
  BY <1>9 DEF R
<1>11. Last(c).node = w[n].node /\ Last(c).next = w[n].next /\ Last(c).call = "Read"
  BY <1>2 DEF R
<1>12. d = [c EXCEPT ![Len(c)] = g]
  BY <1>8, <1>9, <1>11 DEF Moved
<1>13. c \in Seq(Calls) /\ Len(c) \in 1 .. Len(c) /\ Last(c) = c[Len(c)] /\ Len(c) \in Nat
  BY <1>2, TopIs DEF Nested
<1>14. /\ d \in Seq(Calls) /\ Len(d) = Len(c) /\ d[Len(c)] = g
       /\ \A i \in 1 .. Len(c) : i # Len(c) => d[i] = c[i]
       /\ \A i \in 1 .. Len(c) : d[i].call = c[i].call
  BY <1>10, <1>11, <1>12, <1>13
<1>15. ASSUME NEW k \in 1 .. n PROVE PlaceAt(e, d, v, k)
  <2>1. PlaceAt(e, c, w, k) /\ e[k] \in 1 .. Len(c) /\ Len(w) = n /\ Len(v) = n
    BY <1>1, <1>6 DEF Places, PlaceAt
  <2>2. k > 1 => d[e[k] - 1].call = c[e[k] - 1].call
    <3>1. ASSUME k > 1 PROVE e[k] - 1 \in 1 .. Len(c)
      <4>1. PICK j \in 1 .. n : j = k - 1
        BY <1>1, <3>1
      <4>2. j < Len(w) /\ j \in 1 .. Len(w) /\ j + 1 = k
        BY <1>1, <4>1
      <4>3. PlaceAt(e, c, w, j)
        BY <4>2 DEF Places
      <4>4. e[j] \in 1 .. Len(c) /\ (e[k] = e[j] + 1 \/ e[k] = e[j] + 2)
        BY <4>2, <4>3 DEF PlaceAt
      <4>5. QED
        BY <2>1, <4>4
    <3>2. QED
      BY <1>14, <3>1
  <2>3. CASE k = n
    <3>1. e[k] = Len(c)
      BY <1>1, <1>13, <2>3 DEF Places
    <3>2. d[e[k]] = R(v[k].node, v[k].next)
      BY <1>4, <1>6, <1>9, <1>14, <2>3, <3>1
    <3>3. v[k].closing = w[k].closing /\ v[k].node = w[k].node /\ ~(k < Len(v))
      BY <1>4, <1>6, <2>3
    <3>4. QED
      BY <1>14, <2>1, <2>2, <2>3, <3>2, <3>3 DEF PlaceAt
  <2>4. CASE k # n
    <3>1. k < n /\ e[k] \in 1 .. Len(c) - 1 /\ v[k] = w[k]
      BY <1>2, <1>6, <2>4
    <3>2. d[e[k]] = c[e[k]] /\ d[e[k] + 1].call = c[e[k] + 1].call
      BY <1>13, <1>14, <3>1
    <3>3. QED
      BY <1>14, <2>1, <2>2, <2>4, <3>1, <3>2 DEF PlaceAt
  <2>5. QED
    BY <2>3, <2>4
<1>16. v # <<>>
  BY <1>6
<1>17. \A k \in 1 .. Len(v) : \A j \in 1 .. k - 1 : e[j] < e[k]
  BY <1>1, <1>6 DEF Places
<1>18. e \in Seq(Nat) /\ Len(e) = Len(v) /\ e[1] = 1 /\ e[Len(v)] = Len(d)
  <2>1. e \in Seq(Nat) /\ Len(e) = n /\ e[1] = 1 /\ e[n] = Len(c)
    BY <1>1 DEF Places
  <2>2. QED
    BY <1>6, <1>14, <2>1
<1>19. Places(e, d, v)
  BY <1>6, <1>15, <1>16, <1>18, <1>17 DEF Places
<1>20. QED
  BY <1>6, <1>7, <1>8, <1>16, <1>19

\* The call of Read for the node comes on top, or a bundle and then that call.
Pushes(c, d, node, closing) ==
  /\ d \in Seq(Calls) /\ node \in Nodes /\ closing \in Seq(Tokens)
  /\ \A i \in 1 .. Len(c) : d[i] = c[i]
  /\ d[Len(d)] = R(node, 1)
  /\ \/ Len(d) = Len(c) + 1 /\ closing = <<LeaveToken(node)>>
     \/ /\ Len(d) = Len(c) + 2 /\ d[Len(c) + 1].call = "ReadNetObject"
        /\ closing = <<LeaveToken(node), EndToken(node)>>

LEMMA PlacesPush ==
  ASSUME NEW w \in Seq(Writes), w # <<>>, NEW e, NEW c, Places(e, c, w), Nested(c),
         NEW d, NEW node, NEW closing, Pushes(c, d, node, closing)
  PROVE  LET v == Append([w EXCEPT ![Len(w)].next = @ + 1],
                         [node |-> node, next |-> 1, closing |-> closing])
         IN v \in Seq(Writes) /\ \E x : Places(x, d, v)
<1>1. /\ d \in Seq(Calls) /\ node \in Nodes /\ closing \in Seq(Tokens)
      /\ \A i \in 1 .. Len(c) : d[i] = c[i]
      /\ d[Len(d)] = R(node, 1)
      /\ \/ Len(d) = Len(c) + 1 /\ closing = <<LeaveToken(node)>>
         \/ /\ Len(d) = Len(c) + 2 /\ d[Len(c) + 1].call = "ReadNetObject"
            /\ closing = <<LeaveToken(node), EndToken(node)>>
  BY DEF Pushes
<1>2. PICK n \in Nat \ {0} : n = Len(w) /\ n \in 1 .. Len(w) /\ Last(w) = w[n]
  BY TopPlace, LenProperties, EmptySeq
<1>3. /\ w[n] \in Writes /\ c # <<>> /\ Last(c) = R(w[n].node, w[n].next)
      /\ \A k \in 1 .. n : k < n => e[k] \in 1 .. Len(c) - 1
  BY <1>2, TopPlace
<1>4. PICK f : f = [w[n] EXCEPT !.next = @ + 1]
  OBVIOUS
<1>5. /\ f \in Writes /\ f.node = w[n].node /\ f.next = w[n].next + 1
      /\ f.closing = w[n].closing
  BY <1>3, <1>4, WriteOn
<1>6. PICK u : u = [w EXCEPT ![n] = f]
  OBVIOUS
<1>7. /\ u \in Seq(Writes) /\ Len(u) = n /\ u[n] = f /\ \A k \in 1 .. n : k # n => u[k] = w[k]
  BY <1>2, <1>5, <1>6
<1>8. PICK g : g = [node |-> node, next |-> 1, closing |-> closing]
  OBVIOUS
<1>9. g \in Writes /\ g.node = node /\ g.next = 1 /\ g.closing = closing
  BY <1>1, <1>8 DEF Writes
<1>10. PICK v : v = Append(u, g)
  OBVIOUS
<1>11. /\ v \in Seq(Writes) /\ Len(v) = n + 1 /\ v[n + 1] = g /\ v[n] = f
       /\ \A k \in 1 .. n : k # n => v[k] = w[k]
  BY <1>7, <1>9, <1>10
<1>12. c \in Seq(Calls) /\ Len(c) \in 1 .. Len(c) /\ Last(c) = c[Len(c)] /\ Len(c) \in Nat \ {0}
  BY <1>3, TopIs DEF Nested
<1>13. PICK s \in Nat : s = Len(d) /\ (s = Len(c) + 1 \/ s = Len(c) + 2)
  BY <1>1, <1>12
<1>14. PICK x : x = Append(e, s)
  OBVIOUS
<1>15. e \in Seq(Nat) /\ Len(e) = n /\ e[1] = 1 /\ e[n] = Len(c)
  BY <1>2 DEF Places
<1>16. /\ x \in Seq(Nat) /\ Len(x) = n + 1 /\ x[n + 1] = s /\ x[n] = Len(c) /\ x[1] = 1
       /\ \A k \in 1 .. n : x[k] = e[k]
  BY <1>13, <1>14, <1>15
<1>17. c[Len(c)].call = "Read"
  BY <1>3, <1>12 DEF R
<1>18. ASSUME NEW k \in 1 .. n, k > 1
       PROVE  e[k] - 1 \in 1 .. Len(c)
  <2>1. PICK j \in 1 .. n : j = k - 1 /\ j < n /\ j + 1 = k
    BY <1>2, <1>18
  <2>2. PlaceAt(e, c, w, j) /\ PlaceAt(e, c, w, k)
    BY <1>2, <2>1 DEF Places
  <2>3. /\ e[k] \in 1 .. Len(c) /\ e[j] \in 1 .. Len(c)
        /\ e[k] = e[j] + 1 \/ e[k] = e[j] + 2
    BY <1>2, <2>1, <2>2 DEF PlaceAt
  <2>4. QED
    BY <2>3
<1>19. ASSUME NEW k \in 1 .. n + 1 PROVE PlaceAt(x, d, v, k)
  <2>1. CASE k < n
    <3>1. k \in 1 .. n /\ k + 1 \in 1 .. n /\ e[k] \in 1 .. Len(c) - 1 /\ k < Len(w) /\ k # n
      BY <1>2, <1>3, <2>1
    <3>2. PlaceAt(e, c, w, k)
      BY <1>2, <3>1 DEF Places
    <3>3. e[k] \in 1 .. Len(c) /\ e[k] + 1 \in 1 .. Len(c) /\ e[k] \in 1 .. Len(d)
      <4>1. PICK y \in Nat : y = Len(c)
        BY <1>12
      <4>2. e[k] \in 1 .. y - 1
        BY <3>1, <4>1
      <4>3. Len(d) = y + 1 \/ Len(d) = y + 2
        BY <1>1, <4>1
      <4>4. e[k] \in 1 .. y /\ e[k] + 1 \in 1 .. y /\ e[k] \in 1 .. Len(d)
        BY <4>2, <4>3
      <4>5. QED
        BY <4>1, <4>4
    <3>4. /\ d[e[k]] = c[e[k]] /\ d[e[k] + 1] = c[e[k] + 1]
          /\ k > 1 => d[e[k] - 1] = c[e[k] - 1]
      BY <1>1, <1>18, <3>1, <3>3
    <3>5. /\ v[k] = w[k] /\ x[k] = e[k] /\ x[k + 1] = e[k + 1]
          /\ k < Len(v) /\ k # Len(v) /\ k # Len(w)
      BY <1>2, <1>11, <1>16, <3>1
    <3>6. QED
      BY <3>1, <3>2, <3>3, <3>4, <3>5 DEF PlaceAt
  <2>2. CASE k = n
    <3>1. PlaceAt(e, c, w, n)
      BY <1>2 DEF Places
    <3>2. c[Len(c)] = R(w[n].node, w[n].next)
      BY <1>3, <1>12
    <3>3. d[Len(c)] = R(f.node, f.next - 1)
      <4>1. w[n].next \in Nat
        BY <1>3 DEF Writes
      <4>2. f.next - 1 = w[n].next
        BY <1>5, <4>1
      <4>3. QED
        BY <1>1, <1>5, <1>12, <3>2, <4>2
    <3>4. x[n + 1] = IF d[Len(c) + 1].call = "Read" THEN Len(c) + 1 ELSE Len(c) + 2
      <4>1. CASE s = Len(c) + 1
        <5>1. d[Len(c) + 1].call = "Read"
          BY <1>1, <1>13, <4>1 DEF R
        <5>2. QED
          BY <1>16, <4>1, <5>1
      <4>2. CASE s = Len(c) + 2
        <5>1. d[Len(c) + 1].call = "ReadNetObject"
          BY <1>1, <1>12, <1>13, <4>2
        <5>2. QED
          BY <1>16, <4>2, <5>1
      <4>3. QED
        BY <1>13, <4>1, <4>2
    <3>5. n > 1 => d[Len(c) - 1] = c[Len(c) - 1]
      BY <1>1, <1>2, <1>15, <1>18
    <3>6. v[n].closing = w[n].closing /\ v[n].node = w[n].node /\ v[n] = f
      BY <1>5, <1>11
    <3>7. n < Len(v) /\ n # Len(v) /\ Len(c) \in 1 .. Len(d)
      BY <1>11, <1>12, <1>13
    <3>8. PlaceAt(x, d, v, n)
      BY <1>15, <1>16, <3>1, <3>3, <3>4, <3>5, <3>6, <3>7 DEF PlaceAt
    <3>9. QED
      BY <2>2, <3>8
  <2>3. CASE k = n + 1
    <3>1. x[n + 1] = s /\ d[s] = R(node, 1) /\ s \in 1 .. Len(d)
      BY <1>1, <1>12, <1>13, <1>16
    <3>2. v[n + 1] = g /\ Len(v) = n + 1 /\ n + 1 > 1 /\ ~(n + 1 < Len(v))
      BY <1>2, <1>11
    <3>3. closing = IF d[s - 1].call = "ReadNetObject"
                    THEN <<LeaveToken(node), EndToken(node)>>
                    ELSE <<LeaveToken(node)>>
      <4>1. CASE s = Len(c) + 1
        <5>1. s - 1 = Len(c) /\ d[Len(c)] = c[Len(c)] /\ ~(s = Len(c) + 2)
          BY <1>1, <1>12, <4>1
        <5>2. closing = <<LeaveToken(node)>>
          BY <1>1, <1>13, <5>1
        <5>3. QED
          BY <1>17, <5>1, <5>2
      <4>2. CASE s = Len(c) + 2
        <5>1. s - 1 = Len(c) + 1 /\ ~(s = Len(c) + 1)
          BY <1>12, <4>2
        <5>2. QED
          BY <1>1, <1>13, <5>1
      <4>3. QED
        BY <1>13, <4>1, <4>2
    <3>4. PlaceAt(x, d, v, n + 1)
      BY <1>9, <3>1, <3>2, <3>3 DEF PlaceAt
    <3>5. QED
      BY <2>3, <3>4
  <2>4. QED
    BY <1>2, <2>1, <2>2, <2>3
<1>20. v # <<>> /\ Len(x) = Len(v) /\ x[1] = 1 /\ x[Len(v)] = Len(d)
  BY <1>11, <1>13, <1>16
<1>21. ASSUME NEW k \in 1 .. n + 1, NEW j \in 1 .. k - 1 PROVE x[j] < x[k]
  <2>1. CASE k = n + 1
    <3>1. j \in 1 .. n
      BY <2>1
    <3>2. PlaceAt(e, c, w, j)
      BY <1>2, <3>1 DEF Places
    <3>3. e[j] \in 1 .. Len(c) /\ x[j] = e[j] /\ x[k] = s
      BY <1>16, <2>1, <3>1, <3>2 DEF PlaceAt
    <3>4. QED
      BY <1>12, <1>13, <3>3
  <2>2. CASE k # n + 1
    <3>1. k \in 1 .. n /\ j \in 1 .. n
      BY <2>2
    <3>2. e[j] < e[k]
      BY <1>2, <3>1 DEF Places
    <3>3. QED
      BY <1>16, <3>1, <3>2
  <2>3. QED
    BY <2>1, <2>2
<1>22. Places(x, d, v)
  BY <1>11, <1>16, <1>19, <1>20, <1>21 DEF Places
<1>23. v = Append([w EXCEPT ![Len(w)].next = @ + 1],
                  [node |-> node, next |-> 1, closing |-> closing])
  BY <1>2, <1>4, <1>6, <1>8, <1>10
<1>24. QED
  BY <1>11, <1>22, <1>23

LEMMA PlacesPop ==
  ASSUME NEW w \in Seq(Writes), NEW e, NEW c, Places(e, c, w), Nested(c),
         NEW n \in Nat \ {0}, Len(w) = n + 1,
         NEW d \in Seq(Calls), Len(d) = e[n], d[e[n]] = R(w[n].node, w[n].next),
         \A i \in 1 .. e[n] - 1 : d[i] = c[i]
  PROVE  Front(w) \in Seq(Writes) /\ \E x : Places(x, d, Front(w))
<1>1. w # <<>> /\ n \in 1 .. Len(w) /\ n < Len(w)
  OBVIOUS
<1>2. PICK v : v = Front(w)
  OBVIOUS
<1>3. /\ v \in Seq(Writes) /\ Len(v) = n
      /\ \A i \in 1 .. n : v[i] = w[i]
  <2>1. \A i \in 1 .. n : w[i] \in Writes
    BY ElementOfSeq
  <2>2. /\ SubSeq(w, 1, n) \in Seq(Writes)
        /\ Len(SubSeq(w, 1, n)) = IF 1 <= n THEN n - 1 + 1 ELSE 0
        /\ \A i \in 1 .. n - 1 + 1 : SubSeq(w, 1, n)[i] = w[1 + i - 1]
    BY <2>1, SubSeqProperties
  <2>3. Len(w) - 1 = n
    OBVIOUS
  <2>4. v = SubSeq(w, 1, n)
    BY <1>2, <2>3 DEF Front
  <2>5. QED
    BY <2>2, <2>4
<1>4. PICK x : x = SubSeq(e, 1, n)
  OBVIOUS
<1>5. e \in Seq(Nat) /\ Len(e) = n + 1 /\ e[1] = 1
  BY <1>1 DEF Places
<1>6. x \in Seq(Nat) /\ Len(x) = n /\ \A i \in 1 .. n : x[i] = e[i]
  <2>1. \A i \in 1 .. n : e[i] \in Nat
    BY <1>5, ElementOfSeq
  <2>2. /\ SubSeq(e, 1, n) \in Seq(Nat)
        /\ Len(SubSeq(e, 1, n)) = IF 1 <= n THEN n - 1 + 1 ELSE 0
        /\ \A i \in 1 .. n - 1 + 1 : SubSeq(e, 1, n)[i] = e[1 + i - 1]
    BY <2>1, SubSeqProperties
  <2>3. QED
    BY <1>4, <2>2
<1>7. PICK s \in Nat \ {0} : s = e[n] /\ s = Len(d) /\ PlaceAt(e, c, w, n) /\ s \in 1 .. Len(c)
  BY <1>1 DEF Places, PlaceAt
<1>8. ASSUME NEW k \in 1 .. n PROVE PlaceAt(e, c, w, k) /\ e[k] \in 1 .. Len(c)
  <2>1. k \in 1 .. Len(w)
    OBVIOUS
  <2>2. QED
    BY <2>1 DEF Places, PlaceAt
<1>9. c[s].call = "Read" /\ d[s].call = "Read"
  BY <1>7 DEF PlaceAt, R
<1>10. \A i \in 1 .. s : d[i].call = c[i].call /\ (i < s => d[i] = c[i])
  <2>1. ASSUME NEW i \in 1 .. s, i < s PROVE d[i] = c[i]
    BY <1>7, <2>1
  <2>2. QED
    BY <1>9, <2>1
<1>11. ASSUME NEW k \in 1 .. n, NEW j \in 1 .. k - 1 PROVE e[j] < e[k]
  <2>1. k \in 1 .. Len(w)
    OBVIOUS
  <2>2. QED
    BY <2>1 DEF Places
<1>12. ASSUME NEW k \in 1 .. n, k > 1 PROVE e[k] - 1 \in 1 .. s
  <2>1. PICK j \in 1 .. n : j = k - 1
    BY <1>12
  <2>2. e[j] < e[k] /\ e[j] \in 1 .. Len(c) /\ e[k] \in 1 .. Len(c)
    BY <1>8, <1>11, <2>1
  <2>3. e[k] <= s
    <3>1. CASE k = n
      BY <1>7, <2>2, <3>1
    <3>2. CASE k # n
      <4>1. k \in 1 .. n - 1 /\ n \in 1 .. n
        BY <3>2
      <4>2. e[k] < e[n]
        BY <1>11, <4>1
      <4>3. QED
        BY <1>7, <2>2, <4>2
    <3>3. QED
      BY <3>1, <3>2
  <2>4. PICK y \in Int : y = e[k]
    BY <2>2
  <2>5. PICK z \in Int : z = e[j]
    BY <2>2
  <2>6. z >= 1 /\ z < y /\ y <= s
    BY <2>2, <2>3, <2>4, <2>5
  <2>7. y - 1 \in 1 .. s
    BY <2>6
  <2>8. QED
    BY <2>4, <2>7
<1>13. ASSUME NEW k \in 1 .. n PROVE PlaceAt(x, d, v, k)
  <2>1. PlaceAt(e, c, w, k) /\ k < Len(w) /\ k # Len(w)
    BY <1>8
  <2>2. v[k] = w[k] /\ x[k] = e[k]
    BY <1>3, <1>6
  <2>3. k > 1 => d[e[k] - 1].call = c[e[k] - 1].call
    BY <1>10, <1>12
  <2>4. CASE k = n
    <3>1. d[e[k]] = R(w[k].node, w[k].next) /\ e[k] \in 1 .. Len(d) /\ ~(k < Len(v)) /\ k = Len(v)
      BY <1>3, <1>7, <2>4
    <3>2. QED
      BY <2>1, <2>2, <2>3, <3>1 DEF PlaceAt
  <2>5. CASE k # n
    <3>1. k \in 1 .. n - 1 /\ k + 1 \in 1 .. n /\ n \in 1 .. n /\ k < Len(v) /\ k # Len(v)
      BY <1>3, <2>5
    <3>2. e[k] < s /\ e[k] \in 1 .. Len(c)
      BY <1>7, <1>8, <1>11, <3>1
    <3>3. e[k] \in 1 .. s /\ e[k] + 1 \in 1 .. s /\ e[k] \in 1 .. Len(d)
      BY <1>7, <3>2
    <3>4. d[e[k]] = c[e[k]] /\ d[e[k] + 1].call = c[e[k] + 1].call /\ x[k + 1] = e[k + 1]
      BY <1>6, <1>10, <3>1, <3>2, <3>3
    <3>5. QED
      BY <2>1, <2>2, <2>3, <3>1, <3>3, <3>4 DEF PlaceAt
  <2>6. QED
    BY <2>4, <2>5
<1>14. v # <<>> /\ x[1] = 1 /\ x[Len(v)] = Len(d)
  BY <1>3, <1>5, <1>6, <1>7
<1>15. ASSUME NEW k \in 1 .. Len(v), NEW j \in 1 .. k - 1 PROVE x[j] < x[k]
  <2>1. j \in 1 .. n /\ k \in 1 .. n
    BY <1>3
  <2>2. QED
    BY <1>6, <1>11, <2>1
<1>16. Places(x, d, v)
  BY <1>3, <1>6, <1>13, <1>14, <1>15 DEF Places
<1>17. QED
  BY <1>2, <1>3, <1>16

-----------------------------------------------------------------------------
(* The graph stays, and with it what is a walk.                            *)

LEMMA SameGraph ==
  ASSUME graph' = graph, rooted' = rooted
  PROVE  /\ Nodes' = Nodes /\ MemberType' = MemberType /\ Entries' = Entries /\ Calls' = Calls
         /\ States' = States /\ Tokens' = Tokens /\ Writes' = Writes
         /\ \A n : MembersOf(n)' = MembersOf(n) /\ IsString(n)' = IsString(n)
         /\ \A n : IsRoot(n)' = IsRoot(n)
<1>1. Nodes' = Nodes
  BY DEF Nodes
<1>2. MemberType' = MemberType
  BY <1>1 DEF MemberType
<1>3. Entries' = Entries
  BY <1>1 DEF Entries
<1>4. Calls' = Calls
  BY <1>1, <1>2 DEF Calls
<1>5. States' = States
  BY <1>3, <1>4 DEF States
<1>6. Tokens' = Tokens
  BY <1>2 DEF Tokens
<1>7. Writes' = Writes
  BY <1>1, <1>6 DEF Writes
<1>8. \A n : MembersOf(n)' = MembersOf(n) /\ IsString(n)' = IsString(n) /\ IsRoot(n)' = IsRoot(n)
  BY DEF MembersOf, IsString, IsRoot
<1>9. QED
  BY <1>1, <1>2, <1>3, <1>4, <1>5, <1>6, <1>7, <1>8

LEMMA SameCalls ==
  ASSUME graph' = graph, rooted' = rooted, NEW c
  PROVE  /\ MemberAt(c)' = MemberAt(c) /\ AtMemberOf(c)' = AtMemberOf(c)
         /\ Nested(c)' = Nested(c) /\ TypeOf(c)' = TypeOf(c)
<1>1. \A n : MembersOf(n)' = MembersOf(n) /\ IsString(n)' = IsString(n)
  BY SameGraph
<1>2. \A e : MemberAt(e)' = MemberAt(e) /\ AtMemberOf(e)' = AtMemberOf(e)
  BY <1>1 DEF MemberAt, AtMemberOf
<1>3. \A i : NestedAt(c, i)' = NestedAt(c, i)
  BY <1>1, <1>2 DEF NestedAt
<1>4. Nested(c)' = Nested(c)
  BY <1>3, SameGraph DEF Nested
<1>5. TypeOf(c)' = TypeOf(c)
  BY DEF TypeOf
<1>6. QED
  BY <1>2, <1>4, <1>5

LEMMA SameWalks ==
  ASSUME graph' = graph, rooted' = rooted, NEW c, NEW l, NEW t, NEW d, NEW m
  PROVE  Walks(c, l, t, d, m)' = Walks(c, l, t, d, m)
<1>1. /\ MemberAt(Last(c))' = MemberAt(Last(c)) /\ AtMemberOf(Last(c))' = AtMemberOf(Last(c))
      /\ TypeOf(c)' = TypeOf(c)
  BY SameCalls
<1>2. \A n : MembersOf(n)' = MembersOf(n) /\ IsString(n)' = IsString(n) /\ IsRoot(n)' = IsRoot(n)
  BY SameGraph
<1>3. EnterRoot(c, l, t, d, m)' = EnterRoot(c, l, t, d, m)
  BY DEF EnterRoot
<1>4. Enters(c, l, t, d, m)' = Enters(c, l, t, d, m)
  BY <1>1, <1>2 DEF Enters, Untracked
<1>5. Texts(c, l, t, d, m)' = Texts(c, l, t, d, m)
  BY <1>1, <1>2 DEF Texts, Untracked
<1>6. Starts(c, l, t, d, m)' = Starts(c, l, t, d, m)
  BY <1>1 DEF Starts
<1>7. ExistingObjects(c, l, t, d, m)' = ExistingObjects(c, l, t, d, m)
  BY <1>2 DEF ExistingObjects
<1>8. NewObjects(c, l, t, d, m)' = NewObjects(c, l, t, d, m)
  BY <1>2 DEF NewObjects, Fresh
<1>9. ExistingTypes(c, l, t, d, m)' = ExistingTypes(c, l, t, d, m)
  BY <1>1 DEF ExistingTypes
<1>10. NewTypes(c, l, t, d, m)' = NewTypes(c, l, t, d, m)
  BY <1>1, <1>2 DEF NewTypes, Fresh
<1>11. TypeNames(c, l, t, d, m)' = TypeNames(c, l, t, d, m)
  BY DEF TypeNames
<1>12. Objects(c, l, t, d, m)' = Objects(c, l, t, d, m)
  BY <1>2 DEF Objects
<1>13. Leaves(c, l, t, d, m)' = Leaves(c, l, t, d, m)
  BY <1>2 DEF Leaves
<1>14. Ends(c, l, t, d, m)' = Ends(c, l, t, d, m)
  BY DEF Ends
<1>15. QED
  BY <1>3, <1>4, <1>5, <1>6, <1>7, <1>8, <1>9, <1>10, <1>11, <1>12, <1>13, <1>14 DEF Walks

LEMMA SameWalk ==
  ASSUME graph' = graph, rooted' = rooted, NEW p, NEW w, NEW c, NEW l
  PROVE  Walk(p, w)' = Walk(p, w) /\ Reached(w, c, l)' = Reached(w, c, l)
<1>1. ASSUME NEW q PROVE Walk(q, w)' = Walk(q, w)
  <2>1. \A i : Nested(q[i].calls)' = Nested(q[i].calls)
    BY SameCalls
  <2>2. \A i : Walks(q[i].calls, q[i].list, w[i], q[i + 1].calls, q[i + 1].list)'
               = Walks(q[i].calls, q[i].list, w[i], q[i + 1].calls, q[i + 1].list)
    BY SameWalks
  <2>3. Entries' = Entries
    BY SameGraph
  <2>4. QED
    BY <2>1, <2>2, <2>3 DEF Walk
<1>2. Reached(w, c, l)' = Reached(w, c, l)
  BY <1>1, SameGraph DEF Reached
<1>3. QED
  BY <1>1, <1>2

-----------------------------------------------------------------------------
(* Tokens and keys.                                                        *)

LEMMA MemberToken ==
  ASSUME NEW tag \in Tags, NEW key \in Int, NEW m \in MemberType
  PROVE  /\ T(tag, key, m) \in Tokens /\ T(tag, key, m).tag = tag
         /\ T(tag, key, m).key = key /\ T(tag, key, m).of = m
BY DEF T, Tokens

LEMMA NatToken ==
  ASSUME NEW tag \in Tags, NEW key \in Int, NEW n \in Nat
  PROVE  /\ T(tag, key, n) \in Tokens /\ T(tag, key, n).tag = tag
         /\ T(tag, key, n).key = key /\ T(tag, key, n).of = n
BY DEF T, Tokens

LEMMA NodeToken ==
  ASSUME graph \in Graphs, NEW tag \in Tags, NEW key \in Int, NEW node \in Nodes
  PROVE  /\ T(tag, key, node) \in Tokens /\ T(tag, key, node).tag = tag
         /\ T(tag, key, node).key = key /\ T(tag, key, node).of = node
<1>1. node \in Nat
  BY GraphIs
<1>2. QED
  BY <1>1, NatToken

LEMMA WithIs ==
  ASSUME NEW l \in Seq(Entries), Distinct(l), rooted => ~Contains(l, Entry(graph.root)),
         NEW x \in Entries
  PROVE  /\ With(l, x) \in Seq(Entries) /\ Distinct(With(l, x))
         /\ rooted => ~Contains(With(l, x), Entry(graph.root))
         /\ KeyIn(l, x) \in Nat
         /\ IsRoot(x) => KeyIn(l, x) = 0
         /\ Exists(l, x) /\ ~IsRoot(x) => HasKey(l, KeyIn(l, x), x)
         /\ ~Exists(l, x) => Fresh(l, KeyIn(l, x), x) /\ With(l, x) = Append(l, x)
         /\ Exists(l, x) => With(l, x) = l
<1>1. CASE IsRoot(x)
  BY <1>1 DEF With, KeyIn, Exists
<1>2. CASE ~IsRoot(x) /\ Contains(l, x)
  <2>1. \E i \in DOMAIN l : l[i] = x
    BY <1>2 DEF Contains
  <2>2. KeyIn(l, x) = CHOOSE i \in DOMAIN l : l[i] = x
    BY <1>2 DEF KeyIn, Exists
  <2>3. HasKey(l, KeyIn(l, x), x)
    BY <2>1, <2>2 DEF HasKey
  <2>4. KeyIn(l, x) \in Nat
    BY <2>3 DEF HasKey
  <2>5. With(l, x) = l /\ Exists(l, x)
    BY <1>2 DEF With, Exists
  <2>6. QED
    BY <1>2, <2>3, <2>4, <2>5
<1>3. CASE ~IsRoot(x) /\ ~Contains(l, x)
  <2>1. ~Exists(l, x)
    BY <1>3 DEF Exists
  <2>2. KeyIn(l, x) = Len(l) + 1 /\ With(l, x) = Append(l, x)
    BY <1>3, <2>1 DEF KeyIn, With
  <2>3. PICK k : k = Append(l, x)
    OBVIOUS
  <2>4. /\ k \in Seq(Entries) /\ Len(k) = Len(l) + 1 /\ k[Len(l) + 1] = x
        /\ \A i \in 1 .. Len(l) : k[i] = l[i]
    BY <2>3
  <2>5. \A i \in 1 .. Len(l) : l[i] # x
    BY <1>3 DEF Contains
  <2>6. Distinct(k)
    <3>1. ASSUME NEW i \in DOMAIN k, NEW j \in DOMAIN k, k[i] = k[j] PROVE i = j
      <4>1. CASE i = Len(l) + 1 /\ j # Len(l) + 1
        <5>1. j \in 1 .. Len(l)
          BY <2>4, <4>1
        <5>2. QED
          BY <2>4, <2>5, <3>1, <4>1, <5>1
      <4>2. CASE i # Len(l) + 1 /\ j = Len(l) + 1
        <5>1. i \in 1 .. Len(l)
          BY <2>4, <4>2
        <5>2. QED
          BY <2>4, <2>5, <3>1, <4>2, <5>1
      <4>3. CASE i # Len(l) + 1 /\ j # Len(l) + 1
        <5>1. i \in 1 .. Len(l) /\ j \in 1 .. Len(l)
          BY <2>4, <4>3
        <5>2. QED
          BY <2>4, <3>1, <5>1 DEF Distinct
      <4>4. QED
        BY <4>1, <4>2, <4>3
    <3>2. QED
      BY <3>1 DEF Distinct
  <2>7. ASSUME rooted, Contains(k, Entry(graph.root)) PROVE FALSE
    <3>1. PICK i \in 1 .. Len(k) : k[i] = Entry(graph.root)
      BY <2>7 DEF Contains
    <3>2. CASE i = Len(l) + 1
      BY <1>3, <2>4, <2>7, <3>1, <3>2 DEF IsRoot
    <3>3. CASE i # Len(l) + 1
      <4>1. i \in 1 .. Len(l)
        BY <2>4, <3>3
      <4>2. l[i] = Entry(graph.root)
        BY <2>4, <3>1, <4>1
      <4>3. QED
        BY <2>7, <4>1, <4>2 DEF Contains
    <3>4. QED
      BY <3>2, <3>3
  <2>8. Fresh(l, KeyIn(l, x), x) /\ KeyIn(l, x) \in Nat
    BY <1>3, <2>2 DEF Fresh
  <2>9. QED
    BY <1>3, <2>1, <2>2, <2>3, <2>4, <2>6, <2>7, <2>8
<1>4. QED
  BY <1>1, <1>2, <1>3

LEMMA NoTypeIsRoot ==
  ASSUME NEW type
  PROVE  ~IsRoot(TypeEntry(type))
BY DEF IsRoot, TypeEntry, Entry

-----------------------------------------------------------------------------
(* How the writer goes through a bundle.                                   *)

LEMMA BundleIs ==
  ASSUME NEW c \in Seq(Calls), NEW member \in MemberType, NEW stage \in Stages
  PROVE  LET b == Append(c, B(member, stage)) IN
         /\ b # <<>> /\ Front(b) = c /\ Target(b) = member.to
         /\ Last(b).call = "ReadNetObject" /\ Last(b).member = member /\ Last(b).stage = stage
         /\ \A other \in Stages : Staged(b, other) = Append(c, B(member, other))
         /\ \A other : InBundle(b, other) <=> other = stage
<1>1. PICK e : e = B(member, stage)
  OBVIOUS
<1>2. e \in Calls /\ e.call = "ReadNetObject" /\ e.member = member /\ e.stage = stage
  BY <1>1, CallsAre
<1>3. PICK b : b = Append(c, e)
  OBVIOUS
<1>4. PICK n \in Nat : n = Len(c)
  OBVIOUS
<1>5. /\ b \in Seq(Calls) /\ Len(b) = n + 1 /\ b[n + 1] = e
      /\ \A i \in 1 .. n : b[i] = c[i]
  BY <1>2, <1>3, <1>4
<1>6. b # <<>> /\ Last(b) = e
  BY <1>5 DEF Last
<1>7. Front(b) = c
  <2>1. PICK f : f = SubSeq(b, 1, n)
    OBVIOUS
  <2>2. \A i \in 1 .. n : b[i] \in Calls
    BY <1>5, ElementOfSeq
  <2>3. /\ f \in Seq(Calls) /\ Len(f) = (IF 1 <= n THEN n - 1 + 1 ELSE 0)
        /\ \A i \in 1 .. n - 1 + 1 : f[i] = b[1 + i - 1]
    BY <2>1, <2>2, SubSeqProperties
  <2>4. Len(f) = n /\ \A i \in 1 .. n : f[i] = c[i]
    BY <1>4, <1>5, <2>3
  <2>5. f = c
    BY <1>4, <2>3, <2>4, SeqEqual
  <2>6. Front(b) = SubSeq(b, 1, Len(b) - 1)
    BY DEF Front
  <2>7. Len(b) - 1 = n
    BY <1>4, <1>5
  <2>8. QED
    BY <2>1, <2>5, <2>6, <2>7
<1>8. ASSUME NEW other \in Stages PROVE Staged(b, other) = Append(c, B(member, other))
  <2>1. PICK f \in Calls : f = B(member, other)
    BY CallsAre
  <2>2. PICK s : s = [b EXCEPT ![Len(b)] = f]
    OBVIOUS
  <2>3. PICK t : t = Append(c, f)
    OBVIOUS
  <2>4. s \in Seq(Calls) /\ Len(s) = n + 1 /\ s[n + 1] = f /\ \A i \in 1 .. n : s[i] = c[i]
    BY <1>4, <1>5, <2>2
  <2>5. t \in Seq(Calls) /\ Len(t) = n + 1 /\ t[n + 1] = f /\ \A i \in 1 .. n : t[i] = c[i]
    BY <1>4, <2>3
  <2>6. \A i \in 1 .. n + 1 : s[i] = t[i]
    <3>1. \A i \in 1 .. n + 1 : i = n + 1 \/ i \in 1 .. n
      BY <1>4
    <3>2. QED
      BY <2>4, <2>5, <3>1
  <2>7. s = t
    BY <2>4, <2>5, <2>6, SeqEqual
  <2>8. QED
    BY <1>2, <1>6, <2>1, <2>2, <2>3, <2>7 DEF Staged
<1>9. QED
  BY <1>1, <1>2, <1>3, <1>6, <1>7, <1>8 DEF Target, InBundle

\* The writer stands at a member.
Stands(c, m) == Nested(c) /\ c # <<>> /\ AtMemberOf(Last(c)) /\ m = MemberAt(Last(c))

LEMMA StandsIs ==
  ASSUME graph \in Graphs, NEW c, NEW m, Stands(c, m)
  PROVE  /\ c \in Seq(Calls) /\ m \in MemberType /\ m.to \in Nodes
         /\ Last(c).call = "Read"
         /\ Entry(m.to) \in Entries /\ TypeEntry(graph.type[m.to]) \in Entries
         /\ graph.type[m.to] \in Nat /\ m.asReference \in BOOLEAN /\ m.dynamicType \in BOOLEAN
<1>1. c \in Seq(Calls) /\ Last(c) \in Calls
  BY TopIs DEF Stands, Nested
<1>2. m \in MemberType /\ m.to \in Nodes /\ Last(c).call = "Read"
  BY <1>1, MemberIs DEF Stands
<1>3. m.to \in Nat /\ graph.type[m.to] \in Nat
  BY <1>2, GraphIs
<1>4. Entry(m.to) \in Entries /\ TypeEntry(graph.type[m.to]) \in Entries
  BY <1>2, <1>3 DEF Entries
<1>5. QED
  BY <1>1, <1>2, <1>3, <1>4 DEF MemberType

LEMMA StartReached ==
  ASSUME graph \in Graphs, NEW w, NEW c, NEW l, Reached(w, c, l), NEW m, Stands(c, m),
         IsTracked(m)
  PROVE  Reached(Append(w, T("start", NoKey, m)), Append(c, B(m, "start")), l)
<1>1. PICK t : t = T("start", NoKey, m)
  OBVIOUS
<1>2. t \in Tokens /\ t.tag = "start" /\ t.of = m
  <2>1. "start" \in Tags /\ NoKey \in Int
    BY DEF Tags, NoKey
  <2>2. m \in MemberType
    BY StandsIs
  <2>3. QED
    BY <1>1, <2>1, <2>2, MemberToken
<1>3. Starts(c, l, t, Append(c, B(m, "start")), l)
  BY <1>2 DEF Starts, Stands
<1>4. Walks(c, l, t, Append(c, B(m, "start")), l)
  BY <1>3 DEF Walks
<1>5. QED
  BY <1>1, <1>2, <1>4, ReachedOn

LEMMA ExistingReached ==
  ASSUME graph \in Graphs, NEW w, NEW c, NEW l, NEW m, Stands(c, m),
         Reached(w, Append(c, B(m, "start")), l),
         Distinct(l), rooted => ~Contains(l, Entry(graph.root)),
         m.asReference, Exists(l, Entry(m.to))
  PROVE  Reached(Append(w, T("existingObject", KeyIn(l, Entry(m.to)), m.to)),
                 Append(c, B(m, "full")), l)
<1>1. PICK t : t = T("existingObject", KeyIn(l, Entry(m.to)), m.to)
  OBVIOUS
<1>2. l \in Seq(Entries) /\ Entry(m.to) \in Entries
  BY ReachedIs, StandsIs
<1>3. /\ KeyIn(l, Entry(m.to)) \in Nat
      /\ IF IsRoot(Entry(m.to)) THEN KeyIn(l, Entry(m.to)) = 0
         ELSE HasKey(l, KeyIn(l, Entry(m.to)), Entry(m.to))
  BY <1>2, WithIs
<1>4. t \in Tokens /\ t.tag = "existingObject" /\ t.of = m.to /\ t.key = KeyIn(l, Entry(m.to))
  <2>1. "existingObject" \in Tags /\ KeyIn(l, Entry(m.to)) \in Int
    BY <1>3 DEF Tags
  <2>2. m.to \in Nodes
    BY StandsIs
  <2>3. QED
    BY <1>1, <2>1, <2>2, NodeToken
<1>5. IF t.key = 0 THEN IsRoot(Entry(t.of))
      ELSE HasKey(l, t.key, Entry(t.of)) /\ ~IsRoot(Entry(t.of))
  <2>1. ~HasKey(l, 0, Entry(t.of))
    BY <1>2 DEF HasKey
  <2>2. QED
    BY <1>3, <1>4, <2>1
<1>6. PICK b : b = Append(c, B(m, "start"))
  OBVIOUS
<1>7. /\ InBundle(b, "start") /\ Last(b).member = m /\ Target(b) = m.to
      /\ Staged(b, "full") = Append(c, B(m, "full"))
  BY <1>6, BundleIs, StandsIs DEF Stages
<1>8. ExistingObjects(b, l, t, Append(c, B(m, "full")), l)
  BY <1>4, <1>5, <1>7 DEF ExistingObjects
<1>9. Walks(b, l, t, Append(c, B(m, "full")), l)
  BY <1>8 DEF Walks
<1>10. QED
  BY <1>1, <1>4, <1>6, <1>9, ReachedOn

LEMMA NewObjectReached ==
  ASSUME graph \in Graphs, NEW w, NEW c, NEW l, NEW m, Stands(c, m),
         Reached(w, Append(c, B(m, "start")), l),
         Distinct(l), rooted => ~Contains(l, Entry(graph.root)),
         m.asReference, ~Exists(l, Entry(m.to))
  PROVE  Reached(Append(w, T("newObject", KeyIn(l, Entry(m.to)), m.to)),
                 Append(c, B(m, "keyed")), With(l, Entry(m.to)))
<1>1. PICK t : t = T("newObject", KeyIn(l, Entry(m.to)), m.to)
  OBVIOUS
<1>2. l \in Seq(Entries) /\ Entry(m.to) \in Entries
  BY ReachedIs, StandsIs
<1>3. /\ KeyIn(l, Entry(m.to)) \in Nat /\ Fresh(l, KeyIn(l, Entry(m.to)), Entry(m.to))
      /\ With(l, Entry(m.to)) = Append(l, Entry(m.to))
  BY <1>2, WithIs
<1>4. t \in Tokens /\ t.tag = "newObject" /\ t.of = m.to /\ t.key = KeyIn(l, Entry(m.to))
  <2>1. "newObject" \in Tags /\ KeyIn(l, Entry(m.to)) \in Int
    BY <1>3 DEF Tags
  <2>2. m.to \in Nodes
    BY StandsIs
  <2>3. QED
    BY <1>1, <2>1, <2>2, NodeToken
<1>5. PICK b : b = Append(c, B(m, "start"))
  OBVIOUS
<1>6. /\ InBundle(b, "start") /\ Last(b).member = m /\ Target(b) = m.to
      /\ Staged(b, "keyed") = Append(c, B(m, "keyed"))
  BY <1>5, BundleIs, StandsIs DEF Stages
<1>7. NewObjects(b, l, t, Append(c, B(m, "keyed")), With(l, Entry(m.to)))
  BY <1>3, <1>4, <1>6 DEF NewObjects
<1>8. Walks(b, l, t, Append(c, B(m, "keyed")), With(l, Entry(m.to)))
  BY <1>7 DEF Walks
<1>9. QED
  BY <1>1, <1>4, <1>5, <1>8, ReachedOn

\* The type is the one before, or has its name behind.
LEMMA ExistingTypeReached ==
  ASSUME graph \in Graphs, NEW w, NEW c, NEW l, NEW m, Stands(c, m),
         Reached(w, Append(c, B(m, IF m.asReference THEN "keyed" ELSE "start")), l),
         Distinct(l), rooted => ~Contains(l, Entry(graph.root)),
         m.dynamicType, Exists(l, TypeEntry(graph.type[m.to]))
  PROVE  Reached(Append(w, T("existingType", KeyIn(l, TypeEntry(graph.type[m.to])), m.to)),
                 Append(c, B(m, "typed")), l)
<1>1. PICK x : x = TypeEntry(graph.type[m.to])
  OBVIOUS
<1>2. l \in Seq(Entries) /\ x \in Entries /\ ~IsRoot(x)
  BY <1>1, ReachedIs, StandsIs, NoTypeIsRoot
<1>3. KeyIn(l, x) \in Nat /\ HasKey(l, KeyIn(l, x), x)
  BY <1>1, <1>2, WithIs
<1>4. PICK t : t = T("existingType", KeyIn(l, x), m.to)
  OBVIOUS
<1>5. t \in Tokens /\ t.tag = "existingType" /\ t.of = m.to /\ t.key = KeyIn(l, x)
  <2>1. "existingType" \in Tags /\ KeyIn(l, x) \in Int
    BY <1>3 DEF Tags
  <2>2. m.to \in Nodes
    BY StandsIs
  <2>3. QED
    BY <1>4, <2>1, <2>2, NodeToken
<1>6. PICK s \in Stages : s = IF m.asReference THEN "keyed" ELSE "start"
  BY DEF Stages
<1>7. PICK b : b = Append(c, B(m, s))
  OBVIOUS
<1>8. /\ InBundle(b, s) /\ Last(b).member = m /\ Target(b) = m.to
      /\ Staged(b, "typed") = Append(c, B(m, "typed"))
  BY <1>7, BundleIs, StandsIs DEF Stages
<1>9. BeforeType(b) /\ TypeOf(b) = x
  BY <1>1, <1>6, <1>8 DEF BeforeType, TypeOf
<1>10. ExistingTypes(b, l, t, Append(c, B(m, "typed")), l)
  BY <1>3, <1>5, <1>8, <1>9 DEF ExistingTypes
<1>11. Walks(b, l, t, Append(c, B(m, "typed")), l)
  BY <1>10 DEF Walks
<1>12. QED
  BY <1>1, <1>4, <1>5, <1>6, <1>7, <1>11, ReachedOn

LEMMA NewTypeReached ==
  ASSUME graph \in Graphs, NEW w, NEW c, NEW l, NEW m, Stands(c, m),
         Reached(w, Append(c, B(m, IF m.asReference THEN "keyed" ELSE "start")), l),
         Distinct(l), rooted => ~Contains(l, Entry(graph.root)),
         m.dynamicType, ~Exists(l, TypeEntry(graph.type[m.to]))
  PROVE  Reached(Append(Append(w, T("newType", KeyIn(l, TypeEntry(graph.type[m.to])), m.to)),
                        T("typeName", NoKey, graph.type[m.to])),
                 Append(c, B(m, "typed")), With(l, TypeEntry(graph.type[m.to])))
<1>1. PICK x : x = TypeEntry(graph.type[m.to])
  OBVIOUS
<1>2. l \in Seq(Entries) /\ x \in Entries
  BY <1>1, ReachedIs, StandsIs
<1>3. KeyIn(l, x) \in Nat /\ Fresh(l, KeyIn(l, x), x) /\ With(l, x) = Append(l, x)
  BY <1>1, <1>2, WithIs
<1>4. PICK t : t = T("newType", KeyIn(l, x), m.to)
  OBVIOUS
<1>5. t \in Tokens /\ t.tag = "newType" /\ t.of = m.to /\ t.key = KeyIn(l, x)
  <2>1. "newType" \in Tags /\ KeyIn(l, x) \in Int
    BY <1>3 DEF Tags
  <2>2. m.to \in Nodes
    BY StandsIs
  <2>3. QED
    BY <1>4, <2>1, <2>2, NodeToken
<1>6. PICK s \in Stages : s = IF m.asReference THEN "keyed" ELSE "start"
  BY DEF Stages
<1>7. PICK b : b = Append(c, B(m, s))
  OBVIOUS
<1>8. /\ InBundle(b, s) /\ Last(b).member = m /\ Target(b) = m.to
      /\ Staged(b, "typing") = Append(c, B(m, "typing"))
  BY <1>7, BundleIs, StandsIs DEF Stages
<1>9. BeforeType(b) /\ TypeOf(b) = x
  BY <1>1, <1>6, <1>8 DEF BeforeType, TypeOf
<1>10. PICK d : d = Append(c, B(m, "typing"))
  OBVIOUS
<1>11. NewTypes(b, l, t, d, With(l, x))
  BY <1>3, <1>5, <1>8, <1>9, <1>10 DEF NewTypes
<1>12. Walks(b, l, t, d, With(l, x))
  BY <1>11 DEF Walks
<1>13. Reached(Append(w, t), d, With(l, x))
  BY <1>5, <1>6, <1>7, <1>12, ReachedOn
<1>14. PICK u : u = T("typeName", NoKey, graph.type[m.to])
  OBVIOUS
<1>15. u \in Tokens /\ u.tag = "typeName" /\ u.of = graph.type[m.to]
  <2>1. "typeName" \in Tags /\ NoKey \in Int
    BY DEF Tags, NoKey
  <2>2. graph.type[m.to] \in Nat
    BY StandsIs
  <2>3. QED
    BY <1>14, <2>1, <2>2, NatToken
<1>16. /\ InBundle(d, "typing") /\ Target(d) = m.to
       /\ Staged(d, "typed") = Append(c, B(m, "typed"))
  BY <1>10, BundleIs, StandsIs DEF Stages
<1>17. TypeNames(d, With(l, x), u, Append(c, B(m, "typed")), With(l, x))
  BY <1>15, <1>16 DEF TypeNames
<1>18. Walks(d, With(l, x), u, Append(c, B(m, "typed")), With(l, x))
  BY <1>17 DEF Walks
<1>19. QED
  BY <1>1, <1>4, <1>13, <1>14, <1>15, <1>18, ReachedOn

LEMMA ObjectReached ==
  ASSUME graph \in Graphs, NEW w, NEW c, NEW l, NEW m, Stands(c, m), IsTracked(m),
         Reached(w, Append(c, B(m, IF m.dynamicType THEN "typed" ELSE "keyed")), l)
  PROVE  Reached(Append(w, T("object", NoKey, m.to)),
                 IF IsString(m.to) THEN Append(c, B(m, "full"))
                 ELSE Append(Append(c, B(m, "full")), R(m.to, 1)), l)
<1>1. PICK t : t = T("object", NoKey, m.to)
  OBVIOUS
<1>2. t \in Tokens /\ t.tag = "object" /\ t.of = m.to
  <2>1. "object" \in Tags /\ NoKey \in Int
    BY DEF Tags, NoKey
  <2>2. m.to \in Nodes
    BY StandsIs
  <2>3. QED
    BY <1>1, <2>1, <2>2, NodeToken
<1>3. PICK s \in Stages : s = IF m.dynamicType THEN "typed" ELSE "keyed"
  BY DEF Stages
<1>4. PICK b : b = Append(c, B(m, s))
  OBVIOUS
<1>5. /\ InBundle(b, s) /\ Last(b).member = m /\ Target(b) = m.to
      /\ Staged(b, "full") = Append(c, B(m, "full"))
  BY <1>4, BundleIs, StandsIs DEF Stages
<1>6. PICK d : d = IF IsString(m.to) THEN Append(c, B(m, "full"))
                   ELSE Append(Append(c, B(m, "full")), R(m.to, 1))
  OBVIOUS
<1>7. Objects(b, l, t, d, l)
  <2>1. InBundle(b, "typed") \/ (InBundle(b, "keyed") /\ ~Last(b).member.dynamicType)
    BY <1>3, <1>5
  <2>2. QED
    BY <1>2, <1>5, <1>6, <2>1 DEF Objects
<1>8. Walks(b, l, t, d, l)
  BY <1>7 DEF Walks
<1>9. QED
  BY <1>1, <1>2, <1>3, <1>4, <1>6, <1>8, ReachedOn

LEMMA EndReached ==
  ASSUME graph \in Graphs, NEW w, NEW c, NEW l, NEW m \in MemberType, NEW node \in Nodes,
         c \in Seq(Calls), Reached(w, Append(c, B(m, "full")), l)
  PROVE  Reached(Append(w, EndToken(node)), Moved(c), l)
<1>1. PICK t : t = EndToken(node)
  OBVIOUS
<1>2. t \in Tokens /\ t.tag = "end"
  <2>1. "end" \in Tags /\ NoKey \in Int
    BY DEF Tags, NoKey
  <2>2. QED
    BY <1>1, <2>1, NodeToken DEF EndToken
<1>3. PICK b : b = Append(c, B(m, "full"))
  OBVIOUS
<1>4. InBundle(b, "full") /\ Front(b) = c
  BY <1>3, BundleIs DEF Stages
<1>5. Ends(b, l, t, Moved(c), l)
  BY <1>2, <1>4 DEF Ends
<1>6. Walks(b, l, t, Moved(c), l)
  BY <1>5 DEF Walks
<1>7. QED
  BY <1>1, <1>2, <1>3, <1>6, ReachedOn

-----------------------------------------------------------------------------
(* The writer's steps.                                                     *)

LEMMA Concats ==
  ASSUME NEW S, NEW w \in Seq(S), NEW a \in S
  PROVE  /\ w \o <<>> = w /\ w \o <<a>> = Append(w, a)
         /\ \A b \in S : <<a>> \o <<b>> = <<a, b>>
         /\ \A b \in S : w \o <<a, b>> = Append(Append(w, a), b)
         /\ \A b \in S, c \in S : w \o <<a, b, c>> = Append(Append(Append(w, a), b), c)
<1>1. w \o <<>> = w /\ w \o <<a>> = Append(w, a)
  OBVIOUS
<1>2. \A b \in S : w \o <<a, b>> = Append(Append(w, a), b)
  OBVIOUS
<1>3. \A b \in S, c \in S : w \o <<a, b, c>> = Append(Append(Append(w, a), b), c)
  OBVIOUS
<1>4. ASSUME NEW b \in S PROVE <<a>> \o <<b>> = <<a, b>>
  <2>1. <<a>> \in Seq(S) /\ <<b>> \in Seq(S) /\ <<a, b>> \in Seq(S)
    OBVIOUS
  <2>2. /\ <<a>> \o <<b>> \in Seq(S) /\ Len(<<a>> \o <<b>>) = Len(<<a, b>>)
        /\ \A i \in 1 .. Len(<<a>> \o <<b>>) : (<<a>> \o <<b>>)[i] = <<a, b>>[i]
    BY <2>1
  <2>3. QED
    BY <2>1, <2>2, SeqEqual
<1>5. QED
  BY <1>1, <1>2, <1>3, <1>4

\* Concatenation under a name of its own: the provers do not take it apart.
Cat(s, t) == s \o t

LEMMA CatGroups ==
  ASSUME NEW S, NEW w \in Seq(S), NEW a \in Seq(S), NEW b \in Seq(S)
  PROVE  Cat(a, b) \in Seq(S) /\ Cat(w, Cat(a, b)) = Cat(Cat(w, a), b)
BY DEF Cat

LEMMA FourConcats ==
  ASSUME NEW S, NEW w \in Seq(S), NEW a \in Seq(S), NEW b \in Seq(S), NEW x \in Seq(S),
         NEW y \in Seq(S)
  PROVE  Cat(w, Cat(Cat(Cat(a, b), x), y)) = Cat(Cat(Cat(Cat(w, a), b), x), y)
<1>1. PICK s \in Seq(S) : s = Cat(a, b)
  BY CatGroups
<1>2. PICK t \in Seq(S) : t = Cat(s, x)
  BY CatGroups
<1>3. Cat(w, s) = Cat(Cat(w, a), b)
  BY <1>1, CatGroups
<1>4. Cat(w, t) = Cat(Cat(w, s), x)
  BY <1>2, CatGroups
<1>5. Cat(w, Cat(t, y)) = Cat(Cat(w, t), y)
  BY CatGroups
<1>6. QED
  BY <1>1, <1>2, <1>3, <1>4, <1>5

LEMMA WriterOn ==
  ASSUME WriterInv, graph' = graph, rooted' = rooted,
         NEW w, wire' = w, NEW l, keyed' = l, NEW v \in Seq(Writes), writing' = v,
         NEW c, Reached(w, c, l), NEW e, Places(e, c, v),
         Distinct(l), rooted => ~Contains(l, Entry(graph.root))
  PROVE  WriterInv'
<1>1. Reached(w, c, l)' /\ Writes' = Writes
  BY SameWalk, SameGraph
<1>2. Places(e, c, v)'
  BY DEF Places, PlaceAt
<1>3. (\E x : Reached(wire, x, keyed) /\ \E y : Places(y, x, writing))'
  BY <1>1, <1>2
<1>4. QED
  BY <1>1, <1>3 DEF WriterInv, Distinct

\* What the writer's next member says about the walk.
LEMMA WriterStands ==
  ASSUME WriterInv, AtMember, NEW c, Reached(wire, c, keyed), NEW e, Places(e, c, writing)
  PROVE  Stands(c, NextMember) /\ writing # <<>>
<1>1. writing # <<>> /\ Writer.next <= Len(MembersOf(Writer.node)) /\ writing \in Seq(Writes)
  BY DEF AtMember, MembersOf, WriterInv
<1>2. Nested(c)
  BY ReachedIs
<1>3. c # <<>> /\ Last(c) = R(Writer.node, Writer.next)
  BY <1>1, <1>2, TopPlace DEF Writer
<1>4. Last(c).call = "Read" /\ Last(c).node = Writer.node /\ Last(c).next = Writer.next
  BY <1>3 DEF R
<1>5. QED
  BY <1>1, <1>2, <1>3, <1>4 DEF Stands, AtMemberOf, MemberAt, NextMember, MembersOf

LEMMA WriteObjectStep ==
  ASSUME WriterInv, WriteObject
  PROVE  WriterInv'
<1>1. PICK c : Reached(wire, c, keyed) /\ \E e : Places(e, c, writing)
  BY DEF WriterInv
<1>2. PICK e : Places(e, c, writing)
  BY <1>1
<1>3. PICK m : m = NextMember
  OBVIOUS
<1>4. Stands(c, m) /\ writing # <<>> /\ ~IsTracked(m)
  BY <1>1, <1>2, <1>3, WriterStands DEF WriteObject
<1>5. graph \in Graphs /\ writing \in Seq(Writes) /\ graph' = graph /\ rooted' = rooted
      /\ keyed' = keyed /\ wire \in Seq(Tokens) /\ Nested(c)
  BY <1>1, ReachedIs DEF WriterInv, WriteObject
<1>6. m \in MemberType /\ m.to \in Nodes /\ c \in Seq(Calls) /\ Len(c) \in Nat
  BY <1>4, <1>5, StandsIs
<1>7. PICK v : v = Advanced
  OBVIOUS
<1>8. v \in Seq(Writes) /\ Places(e, Moved(c), v)
  BY <1>2, <1>4, <1>5, <1>7, PlacesMoved DEF Advanced
<1>9. CASE IsString(m.to)
  <2>1. PICK t : t = T("text", NoKey, m.to)
    OBVIOUS
  <2>2. t \in Tokens /\ t.tag = "text" /\ t.of = m.to
    <3>1. "text" \in Tags /\ NoKey \in Int
      BY DEF Tags, NoKey
    <3>2. graph \in Graphs /\ m.to \in Nodes
      BY <1>5, <1>6
    <3>3. QED
      BY <2>1, <3>1, <3>2, NodeToken
  <2>3. writing' = v /\ wire' = wire \o <<t>> \o <<>>
    BY <1>3, <1>7, <1>9, <2>1 DEF WriteObject, Write
  <2>4. wire' = Append(wire, t)
    BY <1>5, <2>2, <2>3
  <2>5. Texts(c, keyed, t, Moved(c), keyed)
    BY <1>4, <1>9, <2>2 DEF Texts, Untracked, Stands
  <2>6. Walks(c, keyed, t, Moved(c), keyed)
    BY <2>5 DEF Walks
  <2>7. Reached(Append(wire, t), Moved(c), keyed)
    BY <1>1, <1>5, <2>2, <2>6, ReachedOn
  <2>8. Distinct(keyed) /\ (rooted => ~Contains(keyed, Entry(graph.root)))
    BY DEF WriterInv
  <2>9. QED
    BY <1>5, <1>8, <2>3, <2>4, <2>7, <2>8, WriterOn
<1>10. CASE ~IsString(m.to)
  <2>1. PICK t : t = T("enter", NoKey, m.to)
    OBVIOUS
  <2>2. t \in Tokens /\ t.tag = "enter" /\ t.of = m.to
    <3>1. "enter" \in Tags /\ NoKey \in Int
      BY DEF Tags, NoKey
    <3>2. graph \in Graphs /\ m.to \in Nodes
      BY <1>5, <1>6
    <3>3. QED
      BY <2>1, <3>1, <3>2, NodeToken
  <2>3. PICK closing : closing = <<LeaveToken(m.to)>>
    OBVIOUS
  <2>4. closing \in Seq(Tokens)
    <3>1. "leave" \in Tags /\ NoKey \in Int
      BY DEF Tags, NoKey
    <3>2. LeaveToken(m.to) \in Tokens
      BY <1>5, <1>6, <3>1, NodeToken DEF LeaveToken
    <3>3. QED
      BY <2>3, <3>2
  <2>5. /\ writing' = Append(v, [node |-> m.to, next |-> 1, closing |-> closing])
        /\ wire' = wire \o <<t>>
    BY <1>3, <1>7, <1>10, <2>1, <2>3 DEF WriteObject, Write, LeaveToken
  <2>6. wire' = Append(wire, t)
    BY <1>5, <2>2, <2>5
  <2>7. PICK g \in Calls : g = R(m.to, 1)
    BY <1>6, CallsAre
  <2>8. PICK d : d = Append(c, g)
    OBVIOUS
  <2>9. /\ d \in Seq(Calls) /\ Len(d) = Len(c) + 1 /\ d[Len(d)] = g
        /\ \A i \in 1 .. Len(c) : d[i] = c[i]
    BY <1>6, <2>8
  <2>10. Enters(c, keyed, t, d, keyed)
    BY <1>4, <1>10, <2>2, <2>7, <2>8 DEF Enters, Untracked, Stands
  <2>11. Walks(c, keyed, t, d, keyed)
    BY <2>10 DEF Walks
  <2>12. Reached(Append(wire, t), d, keyed)
    BY <1>1, <1>5, <2>2, <2>11, ReachedOn
  <2>13. PICK u : u = Append(v, [node |-> m.to, next |-> 1, closing |-> closing])
    OBVIOUS
  <2>14. u \in Seq(Writes) /\ \E x : Places(x, d, u)
    <3>1. Pushes(c, d, m.to, closing)
      BY <1>6, <2>3, <2>4, <2>7, <2>9 DEF Pushes
    <3>2. QED
      BY <1>2, <1>4, <1>5, <1>7, <2>13, <3>1, PlacesPush DEF Advanced
  <2>15. PICK x : Places(x, d, u)
    BY <2>14
  <2>16. Distinct(keyed) /\ (rooted => ~Contains(keyed, Entry(graph.root)))
    BY DEF WriterInv
  <2>17. QED
    BY <1>5, <2>5, <2>6, <2>12, <2>13, <2>14, <2>15, <2>16, WriterOn
<1>11. QED
  BY <1>9, <1>10

LEMMA WriteExistingStep ==
  ASSUME WriterInv, WriteExisting
  PROVE  WriterInv'
<1>1. PICK c : Reached(wire, c, keyed) /\ \E e : Places(e, c, writing)
  BY DEF WriterInv
<1>2. PICK e : Places(e, c, writing)
  BY <1>1
<1>3. PICK m : m = NextMember
  OBVIOUS
<1>4. Stands(c, m) /\ writing # <<>> /\ m.asReference /\ Exists(keyed, Entry(m.to)) /\ IsTracked(m)
  BY <1>1, <1>2, <1>3, WriterStands DEF WriteExisting, IsTracked
<1>5. /\ graph \in Graphs /\ writing \in Seq(Writes) /\ graph' = graph /\ rooted' = rooted
      /\ keyed' = keyed /\ wire \in Seq(Tokens) /\ Nested(c) /\ keyed \in Seq(Entries)
      /\ Distinct(keyed) /\ (rooted => ~Contains(keyed, Entry(graph.root)))
  BY <1>1, ReachedIs DEF WriterInv, WriteExisting
<1>6. m \in MemberType /\ m.to \in Nodes /\ c \in Seq(Calls) /\ Entry(m.to) \in Entries
  BY <1>4, <1>5, StandsIs
<1>7. PICK v : v = Advanced
  OBVIOUS
<1>8. v \in Seq(Writes) /\ Places(e, Moved(c), v)
  BY <1>2, <1>4, <1>5, <1>7, PlacesMoved DEF Advanced
<1>9. PICK s : s = T("start", NoKey, m)
  OBVIOUS
<1>10. PICK t : t = T("existingObject", KeyIn(keyed, Entry(m.to)), m.to)
  OBVIOUS
<1>11. PICK u : u = EndToken(m.to)
  OBVIOUS
<1>12. s \in Tokens /\ t \in Tokens /\ u \in Tokens
  <2>1. "start" \in Tags /\ "existingObject" \in Tags /\ "end" \in Tags /\ NoKey \in Int
    BY DEF Tags, NoKey
  <2>2. KeyIn(keyed, Entry(m.to)) \in Int
    BY <1>5, <1>6, WithIs
  <2>3. s \in Tokens
    BY <1>6, <1>9, <2>1, MemberToken
  <2>4. t \in Tokens
    BY <1>5, <1>6, <1>10, <2>1, <2>2, NodeToken
  <2>5. u \in Tokens
    BY <1>5, <1>6, <1>11, <2>1, NodeToken DEF EndToken
  <2>6. QED
    BY <2>3, <2>4, <2>5
<1>13. wire' = wire \o <<s, t, u>> /\ writing' = v
  BY <1>3, <1>7, <1>9, <1>10, <1>11 DEF WriteExisting, EndToken
<1>14. wire' = Append(Append(Append(wire, s), t), u)
  BY <1>5, <1>12, <1>13, Concats
<1>15. Reached(Append(wire, s), Append(c, B(m, "start")), keyed)
  BY <1>1, <1>4, <1>5, <1>9, StartReached
<1>16. Reached(Append(Append(wire, s), t), Append(c, B(m, "full")), keyed)
  BY <1>4, <1>5, <1>10, <1>15, ExistingReached
<1>17. Reached(Append(Append(Append(wire, s), t), u), Moved(c), keyed)
  BY <1>5, <1>6, <1>11, <1>16, EndReached
<1>18. QED
  BY <1>5, <1>8, <1>13, <1>14, <1>17, WriterOn

LEMMA WriteNewStep ==
  ASSUME WriterInv, WriteNew
  PROVE  WriterInv'
<1>1. PICK c : Reached(wire, c, keyed) /\ \E e : Places(e, c, writing)
  BY DEF WriterInv
<1>2. PICK e : Places(e, c, writing)
  BY <1>1
<1>3. PICK m : m = NextMember
  OBVIOUS
<1>4. /\ Stands(c, m) /\ writing # <<>> /\ IsTracked(m)
      /\ ~(m.asReference /\ Exists(keyed, Entry(m.to)))
  BY <1>1, <1>2, <1>3, WriterStands DEF WriteNew
<1>5. /\ graph \in Graphs /\ writing \in Seq(Writes) /\ graph' = graph /\ rooted' = rooted
      /\ wire \in Seq(Tokens) /\ Nested(c) /\ keyed \in Seq(Entries)
      /\ Distinct(keyed) /\ (rooted => ~Contains(keyed, Entry(graph.root)))
  BY <1>1, ReachedIs DEF WriterInv, WriteNew
<1>6. /\ m \in MemberType /\ m.to \in Nodes /\ c \in Seq(Calls) /\ Len(c) \in Nat
      /\ Entry(m.to) \in Entries /\ TypeEntry(graph.type[m.to]) \in Entries
      /\ m.asReference \in BOOLEAN /\ m.dynamicType \in BOOLEAN /\ graph.type[m.to] \in Nat
  BY <1>4, <1>5, StandsIs
<1>7. PICK v : v = Advanced
  OBVIOUS
<1>8. v \in Seq(Writes) /\ Places(e, Moved(c), v)
  BY <1>2, <1>4, <1>5, <1>7, PlacesMoved DEF Advanced
<1>9. PICK type : type = TypeEntry(graph.type[m.to])
  OBVIOUS
<1>10. PICK l : l = IF m.asReference THEN With(keyed, Entry(m.to)) ELSE keyed
  OBVIOUS
<1>11. PICK k : k = IF m.dynamicType THEN With(l, type) ELSE l
  OBVIOUS
<1>12. PICK o : o = IF m.asReference
                    THEN <<T("newObject", KeyIn(keyed, Entry(m.to)), m.to)>> ELSE <<>>
  OBVIOUS
<1>13. PICK y : y = IF ~m.dynamicType THEN <<>>
                    ELSE IF Exists(l, type)
                    THEN <<T("existingType", KeyIn(l, type), m.to)>>
                    ELSE <<T("newType", KeyIn(l, type), m.to),
                           T("typeName", NoKey, graph.type[m.to])>>
  OBVIOUS
<1>14. PICK s : s = T("start", NoKey, m)
  OBVIOUS
<1>15. PICK t : t = T("object", NoKey, m.to)
  OBVIOUS
<1>16. PICK first : first = <<s>> \o o \o y \o <<t>>
  OBVIOUS
<1>17. PICK closing : closing = IF IsString(m.to) THEN <<EndToken(m.to)>>
                                ELSE <<LeaveToken(m.to), EndToken(m.to)>>
  OBVIOUS
<1>18. "start" \in Tags /\ "newObject" \in Tags /\ "existingType" \in Tags /\ "newType" \in Tags
       /\ "typeName" \in Tags /\ "object" \in Tags /\ "leave" \in Tags /\ "end" \in Tags
       /\ NoKey \in Int
  BY DEF Tags, NoKey
<1>19. /\ l \in Seq(Entries) /\ Distinct(l) /\ (rooted => ~Contains(l, Entry(graph.root)))
       /\ KeyIn(keyed, Entry(m.to)) \in Nat
  BY <1>5, <1>6, <1>10, WithIs
<1>20. /\ k \in Seq(Entries) /\ Distinct(k) /\ (rooted => ~Contains(k, Entry(graph.root)))
       /\ KeyIn(l, type) \in Nat
  BY <1>6, <1>9, <1>11, <1>19, WithIs
<1>21. /\ s \in Tokens /\ t \in Tokens /\ LeaveToken(m.to) \in Tokens /\ EndToken(m.to) \in Tokens
       /\ T("newObject", KeyIn(keyed, Entry(m.to)), m.to) \in Tokens
       /\ T("existingType", KeyIn(l, type), m.to) \in Tokens
       /\ T("newType", KeyIn(l, type), m.to) \in Tokens
       /\ T("typeName", NoKey, graph.type[m.to]) \in Tokens
  <2>1. s \in Tokens
    BY <1>6, <1>14, <1>18, MemberToken
  <2>2. t \in Tokens
    BY <1>5, <1>6, <1>15, <1>18, NodeToken
  <2>3. LeaveToken(m.to) \in Tokens /\ EndToken(m.to) \in Tokens
    BY <1>5, <1>6, <1>18, NodeToken DEF LeaveToken, EndToken
  <2>4. KeyIn(keyed, Entry(m.to)) \in Int /\ KeyIn(l, type) \in Int
    BY <1>19, <1>20
  <2>5. T("newObject", KeyIn(keyed, Entry(m.to)), m.to) \in Tokens
    BY <1>5, <1>6, <1>18, <2>4, NodeToken
  <2>6. T("existingType", KeyIn(l, type), m.to) \in Tokens
    BY <1>5, <1>6, <1>18, <2>4, NodeToken
  <2>7. T("newType", KeyIn(l, type), m.to) \in Tokens
    BY <1>5, <1>6, <1>18, <2>4, NodeToken
  <2>8. T("typeName", NoKey, graph.type[m.to]) \in Tokens
    BY <1>6, <1>18, NatToken
  <2>9. QED
    BY <2>1, <2>2, <2>3, <2>5, <2>6, <2>7, <2>8
<1>22. /\ keyed' = k
       /\ IF IsString(m.to) THEN wire' = wire \o first \o closing /\ writing' = v
          ELSE /\ wire' = wire \o first
               /\ writing' = Append(v, [node |-> m.to, next |-> 1, closing |-> closing])
  <2>1. /\ keyed' = k
        /\ Write(m, first, IF IsString(m.to) THEN <<EndToken(m.to)>>
                           ELSE <<LeaveToken(m.to)>> \o <<EndToken(m.to)>>)
    BY <1>3, <1>9, <1>10, <1>11, <1>12, <1>13, <1>14, <1>15, <1>16
    DEF WriteNew, EndToken, LeaveToken
  <2>2. <<LeaveToken(m.to)>> \o <<EndToken(m.to)>> = <<LeaveToken(m.to), EndToken(m.to)>>
    BY <1>5, <1>21, Concats
  <2>3. Write(m, first, closing)
    BY <1>17, <2>1, <2>2
  <2>4. QED
    BY <1>7, <2>1, <2>3 DEF Write
<1>23. o \in Seq(Tokens) /\ y \in Seq(Tokens) /\ closing \in Seq(Tokens)
  BY <1>12, <1>13, <1>17, <1>21
<1>24. PICK w1 : w1 = Append(wire, s)
  OBVIOUS
<1>25. PICK w2 : w2 = w1 \o o
  OBVIOUS
<1>26. PICK w3 : w3 = w2 \o y
  OBVIOUS
<1>27. PICK w4 : w4 = Append(w3, t)
  OBVIOUS
<1>28. /\ w1 \in Seq(Tokens) /\ w2 \in Seq(Tokens) /\ w3 \in Seq(Tokens) /\ w4 \in Seq(Tokens)
       /\ wire \o first = w4
  <2>1. w1 \in Seq(Tokens) /\ w2 \in Seq(Tokens) /\ w3 \in Seq(Tokens) /\ w4 \in Seq(Tokens)
    BY <1>5, <1>21, <1>23, <1>24, <1>25, <1>26, <1>27
  <2>2. wire \in Seq(Tokens) /\ o \in Seq(Tokens) /\ y \in Seq(Tokens)
    BY <1>5, <1>23
  <2>3. PICK a : a = <<s>>
    OBVIOUS
  <2>4. PICK z : z = <<t>>
    OBVIOUS
  <2>5. a \in Seq(Tokens) /\ z \in Seq(Tokens)
    BY <1>21, <2>3, <2>4
  <2>6. wire \o a = w1
    BY <1>21, <1>24, <2>2, <2>3, Concats
  <2>7. w3 \o z = w4
    BY <1>21, <1>27, <2>1, <2>4, Concats
  <2>8. Cat(wire, Cat(Cat(Cat(a, o), y), z)) = Cat(Cat(Cat(Cat(wire, a), o), y), z)
    BY <2>2, <2>5, FourConcats
  <2>9. wire \o (a \o o \o y \o z) = wire \o a \o o \o y \o z
    BY <2>8, Zenon DEF Cat
  <2>10. QED
    BY <1>16, <1>25, <1>26, <2>1, <2>3, <2>4, <2>6, <2>7, <2>9
<1>29. Reached(w1, Append(c, B(m, "start")), keyed)
  BY <1>1, <1>4, <1>5, <1>14, <1>24, StartReached
<1>30. Reached(w2, Append(c, B(m, IF m.asReference THEN "keyed" ELSE "start")), l)
  <2>1. CASE m.asReference
    <3>1. w2 = Append(w1, T("newObject", KeyIn(keyed, Entry(m.to)), m.to))
      <4>1. PICK a : a = T("newObject", KeyIn(keyed, Entry(m.to)), m.to)
        OBVIOUS
      <4>2. a \in Tokens /\ w1 \in Seq(Tokens)
        BY <1>21, <1>28, <4>1
      <4>3. w2 = w1 \o <<a>>
        BY <1>12, <1>25, <2>1, <4>1
      <4>4. QED
        BY <4>1, <4>2, <4>3, Concats
    <3>2. Reached(w2, Append(c, B(m, "keyed")), l)
      BY <1>4, <1>5, <1>10, <1>29, <2>1, <3>1, NewObjectReached
    <3>3. QED
      BY <2>1, <3>2
  <2>2. CASE ~m.asReference
    <3>1. w2 = w1 /\ l = keyed
      BY <1>10, <1>12, <1>25, <1>28, <2>2
    <3>2. QED
      BY <1>29, <2>2, <3>1
  <2>3. QED
    BY <2>1, <2>2
<1>31. Reached(w3, Append(c, B(m, IF m.dynamicType THEN "typed" ELSE "keyed")), k)
  <2>1. CASE ~m.dynamicType
    <3>1. w3 = w2 /\ k = l /\ m.asReference
      BY <1>4, <1>11, <1>13, <1>26, <1>28, <2>1 DEF IsTracked
    <3>2. QED
      BY <1>30, <2>1, <3>1
  <2>2. CASE m.dynamicType /\ Exists(l, type)
    <3>1. w3 = Append(w2, T("existingType", KeyIn(l, type), m.to))
      <4>1. PICK a : a = T("existingType", KeyIn(l, type), m.to)
        OBVIOUS
      <4>2. a \in Tokens /\ w2 \in Seq(Tokens)
        BY <1>21, <1>28, <4>1
      <4>3. w3 = w2 \o <<a>>
        BY <1>13, <1>26, <2>2, <4>1
      <4>4. QED
        BY <4>1, <4>2, <4>3, Concats
    <3>2. k = l
      BY <1>6, <1>9, <1>11, <1>19, <2>2, WithIs
    <3>3. Reached(w3, Append(c, B(m, "typed")), l)
      BY <1>4, <1>5, <1>9, <1>19, <1>30, <2>2, <3>1, ExistingTypeReached
    <3>4. QED
      BY <2>2, <3>2, <3>3
  <2>3. CASE m.dynamicType /\ ~Exists(l, type)
    <3>1. w3 = Append(Append(w2, T("newType", KeyIn(l, type), m.to)),
                      T("typeName", NoKey, graph.type[m.to]))
      <4>1. PICK a : a = T("newType", KeyIn(l, type), m.to)
        OBVIOUS
      <4>2. PICK b : b = T("typeName", NoKey, graph.type[m.to])
        OBVIOUS
      <4>3. a \in Tokens /\ b \in Tokens /\ w2 \in Seq(Tokens)
        BY <1>21, <1>28, <4>1, <4>2
      <4>4. w3 = w2 \o <<a, b>>
        BY <1>13, <1>26, <2>3, <4>1, <4>2
      <4>5. QED
        BY <4>1, <4>2, <4>3, <4>4, Concats
    <3>2. Reached(w3, Append(c, B(m, "typed")), k)
      BY <1>4, <1>5, <1>9, <1>11, <1>19, <1>30, <2>3, <3>1, NewTypeReached
    <3>3. QED
      BY <2>3, <3>2
  <2>4. QED
    BY <2>1, <2>2, <2>3
<1>32. Reached(w4, IF IsString(m.to) THEN Append(c, B(m, "full"))
                   ELSE Append(Append(c, B(m, "full")), R(m.to, 1)), k)
  BY <1>4, <1>5, <1>15, <1>27, <1>31, ObjectReached
<1>33. CASE IsString(m.to)
  <2>1. wire' = Append(w4, EndToken(m.to))
    BY <1>17, <1>22, <1>21, <1>28, <1>33, Concats
  <2>2. Reached(Append(w4, EndToken(m.to)), Moved(c), k)
    BY <1>5, <1>6, <1>32, <1>33, EndReached
  <2>3. QED
    BY <1>5, <1>8, <1>22, <1>20, <1>33, <2>1, <2>2, WriterOn
<1>34. CASE ~IsString(m.to)
  <2>1. PICK b \in Calls : b = B(m, "full")
    BY <1>6, CallsAre DEF Stages
  <2>2. PICK g \in Calls : g = R(m.to, 1)
    BY <1>6, CallsAre
  <2>3. b.call = "ReadNetObject"
    BY <2>1 DEF B
  <2>4. PICK d : d = Append(Append(c, b), g)
    OBVIOUS
  <2>5. /\ d \in Seq(Calls) /\ Len(d) = Len(c) + 2 /\ d[Len(d)] = g /\ d[Len(c) + 1] = b
        /\ \A i \in 1 .. Len(c) : d[i] = c[i]
    BY <1>6, <2>4
  <2>6. PICK u : u = Append(v, [node |-> m.to, next |-> 1, closing |-> closing])
    OBVIOUS
  <2>7. closing = <<LeaveToken(m.to), EndToken(m.to)>>
    BY <1>17, <1>34
  <2>8. u \in Seq(Writes) /\ \E x : Places(x, d, u)
    <3>1. d[Len(c) + 1].call = "ReadNetObject" /\ d[Len(d)] = R(m.to, 1)
      BY <2>2, <2>3, <2>5
    <3>2. u = Append([writing EXCEPT ![Len(writing)].next = @ + 1],
                     [node |-> m.to, next |-> 1, closing |-> closing])
      BY <1>7, <2>6 DEF Advanced
    <3>3. /\ Len(d) = Len(c) + 2 /\ d[Len(c) + 1].call = "ReadNetObject"
          /\ closing = <<LeaveToken(m.to), EndToken(m.to)>>
      BY <2>5, <2>7, <3>1
    <3>4. d \in Seq(Calls) /\ \A i \in 1 .. Len(c) : d[i] = c[i]
      BY <2>5
    <3>5. Pushes(c, d, m.to, closing)
      BY <1>6, <1>23, <3>1, <3>3, <3>4 DEF Pushes
    <3>6. QED
      BY <1>2, <1>4, <1>5, <3>2, <3>5, PlacesPush
  <2>9. PICK x : Places(x, d, u)
    BY <2>8
  <2>10. Reached(w4, d, k)
    BY <1>32, <1>34, <2>1, <2>2, <2>4
  <2>11. wire' = w4 /\ writing' = u
    BY <1>22, <1>28, <1>34, <2>6
  <2>12. QED
    BY <1>5, <1>22, <1>20, <2>8, <2>9, <2>10, <2>11, WriterOn
<1>35. QED
  BY <1>33, <1>34

LEMMA WriteEndStep ==
  ASSUME WriterInv, WriteEnd
  PROVE  WriterInv'
<1>1. PICK c : Reached(wire, c, keyed) /\ \E e : Places(e, c, writing)
  BY DEF WriterInv
<1>2. PICK e : Places(e, c, writing)
  BY <1>1
<1>3. /\ graph \in Graphs /\ writing \in Seq(Writes) /\ graph' = graph /\ rooted' = rooted
      /\ wire \in Seq(Tokens) /\ Nested(c) /\ keyed \in Seq(Entries) /\ writing # <<>>
      /\ Distinct(keyed) /\ (rooted => ~Contains(keyed, Entry(graph.root))) /\ keyed' = keyed
      /\ Writer.next > Len(MembersOf(Writer.node)) /\ wire' = wire \o Writer.closing
      /\ writing' = Front(writing)
  BY <1>1, ReachedIs DEF WriterInv, WriteEnd, MembersOf
<1>4. /\ c # <<>> /\ Last(c) = R(Writer.node, Writer.next) /\ Writer \in Writes
      /\ Writer = writing[Len(writing)] /\ Len(writing) \in 1 .. Len(writing)
  BY <1>2, <1>3, TopPlace DEF Writer
<1>5. PICK n \in Nat \ {0} : n = Len(c) /\ Last(c) = c[n] /\ n \in 1 .. Len(c)
  BY <1>3, <1>4, TopIs DEF Nested
<1>6. /\ Last(c).call = "Read" /\ Last(c).node = Writer.node /\ Last(c).next = Writer.next
      /\ Writer.node \in Nodes /\ Writer.next \in Nat
  BY <1>4 DEF R, Writes
<1>7. Writer.next = Len(MembersOf(Writer.node)) + 1
  <2>1. NestedAt(c, n)
    BY <1>3, <1>5 DEF Nested
  <2>2. Writer.next <= Len(MembersOf(Writer.node)) + 1
    BY <1>5, <1>6, <2>1 DEF NestedAt
  <2>3. Len(MembersOf(Writer.node)) \in Nat
    BY <1>3, <1>6, GraphIs
  <2>4. QED
    BY <1>3, <1>6, <2>2, <2>3
<1>8. PICK t : t = LeaveToken(Writer.node)
  OBVIOUS
<1>9. PICK u : u = EndToken(Writer.node)
  OBVIOUS
<1>10. t \in Tokens /\ t.tag = "leave" /\ u \in Tokens
  <2>1. "leave" \in Tags /\ "end" \in Tags /\ NoKey \in Int
    BY DEF Tags, NoKey
  <2>2. QED
    BY <1>3, <1>6, <1>8, <1>9, <2>1, NodeToken DEF LeaveToken, EndToken
<1>11. PICK f : f = Front(c)
  OBVIOUS
<1>12. Nested(f) /\ Len(f) = n - 1 /\ \A i \in 1 .. n - 1 : f[i] = c[i]
  BY <1>3, <1>4, <1>5, <1>11, Popped
<1>13. PICK k \in Nat \ {0} : k = Len(writing)
  BY <1>4
<1>14. PlaceAt(e, c, writing, k) /\ e[k] = n /\ k \in 1 .. k
  BY <1>2, <1>3, <1>5, <1>13 DEF Places
<1>15. PICK q : q = IF n > 1 /\ Last(f).call = "Read" THEN Moved(f) ELSE f
  OBVIOUS
<1>16. Reached(Append(wire, t), q, keyed)
  <2>1. Leaves(c, keyed, t, q, keyed)
    BY <1>4, <1>5, <1>6, <1>7, <1>10, <1>11, <1>15 DEF Leaves
  <2>2. Walks(c, keyed, t, q, keyed)
    BY <2>1 DEF Walks
  <2>3. QED
    BY <1>1, <1>3, <1>10, <2>2, ReachedOn
<1>17. CASE k = 1
  <2>1. n = 1
    BY <1>2, <1>3, <1>13, <1>14, <1>17 DEF Places
  <2>2. Front(writing) = <<>>
    <3>1. SubSeq(writing, 1, Len(writing) - 1) = <<>>
      BY <1>3, <1>13, <1>17
    <3>2. QED
      BY <3>1 DEF Front
  <2>3. f = <<>> /\ q = f
    BY <1>12, <1>15, <2>1 DEF Nested
  <2>4. Writer.closing = <<t>>
    BY <1>4, <1>8, <1>13, <1>14, <1>17 DEF PlaceAt
  <2>5. wire' = Append(wire, t)
    BY <1>3, <1>10, <2>4, Concats
  <2>6. PICK none \in Seq(Writes) : none = <<>>
    BY EmptySeq
  <2>7. Places(<<>>, f, none)
    BY <2>3, <2>6 DEF Places
  <2>8. writing' = none
    BY <1>3, <2>2, <2>6
  <2>9. QED
    BY <1>3, <1>16, <2>3, <2>5, <2>6, <2>7, <2>8, WriterOn
<1>18. CASE k # 1
  <2>1. PICK j \in Nat \ {0} : j = k - 1 /\ j \in 1 .. k /\ j < k /\ j + 1 = k
    BY <1>18
  <2>2. /\ PlaceAt(e, c, writing, j) /\ j \in 1 .. Len(writing) /\ j < Len(writing)
        /\ Len(writing) = j + 1
    BY <1>2, <1>13, <2>1 DEF Places
  <2>3. PICK i \in Nat \ {0} : i = e[j] /\ i \in 1 .. n
    BY <1>5, <2>2 DEF PlaceAt
  <2>4. /\ n = (IF c[i + 1].call = "Read" THEN i + 1 ELSE i + 2)
        /\ c[i] = R(writing[j].node, writing[j].next - 1)
    BY <1>14, <2>1, <2>2, <2>3 DEF PlaceAt
  <2>5. writing[j] \in Writes /\ writing[j].node \in Nodes /\ writing[j].next \in Nat
    <3>1. writing[j] \in Writes
      BY <1>3, <2>2, ElementOfSeq
    <3>2. QED
      BY <3>1 DEF Writes
  <2>6. c[i].call = "Read" /\ c[i].node = writing[j].node /\ c[i].next + 1 = writing[j].next
    BY <2>4, <2>5 DEF R
  <2>7. PICK g : g = R(writing[j].node, writing[j].next)
    OBVIOUS
  <2>8. CASE c[i + 1].call = "Read"
    <3>1. n = i + 1
      BY <2>4, <2>8
    <3>2. Len(f) = i /\ f[i] = c[i] /\ Last(f) = c[i] /\ f # <<>>
      BY <1>12, <3>1 DEF Last
    <3>3. q = [f EXCEPT ![i] = g]
      <4>1. n > 1 /\ Last(f).call = "Read"
        BY <2>6, <3>1, <3>2
      <4>2. R(Last(f).node, Last(f).next + 1) = g
        BY <2>6, <2>7, <3>2
      <4>3. QED
        BY <1>15, <3>2, <4>1, <4>2 DEF Moved
    <3>4. Writer.closing = <<t>>
      BY <1>4, <1>8, <1>13, <1>14, <1>18, <2>6, <3>1 DEF PlaceAt
    <3>5. wire' = Append(wire, t)
      BY <1>3, <1>10, <3>4, Concats
    <3>6. Nested(q) /\ f \in Seq(Calls)
      BY <1>12, <1>16, ReachedIs DEF Nested
    <3>7. /\ Len(q) = i /\ q[i] = g /\ q \in Seq(Calls)
          /\ \A x \in 1 .. i - 1 : q[x] = c[x]
      <4>1. q \in Seq(Calls)
        BY <3>6 DEF Nested
      <4>2. Len(q) = i /\ q[i] = g /\ \A x \in 1 .. i - 1 : q[x] = f[x]
        BY <3>2, <3>3, <3>6
      <4>3. QED
        BY <1>12, <3>1, <4>1, <4>2
    <3>8. Front(writing) \in Seq(Writes) /\ \E x : Places(x, q, Front(writing))
      BY <1>2, <1>3, <2>2, <2>3, <2>7, <3>7, PlacesPop
    <3>9. PICK x : Places(x, q, Front(writing))
      BY <3>8
    <3>10. QED
      BY <1>3, <1>16, <3>5, <3>8, <3>9, WriterOn
  <2>9. CASE c[i + 1].call # "Read"
    <3>1. n = i + 2 /\ n > 1 /\ i + 1 \in 1 .. n - 1
      BY <2>4, <2>9
    <3>2. Len(f) = i + 1 /\ Last(f) = c[i + 1] /\ f # <<>> /\ f[i] = c[i]
      BY <1>12, <3>1 DEF Last
    <3>3. q = f
      BY <1>15, <2>9, <3>2
    <3>4. Last(f) \in Calls
      BY <1>12, <3>2, TopIs DEF Nested
    <3>5. Last(f).call = "ReadNetObject" /\ c[n - 1] = Last(f)
      BY <2>9, <3>1, <3>2, <3>4, CallIs
    <3>6. Writer.closing = <<t, u>>
      BY <1>4, <1>8, <1>9, <1>13, <1>14, <1>18, <3>5 DEF PlaceAt
    <3>7. wire' = Append(Append(wire, t), u)
      BY <1>3, <1>10, <3>6, Concats
    <3>8. Last(f).stage = "full"
      <4>1. NestedAt(c, i + 1) /\ i + 1 < Len(c)
        BY <1>3, <1>5, <3>1 DEF Nested
      <4>2. QED
        BY <3>2, <3>5, <4>1 DEF NestedAt
    <3>9. PICK h : h = Front(f)
      OBVIOUS
    <3>10. Nested(h) /\ Len(h) = i /\ \A x \in 1 .. i : h[x] = c[x]
      <4>1. Nested(h) /\ Len(h) = i /\ \A x \in 1 .. i : h[x] = f[x]
        BY <1>12, <3>2, <3>9, Popped
      <4>2. QED
        BY <1>12, <3>1, <4>1
    <3>11. Last(h) = c[i] /\ h # <<>>
      BY <3>10 DEF Last
    <3>12. PICK d : d = Moved(h)
      OBVIOUS
    <3>13. d = [h EXCEPT ![i] = g]
      BY <2>6, <2>7, <3>10, <3>11, <3>12 DEF Moved
    <3>14. Reached(Append(Append(wire, t), u), d, keyed)
      <4>1. u.tag = "end"
        BY <1>9 DEF EndToken, T
      <4>2. Ends(q, keyed, u, d, keyed)
        BY <3>2, <3>3, <3>5, <3>8, <3>9, <3>12, <4>1 DEF Ends, InBundle
      <4>3. Walks(q, keyed, u, d, keyed)
        BY <4>2 DEF Walks
      <4>4. QED
        BY <1>3, <1>10, <1>16, <4>3, ReachedOn
    <3>15. Nested(d) /\ h \in Seq(Calls)
      BY <3>10, <3>14, ReachedIs DEF Nested
    <3>16. /\ Len(d) = i /\ d[i] = g /\ d \in Seq(Calls)
           /\ \A x \in 1 .. i - 1 : d[x] = c[x]
      <4>1. d \in Seq(Calls)
        BY <3>15 DEF Nested
      <4>2. Len(d) = i /\ d[i] = g /\ \A x \in 1 .. i - 1 : d[x] = h[x]
        BY <3>10, <3>13, <3>15
      <4>3. QED
        BY <3>10, <4>1, <4>2
    <3>17. Front(writing) \in Seq(Writes) /\ \E x : Places(x, d, Front(writing))
      BY <1>2, <1>3, <2>2, <2>3, <2>7, <3>16, PlacesPop
    <3>18. PICK x : Places(x, d, Front(writing))
      BY <3>17
    <3>19. QED
      BY <1>3, <3>7, <3>14, <3>17, <3>18, WriterOn
  <2>10. QED
    BY <2>8, <2>9
<1>19. QED
  BY <1>17, <1>18

-----------------------------------------------------------------------------
(* The reader's objects, when one is made and when one becomes a member.   *)

Fit(node) == [of |-> node, type |-> graph.type[node], members |-> <<>>]
WithNew(ms, node) == Append(ms, Fit(node))

LEMMA MadeOn ==
  ASSUME graph \in Graphs, NEW ms, ObjectsAre(ms), NEW node \in Nodes,
         NEW ns, ns = WithNew(ms, node)
  PROVE  /\ ObjectsAre(ns) /\ Len(ns) = Len(ms) + 1 /\ Len(ms) \in Nat
         /\ \A o \in 1 .. Len(ms) : ns[o] = ms[o] /\ o \in 1 .. Len(ns)
         /\ ns[Len(ms) + 1].of = node /\ Len(ns[Len(ms) + 1].members) = 0
         /\ \A x : Attached(ns, x) <=> Attached(ms, x)
         /\ ~Attached(ms, Len(ms) + 1)
<1>1. PICK n \in Nat : n = Len(ms)
  BY DEF ObjectsAre
<1>2. PICK f : f = Fit(node)
  OBVIOUS
<1>3. /\ f \in Made /\ f.of = node /\ f.type = graph.type[node] /\ f.members = <<>>
      /\ Len(MembersOf(node)) \in Nat
  <2>1. node \in Nat /\ graph.type[node] \in Nat /\ Len(MembersOf(node)) \in Nat
    BY GraphIs
  <2>2. <<>> \in Seq(Nat)
    OBVIOUS
  <2>3. QED
    BY <1>2, <2>1, <2>2 DEF Fit, Made
<1>4. /\ ns \in Seq(Made) /\ Len(ns) = n + 1 /\ ns[n + 1] = f
      /\ \A o \in 1 .. n : ns[o] = ms[o]
  BY <1>1, <1>2, <1>3 DEF ObjectsAre, WithNew
<1>5. \A o \in 1 .. n + 1 : o = n + 1 \/ o \in 1 .. n
  BY <1>1
<1>6. \A o \in 1 .. n : ObjectIs(ms, o)
  BY <1>1 DEF ObjectsAre
<1>7. ASSUME NEW o \in 1 .. n + 1 PROVE ObjectIs(ns, o)
  <2>1. CASE o = n + 1
    BY <1>3, <1>4, <2>1 DEF ObjectIs
  <2>2. CASE o \in 1 .. n
    <3>1. ns[o] = ms[o] /\ ObjectIs(ms, o)
      BY <1>4, <1>6, <2>2
    <3>2. ASSUME NEW j \in 1 .. Len(ms[o].members)
          PROVE  /\ ms[o].members[j] \in 1 .. n + 1
                 /\ ns[ms[o].members[j]].of = MembersOf(ms[o].of)[j].to
      <4>1. ms[o].members[j] \in 1 .. n
        BY <1>1, <3>1 DEF ObjectIs
      <4>2. ns[ms[o].members[j]] = ms[ms[o].members[j]]
        BY <1>4, <4>1
      <4>3. QED
        BY <1>1, <3>1, <4>1, <4>2 DEF ObjectIs
    <3>3. QED
      BY <1>4, <3>1, <3>2 DEF ObjectIs
  <2>3. QED
    BY <1>5, <2>1, <2>2
<1>8. ASSUME NEW x PROVE Attached(ns, x) <=> Attached(ms, x)
  <2>1. ASSUME Attached(ns, x) PROVE Attached(ms, x)
    <3>1. PICK o \in 1 .. n + 1 : \E j \in 1 .. Len(ns[o].members) : ns[o].members[j] = x
      BY <1>4, <2>1 DEF Attached
    <3>2. o # n + 1
      BY <1>3, <1>4, <3>1
    <3>3. o \in 1 .. n /\ ns[o] = ms[o]
      BY <1>4, <1>5, <3>2
    <3>4. QED
      BY <1>1, <3>1, <3>3 DEF Attached
  <2>2. ASSUME Attached(ms, x) PROVE Attached(ns, x)
    <3>1. PICK o \in 1 .. n : \E j \in 1 .. Len(ms[o].members) : ms[o].members[j] = x
      BY <1>1, <2>2 DEF Attached
    <3>2. o \in 1 .. Len(ns) /\ ns[o] = ms[o]
      BY <1>4, <3>1
    <3>3. QED
      BY <3>1, <3>2 DEF Attached
  <2>3. QED
    BY <2>1, <2>2
<1>9. ~Attached(ms, n + 1)
  BY <1>1, <1>6 DEF Attached, ObjectIs
<1>10. QED
  BY <1>1, <1>3, <1>4, <1>7, <1>8, <1>9 DEF ObjectsAre

\* The object x becomes the next member of o.
Joins(ms, o, x, member) ==
  /\ o \in 1 .. Len(ms) /\ x \in 1 .. Len(ms)
  /\ Len(ms[o].members) + 1 <= Len(MembersOf(ms[o].of))
  /\ member = MembersOf(ms[o].of)[Len(ms[o].members) + 1] /\ ms[x].of = member.to

Joined(ms, o, x) == [ms EXCEPT ![o].members = Append(@, x)]

LEMMA ObjectOn ==
  ASSUME NEW f \in Made, NEW x \in Nat, NEW g, g = [f EXCEPT !.members = Append(@, x)]
  PROVE  /\ g \in Made /\ g.of = f.of /\ g.type = f.type /\ g.members \in Seq(Nat)
         /\ f.members \in Seq(Nat) /\ Len(f.members) \in Nat
         /\ Len(g.members) = Len(f.members) + 1 /\ g.members[Len(f.members) + 1] = x
         /\ \A i \in 1 .. Len(f.members) : g.members[i] = f.members[i]
<1>1. PICK m : m = Append(f.members, x)
  OBVIOUS
<1>2. /\ f.members \in Seq(Nat) /\ Len(f.members) \in Nat
      /\ m \in Seq(Nat) /\ Len(m) = Len(f.members) + 1 /\ m[Len(f.members) + 1] = x
      /\ \A i \in 1 .. Len(f.members) : m[i] = f.members[i]
  BY <1>1 DEF Made
<1>3. g \in Made /\ g.of = f.of /\ g.type = f.type /\ g.members = m
  BY <1>1, <1>2 DEF Made
<1>4. QED
  BY <1>2, <1>3

LEMMA JoinedOn ==
  ASSUME graph \in Graphs, NEW ms, ObjectsAre(ms), NEW o, NEW x, NEW member,
         Joins(ms, o, x, member), NEW ns, ns = Joined(ms, o, x)
  PROVE  /\ ObjectsAre(ns) /\ Len(ns) = Len(ms) /\ Len(ms) \in Nat
         /\ \A q \in 1 .. Len(ms) : /\ ns[q].of = ms[q].of
                                    /\ q # o => ns[q] = ms[q]
         /\ Len(ns[o].members) = Len(ms[o].members) + 1 /\ Len(ms[o].members) \in Nat
         /\ ns[o].members[Len(ms[o].members) + 1] = x
         /\ \A q \in 1 .. Len(ms) : \A i \in 1 .. Len(ms[q].members) :
              ns[q].members[i] = ms[q].members[i] /\ i \in 1 .. Len(ns[q].members)
         /\ \A y : Attached(ns, y) <=> Attached(ms, y) \/ y = x
<1>1. PICK n \in Nat : n = Len(ms)
  BY DEF ObjectsAre
<1>2. o \in 1 .. n /\ x \in 1 .. n /\ x \in Nat /\ ms \in Seq(Made)
  BY <1>1 DEF Joins, ObjectsAre
<1>3. PICK f \in Made : f = ms[o]
  BY <1>1, <1>2, ElementOfSeq
<1>4. PICK g : g = [f EXCEPT !.members = Append(@, x)]
  OBVIOUS
<1>5. PICK j \in Nat : j = Len(f.members)
  BY <1>2, ObjectOn
<1>6. /\ g \in Made /\ g.of = f.of /\ g.type = f.type
      /\ Len(g.members) = j + 1 /\ g.members[j + 1] = x
      /\ \A i \in 1 .. j : g.members[i] = f.members[i]
  <2>1. /\ g \in Made /\ g.of = f.of /\ g.type = f.type
        /\ Len(g.members) = Len(f.members) + 1 /\ g.members[Len(f.members) + 1] = x
        /\ \A i \in 1 .. Len(f.members) : g.members[i] = f.members[i]
    BY <1>2, <1>4, ObjectOn
  <2>2. QED
    BY <1>5, <2>1
<1>7. ns = [ms EXCEPT ![o] = g]
  BY <1>3, <1>4 DEF Joined
<1>8. /\ ns \in Seq(Made) /\ Len(ns) = n /\ ns[o] = g
      /\ \A q \in 1 .. n : q # o => ns[q] = ms[q]
  BY <1>1, <1>2, <1>6, <1>7
<1>9. \A q \in 1 .. n : ns[q].of = ms[q].of /\ ns[q].type = ms[q].type
  BY <1>3, <1>6, <1>8
<1>10. \A i \in 1 .. j + 1 : i = j + 1 \/ i \in 1 .. j
  BY <1>5
<1>11. ASSUME NEW q \in 1 .. n, NEW i \in 1 .. Len(ms[q].members)
       PROVE  ns[q].members[i] = ms[q].members[i] /\ i \in 1 .. Len(ns[q].members)
  <2>1. CASE q = o
    <3>1. i \in 1 .. j /\ i \in 1 .. j + 1
      BY <1>3, <1>5, <2>1
    <3>2. QED
      BY <1>3, <1>6, <1>8, <2>1, <3>1
  <2>2. CASE q # o
    BY <1>8, <2>2
  <2>3. QED
    BY <2>1, <2>2
<1>12. \A q \in 1 .. n : ObjectIs(ms, q)
  BY <1>1 DEF ObjectsAre
<1>13. ASSUME NEW q \in 1 .. n PROVE ObjectIs(ns, q)
  <2>1. ObjectIs(ms, q)
    BY <1>12
  <2>2. CASE q # o
    BY <1>1, <1>8, <1>9, <2>1, <2>2 DEF ObjectIs
  <2>3. CASE q = o
    <3>1. ms[q] = f /\ ns[q] = g
      BY <1>3, <1>8, <2>3
    <3>2. Len(g.members) <= Len(MembersOf(g.of))
      BY <1>3, <1>5, <1>6, <2>3 DEF Joins
    <3>3. ASSUME NEW i \in 1 .. j + 1
          PROVE  /\ g.members[i] \in 1 .. n
                 /\ ns[g.members[i]].of = MembersOf(g.of)[i].to
      <4>1. CASE i = j + 1
        <5>1. g.members[i] = x /\ ns[x].of = ms[x].of
          BY <1>2, <1>6, <1>9, <4>1
        <5>2. ms[x].of = MembersOf(f.of)[j + 1].to
          BY <1>3, <1>5 DEF Joins
        <5>3. QED
          BY <1>2, <1>6, <4>1, <5>1, <5>2
      <4>2. CASE i \in 1 .. j
        <5>1. g.members[i] = f.members[i]
          BY <1>6, <4>2
        <5>2. f.members[i] \in 1 .. n /\ ms[f.members[i]].of = MembersOf(f.of)[i].to
          BY <1>1, <1>5, <2>1, <3>1, <4>2 DEF ObjectIs
        <5>3. QED
          BY <1>6, <1>9, <5>1, <5>2
      <4>3. QED
        BY <1>10, <4>1, <4>2
    <3>4. f.of \in Nodes /\ f.type = graph.type[f.of]
      BY <2>1, <3>1 DEF ObjectIs
    <3>5. QED
      BY <1>6, <1>8, <3>1, <3>2, <3>3, <3>4 DEF ObjectIs
  <2>4. QED
    BY <2>2, <2>3
<1>14. ASSUME NEW y PROVE Attached(ns, y) <=> Attached(ms, y) \/ y = x
  <2>1. ASSUME Attached(ns, y), y # x PROVE Attached(ms, y)
    <3>1. PICK q \in 1 .. n : \E i \in 1 .. Len(ns[q].members) : ns[q].members[i] = y
      BY <1>8, <2>1 DEF Attached
    <3>2. PICK i \in 1 .. Len(ns[q].members) : ns[q].members[i] = y
      BY <3>1
    <3>3. CASE q # o
      BY <1>1, <1>8, <3>2, <3>3 DEF Attached
    <3>4. CASE q = o
      <4>1. i \in 1 .. j
        BY <1>6, <1>8, <1>10, <2>1, <3>2, <3>4
      <4>2. f.members[i] = y
        BY <1>6, <1>8, <3>2, <3>4, <4>1
      <4>3. QED
        BY <1>1, <1>2, <1>3, <1>5, <4>1, <4>2 DEF Attached
    <3>5. QED
      BY <3>3, <3>4
  <2>2. ASSUME Attached(ms, y) PROVE Attached(ns, y)
    <3>1. PICK q \in 1 .. n : \E i \in 1 .. Len(ms[q].members) : ms[q].members[i] = y
      BY <1>1, <2>2 DEF Attached
    <3>2. PICK i \in 1 .. Len(ms[q].members) : ms[q].members[i] = y
      BY <3>1
    <3>3. i \in 1 .. Len(ns[q].members) /\ ns[q].members[i] = y
      BY <1>11, <3>1, <3>2
    <3>4. q \in 1 .. Len(ns)
      BY <1>8, <3>1
    <3>5. QED
      BY <3>3, <3>4 DEF Attached
  <2>3. Attached(ns, x)
    <3>1. j + 1 \in 1 .. Len(ns[o].members) /\ ns[o].members[j + 1] = x
      BY <1>5, <1>6, <1>8
    <3>2. QED
      BY <1>2, <1>8, <3>1 DEF Attached
  <2>4. QED
    BY <2>1, <2>2, <2>3
<1>15. QED
  BY <1>1, <1>2, <1>3, <1>5, <1>6, <1>8, <1>9, <1>11, <1>13, <1>14 DEF ObjectsAre

SameEntries(k, h, n) == \A x \in 1 .. n : IsEntry(h, x) <=> IsEntry(k, x)

LEMMA ApartMade ==
  ASSUME graph \in Graphs, NEW ms, ObjectsAre(ms), NEW node \in Nodes,
         NEW ns, ns = WithNew(ms, node),
         NEW k, NEW h, MembersApart(ms, k), SameEntries(k, h, Len(ms))
  PROVE  MembersApart(ns, h)
<1>1. PICK n \in Nat : n = Len(ms)
  BY DEF ObjectsAre
<1>2. /\ Len(ns) = n + 1 /\ \A o \in 1 .. n : ns[o] = ms[o]
      /\ Len(ns[n + 1].members) = 0
  BY <1>1, MadeOn
<1>3. \A o \in 1 .. n + 1 : o = n + 1 \/ o \in 1 .. n
  BY <1>1
<1>4. ASSUME NEW o \in 1 .. n + 1, NEW j \in 1 .. Len(ns[o].members)
      PROVE  MemberApart(ns, h, o, j)
  <2>1. o # n + 1
    BY <1>2
  <2>2. o \in 1 .. n /\ ns[o] = ms[o]
    BY <1>2, <1>3, <2>1
  <2>3. MemberApart(ms, k, o, j)
    BY <1>1, <2>2 DEF MembersApart
  <2>4. ms[o].members[j] \in 1 .. n
    BY <1>1, <2>2 DEF ObjectsAre, ObjectIs
  <2>5. IsEntry(h, ms[o].members[j]) <=> IsEntry(k, ms[o].members[j])
    BY <1>1, <2>4 DEF SameEntries
  <2>6. ASSUME NEW q \in 1 .. n + 1, NEW i \in 1 .. Len(ns[q].members)
        PROVE  q \in 1 .. n /\ ns[q].members[i] = ms[q].members[i] /\ i \in 1 .. Len(ms[q].members)
    <3>1. q # n + 1
      BY <1>2, <2>6
    <3>2. QED
      BY <1>2, <1>3, <2>6, <3>1
  <2>7. CASE MembersOf(ms[o].of)[j].asReference
    BY <2>2, <2>3, <2>5, <2>7 DEF MemberApart, Tracked
  <2>8. CASE ~MembersOf(ms[o].of)[j].asReference
    <3>1. /\ Private(k, ms[o].members[j])
          /\ \A q \in 1 .. n : \A i \in 1 .. Len(ms[q].members) :
               ms[q].members[i] = ms[o].members[j] => q = o /\ i = j
      BY <1>1, <2>3, <2>8 DEF MemberApart
    <3>2. Private(h, ns[o].members[j])
      BY <2>2, <2>5, <3>1 DEF Private
    <3>3. ASSUME NEW q \in 1 .. n + 1, NEW i \in 1 .. Len(ns[q].members),
                 ns[q].members[i] = ns[o].members[j]
          PROVE  q = o /\ i = j
      <4>1. /\ q \in 1 .. n /\ ns[q].members[i] = ms[q].members[i]
            /\ i \in 1 .. Len(ms[q].members)
        BY <2>6
      <4>2. ms[q].members[i] = ms[o].members[j]
        BY <2>2, <3>3, <4>1
      <4>3. QED
        BY <3>1, <4>1, <4>2
    <3>4. QED
      BY <1>2, <2>2, <2>8, <3>2, <3>3 DEF MemberApart
  <2>9. QED
    BY <2>7, <2>8
<1>5. QED
  BY <1>2, <1>4 DEF MembersApart

LEMMA ApartJoined ==
  ASSUME graph \in Graphs, NEW ms, ObjectsAre(ms), NEW o, NEW x, NEW member,
         Joins(ms, o, x, member), NEW ns, ns = Joined(ms, o, x),
         NEW k, MembersApart(ms, k),
         IF member.asReference THEN Tracked(k, x, member.to)
         ELSE Private(k, x) /\ ~Attached(ms, x)
  PROVE  MembersApart(ns, k)
<1>1. PICK n \in Nat : n = Len(ms)
  BY DEF ObjectsAre
<1>2. o \in 1 .. n /\ x \in 1 .. n
  BY <1>1 DEF Joins
<1>3. PICK s \in Nat : s = Len(ms[o].members)
  BY JoinedOn
<1>4. /\ Len(ns) = n
      /\ \A q \in 1 .. n : ns[q].of = ms[q].of /\ (q # o => ns[q] = ms[q])
      /\ Len(ns[o].members) = s + 1 /\ ns[o].members[s + 1] = x
      /\ \A q \in 1 .. n : \A i \in 1 .. Len(ms[q].members) :
           ns[q].members[i] = ms[q].members[i]
  BY <1>1, <1>3, JoinedOn
<1>5. \A i \in 1 .. s + 1 : i = s + 1 \/ i \in 1 .. s
  BY <1>3
<1>6. ASSUME NEW q \in 1 .. n, NEW i \in 1 .. Len(ns[q].members)
      PROVE  \/ q = o /\ i = s + 1
             \/ i \in 1 .. Len(ms[q].members)
  <2>1. CASE q # o
    BY <1>4, <2>1
  <2>2. CASE q = o
    BY <1>3, <1>4, <1>5, <2>2
  <2>3. QED
    BY <2>1, <2>2
<1>7. member = MembersOf(ms[o].of)[s + 1]
  BY <1>3 DEF Joins
<1>8. Private(k, x) => x # 1 /\ ~IsEntry(k, x)
  BY DEF Private
<1>9. ASSUME NEW q \in 1 .. n, NEW i \in 1 .. Len(ns[q].members)
      PROVE  MemberApart(ns, k, q, i)
  <2>1. CASE q = o /\ i = s + 1
    <3>1. ns[q].members[i] = x /\ MembersOf(ns[q].of)[i] = member
      BY <1>2, <1>4, <1>7, <2>1
    <3>2. CASE member.asReference
      BY <3>1, <3>2 DEF MemberApart
    <3>3. CASE ~member.asReference
      <4>1. ASSUME NEW p \in 1 .. n, NEW j \in 1 .. Len(ns[p].members), ns[p].members[j] = x
            PROVE  p = q /\ j = i
        <5>1. CASE p = o /\ j = s + 1
          BY <2>1, <5>1
        <5>2. CASE j \in 1 .. Len(ms[p].members)
          <6>1. ms[p].members[j] = x
            BY <1>4, <4>1, <5>2
          <6>2. Attached(ms, x)
            BY <1>1, <5>2, <6>1 DEF Attached
          <6>3. QED
            BY <3>3, <6>2
        <5>3. QED
          BY <1>6, <5>1, <5>2
      <4>2. QED
        BY <1>4, <3>1, <3>3, <4>1 DEF MemberApart
    <3>4. QED
      BY <3>2, <3>3
  <2>2. CASE i \in 1 .. Len(ms[q].members)
    <3>1. PICK y : y = ms[q].members[i]
      OBVIOUS
    <3>2. /\ MemberApart(ms, k, q, i) /\ ns[q].members[i] = y
          /\ MembersOf(ns[q].of)[i] = MembersOf(ms[q].of)[i]
      BY <1>1, <1>4, <2>2, <3>1 DEF MembersApart
    <3>3. CASE MembersOf(ms[q].of)[i].asReference
      BY <3>1, <3>2, <3>3 DEF MemberApart
    <3>4. CASE ~MembersOf(ms[q].of)[i].asReference
      <4>1. /\ Private(k, y)
            /\ \A p \in 1 .. n : \A j \in 1 .. Len(ms[p].members) :
                 ms[p].members[j] = y => p = q /\ j = i
        BY <1>1, <3>1, <3>2, <3>4 DEF MemberApart
      <4>2. y # x
        <5>1. SUFFICES ASSUME y = x PROVE FALSE
          OBVIOUS
        <5>2. Attached(ms, x)
          BY <1>1, <2>2, <3>1, <5>1 DEF Attached
        <5>3. Tracked(k, x, member.to)
          BY <5>2
        <5>4. x = 1 \/ IsEntry(k, x)
          BY <5>3 DEF Tracked
        <5>5. QED
          BY <4>1, <5>1, <5>4 DEF Private
      <4>3. ASSUME NEW p \in 1 .. n, NEW j \in 1 .. Len(ns[p].members), ns[p].members[j] = y
            PROVE  p = q /\ j = i
        <5>1. CASE p = o /\ j = s + 1
          BY <1>4, <4>2, <4>3, <5>1
        <5>2. CASE j \in 1 .. Len(ms[p].members)
          BY <1>4, <4>1, <4>3, <5>2
        <5>3. QED
          BY <1>6, <5>1, <5>2
      <4>4. QED
        BY <1>4, <3>2, <3>4, <4>1, <4>3 DEF MemberApart
    <3>5. QED
      BY <3>3, <3>4
  <2>3. QED
    BY <1>6, <2>1, <2>2
<1>10. QED
  BY <1>4, <1>9 DEF MembersApart

-----------------------------------------------------------------------------
(* The reader's cache, when keys are set.                                  *)

Lists == /\ keyed \in Seq(Entries) /\ Distinct(keyed)
         /\ (rooted => ~Contains(keyed, Entry(graph.root)))

\* Objects stay what they are.
Kept(ms, ns) == Len(ms) <= Len(ns) /\ \A o \in 1 .. Len(ms) : ns[o].of = ms[o].of

LEMMA CacheKept ==
  ASSUME NEW k, NEW ms \in Seq(Made), NEW ns \in Seq(Made), CacheIs(k, ms), Kept(ms, ns)
  PROVE  CacheIs(k, ns)
<1>1. ASSUME NEW i \in 1 .. Len(k), keyed[i][1] # "type"
      PROVE  \E o \in 1 .. Len(ns) : k[i] = Entry(o) /\ keyed[i] = Entry(ns[o].of)
  <2>1. PICK o \in 1 .. Len(ms) : k[i] = Entry(o) /\ keyed[i] = Entry(ms[o].of)
    BY <1>1 DEF CacheIs
  <2>2. o \in 1 .. Len(ns) /\ ns[o].of = ms[o].of
    <3>1. Len(ms) \in Nat /\ Len(ns) \in Nat
      OBVIOUS
    <3>2. QED
      BY <3>1 DEF Kept
  <2>3. QED
    BY <2>1, <2>2
<1>2. QED
  BY <1>1 DEF CacheIs

LEMMA EntryIs ==
  ASSUME NEW k, NEW ms, CacheIs(k, ms), NEW x, IsEntry(k, x)
  PROVE  x \in 1 .. Len(ms) /\ \E i \in 1 .. Len(k) : k[i] = Entry(x) /\ keyed[i] = Entry(ms[x].of)
<1>1. PICK i \in 1 .. Len(k) : k[i] = Entry(x)
  BY DEF IsEntry
<1>2. k[i][1] = "object"
  BY <1>1 DEF Entry
<1>3. keyed[i][1] # "type"
  BY <1>2 DEF CacheIs
<1>4. PICK o \in 1 .. Len(ms) : k[i] = Entry(o) /\ keyed[i] = Entry(ms[o].of)
  BY <1>3 DEF CacheIs
<1>5. o = x
  BY <1>1, <1>4 DEF Entry
<1>6. QED
  BY <1>1, <1>4, <1>5

LEMMA CachedObject ==
  ASSUME Lists, NEW k, NEW ms \in Seq(Made), CacheIs(k, ms), NEW ns \in Seq(Made), Kept(ms, ns),
         Len(ns) = Len(ms) + 1, NEW key, HasKey(keyed, key, Entry(ns[Len(ns)].of)),
         CanSet(k, key, Entry(Len(ns))), NEW h, h = WithKey(k, key, Entry(Len(ns)))
  PROVE  /\ CacheIs(h, ns) /\ IsEntry(h, Len(ns)) /\ SameEntries(k, h, Len(ms))
         /\ h = Append(k, Entry(Len(ns)))
<1>1. PICK new \in Nat : new = Len(ns) /\ new = Len(ms) + 1 /\ new \in 1 .. Len(ns)
  OBVIOUS
<1>2. PICK n \in Nat : n = Len(k) /\ k \in Seq(Keys)
  BY DEF CacheIs
<1>3. key \in 1 .. Len(keyed) /\ keyed[key] = Entry(ns[new].of) /\ Len(keyed) \in Nat
  BY <1>1 DEF HasKey, Lists
<1>4. ~IsEntry(k, new)
  <2>1. ~(new \in 1 .. Len(ms))
    BY <1>1
  <2>2. QED
    BY <2>1, EntryIs
<1>5. key = n + 1
  <2>1. SUFFICES ASSUME key <= n PROVE FALSE
    BY <1>1, <1>2, <1>3 DEF CanSet
  <2>2. key \in 1 .. n /\ k[key] = Entry(new)
    BY <1>1, <1>2, <1>3, <2>1 DEF CanSet
  <2>3. QED
    BY <1>2, <1>4, <2>2 DEF IsEntry
<1>6. h = Append(k, Entry(new))
  BY <1>1, <1>2, <1>5 DEF WithKey
<1>7. PICK e \in Keys : e = Entry(new)
  BY DEF Entry, Keys
<1>8. /\ h \in Seq(Keys) /\ Len(h) = n + 1 /\ h[n + 1] = Entry(new)
      /\ \A i \in 1 .. n : h[i] = k[i]
  <2>1. k \in Seq(Keys) /\ e \in Keys /\ n = Len(k) /\ h = Append(k, e)
    BY <1>2, <1>6, <1>7
  <2>2. h \in Seq(Keys) /\ Len(h) = n + 1 /\ h[n + 1] = e /\ \A i \in 1 .. n : h[i] = k[i]
    BY ONLY <2>1
  <2>3. QED
    BY <1>7, <2>2
<1>9. \A i \in 1 .. n + 1 : i = n + 1 \/ i \in 1 .. n
  BY <1>2
<1>10. CacheIs(k, ns)
  BY CacheKept
<1>11. CacheIs(h, ns)
  <2>1. Len(h) <= Len(keyed)
    BY <1>3, <1>5, <1>8
  <2>2. ASSUME NEW i \in 1 .. n + 1
        PROVE  IF keyed[i][1] = "type" THEN h[i] = keyed[i]
               ELSE \E o \in 1 .. Len(ns) : h[i] = Entry(o) /\ keyed[i] = Entry(ns[o].of)
    <3>1. CASE i = n + 1
      <4>1. keyed[i][1] = "object"
        BY <1>3, <1>5, <3>1 DEF Entry
      <4>2. QED
        BY <1>1, <1>3, <1>5, <1>8, <3>1, <4>1
    <3>2. CASE i \in 1 .. n
      BY <1>2, <1>8, <1>10, <3>2 DEF CacheIs
    <3>3. QED
      BY <1>9, <3>1, <3>2
  <2>3. QED
    BY <1>8, <2>1, <2>2 DEF CacheIs
<1>12. IsEntry(h, new)
  <2>1. n + 1 \in 1 .. Len(h)
    BY <1>2, <1>8
  <2>2. QED
    BY <1>8, <2>1 DEF IsEntry
<1>13. ASSUME NEW x \in 1 .. Len(ms) PROVE IsEntry(h, x) <=> IsEntry(k, x)
  <2>1. x # new
    BY <1>1
  <2>2. Entry(x) # Entry(new)
    BY <2>1 DEF Entry
  <2>3. ASSUME IsEntry(h, x) PROVE IsEntry(k, x)
    <3>1. PICK i \in 1 .. n + 1 : h[i] = Entry(x)
      BY <1>8, <2>3 DEF IsEntry
    <3>2. i \in 1 .. n
      BY <1>8, <1>9, <2>2, <3>1
    <3>3. QED
      BY <1>2, <1>8, <3>1, <3>2 DEF IsEntry
  <2>4. ASSUME IsEntry(k, x) PROVE IsEntry(h, x)
    <3>1. PICK i \in 1 .. n : k[i] = Entry(x)
      BY <1>2, <2>4 DEF IsEntry
    <3>2. i \in 1 .. Len(h) /\ h[i] = Entry(x)
      BY <1>8, <3>1
    <3>3. QED
      BY <3>2 DEF IsEntry
  <2>5. QED
    BY <2>3, <2>4
<1>14. QED
  BY <1>1, <1>6, <1>11, <1>12, <1>13 DEF SameEntries

LEMMA CachedType ==
  ASSUME Lists, NEW k, NEW ms \in Seq(Made), CacheIs(k, ms), NEW type \in Nat,
         NEW key, HasKey(keyed, key, TypeEntry(type)),
         CanSet(k, key, TypeEntry(type)), NEW h, h = WithKey(k, key, TypeEntry(type))
  PROVE  /\ CacheIs(h, ms) /\ \A x : IsEntry(h, x) <=> IsEntry(k, x)
         /\ key = Len(k) + 1 => h = Append(k, TypeEntry(type))
<1>1. PICK n \in Nat : n = Len(k) /\ k \in Seq(Keys)
  BY DEF CacheIs
<1>2. key \in 1 .. Len(keyed) /\ keyed[key] = TypeEntry(type) /\ Len(keyed) \in Nat
  BY DEF HasKey, Lists
<1>3. CASE key <= n
  BY <1>1, <1>3 DEF WithKey
<1>4. CASE ~(key <= n)
  <2>1. key = n + 1
    BY <1>1, <1>4 DEF CanSet
  <2>2. h = Append(k, TypeEntry(type))
    BY <1>1, <2>1 DEF WithKey
  <2>3. TypeEntry(type) \in Keys
    BY DEF TypeEntry, Keys
  <2>4. /\ h \in Seq(Keys) /\ Len(h) = n + 1 /\ h[n + 1] = TypeEntry(type)
        /\ \A i \in 1 .. n : h[i] = k[i]
    BY <1>1, <2>2, <2>3
  <2>5. \A i \in 1 .. n + 1 : i = n + 1 \/ i \in 1 .. n
    BY <1>1
  <2>6. CacheIs(h, ms)
    <3>1. Len(h) <= Len(keyed)
      BY <1>2, <2>1, <2>4
    <3>2. ASSUME NEW i \in 1 .. n + 1
          PROVE  IF keyed[i][1] = "type" THEN h[i] = keyed[i]
                 ELSE \E o \in 1 .. Len(ms) : h[i] = Entry(o) /\ keyed[i] = Entry(ms[o].of)
      <4>1. CASE i = n + 1
        <5>1. keyed[i][1] = "type"
          BY <1>2, <2>1, <4>1 DEF TypeEntry
        <5>2. QED
          BY <1>2, <2>1, <2>4, <4>1, <5>1
      <4>2. CASE i \in 1 .. n
        BY <1>1, <2>4, <4>2 DEF CacheIs
      <4>3. QED
        BY <2>5, <4>1, <4>2
    <3>3. QED
      BY <2>4, <3>1, <3>2 DEF CacheIs
  <2>7. ASSUME NEW x PROVE IsEntry(h, x) <=> IsEntry(k, x)
    <3>1. Entry(x) # TypeEntry(type)
      BY DEF Entry, TypeEntry
    <3>2. ASSUME IsEntry(h, x) PROVE IsEntry(k, x)
      <4>1. PICK i \in 1 .. n + 1 : h[i] = Entry(x)
        BY <2>4, <3>2 DEF IsEntry
      <4>2. i \in 1 .. n
        BY <2>4, <2>5, <3>1, <4>1
      <4>3. QED
        BY <1>1, <2>4, <4>1, <4>2 DEF IsEntry
    <3>3. ASSUME IsEntry(k, x) PROVE IsEntry(h, x)
      <4>1. PICK i \in 1 .. n : k[i] = Entry(x)
        BY <1>1, <3>3 DEF IsEntry
      <4>2. i \in 1 .. Len(h) /\ h[i] = Entry(x)
        BY <2>4, <4>1
      <4>3. QED
        BY <4>2 DEF IsEntry
    <3>4. QED
      BY <3>2, <3>3
  <2>8. QED
    BY <2>2, <2>6, <2>7
<1>5. QED
  BY <1>3, <1>4

-----------------------------------------------------------------------------
(* The reader's frames, when they stay, and when one comes, goes on and    *)
(* returns.                                                                *)

LEMMA KeyStays ==
  ASSUME NEW l \in Seq(Entries), NEW m \in Seq(Entries), Within(l, m), NEW key, NEW value,
         HasKey(l, key, value)
  PROVE  HasKey(m, key, value)
<1>1. key \in 1 .. Len(l) /\ l[key] = value /\ Len(l) \in Nat /\ Len(m) \in Nat
  BY DEF HasKey
<1>2. m[key] = l[key] /\ Len(l) <= Len(m)
  BY <1>1 DEF Within
<1>3. QED
  BY <1>1, <1>2 DEF HasKey

SameMembers(f, e, ms, ns) ==
  e.call = "Read" => Len(ns[f.object].members) = Len(ms[f.object].members)

LEMMA FrameStays ==
  ASSUME NEW f, NEW e, NEW l \in Seq(Entries), NEW m \in Seq(Entries), Within(l, m),
         NEW ms \in Seq(Made), NEW ns \in Seq(Made), Kept(ms, ns), FrameIs(f, e, l, ms),
         SameMembers(f, e, ms, ns)
  PROVE  FrameIs(f, e, m, ns)
<1>1. Len(ms) \in Nat /\ Len(ns) \in Nat
  OBVIOUS
<1>2. \A o \in 1 .. Len(ms) : o \in 1 .. Len(ns) /\ ns[o].of = ms[o].of
  BY <1>1 DEF Kept
<1>3. HasObjectKey(f, e, l) => HasObjectKey(f, e, m)
  BY KeyStays DEF HasObjectKey
<1>4. HasTypeKey(f, e, l) => HasTypeKey(f, e, m)
  BY KeyStays DEF HasTypeKey
<1>5. QED
  BY <1>2, <1>3, <1>4 DEF FrameIs, SameMembers

\* The object of a call that will give it has been made.
LEMMA GivenIsMade ==
  ASSUME NEW c, NEW l, NEW r, NEW ms, FramesAre(c, l, r, ms), NEW i \in 1 .. Len(c), Gives(c, i)
  PROVE  r[i].object \in 1 .. Len(ms)
BY DEF Gives, FramesAre, FrameIs

Alike(e, f) == /\ e.call = f.call
               /\ e.call = "ReadNetObject" =>
                    e.member = f.member /\ (e.stage = "full" <=> f.stage = "full")

AllAlike(d, c, q, r, n) == \A j \in 1 .. n : Alike(d[j], c[j]) /\ q[j].object = r[j].object

\* What a call gives is an entry, and a member, no more than it was.
StillApart(c, r, i, ms, ns, k, h) ==
  Gives(c, i) => /\ IsEntry(h, r[i].object) <=> IsEntry(k, r[i].object)
                 /\ ~Shared(c, i) /\ Attached(ns, r[i].object) => Attached(ms, r[i].object)

LEMMA ApartStays ==
  ASSUME NEW c, NEW r, NEW ms, NEW k, NEW n \in Nat, NEW i \in 1 .. n, ApartAt(c, r, ms, k, i),
         NEW d, NEW q, AllAlike(d, c, q, r, n),
         NEW ns, NEW h, StillApart(c, r, i, ms, ns, k, h)
  PROVE  ApartAt(d, q, ns, h, i)
<1>1. \A j \in 1 .. i : j \in 1 .. n /\ Alike(d[j], c[j]) /\ q[j].object = r[j].object
  BY DEF AllAlike
<1>2. \A j \in 1 .. i : j > 1 => j - 1 \in 1 .. i
  OBVIOUS
<1>3. \A j \in 1 .. i : (Gives(d, j) <=> Gives(c, j)) /\ d[j].call = c[j].call
  BY <1>1, <1>2 DEF Gives, Alike
<1>4. Gives(c, i) => (Shared(d, i) <=> Shared(c, i))
  BY <1>1 DEF Shared, Alike
<1>5. Shared(c, i) => d[i].member = c[i].member
  BY <1>1 DEF Shared, Alike
<1>6. i \in 1 .. i /\ \A j \in 1 .. i - 1 : j \in 1 .. i
  OBVIOUS
<1>7. d[i].call = c[i].call /\ q[i].object = r[i].object /\ (Gives(d, i) <=> Gives(c, i))
  BY <1>1, <1>3, <1>6
<1>8. c[i].call = "Read" =>
        \A j \in 1 .. i - 1 : d[j].call = "Read" => q[j].object # q[i].object
  BY <1>1, <1>3, <1>6, <1>7 DEF ApartAt
<1>9. d[i].call = "Read" /\ i > 1 /\ d[i - 1].call = "ReadNetObject" =>
        q[i].object = q[i - 1].object
  <2>1. SUFFICES ASSUME d[i].call = "Read", i > 1, d[i - 1].call = "ReadNetObject"
                 PROVE  q[i].object = q[i - 1].object
    OBVIOUS
  <2>2. i - 1 \in 1 .. i
    BY <2>1
  <2>3. c[i - 1].call = "ReadNetObject" /\ q[i - 1].object = r[i - 1].object
    BY <1>1, <1>3, <2>1, <2>2
  <2>4. QED
    BY <1>7, <2>1, <2>3 DEF ApartAt
<1>10. Gives(d, i) /\ Shared(d, i) => Tracked(h, q[i].object, d[i].member.to)
  BY <1>4, <1>5, <1>7 DEF ApartAt, Tracked, StillApart
<1>11. Gives(d, i) /\ ~Shared(d, i) =>
         /\ Private(h, q[i].object) /\ ~Attached(ns, q[i].object)
         /\ \A j \in 1 .. i - 1 :
              Gives(d, j) \/ d[j].call = "Read" => q[j].object # q[i].object
  <2>1. SUFFICES ASSUME Gives(d, i), ~Shared(d, i)
                 PROVE  /\ Private(h, q[i].object) /\ ~Attached(ns, q[i].object)
                        /\ \A j \in 1 .. i - 1 :
                             Gives(d, j) \/ d[j].call = "Read" => q[j].object # q[i].object
    OBVIOUS
  <2>2. Gives(c, i) /\ ~Shared(c, i)
    BY <1>4, <1>7, <2>1
  <2>3. /\ Private(k, r[i].object) /\ ~Attached(ms, r[i].object)
        /\ \A j \in 1 .. i - 1 :
             Gives(c, j) \/ c[j].call = "Read" => r[j].object # r[i].object
    BY <2>2 DEF ApartAt
  <2>4. Private(h, q[i].object) /\ ~Attached(ns, q[i].object)
    BY <1>7, <2>2, <2>3 DEF Private, StillApart
  <2>5. QED
    BY <1>1, <1>3, <1>6, <1>7, <2>3, <2>4
<1>12. QED
  BY <1>7, <1>8, <1>9, <1>10, <1>11 DEF ApartAt

LEMMA FramesStay ==
  ASSUME NEW c \in Seq(Calls), NEW l \in Seq(Entries), NEW r, NEW ms \in Seq(Made), NEW k,
         FramesAre(c, l, r, ms), CallsApart(c, r, ms, k),
         NEW m \in Seq(Entries), Within(l, m), NEW ns \in Seq(Made), Kept(ms, ns),
         \A o \in 1 .. Len(ms) : Len(ns[o].members) = Len(ms[o].members),
         \A x : Attached(ns, x) => Attached(ms, x),
         NEW h, SameEntries(k, h, Len(ms))
  PROVE  FramesAre(c, m, r, ns) /\ CallsApart(c, r, ns, h)
<1>1. ASSUME NEW i \in 1 .. Len(c) PROVE FrameIs(r[i], c[i], m, ns)
  <2>1. FrameIs(r[i], c[i], l, ms)
    BY DEF FramesAre
  <2>2. c[i].call = "Read" => r[i].object \in 1 .. Len(ms)
    BY <2>1 DEF FrameIs
  <2>3. SameMembers(r[i], c[i], ms, ns)
    BY <2>2 DEF SameMembers
  <2>4. QED
    BY <2>1, <2>3, FrameStays
<1>2. ASSUME NEW i \in 1 .. Len(c) PROVE ApartAt(c, r, ns, h, i)
  <2>1. ApartAt(c, r, ms, k, i) /\ Len(c) \in Nat
    BY DEF CallsApart
  <2>2. Gives(c, i) => r[i].object \in 1 .. Len(ms)
    BY GivenIsMade
  <2>3. Gives(c, i) => (IsEntry(h, r[i].object) <=> IsEntry(k, r[i].object))
    BY <2>2 DEF SameEntries
  <2>4. AllAlike(c, c, r, r, Len(c))
    BY DEF Alike, AllAlike
  <2>5. StillApart(c, r, i, ms, ns, k, h)
    BY <2>3 DEF StillApart
  <2>6. QED
    BY <2>1, <2>4, <2>5, ApartStays
<1>3. QED
  BY <1>1, <1>2 DEF FramesAre, CallsApart

LEMMA FramePushed ==
  ASSUME NEW c \in Seq(Calls), NEW l, NEW r, NEW ms, NEW k,
         FramesAre(c, l, r, ms), CallsApart(c, r, ms, k),
         NEW e \in Calls, NEW f \in Frames, FrameIs(f, e, l, ms),
         NEW d, d = Append(c, e), NEW q, q = Append(r, f),
         ApartAt(d, q, ms, k, Len(c) + 1)
  PROVE  FramesAre(d, l, q, ms) /\ CallsApart(d, q, ms, k)
<1>1. PICK n \in Nat : n = Len(c) /\ r \in Seq(Frames) /\ Len(r) = n
  BY DEF FramesAre
<1>2. /\ Len(d) = n + 1 /\ d[n + 1] = e /\ \A i \in 1 .. n : d[i] = c[i]
      /\ q \in Seq(Frames) /\ Len(q) = n + 1 /\ q[n + 1] = f /\ \A i \in 1 .. n : q[i] = r[i]
  BY <1>1
<1>3. \A i \in 1 .. n + 1 : i = n + 1 \/ i \in 1 .. n
  BY <1>1
<1>4. ASSUME NEW i \in 1 .. n PROVE ApartAt(d, q, ms, k, i)
  <2>1. ApartAt(c, r, ms, k, i)
    BY <1>1 DEF CallsApart
  <2>2. AllAlike(d, c, q, r, n)
    BY <1>2 DEF Alike, AllAlike
  <2>3. StillApart(c, r, i, ms, ms, k, k)
    BY DEF StillApart
  <2>4. QED
    BY <1>1, <2>1, <2>2, <2>3, ApartStays
<1>5. \A i \in 1 .. n : FrameIs(q[i], d[i], l, ms)
  BY <1>1, <1>2 DEF FramesAre
<1>6. \A i \in 1 .. n + 1 : FrameIs(q[i], d[i], l, ms) /\ ApartAt(d, q, ms, k, i)
  BY <1>1, <1>2, <1>3, <1>4, <1>5
<1>7. QED
  BY <1>2, <1>6 DEF FramesAre, CallsApart

LEMMA FrameEdited ==
  ASSUME NEW c \in Seq(Calls), c # <<>>, NEW l, NEW r, NEW ms, NEW k,
         FramesAre(c, l, r, ms), CallsApart(c, r, ms, k),
         NEW e \in Calls, NEW f \in Frames, FrameIs(f, e, l, ms),
         NEW d, d = [c EXCEPT ![Len(c)] = e], NEW q, q = [r EXCEPT ![Len(c)] = f],
         ApartAt(d, q, ms, k, Len(c))
  PROVE  FramesAre(d, l, q, ms) /\ CallsApart(d, q, ms, k)
<1>1. PICK n \in Nat \ {0} : n = Len(c) /\ r \in Seq(Frames) /\ Len(r) = n
  BY TopIs DEF FramesAre
<1>2. /\ Len(d) = n /\ d[n] = e /\ \A i \in 1 .. n - 1 : d[i] = c[i]
      /\ q \in Seq(Frames) /\ Len(q) = n /\ q[n] = f /\ \A i \in 1 .. n - 1 : q[i] = r[i]
  BY <1>1
<1>3. n - 1 \in Nat /\ \A i \in 1 .. n : i = n \/ i \in 1 .. n - 1
  BY <1>1
<1>4. ASSUME NEW i \in 1 .. n - 1 PROVE ApartAt(d, q, ms, k, i)
  <2>1. ApartAt(c, r, ms, k, i)
    BY <1>1 DEF CallsApart
  <2>2. AllAlike(d, c, q, r, n - 1)
    BY <1>2 DEF Alike, AllAlike
  <2>3. StillApart(c, r, i, ms, ms, k, k)
    BY DEF StillApart
  <2>4. QED
    BY <1>3, <2>1, <2>2, <2>3, ApartStays
<1>5. \A i \in 1 .. n - 1 : FrameIs(q[i], d[i], l, ms)
  BY <1>1, <1>2 DEF FramesAre
<1>6. \A i \in 1 .. n : FrameIs(q[i], d[i], l, ms) /\ ApartAt(d, q, ms, k, i)
  BY <1>1, <1>2, <1>3, <1>4, <1>5
<1>7. QED
  BY <1>1, <1>2, <1>6 DEF FramesAre, CallsApart

LEMMA FrontIs ==
  ASSUME NEW S, NEW s \in Seq(S), NEW n \in Nat, Len(s) = n + 1
  PROVE  /\ Front(s) \in Seq(S) /\ Len(Front(s)) = n
         /\ \A i \in 1 .. n : Front(s)[i] = s[i]
<1>1. \A i \in 1 .. n : s[i] \in S
  BY ElementOfSeq
<1>2. /\ SubSeq(s, 1, n) \in Seq(S)
      /\ Len(SubSeq(s, 1, n)) = IF 1 <= n THEN n - 1 + 1 ELSE 0
      /\ \A i \in 1 .. n - 1 + 1 : SubSeq(s, 1, n)[i] = s[1 + i - 1]
  BY <1>1, SubSeqProperties
<1>3. Len(s) - 1 = n
  OBVIOUS
<1>4. Front(s) = SubSeq(s, 1, n)
  BY <1>3 DEF Front
<1>5. QED
  BY <1>2, <1>4

LEMMA FramePopped ==
  ASSUME NEW c \in Seq(Calls), c # <<>>, NEW l, NEW r, NEW ms, NEW k,
         FramesAre(c, l, r, ms), CallsApart(c, r, ms, k),
         NEW d, d = Front(c), NEW q, q = Front(r)
  PROVE  /\ FramesAre(d, l, q, ms) /\ CallsApart(d, q, ms, k)
         /\ Len(d) = Len(c) - 1 /\ \A i \in 1 .. Len(c) - 1 : q[i] = r[i] /\ d[i] = c[i]
<1>1. PICK n \in Nat : n + 1 = Len(c) /\ r \in Seq(Frames) /\ Len(r) = n + 1
  <2>1. Len(c) \in Nat \ {0} /\ r \in Seq(Frames) /\ Len(r) = Len(c)
    BY TopIs DEF FramesAre
  <2>2. Len(c) - 1 \in Nat /\ (Len(c) - 1) + 1 = Len(c)
    BY <2>1
  <2>3. QED
    BY <2>1, <2>2
<1>2. /\ d \in Seq(Calls) /\ Len(d) = n /\ \A i \in 1 .. n : d[i] = c[i]
      /\ q \in Seq(Frames) /\ Len(q) = n /\ \A i \in 1 .. n : q[i] = r[i]
  <2>1. d \in Seq(Calls) /\ Len(d) = n /\ \A i \in 1 .. n : d[i] = c[i]
    BY <1>1, FrontIs
  <2>2. q \in Seq(Frames) /\ Len(q) = n /\ \A i \in 1 .. n : q[i] = r[i]
    BY <1>1, FrontIs
  <2>3. QED
    BY <2>1, <2>2
<1>3. \A i \in 1 .. n : i \in 1 .. Len(c)
  BY <1>1
<1>4. ASSUME NEW i \in 1 .. n PROVE ApartAt(d, q, ms, k, i)
  <2>1. ApartAt(c, r, ms, k, i)
    BY <1>3 DEF CallsApart
  <2>2. AllAlike(d, c, q, r, n)
    BY <1>2 DEF Alike, AllAlike
  <2>3. StillApart(c, r, i, ms, ms, k, k)
    BY DEF StillApart
  <2>4. QED
    BY <1>1, <2>1, <2>2, <2>3, ApartStays
<1>5. \A i \in 1 .. n : FrameIs(q[i], d[i], l, ms)
  BY <1>2, <1>3 DEF FramesAre
<1>6. n = Len(c) - 1
  BY <1>1
<1>7. QED
  BY <1>2, <1>4, <1>5, <1>6 DEF FramesAre, CallsApart

\* The call on top gets a member.
LEMMA FrameMoved ==
  ASSUME graph \in Graphs, NEW c \in Seq(Calls), c # <<>>, AtMemberOf(Last(c)),
         NEW l \in Seq(Entries), NEW r, NEW ms, NEW k,
         ObjectsAre(ms), FramesAre(c, l, r, ms), CallsApart(c, r, ms, k),
         NEW x, Joins(ms, Last(r).object, x, MemberAt(Last(c))),
         NEW ns, ns = Joined(ms, Last(r).object, x),
         \A i \in 1 .. Len(c) : Gives(c, i) /\ ~Shared(c, i) => r[i].object # x,
         NEW d, d = Moved(c)
  PROVE  FramesAre(d, l, r, ns) /\ CallsApart(d, r, ns, k)
<1>1. PICK n \in Nat \ {0} : n = Len(c) /\ r \in Seq(Frames) /\ Len(r) = n /\ Last(c) = c[n]
  BY TopIs DEF FramesAre
<1>2. n \in 1 .. n /\ Last(r) = r[n] /\ c[n] \in Calls
  BY <1>1, ElementOfSeq DEF Last
<1>3. c[n].call = "Read" /\ c[n].node \in Nodes /\ c[n].next \in Nat \ {0}
  BY <1>1, <1>2, MemberIs
<1>4. PICK o : o = r[n].object
  OBVIOUS
<1>5. /\ ObjectsAre(ns) /\ Len(ns) = Len(ms) /\ Len(ms) \in Nat
      /\ \A q \in 1 .. Len(ms) : ns[q].of = ms[q].of /\ (q # o => ns[q] = ms[q])
      /\ Len(ns[o].members) = Len(ms[o].members) + 1
      /\ \A y : Attached(ns, y) <=> Attached(ms, y) \/ y = x
  BY <1>1, <1>2, <1>4, JoinedOn
<1>6. Kept(ms, ns) /\ ms \in Seq(Made) /\ ns \in Seq(Made)
  BY <1>5 DEF Kept, ObjectsAre
<1>7. PICK e : e = R(c[n].node, c[n].next + 1)
  OBVIOUS
<1>8. e.call = "Read" /\ e.node = c[n].node /\ e.next = c[n].next + 1 /\ e \in Calls
  BY <1>3, <1>7, CallsAre
<1>9. d = [c EXCEPT ![n] = e]
  BY <1>1, <1>7 DEF Moved
<1>10. Len(d) = n /\ d[n] = e /\ \A i \in 1 .. n : i # n => d[i] = c[i]
  BY <1>1, <1>2, <1>8, <1>9
<1>11. \A i \in 1 .. n : FrameIs(r[i], c[i], l, ms) /\ ApartAt(c, r, ms, k, i)
  BY <1>1 DEF FramesAre, CallsApart
<1>12. ASSUME NEW i \in 1 .. n PROVE FrameIs(r[i], d[i], l, ns)
  <2>1. CASE i = n
    <3>1. o \in 1 .. Len(ms) /\ ms[o].of = c[n].node /\ Len(ms[o].members) = c[n].next - 1
      BY <1>2, <1>3, <1>4, <1>11 DEF FrameIs
    <3>2. o \in 1 .. Len(ns) /\ ns[o].of = e.node /\ Len(ns[o].members) = e.next - 1
      BY <1>3, <1>5, <1>8, <3>1
    <3>3. r[n].call = "Read"
      BY <1>2, <1>3, <1>11 DEF FrameIs
    <3>4. QED
      BY <1>4, <1>8, <1>10, <2>1, <3>2, <3>3 DEF FrameIs
  <2>2. CASE i # n
    <3>1. FrameIs(r[i], c[i], l, ms) /\ d[i] = c[i]
      BY <1>10, <1>11, <2>2
    <3>2. ASSUME c[i].call = "Read"
          PROVE  Len(ns[r[i].object].members) = Len(ms[r[i].object].members)
      <4>1. r[i].object \in 1 .. Len(ms)
        BY <3>1, <3>2 DEF FrameIs
      <4>2. i \in 1 .. n - 1
        BY <2>2
      <4>3. r[i].object # o
        BY <1>2, <1>3, <1>4, <1>11, <3>2, <4>2 DEF ApartAt
      <4>4. QED
        BY <1>5, <4>1, <4>3
    <3>3. Within(l, l)
      BY DEF Within
    <3>4. SameMembers(r[i], c[i], ms, ns)
      BY <3>2 DEF SameMembers
    <3>5. Kept(ms, ns) /\ ms \in Seq(Made) /\ ns \in Seq(Made) /\ FrameIs(r[i], c[i], l, ms)
      BY <1>6, <3>1
    <3>6. FrameIs(r[i], c[i], l, ns)
      BY <3>3, <3>4, <3>5, FrameStays
    <3>7. QED
      BY <3>1, <3>6
  <2>3. QED
    BY <2>1, <2>2
<1>13. AllAlike(d, c, r, r, n)
  BY <1>3, <1>8, <1>10 DEF Alike, AllAlike
<1>14. ASSUME NEW i \in 1 .. n PROVE ApartAt(d, r, ns, k, i)
  <2>1. StillApart(c, r, i, ms, ns, k, k)
    BY <1>1, <1>5 DEF StillApart
  <2>2. QED
    BY <1>11, <1>13, <2>1, ApartStays
<1>15. QED
  BY <1>1, <1>10, <1>12, <1>14 DEF FramesAre, CallsApart

-----------------------------------------------------------------------------
(* The reader follows the walk over one token.                             *)

LEMMA WalksByTag ==
  ASSUME NEW c, NEW l, NEW t, NEW d, NEW m, Walks(c, l, t, d, m)
  PROVE  /\ t.tag = "enter" => EnterRoot(c, l, t, d, m) \/ Enters(c, l, t, d, m)
         /\ t.tag = "text" => Texts(c, l, t, d, m)
         /\ t.tag = "start" => Starts(c, l, t, d, m)
         /\ t.tag = "existingObject" => ExistingObjects(c, l, t, d, m)
         /\ t.tag = "newObject" => NewObjects(c, l, t, d, m)
         /\ t.tag = "existingType" => ExistingTypes(c, l, t, d, m)
         /\ t.tag = "newType" => NewTypes(c, l, t, d, m)
         /\ t.tag = "typeName" => TypeNames(c, l, t, d, m)
         /\ t.tag = "object" => Objects(c, l, t, d, m)
         /\ t.tag = "leave" => Leaves(c, l, t, d, m)
         /\ t.tag = "end" => Ends(c, l, t, d, m)
         /\ t.tag # "enter" => c # <<>>
BY DEF Walks, EnterRoot, Enters, Texts, Starts, ExistingObjects, NewObjects, ExistingTypes,
       NewTypes, TypeNames, Objects, Leaves, Ends, InBundle, BeforeType, Untracked

\* The token t leads the walk from c and l to d and m.
Leads(c, l, t, d, m) ==
  /\ graph \in Graphs /\ Lists /\ Nested(c) /\ Nested(d)
  /\ l \in Seq(Entries) /\ m \in Seq(Entries) /\ Within(l, m) /\ Within(m, keyed)
  /\ Walks(c, l, t, d, m)

LEMMA LeadsIs ==
  ASSUME NEW c, NEW l, NEW t, NEW d, NEW m, Leads(c, l, t, d, m)
  PROVE  /\ graph \in Graphs /\ Lists /\ Nested(c) /\ Nested(d)
         /\ c \in Seq(Calls) /\ d \in Seq(Calls) /\ Len(c) \in Nat
         /\ l \in Seq(Entries) /\ m \in Seq(Entries) /\ Within(l, m)
         /\ \A key, value : HasKey(m, key, value) => HasKey(keyed, key, value)
         /\ \A key, value : HasKey(l, key, value) => HasKey(m, key, value)
         /\ Walks(c, l, t, d, m)
<1>1. \A key, value : HasKey(m, key, value) => HasKey(keyed, key, value)
  BY KeyStays DEF Leads, Lists
<1>2. \A key, value : HasKey(l, key, value) => HasKey(m, key, value)
  BY KeyStays DEF Leads
<1>3. QED
  BY <1>1, <1>2 DEF Leads, Nested

LEMMA FramesIs ==
  ASSUME NEW c \in Seq(Calls), c # <<>>, NEW l, NEW r, NEW ms, FramesAre(c, l, r, ms)
  PROVE  /\ Len(r) = Len(c) /\ Len(c) \in Nat \ {0} /\ Len(c) \in 1 .. Len(c)
         /\ Last(r) = r[Len(c)] /\ Last(r) \in Frames /\ Last(c) = c[Len(c)]
         /\ r # <<>> /\ FrameIs(Last(r), Last(c), l, ms)
<1>1. PICK n \in Nat \ {0} : n = Len(c) /\ n \in 1 .. n /\ Last(c) = c[n]
  BY TopIs
<1>2. r \in Seq(Frames) /\ Len(r) = n /\ FrameIs(r[n], c[n], l, ms)
  BY <1>1 DEF FramesAre
<1>3. r[n] \in Frames /\ r # <<>>
  BY <1>1, <1>2, ElementOfSeq
<1>4. QED
  BY <1>1, <1>2, <1>3 DEF Last

LEMMA FrameOn ==
  ASSUME NEW f \in Frames
  PROVE  /\ \A x \in Nat : LET g == [f EXCEPT !.object = x] IN
              /\ g \in Frames /\ g.call = f.call /\ g.object = x /\ g.type = f.type
              /\ g.newObjectKey = f.newObjectKey /\ g.newTypeKey = f.newTypeKey
         /\ \A x \in Nat : LET g == [f EXCEPT !.type = x] IN
              /\ g \in Frames /\ g.call = f.call /\ g.object = f.object /\ g.type = x
              /\ g.newObjectKey = f.newObjectKey /\ g.newTypeKey = f.newTypeKey
         /\ \A x \in Int : LET g == [f EXCEPT !.newObjectKey = x] IN
              /\ g \in Frames /\ g.call = f.call /\ g.object = f.object /\ g.type = f.type
              /\ g.newObjectKey = x /\ g.newTypeKey = f.newTypeKey
         /\ \A x \in Int : LET g == [f EXCEPT !.newTypeKey = x] IN
              /\ g \in Frames /\ g.call = f.call /\ g.object = f.object /\ g.type = f.type
              /\ g.newObjectKey = f.newObjectKey /\ g.newTypeKey = x
BY DEF Frames

LEMMA FillingIs ==
  ASSUME NEW x \in Nat
  PROVE  /\ Filling(x) \in Frames /\ Filling(x).call = "Read" /\ Filling(x).object = x
         /\ Filling(x).type = None
         /\ Filling(x).newObjectKey = NoKey /\ Filling(x).newTypeKey = NoKey
BY DEF Filling, Frames, None, NoKey

\* What the reader's calls become.
WithObject(r, x) == [r EXCEPT ![Len(r)].object = x]
WithObjectKey(r, key) == [r EXCEPT ![Len(r)].newObjectKey = key]
WithType(r, type) == [r EXCEPT ![Len(r)].type = type]
WithTypeKey(r, key) == [r EXCEPT ![Len(r)].newTypeKey = key]
Fill(r, x) == Append(r, Filling(x))
Bundling(type) == [Filling(None) EXCEPT !.call = "ReadNetObject", !.type = type]
ReadsNext(b, node, x, q) == IF IsString(node) THEN q = b ELSE q = Fill(b, x)
KnownType(m) == IF m.dynamicType THEN None ELSE graph.type[m.to]

\* What the key gives back; objects, the root's first.
Finds(k, key, x) ==
  IF key = 0 THEN x = 1 ELSE key \in DOMAIN k /\ k[key][1] = "object" /\ x = k[key][2]

\* The bundle may give the object x.
Giveable(c, r, ms, k, stage, x) ==
  stage = "full" =>
    IF Last(c).member.asReference THEN Tracked(k, x, Last(c).member.to)
    ELSE /\ Private(k, x) /\ ~Attached(ms, x)
         /\ \A j \in 1 .. Len(c) - 1 :
              Gives(c, j) \/ c[j].call = "Read" => r[j].object # x

\* The bundle on top goes on to another stage, with the frame f.
GoesOn(c, l, r, ms, k, m, stage, f, q) ==
  /\ c \in Seq(Calls) /\ c # <<>> /\ Last(c).call = "ReadNetObject"
  /\ l \in Seq(Entries) /\ m \in Seq(Entries) /\ Within(l, m)
  /\ stage \in Stages /\ f \in Frames /\ FrameIs(f, B(Last(c).member, stage), m, ms)
  /\ Giveable(c, r, ms, k, stage, f.object) /\ q = [r EXCEPT ![Len(c)] = f]

Edited(c, r, d, q, f) ==
  /\ d \in Seq(Calls) /\ Len(d) = Len(c) /\ Len(q) = Len(c) /\ Len(c) \in Nat \ {0}
  /\ q[Len(c)] = f /\ \A i \in 1 .. Len(c) - 1 : q[i] = r[i] /\ d[i] = c[i]

LEMMA FrameGoesOn ==
  ASSUME NEW c, NEW l, NEW r, NEW ms, NEW k,
         ObjectsAre(ms), FramesAre(c, l, r, ms), CallsApart(c, r, ms, k),
         NEW m, NEW stage, NEW f, NEW q, GoesOn(c, l, r, ms, k, m, stage, f, q)
  PROVE  /\ FramesAre(Staged(c, stage), m, q, ms) /\ CallsApart(Staged(c, stage), q, ms, k)
         /\ Edited(c, r, Staged(c, stage), q, f)
<1>1. PICK d : d = Staged(c, stage)
  OBVIOUS
<1>2. q = [r EXCEPT ![Len(c)] = f]
  BY DEF GoesOn
<1>3. /\ c \in Seq(Calls) /\ c # <<>> /\ Last(c).call = "ReadNetObject"
      /\ l \in Seq(Entries) /\ m \in Seq(Entries) /\ Within(l, m)
      /\ stage \in Stages /\ f \in Frames /\ FrameIs(f, B(Last(c).member, stage), m, ms)
      /\ Giveable(c, r, ms, k, stage, f.object)
  BY DEF GoesOn
<1>4. PICK n \in Nat \ {0} : /\ n = Len(c) /\ n \in 1 .. n /\ Last(c) = c[n]
                             /\ Last(c) \in Calls
  BY <1>3, TopIs
<1>5. PICK e : e = B(Last(c).member, stage)
  OBVIOUS
<1>6. e \in Calls /\ e.call = "ReadNetObject" /\ e.member = Last(c).member /\ e.stage = stage
  BY <1>4, <1>5, <1>3, CallIs, CallsAre
<1>7. d = [c EXCEPT ![Len(c)] = e]
  BY <1>5, <1>1 DEF Staged
<1>8. r \in Seq(Frames) /\ Len(r) = n /\ ms \in Seq(Made)
  BY <1>4 DEF FramesAre, ObjectsAre
<1>9. /\ d \in Seq(Calls) /\ Len(d) = n /\ d[n] = e /\ \A i \in 1 .. n - 1 : d[i] = c[i]
      /\ q \in Seq(Frames) /\ Len(q) = n /\ q[n] = f /\ \A i \in 1 .. n : i # n => q[i] = r[i]
      /\ \A i \in 1 .. n - 1 : q[i] = r[i]
  BY <1>4, <1>6, <1>7, <1>8, <1>2, <1>3
<1>10. FramesAre(c, m, r, ms) /\ CallsApart(c, r, ms, k)
  <2>1. Kept(ms, ms)
    BY <1>8 DEF Kept
  <2>2. SameEntries(k, k, Len(ms))
    BY DEF SameEntries
  <2>3. QED
    BY <1>8, <1>3, <2>1, <2>2, FramesStay
<1>11. ApartAt(d, q, ms, k, n)
  <2>1. d[n].call = "ReadNetObject" /\ d[n].member = Last(c).member /\ d[n].stage = stage
    BY <1>6, <1>9
  <2>2. Gives(d, n) => stage = "full"
    BY <2>1 DEF Gives
  <2>3. Shared(d, n) <=> Last(c).member.asReference
    BY <2>1 DEF Shared
  <2>4. \A j \in 1 .. n - 1 : (Gives(d, j) <=> Gives(c, j)) /\ d[j].call = c[j].call
    <3>1. \A j \in 1 .. n - 1 : j > 1 => j - 1 \in 1 .. n - 1
      BY <1>4
    <3>2. QED
      BY <1>9, <3>1 DEF Gives
  <2>5. \A j \in 1 .. n - 1 : q[j].object = r[j].object
    BY <1>9
  <2>6. QED
    BY <1>4, <1>9, <1>3, <2>1, <2>2, <2>3, <2>4, <2>5 DEF ApartAt, Giveable
<1>12. FramesAre(d, m, q, ms) /\ CallsApart(d, q, ms, k)
  <2>1. FrameIs(f, e, m, ms)
    BY <1>5, <1>3
  <2>2. QED
    BY <1>4, <1>6, <1>7, <1>10, <1>11, <1>2, <1>3, <2>1, FrameEdited
<1>13. Edited(c, r, d, q, f)
  BY <1>4, <1>9 DEF Edited
<1>14. QED
  BY <1>1, <1>12, <1>13

LEMMA BundleEdited ==
  ASSUME NEW c, NEW l, NEW r, NEW ms, NEW k, Follows(c, l, r, ms, k),
         NEW m, NEW stage, NEW f, NEW q, GoesOn(c, l, r, ms, k, m, stage, f, q)
  PROVE  Follows(Staged(c, stage), m, q, ms, k)
<1>1. c \in Seq(Calls) /\ c # <<>> /\ Last(c).call = "ReadNetObject"
  BY DEF GoesOn
<1>2. /\ ObjectsAre(ms) /\ FramesAre(c, l, r, ms) /\ CallsApart(c, r, ms, k)
      /\ MembersApart(ms, k) /\ AllRead(ms, r) /\ CacheIs(k, ms) /\ RootIs(r, ms)
  BY DEF Follows
<1>3. PICK n \in Nat \ {0} : n = Len(c)
  BY <1>1, TopIs
<1>4. Len(r) = n /\ r # <<>> /\ r[n].call = "ReadNetObject"
  <2>1. Len(r) = Len(c) /\ Last(r) = r[Len(c)] /\ r # <<>> /\ FrameIs(Last(r), Last(c), l, ms)
    BY <1>1, <1>2, FramesIs
  <2>2. QED
    BY <1>1, <1>3, <2>1 DEF FrameIs
<1>5. /\ FramesAre(Staged(c, stage), m, q, ms) /\ CallsApart(Staged(c, stage), q, ms, k)
      /\ Len(q) = n /\ \A i \in 1 .. n - 1 : q[i] = r[i]
  <2>1. /\ FramesAre(Staged(c, stage), m, q, ms) /\ CallsApart(Staged(c, stage), q, ms, k)
        /\ Edited(c, r, Staged(c, stage), q, f)
    BY <1>2, FrameGoesOn
  <2>2. QED
    BY <1>3, <2>1 DEF Edited
<1>6. AllRead(ms, q)
  <2>1. ASSUME NEW o \in 1 .. Len(ms), ~(Len(ms[o].members) = Len(MembersOf(ms[o].of)))
        PROVE  \E i \in 1 .. Len(q) : q[i].call = "Read" /\ q[i].object = o
    <3>1. PICK i \in 1 .. n : r[i].call = "Read" /\ r[i].object = o
      BY <1>2, <1>4, <2>1 DEF AllRead
    <3>2. i \in 1 .. n - 1
      BY <1>3, <1>4, <3>1
    <3>3. QED
      BY <1>5, <3>1, <3>2
  <2>2. QED
    BY <2>1 DEF AllRead
<1>7. RootIs(q, ms)
  BY <1>2, <1>4 DEF RootIs
<1>8. QED
  BY <1>2, <1>5, <1>6, <1>7 DEF Follows

\* The object that the cache has for a key.
LEMMA CacheHolds ==
  ASSUME NEW k, NEW ms, CacheIs(k, ms), NEW key \in DOMAIN k
  PROVE  /\ \A node : keyed[key] = Entry(node) /\ k[key][1] = "object" =>
              /\ k[key][2] \in 1 .. Len(ms) /\ ms[k[key][2]].of = node
              /\ IsEntry(k, k[key][2])
         /\ \A type : keyed[key] = TypeEntry(type) => k[key][2] = type
<1>1. key \in 1 .. Len(k)
  BY DEF CacheIs
<1>2. ASSUME NEW node, keyed[key] = Entry(node)
      PROVE  k[key][2] \in 1 .. Len(ms) /\ ms[k[key][2]].of = node /\ IsEntry(k, k[key][2])
  <2>1. keyed[key][1] = "object" /\ keyed[key][2] = node
    BY <1>2 DEF Entry
  <2>2. PICK o \in 1 .. Len(ms) : k[key] = Entry(o) /\ keyed[key] = Entry(ms[o].of)
    BY <1>1, <2>1 DEF CacheIs
  <2>3. k[key][2] = o /\ ms[o].of = node
    BY <2>1, <2>2 DEF Entry
  <2>4. QED
    BY <1>1, <2>2, <2>3 DEF IsEntry
<1>3. ASSUME NEW type, keyed[key] = TypeEntry(type) PROVE k[key][2] = type
  <2>1. keyed[key][1] = "type" /\ keyed[key][2] = type
    BY <1>3 DEF TypeEntry
  <2>2. QED
    BY <1>1, <2>1 DEF CacheIs
<1>4. QED
  BY <1>2, <1>3

\* The frame and the member of a bundle.
LEMMA BundleFrame ==
  ASSUME graph \in Graphs, NEW c \in Seq(Calls), NEW l, NEW r, NEW ms, FramesAre(c, l, r, ms),
         NEW stage, InBundle(c, stage)
  PROVE  /\ c # <<>> /\ Last(c).call = "ReadNetObject" /\ Last(c).stage = stage
         /\ Last(c).member \in MemberType /\ Target(c) = Last(c).member.to
         /\ Target(c) \in Nodes /\ Target(c) \in Nat /\ graph.type[Target(c)] \in Nat \ {0}
         /\ Last(r) \in Frames /\ Last(r).call = "ReadNetObject"
         /\ Last(r).type \in Nat /\ Last(r).newObjectKey \in Int /\ Last(r).newTypeKey \in Int
         /\ HasObjectKey(Last(r), Last(c), l) /\ HasTypeKey(Last(r), Last(c), l)
         /\ HasType(Last(r), Last(c))
         /\ \A s \in Stages : /\ B(Last(c).member, s).call = "ReadNetObject"
                              /\ B(Last(c).member, s).member = Last(c).member
                              /\ B(Last(c).member, s).stage = s
<1>1. c # <<>> /\ Last(c).call = "ReadNetObject" /\ Last(c).stage = stage
  BY DEF InBundle
<1>2. Last(r) \in Frames /\ FrameIs(Last(r), Last(c), l, ms) /\ Last(c) \in Calls
  BY <1>1, FramesIs, TopIs
<1>3. Last(c).member \in MemberType
  BY <1>1, <1>2, CallIs
<1>4. Target(c) = Last(c).member.to /\ Target(c) \in Nodes
  BY <1>3 DEF Target, MemberType
<1>5. Target(c) \in Nat /\ graph.type[Target(c)] \in Nat \ {0}
  BY <1>4, GraphIs
<1>6. \A s \in Stages : /\ B(Last(c).member, s).call = "ReadNetObject"
                        /\ B(Last(c).member, s).member = Last(c).member
                        /\ B(Last(c).member, s).stage = s
  BY <1>3, CallsAre
<1>7. /\ Last(r).type \in Nat /\ Last(r).newObjectKey \in Int /\ Last(r).newTypeKey \in Int
  BY <1>2 DEF Frames
<1>8. QED
  BY <1>1, <1>2, <1>3, <1>4, <1>5, <1>6, <1>7 DEF FrameIs

LEMMA ExistingObjectFollows ==
  ASSUME NEW c, NEW l, NEW t, NEW d, NEW m, Leads(c, l, t, d, m), t.tag = "existingObject",
         NEW r, NEW ms, NEW k, Follows(c, l, r, ms, k),
         NEW x, Finds(k, t.key, x), NEW q, q = WithObject(r, x)
  PROVE  Follows(d, m, q, ms, k)
<1>1. ExistingObjects(c, l, t, d, m)
  BY WalksByTag, LeadsIs
<1>2. InBundle(c, "start") /\ Last(c).member.asReference /\ d = Staged(c, "full") /\ m = l
  BY <1>1 DEF ExistingObjects
<1>3. FramesAre(c, l, r, ms) /\ CacheIs(k, ms) /\ RootIs(r, ms) /\ c \in Seq(Calls)
      /\ graph \in Graphs
  BY LeadsIs DEF Follows
<1>4. /\ c # <<>> /\ Last(c).call = "ReadNetObject" /\ Last(c).stage = "start"
      /\ Target(c) = Last(c).member.to
      /\ Last(r) \in Frames /\ Last(r).call = "ReadNetObject"
      /\ HasObjectKey(Last(r), Last(c), l) /\ HasTypeKey(Last(r), Last(c), l)
      /\ HasType(Last(r), Last(c))
  BY <1>2, <1>3, BundleFrame
<1>5. Len(r) = Len(c) /\ Last(r) = r[Len(c)] /\ r # <<>>
  BY <1>3, <1>4, FramesIs
<1>6. /\ x \in 1 .. Len(ms) /\ ms[x].of = Target(c) /\ Tracked(k, x, Target(c))
  <2>1. CASE t.key = 0
    <3>1. IsRoot(Entry(Target(c))) /\ x = 1
      BY <1>1, <2>1 DEF ExistingObjects, Finds
    <3>2. Target(c) = graph.root
      BY <3>1 DEF IsRoot, Entry
    <3>3. ms # <<>> /\ ms \in Seq(Made) /\ ms[1].of = graph.root
      BY <1>3, <1>5 DEF RootIs, Follows, ObjectsAre
    <3>4. 1 \in 1 .. Len(ms)
      BY <3>3
    <3>5. QED
      BY <3>1, <3>2, <3>3, <3>4 DEF Tracked
  <2>2. CASE t.key # 0
    <3>1. HasKey(l, t.key, Entry(Target(c))) /\ ~IsRoot(Entry(Target(c)))
      BY <1>1, <2>2 DEF ExistingObjects
    <3>2. keyed[t.key] = Entry(Target(c))
      <4>1. HasKey(keyed, t.key, Entry(Target(c)))
        BY <1>2, <3>1, LeadsIs
      <4>2. QED
        BY <4>1 DEF HasKey
    <3>3. t.key \in DOMAIN k /\ k[t.key][1] = "object" /\ x = k[t.key][2]
      BY <2>2 DEF Finds
    <3>4. QED
      BY <1>3, <3>1, <3>2, <3>3, CacheHolds DEF Tracked
  <2>3. QED
    BY <2>1, <2>2
<1>7. PICK f : f = [Last(r) EXCEPT !.object = x]
  OBVIOUS
<1>8. x \in Nat /\ "full" \in Stages
  <2>1. ms \in Seq(Made)
    BY DEF Follows, ObjectsAre
  <2>2. QED
    BY <1>6, <2>1 DEF Stages
<1>9. /\ f \in Frames /\ f.call = "ReadNetObject" /\ f.object = x /\ f.type = Last(r).type
      /\ f.newObjectKey = Last(r).newObjectKey /\ f.newTypeKey = Last(r).newTypeKey
  BY <1>4, <1>7, <1>8, FrameOn
<1>10. PICK e : e = B(Last(c).member, "full")
  OBVIOUS
<1>11. e.call = "ReadNetObject" /\ e.member = Last(c).member /\ e.stage = "full"
  BY <1>2, <1>3, <1>8, <1>10, BundleFrame
<1>12. f.newObjectKey = NoKey /\ f.newTypeKey = NoKey
  BY <1>4, <1>9 DEF HasObjectKey, HasTypeKey
<1>13. FrameIs(f, e, m, ms)
  <2>1. HasObjectKey(f, e, m) /\ HasTypeKey(f, e, m)
    BY <1>11, <1>12 DEF HasObjectKey, HasTypeKey
  <2>2. HasType(f, e)
    BY <1>4, <1>9, <1>11 DEF HasType
  <2>3. QED
    BY <1>4, <1>6, <1>9, <1>11, <2>1, <2>2 DEF FrameIs
<1>14. Giveable(c, r, ms, k, "full", f.object)
  BY <1>2, <1>4, <1>6, <1>9 DEF Giveable
<1>15. q = [r EXCEPT ![Len(c)] = f]
  BY <1>5, <1>7 DEF WithObject
<1>16. GoesOn(c, l, r, ms, k, m, "full", f, q)
  BY <1>3, <1>4, <1>8, <1>9, <1>10, <1>13, <1>14, <1>15, LeadsIs DEF GoesOn
<1>17. QED
  BY <1>2, <1>16, BundleEdited

LEMMA NewObjectKeyFollows ==
  ASSUME NEW c, NEW l, NEW t, NEW d, NEW m, Leads(c, l, t, d, m), t.tag = "newObject",
         NEW r, NEW ms, NEW k, Follows(c, l, r, ms, k),
         NEW q, q = WithObjectKey(r, t.key)
  PROVE  Follows(d, m, q, ms, k)
<1>1. /\ InBundle(c, "start") /\ Last(c).member.asReference /\ d = Staged(c, "keyed")
      /\ Fresh(l, t.key, Entry(Target(c))) /\ m = Append(l, Entry(Target(c)))
      /\ t.key \in Int /\ t.key # NoKey
  <2>1. NewObjects(c, l, t, d, m)
    BY WalksByTag, LeadsIs
  <2>2. Fresh(l, t.key, Entry(Target(c)))
    BY <2>1 DEF NewObjects
  <2>3. t.key \in Int /\ t.key # NoKey
    BY <2>2, LeadsIs DEF Fresh, NoKey
  <2>4. QED
    BY <2>1, <2>2, <2>3 DEF NewObjects
<1>2. /\ FramesAre(c, l, r, ms) /\ c \in Seq(Calls) /\ graph \in Graphs
      /\ l \in Seq(Entries) /\ m \in Seq(Entries) /\ Within(l, m)
      /\ \A key, value : HasKey(l, key, value) => HasKey(m, key, value)
  BY LeadsIs DEF Follows
<1>3. /\ c # <<>> /\ Last(c).call = "ReadNetObject" /\ Last(c).stage = "start"
      /\ Target(c) = Last(c).member.to
      /\ Last(r) \in Frames /\ Last(r).call = "ReadNetObject"
      /\ HasTypeKey(Last(r), Last(c), l) /\ HasType(Last(r), Last(c))
  BY <1>1, <1>2, BundleFrame
<1>4. Len(r) = Len(c) /\ Last(r) = r[Len(c)]
  BY <1>2, <1>3, FramesIs
<1>5. PICK f : f = [Last(r) EXCEPT !.newObjectKey = t.key]
  OBVIOUS
<1>6. /\ f \in Frames /\ f.call = "ReadNetObject" /\ f.type = Last(r).type
      /\ f.newObjectKey = t.key /\ f.newTypeKey = Last(r).newTypeKey
  BY <1>1, <1>3, <1>5, FrameOn
<1>7. "keyed" \in Stages
  BY DEF Stages
<1>8. PICK e : e = B(Last(c).member, "keyed")
  OBVIOUS
<1>9. e.call = "ReadNetObject" /\ e.member = Last(c).member /\ e.stage = "keyed"
  BY <1>1, <1>2, <1>7, <1>8, BundleFrame
<1>10. HasKey(m, t.key, Entry(e.member.to))
  BY <1>1, <1>2, <1>3, <1>9 DEF Fresh, HasKey
<1>11. FrameIs(f, e, m, ms)
  <2>1. HasObjectKey(f, e, m)
    BY <1>1, <1>6, <1>9, <1>10 DEF HasObjectKey
  <2>2. HasTypeKey(f, e, m)
    BY <1>3, <1>6, <1>9 DEF HasTypeKey
  <2>3. HasType(f, e)
    BY <1>3, <1>6, <1>9 DEF HasType
  <2>4. QED
    BY <1>6, <1>9, <2>1, <2>2, <2>3 DEF FrameIs
<1>12. q = [r EXCEPT ![Len(c)] = f]
  BY <1>4, <1>5 DEF WithObjectKey
<1>13. Giveable(c, r, ms, k, "keyed", f.object)
  BY DEF Giveable
<1>14. GoesOn(c, l, r, ms, k, m, "keyed", f, q)
  BY <1>2, <1>3, <1>6, <1>7, <1>8, <1>11, <1>12, <1>13 DEF GoesOn
<1>15. QED
  BY <1>1, <1>14, BundleEdited

LEMMA ExistingTypeFollows ==
  ASSUME NEW c, NEW l, NEW t, NEW d, NEW m, Leads(c, l, t, d, m), t.tag = "existingType",
         NEW r, NEW ms, NEW k, Follows(c, l, r, ms, k),
         t.key \in DOMAIN k, NEW q, q = WithType(r, k[t.key][2])
  PROVE  Follows(d, m, q, ms, k)
<1>1. /\ BeforeType(c) /\ d = Staged(c, "typed") /\ m = l
      /\ HasKey(l, t.key, TypeOf(c))
  <2>1. ExistingTypes(c, l, t, d, m)
    BY WalksByTag, LeadsIs
  <2>2. QED
    BY <2>1 DEF ExistingTypes
<1>2. PICK stage : /\ stage = IF Last(c).member.asReference THEN "keyed" ELSE "start"
                   /\ InBundle(c, stage) /\ Last(c).member.dynamicType
  BY <1>1 DEF BeforeType
<1>3. /\ FramesAre(c, l, r, ms) /\ CacheIs(k, ms) /\ c \in Seq(Calls) /\ graph \in Graphs
      /\ l \in Seq(Entries) /\ m \in Seq(Entries) /\ Within(l, m)
  BY LeadsIs DEF Follows
<1>4. /\ c # <<>> /\ Last(c).call = "ReadNetObject" /\ Last(c).stage = stage
      /\ Target(c) = Last(c).member.to /\ graph.type[Target(c)] \in Nat
      /\ Last(r) \in Frames /\ Last(r).call = "ReadNetObject"
      /\ HasObjectKey(Last(r), Last(c), l) /\ HasTypeKey(Last(r), Last(c), l)
  BY <1>2, <1>3, BundleFrame
<1>5. Len(r) = Len(c) /\ Last(r) = r[Len(c)]
  BY <1>3, <1>4, FramesIs
<1>6. PICK x : x = k[t.key][2]
  OBVIOUS
<1>7. x = graph.type[Target(c)] /\ x \in Nat
  <2>1. HasKey(keyed, t.key, TypeEntry(graph.type[Target(c)]))
    BY <1>1, LeadsIs DEF TypeOf
  <2>2. keyed[t.key] = TypeEntry(graph.type[Target(c)])
    BY <2>1 DEF HasKey
  <2>3. QED
    BY <1>3, <1>4, <1>6, <2>2, CacheHolds
<1>8. PICK f : f = [Last(r) EXCEPT !.type = x]
  OBVIOUS
<1>9. /\ f \in Frames /\ f.call = "ReadNetObject" /\ f.type = x
      /\ f.newObjectKey = Last(r).newObjectKey /\ f.newTypeKey = Last(r).newTypeKey
  BY <1>4, <1>7, <1>8, FrameOn
<1>10. "typed" \in Stages
  BY DEF Stages
<1>11. PICK e : e = B(Last(c).member, "typed")
  OBVIOUS
<1>12. e.call = "ReadNetObject" /\ e.member = Last(c).member /\ e.stage = "typed"
  BY <1>2, <1>3, <1>10, <1>11, BundleFrame
<1>13. FrameIs(f, e, m, ms)
  <2>1. HasObjectKey(f, e, m)
    BY <1>1, <1>2, <1>4, <1>9, <1>12 DEF HasObjectKey
  <2>2. HasTypeKey(f, e, m)
    BY <1>2, <1>4, <1>9, <1>12 DEF HasTypeKey
  <2>3. HasType(f, e)
    BY <1>4, <1>7, <1>9, <1>12 DEF HasType
  <2>4. QED
    BY <1>9, <1>12, <2>1, <2>2, <2>3 DEF FrameIs
<1>14. q = [r EXCEPT ![Len(c)] = f]
  BY <1>5, <1>6, <1>8 DEF WithType
<1>15. Giveable(c, r, ms, k, "typed", f.object)
  BY DEF Giveable
<1>16. GoesOn(c, l, r, ms, k, m, "typed", f, q)
  BY <1>3, <1>4, <1>9, <1>10, <1>11, <1>13, <1>14, <1>15 DEF GoesOn
<1>17. QED
  BY <1>1, <1>16, BundleEdited

LEMMA NewTypeKeyFollows ==
  ASSUME NEW c, NEW l, NEW t, NEW d, NEW m, Leads(c, l, t, d, m), t.tag = "newType",
         NEW r, NEW ms, NEW k, Follows(c, l, r, ms, k),
         NEW q, q = WithTypeKey(r, t.key)
  PROVE  Follows(d, m, q, ms, k)
<1>1. /\ BeforeType(c) /\ d = Staged(c, "typing")
      /\ Fresh(l, t.key, TypeOf(c)) /\ m = Append(l, TypeOf(c))
      /\ t.key \in Int /\ t.key # NoKey
  <2>1. NewTypes(c, l, t, d, m)
    BY WalksByTag, LeadsIs
  <2>2. Fresh(l, t.key, TypeOf(c))
    BY <2>1 DEF NewTypes
  <2>3. t.key \in Int /\ t.key # NoKey
    BY <2>2, LeadsIs DEF Fresh, NoKey
  <2>4. QED
    BY <2>1, <2>2, <2>3 DEF NewTypes
<1>2. PICK stage : /\ stage = IF Last(c).member.asReference THEN "keyed" ELSE "start"
                   /\ InBundle(c, stage) /\ Last(c).member.dynamicType
  BY <1>1 DEF BeforeType
<1>3. /\ FramesAre(c, l, r, ms) /\ c \in Seq(Calls) /\ graph \in Graphs
      /\ l \in Seq(Entries) /\ m \in Seq(Entries) /\ Within(l, m)
      /\ \A key, value : HasKey(l, key, value) => HasKey(m, key, value)
  BY LeadsIs DEF Follows
<1>4. /\ c # <<>> /\ Last(c).call = "ReadNetObject" /\ Last(c).stage = stage
      /\ Target(c) = Last(c).member.to
      /\ Last(r) \in Frames /\ Last(r).call = "ReadNetObject"
      /\ HasObjectKey(Last(r), Last(c), l) /\ HasType(Last(r), Last(c))
  BY <1>2, <1>3, BundleFrame
<1>5. Len(r) = Len(c) /\ Last(r) = r[Len(c)]
  BY <1>3, <1>4, FramesIs
<1>6. PICK f : f = [Last(r) EXCEPT !.newTypeKey = t.key]
  OBVIOUS
<1>7. /\ f \in Frames /\ f.call = "ReadNetObject" /\ f.type = Last(r).type
      /\ f.newObjectKey = Last(r).newObjectKey /\ f.newTypeKey = t.key
  BY <1>1, <1>4, <1>6, FrameOn
<1>8. "typing" \in Stages
  BY DEF Stages
<1>9. PICK e : e = B(Last(c).member, "typing")
  OBVIOUS
<1>10. e.call = "ReadNetObject" /\ e.member = Last(c).member /\ e.stage = "typing"
  BY <1>2, <1>3, <1>8, <1>9, BundleFrame
<1>11. HasKey(m, t.key, TypeEntry(graph.type[e.member.to]))
  BY <1>1, <1>3, <1>4, <1>10 DEF Fresh, HasKey, TypeOf
<1>12. FrameIs(f, e, m, ms)
  <2>1. HasObjectKey(f, e, m)
    BY <1>2, <1>3, <1>4, <1>7, <1>10 DEF HasObjectKey
  <2>2. HasTypeKey(f, e, m)
    BY <1>1, <1>2, <1>7, <1>10, <1>11 DEF HasTypeKey
  <2>3. HasType(f, e)
    BY <1>2, <1>4, <1>7, <1>10 DEF HasType
  <2>4. QED
    BY <1>7, <1>10, <2>1, <2>2, <2>3 DEF FrameIs
<1>13. q = [r EXCEPT ![Len(c)] = f]
  BY <1>5, <1>6 DEF WithTypeKey
<1>14. Giveable(c, r, ms, k, "typing", f.object)
  BY DEF Giveable
<1>15. GoesOn(c, l, r, ms, k, m, "typing", f, q)
  BY <1>3, <1>4, <1>7, <1>8, <1>9, <1>12, <1>13, <1>14 DEF GoesOn
<1>16. QED
  BY <1>1, <1>15, BundleEdited

LEMMA TypeNameFollows ==
  ASSUME NEW c, NEW l, NEW t, NEW d, NEW m, Leads(c, l, t, d, m), t.tag = "typeName",
         NEW r, NEW ms, NEW k, Follows(c, l, r, ms, k),
         NEW q, q = WithType(r, t.of)
  PROVE  Follows(d, m, q, ms, k)
<1>1. /\ InBundle(c, "typing") /\ d = Staged(c, "typed") /\ m = l
      /\ t.of = graph.type[Target(c)]
  <2>1. TypeNames(c, l, t, d, m)
    BY WalksByTag, LeadsIs
  <2>2. QED
    BY <2>1 DEF TypeNames
<1>2. /\ FramesAre(c, l, r, ms) /\ c \in Seq(Calls) /\ graph \in Graphs
      /\ l \in Seq(Entries) /\ m \in Seq(Entries) /\ Within(l, m)
  BY LeadsIs DEF Follows
<1>3. /\ c # <<>> /\ Last(c).call = "ReadNetObject" /\ Last(c).stage = "typing"
      /\ Target(c) = Last(c).member.to /\ graph.type[Target(c)] \in Nat
      /\ Last(r) \in Frames /\ Last(r).call = "ReadNetObject"
      /\ HasObjectKey(Last(r), Last(c), l) /\ HasTypeKey(Last(r), Last(c), l)
  BY <1>1, <1>2, BundleFrame
<1>4. Len(r) = Len(c) /\ Last(r) = r[Len(c)]
  BY <1>2, <1>3, FramesIs
<1>5. PICK x : x = t.of
  OBVIOUS
<1>6. PICK f : f = [Last(r) EXCEPT !.type = x]
  OBVIOUS
<1>7. /\ f \in Frames /\ f.call = "ReadNetObject" /\ f.type = graph.type[Target(c)]
      /\ f.newObjectKey = Last(r).newObjectKey /\ f.newTypeKey = Last(r).newTypeKey
  BY <1>1, <1>3, <1>5, <1>6, FrameOn
<1>8. "typed" \in Stages
  BY DEF Stages
<1>9. PICK e : e = B(Last(c).member, "typed")
  OBVIOUS
<1>10. e.call = "ReadNetObject" /\ e.member = Last(c).member /\ e.stage = "typed"
  BY <1>1, <1>2, <1>8, <1>9, BundleFrame
<1>11. FrameIs(f, e, m, ms)
  <2>1. HasObjectKey(f, e, m)
    BY <1>1, <1>3, <1>7, <1>10 DEF HasObjectKey
  <2>2. HasTypeKey(f, e, m)
    BY <1>1, <1>3, <1>7, <1>10 DEF HasTypeKey
  <2>3. HasType(f, e)
    BY <1>3, <1>7, <1>10 DEF HasType
  <2>4. QED
    BY <1>7, <1>10, <2>1, <2>2, <2>3 DEF FrameIs
<1>12. q = [r EXCEPT ![Len(c)] = f]
  BY <1>4, <1>5, <1>6 DEF WithType
<1>13. Giveable(c, r, ms, k, "typed", f.object)
  BY DEF Giveable
<1>14. GoesOn(c, l, r, ms, k, m, "typed", f, q)
  BY <1>2, <1>3, <1>7, <1>8, <1>9, <1>11, <1>12, <1>13 DEF GoesOn
<1>15. QED
  BY <1>1, <1>14, BundleEdited

\* An object for the node is made, and h is the cache afterwards.
Makes(c, l, r, ms, k, node, ns, h) ==
  /\ graph \in Graphs /\ c \in Seq(Calls) /\ l \in Seq(Entries) /\ Follows(c, l, r, ms, k)
  /\ node \in Nodes /\ ns = WithNew(ms, node) /\ (ms = <<>> => node = graph.root)
  /\ SameEntries(k, h, Len(ms)) /\ CacheIs(h, ns)

LEMMA ObjectMade ==
  ASSUME NEW c, NEW l, NEW r, NEW ms, NEW k, NEW node, NEW ns, NEW h,
         Makes(c, l, r, ms, k, node, ns, h)
  PROVE  /\ ObjectsAre(ns) /\ FramesAre(c, l, r, ns) /\ CallsApart(c, r, ns, h)
         /\ MembersApart(ns, h) /\ ns[1].of = graph.root /\ ns # <<>> /\ RootIs(r, ns)
         /\ Len(ns) = Len(ms) + 1 /\ Len(ms) \in Nat /\ ns \in Seq(Made)
         /\ ns[Len(ns)].of = node /\ Len(ns[Len(ns)].members) = 0
         /\ ~Attached(ns, Len(ns)) /\ (r # <<>> => Len(ns) # 1)
         /\ \A j \in 1 .. Len(c) : Gives(c, j) \/ c[j].call = "Read" => r[j].object # Len(ns)
         /\ \A o \in 1 .. Len(ms) : ns[o] = ms[o]
<1>1. /\ graph \in Graphs /\ c \in Seq(Calls) /\ l \in Seq(Entries)
      /\ node \in Nodes /\ ns = WithNew(ms, node) /\ (ms = <<>> => node = graph.root)
      /\ SameEntries(k, h, Len(ms)) /\ CacheIs(h, ns)
      /\ ObjectsAre(ms) /\ FramesAre(c, l, r, ms) /\ CallsApart(c, r, ms, k)
      /\ MembersApart(ms, k) /\ RootIs(r, ms)
  BY DEF Makes, Follows
<1>2. PICK n \in Nat : n = Len(ms) /\ ms \in Seq(Made)
  BY <1>1 DEF ObjectsAre
<1>3. /\ ObjectsAre(ns) /\ Len(ns) = n + 1
      /\ \A o \in 1 .. n : ns[o] = ms[o] /\ o \in 1 .. Len(ns)
      /\ ns[n + 1].of = node /\ Len(ns[n + 1].members) = 0
      /\ \A x : Attached(ns, x) <=> Attached(ms, x)
      /\ ~Attached(ms, n + 1)
  BY <1>1, <1>2, MadeOn
<1>4. ns \in Seq(Made) /\ Kept(ms, ns)
  BY <1>2, <1>3 DEF ObjectsAre, Kept
<1>5. FramesAre(c, l, r, ns) /\ CallsApart(c, r, ns, h)
  <2>1. \A o \in 1 .. Len(ms) : Len(ns[o].members) = Len(ms[o].members)
    BY <1>2, <1>3
  <2>2. Within(l, l)
    BY DEF Within
  <2>3. \A x : Attached(ns, x) => Attached(ms, x)
    BY <1>3
  <2>4. QED
    BY <1>1, <1>2, <1>4, <2>1, <2>2, <2>3, FramesStay
<1>6. MembersApart(ns, h)
  BY <1>1, ApartMade
<1>7. ns[1].of = graph.root /\ ns # <<>>
  <2>1. CASE ms = <<>>
    <3>1. n = 0
      BY <1>2, <2>1
    <3>2. QED
      BY <1>1, <1>3, <2>1, <3>1
  <2>2. CASE ms # <<>>
    <3>1. 1 \in 1 .. n
      BY <1>2, <2>2
    <3>2. QED
      BY <1>1, <1>3, <2>2, <3>1 DEF RootIs
  <2>3. QED
    BY <2>1, <2>2
<1>8. RootIs(r, ns)
  BY <1>7 DEF RootIs
<1>9. r # <<>> => n + 1 # 1
  BY <1>1, <1>2 DEF RootIs
<1>10. ASSUME NEW j \in 1 .. Len(c), Gives(c, j) \/ c[j].call = "Read"
       PROVE  r[j].object # n + 1
  <2>1. Gives(c, j) => r[j].object \in 1 .. n
    BY <1>1, <1>2, GivenIsMade
  <2>2. c[j].call = "Read" => r[j].object \in 1 .. n
    BY <1>1, <1>2 DEF FramesAre, FrameIs
  <2>3. r[j].object \in 1 .. n
    BY <1>10, <2>1, <2>2
  <2>4. QED
    BY <2>3
<1>11. QED
  BY <1>2, <1>3, <1>4, <1>5, <1>6, <1>7, <1>8, <1>9, <1>10

\* Nothing but an object is made.
LEMMA MakesIs ==
  ASSUME NEW c, NEW l, NEW t, NEW d, NEW m, Leads(c, l, t, d, m),
         NEW r, NEW ms, NEW k, Follows(c, l, r, ms, k), NEW node \in Nodes,
         ms = <<>> => node = graph.root, NEW ns, ns = WithNew(ms, node)
  PROVE  Makes(c, l, r, ms, k, node, ns, k) /\ ~IsEntry(k, Len(ns))
<1>1. graph \in Graphs /\ c \in Seq(Calls) /\ l \in Seq(Entries) /\ ObjectsAre(ms) /\ CacheIs(k, ms)
  BY LeadsIs DEF Follows
<1>2. /\ ObjectsAre(ns) /\ Len(ns) = Len(ms) + 1 /\ Len(ms) \in Nat
      /\ \A o \in 1 .. Len(ms) : ns[o] = ms[o]
  <2>1. graph \in Graphs /\ ObjectsAre(ms)
    BY <1>1
  <2>2. QED
    BY <2>1, MadeOn
<1>3. Kept(ms, ns) /\ ms \in Seq(Made) /\ ns \in Seq(Made)
  BY <1>1, <1>2 DEF Kept, ObjectsAre
<1>4. CacheIs(k, ns)
  BY <1>1, <1>3, CacheKept
<1>5. SameEntries(k, k, Len(ms))
  BY DEF SameEntries
<1>6. ~IsEntry(k, Len(ns))
  <2>1. SUFFICES ASSUME IsEntry(k, Len(ns)) PROVE FALSE
    OBVIOUS
  <2>2. Len(ns) \in 1 .. Len(ms)
    BY <1>1, <2>1, EntryIs
  <2>3. QED
    BY <1>2, <2>2
<1>7. QED
  BY <1>1, <1>4, <1>5, <1>6 DEF Makes

LEMMA AllReadPushed ==
  ASSUME NEW ms, NEW r \in Seq(Frames), AllRead(ms, r), NEW f \in Frames, NEW q, q = Append(r, f)
  PROVE  AllRead(ms, q)
<1>1. /\ Len(r) \in Nat /\ Len(q) = Len(r) + 1 /\ \A i \in 1 .. Len(r) : q[i] = r[i]
  OBVIOUS
<1>2. \A i \in 1 .. Len(r) : i \in 1 .. Len(q)
  BY <1>1
<1>3. QED
  BY <1>1, <1>2 DEF AllRead

LEMMA ReadObjectFollows ==
  ASSUME NEW c, NEW l, NEW t, NEW d, NEW m, Leads(c, l, t, d, m), t.tag = "enter",
         NEW r, NEW ms, NEW k, Follows(c, l, r, ms, k), c = <<>> => ms = <<>>,
         NEW ns, ns = WithNew(ms, t.of), NEW x, x = Len(ms) + 1, NEW q, q = Fill(r, x)
  PROVE  Follows(d, m, q, ns, k) /\ ns # <<>>
<1>1. EnterRoot(c, l, t, d, m) \/ Enters(c, l, t, d, m)
  BY WalksByTag, LeadsIs
<1>2. /\ graph \in Graphs /\ c \in Seq(Calls) /\ l \in Seq(Entries) /\ ObjectsAre(ms)
      /\ FramesAre(c, l, r, ms) /\ AllRead(ms, r) /\ RootIs(r, ms)
  BY LeadsIs DEF Follows
<1>3. PICK node : node = t.of
  OBVIOUS
<1>4. /\ m = l /\ d = Append(c, R(node, 1)) /\ node \in Nodes
      /\ c # <<>> => Last(c).call = "Read"
      /\ c = <<>> => node = graph.root
  <2>1. CASE EnterRoot(c, l, t, d, m)
    <3>1. c = <<>> /\ d = <<R(node, 1)>> /\ m = l /\ node = graph.root
      BY <1>3, <2>1 DEF EnterRoot
    <3>2. QED
      BY <1>2, <3>1, GraphIs
  <2>2. CASE Enters(c, l, t, d, m)
    <3>1. c # <<>> /\ AtMemberOf(Last(c)) /\ node = MemberAt(Last(c)).to
      BY <1>3, <2>2 DEF Enters, Untracked
    <3>2. Last(c) \in Calls
      BY <1>2, <3>1, TopIs
    <3>3. QED
      BY <1>2, <1>3, <2>2, <3>1, <3>2, MemberIs DEF Enters
  <2>3. QED
    BY <1>1, <2>1, <2>2
<1>5. c # <<>> => r # <<>> /\ ms # <<>>
  BY <1>2, FramesIs DEF RootIs
<1>6. Makes(c, l, r, ms, k, node, ns, k) /\ ~IsEntry(k, Len(ns))
  <2>1. ms = <<>> => node = graph.root
    BY <1>4, <1>5
  <2>2. QED
    BY <1>3, <1>4, <2>1, MakesIs
<1>7. PICK n \in Nat : n = Len(ms) /\ Len(ns) = n + 1
  BY <1>6, ObjectMade
<1>8. /\ ObjectsAre(ns) /\ FramesAre(c, l, r, ns) /\ CallsApart(c, r, ns, k)
      /\ MembersApart(ns, k) /\ ns[1].of = graph.root /\ ns # <<>>
      /\ ns[n + 1].of = node /\ Len(ns[n + 1].members) = 0
      /\ ~Attached(ns, n + 1) /\ (r # <<>> => n + 1 # 1)
      /\ \A j \in 1 .. Len(c) : Gives(c, j) \/ c[j].call = "Read" => r[j].object # n + 1
      /\ \A o \in 1 .. n : ns[o] = ms[o]
  <2>1. /\ ObjectsAre(ns) /\ FramesAre(c, l, r, ns) /\ CallsApart(c, r, ns, k)
        /\ MembersApart(ns, k) /\ ns[1].of = graph.root /\ ns # <<>>
        /\ ns[Len(ns)].of = node /\ Len(ns[Len(ns)].members) = 0
        /\ ~Attached(ns, Len(ns)) /\ (r # <<>> => Len(ns) # 1)
        /\ \A j \in 1 .. Len(c) : Gives(c, j) \/ c[j].call = "Read" => r[j].object # Len(ns)
        /\ \A o \in 1 .. Len(ms) : ns[o] = ms[o]
    BY <1>6, ObjectMade
  <2>2. QED
    BY <1>7, <2>1
<1>9. PICK f : f = Filling(n + 1)
  OBVIOUS
<1>10. f \in Frames /\ f.call = "Read" /\ f.object = n + 1
  BY <1>7, <1>9, FillingIs
<1>11. PICK e : e = R(node, 1)
  OBVIOUS
<1>12. e \in Calls /\ e.call = "Read" /\ e.node = node /\ e.next = 1
  BY <1>4, <1>11, CallsAre
<1>13. PICK i \in Nat : i = Len(c) /\ r \in Seq(Frames) /\ Len(r) = i
  BY <1>2 DEF FramesAre
<1>14. /\ Len(d) = i + 1 /\ d[i + 1] = e /\ \A j \in 1 .. i : d[j] = c[j]
       /\ q \in Seq(Frames) /\ Len(q) = i + 1 /\ q[i + 1] = f /\ \A j \in 1 .. i : q[j] = r[j]
  BY <1>2, <1>4, <1>7, <1>9, <1>10, <1>11, <1>12, <1>13 DEF Fill
<1>15. FrameIs(f, e, l, ns)
  BY <1>7, <1>8, <1>10, <1>12 DEF FrameIs
<1>16. ApartAt(d, q, ns, k, i + 1)
  <2>1. \A j \in 1 .. i : (Gives(d, j) <=> Gives(c, j)) /\ d[j].call = c[j].call
    <3>1. \A j \in 1 .. i : j > 1 => j - 1 \in 1 .. i
      BY <1>13
    <3>2. QED
      BY <1>14, <3>1 DEF Gives
  <2>2. \A j \in 1 .. i : Gives(d, j) \/ d[j].call = "Read" => q[j].object # n + 1
    BY <1>8, <1>13, <1>14, <2>1
  <2>3. (i + 1) - 1 = i /\ d[i + 1].call = "Read" /\ q[i + 1].object = n + 1
    BY <1>10, <1>12, <1>13, <1>14
  <2>4. i + 1 > 1 => d[i].call = "Read" /\ r # <<>>
    <3>1. SUFFICES ASSUME i + 1 > 1 PROVE d[i].call = "Read" /\ r # <<>>
      OBVIOUS
    <3>2. i \in 1 .. i /\ c # <<>>
      BY <1>13, <3>1
    <3>3. Last(c) = c[i]
      BY <1>2, <1>13, <3>2, TopIs
    <3>4. QED
      BY <1>4, <1>5, <1>14, <3>2, <3>3
  <2>5. i + 1 > 1 => Private(k, n + 1)
    BY <1>6, <1>7, <1>8, <2>4 DEF Private
  <2>6. ~Shared(d, i + 1) /\ (Gives(d, i + 1) => i + 1 > 1)
    BY <2>3 DEF Shared, Gives
  <2>7. QED
    BY <1>8, <2>2, <2>3, <2>4, <2>5, <2>6 DEF ApartAt
<1>17. FramesAre(d, l, q, ns) /\ CallsApart(d, q, ns, k)
  <2>1. d = Append(c, e) /\ q = Append(r, f)
    BY <1>4, <1>7, <1>9, <1>11 DEF Fill
  <2>2. QED
    BY <1>2, <1>8, <1>10, <1>12, <1>13, <1>15, <1>16, <2>1, FramePushed
<1>18. AllRead(ns, q)
  <2>1. ASSUME NEW o \in 1 .. n + 1
        PROVE  \/ Len(ns[o].members) = Len(MembersOf(ns[o].of))
               \/ \E j \in 1 .. Len(q) : q[j].call = "Read" /\ q[j].object = o
    <3>1. CASE o = n + 1
      <4>1. i + 1 \in 1 .. Len(q)
        BY <1>13, <1>14
      <4>2. QED
        BY <1>10, <1>14, <3>1, <4>1
    <3>2. CASE o # n + 1
      <4>1. o \in 1 .. n /\ ns[o] = ms[o]
        <5>1. o \in 1 .. n
          BY <1>7, <3>2
        <5>2. QED
          BY <1>8, <5>1
      <4>2. AllRead(ms, q)
        <5>1. q = Append(r, f)
          BY <1>7, <1>9 DEF Fill
        <5>2. QED
          BY <1>2, <1>10, <1>13, <5>1, AllReadPushed
      <4>3. QED
        BY <1>7, <4>1, <4>2 DEF AllRead
    <3>3. QED
      BY <3>1, <3>2
  <2>2. QED
    BY <1>7, <2>1 DEF AllRead
<1>19. CacheIs(k, ns) /\ RootIs(q, ns)
  BY <1>6, <1>8 DEF Makes, RootIs
<1>20. QED
  BY <1>4, <1>8, <1>17, <1>18, <1>19 DEF Follows

LEMMA ReadNetObjectFollows ==
  ASSUME NEW c, NEW l, NEW t, NEW d, NEW m, Leads(c, l, t, d, m), t.tag = "start",
         NEW r, NEW ms, NEW k, Follows(c, l, r, ms, k),
         NEW type, type = KnownType(t.of), NEW f, f = Bundling(type), NEW q, q = Append(r, f)
  PROVE  Follows(d, m, q, ms, k)
<1>1. PICK member : member = t.of
  OBVIOUS
<1>2. /\ c # <<>> /\ AtMemberOf(Last(c)) /\ member = MemberAt(Last(c))
      /\ d = Append(c, B(member, "start")) /\ m = l
  <2>1. Starts(c, l, t, d, m)
    BY WalksByTag, LeadsIs
  <2>2. QED
    BY <1>1, <2>1 DEF Starts
<1>3. /\ graph \in Graphs /\ c \in Seq(Calls) /\ ObjectsAre(ms)
      /\ FramesAre(c, l, r, ms) /\ CallsApart(c, r, ms, k) /\ MembersApart(ms, k)
      /\ AllRead(ms, r) /\ CacheIs(k, ms) /\ RootIs(r, ms)
  BY LeadsIs DEF Follows
<1>4. member \in MemberType /\ graph.type[member.to] \in Nat
  <2>1. member \in MemberType /\ member.to \in Nodes
    BY <1>2, <1>3, TopIs, MemberIs
  <2>2. QED
    BY <1>3, <2>1, GraphIs
<1>5. PICK e : e = B(member, "start")
  OBVIOUS
<1>6. e \in Calls /\ e.call = "ReadNetObject" /\ e.member = member /\ e.stage = "start"
  BY <1>4, <1>5, CallsAre DEF Stages
<1>7. f = [Filling(None) EXCEPT !.call = "ReadNetObject", !.type = type]
  BY DEF Bundling
<1>8. type \in Nat /\ type \in {None, graph.type[member.to]}
      /\ (~member.dynamicType => type = graph.type[member.to])
  BY <1>1, <1>4 DEF None, KnownType
<1>9. /\ f \in Frames /\ f.call = "ReadNetObject" /\ f.type = type
      /\ f.newObjectKey = NoKey /\ f.newTypeKey = NoKey
  <2>1. PICK g : g = [Filling(None) EXCEPT !.call = "ReadNetObject"]
    OBVIOUS
  <2>2. g \in Frames /\ g.call = "ReadNetObject" /\ g.newObjectKey = NoKey /\ g.newTypeKey = NoKey
    BY <2>1 DEF Filling, Frames, None, NoKey
  <2>3. f = [g EXCEPT !.type = type]
    BY <1>7, <2>1
  <2>4. QED
    BY <1>8, <2>2, <2>3, FrameOn
<1>10. FrameIs(f, e, l, ms)
  <2>1. HasObjectKey(f, e, l) /\ HasTypeKey(f, e, l) /\ HasType(f, e)
    BY <1>6, <1>8, <1>9 DEF HasObjectKey, HasTypeKey, HasType
  <2>2. QED
    BY <1>6, <1>9, <2>1 DEF FrameIs
<1>11. PICK n \in Nat : n = Len(c) /\ r \in Seq(Frames) /\ Len(r) = n
  BY <1>3 DEF FramesAre
<1>12. d[n + 1].call = "ReadNetObject" /\ d[n + 1].stage = "start"
  BY <1>2, <1>3, <1>5, <1>6, <1>11
<1>13. ApartAt(d, q, ms, k, n + 1)
  BY <1>12 DEF ApartAt, Gives
<1>14. FramesAre(d, l, q, ms) /\ CallsApart(d, q, ms, k)
  <2>1. d = Append(c, e) /\ q = Append(r, f)
    BY <1>2, <1>5, <1>7
  <2>2. QED
    BY <1>3, <1>6, <1>9, <1>10, <1>11, <1>13, <2>1, FramePushed
<1>15. AllRead(ms, q)
  <2>1. q = Append(r, f)
    BY <1>7
  <2>2. QED
    BY <1>3, <1>9, <1>11, <2>1, AllReadPushed
<1>16. RootIs(q, ms)
  <2>1. r # <<>>
    BY <1>2, <1>3, FramesIs
  <2>2. QED
    BY <1>3, <2>1 DEF RootIs
<1>17. QED
  BY <1>2, <1>3, <1>14, <1>15, <1>16 DEF Follows

\* The object x may become the next member of the call on top.
MayJoin(c, r, ms, k, x, member) ==
  /\ c # <<>> /\ AtMemberOf(Last(c)) /\ member = MemberAt(Last(c))
  /\ x \in 1 .. Len(ms) /\ ms[x].of = member.to
  /\ IF member.asReference THEN Tracked(k, x, member.to)
     ELSE Private(k, x) /\ ~Attached(ms, x)
  /\ \A i \in 1 .. Len(c) : Gives(c, i) /\ ~Shared(c, i) => r[i].object # x

LEMMA JoinedFollows ==
  ASSUME graph \in Graphs, NEW c, Nested(c), NEW l \in Seq(Entries),
         NEW r, NEW ms, NEW k, Follows(c, l, r, ms, k), NEW x, NEW member,
         MayJoin(c, r, ms, k, x, member), NEW ns, ns = Joined(ms, Last(r).object, x)
  PROVE  Follows(Moved(c), l, r, ns, k)
<1>1. /\ c \in Seq(Calls) /\ ObjectsAre(ms) /\ FramesAre(c, l, r, ms) /\ CallsApart(c, r, ms, k)
      /\ MembersApart(ms, k) /\ AllRead(ms, r) /\ CacheIs(k, ms) /\ RootIs(r, ms)
  BY DEF Follows, Nested
<1>2. /\ c # <<>> /\ AtMemberOf(Last(c)) /\ member = MemberAt(Last(c))
      /\ x \in 1 .. Len(ms) /\ ms[x].of = member.to
      /\ IF member.asReference THEN Tracked(k, x, member.to)
         ELSE Private(k, x) /\ ~Attached(ms, x)
      /\ \A i \in 1 .. Len(c) : Gives(c, i) /\ ~Shared(c, i) => r[i].object # x
  BY DEF MayJoin
<1>3. PICK n \in Nat \ {0} : n = Len(c) /\ n \in 1 .. n /\ Last(c) = c[n] /\ Last(c) \in Calls
  BY <1>1, <1>2, TopIs
<1>4. Len(r) = n /\ Last(r) = r[n] /\ FrameIs(Last(r), Last(c), l, ms) /\ r # <<>>
  BY <1>1, <1>2, <1>3, FramesIs
<1>5. /\ Last(c).call = "Read" /\ Last(c).next \in 1 .. Len(MembersOf(Last(c).node))
      /\ Last(c).node \in Nodes /\ Len(MembersOf(Last(c).node)) \in Nat
  <2>1. Last(c).call = "Read" /\ Last(c).next \in 1 .. Len(MembersOf(Last(c).node))
        /\ Last(c).node \in Nodes
    BY <1>2, <1>3, MemberIs
  <2>2. QED
    BY <2>1, GraphIs
<1>6. PICK o : o = Last(r).object
  OBVIOUS
<1>7. /\ o \in 1 .. Len(ms) /\ ms[o].of = Last(c).node
      /\ Len(ms[o].members) = Last(c).next - 1 /\ Last(r).call = "Read"
  BY <1>4, <1>5, <1>6 DEF FrameIs
<1>8. Joins(ms, o, x, member)
  <2>1. Len(ms[o].members) + 1 = Last(c).next
    BY <1>5, <1>7
  <2>2. QED
    BY <1>2, <1>5, <1>7, <2>1 DEF Joins, MemberAt
<1>9. ns = Joined(ms, o, x)
  BY <1>6
<1>10. /\ ObjectsAre(ns) /\ Len(ns) = Len(ms) /\ Len(ms) \in Nat
       /\ \A q \in 1 .. Len(ms) : ns[q].of = ms[q].of /\ (q # o => ns[q] = ms[q])
  BY <1>1, <1>8, <1>9, JoinedOn
<1>11. Kept(ms, ns) /\ ms \in Seq(Made) /\ ns \in Seq(Made)
  BY <1>1, <1>10 DEF Kept, ObjectsAre
<1>12. FramesAre(Moved(c), l, r, ns) /\ CallsApart(Moved(c), r, ns, k)
  <2>1. Joins(ms, Last(r).object, x, MemberAt(Last(c)))
    BY <1>2, <1>6, <1>8
  <2>2. QED
    BY <1>1, <1>2, <2>1, FrameMoved
<1>13. MembersApart(ns, k)
  BY <1>1, <1>2, <1>8, <1>9, ApartJoined
<1>14. AllRead(ns, r)
  <2>1. ASSUME NEW q \in 1 .. Len(ms)
        PROVE  \/ Len(ns[q].members) = Len(MembersOf(ns[q].of))
               \/ \E i \in 1 .. Len(r) : r[i].call = "Read" /\ r[i].object = q
    <3>1. CASE q = o
      BY <1>3, <1>4, <1>6, <1>7, <3>1
    <3>2. CASE q # o
      BY <1>1, <1>10, <3>2 DEF AllRead
    <3>3. QED
      BY <3>1, <3>2
  <2>2. QED
    BY <1>10, <2>1 DEF AllRead
<1>15. CacheIs(k, ns)
  BY <1>1, <1>11, CacheKept
<1>16. RootIs(r, ns)
  <2>1. ms # <<>> /\ ms[1].of = graph.root
    BY <1>1, <1>4 DEF RootIs
  <2>2. 1 \in 1 .. Len(ms)
    BY <1>10, <1>11, <2>1
  <2>3. ns[1].of = graph.root /\ ns # <<>>
    BY <1>10, <2>1, <2>2
  <2>4. QED
    BY <2>3 DEF RootIs
<1>17. QED
  BY <1>10, <1>12, <1>13, <1>14, <1>15, <1>16 DEF Follows

LEMMA ReadTextFollows ==
  ASSUME NEW c, NEW l, NEW t, NEW d, NEW m, Leads(c, l, t, d, m), t.tag = "text",
         NEW r, NEW ms, NEW k, Follows(c, l, r, ms, k),
         NEW ns, ns = Joined(WithNew(ms, t.of), Last(r).object, Len(ms) + 1)
  PROVE  Follows(d, m, r, ns, k) /\ graph.type[t.of] = StringType
<1>1. /\ c # <<>> /\ AtMemberOf(Last(c)) /\ ~IsTracked(MemberAt(Last(c)))
      /\ t.of = MemberAt(Last(c)).to /\ IsString(t.of) /\ d = Moved(c) /\ m = l
  <2>1. Texts(c, l, t, d, m)
    BY WalksByTag, LeadsIs
  <2>2. QED
    BY <2>1 DEF Texts, Untracked
<1>2. /\ graph \in Graphs /\ Nested(c) /\ c \in Seq(Calls) /\ l \in Seq(Entries)
      /\ ObjectsAre(ms) /\ FramesAre(c, l, r, ms) /\ AllRead(ms, r) /\ RootIs(r, ms)
  BY LeadsIs DEF Follows
<1>3. PICK node : node = t.of
  OBVIOUS
<1>4. node \in Nodes /\ MembersOf(node) = <<>>
  <2>1. node \in Nodes
    BY <1>1, <1>2, <1>3, TopIs, MemberIs
  <2>2. QED
    BY <1>1, <1>2, <1>3, <2>1, GraphIs
<1>5. r # <<>> /\ ms # <<>>
  BY <1>1, <1>2, FramesIs DEF RootIs
<1>6. PICK os : os = WithNew(ms, node)
  OBVIOUS
<1>7. Makes(c, l, r, ms, k, node, os, k) /\ ~IsEntry(k, Len(os))
  BY <1>4, <1>5, <1>6, MakesIs
<1>8. /\ ObjectsAre(os) /\ FramesAre(c, l, r, os) /\ CallsApart(c, r, os, k)
      /\ MembersApart(os, k) /\ RootIs(r, os)
      /\ Len(os) = Len(ms) + 1 /\ Len(ms) \in Nat
      /\ os[Len(os)].of = node /\ Len(os[Len(os)].members) = 0
      /\ ~Attached(os, Len(os)) /\ (r # <<>> => Len(os) # 1)
      /\ \A j \in 1 .. Len(c) : Gives(c, j) \/ c[j].call = "Read" => r[j].object # Len(os)
      /\ \A o \in 1 .. Len(ms) : os[o] = ms[o]
  BY <1>7, ObjectMade
<1>9. AllRead(os, r)
  <2>1. ASSUME NEW o \in 1 .. Len(os)
        PROVE  \/ Len(os[o].members) = Len(MembersOf(os[o].of))
               \/ \E j \in 1 .. Len(r) : r[j].call = "Read" /\ r[j].object = o
    <3>1. CASE o = Len(os)
      BY <1>4, <1>8, <3>1
    <3>2. CASE o # Len(os)
      <4>1. o \in 1 .. Len(ms)
        BY <1>8, <3>2
      <4>2. QED
        BY <1>2, <1>8, <4>1 DEF AllRead
    <3>3. QED
      BY <3>1, <3>2
  <2>2. QED
    BY <2>1 DEF AllRead
<1>10. Follows(c, l, r, os, k)
  BY <1>7, <1>8, <1>9 DEF Follows, Makes
<1>11. MayJoin(c, r, os, k, Len(os), MemberAt(Last(c)))
  <2>1. ~MemberAt(Last(c)).asReference
    BY <1>1 DEF IsTracked
  <2>2. Private(k, Len(os)) /\ ~Attached(os, Len(os))
    BY <1>5, <1>7, <1>8 DEF Private
  <2>3. Len(os) \in 1 .. Len(os)
    BY <1>8
  <2>4. QED
    BY <1>1, <1>3, <1>8, <2>1, <2>2, <2>3 DEF MayJoin
<1>12. ns = Joined(os, Last(r).object, Len(os))
  BY <1>3, <1>6, <1>8
<1>13. QED
  BY <1>1, <1>2, <1>10, <1>11, <1>12, JoinedFollows DEF IsString

\* What the call on top has been reading is complete.
Complete(c) == Last(c).call = "Read" => Last(c).next = Len(MembersOf(Last(c).node)) + 1

LEMMA PoppedFollows ==
  ASSUME graph \in Graphs, NEW c \in Seq(Calls), c # <<>>, Complete(c), NEW l \in Seq(Entries),
         NEW r, NEW ms, NEW k, Follows(c, l, r, ms, k)
  PROVE  Follows(Front(c), l, Front(r), ms, k)
<1>1. /\ ObjectsAre(ms) /\ FramesAre(c, l, r, ms) /\ CallsApart(c, r, ms, k)
      /\ MembersApart(ms, k) /\ AllRead(ms, r) /\ CacheIs(k, ms) /\ RootIs(r, ms)
  BY DEF Follows
<1>2. PICK n \in Nat \ {0} : n = Len(c) /\ n \in 1 .. n /\ Last(c) = c[n] /\ Last(c) \in Calls
  BY TopIs
<1>3. /\ Len(r) = n /\ Last(r) = r[n] /\ FrameIs(Last(r), Last(c), l, ms) /\ r # <<>>
      /\ r \in Seq(Frames)
  BY <1>1, <1>2, FramesIs DEF FramesAre
<1>4. PICK d : d = Front(c)
  OBVIOUS
<1>5. PICK q : q = Front(r)
  OBVIOUS
<1>6. /\ FramesAre(d, l, q, ms) /\ CallsApart(d, q, ms, k) /\ Len(d) = n - 1
      /\ \A i \in 1 .. n - 1 : q[i] = r[i]
  BY <1>1, <1>2, <1>4, <1>5, FramePopped
<1>7. Len(q) = n - 1
  BY <1>6 DEF FramesAre
<1>8. AllRead(ms, q)
  <2>1. ASSUME NEW o \in 1 .. Len(ms), ~(Len(ms[o].members) = Len(MembersOf(ms[o].of)))
        PROVE  \E i \in 1 .. Len(q) : q[i].call = "Read" /\ q[i].object = o
    <3>1. PICK i \in 1 .. n : r[i].call = "Read" /\ r[i].object = o
      BY <1>1, <1>3, <2>1 DEF AllRead
    <3>2. i # n
      <4>1. SUFFICES ASSUME i = n PROVE FALSE
        OBVIOUS
      <4>2. Last(c).call = "Read"
        BY <1>3, <3>1, <4>1 DEF FrameIs
      <4>3. ms[o].of = Last(c).node /\ Len(ms[o].members) = Last(c).next - 1
        BY <1>3, <3>1, <4>1, <4>2 DEF FrameIs
      <4>4. Last(c).next = Len(MembersOf(Last(c).node)) + 1
        BY <4>2 DEF Complete
      <4>5. Len(MembersOf(Last(c).node)) \in Nat
        BY <1>2, <4>2, CallIs, GraphIs
      <4>6. Len(ms[o].members) = Len(MembersOf(ms[o].of))
        BY <4>3, <4>4, <4>5
      <4>7. QED
        BY <2>1, <4>6
    <3>3. i \in 1 .. n - 1
      BY <1>2, <3>2
    <3>4. QED
      BY <1>6, <1>7, <3>1, <3>3
  <2>2. QED
    BY <2>1 DEF AllRead
<1>9. RootIs(q, ms)
  BY <1>1, <1>3 DEF RootIs
<1>10. QED
  BY <1>1, <1>4, <1>5, <1>6, <1>8, <1>9 DEF Follows

\* The object of the call on top may become the next member of the call below.
LEMMA GivenMayJoin ==
  ASSUME graph \in Graphs, NEW c, Nested(c), c # <<>>, Gives(c, Len(c)), NEW l,
         NEW r, NEW ms, NEW k, Follows(c, l, r, ms, k)
  PROVE  /\ MayJoin(Front(c), Front(r), ms, k, Last(r).object, MemberAt(Last(Front(c))))
         /\ Last(Front(c)).call = "Read"
<1>1. /\ FramesAre(c, l, r, ms) /\ CallsApart(c, r, ms, k) /\ c \in Seq(Calls)
  BY DEF Follows, Nested
<1>2. PICK n \in Nat \ {0} : n = Len(c) /\ n \in 1 .. n /\ Last(c) = c[n] /\ Last(c) \in Calls
  BY <1>1, TopIs
<1>3. Len(r) = n /\ Last(r) = r[n] /\ FrameIs(r[n], c[n], l, ms)
  BY <1>1, <1>2, FramesIs
<1>4. PICK d : d = Front(c)
  OBVIOUS
<1>5. PICK q : q = Front(r)
  OBVIOUS
<1>6. /\ n > 1 /\ Gives(c, n)
      /\ \/ c[n].call = "Read" /\ c[n - 1].call = "Read"
         \/ c[n].call = "ReadNetObject" /\ c[n].stage = "full"
  BY <1>2 DEF Gives
<1>7. /\ Len(d) = n - 1 /\ \A i \in 1 .. n - 1 : q[i] = r[i] /\ d[i] = c[i]
  BY <1>1, <1>2, <1>4, <1>5, FramePopped
<1>8. n - 1 \in 1 .. n - 1 /\ n - 1 \in Nat
  BY <1>6
<1>9. d # <<>> /\ Last(d) = c[n - 1] /\ d \in Seq(Calls)
  <2>1. Nested(d)
    BY <1>4, Popped
  <2>2. d \in Seq(Calls)
    BY <2>1 DEF Nested
  <2>3. d # <<>>
    BY <1>7, <1>8
  <2>4. QED
    BY <1>7, <1>8, <2>2, <2>3, TopIs
<1>10. NestedAt(c, n)
  BY <1>2 DEF Nested
<1>11. c[n - 1].call = "Read"
  BY <1>6, <1>10 DEF NestedAt
<1>12. AtMemberOf(Last(d))
  <2>1. Last(c).call = "Read" => Len(c) > 1 /\ Last(Front(c)).call = "Read"
    BY <1>2, <1>4, <1>6, <1>9, <1>11
  <2>2. QED
    BY <1>4, <2>1, ReturnIs
<1>13. PICK member : member = MemberAt(Last(d))
  OBVIOUS
<1>14. PICK x : x = r[n].object
  OBVIOUS
<1>15. ApartAt(c, r, ms, k, n)
  BY <1>1, <1>2 DEF CallsApart
<1>16. \A i \in 1 .. n - 1 : (Gives(d, i) <=> Gives(c, i)) /\ (Shared(d, i) <=> Shared(c, i))
  <2>1. \A i \in 1 .. n - 1 : i > 1 => i - 1 \in 1 .. n - 1
    BY <1>2
  <2>2. QED
    BY <1>7, <2>1 DEF Gives, Shared
<1>17. /\ x \in 1 .. Len(ms) /\ ms[x].of = member.to
       /\ Shared(c, n) <=> member.asReference
       /\ Shared(c, n) => member = c[n].member
  <2>1. CASE c[n].call = "Read"
    <3>1. ~IsTracked(member) /\ c[n].node = member.to
      BY <1>6, <1>9, <1>10, <1>11, <1>13, <2>1 DEF NestedAt
    <3>2. QED
      BY <1>3, <1>14, <2>1, <3>1 DEF FrameIs, Shared, IsTracked
  <2>2. CASE c[n].call = "ReadNetObject" /\ c[n].stage = "full"
    <3>1. c[n].member = member
      BY <1>9, <1>10, <1>13, <2>2 DEF NestedAt
    <3>2. QED
      BY <1>3, <1>14, <2>2, <3>1 DEF FrameIs, Shared
  <2>3. QED
    BY <1>6, <2>1, <2>2
<1>18. CASE Shared(c, n)
  <2>1. Tracked(k, x, member.to)
    BY <1>6, <1>14, <1>15, <1>17, <1>18 DEF ApartAt
  <2>2. ~Private(k, x)
    BY <2>1 DEF Tracked, Private
  <2>3. ASSUME NEW i \in 1 .. n - 1, Gives(d, i), ~Shared(d, i) PROVE q[i].object # x
    <3>1. i \in 1 .. n
      BY <1>2
    <3>2. ApartAt(c, r, ms, k, i)
      BY <1>1, <1>2, <3>1 DEF CallsApart
    <3>3. Private(k, r[i].object)
      BY <1>16, <2>3, <3>2 DEF ApartAt
    <3>4. QED
      BY <1>7, <2>2, <3>3
  <2>4. QED
    BY <1>3, <1>4, <1>5, <1>7, <1>9, <1>11, <1>12, <1>13, <1>14, <1>17, <1>18, <2>1, <2>3
    DEF MayJoin
<1>19. CASE ~Shared(c, n)
  <2>1. /\ Private(k, x) /\ ~Attached(ms, x)
        /\ \A j \in 1 .. n - 1 : Gives(c, j) \/ c[j].call = "Read" => r[j].object # x
    BY <1>6, <1>14, <1>15, <1>19 DEF ApartAt
  <2>2. \A i \in 1 .. n - 1 : Gives(d, i) /\ ~Shared(d, i) => q[i].object # x
    BY <1>7, <1>16, <2>1
  <2>3. QED
    BY <1>3, <1>4, <1>5, <1>7, <1>9, <1>11, <1>12, <1>13, <1>14, <1>17, <1>19, <2>1, <2>2
    DEF MayJoin
<1>20. QED
  BY <1>18, <1>19

LEMMA GivenFollows ==
  ASSUME graph \in Graphs, NEW c, Nested(c), c # <<>>, Complete(c), Gives(c, Len(c)),
         NEW l \in Seq(Entries), NEW r, NEW ms, NEW k, Follows(c, l, r, ms, k),
         NEW ns, ns = Joined(ms, Last(Front(r)).object, Last(r).object)
  PROVE  /\ Follows(Moved(Front(c)), l, Front(r), ns, k)
         /\ Last(Front(r)).call = "Read" /\ Front(r) # <<>>
<1>1. Follows(Front(c), l, Front(r), ms, k)
  BY PoppedFollows DEF Nested
<1>2. Nested(Front(c))
  BY Popped
<1>3. /\ MayJoin(Front(c), Front(r), ms, k, Last(r).object, MemberAt(Last(Front(c))))
      /\ Last(Front(c)).call = "Read"
  BY GivenMayJoin
<1>4. Follows(Moved(Front(c)), l, Front(r), ns, k)
  BY <1>1, <1>2, <1>3, JoinedFollows
<1>5. Last(Front(r)).call = "Read" /\ Front(r) # <<>>
  <2>1. FramesAre(Front(c), l, Front(r), ms) /\ Front(c) # <<>> /\ Front(c) \in Seq(Calls)
    BY <1>1, <1>2, <1>3 DEF Follows, Nested, MayJoin
  <2>2. FrameIs(Last(Front(r)), Last(Front(c)), l, ms) /\ Front(r) # <<>>
    BY <2>1, FramesIs
  <2>3. QED
    BY <1>3, <2>2 DEF FrameIs
<1>6. QED
  BY <1>4, <1>5

\* The call below the one on top.
LEMMA BelowIs ==
  ASSUME NEW c, Nested(c), c # <<>>, NEW l, NEW r, NEW ms, FramesAre(c, l, r, ms)
  PROVE  /\ Len(r) = Len(c) /\ Len(c) \in Nat \ {0} /\ (Front(r) = <<>> <=> Len(c) = 1)
         /\ Front(r) # <<>> =>
              /\ Len(c) > 1 /\ Front(c) # <<>> /\ Last(Front(c)) = c[Len(c) - 1]
              /\ Last(Front(r)) = r[Len(c) - 1] /\ Last(Front(r)) \in Frames
              /\ FrameIs(Last(Front(r)), c[Len(c) - 1], l, ms)
<1>1. c \in Seq(Calls)
  BY DEF Nested
<1>2. PICK n \in Nat : Len(c) = n + 1 /\ r \in Seq(Frames) /\ Len(r) = n + 1
  <2>1. Len(c) \in Nat \ {0} /\ r \in Seq(Frames) /\ Len(r) = Len(c)
    BY <1>1, TopIs DEF FramesAre
  <2>2. Len(c) - 1 \in Nat /\ (Len(c) - 1) + 1 = Len(c)
    BY <2>1
  <2>3. QED
    BY <2>1, <2>2
<1>3. Front(c) \in Seq(Calls) /\ Len(Front(c)) = n /\ \A i \in 1 .. n : Front(c)[i] = c[i]
  BY <1>1, <1>2, FrontIs
<1>4. Front(r) \in Seq(Frames) /\ Len(Front(r)) = n /\ \A i \in 1 .. n : Front(r)[i] = r[i]
  BY <1>2, FrontIs
<1>5. Front(r) = <<>> <=> n = 0
  BY <1>4
<1>6. ASSUME Front(r) # <<>>
      PROVE  /\ n + 1 > 1 /\ Front(c) # <<>> /\ Last(Front(c)) = c[n]
             /\ Last(Front(r)) = r[n] /\ r[n] \in Frames /\ FrameIs(r[n], c[n], l, ms)
  <2>1. n \in 1 .. n /\ n \in 1 .. n + 1
    BY <1>2, <1>5, <1>6
  <2>2. Front(c) # <<>> /\ Last(Front(c)) = c[n] /\ Last(Front(r)) = r[n]
    BY <1>3, <1>4, <2>1 DEF Last
  <2>3. r[n] \in Frames
    BY <1>2, <2>1, ElementOfSeq
  <2>4. FrameIs(r[n], c[n], l, ms)
    BY <1>2, <2>1 DEF FramesAre
  <2>5. QED
    BY <2>1, <2>2, <2>3, <2>4
<1>7. (n + 1) - 1 = n /\ n + 1 \in Nat \ {0} /\ (n = 0 <=> n + 1 = 1)
  BY <1>2
<1>8. QED
  BY <1>2, <1>5, <1>6, <1>7

LEMMA FinishFollows ==
  ASSUME NEW c, NEW l, NEW t, NEW d, NEW m, Leads(c, l, t, d, m), t.tag = "leave",
         NEW r, NEW ms, NEW k, Follows(c, l, r, ms, k), Len(r) = 1
  PROVE  Follows(d, m, <<>>, ms, k) /\ ms # <<>>
<1>1. Leaves(c, l, t, d, m)
  BY WalksByTag, LeadsIs
<1>2. /\ c # <<>> /\ Last(c).call = "Read" /\ Last(c).next = Len(MembersOf(Last(c).node)) + 1
      /\ d = (IF Len(c) > 1 /\ Last(Front(c)).call = "Read" THEN Moved(Front(c)) ELSE Front(c))
      /\ m = l
  BY <1>1 DEF Leaves
<1>3. /\ graph \in Graphs /\ Nested(c) /\ c \in Seq(Calls) /\ l \in Seq(Entries)
      /\ FramesAre(c, l, r, ms) /\ RootIs(r, ms)
  BY LeadsIs DEF Follows
<1>4. Len(r) = Len(c) /\ (Front(r) = <<>> <=> Len(c) = 1) /\ r # <<>>
  <2>1. Len(r) = Len(c) /\ (Front(r) = <<>> <=> Len(c) = 1)
    BY <1>2, <1>3, BelowIs
  <2>2. r # <<>>
    BY <1>2, <1>3, FramesIs
  <2>3. QED
    BY <2>1, <2>2
<1>5. d = Front(c) /\ Front(r) = <<>>
  <2>1. Len(c) = 1
    BY <1>4
  <2>2. ~(Len(c) > 1)
    BY <2>1
  <2>3. d = Front(c)
    BY <1>2, <2>2
  <2>4. QED
    BY <1>4, <2>1, <2>3
<1>6. Follows(Front(c), l, Front(r), ms, k)
  BY <1>2, <1>3, PoppedFollows DEF Complete
<1>7. QED
  BY <1>2, <1>3, <1>4, <1>5, <1>6 DEF RootIs

LEMMA ReadMemberFollows ==
  ASSUME NEW c, NEW l, NEW t, NEW d, NEW m, Leads(c, l, t, d, m), t.tag = "leave",
         NEW r, NEW ms, NEW k, Follows(c, l, r, ms, k),
         Front(r) # <<>>, Last(Front(r)).call = "Read",
         NEW ns, ns = Joined(ms, Last(Front(r)).object, Last(r).object)
  PROVE  Follows(d, m, Front(r), ns, k)
<1>1. Leaves(c, l, t, d, m)
  BY WalksByTag, LeadsIs
<1>2. /\ c # <<>> /\ Last(c).call = "Read" /\ Last(c).next = Len(MembersOf(Last(c).node)) + 1
      /\ d = (IF Len(c) > 1 /\ Last(Front(c)).call = "Read" THEN Moved(Front(c)) ELSE Front(c))
      /\ m = l
  BY <1>1 DEF Leaves
<1>3. /\ graph \in Graphs /\ Nested(c) /\ c \in Seq(Calls) /\ l \in Seq(Entries)
      /\ FramesAre(c, l, r, ms)
  BY LeadsIs DEF Follows
<1>4. /\ Len(c) > 1 /\ Last(Front(c)) = c[Len(c) - 1]
      /\ FrameIs(Last(Front(r)), c[Len(c) - 1], l, ms)
  BY <1>2, <1>3, BelowIs
<1>5. Last(Front(c)).call = "Read"
  BY <1>4 DEF FrameIs
<1>6. Gives(c, Len(c))
  <2>1. Last(c) = c[Len(c)]
    BY <1>2, <1>3, TopIs
  <2>2. QED
    BY <1>2, <1>4, <1>5, <2>1 DEF Gives
<1>7. d = Moved(Front(c))
  BY <1>2, <1>4, <1>5
<1>8. Complete(c)
  BY <1>2 DEF Complete
<1>9. QED
  BY <1>2, <1>3, <1>6, <1>7, <1>8, GivenFollows

LEMMA NetObjectEndFollows ==
  ASSUME NEW c, NEW l, NEW t, NEW d, NEW m, Leads(c, l, t, d, m), t.tag = "end",
         NEW r, NEW ms, NEW k, Follows(c, l, r, ms, k),
         NEW ns, ns = Joined(ms, Last(Front(r)).object, Last(r).object)
  PROVE  Follows(d, m, Front(r), ns, k) /\ Last(Front(r)).call = "Read" /\ Front(r) # <<>>
<1>1. InBundle(c, "full") /\ d = Moved(Front(c)) /\ m = l
  <2>1. Ends(c, l, t, d, m)
    BY WalksByTag, LeadsIs
  <2>2. QED
    BY <2>1 DEF Ends
<1>2. graph \in Graphs /\ Nested(c) /\ c \in Seq(Calls) /\ l \in Seq(Entries)
  BY LeadsIs
<1>3. c # <<>> /\ Last(c).call = "ReadNetObject" /\ Last(c).stage = "full"
  BY <1>1 DEF InBundle
<1>4. Gives(c, Len(c))
  <2>1. Last(c) = c[Len(c)] /\ Len(c) \in 1 .. Len(c)
    BY <1>2, <1>3, TopIs
  <2>2. NestedAt(c, Len(c))
    BY <1>2, <2>1 DEF Nested
  <2>3. QED
    BY <1>3, <2>1, <2>2 DEF Gives, NestedAt
<1>5. Complete(c)
  BY <1>3 DEF Complete
<1>6. QED
  BY <1>1, <1>2, <1>3, <1>4, <1>5, GivenFollows

LEMMA RecachedFollows ==
  ASSUME NEW c \in Seq(Calls), NEW l \in Seq(Entries), NEW r, NEW ms, NEW k,
         Follows(c, l, r, ms, k),
         NEW h, CacheIs(h, ms), \A x : IsEntry(h, x) <=> IsEntry(k, x)
  PROVE  Follows(c, l, r, ms, h)
<1>1. ms \in Seq(Made) /\ Len(ms) \in Nat
  BY DEF Follows, ObjectsAre
<1>2. FramesAre(c, l, r, ms) /\ CallsApart(c, r, ms, h)
  <2>1. Within(l, l) /\ Kept(ms, ms)
    BY <1>1 DEF Within, Kept
  <2>2. SameEntries(k, h, Len(ms))
    BY DEF SameEntries
  <2>3. QED
    BY <1>1, <2>1, <2>2, FramesStay DEF Follows
<1>3. MembersApart(ms, h)
  <2>1. ASSUME NEW o \in 1 .. Len(ms), NEW j \in 1 .. Len(ms[o].members)
        PROVE  MemberApart(ms, h, o, j)
    <3>1. MemberApart(ms, k, o, j)
      BY DEF Follows, MembersApart
    <3>2. QED
      BY <3>1 DEF MemberApart, Tracked, Private
  <2>2. QED
    BY <2>1 DEF MembersApart
<1>4. QED
  BY <1>2, <1>3 DEF Follows

\* The type of a bundle is keyed when its object has been read, if the object is not.
IsLate(f) == f.newObjectKey = NoKey /\ f.newTypeKey # NoKey

LEMMA ReadBundleFollows ==
  ASSUME NEW c, NEW l, NEW t, NEW d, NEW m, Leads(c, l, t, d, m), t.tag = "leave",
         NEW r, NEW ms, NEW k, Follows(c, l, r, ms, k),
         Front(r) # <<>>, NEW f, f = Last(Front(r)), f.call # "Read",
         NEW h, h = IF IsLate(f) THEN WithKey(k, f.newTypeKey, TypeEntry(f.type)) ELSE k,
         IsLate(f) => CanSet(k, f.newTypeKey, TypeEntry(f.type))
  PROVE  Follows(d, m, Front(r), ms, h)
<1>1. Leaves(c, l, t, d, m)
  BY WalksByTag, LeadsIs
<1>2. /\ c # <<>> /\ Last(c).call = "Read" /\ Last(c).next = Len(MembersOf(Last(c).node)) + 1
      /\ d = (IF Len(c) > 1 /\ Last(Front(c)).call = "Read" THEN Moved(Front(c)) ELSE Front(c))
      /\ m = l
  BY <1>1 DEF Leaves
<1>3. /\ graph \in Graphs /\ Lists /\ Nested(c) /\ c \in Seq(Calls) /\ l \in Seq(Entries)
      /\ FramesAre(c, l, r, ms) /\ CacheIs(k, ms) /\ ms \in Seq(Made)
  BY LeadsIs DEF Follows, ObjectsAre
<1>4. /\ Len(c) \in Nat \ {0} /\ Len(c) > 1 /\ Front(c) # <<>>
      /\ Last(Front(c)) = c[Len(c) - 1] /\ FrameIs(f, c[Len(c) - 1], l, ms)
  BY <1>2, <1>3, BelowIs
<1>5. PICK e : e = c[Len(c) - 1]
  OBVIOUS
<1>6. /\ e \in Calls /\ NestedAt(c, Len(c) - 1) /\ Len(c) - 1 < Len(c)
  <2>1. Len(c) - 1 \in 1 .. Len(c)
    BY <1>4
  <2>2. e \in Calls
    BY <1>3, <1>5, <2>1, ElementOfSeq
  <2>3. NestedAt(c, Len(c) - 1)
    BY <1>3, <2>1 DEF Nested
  <2>4. QED
    BY <1>4, <2>2, <2>3
<1>7. f.call = e.call /\ e.call # "Read" /\ e.call = "ReadNetObject"
  <2>1. f.call = e.call
    BY <1>4, <1>5 DEF FrameIs
  <2>2. QED
    BY <1>6, <2>1, CallIs
<1>8. e.stage = "full" /\ HasTypeKey(f, e, l)
  BY <1>4, <1>5, <1>6, <1>7 DEF NestedAt, FrameIs
<1>9. d = Front(c)
  BY <1>2, <1>4, <1>5, <1>7
<1>10. Follows(Front(c), l, Front(r), ms, k) /\ Front(c) \in Seq(Calls)
  BY <1>2, <1>3, PoppedFollows, Popped DEF Complete, Nested
<1>11. CASE IsLate(f)
  <2>1. HasKey(l, f.newTypeKey, TypeEntry(f.type)) /\ f.type = graph.type[e.member.to]
    BY <1>8, <1>11 DEF IsLate, HasTypeKey
  <2>2. f.type \in Nat
    <3>1. e.member \in MemberType
      BY <1>6, <1>7, CallIs
    <3>2. e.member.to \in Nodes
      BY <3>1 DEF MemberType
    <3>3. QED
      BY <1>3, <2>1, <3>2, GraphIs
  <2>3. HasKey(keyed, f.newTypeKey, TypeEntry(f.type))
    BY <1>2, <2>1, LeadsIs
  <2>4. h = WithKey(k, f.newTypeKey, TypeEntry(f.type))
        /\ CanSet(k, f.newTypeKey, TypeEntry(f.type))
    BY <1>11
  <2>5. CacheIs(h, ms) /\ \A x : IsEntry(h, x) <=> IsEntry(k, x)
    BY <1>3, <2>2, <2>3, <2>4, CachedType
  <2>6. QED
    BY <1>2, <1>3, <1>9, <1>10, <2>5, RecachedFollows
<1>12. CASE ~IsLate(f)
  BY <1>2, <1>9, <1>10, <1>12
<1>13. QED
  BY <1>11, <1>12

\* The keys of a bundle are set when its object is made.
Sets(f, k, new, h) ==
  IF f.newObjectKey = NoKey THEN h = k
  ELSE \E g : /\ CanSet(k, f.newObjectKey, Entry(new))
              /\ g = WithKey(k, f.newObjectKey, Entry(new))
              /\ IF f.newTypeKey = NoKey THEN h = g
                 ELSE /\ CanSet(g, f.newTypeKey, TypeEntry(f.type))
                      /\ h = WithKey(g, f.newTypeKey, TypeEntry(f.type))

\* The frame has the keys of the node and of its type.
KeysOf(f, node) ==
  /\ f.type \in Nat
  /\ f.newObjectKey # NoKey => HasKey(keyed, f.newObjectKey, Entry(node))
  /\ f.newTypeKey # NoKey => HasKey(keyed, f.newTypeKey, TypeEntry(f.type))

LEMMA ObjectCached ==
  ASSUME graph \in Graphs, Lists, NEW k, NEW ms, ObjectsAre(ms), CacheIs(k, ms),
         NEW node \in Nodes, NEW ns, ns = WithNew(ms, node),
         NEW f, NEW h, Sets(f, k, Len(ns), h), KeysOf(f, node)
  PROVE  /\ CacheIs(h, ns) /\ SameEntries(k, h, Len(ms))
         /\ IF f.newObjectKey = NoKey THEN ~IsEntry(h, Len(ns))
            ELSE IsEntry(h, Len(ns)) /\ ~IsRoot(Entry(node))
<1>1. /\ ObjectsAre(ns) /\ Len(ns) = Len(ms) + 1 /\ Len(ms) \in Nat
      /\ \A o \in 1 .. Len(ms) : ns[o] = ms[o]
      /\ ns[Len(ms) + 1].of = node
  BY MadeOn
<1>2. Kept(ms, ns) /\ ms \in Seq(Made) /\ ns \in Seq(Made)
  BY <1>1 DEF Kept, ObjectsAre
<1>3. CASE f.newObjectKey = NoKey
  <2>1. h = k
    BY <1>3 DEF Sets
  <2>2. CacheIs(h, ns)
    BY <1>2, <2>1, CacheKept
  <2>3. ~IsEntry(h, Len(ns))
    <3>1. SUFFICES ASSUME IsEntry(k, Len(ns)) PROVE FALSE
      BY <2>1
    <3>2. Len(ns) \in 1 .. Len(ms)
      BY <3>1, EntryIs
    <3>3. QED
      BY <1>1, <3>2
  <2>4. QED
    BY <1>3, <2>1, <2>2, <2>3 DEF SameEntries
<1>4. CASE f.newObjectKey # NoKey
  <2>1. PICK g : /\ CanSet(k, f.newObjectKey, Entry(Len(ns)))
                 /\ g = WithKey(k, f.newObjectKey, Entry(Len(ns)))
                 /\ IF f.newTypeKey = NoKey THEN h = g
                    ELSE /\ CanSet(g, f.newTypeKey, TypeEntry(f.type))
                         /\ h = WithKey(g, f.newTypeKey, TypeEntry(f.type))
    BY <1>4 DEF Sets
  <2>2. HasKey(keyed, f.newObjectKey, Entry(ns[Len(ns)].of))
    BY <1>1, <1>4 DEF KeysOf
  <2>3. CacheIs(g, ns) /\ IsEntry(g, Len(ns)) /\ SameEntries(k, g, Len(ms))
    BY <1>1, <1>2, <2>1, <2>2, CachedObject
  <2>4. CacheIs(h, ns) /\ \A x : IsEntry(h, x) <=> IsEntry(g, x)
    <3>1. CASE f.newTypeKey = NoKey
      BY <2>1, <2>3, <3>1
    <3>2. CASE f.newTypeKey # NoKey
      BY <1>2, <2>1, <2>3, <3>2, CachedType DEF KeysOf
    <3>3. QED
      BY <3>1, <3>2
  <2>5. ~IsRoot(Entry(node))
    <3>1. SUFFICES ASSUME IsRoot(Entry(node)) PROVE FALSE
      OBVIOUS
    <3>2. rooted /\ Entry(node) = Entry(graph.root)
      BY <3>1 DEF IsRoot
    <3>3. Contains(keyed, Entry(node))
      BY <1>4 DEF HasKey, Contains, Lists, KeysOf
    <3>4. QED
      BY <3>2, <3>3 DEF Lists
  <2>6. QED
    BY <1>4, <2>3, <2>4, <2>5 DEF SameEntries
<1>5. QED
  BY <1>3, <1>4

\* The node becomes the object new, the objects ns, the cache h and the calls q.
MakesField(r, ms, k, node, ns, h, b, q, new) ==
  /\ ns = WithNew(ms, node) /\ new = Len(ms) + 1 /\ Sets(Last(r), k, new, h)
  /\ b = WithObject(r, new) /\ ReadsNext(b, node, new, q)

LEMMA ObjectFieldFollows ==
  ASSUME NEW c, NEW l, NEW t, NEW d, NEW m, Leads(c, l, t, d, m), t.tag = "object",
         NEW r, NEW ms, NEW k, Follows(c, l, r, ms, k),
         NEW ns, NEW h, NEW b, NEW q, NEW new, MakesField(r, ms, k, t.of, ns, h, b, q, new)
  PROVE  Follows(d, m, q, ns, h) /\ Last(r).type = graph.type[t.of]
<1>1. PICK node : node = t.of
  OBVIOUS
<1>2. /\ \/ InBundle(c, "typed")
         \/ InBundle(c, "keyed") /\ ~Last(c).member.dynamicType
      /\ node = Target(c) /\ m = l
      /\ d = (IF IsString(node) THEN Staged(c, "full")
              ELSE Append(Staged(c, "full"), R(node, 1)))
  <2>1. Objects(c, l, t, d, m)
    BY WalksByTag, LeadsIs
  <2>2. QED
    BY <1>1, <2>1 DEF Objects
<1>3. /\ graph \in Graphs /\ Lists /\ c \in Seq(Calls) /\ l \in Seq(Entries) /\ Within(l, m)
      /\ ObjectsAre(ms) /\ FramesAre(c, l, r, ms) /\ AllRead(ms, r) /\ CacheIs(k, ms)
      /\ RootIs(r, ms)
  BY LeadsIs DEF Follows
<1>4. PICK stage : InBundle(c, stage) /\ stage \in {"typed", "keyed"}
                   /\ (stage = "keyed" => ~Last(c).member.dynamicType)
  BY <1>2
<1>5. /\ c # <<>> /\ Last(c).call = "ReadNetObject" /\ Last(c).stage = stage
      /\ node = Last(c).member.to /\ node \in Nodes /\ graph.type[node] \in Nat \ {0}
      /\ Last(r) \in Frames /\ Last(r).call = "ReadNetObject" /\ Last(r).type \in Nat
      /\ HasObjectKey(Last(r), Last(c), l) /\ HasTypeKey(Last(r), Last(c), l)
      /\ HasType(Last(r), Last(c))
  BY <1>2, <1>3, <1>4, BundleFrame
<1>6. PICK n \in Nat \ {0} : n = Len(c)
  BY <1>3, <1>5, TopIs
<1>7. Len(r) = n /\ Last(r) = r[n] /\ r # <<>> /\ ms # <<>> /\ r \in Seq(Frames)
  <2>1. Len(r) = Len(c) /\ Last(r) = r[Len(c)] /\ r # <<>>
    BY <1>3, <1>5, FramesIs
  <2>2. QED
    BY <1>3, <1>6, <2>1 DEF RootIs, FramesAre
<1>8. Last(r).type = graph.type[node]
  BY <1>4, <1>5 DEF HasType
<1>9. /\ Last(c).member.asReference <=> Last(r).newObjectKey # NoKey
      /\ Last(r).newObjectKey # NoKey => HasKey(l, Last(r).newObjectKey, Entry(node))
      /\ Last(r).newTypeKey # NoKey => HasKey(l, Last(r).newTypeKey, TypeEntry(Last(r).type))
  BY <1>4, <1>5, <1>8 DEF HasObjectKey, HasTypeKey
<1>10. Len(ns) = Len(ms) + 1 /\ Len(ms) \in Nat /\ ns = WithNew(ms, node)
  <2>1. ns = WithNew(ms, node)
    BY <1>1 DEF MakesField
  <2>2. QED
    BY <1>3, <1>5, <2>1, MadeOn
<1>11. /\ new = Len(ms) + 1 /\ Len(ms) \in Nat /\ ns = WithNew(ms, node) /\ new \in Nat
       /\ new = Len(ns)
  BY <1>10 DEF MakesField
<1>12. /\ CacheIs(h, ns) /\ SameEntries(k, h, Len(ms))
       /\ IF Last(r).newObjectKey = NoKey THEN ~IsEntry(h, new)
          ELSE IsEntry(h, new) /\ ~IsRoot(Entry(node))
  <2>1. Sets(Last(r), k, Len(ns), h)
    BY <1>11 DEF MakesField
  <2>2. KeysOf(Last(r), node)
    BY <1>2, <1>5, <1>9, LeadsIs DEF KeysOf
  <2>3. /\ CacheIs(h, ns) /\ SameEntries(k, h, Len(ms))
        /\ IF Last(r).newObjectKey = NoKey THEN ~IsEntry(h, Len(ns))
           ELSE IsEntry(h, Len(ns)) /\ ~IsRoot(Entry(node))
    BY <1>3, <1>5, <1>11, <2>1, <2>2, ObjectCached
  <2>4. QED
    BY <1>11, <2>3
<1>13. Makes(c, l, r, ms, k, node, ns, h)
  BY <1>3, <1>5, <1>7, <1>11, <1>12 DEF Makes
<1>14. /\ ObjectsAre(ns) /\ FramesAre(c, l, r, ns) /\ CallsApart(c, r, ns, h)
       /\ MembersApart(ns, h) /\ ns[1].of = graph.root /\ ns # <<>>
       /\ ns[new].of = node /\ Len(ns[new].members) = 0
       /\ ~Attached(ns, new) /\ new # 1
       /\ \A j \in 1 .. Len(c) : Gives(c, j) \/ c[j].call = "Read" => r[j].object # new
       /\ \A o \in 1 .. Len(ms) : ns[o] = ms[o]
  <2>1. /\ ObjectsAre(ns) /\ FramesAre(c, l, r, ns) /\ CallsApart(c, r, ns, h)
        /\ MembersApart(ns, h) /\ ns[1].of = graph.root /\ ns # <<>>
        /\ ns[Len(ns)].of = node /\ Len(ns[Len(ns)].members) = 0
        /\ ~Attached(ns, Len(ns)) /\ (r # <<>> => Len(ns) # 1)
        /\ \A j \in 1 .. Len(c) : Gives(c, j) \/ c[j].call = "Read" => r[j].object # Len(ns)
        /\ \A o \in 1 .. Len(ms) : ns[o] = ms[o]
    BY <1>13, ObjectMade
  <2>2. QED
    BY <1>7, <1>11, <2>1
<1>15. PICK f : f = [Last(r) EXCEPT !.object = new]
  OBVIOUS
<1>16. /\ f \in Frames /\ f.call = "ReadNetObject" /\ f.object = new /\ f.type = Last(r).type
       /\ f.newObjectKey = Last(r).newObjectKey /\ f.newTypeKey = Last(r).newTypeKey
  BY <1>5, <1>11, <1>15, FrameOn
<1>17. "full" \in Stages
  BY DEF Stages
<1>18. PICK e : e = B(Last(c).member, "full")
  OBVIOUS
<1>19. e.call = "ReadNetObject" /\ e.member = Last(c).member /\ e.stage = "full"
  BY <1>3, <1>4, <1>17, <1>18, BundleFrame
<1>20. FrameIs(f, e, l, ns)
  <2>1. HasObjectKey(f, e, l)
    BY <1>5, <1>9, <1>16, <1>19 DEF HasObjectKey
  <2>2. HasTypeKey(f, e, l)
    BY <1>4, <1>5, <1>8, <1>9, <1>16, <1>19 DEF HasTypeKey
  <2>3. HasType(f, e)
    BY <1>5, <1>8, <1>16, <1>19 DEF HasType
  <2>4. new \in 1 .. Len(ns) /\ ns[new].of = e.member.to
    BY <1>5, <1>11, <1>14, <1>19
  <2>5. QED
    BY <1>16, <1>19, <2>1, <2>2, <2>3, <2>4 DEF FrameIs
<1>21. Giveable(c, r, ns, h, "full", f.object)
  <2>1. CASE Last(c).member.asReference
    BY <1>5, <1>9, <1>12, <1>16, <2>1 DEF Giveable, Tracked
  <2>2. CASE ~Last(c).member.asReference
    <3>1. Private(h, new)
      BY <1>9, <1>12, <1>14, <2>2 DEF Private
    <3>2. \A j \in 1 .. Len(c) - 1 : Gives(c, j) \/ c[j].call = "Read" => r[j].object # new
      BY <1>6, <1>14
    <3>3. QED
      BY <1>14, <1>16, <2>2, <3>1, <3>2 DEF Giveable
  <2>3. QED
    BY <2>1, <2>2
<1>22. b = [r EXCEPT ![Len(c)] = f]
  BY <1>6, <1>7, <1>11, <1>15 DEF MakesField, WithObject
<1>23. GoesOn(c, l, r, ns, h, l, "full", f, b)
  BY <1>2, <1>3, <1>5, <1>16, <1>17, <1>18, <1>20, <1>21, <1>22 DEF GoesOn
<1>24. PICK x : x = Staged(c, "full")
  OBVIOUS
<1>25. /\ FramesAre(x, l, b, ns) /\ CallsApart(x, b, ns, h)
       /\ x \in Seq(Calls) /\ Len(x) = n /\ Len(b) = n /\ b[n] = f
       /\ \A i \in 1 .. n - 1 : b[i] = r[i] /\ x[i] = c[i]
  <2>1. /\ FramesAre(Staged(c, "full"), l, b, ns) /\ CallsApart(Staged(c, "full"), b, ns, h)
        /\ Edited(c, r, Staged(c, "full"), b, f)
    BY <1>14, <1>23, FrameGoesOn
  <2>2. QED
    BY <1>6, <1>24, <2>1 DEF Edited
<1>26. ASSUME NEW o \in 1 .. Len(ms)
       PROVE  \/ Len(ns[o].members) = Len(MembersOf(ns[o].of))
              \/ \E i \in 1 .. n - 1 : b[i].call = "Read" /\ b[i].object = o
  <2>1. SUFFICES ASSUME ~(Len(ms[o].members) = Len(MembersOf(ms[o].of)))
                 PROVE  \E i \in 1 .. n - 1 : b[i].call = "Read" /\ b[i].object = o
    BY <1>14
  <2>2. PICK i \in 1 .. n : r[i].call = "Read" /\ r[i].object = o
    BY <1>3, <1>7, <2>1 DEF AllRead
  <2>3. i # n
    BY <1>5, <1>7, <2>2
  <2>4. i \in 1 .. n - 1
    BY <1>6, <2>3
  <2>5. QED
    BY <1>25, <2>2, <2>4
<1>27. \A o \in 1 .. new : o = new \/ o \in 1 .. Len(ms)
  BY <1>11
<1>28. CASE IsString(node)
  <2>1. q = b /\ d = x
    BY <1>1, <1>2, <1>24, <1>28 DEF MakesField, ReadsNext
  <2>2. MembersOf(node) = <<>>
    BY <1>3, <1>5, <1>28, GraphIs
  <2>3. AllRead(ns, b)
    <3>1. ASSUME NEW o \in 1 .. new
          PROVE  \/ Len(ns[o].members) = Len(MembersOf(ns[o].of))
                 \/ \E i \in 1 .. Len(b) : b[i].call = "Read" /\ b[i].object = o
      <4>1. CASE o = new
        BY <1>14, <2>2, <4>1
      <4>2. CASE o \in 1 .. Len(ms)
        BY <1>6, <1>25, <1>26, <4>2
      <4>3. QED
        BY <1>27, <4>1, <4>2
    <3>2. QED
      BY <1>11, <3>1 DEF AllRead
  <2>4. RootIs(b, ns)
    BY <1>14 DEF RootIs
  <2>5. Follows(x, l, b, ns, h)
    BY <1>12, <1>14, <1>25, <2>3, <2>4 DEF Follows
  <2>6. QED
    BY <1>1, <1>2, <1>8, <2>1, <2>5
<1>29. CASE ~IsString(node)
  <2>1. PICK g : g = Filling(new)
    OBVIOUS
  <2>2. PICK y : y = R(node, 1)
    OBVIOUS
  <2>3. q = Append(b, g) /\ d = Append(x, y)
    BY <1>1, <1>2, <1>11, <1>24, <1>29, <2>1, <2>2 DEF MakesField, ReadsNext, Fill
  <2>4. g \in Frames /\ g.call = "Read" /\ g.object = new
    BY <1>11, <2>1, FillingIs
  <2>5. y \in Calls /\ y.call = "Read" /\ y.node = node /\ y.next = 1
    BY <1>5, <2>2, CallsAre
  <2>6. FrameIs(g, y, l, ns)
    BY <1>11, <1>14, <2>4, <2>5 DEF FrameIs
  <2>7. b \in Seq(Frames)
    BY <1>25 DEF FramesAre
  <2>8. /\ Len(d) = n + 1 /\ d[n + 1] = y /\ \A i \in 1 .. n : d[i] = x[i]
        /\ q \in Seq(Frames) /\ Len(q) = n + 1 /\ q[n + 1] = g /\ \A i \in 1 .. n : q[i] = b[i]
    BY <1>25, <2>3, <2>4, <2>5, <2>7
  <2>9. n \in 1 .. n /\ (n + 1) - 1 = n
    BY <1>6
  <2>10. d[n].call = "ReadNetObject" /\ q[n].object = new
    <3>1. b[n].call = x[n].call
      BY <1>25, <2>9 DEF FramesAre, FrameIs
    <3>2. QED
      BY <1>16, <1>25, <2>8, <2>9, <3>1
  <2>11. ASSUME NEW j \in 1 .. n, d[j].call = "Read" PROVE q[j].object # new
    <3>1. j # n
      BY <2>10, <2>11
    <3>2. j \in 1 .. n - 1
      BY <1>6, <3>1
    <3>3. c[j].call = "Read" /\ q[j] = r[j]
      BY <1>25, <2>8, <2>11, <3>2
    <3>4. QED
      BY <1>6, <1>14, <3>3
  <2>12. ApartAt(d, q, ns, h, n + 1)
    <3>1. d[n + 1].call = "Read" /\ q[n + 1].object = new
      BY <2>4, <2>5, <2>8
    <3>2. ~Gives(d, n + 1)
      BY <2>9, <2>10, <3>1 DEF Gives
    <3>3. QED
      BY <2>9, <2>10, <2>11, <3>1, <3>2 DEF ApartAt
  <2>13. FramesAre(d, l, q, ns) /\ CallsApart(d, q, ns, h)
    <3>1. ApartAt(d, q, ns, h, Len(x) + 1)
      BY <1>25, <2>12
    <3>2. x \in Seq(Calls) /\ FramesAre(x, l, b, ns) /\ CallsApart(x, b, ns, h)
      BY <1>25
    <3>3. y \in Calls /\ g \in Frames
      BY <2>4, <2>5
    <3>4. QED
      BY <2>3, <2>6, <3>1, <3>2, <3>3, FramePushed
  <2>14. AllRead(ns, q)
    <3>1. ASSUME NEW o \in 1 .. new
          PROVE  \/ Len(ns[o].members) = Len(MembersOf(ns[o].of))
                 \/ \E i \in 1 .. Len(q) : q[i].call = "Read" /\ q[i].object = o
      <4>1. CASE o = new
        <5>1. n + 1 \in 1 .. Len(q)
          BY <2>8, <1>6
        <5>2. QED
          BY <2>4, <2>8, <4>1, <5>1
      <4>2. CASE o \in 1 .. Len(ms)
        <5>1. \A i \in 1 .. n - 1 : i \in 1 .. Len(q) /\ q[i] = b[i]
          BY <1>6, <2>8
        <5>2. QED
          BY <1>26, <4>2, <5>1
      <4>3. QED
        BY <1>27, <4>1, <4>2
    <3>2. QED
      BY <1>11, <3>1 DEF AllRead
  <2>15. RootIs(q, ns)
    BY <1>14 DEF RootIs
  <2>16. Follows(d, l, q, ns, h)
    BY <1>12, <1>14, <2>13, <2>14, <2>15 DEF Follows
  <2>17. QED
    BY <1>1, <1>2, <1>8, <2>16
<1>30. QED
  BY <1>28, <1>29

-----------------------------------------------------------------------------
(* The cache keeps up with the list.                                       *)

LEMMA BundleBehind ==
  ASSUME NEW c \in Seq(Calls), c # <<>>, Last(c).call = "ReadNetObject",
         NEW l, NEW r, NEW k, NEW nodes, Behind(c, l, r, k, nodes)
  PROVE  IF Last(c).stage = "full" THEN Level(c, l, r, k) ELSE Ahead(c, l, r, k)
<1>1. PICK n \in Nat \ {0} : n = Len(c) /\ n \in 1 .. n /\ Last(c) = c[n]
  BY TopIs
<1>2. ~Waits(c, l, r, k, nodes)
  <2>1. ASSUME NEW i \in 1 .. n - 1, \A j \in i + 1 .. n : c[j].call = "Read" PROVE FALSE
    <3>1. n \in i + 1 .. n
      BY <1>1
    <3>2. QED
      BY <1>1, <2>1, <3>1
  <2>2. QED
    BY <1>1, <2>1 DEF Waits
<1>3. QED
  BY <1>2 DEF Behind, Level, Ahead, Early

LEMMA ReadBehind ==
  ASSUME NEW c \in Seq(Calls), c # <<>> => Last(c).call = "Read",
         NEW l, NEW r, NEW k, NEW nodes, Behind(c, l, r, k, nodes)
  PROVE  Level(c, l, r, k) \/ (Waits(c, l, r, k, nodes) /\ c # <<>> /\ Last(c).node \in nodes)
<1>1. ~Ahead(c, l, r, k)
  BY DEF Ahead, Early
<1>2. ASSUME Waits(c, l, r, k, nodes) PROVE c # <<>> /\ Last(c).node \in nodes
  <2>1. PICK i \in 1 .. Len(c) - 1 :
               \A j \in i + 1 .. Len(c) : c[j].call = "Read" /\ c[j].node \in nodes
    BY <1>2 DEF Waits
  <2>2. c # <<>>
    BY <2>1
  <2>3. PICK n \in Nat \ {0} : n = Len(c) /\ Last(c) = c[n]
    BY <2>2, TopIs
  <2>4. n \in i + 1 .. Len(c)
    BY <2>1, <2>3
  <2>5. QED
    BY <2>1, <2>2, <2>3, <2>4
<1>3. QED
  BY <1>1, <1>2 DEF Behind

\* The bundle on top goes on to another stage.
LEMMA StagedBehind ==
  ASSUME NEW c, Nested(c), c # <<>>, Last(c).call = "ReadNetObject",
         NEW r, r \in Seq(Frames), Len(r) = Len(c), NEW k, NoneLate(c, r, Len(c)),
         NEW stage \in Stages, NEW f, NEW q, q = [r EXCEPT ![Len(r)] = f], NEW m,
         IF stage = "full" THEN Len(m) = Len(k) ELSE NextKeys(f, Len(k), Len(m))
  PROVE  IF stage = "full" THEN Level(Staged(c, stage), m, q, k)
         ELSE Ahead(Staged(c, stage), m, q, k)
<1>1. PICK d : d = Staged(c, stage)
  OBVIOUS
<1>2. PICK e : e = B(Last(c).member, stage)
  OBVIOUS
<1>3. PICK n \in Nat \ {0} : n = Len(c) /\ n \in 1 .. n /\ Last(c) \in Calls
  BY TopIs DEF Nested
<1>4. e \in Calls /\ e.call = "ReadNetObject" /\ e.stage = stage
  <2>1. Last(c).member \in MemberType
    BY <1>3, CallIs
  <2>2. QED
    BY <1>2, <2>1, CallsAre
<1>5. c \in Seq(Calls) /\ d = [c EXCEPT ![n] = e] /\ q = [r EXCEPT ![n] = f]
  BY <1>1, <1>2, <1>3 DEF Nested, Staged
<1>6. /\ Len(d) = n /\ d[n] = e /\ \A i \in 1 .. n - 1 : d[i] = c[i]
      /\ Len(q) = n /\ q[n] = f /\ \A i \in 1 .. n - 1 : q[i] = r[i]
  BY <1>3, <1>4, <1>5
<1>7. Last(d) = e /\ Last(q) = f /\ d # <<>>
  BY <1>3, <1>5, <1>6 DEF Last
<1>8. NoneLate(d, q, Len(d))
  BY <1>3, <1>6 DEF NoneLate, Late
<1>9. CASE stage = "full"
  <2>1. ~Early(d)
    BY <1>4, <1>7, <1>9 DEF Early
  <2>2. Level(d, m, q, k)
    BY <1>8, <1>9, <2>1 DEF Level
  <2>3. QED
    BY <1>1, <1>9, <2>2
<1>10. CASE stage # "full"
  <2>1. Early(d)
    BY <1>4, <1>7, <1>10 DEF Early
  <2>2. Ahead(d, m, q, k)
    BY <1>7, <1>8, <1>10, <2>1 DEF Ahead
  <2>3. QED
    BY <1>1, <1>10, <2>2
<1>11. QED
  BY <1>9, <1>10

\* The top of the calls is a bundle that is not read yet.
LEMMA BundleOnTop ==
  ASSUME NEW c, NEW l, NEW t, NEW d, NEW m, Leads(c, l, t, d, m),
         NEW r, NEW ms, NEW k, Follows(c, l, r, ms, k), NEW nodes, Behind(c, l, r, k, nodes),
         NEW stage, InBundle(c, stage), stage # "full"
  PROVE  /\ Nested(c) /\ c # <<>> /\ Last(c).call = "ReadNetObject" /\ Last(c).stage = stage
         /\ r \in Seq(Frames) /\ Len(r) = Len(c) /\ Last(r) = r[Len(r)] /\ Last(r) \in Frames
         /\ NoneLate(c, r, Len(c)) /\ NextKeys(Last(r), Len(k), Len(l))
         /\ HasObjectKey(Last(r), Last(c), l) /\ HasTypeKey(Last(r), Last(c), l)
         /\ HasType(Last(r), Last(c))
         /\ Len(k) \in Nat /\ Len(l) \in Nat /\ Len(m) \in Nat
<1>1. /\ FramesAre(c, l, r, ms) /\ CacheIs(k, ms) /\ c \in Seq(Calls) /\ graph \in Graphs
      /\ l \in Seq(Entries) /\ m \in Seq(Entries) /\ Nested(c)
  BY LeadsIs DEF Follows
<1>2. /\ c # <<>> /\ Last(c).call = "ReadNetObject" /\ Last(c).stage = stage
      /\ Last(r) \in Frames
      /\ HasObjectKey(Last(r), Last(c), l) /\ HasTypeKey(Last(r), Last(c), l)
      /\ HasType(Last(r), Last(c))
  BY <1>1, BundleFrame
<1>3. r \in Seq(Frames) /\ Len(r) = Len(c) /\ Last(r) = r[Len(r)]
  BY <1>1 DEF FramesAre, Last
<1>4. Ahead(c, l, r, k)
  BY <1>1, <1>2, BundleBehind
<1>5. QED
  BY <1>1, <1>2, <1>3, <1>4 DEF Ahead, CacheIs

LEMMA ExistingObjectBehind ==
  ASSUME NEW c, NEW l, NEW t, NEW d, NEW m, Leads(c, l, t, d, m), t.tag = "existingObject",
         NEW r, NEW ms, NEW k, Follows(c, l, r, ms, k), NEW nodes, Behind(c, l, r, k, nodes),
         NEW x, NEW q, q = WithObject(r, x)
  PROVE  Behind(d, m, q, k, nodes) /\ Len(k) = Len(l)
<1>1. InBundle(c, "start") /\ d = Staged(c, "full") /\ m = l
  <2>1. ExistingObjects(c, l, t, d, m)
    BY WalksByTag, LeadsIs
  <2>2. QED
    BY <2>1 DEF ExistingObjects
<1>2. /\ Nested(c) /\ c # <<>> /\ Last(c).call = "ReadNetObject" /\ Last(c).stage = "start"
      /\ r \in Seq(Frames) /\ Len(r) = Len(c) /\ Last(r) = r[Len(r)]
      /\ NoneLate(c, r, Len(c)) /\ NextKeys(Last(r), Len(k), Len(l))
      /\ HasObjectKey(Last(r), Last(c), l) /\ HasTypeKey(Last(r), Last(c), l)
  BY <1>1, BundleOnTop
<1>3. Len(k) = Len(l)
  BY <1>2 DEF HasObjectKey, HasTypeKey, NextKeys
<1>4. PICK f : f = [Last(r) EXCEPT !.object = x]
  OBVIOUS
<1>5. q = [r EXCEPT ![Len(r)] = f]
  BY <1>2, <1>4 DEF WithObject
<1>6. PICK stage \in Stages : stage = "full"
  BY DEF Stages
<1>7. Level(Staged(c, stage), m, q, k)
  BY <1>1, <1>2, <1>3, <1>5, <1>6, StagedBehind
<1>8. QED
  BY <1>1, <1>3, <1>6, <1>7 DEF Behind

LEMMA NewObjectKeyBehind ==
  ASSUME NEW c, NEW l, NEW t, NEW d, NEW m, Leads(c, l, t, d, m), t.tag = "newObject",
         NEW r, NEW ms, NEW k, Follows(c, l, r, ms, k), NEW nodes, Behind(c, l, r, k, nodes),
         NEW q, q = WithObjectKey(r, t.key)
  PROVE  Behind(d, m, q, k, nodes)
<1>1. /\ InBundle(c, "start") /\ d = Staged(c, "keyed")
      /\ t.key = Len(l) + 1 /\ m = Append(l, Entry(Target(c)))
  <2>1. NewObjects(c, l, t, d, m)
    BY WalksByTag, LeadsIs
  <2>2. QED
    BY <2>1 DEF NewObjects, Fresh
<1>2. /\ Nested(c) /\ c # <<>> /\ Last(c).call = "ReadNetObject" /\ Last(c).stage = "start"
      /\ r \in Seq(Frames) /\ Len(r) = Len(c) /\ Last(r) = r[Len(r)] /\ Last(r) \in Frames
      /\ NoneLate(c, r, Len(c)) /\ NextKeys(Last(r), Len(k), Len(l))
      /\ HasObjectKey(Last(r), Last(c), l) /\ HasTypeKey(Last(r), Last(c), l)
  BY <1>1, BundleOnTop
<1>3. Len(k) \in Nat /\ Len(l) \in Nat /\ Len(m) = Len(l) + 1
  <2>1. Len(k) \in Nat /\ Len(l) \in Nat
    BY <1>1, BundleOnTop
  <2>2. l \in Seq(Entries)
    BY LeadsIs
  <2>3. QED
    BY <1>1, <2>1, <2>2
<1>4. Len(k) = Len(l) /\ Last(r).newTypeKey = NoKey
  BY <1>2 DEF HasObjectKey, HasTypeKey, NextKeys
<1>5. PICK f : f = [Last(r) EXCEPT !.newObjectKey = t.key]
  OBVIOUS
<1>6. q = [r EXCEPT ![Len(r)] = f]
  BY <1>2, <1>5 DEF WithObjectKey
<1>7. f.newObjectKey = t.key /\ f.newTypeKey = NoKey
  <2>1. t.key \in Int
    BY <1>1, <1>3
  <2>2. QED
    BY <1>2, <1>4, <1>5, <2>1, FrameOn
<1>8. NextKeys(f, Len(k), Len(m))
  BY <1>1, <1>3, <1>4, <1>7 DEF NextKeys, NoKey
<1>9. PICK stage \in Stages : stage = "keyed"
  BY DEF Stages
<1>10. Ahead(Staged(c, stage), m, q, k)
  BY <1>2, <1>6, <1>8, <1>9, StagedBehind
<1>11. QED
  BY <1>1, <1>9, <1>10 DEF Behind

LEMMA ExistingTypeBehind ==
  ASSUME NEW c, NEW l, NEW t, NEW d, NEW m, Leads(c, l, t, d, m), t.tag = "existingType",
         NEW r, NEW ms, NEW k, Follows(c, l, r, ms, k), NEW nodes, Behind(c, l, r, k, nodes),
         NEW x, NEW q, q = WithType(r, x)
  PROVE  Behind(d, m, q, k, nodes) /\ t.key \in 1 .. Len(k)
<1>1. BeforeType(c) /\ d = Staged(c, "typed") /\ m = l /\ HasKey(l, t.key, TypeOf(c))
  <2>1. ExistingTypes(c, l, t, d, m)
    BY WalksByTag, LeadsIs
  <2>2. QED
    BY <2>1 DEF ExistingTypes
<1>2. PICK stage : /\ stage = IF Last(c).member.asReference THEN "keyed" ELSE "start"
                   /\ InBundle(c, stage)
  BY <1>1 DEF BeforeType
<1>3. /\ Nested(c) /\ c # <<>> /\ Last(c).call = "ReadNetObject" /\ Last(c).stage = stage
      /\ r \in Seq(Frames) /\ Len(r) = Len(c) /\ Last(r) = r[Len(r)] /\ Last(r) \in Frames
      /\ NoneLate(c, r, Len(c)) /\ NextKeys(Last(r), Len(k), Len(l))
      /\ HasObjectKey(Last(r), Last(c), l) /\ HasTypeKey(Last(r), Last(c), l)
      /\ Len(k) \in Nat /\ Len(l) \in Nat
  BY <1>2, BundleOnTop
<1>4. PICK f : f = [Last(r) EXCEPT !.type = x]
  OBVIOUS
<1>5. q = [r EXCEPT ![Len(r)] = f]
  BY <1>3, <1>4 DEF WithType
<1>6. f.newObjectKey = Last(r).newObjectKey /\ f.newTypeKey = Last(r).newTypeKey
  BY <1>3, <1>4 DEF Frames
<1>7. NextKeys(f, Len(k), Len(m))
  BY <1>1, <1>3, <1>6 DEF NextKeys
<1>8. PICK typed \in Stages : typed = "typed"
  BY DEF Stages
<1>9. Ahead(Staged(c, typed), m, q, k)
  BY <1>3, <1>5, <1>7, <1>8, StagedBehind
<1>10. t.key \in 1 .. Len(l) /\ l[t.key] = TypeOf(c)
  <2>1. l \in Seq(Entries)
    BY LeadsIs
  <2>2. QED
    BY <1>1, <2>1 DEF HasKey
<1>11. t.key \in 1 .. Len(k)
  <2>1. Last(r).newTypeKey = NoKey
    BY <1>2, <1>3 DEF HasTypeKey
  <2>2. CASE Last(r).newObjectKey = NoKey
    BY <1>3, <1>10, <2>1, <2>2 DEF NextKeys
  <2>3. CASE Last(r).newObjectKey # NoKey
    <3>1. Len(l) = Len(k) + 1 /\ Last(r).newObjectKey = Len(k) + 1
      BY <1>3, <2>1, <2>3 DEF NextKeys
    <3>2. l[Len(k) + 1] = Entry(Last(c).member.to)
      BY <1>3, <2>3, <3>1 DEF HasObjectKey, HasKey
    <3>3. l[t.key][1] = "type" /\ l[Len(k) + 1][1] = "object"
      BY <1>10, <3>2 DEF TypeOf, TypeEntry, Entry
    <3>4. t.key # Len(k) + 1
      BY <3>3
    <3>5. QED
      BY <1>3, <1>10, <3>1, <3>4
  <2>4. QED
    BY <2>2, <2>3
<1>12. QED
  BY <1>1, <1>8, <1>9, <1>11 DEF Behind

LEMMA NewTypeKeyBehind ==
  ASSUME NEW c, NEW l, NEW t, NEW d, NEW m, Leads(c, l, t, d, m), t.tag = "newType",
         NEW r, NEW ms, NEW k, Follows(c, l, r, ms, k), NEW nodes, Behind(c, l, r, k, nodes),
         NEW q, q = WithTypeKey(r, t.key)
  PROVE  Behind(d, m, q, k, nodes)
<1>1. /\ BeforeType(c) /\ d = Staged(c, "typing") /\ m = Append(l, TypeOf(c))
      /\ t.key = Len(l) + 1
  <2>1. NewTypes(c, l, t, d, m)
    BY WalksByTag, LeadsIs
  <2>2. QED
    BY <2>1 DEF NewTypes, Fresh
<1>2. PICK stage : /\ stage = IF Last(c).member.asReference THEN "keyed" ELSE "start"
                   /\ InBundle(c, stage)
  BY <1>1 DEF BeforeType
<1>3. /\ Nested(c) /\ c # <<>> /\ Last(c).call = "ReadNetObject" /\ Last(c).stage = stage
      /\ r \in Seq(Frames) /\ Len(r) = Len(c) /\ Last(r) = r[Len(r)] /\ Last(r) \in Frames
      /\ NoneLate(c, r, Len(c)) /\ NextKeys(Last(r), Len(k), Len(l))
      /\ HasTypeKey(Last(r), Last(c), l) /\ Len(k) \in Nat /\ Len(l) \in Nat
  BY <1>2, BundleOnTop
<1>4. Len(m) = Len(l) + 1
  <2>1. l \in Seq(Entries)
    BY LeadsIs
  <2>2. QED
    BY <1>1, <2>1
<1>5. Last(r).newTypeKey = NoKey
  BY <1>2, <1>3 DEF HasTypeKey
<1>6. PICK f : f = [Last(r) EXCEPT !.newTypeKey = t.key]
  OBVIOUS
<1>7. q = [r EXCEPT ![Len(r)] = f]
  BY <1>3, <1>6 DEF WithTypeKey
<1>8. f.newTypeKey = t.key /\ f.newObjectKey = Last(r).newObjectKey
  <2>1. t.key \in Int
    BY <1>1, <1>3
  <2>2. QED
    BY <1>3, <1>6, <2>1, FrameOn
<1>9. NextKeys(f, Len(k), Len(m))
  BY <1>1, <1>3, <1>4, <1>5, <1>8 DEF NextKeys, NoKey
<1>10. PICK typing \in Stages : typing = "typing"
  BY DEF Stages
<1>11. Ahead(Staged(c, typing), m, q, k)
  BY <1>3, <1>7, <1>9, <1>10, StagedBehind
<1>12. QED
  BY <1>1, <1>10, <1>11 DEF Behind

LEMMA TypeNameBehind ==
  ASSUME NEW c, NEW l, NEW t, NEW d, NEW m, Leads(c, l, t, d, m), t.tag = "typeName",
         NEW r, NEW ms, NEW k, Follows(c, l, r, ms, k), NEW nodes, Behind(c, l, r, k, nodes),
         NEW x, NEW q, q = WithType(r, x)
  PROVE  Behind(d, m, q, k, nodes)
<1>1. InBundle(c, "typing") /\ d = Staged(c, "typed") /\ m = l
  <2>1. TypeNames(c, l, t, d, m)
    BY WalksByTag, LeadsIs
  <2>2. QED
    BY <2>1 DEF TypeNames
<1>2. /\ Nested(c) /\ c # <<>> /\ Last(c).call = "ReadNetObject"
      /\ r \in Seq(Frames) /\ Len(r) = Len(c) /\ Last(r) = r[Len(r)] /\ Last(r) \in Frames
      /\ NoneLate(c, r, Len(c)) /\ NextKeys(Last(r), Len(k), Len(l))
  BY <1>1, BundleOnTop
<1>3. PICK f : f = [Last(r) EXCEPT !.type = x]
  OBVIOUS
<1>4. q = [r EXCEPT ![Len(r)] = f]
  BY <1>2, <1>3 DEF WithType
<1>5. f.newObjectKey = Last(r).newObjectKey /\ f.newTypeKey = Last(r).newTypeKey
  BY <1>2, <1>3 DEF Frames
<1>6. NextKeys(f, Len(k), Len(m))
  BY <1>1, <1>2, <1>5 DEF NextKeys
<1>7. PICK typed \in Stages : typed = "typed"
  BY DEF Stages
<1>8. Ahead(Staged(c, typed), m, q, k)
  BY <1>2, <1>4, <1>6, <1>7, StagedBehind
<1>9. QED
  BY <1>1, <1>7, <1>8 DEF Behind

\* What a member of a plain node is.
LEMMA PlainIs ==
  ASSUME graph \in Graphs, NEW nodes, Settled(graph, nodes),
         NEW e \in Calls, AtMemberOf(e), e.node \in nodes
  PROVE  ~IsTracked(MemberAt(e)) /\ MemberAt(e).to \in nodes
<1>1. e.node \in Nodes /\ e.next \in 1 .. Len(MembersOf(e.node))
  BY MemberIs
<1>2. MembersOf(e.node) \in Seq(MemberType)
  BY <1>1, GraphIs
<1>3. e.next \in DOMAIN graph.members[e.node]
  BY <1>1, <1>2 DEF MembersOf
<1>4. QED
  BY <1>3 DEF Settled, Plain, MemberAt, MembersOf

LEMMA Below ==
  ASSUME NEW n \in Nat, NEW i \in 1 .. n - 1, NEW j \in i + 1 .. n + 1, j # n + 1
  PROVE  j \in i + 1 .. n /\ j \in 1 .. n
OBVIOUS

\* A call of Read when no key is missing.
LEMMA CalledLevel ==
  ASSUME NEW c \in Seq(Calls), NEW r \in Seq(Frames), Len(r) = Len(c),
         NEW l, NEW k, Level(c, l, r, k), c # <<>> => ~Late(c, r, Len(c)),
         NEW e \in Calls, e.call = "Read", NEW f \in Frames,
         NEW d, d = Append(c, e), NEW q, q = Append(r, f)
  PROVE  Level(d, l, q, k)
<1>1. PICK n \in Nat : n = Len(c)
  OBVIOUS
<1>2. /\ Len(d) = n + 1 /\ d[n + 1] = e /\ \A i \in 1 .. n : d[i] = c[i] /\ q[i] = r[i]
      /\ Last(d) = e /\ d # <<>>
  BY <1>1 DEF Last
<1>3. ~Early(d)
  BY <1>2 DEF Early
<1>4. NoneLate(c, r, n) /\ (n # 0 => ~Late(c, r, n))
  BY <1>1 DEF Level
<1>5. ASSUME NEW i \in 1 .. n PROVE ~Late(d, q, i)
  <2>1. ~Late(c, r, i)
    BY <1>4 DEF NoneLate
  <2>2. QED
    BY <1>2, <2>1 DEF Late
<1>6. NoneLate(d, q, Len(d))
  BY <1>1, <1>2, <1>5 DEF NoneLate
<1>7. QED
  BY <1>3, <1>6 DEF Level

\* A call of Read, for a node that is plain if one has to wait for it.
LEMMA PushedBehind ==
  ASSUME NEW c \in Seq(Calls), c # <<>> => Last(c).call = "Read",
         NEW r \in Seq(Frames), Len(r) = Len(c),
         NEW l, NEW k, NEW nodes, Behind(c, l, r, k, nodes),
         NEW e \in Calls, e.call = "Read",
         c # <<>> /\ Last(c).node \in nodes => e.node \in nodes,
         NEW f \in Frames, NEW d, d = Append(c, e), NEW q, q = Append(r, f)
  PROVE  Behind(d, l, q, k, nodes)
<1>1. PICK n \in Nat : n = Len(c)
  OBVIOUS
<1>2. /\ Len(d) = n + 1 /\ d[n + 1] = e /\ \A i \in 1 .. n : d[i] = c[i] /\ q[i] = r[i]
      /\ Last(d) = e /\ d # <<>>
  BY <1>1 DEF Last
<1>3. ~Early(d)
  BY <1>2 DEF Early
<1>4. c # <<>> => ~Late(c, r, Len(c))
  BY TopIs DEF Late
<1>5. CASE Level(c, l, r, k)
  BY <1>4, <1>5, CalledLevel DEF Behind
<1>6. CASE Waits(c, l, r, k, nodes) /\ c # <<>> /\ Last(c).node \in nodes
  <2>1. PICK i \in 1 .. n - 1 :
               /\ Late(c, r, i) /\ NoneLate(c, r, i)
               /\ Len(l) = Len(k) + 1 /\ r[i].newTypeKey = Len(k) + 1
               /\ \A j \in i + 1 .. n : c[j].call = "Read" /\ c[j].node \in nodes
    BY <1>1, <1>6 DEF Waits
  <2>2. Late(d, q, i) /\ NoneLate(d, q, i) /\ q[i].newTypeKey = Len(k) + 1
    BY <1>1, <1>2, <2>1 DEF Late, NoneLate
  <2>3. ASSUME NEW j \in i + 1 .. n + 1 PROVE d[j].call = "Read" /\ d[j].node \in nodes
    <3>1. CASE j = n + 1
      BY <1>2, <1>6, <3>1
    <3>2. CASE j # n + 1
      <4>1. j \in i + 1 .. n /\ j \in 1 .. n
        BY <3>2, Below
      <4>2. QED
        BY <1>2, <2>1, <4>1
    <3>3. QED
      BY <3>1, <3>2
  <2>4. i \in 1 .. Len(d) - 1
    BY <1>1, <1>2
  <2>5. Waits(d, l, q, k, nodes)
    BY <1>2, <2>1, <2>2, <2>3, <2>4 DEF Waits
  <2>6. QED
    BY <2>5 DEF Behind
<1>7. QED
  BY <1>5, <1>6, ReadBehind

\* The member of a call is done.
LEMMA MovedBehind ==
  ASSUME NEW c \in Seq(Calls), c # <<>>, Last(c).call = "Read",
         NEW r, NEW l, NEW k, NEW nodes, Behind(c, l, r, k, nodes)
  PROVE  Behind(Moved(c), l, r, k, nodes)
<1>1. PICK n \in Nat \ {0} : n = Len(c) /\ n \in 1 .. n /\ Last(c) = c[n]
  BY TopIs
<1>2. PICK d : d = Moved(c)
  OBVIOUS
<1>3. PICK e : e = R(c[n].node, c[n].next + 1)
  OBVIOUS
<1>4. e.call = "Read" /\ e.node = c[n].node
  BY <1>3 DEF R
<1>5. d = [c EXCEPT ![n] = e]
  BY <1>1, <1>2, <1>3 DEF Moved
<1>6. Len(d) = n /\ d[n] = e /\ Last(d) = e /\ \A i \in 1 .. n - 1 : d[i] = c[i]
  BY <1>1, <1>5 DEF Last
<1>7. ~Early(d)
  BY <1>4, <1>6 DEF Early
<1>8. \A i \in 1 .. n - 1 : Late(d, r, i) <=> Late(c, r, i)
  BY <1>6 DEF Late
<1>9. CASE Level(c, l, r, k)
  <2>1. NoneLate(d, r, Len(d))
    BY <1>1, <1>6, <1>8, <1>9 DEF Level, NoneLate
  <2>2. Level(d, l, r, k)
    BY <1>7, <1>9, <2>1 DEF Level
  <2>3. QED
    BY <1>2, <2>2 DEF Behind
<1>10. CASE Waits(c, l, r, k, nodes)
  <2>1. PICK i \in 1 .. n - 1 :
               /\ Late(c, r, i) /\ NoneLate(c, r, i)
               /\ Len(l) = Len(k) + 1 /\ r[i].newTypeKey = Len(k) + 1
               /\ \A j \in i + 1 .. n : c[j].call = "Read" /\ c[j].node \in nodes
    BY <1>1, <1>10 DEF Waits
  <2>2. Late(d, r, i) /\ NoneLate(d, r, i)
    BY <1>8, <2>1 DEF NoneLate
  <2>3. ASSUME NEW j \in i + 1 .. n PROVE d[j].call = "Read" /\ d[j].node \in nodes
    <3>1. c[j].node \in nodes /\ c[j].call = "Read"
      BY <2>1
    <3>2. CASE j = n
      BY <1>4, <1>6, <3>1, <3>2
    <3>3. CASE j # n
      <4>1. j \in 1 .. n - 1
        BY <3>3
      <4>2. QED
        BY <1>6, <3>1, <4>1
    <3>4. QED
      BY <3>2, <3>3
  <2>4. Waits(d, l, r, k, nodes)
    BY <1>6, <2>1, <2>2, <2>3 DEF Waits
  <2>5. QED
    BY <1>2, <2>4 DEF Behind
<1>11. QED
  BY <1>9, <1>10, ReadBehind

LEMMA ReadObjectBehind ==
  ASSUME NEW c, NEW l, NEW t, NEW d, NEW m, Leads(c, l, t, d, m), t.tag = "enter",
         NEW r, NEW ms, NEW k, Follows(c, l, r, ms, k),
         NEW nodes, Settled(graph, nodes), Behind(c, l, r, k, nodes),
         NEW x \in Nat, NEW q, q = Fill(r, x)
  PROVE  Behind(d, m, q, k, nodes)
<1>1. /\ graph \in Graphs /\ c \in Seq(Calls) /\ r \in Seq(Frames) /\ Len(r) = Len(c)
      /\ Nested(d)
  BY LeadsIs DEF Follows, FramesAre
<1>2. EnterRoot(c, l, t, d, m) \/ Enters(c, l, t, d, m)
  BY WalksByTag, LeadsIs
<1>3. PICK e : e = R(t.of, 1)
  OBVIOUS
<1>4. m = l /\ d = Append(c, e) /\ t.of \in Nodes
  <2>1. CASE EnterRoot(c, l, t, d, m)
    <3>1. c = <<>> /\ d = <<e>> /\ m = l /\ t.of = graph.root
      BY <1>3, <2>1 DEF EnterRoot
    <3>2. QED
      BY <1>1, <3>1, GraphIs
  <2>2. CASE Enters(c, l, t, d, m)
    <3>1. /\ c # <<>> /\ AtMemberOf(Last(c)) /\ t.of = MemberAt(Last(c)).to
          /\ d = Append(c, e) /\ m = l
      BY <1>3, <2>2 DEF Enters, Untracked
    <3>2. Last(c) \in Calls
      BY <1>1, <3>1, TopIs
    <3>3. QED
      BY <1>1, <3>1, <3>2, MemberIs
  <2>3. QED
    BY <1>2, <2>1, <2>2
<1>5. e \in Calls /\ e.call = "Read" /\ e.node = t.of
  BY <1>3, <1>4, CallsAre
<1>6. /\ c # <<>> => Last(c).call = "Read"
      /\ c # <<>> /\ Last(c).node \in nodes => e.node \in nodes
  <2>1. ASSUME c # <<>> PROVE Last(c).call = "Read" /\ (Last(c).node \in nodes => e.node \in nodes)
    <3>1. AtMemberOf(Last(c)) /\ t.of = MemberAt(Last(c)).to
      BY <1>2, <2>1 DEF EnterRoot, Enters, Untracked
    <3>2. Last(c) \in Calls
      BY <1>1, <2>1, TopIs
    <3>3. QED
      BY <1>1, <1>5, <3>1, <3>2, PlainIs DEF AtMemberOf
  <2>2. QED
    BY <2>1
<1>7. PICK f : f = Filling(x)
  OBVIOUS
<1>8. f \in Frames /\ q = Append(r, f)
  BY <1>7, FillingIs DEF Fill
<1>9. Behind(d, l, q, k, nodes)
  BY <1>1, <1>4, <1>5, <1>6, <1>8, PushedBehind
<1>10. QED
  BY <1>4, <1>9

LEMMA ReadTextBehind ==
  ASSUME NEW c, NEW l, NEW t, NEW d, NEW m, Leads(c, l, t, d, m), t.tag = "text",
         NEW r, NEW k, NEW nodes, Behind(c, l, r, k, nodes)
  PROVE  Behind(d, m, r, k, nodes)
<1>1. c \in Seq(Calls) /\ Texts(c, l, t, d, m)
  BY WalksByTag, LeadsIs
<1>2. c # <<>> /\ Last(c).call = "Read" /\ d = Moved(c) /\ m = l
  BY <1>1 DEF Texts, Untracked, AtMemberOf
<1>3. Behind(Moved(c), l, r, k, nodes)
  BY <1>1, <1>2, MovedBehind
<1>4. QED
  BY <1>2, <1>3

\* A plain node has no bundle, so nobody waits when one starts.
LEMMA ReadNetObjectBehind ==
  ASSUME NEW c, NEW l, NEW t, NEW d, NEW m, Leads(c, l, t, d, m), t.tag = "start",
         NEW r, NEW ms, NEW k, Follows(c, l, r, ms, k),
         NEW nodes, Settled(graph, nodes), Behind(c, l, r, k, nodes),
         NEW type, NEW f, f = Bundling(type), NEW q, q = Append(r, f)
  PROVE  Behind(d, m, q, k, nodes)
<1>1. graph \in Graphs /\ c \in Seq(Calls) /\ r \in Seq(Frames) /\ Len(r) = Len(c) /\ Nested(d)
  BY LeadsIs DEF Follows, FramesAre
<1>2. PICK e : e = B(t.of, "start")
  OBVIOUS
<1>3. /\ c # <<>> /\ AtMemberOf(Last(c)) /\ IsTracked(MemberAt(Last(c)))
      /\ d = Append(c, e) /\ m = l
  <2>1. Starts(c, l, t, d, m)
    BY WalksByTag, LeadsIs
  <2>2. QED
    BY <1>2, <2>1 DEF Starts
<1>4. Last(c) \in Calls /\ Last(c).call = "Read"
  BY <1>1, <1>3, TopIs DEF AtMemberOf
<1>5. Level(c, l, r, k)
  BY <1>1, <1>3, <1>4, PlainIs, ReadBehind
<1>6. PICK n \in Nat \ {0} : n = Len(c) /\ n \in 1 .. n /\ Last(c) = c[n]
  BY <1>1, <1>3, TopIs
<1>7. PICK s : s = Append(r, f)
  OBVIOUS
<1>8. f.newObjectKey = NoKey /\ f.newTypeKey = NoKey
  BY DEF Bundling, Filling
<1>9. e.call = "ReadNetObject" /\ e.stage = "start"
  BY <1>2 DEF B
<1>10. Last(d) = e /\ d # <<>> /\ Len(d) = n + 1 /\ \A i \in 1 .. n : d[i] = c[i]
  BY <1>1, <1>3, <1>6 DEF Last
<1>11. Last(q) = f /\ \A i \in 1 .. n : q[i] = r[i]
  BY <1>1, <1>6 DEF Last
<1>12. ASSUME NEW i \in 1 .. n PROVE ~Late(d, q, i)
  <2>1. ~Late(c, r, i)
    <3>1. CASE i = n
      BY <1>4, <1>6, <3>1 DEF Late
    <3>2. CASE i # n
      BY <1>5, <1>6, <3>2 DEF Level, NoneLate
    <3>3. QED
      BY <3>1, <3>2
  <2>2. QED
    BY <1>10, <1>11, <2>1 DEF Late
<1>13. NoneLate(d, q, Len(d))
  BY <1>10, <1>12 DEF NoneLate
<1>14. Early(d)
  BY <1>9, <1>10 DEF Early
<1>15. NextKeys(f, Len(k), Len(l))
  BY <1>5, <1>8 DEF Level, NextKeys
<1>16. Ahead(d, m, q, k)
  BY <1>3, <1>11, <1>13, <1>14, <1>15 DEF Ahead
<1>17. QED
  BY <1>16 DEF Behind

\* What the bundle on top has when its object comes.
LEMMA FieldIs ==
  ASSUME NEW c, NEW l, NEW t, NEW d, NEW m, Leads(c, l, t, d, m), t.tag = "object",
         NEW r, NEW ms, NEW k, Follows(c, l, r, ms, k), NEW nodes, Behind(c, l, r, k, nodes)
  PROVE  /\ Nested(c) /\ c # <<>> /\ Last(c).call = "ReadNetObject"
         /\ r \in Seq(Frames) /\ Len(r) = Len(c) /\ Last(r) = r[Len(r)] /\ Last(r) \in Frames
         /\ NoneLate(c, r, Len(c)) /\ NextKeys(Last(r), Len(k), Len(l))
         /\ Last(r).type = graph.type[t.of] /\ t.of = Last(c).member.to /\ t.of \in Nodes
         /\ Last(r).newObjectKey = NoKey =>
              Last(c).member.dynamicType /\ ~Last(c).member.asReference
         /\ Len(k) \in Nat /\ Len(l) \in Nat
<1>1. /\ \/ InBundle(c, "typed")
         \/ InBundle(c, "keyed") /\ ~Last(c).member.dynamicType
      /\ t.of = Target(c)
  <2>1. Objects(c, l, t, d, m)
    BY WalksByTag, LeadsIs
  <2>2. QED
    BY <2>1 DEF Objects
<1>2. PICK stage : InBundle(c, stage) /\ stage \in {"typed", "keyed"}
                   /\ (stage = "keyed" => ~Last(c).member.dynamicType)
  BY <1>1
<1>3. stage # "full"
  BY <1>2
<1>4. /\ Nested(c) /\ c # <<>> /\ Last(c).call = "ReadNetObject" /\ Last(c).stage = stage
      /\ r \in Seq(Frames) /\ Len(r) = Len(c) /\ Last(r) = r[Len(r)] /\ Last(r) \in Frames
      /\ NoneLate(c, r, Len(c)) /\ NextKeys(Last(r), Len(k), Len(l))
      /\ HasObjectKey(Last(r), Last(c), l) /\ HasType(Last(r), Last(c))
      /\ Len(k) \in Nat /\ Len(l) \in Nat
  BY <1>2, <1>3, BundleOnTop
<1>5. t.of = Last(c).member.to /\ Last(r).type = graph.type[t.of]
  BY <1>1, <1>2, <1>4 DEF Target, HasType
<1>6. PICK n \in Nat \ {0} : n = Len(c) /\ n \in 1 .. n /\ Last(c) = c[n] /\ Last(c) \in Calls
  BY <1>4, TopIs DEF Nested
<1>7. IsTracked(Last(c).member)
  <2>1. NestedAt(c, n)
    BY <1>4, <1>6 DEF Nested
  <2>2. QED
    BY <1>4, <1>6, <2>1 DEF NestedAt
<1>8. Last(c).member \in MemberType
  BY <1>4, <1>6, CallIs
<1>9. t.of \in Nodes
  BY <1>5, <1>8 DEF MemberType
<1>10. Last(r).newObjectKey = NoKey => ~Last(c).member.asReference
  BY <1>2, <1>4 DEF HasObjectKey
<1>11. ~Last(c).member.asReference => Last(c).member.dynamicType
  BY <1>7 DEF IsTracked
<1>12. QED
  BY <1>4, <1>5, <1>9, <1>10, <1>11

\* The keys of a bundle are the next ones of the cache.
LEMMA FieldKeys ==
  ASSUME NEW f, NEW k, Len(k) \in Nat, k \in Seq(Keys), NEW n, NextKeys(f, Len(k), n),
         NEW new \in Nat, f.type \in Nat, f.newObjectKey # NoKey
  PROVE  /\ CanSet(k, f.newObjectKey, Entry(new))
         /\ f.newTypeKey # NoKey =>
              CanSet(WithKey(k, f.newObjectKey, Entry(new)), f.newTypeKey, TypeEntry(f.type))
         /\ \A h : Sets(f, k, new, h) => Len(h) = n
<1>1. Entry(new) \in Keys /\ TypeEntry(f.type) \in Keys
  BY DEF Entry, TypeEntry, Keys
<1>2. PICK g : g = Append(k, Entry(new))
  OBVIOUS
<1>3. g \in Seq(Keys) /\ Len(g) = Len(k) + 1
  BY <1>1, <1>2
<1>4. f.newObjectKey = Len(k) + 1
  BY DEF NextKeys
<1>5. WithKey(k, f.newObjectKey, Entry(new)) = g /\ CanSet(k, f.newObjectKey, Entry(new))
  BY <1>2, <1>4 DEF WithKey, CanSet
<1>6. CASE f.newTypeKey = NoKey
  <2>1. n = Len(k) + 1
    BY <1>6 DEF NextKeys
  <2>2. QED
    BY <1>3, <1>5, <1>6, <2>1 DEF Sets
<1>7. CASE f.newTypeKey # NoKey
  <2>1. n = Len(k) + 2 /\ f.newTypeKey = Len(g) + 1
    BY <1>3, <1>7 DEF NextKeys
  <2>2. PICK h : h = Append(g, TypeEntry(f.type))
    OBVIOUS
  <2>3. h \in Seq(Keys) /\ Len(h) = Len(g) + 1
    BY <1>1, <1>3, <2>2
  <2>4. /\ WithKey(g, f.newTypeKey, TypeEntry(f.type)) = h
        /\ CanSet(g, f.newTypeKey, TypeEntry(f.type))
    BY <1>3, <2>1, <2>2 DEF WithKey, CanSet
  <2>5. Len(h) = n
    BY <1>3, <2>1, <2>3
  <2>6. QED
    BY <1>5, <1>7, <2>4, <2>5 DEF Sets
<1>8. QED
  BY <1>6, <1>7

LEMMA ObjectFieldBehind ==
  ASSUME NEW c, NEW l, NEW t, NEW d, NEW m, Leads(c, l, t, d, m), t.tag = "object",
         NEW r, NEW ms, NEW k, Follows(c, l, r, ms, k),
         NEW ns, NEW h, NEW b, NEW q, NEW new, MakesField(r, ms, k, t.of, ns, h, b, q, new),
         NEW nodes, Settled(graph, nodes), Behind(c, l, r, k, nodes)
  PROVE  Behind(d, m, q, h, nodes)
<1>1. PICK node : node = t.of
  OBVIOUS
<1>2. /\ m = l
      /\ d = (IF IsString(node) THEN Staged(c, "full")
              ELSE Append(Staged(c, "full"), R(node, 1)))
  <2>1. Objects(c, l, t, d, m)
    BY WalksByTag, LeadsIs
  <2>2. QED
    BY <1>1, <2>1 DEF Objects
<1>3. /\ Nested(c) /\ c # <<>> /\ Last(c).call = "ReadNetObject"
      /\ r \in Seq(Frames) /\ Len(r) = Len(c) /\ Last(r) = r[Len(r)] /\ Last(r) \in Frames
      /\ NoneLate(c, r, Len(c)) /\ NextKeys(Last(r), Len(k), Len(l))
      /\ Last(r).type = graph.type[node] /\ node = Last(c).member.to /\ node \in Nodes
      /\ Last(r).newObjectKey = NoKey => Last(c).member.dynamicType /\ ~Last(c).member.asReference
      /\ Len(k) \in Nat /\ Len(l) \in Nat
  BY <1>1, FieldIs
<1>4. graph \in Graphs /\ k \in Seq(Keys) /\ ms \in Seq(Made) /\ graph.type[node] \in Nat
  <2>1. graph \in Graphs
    BY LeadsIs
  <2>2. graph.type[node] \in Nat
    BY <1>3, <2>1, GraphIs
  <2>3. QED
    BY <2>1, <2>2 DEF Follows, CacheIs, ObjectsAre
<1>5. /\ new = Len(ms) + 1 /\ new \in Nat /\ Sets(Last(r), k, new, h)
      /\ b = WithObject(r, new) /\ q = (IF IsString(node) THEN b ELSE Fill(b, new))
  <2>1. new = Len(ms) + 1 /\ Sets(Last(r), k, new, h) /\ b = WithObject(r, new)
        /\ ReadsNext(b, node, new, q)
    BY <1>1 DEF MakesField
  <2>2. QED
    BY <1>4, <2>1 DEF ReadsNext
<1>6. PICK s : s = Staged(c, "full")
  OBVIOUS
<1>7. Nested(s) /\ s \in Seq(Calls) /\ s # <<>> /\ Last(s) = B(Last(c).member, "full")
  <2>1. PICK stage \in Stages : stage = "full"
    BY DEF Stages
  <2>2. Nested(Staged(c, stage)) /\ Staged(c, stage) # <<>>
        /\ Last(Staged(c, stage)) = B(Last(c).member, stage)
    BY <1>3, StagedIs
  <2>3. QED
    BY <1>6, <2>1, <2>2 DEF Nested
<1>8. PICK g : g = [Last(r) EXCEPT !.object = new]
  OBVIOUS
<1>9. /\ g \in Frames /\ g.newObjectKey = Last(r).newObjectKey /\ g.newTypeKey = Last(r).newTypeKey
      /\ g.type = Last(r).type
  BY <1>3, <1>5, <1>8, FrameOn
<1>10. b = [r EXCEPT ![Len(r)] = g]
  BY <1>3, <1>5, <1>8 DEF WithObject
<1>11. PICK n \in Nat \ {0} : n = Len(c) /\ n \in 1 .. n
  BY <1>3, TopIs DEF Nested
<1>12. /\ b \in Seq(Frames) /\ Len(b) = n /\ b[n] = g
       /\ \A i \in 1 .. n - 1 : b[i] = r[i]
  BY <1>3, <1>9, <1>10, <1>11
<1>13. PICK e : e = R(node, 1)
  OBVIOUS
<1>14. e \in Calls /\ e.call = "Read" /\ e.node = node
  BY <1>3, <1>13, CallsAre
<1>15. PICK f : f = Filling(new)
  OBVIOUS
<1>16. f \in Frames /\ Fill(b, new) = Append(b, f)
  BY <1>5, <1>15, FillingIs DEF Fill
<1>17. CASE Len(l) = Len(h) /\ ~IsLate(Last(r))
  <2>1. PICK stage \in Stages : stage = "full"
    BY DEF Stages
  <2>2. Level(Staged(c, stage), l, b, h)
    BY <1>3, <1>10, <1>17, <2>1, StagedBehind
  <2>3. Level(s, l, b, h)
    BY <1>6, <2>1, <2>2
  <2>4. CASE IsString(node)
    BY <1>2, <1>5, <1>6, <2>3, <2>4 DEF Behind
  <2>5. CASE ~IsString(node)
    <3>1. d = Append(s, e) /\ q = Append(b, f)
      BY <1>2, <1>5, <1>6, <1>13, <1>16, <2>5
    <3>2. Len(s) = n /\ Len(b) = Len(s)
      BY <1>3, <1>6, <1>11, <1>12 DEF Staged, Nested
    <3>3. ~Late(s, b, Len(s))
      BY <1>9, <1>12, <1>17, <3>2 DEF Late, IsLate
    <3>4. Level(d, l, q, h)
      BY <1>7, <1>12, <1>14, <1>16, <2>3, <3>1, <3>2, <3>3, CalledLevel
    <3>5. QED
      BY <1>2, <3>4 DEF Behind
  <2>6. QED
    BY <2>4, <2>5
<1>18. CASE IsLate(Last(r))
  <2>1. h = k
    BY <1>5, <1>18 DEF IsLate, Sets
  <2>2. Len(l) = Len(k) + 1 /\ g.newTypeKey = Len(k) + 1 /\ g.newObjectKey = NoKey
        /\ g.newTypeKey # NoKey
    BY <1>3, <1>9, <1>18 DEF IsLate, NextKeys
  <2>3. ~IsString(node) /\ node \in nodes
    <3>1. NestedAt(c, n) /\ Last(c) = c[n] /\ c \in Seq(Calls)
      BY <1>3, <1>11, TopIs DEF Nested
    <3>2. n > 1 /\ c[n - 1].call = "Read" /\ Last(c).member = MemberAt(c[n - 1])
      BY <1>3, <3>1 DEF NestedAt
    <3>3. n - 1 \in 1 .. n /\ n - 1 < n
      BY <1>11, <3>2
    <3>4. NestedAt(c, n - 1) /\ c[n - 1] \in Calls
      BY <1>3, <1>11, <3>1, <3>3, ElementOfSeq DEF Nested
    <3>5. AtMemberOf(c[n - 1])
      BY <1>11, <3>2, <3>3, <3>4 DEF NestedAt, AtMemberOf
    <3>6. PICK x : x = c[n - 1]
      OBVIOUS
    <3>7. x.node \in Nodes /\ x.next \in 1 .. Len(MembersOf(x.node))
      BY <1>4, <3>4, <3>5, <3>6, MemberIs
    <3>8. MembersOf(x.node) \in Seq(MemberType)
      BY <1>4, <3>7, GraphIs
    <3>9. x.next \in DOMAIN graph.members[x.node]
      BY <3>7, <3>8 DEF MembersOf
    <3>10. Last(c).member = graph.members[x.node][x.next]
      BY <3>2, <3>6 DEF MemberAt, MembersOf
    <3>11. Last(c).member.dynamicType /\ ~Last(c).member.asReference
      BY <1>3, <1>18 DEF IsLate
    <3>12. graph.type[node] # StringType /\ node \in nodes
      <4>1. x.node \in DOMAIN graph.type
        BY <3>7 DEF Nodes
      <4>2. PICK member : member = graph.members[x.node][x.next]
        OBVIOUS
      <4>3. member.dynamicType =>
              graph.type[member.to] # StringType /\ (member.asReference \/ member.to \in nodes)
        BY <3>9, <4>1, <4>2 DEF Settled, TypesAreLast
      <4>4. member.dynamicType /\ ~member.asReference /\ node = member.to
        BY <1>3, <3>10, <3>11, <4>2
      <4>5. QED
        BY <4>3, <4>4
    <3>13. QED
      BY <3>12 DEF IsString
  <2>4. d = Append(s, e) /\ q = Append(b, f)
    BY <1>2, <1>5, <1>6, <1>13, <1>16, <2>3
  <2>5. /\ Len(s) = n /\ s[n] = B(Last(c).member, "full") /\ s \in Seq(Calls)
        /\ \A i \in 1 .. n - 1 : s[i] = c[i]
    BY <1>3, <1>6, <1>7, <1>11 DEF Staged, Nested
  <2>6. /\ Len(d) = n + 1 /\ d[n + 1] = e /\ \A i \in 1 .. n : d[i] = s[i] /\ q[i] = b[i]
    BY <1>12, <1>14, <1>16, <2>4, <2>5
  <2>7. Late(d, q, n)
    BY <1>11, <1>12, <2>2, <2>5, <2>6 DEF Late, B
  <2>8. NoneLate(d, q, n)
    <3>1. ASSUME NEW i \in 1 .. n - 1 PROVE ~Late(d, q, i)
      <4>1. d[i] = c[i] /\ q[i] = r[i]
        BY <1>12, <2>5, <2>6
      <4>2. ~Late(c, r, i)
        BY <1>3, <1>11 DEF NoneLate
      <4>3. QED
        BY <4>1, <4>2 DEF Late
    <3>2. QED
      BY <3>1 DEF NoneLate
  <2>9. \A j \in n + 1 .. n + 1 : d[j].call = "Read" /\ d[j].node \in nodes
    BY <1>14, <2>3, <2>6
  <2>10. n \in 1 .. Len(d) - 1 /\ q[n].newTypeKey = Len(k) + 1
    BY <1>11, <1>12, <2>2, <2>6
  <2>11. Waits(d, l, q, k, nodes)
    BY <2>2, <2>6, <2>7, <2>8, <2>9, <2>10 DEF Waits
  <2>12. QED
    BY <1>2, <2>1, <2>11 DEF Behind
<1>19. Len(l) = Len(h) \/ IsLate(Last(r))
  <2>1. CASE Last(r).newObjectKey = NoKey
    BY <1>3, <1>5, <2>1 DEF Sets, NextKeys, IsLate
  <2>2. CASE Last(r).newObjectKey # NoKey
    BY <1>3, <1>4, <1>5, <2>2, FieldKeys
  <2>3. QED
    BY <2>1, <2>2
<1>20. QED
  BY <1>17, <1>18, <1>19

\* A call of Read that has returned, or a bundle that has been read, is gone.
LEMMA PoppedBehind ==
  ASSUME NEW c, Nested(c), c # <<>>, ~Early(c), NEW r \in Seq(Frames), Len(r) = Len(c),
         NEW l, NEW k, NEW nodes, Behind(c, l, r, k, nodes),
         Len(c) > 1 => ~Late(c, r, Len(c) - 1)
  PROVE  Behind(Front(c), l, Front(r), k, nodes)
<1>1. PICK d : d = Front(c)
  OBVIOUS
<1>2. PICK q : q = Front(r)
  OBVIOUS
<1>3. PICK n \in Nat : Len(c) = n + 1 /\ c \in Seq(Calls)
  <2>1. Len(c) \in Nat \ {0} /\ c \in Seq(Calls)
    BY TopIs DEF Nested
  <2>2. Len(c) - 1 \in Nat /\ (Len(c) - 1) + 1 = Len(c)
    BY <2>1
  <2>3. QED
    BY <2>1, <2>2
<1>4. /\ Nested(d) /\ d \in Seq(Calls) /\ Len(d) = n /\ \A i \in 1 .. n : d[i] = c[i]
      /\ \A i \in 1 .. n : q[i] = r[i]
  BY <1>1, <1>2, <1>3, Popped, FrontIs DEF Nested
<1>5. ~Early(d)
  <2>1. SUFFICES ASSUME d # <<>>, Last(d).call = "ReadNetObject" PROVE Last(d).stage = "full"
    BY DEF Early
  <2>2. n \in 1 .. n /\ n \in 1 .. n + 1 /\ n < n + 1 /\ Last(d) = c[n]
    BY <1>4, <2>1, TopIs
  <2>3. NestedAt(c, n)
    BY <1>3, <2>2 DEF Nested
  <2>4. QED
    BY <1>3, <2>1, <2>2, <2>3 DEF NestedAt
<1>6. CASE Level(c, l, r, k)
  <2>1. ASSUME NEW i \in 1 .. n - 1 PROVE ~Late(d, q, i)
    <3>1. i \in 1 .. n
      OBVIOUS
    <3>2. ~Late(c, r, i)
      BY <1>3, <1>6, <3>1 DEF Level, NoneLate
    <3>3. QED
      BY <1>4, <3>1, <3>2 DEF Late
  <2>2. NoneLate(d, q, Len(d))
    BY <1>4, <2>1 DEF NoneLate
  <2>3. Level(d, l, q, k)
    BY <1>5, <1>6, <2>2 DEF Level
  <2>4. QED
    BY <1>1, <1>2, <2>3 DEF Behind
<1>7. CASE Waits(c, l, r, k, nodes)
  <2>1. PICK i \in 1 .. n :
               /\ Late(c, r, i) /\ NoneLate(c, r, i)
               /\ Len(l) = Len(k) + 1 /\ r[i].newTypeKey = Len(k) + 1
               /\ \A j \in i + 1 .. n + 1 : c[j].call = "Read" /\ c[j].node \in nodes
    BY <1>3, <1>7 DEF Waits
  <2>2. i # n
    BY <1>3, <2>1
  <2>3. i \in 1 .. n - 1
    BY <2>1, <2>2
  <2>4. ASSUME NEW j \in 1 .. i PROVE Late(d, q, j) <=> Late(c, r, j)
    <3>1. j \in 1 .. n
      BY <2>1, <2>4
    <3>2. QED
      BY <1>4, <3>1 DEF Late
  <2>5. Late(d, q, i) /\ q[i].newTypeKey = Len(k) + 1
    BY <1>4, <2>1, <2>4
  <2>6. NoneLate(d, q, i)
    BY <2>1, <2>4 DEF NoneLate
  <2>7. ASSUME NEW j \in i + 1 .. n PROVE d[j].call = "Read" /\ d[j].node \in nodes
    <3>1. j \in 1 .. n /\ j \in i + 1 .. n + 1
      BY <2>3, <2>7
    <3>2. QED
      BY <1>4, <2>1, <3>1
  <2>8. Waits(d, l, q, k, nodes)
    BY <1>4, <2>1, <2>3, <2>5, <2>6, <2>7 DEF Waits
  <2>9. QED
    BY <1>1, <1>2, <2>8 DEF Behind
<1>8. ~Ahead(c, l, r, k)
  BY DEF Ahead
<1>9. QED
  BY <1>6, <1>7, <1>8 DEF Behind

LEMMA GivenBehind ==
  ASSUME NEW c, Nested(c), c # <<>>, ~Early(c), NEW r \in Seq(Frames), Len(r) = Len(c),
         NEW l, NEW k, NEW nodes, Behind(c, l, r, k, nodes),
         Len(c) > 1, c[Len(c) - 1].call = "Read"
  PROVE  Behind(Moved(Front(c)), l, Front(r), k, nodes)
<1>1. PICK d : d = Front(c)
  OBVIOUS
<1>2. PICK q : q = Front(r)
  OBVIOUS
<1>3. ~Late(c, r, Len(c) - 1)
  BY DEF Late
<1>4. Behind(d, l, q, k, nodes)
  BY <1>1, <1>2, <1>3, PoppedBehind
<1>5. Len(c) \in Nat \ {0}
  BY TopIs DEF Nested
<1>6. /\ Nested(d) /\ d \in Seq(Calls) /\ Len(d) = Len(c) - 1
      /\ \A i \in 1 .. Len(c) - 1 : d[i] = c[i]
  BY <1>1, Popped DEF Nested
<1>7. d # <<>> /\ Last(d) = c[Len(c) - 1]
  BY <1>5, <1>6 DEF Last
<1>8. Behind(Moved(d), l, q, k, nodes)
  BY <1>4, <1>6, <1>7, MovedBehind
<1>9. QED
  BY <1>1, <1>2, <1>8

LEMMA FinishBehind ==
  ASSUME NEW c, NEW l, NEW t, NEW d, NEW m, Leads(c, l, t, d, m), t.tag = "leave",
         NEW r, NEW ms, NEW k, Follows(c, l, r, ms, k), Len(r) = 1,
         NEW nodes, Behind(c, l, r, k, nodes)
  PROVE  Behind(d, m, <<>>, k, nodes)
<1>1. Leaves(c, l, t, d, m)
  BY WalksByTag, LeadsIs
<1>2. /\ c # <<>> /\ Last(c).call = "Read" /\ m = l
      /\ d = (IF Len(c) > 1 /\ Last(Front(c)).call = "Read" THEN Moved(Front(c)) ELSE Front(c))
  BY <1>1 DEF Leaves
<1>3. /\ Nested(c) /\ c \in Seq(Calls) /\ r \in Seq(Frames) /\ Len(r) = Len(c)
  BY LeadsIs DEF Follows, FramesAre
<1>4. Len(c) = 1 /\ ~(Len(c) > 1)
  <2>1. Len(c) = 1
    BY <1>3
  <2>2. ~(Len(c) > 1)
    BY <2>1
  <2>3. QED
    BY <2>1, <2>2
<1>5. d = Front(c) /\ Front(r) = <<>> /\ ~Early(c)
  <2>1. ~Early(c) /\ d = Front(c)
    BY <1>2, <1>4 DEF Early
  <2>2. Len(Front(r)) = 0 /\ Front(r) \in Seq(Frames)
    <3>1. PICK n \in Nat : n = 0
      OBVIOUS
    <3>2. Len(r) = n + 1
      BY <1>3, <1>4, <3>1
    <3>3. r \in Seq(Frames)
      BY <1>3
    <3>4. Front(r) \in Seq(Frames) /\ Len(Front(r)) = n
      BY <3>2, <3>3, FrontIs
    <3>5. QED
      BY <3>1, <3>4
  <2>3. QED
    BY <2>1, <2>2
<1>6. Behind(Front(c), l, Front(r), k, nodes)
  BY <1>2, <1>3, <1>4, <1>5, PoppedBehind
<1>7. QED
  BY <1>2, <1>5, <1>6

LEMMA ReadMemberBehind ==
  ASSUME NEW c, NEW l, NEW t, NEW d, NEW m, Leads(c, l, t, d, m), t.tag = "leave",
         NEW r, NEW ms, NEW k, Follows(c, l, r, ms, k),
         Front(r) # <<>>, Last(Front(r)).call = "Read",
         NEW nodes, Behind(c, l, r, k, nodes)
  PROVE  Behind(d, m, Front(r), k, nodes)
<1>1. Leaves(c, l, t, d, m)
  BY WalksByTag, LeadsIs
<1>2. /\ c # <<>> /\ Last(c).call = "Read" /\ m = l
      /\ d = (IF Len(c) > 1 /\ Last(Front(c)).call = "Read" THEN Moved(Front(c)) ELSE Front(c))
  BY <1>1 DEF Leaves
<1>3. Nested(c) /\ FramesAre(c, l, r, ms) /\ r \in Seq(Frames) /\ Len(r) = Len(c)
  BY LeadsIs DEF Follows, FramesAre
<1>4. /\ Len(c) > 1 /\ Last(Front(c)) = c[Len(c) - 1]
      /\ FrameIs(Last(Front(r)), c[Len(c) - 1], l, ms)
  BY <1>2, <1>3, BelowIs
<1>5. c[Len(c) - 1].call = "Read" /\ d = Moved(Front(c))
  BY <1>2, <1>4 DEF FrameIs
<1>6. ~Early(c)
  BY <1>2 DEF Early
<1>7. QED
  BY <1>2, <1>3, <1>4, <1>5, <1>6, GivenBehind

LEMMA NetObjectEndBehind ==
  ASSUME NEW c, NEW l, NEW t, NEW d, NEW m, Leads(c, l, t, d, m), t.tag = "end",
         NEW r, NEW ms, NEW k, Follows(c, l, r, ms, k), NEW nodes, Behind(c, l, r, k, nodes)
  PROVE  Behind(d, m, Front(r), k, nodes)
<1>1. InBundle(c, "full") /\ d = Moved(Front(c)) /\ m = l
  <2>1. Ends(c, l, t, d, m)
    BY WalksByTag, LeadsIs
  <2>2. QED
    BY <2>1 DEF Ends
<1>2. Nested(c) /\ r \in Seq(Frames) /\ Len(r) = Len(c)
  BY LeadsIs DEF Follows, FramesAre
<1>3. c # <<>> /\ Last(c).call = "ReadNetObject" /\ ~Early(c)
  BY <1>1 DEF InBundle, Early
<1>4. Len(c) > 1 /\ c[Len(c) - 1].call = "Read"
  <2>1. Last(c) = c[Len(c)] /\ Len(c) \in 1 .. Len(c)
    BY <1>2, <1>3, TopIs DEF Nested
  <2>2. NestedAt(c, Len(c))
    BY <1>2, <2>1 DEF Nested
  <2>3. QED
    BY <1>3, <2>1, <2>2 DEF NestedAt
<1>5. QED
  BY <1>1, <1>2, <1>3, <1>4, GivenBehind

\* The key of the type is the next one of the cache when the object of its
\* bundle has been read.
LEMMA LateKey ==
  ASSUME NEW c, NEW l, NEW t, NEW d, NEW m, Leads(c, l, t, d, m), t.tag = "leave",
         NEW r, NEW ms, NEW k, Follows(c, l, r, ms, k), NEW nodes, Behind(c, l, r, k, nodes),
         Front(r) # <<>>, NEW f, f = Last(Front(r)), f.call # "Read", IsLate(f)
  PROVE  /\ f.newTypeKey = Len(k) + 1 /\ Len(l) = Len(k) + 1 /\ Len(k) \in Nat
         /\ NoneLate(c, r, Len(c) - 1)
<1>1. Leaves(c, l, t, d, m)
  BY WalksByTag, LeadsIs
<1>2. c # <<>> /\ Last(c).call = "Read"
  BY <1>1 DEF Leaves
<1>3. /\ Nested(c) /\ FramesAre(c, l, r, ms) /\ Len(k) \in Nat
  BY LeadsIs DEF Follows, CacheIs
<1>4. /\ Len(c) > 1 /\ f = r[Len(c) - 1] /\ f.call = c[Len(c) - 1].call
  BY <1>2, <1>3, BelowIs DEF FrameIs
<1>5. PICK n \in Nat \ {0} : Len(c) = n + 1 /\ n = Len(c) - 1
  <2>1. Len(c) \in Nat
    BY LeadsIs
  <2>2. QED
    BY <1>4, <2>1
<1>6. c[n] \in Calls /\ NestedAt(c, n)
  <2>1. n \in 1 .. Len(c) /\ c \in Seq(Calls)
    BY <1>3, <1>5 DEF Nested
  <2>2. QED
    BY <1>3, <2>1, ElementOfSeq DEF Nested
<1>7. c[n].call = "ReadNetObject" /\ c[n].stage = "full"
  <2>1. c[n].call # "Read" /\ n < Len(c)
    BY <1>4, <1>5
  <2>2. c[n].call = "ReadNetObject"
    BY <1>6, <2>1, CallIs
  <2>3. QED
    BY <1>6, <2>1, <2>2 DEF NestedAt
<1>8. Late(c, r, n)
  BY <1>4, <1>5, <1>7 DEF Late, IsLate
<1>9. ~Level(c, l, r, k) /\ ~Ahead(c, l, r, k)
  <2>1. ~NoneLate(c, r, Len(c))
    BY <1>5, <1>8 DEF NoneLate
  <2>2. QED
    BY <2>1 DEF Level, Ahead
<1>10. PICK i \in 1 .. n :
              /\ NoneLate(c, r, i) /\ Len(l) = Len(k) + 1 /\ r[i].newTypeKey = Len(k) + 1
              /\ \A j \in i + 1 .. n + 1 : c[j].call = "Read"
  BY <1>5, <1>9 DEF Behind, Waits
<1>11. i = n
  <2>1. SUFFICES ASSUME i # n PROVE FALSE
    OBVIOUS
  <2>2. n \in i + 1 .. n + 1
    BY <2>1
  <2>3. QED
    BY <1>7, <1>10, <2>2
<1>12. QED
  BY <1>3, <1>4, <1>5, <1>10, <1>11

LEMMA ReadBundleBehind ==
  ASSUME NEW c, NEW l, NEW t, NEW d, NEW m, Leads(c, l, t, d, m), t.tag = "leave",
         NEW r, NEW ms, NEW k, Follows(c, l, r, ms, k), NEW nodes, Behind(c, l, r, k, nodes),
         Front(r) # <<>>, NEW f, f = Last(Front(r)), f.call # "Read",
         NEW h, h = IF IsLate(f) THEN WithKey(k, f.newTypeKey, TypeEntry(f.type)) ELSE k
  PROVE  Behind(d, m, Front(r), h, nodes)
<1>1. Leaves(c, l, t, d, m)
  BY WalksByTag, LeadsIs
<1>2. /\ c # <<>> /\ Last(c).call = "Read" /\ m = l
      /\ d = (IF Len(c) > 1 /\ Last(Front(c)).call = "Read" THEN Moved(Front(c)) ELSE Front(c))
  BY <1>1 DEF Leaves
<1>3. /\ Nested(c) /\ FramesAre(c, l, r, ms) /\ r \in Seq(Frames) /\ Len(r) = Len(c)
      /\ k \in Seq(Keys)
  BY LeadsIs DEF Follows, FramesAre, CacheIs
<1>4. /\ Len(c) > 1 /\ f = r[Len(c) - 1] /\ f.call = c[Len(c) - 1].call /\ f \in Frames
      /\ Last(Front(c)) = c[Len(c) - 1] /\ Front(c) # <<>>
  BY <1>2, <1>3, BelowIs DEF FrameIs
<1>5. d = Front(c) /\ ~Early(c)
  BY <1>2, <1>4 DEF Early
<1>6. CASE ~IsLate(f)
  <2>1. ~Late(c, r, Len(c) - 1)
    BY <1>4, <1>6 DEF Late, IsLate
  <2>2. Behind(Front(c), l, Front(r), k, nodes)
    BY <1>2, <1>3, <1>5, <2>1, PoppedBehind
  <2>3. QED
    BY <1>2, <1>5, <1>6, <2>2
<1>7. CASE IsLate(f)
  <2>1. /\ f.newTypeKey = Len(k) + 1 /\ Len(l) = Len(k) + 1 /\ Len(k) \in Nat
        /\ NoneLate(c, r, Len(c) - 1)
    BY <1>4, <1>7, LateKey
  <2>2. TypeEntry(f.type) \in Keys
    BY <1>4 DEF Frames, TypeEntry, Keys
  <2>3. h = Append(k, TypeEntry(f.type))
    BY <1>7, <2>1 DEF WithKey
  <2>4. Len(h) = Len(l)
    BY <1>3, <2>1, <2>2, <2>3
  <2>5. Behind(c, l, r, k, nodes) /\ Nested(Front(c))
    BY <1>2, <1>3, Popped
  <2>6. PICK n \in Nat \ {0} : Len(c) = n + 1 /\ n = Len(c) - 1
    <3>1. Len(c) \in Nat
      BY LeadsIs
    <3>2. QED
      BY <1>4, <3>1
  <2>7. PICK b : b = Front(c)
    OBVIOUS
  <2>8. PICK q : q = Front(r)
    OBVIOUS
  <2>9. /\ Len(b) = n /\ (\A i \in 1 .. n : b[i] = c[i]) /\ (\A i \in 1 .. n : q[i] = r[i])
        /\ Last(b) = c[n]
    <3>1. Len(b) = n /\ \A i \in 1 .. n : b[i] = c[i]
      BY <1>2, <1>3, <2>6, <2>7, Popped
    <3>2. \A i \in 1 .. n : q[i] = r[i]
      BY <1>3, <2>6, <2>8, FrontIs
    <3>3. QED
      BY <1>4, <2>6, <2>7, <3>1, <3>2
  <2>10. NoneLate(b, q, Len(b))
    <3>1. ASSUME NEW i \in 1 .. n - 1 PROVE ~Late(b, q, i)
      <4>1. i \in 1 .. n
        OBVIOUS
      <4>2. ~Late(c, r, i)
        BY <2>1, <2>6 DEF NoneLate
      <4>3. QED
        BY <2>9, <4>1, <4>2 DEF Late
    <3>2. QED
      BY <2>9, <3>1 DEF NoneLate
  <2>11. ~Early(b)
    <3>1. SUFFICES ASSUME Last(b).call = "ReadNetObject" PROVE Last(b).stage = "full"
      BY DEF Early
    <3>2. n \in 1 .. n + 1 /\ n < n + 1
      BY <2>6
    <3>3. NestedAt(c, n)
      BY <1>3, <2>6, <3>2 DEF Nested
    <3>4. QED
      BY <2>6, <2>9, <3>1, <3>2, <3>3 DEF NestedAt
  <2>12. Level(b, l, q, h)
    BY <2>4, <2>10, <2>11 DEF Level
  <2>13. QED
    BY <1>2, <1>5, <2>7, <2>8, <2>12 DEF Behind
<1>8. QED
  BY <1>6, <1>7

-----------------------------------------------------------------------------
(* The reader's steps.                                                     *)

LEMMA SameFollows ==
  ASSUME graph' = graph, rooted' = rooted, keyed' = keyed,
         NEW c, NEW l, NEW r, NEW ms, NEW k
  PROVE  Follows(c, l, r, ms, k)' = Follows(c, l, r, ms, k)
<1>1. /\ \A n : MembersOf(n)' = MembersOf(n)
      /\ \A n : IsRoot(n)' = IsRoot(n)
      /\ Nodes' = Nodes /\ Calls' = Calls
  BY SameGraph
<1>2. ObjectsAre(ms)' = ObjectsAre(ms)
  <2>1. \A o : ObjectIs(ms, o)' = ObjectIs(ms, o)
    BY <1>1 DEF ObjectIs
  <2>2. QED
    BY <2>1 DEF ObjectsAre
<1>3. FramesAre(c, l, r, ms)' = FramesAre(c, l, r, ms)
  <2>1. \A f, e : /\ HasObjectKey(f, e, l)' = HasObjectKey(f, e, l)
                  /\ HasTypeKey(f, e, l)' = HasTypeKey(f, e, l)
                  /\ HasType(f, e)' = HasType(f, e)
    BY DEF HasObjectKey, HasTypeKey, HasType
  <2>2. \A f, e : FrameIs(f, e, l, ms)' = FrameIs(f, e, l, ms)
    BY <2>1 DEF FrameIs
  <2>3. QED
    BY <2>2 DEF FramesAre
<1>4. \A object, node : Tracked(k, object, node)' = Tracked(k, object, node)
  BY <1>1 DEF Tracked
<1>5. CallsApart(c, r, ms, k)' = CallsApart(c, r, ms, k)
  <2>1. \A i : ApartAt(c, r, ms, k, i)' = ApartAt(c, r, ms, k, i)
    BY <1>4 DEF ApartAt
  <2>2. QED
    BY <2>1 DEF CallsApart
<1>6. MembersApart(ms, k)' = MembersApart(ms, k)
  <2>1. \A o, j : MemberApart(ms, k, o, j)' = MemberApart(ms, k, o, j)
    BY <1>1, <1>4 DEF MemberApart
  <2>2. QED
    BY <2>1 DEF MembersApart
<1>7. AllRead(ms, r)' = AllRead(ms, r)
  BY <1>1 DEF AllRead
<1>8. CacheIs(k, ms)' = CacheIs(k, ms)
  BY DEF CacheIs
<1>9. RootIs(r, ms)' = RootIs(r, ms)
  BY DEF RootIs
<1>10. QED
  BY <1>2, <1>3, <1>5, <1>6, <1>7, <1>8, <1>9 DEF Follows

LEMMA StartFollows ==
  ASSUME Len(keyed) \in Nat
  PROVE  Follows(<<>>, <<>>, <<>>, <<>>, <<>>)
BY DEF Follows, ObjectsAre, FramesAre, CallsApart, MembersApart, AllRead, CacheIs, RootIs

LEMMA StartFollowsNext ==
  ASSUME Len(keyed') \in Nat
  PROVE  Follows(<<>>, <<>>, <<>>, <<>>, <<>>)'
BY DEF Follows, ObjectsAre, FramesAre, CallsApart, MembersApart, AllRead, CacheIs, RootIs

LEMMA SameBehind ==
  ASSUME graph' = graph, NEW c, NEW l, NEW r, NEW k, AllBehind(c, l, r, k)
  PROVE  AllBehind(c, l, r, k)'
BY DEF AllBehind

LEMMA StartBehind == AllBehind(<<>>, <<>>, <<>>, <<>>) /\ AllBehind(<<>>, <<>>, <<>>, <<>>)'
<1>1. ~Early(<<>>)
  BY DEF Early
<1>2. NoneLate(<<>>, <<>>, Len(<<>>))
  BY DEF NoneLate
<1>3. Level(<<>>, <<>>, <<>>, <<>>)
  BY <1>1, <1>2 DEF Level
<1>4. \A nodes : Behind(<<>>, <<>>, <<>>, <<>>, nodes)
  BY <1>3 DEF Behind
<1>5. QED
  BY <1>4 DEF AllBehind

\* The wire's walk.
OnWire(p) == p \in Seq(States) /\ Walk(p, wire) /\ p[Len(p)].list = keyed

Progress ==
  /\ at \in 0 .. Len(wire)
  /\ status = "writing" => at = 0
  /\ at = 0 => reading = <<>> /\ made = <<>> /\ cache = <<>>
  /\ at > 0 => made # <<>>
  /\ status = "reading" /\ at > 0 => reading # <<>>
  /\ status = "finished" => reading = <<>> /\ made # <<>>
  /\ rootObject = IF made = <<>> THEN None ELSE 1

ReaderInv ==
  /\ Progress
  /\ \E p : /\ OnWire(p)
            /\ Follows(p[at + 1].calls, p[at + 1].list, reading, made, cache)
            /\ AllBehind(p[at + 1].calls, p[at + 1].list, reading, cache)

Inv == WriterInv /\ ReaderInv

LEMMA WireIs ==
  ASSUME WriterInv
  PROVE  wire \in Seq(Tokens) /\ keyed \in Seq(Entries) /\ Lists /\ graph \in Graphs
         /\ \E p : OnWire(p)
<1>1. PICK c : Reached(wire, c, keyed)
  BY DEF WriterInv
<1>2. wire \in Seq(Tokens) /\ keyed \in Seq(Entries)
  BY <1>1, ReachedIs
<1>3. \E p : OnWire(p)
  BY <1>1 DEF Reached, OnWire
<1>4. QED
  BY <1>2, <1>3 DEF WriterInv, Lists

LEMMA NextWire ==
  ASSUME WriterInv', graph' = graph, rooted' = rooted
  PROVE  /\ wire' \in Seq(Tokens) /\ keyed' \in Seq(Entries)
         /\ \E p : OnWire(p)' /\ p[1] = [calls |-> <<>>, list |-> <<>>]
<1>1. PICK w : w = wire'
  OBVIOUS
<1>2. PICK l : l = keyed'
  OBVIOUS
<1>3. PICK c : Reached(w, c, l)'
  BY <1>1, <1>2 DEF WriterInv
<1>4. Reached(w, c, l)
  BY <1>3, SameWalk
<1>5. w \in Seq(Tokens) /\ l \in Seq(Entries)
  BY <1>4, ReachedIs
<1>6. PICK p \in Seq(States) : Walk(p, w) /\ p[Len(p)].list = l
  BY <1>4 DEF Reached
<1>7. Walk(p, w)' /\ p \in Seq(States)'
  BY <1>6, SameWalk, SameGraph
<1>8. OnWire(p)'
  BY <1>1, <1>2, <1>6, <1>7 DEF OnWire
<1>9. p[1] = [calls |-> <<>>, list |-> <<>>]
  BY <1>6 DEF Walk
<1>10. QED
  BY <1>1, <1>2, <1>5, <1>8, <1>9

\* While the writer writes there is nothing to read.
LEMMA WriterKeeps ==
  ASSUME Inv, graph' = graph, rooted' = rooted, WriterInv', status = "writing",
         UNCHANGED readerVars, status' \in {"writing", "reading"}
  PROVE  Inv'
<1>1. /\ at' = 0 /\ reading' = <<>> /\ made' = <<>> /\ cache' = <<>> /\ rootObject' = None
  BY DEF Inv, ReaderInv, Progress, readerVars
<1>2. PICK p : OnWire(p)' /\ p[1] = [calls |-> <<>>, list |-> <<>>]
  BY NextWire
<1>3. Len(wire') \in Nat /\ Len(keyed') \in Nat
  BY NextWire
<1>4. Progress'
  BY <1>1, <1>3 DEF Progress
<1>5. Follows(<<>>, <<>>, <<>>, <<>>, <<>>)'
  BY <1>3, StartFollowsNext
<1>6. Follows(p[1].calls, p[1].list, reading, made, cache)'
  BY <1>1, <1>2, <1>5
<1>7. AllBehind(p[1].calls, p[1].list, reading, cache)'
  BY <1>1, <1>2, StartBehind
<1>8. (at + 1)' = 1
  BY <1>1
<1>9. QED
  BY <1>2, <1>4, <1>6, <1>7, <1>8 DEF Inv, ReaderInv

\* The next token, and where the walk goes with it.
Here(p, c, l, d, m) ==
  /\ OnWire(p) /\ at + 1 \in 1 .. Len(wire)
  /\ c = p[at + 1].calls /\ l = p[at + 1].list
  /\ d = p[at + 2].calls /\ m = p[at + 2].list
  /\ Leads(c, l, Token, d, m) /\ Follows(c, l, reading, made, cache)
  /\ AllBehind(c, l, reading, cache)
  /\ c = <<>> => made = <<>>
  /\ Token.tag # "enter" => c # <<>> /\ reading # <<>> /\ made # <<>> /\ rootObject = 1

LEMMA TokenLeads ==
  ASSUME Inv, status = "reading", at < Len(wire)
  PROVE  \E p, c, l, d, m : Here(p, c, l, d, m)
<1>1. PICK p : /\ OnWire(p)
               /\ Follows(p[at + 1].calls, p[at + 1].list, reading, made, cache)
               /\ AllBehind(p[at + 1].calls, p[at + 1].list, reading, cache)
  BY DEF Inv, ReaderInv
<1>2. wire \in Seq(Tokens) /\ keyed \in Seq(Entries) /\ Lists /\ graph \in Graphs
  BY WireIs DEF Inv
<1>3. PICK i \in 1 .. Len(wire) : i = at + 1 /\ at + 2 = i + 1
  BY <1>2 DEF Inv, ReaderInv, Progress
<1>4. Walk(p, wire) /\ p[Len(p)].list = keyed /\ Len(p) = Len(wire) + 1
  BY <1>1 DEF OnWire, Walk
<1>5. PICK c : c = p[i].calls
  OBVIOUS
<1>6. PICK l : l = p[i].list
  OBVIOUS
<1>7. PICK d : d = p[i + 1].calls
  OBVIOUS
<1>8. PICK m : m = p[i + 1].list
  OBVIOUS
<1>9. i \in 1 .. Len(p) /\ i + 1 \in 1 .. Len(p)
  BY <1>2, <1>3, <1>4
<1>10. /\ Nested(c) /\ Nested(d) /\ l \in Seq(Entries) /\ m \in Seq(Entries) /\ Within(m, keyed)
       /\ Walks(c, l, wire[i], d, m)
  BY <1>4, <1>5, <1>6, <1>7, <1>8, <1>9 DEF Walk
<1>11. Within(l, m)
  BY <1>2, <1>10, WalkKeeps
<1>12. Leads(c, l, Token, d, m)
  BY <1>2, <1>3, <1>10, <1>11 DEF Leads, Token
<1>13. Follows(c, l, reading, made, cache) /\ AllBehind(c, l, reading, cache)
  BY <1>1, <1>3, <1>5, <1>6
<1>14. c \in Seq(Calls) /\ Len(reading) = Len(c) /\ reading \in Seq(Frames)
  BY <1>10, <1>13 DEF Nested, Follows, FramesAre
<1>15. c = <<>> => reading = <<>> /\ made = <<>>
  <2>1. c = <<>> => reading = <<>>
    BY <1>14
  <2>2. reading = <<>> => made = <<>>
    BY <1>3 DEF Inv, ReaderInv, Progress
  <2>3. QED
    BY <2>1, <2>2
<1>16. c # <<>> => reading # <<>> /\ made # <<>> /\ rootObject = 1
  <2>1. c # <<>> => reading # <<>>
    BY <1>14
  <2>2. reading # <<>> => made # <<>> /\ rootObject = 1
    <3>1. reading # <<>> => at > 0
      BY <1>3 DEF Inv, ReaderInv, Progress
    <3>2. QED
      BY <3>1 DEF Inv, ReaderInv, Progress
  <2>3. QED
    BY <2>1, <2>2
<1>17. Token.tag # "enter" => c # <<>>
  BY <1>10, <1>3, WalksByTag DEF Token
<1>18. Here(p, c, l, d, m)
  BY <1>1, <1>3, <1>5, <1>6, <1>7, <1>8, <1>12, <1>13, <1>15, <1>16, <1>17 DEF Here
<1>19. QED
  BY <1>18

LEMMA WriterStays ==
  ASSUME WriterInv, UNCHANGED <<graph, rooted, writerVars>>
  PROVE  /\ WriterInv' /\ graph' = graph /\ rooted' = rooted /\ keyed' = keyed
         /\ \A p : OnWire(p) => OnWire(p)'
<1>1. graph' = graph /\ rooted' = rooted /\ writing' = writing /\ keyed' = keyed /\ wire' = wire
  BY DEF writerVars
<1>2. PICK w : w = wire
  OBVIOUS
<1>3. PICK l : l = keyed
  OBVIOUS
<1>4. PICK v : v = writing
  OBVIOUS
<1>5. PICK c : Reached(w, c, l) /\ \E e : Places(e, c, v)
  BY <1>2, <1>3, <1>4 DEF WriterInv
<1>6. PICK e : Places(e, c, v)
  BY <1>5
<1>7. v \in Seq(Writes) /\ Distinct(l) /\ (rooted => ~Contains(l, Entry(graph.root)))
  BY <1>3, <1>4 DEF WriterInv
<1>8. wire' = w /\ keyed' = l /\ writing' = v
  BY <1>1, <1>2, <1>3, <1>4
<1>9. WriterInv'
  BY <1>1, <1>8, <1>5, <1>6, <1>7, WriterOn
<1>10. ASSUME NEW p, OnWire(p) PROVE OnWire(p)'
  <2>1. Walk(p, w) /\ p \in Seq(States) /\ p[Len(p)].list = l
    BY <1>2, <1>3, <1>10 DEF OnWire
  <2>2. Walk(p, w)' /\ States' = States
    BY <1>1, <2>1, SameWalk, SameGraph
  <2>3. QED
    BY <1>8, <2>1, <2>2 DEF OnWire
<1>11. QED
  BY <1>1, <1>9, <1>10

LEMMA ReaderOn ==
  ASSUME Inv, NEW p, NEW c, NEW l, NEW d, NEW m, Here(p, c, l, d, m),
         UNCHANGED <<graph, rooted, writerVars>>, at' = at + 1,
         NEW q, reading' = q, NEW ns, made' = ns, NEW h, cache' = h,
         Follows(d, m, q, ns, h), AllBehind(d, m, q, h), ns # <<>>, rootObject' = 1,
         status' = IF q = <<>> THEN "finished" ELSE "reading"
  PROVE  Inv'
<1>1. /\ WriterInv' /\ graph' = graph /\ rooted' = rooted /\ keyed' = keyed /\ OnWire(p)'
      /\ wire' = wire
  <2>1. WriterInv /\ OnWire(p)
    BY DEF Inv, Here
  <2>2. QED
    BY <2>1, WriterStays DEF writerVars
<1>2. wire \in Seq(Tokens) /\ at \in 0 .. Len(wire) /\ at + 1 \in 1 .. Len(wire)
  BY WireIs DEF Inv, ReaderInv, Progress, Here
<1>3. Progress'
  BY <1>1, <1>2 DEF Progress
<1>4. Follows(d, m, q, ns, h)' /\ AllBehind(d, m, q, h)'
  BY <1>1, SameFollows, SameBehind
<1>5. PICK i : i = at + 2
  OBVIOUS
<1>6. (at + 1)' = i /\ d = p[i].calls /\ m = p[i].list
  BY <1>2, <1>5 DEF Here
<1>7. Follows(p[i].calls, p[i].list, reading, made, cache)'
  BY <1>4, <1>6
<1>8. AllBehind(p[i].calls, p[i].list, reading, cache)'
  BY <1>4, <1>6
<1>9. QED
  BY <1>1, <1>3, <1>6, <1>7, <1>8 DEF Inv, ReaderInv

LEMMA ReaderKeeps ==
  ASSUME Inv, UNCHANGED <<graph, rooted, writerVars, readerVars>>,
         status' = status \/ status' = "failed"
  PROVE  Inv'
<1>1. /\ WriterInv' /\ graph' = graph /\ rooted' = rooted /\ keyed' = keyed
      /\ wire' = wire /\ \A p : OnWire(p) => OnWire(p)'
  <2>1. WriterInv
    BY DEF Inv
  <2>2. QED
    BY <2>1, WriterStays DEF writerVars
<1>2. PICK p : /\ OnWire(p)
               /\ Follows(p[at + 1].calls, p[at + 1].list, reading, made, cache)
               /\ AllBehind(p[at + 1].calls, p[at + 1].list, reading, cache)
  BY DEF Inv, ReaderInv
<1>3. PICK r : r = reading
  OBVIOUS
<1>4. PICK ms : ms = made
  OBVIOUS
<1>5. PICK k : k = cache
  OBVIOUS
<1>6. PICK i : i = at + 1
  OBVIOUS
<1>7. Follows(p[i].calls, p[i].list, r, ms, k)' /\ AllBehind(p[i].calls, p[i].list, r, k)'
  BY <1>1, <1>2, <1>3, <1>4, <1>5, <1>6, SameFollows, SameBehind
<1>8. reading' = r /\ made' = ms /\ cache' = k /\ (at + 1)' = i
  BY <1>3, <1>4, <1>5, <1>6 DEF readerVars
<1>9. Progress'
  BY <1>1 DEF Inv, ReaderInv, Progress, readerVars
<1>10. QED
  BY <1>1, <1>2, <1>7, <1>8, <1>9 DEF Inv, ReaderInv

LEMMA Reading ==
  ASSUME Inv, NEW tag, Reads(tag)
  PROVE  /\ \E p, c, l, d, m : Here(p, c, l, d, m)
         /\ status = "reading" /\ Token.tag = tag
<1>1. status = "reading" /\ at < Len(wire) /\ Token.tag = tag
  BY DEF Reads, Token
<1>2. QED
  BY <1>1, TokenLeads

LEMMA ReadObjectStep ==
  ASSUME Inv, ReadObject
  PROVE  Inv'
<1>1. Reads("enter") /\ Next1 /\ cache' = cache
  BY DEF ReadObject
<1>2. status = "reading" /\ Token.tag = "enter"
  BY <1>1, Reading
<1>3. PICK p, c, l, d, m : Here(p, c, l, d, m)
  BY <1>1, Reading
<1>4. Leads(c, l, Token, d, m) /\ Follows(c, l, reading, made, cache) /\ (c = <<>> => made = <<>>)
  BY <1>3 DEF Here
<1>5. PICK ns : ns = WithNew(made, Token.of)
  OBVIOUS
<1>6. PICK x : x = Len(made) + 1
  OBVIOUS
<1>7. PICK q : q = Fill(reading, x)
  OBVIOUS
<1>8. Follows(d, m, q, ns, cache) /\ ns # <<>>
  BY <1>2, <1>4, <1>5, <1>6, <1>7, ReadObjectFollows
<1>9. made' = ns /\ reading' = q
  BY <1>5, <1>6, <1>7 DEF ReadObject, Make, WithNew, Fit, New, Fill
<1>10. q # <<>>
  BY <1>4, <1>7 DEF Follows, FramesAre, Fill
<1>11. rootObject' = 1
  <2>1. rootObject = IF made = <<>> THEN None ELSE 1
    BY DEF Inv, ReaderInv, Progress
  <2>2. rootObject' = IF rootObject = None THEN Len(made) + 1 ELSE rootObject
    BY DEF ReadObject, New
  <2>3. QED
    BY <2>1, <2>2 DEF None
<1>12. UNCHANGED <<graph, rooted, writerVars>> /\ at' = at + 1 /\ status' = "reading"
  BY <1>1, <1>2 DEF Next1
<1>13. x \in Nat
  BY <1>4, <1>6 DEF Follows, ObjectsAre
<1>14. AllBehind(d, m, q, cache)
  <2>1. ASSUME NEW nodes, Settled(graph, nodes) PROVE Behind(d, m, q, cache, nodes)
    <3>1. Behind(c, l, reading, cache, nodes)
      BY <1>3, <2>1 DEF Here, AllBehind
    <3>2. QED
      BY <1>2, <1>4, <1>6, <1>7, <1>13, <2>1, <3>1, ReadObjectBehind
  <2>2. QED
    BY <2>1 DEF AllBehind
<1>15. QED
  BY <1>1, <1>3, <1>8, <1>9, <1>10, <1>11, <1>12, <1>14, ReaderOn

LEMMA ReadTextStep ==
  ASSUME Inv, ReadText
  PROVE  Inv'
<1>1. Reads("text") /\ Next1 /\ cache' = cache /\ reading' = reading /\ rootObject' = rootObject
  BY DEF ReadText
<1>2. status = "reading" /\ Token.tag = "text"
  BY <1>1, Reading
<1>3. PICK p, c, l, d, m : Here(p, c, l, d, m)
  BY <1>1, Reading
<1>4. /\ Leads(c, l, Token, d, m) /\ Follows(c, l, reading, made, cache)
      /\ reading # <<>> /\ rootObject = 1
  BY <1>2, <1>3 DEF Here
<1>5. PICK ns : ns = Joined(WithNew(made, Token.of), Last(reading).object, Len(made) + 1)
  OBVIOUS
<1>6. Follows(d, m, reading, ns, cache) /\ graph.type[Token.of] = StringType
  BY <1>2, <1>4, <1>5, ReadTextFollows
<1>7. ns # <<>>
  BY <1>4, <1>6 DEF Follows, RootIs
<1>8. made' = ns
  BY <1>5, <1>6 DEF ReadText, WithNew, Joined, Fit, New, Caller
<1>9. UNCHANGED <<graph, rooted, writerVars>> /\ at' = at + 1 /\ status' = "reading"
  BY <1>1, <1>2 DEF Next1
<1>10. AllBehind(d, m, reading, cache)
  <2>1. ASSUME NEW nodes, Settled(graph, nodes) PROVE Behind(d, m, reading, cache, nodes)
    <3>1. Behind(c, l, reading, cache, nodes)
      BY <1>3, <2>1 DEF Here, AllBehind
    <3>2. QED
      BY <1>2, <1>4, <2>1, <3>1, ReadTextBehind
  <2>2. QED
    BY <2>1 DEF AllBehind
<1>11. QED
  BY <1>1, <1>3, <1>4, <1>6, <1>7, <1>8, <1>9, <1>10, ReaderOn

LEMMA ReadNetObjectStep ==
  ASSUME Inv, ReadNetObject
  PROVE  Inv'
<1>1. Reads("start") /\ Next1 /\ cache' = cache /\ made' = made /\ rootObject' = rootObject
  BY DEF ReadNetObject
<1>2. status = "reading" /\ Token.tag = "start"
  BY <1>1, Reading
<1>3. PICK p, c, l, d, m : Here(p, c, l, d, m)
  BY <1>1, Reading
<1>4. /\ Leads(c, l, Token, d, m) /\ Follows(c, l, reading, made, cache)
      /\ made # <<>> /\ rootObject = 1
  BY <1>2, <1>3 DEF Here
<1>5. PICK type : type = KnownType(Token.of)
  OBVIOUS
<1>6. PICK f : f = Bundling(type)
  OBVIOUS
<1>7. PICK q : q = Append(reading, f)
  OBVIOUS
<1>8. Follows(d, m, q, made, cache)
  BY <1>2, <1>4, <1>5, <1>6, <1>7, ReadNetObjectFollows
<1>9. reading' = q
  BY <1>5, <1>6, <1>7 DEF ReadNetObject, KnownType, Bundling
<1>10. q # <<>>
  BY <1>4, <1>7 DEF Follows, FramesAre
<1>11. UNCHANGED <<graph, rooted, writerVars>> /\ at' = at + 1 /\ status' = "reading"
  BY <1>1, <1>2 DEF Next1
<1>12. AllBehind(d, m, q, cache)
  <2>1. ASSUME NEW nodes, Settled(graph, nodes) PROVE Behind(d, m, q, cache, nodes)
    <3>1. Behind(c, l, reading, cache, nodes)
      BY <1>3, <2>1 DEF Here, AllBehind
    <3>2. QED
      BY <1>2, <1>4, <1>6, <1>7, <2>1, <3>1, ReadNetObjectBehind
  <2>2. QED
    BY <2>1 DEF AllBehind
<1>13. QED
  BY <1>1, <1>3, <1>4, <1>8, <1>9, <1>10, <1>11, <1>12, ReaderOn

\* A step that changes the call on top.
LEMMA EditOn ==
  ASSUME Inv, NEW p, NEW c, NEW l, NEW d, NEW m, Here(p, c, l, d, m), Token.tag # "enter",
         Next1, status = "reading", UNCHANGED <<cache, rootObject, made>>,
         NEW q, reading' = q, DOMAIN q = DOMAIN reading, Follows(d, m, q, made, cache),
         AllBehind(d, m, q, cache)
  PROVE  Inv'
<1>1. reading # <<>> /\ made # <<>> /\ rootObject = 1 /\ reading \in Seq(Frames)
  BY DEF Here, Follows, FramesAre
<1>2. q # <<>> /\ status' = "reading"
  BY <1>1 DEF Next1
<1>3. UNCHANGED <<graph, rooted, writerVars>> /\ at' = at + 1
  BY DEF Next1
<1>4. QED
  BY <1>1, <1>2, <1>3, ReaderOn

LEMMA ExistingObjectStep ==
  ASSUME Inv, ExistingObject
  PROVE  Inv'
<1>1. Reads("existingObject")
  BY DEF ExistingObject
<1>2. status = "reading" /\ Token.tag = "existingObject"
  BY <1>1, Reading
<1>3. PICK p, c, l, d, m : Here(p, c, l, d, m)
  BY <1>1, Reading
<1>4. Leads(c, l, Token, d, m) /\ Follows(c, l, reading, made, cache) /\ rootObject = 1
  BY <1>2, <1>3 DEF Here
<1>5. CASE Fail
  BY <1>5, ReaderKeeps DEF Fail
<1>6. CASE ~Fail
  <2>1. PICK x : x = IF Token.key = 0 THEN rootObject ELSE cache[Token.key][2]
    OBVIOUS
  <2>2. PICK q : q = WithObject(reading, x)
    OBVIOUS
  <2>3. /\ IF Token.key = 0 THEN TRUE ELSE Holds("object", Token.key)
        /\ Next1 /\ reading' = q /\ UNCHANGED <<cache, rootObject, made>>
    BY <1>6, <2>1, <2>2 DEF ExistingObject, WithObject
  <2>4. Finds(cache, Token.key, x)
    BY <1>4, <2>1, <2>3 DEF Finds, Holds
  <2>5. Follows(d, m, q, made, cache)
    BY <1>2, <1>4, <2>2, <2>4, ExistingObjectFollows
  <2>6. DOMAIN q = DOMAIN reading
    BY <2>2 DEF WithObject
  <2>7. AllBehind(d, m, q, cache)
    <3>1. ASSUME NEW nodes, Settled(graph, nodes) PROVE Behind(d, m, q, cache, nodes)
      <4>1. Behind(c, l, reading, cache, nodes)
        BY <1>3, <3>1 DEF Here, AllBehind
      <4>2. QED
        BY <1>2, <1>4, <2>2, <3>1, <4>1, ExistingObjectBehind
    <3>2. QED
      BY <3>1 DEF AllBehind
  <2>8. QED
    BY <1>2, <1>3, <2>3, <2>5, <2>6, <2>7, EditOn
<1>7. QED
  BY <1>5, <1>6

LEMMA NewObjectKeyStep ==
  ASSUME Inv, NewObjectKey
  PROVE  Inv'
<1>1. Reads("newObject") /\ Next1 /\ UNCHANGED <<cache, rootObject, made>>
  BY DEF NewObjectKey
<1>2. status = "reading" /\ Token.tag = "newObject"
  BY <1>1, Reading
<1>3. PICK p, c, l, d, m : Here(p, c, l, d, m)
  BY <1>1, Reading
<1>4. Leads(c, l, Token, d, m) /\ Follows(c, l, reading, made, cache)
  BY <1>3 DEF Here
<1>5. PICK q : q = WithObjectKey(reading, Token.key)
  OBVIOUS
<1>6. reading' = q
  BY <1>5 DEF NewObjectKey, WithObjectKey
<1>7. Follows(d, m, q, made, cache)
  BY <1>2, <1>4, <1>5, NewObjectKeyFollows
<1>8. DOMAIN q = DOMAIN reading
  BY <1>5 DEF WithObjectKey
<1>9. AllBehind(d, m, q, cache)
  <2>1. ASSUME NEW nodes, Settled(graph, nodes) PROVE Behind(d, m, q, cache, nodes)
    <3>1. Behind(c, l, reading, cache, nodes)
      BY <1>3, <2>1 DEF Here, AllBehind
    <3>2. QED
      BY <1>2, <1>4, <1>5, <2>1, <3>1, NewObjectKeyBehind
  <2>2. QED
    BY <2>1 DEF AllBehind
<1>10. QED
  BY <1>1, <1>2, <1>3, <1>6, <1>7, <1>8, <1>9, EditOn

LEMMA ExistingTypeKeyStep ==
  ASSUME Inv, ExistingTypeKey
  PROVE  Inv'
<1>1. Reads("existingType")
  BY DEF ExistingTypeKey
<1>2. status = "reading" /\ Token.tag = "existingType"
  BY <1>1, Reading
<1>3. PICK p, c, l, d, m : Here(p, c, l, d, m)
  BY <1>1, Reading
<1>4. Leads(c, l, Token, d, m) /\ Follows(c, l, reading, made, cache)
  BY <1>3 DEF Here
<1>5. CASE Fail
  BY <1>5, ReaderKeeps DEF Fail
<1>6. CASE ~Fail
  <2>1. PICK q : q = WithType(reading, cache[Token.key][2])
    OBVIOUS
  <2>2. /\ Token.key \in DOMAIN cache
        /\ Next1 /\ reading' = q /\ UNCHANGED <<cache, rootObject, made>>
    BY <1>6, <2>1 DEF ExistingTypeKey, WithType, Holds
  <2>3. Follows(d, m, q, made, cache)
    BY <1>2, <1>4, <2>1, <2>2, ExistingTypeFollows
  <2>4. DOMAIN q = DOMAIN reading
    BY <2>1 DEF WithType
  <2>5. AllBehind(d, m, q, cache)
    <3>1. ASSUME NEW nodes, Settled(graph, nodes) PROVE Behind(d, m, q, cache, nodes)
      <4>1. Behind(c, l, reading, cache, nodes)
        BY <1>3, <3>1 DEF Here, AllBehind
      <4>2. QED
        BY <1>2, <1>4, <2>1, <3>1, <4>1, ExistingTypeBehind
    <3>2. QED
      BY <3>1 DEF AllBehind
  <2>6. QED
    BY <1>2, <1>3, <2>2, <2>3, <2>4, <2>5, EditOn
<1>7. QED
  BY <1>5, <1>6

LEMMA NewTypeKeyStep ==
  ASSUME Inv, NewTypeKey
  PROVE  Inv'
<1>1. Reads("newType") /\ Next1 /\ UNCHANGED <<cache, rootObject, made>>
  BY DEF NewTypeKey
<1>2. status = "reading" /\ Token.tag = "newType"
  BY <1>1, Reading
<1>3. PICK p, c, l, d, m : Here(p, c, l, d, m)
  BY <1>1, Reading
<1>4. Leads(c, l, Token, d, m) /\ Follows(c, l, reading, made, cache)
  BY <1>3 DEF Here
<1>5. PICK q : q = WithTypeKey(reading, Token.key)
  OBVIOUS
<1>6. reading' = q
  BY <1>5 DEF NewTypeKey, WithTypeKey
<1>7. Follows(d, m, q, made, cache)
  BY <1>2, <1>4, <1>5, NewTypeKeyFollows
<1>8. DOMAIN q = DOMAIN reading
  BY <1>5 DEF WithTypeKey
<1>9. AllBehind(d, m, q, cache)
  <2>1. ASSUME NEW nodes, Settled(graph, nodes) PROVE Behind(d, m, q, cache, nodes)
    <3>1. Behind(c, l, reading, cache, nodes)
      BY <1>3, <2>1 DEF Here, AllBehind
    <3>2. QED
      BY <1>2, <1>4, <1>5, <2>1, <3>1, NewTypeKeyBehind
  <2>2. QED
    BY <2>1 DEF AllBehind
<1>10. QED
  BY <1>1, <1>2, <1>3, <1>6, <1>7, <1>8, <1>9, EditOn

LEMMA TypeNameStep ==
  ASSUME Inv, TypeName
  PROVE  Inv'
<1>1. Reads("typeName") /\ Next1 /\ UNCHANGED <<cache, rootObject, made>>
  BY DEF TypeName
<1>2. status = "reading" /\ Token.tag = "typeName"
  BY <1>1, Reading
<1>3. PICK p, c, l, d, m : Here(p, c, l, d, m)
  BY <1>1, Reading
<1>4. Leads(c, l, Token, d, m) /\ Follows(c, l, reading, made, cache)
  BY <1>3 DEF Here
<1>5. PICK q : q = WithType(reading, Token.of)
  OBVIOUS
<1>6. reading' = q
  BY <1>5 DEF TypeName, WithType
<1>7. Follows(d, m, q, made, cache)
  BY <1>2, <1>4, <1>5, TypeNameFollows
<1>8. DOMAIN q = DOMAIN reading
  BY <1>5 DEF WithType
<1>9. AllBehind(d, m, q, cache)
  <2>1. ASSUME NEW nodes, Settled(graph, nodes) PROVE Behind(d, m, q, cache, nodes)
    <3>1. Behind(c, l, reading, cache, nodes)
      BY <1>3, <2>1 DEF Here, AllBehind
    <3>2. QED
      BY <1>2, <1>4, <1>5, <2>1, <3>1, TypeNameBehind
  <2>2. QED
    BY <2>1 DEF AllBehind
<1>10. QED
  BY <1>1, <1>2, <1>3, <1>6, <1>7, <1>8, <1>9, EditOn

LEMMA ObjectFieldStep ==
  ASSUME Inv, ObjectField
  PROVE  Inv'
<1>1. Reads("object")
  BY DEF ObjectField
<1>2. status = "reading" /\ Token.tag = "object"
  BY <1>1, Reading
<1>3. PICK p, c, l, d, m : Here(p, c, l, d, m)
  BY <1>1, Reading
<1>4. /\ Leads(c, l, Token, d, m) /\ Follows(c, l, reading, made, cache)
      /\ rootObject = 1 /\ reading # <<>> /\ reading \in Seq(Frames)
  BY <1>2, <1>3 DEF Here, Follows, FramesAre
<1>5. CASE Fail
  BY <1>5, ReaderKeeps DEF Fail
<1>6. CASE ~Fail
  <2>1. /\ Caller.newObjectKey # NoKey => CanSetKeys(Caller, New)
        /\ Next1 /\ UNCHANGED rootObject /\ Make(Token.of, Caller.type)
        /\ cache' = IF Caller.newObjectKey # NoKey THEN AfterKeys(Caller, New) ELSE cache
        /\ reading' = IF Caller.type = StringType THEN Bundled ELSE Append(Bundled, Filling(New))
    BY <1>6 DEF ObjectField
  <2>2. PICK x : x = Len(made) + 1
    OBVIOUS
  <2>3. PICK ns : ns = WithNew(made, Token.of)
    OBVIOUS
  <2>4. PICK h : h = cache'
    OBVIOUS
  <2>5. PICK b : b = WithObject(reading, x)
    OBVIOUS
  <2>6. PICK q : q = IF IsString(Token.of) THEN b ELSE Fill(b, x)
    OBVIOUS
  <2>7. Sets(Last(reading), cache, x, h)
    BY <2>1, <2>2, <2>4 DEF Sets, CanSetKeys, AfterKeys, Keyed, Caller, New
  <2>8. MakesField(reading, made, cache, Token.of, ns, h, b, q, x)
    BY <2>2, <2>3, <2>5, <2>6, <2>7 DEF MakesField, ReadsNext
  <2>9. Follows(d, m, q, ns, h) /\ Last(reading).type = graph.type[Token.of]
    <3>1. PICK t : t = Token
      OBVIOUS
    <3>2. PICK r : r = reading
      OBVIOUS
    <3>3. PICK ms : ms = made
      OBVIOUS
    <3>4. PICK k : k = cache
      OBVIOUS
    <3>5. Leads(c, l, t, d, m) /\ t.tag = "object"
      BY <1>2, <1>4, <3>1
    <3>6. Follows(c, l, r, ms, k)
      BY <1>4, <3>2, <3>3, <3>4
    <3>7. MakesField(r, ms, k, t.of, ns, h, b, q, x)
      BY <2>8, <3>1, <3>2, <3>3, <3>4
    <3>8. Follows(d, m, q, ns, h) /\ Last(r).type = graph.type[t.of]
      BY <3>5, <3>6, <3>7, ObjectFieldFollows
    <3>9. QED
      BY <3>1, <3>2, <3>8
  <2>10. made' = ns
    BY <2>1, <2>3, <2>9 DEF Make, WithNew, Fit, Caller
  <2>11. reading' = q
    BY <2>1, <2>2, <2>5, <2>6, <2>9 DEF IsString, Caller, Bundled, WithObject, Fill, New
  <2>12. q # <<>>
    <3>1. x \in Nat
      BY <1>4, <2>2 DEF Follows, ObjectsAre
    <3>2. PICK g : g = [Last(reading) EXCEPT !.object = x]
      OBVIOUS
    <3>3. PICK n \in Nat \ {0} : n = Len(reading) /\ n \in 1 .. n
      BY <1>4
    <3>4. reading[n] \in Frames /\ Last(reading) = reading[n]
      BY <1>4, <3>3, ElementOfSeq DEF Last
    <3>5. g \in Frames
      BY <3>1, <3>2, <3>4, FrameOn
    <3>6. b = [reading EXCEPT ![n] = g]
      BY <2>5, <3>2, <3>3, <3>4 DEF WithObject
    <3>7. b \in Seq(Frames) /\ b # <<>>
      BY <1>4, <3>3, <3>5, <3>6
    <3>8. Fill(b, x) # <<>>
      BY <3>7 DEF Fill
    <3>9. QED
      BY <2>6, <3>7, <3>8
  <2>13. ns # <<>>
    BY <2>9, <2>12 DEF Follows, RootIs
  <2>14. /\ UNCHANGED <<graph, rooted, writerVars>> /\ at' = at + 1 /\ status' = "reading"
         /\ rootObject' = 1
    BY <1>2, <1>4, <2>1 DEF Next1
  <2>15. AllBehind(d, m, q, h)
    <3>1. ASSUME NEW nodes, Settled(graph, nodes) PROVE Behind(d, m, q, h, nodes)
      <4>1. Behind(c, l, reading, cache, nodes)
        BY <1>3, <3>1 DEF Here, AllBehind
      <4>2. QED
        BY <1>2, <1>4, <2>8, <3>1, <4>1, ObjectFieldBehind
    <3>2. QED
      BY <3>1 DEF AllBehind
  <2>16. QED
    BY <1>3, <2>4, <2>9, <2>10, <2>11, <2>12, <2>13, <2>14, <2>15, ReaderOn
<1>7. QED
  BY <1>5, <1>6

LEMMA ReadEndStep ==
  ASSUME Inv, ReadEnd
  PROVE  Inv'
<1>1. Reads("leave") /\ Front(reading) # <<>> /\ UNCHANGED rootObject
  BY DEF ReadEnd
<1>2. status = "reading" /\ Token.tag = "leave"
  BY <1>1, Reading
<1>3. PICK p, c, l, d, m : Here(p, c, l, d, m)
  BY <1>1, Reading
<1>4. /\ Leads(c, l, Token, d, m) /\ Follows(c, l, reading, made, cache)
      /\ rootObject = 1 /\ made # <<>>
  BY <1>2, <1>3 DEF Here
<1>5. PICK q : q = Front(reading)
  OBVIOUS
<1>6. CASE Last(q).call = "Read"
  <2>1. PICK ns : ns = Joined(made, Last(q).object, Last(reading).object)
    OBVIOUS
  <2>2. Next1 /\ reading' = q /\ made' = ns /\ UNCHANGED cache
    BY <1>5, <1>6, <2>1 DEF ReadEnd, Give, Joined, Caller
  <2>3. Follows(d, m, q, ns, cache)
    BY <1>1, <1>2, <1>4, <1>5, <1>6, <2>1, ReadMemberFollows
  <2>4. ns # <<>>
    BY <1>1, <1>5, <2>3 DEF Follows, RootIs
  <2>5. UNCHANGED <<graph, rooted, writerVars>> /\ at' = at + 1 /\ status' = "reading"
    BY <1>2, <2>2 DEF Next1
  <2>6. AllBehind(d, m, q, cache)
    <3>1. ASSUME NEW nodes, Settled(graph, nodes) PROVE Behind(d, m, q, cache, nodes)
      <4>1. Behind(c, l, reading, cache, nodes)
        BY <1>3, <3>1 DEF Here, AllBehind
      <4>2. QED
        BY <1>1, <1>2, <1>4, <1>5, <1>6, <3>1, <4>1, ReadMemberBehind
    <3>2. QED
      BY <3>1 DEF AllBehind
  <2>7. QED
    BY <1>1, <1>3, <1>4, <1>5, <2>2, <2>3, <2>4, <2>5, <2>6, ReaderOn
<1>7. CASE Last(q).call # "Read" /\ Fail
  BY <1>7, ReaderKeeps DEF Fail
<1>8. CASE Last(q).call # "Read" /\ ~Fail
  <2>1. PICK f : f = Last(q)
    OBVIOUS
  <2>2. PICK h : h = IF IsLate(f) THEN WithKey(cache, f.newTypeKey, TypeEntry(f.type)) ELSE cache
    OBVIOUS
  <2>3. /\ Next1 /\ reading' = q /\ made' = made /\ cache' = h
        /\ IsLate(f) => CanSet(cache, f.newTypeKey, TypeEntry(f.type))
    BY <1>5, <1>8, <2>1, <2>2 DEF ReadEnd, IsLate
  <2>4. Follows(d, m, q, made, h)
    BY <1>1, <1>2, <1>4, <1>5, <1>8, <2>1, <2>2, <2>3, ReadBundleFollows
  <2>5. UNCHANGED <<graph, rooted, writerVars>> /\ at' = at + 1 /\ status' = "reading"
    BY <1>2, <2>3 DEF Next1
  <2>6. AllBehind(d, m, q, h)
    <3>1. ASSUME NEW nodes, Settled(graph, nodes) PROVE Behind(d, m, q, h, nodes)
      <4>1. Behind(c, l, reading, cache, nodes)
        BY <1>3, <3>1 DEF Here, AllBehind
      <4>2. QED
        BY <1>1, <1>2, <1>4, <1>5, <1>8, <2>1, <2>2, <3>1, <4>1, ReadBundleBehind
    <3>2. QED
      BY <3>1 DEF AllBehind
  <2>7. QED
    BY <1>1, <1>3, <1>4, <1>5, <2>3, <2>4, <2>5, <2>6, ReaderOn
<1>9. QED
  BY <1>6, <1>7, <1>8

LEMMA NetObjectEndStep ==
  ASSUME Inv, NetObjectEnd
  PROVE  Inv'
<1>1. Reads("end") /\ Next1 /\ UNCHANGED <<cache, rootObject>>
  BY DEF NetObjectEnd
<1>2. status = "reading" /\ Token.tag = "end"
  BY <1>1, Reading
<1>3. PICK p, c, l, d, m : Here(p, c, l, d, m)
  BY <1>1, Reading
<1>4. /\ Leads(c, l, Token, d, m) /\ Follows(c, l, reading, made, cache)
      /\ rootObject = 1
  BY <1>2, <1>3 DEF Here
<1>5. PICK q : q = Front(reading)
  OBVIOUS
<1>6. PICK ns : ns = Joined(made, Last(q).object, Last(reading).object)
  OBVIOUS
<1>7. Follows(d, m, q, ns, cache) /\ Last(q).call = "Read" /\ q # <<>>
  BY <1>2, <1>4, <1>5, <1>6, NetObjectEndFollows
<1>8. reading' = q /\ made' = ns
  BY <1>5, <1>6, <1>7 DEF NetObjectEnd, Give, Joined, Caller
<1>9. ns # <<>>
  BY <1>7 DEF Follows, RootIs
<1>10. UNCHANGED <<graph, rooted, writerVars>> /\ at' = at + 1 /\ status' = "reading"
  BY <1>1, <1>2 DEF Next1
<1>11. AllBehind(d, m, q, cache)
  <2>1. ASSUME NEW nodes, Settled(graph, nodes) PROVE Behind(d, m, q, cache, nodes)
    <3>1. Behind(c, l, reading, cache, nodes)
      BY <1>3, <2>1 DEF Here, AllBehind
    <3>2. QED
      BY <1>2, <1>4, <1>5, <2>1, <3>1, NetObjectEndBehind
  <2>2. QED
    BY <2>1 DEF AllBehind
<1>12. QED
  BY <1>1, <1>3, <1>4, <1>7, <1>8, <1>9, <1>10, <1>11, ReaderOn

LEMMA FinishStep ==
  ASSUME Inv, Finish
  PROVE  Inv'
<1>1. Reads("leave") /\ Len(reading) = 1 /\ reading' = <<>> /\ status' = "finished"
  BY DEF Finish
<1>2. status = "reading" /\ Token.tag = "leave"
  BY <1>1, Reading
<1>3. PICK p, c, l, d, m : Here(p, c, l, d, m)
  BY <1>1, Reading
<1>4. Leads(c, l, Token, d, m) /\ Follows(c, l, reading, made, cache) /\ rootObject = 1
  BY <1>2, <1>3 DEF Here
<1>5. PICK q : q = <<>>
  OBVIOUS
<1>6. Follows(d, m, q, made, cache) /\ made # <<>>
  <2>1. Follows(d, m, <<>>, made, cache) /\ made # <<>>
    BY <1>1, <1>2, <1>4, FinishFollows
  <2>2. QED
    BY <1>5, <2>1
<1>7. /\ UNCHANGED <<graph, rooted, writerVars>> /\ at' = at + 1
      /\ UNCHANGED <<cache, rootObject, made>>
  BY DEF Finish
<1>8. AllBehind(d, m, q, cache)
  <2>1. ASSUME NEW nodes, Settled(graph, nodes) PROVE Behind(d, m, q, cache, nodes)
    <3>1. Behind(c, l, reading, cache, nodes)
      BY <1>3, <2>1 DEF Here, AllBehind
    <3>2. QED
      BY <1>1, <1>2, <1>4, <1>5, <2>1, <3>1, FinishBehind
  <2>2. QED
    BY <2>1 DEF AllBehind
<1>9. QED
  BY <1>1, <1>3, <1>4, <1>5, <1>6, <1>7, <1>8, ReaderOn

-----------------------------------------------------------------------------
(* The invariant.                                                          *)

LEMMA InitWriter ==
  ASSUME Init
  PROVE  WriterInv
<1>1. graph \in Graphs /\ rooted \in BOOLEAN /\ graph.root \in Nodes /\ graph.root \in Nat
  BY GraphIs DEF Init
<1>2. PICK t : t = T("enter", NoKey, graph.root)
  OBVIOUS
<1>3. t \in Tokens /\ t.tag = "enter" /\ t.of = graph.root
  <2>1. "enter" \in Tags /\ NoKey \in Int
    BY DEF Tags, NoKey
  <2>2. QED
    BY <1>1, <1>2, <2>1, NodeToken
<1>4. Reached(<<>>, <<>>, <<>>)
  <2>1. PICK s : s = [calls |-> <<>>, list |-> <<>>]
    OBVIOUS
  <2>2. s \in States /\ s.calls = <<>> /\ s.list = <<>>
    BY <2>1 DEF States
  <2>3. Nested(<<>>)
    BY DEF Nested
  <2>4. Within(<<>>, <<>>)
    BY DEF Within
  <2>5. PICK p : p = <<s>>
    OBVIOUS
  <2>6. p \in Seq(States) /\ Len(p) = 1 /\ p[1] = s
    BY <2>2, <2>5
  <2>7. PICK w : w = <<>>
    OBVIOUS
  <2>8. w \in Seq(Tokens) /\ Len(w) = 0
    BY <2>7
  <2>9. p[Len(p)] = s /\ Len(p) = Len(w) + 1
    BY <2>6, <2>8
  <2>10. ASSUME NEW i \in 1 .. Len(p)
         PROVE  /\ Nested(p[i].calls) /\ p[i].list \in Seq(Entries)
                /\ Within(p[i].list, p[Len(p)].list)
    <3>1. p[i] = s
      BY <2>6
    <3>2. <<>> \in Seq(Entries)
      OBVIOUS
    <3>3. QED
      BY <2>2, <2>3, <2>4, <2>9, <3>1, <3>2
  <2>11. \A i \in 1 .. Len(w) :
            Walks(p[i].calls, p[i].list, w[i], p[i + 1].calls, p[i + 1].list)
    BY <2>8
  <2>12. Walk(p, w)
    BY <2>1, <2>6, <2>9, <2>10, <2>11 DEF Walk
  <2>13. Reached(w, <<>>, <<>>)
    BY <2>2, <2>6, <2>8, <2>9, <2>12 DEF Reached
  <2>14. QED
    BY <2>7, <2>13
<1>5. PICK e : e = R(graph.root, 1)
  OBVIOUS
<1>6. PICK d : d = <<e>>
  OBVIOUS
<1>7. Reached(Append(<<>>, t), d, <<>>)
  <2>1. EnterRoot(<<>>, <<>>, t, d, <<>>)
    BY <1>3, <1>5, <1>6 DEF EnterRoot
  <2>2. Walks(<<>>, <<>>, t, d, <<>>)
    BY <2>1 DEF Walks
  <2>3. QED
    BY <1>1, <1>3, <1>4, <2>2, ReachedOn
<1>8. wire = Append(<<>>, t) /\ keyed = <<>>
  BY <1>2 DEF Init
<1>9. PICK closing : closing = <<LeaveToken(graph.root)>>
  OBVIOUS
<1>10. closing \in Seq(Tokens)
  <2>1. "leave" \in Tags /\ NoKey \in Int
    BY DEF Tags, NoKey
  <2>2. LeaveToken(graph.root) \in Tokens
    BY <1>1, <2>1, NodeToken DEF LeaveToken
  <2>3. QED
    BY <1>9, <2>2
<1>11. PICK g : g = [node |-> graph.root, next |-> 1, closing |-> closing]
  OBVIOUS
<1>12. g \in Writes /\ g.node = graph.root /\ g.next = 1 /\ g.closing = closing
  BY <1>1, <1>10, <1>11 DEF Writes
<1>13. PICK v : v = <<g>>
  OBVIOUS
<1>14. v \in Seq(Writes) /\ Len(v) = 1 /\ v[1] = g /\ v # <<>>
  BY <1>12, <1>13
<1>15. writing = v
  BY <1>9, <1>11, <1>13 DEF Init, LeaveToken
<1>16. PICK x : x = <<1>>
  OBVIOUS
<1>17. x \in Seq(Nat) /\ Len(x) = 1 /\ x[1] = 1
  BY <1>16
<1>18. Len(d) = 1 /\ d[1] = R(graph.root, 1)
  BY <1>5, <1>6
<1>19. PlaceAt(x, d, v, 1)
  BY <1>9, <1>12, <1>14, <1>17, <1>18 DEF PlaceAt
<1>20. Places(x, d, v)
  BY <1>14, <1>17, <1>18, <1>19 DEF Places
<1>21. Distinct(keyed) /\ ~Contains(keyed, Entry(graph.root))
  BY <1>8 DEF Distinct, Contains
<1>22. QED
  BY <1>1, <1>7, <1>8, <1>14, <1>15, <1>20, <1>21 DEF WriterInv

LEMMA InitInv ==
  ASSUME Init
  PROVE  Inv
<1>1. WriterInv
  BY InitWriter
<1>2. wire \in Seq(Tokens) /\ keyed \in Seq(Entries) /\ \E p : OnWire(p)
  BY <1>1, WireIs
<1>3. PICK p : OnWire(p)
  BY <1>2
<1>4. p[1] = [calls |-> <<>>, list |-> <<>>]
  BY <1>3 DEF OnWire, Walk
<1>5. Follows(<<>>, <<>>, <<>>, <<>>, <<>>)
  BY <1>2, StartFollows
<1>6. /\ at = 0 /\ reading = <<>> /\ made = <<>> /\ cache = <<>> /\ rootObject = None
      /\ status = "writing"
  BY DEF Init
<1>7. Progress
  BY <1>2, <1>6 DEF Progress
<1>8. Follows(p[1].calls, p[1].list, reading, made, cache) /\ at + 1 = 1
  BY <1>4, <1>5, <1>6
<1>9. AllBehind(p[1].calls, p[1].list, reading, cache)
  BY <1>4, <1>6, StartBehind
<1>10. QED
  BY <1>1, <1>3, <1>7, <1>8, <1>9 DEF Inv, ReaderInv

LEMMA NextInv ==
  ASSUME Inv, [Next]_vars
  PROVE  Inv'
<1>1. CASE WriteObject
  <2>1. WriterInv'
    BY <1>1, WriteObjectStep DEF Inv
  <2>2. QED
    BY <1>1, <2>1, WriterKeeps DEF WriteObject, AtMember
<1>2. CASE WriteExisting
  <2>1. WriterInv'
    BY <1>2, WriteExistingStep DEF Inv
  <2>2. QED
    BY <1>2, <2>1, WriterKeeps DEF WriteExisting, AtMember
<1>3. CASE WriteNew
  <2>1. WriterInv'
    BY <1>3, WriteNewStep DEF Inv
  <2>2. QED
    BY <1>3, <2>1, WriterKeeps DEF WriteNew, AtMember
<1>4. CASE WriteEnd
  <2>1. WriterInv'
    BY <1>4, WriteEndStep DEF Inv
  <2>2. QED
    BY <1>4, <2>1, WriterKeeps DEF WriteEnd
<1>5. CASE ReadObject
  BY <1>5, ReadObjectStep
<1>6. CASE ReadText
  BY <1>6, ReadTextStep
<1>7. CASE ReadNetObject
  BY <1>7, ReadNetObjectStep
<1>8. CASE ExistingObject
  BY <1>8, ExistingObjectStep
<1>9. CASE NewObjectKey
  BY <1>9, NewObjectKeyStep
<1>10. CASE ExistingTypeKey
  BY <1>10, ExistingTypeKeyStep
<1>11. CASE NewTypeKey
  BY <1>11, NewTypeKeyStep
<1>12. CASE TypeName
  BY <1>12, TypeNameStep
<1>13. CASE ObjectField
  BY <1>13, ObjectFieldStep
<1>14. CASE ReadEnd
  BY <1>14, ReadEndStep
<1>15. CASE NetObjectEnd
  BY <1>15, NetObjectEndStep
<1>16. CASE Finish
  BY <1>16, FinishStep
<1>17. CASE Done \/ UNCHANGED vars
  BY <1>17, ReaderKeeps DEF Done, vars
<1>18. QED
  BY <1>1, <1>2, <1>3, <1>4, <1>5, <1>6, <1>7, <1>8, <1>9, <1>10, <1>11, <1>12, <1>13,
     <1>14, <1>15, <1>16, <1>17 DEF Next

LEMMA FollowsNow ==
  ASSUME Inv
  PROVE  Progress /\ \E c, l : Follows(c, l, reading, made, cache)
<1>1. PICK p : Follows(p[at + 1].calls, p[at + 1].list, reading, made, cache)
  BY DEF Inv, ReaderInv
<1>2. PICK c : c = p[at + 1].calls
  OBVIOUS
<1>3. PICK l : l = p[at + 1].list
  OBVIOUS
<1>4. Follows(c, l, reading, made, cache)
  BY <1>1, <1>2, <1>3
<1>5. QED
  BY <1>4 DEF Inv, ReaderInv

LEMMA Invariance == Spec => []Inv
<1>1. Init => Inv
  BY InitInv
<1>2. Inv /\ [Next]_vars => Inv'
  BY NextInv
<1>3. QED
  BY <1>1, <1>2, PTL DEF Spec

-----------------------------------------------------------------------------
(* Keys mean the same on both sides.  The lists of NetObjectCache are      *)
(* filled by different code, AddObjectKey and SetKeyedObject, at different *)
(* times.                                                                  *)
THEOREM ListsAgree == Spec => []KeysAgree
<1>1. Inv => KeysAgree
  <2>1. SUFFICES ASSUME Inv PROVE KeysAgree
    OBVIOUS
  <2>2. CacheIs(cache, made)
    <3>1. PICK c, l : Follows(c, l, reading, made, cache)
      BY <2>1, FollowsNow
    <3>2. QED
      BY <3>1 DEF Follows
  <2>3. cache \in Seq(Keys) /\ Len(cache) <= Len(keyed) /\ DOMAIN cache = 1 .. Len(cache)
    BY <2>2 DEF CacheIs
  <2>4. ASSUME NEW i \in 1 .. Len(cache)
        PROVE  /\ cache[i][1] = keyed[i][1]
               /\ IF cache[i][1] = "type" THEN cache[i][2] = keyed[i][2]
                  ELSE made[cache[i][2]].of = keyed[i][2]
    <3>1. CASE keyed[i][1] = "type"
      BY <2>2, <3>1 DEF CacheIs
    <3>2. CASE keyed[i][1] # "type"
      <4>1. PICK o \in 1 .. Len(made) : cache[i] = Entry(o) /\ keyed[i] = Entry(made[o].of)
        BY <2>2, <3>2 DEF CacheIs
      <4>2. QED
        BY <4>1 DEF Entry
    <3>3. QED
      BY <3>1, <3>2
  <2>5. QED
    BY <2>3, <2>4 DEF KeysAgree
<1>2. QED
  BY <1>1, Invariance, PTL

\* The graph that was read is the graph that was written.  What the writer
\* wrote once was read once: the members of the reader's objects are the same
\* object where a key said so (AddObjectKey, GetKeyedObject), and nowhere else.
THEOREM GraphComesBack == Spec => []GraphIsPreserved
<1>1. ASSUME Inv PROVE GraphIsPreserved
  <2>1. SUFFICES ASSUME status = "finished"
        PROVE  LET members == UNION {{<<o, i>> : i \in DOMAIN made[o].members} : o \in DOMAIN made}
                   Object(m) == made[m[1]].members[m[2]]
                   Member(m) == graph.members[made[m[1]].of][m[2]]
               IN
               /\ made[1].of = graph.root
               /\ \A o \in DOMAIN made :
                    /\ made[o].type = graph.type[made[o].of]
                    /\ Len(made[o].members) = Len(graph.members[made[o].of])
               /\ \A m \in members : made[Object(m)].of = Member(m).to
               /\ \A m \in members : rooted /\ Member(m).asReference /\ Member(m).to = graph.root
                                      => Object(m) = 1
               /\ \A m, n \in members :
                    m # n => (Object(m) = Object(n) <=> /\ Member(m).asReference
                                                        /\ Member(n).asReference
                                                        /\ Member(m).to = Member(n).to)
    BY DEF GraphIsPreserved
  <2> DEFINE members == UNION {{<<o, i>> : i \in DOMAIN made[o].members} : o \in DOMAIN made}
             Object(m) == made[m[1]].members[m[2]]
             Member(m) == graph.members[made[m[1]].of][m[2]]
  <2>2. PICK c, l : Follows(c, l, reading, made, cache)
    BY <1>1, FollowsNow
  <2>3. reading = <<>> /\ made # <<>>
    BY <1>1, <2>1, FollowsNow DEF Progress
  <2>4. /\ ObjectsAre(made) /\ MembersApart(made, cache) /\ AllRead(made, reading)
        /\ CacheIs(cache, made) /\ made[1].of = graph.root
    BY <2>2, <2>3 DEF Follows, RootIs
  <2>5. keyed \in Seq(Entries) /\ Distinct(keyed)
    BY <1>1, WireIs DEF Inv, Lists
  <2>6. made \in Seq(Made) /\ DOMAIN made = 1 .. Len(made)
    BY <2>4 DEF ObjectsAre
  <2>7. ASSUME NEW o \in 1 .. Len(made)
        PROVE  /\ made[o].type = graph.type[made[o].of]
               /\ Len(made[o].members) = Len(graph.members[made[o].of])
               /\ made[o].members \in Seq(Nat) /\ DOMAIN made[o].members = 1 .. Len(made[o].members)
               /\ \A j \in 1 .. Len(made[o].members) :
                    /\ made[o].members[j] \in 1 .. Len(made)
                    /\ made[made[o].members[j]].of = graph.members[made[o].of][j].to
    <3>1. ObjectIs(made, o) /\ made[o] \in Made
      BY <2>4, <2>6 DEF ObjectsAre
    <3>2. Len(made[o].members) = Len(graph.members[made[o].of])
      BY <2>3, <2>4 DEF AllRead, MembersOf
    <3>3. made[o].members \in Seq(Nat)
      BY <3>1 DEF Made
    <3>4. QED
      BY <3>1, <3>2, <3>3 DEF ObjectIs, MembersOf
  <2>8. ASSUME NEW m \in members
        PROVE  /\ m[1] \in 1 .. Len(made) /\ m[2] \in 1 .. Len(made[m[1]].members)
               /\ m = <<m[1], m[2]>> /\ made[Object(m)].of = Member(m).to
               /\ Object(m) \in 1 .. Len(made)
               /\ IF Member(m).asReference THEN Tracked(cache, Object(m), Member(m).to)
                  ELSE /\ Private(cache, Object(m))
                       /\ \A q \in 1 .. Len(made) : \A i \in 1 .. Len(made[q].members) :
                            made[q].members[i] = Object(m) => q = m[1] /\ i = m[2]
    <3>1. PICK o \in DOMAIN made : \E i \in DOMAIN made[o].members : m = <<o, i>>
      OBVIOUS
    <3>2. PICK i \in DOMAIN made[o].members : m = <<o, i>>
      BY <3>1
    <3>3. o \in 1 .. Len(made) /\ i \in 1 .. Len(made[o].members)
      BY <2>6, <2>7, <3>2
    <3>4. m[1] = o /\ m[2] = i /\ m = <<m[1], m[2]>>
      BY <3>2
    <3>5. MemberApart(made, cache, o, i)
      BY <2>4, <3>3 DEF MembersApart
    <3>6. Object(m) = made[o].members[i] /\ Member(m) = MembersOf(made[o].of)[i]
      BY <3>4 DEF MembersOf
    <3>7. /\ made[made[o].members[i]].of = MembersOf(made[o].of)[i].to
          /\ made[o].members[i] \in 1 .. Len(made)
      BY <2>7, <3>3 DEF MembersOf
    <3>8. QED
      BY <3>3, <3>4, <3>5, <3>6, <3>7 DEF MemberApart
  <2> HIDE DEF members, Object, Member
  <2>9. ASSUME NEW m \in members, Member(m).asReference, IsRoot(Entry(Member(m).to))
        PROVE  Object(m) = 1
    BY <2>8, <2>9 DEF Tracked
  <2>10. ASSUME NEW m \in members, NEW n \in members, m # n, Object(m) = Object(n)
         PROVE  /\ Member(m).asReference /\ Member(n).asReference
                /\ Member(m).to = Member(n).to
    <3>1. Member(m).to = Member(n).to
      BY <2>8, <2>10
    <3>2. ~(m[1] = n[1] /\ m[2] = n[2])
      BY <2>8, <2>10
    <3>3. Member(m).asReference
      BY <2>8, <2>10, <3>2 DEF Object
    <3>4. Member(n).asReference
      BY <2>8, <2>10, <3>2 DEF Object
    <3>5. QED
      BY <3>1, <3>3, <3>4
  <2>11. ASSUME NEW m \in members, NEW n \in members,
                Member(m).asReference, Member(n).asReference, Member(m).to = Member(n).to
         PROVE  Object(m) = Object(n)
    <3>1. CASE IsRoot(Entry(Member(m).to))
      <4>1. Object(m) = 1
        BY <2>9, <2>11, <3>1
      <4>2. Object(n) = 1
        BY <2>9, <2>11, <3>1
      <4>3. QED
        BY <4>1, <4>2
    <3>2. CASE ~IsRoot(Entry(Member(m).to))
      <4>1. IsEntry(cache, Object(m)) /\ IsEntry(cache, Object(n))
        BY <2>8, <2>11, <3>2 DEF Tracked
      <4>2. PICK i \in 1 .. Len(cache) : /\ cache[i] = Entry(Object(m))
                                         /\ keyed[i] = Entry(made[Object(m)].of)
        BY <2>4, <4>1, EntryIs
      <4>3. PICK j \in 1 .. Len(cache) : /\ cache[j] = Entry(Object(n))
                                         /\ keyed[j] = Entry(made[Object(n)].of)
        BY <2>4, <4>1, EntryIs
      <4>4. made[Object(m)].of = made[Object(n)].of
        BY <2>8, <2>11
      <4>5. i \in DOMAIN keyed /\ j \in DOMAIN keyed
        BY <2>4, <2>5 DEF CacheIs
      <4>6. i = j
        BY <2>5, <4>2, <4>3, <4>4, <4>5 DEF Distinct
      <4>7. QED
        BY <4>2, <4>3, <4>6 DEF Entry
    <3>3. QED
      BY <3>1, <3>2
  <2>12. ASSUME NEW m \in members, rooted, Member(m).asReference, Member(m).to = graph.root
         PROVE  Object(m) = 1
    BY <2>9, <2>12 DEF IsRoot
  <2>13. \A m \in members : made[Object(m)].of = Member(m).to
    BY <2>8
  <2>14. \A o \in DOMAIN made : /\ made[o].type = graph.type[made[o].of]
                                /\ Len(made[o].members) = Len(graph.members[made[o].of])
    BY <2>6, <2>7
  <2>15. \A m, n \in members :
           m # n => (Object(m) = Object(n) <=> /\ Member(m).asReference
                                               /\ Member(n).asReference
                                               /\ Member(m).to = Member(n).to)
    BY <2>10, <2>11
  <2>16. \A m \in members : rooted /\ Member(m).asReference /\ Member(m).to = graph.root
                              => Object(m) = 1
    BY <2>12
  <2>17. QED
    BY <2>4, <2>13, <2>14, <2>15, <2>16 DEF members, Object, Member
<1>2. QED
  BY <1>1, Invariance, PTL

-----------------------------------------------------------------------------
(* The reader finds each key that it asks for.                             *)

LEMMA FindsObject ==
  ASSUME Inv, NEW nodes, Settled(graph, nodes), Reads("existingObject")
  PROVE  IF Token.key = 0 THEN rootObject # None ELSE Holds("object", Token.key)
<1>1. Token.tag = "existingObject"
  BY Reading
<1>2. PICK p, c, l, d, m : Here(p, c, l, d, m)
  BY Reading
<1>3. /\ Leads(c, l, Token, d, m) /\ Follows(c, l, reading, made, cache) /\ rootObject = 1
      /\ Behind(c, l, reading, cache, nodes) /\ CacheIs(cache, made)
  BY <1>1, <1>2 DEF Here, AllBehind, Follows
<1>4. CASE Token.key = 0
  BY <1>3, <1>4 DEF None
<1>5. CASE Token.key # 0
  <2>1. HasKey(l, Token.key, Entry(Token.of)) /\ l \in Seq(Entries)
    <3>1. ExistingObjects(c, l, Token, d, m)
      BY <1>1, <1>3, WalksByTag, LeadsIs
    <3>2. QED
      BY <1>3, <1>5, <3>1, LeadsIs DEF ExistingObjects
  <2>2. Len(cache) = Len(l)
    <3>1. PICK q : q = WithObject(reading, 1)
      OBVIOUS
    <3>2. QED
      BY <1>1, <1>3, <3>1, ExistingObjectBehind
  <2>3. Token.key \in 1 .. Len(cache) /\ DOMAIN cache = 1 .. Len(cache)
    BY <1>3, <2>1, <2>2 DEF HasKey, CacheIs
  <2>4. keyed[Token.key] = Entry(Token.of)
    BY <1>3, <2>1, LeadsIs DEF HasKey
  <2>5. keyed[Token.key][1] # "type"
    BY <2>4 DEF Entry
  <2>6. PICK o \in 1 .. Len(made) : cache[Token.key] = Entry(o)
    BY <1>3, <2>3, <2>5 DEF CacheIs
  <2>7. cache[Token.key][1] = "object"
    BY <2>6 DEF Entry
  <2>8. QED
    BY <1>5, <2>3, <2>7 DEF Holds
<1>6. QED
  BY <1>4, <1>5

LEMMA FindsType ==
  ASSUME Inv, NEW nodes, Settled(graph, nodes), Reads("existingType")
  PROVE  Holds("type", Token.key)
<1>1. Token.tag = "existingType"
  BY Reading
<1>2. PICK p, c, l, d, m : Here(p, c, l, d, m)
  BY Reading
<1>3. /\ Leads(c, l, Token, d, m) /\ Follows(c, l, reading, made, cache)
      /\ Behind(c, l, reading, cache, nodes) /\ CacheIs(cache, made)
  BY <1>1, <1>2 DEF Here, AllBehind, Follows
<1>4. HasKey(l, Token.key, TypeOf(c))
  <2>1. ExistingTypes(c, l, Token, d, m)
    BY <1>1, <1>3, WalksByTag, LeadsIs
  <2>2. QED
    BY <2>1 DEF ExistingTypes
<1>5. Token.key \in 1 .. Len(cache) /\ DOMAIN cache = 1 .. Len(cache)
  <2>1. PICK q : q = WithType(reading, 1)
    OBVIOUS
  <2>2. Token.key \in 1 .. Len(cache)
    BY <1>1, <1>3, <2>1, ExistingTypeBehind
  <2>3. QED
    BY <1>3, <2>2 DEF CacheIs
<1>6. keyed[Token.key] = TypeOf(c)
  BY <1>3, <1>4, LeadsIs DEF HasKey
<1>7. keyed[Token.key][1] = "type"
  BY <1>6 DEF TypeOf, TypeEntry
<1>8. cache[Token.key] = keyed[Token.key]
  BY <1>3, <1>5, <1>7 DEF CacheIs
<1>9. QED
  BY <1>5, <1>7, <1>8 DEF Holds

LEMMA FieldIsSet ==
  ASSUME Inv, NEW nodes, Settled(graph, nodes), Reads("object")
  PROVE  Caller.type # None /\ (Caller.newObjectKey # NoKey => CanSetKeys(Caller, New))
<1>1. Token.tag = "object"
  BY Reading
<1>2. PICK p, c, l, d, m : Here(p, c, l, d, m)
  BY Reading
<1>3. /\ Leads(c, l, Token, d, m) /\ Follows(c, l, reading, made, cache)
      /\ Behind(c, l, reading, cache, nodes) /\ cache \in Seq(Keys) /\ made \in Seq(Made)
      /\ graph \in Graphs
  BY <1>1, <1>2, LeadsIs DEF Here, AllBehind, Follows, CacheIs, ObjectsAre
<1>4. PICK f : f = Last(reading)
  OBVIOUS
<1>5. PICK x \in Nat : x = Len(made) + 1
  BY <1>3
<1>6. /\ NextKeys(f, Len(cache), Len(l)) /\ f.type = graph.type[Token.of] /\ Token.of \in Nodes
      /\ Len(cache) \in Nat
  BY <1>1, <1>3, <1>4, FieldIs
<1>7. f.type \in Nat \ {0}
  BY <1>3, <1>6, GraphIs
<1>8. ASSUME f.newObjectKey # NoKey PROVE CanSetKeys(f, x)
  <2>1. /\ CanSet(cache, f.newObjectKey, Entry(x))
        /\ f.newTypeKey # NoKey =>
             CanSet(WithKey(cache, f.newObjectKey, Entry(x)), f.newTypeKey, TypeEntry(f.type))
    BY <1>3, <1>5, <1>6, <1>7, <1>8, FieldKeys
  <2>2. QED
    BY <2>1 DEF CanSetKeys, Keyed
<1>9. QED
  BY <1>4, <1>5, <1>7, <1>8 DEF Caller, New, None

LEMMA TypeIsSet ==
  ASSUME Inv, NEW nodes, Settled(graph, nodes), Reads("leave"), Front(reading) # <<>>,
         NEW f, f = Last(Front(reading)), f.call # "Read", IsLate(f)
  PROVE  CanSet(cache, f.newTypeKey, TypeEntry(f.type))
<1>1. Token.tag = "leave"
  BY Reading
<1>2. PICK p, c, l, d, m : Here(p, c, l, d, m)
  BY Reading
<1>3. /\ Leads(c, l, Token, d, m) /\ Follows(c, l, reading, made, cache)
      /\ Behind(c, l, reading, cache, nodes)
  BY <1>1, <1>2 DEF Here, AllBehind
<1>4. f.newTypeKey = Len(cache) + 1 /\ Len(cache) \in Nat
  BY <1>1, <1>3, LateKey
<1>5. QED
  BY <1>4 DEF CanSet

\* The exceptions of NetObjectCache that say that a key is missing, or that it
\* is not the next one, are never thrown for what the writer wrote, if a member
\* with a dynamic type and without a reference leads only to what is not
\* tracked: there the code counts in two orders (MCNetObjects_dynamic).
THEOREM NothingIsRefused ==
  ASSUME \A g \in Graphs : \E nodes : Settled(g, nodes)
  PROVE  Spec => []ReadsBack
<1>1. Init => ReadsBack
  BY DEF Init, ReadsBack
<1>2. ASSUME Inv, ReadsBack, [Next]_vars PROVE ReadsBack'
  <2>1. graph \in Graphs
    BY <1>2 DEF Inv, WriterInv
  <2>2. PICK nodes : Settled(graph, nodes)
    BY <2>1
  <2>3. CASE WriteObject \/ WriteExisting \/ WriteNew \/ WriteEnd
    BY <1>2, <2>3 DEF WriteObject, WriteExisting, WriteNew, WriteEnd, ReadsBack
  <2>4. CASE ReadObject \/ ReadText \/ ReadNetObject \/ NewObjectKey \/ NewTypeKey
             \/ TypeName \/ NetObjectEnd
    BY <1>2, <2>4 DEF ReadObject, ReadText, ReadNetObject, NewObjectKey, NewTypeKey, TypeName,
                      NetObjectEnd, Next1, ReadsBack
  <2>5. CASE ExistingObject
    <3>1. Reads("existingObject")
      BY <2>5 DEF ExistingObject
    <3>2. IF Token.key = 0 THEN rootObject # None ELSE Holds("object", Token.key)
      BY <1>2, <2>2, <3>1, FindsObject
    <3>3. Next1
      BY <2>5, <3>2 DEF ExistingObject
    <3>4. QED
      BY <1>2, <3>3 DEF Next1, ReadsBack
  <2>6. CASE ExistingTypeKey
    <3>1. Holds("type", Token.key)
      BY <1>2, <2>2, <2>6, FindsType DEF ExistingTypeKey
    <3>2. Next1
      BY <2>6, <3>1 DEF ExistingTypeKey
    <3>3. QED
      BY <1>2, <3>2 DEF Next1, ReadsBack
  <2>7. CASE ObjectField
    <3>1. Caller.type # None /\ (Caller.newObjectKey # NoKey => CanSetKeys(Caller, New))
      BY <1>2, <2>2, <2>7, FieldIsSet DEF ObjectField
    <3>2. Next1
      BY <2>7, <3>1 DEF ObjectField
    <3>3. QED
      BY <1>2, <3>2 DEF Next1, ReadsBack
  <2>8. CASE ReadEnd
    <3>1. PICK f : f = Last(Front(reading))
      OBVIOUS
    <3>2. Reads("leave") /\ Front(reading) # <<>>
      BY <2>8 DEF ReadEnd
    <3>3. f.call # "Read" /\ IsLate(f) => CanSet(cache, f.newTypeKey, TypeEntry(f.type))
      BY <1>2, <2>2, <3>1, <3>2, TypeIsSet
    <3>4. Next1
      BY <2>8, <3>1, <3>3 DEF ReadEnd, IsLate
    <3>5. QED
      BY <1>2, <3>4 DEF Next1, ReadsBack
  <2>9. CASE Finish
    BY <2>9 DEF Finish, ReadsBack
  <2>10. CASE Done \/ UNCHANGED vars
    BY <1>2, <2>10 DEF Done, vars, ReadsBack
  <2>11. QED
    BY <1>2, <2>3, <2>4, <2>5, <2>6, <2>7, <2>8, <2>9, <2>10 DEF Next
<1>3. QED
  BY <1>1, <1>2, Invariance, PTL DEF Spec
=============================================================================
