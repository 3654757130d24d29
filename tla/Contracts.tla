------------------------------- MODULE Contracts -------------------------------
(***************************************************************************)
(* Objects of a contract as messages, and back (Serializers/TypeSerializer *)
(* with the member decorators, SubItemSerializer, SubType, AppendExtension-*)
(* Data), between applications that have different versions of it.         *)
(*                                                                         *)
(* A message is a sequence of fields; a field with fields of its own is a  *)
(* sub-type level of the same object, or a member that is an object.       *)
(* Everything is named by its path, the tags that lead to it: a level (a   *)
(* type in a hierarchy, with its TypeSerializer), an object (the level of  *)
(* its root type), or a leaf (a scalar or a list).                         *)
(***************************************************************************)
EXTENDS Naturals, SequencesExt, FiniteSetsExt

CONSTANT Versions (* the contracts of the two applications: new and old     *)

VARIABLES
  contracts, (* the pair that is used                                       *)
  app,       (* the application that reads: "old" or "new"                  *)
  inbox,     (* the messages it has still to read                           *)
  frames,    (* the active calls of TypeSerializer.Read                     *)
  object,    (* the object it reads into, with all that it holds            *)
  calls,     (* how often the callbacks of each level have run on it        *)
  status,    (* "ok" or "failed"                                            *)
  senders,   (* history: the objects that were sent                         *)
  taken,     (* history: the leaves of the messages read into the object    *)
  truth      (* history: what the application with the old contract had     *)

vars == <<contracts, app, inbox, frames, object, calls, status, senders, taken,
          truth>>

-----------------------------------------------------------------------------
(* Contracts.                                                              *)

Tags(c, p) == DOMAIN c[p].tags
Kind(c, p, tag) == c[p].tags[tag]
IsLeaf(c, p, tag) == Kind(c, p, tag) \in {"scalar", "list"}
LeavesAt(c, p) == {Append(p, t) : t \in {u \in Tags(c, p) : IsLeaf(c, p, u)}}
Leaves(c) == UNION {LeavesAt(c, p) : p \in DOMAIN c}

IsObject(c, p) == p = <<>> \/ Kind(c, Front(p), Last(p)) = "part"
Objects(c) == {p \in DOMAIN c : IsObject(c, p)}

\* The object that a level is part of, and the levels of an object that is of
\* the type p.
ObjectOf(c, p) ==
  SubSeq(p, 1, Max({n \in 0 .. Len(p) : SubSeq(p, 1, n) \in Objects(c)}))
LevelsOf(c, p) ==
  {l \in DOMAIN c : IsPrefix(l, p) /\ ObjectOf(c, l) = ObjectOf(c, p)}

Mine == contracts[app]
All == contracts.new

\* fieldNumbers: sorted by the constructor, with the serializers.
Numbers(p) == SetToSortSeq(Tags(Mine, p), LAMBDA s, t : s < t)

-----------------------------------------------------------------------------
(* Objects and messages.                                                   *)

None == <<0>>
Nothing == [type |-> [p \in Objects(All) |-> None],
            content |-> [x \in Leaves(All) |-> <<>>],
            ext |-> [p \in Objects(All) |-> <<>>]]
NoCalls == [before |-> [l \in DOMAIN All |-> 0],
            after |-> [l \in DOMAIN All |-> 0]]

\* The level p is part of the object.
Has(o, c, p) ==
  o.type[ObjectOf(c, p)] # None /\ IsPrefix(p, o.type[ObjectOf(c, p)])

Field(tag, val, fields) == [tag |-> tag, val |-> val, fields |-> fields]

\* Write: the sub-type first, then the members in the order of their numbers,
\* then the extension data.  An empty leaf (a null list, or a scalar with the
\* default value that its constructor gives it) writes nothing.
RECURSIVE Written(_, _, _)
Written(c, o, p) ==
  LET Sub(t) == IF Kind(c, p, t) = "sub" /\ Has(o, c, Append(p, t))
                THEN <<Field(t, 0, Written(c, o, Append(p, t)))>> ELSE <<>>
      Member(t) ==
        LET q == Append(p, t) IN
        CASE IsLeaf(c, p, t) ->
               [i \in DOMAIN o.content[q] |-> Field(t, o.content[q][i], <<>>)]
          [] Kind(c, p, t) = "part" ->
               IF o.type[q] = None THEN <<>>
               ELSE <<Field(t, 0, Written(c, o, q))>>
          [] OTHER -> <<>>
      tags == SetToSortSeq(Tags(c, p), LAMBDA s, t : s < t)
  IN FlattenSeq([i \in DOMAIN tags |-> Sub(tags[i])])
       \o FlattenSeq([i \in DOMAIN tags |-> Member(tags[i])])
       \o (IF c[p].extensible THEN o.ext[p] ELSE <<>>)

\* The leaves of a message in their order: pairs of a path and a value.
RECURSIVE Flat(_, _)
Flat(fields, p) ==
  FlattenSeq([i \in DOMAIN fields |->
    LET q == Append(p, fields[i].tag) IN
    IF fields[i].val = 0 THEN Flat(fields[i].fields, q)
    ELSE << <<q, fields[i].val>> >>])

\* What an application with this contract can send: the type of each object, and
\* how many values k are in each leaf.
Typings(c) ==
  {ty \in [Objects(c) -> DOMAIN c \union {None}] :
     /\ ty[<<>>] # None
     /\ \A p \in Objects(c) :
          ty[p] # None => /\ ObjectOf(c, ty[p]) = p
                          /\ p # <<>> => IsPrefix(Front(p), ty[ObjectOf(c, Front(p))])}

Fillings(c, ty) ==
  {n \in [Leaves(c) -> 0 .. 2] :
     \A x \in Leaves(c) :
       /\ n[x] > 0 => IsPrefix(Front(x), ty[ObjectOf(c, Front(x))])
       /\ Kind(c, Front(x), Last(x)) = "scalar" => n[x] < 2}

Sent(c, k) ==
  UNION {{[type |-> ty,
           content |-> [x \in Leaves(c) |-> [i \in 1 .. n[x] |-> k]],
           ext |-> [p \in Objects(c) |-> <<>>]] : n \in Fillings(c, ty)} :
           ty \in Typings(c)}

-----------------------------------------------------------------------------
(* TypeSerializer.Read: the frame f is the active call.                    *)

f == Last(frames)
Current == Head(f.rest)

\* Where the search for the field begins: the serializers are sorted, so that
\* usually it can go on from the last one.
SearchFrom_noRewind(tag) == f.lastIndex

SearchFrom(tag) == IF tag < f.lastNumber THEN 1 ELSE f.lastIndex

Found(tag) ==
  {i \in SearchFrom(tag) .. Len(Numbers(f.path)) : Numbers(f.path)[i] = tag}

Handler == IF Found(Current.tag) = {} THEN "unknown"
           ELSE Kind(Mine, f.path, Current.tag)

\* The call when n fields have been read.
Advanced(n) ==
  IF Handler = "unknown"
  THEN [f EXCEPT !.rest = Tail(@),
                 !.lastNumber = IF Current.tag < @ THEN 0 ELSE @,
                 !.lastIndex = IF Current.tag < f.lastNumber THEN 1 ELSE @]
  ELSE [f EXCEPT !.rest = SubSeq(@, n + 1, Len(@)),
                 !.lastNumber = Current.tag,
                 !.lastIndex = CHOOSE i \in Found(Current.tag) : TRUE]

Call(p, fields) == [path |-> p, rest |-> fields, lastNumber |-> 0, lastIndex |-> 1]

\* Callbacks of a set of levels.
Once(counts, levels) ==
  [l \in DOMAIN counts |-> counts[l] + (IF l \in levels THEN 1 ELSE 0)]
Ran(when, levels) == [calls EXCEPT ![when] = Once(@, levels)]

\* CreateInstance, unless there is one: of the type whose serializer is active,
\* with the callbacks of its base types and its own.
Owner == ObjectOf(Mine, f.path)
IsNull == object.type[Owner] = None

Created_ownOnly == IF IsNull THEN Ran("before", {f.path}) ELSE calls
Created == IF IsNull THEN Ran("before", LevelsOf(Mine, f.path)) ELSE calls

Instance == IF IsNull THEN [object EXCEPT !.type[Owner] = f.path] ELSE object

\* Members can be set if the object is of the type that has them.
Fits == IsNull \/ Has(object, Mine, f.path)

Fail == /\ status' = "failed"
        /\ UNCHANGED <<contracts, app, inbox, frames, object, calls, senders,
                       taken, truth>>

Reads == UNCHANGED <<contracts, app, inbox, status, senders, taken, truth>>

ReadScalar ==
  /\ Handler = "scalar"
  /\ object' = [Instance EXCEPT
       !.content[Append(f.path, Current.tag)] = <<Current.val>>]
  /\ calls' = Created
  /\ frames' = Append(Front(frames), Advanced(1))
  /\ Reads

\* As many elements as follow one another (TryReadFieldHeader).
Run ==
  Max({n \in 1 .. Len(f.rest) : \A i \in 1 .. n : f.rest[i].tag = Current.tag})

Elements(n) == [i \in 1 .. n |-> f.rest[i].val]

ReadList ==
  /\ Handler = "list"
  /\ object' = [Instance EXCEPT
       !.content[Append(f.path, Current.tag)] = @ \o Elements(Run)]
  /\ calls' = Created
  /\ frames' = Append(Front(frames), Advanced(Run))
  /\ Reads

\* A member that is an object is read into the one there is; for its type this
\* is a root: the callbacks of what is there run first.
ReadPart ==
  LET q == Append(f.path, Current.tag) IN
  /\ Handler = "part"
  /\ object' = Instance
  /\ calls' = LET made == Created IN
       IF object.type[q] = None THEN made
       ELSE [made EXCEPT !.before = Once(@, LevelsOf(Mine, object.type[q]))]
  /\ frames' = Append(Front(frames), Advanced(1)) \o <<Call(q, Current.fields)>>
  /\ Reads

\* A sub-type level is read into the same object, which it makes if need be.
ReadSubType ==
  /\ Handler = "sub"
  /\ frames' = Append(Front(frames), Advanced(1))
                 \o <<Call(Append(f.path, Current.tag), Current.fields)>>
  /\ UNCHANGED <<object, calls>>
  /\ Reads

Appended_replaces(fields) == fields
Appended(fields) == Instance.ext[Owner] \o fields

\* Unknown fields are kept by an extensible object and skipped by another.
ReadUnknown ==
  /\ Handler = "unknown"
  /\ object' = IF Mine[f.path].extensible
               THEN [Instance EXCEPT !.ext[Owner] = Appended(<<Current>>)]
               ELSE Instance
  /\ calls' = Created
  /\ frames' = Append(Front(frames), Advanced(1))
  /\ Reads

ReadField ==
  /\ status = "ok" /\ frames # <<>> /\ f.rest # <<>>
  /\ \/ /\ Handler \in {"scalar", "list", "part"} /\ ~Fits
        /\ Fail
     \/ /\ Fits
        /\ ReadScalar \/ ReadList \/ ReadPart
     \/ ReadSubType
     \/ ReadUnknown

\* The end of the message or sub-message: an object even if nothing was in it,
\* and the last callbacks where the root type is read.
Return ==
  /\ status = "ok" /\ frames # <<>> /\ f.rest = <<>>
  /\ object' = Instance
  /\ calls' = LET made == Created IN
       IF f.path # Owner THEN made
       ELSE [made EXCEPT !.after = Once(@, LevelsOf(Mine, Instance.type[Owner]))]
  /\ frames' = Front(frames)
  /\ Reads

-----------------------------------------------------------------------------
(* The applications.                                                       *)

\* Deserialize or Merge the next message.
Deserialize ==
  /\ status = "ok" /\ frames = <<>> /\ inbox # <<>>
  /\ frames' = <<Call(<<>>, Head(inbox))>>
  /\ inbox' = Tail(inbox)
  /\ calls' = IF object.type[<<>>] = None THEN calls
              ELSE Ran("before", LevelsOf(Mine, object.type[<<>>]))
  /\ taken' = taken \o Flat(Head(inbox), <<>>)
  /\ UNCHANGED <<contracts, app, object, status, senders, truth>>

\* What an application knows of, or keeps without knowing it.
Keeps(c, x) ==
  \/ x \in Leaves(c)
  \/ \E n \in 0 .. Len(x) - 1 :
       LET p == SubSeq(x, 1, n) IN
       p \in DOMAIN c /\ x[n + 1] \notin Tags(c, p) /\ c[p].extensible

\* The old application may change what it knows and sends the object on.
Edits == {<<>>} \union
  {<< <<x, 3>> >> : x \in {y \in Leaves(contracts.old) :
                             Has(object, contracts.old, Front(y))}}

Forward ==
  /\ app = "old" /\ status = "ok" /\ frames = <<>> /\ inbox = <<>>
  /\ \E e \in Edits :
       LET changed ==
             IF e = <<>> THEN object
             ELSE [object EXCEPT !.content[e[1][1]] =
                     IF Kind(Mine, Front(e[1][1]), Last(e[1][1])) = "list"
                     THEN Append(@, 3) ELSE <<3>>]
       IN /\ inbox' = <<Written(Mine, changed, <<>>)>>
          /\ truth' = SelectSeq(taken, LAMBDA v : Keeps(Mine, v[1])) \o e
  /\ app' = "new"
  /\ object' = Nothing /\ calls' = NoCalls /\ taken' = <<>>
  /\ UNCHANGED <<contracts, frames, status, senders>>

-----------------------------------------------------------------------------
\* One object is sent, or two: as two messages, or as one behind the other.
Init ==
  /\ contracts \in Versions
  /\ app \in {"old", "new"}
  /\ senders \in {<<o>> : o \in Sent(All, 1)}
                   \union {<<o, u>> : o \in Sent(All, 1), u \in Sent(All, 2)}
  /\ LET sent == [i \in DOMAIN senders |-> Written(All, senders[i], <<>>)]
     IN inbox \in {sent, <<FlattenSeq(sent)>>}
  /\ frames = <<>>
  /\ object = Nothing
  /\ calls = NoCalls
  /\ status = "ok"
  /\ taken = <<>>
  /\ truth = <<>>

Next == Deserialize \/ ReadField \/ Return \/ Forward

Spec == Init /\ [][Next]_vars

-----------------------------------------------------------------------------
(* Properties.                                                             *)

\* What a sequence of leaves comes to: of a scalar the last, of a list all.
Merged(leaves, x, kind) ==
  LET at == SelectSeq(leaves, LAMBDA v : v[1] = x)
      vals == [i \in DOMAIN at |-> at[i][2]]
  IN IF kind = "scalar" /\ vals # <<>> THEN <<Last(vals)>> ELSE vals

Holds(leaves, c) ==
  \A x \in Leaves(c) :
    object.content[x] = Merged(leaves, x, Kind(c, Front(x), Last(x)))

\* However the fields of messages and sub-types come and wherever the search for
\* a field begins, an object is the merge of what was read into it; only objects
\* of different types cannot be merged.
ObjectIsMerge ==
  /\ frames = <<>> => Holds(taken, Mine)
  /\ status = "failed" =>
       \E p \in Objects(All) :
         Cardinality({senders[i].type[p] : i \in DOMAIN senders} \ {None}) > 1

\* The callbacks of every level of an object run in pairs, around all that is
\* read into it: BeforeDeserialize when it is made or read into again,
\* AfterDeserialize at the end.
CallbacksBracket ==
  status = "ok" => \A l \in DOMAIN Mine :
    LET o == ObjectOf(Mine, l)
        open == Has(object, Mine, l) /\ \E i \in DOMAIN frames : frames[i].path = o
    IN /\ calls.before[l] = calls.after[l] + (IF open THEN 1 ELSE 0)
       /\ Has(object, Mine, l) => calls.before[l] > 0

\* What passed through an application with an older contract is still there,
\* what it did not know included, with what it changed.
NothingIsLost ==
  truth # <<>> /\ inbox = <<>> /\ frames = <<>> /\ status = "ok" => Holds(truth, All)
=============================================================================
