------------------------------ MODULE NetObjects ------------------------------
(***************************************************************************)
(* Reference tracking (NetObjectCache.cs, and ReadNetObject and            *)
(* WriteNetObject of BclHelpers.cs).  The writer numbers the objects and   *)
(* types that it meets, in a list; the reader rebuilds the list while it   *)
(* rebuilds the objects, and both must number alike.                       *)
(*                                                                         *)
(* A graph of objects is written and what came out is read back, into      *)
(* objects of the reader's own.                                            *)
(***************************************************************************)
EXTENDS Integers, SequencesExt

CONSTANTS
  Graphs,    (* a root, and for each node its type and its members          *)
  StringType (* the type of strings, which have no members                  *)

None == 0   (* no object, no type; nodes and the reader's objects count from 1 *)
NoKey == -1

ASSUME GraphAssumption ==
  \A g \in Graphs :
    /\ DOMAIN g.type \subseteq Nat \ {0} /\ g.root \in DOMAIN g.type
    /\ \A n \in DOMAIN g.type :
         /\ g.type[n] \in Nat \ {0}
         /\ g.type[n] = StringType => g.members[n] = <<>>
         /\ g.members[n] \in Seq([to : DOMAIN g.type, asReference : BOOLEAN,
                                  dynamicType : BOOLEAN])

VARIABLES
  graph,
  rooted,   (* whether the writer was told its root: Serialize, but not     *)
            (* SerializeWithLengthPrefix                                    *)
  writing,  (* the writer's calls of Write: the node and its next member    *)
  keyed,    (* the writer's NetCache                                        *)
  wire,
  at,       (* how far the reader is in the wire                            *)
  reading,  (* the reader's calls: of Read, and of ReadNetObject            *)
  cache,    (* the reader's NetCache                                        *)
  rootObject,
  made,     (* the objects that the reader has made                         *)
  status

writerVars == <<writing, keyed, wire>>
readerVars == <<at, reading, cache, rootObject, made>>
vars == <<graph, rooted, writerVars, readerVars, status>>

TypeEntry(type) == <<"type", type>>
Entry(object) == <<"object", object>>

IsTracked(m) == m.asReference \/ m.dynamicType
IsString(node) == graph.type[node] = StringType

\* A token on the wire; of is the node, for the properties, except in a type name.
T(tag, key, of) == [tag |-> tag, key |-> key, of |-> of]

-----------------------------------------------------------------------------
(* The writer.                                                             *)

\* AddObjectKey: the value has a key when it is the root or in the list; else
\* it joins the list.
IsRoot_never(value) == FALSE
IsRoot(value) == rooted /\ value = Entry(graph.root)
Exists(list, value) == IsRoot(value) \/ Contains(list, value)
KeyIn(list, value) == CASE IsRoot(value) -> 0
                        [] ~Exists(list, value) -> Len(list) + 1
                        [] OTHER -> CHOOSE i \in DOMAIN list : list[i] = value
With(list, value) == IF Exists(list, value) THEN list ELSE Append(list, value)

Writer == Last(writing)
NextMember == graph.members[Writer.node][Writer.next]
AtMember == /\ status = "writing" /\ writing # <<>>
            /\ Writer.next <= Len(graph.members[Writer.node])

\* The call returns before its caller goes on to the next member.
Advanced == [writing EXCEPT ![Len(writing)].next = @ + 1]
Write(m, tokens, closing) ==
  IF IsString(m.to)
  THEN /\ wire' = wire \o tokens \o closing
       /\ writing' = Advanced
  ELSE /\ wire' = wire \o tokens
       /\ writing' = Append(Advanced, [node |-> m.to, next |-> 1, closing |-> closing])

\* A member that is not tracked is written where it stands.
WriteObject ==
  LET m == NextMember IN
  /\ AtMember /\ ~IsTracked(m)
  /\ IF IsString(m.to) THEN Write(m, <<T("text", NoKey, m.to)>>, <<>>)
     ELSE Write(m, <<T("enter", NoKey, m.to)>>, <<T("leave", NoKey, m.to)>>)
  /\ UNCHANGED <<graph, rooted, keyed, readerVars, status>>

WriteExisting ==
  LET m == NextMember IN
  /\ AtMember /\ m.asReference /\ Exists(keyed, Entry(m.to))
  /\ wire' = wire \o <<T("start", NoKey, m), T("existingObject", KeyIn(keyed, Entry(m.to)), m.to),
                       T("end", NoKey, m.to)>>
  /\ writing' = Advanced
  /\ UNCHANGED <<graph, rooted, keyed, readerVars, status>>

WriteNew ==
  LET m == NextMember
      type == TypeEntry(graph.type[m.to])
      afterObject == IF m.asReference THEN With(keyed, Entry(m.to)) ELSE keyed
      objectTokens == IF m.asReference
                      THEN <<T("newObject", KeyIn(keyed, Entry(m.to)), m.to)>> ELSE <<>>
      typeTokens ==
        IF ~m.dynamicType THEN <<>>
        ELSE IF Exists(afterObject, type)
        THEN <<T("existingType", KeyIn(afterObject, type), m.to)>>
        ELSE <<T("newType", KeyIn(afterObject, type), m.to),
               T("typeName", NoKey, graph.type[m.to])>>
      close == <<T("end", NoKey, m.to)>>
  IN
  /\ AtMember /\ IsTracked(m) /\ ~(m.asReference /\ Exists(keyed, Entry(m.to)))
  /\ keyed' = IF m.dynamicType THEN With(afterObject, type) ELSE afterObject
  /\ Write(m, <<T("start", NoKey, m)>> \o objectTokens \o typeTokens
                \o <<T("object", NoKey, m.to)>>,
           IF IsString(m.to) THEN close ELSE <<T("leave", NoKey, m.to)>> \o close)
  /\ UNCHANGED <<graph, rooted, readerVars, status>>

WriteEnd ==
  /\ status = "writing" /\ writing # <<>>
  /\ Writer.next > Len(graph.members[Writer.node])
  /\ wire' = wire \o Writer.closing
  /\ writing' = Front(writing)
  /\ status' = IF Len(writing) = 1 THEN "reading" ELSE status
  /\ UNCHANGED <<graph, rooted, keyed, readerVars>>

-----------------------------------------------------------------------------
(* The reader.  A call of Read fills an object; a call of ReadNetObject    *)
(* has the fields of the bundle so far.                                    *)

Reads(tag) == status = "reading" /\ at < Len(wire) /\ wire[at + 1].tag = tag
Token == wire[at + 1]
Caller == Last(reading)
Filling(object) == [call |-> "Read", object |-> object, type |-> None,
                    newObjectKey |-> NoKey, newTypeKey |-> NoKey]

Fail == /\ status' = "failed" /\ UNCHANGED <<graph, rooted, writerVars, readerVars>>

\* SetKeyedObject, for a key that is not the root's.
CanSet(list, key, value) == IF key <= Len(list) THEN list[key] = value
                            ELSE key = Len(list) + 1
WithKey(list, key, value) == IF key <= Len(list) THEN list ELSE Append(list, value)

Make(node, type) == made' = Append(made, [of |-> node, type |-> type, members |-> <<>>])
New == Len(made) + 1

\* The object comes back to the call that wanted it.
Give(callers, object) ==
  IF Last(callers).call = "Read"
  THEN /\ reading' = callers
       /\ made' = [made EXCEPT ![Last(callers).object].members = Append(@, object)]
  ELSE /\ reading' = [callers EXCEPT ![Len(callers)].object = object]
       /\ UNCHANGED made

Next1 == at' = at + 1 /\ UNCHANGED <<graph, rooted, writerVars, status>>

\* CreateInstance, which proposes the first object as the root.
ReadObject ==
  /\ Reads("enter") /\ Next1
  /\ Make(Token.of, graph.type[Token.of])
  /\ rootObject' = IF rootObject = None THEN New ELSE rootObject
  /\ reading' = Append(reading, Filling(New))
  /\ UNCHANGED cache

\* A string that is not tracked.
ReadText ==
  /\ Reads("text") /\ Next1
  /\ made' = [Append(made, [of |-> Token.of, type |-> StringType, members |-> <<>>])
                EXCEPT ![Caller.object].members = Append(@, New)]
  /\ UNCHANGED <<reading, cache, rootObject>>

\* A dynamic member has no type until the wire names one.
ReadNetObject ==
  /\ Reads("start") /\ Next1
  /\ reading' = Append(reading,
       [Filling(None) EXCEPT !.call = "ReadNetObject",
          !.type = IF Token.of.dynamicType THEN None ELSE graph.type[Token.of.to]])
  /\ UNCHANGED <<cache, rootObject, made>>

\* GetKeyedObject, and the cast of what it finds.
Holds(kind, key) == key \in DOMAIN cache /\ cache[key][1] = kind

ExistingObject ==
  LET key == Token.key IN
  /\ Reads("existingObject")
  /\ IF IF key = 0 THEN rootObject = None ELSE ~Holds("object", key) THEN Fail
     ELSE /\ Next1
          /\ reading' = [reading EXCEPT ![Len(reading)].object =
                           IF key = 0 THEN rootObject ELSE cache[key][2]]
          /\ UNCHANGED <<cache, rootObject, made>>

NewObjectKey == /\ Reads("newObject") /\ Next1
                /\ reading' = [reading EXCEPT ![Len(reading)].newObjectKey = Token.key]
                /\ UNCHANGED <<cache, rootObject, made>>

ExistingTypeKey ==
  LET key == Token.key IN
  /\ Reads("existingType")
  /\ IF ~Holds("type", key) THEN Fail
     ELSE /\ Next1
          /\ reading' = [reading EXCEPT ![Len(reading)].type = cache[key][2]]
          /\ UNCHANGED <<cache, rootObject, made>>

NewTypeKey == /\ Reads("newType") /\ Next1
              /\ reading' = [reading EXCEPT ![Len(reading)].newTypeKey = Token.key]
              /\ UNCHANGED <<cache, rootObject, made>>

TypeName == /\ Reads("typeName") /\ Next1
            /\ reading' = [reading EXCEPT ![Len(reading)].type = Token.of]
            /\ UNCHANGED <<cache, rootObject, made>>

\* The new keys of a bundle are set one after the other.
Keyed(frame, object) == WithKey(cache, frame.newObjectKey, Entry(object))
CanSetKeys(frame, object) ==
  /\ CanSet(cache, frame.newObjectKey, Entry(object))
  /\ frame.newTypeKey # NoKey =>
       CanSet(Keyed(frame, object), frame.newTypeKey, TypeEntry(frame.type))
AfterKeys_typeFirst(frame, object) ==
  IF frame.newTypeKey = NoKey THEN Keyed(frame, object)
  ELSE Append(Append(cache, TypeEntry(frame.type)), Entry(object))
AfterKeys_objectOnly(frame, object) == Keyed(frame, object)
AfterKeys(frame, object) ==
  IF frame.newTypeKey = NoKey THEN Keyed(frame, object)
  ELSE WithKey(Keyed(frame, object), frame.newTypeKey, TypeEntry(frame.type))

Bundled_lost == reading
Bundled == [reading EXCEPT ![Len(reading)].object = New]

\* The object of the bundle: keys are set before it is read, so that it can
\* refer to itself; a string's afterwards, which makes no difference here.
ObjectField ==
  /\ Reads("object")
  /\ IF Caller.type = None \/ (Caller.newObjectKey # NoKey /\ ~CanSetKeys(Caller, New))
     THEN Fail
     ELSE /\ Next1
          /\ Make(Token.of, Caller.type)
          /\ cache' = IF Caller.newObjectKey # NoKey THEN AfterKeys(Caller, New) ELSE cache
          /\ reading' = IF Caller.type = StringType THEN Bundled
                        ELSE Append(Bundled, Filling(New))
          /\ UNCHANGED rootObject

\* A type without an object gets its key when the object has been read.
ReadEnd ==
  LET callers == Front(reading) IN
  /\ Reads("leave") /\ callers # <<>>
  /\ IF Last(callers).call = "Read" THEN Next1 /\ Give(callers, Caller.object) /\ UNCHANGED cache
     ELSE LET frame == Last(callers)
              late == frame.newObjectKey = NoKey /\ frame.newTypeKey # NoKey
          IN IF late /\ ~CanSet(cache, frame.newTypeKey, TypeEntry(frame.type)) THEN Fail
             ELSE /\ Next1
                  /\ reading' = callers
                  /\ cache' = IF late THEN WithKey(cache, frame.newTypeKey, TypeEntry(frame.type))
                              ELSE cache
                  /\ UNCHANGED made
  /\ UNCHANGED rootObject

NetObjectEnd == /\ Reads("end") /\ Next1
                /\ Give(Front(reading), Caller.object)
                /\ UNCHANGED <<cache, rootObject>>

Finish == /\ Reads("leave") /\ Len(reading) = 1
          /\ status' = "finished"
          /\ reading' = <<>>
          /\ at' = at + 1
          /\ UNCHANGED <<graph, rooted, writerVars, cache, rootObject, made>>

-----------------------------------------------------------------------------
Done == status \in {"finished", "failed"} /\ UNCHANGED vars

Init == /\ graph \in Graphs /\ rooted \in BOOLEAN
        /\ writing = <<[node |-> graph.root, next |-> 1,
                       closing |-> <<T("leave", NoKey, graph.root)>>]>>
        /\ keyed = <<>>
        /\ wire = <<T("enter", NoKey, graph.root)>>
        /\ at = 0 /\ reading = <<>> /\ cache = <<>> /\ rootObject = None /\ made = <<>>
        /\ status = "writing"

Next == \/ WriteObject \/ WriteExisting \/ WriteNew \/ WriteEnd
        \/ ReadObject \/ ReadText \/ ReadNetObject
        \/ ExistingObject \/ NewObjectKey \/ ExistingTypeKey \/ NewTypeKey \/ TypeName
        \/ ObjectField \/ ReadEnd \/ NetObjectEnd \/ Finish \/ Done

Spec == Init /\ [][Next]_vars

-----------------------------------------------------------------------------
\* What the reader holds refers to objects that it has made.
TypeOK ==
  LET objects == DOMAIN made IN
  /\ rooted \in BOOLEAN
  /\ status \in {"writing", "reading", "finished", "failed"}
  /\ \A i \in DOMAIN writing : writing[i].node \in DOMAIN graph.type
  /\ \A i \in DOMAIN keyed :
       keyed[i][2] \in IF keyed[i][1] = "type" THEN Nat ELSE DOMAIN graph.type
  /\ at \in 0 .. Len(wire)
  /\ rootObject \in objects \cup {None}
  /\ \A i \in DOMAIN reading : reading[i].object \in objects \cup {None}
  /\ \A i \in DOMAIN cache :
       cache[i][2] \in IF cache[i][1] = "type" THEN Nat ELSE objects
  /\ \A o \in objects : made[o].members \in Seq(objects)

\* A key means to the reader what it meant to the writer, while the reader is
\* still in the middle of the objects: the two lists are filled in one order
\* though one side fills it before the nested objects (AddObjectKey), and the
\* other in part after them (ReadNetObject).
KeysAgree ==
  /\ Len(cache) <= Len(keyed)
  /\ \A i \in DOMAIN cache :
       /\ cache[i][1] = keyed[i][1]
       /\ IF cache[i][1] = "type" THEN cache[i][2] = keyed[i][2]
          ELSE made[cache[i][2]].of = keyed[i][2]

\* The reader finds each key that it asks for, and each new key is the next
\* one of its list (the exceptions of NetObjectCache are internal errors).
ReadsBack == status # "failed"

\* The graph that comes out is the one that went in.  A member that is tracked
\* by reference shares its object with all such members that had the same
\* target; with the root too, if the writer knew it.  Any other member has an
\* object of its own.
GraphIsPreserved ==
  LET members == UNION {{<<o, i>> : i \in DOMAIN made[o].members} : o \in DOMAIN made}
      Object(m) == made[m[1]].members[m[2]]
      Member(m) == graph.members[made[m[1]].of][m[2]]
  IN
  status = "finished" =>
    /\ made[1].of = graph.root
    /\ \A o \in DOMAIN made :
         /\ made[o].type = graph.type[made[o].of]
         /\ Len(made[o].members) = Len(graph.members[made[o].of])
    /\ \A m \in members : made[Object(m)].of = Member(m).to
    /\ \A m \in members : rooted /\ Member(m).asReference /\ Member(m).to = graph.root
                           => Object(m) = 1
    /\ \A m, n \in members :
         m # n => (Object(m) = Object(n) <=> /\ Member(m).asReference
                                             /\ Member(n).asReference
                                             /\ Member(m).to = Member(n).to)

=============================================================================
