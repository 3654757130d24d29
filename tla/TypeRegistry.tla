----------------------------- MODULE TypeRegistry -----------------------------
(***************************************************************************)
(* The type registry of a RuntimeTypeModel: how several threads discover,  *)
(* configure, freeze and use MetaTypes (Meta/RuntimeTypeModel.cs,          *)
(* Meta/MetaType.cs).                                                      *)
(*                                                                         *)
(* The list of types is read without a lock and extended under one monitor *)
(* (the lock on `types`), which is re-entrant because configuring a type   *)
(* registers its base type and its sub-types.  A thread is modelled by its *)
(* call stack: a frame per active method, whose pc names the next          *)
(* statement that other threads can observe.  The monitor is held by the   *)
(* threads that have a frame between TakeLock and ReleaseLock; every       *)
(* ReleaseLock is in a finally block, so leaving a frame, by return or by  *)
(* an exception, releases what the frame took.                             *)
(***************************************************************************)
EXTENDS Naturals, Sequences

CONSTANTS
  Threads,      (* threads that share one model                             *)
  Types,        (* CLR types with a contract (GetContractFamily # None)     *)
  NoType,       (* null                                                     *)
  NoSerializer, (* MetaType.serializer = null                               *)
  BaseOf,       (* CLR base type with a contract, or NoType                 *)
  Assignable,   (* the pairs <<b, d>> for which b.IsAssignableFrom(d)       *)
  Includes,     (* [ProtoInclude] sub-types declared on a type              *)
  Members,      (* types of the serialized members                          *)
  Faulty,       (* types whose ApplyDefaultBehaviour may throw              *)
  Ops,          (* the public operations the threads call                   *)
  MaxOps,       (* BOUND: calls per thread                                  *)
  Timeouts      (* may Monitor.TryEnter time out?                           *)

OpNames == {"Use", "Add", "AddSubType", "AddField", "Configure", "Freeze",
            "Compile"}

ASSUME RegistryAssumption ==
  /\ NoType \notin Types
  /\ BaseOf \in [Types -> Types \union {NoType}]
  /\ Assignable \subseteq Types \X Types
  /\ \A p, q \in Assignable : p[2] = q[1] => <<p[1], q[2]>> \in Assignable
  /\ \A p \in Assignable : <<p[2], p[1]>> \in Assignable => p[1] = p[2]
  /\ Includes \in [Types -> SUBSET Types]
  /\ Members \in [Types -> SUBSET Types]
  /\ Faulty \subseteq Types
  /\ Ops \subseteq OpNames
  /\ MaxOps \in Nat
  /\ Timeouts \in BOOLEAN

VARIABLES
  types,       (* RuntimeTypeModel.types: the index of a type is its key    *)
  flags,       (* MetaType.flags                                            *)
  fields,      (* MetaType.fields: "attr" from attributes, "extra" by hand  *)
  baseType,    (* MetaType.baseType                                         *)
  subTypes,    (* MetaType.subTypes                                         *)
  serializer,  (* MetaType.serializer: what it was built from               *)
  modelFrozen, (* OPTIONS_Frozen of the model                               *)
  stack,       (* the call stack of each thread, top last                   *)
  calls,       (* calls made by each thread so far                          *)
  errors,      (* exceptions that each thread's calls ended in              *)
  failed,      (* history: types whose registration was abandoned           *)
  keys         (* history: the root types GetKey answered for each type     *)

metaVars == <<flags, fields, baseType, subTypes, serializer>>
histVars == <<failed, keys>>
vars == <<types, metaVars, modelFrozen, stack, calls, errors, histVars>>

Flag == {"Pending", "Frozen", "Option"}
Field == {"attr", "extra"}
Serializer == [fields : SUBSET Field, subs : SUBSET Types, root : BOOLEAN]

Reason == {"timeout", "model frozen", "type frozen", "bad contract",
           "bad hierarchy", "duplicate type"}

LockPCs == {"waitlock", "take", "rootlock", "serlock", "fieldlock", "addlock"}
LockedPCs == {"waited", "create", "recheck", "add", "ready", "leave",
              "rootread", "build", "members", "built", "fieldadd", "addcheck"}
OtherPCs == {"look", "base", "include", "subfind", "subcheck", "link",
             "subadd", "getkey", "climb", "rekey", "peek", "answer",
             "typeget", "fieldget", "compileget", "addfind", "addcreate",
             "optget", "optcheck", "optread", "optwrite"}
LinkPCs == {"typeget", "subfind", "subcheck", "link", "subadd",
            "climb", "rootlock", "rootread", "rekey"}
PC == LockPCs \union LockedPCs \union OtherPCs

Frame == [pc : PC, type : Types, other : Types \union {NoType},
          held : BOOLEAN, todo : SUBSET Types, subs : SUBSET Types,
          saved : SUBSET Flag, next : {"peek", "answer"}]

NewFrame(pc, x, y) ==
  [pc |-> pc, type |-> x, other |-> y, held |-> FALSE,
   todo |-> {}, subs |-> {}, saved |-> {}, next |-> "peek"]

\* IsValidSubType filters the declared sub-types.
ValidIncludes(x) == {d \in Includes[x] : <<x, d>> \in Assignable}

Known(x) == \E i \in DOMAIN types : types[i] = x
Pending(x) == "Pending" \in flags[x]
Frozen(x) == "Frozen" \in flags[x]

-----------------------------------------------------------------------------
(* Moving through a call stack.                                            *)

Depth(t) == Len(stack[t])
Top(t) == stack[t][Depth(t)]
At(t, pc) == stack[t] # <<>> /\ Top(t).pc = pc

Goto(t, frame) == stack' = [stack EXCEPT ![t][Depth(t)] = frame]
GotoPC(t, pc) == Goto(t, [Top(t) EXCEPT !.pc = pc])
Call(t, caller, callee) ==
  stack' = [stack EXCEPT ![t] = Append([@ EXCEPT ![Depth(t)] = caller], callee)]
Return(t) == stack' = [stack EXCEPT ![t] = SubSeq(@, 1, Depth(t) - 1)]

\* The types a thread has put in the list and not yet finished.
Registering(t) ==
  {stack[t][i].type : i \in {j \in DOMAIN stack[t] : stack[t][j].pc = "ready"}}

\* An exception leaves every frame; the finally blocks release the lock, and
\* nobody takes back the types that were being registered.
Throw(t, reason) ==
  /\ stack' = [stack EXCEPT ![t] = <<>>]
  /\ errors' = [errors EXCEPT ![t] = @ \union {reason}]
  /\ failed' = failed \union Registering(t)

-----------------------------------------------------------------------------
(* The monitor on `types`.                                                 *)

Holds(t) == \E i \in DOMAIN stack[t] : stack[t][i].held
HeldByOther(t) == \E u \in Threads \ {t} : Holds(u)

TakeLock(t, pc) ==
  /\ ~HeldByOther(t)
  /\ Goto(t, [Top(t) EXCEPT !.pc = pc, !.held = TRUE])
  /\ UNCHANGED <<types, metaVars, modelFrozen, calls, errors, histVars>>

TakeLockTimeout(t) ==
  /\ stack[t] # <<>>
  /\ Top(t).pc \in LockPCs
  /\ Timeouts
  /\ HeldByOther(t)
  /\ Throw(t, "timeout")
  /\ UNCHANGED <<types, metaVars, modelFrozen, calls, keys>>

WaitLock(t) == At(t, "waitlock") /\ TakeLock(t, "waited")
Take(t) == At(t, "take") /\ TakeLock(t, "create")
RootLock(t) == At(t, "rootlock") /\ TakeLock(t, "rootread")
SerLock_missing(t) ==
  /\ At(t, "serlock") /\ GotoPC(t, "build")
  /\ UNCHANGED <<types, metaVars, modelFrozen, calls, errors, histVars>>
SerLock(t) == At(t, "serlock") /\ TakeLock(t, "build")
FieldLock(t) == At(t, "fieldlock") /\ TakeLock(t, "fieldadd")
AddLock(t) == At(t, "addlock") /\ TakeLock(t, "addcheck")

-----------------------------------------------------------------------------
(* FindOrAddAuto.                                                          *)

Look(t) ==
  LET x == Top(t).type IN
  /\ At(t, "look")
  /\ \/ Known(x) /\ Pending(x) /\ GotoPC(t, "waitlock")
     \/ Known(x) /\ ~Pending(x) /\ Return(t)
     \/ ~Known(x) /\ GotoPC(t, "take")
  /\ UNCHANGED <<types, metaVars, modelFrozen, calls, errors, histVars>>

Waited_retries(t) ==
  /\ At(t, "waited")
  /\ Goto(t, [Top(t) EXCEPT !.pc = "look", !.held = FALSE])
  /\ UNCHANGED <<types, metaVars, modelFrozen, calls, errors, histVars>>

\* WaitOnLock releases at once: whoever was adding the type has let go.
Waited(t) ==
  /\ At(t, "waited")
  /\ Return(t)
  /\ UNCHANGED <<types, metaVars, modelFrozen, calls, errors, histVars>>

\* The ThrowIfFrozen of Create.
Create(t) ==
  /\ At(t, "create")
  /\ \/ modelFrozen /\ Throw(t, "model frozen")
     \/ ~modelFrozen /\ GotoPC(t, "recheck") /\ UNCHANGED <<errors, failed>>
  /\ UNCHANGED <<types, metaVars, modelFrozen, calls, keys>>

Recheck_missing(t) ==
  /\ At(t, "recheck") /\ GotoPC(t, "add")
  /\ UNCHANGED <<types, metaVars, modelFrozen, calls, errors, histVars>>

\* The double check under the lock; the loser's new MetaType is discarded.
Recheck(t) ==
  /\ At(t, "recheck")
  /\ \/ Known(Top(t).type) /\ Return(t) /\ UNCHANGED <<errors, failed>>
     \/ ~Known(Top(t).type) /\ modelFrozen /\ Throw(t, "model frozen")
     \/ /\ ~Known(Top(t).type) /\ ~modelFrozen
        /\ GotoPC(t, "add") /\ UNCHANGED <<errors, failed>>
  /\ UNCHANGED <<types, metaVars, modelFrozen, calls, keys>>

AddType_releasesEarly(t) ==
  LET x == Top(t).type IN
  /\ At(t, "add")
  /\ types' = Append(types, x)
  /\ flags' = [flags EXCEPT ![x] = {"Pending"}]
  /\ Call(t, [Top(t) EXCEPT !.pc = "ready", !.held = FALSE],
             NewFrame("base", x, NoType))
  /\ UNCHANGED <<fields, baseType, subTypes, serializer, modelFrozen, calls,
                 errors, histVars>>

\* types.Add(metaType), with Pending set before, then ApplyDefaultBehaviour.
AddType(t) ==
  LET x == Top(t).type IN
  /\ At(t, "add")
  /\ types' = Append(types, x)
  /\ flags' = [flags EXCEPT ![x] = {"Pending"}]
  /\ Call(t, [Top(t) EXCEPT !.pc = "ready"], NewFrame("base", x, NoType))
  /\ UNCHANGED <<fields, baseType, subTypes, serializer, modelFrozen, calls,
                 errors, histVars>>

Ready_forgets(t) ==
  /\ At(t, "ready") /\ GotoPC(t, "leave")
  /\ UNCHANGED <<types, metaVars, modelFrozen, calls, errors, histVars>>

Ready(t) ==
  /\ At(t, "ready")
  /\ flags' = [flags EXCEPT ![Top(t).type] = @ \ {"Pending"}]
  /\ GotoPC(t, "leave")
  /\ UNCHANGED <<types, fields, baseType, subTypes, serializer, modelFrozen,
                 calls, errors, histVars>>

Leave(t) ==
  /\ At(t, "leave")
  /\ Return(t)
  /\ UNCHANGED <<types, metaVars, modelFrozen, calls, errors, histVars>>

-----------------------------------------------------------------------------
(* ApplyDefaultBehaviour: the base type, the [ProtoInclude]s, the members. *)

ApplyBase(t) ==
  LET x == Top(t).type
      then == [Top(t) EXCEPT !.pc = "include", !.todo = ValidIncludes(x)]
  IN
  /\ At(t, "base")
  /\ \/ /\ BaseOf[x] # NoType /\ ~Known(BaseOf[x])
        /\ Call(t, then, NewFrame("look", BaseOf[x], NoType))
     \/ /\ BaseOf[x] = NoType \/ Known(BaseOf[x])
        /\ Goto(t, then)
  /\ UNCHANGED <<types, metaVars, modelFrozen, calls, errors, histVars>>

\* Attributes come back in no defined order.
ApplyInclude(t) ==
  /\ At(t, "include")
  /\ \E d \in Top(t).todo :
       Call(t, [Top(t) EXCEPT !.todo = @ \ {d}],
               NewFrame("subfind", Top(t).type, d))
  /\ UNCHANGED <<types, metaVars, modelFrozen, calls, errors, histVars>>

\* The members are added one by one under the lock (MetaType.Add, which
\* throws for a frozen type); nobody else can read them before it is free.
ApplyMembers(t) ==
  LET x == Top(t).type IN
  /\ At(t, "include") /\ Top(t).todo = {}
  /\ \/ Frozen(x) /\ Throw(t, "type frozen") /\ UNCHANGED fields
     \/ /\ ~Frozen(x)
        /\ fields' = [fields EXCEPT ![x] = @ \union {"attr"}]
        /\ Return(t)
        /\ UNCHANGED <<errors, failed>>
  /\ UNCHANGED <<types, flags, baseType, subTypes, serializer, modelFrozen,
                 calls, keys>>

ApplyThrows(t) ==
  /\ At(t, "include") /\ Top(t).type \in Faulty
  /\ Throw(t, "bad contract")
  /\ UNCHANGED <<types, metaVars, modelFrozen, calls, keys>>

-----------------------------------------------------------------------------
(* AddSubType and SetBaseType: called by ApplyDefaultBehaviour under the   *)
(* lock, and by the application with no lock at all.                       *)

SubFind(t) ==
  /\ At(t, "subfind")
  /\ Call(t, [Top(t) EXCEPT !.pc = "subcheck"],
             NewFrame("look", Top(t).other, NoType))
  /\ UNCHANGED <<types, metaVars, modelFrozen, calls, errors, histVars>>

SubCheck(t) ==
  LET frozen == Frozen(Top(t).type) \/ Frozen(Top(t).other) IN
  /\ At(t, "subcheck")
  /\ \/ frozen /\ Throw(t, "type frozen")
     \/ ~frozen /\ GotoPC(t, "link") /\ UNCHANGED <<errors, failed>>
  /\ UNCHANGED <<types, metaVars, modelFrozen, calls, keys>>

\* IsValidSubType makes every link follow CLR assignability, so the walk that
\* looks for a cycle can only meet the derived type as the base itself.
Link(t) ==
  LET b == Top(t).type
      d == Top(t).other
      bad == baseType[d] # b /\ (baseType[d] # NoType \/ b = d)
  IN
  /\ At(t, "link")
  /\ \/ bad /\ Throw(t, "bad hierarchy") /\ UNCHANGED baseType
     \/ /\ ~bad
        /\ baseType' = [baseType EXCEPT ![d] = b]
        /\ GotoPC(t, "subadd")
        /\ UNCHANGED <<errors, failed>>
  /\ UNCHANGED <<types, flags, fields, subTypes, serializer, modelFrozen,
                 calls, keys>>

\* The list of sub-types; a pair that is linked twice is in it twice, and once
\* in the set.
SubAdd(t) ==
  /\ At(t, "subadd")
  /\ subTypes' = [subTypes EXCEPT ![Top(t).type] = @ \union {Top(t).other}]
  /\ Return(t)
  /\ UNCHANGED <<types, flags, fields, baseType, serializer, modelFrozen,
                 calls, errors, histVars>>

-----------------------------------------------------------------------------
(* GetKey: the key of the root of the hierarchy (GetRootType).             *)

GetKey(t) ==
  /\ At(t, "getkey")
  /\ Call(t, [Top(t) EXCEPT !.pc = "climb", !.other = Top(t).type],
             NewFrame("look", Top(t).type, NoType))
  /\ UNCHANGED <<types, metaVars, modelFrozen, calls, errors, histVars>>

Climb_unlocked(t) ==
  LET n == Top(t).other IN
  /\ At(t, "climb")
  /\ IF baseType[n] = NoType THEN GotoPC(t, "rekey")
     ELSE Goto(t, [Top(t) EXCEPT !.other = baseType[n]])
  /\ UNCHANGED <<types, metaVars, modelFrozen, calls, errors, histVars>>

\* With a serializer the hierarchy is settled and is read without the lock.
Climb(t) ==
  LET n == Top(t).other IN
  /\ At(t, "climb")
  /\ \/ serializer[n] = NoSerializer /\ GotoPC(t, "rootlock")
     \/ /\ serializer[n] # NoSerializer /\ baseType[n] # NoType
        /\ Goto(t, [Top(t) EXCEPT !.other = baseType[n]])
     \/ /\ serializer[n] # NoSerializer /\ baseType[n] = NoType
        /\ GotoPC(t, "rekey")
  /\ UNCHANGED <<types, metaVars, modelFrozen, calls, errors, histVars>>

RootRead_pastRoot(t) ==
  /\ At(t, "rootread")
  /\ Goto(t, [Top(t) EXCEPT !.pc = "rekey", !.held = FALSE,
                            !.other = baseType[Top(t).other]])
  /\ UNCHANGED <<types, metaVars, modelFrozen, calls, errors, histVars>>

RootRead(t) ==
  LET n == Top(t).other IN
  /\ At(t, "rootread")
  /\ \/ /\ baseType[n] # NoType
        /\ Goto(t, [Top(t) EXCEPT !.other = baseType[n]])
     \/ /\ baseType[n] = NoType
        /\ Goto(t, [Top(t) EXCEPT !.pc = "rekey", !.held = FALSE])
  /\ UNCHANGED <<types, metaVars, modelFrozen, calls, errors, histVars>>

Rekey(t) ==
  LET root == Top(t).other IN
  /\ At(t, "rekey")
  /\ keys' = [keys EXCEPT ![Top(t).type] = @ \union {root}]
  /\ Call(t, [Top(t) EXCEPT !.pc = Top(t).next, !.type = root],
             NewFrame("look", root, NoType))
  /\ UNCHANGED <<types, metaVars, modelFrozen, calls, errors, failed>>

\* GetKey called while a serializer is built: return to the builder.
Answer(t) ==
  /\ At(t, "answer")
  /\ Return(t)
  /\ UNCHANGED <<types, metaVars, modelFrozen, calls, errors, histVars>>

-----------------------------------------------------------------------------
(* The Serializer getter: built once, under the lock, from a frozen type.  *)

Peek(t) ==
  /\ At(t, "peek")
  /\ \/ serializer[Top(t).type] # NoSerializer /\ Return(t)
     \/ serializer[Top(t).type] = NoSerializer /\ GotoPC(t, "serlock")
  /\ UNCHANGED <<types, metaVars, modelFrozen, calls, errors, histVars>>

Build_unfrozen(t) ==
  /\ At(t, "build")
  /\ Goto(t, [Top(t) EXCEPT !.pc = "members", !.subs = subTypes[Top(t).type]])
  /\ UNCHANGED <<types, metaVars, modelFrozen, calls, errors, histVars>>

Build(t) ==
  LET x == Top(t).type IN
  /\ At(t, "build")
  /\ \/ serializer[x] # NoSerializer /\ Return(t) /\ UNCHANGED flags
     \/ /\ serializer[x] = NoSerializer
        /\ flags' = [flags EXCEPT ![x] = @ \union {"Frozen"}]
        /\ Goto(t, [Top(t) EXCEPT !.pc = "members", !.todo = Members[x],
                                  !.subs = subTypes[x]])
  /\ UNCHANGED <<types, fields, baseType, subTypes, serializer, modelFrozen,
                 calls, errors, histVars>>

\* The serializer of a member asks for the key of the member's type.
BuildMember(t) ==
  /\ At(t, "members")
  /\ \E y \in Top(t).todo :
       Call(t, [Top(t) EXCEPT !.todo = @ \ {y}],
               [NewFrame("getkey", y, NoType) EXCEPT !.next = "answer"])
  /\ UNCHANGED <<types, metaVars, modelFrozen, calls, errors, histVars>>

StoreSerializer(t) ==
  LET x == Top(t).type IN
  /\ At(t, "members") /\ Top(t).todo = {}
  /\ serializer' = [serializer EXCEPT ![x] =
       [fields |-> fields[x], subs |-> Top(t).subs,
        root |-> baseType[x] = NoType]]
  /\ GotoPC(t, "built")
  /\ UNCHANGED <<types, flags, fields, baseType, subTypes, modelFrozen,
                 calls, errors, histVars>>

Built(t) ==
  /\ At(t, "built")
  /\ Return(t)
  /\ UNCHANGED <<types, metaVars, modelFrozen, calls, errors, histVars>>

-----------------------------------------------------------------------------
(* What an application calls.                                              *)

\* model[type], the first step of every fluent configuration call.
ModelGet(t) ==
  /\ stack[t] # <<>>
  /\ \E pc \in {"typeget", "fieldget", "optget", "compileget"} :
       /\ Top(t).pc = pc
       /\ Call(t, [Top(t) EXCEPT !.pc = CASE pc = "typeget" -> "subfind"
                                         [] pc = "fieldget" -> "fieldlock"
                                         [] pc = "optget" -> "optcheck"
                                         [] pc = "compileget" -> "peek"],
                  NewFrame("look", Top(t).type, NoType))
  /\ UNCHANGED <<types, metaVars, modelFrozen, calls, errors, histVars>>

FieldAdd_unchecked(t) ==
  /\ At(t, "fieldadd")
  /\ fields' = [fields EXCEPT ![Top(t).type] = @ \union {"extra"}]
  /\ Return(t)
  /\ UNCHANGED <<types, flags, baseType, subTypes, serializer, modelFrozen,
                 calls, errors, histVars>>

\* MetaType.Add(fieldNumber, name): the lock, ThrowIfFrozen, fields.Add.
FieldAdd(t) ==
  LET x == Top(t).type IN
  /\ At(t, "fieldadd")
  /\ \/ Frozen(x) /\ Throw(t, "type frozen") /\ UNCHANGED fields
     \/ /\ ~Frozen(x)
        /\ fields' = [fields EXCEPT ![x] = @ \union {"extra"}]
        /\ Return(t)
        /\ UNCHANGED <<errors, failed>>
  /\ UNCHANGED <<types, flags, baseType, subTypes, serializer, modelFrozen,
                 calls, keys>>

\* A property setter that goes through SetFlag, e.g. UseConstructor: the
\* flags are read and written back with no lock.
OptCheck(t) ==
  LET x == Top(t).type IN
  /\ At(t, "optcheck")
  /\ \/ /\ "Option" \notin flags[x] /\ Frozen(x)
        /\ Throw(t, "type frozen")
     \/ /\ "Option" \in flags[x] \/ ~Frozen(x)
        /\ GotoPC(t, "optread") /\ UNCHANGED <<errors, failed>>
  /\ UNCHANGED <<types, metaVars, modelFrozen, calls, keys>>

OptRead(t) ==
  /\ At(t, "optread")
  /\ Goto(t, [Top(t) EXCEPT !.pc = "optwrite", !.saved = flags[Top(t).type]])
  /\ UNCHANGED <<types, metaVars, modelFrozen, calls, errors, histVars>>

OptWrite(t) ==
  /\ At(t, "optwrite")
  /\ flags' = [flags EXCEPT ![Top(t).type] = Top(t).saved \union {"Option"}]
  /\ Return(t)
  /\ UNCHANGED <<types, fields, baseType, subTypes, serializer, modelFrozen,
                 calls, errors, histVars>>

\* RuntimeTypeModel.Add(type, true): FindWithoutAdd, then Create ...
AddFind(t) ==
  LET x == Top(t).type IN
  /\ At(t, "addfind")
  /\ \/ Known(x) /\ Pending(x) /\ GotoPC(t, "waitlock")
     \/ Known(x) /\ ~Pending(x) /\ Return(t)
     \/ ~Known(x) /\ GotoPC(t, "addcreate")
  /\ UNCHANGED <<types, metaVars, modelFrozen, calls, errors, histVars>>

AddCreate(t) ==
  /\ At(t, "addcreate")
  /\ \/ modelFrozen /\ Throw(t, "model frozen")
     \/ ~modelFrozen /\ GotoPC(t, "addlock") /\ UNCHANGED <<errors, failed>>
  /\ UNCHANGED <<types, metaVars, modelFrozen, calls, keys>>

AddCheck_missing(t) ==
  /\ At(t, "addcheck") /\ GotoPC(t, "add")
  /\ UNCHANGED <<types, metaVars, modelFrozen, calls, errors, histVars>>

\* ... and, under the lock, the double check.
AddCheck(t) ==
  /\ At(t, "addcheck")
  /\ \/ Known(Top(t).type) /\ Throw(t, "duplicate type")
     \/ ~Known(Top(t).type) /\ modelFrozen /\ Throw(t, "model frozen")
     \/ /\ ~Known(Top(t).type) /\ ~modelFrozen
        /\ GotoPC(t, "add") /\ UNCHANGED <<errors, failed>>
  /\ UNCHANGED <<types, metaVars, modelFrozen, calls, keys>>

Begin(t, op, pc, x, y) ==
  /\ op \in Ops /\ stack[t] = <<>> /\ calls[t] < MaxOps
  /\ stack' = [stack EXCEPT ![t] = <<NewFrame(pc, x, y)>>]
  /\ calls' = [calls EXCEPT ![t] = @ + 1]
  /\ UNCHANGED <<types, metaVars, modelFrozen, errors, histVars>>

Use(t) == \E x \in Types : Begin(t, "Use", "getkey", x, NoType)
Add(t) == \E x \in Types : Begin(t, "Add", "addfind", x, NoType)
AddField(t) ==
  \E x \in Types : Begin(t, "AddField", "fieldget", x, NoType)
Configure(t) ==
  \E x \in Types : Begin(t, "Configure", "optget", x, NoType)

\* model[type].CompileInPlace().  Wrapping the serializer changes nothing of what
\* it was built from.
Compile(t) ==
  \E x \in Types : Begin(t, "Compile", "compileget", x, NoType)

\* A turn of the loop of model.CompileInPlace() over the list: the type may be
\* pending, and nobody waits for it before the Serializer getter does.
CompileListed(t) ==
  \E x \in Types : Known(x) /\ Begin(t, "Compile", "peek", x, NoType)

AddSubType(t) ==
  \E p \in Assignable : Begin(t, "AddSubType", "typeget", p[1], p[2])

Freeze(t) ==
  /\ "Freeze" \in Ops /\ stack[t] = <<>> /\ calls[t] < MaxOps
  /\ modelFrozen' = TRUE
  /\ calls' = [calls EXCEPT ![t] = @ + 1]
  /\ UNCHANGED <<types, metaVars, stack, errors, histVars>>

-----------------------------------------------------------------------------
Init ==
  /\ types = <<>>
  /\ flags = [x \in Types |-> {}]
  /\ fields = [x \in Types |-> {}]
  /\ baseType = [x \in Types |-> NoType]
  /\ subTypes = [x \in Types |-> {}]
  /\ serializer = [x \in Types |-> NoSerializer]
  /\ modelFrozen = FALSE
  /\ stack = [t \in Threads |-> <<>>]
  /\ calls = [t \in Threads |-> 0]
  /\ errors = [t \in Threads |-> {}]
  /\ failed = {}
  /\ keys = [x \in Types |-> {}]

LockStep(t) ==
  \/ WaitLock(t) \/ Take(t) \/ RootLock(t) \/ SerLock(t)
  \/ FieldLock(t) \/ AddLock(t) \/ TakeLockTimeout(t)

RegisterStep(t) ==
  \/ Look(t) \/ Waited(t) \/ Create(t) \/ Recheck(t) \/ AddType(t)
  \/ Ready(t) \/ Leave(t)
  \/ ApplyBase(t) \/ ApplyInclude(t) \/ ApplyMembers(t) \/ ApplyThrows(t)
  \/ SubFind(t) \/ SubCheck(t) \/ Link(t) \/ SubAdd(t)

UseStep(t) ==
  \/ GetKey(t) \/ Climb(t) \/ RootRead(t) \/ Rekey(t) \/ Answer(t)
  \/ Peek(t) \/ Build(t) \/ BuildMember(t) \/ StoreSerializer(t) \/ Built(t)

ConfigStep(t) ==
  \/ ModelGet(t) \/ FieldAdd(t) \/ OptCheck(t) \/ OptRead(t) \/ OptWrite(t)
  \/ AddFind(t) \/ AddCreate(t) \/ AddCheck(t)

Step(t) == LockStep(t) \/ RegisterStep(t) \/ UseStep(t) \/ ConfigStep(t)

Start(t) ==
  \/ Use(t) \/ Compile(t) \/ CompileListed(t) \/ Add(t) \/ AddField(t)
  \/ Configure(t) \/ AddSubType(t) \/ Freeze(t)

Done == /\ \A t \in Threads : stack[t] = <<>> /\ calls[t] = MaxOps
        /\ UNCHANGED vars

Next == (\E t \in Threads : Step(t) \/ Start(t)) \/ Done

Spec == Init /\ [][Next]_vars

\* A running thread keeps running: a lock that is free can be taken, and one
\* that is not makes TryEnter time out, so a waiting thread is never disabled.
FairSpec == Spec /\ \A t \in Threads : WF_vars(Step(t))

-----------------------------------------------------------------------------
(* Properties.                                                             *)

\* Every variable keeps its type.
TypeOK ==
  /\ types \in Seq(Types)
  /\ flags \in [Types -> SUBSET Flag]
  /\ fields \in [Types -> SUBSET Field]
  /\ baseType \in [Types -> Types \union {NoType}]
  /\ subTypes \in [Types -> SUBSET Types]
  /\ serializer \in [Types -> Serializer \union {NoSerializer}]
  /\ modelFrozen \in BOOLEAN
  /\ stack \in [Threads -> Seq(Frame)]
  /\ calls \in [Threads -> Nat]
  /\ errors \in [Threads -> SUBSET Reason]
  /\ failed \subseteq Types
  /\ keys \in [Types -> SUBSET Types]

\* However many threads meet a type for the first time together, it is added
\* once: its index in the list, which is its key, is unique (the double check
\* of FindOrAddAuto and of Add).
NoDuplicates ==
  \A i, j \in DOMAIN types : types[i] = types[j] => i = j

\* A type still marked Pending is being configured by the thread that holds
\* the lock, so waiting for the lock waits for the type; only an exception
\* can leave a type Pending with nobody working on it.
PendingIsOwned ==
  \A x \in Types : Known(x) /\ Pending(x) /\ x \notin failed =>
    \E t \in Threads : Holds(t) /\ x \in Registering(t)

\* The lock is held by exactly the frames whose pc lies between TakeLock and
\* ReleaseLock; a frame that links or climbs types has both; and a thread about
\* to add a type to the list is sure that no other thread has: what makes
\* NoDuplicates and the type invariant inductive.
FrameOK(f) ==
  /\ f.held <=> f.pc \in LockedPCs
  /\ f.pc \in LinkPCs => f.other \in Types

FramesOK ==
  \A t \in Threads : \A i \in DOMAIN stack[t] :
    /\ FrameOK(stack[t][i])
    /\ stack[t][i].pc = "add" => i = Len(stack[t]) /\ ~Known(stack[t][i].type)

\* A serializer is built from the whole contract of its type: no thread gets
\* one that misses the members or the sub-types that another thread was still
\* adding (the comment in the Serializer getter).
SerializerComplete ==
  \A x \in Types : serializer[x] # NoSerializer /\ x \notin failed =>
    /\ "attr" \in serializer[x].fields
    /\ ValidIncludes(x) \subseteq serializer[x].subs

\* GetKey gives every caller the same key for a type, before, during and after
\* the discovery of its hierarchy (GetRootType).
KeyStable ==
  \A x \in Types : \A r, s \in keys[x] : r = s

\* Concurrent use never makes a correct call fail (the ThreadRace tests): apart
\* from lock time-outs, a call fails only in a frozen model that it would have
\* to extend, or if the contract that it registers is at fault, or if it adds a
\* member to a type in use.  No call finds its own hierarchy frozen or taken.
Excused(t, reason) ==
  \/ reason = "timeout"
  \/ reason = "model frozen" /\ modelFrozen
  \/ reason = "bad contract" /\ Registering(t) \intersect Faulty # {}
  \/ reason = "type frozen" /\ At(t, "fieldadd")

OnlyMisuseThrows ==
  [][\A t \in Threads : \A reason \in errors[t]' \ errors[t] :
       Excused(t, reason)]_vars

\* What the serializer was built from is what the type is configured as: a
\* change comes before the serializer or is refused.
SerializerIsCurrent ==
  \A x \in Types : serializer[x] # NoSerializer =>
    serializer[x] = [fields |-> fields[x], subs |-> subTypes[x],
                     root |-> baseType[x] = NoType]

\* A type with a serializer is frozen, so that no change comes too late ("The
\* type cannot be changed once a serializer has been generated", ThrowIfFrozen):
\* when no option of the type is set meanwhile, for SetFlag would lose the bit.
SerializerIsFrozen ==
  \A x \in Types : serializer[x] # NoSerializer => Frozen(x)

\* Every call returns or throws: no thread waits for the lock, for a pending
\* type or in the recursion over base types and sub-types for ever.
CallsReturn ==
  \A t \in Threads : stack[t] # <<>> ~> stack[t] = <<>>

-----------------------------------------------------------------------------
(* What the documentation says, and the code does not do.                  *)

\* "our main purpse with this lock is to ensure thread-safety with serializers
\* needing to wait until another thread has finished adding the properties"
\* (MetaType.Serializer): no serializer is built before the members are there,
\* not even when the thread that was adding them failed.
SerializerWaitsForMembers ==
  \A x \in Types : serializer[x] # NoSerializer => "attr" \in serializer[x].fields
=============================================================================
