# Verification of protobuf-net

TLA+ models of protobuf-net, the TLC configurations that check them on small
instances, and theorems about them that TLAPS proves for every value of the
constants. Everything here describes the library under `src/protobuf-net/`; the
numbers after a file name are its lines.

## The system

protobuf-net serializes CLR objects in the protocol-buffer wire format. An
application configures a *model* (or lets it discover contracts from
attributes), and calls `Serialize` and `Deserialize` on it from any thread.

| component | state it keeps | operations | talks to |
| --- | --- | --- | --- |
| type registry (`Meta/RuntimeTypeModel.cs`, `Meta/MetaType.cs`, `Meta/ValueMember.cs`, `Meta/SubType.cs`) | the list of types, and for each its flags, members, base type, sub-types and serializer; the model's options | `FindOrAddAuto`, `Add`, `GetKey`, `AddSubType`, `AddField`, the option setters, the `Serializer` getter, `Freeze`, `CompileInPlace` | the metadata lock; the serializers call `GetKey` back |
| metadata lock (`RuntimeTypeModel.TakeLock`, `ReleaseLock`) | a re-entrant monitor and a count of time-outs | take with a time-out, release, raise `LockContended` | every method of the registry |
| append-only lists (`Meta/BasicList.cs`) | an immutable head that points to an array and a length | `Append`, enumeration with no lock, `Trim` | the registry's `types` is one |
| buffer pool (`BufferPool.cs`) | a static array of byte arrays | get, resize, release, flush | every reader and writer of the process |
| writer (`ProtoWriter.cs`) | a byte buffer that fills and flushes, nesting depth, pending field header, flush lock, recursion stack | field headers, scalars, strings, bytes, sub-items, packed fields, close | the pool, the destination stream |
| reader (`ProtoReader.cs`) | a byte buffer that is refilled, block end, current field, depth | field headers, scalars, sub-items, skip, append extension data | the pool, the source stream |
| object cache (`NetObjectCache.cs`, `BclHelpers.cs`) | the objects, strings and types met so far, their keys, and the root | look up, add, set, propose the root | writer and reader, for reference-tracked members |
| serializers and decorators (`Serializers/`) | none after construction | `Read`, `Write` | reader, writer, the registry |
| type model (`Meta/TypeModel.cs`) | none | length-prefixed items, auxiliary types, `DeepClone` | reader, writer |
| extension data (`Extensible.cs`, `BufferExtension.cs`) | a byte buffer per object | begin and end append, begin and end query | reader, writer |
| compiler (`Compiler/`) | none | IL generation | the registry |
| WCF and remoting glue (`ServiceModel/`), code generator (`ProtoGen`), Visual Studio tools, samples, ports of the build | none of their own that matters here | | |

What is hard:

* the registry is read without a lock, extended under one, and its types refer
  to each other in cycles, so several threads meet half-configured types;
* exceptions and lock time-outs cut a registration short at any depth;
* the buffer pool is lock-free and scanned slot by slot;
* a writer patches the length of a sub-message into a buffer that may have been
  exchanged for a longer one, and must not flush it before;
* a reader must agree with the writer on what is the end of a sub-message, at
  every depth and for every way to frame it, while its buffer is refilled,
  shifted, exchanged and bypassed in the middle of everything;
* items with length prefixes follow one another on a stream that may end anywhere,
  and the next call depends on where the last one stopped;
* one object is written and read level by level along its hierarchy, merged from
  several messages, by applications that know different versions of its contract;
* writer and reader number objects and types independently, one before and the
  other partly after the nested objects, and must number them alike.

What makes each component correct:

| component | properties |
| --- | --- |
| registry | one thread registers at a time, no type is listed twice, a key never changes its meaning, a half-configured type is used by nobody but its owner, a serializer belongs to the members the type has, calls return |
| lock | the monitor follows the regions through failures, a time-out is reported by the owner it happened to |
| pool | an array has one user, its bytes are that user's, a scan of the slots ends |
| writer | lengths are those of the bodies, nothing is lost or written twice around a flush, a cycle of objects is noticed |
| reader | the walk is the sender's, a length is a limit, no message that is complete is refused, none is read for ever |
| object cache | a key means the same on both sides, the graph comes back with its sharing |
| append-only lists | an enumeration sees a prefix of what was appended, and no appended item changes |
| type model | a call returns the first item that was asked for, whole if it arrived whole, and says how far it read |
| serializers | an object is the merge of the messages read into it, in whatever order their fields come; its callbacks run in pairs |
| extension data | what was not understood comes out as it came in, after any number of hops |

## Modules

| module | what it is |
| --- | --- |
| `TypeRegistry` | the registry as threads with call stacks |
| `MCTypeRegistry` | class families for TLC |
| `TypeRegistryProofs` | type correctness, uniqueness, and that a pending type has an owner, proved; on top of that: a serializer belongs to a frozen type, is up to date and complete, a key never changes, and calls fail only for misuse |
| `MetadataLock` | the monitor, its time-outs and the contention event |
| `MCMetadataLock`, `MetadataLockProofs` | its instance, and the proofs |
| `BufferLease` | what the buffer pool promises |
| `BufferPool` | the pool and its clients, slot by slot |
| `MCBufferPool`, `BufferPoolProofs` | its instance, and the proofs with the refinement |
| `AppendOnlyLog` | what an append-only list promises to readers with no lock |
| `BasicList` | its nodes and shared arrays, appended to, trimmed, enumerated and indexed |
| `MCBasicList`, `BasicListProofs` | its instance, and the proofs with the refinement |
| `Wire` | the wire format: headers, varints, lengths, as cells |
| `WireStream` | what a writer promises: a tree of items framed bottom up, and a destination that only gets longer |
| `ProtoWriter`, `MCProtoWriter` | the writer with its buffer, and its instance |
| `WriterProofs` | its safety invariants and that it implements `WireStream`, proved |
| `WireCursor` | what a reader promises: a walk over the fields that the sender framed |
| `ProtoReader`, `MCProtoReader` | the reader with its buffer, and messages for TLC |
| `ReaderProofs` | its buffer against the stream, its walk against `WireCursor`, and what it copies, proved |
| `NetObjects`, `MCNetObjects` | keys of objects and types on both sides of the wire, and graphs for TLC |
| `NetObjectsProofs` | keys agree, the graph comes back, and nothing is refused, proved for any graphs |
| `LengthPrefix`, `MCLengthPrefix` | items with length prefixes on a stream, sent, chosen, skipped and iterated, and its instance |
| `LengthPrefixProofs` | its three properties, proved for any items, lengths and base of the varints |
| `Contracts`, `MCContracts` | objects of a contract as messages and back, between two versions of it, and contracts for TLC |

`BufferLease`, `AppendOnlyLog`, `WireStream` and `WireCursor` are abstract specifications;
`BufferPool`, `BasicList`, `ProtoWriter` and `ProtoReader` are shown to implement them.

The modules compose in layers. `TypeRegistry` takes the monitor of `MetadataLock` and
the lists of `BasicList` as atomic, which those two modules justify: a list is
appended to under the lock only, and a reader sees a prefix of it. `ProtoWriter` and
`ProtoReader` own their buffer exclusively, which is what `BufferLease` promises.
`LengthPrefix` and `Contracts` stand on the reader as `WireCursor` describes it: fields
one after the other, each consumed whole, and an end.

### TypeRegistry
A thread is a call stack. Each frame stands for an active method and its `pc`
names the next statement another thread could observe: `Look` is the lookup of
`FindOrAddAuto`, `Take` and `Create` the lock and the construction, `Recheck` the
second look, `AddType` the `types.Add` with `Pending` set, `ApplyBase`,
`ApplyInclude` and `ApplyMembers` the parts of `ApplyDefaultBehaviour` that touch
other types, `Ready` the end of `Pending` and `Leave` the `finally`. `GetKey`,
`Climb`, `RootRead` and `Rekey` are `GetKey` and `GetRootType`; `Peek`, `SerLock`,
`Build`, `BuildMember` and `StoreSerializer` the `Serializer` getter, which calls
`GetKey` back for the types of the members. Unlocked application calls are actions
of their own (`SubFind`, `SubCheck`, `Link` and `SubAdd` for `AddSubType`, `OptCheck`,
`OptRead` and `OptWrite` for a read-modify-write of the flags byte). The lock is held
by the thread that has a frame between `TakeLock` and `ReleaseLock`; an exception
empties the stack, since every `ReleaseLock` is in a `finally`. `Compile` is
`model[type].CompileInPlace()`; `CompileListed` is a turn of the loop in
`model.CompileInPlace()`, which takes the types as they are in the list and waits for none.

The statements of a method that no other thread can tell apart are one step:
the members of a type are added one at a time in the code, all under the lock,
and no reader looks at the list of members without it; the model adds them at once.

### MetadataLock
`CallTakeLock`, `Enter`, `ReadToken`, `EnterTimesOut` and `AddContention` are the statements
of `TakeLock`; `Exit` and `Compare` those of `ReleaseLock`; `Fail` is an exception in the
code that holds the lock. The registry module leaves the counter out and takes the
monitor as a whole; this module is the other half.

### BufferPool and BufferLease
One action per slot and per `Interlocked` operation, so the scans of two clients
interleave slot by slot. A client is a reader or a writer that gets a buffer,
fills and drains it, exchanges it for a longer one, releases it, or is collected
without being disposed. `BufferLease` has neither slots nor scans: clients hold
arrays exclusively and find in them what they put there.

### BasicList and AppendOnlyLog
The head is one reference to a node, a node an array and a count, and nodes share
arrays: `StartAdd`, `Store` and `PublishAdd` are `Add` (the node is made, the slot is
written, the head is exchanged), `Trim` and `PublishTrim` are `Trim`. `Locked` is the
lock that every caller of the writing methods holds. Readers hold none:
`GetEnumerator` and `MoveNext` keep the node they began with (as `IndexOf` and `foreach` do),
`StartWalk`, `Count` and `Index` read the head anew each time (as a loop over an index does).
One assumption is about the machine: stores become visible in the order of the
program, as the memory model of the CLR has it; on a weaker one a reader could see the
head before the slot, for neither is volatile. `AppendOnlyLog` has one sequence that grows.

### Wire
A cell is a byte, or the bytes of a field header, for no property looks inside a
header. Lengths are written digit by digit in a small base, so that a length takes
one cell more when the body reaches the base, as it does at 128 in the code.

### ProtoWriter and WireStream
The state of the class: buffer (with the length the array has), position, wire type
and number of the pending field, packed field, depth, flush lock and recursion stack,
and the tokens that serializers hold. Each public operation is an action: field
headers, scalars, strings and byte arrays (through the buffer or around it), `StartSubItem` and `EndSubItem` in the three prefix
styles, packed fields, `Close`, and an exception that abandons the writer. Extension data
is copied read by read, as `CopyRawFromStream` does: `AppendExtensionData` opens the source,
`FillBuffer` reads into the space that is left, `SendRest` sends what follows past the buffer
and `GrowBuffer` makes the buffer longer for it while it is locked. A read returns as much or as
little as it likes, and the source or the destination may throw between two of them. A value
must follow its header and tokens are ended innermost first, which is how the
serializers call them. `WireStream` knows items and bodies and no buffer.

### ProtoReader and WireCursor
`io` holds the window of the buffer that has not been consumed, where it lies in the
array, how much of the stream has been fetched and how much a length allows. `Ensured`
is `Ensure`: it shifts or exchanges the buffer, then reads chunks of every length until
it has enough; an operation that asks for more than there is fails or, if it was a
peek, goes on with what there is. `ReadFieldHeader`, `TryReadFieldHeader`, `HasSubValue`,
`ReadScalar`, `ReadString`, the loop of `AppendBytes` (`AppendBytes`, `RefillBytes`,
`EndBytes`), `SkipField` (`SkipString`, which seeks, and `SkipGroup` with its recursion),
`StartSubItem` (`StartGroup`, `StartString`) and `EndSubItem` are actions; a frame stands for a
call that holds a token or recurses. A serializer may read, skip or append any field, as
known and unknown fields make it. `Tree` and `Current` are the sender's framing: they
serve the properties, and tell the serializer whether a string holds a message, as
its configuration would. `ReaderAssumption` says what a message is, as `ProtoWriter` frames it
(`WellFramed`): the fields of each item follow each other from its start to its end, every
field has the header, the length or the continuation bits that its wire type calls for, and a
group ends with its own number. Numbers of fields, nesting and lengths are free. The value of a
varint may be padded with zeros, as another writer may do; lengths are written short.
`AppendExtensionField` reads a scalar and writes it again (1169-1175), so a padded varint comes
out shorter (`Shortest`): `ExtensionIsVerbatim` says cell for cell of what has no such
varint in it.

`WireCursor` walks that tree: `Take` a field, `Leave` it behind, `Enter` it, `Exit` at its end.
It may fail only where the bytes end before the field that is looked at.

### NetObjects
A graph of objects is written by `TypeSerializer.Write` and `WriteNetObject`, member after
member, with a stack for the nested calls, to a sequence of tokens; then it is read
by `TypeSerializer.Read` and `ReadNetObject` into objects of the reader's own. `KeyIn` and
`With` are `AddObjectKey`, `CanSet` and `WithKey` are `SetKeyedObject`, `Holds` is
`GetKeyedObject` with the cast of its result. `rooted` tells `Serialize`, which calls
`SetRootObject`, from `SerializeWithLengthPrefix`, which does not; the reader takes
the first object that it makes for the root in both cases. `T` puts the node behind each
token: the reader uses it only where the bytes of the object or the name of the
type would say it. `GraphAssumption` is what a graph is: nodes with types, members that lead to nodes,
and no members of a string. It bounds neither the number of nodes nor cycles.

### LengthPrefix
The stream holds up to three items in one of the styles (`Base128` behind a header, with
none, `Fixed32`), may or may not be able to seek, and may end at any cell. `Begin` is
a call of `DeserializeWithLengthPrefix`, by an iterator (`DeserializeItemsIterator.MoveNext`) or
by any other caller; `ReadHeader`, `ReadTaggedLength`, `ReadLength` and `ReadFixed` are
`ReadLengthPrefix`, `Skip` is the `Seek` over an item nobody asked for, and `Deserialize` hands
the length to a reader. What a set `wanted` of tags says is `expectedField` (one tag) or the
resolver (those for which it has a type). The reader of the body is the one in
`ProtoReader`; here it takes the bytes its length gives it, all or, if they are cut off
or an exception comes out of the object's own code, some. In a stream that can seek, a field of
a cut item that is skipped takes it past the end, at most to where the item would have ended
(`MayStop`), and `bytesRead` with it.

### Contracts
A contract is a tree of tags. The path to a place in it names a level (a type of a
hierarchy, with its `TypeSerializer`), an object (a member that is a message, at the level
of its root type) or a leaf (a scalar or a list). A call of `TypeSerializer.Read` is a frame with
the fields it has still to read and `lastNumber` and `lastIndex`, the two locals with which the
search goes on from the last hit; `ReadScalar`, `ReadList` (with its loop of
`TryReadFieldHeader`), `ReadPart`, `ReadSubType` and `ReadUnknown` are the ways through its
loop, and `Return` is its end. `Created` is `CreateInstance` with the callbacks. `Written` is
`TypeSerializer.Write`: the sub-type first, the members by their numbers, the extension data
last. Two applications have two versions of a contract; objects that the new one can make
are sent as one or two messages, or as two with their bytes joined, are read by the new one, or
by the old one, which may change what it knows and sends the object on. A scalar without a
value has the default that its constructor gives it. The model follows the reflection path;
compiled code is meant to do the same.

## Runs

The bounds are small because the hazards need few actors: two threads race, a
third is needed to see a waiter overtaken.

| run | instance | what it shows |
| --- | --- | --- |
| `registry` | three threads, one call each, a base class with a sub-class and a message that refer to each other in a cycle, contracts that may fail, members added, types frozen and compiled, lock time-outs | `TypeOK`, `NoDuplicates`, `PendingIsOwned`, `SerializerComplete`, `SerializerIsCurrent`, `SerializerIsFrozen`, `KeyStable`, `OnlyMisuseThrows` |
| `registry_all` | two threads, every operation, time-outs, failing contracts, weak fairness | `NoDuplicates`, `CallsReturn` |
| `registry_halfconfigured` | a contract that fails | violates `SerializerWaitsForMembers` |
| `lock_report` | three threads, two nested regions each, two time-outs | `LockMatchesRegions`, `ContentionIsReported` |
| `pool` | two clients, two slots, five arrays: as many as can be reachable at once, weak fairness | `Exclusive`, `OwnBytes`, `ImplementsLease`, `PoolCallsReturn` |
| `writer` | a buffer of three cells that grows, base 2, messages of up to eight cells, items three deep, the recursion check from depth one | `BufferAccounts`, `RoomIsKept`, `RecursionStackMatches`, `ClosedIsComplete`, `ImplementsStream` |
| `reader` | eleven messages with nested, packed, grouped and empty fields, one of them with padded varints, whole and cut at every cell, chunks of every length, a buffer of four cells, with and without a length and with data behind, weak fairness | `WindowIsStream`, `OnlyOwnBytes`, `ExtensionIsVerbatim`, `ImplementsCursor`, `Terminates` |
| `netobjects` | all 1072 graphs of a root with two members, a node with at most one and a leaf or a string, with the root known and unknown | `KeysAgree`, `ReadsBack`, `GraphIsPreserved` |
| `netobjects_dynamic` | the same, and untracked dynamic members that have tracked members | violates `ReadsBack` |
| `log` | two writers, two readers, a first array of one slot, five values of two kinds: the array grows twice or three times and is trimmed in between | `ReadersAreSafe`, `KeyIsIndex`, `ImplementsLog` |
| `items` | every stream of up to three items, two tags, bodies of no and of two cells (a length of one and of two digits), each style, cut at every cell, every set of wanted tags, iterators and other callers | `FirstMatch`, `BytesReadAgree`, `FramesAreKept` |
| `contract` | a hierarchy of three types of which the old version has two, and an extensible contract with a nested object that had members added on every side; one or two objects, leaves with up to two values, one hop or two | `ObjectIsMerge`, `CallbacksBracket`, `NothingIsLost` |

A type invariant is part of a run only for the registry. Those of the pool and the lock are proved,
the lists and the writer have theirs within the invariants that are, and the reader's and the object
cache's `TypeOK` are there to be added to a run's cfg when the module is changed.
`NoDuplicates` is in two runs because the second lets `Add` and `AddSubType` race with first use.
`items` and `contract` do not check for deadlock: an iteration and an exchange of messages end.

Why these bounds are enough: two slots make a scan that another scan can overtake; a
buffer of three or four cells is shorter than every message and longer than a header, so
that each operation meets it full, empty and in between, and doubles it at least once;
base 2 or 3 makes lengths of one and of several digits; depth three has an item whose
parent and child are both open; a graph of three nodes has a cycle with and without
the root, a shared node and a nested new key between two uses of a type; three items have one to skip
before and one behind the item that is asked for; two objects are what a merge needs, and
three levels a type that has both a base and a sub-type.

### Fairness
`registry_all` assumes that a thread inside a call keeps running (`WF_vars(Step(t))`).
That is all the scheduler has to give: a thread that waits for a lock that is taken
is never disabled, since `Monitor.TryEnter` may time out. `pool` assumes the same of a
client inside a method of the pool, and nothing of what clients choose to do. `reader`
assumes that the one thread goes on (`WF_vars(Next)`): the source stream keeps answering,
with a chunk or with its end, and the serializer returns from its own code. The other
runs have no liveness property and no fairness.

### What the code does not do
Two runs end in a counterexample.

* `registry_halfconfigured`: when `ApplyDefaultBehaviour` throws, the type stays in
  the list, pending and without members (`Meta/RuntimeTypeModel.cs` 206-209). The next
  caller waits for the lock, gets the type, and builds a serializer from it.
* `netobjects_dynamic`: for a dynamic member that is not tracked by reference, the
  reader sets the key of a new type after the object was read (`BclHelpers.cs` 445-448),
  the writer gave it out before (494). If the object introduces keys of its own the reader
  throws "a key mismatch occurred", on bytes that the library wrote.

Other places where the code does not do what it says came up while modelling it. Those
marked * are in the models as the code has them, with no run of their own; the
others lie in what the models leave out.

* \* `MetaType.SetFlag` (`Meta/MetaType.cs` 1298-1309) reads and writes the flags byte without
  the lock. A setter that read it before another thread froze the type writes it back
  without the `Frozen` bit. `SerializerIsFrozen` holds as long as no option of a type is
  set while it is in use, which is what run `registry` says of it.
* \* Two concurrent `Add`s of one type end in "Duplicate type" for one of them, and the
  constructor's `ThrowIfFrozen` may throw for a type that another thread just added
  (`Meta/RuntimeTypeModel.cs` 297-336).
* \* `Freeze` and `AddSubType` take no lock: a thread that has passed its check changes a model
  or a type that is frozen by then.
* \* A waiter counts its time-out after `TryEnter` gave up, so when the blocker has left meanwhile
  the next owner raises `LockContended` instead of the owner who was responsible.
* \* `LockContended` "is only raised if the lock-owning code successfully completes"
  (`Meta/RuntimeTypeModel.cs` 937-938), but every `ReleaseLock` is in a `finally` block and raises
  it while an exception unwinds the owner as well (914-933). `ContentionIsReported` is
  about owners that complete, where code and documentation agree.
* `AddSubType` for two types that are linked already adds a second `SubType` to the list
  (`Meta/MetaType.cs` 80-83, for `SetBaseType` returns early, 94); with the same number for both no
  serializer can be built any more ("Duplicate field-number detected",
  `Serializers/TypeSerializer.cs` 43). `subTypes` in the model is a set and has the pair once.
* \* `DeserializeWithLengthPrefix` gives the length of an item to the reader and never looks
  whether it was used up (`Meta/TypeModel.cs` 287), as `Deserialize` does (579). An item that is
  cut between two fields is returned as if it were whole.
* \* `ReadLengthPrefix` means to refuse a header without a length, but tests the sum of the bytes
  read, which the header makes positive (`ProtoReader.cs` 1000): the length counts as 0.
* \* `Seek` over an item or a field in a stream that can seek goes past the end of the stream
  unnoticed (`ProtoReader.cs` 717, 1086).
* A negative `expectedField` with `Base128` skips every item, where its documentation says that
  a field of zero or less takes all; `PrefixStyle.None` returns nothing.
* `GetSubtypes` counts the sub-types and then copies them, with no lock (`Meta/MetaType.cs` 129-130).
* `TypeSerializer`'s constructor looks for sub-types from the second serializer on
  (`Serializers/TypeSerializer.cs` 43-48), so a hierarchy whose only sub-type has the lowest number
  is not noticed when it decides about extension data.
* A tracked string member that has a value before it is read ends in "changed reference"
  (`BclHelpers.cs` 441).
* An array member with `OverwriteList` is replaced once for each run of its elements, not once.
* `Close` ignores a header whose value was never written (`ProtoWriter.cs` 482), and after a failing
  `dest.Write` the flush of `Dispose` sends the same bytes again (495).
* `WriteInt32` of a negative number as `Fixed64` writes zeros above the low half (`ProtoWriter.cs` 727).

## Proofs

| module | theorems | argument |
| --- | --- | --- |
| `TypeRegistryProofs` | `TypeCorrect`, `TypesAreUnique` | `Inv` = `TypeOK`, `NoDuplicates`, `FramesOK` and the mutual exclusion that `TakeLock` gives. Alone the first two are not inductive: `FramesOK` says that the frames that hold the lock are those whose `pc` lies between `TakeLock` and `ReleaseLock`, and that a thread about to append a type is the top frame of a thread that has the lock and has seen the type missing. One lemma for each group of actions. |
| | `PendingHasOwner` | `RegInv` adds `StacksSettled` and `Owned` to `Inv`. `PendingIsOwned` alone is not inductive for two reasons. A frame that leaves the lock gives up its type, so it must be known that its type is settled by then (`FrameSettled`). And `SetFlag` writes back flags that it read earlier: it could make a type pending again that nobody configures, if a setter did not run only in a call of the application's own, outermost on its stack, after the type it got had settled (`Configuring`). |
| | `SerializersFreeze`, `SerializersAreCurrent` | Under `Undisturbed`: no `AddSubType` and no `Configure` among `Ops`, for both change a type without the lock: with `Configure` both properties fail, with `AddSubType` `SerializerIsCurrent` does. `FixInv` adds to `RegInv` that only listed types are frozen, so that adding a type, which resets its flags, thaws none; that the getter runs on a type that is in the list or waits for the call that lists it (`Place`, `Shape`); that a thread past the check of `AddSubType` has types that are not frozen (`FrameFixed`), which stays true because it runs above a frame that has the lock and a type is frozen in the lock only (`NothingLinks`); and that the sub-types that a getter has copied are still those of its type. |
| | `SerializersAreComplete` | `DoneInv` adds to `RegInv` which method calls which (`Neat`: above a frame that registers there are only frames that register, and each is called by the right one), that a type that is settled and has not failed has its members and all its sub-types (`TypesDone`), and that a sub-type of a type that is being registered is linked, or left in the `todo` of the frame, or the one that the frame above is linking (`StacksDone`): so the last step of a registration leaves none out, and a getter, which has its type settled before it looks at the sub-types, copies all. |
| | `KeysAreStable`, `OnlyMisuseFails` | Under `Declared`: every `[ProtoInclude]` names a direct sub-class, and `AddSubType` is not among `Ops`. `HierInv` adds to `DoneInv` why no link comes too late. A registration looks for the base type of its type before anything else, so a listed type has its base type listed, or known not to be listed any more, unless that lookup is still going on (`BasesFirst`, `Early`). A link goes to the direct base class (`LinksHier`). A type that is frozen or has a serializer is `Sealed`: it and its base type are past their registration (`FrozenHier`, `FrameHier` for the flags a setter writes back), so no call meets its own hierarchy frozen, and the root a key was given for is never linked again (`KeysHier`). That there is only one root would be an induction over the climb; `Reach` spares it, and says it with the sets closed under `baseType` instead (`OneRoot`). `OnlyMisuseFails` also leaves out `Add` and `Configure`. With any one of the three operations, or with a `[ProtoInclude]` that skips a class, TLC finds a call that fails and is not to blame; and with `AddSubType` and such a `[ProtoInclude]` a key that changes. |
| `MetadataLockProofs` | `TypeCorrect`, `RegionsMatchMonitor`, `NoContentionIsLost` | the recursion count of the monitor is the number of tokens, give or take one between the two statements that change them; a token that is not the outermost is never newer than the counter, and differs from it when a report is owed. |
| `BufferPoolProofs` | `TypeCorrect`, `ArraysAreExclusive`, `BytesAreOwn`, `PoolIsLease` | `Inv` adds to the three invariants that the buffer and the longer array of a client are consistent with its `pc`; every step maps to a step of `BufferLease` or a stutter. |
| `BasicListProofs` | `ReadersSafe`, `KeysNameTheirValues`, `ListIsLog` | `Inv`: every slot that a published node counts is written; a reader's node in the head's array is no longer than the head, so a store goes behind it; the array a writer has made is no reader's yet and begins with the head's items; only one writer has begun, because of the lock; an index that `Add` returned lies in the head and has its value. So `Items` of a reader's node never changes, and every step maps to a step of `AppendOnlyLog` or a stutter. |
| `WriterProofs` | `NoOverrun`, `RoomStays`, `StackIsOpenItems`, `ClosedHasNoHole` | `WriterInv`. That the room of an open item is still there is not inductive: filling in the length of the innermost item must leave the rooms of the others alone, so the rooms lie one behind the other in the order of the tokens (`ItemsOpen`); a flush must find none, so the flush lock is their number; and the value of a group's token must be negative, or a group would be ended as a length. That a closed message has no hole needs the converse: each hole in the buffer lies in the room of an open item (`HolesAreRoom`), and none is in the destination. While a stream is copied past the buffer nothing is locked (`CopyBypasses`). One lemma for each way to change the buffer (flush, grow, append, reserve, backfill, shift), then one for each action. |
| | `StreamIsFramed` | `StreamInv` adds to `WriterInv` where in the message the items begin: each behind those around it, with its room before it (`Ordered`), so that the message, sent or not, can be cut at the rooms into the bodies that `WireStream` knows (`Pieces`, `MappedIs`). Also a group's token names its field (`FieldsNamed`), and nothing is in the buffer while a copy goes past it (`Bypassing`), or the copy would overtake it. A step that writes lets the last piece grow (`WriteMaps`), one that opens an item adds an empty piece (`OpenMaps`), and filling in a length, also when it shifts the body, gives the piece around the item what `Framed` says (`ShutGroup`, `ShutPrefixed`, `CloseMaps`). That what was sent is `Settled` needs the pieces before the first open length joined to one (`JoinedCuts`, `SettledPieces`), an induction over their number. |
| `ReaderProofs` | `WindowStays`, `NeverBeyondLength` | `ReaderInv`: the window is the stream element by element from the position on, minus what `AppendBytes` has announced but not copied (`WindowAt`), fits the array, and is empty if a seek went past the end of the stream, where `WindowIsStream` alone says nothing of the cells. One lemma for each way to change the buffer (shift, exchange, read, consume, copy out, seek), then one for each action. |
| | `WalkIsFollowed` | `Walking` adds to `ReaderInv` that some message of `Messages` is being sent (`IsSent`) and where in its tree the reader stands (`Standing`): between two fields of the innermost open item (`Boundary`), behind the header of a field of that item, in the bytes of one, or at the item's end, with the wire type and the number to match. The frames are a path of the tree, and each token is what its return needs: the number of a group, negative unless it is skipped, or the end of the block around (`Stacked`). So `blockEnd` is always the end of the innermost item with a length (`IsBlock`), however many groups lie inside it, which is why comparing it with the position finds that end and no other (`BlockFacts`); and an item is left where it ends. That a field is read to where it stops needs the lengths to come back as written: a number has the fewest digits that tell it and two numbers with the same digits are equal, inductions over the digits with `Power` shown to be what its recursion says (`WidthIs`, `SameDigits`, `LengthReadBack`). And that nothing complete is refused needs `Ensure` to get what it was asked for, or all there is of the message (`EnsuredGets`). |
| | `CopyIsFaithful` | `Extended` adds to `Walking` that what is copied is a copy of the message from one place to another (`Verbatim`, `IsCopy`: the very cells if no varint between them is padded, which a longer piece needs of all its parts), which ends where the reader stands in a group that is being copied (`CopyTo`), and begins where the outermost such group began; every item inside that group is copied too, and none around it (`CopiedFrom`). So each field is appended behind the last one, and the header that ends the outermost group completes one whole field, while those inside complete none. |
| `NetObjectsProofs` | `ListsAgree`, `GraphComesBack` | The invariant is about a walk. A walk along the wire has, before each token, the calls that are open and the list of values with keys; each token takes it one step further (`Walks`). The writer's stack is one such walk's end (`WriterInv`: `Reached`, with `Places` for the calls on its stack among those of the walk), whose list is its own. The reader, which has read `at` tokens, follows the same walk to its place there (`ReaderInv`, `Follows`): its frames are the calls (`FramesAre`), its objects stand for nodes and have, so far, the members that those have (`ObjectsAre`), and a key in its cache is the object or type that the writer listed (`CacheIs`). For the graph it must also be known that an object belongs to one call or one member, unless it is tracked (`CallsApart`, `MembersApart`), and that no object is left with members unread (`AllRead`). `GraphIsPreserved` is a count of references against objects and follows at the end, when the stack is empty. |
| | `NothingIsRefused` | That no key is missing or out of turn needs how far the reader's cache lags behind the list of the walk (`Behind`): not at all (`Level`), or by the keys that the bundle on top has announced (`Ahead`), or by one, because a bundle without an object key sets the key of its type only after its object (`Waits`). In the last case the nested objects must introduce no key. Hence the hypothesis: in each graph there is a set of nodes (`Settled`) that contains all that members with a dynamic type and no reference lead to, that has no tracked member and that no member leaves; and a dynamic member is no string, for which `WriteNetObject` throws. The graphs of run `netobjects` satisfy it, those of `netobjects_dynamic` do not, and there `ReadsBack` fails: the hypothesis is the exact place of that finding, not a convenience. The other two theorems need no hypothesis. |
| `LengthPrefixProofs` | `FirstMatchIsReturned`, `BytesReadCountsAll`, `PrefixesAreReadWhereWritten` | `Inv` says where a call stands: at the prefix of an item or where nothing can be read (`Boundary`), behind the tag of an item, or behind the whole prefix with the length that the item has (`BehindPrefix`, with the case of a length that is missing and counts as 0); that nothing it was asked for begins between where it started and the prefix it last read (`NonePassed`); and how far it has moved. A prefix can only be understood where it begins, so the proof needs the layout of the stream (`Layout`): items lie one behind the other, each with its own prefix at its start, an induction over the items. And it needs that reading undoes writing (`DigitsAreTheNumber`, `VarintRead`): a varint of the fewest digits, read digit by digit up to the first that has no continuation bit, is the number it was written for; inductions over the digits, with `Power` and `Number` shown to be what their recursions say. |

The assumptions are the named `ASSUME`s of the modules, which TLC evaluates on each
run.

Only model-checked are: liveness under fairness (`CallsReturn`, `PoolCallsReturn`,
`Terminates`), for the prover has neither fairness nor `ENABLED`; and `Contracts`, whose `Written` and
`Flat` are RECURSIVE over messages and so beyond the prover.

## What is not modelled

* The values of integers, floats, dates, decimals and GUIDs: conversions without state.
  The models keep how many bytes they take.
* `Hint`, `Assert` and the direct readers of `ProtoReader`, which are reads
  with another wire type or without a buffer.
* Of the serializers: surrogates, tuples, dictionaries, factories, null elements, packed lists
  with a header each, `AppendCollection` into a list the object does not own, serialization (as opposed
  to deserialization) callbacks, and members with a `Specified` property. They change
  which value is read, not how a message is walked.
* Of the type model: auxiliary types (`TrySerializeAuxiliaryType`, `TryDeserializeList` at the root), `DeepClone`
  and the `Stream`-less entry points. Of extension data: `AppendValue` and `GetValue` for single values
  (`GetExtendedValues` throws `NotImplementedException` in this version).
* Overflow of a length at 2^31: the bounds are far below.
* The compiler: it emits the calls that the serializers make, and whether the IL is right
  is a question about a compiler.
* The names and shapes of attributes, type-name formatting and the glue for WCF, remoting
  and XML: data holders and adapters.
* The web pages of the demo projects (`src/BasicHttp`, `src/demo-rpc-server-mvc`): their
  scripts are jQuery, its validation plug-in and Microsoft Ajax, vendored as published. They have no
  part in serialization and nothing in `src/protobuf-net` refers to them.
* `ProtoGen`, the Visual Studio tools, samples and ports: no part of the library.

## Plan

Done: the registry, its lock, the pool, the append-only lists, the writer, the reader, the
object cache and items with length prefixes, with proofs; contracts, model-checked. What is
left, in this order:

1. `WireIntegers`: varints, zig-zag and fixed 32 and 64 bit integers at a reduced width as
   pure operators, against their mathematical definition, with negative and extreme
   values; the shifts and sign extensions of `WriteUInt32`, `ReadInt64` and the narrowing reads.
2. In `Contracts`: surrogates, factories, `OverwriteList` and null elements; in `LengthPrefix`:
   auxiliary types.
3. Field numbers of `GetNextFieldNumber` in the registry.
