-------------------------- MODULE TypeRegistryProofs --------------------------
(***************************************************************************)
(* Proofs about TypeRegistry, for any number of threads, types and calls:  *)
(* no type is added twice, and a type that is                              *)
(* Pending is being registered by the thread in the lock; a serializer is  *)
(* built from the whole contract of its type; if an application links no   *)
(* sub-types by hand and sets no options while types are in use, it        *)
(* belongs to a frozen type and is what would be built now; and where      *)
(* every [ProtoInclude] names a direct sub-class, and nobody links types   *)
(* by hand, the key of a type never changes and no call finds its own      *)
(* hierarchy frozen or taken.                                              *)
(***************************************************************************)
EXTENDS TypeRegistry, SequenceTheorems, TLAPS

\* One thread at a time is in the lock, by TakeLock's guard; every other fact
\* about a region rests on it.
MutualExclusion ==
  \A t, u \in Threads : Holds(t) /\ Holds(u) => t = u

Inv == TypeOK /\ MutualExclusion /\ NoDuplicates /\ FramesOK

\* The parts of the invariant that a step of a call stack can disturb.
StackInv == stack \in [Threads -> Seq(Frame)] /\ MutualExclusion /\ FramesOK

-----------------------------------------------------------------------------
(* What the four movements of a call stack do to the invariant.            *)

\* Replacing the top frame by one that holds the lock only if the old one did.
LEMMA GotoSafe ==
  ASSUME TypeOK, MutualExclusion, FramesOK, NEW t \in Threads, stack[t] # <<>>,
         NEW f \in Frame, Goto(t, f), types' = types,
         FrameOK(f),
         f.held => Top(t).held,
         f.pc = "add" => ~Known(f.type)
  PROVE  StackInv'
<1>1. stack[t] \in Seq(Frame) /\ Depth(t) \in 1..Len(stack[t])
  BY DEF TypeOK, Depth
<1>2. stack' \in [Threads -> Seq(Frame)]
  BY <1>1 DEF TypeOK, Goto
<1>3. /\ Len(stack'[t]) = Len(stack[t])
      /\ stack'[t][Depth(t)] = f
      /\ \A i \in 1..Len(stack[t]) : i # Depth(t) => stack'[t][i] = stack[t][i]
      /\ \A u \in Threads : u # t => stack'[u] = stack[u]
  BY <1>1 DEF TypeOK, Goto
<1>4. \A u \in Threads : Holds(u)' => Holds(u)
  BY <1>1, <1>2, <1>3 DEF Holds, Top, Depth
<1>5. MutualExclusion'
  BY <1>4 DEF MutualExclusion
<1>6. FramesOK'
  BY <1>1, <1>2, <1>3 DEF FramesOK, Known, Depth
<1>7. QED
  BY <1>2, <1>5, <1>6 DEF StackInv

\* Suspending the top frame and entering a method that has taken nothing yet.
LEMMA CallSafe ==
  ASSUME TypeOK, MutualExclusion, FramesOK, NEW t \in Threads, stack[t] # <<>>,
         NEW f \in Frame, NEW g \in Frame, Call(t, f, g), types' = types,
         FrameOK(f), f.pc # "add",
         f.held => Top(t).held,
         FrameOK(g), ~g.held
  PROVE  StackInv'
<1>1. stack[t] \in Seq(Frame) /\ Depth(t) \in 1..Len(stack[t])
  BY DEF TypeOK, Depth
<1> DEFINE below == [stack[t] EXCEPT ![Depth(t)] = f]
<1>2. below \in Seq(Frame) /\ Len(below) = Len(stack[t])
  BY <1>1
<1>3. stack' = [stack EXCEPT ![t] = Append(below, g)]
  BY DEF Call
<1>4. stack' \in [Threads -> Seq(Frame)]
  BY <1>2, <1>3 DEF TypeOK
<1>5. /\ Len(stack'[t]) = Len(stack[t]) + 1
      /\ stack'[t][Len(stack[t]) + 1] = g
      /\ stack'[t][Depth(t)] = f
      /\ \A i \in 1..Len(stack[t]) : i # Depth(t) => stack'[t][i] = stack[t][i]
      /\ \A u \in Threads : u # t => stack'[u] = stack[u]
  BY <1>1, <1>2, <1>3 DEF TypeOK
<1>6. \A u \in Threads : Holds(u)' => Holds(u)
  BY <1>1, <1>4, <1>5 DEF Holds, Top, Depth
<1>7. MutualExclusion'
  BY <1>6 DEF MutualExclusion
<1>8. g.pc # "add"
  BY DEF FrameOK, LockedPCs
<1>9. FramesOK'
  BY <1>1, <1>4, <1>5, <1>8 DEF FramesOK, Known, Depth
<1>10. QED
  BY <1>4, <1>7, <1>9 DEF StackInv

\* Leaving the top frame; the one below was not about to add a type.
LEMMA ReturnSafe ==
  ASSUME TypeOK, MutualExclusion, FramesOK, NEW t \in Threads, stack[t] # <<>>,
         Return(t), types' = types
  PROVE  StackInv'
<1>1. stack[t] \in Seq(Frame) /\ Depth(t) \in 1..Len(stack[t])
  BY DEF TypeOK, Depth
<1>2. stack' = [stack EXCEPT ![t] = SubSeq(stack[t], 1, Depth(t) - 1)]
  BY DEF Return
<1>3. stack' \in [Threads -> Seq(Frame)]
  BY <1>1, <1>2 DEF TypeOK
<1>4. /\ Len(stack'[t]) = Len(stack[t]) - 1
      /\ \A i \in 1..(Len(stack[t]) - 1) : stack'[t][i] = stack[t][i]
      /\ \A u \in Threads : u # t => stack'[u] = stack[u]
  <2>1. stack'[t] = SubSeq(stack[t], 1, Len(stack[t]) - 1)
    BY <1>2 DEF TypeOK, Depth
  <2>2. \A u \in Threads : u # t => stack'[u] = stack[u]
    BY <1>2 DEF TypeOK
  <2>3. QED
    BY <1>1, <2>1, <2>2 DEF Depth
<1>5. \A u \in Threads : Holds(u)' => Holds(u)
  BY <1>1, <1>3, <1>4 DEF Holds
<1>6. MutualExclusion'
  BY <1>5 DEF MutualExclusion
<1>7. FramesOK'
  <2> SUFFICES ASSUME NEW u \in Threads, NEW i \in DOMAIN stack'[u]
               PROVE  (/\ FrameOK(stack[u][i])
                       /\ stack[u][i].pc = "add" =>
                            i = Len(stack[u]) /\ ~Known(stack[u][i].type))'
    BY DEF FramesOK
  <2>1. i \in DOMAIN stack[u] /\ stack'[u][i] = stack[u][i]
    <3>1. CASE u # t
      BY <1>4, <3>1
    <3>2. CASE u = t
      <4>1. i \in 1..Len(stack[t]) - 1
        BY <1>3, <1>4, <3>2
      <4>2. QED
        BY <1>1, <1>4, <3>2, <4>1
    <3>3. QED
      BY <3>1, <3>2
  <2>2. u = t => i # Len(stack[t])
    BY <1>1, <1>3, <1>4
  <2>3. \A x : Known(x)' <=> Known(x)
    BY DEF Known
  <2>4. QED
    BY <1>4, <2>1, <2>2, <2>3 DEF FramesOK
<1>8. QED
  BY <1>3, <1>6, <1>7 DEF StackInv

\* Starting a call, and ending one by an exception.
LEMMA BeginSafe ==
  ASSUME TypeOK, MutualExclusion, FramesOK, NEW t \in Threads,
         NEW s \in Seq(Frame), stack' = [stack EXCEPT ![t] = s], types' = types,
         \A i \in DOMAIN s : FrameOK(s[i]) /\ ~s[i].held
  PROVE  StackInv'
<1>1. stack' \in [Threads -> Seq(Frame)] /\ stack'[t] = s
      /\ \A u \in Threads : u # t => stack'[u] = stack[u]
  BY DEF TypeOK
<1>2. \A u \in Threads : Holds(u)' => Holds(u)
  BY <1>1 DEF Holds
<1>3. MutualExclusion'
  BY <1>2 DEF MutualExclusion
<1>4. FramesOK'
  BY <1>1 DEF FramesOK, FrameOK, Known, LockedPCs
<1>5. QED
  BY <1>1, <1>3, <1>4 DEF StackInv

LEMMA ThrowSafe ==
  ASSUME TypeOK, MutualExclusion, FramesOK, NEW t \in Threads,
         NEW reason \in Reason, Throw(t, reason), types' = types
  PROVE  StackInv' /\ errors' \in [Threads -> SUBSET Reason]
                   /\ failed' \subseteq Types
<1>1. StackInv'
  <2>1. <<>> \in Seq(Frame) /\ \A i \in DOMAIN <<>> : FALSE
    OBVIOUS
  <2>2. QED
    BY <2>1, BeginSafe DEF Throw
<1>2. errors' \in [Threads -> SUBSET Reason]
  BY DEF TypeOK, Throw
<1>3. Registering(t) \subseteq Types
  <2>1. \A i \in DOMAIN stack[t] : stack[t][i] \in Frame
    BY DEF TypeOK
  <2>2. \A f \in Frame : f.type \in Types
    BY DEF Frame
  <2>3. QED
    BY <2>1, <2>2 DEF Registering
<1>4. QED
  BY <1>1, <1>2, <1>3 DEF TypeOK, Throw

\* The one movement that makes a thread hold the lock.
LEMMA TakeLockSafe ==
  ASSUME TypeOK, MutualExclusion, FramesOK, NEW t \in Threads, stack[t] # <<>>,
         NEW pc \in LockedPCs \ {"add"}, TakeLock(t, pc),
         pc \in LinkPCs => Top(t).other \in Types
  PROVE  StackInv'
<1> DEFINE f == [Top(t) EXCEPT !.pc = pc, !.held = TRUE]
<1>1. stack[t] \in Seq(Frame) /\ Depth(t) \in 1..Len(stack[t])
  BY DEF TypeOK, Depth
<1>2. f \in Frame /\ f.pc = pc /\ f.held /\ FrameOK(f)
  <2>1. Top(t) \in Frame
    BY <1>1 DEF Top
  <2>2. pc \in PC
    BY DEF PC
  <2>3. QED
    BY <2>1, <2>2 DEF Frame, FrameOK
<1>3. stack' = [stack EXCEPT ![t][Depth(t)] = f] /\ types' = types
  BY DEF TakeLock, Goto
<1>4. stack' \in [Threads -> Seq(Frame)]
  BY <1>1, <1>2, <1>3 DEF TypeOK
<1>5. /\ Len(stack'[t]) = Len(stack[t])
      /\ stack'[t][Depth(t)] = f
      /\ \A i \in 1..Len(stack[t]) : i # Depth(t) => stack'[t][i] = stack[t][i]
      /\ \A u \in Threads : u # t => stack'[u] = stack[u]
  BY <1>1, <1>3 DEF TypeOK
<1>6. \A u \in Threads : u # t => ~Holds(u)'
  BY <1>5 DEF TakeLock, HeldByOther, Holds
<1>7. MutualExclusion'
  BY <1>6 DEF MutualExclusion
<1>8. FramesOK'
  BY <1>1, <1>2, <1>3, <1>4, <1>5 DEF FramesOK, Known, Depth
<1>9. QED
  BY <1>4, <1>7, <1>8 DEF StackInv

-----------------------------------------------------------------------------
(* Facts every action uses.                                                *)

LEMMA TopFrame ==
  ASSUME TypeOK, FramesOK, NEW t \in Threads, stack[t] # <<>>
  PROVE  /\ Top(t) \in Frame
         /\ FrameOK(Top(t))
         /\ Top(t).pc = "add" => ~Known(Top(t).type)
<1>1. stack[t] \in Seq(Frame) /\ Depth(t) \in DOMAIN stack[t]
  BY DEF TypeOK, Depth
<1>2. QED
  BY <1>1 DEF Top, FramesOK

LEMMA NewFrameOK ==
  ASSUME NEW pc \in PC, NEW x \in Types, NEW y \in Types \union {NoType}
  PROVE  /\ NewFrame(pc, x, y) \in Frame
         /\ NewFrame(pc, x, y).pc = pc
         /\ NewFrame(pc, x, y).type = x
         /\ NewFrame(pc, x, y).other = y
         /\ ~NewFrame(pc, x, y).held
BY DEF NewFrame, Frame

\* Moving the pc of the top frame within, or outside, the lock.
LEMMA GotoPCSafe ==
  ASSUME TypeOK, MutualExclusion, FramesOK, NEW t \in Threads, stack[t] # <<>>,
         NEW pc \in PC, GotoPC(t, pc), types' = types,
         Top(t).pc \in LockedPCs <=> pc \in LockedPCs,
         pc \in LinkPCs => Top(t).other \in Types,
         pc = "add" => ~Known(Top(t).type)
  PROVE  StackInv'
<1> DEFINE f == [Top(t) EXCEPT !.pc = pc]
<1>1. /\ f \in Frame /\ f.pc = pc /\ f.held = Top(t).held
      /\ f.type = Top(t).type /\ f.other = Top(t).other
  BY TopFrame DEF Frame
<1>2. FrameOK(f)
  BY <1>1, TopFrame DEF FrameOK
<1>3. Goto(t, f)
  BY DEF GotoPC
<1> HIDE DEF f
<1>4. QED
  BY <1>1, <1>2, <1>3, GotoSafe

DataOK ==
  /\ types \in Seq(Types)
  /\ flags \in [Types -> SUBSET Flag]
  /\ fields \in [Types -> SUBSET Field]
  /\ baseType \in [Types -> Types \union {NoType}]
  /\ subTypes \in [Types -> SUBSET Types]
  /\ serializer \in [Types -> Serializer \union {NoSerializer}]
  /\ modelFrozen \in BOOLEAN
  /\ calls \in [Threads -> Nat]
  /\ errors \in [Threads -> SUBSET Reason]
  /\ failed \subseteq Types
  /\ keys \in [Types -> SUBSET Types]

LEMMA InvParts == DataOK /\ NoDuplicates /\ StackInv <=> Inv
BY DEF DataOK, StackInv, Inv, TypeOK

\* An action that only moves a stack.
LEMMA QuietSafe ==
  ASSUME Inv, StackInv',
         UNCHANGED <<types, metaVars, modelFrozen, calls, errors, histVars>>
  PROVE  Inv'
<1>1. DataOK' /\ NoDuplicates'
  BY DEF Inv, TypeOK, DataOK, NoDuplicates, metaVars, histVars
<1>2. QED
  BY <1>1 DEF DataOK, StackInv, Inv, TypeOK

-----------------------------------------------------------------------------
(* The actions, one lemma for each group of Step.                          *)

LEMMA LockStepInv ==
  ASSUME Inv, NEW t \in Threads, LockStep(t)
  PROVE  Inv'
<1> USE DEF Inv
<1>1. ASSUME NEW pc \in LockedPCs \ {"add"}, stack[t] # <<>>, TakeLock(t, pc),
             pc \in LinkPCs => Top(t).other \in Types
      PROVE  Inv'
  BY <1>1, TakeLockSafe, QuietSafe DEF TakeLock
<1>2. CASE WaitLock(t)
  BY <1>1, <1>2 DEF WaitLock, At, LockedPCs, LinkPCs
<1>3. CASE Take(t)
  BY <1>1, <1>3 DEF Take, At, LockedPCs, LinkPCs
<1>4. CASE RootLock(t)
  <2>1. stack[t] # <<>> /\ Top(t).other \in Types
    BY <1>4, TopFrame DEF RootLock, At, FrameOK, LinkPCs
  <2>2. QED
    BY <1>1, <1>4, <2>1 DEF RootLock, LockedPCs
<1>5. CASE SerLock(t)
  BY <1>1, <1>5 DEF SerLock, At, LockedPCs, LinkPCs
<1>6. CASE FieldLock(t)
  BY <1>1, <1>6 DEF FieldLock, At, LockedPCs, LinkPCs
<1>7. CASE AddLock(t)
  BY <1>1, <1>7 DEF AddLock, At, LockedPCs, LinkPCs
<1>8. CASE TakeLockTimeout(t)
  <2>1. "timeout" \in Reason /\ types' = types /\ Throw(t, "timeout")
    BY <1>8 DEF TakeLockTimeout, Reason
  <2>2. StackInv' /\ errors' \in [Threads -> SUBSET Reason] /\ failed' \subseteq Types
    BY <2>1, ThrowSafe
  <2>3. DataOK' /\ NoDuplicates'
    BY <1>8, <2>2 DEF TakeLockTimeout, TypeOK, DataOK, NoDuplicates, metaVars
  <2>4. QED
    BY <2>2, <2>3 DEF DataOK, StackInv, TypeOK
<1>9. QED
  BY <1>2, <1>3, <1>4, <1>5, <1>6, <1>7, <1>8 DEF LockStep

\* An action that ends its call by an exception and changes nothing else.
LEMMA ThrowInv ==
  ASSUME Inv, NEW t \in Threads, NEW reason \in Reason, Throw(t, reason),
         UNCHANGED <<types, metaVars, modelFrozen, calls, keys>>
  PROVE  Inv'
<1>1. StackInv' /\ errors' \in [Threads -> SUBSET Reason] /\ failed' \subseteq Types
  BY ThrowSafe DEF Inv
<1>2. DataOK' /\ NoDuplicates'
  BY <1>1 DEF Inv, TypeOK, DataOK, NoDuplicates, metaVars
<1>3. QED
  BY <1>1, <1>2 DEF DataOK, StackInv, Inv, TypeOK

\* Entering FindOrAddAuto, or another method that takes no lock at once, from
\* a caller that moves its own pc.
LEMMA CallInv ==
  ASSUME Inv, NEW t \in Threads, stack[t] # <<>>,
         NEW f \in Frame, NEW pc \in PC \ LockedPCs, NEW x \in Types,
         NEW y \in Types \union {NoType},
         f.held = Top(t).held, f.pc # "add",
         Top(t).pc \in LockedPCs <=> f.pc \in LockedPCs,
         f.pc \in LinkPCs => f.other \in Types,
         pc \in LinkPCs => y \in Types,
         Call(t, f, NewFrame(pc, x, y)),
         UNCHANGED <<types, metaVars, modelFrozen, calls, errors, histVars>>
  PROVE  Inv'
<1> DEFINE g == NewFrame(pc, x, y)
<1>1. g \in Frame /\ g.pc = pc /\ ~g.held /\ FrameOK(g)
  BY NewFrameOK DEF FrameOK
<1>2. FrameOK(f)
  BY TopFrame DEF Inv, FrameOK
<1>3. Call(t, f, g) /\ types' = types
  OBVIOUS
<1> HIDE DEF g
<1>4. StackInv'
  BY <1>1, <1>2, <1>3, CallSafe DEF Inv
<1>5. QED
  BY <1>4, QuietSafe

LEMMA FindStepInv ==
  ASSUME Inv, NEW t \in Threads,
         Look(t) \/ Waited(t) \/ Create(t) \/ Recheck(t) \/ Leave(t)
  PROVE  Inv'
<1> USE DEF Inv
<1>1. CASE Look(t)
  <2>1. stack[t] # <<>> /\ Top(t).pc = "look"
    BY <1>1 DEF Look, At
  <2>2. CASE GotoPC(t, "waitlock") \/ GotoPC(t, "take")
    BY <1>1, <2>1, <2>2, GotoPCSafe, QuietSafe
       DEF Look, PC, LockPCs, LockedPCs, OtherPCs, LinkPCs
  <2>3. CASE Return(t)
    BY <1>1, <2>1, <2>3, ReturnSafe, QuietSafe DEF Look
  <2>4. QED
    BY <1>1, <2>2, <2>3 DEF Look
<1>2. CASE Waited(t)
  BY <1>2, ReturnSafe, QuietSafe DEF Waited, At
<1>3. CASE Create(t)
  <2>1. CASE modelFrozen
    BY <1>3, <2>1, ThrowInv DEF Create, Reason
  <2>2. CASE ~modelFrozen
    BY <1>3, <2>2, GotoPCSafe, QuietSafe
       DEF Create, At, PC, LockPCs, LockedPCs, OtherPCs, LinkPCs, histVars
  <2>3. QED
    BY <2>1, <2>2
<1>4. CASE Recheck(t)
  <2>1. CASE Return(t) /\ UNCHANGED <<errors, failed>>
    BY <1>4, <2>1, ReturnSafe, QuietSafe DEF Recheck, At, histVars
  <2>2. CASE Throw(t, "model frozen")
    BY <1>4, <2>2, ThrowInv DEF Recheck, Reason
  <2>3. CASE ~Known(Top(t).type) /\ GotoPC(t, "add") /\ UNCHANGED <<errors, failed>>
    BY <1>4, <2>3, GotoPCSafe, QuietSafe
       DEF Recheck, At, PC, LockPCs, LockedPCs, OtherPCs, LinkPCs, histVars
  <2>4. QED
    BY <1>4, <2>1, <2>2, <2>3 DEF Recheck
<1>5. CASE Leave(t)
  BY <1>5, ReturnSafe, QuietSafe DEF Leave, At
<1>6. QED
  BY <1>1, <1>2, <1>3, <1>4, <1>5

\* The only action that extends the list: the lock makes the adder's frame the
\* only one at "add", so the type it found missing is still missing.
LEMMA AddTypeInv ==
  ASSUME Inv, NEW t \in Threads, AddType(t)
  PROVE  Inv'
<1> USE DEF Inv
<1> DEFINE x == Top(t).type
           f == [Top(t) EXCEPT !.pc = "ready"]
           g == NewFrame("base", x, NoType)
           below == [stack[t] EXCEPT ![Depth(t)] = f]
<1>1. /\ stack[t] # <<>> /\ Top(t).pc = "add" /\ types' = Append(types, x)
      /\ stack' = [stack EXCEPT ![t] = Append(below, g)]
  BY DEF AddType, At, Call
<1>2. /\ Top(t) \in Frame /\ Top(t).held /\ x \in Types /\ ~Known(x)
  BY <1>1, TopFrame DEF FrameOK, LockedPCs, Frame
<1>3. f \in Frame /\ f.pc = "ready" /\ f.held /\ FrameOK(f)
  BY <1>2 DEF Frame, FrameOK, PC, LockedPCs, LinkPCs
<1>4. g \in Frame /\ g.pc = "base" /\ ~g.held /\ FrameOK(g)
  <2>1. g \in Frame /\ g.pc = "base" /\ ~g.held
    BY <1>2 DEF NewFrame, Frame, PC, OtherPCs
  <2>2. QED
    BY <2>1 DEF FrameOK, LockedPCs, LinkPCs
<1>5. stack[t] \in Seq(Frame) /\ Depth(t) \in 1..Len(stack[t])
  BY <1>1 DEF TypeOK, Depth
<1> HIDE DEF f, g
<1>6. below \in Seq(Frame) /\ Len(below) = Len(stack[t])
  BY <1>3, <1>5
<1>7. stack' \in [Threads -> Seq(Frame)]
  BY <1>1, <1>4, <1>6 DEF TypeOK
<1>8. /\ Len(stack'[t]) = Len(stack[t]) + 1
      /\ stack'[t][Len(stack[t]) + 1] = g
      /\ stack'[t][Depth(t)] = f
      /\ \A i \in 1..Len(stack[t]) : i # Depth(t) => stack'[t][i] = stack[t][i]
      /\ \A u \in Threads : u # t => stack'[u] = stack[u]
  BY <1>1, <1>4, <1>5, <1>6 DEF TypeOK
<1>9. Holds(t)
  BY <1>2, <1>5 DEF Holds, Top, Depth
<1>10. \A u \in Threads : Holds(u)' => Holds(u)
  BY <1>5, <1>7, <1>8, <1>9 DEF Holds
<1>11. MutualExclusion'
  BY <1>10 DEF MutualExclusion
<1>12. \A u \in Threads : \A i \in DOMAIN stack[u] :
         stack[u][i].pc = "add" => u = t
  BY <1>9 DEF FramesOK, FrameOK, MutualExclusion, Holds, LockedPCs
<1>13. FramesOK'
  <2> SUFFICES ASSUME NEW u \in Threads, NEW i \in DOMAIN stack'[u]
               PROVE  (FrameOK(stack[u][i]) /\ stack[u][i].pc # "add")'
    BY DEF FramesOK
  <2>1. CASE u # t
    BY <1>8, <1>12, <2>1 DEF FramesOK
  <2>2. CASE u = t /\ i = Len(stack[t]) + 1
    BY <1>4, <1>8, <2>2
  <2>3. CASE u = t /\ i = Depth(t)
    BY <1>3, <1>8, <2>3
  <2>4. CASE u = t /\ i # Len(stack[t]) + 1 /\ i # Depth(t)
    <3>1. i \in 1..Len(stack[t]) /\ stack'[t][i] = stack[t][i]
      BY <1>5, <1>7, <1>8, <2>4
    <3>2. QED
      BY <2>4, <3>1 DEF FramesOK, Depth
  <2>5. QED
    BY <2>1, <2>2, <2>3, <2>4
<1>14. NoDuplicates'
  BY <1>1, <1>2 DEF NoDuplicates, Known, TypeOK
<1>15. DataOK'
  BY <1>1, <1>2 DEF AddType, TypeOK, DataOK, Flag, histVars
<1>16. QED
  BY <1>7, <1>11, <1>13, <1>14, <1>15 DEF DataOK, TypeOK

LEMMA ReadyInv ==
  ASSUME Inv, NEW t \in Threads, Ready(t)
  PROVE  Inv'
<1> USE DEF Inv
<1>1. StackInv'
  BY GotoPCSafe DEF Ready, At, PC, LockPCs, LockedPCs, OtherPCs, LinkPCs
<1>2. DataOK' /\ NoDuplicates'
  <2>1. Top(t).type \in Types
    BY TopFrame DEF Ready, At, Frame
  <2>2. QED
    BY <2>1 DEF Ready, TypeOK, DataOK, NoDuplicates, histVars
<1>3. QED
  BY <1>1, <1>2 DEF DataOK, StackInv, TypeOK

LEMMA ApplyStepInv ==
  ASSUME Inv, NEW t \in Threads,
         ApplyBase(t) \/ ApplyInclude(t) \/ ApplyMembers(t) \/ ApplyThrows(t)
  PROVE  Inv'
<1> USE DEF Inv
<1>1. CASE ApplyBase(t)
  <2> DEFINE f == [Top(t) EXCEPT !.pc = "include",
                                 !.todo = ValidIncludes(Top(t).type)]
  <2>1. stack[t] # <<>> /\ Top(t).pc = "base"
    BY <1>1 DEF ApplyBase, At
  <2>2. Top(t).type \in Types /\ ValidIncludes(Top(t).type) \subseteq Types
    BY <2>1, TopFrame, RegistryAssumption DEF Frame, ValidIncludes
  <2>3. /\ f \in Frame /\ f.pc = "include" /\ f.held = Top(t).held
        /\ f.type = Top(t).type
    BY <2>1, <2>2, TopFrame DEF Frame, PC, OtherPCs
  <2>4. BaseOf[Top(t).type] \in Types \union {NoType}
    BY <2>2, RegistryAssumption
  <2> HIDE DEF f
  <2>5. CASE /\ BaseOf[Top(t).type] # NoType
             /\ Call(t, f, NewFrame("look", BaseOf[Top(t).type], NoType))
    BY <1>1, <2>1, <2>3, <2>4, <2>5, CallInv
       DEF ApplyBase, PC, LockedPCs, OtherPCs, LinkPCs
  <2>6. CASE Goto(t, f)
    <3>1. FrameOK(f)
      BY <2>1, <2>3, TopFrame DEF FrameOK, LockedPCs, LinkPCs
    <3>2. QED
      BY <1>1, <2>1, <2>3, <2>6, <3>1, GotoSafe, QuietSafe DEF ApplyBase
  <2>7. QED
    BY <1>1, <2>5, <2>6 DEF ApplyBase, f
<1>2. CASE ApplyInclude(t)
  <2>1. stack[t] # <<>> /\ Top(t).pc = "include"
    BY <1>2 DEF ApplyInclude, At
  <2>2. PICK d \in Top(t).todo :
          Call(t, [Top(t) EXCEPT !.todo = @ \ {d}],
                  NewFrame("subfind", Top(t).type, d))
    BY <1>2 DEF ApplyInclude
  <2> DEFINE f == [Top(t) EXCEPT !.todo = @ \ {d}]
  <2>3. /\ f \in Frame /\ f.pc = "include" /\ f.held = Top(t).held
        /\ Top(t).type \in Types /\ d \in Types
    BY <2>1, TopFrame DEF Frame
  <2> HIDE DEF f
  <2>4. Call(t, f, NewFrame("subfind", Top(t).type, d))
    BY <2>2 DEF f
  <2>5. QED
    BY <1>2, <2>1, <2>3, <2>4, CallInv
       DEF ApplyInclude, PC, LockedPCs, OtherPCs, LinkPCs
<1>3. CASE ApplyMembers(t)
  <2>1. CASE Throw(t, "type frozen") /\ UNCHANGED fields
    BY <1>3, <2>1, ThrowInv DEF ApplyMembers, Reason, metaVars
  <2>2. CASE /\ fields' = [fields EXCEPT ![Top(t).type] = @ \union {"attr"}]
             /\ Return(t) /\ UNCHANGED <<errors, failed>>
    <3>1. StackInv'
      BY <1>3, <2>2, ReturnSafe DEF ApplyMembers, At
    <3>2. Top(t).type \in Types
      BY <1>3, TopFrame DEF ApplyMembers, At, Frame
    <3>3. DataOK' /\ NoDuplicates'
      BY <1>3, <2>2, <3>2 DEF ApplyMembers, TypeOK, DataOK, NoDuplicates, Field
    <3>4. QED
      BY <3>1, <3>3 DEF DataOK, StackInv, TypeOK
  <2>3. QED
    BY <1>3, <2>1, <2>2 DEF ApplyMembers
<1>4. CASE ApplyThrows(t)
  BY <1>4, ThrowInv DEF ApplyThrows, Reason
<1>5. QED
  BY <1>1, <1>2, <1>3, <1>4

LEMMA SubStepInv ==
  ASSUME Inv, NEW t \in Threads,
         SubFind(t) \/ SubCheck(t) \/ Link(t) \/ SubAdd(t)
  PROVE  Inv'
<1> USE DEF Inv
<1>0. stack[t] # <<>> /\ Top(t) \in Frame /\ Top(t).other \in Types
  BY TopFrame DEF SubFind, SubCheck, Link, SubAdd, At, FrameOK, LinkPCs
<1>1. CASE SubFind(t)
  <2> DEFINE f == [Top(t) EXCEPT !.pc = "subcheck"]
  <2>1. Top(t).pc = "subfind" /\ Call(t, f, NewFrame("look", Top(t).other, NoType))
    BY <1>1 DEF SubFind, At
  <2>2. f \in Frame /\ f.pc = "subcheck" /\ f.held = Top(t).held
        /\ f.other = Top(t).other
    BY <1>0 DEF Frame, PC, OtherPCs
  <2> HIDE DEF f
  <2>3. QED
    BY <1>0, <1>1, <2>1, <2>2, CallInv
       DEF SubFind, PC, LockedPCs, OtherPCs, LinkPCs
<1>2. CASE SubCheck(t)
  <2>1. CASE Throw(t, "type frozen")
    BY <1>2, <2>1, ThrowInv DEF SubCheck, Reason
  <2>2. CASE GotoPC(t, "link") /\ UNCHANGED <<errors, failed>>
    BY <1>0, <1>2, <2>2, GotoPCSafe, QuietSafe
       DEF SubCheck, At, PC, LockPCs, LockedPCs, OtherPCs, LinkPCs, histVars
  <2>3. QED
    BY <1>2, <2>1, <2>2 DEF SubCheck
<1>3. CASE Link(t)
  <2>1. CASE Throw(t, "bad hierarchy") /\ UNCHANGED baseType
    BY <1>3, <2>1, ThrowInv DEF Link, Reason, metaVars
  <2>2. CASE /\ baseType' = [baseType EXCEPT ![Top(t).other] = Top(t).type]
             /\ GotoPC(t, "subadd") /\ UNCHANGED <<errors, failed>>
    <3>1. StackInv'
      BY <1>0, <1>3, <2>2, GotoPCSafe
         DEF Link, At, PC, LockPCs, LockedPCs, OtherPCs, LinkPCs
    <3>2. Top(t).type \in Types
      BY <1>0 DEF Frame
    <3>3. DataOK' /\ NoDuplicates'
      BY <1>3, <2>2, <3>2 DEF Link, TypeOK, DataOK, NoDuplicates
    <3>4. QED
      BY <3>1, <3>3 DEF DataOK, StackInv, TypeOK
  <2>3. QED
    BY <1>3, <2>1, <2>2 DEF Link
<1>4. CASE SubAdd(t)
  <2>1. StackInv'
    BY <1>0, <1>4, ReturnSafe DEF SubAdd
  <2>2. Top(t).type \in Types
    BY <1>0 DEF Frame
  <2>3. DataOK' /\ NoDuplicates'
    BY <1>0, <1>4, <2>2 DEF SubAdd, TypeOK, DataOK, NoDuplicates, histVars
  <2>4. QED
    BY <2>1, <2>3 DEF DataOK, StackInv, TypeOK
<1>5. QED
  BY <1>1, <1>2, <1>3, <1>4

LEMMA RootStepInv ==
  ASSUME Inv, NEW t \in Threads,
         GetKey(t) \/ Climb(t) \/ RootRead(t) \/ Rekey(t) \/ Answer(t)
  PROVE  Inv'
<1> USE DEF Inv
<1>0. stack[t] # <<>> /\ Top(t) \in Frame /\ FrameOK(Top(t))
  BY TopFrame DEF GetKey, Climb, RootRead, Rekey, Answer, At
<1>1. CASE GetKey(t)
  <2> DEFINE f == [Top(t) EXCEPT !.pc = "climb", !.other = Top(t).type]
  <2>1. Top(t).pc = "getkey" /\ Call(t, f, NewFrame("look", Top(t).type, NoType))
    BY <1>1 DEF GetKey, At
  <2>2. /\ f \in Frame /\ f.pc = "climb" /\ f.held = Top(t).held
        /\ f.other = Top(t).type /\ Top(t).type \in Types
    BY <1>0 DEF Frame, PC, OtherPCs
  <2> HIDE DEF f
  <2>3. QED
    BY <1>0, <1>1, <2>1, <2>2, CallInv
       DEF GetKey, PC, LockedPCs, OtherPCs, LinkPCs
<1>2. CASE Climb(t)
  <2>1. Top(t).pc = "climb" /\ Top(t).other \in Types /\ ~Top(t).held
    BY <1>0, <1>2 DEF Climb, At, FrameOK, LinkPCs, LockedPCs
  <2>2. CASE GotoPC(t, "rootlock") \/ GotoPC(t, "rekey")
    BY <1>0, <1>2, <2>1, <2>2, GotoPCSafe, QuietSafe
       DEF Climb, PC, LockPCs, LockedPCs, OtherPCs, LinkPCs
  <2>3. CASE /\ baseType[Top(t).other] # NoType
             /\ Goto(t, [Top(t) EXCEPT !.other = baseType[Top(t).other]])
    <3> DEFINE f == [Top(t) EXCEPT !.other = baseType[Top(t).other]]
    <3>1. baseType[Top(t).other] \in Types
      BY <2>1, <2>3 DEF TypeOK
    <3>2. f \in Frame /\ f.pc = "climb" /\ ~f.held /\ FrameOK(f)
      BY <1>0, <2>1, <3>1 DEF Frame, FrameOK, LockedPCs
    <3>3. Goto(t, f)
      BY <2>3
    <3> HIDE DEF f
    <3>4. QED
      BY <1>0, <1>2, <3>2, <3>3, GotoSafe, QuietSafe DEF Climb
  <2>4. QED
    BY <1>2, <2>2, <2>3 DEF Climb
<1>3. CASE RootRead(t)
  <2>1. Top(t).pc = "rootread" /\ Top(t).other \in Types /\ Top(t).held
    BY <1>0, <1>3 DEF RootRead, At, FrameOK, LinkPCs, LockedPCs
  <2>2. CASE /\ baseType[Top(t).other] # NoType
             /\ Goto(t, [Top(t) EXCEPT !.other = baseType[Top(t).other]])
    <3> DEFINE f == [Top(t) EXCEPT !.other = baseType[Top(t).other]]
    <3>1. baseType[Top(t).other] \in Types
      BY <2>1, <2>2 DEF TypeOK
    <3>2. f \in Frame /\ f.pc = "rootread" /\ f.held /\ FrameOK(f)
      BY <1>0, <2>1, <3>1 DEF Frame, FrameOK, LockedPCs
    <3>3. Goto(t, f)
      BY <2>2
    <3> HIDE DEF f
    <3>4. QED
      BY <1>0, <1>3, <2>1, <3>2, <3>3, GotoSafe, QuietSafe DEF RootRead
  <2>3. CASE Goto(t, [Top(t) EXCEPT !.pc = "rekey", !.held = FALSE])
    <3> DEFINE f == [Top(t) EXCEPT !.pc = "rekey", !.held = FALSE]
    <3>1. f \in Frame /\ f.pc = "rekey" /\ ~f.held /\ FrameOK(f)
      BY <1>0, <2>1 DEF Frame, FrameOK, PC, LockedPCs, OtherPCs
    <3>2. Goto(t, f)
      BY <2>3
    <3> HIDE DEF f
    <3>3. QED
      BY <1>0, <1>3, <3>1, <3>2, GotoSafe, QuietSafe DEF RootRead
  <2>4. QED
    BY <1>3, <2>2, <2>3 DEF RootRead
<1>4. CASE Rekey(t)
  <2> DEFINE f == [Top(t) EXCEPT !.pc = Top(t).next, !.type = Top(t).other]
             g == NewFrame("look", Top(t).other, NoType)
  <2>1. /\ Top(t).pc = "rekey" /\ Top(t).other \in Types /\ ~Top(t).held
        /\ Top(t).type \in Types /\ Call(t, f, g)
    BY <1>0, <1>4 DEF Rekey, At, FrameOK, LinkPCs, LockedPCs, Frame
  <2>2. f \in Frame /\ f.pc \in {"peek", "answer"} /\ ~f.held
    BY <1>0, <2>1 DEF Frame, PC, OtherPCs
  <2>3. g \in Frame /\ g.pc = "look" /\ ~g.held
    BY <2>1 DEF NewFrame, Frame, PC, OtherPCs
  <2> HIDE DEF f, g
  <2>4. FrameOK(f) /\ FrameOK(g)
    BY <2>2, <2>3 DEF FrameOK, LockedPCs, LinkPCs
  <2>5. types' = types
    BY <1>4 DEF Rekey
  <2>6. StackInv'
    BY <1>0, <2>1, <2>2, <2>3, <2>4, <2>5, CallSafe
  <2>7. DataOK' /\ NoDuplicates'
    BY <1>4, <2>1 DEF Rekey, TypeOK, DataOK, NoDuplicates, metaVars
  <2>8. QED
    BY <2>6, <2>7 DEF DataOK, StackInv, TypeOK
<1>5. CASE Answer(t)
  BY <1>5, <1>0, ReturnSafe, QuietSafe DEF Answer
<1>6. QED
  BY <1>1, <1>2, <1>3, <1>4, <1>5

LEMMA BuildStepInv ==
  ASSUME Inv, NEW t \in Threads,
         Peek(t) \/ Build(t) \/ BuildMember(t) \/ StoreSerializer(t) \/ Built(t)
  PROVE  Inv'
<1> USE DEF Inv
<1>0. /\ stack[t] # <<>> /\ Top(t) \in Frame /\ FrameOK(Top(t))
      /\ Top(t).type \in Types
  BY TopFrame DEF Peek, Build, BuildMember, StoreSerializer, Built, At, Frame
<1>1. CASE Peek(t)
  <2>1. CASE Return(t)
    BY <1>0, <1>1, <2>1, ReturnSafe, QuietSafe DEF Peek
  <2>2. CASE GotoPC(t, "serlock")
    BY <1>0, <1>1, <2>2, GotoPCSafe, QuietSafe
       DEF Peek, At, PC, LockPCs, LockedPCs, OtherPCs, LinkPCs
  <2>3. QED
    BY <1>1, <2>1, <2>2 DEF Peek
<1>2. CASE Build(t)
  <2>1. CASE Return(t) /\ UNCHANGED flags
    BY <1>0, <1>2, <2>1, ReturnSafe, QuietSafe DEF Build, metaVars
  <2>2. CASE /\ flags' = [flags EXCEPT ![Top(t).type] = @ \union {"Frozen"}]
             /\ Goto(t, [Top(t) EXCEPT !.pc = "members",
                                       !.todo = Members[Top(t).type],
                                       !.subs = subTypes[Top(t).type]])
    <3> DEFINE f == [Top(t) EXCEPT !.pc = "members",
                                   !.todo = Members[Top(t).type],
                                   !.subs = subTypes[Top(t).type]]
    <3>1. Top(t).pc = "build" /\ Top(t).held
      BY <1>0, <1>2 DEF Build, At, FrameOK, LockedPCs
    <3>2. Members[Top(t).type] \subseteq Types /\ subTypes[Top(t).type] \subseteq Types
      BY <1>0, RegistryAssumption DEF TypeOK
    <3>3. f \in Frame /\ f.pc = "members" /\ f.held
      BY <1>0, <3>1, <3>2 DEF Frame, PC, LockedPCs
    <3>4. Goto(t, f) /\ types' = types
      BY <1>2, <2>2 DEF Build
    <3> HIDE DEF f
    <3>5. FrameOK(f)
      BY <3>3 DEF FrameOK, LockedPCs, LinkPCs
    <3>6. StackInv'
      BY <1>0, <3>1, <3>3, <3>4, <3>5, GotoSafe
    <3>7. DataOK' /\ NoDuplicates'
      BY <1>0, <1>2, <2>2 DEF Build, TypeOK, DataOK, NoDuplicates, Flag, histVars
    <3>8. QED
      BY <3>6, <3>7 DEF DataOK, StackInv, TypeOK
  <2>3. QED
    BY <1>2, <2>1, <2>2 DEF Build
<1>3. CASE BuildMember(t)
  <2>1. PICK y \in Top(t).todo :
          Call(t, [Top(t) EXCEPT !.todo = @ \ {y}],
                  [NewFrame("getkey", y, NoType) EXCEPT !.next = "answer"])
    BY <1>3 DEF BuildMember
  <2> DEFINE f == [Top(t) EXCEPT !.todo = @ \ {y}]
             g == [NewFrame("getkey", y, NoType) EXCEPT !.next = "answer"]
  <2>2. f \in Frame /\ f.pc = "members" /\ f.held /\ Top(t).held /\ y \in Types
    BY <1>0, <1>3 DEF BuildMember, At, Frame, FrameOK, LockedPCs
  <2>3. g \in Frame /\ g.pc = "getkey" /\ ~g.held
    BY <2>2 DEF NewFrame, Frame, PC, OtherPCs
  <2>4. Call(t, f, g) /\ types' = types
    BY <1>3, <2>1 DEF BuildMember
  <2> HIDE DEF f, g
  <2>5. FrameOK(f) /\ FrameOK(g)
    BY <2>2, <2>3 DEF FrameOK, LockedPCs, LinkPCs
  <2>6. StackInv'
    BY <1>0, <2>2, <2>3, <2>4, <2>5, CallSafe
  <2>7. QED
    BY <1>3, <2>6, QuietSafe DEF BuildMember
<1>4. CASE StoreSerializer(t)
  <2>1. StackInv'
    BY <1>0, <1>4, GotoPCSafe
       DEF StoreSerializer, At, PC, LockPCs, LockedPCs, OtherPCs, LinkPCs
  <2>2. [fields |-> fields[Top(t).type], subs |-> Top(t).subs,
         root |-> baseType[Top(t).type] = NoType] \in Serializer
    BY <1>0 DEF Serializer, Frame, TypeOK
  <2>3. DataOK' /\ NoDuplicates'
    BY <1>0, <1>4, <2>2
       DEF StoreSerializer, TypeOK, DataOK, NoDuplicates, histVars
  <2>4. QED
    BY <2>1, <2>3 DEF DataOK, StackInv, TypeOK
<1>5. CASE Built(t)
  BY <1>0, <1>5, ReturnSafe, QuietSafe DEF Built
<1>6. QED
  BY <1>1, <1>2, <1>3, <1>4, <1>5

LEMMA ConfigStepInv ==
  ASSUME Inv, NEW t \in Threads, ConfigStep(t)
  PROVE  Inv'
<1> USE DEF Inv
<1>0. /\ stack[t] # <<>> /\ Top(t) \in Frame /\ FrameOK(Top(t))
      /\ Top(t).type \in Types
  BY TopFrame DEF ConfigStep, ModelGet, FieldAdd, OptCheck, OptRead, OptWrite,
                  AddFind, AddCreate, AddCheck, At, Frame
<1>1. CASE ModelGet(t)
  <2>1. PICK pc \in {"typeget", "fieldget", "optget", "compileget"} :
          /\ Top(t).pc = pc
          /\ Call(t, [Top(t) EXCEPT !.pc = CASE pc = "typeget" -> "subfind"
                                             [] pc = "fieldget" -> "fieldlock"
                                             [] pc = "optget" -> "optcheck"
                                             [] pc = "compileget" -> "peek"],
                     NewFrame("look", Top(t).type, NoType))
    BY <1>1 DEF ModelGet
  <2> DEFINE next == CASE pc = "typeget" -> "subfind"
                       [] pc = "fieldget" -> "fieldlock"
                       [] pc = "optget" -> "optcheck"
                       [] pc = "compileget" -> "peek"
             f == [Top(t) EXCEPT !.pc = next]
  <2>2. /\ next \in {"subfind", "fieldlock", "optcheck", "peek"}
        /\ next = "subfind" <=> pc = "typeget"
    OBVIOUS
  <2>3. next \in PC \ LockedPCs /\ pc \notin LockedPCs
    BY <2>2 DEF PC, LockPCs, LockedPCs, OtherPCs
  <2>4. next \in LinkPCs => Top(t).other \in Types
    BY <1>0, <2>1, <2>2 DEF FrameOK, LinkPCs
  <2> HIDE DEF next
  <2>5. /\ f \in Frame /\ f.pc = next /\ f.held = Top(t).held
        /\ f.other = Top(t).other
    BY <1>0, <2>3 DEF Frame
  <2>6. Call(t, f, NewFrame("look", Top(t).type, NoType))
    BY <2>1 DEF next
  <2> HIDE DEF f
  <2>7. QED
    BY <1>0, <1>1, <2>1, <2>3, <2>4, <2>5, <2>6, CallInv
       DEF ModelGet, PC, LockedPCs, OtherPCs, LinkPCs
<1>2. CASE FieldAdd(t)
  <2>1. CASE Throw(t, "type frozen") /\ UNCHANGED fields
    BY <1>2, <2>1, ThrowInv DEF FieldAdd, Reason, metaVars
  <2>2. CASE /\ fields' = [fields EXCEPT ![Top(t).type] = @ \union {"extra"}]
             /\ Return(t) /\ UNCHANGED <<errors, failed>>
    <3>1. StackInv'
      BY <1>0, <1>2, <2>2, ReturnSafe DEF FieldAdd
    <3>2. DataOK' /\ NoDuplicates'
      BY <1>0, <1>2, <2>2 DEF FieldAdd, TypeOK, DataOK, NoDuplicates, Field
    <3>3. QED
      BY <3>1, <3>2 DEF DataOK, StackInv, TypeOK
  <2>3. QED
    BY <1>2, <2>1, <2>2 DEF FieldAdd
<1>3. CASE OptCheck(t)
  <2>1. CASE Throw(t, "type frozen")
    BY <1>3, <2>1, ThrowInv DEF OptCheck, Reason
  <2>2. CASE GotoPC(t, "optread") /\ UNCHANGED <<errors, failed>>
    BY <1>0, <1>3, <2>2, GotoPCSafe, QuietSafe
       DEF OptCheck, At, PC, LockPCs, LockedPCs, OtherPCs, LinkPCs, histVars
  <2>3. QED
    BY <1>3, <2>1, <2>2 DEF OptCheck
<1>4. CASE OptRead(t)
  <2> DEFINE f == [Top(t) EXCEPT !.pc = "optwrite", !.saved = flags[Top(t).type]]
  <2>1. Top(t).pc = "optread" /\ ~Top(t).held /\ Goto(t, f)
    BY <1>0, <1>4 DEF OptRead, At, FrameOK, LockedPCs
  <2>2. flags[Top(t).type] \subseteq Flag
    BY <1>0 DEF TypeOK
  <2>3. f \in Frame /\ f.pc = "optwrite" /\ ~f.held
    BY <1>0, <2>1, <2>2 DEF Frame, PC, OtherPCs
  <2> HIDE DEF f
  <2>4. FrameOK(f)
    BY <2>3 DEF FrameOK, LockedPCs, LinkPCs
  <2>5. QED
    BY <1>0, <1>4, <2>1, <2>3, <2>4, GotoSafe, QuietSafe DEF OptRead
<1>5. CASE OptWrite(t)
  <2>1. StackInv'
    BY <1>0, <1>5, ReturnSafe DEF OptWrite
  <2>2. Top(t).saved \subseteq Flag
    BY <1>0 DEF Frame
  <2>3. DataOK' /\ NoDuplicates'
    BY <1>0, <1>5, <2>2 DEF OptWrite, TypeOK, DataOK, NoDuplicates, Flag, histVars
  <2>4. QED
    BY <2>1, <2>3 DEF DataOK, StackInv, TypeOK
<1>6. CASE AddFind(t)
  <2>1. CASE GotoPC(t, "waitlock") \/ GotoPC(t, "addcreate")
    BY <1>0, <1>6, <2>1, GotoPCSafe, QuietSafe
       DEF AddFind, At, PC, LockPCs, LockedPCs, OtherPCs, LinkPCs
  <2>2. CASE Return(t)
    BY <1>0, <1>6, <2>2, ReturnSafe, QuietSafe DEF AddFind
  <2>3. QED
    BY <1>6, <2>1, <2>2 DEF AddFind
<1>7. CASE AddCreate(t)
  <2>1. CASE Throw(t, "model frozen")
    BY <1>7, <2>1, ThrowInv DEF AddCreate, Reason
  <2>2. CASE GotoPC(t, "addlock") /\ UNCHANGED <<errors, failed>>
    BY <1>0, <1>7, <2>2, GotoPCSafe, QuietSafe
       DEF AddCreate, At, PC, LockPCs, LockedPCs, OtherPCs, LinkPCs, histVars
  <2>3. QED
    BY <1>7, <2>1, <2>2 DEF AddCreate
<1>8. CASE AddCheck(t)
  <2>1. CASE Throw(t, "duplicate type") \/ Throw(t, "model frozen")
    BY <1>8, <2>1, ThrowInv DEF AddCheck, Reason
  <2>2. CASE ~Known(Top(t).type) /\ GotoPC(t, "add") /\ UNCHANGED <<errors, failed>>
    BY <1>0, <1>8, <2>2, GotoPCSafe, QuietSafe
       DEF AddCheck, At, PC, LockPCs, LockedPCs, OtherPCs, LinkPCs, histVars
  <2>3. QED
    BY <1>8, <2>1, <2>2 DEF AddCheck
<1>9. QED
  BY <1>1, <1>2, <1>3, <1>4, <1>5, <1>6, <1>7, <1>8 DEF ConfigStep

\* A call starts with one frame, which holds nothing.
LEMMA BeginInv ==
  ASSUME Inv, NEW t \in Threads, NEW op, NEW pc \in PC \ LockedPCs,
         NEW x \in Types, NEW y \in Types \union {NoType},
         pc \in LinkPCs => y \in Types,
         Begin(t, op, pc, x, y)
  PROVE  Inv'
<1> DEFINE f == NewFrame(pc, x, y)
<1>1. f \in Frame /\ ~f.held /\ FrameOK(f)
  BY NewFrameOK DEF FrameOK
<1>2. stack' = [stack EXCEPT ![t] = <<f>>] /\ types' = types
  BY DEF Begin
<1> HIDE DEF f
<1>3. <<f>> \in Seq(Frame) /\ \A i \in DOMAIN <<f>> : <<f>>[i] = f
  BY <1>1
<1>4. StackInv'
  BY <1>1, <1>2, <1>3, BeginSafe DEF Inv
<1>5. DataOK' /\ NoDuplicates'
  BY DEF Begin, Inv, TypeOK, DataOK, NoDuplicates, metaVars, histVars
<1>6. QED
  BY <1>4, <1>5 DEF DataOK, StackInv, Inv, TypeOK

LEMMA StartInv ==
  ASSUME Inv, NEW t \in Threads, Start(t)
  PROVE  Inv'
<1>1. \A pc \in {"getkey", "addfind", "fieldget", "optget", "compileget", "peek"} :
        pc \in PC \ LockedPCs /\ pc \notin LinkPCs
  BY DEF PC, LockedPCs, OtherPCs, LinkPCs
<1>2. CASE Use(t)
  BY <1>1, <1>2, BeginInv DEF Use
<1>3. CASE Compile(t) \/ CompileListed(t)
  BY <1>1, <1>3, BeginInv DEF Compile, CompileListed
<1>4. CASE Add(t)
  BY <1>1, <1>4, BeginInv DEF Add
<1>5. CASE AddField(t)
  BY <1>1, <1>5, BeginInv DEF AddField
<1>6. CASE Configure(t)
  BY <1>1, <1>6, BeginInv DEF Configure
<1>7. CASE AddSubType(t)
  <2>1. PICK p \in Assignable :
          Begin(t, "AddSubType", "typeget", p[1], p[2])
    BY <1>7 DEF AddSubType
  <2>2. p[1] \in Types /\ p[2] \in Types
    BY RegistryAssumption
  <2>3. "typeget" \in PC \ LockedPCs
    BY DEF PC, LockedPCs, OtherPCs
  <2>4. QED
    BY <2>1, <2>2, <2>3, BeginInv
<1>8. CASE Freeze(t)
  <2>1. types' = types /\ stack' = stack
    BY <1>8 DEF Freeze
  <2>2. StackInv'
    BY <2>1 DEF Inv, StackInv, TypeOK, FramesOK, Known, MutualExclusion, Holds
  <2>3. DataOK' /\ NoDuplicates'
    BY <1>8 DEF Freeze, Inv, TypeOK, DataOK, NoDuplicates, metaVars, histVars
  <2>4. QED
    BY <2>2, <2>3 DEF DataOK, StackInv, Inv, TypeOK
<1>9. QED
  BY <1>2, <1>3, <1>4, <1>5, <1>6, <1>7, <1>8 DEF Start

LEMMA InitInv == Init => Inv
<1> SUFFICES ASSUME Init PROVE Inv
  OBVIOUS
<1>0. <<>> \in Seq(Types) /\ <<>> \in Seq(Frame) /\ DOMAIN <<>> = {}
  OBVIOUS
<1>1. TypeOK
  BY <1>0 DEF Init, TypeOK
<1>2. \A t \in Threads : DOMAIN stack[t] = {}
  BY <1>0 DEF Init
<1>3. MutualExclusion /\ FramesOK
  BY <1>2 DEF MutualExclusion, Holds, FramesOK
<1>4. NoDuplicates
  BY DEF Init, NoDuplicates
<1>5. QED
  BY <1>1, <1>3, <1>4 DEF Inv

LEMMA NextInv == Inv /\ [Next]_vars => Inv'
<1> SUFFICES ASSUME Inv, [Next]_vars PROVE Inv'
  OBVIOUS
<1>1. ASSUME NEW t \in Threads, Step(t)
      PROVE  Inv'
  <2>1. CASE LockStep(t)
    BY <2>1, LockStepInv
  <2>2. CASE RegisterStep(t)
    BY <2>2, FindStepInv, AddTypeInv, ReadyInv, ApplyStepInv, SubStepInv
       DEF RegisterStep
  <2>3. CASE UseStep(t)
    BY <2>3, RootStepInv, BuildStepInv DEF UseStep
  <2>4. CASE ConfigStep(t)
    BY <2>4, ConfigStepInv
  <2>5. QED
    BY <1>1, <2>1, <2>2, <2>3, <2>4 DEF Step
<1>2. ASSUME NEW t \in Threads, Start(t)
      PROVE  Inv'
  BY <1>2, StartInv
<1>3. CASE UNCHANGED vars
  <2>1. types' = types /\ stack' = stack
    BY <1>3 DEF vars
  <2>2. StackInv'
    BY <2>1 DEF Inv, StackInv, TypeOK, FramesOK, Known, MutualExclusion, Holds
  <2>3. QED
    BY <1>3, <2>2, QuietSafe DEF vars
<1>4. QED
  BY <1>1, <1>2, <1>3 DEF Next, Done

-----------------------------------------------------------------------------
(* What it adds up to.                                                     *)

LEMMA InvHolds == Spec => []Inv
<1>1. Init => Inv
  BY InitInv
<1>2. Inv /\ [Next]_vars => Inv'
  BY NextInv
<1>3. QED
  BY <1>1, <1>2, PTL DEF Spec

\* Every variable keeps its type; in particular no call stack ever holds the
\* frame of a method at a statement that method does not have.
THEOREM TypeCorrect == Spec => []TypeOK
<1>1. Inv => TypeOK
  BY DEF Inv
<1>2. QED
  BY <1>1, InvHolds, PTL

\* No type is ever twice in the list of types, so the key of a type is unique:
\* both double checks, of FindOrAddAuto and of Add, are under the lock.
THEOREM TypesAreUnique == Spec => []NoDuplicates
<1>1. Inv => NoDuplicates
  BY DEF Inv
<1>2. QED
  BY <1>1, InvHolds, PTL

-----------------------------------------------------------------------------
(* Registration: a type that is Pending is being registered by the thread  *)
(* in the lock, so that to wait for the lock is to wait for the type.      *)

\* The frames of FindOrAddAuto, and of a setter that has its MetaType.
FindPCs == {"look", "waitlock", "waited", "take", "create", "recheck", "add",
            "ready", "leave"}
OptionPCs == {"optcheck", "optread", "optwrite"}

\* In the list, and nobody is adding it (or gave it up).
Settled(x) == Known(x) /\ (Pending(x) => x \in failed)

\* What a frame has found out.
FrameSettled(f) ==
  /\ f.pc \in {"waitlock", "waited", "ready"} => Known(f.type)
  /\ f.pc = "leave" => Settled(f.type)
  /\ f.pc = "optwrite" /\ "Pending" \in f.saved => f.type \in failed

\* A setter is called by the application only, and runs when model[type] has
\* returned: the flags that it writes back are those of a settled type.
Configuring(s) ==
  /\ \A i \in DOMAIN s : s[i].pc \in OptionPCs \union {"optget"} => i = 1
  /\ s # <<>> /\ s[1].pc \in OptionPCs =>
       \/ Len(s) = 1 /\ Settled(s[1].type)
       \/ /\ Len(s) > 1 /\ s[1].pc = "optcheck"
          /\ s[2].pc \in FindPCs /\ s[2].type = s[1].type

StacksSettled ==
  \A t \in Threads :
    /\ \A i \in DOMAIN stack[t] : FrameSettled(stack[t][i])
    /\ Configuring(stack[t])

\* PendingIsOwned without the lock, which a registering frame always holds.
Owned ==
  \A x \in Types : Known(x) /\ Pending(x) /\ x \notin failed =>
    \E t \in Threads : x \in Registering(t)

RegInv == Inv /\ StacksSettled /\ Owned

-----------------------------------------------------------------------------
(* Steps that mark no type: what is settled stays so.                      *)

Calm ==
  /\ types' = types /\ failed \subseteq failed'
  /\ \A x \in Types : Pending(x)' => Pending(x) \/ x \in failed

\* ... and so it does while another type is marked.
Steady ==
  /\ failed \subseteq failed'
  /\ \A x \in Types : (Known(x) => Known(x)') /\ (Settled(x) => Settled(x)')

LEMMA SteadyKeeps ==
  ASSUME Steady
  PROVE  /\ \A x \in Types : Settled(x) => Settled(x)'
         /\ \A f \in Frame : FrameSettled(f) => FrameSettled(f)'
<1>1. \A f \in Frame : f.type \in Types
  BY DEF Frame
<1>2. QED
  BY <1>1 DEF FrameSettled, Steady

LEMMA CalmKeeps ==
  ASSUME Calm
  PROVE  Steady /\ \A x \in Types : Known(x)' <=> Known(x)
<1>1. \A x \in Types : Known(x)' <=> Known(x)
  BY DEF Calm, Known
<1>2. \A x \in Types : Settled(x) => Settled(x)'
  BY <1>1 DEF Calm, Settled
<1>3. QED
  BY <1>1, <1>2 DEF Calm, Steady

LEMMA QuietIsCalm ==
  ASSUME types' = types, flags' = flags, failed \subseteq failed'
  PROVE  Calm
BY DEF Calm, Pending

\* Who was registering a type still is, unless it failed.
LEMMA OwnedKept ==
  ASSUME Owned, Calm,
         \A u \in Threads : Registering(u) \subseteq Registering(u)' \union failed'
  PROVE  Owned'
<1> SUFFICES ASSUME NEW x \in Types, Known(x)', Pending(x)', x \notin failed'
             PROVE  \E t \in Threads : x \in Registering(t)'
  BY DEF Owned
<1>1. Known(x) /\ Pending(x) /\ x \notin failed
  BY CalmKeeps DEF Calm
<1>2. PICK t \in Threads : x \in Registering(t)
  BY <1>1 DEF Owned
<1>3. QED
  BY <1>2

\* The type of a frame at "ready" is being registered, and by nobody else.
LEMMA RegisteringIs ==
  ASSUME NEW t \in Threads, NEW x
  PROVE  x \in Registering(t) <=>
           \E i \in DOMAIN stack[t] : stack[t][i].pc = "ready" /\ stack[t][i].type = x
BY DEF Registering

LEMMA TopIs ==
  ASSUME TypeOK, NEW t \in Threads, stack[t] # <<>>
  PROVE  /\ stack[t] \in Seq(Frame) /\ Depth(t) = Len(stack[t])
         /\ Depth(t) \in 1..Len(stack[t]) /\ Top(t) = stack[t][Depth(t)]
         /\ DOMAIN stack[t] = 1..Len(stack[t])
         /\ Top(t) \in Frame
BY DEF TypeOK, Depth, Top

-----------------------------------------------------------------------------
(* The movements of a call stack.                                          *)

\* The stacks that a step leaves alone.
LEMMA OtherSettled ==
  ASSUME TypeOK, StacksSettled, Steady, NEW u \in Threads, stack'[u] = stack[u]
  PROVE  (/\ \A i \in DOMAIN stack[u] : FrameSettled(stack[u][i])
          /\ Configuring(stack[u]))'
<1>1. \A i \in DOMAIN stack[u] : stack[u][i] \in Frame /\ FrameSettled(stack[u][i])
  BY DEF TypeOK, StacksSettled
<1>2. (\A i \in DOMAIN stack[u] : FrameSettled(stack[u][i]))'
  <2>1. \A g \in Frame : FrameSettled(g) => FrameSettled(g)'
    BY SteadyKeeps
  <2>2. QED
    BY <1>1, <2>1
<1>3. ASSUME stack[u] # <<>> PROVE stack[u][1].type \in Types
  <2>1. 1 \in DOMAIN stack[u]
    BY <1>3, TopIs
  <2>2. QED
    BY <1>1, <2>1 DEF Frame
<1>4. Configuring(stack[u])
  BY DEF StacksSettled
<1>5. stack[u] # <<>> /\ Settled(stack[u][1].type) => Settled(stack[u][1].type)'
  BY <1>3, SteadyKeeps
<1>6. Configuring(stack[u])'
  BY <1>4, <1>5 DEF Configuring
<1>7. QED
  BY <1>2, <1>6

LEMMA GotoSettled ==
  ASSUME TypeOK, StacksSettled, Steady,
         NEW t \in Threads, stack[t] # <<>>,
         NEW f \in Frame, Goto(t, f), FrameSettled(f)',
         f.pc # "optget",
         f.pc \in OptionPCs => Top(t).pc \in OptionPCs /\ f.type = Top(t).type,
         Top(t).pc \in FindPCs => f.pc \in FindPCs /\ f.type = Top(t).type
  PROVE  StacksSettled'
<1> DEFINE d == Len(stack[t])
<1>1. /\ stack[t] \in Seq(Frame) /\ d \in Nat \ {0} /\ Top(t) = stack[t][d]
      /\ DOMAIN stack[t] = 1..d
  BY TopIs
<1>2. /\ \A u \in Threads : u # t => stack'[u] = stack[u]
      /\ stack'[t] = [stack[t] EXCEPT ![d] = f]
  BY DEF Goto, Depth, TypeOK
<1>3. /\ DOMAIN stack'[t] = 1..d /\ Len(stack'[t]) = d /\ stack'[t][d] = f
      /\ \A i \in 1..d : i # d => stack'[t][i] = stack[t][i]
  BY <1>1, <1>2
<1>4. \A g \in Frame : FrameSettled(g) => FrameSettled(g)'
  BY SteadyKeeps
<1>5. ASSUME NEW u \in Threads, u # t
      PROVE  (/\ \A i \in DOMAIN stack[u] : FrameSettled(stack[u][i])
              /\ Configuring(stack[u]))'
  BY <1>2, <1>5, OtherSettled
<1>6. (\A i \in DOMAIN stack[t] : FrameSettled(stack[t][i]))'
  <2> SUFFICES ASSUME NEW i \in 1..d PROVE FrameSettled(stack[t][i])'
    BY <1>3
  <2>1. CASE i = d
    BY <1>3, <2>1
  <2>2. CASE i # d
    <3>1. stack'[t][i] = stack[t][i] /\ stack[t][i] \in Frame /\ FrameSettled(stack[t][i])
      BY <1>1, <1>3, <2>2 DEF StacksSettled
    <3>2. QED
      BY <1>4, <3>1
  <2>3. QED
    BY <2>1, <2>2
<1>7. Configuring(stack[t])'
  <2>1. Configuring(stack[t])
    BY DEF StacksSettled
  <2>2. \A i \in DOMAIN stack'[t] :
          stack'[t][i].pc \in OptionPCs \union {"optget"} => i = 1
    BY <1>1, <1>3, <2>1 DEF Configuring
  <2>3. ASSUME stack'[t][1].pc \in OptionPCs
        PROVE  \/ Len(stack'[t]) = 1 /\ Settled(stack[t][1].type)'
               \/ /\ Len(stack'[t]) > 1 /\ stack'[t][1].pc = "optcheck"
                  /\ stack'[t][2].pc \in FindPCs
                  /\ stack'[t][2].type = stack'[t][1].type
    <3>1. CASE d = 1
      <4>1. stack'[t][1] = f /\ Top(t) = stack[t][1] /\ f.type \in Types
        BY <1>1, <1>3, <3>1 DEF Frame
      <4>2. Settled(f.type)
        BY <1>1, <2>1, <2>3, <3>1, <4>1 DEF Configuring
      <4>3. QED
        BY <1>3, <3>1, <4>1, <4>2, SteadyKeeps
    <3>2. CASE d # 1
      <4>0. 1 \in 1..d
        BY <1>1
      <4>1. stack'[t][1] = stack[t][1]
        BY <1>3, <3>2, <4>0
      <4>2. /\ d > 1 /\ stack[t][1].pc = "optcheck" /\ stack[t][2].pc \in FindPCs
            /\ stack[t][2].type = stack[t][1].type
        BY <1>1, <2>1, <2>3, <3>2, <4>1 DEF Configuring
      <4>3. stack'[t][2].pc \in FindPCs /\ stack'[t][2].type = stack[t][2].type
        <5>1. CASE d = 2
          BY <1>1, <1>3, <4>2, <5>1
        <5>2. CASE d # 2
          BY <1>1, <1>3, <4>2, <5>2
        <5>3. QED
          BY <5>1, <5>2
      <4>4. QED
        BY <1>3, <4>1, <4>2, <4>3
    <3>3. QED
      BY <3>1, <3>2
  <2>4. QED
    BY <2>2, <2>3 DEF Configuring
<1>8. QED
  BY <1>5, <1>6, <1>7 DEF StacksSettled

LEMMA CallSettled ==
  ASSUME TypeOK, StacksSettled, Steady,
         NEW t \in Threads, stack[t] # <<>>,
         NEW f \in Frame, NEW g \in Frame, Call(t, f, g),
         FrameSettled(f)', FrameSettled(g)',
         f.pc \notin {"optget", "optread", "optwrite"},
         g.pc \notin OptionPCs \union {"optget"},
         f.pc = "optcheck" =>
           Top(t).pc = "optget" /\ g.pc \in FindPCs /\ g.type = f.type,
         Top(t).pc \notin OptionPCs,
         Top(t).pc \in FindPCs => f.pc \in FindPCs /\ f.type = Top(t).type
  PROVE  StacksSettled'
<1> DEFINE d == Len(stack[t])
<1>1. /\ stack[t] \in Seq(Frame) /\ d \in Nat \ {0} /\ Top(t) = stack[t][d]
      /\ DOMAIN stack[t] = 1..d
  BY TopIs
<1> DEFINE below == [stack[t] EXCEPT ![d] = f]
<1>2. below \in Seq(Frame) /\ Len(below) = d
  BY <1>1
<1>3. /\ \A u \in Threads : u # t => stack'[u] = stack[u]
      /\ stack'[t] = Append(below, g)
  BY DEF Call, Depth, TypeOK
<1>4. /\ DOMAIN stack'[t] = 1..d + 1 /\ Len(stack'[t]) = d + 1
      /\ stack'[t][d] = f /\ stack'[t][d + 1] = g
      /\ \A i \in 1..d : i # d => stack'[t][i] = stack[t][i]
  BY <1>1, <1>2, <1>3
<1> HIDE DEF below
<1>5. ASSUME NEW u \in Threads, u # t
      PROVE  (/\ \A i \in DOMAIN stack[u] : FrameSettled(stack[u][i])
              /\ Configuring(stack[u]))'
  BY <1>3, <1>5, OtherSettled
<1>6. (\A i \in DOMAIN stack[t] : FrameSettled(stack[t][i]))'
  <2> SUFFICES ASSUME NEW i \in 1..d + 1 PROVE FrameSettled(stack[t][i])'
    BY <1>4
  <2>1. CASE i \in {d, d + 1}
    BY <1>4, <2>1
  <2>2. CASE i \notin {d, d + 1}
    <3>1. i \in 1..d /\ i # d
      BY <1>1, <2>2
    <3>2. stack'[t][i] = stack[t][i] /\ stack[t][i] \in Frame /\ FrameSettled(stack[t][i])
      BY <1>1, <1>4, <3>1 DEF StacksSettled
    <3>3. QED
      BY <3>2, SteadyKeeps
  <2>3. QED
    BY <2>1, <2>2
<1>7. Configuring(stack[t])'
  <2>1. Configuring(stack[t])
    BY DEF StacksSettled
  <2>2. ASSUME NEW i \in 1..d + 1, stack'[t][i].pc \in OptionPCs \union {"optget"}
        PROVE  i = 1
    <3>1. CASE i = d + 1
      BY <1>4, <2>2, <3>1
    <3>2. CASE i = d
      <4>1. stack[t][d].pc = "optget"
        BY <1>1, <1>4, <2>2, <3>2 DEF OptionPCs
      <4>2. d \in DOMAIN stack[t]
        BY <1>1
      <4>3. QED
        BY <2>1, <3>2, <4>1, <4>2 DEF Configuring
    <3>3. CASE i # d + 1 /\ i # d
      <4>1. i \in 1..d /\ i # d
        BY <1>1, <3>3
      <4>2. QED
        BY <1>1, <1>4, <2>1, <2>2, <4>1 DEF Configuring
    <3>4. QED
      BY <3>1, <3>2, <3>3
  <2>3. ASSUME stack'[t][1].pc \in OptionPCs
        PROVE  /\ Len(stack'[t]) > 1 /\ stack'[t][1].pc = "optcheck"
               /\ stack'[t][2].pc \in FindPCs
               /\ stack'[t][2].type = stack'[t][1].type
    <3>1. CASE d = 1
      <4>1. stack'[t][1] = f /\ stack'[t][2] = g
        BY <1>4, <3>1
      <4>2. QED
        BY <1>4, <2>3, <3>1, <4>1 DEF OptionPCs
    <3>2. CASE d # 1
      <4>1. 1 \in 1..d
        BY <1>1
      <4>2. stack'[t][1] = stack[t][1]
        BY <1>4, <3>2, <4>1
      <4>3. /\ d > 1 /\ stack[t][1].pc = "optcheck" /\ stack[t][2].pc \in FindPCs
            /\ stack[t][2].type = stack[t][1].type
        BY <1>1, <2>1, <2>3, <3>2, <4>2 DEF Configuring
      <4>4. stack'[t][2].pc \in FindPCs /\ stack'[t][2].type = stack[t][2].type
        <5>1. CASE d = 2
          BY <1>1, <1>4, <4>3, <5>1
        <5>2. CASE d # 2
          <6>1. 2 \in 1..d
            BY <1>1, <4>3
          <6>2. QED
            BY <1>4, <4>3, <5>2, <6>1
        <5>3. QED
          BY <5>1, <5>2
      <4>5. QED
        BY <1>1, <1>4, <4>2, <4>3, <4>4
    <3>3. QED
      BY <3>1, <3>2
  <2>4. QED
    BY <1>4, <2>2, <2>3 DEF Configuring
<1>8. QED
  BY <1>5, <1>6, <1>7 DEF StacksSettled

\* A caller that waits for its MetaType gets one that is settled: below it,
\* nothing is being registered.
LEMMA ReturnSettled ==
  ASSUME TypeOK, StacksSettled, Steady,
         NEW t \in Threads, stack[t] # <<>>, Return(t), Top(t).pc # "ready",
         Top(t).pc \in FindPCs =>
           Settled(Top(t).type) \/ Top(t).type \in Registering(t)
  PROVE  StacksSettled'
<1> DEFINE d == Len(stack[t])
<1>1. /\ stack[t] \in Seq(Frame) /\ d \in Nat \ {0} /\ Top(t) = stack[t][d]
      /\ DOMAIN stack[t] = 1..d /\ Top(t) \in Frame
  BY TopIs
<1>2. /\ \A u \in Threads : u # t => stack'[u] = stack[u]
      /\ stack'[t] = SubSeq(stack[t], 1, d - 1)
  BY DEF Return, Depth, TypeOK
<1>3. /\ DOMAIN stack'[t] = 1..d - 1 /\ Len(stack'[t]) = d - 1
      /\ \A i \in 1..d - 1 : stack'[t][i] = stack[t][i]
  BY <1>1, <1>2
<1>4. \A i \in 1..d - 1 : i \in 1..d /\ i # d
  BY <1>1
<1>5. ASSUME NEW u \in Threads, u # t
      PROVE  (/\ \A i \in DOMAIN stack[u] : FrameSettled(stack[u][i])
              /\ Configuring(stack[u]))'
  BY <1>2, <1>5, OtherSettled
<1>6. (\A i \in DOMAIN stack[t] : FrameSettled(stack[t][i]))'
  <2> SUFFICES ASSUME NEW i \in 1..d - 1 PROVE FrameSettled(stack[t][i])'
    BY <1>3
  <2>1. i \in DOMAIN stack[t] /\ stack'[t][i] = stack[t][i]
    BY <1>1, <1>3, <1>4
  <2>2. stack[t][i] \in Frame /\ FrameSettled(stack[t][i])
    BY <1>1, <2>1 DEF StacksSettled
  <2>3. QED
    BY <2>1, <2>2, SteadyKeeps
<1>7. Configuring(stack[t])'
  <2>1. Configuring(stack[t])
    BY DEF StacksSettled
  <2>2. \A i \in 1..d - 1 :
          stack'[t][i].pc \in OptionPCs \union {"optget"} => i = 1
    BY <1>1, <1>3, <1>4, <2>1 DEF Configuring
  <2>3. ASSUME stack'[t] # <<>>, stack'[t][1].pc \in OptionPCs
        PROVE  \/ Len(stack'[t]) = 1 /\ Settled(stack[t][1].type)'
               \/ /\ Len(stack'[t]) > 1 /\ stack'[t][1].pc = "optcheck"
                  /\ stack'[t][2].pc \in FindPCs
                  /\ stack'[t][2].type = stack'[t][1].type
    <3>1. d > 1 /\ 1 \in 1..d - 1
      BY <1>1, <1>2, <2>3
    <3>2. stack'[t][1] = stack[t][1]
      BY <1>3, <3>1
    <3>3. /\ stack[t][1].pc = "optcheck" /\ stack[t][2].pc \in FindPCs
          /\ stack[t][2].type = stack[t][1].type
      BY <1>1, <2>1, <2>3, <3>1, <3>2 DEF Configuring
    <3>4. CASE d = 2
      <4>1. Top(t).pc \in FindPCs /\ Top(t).type = stack[t][1].type
        BY <1>1, <3>3, <3>4
      <4>2. \A i \in DOMAIN stack[t] : stack[t][i].pc # "ready"
        <5>1. \A i \in DOMAIN stack[t] : i = 1 \/ i = 2
          BY <1>1, <3>4
        <5>2. QED
          BY <1>1, <3>3, <3>4, <5>1
      <4>3. Settled(Top(t).type)
        BY <4>1, <4>2, RegisteringIs
      <4>4. Top(t).type \in Types
        BY <1>1 DEF Frame
      <4>5. Settled(Top(t).type) => Settled(stack[t][1].type)'
        BY <3>2, <4>1, <4>4, SteadyKeeps
      <4>6. QED
        BY <1>3, <3>4, <4>3, <4>5
    <3>5. CASE d # 2
      <4>0. d \in Nat /\ d > 1 /\ d # 2
        BY <1>1, <3>1, <3>5
      <4>1. 2 \in 1..d - 1 /\ d - 1 > 1
        <5> HIDE DEF d
        <5>1. QED
          BY <4>0
      <4>2. stack'[t][2] = stack[t][2]
        BY <1>3, <4>1
      <4>3. QED
        BY <1>3, <3>2, <3>3, <4>1, <4>2
    <3>6. QED
      BY <3>4, <3>5
  <2>4. QED
    BY <1>3, <2>2, <2>3 DEF Configuring
<1>8. QED
  BY <1>5, <1>6, <1>7 DEF StacksSettled

\* Starting a call, and ending one by an exception.
LEMMA EmptySettled ==
  ASSUME TypeOK, StacksSettled, Steady, NEW t \in Threads,
         stack' = [stack EXCEPT ![t] = <<>>]
  PROVE  StacksSettled'
<1>1. stack'[t] = <<>> /\ \A u \in Threads : u # t => stack'[u] = stack[u]
  BY DEF TypeOK
<1>2. (/\ \A i \in DOMAIN stack[t] : FrameSettled(stack[t][i])
       /\ Configuring(stack[t]))'
  BY <1>1 DEF Configuring
<1>3. QED
  BY <1>1, <1>2, OtherSettled DEF StacksSettled

LEMMA BeginSettled ==
  ASSUME TypeOK, StacksSettled, Steady, NEW t \in Threads,
         NEW f, f.pc \notin OptionPCs \union {"waitlock", "waited", "ready", "leave"},
         stack' = [stack EXCEPT ![t] = <<f>>]
  PROVE  StacksSettled'
<1>1. stack'[t] = <<f>> /\ \A u \in Threads : u # t => stack'[u] = stack[u]
  BY DEF TypeOK
<1>2. DOMAIN <<f>> = {1} /\ <<f>>[1] = f
  OBVIOUS
<1>3. (/\ \A i \in DOMAIN stack[t] : FrameSettled(stack[t][i])
       /\ Configuring(stack[t]))'
  BY <1>1, <1>2 DEF Configuring, FrameSettled, OptionPCs
<1>4. QED
  BY <1>1, <1>3, OtherSettled DEF StacksSettled

-----------------------------------------------------------------------------
(* ... and with them, who registers what.                                  *)

LEMMA MoveReg ==
  ASSUME RegInv, TypeOK', Calm, NEW t \in Threads, stack[t] # <<>>,
         NEW f, Goto(t, f), FrameSettled(f), Top(t).pc # "ready", f.pc # "optget",
         f.pc \in OptionPCs => Top(t).pc \in OptionPCs /\ f.type = Top(t).type,
         Top(t).pc \in FindPCs => f.pc \in FindPCs /\ f.type = Top(t).type
  PROVE  StacksSettled' /\ Owned'
<1> DEFINE d == Len(stack[t])
<1>0. TypeOK /\ StacksSettled /\ Owned
  BY DEF RegInv, Inv
<1>1. /\ stack[t] \in Seq(Frame) /\ d \in 1..d /\ Top(t) = stack[t][d]
      /\ DOMAIN stack[t] = 1..d
  BY <1>0, TopIs
<1>2. /\ \A u \in Threads : u # t => stack'[u] = stack[u]
      /\ stack'[t] = [stack[t] EXCEPT ![d] = f]
  BY <1>0 DEF Goto, Depth, TypeOK
<1>3. /\ DOMAIN stack'[t] = 1..d /\ stack'[t][d] = f
      /\ \A i \in 1..d : i # d => stack'[t][i] = stack[t][i]
  BY <1>1, <1>2
<1>4. f \in Frame
  BY <1>1, <1>3 DEF TypeOK
<1>5. Steady /\ FrameSettled(f)'
  BY <1>4, CalmKeeps, SteadyKeeps
<1>6. StacksSettled'
  BY <1>0, <1>4, <1>5, GotoSettled
<1>7. \A u \in Threads : Registering(u) \subseteq Registering(u)'
  BY <1>1, <1>2, <1>3 DEF Registering
<1>8. Owned'
  BY <1>0, <1>7, OwnedKept
<1>9. QED
  BY <1>6, <1>8

\* Moving only the pc.
LEMMA PCReg ==
  ASSUME RegInv, TypeOK', Calm, NEW t \in Threads, stack[t] # <<>>,
         NEW pc, GotoPC(t, pc),
         pc \in {"waitlock", "waited"} => Known(Top(t).type),
         pc \notin {"ready", "leave", "optget", "optwrite"},
         pc \in OptionPCs => Top(t).pc \in OptionPCs,
         Top(t).pc # "ready",
         Top(t).pc \in FindPCs => pc \in FindPCs
  PROVE  StacksSettled' /\ Owned'
<1> DEFINE f == [Top(t) EXCEPT !.pc = pc]
<1>1. f.pc = pc /\ f.type = Top(t).type /\ Goto(t, f)
  BY TopIs DEF RegInv, Inv, Frame, GotoPC
<1> HIDE DEF f
<1>2. FrameSettled(f)
  BY <1>1 DEF FrameSettled
<1>3. QED
  BY <1>1, <1>2, MoveReg

LEMMA CallReg ==
  ASSUME RegInv, TypeOK', Calm, NEW t \in Threads, stack[t] # <<>>,
         NEW f, NEW g, Call(t, f, g),
         f.pc \notin {"waitlock", "waited", "ready", "leave", "optget",
                      "optread", "optwrite"},
         g.pc \notin {"waitlock", "waited", "ready", "leave", "optget",
                      "optread", "optwrite", "optcheck"},
         f.pc = "optcheck" =>
           Top(t).pc = "optget" /\ g.pc \in FindPCs /\ g.type = f.type,
         Top(t).pc \notin OptionPCs \union FindPCs
  PROVE  StacksSettled' /\ Owned'
<1> DEFINE d == Len(stack[t])
           below == [stack[t] EXCEPT ![d] = f]
<1>0. TypeOK /\ StacksSettled /\ Owned
  BY DEF RegInv, Inv
<1>1. /\ stack[t] \in Seq(Frame) /\ d \in Nat \ {0} /\ Top(t) = stack[t][d]
      /\ DOMAIN stack[t] = 1..d
  BY <1>0, TopIs
<1>2. /\ \A u \in Threads : u # t => stack'[u] = stack[u]
      /\ stack'[t] = Append(below, g) /\ stack'[t] \in Seq(Frame)
  BY <1>0 DEF Call, Depth, TypeOK
<1>3. /\ DOMAIN stack'[t] = 1..d + 1 /\ stack'[t][d] = f /\ stack'[t][d + 1] = g
      /\ \A i \in 1..d : i # d => stack'[t][i] = stack[t][i]
  <2>1. below \in Seq(Frame \union {f}) /\ Len(below) = d /\ below[d] = f
        /\ \A i \in 1..d : i # d => below[i] = stack[t][i]
    BY <1>1
  <2> HIDE DEF below
  <2>2. QED
    BY <1>1, <1>2, <2>1
<1>4. f \in Frame /\ g \in Frame
  BY <1>1, <1>2, <1>3
<1>5. FrameSettled(f)' /\ FrameSettled(g)'
  BY DEF FrameSettled
<1>6. StacksSettled'
  BY <1>0, <1>4, <1>5, CalmKeeps, CallSettled DEF OptionPCs
<1>7. \A u \in Threads : Registering(u) \subseteq Registering(u)'
  <2> SUFFICES ASSUME NEW u \in Threads, NEW x \in Registering(u)
               PROVE  x \in Registering(u)'
    OBVIOUS
  <2>1. CASE u # t
    BY <1>2, <2>1 DEF Registering
  <2>2. CASE u = t
    <3>1. PICK i \in 1..d : stack[t][i].pc = "ready" /\ x = stack[t][i].type
      BY <1>1, <2>2 DEF Registering
    <3>2. i # d
      BY <1>1, <3>1 DEF FindPCs
    <3>3. i \in 1..d + 1 /\ stack'[t][i] = stack[t][i]
      BY <1>1, <1>3, <3>2
    <3>4. QED
      BY <1>3, <2>2, <3>1, <3>3 DEF Registering
  <2>3. QED
    BY <2>1, <2>2
<1>8. Owned'
  BY <1>0, <1>7, OwnedKept
<1>9. QED
  BY <1>6, <1>8

LEMMA ReturnReg ==
  ASSUME RegInv, Calm, NEW t \in Threads, stack[t] # <<>>, Return(t),
         Top(t).pc # "ready",
         Top(t).pc \in FindPCs =>
           Settled(Top(t).type) \/ Top(t).type \in Registering(t)
  PROVE  StacksSettled' /\ Owned'
<1> DEFINE d == Len(stack[t])
<1>0. TypeOK /\ StacksSettled /\ Owned
  BY DEF RegInv, Inv
<1>1. StacksSettled'
  BY <1>0, CalmKeeps, ReturnSettled
<1>2. /\ stack[t] \in Seq(Frame) /\ d \in Nat \ {0} /\ Top(t) = stack[t][d]
      /\ DOMAIN stack[t] = 1..d
  BY <1>0, TopIs
<1>3. /\ \A u \in Threads : u # t => stack'[u] = stack[u]
      /\ stack'[t] = SubSeq(stack[t], 1, d - 1)
  BY <1>0 DEF Return, Depth, TypeOK
<1>4. /\ DOMAIN stack'[t] = 1..d - 1
      /\ \A i \in 1..d - 1 : stack'[t][i] = stack[t][i]
  BY <1>2, <1>3
<1>5. \A u \in Threads : Registering(u) \subseteq Registering(u)'
  <2> SUFFICES ASSUME NEW u \in Threads, NEW x \in Registering(u)
               PROVE  x \in Registering(u)'
    OBVIOUS
  <2>1. PICK i \in DOMAIN stack[u] : stack[u][i].pc = "ready" /\ stack[u][i].type = x
    BY RegisteringIs
  <2>2. i \in DOMAIN stack'[u] /\ stack'[u][i] = stack[u][i]
    <3>1. CASE u # t
      BY <1>3, <3>1
    <3>2. CASE u = t
      <4>1. i \in 1..d /\ i # d
        BY <1>2, <2>1, <3>2
      <4>2. i \in 1..d - 1
        BY <1>2, <4>1
      <4>3. QED
        BY <1>4, <3>2, <4>2
    <3>3. QED
      BY <3>1, <3>2
  <2>3. QED
    BY <2>1, <2>2 DEF Registering
<1>6. QED
  BY <1>0, <1>1, <1>5, OwnedKept

LEMMA ThrowReg ==
  ASSUME RegInv, NEW t \in Threads, NEW reason, Throw(t, reason),
         types' = types, flags' = flags
  PROVE  StacksSettled' /\ Owned'
<1>0. TypeOK /\ StacksSettled /\ Owned
  BY DEF RegInv, Inv
<1>1. /\ stack' = [stack EXCEPT ![t] = <<>>]
      /\ failed' = failed \union Registering(t)
  BY DEF Throw
<1>2. Calm
  BY <1>1, QuietIsCalm
<1>3. \A u \in Threads : Registering(u) \subseteq Registering(u)' \union failed'
  <2> SUFFICES ASSUME NEW u \in Threads, u # t
               PROVE  Registering(u) \subseteq Registering(u)'
    BY <1>1
  <2>1. stack'[u] = stack[u]
    BY <1>0, <1>1 DEF TypeOK
  <2>2. QED
    BY <2>1 DEF Registering
<1>4. QED
  BY <1>0, <1>1, <1>2, <1>3, CalmKeeps, EmptySettled, OwnedKept

-----------------------------------------------------------------------------
(* What the top frame knows.                                               *)

LEMMA TopReg ==
  ASSUME RegInv, NEW t \in Threads, stack[t] # <<>>
  PROVE  /\ Top(t) \in Frame /\ Top(t).type \in Types
         /\ FrameSettled(Top(t))
         /\ Top(t).pc \in LockedPCs => Holds(t)
<1>1. /\ Depth(t) \in DOMAIN stack[t] /\ Top(t) = stack[t][Depth(t)]
      /\ Top(t) \in Frame
  BY TopIs DEF RegInv, Inv
<1>2. FrameSettled(Top(t))
  BY <1>1 DEF RegInv, StacksSettled
<1>3. FrameOK(Top(t))
  BY TopFrame DEF RegInv, Inv
<1>4. QED
  BY <1>1, <1>2, <1>3 DEF Frame, FrameOK, Holds

\* Whoever has the lock sees no registration but its own.
LEMMA MineOrSettled ==
  ASSUME RegInv, NEW t \in Threads, Holds(t), NEW x \in Types, Known(x)
  PROVE  Settled(x) \/ x \in Registering(t)
<1> SUFFICES ASSUME Pending(x), x \notin failed PROVE x \in Registering(t)
  BY DEF Settled
<1>1. PICK u \in Threads : x \in Registering(u)
  BY DEF RegInv, Owned
<1>2. PICK i \in DOMAIN stack[u] : stack[u][i].pc = "ready"
  BY <1>1, RegisteringIs
<1>3. FrameOK(stack[u][i])
  BY DEF RegInv, Inv, FramesOK
<1>4. Holds(u)
  BY <1>2, <1>3 DEF FrameOK, LockedPCs, Holds
<1>5. u = t
  BY <1>4 DEF RegInv, Inv, MutualExclusion
<1>6. QED
  BY <1>1, <1>5

-----------------------------------------------------------------------------
(* The actions.                                                            *)

LEMMA LockStepReg ==
  ASSUME RegInv, TypeOK', NEW t \in Threads, LockStep(t)
  PROVE  StacksSettled' /\ Owned'
<1>1. ASSUME stack[t] # <<>>, NEW pc \in LockedPCs, TakeLock(t, pc),
             pc \notin {"ready", "leave"},
             pc = "waited" => Top(t).pc = "waitlock",
             Top(t).pc \in LockPCs,
             Top(t).pc \in FindPCs => pc \in FindPCs
      PROVE  StacksSettled' /\ Owned'
  <2> DEFINE f == [Top(t) EXCEPT !.pc = pc, !.held = TRUE]
  <2>1. f.pc = pc /\ f.type = Top(t).type /\ Goto(t, f) /\ FrameSettled(Top(t))
    BY <1>1, TopReg DEF Frame, TakeLock
  <2>2. Calm
    BY <1>1, QuietIsCalm DEF TakeLock, metaVars, histVars
  <2> HIDE DEF f
  <2>3. FrameSettled(f)
    BY <1>1, <2>1 DEF FrameSettled, LockedPCs
  <2>4. Top(t).pc # "ready" /\ f.pc \notin OptionPCs \union {"optget"}
    BY <1>1, <2>1 DEF LockPCs, LockedPCs, OptionPCs
  <2>5. QED
    BY <1>1, <2>1, <2>2, <2>3, <2>4, MoveReg
<1>2. CASE WaitLock(t)
  BY <1>1, <1>2 DEF WaitLock, At, LockedPCs, LockPCs, FindPCs
<1>3. CASE Take(t)
  BY <1>1, <1>3 DEF Take, At, LockedPCs, LockPCs, FindPCs
<1>4. CASE RootLock(t)
  BY <1>1, <1>4 DEF RootLock, At, LockedPCs, LockPCs, FindPCs
<1>5. CASE SerLock(t)
  BY <1>1, <1>5 DEF SerLock, At, LockedPCs, LockPCs, FindPCs
<1>6. CASE FieldLock(t)
  BY <1>1, <1>6 DEF FieldLock, At, LockedPCs, LockPCs, FindPCs
<1>7. CASE AddLock(t)
  BY <1>1, <1>7 DEF AddLock, At, LockedPCs, LockPCs, FindPCs
<1>8. CASE TakeLockTimeout(t)
  BY <1>8, ThrowReg DEF TakeLockTimeout, metaVars
<1>9. QED
  BY <1>2, <1>3, <1>4, <1>5, <1>6, <1>7, <1>8 DEF LockStep

\* The steps of FindOrAddAuto that neither add nor finish a type.
LEMMA FindStepReg ==
  ASSUME RegInv, TypeOK', NEW t \in Threads,
         Look(t) \/ Waited(t) \/ Create(t) \/ Recheck(t) \/ Leave(t)
  PROVE  StacksSettled' /\ Owned'
<1>0. /\ stack[t] # <<>> /\ Top(t).type \in Types /\ FrameSettled(Top(t))
      /\ Top(t).pc \in LockedPCs => Holds(t)
      /\ types' = types /\ flags' = flags
  BY TopReg DEF Look, Waited, Create, Recheck, Leave, At, metaVars
<1>1. CASE Look(t)
  <2>1. Calm /\ Top(t).pc = "look"
    BY <1>1, QuietIsCalm DEF Look, At, metaVars, histVars
  <2>2. CASE Known(Top(t).type) /\ GotoPC(t, "waitlock")
    BY <1>0, <2>1, <2>2, PCReg DEF FindPCs, OptionPCs
  <2>3. CASE Known(Top(t).type) /\ ~Pending(Top(t).type) /\ Return(t)
    BY <1>0, <2>1, <2>3, ReturnReg DEF Settled
  <2>4. CASE GotoPC(t, "take")
    BY <1>0, <2>1, <2>4, PCReg DEF FindPCs, OptionPCs
  <2>5. QED
    BY <1>1, <2>2, <2>3, <2>4 DEF Look
<1>2. CASE Waited(t)
  <2>1. Calm /\ Top(t).pc = "waited" /\ Return(t)
    BY <1>2, QuietIsCalm DEF Waited, At, metaVars, histVars
  <2>2. Holds(t) /\ Known(Top(t).type)
    BY <1>0, <2>1 DEF FrameSettled, LockedPCs
  <2>3. QED
    BY <1>0, <2>1, <2>2, MineOrSettled, ReturnReg
<1>3. CASE Create(t)
  <2>1. CASE Throw(t, "model frozen")
    BY <1>0, <2>1, ThrowReg
  <2>2. CASE GotoPC(t, "recheck") /\ UNCHANGED failed
    BY <1>0, <1>3, <2>2, QuietIsCalm, PCReg DEF Create, At, FindPCs, OptionPCs
  <2>3. QED
    BY <1>3, <2>1, <2>2 DEF Create
<1>4. CASE Recheck(t)
  <2>0. Top(t).pc = "recheck"
    BY <1>4 DEF Recheck, At
  <2>1. CASE Known(Top(t).type) /\ Return(t) /\ UNCHANGED failed
    <3>1. Calm /\ Holds(t)
      BY <1>0, <2>0, <2>1, QuietIsCalm DEF LockedPCs
    <3>2. QED
      BY <1>0, <2>0, <2>1, <3>1, MineOrSettled, ReturnReg
  <2>2. CASE Throw(t, "model frozen")
    BY <1>0, <2>2, ThrowReg
  <2>3. CASE GotoPC(t, "add") /\ UNCHANGED failed
    BY <1>0, <2>0, <2>3, QuietIsCalm, PCReg DEF FindPCs, OptionPCs
  <2>4. QED
    BY <1>4, <2>1, <2>2, <2>3 DEF Recheck
<1>5. CASE Leave(t)
  <2>1. Calm /\ Top(t).pc = "leave" /\ Return(t)
    BY <1>5, QuietIsCalm DEF Leave, At, metaVars, histVars
  <2>2. Settled(Top(t).type)
    BY <1>0, <2>1 DEF FrameSettled
  <2>3. QED
    BY <1>0, <2>1, <2>2, ReturnReg
<1>6. QED
  BY <1>1, <1>2, <1>3, <1>4, <1>5

\* A type enters the list marked, and with its frame at "ready".
LEMMA AddTypeReg ==
  ASSUME RegInv, TypeOK', NEW t \in Threads, AddType(t)
  PROVE  StacksSettled' /\ Owned'
<1>0. TypeOK /\ StacksSettled /\ Owned
  BY DEF RegInv, Inv
<1>a. stack[t] # <<>> /\ Top(t).pc = "add" /\ failed' = failed
  BY DEF AddType, At, histVars
<1>b. PICK x \in Types : x = Top(t).type /\ ~Known(x)
  BY <1>a, TopFrame, TopReg DEF RegInv, Inv
<1>c. PICK f \in Frame : f = [Top(t) EXCEPT !.pc = "ready"]
  BY <1>a, TopReg DEF Frame, PC, LockedPCs
<1>d. PICK g \in Frame : g = NewFrame("base", x, NoType)
  BY DEF NewFrame, Frame, PC, OtherPCs
<1> DEFINE d == Len(stack[t])
           below == [stack[t] EXCEPT ![d] = f]
<1>1. /\ stack[t] # <<>> /\ Top(t).pc = "add" /\ types' = Append(types, x)
      /\ flags' = [flags EXCEPT ![x] = {"Pending"}] /\ failed' = failed
  BY <1>a, <1>b DEF AddType
<1>2. /\ Top(t) \in Frame /\ x \in Types /\ ~Known(x) /\ x = Top(t).type
  BY <1>a, <1>b, TopReg
<1>3. /\ stack[t] \in Seq(Frame) /\ d \in Nat \ {0} /\ Top(t) = stack[t][d]
      /\ DOMAIN stack[t] = 1..d
  BY <1>0, <1>1, TopIs
<1>4. /\ f \in Frame /\ f.pc = "ready" /\ f.type = x
      /\ g \in Frame /\ g.pc = "base"
  BY <1>2, <1>c, <1>d DEF NewFrame, Frame
<1>5. \A y \in Types : Known(y)' <=> Known(y) \/ y = x
  <2>1. types \in Seq(Types)
    BY <1>0 DEF TypeOK
  <2>2. /\ DOMAIN types' = 1..Len(types) + 1 /\ DOMAIN types = 1..Len(types)
        /\ types'[Len(types) + 1] = x /\ Len(types) \in Nat
        /\ \A i \in 1..Len(types) : types'[i] = types[i]
    BY <1>1, <1>2, <2>1
  <2>3. QED
    BY <2>2 DEF Known
<1>6. \A y \in Types : y # x => (Pending(y)' <=> Pending(y))
  BY <1>0, <1>1 DEF Pending, TypeOK
<1>7. Steady
  BY <1>1, <1>2, <1>5, <1>6 DEF Steady, Settled
<1>8. FrameSettled(f)' /\ FrameSettled(g)'
  BY <1>2, <1>4, <1>5 DEF FrameSettled
<1>9. Call(t, f, g)
  BY <1>b, <1>c, <1>d DEF AddType
<1>10. StacksSettled'
  <2>1. /\ f.pc \in FindPCs \ (OptionPCs \union {"optget"}) /\ f.type = Top(t).type
        /\ g.pc \notin OptionPCs \union {"optget"}
        /\ Top(t).pc \notin OptionPCs
    BY <1>1, <1>2, <1>4 DEF FindPCs, OptionPCs
  <2>2. f.pc \notin {"optget", "optread", "optwrite", "optcheck"}
    BY <1>4
  <2>3. QED
    BY <1>0, <1>1, <1>4, <1>7, <1>8, <1>9, <2>1, <2>2, CallSettled
<1>11. below \in Seq(Frame) /\ Len(below) = d
  BY <1>3, <1>4
<1>12. /\ \A u \in Threads : u # t => stack'[u] = stack[u]
       /\ stack'[t] = Append(below, g)
  BY <1>0, <1>9 DEF Call, Depth, TypeOK
<1>13. /\ DOMAIN stack'[t] = 1..d + 1 /\ stack'[t][d] = f /\ d \in 1..d + 1
       /\ \A i \in 1..d : i # d => i \in 1..d + 1 /\ stack'[t][i] = stack[t][i]
  BY <1>3, <1>4, <1>11, <1>12
<1>14. x \in Registering(t)'
  BY <1>4, <1>13 DEF Registering
<1>15. \A u \in Threads : Registering(u) \subseteq Registering(u)'
  <2> SUFFICES ASSUME NEW i \in DOMAIN stack[t], stack[t][i].pc = "ready"
               PROVE  i \in DOMAIN stack'[t] /\ stack'[t][i] = stack[t][i]
    BY <1>12 DEF Registering
  <2>1. i \in 1..d /\ i # d
    BY <1>1, <1>3
  <2>2. QED
    BY <1>13, <2>1
<1>16. Owned'
  <2> SUFFICES ASSUME NEW y \in Types, Known(y)', Pending(y)', y \notin failed'
               PROVE  \E u \in Threads : y \in Registering(u)'
    BY DEF Owned
  <2>1. CASE y = x
    BY <1>14, <2>1
  <2>2. CASE y # x
    <3>1. PICK u \in Threads : y \in Registering(u)
      BY <1>0, <1>1, <1>5, <1>6, <2>2 DEF Owned
    <3>2. QED
      BY <1>15, <3>1
  <2>3. QED
    BY <2>1, <2>2
<1>17. QED
  BY <1>10, <1>16

\* The mark goes before the frame does.
LEMMA ReadyReg ==
  ASSUME RegInv, TypeOK', NEW t \in Threads, Ready(t)
  PROVE  StacksSettled' /\ Owned'
<1>0. TypeOK /\ StacksSettled /\ Owned
  BY DEF RegInv, Inv
<1>a. stack[t] # <<>> /\ Top(t).pc = "ready" /\ failed' = failed /\ types' = types
  BY DEF Ready, At, histVars
<1>b. PICK x \in Types : x = Top(t).type /\ Known(x)
  BY <1>a, TopReg DEF FrameSettled
<1>c. PICK f \in Frame : f = [Top(t) EXCEPT !.pc = "leave"]
  BY <1>a, TopReg DEF Frame, PC, LockedPCs
<1> DEFINE d == Len(stack[t])
<1>1. /\ stack[t] # <<>> /\ Top(t).pc = "ready" /\ types' = types
      /\ flags' = [flags EXCEPT ![x] = @ \ {"Pending"}] /\ failed' = failed
  BY <1>a, <1>b DEF Ready
<1>2. Top(t) \in Frame /\ x \in Types /\ Known(x) /\ x = Top(t).type
  BY <1>a, <1>b, TopReg
<1>3. /\ stack[t] \in Seq(Frame) /\ d \in 1..d /\ Top(t) = stack[t][d]
      /\ DOMAIN stack[t] = 1..d
  BY <1>0, <1>1, TopIs
<1>4. f \in Frame /\ f.pc = "leave" /\ f.type = x
  BY <1>2, <1>c DEF Frame
<1>5. ~Pending(x)' /\ \A y \in Types : Pending(y)' => Pending(y)
  BY <1>0, <1>1, <1>2 DEF Pending, TypeOK
<1>6. Calm
  BY <1>1, <1>5 DEF Calm
<1>7. FrameSettled(f)'
  BY <1>1, <1>2, <1>4, <1>5 DEF FrameSettled, Settled, Known
<1>8. Goto(t, f)
  BY <1>c DEF Ready, GotoPC
<1>9. StacksSettled'
  BY <1>0, <1>1, <1>2, <1>4, <1>6, <1>7, <1>8, CalmKeeps, GotoSettled
     DEF FindPCs, OptionPCs
<1>10. /\ \A u \in Threads : u # t => stack'[u] = stack[u]
       /\ stack'[t] = [stack[t] EXCEPT ![d] = f]
  BY <1>0, <1>8 DEF Goto, Depth, TypeOK
<1>11. /\ DOMAIN stack'[t] = 1..d
       /\ \A i \in 1..d : i # d => stack'[t][i] = stack[t][i]
  BY <1>3, <1>10
<1>12. Owned'
  <2> SUFFICES ASSUME NEW y \in Types, Known(y)', Pending(y)', y \notin failed'
               PROVE  \E u \in Threads : y \in Registering(u)'
    BY DEF Owned
  <2>1. y # x /\ Pending(y) /\ Known(y)
    BY <1>1, <1>5 DEF Known
  <2>2. PICK u \in Threads : y \in Registering(u)
    BY <1>0, <1>1, <2>1 DEF Owned
  <2>3. PICK i \in DOMAIN stack[u] : stack[u][i].pc = "ready" /\ stack[u][i].type = y
    BY <2>2, RegisteringIs
  <2>4. i \in DOMAIN stack'[u] /\ stack'[u][i] = stack[u][i]
    BY <1>2, <1>3, <1>10, <1>11, <2>1, <2>3
  <2>5. QED
    BY <2>3, <2>4 DEF Registering
<1>13. QED
  BY <1>9, <1>12

LEMMA ApplyStepReg ==
  ASSUME RegInv, TypeOK', NEW t \in Threads,
         ApplyBase(t) \/ ApplyInclude(t) \/ ApplyMembers(t) \/ ApplyThrows(t)
  PROVE  StacksSettled' /\ Owned'
<1>0. /\ stack[t] # <<>> /\ Top(t) \in Frame
      /\ types' = types /\ flags' = flags
  BY TopReg DEF ApplyBase, ApplyInclude, ApplyMembers, ApplyThrows, At, metaVars
<1>1. CASE ApplyBase(t)
  <2> DEFINE f == [Top(t) EXCEPT !.pc = "include", !.todo = ValidIncludes(Top(t).type)]
             g == NewFrame("look", BaseOf[Top(t).type], NoType)
  <2>1. Top(t).pc = "base" /\ Calm
    BY <1>0, <1>1, QuietIsCalm DEF ApplyBase, At, histVars
  <2>2. f.pc = "include" /\ g.pc = "look"
    BY <1>0 DEF Frame, NewFrame
  <2>3. Goto(t, f) \/ Call(t, f, g)
    BY <1>1 DEF ApplyBase
  <2> HIDE DEF f, g
  <2>4. FrameSettled(f)
    BY <2>2 DEF FrameSettled
  <2>5. CASE Goto(t, f)
    BY <1>0, <2>1, <2>2, <2>4, <2>5, MoveReg DEF FindPCs, OptionPCs
  <2>6. CASE Call(t, f, g)
    BY <1>0, <2>1, <2>2, <2>6, CallReg DEF FindPCs, OptionPCs
  <2>7. QED
    BY <2>3, <2>5, <2>6
<1>2. CASE ApplyInclude(t)
  <2>1. Top(t).pc = "include" /\ Calm
    BY <1>0, <1>2, QuietIsCalm DEF ApplyInclude, At, histVars
  <2>2. PICK e \in Top(t).todo :
          Call(t, [Top(t) EXCEPT !.todo = @ \ {e}],
                  NewFrame("subfind", Top(t).type, e))
    BY <1>2 DEF ApplyInclude
  <2> DEFINE f == [Top(t) EXCEPT !.todo = @ \ {e}]
             g == NewFrame("subfind", Top(t).type, e)
  <2>3. f.pc = "include" /\ g.pc = "subfind"
    BY <1>0, <2>1 DEF Frame, NewFrame
  <2>4. Call(t, f, g)
    BY <2>2
  <2> HIDE DEF f, g
  <2>5. QED
    BY <1>0, <2>1, <2>3, <2>4, CallReg DEF FindPCs, OptionPCs
<1>3. CASE ApplyMembers(t)
  <2>1. CASE Throw(t, "type frozen")
    BY <1>0, <2>1, ThrowReg
  <2>2. CASE Return(t) /\ UNCHANGED failed
    BY <1>0, <1>3, <2>2, QuietIsCalm, ReturnReg DEF ApplyMembers, At, FindPCs
  <2>3. QED
    BY <1>3, <2>1, <2>2 DEF ApplyMembers
<1>4. CASE ApplyThrows(t)
  BY <1>0, <1>4, ThrowReg DEF ApplyThrows
<1>5. QED
  BY <1>1, <1>2, <1>3, <1>4

LEMMA SubStepReg ==
  ASSUME RegInv, TypeOK', NEW t \in Threads,
         SubFind(t) \/ SubCheck(t) \/ Link(t) \/ SubAdd(t)
  PROVE  StacksSettled' /\ Owned'
<1>0. /\ stack[t] # <<>> /\ Top(t) \in Frame
      /\ types' = types /\ flags' = flags
  BY TopReg DEF SubFind, SubCheck, Link, SubAdd, At, metaVars
<1>1. CASE SubFind(t)
  <2> DEFINE f == [Top(t) EXCEPT !.pc = "subcheck"]
             g == NewFrame("look", Top(t).other, NoType)
  <2>1. Top(t).pc = "subfind" /\ Calm /\ Call(t, f, g)
    BY <1>0, <1>1, QuietIsCalm DEF SubFind, At, histVars
  <2>2. f.pc = "subcheck" /\ g.pc = "look"
    BY <1>0 DEF Frame, NewFrame
  <2> HIDE DEF f, g
  <2>3. QED
    BY <1>0, <2>1, <2>2, CallReg DEF FindPCs, OptionPCs
<1>2. CASE SubCheck(t)
  <2>1. CASE Throw(t, "type frozen")
    BY <1>0, <2>1, ThrowReg
  <2>2. CASE GotoPC(t, "link") /\ UNCHANGED failed
    BY <1>0, <1>2, <2>2, QuietIsCalm, PCReg DEF SubCheck, At, FindPCs, OptionPCs
  <2>3. QED
    BY <1>2, <2>1, <2>2 DEF SubCheck
<1>3. CASE Link(t)
  <2>1. CASE Throw(t, "bad hierarchy")
    BY <1>0, <2>1, ThrowReg
  <2>2. CASE GotoPC(t, "subadd") /\ UNCHANGED failed
    BY <1>0, <1>3, <2>2, QuietIsCalm, PCReg DEF Link, At, FindPCs, OptionPCs
  <2>3. QED
    BY <1>3, <2>1, <2>2 DEF Link
<1>4. CASE SubAdd(t)
  BY <1>0, <1>4, QuietIsCalm, ReturnReg DEF SubAdd, At, FindPCs, histVars
<1>5. QED
  BY <1>1, <1>2, <1>3, <1>4

LEMMA RootStepReg ==
  ASSUME RegInv, TypeOK', NEW t \in Threads,
         GetKey(t) \/ Climb(t) \/ RootRead(t) \/ Rekey(t) \/ Answer(t)
  PROVE  StacksSettled' /\ Owned'
<1>0. /\ stack[t] # <<>> /\ Top(t) \in Frame /\ Calm
      /\ types' = types /\ flags' = flags
  BY TopReg, QuietIsCalm
     DEF GetKey, Climb, RootRead, Rekey, Answer, At, metaVars, histVars
<1>1. ASSUME NEW f, Goto(t, f), f.pc = Top(t).pc \/ f.pc = "rekey",
             Top(t).pc \in {"climb", "rootread"}
      PROVE  StacksSettled' /\ Owned'
  <2>1. FrameSettled(f) /\ f.pc \notin OptionPCs \union {"optget"}
    BY <1>1 DEF FrameSettled, OptionPCs
  <2>2. QED
    BY <1>0, <1>1, <2>1, MoveReg DEF FindPCs
<1>2. CASE GetKey(t)
  <2> DEFINE f == [Top(t) EXCEPT !.pc = "climb", !.other = Top(t).type]
             g == NewFrame("look", Top(t).type, NoType)
  <2>1. Top(t).pc = "getkey" /\ Call(t, f, g)
    BY <1>2 DEF GetKey, At
  <2>2. f.pc = "climb" /\ g.pc = "look"
    BY <1>0 DEF Frame, NewFrame
  <2> HIDE DEF f, g
  <2>3. QED
    BY <1>0, <2>1, <2>2, CallReg DEF FindPCs, OptionPCs
<1>3. CASE Climb(t)
  <2>0. Top(t).pc = "climb"
    BY <1>3 DEF Climb, At
  <2>1. CASE GotoPC(t, "rootlock")
    BY <1>0, <2>0, <2>1, PCReg DEF FindPCs, OptionPCs
  <2>2. CASE GotoPC(t, "rekey")
    BY <1>0, <2>0, <2>2, PCReg DEF FindPCs, OptionPCs
  <2>3. CASE Goto(t, [Top(t) EXCEPT !.other = baseType[Top(t).other]])
    <3> DEFINE f == [Top(t) EXCEPT !.other = baseType[Top(t).other]]
    <3>1. f.pc = Top(t).pc /\ Goto(t, f)
      BY <1>0, <2>3 DEF Frame
    <3> HIDE DEF f
    <3>2. QED
      BY <1>1, <2>0, <3>1
  <2>4. QED
    BY <1>3, <2>1, <2>2, <2>3 DEF Climb
<1>4. CASE RootRead(t)
  <2>0. Top(t).pc = "rootread"
    BY <1>4 DEF RootRead, At
  <2>1. CASE Goto(t, [Top(t) EXCEPT !.other = baseType[Top(t).other]])
    <3> DEFINE f == [Top(t) EXCEPT !.other = baseType[Top(t).other]]
    <3>1. f.pc = Top(t).pc /\ Goto(t, f)
      BY <1>0, <2>1 DEF Frame
    <3> HIDE DEF f
    <3>2. QED
      BY <1>1, <2>0, <3>1
  <2>2. CASE Goto(t, [Top(t) EXCEPT !.pc = "rekey", !.held = FALSE])
    <3> DEFINE f == [Top(t) EXCEPT !.pc = "rekey", !.held = FALSE]
    <3>1. f.pc = "rekey" /\ Goto(t, f)
      BY <1>0, <2>2 DEF Frame
    <3> HIDE DEF f
    <3>2. QED
      BY <1>1, <2>0, <3>1
  <2>3. QED
    BY <1>4, <2>1, <2>2 DEF RootRead
<1>5. CASE Rekey(t)
  <2> DEFINE f == [Top(t) EXCEPT !.pc = Top(t).next, !.type = Top(t).other]
             g == NewFrame("look", Top(t).other, NoType)
  <2>1. Top(t).pc = "rekey" /\ Call(t, f, g)
    BY <1>5 DEF Rekey, At
  <2>2. f.pc \in {"peek", "answer"} /\ g.pc = "look"
    BY <1>0 DEF Frame, NewFrame
  <2> HIDE DEF f, g
  <2>3. QED
    BY <1>0, <2>1, <2>2, CallReg DEF FindPCs, OptionPCs
<1>6. CASE Answer(t)
  BY <1>0, <1>6, ReturnReg DEF Answer, At, FindPCs
<1>7. QED
  BY <1>2, <1>3, <1>4, <1>5, <1>6

\* Freezing a type does not mark it.
LEMMA BuildStepReg ==
  ASSUME RegInv, TypeOK', NEW t \in Threads,
         Peek(t) \/ Build(t) \/ BuildMember(t) \/ StoreSerializer(t) \/ Built(t)
  PROVE  StacksSettled' /\ Owned'
<1>0. /\ stack[t] # <<>> /\ Top(t) \in Frame /\ Top(t).type \in Types
      /\ types' = types /\ failed' = failed
  BY TopReg DEF Peek, Build, BuildMember, StoreSerializer, Built, At, histVars
<1>1. CASE Peek(t)
  <2>1. Top(t).pc = "peek" /\ Calm
    BY <1>0, <1>1, QuietIsCalm DEF Peek, At, metaVars
  <2>2. CASE Return(t)
    BY <1>0, <2>1, <2>2, ReturnReg DEF FindPCs
  <2>3. CASE GotoPC(t, "serlock")
    BY <1>0, <2>1, <2>3, PCReg DEF FindPCs, OptionPCs
  <2>4. QED
    BY <1>1, <2>2, <2>3 DEF Peek
<1>2. CASE Build(t)
  <2>0. Top(t).pc = "build"
    BY <1>2 DEF Build, At
  <2>1. CASE Return(t) /\ UNCHANGED flags
    BY <1>0, <2>0, <2>1, QuietIsCalm, ReturnReg DEF FindPCs
  <2>2. CASE /\ flags' = [flags EXCEPT ![Top(t).type] = @ \union {"Frozen"}]
             /\ Goto(t, [Top(t) EXCEPT !.pc = "members",
                                       !.todo = Members[Top(t).type],
                                       !.subs = subTypes[Top(t).type]])
    <3> DEFINE f == [Top(t) EXCEPT !.pc = "members",
                                   !.todo = Members[Top(t).type],
                                   !.subs = subTypes[Top(t).type]]
    <3>1. \A x \in Types : Pending(x)' => Pending(x)
      BY <1>0, <2>2 DEF Pending, RegInv, Inv, TypeOK
    <3>2. f.pc = "members" /\ Goto(t, f)
      BY <1>0, <2>2 DEF Frame
    <3> HIDE DEF f
    <3>3. Calm /\ FrameSettled(f)
      BY <1>0, <3>1, <3>2 DEF Calm, FrameSettled
    <3>4. QED
      BY <1>0, <2>0, <3>2, <3>3, MoveReg DEF FindPCs, OptionPCs
  <2>3. QED
    BY <1>2, <2>1, <2>2 DEF Build
<1>3. CASE BuildMember(t)
  <2>1. Top(t).pc = "members" /\ Calm
    BY <1>0, <1>3, QuietIsCalm DEF BuildMember, At, metaVars
  <2>2. PICK y \in Top(t).todo :
          Call(t, [Top(t) EXCEPT !.todo = @ \ {y}],
                  [NewFrame("getkey", y, NoType) EXCEPT !.next = "answer"])
    BY <1>3 DEF BuildMember
  <2> DEFINE f == [Top(t) EXCEPT !.todo = @ \ {y}]
             g == [NewFrame("getkey", y, NoType) EXCEPT !.next = "answer"]
  <2>3. f.pc = "members" /\ g.pc = "getkey" /\ Call(t, f, g)
    BY <1>0, <2>1, <2>2 DEF Frame, NewFrame
  <2> HIDE DEF f, g
  <2>4. QED
    BY <1>0, <2>1, <2>3, CallReg DEF FindPCs, OptionPCs
<1>4. CASE StoreSerializer(t)
  BY <1>0, <1>4, QuietIsCalm, PCReg DEF StoreSerializer, At, FindPCs, OptionPCs
<1>5. CASE Built(t)
  BY <1>0, <1>5, QuietIsCalm, ReturnReg DEF Built, At, FindPCs, metaVars
<1>6. QED
  BY <1>1, <1>2, <1>3, <1>4, <1>5

\* A setter that writes the flags back cannot mark the type again: it read them
\* when model[type] had returned.
LEMMA OptionReg ==
  ASSUME RegInv, TypeOK', NEW t \in Threads,
         OptCheck(t) \/ OptRead(t) \/ OptWrite(t)
  PROVE  StacksSettled' /\ Owned'
<1>0. /\ stack[t] # <<>> /\ Top(t) \in Frame /\ Top(t).type \in Types
      /\ FrameSettled(Top(t)) /\ types' = types
  BY TopReg DEF OptCheck, OptRead, OptWrite, At
<1>1. CASE OptCheck(t)
  <2>1. CASE Throw(t, "type frozen")
    BY <1>0, <1>1, <2>1, ThrowReg DEF OptCheck, metaVars
  <2>2. CASE GotoPC(t, "optread") /\ UNCHANGED failed
    <3>1. Top(t).pc = "optcheck" /\ Calm
      BY <1>1, <2>2, QuietIsCalm DEF OptCheck, At, metaVars
    <3>2. QED
      BY <1>0, <2>2, <3>1, PCReg DEF FindPCs, OptionPCs
  <2>3. QED
    BY <1>1, <2>1, <2>2 DEF OptCheck
<1>2. CASE OptRead(t)
  <2> DEFINE f == [Top(t) EXCEPT !.pc = "optwrite", !.saved = flags[Top(t).type]]
  <2>1. Top(t).pc = "optread" /\ Calm
    BY <1>2, QuietIsCalm DEF OptRead, At, metaVars, histVars
  <2>2. /\ f.pc = "optwrite" /\ f.type = Top(t).type
        /\ f.saved = flags[Top(t).type] /\ Goto(t, f)
    BY <1>0, <1>2 DEF OptRead, Frame
  <2> HIDE DEF f
  <2>3. /\ Depth(t) \in DOMAIN stack[t] /\ Top(t) = stack[t][Depth(t)]
        /\ Depth(t) = Len(stack[t]) /\ Configuring(stack[t])
    BY <1>0, TopIs DEF RegInv, Inv, StacksSettled
  <2>4. Depth(t) = 1
    BY <2>1, <2>3 DEF Configuring, OptionPCs
  <2>5. Settled(Top(t).type)
    BY <1>0, <2>1, <2>3, <2>4 DEF Configuring, OptionPCs
  <2>6. FrameSettled(f)
    BY <2>2, <2>5 DEF FrameSettled, Settled, Pending
  <2>7. QED
    BY <1>0, <2>1, <2>2, <2>6, MoveReg DEF FindPCs, OptionPCs
<1>3. CASE OptWrite(t)
  <2>1. /\ Top(t).pc = "optwrite" /\ Return(t) /\ failed' = failed
        /\ flags' = [flags EXCEPT ![Top(t).type] = Top(t).saved \union {"Option"}]
    BY <1>3 DEF OptWrite, At, histVars
  <2>2. \A x \in Types : Pending(x)' => Pending(x) \/ x \in failed
    BY <1>0, <2>1 DEF Pending, FrameSettled, RegInv, Inv, TypeOK
  <2>3. Calm
    BY <1>0, <2>1, <2>2 DEF Calm
  <2>4. QED
    BY <1>0, <2>1, <2>3, ReturnReg DEF FindPCs
<1>4. QED
  BY <1>1, <1>2, <1>3

LEMMA ConfigStepReg ==
  ASSUME RegInv, TypeOK', NEW t \in Threads, ConfigStep(t)
  PROVE  StacksSettled' /\ Owned'
<1>0. stack[t] # <<>> /\ Top(t) \in Frame
  BY TopReg DEF ConfigStep, ModelGet, FieldAdd, OptCheck, OptRead, OptWrite,
                AddFind, AddCreate, AddCheck, At
<1>1. CASE ModelGet(t)
  <2>1. PICK pc \in {"typeget", "fieldget", "optget", "compileget"} :
          /\ Top(t).pc = pc
          /\ Call(t, [Top(t) EXCEPT !.pc = CASE pc = "typeget" -> "subfind"
                                             [] pc = "fieldget" -> "fieldlock"
                                             [] pc = "optget" -> "optcheck"
                                             [] pc = "compileget" -> "peek"],
                     NewFrame("look", Top(t).type, NoType))
    BY <1>1 DEF ModelGet
  <2> DEFINE next == CASE pc = "typeget" -> "subfind"
                       [] pc = "fieldget" -> "fieldlock"
                       [] pc = "optget" -> "optcheck"
                       [] pc = "compileget" -> "peek"
             f == [Top(t) EXCEPT !.pc = next]
             g == NewFrame("look", Top(t).type, NoType)
  <2>2. /\ next \in {"subfind", "fieldlock", "optcheck", "peek"}
        /\ next = "optcheck" => pc = "optget"
    OBVIOUS
  <2>3. Call(t, f, g) /\ Calm
    BY <1>1, <2>1, QuietIsCalm DEF ModelGet, metaVars, histVars
  <2> HIDE DEF next
  <2>4. f.pc = next /\ f.type = Top(t).type /\ g.pc = "look" /\ g.type = Top(t).type
    BY <1>0 DEF Frame, NewFrame
  <2> HIDE DEF f, g
  <2>5. QED
    BY <1>0, <2>1, <2>2, <2>3, <2>4, CallReg DEF FindPCs, OptionPCs
<1>2. CASE FieldAdd(t)
  <2>1. CASE Throw(t, "type frozen")
    BY <1>2, <2>1, ThrowReg DEF FieldAdd
  <2>2. CASE Return(t) /\ UNCHANGED failed
    BY <1>0, <1>2, <2>2, QuietIsCalm, ReturnReg DEF FieldAdd, At, FindPCs
  <2>3. QED
    BY <1>2, <2>1, <2>2 DEF FieldAdd
<1>3. CASE OptCheck(t) \/ OptRead(t) \/ OptWrite(t)
  BY <1>3, OptionReg
<1>4. CASE AddFind(t)
  <2>1. Top(t).pc = "addfind" /\ Calm
    BY <1>4, QuietIsCalm DEF AddFind, At, metaVars, histVars
  <2>2. CASE Known(Top(t).type) /\ GotoPC(t, "waitlock")
    BY <1>0, <2>1, <2>2, PCReg DEF FindPCs, OptionPCs
  <2>3. CASE Return(t)
    BY <1>0, <2>1, <2>3, ReturnReg DEF FindPCs
  <2>4. CASE GotoPC(t, "addcreate")
    BY <1>0, <2>1, <2>4, PCReg DEF FindPCs, OptionPCs
  <2>5. QED
    BY <1>4, <2>2, <2>3, <2>4 DEF AddFind
<1>5. CASE AddCreate(t)
  <2>1. CASE Throw(t, "model frozen")
    BY <1>5, <2>1, ThrowReg DEF AddCreate, metaVars
  <2>2. CASE GotoPC(t, "addlock") /\ UNCHANGED failed
    BY <1>0, <1>5, <2>2, QuietIsCalm, PCReg
       DEF AddCreate, At, FindPCs, OptionPCs, metaVars
  <2>3. QED
    BY <1>5, <2>1, <2>2 DEF AddCreate
<1>6. CASE AddCheck(t)
  <2>1. CASE Throw(t, "duplicate type") \/ Throw(t, "model frozen")
    BY <1>6, <2>1, ThrowReg DEF AddCheck, metaVars
  <2>2. CASE GotoPC(t, "add") /\ UNCHANGED failed
    BY <1>0, <1>6, <2>2, QuietIsCalm, PCReg
       DEF AddCheck, At, FindPCs, OptionPCs, metaVars
  <2>3. QED
    BY <1>6, <2>1, <2>2 DEF AddCheck
<1>7. QED
  BY <1>1, <1>2, <1>3, <1>4, <1>5, <1>6 DEF ConfigStep

\* A call starts with nothing to register.
LEMMA StartReg ==
  ASSUME RegInv, NEW t \in Threads, Start(t)
  PROVE  StacksSettled' /\ Owned'
<1>0. /\ TypeOK /\ StacksSettled /\ Owned
  BY DEF RegInv, Inv
<1>1. ASSUME NEW op, NEW pc, NEW x, NEW y, NEW f,
             f = NewFrame(pc, x, y), Begin(t, op, pc, x, y),
             f.pc \notin OptionPCs \union {"waitlock", "waited", "ready", "leave"}
      PROVE  StacksSettled' /\ Owned'
  <2>1. /\ stack[t] = <<>> /\ stack' = [stack EXCEPT ![t] = <<f>>] /\ Calm
    BY <1>1, QuietIsCalm DEF Begin, metaVars, histVars
  <2>2. StacksSettled'
    BY <1>0, <1>1, <2>1, CalmKeeps, BeginSettled
  <2>3. Registering(t) = {}
    BY <2>1 DEF Registering
  <2>4. \A u \in Threads : u # t => stack'[u] = stack[u]
    BY <1>0, <2>1 DEF TypeOK
  <2>5. \A u \in Threads : Registering(u) \subseteq Registering(u)'
    BY <2>3, <2>4 DEF Registering
  <2>6. QED
    BY <1>0, <2>1, <2>2, <2>5, OwnedKept
<1>2. \A pc \in {"getkey", "addfind", "fieldget", "optget", "compileget", "typeget",
                   "peek"} :
        \A x, y : NewFrame(pc, x, y).pc
                    \notin OptionPCs \union {"waitlock", "waited", "ready", "leave"}
  BY DEF NewFrame, OptionPCs
<1>3. CASE Use(t)
  BY <1>1, <1>2, <1>3 DEF Use
<1>4. CASE Compile(t) \/ CompileListed(t)
  BY <1>1, <1>2, <1>4 DEF Compile, CompileListed
<1>5. CASE Add(t)
  BY <1>1, <1>2, <1>5 DEF Add
<1>6. CASE AddField(t)
  BY <1>1, <1>2, <1>6 DEF AddField
<1>7. CASE Configure(t)
  BY <1>1, <1>2, <1>7 DEF Configure
<1>8. CASE AddSubType(t)
  BY <1>1, <1>2, <1>8 DEF AddSubType
<1>9. CASE Freeze(t)
  <2>1. stack' = stack /\ types' = types /\ flags' = flags /\ failed' = failed
    BY <1>9 DEF Freeze, metaVars, histVars
  <2>2. QED
    BY <1>0, <2>1
       DEF StacksSettled, Owned, FrameSettled, Configuring, Settled, Known,
           Pending, Registering
<1>10. QED
  BY <1>3, <1>4, <1>5, <1>6, <1>7, <1>8, <1>9 DEF Start

LEMMA InitReg == Init => RegInv
<1> SUFFICES ASSUME Init PROVE RegInv
  OBVIOUS
<1>0. DOMAIN <<>> = {}
  OBVIOUS
<1>1. \A t \in Threads : stack[t] = <<>>
  BY DEF Init
<1>2. StacksSettled
  BY <1>0, <1>1 DEF StacksSettled, Configuring
<1>3. Owned
  BY DEF Init, Owned, Known
<1>4. QED
  BY <1>2, <1>3, InitInv DEF RegInv

LEMMA NextReg == RegInv /\ [Next]_vars => RegInv'
<1> SUFFICES ASSUME RegInv, [Next]_vars PROVE RegInv'
  OBVIOUS
<1>1. Inv' /\ TypeOK'
  BY NextInv DEF RegInv, Inv
<1>2. ASSUME NEW t \in Threads, Step(t)
      PROVE  StacksSettled' /\ Owned'
  <2>1. CASE LockStep(t)
    BY <1>1, <2>1, LockStepReg
  <2>2. CASE RegisterStep(t)
    BY <1>1, <2>2, FindStepReg, AddTypeReg, ReadyReg, ApplyStepReg, SubStepReg
       DEF RegisterStep
  <2>3. CASE UseStep(t)
    BY <1>1, <2>3, RootStepReg, BuildStepReg DEF UseStep
  <2>4. CASE ConfigStep(t)
    BY <1>1, <2>4, ConfigStepReg
  <2>5. QED
    BY <1>2, <2>1, <2>2, <2>3, <2>4 DEF Step
<1>3. ASSUME UNCHANGED vars
      PROVE  StacksSettled' /\ Owned'
  <2>1. stack' = stack /\ types' = types /\ flags' = flags /\ failed' = failed
    BY <1>3 DEF vars, metaVars, histVars
  <2>2. QED
    BY <2>1 DEF RegInv, StacksSettled, Owned, FrameSettled, Configuring,
                Settled, Known, Pending, Registering
<1>4. StacksSettled' /\ Owned'
  BY <1>2, <1>3, StartReg DEF Next, Done
<1>5. QED
  BY <1>1, <1>4 DEF RegInv

-----------------------------------------------------------------------------
(* What it adds up to.                                                     *)

LEMMA RegInvHolds == Spec => []RegInv
<1>1. Init => RegInv
  BY InitReg
<1>2. RegInv /\ [Next]_vars => RegInv'
  BY NextReg
<1>3. QED
  BY <1>1, <1>2, PTL DEF Spec

\* To wait for the lock is to wait for a type that is Pending (WaitOnLock): the
\* thread that added it has the lock until the mark is gone, whatever nests,
\* times out or throws meanwhile; only a type whose registration failed stays
\* marked with nobody working on it.
THEOREM PendingHasOwner == Spec => []PendingIsOwned
<1>1. RegInv => PendingIsOwned
  <2> SUFFICES ASSUME RegInv, NEW x \in Types, Known(x), Pending(x), x \notin failed
               PROVE  \E t \in Threads : Holds(t) /\ x \in Registering(t)
    BY DEF PendingIsOwned
  <2>1. PICK t \in Threads : x \in Registering(t)
    BY DEF RegInv, Owned
  <2>2. PICK i \in DOMAIN stack[t] : stack[t][i].pc = "ready"
    BY <2>1, RegisteringIs
  <2>3. FrameOK(stack[t][i])
    BY DEF RegInv, Inv, FramesOK
  <2>4. Holds(t)
    BY <2>2, <2>3 DEF FrameOK, LockedPCs, Holds
  <2>5. QED
    BY <2>1, <2>4
<1>2. QED
  BY <1>1, RegInvHolds, PTL

-----------------------------------------------------------------------------
(* Frozen types and current serializers.                                   *)

Undisturbed == "AddSubType" \notin Ops /\ "Configure" \notin Ops

\* The types in the list.
Listed == {x \in Types : Known(x)}

\* What only an application's own calls go through; the frames of
\* ApplyDefaultBehaviour and of AddSubType; those past its check.
NeverPCs == OptionPCs \union {"optget", "typeget"}
ConfigPCs == {"base", "include", "subfind", "subcheck", "link", "subadd"}
Linking == {"link", "subadd"}

\* What a frame relies on.
FrameFixed(f) ==
  /\ f.pc \in {"serlock", "build"} => Known(f.type)
  /\ f.pc = "members" => Frozen(f.type) /\ f.subs = subTypes[f.type]
  /\ f.pc \in Linking => ~Frozen(f.type)
  /\ f.pc = "link" => ~Frozen(f.other)

\* The Serializer getter runs on a type that is in the list, or waits for the
\* call that finds it; ApplyDefaultBehaviour and what it calls run above a frame
\* that has the lock.
Place(s, i, listed) ==
  /\ s[i].pc \notin NeverPCs
  /\ s[i].pc = "peek" => \/ i = Len(s) /\ s[i].type \in listed
                         \/ /\ i < Len(s) /\ s[i + 1].pc \in FindPCs
                            /\ s[i + 1].type = s[i].type
  /\ s[i].pc \in ConfigPCs => \E j \in 1 .. i - 1 : s[j].held
  /\ s[i].pc \in Linking => i = Len(s)

Shape(s, listed) == \A i \in 1 .. Len(s) : Place(s, i, listed)

StacksFixed ==
  \A t \in Threads : /\ Shape(stack[t], Listed)
                     /\ \A i \in DOMAIN stack[t] : FrameFixed(stack[t][i])

DataFixed == /\ \A x \in Types : Frozen(x) => Known(x)
             /\ SerializerIsFrozen /\ SerializerIsCurrent

FixInv == RegInv /\ StacksFixed /\ DataFixed

-----------------------------------------------------------------------------
(* Steps that freeze no type and leave the frozen ones alone.              *)

Kept ==
  \A x \in Types :
    /\ Known(x) => Known(x)'
    /\ Frozen(x)' <=> Frozen(x)
    /\ Frozen(x) => /\ fields'[x] = fields[x]
                    /\ subTypes'[x] = subTypes[x]
                    /\ baseType'[x] = baseType[x]

LEMMA QuietIsKept ==
  ASSUME types' = types, flags' = flags, fields' = fields,
         subTypes' = subTypes, baseType' = baseType
  PROVE  Kept
BY DEF Kept, Known, Frozen

LEMMA DataKept ==
  ASSUME DataFixed, Kept, serializer' = serializer
  PROVE  DataFixed'
<1> SUFFICES ASSUME NEW x \in Types
             PROVE  /\ (Frozen(x) => Known(x))'
                    /\ (serializer[x] # NoSerializer => Frozen(x))'
                    /\ (serializer[x] # NoSerializer =>
                          serializer[x] = [fields |-> fields[x], subs |-> subTypes[x],
                                           root |-> baseType[x] = NoType])'
  BY DEF DataFixed, SerializerIsFrozen, SerializerIsCurrent
<1>1. (Frozen(x) => Known(x))' /\ (serializer[x] # NoSerializer => Frozen(x))'
  BY DEF DataFixed, SerializerIsFrozen, Kept
<1>2. ASSUME serializer[x] # NoSerializer
      PROVE  serializer'[x] = [fields |-> fields'[x], subs |-> subTypes'[x],
                               root |-> baseType'[x] = NoType]
  <2>1. Frozen(x)
    BY <1>2 DEF DataFixed, SerializerIsFrozen
  <2>2. fields'[x] = fields[x] /\ subTypes'[x] = subTypes[x] /\ baseType'[x] = baseType[x]
    BY <2>1 DEF Kept
  <2>3. serializer[x] = [fields |-> fields[x], subs |-> subTypes[x],
                         root |-> baseType[x] = NoType]
    BY <1>2 DEF DataFixed, SerializerIsCurrent
  <2>4. QED
    BY <2>2, <2>3
<1>3. QED
  BY <1>1, <1>2

LEMMA FrameKept ==
  ASSUME Kept, NEW f \in Frame, FrameOK(f), FrameFixed(f)
  PROVE  FrameFixed(f)'
<1>1. f.type \in Types /\ (f.pc = "link" => f.other \in Types)
  BY DEF Frame, FrameOK, LinkPCs
<1>2. QED
  BY <1>1 DEF FrameFixed, Kept, Linking

LEMMA ListedKept == Kept => Listed \subseteq Listed'
BY DEF Kept, Listed

\* A step that moves no stack, finds no type and freezes none.
LEMMA StillFixed ==
  ASSUME StacksFixed, stack' = stack, types' = types, flags' = flags,
         subTypes' = subTypes
  PROVE  StacksFixed'
<1>1. Listed' = Listed /\ \A f : FrameFixed(f) => FrameFixed(f)'
  BY DEF Listed, Known, Frozen, FrameFixed
<1>2. SUFFICES ASSUME NEW t \in Threads
               PROVE  /\ Shape(stack[t], Listed)'
                      /\ (\A i \in DOMAIN stack[t] : FrameFixed(stack[t][i]))'
  BY DEF StacksFixed
<1>3. PICK s : s = stack[t] /\ s = stack'[t]
  OBVIOUS
<1>4. Shape(s, Listed') /\ \A i \in DOMAIN s : FrameFixed(s[i])'
  BY <1>1, <1>3 DEF StacksFixed
<1>5. QED
  BY <1>3, <1>4

-----------------------------------------------------------------------------
(* The movements of a call stack.                                          *)

LEMMA PlaceBelow ==
  ASSUME NEW s \in Seq(Frame), s # <<>>, NEW k, NEW k2, Shape(s, k),
         NEW z \in Seq(Frame), Len(z) >= Len(s),
         \A i \in 1 .. Len(s) - 1 : z[i] = s[i],
         s[Len(s)].pc \in FindPCs =>
           z[Len(s)].pc \in FindPCs /\ z[Len(s)].type = s[Len(s)].type,
         NEW i \in 1 .. Len(s) - 1
  PROVE  Place(z, i, k2)
<1>1. /\ Len(s) \in Nat /\ Len(z) \in Nat /\ i \in Nat /\ i < Len(s) /\ i # Len(s)
      /\ i \in 1 .. Len(s) /\ i < Len(z)
  OBVIOUS
<1>2. Place(s, i, k) /\ z[i] = s[i]
  BY <1>1 DEF Shape
<1>3. z[i].pc \notin NeverPCs /\ z[i].pc \notin Linking
  BY <1>1, <1>2 DEF Place
<1>4. ASSUME z[i].pc = "peek"
      PROVE  z[i + 1].pc \in FindPCs /\ z[i + 1].type = z[i].type
  <2>1. s[i + 1].pc \in FindPCs /\ s[i + 1].type = s[i].type
    BY <1>1, <1>2, <1>4 DEF Place
  <2>2. CASE i + 1 = Len(s)
    BY <1>2, <2>1, <2>2
  <2>3. CASE i + 1 # Len(s)
    <3>1. i + 1 \in 1 .. Len(s) - 1
      BY <1>1, <2>3
    <3>2. QED
      BY <1>2, <2>1, <3>1
  <2>4. QED
    BY <2>2, <2>3
<1>5. ASSUME z[i].pc \in ConfigPCs PROVE \E j \in 1 .. i - 1 : z[j].held
  <2>1. PICK j \in 1 .. i - 1 : s[j].held
    BY <1>2, <1>5 DEF Place
  <2>2. j \in 1 .. Len(s) - 1
    BY <1>1
  <2>3. QED
    BY <2>1, <2>2
<1>6. QED
  BY <1>1, <1>3, <1>4, <1>5 DEF Place

LEMMA ShapeGoto ==
  ASSUME NEW s \in Seq(Frame), s # <<>>, NEW k, NEW k2, Shape(s, k),
         NEW f \in Frame, f.pc \notin NeverPCs, f.pc = "peek" => f.type \in k2,
         f.pc \in ConfigPCs => s[Len(s)].pc \in ConfigPCs,
         s[Len(s)].pc \in FindPCs => f.pc \in FindPCs /\ f.type = s[Len(s)].type
  PROVE  Shape([s EXCEPT ![Len(s)] = f], k2)
<1>1. PICK z : z = [s EXCEPT ![Len(s)] = f]
  OBVIOUS
<1>2. /\ z \in Seq(Frame) /\ Len(z) = Len(s) /\ Len(s) \in Nat \ {0} /\ z[Len(s)] = f
      /\ \A i \in 1 .. Len(s) - 1 : z[i] = s[i]
  BY <1>1
<1>3. Place(z, Len(s), k2)
  <2>1. ASSUME f.pc \in ConfigPCs PROVE \E j \in 1 .. Len(s) - 1 : z[j].held
    <3>1. Place(s, Len(s), k)
      BY <1>2 DEF Shape
    <3>2. PICK j \in 1 .. Len(s) - 1 : s[j].held
      BY <2>1, <3>1 DEF Place
    <3>3. QED
      BY <1>2, <3>2
  <2>2. QED
    BY <1>2, <2>1 DEF Place
<1>4. ASSUME NEW i \in 1 .. Len(s), i # Len(s) PROVE Place(z, i, k2)
  <2>1. i \in 1 .. Len(s) - 1
    BY <1>2, <1>4
  <2>2. QED
    BY <1>2, <2>1, PlaceBelow
<1>5. QED
  BY <1>1, <1>2, <1>3, <1>4 DEF Shape

LEMMA ShapeCall ==
  ASSUME NEW s \in Seq(Frame), s # <<>>, NEW k, NEW k2, Shape(s, k),
         NEW f \in Frame, f.pc \notin NeverPCs \union Linking,
         NEW g \in Frame, g.pc \notin NeverPCs \union Linking \union {"peek"},
         f.pc = "peek" => g.pc \in FindPCs /\ g.type = f.type,
         f.pc \in ConfigPCs => s[Len(s)].pc \in ConfigPCs,
         g.pc \in ConfigPCs => f.held \/ s[Len(s)].pc \in ConfigPCs,
         s[Len(s)].pc \in FindPCs => f.pc \in FindPCs /\ f.type = s[Len(s)].type
  PROVE  Shape(Append([s EXCEPT ![Len(s)] = f], g), k2)
<1>1. PICK y : y = [s EXCEPT ![Len(s)] = f]
  OBVIOUS
<1>2. /\ y \in Seq(Frame) /\ Len(y) = Len(s) /\ Len(s) \in Nat \ {0} /\ y[Len(s)] = f
      /\ \A i \in 1 .. Len(s) - 1 : y[i] = s[i]
  BY <1>1
<1>3. PICK z : z = Append(y, g)
  OBVIOUS
<1>4. /\ z \in Seq(Frame) /\ Len(z) = Len(s) + 1 /\ z[Len(s) + 1] = g
      /\ \A i \in 1 .. Len(s) : z[i] = y[i]
  BY <1>2, <1>3, AppendProperties
<1>5. z[Len(s)] = f /\ \A i \in 1 .. Len(s) - 1 : z[i] = s[i]
  BY <1>2, <1>4
<1>6. ASSUME s[Len(s)].pc \in ConfigPCs PROVE \E j \in 1 .. Len(s) - 1 : z[j].held
  <2>1. Place(s, Len(s), k)
    BY <1>2 DEF Shape
  <2>2. PICK j \in 1 .. Len(s) - 1 : s[j].held
    BY <1>6, <2>1 DEF Place
  <2>3. QED
    BY <1>5, <2>2
<1>7. Place(z, Len(s), k2)
  BY <1>2, <1>4, <1>5, <1>6 DEF Place
<1>8. Place(z, Len(s) + 1, k2)
  <2>1. ASSUME g.pc \in ConfigPCs PROVE \E j \in 1 .. Len(s) : z[j].held
    <3>1. CASE f.held
      BY <1>2, <1>5, <3>1
    <3>2. CASE s[Len(s)].pc \in ConfigPCs
      BY <1>2, <1>6, <3>2
    <3>3. QED
      BY <2>1, <3>1, <3>2
  <2>2. Len(s) + 1 - 1 = Len(s)
    BY <1>2
  <2>3. QED
    BY <1>4, <2>1, <2>2 DEF Place
<1>9. ASSUME NEW i \in 1 .. Len(s) + 1, i # Len(s), i # Len(s) + 1
      PROVE  Place(z, i, k2)
  <2>1. i \in 1 .. Len(s) - 1
    BY <1>2, <1>9
  <2>2. QED
    BY <1>2, <1>4, <1>5, <2>1, PlaceBelow
<1>10. QED
  BY <1>1, <1>3, <1>4, <1>7, <1>8, <1>9 DEF Shape

LEMMA ShapeReturn ==
  ASSUME NEW s \in Seq(Frame), s # <<>>, NEW k, NEW k2, Shape(s, k),
         s[Len(s)].pc \in FindPCs => s[Len(s)].type \in k2
  PROVE  Shape(SubSeq(s, 1, Len(s) - 1), k2)
<1>1. PICK z : z = SubSeq(s, 1, Len(s) - 1)
  OBVIOUS
<1>2. /\ Len(s) \in Nat \ {0} /\ Len(z) = Len(s) - 1
      /\ \A i \in 1 .. Len(s) - 1 : z[i] = s[i]
  <2>1. PICK d \in Nat \ {0} : d = Len(s)
    OBVIOUS
  <2>2. z = SubSeq(s, 1, d - 1) /\ DOMAIN s = 1 .. d
    BY <1>1, <2>1
  <2>3. Len(z) = d - 1 /\ \A i \in 1 .. d - 1 : z[i] = s[i]
    BY <2>1, <2>2
  <2>4. QED
    BY <2>1, <2>3
<1>3. ASSUME NEW i \in 1 .. Len(s) - 1 PROVE Place(z, i, k2)
  <2>1. i \in 1 .. Len(s) /\ i < Len(s) /\ i # Len(s) /\ i \in Nat
    BY <1>2
  <2>2. Place(s, i, k) /\ z[i] = s[i]
    BY <1>2, <2>1 DEF Shape
  <2>3. z[i].pc \notin NeverPCs /\ z[i].pc \notin Linking
    BY <2>1, <2>2 DEF Place
  <2>4. ASSUME z[i].pc = "peek"
        PROVE  \/ i = Len(z) /\ z[i].type \in k2
               \/ i < Len(z) /\ z[i + 1].pc \in FindPCs /\ z[i + 1].type = z[i].type
    <3>1. s[i + 1].pc \in FindPCs /\ s[i + 1].type = s[i].type
      BY <2>1, <2>2, <2>4 DEF Place
    <3>2. CASE i + 1 = Len(s)
      BY <1>2, <2>2, <3>1, <3>2
    <3>3. CASE i + 1 # Len(s)
      <4>1. i + 1 \in 1 .. Len(s) - 1
        BY <1>2, <2>1, <3>3
      <4>2. QED
        BY <1>2, <2>2, <3>1, <4>1
    <3>4. QED
      BY <3>2, <3>3
  <2>5. ASSUME z[i].pc \in ConfigPCs PROVE \E j \in 1 .. i - 1 : z[j].held
    <3>1. PICK j \in 1 .. i - 1 : s[j].held
      BY <2>2, <2>5 DEF Place
    <3>2. j \in 1 .. Len(s) - 1
      BY <1>2, <2>1
    <3>3. QED
      BY <1>2, <3>1, <3>2
  <2>6. QED
    BY <2>3, <2>4, <2>5 DEF Place
<1>4. QED
  BY <1>1, <1>2, <1>3 DEF Shape

-----------------------------------------------------------------------------
(* What a step does to the stacks, by the movement that it makes.          *)

\* Only one thread's stack is another.
LEMMA StacksKept ==
  ASSUME TypeOK, FramesOK, StacksFixed, Kept, NEW t \in Threads, NEW z,
         stack' = [stack EXCEPT ![t] = z], Shape(z, Listed'),
         \A i \in DOMAIN z : FrameFixed(z[i])'
  PROVE  StacksFixed'
<1>1. stack'[t] = z /\ \A u \in Threads : u # t => stack'[u] = stack[u]
  BY DEF TypeOK
<1>2. ASSUME NEW u \in Threads, u # t
      PROVE  (Shape(stack[u], Listed) /\ \A i \in DOMAIN stack[u] : FrameFixed(stack[u][i]))'
  <2>0. stack'[u] = stack[u]
    BY <1>1, <1>2
  <2>1. Shape(stack[u], Listed) /\ stack[u] \in Seq(Frame)
    BY DEF StacksFixed, TypeOK
  <2>2. Shape(stack[u], Listed')
    <3>1. \A i \in 1 .. Len(stack[u]) :
            Place(stack[u], i, Listed) => Place(stack[u], i, Listed')
      BY ListedKept DEF Place
    <3>2. QED
      BY <2>1, <3>1 DEF Shape
  <2>3. (\A i \in DOMAIN stack[u] : FrameFixed(stack[u][i]))'
    <3>0. SUFFICES ASSUME NEW i \in DOMAIN stack[u] PROVE FrameFixed(stack[u][i])'
      BY <2>0
    <3>1. stack[u][i] \in Frame /\ FrameOK(stack[u][i]) /\ FrameFixed(stack[u][i])
      BY <2>1 DEF FramesOK, StacksFixed
    <3>2. \A f \in Frame : FrameOK(f) /\ FrameFixed(f) => FrameFixed(f)'
      BY FrameKept
    <3>3. PICK f \in Frame : f = stack[u][i]
      BY <3>1
    <3>4. FrameFixed(f)'
      BY <3>1, <3>2, <3>3
    <3>5. stack'[u][i] = f
      BY <2>0, <3>3
    <3>6. QED
      BY <3>4, <3>5
  <2>4. QED
    BY <2>0, <2>2, <2>3
<1>3. QED
  BY <1>1, <1>2 DEF StacksFixed

\* A frame of the stack that moved, but not the top one.
LEMMA LowerKept ==
  ASSUME TypeOK, FramesOK, StacksFixed, Kept, NEW t \in Threads,
         NEW i \in DOMAIN stack[t], NEW f, f = stack[t][i]
  PROVE  FrameFixed(f)'
<1>1. f \in Frame /\ FrameOK(f) /\ FrameFixed(f)
  BY DEF TypeOK, FramesOK, StacksFixed
<1>2. QED
  BY <1>1, FrameKept

LEMMA StackIs ==
  ASSUME FixInv, NEW t \in Threads, stack[t] # <<>>
  PROVE  /\ TypeOK /\ FramesOK /\ MutualExclusion /\ StacksFixed
         /\ stack[t] \in Seq(Frame) /\ Len(stack[t]) \in Nat \ {0}
         /\ DOMAIN stack[t] = 1 .. Len(stack[t])
         /\ Depth(t) = Len(stack[t]) /\ Top(t) = stack[t][Len(stack[t])]
         /\ Top(t) \in Frame /\ Top(t).type \in Types
         /\ FrameOK(Top(t)) /\ FrameSettled(Top(t)) /\ FrameFixed(Top(t))
         /\ Place(stack[t], Len(stack[t]), Listed)
         /\ Shape(stack[t], Listed)
         /\ Top(t).pc \notin NeverPCs
         /\ Top(t).pc \in LockedPCs => Holds(t)
<1>1. TypeOK /\ FramesOK /\ MutualExclusion /\ StacksFixed /\ RegInv
  BY DEF FixInv, RegInv, Inv
<1>2. /\ stack[t] \in Seq(Frame) /\ Depth(t) = Len(stack[t])
      /\ Depth(t) \in 1..Len(stack[t]) /\ Top(t) = stack[t][Depth(t)]
      /\ DOMAIN stack[t] = 1..Len(stack[t])
  BY <1>1, TopIs
<1>3. /\ Top(t) \in Frame /\ Top(t).type \in Types /\ FrameSettled(Top(t))
      /\ Top(t).pc \in LockedPCs => Holds(t)
  BY <1>1, TopReg
<1>4. FrameOK(Top(t)) /\ FrameFixed(Top(t)) /\ Shape(stack[t], Listed)
  BY <1>1, <1>2 DEF FramesOK, StacksFixed
<1>5. Place(stack[t], Len(stack[t]), Listed)
  BY <1>2, <1>4 DEF Shape
<1>6. Top(t).pc \notin NeverPCs
  BY <1>2, <1>5 DEF Place
<1>7. Len(stack[t]) \in Nat \ {0}
  BY <1>2
<1>8. QED
  BY <1>1, <1>2, <1>3, <1>4, <1>5, <1>6, <1>7

LEMMA GotoFixed ==
  ASSUME FixInv, TypeOK', Kept, NEW t \in Threads, stack[t] # <<>>,
         NEW f, Goto(t, f), FrameFixed(f)', f.pc \notin NeverPCs,
         f.pc = "peek" => Known(f.type)',
         f.pc \in ConfigPCs => Top(t).pc \in ConfigPCs,
         Top(t).pc \in FindPCs => f.pc \in FindPCs /\ f.type = Top(t).type
  PROVE  StacksFixed'
<1> DEFINE d == Len(stack[t])
<1>1. /\ TypeOK /\ FramesOK /\ StacksFixed /\ Shape(stack[t], Listed)
      /\ stack[t] \in Seq(Frame) /\ d \in Nat \ {0} /\ DOMAIN stack[t] = 1 .. d
      /\ Depth(t) = d /\ Top(t) = stack[t][d]
  BY StackIs
<1>2. PICK z : z = [stack[t] EXCEPT ![d] = f]
  OBVIOUS
<1>3. stack' = [stack EXCEPT ![t] = z] /\ stack'[t] = z
  BY <1>1, <1>2 DEF Goto, TypeOK
<1>4. /\ DOMAIN z = 1 .. d /\ z[d] = f
      /\ \A i \in 1 .. d : i # d => z[i] = stack[t][i]
  BY <1>1, <1>2
<1>5. f \in Frame
  <2>1. stack'[t] \in Seq(Frame)
    BY DEF TypeOK
  <2>2. z \in Seq(Frame) /\ d \in DOMAIN z
    BY <1>1, <1>3, <1>4, <2>1
  <2>3. QED
    BY <1>4, <2>2
<1>6. f.pc = "peek" => f.type \in Listed'
  BY <1>5 DEF Listed, Frame
<1>7. Shape(z, Listed')
  BY <1>1, <1>2, <1>5, <1>6, ShapeGoto
<1>8. ASSUME NEW i \in DOMAIN z PROVE FrameFixed(z[i])'
  <2>1. CASE i = d
    BY <1>4, <2>1
  <2>2. CASE i # d
    <3>1. i \in DOMAIN stack[t] /\ z[i] = stack[t][i]
      BY <1>1, <1>4, <2>2
    <3>2. QED
      BY <1>1, <3>1, LowerKept
  <2>3. QED
    BY <2>1, <2>2
<1>9. QED
  BY <1>1, <1>3, <1>7, <1>8, StacksKept

\* Moving only the pc.
LEMMA PCFixed ==
  ASSUME FixInv, TypeOK', Kept, NEW t \in Threads, stack[t] # <<>>,
         NEW pc, GotoPC(t, pc), pc \notin NeverPCs \union {"members", "peek"},
         pc \in {"serlock", "build"} => Known(Top(t).type),
         pc \in ConfigPCs => Top(t).pc \in ConfigPCs,
         pc \in Linking => ~Frozen(Top(t).type),
         pc = "link" => ~Frozen(Top(t).other) /\ Top(t).other \in Types,
         Top(t).pc \in FindPCs => pc \in FindPCs
  PROVE  StacksFixed'
<1> DEFINE g == [Top(t) EXCEPT !.pc = pc]
<1>1. Top(t) \in Frame /\ Top(t).type \in Types
  BY StackIs
<1>2. g.pc = pc /\ g.type = Top(t).type /\ g.other = Top(t).other /\ Goto(t, g)
  BY <1>1 DEF Frame, GotoPC
<1> HIDE DEF g
<1>3. PICK f : f = g
  OBVIOUS
<1>4. f.pc = pc /\ f.type = Top(t).type /\ f.other = Top(t).other /\ Goto(t, f)
  BY <1>2, <1>3
<1>5. FrameFixed(f)'
  <2>1. PICK x \in Types, y \in Types \union {NoType} : x = f.type /\ y = f.other
    BY <1>1, <1>4 DEF Frame
  <2>2. (Known(x) => Known(x)') /\ (~Frozen(x) => ~Frozen(x)')
        /\ (y \in Types /\ ~Frozen(y) => ~Frozen(y)')
    BY <2>1 DEF Kept
  <2>3. QED
    BY <1>4, <2>1, <2>2 DEF FrameFixed
<1>6. QED
  BY <1>4, <1>5, GotoFixed

LEMMA CallFixed ==
  ASSUME FixInv, TypeOK', Kept, NEW t \in Threads, stack[t] # <<>>,
         NEW f, NEW g, Call(t, f, g),
         f.pc \notin NeverPCs \union Linking \union {"serlock", "build"},
         f.pc = "members" => Top(t).pc = "members" /\ f.type = Top(t).type
                               /\ f.subs = Top(t).subs,
         g.pc \notin NeverPCs \union Linking \union {"serlock", "build", "members", "peek"},
         f.pc = "peek" => g.pc \in FindPCs /\ g.type = f.type,
         f.pc \in ConfigPCs => Top(t).pc \in ConfigPCs,
         g.pc \in ConfigPCs => f.held \/ Top(t).pc \in ConfigPCs,
         Top(t).pc \in FindPCs => f.pc \in FindPCs /\ f.type = Top(t).type
  PROVE  StacksFixed'
<1> DEFINE d == Len(stack[t])
<1>1. /\ TypeOK /\ FramesOK /\ StacksFixed /\ Shape(stack[t], Listed)
      /\ stack[t] \in Seq(Frame) /\ d \in Nat \ {0} /\ DOMAIN stack[t] = 1 .. d
      /\ Depth(t) = d /\ Top(t) = stack[t][d] /\ Top(t).type \in Types
      /\ FrameFixed(Top(t))
  BY StackIs
<1>2. PICK y : y = [stack[t] EXCEPT ![d] = f]
  OBVIOUS
<1>3. PICK z : z = Append(y, g)
  OBVIOUS
<1>4. stack' = [stack EXCEPT ![t] = z] /\ stack'[t] = z
  BY <1>1, <1>2, <1>3 DEF Call, TypeOK
<1>5. y \in Seq(Frame \union {f}) /\ Len(y) = d /\ y[d] = f
      /\ \A i \in 1 .. d : i # d => y[i] = stack[t][i]
  BY <1>1, <1>2
<1>6. /\ DOMAIN z = 1 .. d + 1 /\ z[d] = f /\ z[d + 1] = g
      /\ \A i \in 1 .. d : i # d => z[i] = stack[t][i]
  BY <1>1, <1>3, <1>5
<1>7. f \in Frame /\ g \in Frame
  <2>1. stack'[t] \in Seq(Frame)
    BY DEF TypeOK
  <2>2. z \in Seq(Frame) /\ d \in DOMAIN z /\ d + 1 \in DOMAIN z
    BY <1>1, <1>4, <1>6, <2>1
  <2>3. QED
    BY <1>6, <2>2
<1>8. Shape(z, Listed')
  BY <1>1, <1>2, <1>3, <1>7, ShapeCall
<1>9. FrameFixed(f)' /\ FrameFixed(g)'
  <2>1. PICK x \in Types : x = Top(t).type
    BY <1>1
  <2>2. Frozen(x) => Frozen(x)' /\ subTypes'[x] = subTypes[x]
    BY DEF Kept
  <2>3. ASSUME f.pc = "members" PROVE Frozen(f.type)' /\ f.subs = subTypes'[f.type]
    <3>1. f.type = x /\ Frozen(x) /\ f.subs = subTypes[x]
      BY <1>1, <2>1, <2>3 DEF FrameFixed
    <3>2. QED
      BY <2>2, <3>1
  <2>4. QED
    BY <2>3 DEF FrameFixed, Linking
<1>10. ASSUME NEW i \in DOMAIN z PROVE FrameFixed(z[i])'
  <2>1. CASE i = d
    BY <1>6, <1>9, <2>1
  <2>2. CASE i = d + 1
    BY <1>6, <1>9, <2>2
  <2>3. CASE i # d /\ i # d + 1
    <3>1. i \in DOMAIN stack[t] /\ z[i] = stack[t][i]
      BY <1>1, <1>6, <2>3
    <3>2. QED
      BY <1>1, <3>1, LowerKept
  <2>4. QED
    BY <2>1, <2>2, <2>3
<1>11. QED
  BY <1>1, <1>4, <1>8, <1>10, StacksKept

LEMMA ReturnFixed ==
  ASSUME FixInv, Kept, NEW t \in Threads, stack[t] # <<>>, Return(t),
         Top(t).pc \in FindPCs => Known(Top(t).type)
  PROVE  StacksFixed'
<1> DEFINE d == Len(stack[t])
<1>1. /\ TypeOK /\ FramesOK /\ StacksFixed /\ Shape(stack[t], Listed)
      /\ stack[t] \in Seq(Frame) /\ d \in Nat \ {0} /\ DOMAIN stack[t] = 1 .. d
      /\ Depth(t) = d /\ Top(t) = stack[t][d] /\ Top(t).type \in Types
  BY StackIs
<1>2. PICK z : z = SubSeq(stack[t], 1, d - 1)
  OBVIOUS
<1>3. stack' = [stack EXCEPT ![t] = z]
  BY <1>1, <1>2 DEF Return, TypeOK
<1>4. DOMAIN z = 1 .. d - 1 /\ \A i \in 1 .. d - 1 : z[i] = stack[t][i]
  BY <1>1, <1>2
<1>5. Top(t).pc \in FindPCs => Top(t).type \in Listed'
  BY <1>1, ListedKept DEF Listed
<1>6. Shape(z, Listed')
  BY <1>1, <1>2, <1>5, ShapeReturn
<1>7. ASSUME NEW i \in DOMAIN z PROVE FrameFixed(z[i])'
  <2>1. i \in DOMAIN stack[t] /\ z[i] = stack[t][i]
    BY <1>1, <1>4
  <2>2. QED
    BY <1>1, <2>1, LowerKept
<1>8. QED
  BY <1>1, <1>3, <1>6, <1>7, StacksKept

\* A call that begins, and one that ends in an exception.
LEMMA BeginFixed ==
  ASSUME FixInv, Kept, NEW t \in Threads, NEW f, NEW z, z = <<f>>,
         \/ f.pc \in {"getkey", "addfind", "fieldget", "compileget"}
         \/ f.pc = "peek" /\ f.type \in Listed,
         stack' = [stack EXCEPT ![t] = z]
  PROVE  StacksFixed'
<1>1. Len(z) = 1 /\ DOMAIN z = {1} /\ 1 .. Len(z) = {1} /\ z[1] = f
  OBVIOUS
<1>2. f.pc \notin NeverPCs \union ConfigPCs \union Linking
                    \union {"serlock", "build", "members"}
  BY DEF NeverPCs, OptionPCs, ConfigPCs, Linking
<1>6. f.pc = "peek" => f.type \in Listed'
  BY DEF Kept, Listed
<1>3. Shape(z, Listed')
  BY <1>1, <1>2, <1>6 DEF Shape, Place
<1>4. \A i \in DOMAIN z : FrameFixed(z[i])'
  BY <1>1, <1>2 DEF FrameFixed, Linking
<1>5. QED
  BY <1>3, <1>4, StacksKept DEF FixInv, RegInv, Inv

LEMMA ThrowFixed ==
  ASSUME FixInv, Kept, NEW t \in Threads, NEW reason, Throw(t, reason)
  PROVE  StacksFixed'
<1>1. PICK z : z = <<>>
  OBVIOUS
<1>2. DOMAIN z = {} /\ 1 .. Len(z) = {}
  BY <1>1
<1>3. Shape(z, Listed') /\ \A i \in DOMAIN z : FrameFixed(z[i])'
  BY <1>2 DEF Shape
<1>4. stack' = [stack EXCEPT ![t] = z]
  BY <1>1 DEF Throw
<1>5. QED
  BY <1>3, <1>4, StacksKept DEF FixInv, RegInv, Inv

-----------------------------------------------------------------------------
(* The actions, in the order of the module.                                *)

LEMMA LockStepFixed ==
  ASSUME FixInv, TypeOK', NEW t \in Threads, LockStep(t)
  PROVE  StacksFixed' /\ DataFixed'
<1>0. Kept /\ serializer' = serializer
  BY QuietIsKept DEF LockStep, WaitLock, Take, RootLock, SerLock, FieldLock, AddLock,
                     TakeLock, TakeLockTimeout, metaVars
<1>1. DataFixed'
  BY <1>0, DataKept DEF FixInv
<1> SUFFICES StacksFixed'
  BY <1>1
<1>2. ASSUME stack[t] # <<>>, NEW pc \in LockedPCs, TakeLock(t, pc),
             pc \notin {"members", "built"},
             pc = "build" => Top(t).pc = "serlock",
             Top(t).pc \in LockPCs,
             Top(t).pc \in FindPCs => pc \in FindPCs
      PROVE  StacksFixed'
  <2>1. Top(t) \in Frame /\ Top(t).type \in Types /\ FrameFixed(Top(t))
    BY <1>2, StackIs
  <2>2. PICK f : f = [Top(t) EXCEPT !.pc = pc, !.held = TRUE]
    OBVIOUS
  <2>3. f.pc = pc /\ f.type = Top(t).type /\ Goto(t, f)
    BY <1>2, <2>1, <2>2 DEF Frame, TakeLock
  <2>4. pc \notin NeverPCs \union ConfigPCs \union Linking \union {"peek", "serlock"}
    BY <1>2 DEF LockedPCs, NeverPCs, OptionPCs, ConfigPCs, Linking
  <2>5. pc = "build" => Known(f.type)'
    <3>1. PICK x \in Types : x = Top(t).type
      BY <2>1
    <3>2. pc = "build" => Known(x)
      BY <1>2, <2>1, <3>1 DEF FrameFixed
    <3>3. QED
      BY <1>0, <2>3, <3>1, <3>2 DEF Kept
  <2>6. FrameFixed(f)'
    BY <1>2, <2>3, <2>4, <2>5 DEF FrameFixed, Linking
  <2>7. QED
    BY <1>0, <1>2, <2>3, <2>4, <2>6, GotoFixed
<1>3. CASE WaitLock(t)
  BY <1>2, <1>3 DEF WaitLock, At, LockedPCs, LockPCs, FindPCs
<1>4. CASE Take(t)
  BY <1>2, <1>4 DEF Take, At, LockedPCs, LockPCs, FindPCs
<1>5. CASE RootLock(t)
  BY <1>2, <1>5 DEF RootLock, At, LockedPCs, LockPCs, FindPCs
<1>6. CASE SerLock(t)
  BY <1>2, <1>6 DEF SerLock, At, LockedPCs, LockPCs, FindPCs
<1>7. CASE FieldLock(t)
  BY <1>2, <1>7 DEF FieldLock, At, LockedPCs, LockPCs, FindPCs
<1>8. CASE AddLock(t)
  BY <1>2, <1>8 DEF AddLock, At, LockedPCs, LockPCs, FindPCs
<1>9. CASE TakeLockTimeout(t)
  BY <1>0, <1>9, ThrowFixed DEF TakeLockTimeout
<1>10. QED
  BY <1>1, <1>3, <1>4, <1>5, <1>6, <1>7, <1>8, <1>9 DEF LockStep

LEMMA FindStepFixed ==
  ASSUME FixInv, TypeOK', NEW t \in Threads,
         Look(t) \/ Waited(t) \/ Create(t) \/ Recheck(t) \/ Ready(t) \/ Leave(t)
  PROVE  StacksFixed' /\ DataFixed'
<1>0. stack[t] # <<>> /\ types' = types /\ serializer' = serializer
      /\ fields' = fields /\ subTypes' = subTypes /\ baseType' = baseType
  BY DEF Look, Waited, Create, Recheck, Ready, Leave, At, metaVars
<1>1. Top(t).type \in Types /\ FrameSettled(Top(t))
  BY <1>0, StackIs
<1>2. Kept
  <2>1. CASE Ready(t)
    <3>1. \A x \in Types : Frozen(x)' <=> Frozen(x)
      <4>1. flags \in [Types -> SUBSET Flag]
        BY DEF FixInv, RegInv, Inv, TypeOK
      <4>2. QED
        BY <2>1, <4>1 DEF Ready, Frozen
    <3>2. QED
      BY <1>0, <3>1 DEF Kept, Known
  <2>2. CASE ~Ready(t)
    <3>1. flags' = flags
      BY <2>2 DEF Look, Waited, Create, Recheck, Leave, metaVars
    <3>2. QED
      BY <1>0, <3>1, QuietIsKept
  <2>3. QED
    BY <2>1, <2>2
<1>3. DataFixed'
  BY <1>0, <1>2, DataKept DEF FixInv
<1> SUFFICES StacksFixed'
  BY <1>3
<1>4. ASSUME NEW pc \in FindPCs, GotoPC(t, pc) PROVE StacksFixed'
  <2>1. pc \notin NeverPCs \union ConfigPCs \union Linking
              \union {"peek", "serlock", "build", "members"}
    BY <1>4 DEF FindPCs, NeverPCs, OptionPCs, ConfigPCs, Linking
  <2>2. QED
    BY <1>0, <1>2, <1>4, <2>1, PCFixed DEF Linking
<1>5. CASE Look(t)
  <2>1. CASE Return(t) /\ Known(Top(t).type)
    BY <1>0, <1>2, <2>1, ReturnFixed
  <2>2. CASE GotoPC(t, "waitlock") \/ GotoPC(t, "take")
    BY <1>4, <2>2 DEF FindPCs
  <2>3. QED
    BY <1>5, <2>1, <2>2 DEF Look
<1>6. CASE Waited(t)
  BY <1>0, <1>1, <1>2, <1>6, ReturnFixed DEF Waited, At, FrameSettled
<1>7. CASE Create(t)
  <2>1. CASE Throw(t, "model frozen")
    BY <1>2, <2>1, ThrowFixed
  <2>2. CASE GotoPC(t, "recheck")
    BY <1>4, <2>2 DEF FindPCs
  <2>3. QED
    BY <1>7, <2>1, <2>2 DEF Create
<1>8. CASE Recheck(t)
  <2>1. CASE Throw(t, "model frozen")
    BY <1>2, <2>1, ThrowFixed
  <2>2. CASE GotoPC(t, "add")
    BY <1>4, <2>2 DEF FindPCs
  <2>3. CASE Return(t) /\ Known(Top(t).type)
    BY <1>0, <1>2, <2>3, ReturnFixed
  <2>4. QED
    BY <1>8, <2>1, <2>2, <2>3 DEF Recheck
<1>9. CASE Ready(t)
  BY <1>4, <1>9 DEF Ready, FindPCs
<1>10. CASE Leave(t)
  BY <1>0, <1>1, <1>2, <1>10, ReturnFixed DEF Leave, At, FrameSettled, Settled
<1>11. QED
  BY <1>3, <1>5, <1>6, <1>7, <1>8, <1>9, <1>10

\* A type that is added is not frozen: only a type in the list ever was.
LEMMA AddTypeFixed ==
  ASSUME FixInv, TypeOK', NEW t \in Threads, AddType(t)
  PROVE  StacksFixed' /\ DataFixed'
<1>0. stack[t] # <<>> /\ Top(t).pc = "add"
  BY DEF AddType, At
<1>1. /\ Top(t) \in Frame /\ Top(t).type \in Types /\ FrameOK(Top(t))
  BY <1>0, StackIs
<1>2. PICK x \in Types : x = Top(t).type /\ ~Known(x)
  BY <1>0, <1>1, TopFrame DEF FixInv, RegInv, Inv
<1>3. ~Frozen(x)
  BY <1>2 DEF FixInv, DataFixed
<1>4. Kept /\ serializer' = serializer
  <2>1. types \in Seq(Types) /\ flags \in [Types -> SUBSET Flag]
    BY DEF FixInv, RegInv, Inv, TypeOK
  <2>2. /\ types' = Append(types, x) /\ flags' = [flags EXCEPT ![x] = {"Pending"}]
        /\ serializer' = serializer
        /\ fields' = fields /\ subTypes' = subTypes /\ baseType' = baseType
    BY <1>2 DEF AddType
  <2>3. \A y \in Types : Known(y) => Known(y)'
    BY <2>1, <2>2 DEF Known
  <2>4. \A y \in Types : Frozen(y)' <=> Frozen(y)
    BY <1>3, <2>1, <2>2 DEF Frozen
  <2>5. QED
    BY <2>2, <2>3, <2>4 DEF Kept
<1>5. PICK f : f = [Top(t) EXCEPT !.pc = "ready"]
  OBVIOUS
<1>6. PICK g : g = NewFrame("base", x, NoType)
  OBVIOUS
<1>7. /\ f.pc = "ready" /\ f.type = Top(t).type /\ f.held /\ g.pc = "base"
      /\ Call(t, f, g)
  <2>1. Top(t).held
    BY <1>0, <1>1 DEF FrameOK, LockedPCs
  <2>2. QED
    BY <1>1, <1>2, <1>5, <1>6, <2>1 DEF Frame, NewFrame, AddType
<1>8. StacksFixed'
  BY <1>0, <1>4, <1>7, CallFixed DEF NeverPCs, OptionPCs, Linking, FindPCs, ConfigPCs
<1>9. QED
  BY <1>4, <1>8, DataKept DEF FixInv

LEMMA ApplyStepFixed ==
  ASSUME FixInv, TypeOK', NEW t \in Threads,
         ApplyBase(t) \/ ApplyInclude(t) \/ ApplyMembers(t) \/ ApplyThrows(t)
  PROVE  StacksFixed' /\ DataFixed'
<1>0. /\ stack[t] # <<>> /\ types' = types /\ flags' = flags
      /\ serializer' = serializer /\ subTypes' = subTypes /\ baseType' = baseType
  BY DEF ApplyBase, ApplyInclude, ApplyMembers, ApplyThrows, At, metaVars
<1>1. Top(t) \in Frame /\ Top(t).type \in Types
  BY <1>0, StackIs
<1>2. Kept
  <2>1. CASE fields' = fields
    BY <1>0, <2>1, QuietIsKept
  <2>2. CASE /\ ~Frozen(Top(t).type)
             /\ fields' = [fields EXCEPT ![Top(t).type] = @ \union {"attr"}]
    <3>1. fields \in [Types -> SUBSET Field]
      BY DEF FixInv, RegInv, Inv, TypeOK
    <3>2. \A x \in Types : Frozen(x) => fields'[x] = fields[x]
      BY <2>2, <3>1
    <3>3. QED
      BY <1>0, <3>2 DEF Kept, Known, Frozen
  <2>3. QED
    BY <2>1, <2>2 DEF ApplyBase, ApplyInclude, ApplyMembers, ApplyThrows, metaVars
<1>3. DataFixed'
  BY <1>0, <1>2, DataKept DEF FixInv
<1> SUFFICES StacksFixed'
  BY <1>3
<1>4. CASE ApplyBase(t)
  <2>1. PICK f : f = [Top(t) EXCEPT !.pc = "include", !.todo = ValidIncludes(Top(t).type)]
    OBVIOUS
  <2>2. f.pc = "include" /\ f.type = Top(t).type /\ Top(t).pc = "base"
    BY <1>1, <1>4, <2>1 DEF Frame, ApplyBase, At
  <2>3. ASSUME NEW y, Call(t, f, NewFrame("look", y, NoType)) PROVE StacksFixed'
    <3>1. PICK g : g = NewFrame("look", y, NoType)
      OBVIOUS
    <3>2. g.pc = "look" /\ Call(t, f, g)
      BY <2>3, <3>1 DEF NewFrame
    <3>3. QED
      BY <1>0, <1>2, <2>2, <3>2, CallFixed
         DEF NeverPCs, OptionPCs, Linking, FindPCs, ConfigPCs
  <2>4. CASE Goto(t, f)
    <3>1. FrameFixed(f)'
      BY <2>2 DEF FrameFixed, Linking
    <3>2. QED
      BY <1>0, <1>2, <2>2, <2>4, <3>1, GotoFixed DEF NeverPCs, OptionPCs, FindPCs, ConfigPCs
  <2>5. QED
    BY <1>4, <2>1, <2>3, <2>4 DEF ApplyBase
<1>5. CASE ApplyInclude(t)
  <2>1. Top(t).pc = "include"
    BY <1>5 DEF ApplyInclude, At
  <2>2. PICK d \in Top(t).todo :
          Call(t, [Top(t) EXCEPT !.todo = @ \ {d}], NewFrame("subfind", Top(t).type, d))
    BY <1>5 DEF ApplyInclude
  <2>3. PICK f : f = [Top(t) EXCEPT !.todo = @ \ {d}]
    OBVIOUS
  <2>4. PICK g : g = NewFrame("subfind", Top(t).type, d)
    OBVIOUS
  <2>5. f.pc = "include" /\ f.type = Top(t).type /\ g.pc = "subfind" /\ Call(t, f, g)
    BY <1>1, <2>1, <2>2, <2>3, <2>4 DEF Frame, NewFrame
  <2>6. QED
    BY <1>0, <1>2, <2>1, <2>5, CallFixed
       DEF NeverPCs, OptionPCs, Linking, FindPCs, ConfigPCs
<1>6. CASE ApplyMembers(t)
  <2>1. CASE Throw(t, "type frozen")
    BY <1>2, <2>1, ThrowFixed
  <2>2. CASE Return(t)
    BY <1>0, <1>2, <1>6, <2>2, ReturnFixed DEF ApplyMembers, At, FindPCs
  <2>3. QED
    BY <1>6, <2>1, <2>2 DEF ApplyMembers
<1>7. CASE ApplyThrows(t)
  BY <1>2, <1>7, ThrowFixed DEF ApplyThrows
<1>8. QED
  BY <1>3, <1>4, <1>5, <1>6, <1>7

\* Linking changes types that are not frozen, and none can become so meanwhile.
LEMMA SubStepFixed ==
  ASSUME FixInv, TypeOK', NEW t \in Threads,
         SubFind(t) \/ SubCheck(t) \/ Link(t) \/ SubAdd(t)
  PROVE  StacksFixed' /\ DataFixed'
<1>0. /\ stack[t] # <<>> /\ types' = types /\ flags' = flags
      /\ serializer' = serializer /\ fields' = fields
  BY DEF SubFind, SubCheck, Link, SubAdd, At, metaVars
<1>1. /\ Top(t) \in Frame /\ Top(t).type \in Types /\ FrameOK(Top(t))
      /\ FrameFixed(Top(t))
  BY <1>0, StackIs
<1>2. Kept
  <2>1. CASE subTypes' = subTypes /\ baseType' = baseType
    BY <1>0, <2>1, QuietIsKept
  <2>2. CASE Link(t) /\ baseType' # baseType
    <3>1. PICK b, d : /\ b = Top(t).type /\ d = Top(t).other
                      /\ baseType' = [baseType EXCEPT ![d] = b]
      BY <2>2 DEF Link
    <3>2. ~Frozen(d)
      BY <1>1, <2>2, <3>1 DEF Link, At, FrameFixed
    <3>3. baseType \in [Types -> Types \union {NoType}]
      BY DEF FixInv, RegInv, Inv, TypeOK
    <3>4. \A x \in Types : Frozen(x) => baseType'[x] = baseType[x]
      BY <3>1, <3>2, <3>3
    <3>5. subTypes' = subTypes
      BY <2>2 DEF Link
    <3>6. QED
      BY <1>0, <3>4, <3>5 DEF Kept, Known, Frozen
  <2>3. CASE SubAdd(t)
    <3>1. PICK b : /\ b = Top(t).type
                   /\ subTypes' = [subTypes EXCEPT ![b] = @ \union {Top(t).other}]
      BY <2>3 DEF SubAdd
    <3>2. ~Frozen(b)
      BY <1>1, <2>3, <3>1 DEF SubAdd, At, FrameFixed, Linking
    <3>3. subTypes \in [Types -> SUBSET Types]
      BY DEF FixInv, RegInv, Inv, TypeOK
    <3>4. \A x \in Types : Frozen(x) => subTypes'[x] = subTypes[x]
      BY <3>1, <3>2, <3>3
    <3>5. baseType' = baseType
      BY <2>3 DEF SubAdd
    <3>6. QED
      BY <1>0, <3>4, <3>5 DEF Kept, Known, Frozen
  <2>4. QED
    BY <2>1, <2>2, <2>3 DEF SubFind, SubCheck, Link, SubAdd, metaVars
<1>3. DataFixed'
  BY <1>0, <1>2, DataKept DEF FixInv
<1> SUFFICES StacksFixed'
  BY <1>3
<1>4. CASE SubFind(t)
  <2>1. PICK f : f = [Top(t) EXCEPT !.pc = "subcheck"]
    OBVIOUS
  <2>2. PICK g : g = NewFrame("look", Top(t).other, NoType)
    OBVIOUS
  <2>3. f.pc = "subcheck" /\ g.pc = "look" /\ Call(t, f, g) /\ Top(t).pc = "subfind"
    BY <1>1, <1>4, <2>1, <2>2 DEF Frame, NewFrame, SubFind, At
  <2>4. QED
    BY <1>0, <1>2, <2>3, CallFixed DEF NeverPCs, OptionPCs, Linking, FindPCs, ConfigPCs
<1>5. CASE SubCheck(t)
  <2>1. Top(t).pc = "subcheck" /\ Top(t).other \in Types
    BY <1>1, <1>5 DEF SubCheck, At, FrameOK, LinkPCs
  <2>2. CASE Throw(t, "type frozen")
    BY <1>2, <2>2, ThrowFixed
  <2>3. CASE ~Frozen(Top(t).type) /\ ~Frozen(Top(t).other) /\ GotoPC(t, "link")
    BY <1>0, <1>2, <2>1, <2>3, PCFixed DEF NeverPCs, OptionPCs, FindPCs, ConfigPCs
  <2>4. QED
    BY <1>5, <2>2, <2>3 DEF SubCheck
<1>6. CASE Link(t)
  <2>1. Top(t).pc = "link" /\ ~Frozen(Top(t).type)
    BY <1>1, <1>6 DEF Link, At, FrameFixed, Linking
  <2>2. CASE Throw(t, "bad hierarchy")
    BY <1>2, <2>2, ThrowFixed
  <2>3. CASE GotoPC(t, "subadd")
    BY <1>0, <1>2, <2>1, <2>3, PCFixed DEF NeverPCs, OptionPCs, FindPCs, ConfigPCs
  <2>4. QED
    BY <1>6, <2>2, <2>3 DEF Link
<1>7. CASE SubAdd(t)
  BY <1>0, <1>2, <1>7, ReturnFixed DEF SubAdd, At, FindPCs
<1>8. QED
  BY <1>4, <1>5, <1>6, <1>7

LEMMA RootStepFixed ==
  ASSUME FixInv, TypeOK', NEW t \in Threads,
         GetKey(t) \/ Climb(t) \/ RootRead(t) \/ Rekey(t) \/ Answer(t)
  PROVE  StacksFixed' /\ DataFixed'
<1>0. stack[t] # <<>> /\ serializer' = serializer /\ Kept
  BY QuietIsKept DEF GetKey, Climb, RootRead, Rekey, Answer, At, metaVars
<1>1. Top(t) \in Frame
  BY <1>0, StackIs
<1>2. DataFixed'
  BY <1>0, DataKept DEF FixInv
<1> SUFFICES StacksFixed'
  BY <1>2
<1>3. ASSUME NEW g, Goto(t, g), g.pc \in {"climb", "rootread", "rekey", "rootlock"},
             Top(t).pc \in {"climb", "rootread"}
      PROVE  StacksFixed'
  <2>1. g.pc \notin NeverPCs \union ConfigPCs \union Linking
              \union {"peek", "serlock", "build", "members"}
    BY <1>3 DEF NeverPCs, OptionPCs, ConfigPCs, Linking
  <2>2. FrameFixed(g)'
    BY <2>1 DEF FrameFixed, Linking
  <2>3. QED
    BY <1>0, <1>3, <2>1, <2>2, GotoFixed DEF FindPCs
<1>4. CASE GetKey(t)
  <2>1. PICK f : f = [Top(t) EXCEPT !.pc = "climb", !.other = Top(t).type]
    OBVIOUS
  <2>2. PICK g : g = NewFrame("look", Top(t).type, NoType)
    OBVIOUS
  <2>3. f.pc = "climb" /\ g.pc = "look" /\ Call(t, f, g) /\ Top(t).pc = "getkey"
    BY <1>1, <1>4, <2>1, <2>2 DEF Frame, NewFrame, GetKey, At
  <2>4. QED
    BY <1>0, <2>3, CallFixed DEF NeverPCs, OptionPCs, Linking, FindPCs, ConfigPCs
<1>5. CASE Climb(t)
  <2>1. PICK g : /\ Goto(t, g) /\ Top(t).pc = "climb"
                 /\ \/ g = [Top(t) EXCEPT !.pc = "rootlock"]
                    \/ g = [Top(t) EXCEPT !.pc = "rekey"]
                    \/ \E y : g = [Top(t) EXCEPT !.other = y]
    BY <1>5 DEF Climb, At, GotoPC
  <2>2. g.pc \in {"climb", "rekey", "rootlock"}
    BY <1>1, <2>1 DEF Frame
  <2>3. QED
    BY <1>3, <2>1, <2>2
<1>6. CASE RootRead(t)
  <2>1. PICK g : /\ Goto(t, g) /\ Top(t).pc = "rootread"
                 /\ \/ g = [Top(t) EXCEPT !.pc = "rekey", !.held = FALSE]
                    \/ \E y : g = [Top(t) EXCEPT !.other = y]
    BY <1>6 DEF RootRead, At
  <2>2. g.pc \in {"rootread", "rekey"}
    BY <1>1, <2>1 DEF Frame
  <2>3. QED
    BY <1>3, <2>1, <2>2
<1>7. CASE Rekey(t)
  <2>1. PICK root : root = Top(t).other
    OBVIOUS
  <2>2. PICK f : f = [Top(t) EXCEPT !.pc = Top(t).next, !.type = root]
    OBVIOUS
  <2>3. PICK g : g = NewFrame("look", root, NoType)
    OBVIOUS
  <2>4. /\ f.pc \in {"peek", "answer"} /\ f.type = root
        /\ g.pc = "look" /\ g.type = root /\ Call(t, f, g) /\ Top(t).pc = "rekey"
    BY <1>1, <1>7, <2>1, <2>2, <2>3 DEF Frame, NewFrame, Rekey, At
  <2>5. QED
    BY <1>0, <2>4, CallFixed DEF NeverPCs, OptionPCs, Linking, FindPCs, ConfigPCs
<1>8. CASE Answer(t)
  BY <1>0, <1>8, ReturnFixed DEF Answer, At, FindPCs
<1>9. QED
  BY <1>4, <1>5, <1>6, <1>7, <1>8

\* When a serializer is begun no type is being linked, for the lock is taken.
LEMMA NothingLinks ==
  ASSUME FixInv, NEW t \in Threads, stack[t] # <<>>, Top(t).pc = "build",
         NEW u \in Threads, NEW i \in DOMAIN stack[u]
  PROVE  stack[u][i].pc \notin Linking
<1> SUFFICES ASSUME stack[u][i].pc \in Linking PROVE FALSE
  OBVIOUS
<1>1. stack[u] # <<>>
  BY StackIs
<1>2. /\ DOMAIN stack[u] = 1 .. Len(stack[u]) /\ Len(stack[u]) \in Nat
      /\ Shape(stack[u], Listed) /\ Top(u) = stack[u][Len(stack[u])]
      /\ MutualExclusion
  BY <1>1, StackIs
<1>3. Place(stack[u], i, Listed)
  BY <1>2 DEF Shape
<1>4. Holds(t)
  BY StackIs DEF LockedPCs
<1>5. Holds(u)
  <2>1. stack[u][i].pc \in ConfigPCs
    BY DEF Linking, ConfigPCs
  <2>2. PICK j \in 1 .. i - 1 : stack[u][j].held
    BY <1>3, <2>1 DEF Place
  <2>3. j \in DOMAIN stack[u]
    BY <1>2
  <2>4. QED
    BY <2>2, <2>3 DEF Holds
<1>6. u = t
  BY <1>2, <1>4, <1>5 DEF MutualExclusion
<1>7. i = Len(stack[u])
  BY <1>3 DEF Place
<1>8. stack[u][i].pc = "build"
  BY <1>2, <1>6, <1>7
<1>9. QED
  BY <1>8 DEF Linking

\* From here on the type is frozen, and what was copied of it stays true.
LEMMA FreezeFixed ==
  ASSUME FixInv, TypeOK', NEW t \in Threads, Build(t),
         serializer[Top(t).type] = NoSerializer
  PROVE  StacksFixed' /\ DataFixed'
<1> DEFINE d == Len(stack[t])
<1>0. stack[t] # <<>> /\ Top(t).pc = "build" /\ types' = types /\ serializer' = serializer
      /\ fields' = fields /\ subTypes' = subTypes /\ baseType' = baseType
  BY DEF Build, At
<1>1. /\ TypeOK /\ Shape(stack[t], Listed)
      /\ stack[t] \in Seq(Frame) /\ d \in Nat \ {0} /\ DOMAIN stack[t] = 1 .. d
      /\ Depth(t) = d /\ Top(t) = stack[t][d] /\ Top(t) \in Frame /\ Top(t).type \in Types
      /\ FrameFixed(Top(t)) /\ StacksFixed /\ FramesOK
  BY <1>0, StackIs
<1>2. PICK x \in Types : x = Top(t).type /\ Known(x)
  BY <1>0, <1>1 DEF FrameFixed
<1>3. \A y \in Types : (Frozen(y) => Frozen(y)') /\ (Frozen(y)' => Frozen(y) \/ y = x)
  <2>1. flags \in [Types -> SUBSET Flag] /\ flags' = [flags EXCEPT ![x] = @ \union {"Frozen"}]
    BY <1>1, <1>2 DEF TypeOK, Build
  <2>2. QED
    BY <2>1 DEF Frozen
<1>4. Frozen(x)'
  <2>1. flags \in [Types -> SUBSET Flag] /\ flags' = [flags EXCEPT ![x] = @ \union {"Frozen"}]
    BY <1>1, <1>2 DEF TypeOK, Build
  <2>2. QED
    BY <2>1 DEF Frozen
<1>5. PICK f : f = [Top(t) EXCEPT !.pc = "members", !.todo = Members[x],
                                  !.subs = subTypes[x]]
  OBVIOUS
<1>6. PICK z : z = [stack[t] EXCEPT ![d] = f]
  OBVIOUS
<1>7. stack' = [stack EXCEPT ![t] = z] /\ stack'[t] = z
  <2>1. Goto(t, f)
    BY <1>2, <1>5 DEF Build
  <2>2. QED
    BY <1>1, <1>6, <2>1 DEF Goto, TypeOK
<1>8. /\ DOMAIN z = 1 .. d /\ z[d] = f
      /\ \A i \in 1 .. d : i # d => z[i] = stack[t][i]
  BY <1>1, <1>6
<1>9. f.pc = "members" /\ f.type = x /\ f.subs = subTypes[x]
  BY <1>1, <1>2, <1>5 DEF Frame
<1>10. f \in Frame
  <2>1. stack'[t] \in Seq(Frame)
    BY DEF TypeOK
  <2>2. z \in Seq(Frame) /\ d \in DOMAIN z
    BY <1>1, <1>7, <1>8, <2>1
  <2>3. QED
    BY <1>8, <2>2
<1>11. Listed' = Listed
  BY <1>0 DEF Listed, Known
<1>12. Shape(z, Listed')
  BY <1>0, <1>1, <1>6, <1>9, <1>10, ShapeGoto
     DEF NeverPCs, OptionPCs, ConfigPCs, FindPCs
<1>13. ASSUME NEW u \in Threads, NEW i \in DOMAIN stack[u], NEW g, g = stack[u][i]
       PROVE  FrameFixed(g)'
  <2>1. g \in Frame /\ FrameFixed(g) /\ g.type \in Types
    <3>1. stack[u] \in Seq(Frame)
      BY <1>1 DEF TypeOK
    <3>2. g \in Frame
      BY <1>13, <3>1
    <3>3. FrameFixed(g)
      BY <1>1, <1>13 DEF StacksFixed
    <3>4. QED
      BY <3>2, <3>3 DEF Frame
  <2>2. g.pc \notin Linking
    BY <1>0, <1>13, NothingLinks
  <2>3. (Known(g.type) => Known(g.type)') /\ (Frozen(g.type) => Frozen(g.type)')
    BY <1>0, <1>3, <2>1 DEF Known
  <2>4. QED
    BY <1>0, <2>1, <2>2, <2>3 DEF FrameFixed, Linking
<1>14. FrameFixed(f)'
  BY <1>0, <1>4, <1>9 DEF FrameFixed, Linking
<1>15. ASSUME NEW i \in DOMAIN z PROVE FrameFixed(z[i])'
  <2>1. CASE i = d
    BY <1>8, <1>14, <2>1
  <2>2. CASE i # d
    <3>1. i \in DOMAIN stack[t] /\ z[i] = stack[t][i]
      BY <1>1, <1>8, <2>2
    <3>2. QED
      BY <1>13, <3>1
  <2>3. QED
    BY <2>1, <2>2
<1>16. StacksFixed'
  <2>1. ASSUME NEW u \in Threads, u # t
        PROVE  (Shape(stack[u], Listed) /\ \A i \in DOMAIN stack[u] : FrameFixed(stack[u][i]))'
    <3>1. stack'[u] = stack[u]
      BY <1>1, <1>7, <2>1 DEF TypeOK
    <3>2. Shape(stack[u], Listed)'
      BY <1>1, <1>11, <3>1 DEF StacksFixed
    <3>3. (\A i \in DOMAIN stack[u] : FrameFixed(stack[u][i]))'
      <4>1. SUFFICES ASSUME NEW i \in DOMAIN stack[u] PROVE FrameFixed(stack[u][i])'
        BY <3>1
      <4>2. PICK g : g = stack[u][i]
        OBVIOUS
      <4>3. FrameFixed(g)' /\ stack'[u][i] = g
        BY <1>13, <3>1, <4>2
      <4>4. QED
        BY <4>3
    <3>4. QED
      BY <3>2, <3>3
  <2>2. (Shape(stack[t], Listed) /\ \A i \in DOMAIN stack[t] : FrameFixed(stack[t][i]))'
    BY <1>7, <1>12, <1>15
  <2>3. QED
    BY <2>1, <2>2 DEF StacksFixed
<1>17. DataFixed'
  <2>1. DataFixed
    BY DEF FixInv
  <2>2. (\A y \in Types : Frozen(y) => Known(y))'
    BY <1>0, <1>2, <1>3, <2>1 DEF DataFixed, Known
  <2>3. SerializerIsFrozen'
    BY <1>0, <1>3, <2>1 DEF DataFixed, SerializerIsFrozen
  <2>4. SerializerIsCurrent'
    BY <1>0, <2>1 DEF DataFixed, SerializerIsCurrent
  <2>5. QED
    BY <2>2, <2>3, <2>4 DEF DataFixed
<1>18. QED
  BY <1>16, <1>17

LEMMA BuildStepFixed ==
  ASSUME FixInv, TypeOK', NEW t \in Threads,
         Peek(t) \/ Build(t) \/ BuildMember(t) \/ Built(t)
  PROVE  StacksFixed' /\ DataFixed'
<1>0. CASE Build(t) /\ serializer[Top(t).type] = NoSerializer
  BY <1>0, FreezeFixed
<1>1. CASE ~(Build(t) /\ serializer[Top(t).type] = NoSerializer)
  <2>0. stack[t] # <<>> /\ serializer' = serializer /\ Kept
    BY <1>1, QuietIsKept DEF Peek, Build, BuildMember, Built, At, metaVars
  <2>1. /\ Top(t) \in Frame /\ Place(stack[t], Len(stack[t]), Listed)
        /\ Top(t) = stack[t][Len(stack[t])] /\ Len(stack[t]) \in Nat
    BY <2>0, StackIs
  <2>2. DataFixed'
    BY <2>0, DataKept DEF FixInv
  <2> SUFFICES StacksFixed'
    BY <2>2
  <2>3. CASE Peek(t)
    <3>1. Top(t).pc = "peek" /\ Known(Top(t).type)
      BY <2>1, <2>3 DEF Peek, At, Place, Listed
    <3>2. CASE Return(t)
      BY <2>0, <3>1, <3>2, ReturnFixed
    <3>3. CASE GotoPC(t, "serlock")
      BY <2>0, <3>1, <3>3, PCFixed DEF NeverPCs, OptionPCs, Linking, FindPCs, ConfigPCs
    <3>4. QED
      BY <2>3, <3>2, <3>3 DEF Peek
  <2>4. CASE Build(t)
    <3>1. Return(t) /\ Top(t).pc = "build"
      BY <1>1, <2>4 DEF Build, At
    <3>2. QED
      BY <2>0, <3>1, ReturnFixed DEF FindPCs
  <2>5. CASE BuildMember(t)
    <3>1. Top(t).pc = "members"
      BY <2>5 DEF BuildMember, At
    <3>2. PICK y \in Top(t).todo :
            Call(t, [Top(t) EXCEPT !.todo = @ \ {y}],
                    [NewFrame("getkey", y, NoType) EXCEPT !.next = "answer"])
      BY <2>5 DEF BuildMember
    <3>3. PICK f : f = [Top(t) EXCEPT !.todo = @ \ {y}]
      OBVIOUS
    <3>4. PICK g : g = [NewFrame("getkey", y, NoType) EXCEPT !.next = "answer"]
      OBVIOUS
    <3>5. /\ f.pc = "members" /\ f.type = Top(t).type /\ f.subs = Top(t).subs
          /\ g.pc = "getkey" /\ Call(t, f, g)
      BY <2>1, <3>1, <3>2, <3>3, <3>4 DEF Frame, NewFrame
    <3>6. QED
      BY <2>0, <3>1, <3>5, CallFixed DEF NeverPCs, OptionPCs, Linking, FindPCs, ConfigPCs
  <2>6. CASE Built(t)
    BY <2>0, <2>6, ReturnFixed DEF Built, At, FindPCs
  <2>7. QED
    BY <2>3, <2>4, <2>5, <2>6
<1>2. QED
  BY <1>0, <1>1

LEMMA StoreFixed ==
  ASSUME FixInv, TypeOK', NEW t \in Threads, StoreSerializer(t)
  PROVE  StacksFixed' /\ DataFixed'
<1>0. stack[t] # <<>> /\ Top(t).pc = "members" /\ Kept
  BY QuietIsKept DEF StoreSerializer, At
<1>1. Top(t).type \in Types /\ FrameFixed(Top(t))
  BY <1>0, StackIs
<1>2. StacksFixed'
  BY <1>0, PCFixed DEF StoreSerializer, NeverPCs, OptionPCs, Linking, FindPCs, ConfigPCs
<1>3. PICK x \in Types : x = Top(t).type /\ Frozen(x) /\ Top(t).subs = subTypes[x]
  BY <1>0, <1>1 DEF FrameFixed
<1>4. /\ types' = types /\ flags' = flags /\ fields' = fields
      /\ subTypes' = subTypes /\ baseType' = baseType
      /\ serializer' = [serializer EXCEPT ![x] =
           [fields |-> fields[x], subs |-> subTypes[x], root |-> baseType[x] = NoType]]
  BY <1>3 DEF StoreSerializer
<1>5. /\ DataFixed /\ serializer \in [Types -> Serializer \union {NoSerializer}]
  BY DEF FixInv, RegInv, Inv, TypeOK
<1>6. ASSUME NEW y \in Types
      PROVE  /\ (Frozen(y) => Known(y))'
             /\ (serializer[y] # NoSerializer => Frozen(y))'
             /\ (serializer[y] # NoSerializer =>
                   serializer[y] = [fields |-> fields[y], subs |-> subTypes[y],
                                    root |-> baseType[y] = NoType])'
  <2>1. (Frozen(y) => Known(y))'
    BY <1>4, <1>5 DEF DataFixed, Frozen, Known
  <2>2. CASE y = x
    <3>1. serializer'[y] = [fields |-> fields[y], subs |-> subTypes[y],
                            root |-> baseType[y] = NoType]
      BY <1>4, <1>5, <2>2
    <3>2. Frozen(y)'
      BY <1>3, <1>4, <2>2 DEF Frozen
    <3>3. QED
      BY <1>4, <2>1, <3>1, <3>2
  <2>3. CASE y # x
    <3>1. serializer'[y] = serializer[y]
      BY <1>4, <1>5, <2>3
    <3>2. serializer[y] # NoSerializer =>
            /\ Frozen(y)
            /\ serializer[y] = [fields |-> fields[y], subs |-> subTypes[y],
                                root |-> baseType[y] = NoType]
      BY <1>5 DEF DataFixed, SerializerIsFrozen, SerializerIsCurrent
    <3>3. QED
      BY <1>4, <2>1, <3>1, <3>2 DEF Frozen
  <2>4. QED
    BY <2>2, <2>3
<1>7. DataFixed'
  BY <1>6 DEF DataFixed, SerializerIsFrozen, SerializerIsCurrent
<1>8. QED
  BY <1>2, <1>7

LEMMA ConfigStepFixed ==
  ASSUME FixInv, TypeOK', NEW t \in Threads, ConfigStep(t)
  PROVE  StacksFixed' /\ DataFixed'
<1>0. stack[t] # <<>>
  BY DEF ConfigStep, ModelGet, FieldAdd, OptCheck, OptRead, OptWrite, AddFind,
         AddCreate, AddCheck, At
<1>1. Top(t) \in Frame /\ Top(t).type \in Types /\ Top(t).pc \notin NeverPCs
  BY <1>0, StackIs
<1>2. ~OptCheck(t) /\ ~OptRead(t) /\ ~OptWrite(t)
  BY <1>1 DEF OptCheck, OptRead, OptWrite, At, NeverPCs, OptionPCs
<1>3. types' = types /\ flags' = flags /\ serializer' = serializer
      /\ subTypes' = subTypes /\ baseType' = baseType
  BY <1>2 DEF ConfigStep, ModelGet, FieldAdd, AddFind, AddCreate, AddCheck, metaVars
<1>4. Kept
  <2>1. CASE fields' = fields
    BY <1>3, <2>1, QuietIsKept
  <2>2. CASE /\ ~Frozen(Top(t).type)
             /\ fields' = [fields EXCEPT ![Top(t).type] = @ \union {"extra"}]
    <3>1. fields \in [Types -> SUBSET Field]
      BY DEF FixInv, RegInv, Inv, TypeOK
    <3>2. \A x \in Types : Frozen(x) => fields'[x] = fields[x]
      BY <2>2, <3>1
    <3>3. QED
      BY <1>3, <3>2 DEF Kept, Known, Frozen
  <2>3. QED
    BY <1>2, <2>1, <2>2
       DEF ConfigStep, ModelGet, FieldAdd, AddFind, AddCreate, AddCheck, metaVars
<1>5. DataFixed'
  BY <1>3, <1>4, DataKept DEF FixInv
<1> SUFFICES StacksFixed'
  BY <1>5
<1>6. CASE ModelGet(t)
  <2>1. PICK pc \in {"fieldget", "compileget"} :
          /\ Top(t).pc = pc
          /\ Call(t, [Top(t) EXCEPT !.pc = CASE pc = "typeget" -> "subfind"
                                             [] pc = "fieldget" -> "fieldlock"
                                             [] pc = "optget" -> "optcheck"
                                             [] pc = "compileget" -> "peek"],
                     NewFrame("look", Top(t).type, NoType))
    BY <1>1, <1>6 DEF ModelGet, NeverPCs, OptionPCs
  <2>2. PICK f : f = [Top(t) EXCEPT !.pc = CASE pc = "typeget" -> "subfind"
                                             [] pc = "fieldget" -> "fieldlock"
                                             [] pc = "optget" -> "optcheck"
                                             [] pc = "compileget" -> "peek"]
    OBVIOUS
  <2>3. PICK g : g = NewFrame("look", Top(t).type, NoType)
    OBVIOUS
  <2>4. f.pc \in {"fieldlock", "peek"} /\ f.type = Top(t).type
    BY <1>1, <2>1, <2>2 DEF Frame
  <2>5. g.pc = "look" /\ g.type = Top(t).type /\ Call(t, f, g)
    BY <2>1, <2>2, <2>3 DEF NewFrame
  <2>6. QED
    BY <1>0, <1>4, <2>1, <2>4, <2>5, CallFixed
       DEF NeverPCs, OptionPCs, Linking, FindPCs, ConfigPCs
<1>7. CASE FieldAdd(t)
  <2>1. CASE Throw(t, "type frozen")
    BY <1>4, <2>1, ThrowFixed
  <2>2. CASE Return(t)
    BY <1>0, <1>4, <1>7, <2>2, ReturnFixed DEF FieldAdd, At, FindPCs
  <2>3. QED
    BY <1>7, <2>1, <2>2 DEF FieldAdd
<1>8. ASSUME NEW pc \in {"waitlock", "addcreate", "addlock", "add"}, GotoPC(t, pc),
             Top(t).pc \notin FindPCs
      PROVE  StacksFixed'
  BY <1>0, <1>4, <1>8, PCFixed DEF NeverPCs, OptionPCs, Linking, ConfigPCs
<1>9. CASE AddFind(t)
  <2>1. Top(t).pc = "addfind"
    BY <1>9 DEF AddFind, At
  <2>2. CASE Return(t)
    BY <1>0, <1>4, <2>1, <2>2, ReturnFixed DEF FindPCs
  <2>3. CASE GotoPC(t, "waitlock") \/ GotoPC(t, "addcreate")
    BY <1>8, <2>1, <2>3 DEF FindPCs
  <2>4. QED
    BY <1>9, <2>2, <2>3 DEF AddFind
<1>10. CASE AddCreate(t)
  <2>1. CASE Throw(t, "model frozen")
    BY <1>4, <2>1, ThrowFixed
  <2>2. CASE GotoPC(t, "addlock")
    BY <1>8, <1>10, <2>2 DEF AddCreate, At, FindPCs
  <2>3. QED
    BY <1>10, <2>1, <2>2 DEF AddCreate
<1>11. CASE AddCheck(t)
  <2>1. CASE Throw(t, "duplicate type") \/ Throw(t, "model frozen")
    BY <1>4, <2>1, ThrowFixed
  <2>2. CASE GotoPC(t, "add")
    BY <1>8, <1>11, <2>2 DEF AddCheck, At, FindPCs
  <2>3. QED
    BY <1>11, <2>1, <2>2 DEF AddCheck
<1>12. QED
  BY <1>2, <1>6, <1>7, <1>9, <1>10, <1>11 DEF ConfigStep

LEMMA StartFixed ==
  ASSUME Undisturbed, FixInv, NEW t \in Threads, Start(t)
  PROVE  StacksFixed' /\ DataFixed'
<1>1. ~AddSubType(t) /\ ~Configure(t)
  BY DEF Undisturbed, AddSubType, Configure, Begin
<1>2. Kept /\ serializer' = serializer
  BY <1>1, QuietIsKept DEF Start, Use, Compile, CompileListed, Add, AddField, Freeze, Begin, metaVars
<1>3. DataFixed'
  BY <1>2, DataKept DEF FixInv
<1>4. ASSUME NEW op, NEW pc \in {"getkey", "addfind", "fieldget", "compileget"},
             NEW x, Begin(t, op, pc, x, NoType)
      PROVE  StacksFixed'
  <2>1. PICK f : f = NewFrame(pc, x, NoType)
    OBVIOUS
  <2>2. PICK z : z = <<f>>
    OBVIOUS
  <2>3. f.pc = pc /\ stack' = [stack EXCEPT ![t] = z]
    BY <1>4, <2>1, <2>2 DEF NewFrame, Begin
  <2>4. QED
    BY <1>2, <2>2, <2>3, BeginFixed
<1>5. CASE Use(t) \/ Compile(t) \/ Add(t) \/ AddField(t)
  BY <1>3, <1>4, <1>5 DEF Use, Compile, Add, AddField
<1>8. CASE CompileListed(t)
  <2>1. PICK x \in Types : Known(x) /\ Begin(t, "Compile", "peek", x, NoType)
    BY <1>8 DEF CompileListed
  <2>2. PICK f : f = NewFrame("peek", x, NoType)
    OBVIOUS
  <2>3. PICK z : z = <<f>>
    OBVIOUS
  <2>4. /\ f.pc = "peek" /\ f.type \in Listed
        /\ stack' = [stack EXCEPT ![t] = z]
    BY <2>1, <2>2, <2>3 DEF NewFrame, Begin, Listed
  <2>5. StacksFixed'
    BY <1>2, <2>3, <2>4, BeginFixed
  <2>6. QED
    BY <1>3, <2>5
<1>6. CASE Freeze(t)
  <2>1. stack' = stack /\ types' = types /\ flags' = flags /\ subTypes' = subTypes
    BY <1>6 DEF Freeze, metaVars
  <2>2. StacksFixed'
    BY <2>1, StillFixed DEF FixInv
  <2>3. QED
    BY <1>3, <2>2
<1>7. QED
  BY <1>1, <1>5, <1>6, <1>8 DEF Start

LEMMA InitFixed == Init => FixInv
<1> SUFFICES ASSUME Init PROVE FixInv
  OBVIOUS
<1>1. StacksFixed
  <2>1. Len(<<>>) = 0 /\ DOMAIN <<>> = {} /\ 1 .. 0 = {}
    OBVIOUS
  <2>2. \A t \in Threads : stack[t] = <<>>
    BY DEF Init
  <2>3. Shape(<<>>, Listed)
    BY <2>1 DEF Shape
  <2>4. QED
    BY <2>1, <2>2, <2>3 DEF StacksFixed
<1>2. DataFixed
  BY DEF Init, DataFixed, SerializerIsFrozen, SerializerIsCurrent, Frozen
<1>3. QED
  BY <1>1, <1>2, InitReg DEF FixInv

LEMMA NextFixed == Undisturbed /\ FixInv /\ [Next]_vars => FixInv'
<1> SUFFICES ASSUME Undisturbed, FixInv, [Next]_vars PROVE FixInv'
  OBVIOUS
<1>1. RegInv' /\ TypeOK'
  BY NextReg DEF FixInv, RegInv, Inv
<1>2. ASSUME NEW t \in Threads, Step(t)
      PROVE  StacksFixed' /\ DataFixed'
  <2>1. CASE LockStep(t)
    BY <1>1, <2>1, LockStepFixed
  <2>2. CASE RegisterStep(t)
    BY <1>1, <2>2, FindStepFixed, AddTypeFixed, ApplyStepFixed, SubStepFixed
       DEF RegisterStep
  <2>3. CASE UseStep(t)
    BY <1>1, <2>3, RootStepFixed, BuildStepFixed, StoreFixed DEF UseStep
  <2>4. CASE ConfigStep(t)
    BY <1>1, <2>4, ConfigStepFixed
  <2>5. QED
    BY <1>2, <2>1, <2>2, <2>3, <2>4 DEF Step
<1>3. ASSUME UNCHANGED vars
      PROVE  StacksFixed' /\ DataFixed'
  <2>1. stack' = stack /\ types' = types /\ flags' = flags /\ fields' = fields
        /\ subTypes' = subTypes /\ baseType' = baseType /\ serializer' = serializer
    BY <1>3 DEF vars, metaVars
  <2>2. DataFixed'
    BY <2>1, QuietIsKept, DataKept DEF FixInv
  <2>3. QED
    BY <2>1, <2>2, StillFixed DEF FixInv
<1>4. StacksFixed' /\ DataFixed'
  BY <1>2, <1>3, StartFixed DEF Next, Done
<1>5. QED
  BY <1>1, <1>4 DEF FixInv

-----------------------------------------------------------------------------
(* What it adds up to.                                                     *)

LEMMA FixInvHolds == ASSUME Undisturbed PROVE Spec => []FixInv
<1>1. Init => FixInv
  BY InitFixed
<1>2. FixInv /\ [Next]_vars => FixInv'
  BY NextFixed
<1>3. QED
  BY <1>1, <1>2, PTL DEF Spec

\* "The type cannot be changed once a serializer has been generated"
\* (ThrowIfFrozen): a type with a serializer is frozen and stays so, whoever
\* built it and whatever is registered, given up or refused meanwhile.
THEOREM SerializersFreeze == ASSUME Undisturbed PROVE Spec => []SerializerIsFrozen
<1>1. FixInv => SerializerIsFrozen
  BY DEF FixInv, DataFixed
<1>2. QED
  BY <1>1, FixInvHolds, PTL

\* A change of a type's members or of its place in a hierarchy comes before its
\* serializer is begun or is refused: what a thread reads without the lock (the
\* Serializer getter) is what it would get in the lock.
THEOREM SerializersAreCurrent == ASSUME Undisturbed PROVE Spec => []SerializerIsCurrent
<1>1. FixInv => SerializerIsCurrent
  BY DEF FixInv, DataFixed
<1>2. QED
  BY <1>1, FixInvHolds, PTL

-----------------------------------------------------------------------------
(* Complete serializers, and then hierarchies.                             *)

\* The frames of ApplyDefaultBehaviour and of AddSubType; a thread that
\* registers a type never leaves these methods, nor FindOrAddAuto.
ApplyPCs == {"base", "include"}
SubPCs == {"subfind", "subcheck", "link", "subadd"}
RegisterPCs == FindPCs \union ApplyPCs \union SubPCs

\* The frames of GetRootType, and those that only some public calls have; the
\* [ProtoInclude]s that are left to do.
ClimbPCs == {"climb", "rootlock", "rootread", "rekey"}
AddPCs == {"addfind", "addcreate", "addlock", "addcheck"}
SetterPCs == OptionPCs \union {"optget"}

Proper(f) ==
  /\ f.pc = "typeget" => "AddSubType" \in Ops
  /\ f.pc \in AddPCs => "Add" \in Ops
  /\ f.pc \in SetterPCs => "Configure" \in Ops
  /\ f.pc = "include" => f.todo \subseteq ValidIncludes(f.type)

-----------------------------------------------------------------------------
(* Which method calls which.                                               *)

\* The type that a suspended frame has asked FindOrAddAuto for.
Wanted(f) == IF f.pc = "climb" THEN f.other ELSE f.type

\* The frame f is suspended in a call whose frame is g.
Calls(f, g) ==
  /\ f.pc # "base" /\ g.pc # "typeget"
  /\ f.pc = "ready" => g.pc \in ApplyPCs /\ g.type = f.type
  /\ g.pc \in ApplyPCs => f.pc = "ready"
  /\ f.pc = "include" =>
       \/ g.pc \in FindPCs /\ g.type = BaseOf[f.type]
       \/ /\ g.pc \in SubPCs /\ g.type = f.type
          /\ g.other \in ValidIncludes(f.type)
  /\ g.pc \in SubPCs => f.pc = "include"
  /\ f.pc \in {"climb", "peek"} => g.pc \in FindPCs /\ g.type = Wanted(f)

Neat(s) ==
  /\ \A i \in 1 .. Len(s) : Proper(s[i])
  /\ \A i, j \in 1 .. Len(s) :
       i < j /\ s[i].pc \in RegisterPCs => s[j].pc \in RegisterPCs
  /\ \A i \in 1 .. Len(s) - 1 : Calls(s[i], s[i + 1])
  /\ s # <<>> => /\ s[1].pc \notin ApplyPCs
                 /\ s[1].pc \in SubPCs => "AddSubType" \in Ops

StacksNeat == \A t \in Threads : Neat(stack[t])

\* A method stays itself: e is a frame, f the same one at a later statement.
Same(e, f) ==
  /\ e.pc \in FindPCs => f.pc \in FindPCs /\ f.type = e.type
  /\ f.pc \in ApplyPCs <=> e.pc \in ApplyPCs
  /\ f.pc \in ApplyPCs => f.type = e.type
  /\ e.pc \in SubPCs => f.pc \in SubPCs
  /\ f.pc \in SubPCs =>
       /\ e.pc \in SubPCs \union {"typeget"}
       /\ f.type = e.type /\ f.other = e.other
  /\ f.pc # "typeget"
  /\ f.pc \in AddPCs => e.pc \in AddPCs
  /\ f.pc \in SetterPCs => e.pc \in SetterPCs
  /\ f.pc = "include" => f.todo \subseteq ValidIncludes(f.type)

\* What a step may do to the stack of its thread.
Moved(t) ==
  \/ \E f \in Frame : Goto(t, f) /\ Same(Top(t), f)
  \/ \E f, g \in Frame :
       /\ Call(t, f, g) /\ Same(Top(t), f) /\ Calls(f, g)
       /\ f.pc \in RegisterPCs => g.pc \in RegisterPCs
       /\ g.pc \notin AddPCs \union SetterPCs \union {"include"}
  \/ Return(t)
  \/ stack' = [stack EXCEPT ![t] = <<>>]

LEMMA SameKeeps ==
  ASSUME NEW e, NEW f, Same(e, f)
  PROVE  /\ \A p : Calls(p, e) => Calls(p, f)
         /\ e.pc \in RegisterPCs => f.pc \in RegisterPCs
         /\ Proper(e) => Proper(f)
         /\ e.pc \notin ApplyPCs => f.pc \notin ApplyPCs
<1> USE DEF Same, FindPCs, ApplyPCs, SubPCs, AddPCs, SetterPCs, OptionPCs
<1>1. \A p : Calls(p, e) => Calls(p, f)
  BY DEF Calls
<1>2. e.pc \in RegisterPCs => f.pc \in RegisterPCs
  BY DEF RegisterPCs
<1>3. Proper(e) => Proper(f)
  BY DEF Proper
<1>4. QED
  BY <1>1, <1>2, <1>3

\* The movements of a call stack, as sequences.
LEMMA GotoIs ==
  ASSUME TypeOK, NEW t \in Threads, stack[t] # <<>>, NEW f, Goto(t, f)
  PROVE  /\ Len(stack[t]) \in Nat \ {0} /\ Len(stack'[t]) = Len(stack[t])
         /\ stack[t] \in Seq(Frame) /\ Top(t) = stack[t][Len(stack[t])]
         /\ stack'[t][Len(stack[t])] = f
         /\ \A i \in 1 .. Len(stack[t]) - 1 : stack'[t][i] = stack[t][i]
         /\ \A u \in Threads : u # t => stack'[u] = stack[u]
<1>1. /\ stack[t] \in Seq(Frame) /\ Len(stack[t]) \in Nat \ {0}
      /\ Depth(t) = Len(stack[t]) /\ Top(t) = stack[t][Len(stack[t])]
  BY TopIs
<1>2. /\ \A u \in Threads : u # t => stack'[u] = stack[u]
      /\ stack'[t] = [stack[t] EXCEPT ![Len(stack[t])] = f]
  BY <1>1 DEF Goto, TypeOK
<1>3. QED
  BY <1>1, <1>2

LEMMA CallIs ==
  ASSUME TypeOK, NEW t \in Threads, stack[t] # <<>>,
         NEW f \in Frame, NEW g \in Frame, Call(t, f, g)
  PROVE  /\ Len(stack[t]) \in Nat \ {0} /\ Len(stack'[t]) = Len(stack[t]) + 1
         /\ stack[t] \in Seq(Frame) /\ Top(t) = stack[t][Len(stack[t])]
         /\ stack'[t][Len(stack[t])] = f /\ stack'[t][Len(stack[t]) + 1] = g
         /\ \A i \in 1 .. Len(stack[t]) - 1 : stack'[t][i] = stack[t][i]
         /\ \A u \in Threads : u # t => stack'[u] = stack[u]
<1> DEFINE below == [stack[t] EXCEPT ![Len(stack[t])] = f]
<1>1. /\ stack[t] \in Seq(Frame) /\ Len(stack[t]) \in Nat \ {0}
      /\ Depth(t) = Len(stack[t]) /\ Top(t) = stack[t][Len(stack[t])]
  BY TopIs
<1>2. /\ \A u \in Threads : u # t => stack'[u] = stack[u]
      /\ stack'[t] = Append(below, g)
  BY <1>1 DEF Call, TypeOK
<1>3. /\ below \in Seq(Frame) /\ Len(below) = Len(stack[t])
      /\ below[Len(stack[t])] = f
      /\ \A i \in 1 .. Len(stack[t]) - 1 : below[i] = stack[t][i]
  BY <1>1
<1> HIDE DEF below
<1>4. QED
  BY <1>1, <1>2, <1>3

LEMMA ReturnIs ==
  ASSUME TypeOK, NEW t \in Threads, stack[t] # <<>>, Return(t)
  PROVE  /\ Len(stack[t]) \in Nat \ {0} /\ Len(stack'[t]) = Len(stack[t]) - 1
         /\ stack[t] \in Seq(Frame) /\ Top(t) = stack[t][Len(stack[t])]
         /\ \A i \in 1 .. Len(stack[t]) - 1 : stack'[t][i] = stack[t][i]
         /\ \A u \in Threads : u # t => stack'[u] = stack[u]
<1>1. /\ stack[t] \in Seq(Frame) /\ Len(stack[t]) \in Nat \ {0}
      /\ Depth(t) = Len(stack[t]) /\ Top(t) = stack[t][Len(stack[t])]
  BY TopIs
<1>2. /\ \A u \in Threads : u # t => stack'[u] = stack[u]
      /\ stack'[t] = SubSeq(stack[t], 1, Len(stack[t]) - 1)
  BY <1>1 DEF Return, TypeOK
<1>3. QED
  BY <1>1, <1>2

LEMMA MovedNeat ==
  ASSUME TypeOK, TypeOK', StacksNeat, NEW t \in Threads, stack[t] # <<>>, Moved(t)
  PROVE  StacksNeat'
<1> DEFINE s == stack[t]
           z == stack'[t]
           d == Len(stack[t])
<1>0. Neat(s) /\ z \in Seq(Frame)
  BY DEF StacksNeat, TypeOK
<1>1. SUFFICES Neat(z) /\ \A u \in Threads : u # t => stack'[u] = stack[u]
  BY DEF StacksNeat
<1>2. CASE \E f \in Frame : Goto(t, f) /\ Same(Top(t), f)
  <2>1. PICK f \in Frame : Goto(t, f) /\ Same(Top(t), f)
    BY <1>2
  <2>2. /\ d \in Nat \ {0} /\ d = Len(s) /\ Len(z) = d /\ z[d] = f /\ Same(s[d], f)
        /\ \A i \in 1 .. d - 1 : z[i] = s[i]
        /\ \A u \in Threads : u # t => stack'[u] = stack[u]
    BY <2>1, GotoIs
  <2>3. /\ \A p : Calls(p, s[d]) => Calls(p, f)
        /\ s[d].pc \in RegisterPCs => f.pc \in RegisterPCs
        /\ Proper(s[d]) => Proper(f)
        /\ s[d].pc \notin ApplyPCs => f.pc \notin ApplyPCs
    BY <2>2, SameKeeps
  <2> HIDE DEF s, z, d
  <2>4. \A i \in 1 .. Len(z) : Proper(z[i])
    BY <1>0, <2>2, <2>3 DEF Neat
  <2>5. ASSUME NEW i \in 1 .. Len(z), NEW j \in 1 .. Len(z),
               i < j, z[i].pc \in RegisterPCs
        PROVE  z[j].pc \in RegisterPCs
    BY <1>0, <2>2, <2>3, <2>5 DEF Neat
  <2>6. ASSUME NEW i \in 1 .. Len(z) - 1
        PROVE  Calls(z[i], z[i + 1])
    BY <1>0, <2>2, <2>3 DEF Neat
  <2>7. z[1].pc \notin ApplyPCs /\ (z[1].pc \in SubPCs => "AddSubType" \in Ops)
    BY <1>0, <2>2, <2>3 DEF Neat, Same, Proper
  <2>8. QED
    BY <2>2, <2>4, <2>5, <2>6, <2>7 DEF Neat
<1>3. CASE \E f, g \in Frame :
             /\ Call(t, f, g) /\ Same(Top(t), f) /\ Calls(f, g)
             /\ f.pc \in RegisterPCs => g.pc \in RegisterPCs
             /\ g.pc \notin AddPCs \union SetterPCs \union {"include"}
  <2>1. PICK f, g \in Frame :
             /\ Call(t, f, g) /\ Same(Top(t), f) /\ Calls(f, g)
             /\ f.pc \in RegisterPCs => g.pc \in RegisterPCs
             /\ g.pc \notin AddPCs \union SetterPCs \union {"include"}
    BY <1>3
  <2>2. /\ d \in Nat \ {0} /\ d = Len(s) /\ Len(z) = d + 1 /\ z[d] = f /\ z[d + 1] = g
        /\ Same(s[d], f) /\ Calls(f, g) /\ Proper(g)
        /\ \A i \in 1 .. d - 1 : z[i] = s[i]
        /\ \A u \in Threads : u # t => stack'[u] = stack[u]
    BY <2>1, CallIs DEF Proper, Calls
  <2>3. /\ \A p : Calls(p, s[d]) => Calls(p, f)
        /\ s[d].pc \in RegisterPCs => f.pc \in RegisterPCs
        /\ Proper(s[d]) => Proper(f)
        /\ s[d].pc \notin ApplyPCs => f.pc \notin ApplyPCs
    BY <2>2, SameKeeps
  <2> HIDE DEF s, z, d
  <2>4. \A i \in 1 .. Len(z) : Proper(z[i])
    BY <1>0, <2>2, <2>3 DEF Neat
  <2>5. ASSUME NEW i \in 1 .. Len(z), NEW j \in 1 .. Len(z),
               i < j, z[i].pc \in RegisterPCs
        PROVE  z[j].pc \in RegisterPCs
    <3>1. i < d => z[d].pc \in RegisterPCs
      BY <1>0, <2>2, <2>3, <2>5 DEF Neat
    <3>2. CASE j = d + 1
      BY <2>1, <2>2, <2>5, <3>1, <3>2
    <3>3. CASE j = d
      BY <2>2, <2>5, <3>1, <3>3
    <3>4. CASE j < d
      <4>1. /\ i \in 1 .. d - 1 /\ j \in 1 .. d - 1
            /\ i \in 1 .. Len(s) /\ j \in 1 .. Len(s)
        BY <2>2, <2>5, <3>4
      <4>2. s[i].pc \in RegisterPCs
        BY <2>2, <2>5, <4>1
      <4>3. s[j].pc \in RegisterPCs
        BY <1>0, <2>5, <4>1, <4>2 DEF Neat
      <4>4. QED
        BY <2>2, <4>1, <4>3
    <3>5. QED
      BY <2>2, <3>2, <3>3, <3>4
  <2>6. ASSUME NEW i \in 1 .. Len(z) - 1
        PROVE  Calls(z[i], z[i + 1])
    <3>1. CASE i = d
      BY <2>2, <3>1
    <3>2. CASE i # d
      <4>1. i \in 1 .. d - 1 /\ (i + 1 = d \/ i + 1 \in 1 .. d - 1)
        BY <2>2, <3>2
      <4>2. Calls(s[i], s[i + 1]) /\ z[i] = s[i]
        BY <1>0, <2>2, <4>1 DEF Neat
      <4>3. QED
        BY <2>2, <2>3, <4>1, <4>2
    <3>3. QED
      BY <3>1, <3>2
  <2>7. z[1].pc \notin ApplyPCs /\ (z[1].pc \in SubPCs => "AddSubType" \in Ops)
    BY <1>0, <2>2, <2>3 DEF Neat, Same, Proper
  <2>8. QED
    BY <2>2, <2>4, <2>5, <2>6, <2>7 DEF Neat
<1>4. CASE Return(t)
  <2>1. /\ d \in Nat \ {0} /\ d = Len(s) /\ Len(z) = d - 1
        /\ \A i \in 1 .. d - 1 : z[i] = s[i]
        /\ \A u \in Threads : u # t => stack'[u] = stack[u]
    BY <1>4, ReturnIs
  <2> HIDE DEF s, z, d
  <2>2. \A i \in 1 .. Len(z) : i \in 1 .. d - 1 /\ i \in 1 .. Len(s) /\ z[i] = s[i]
    BY <2>1
  <2>3. \A i \in 1 .. Len(z) : Proper(z[i])
    BY <1>0, <2>2 DEF Neat
  <2>4. ASSUME NEW i \in 1 .. Len(z), NEW j \in 1 .. Len(z),
               i < j, z[i].pc \in RegisterPCs
        PROVE  z[j].pc \in RegisterPCs
    BY <1>0, <2>2, <2>4 DEF Neat
  <2>5. ASSUME NEW i \in 1 .. Len(z) - 1
        PROVE  Calls(z[i], z[i + 1])
    <3>1. i \in 1 .. Len(s) - 1 /\ i \in 1 .. Len(z) /\ i + 1 \in 1 .. Len(z)
      BY <2>1
    <3>2. Calls(s[i], s[i + 1])
      BY <1>0, <3>1 DEF Neat
    <3>3. QED
      BY <2>2, <3>1, <3>2
  <2>6. ASSUME z # <<>>
        PROVE  z[1].pc \notin ApplyPCs /\ (z[1].pc \in SubPCs => "AddSubType" \in Ops)
    <3>1. 1 \in 1 .. Len(z)
      BY <1>0, <2>1, <2>6
    <3>2. s # <<>> /\ z[1] = s[1]
      BY <2>1, <2>2, <3>1 DEF d, s
    <3>3. QED
      BY <1>0, <3>2 DEF Neat
  <2>7. QED
    BY <2>1, <2>3, <2>4, <2>5, <2>6 DEF Neat
<1>5. CASE stack' = [stack EXCEPT ![t] = <<>>]
  <2>1. z = <<>> /\ \A u \in Threads : u # t => stack'[u] = stack[u]
    BY <1>5 DEF TypeOK
  <2>2. QED
    BY <2>1 DEF Neat
<1>6. QED
  BY <1>2, <1>3, <1>4, <1>5 DEF Moved

-----------------------------------------------------------------------------
(* Every action moves its stack like this.                                 *)

LEMMA GotoFrame ==
  ASSUME TypeOK, TypeOK', NEW t \in Threads, stack[t] # <<>>, NEW f, Goto(t, f)
  PROVE  f \in Frame
<1>1. stack'[t] \in Seq(Frame)
  BY DEF TypeOK
<1>2. QED
  BY <1>1, GotoIs

LEMMA CallFrames ==
  ASSUME TypeOK, TypeOK', NEW t \in Threads, stack[t] # <<>>,
         NEW f, NEW g, Call(t, f, g)
  PROVE  f \in Frame /\ g \in Frame
<1> DEFINE d == Len(stack[t])
           below == [stack[t] EXCEPT ![d] = f]
<1>1. stack[t] \in Seq(Frame) /\ d \in Nat \ {0} /\ Depth(t) = d
  BY TopIs
<1>2. stack'[t] = Append(below, g) /\ stack'[t] \in Seq(Frame)
  BY <1>1 DEF Call, TypeOK
<1>3. below \in Seq(Frame \union {f}) /\ Len(below) = d /\ below[d] = f
  BY <1>1
<1> HIDE DEF below
<1>4. /\ Len(stack'[t]) = d + 1 /\ stack'[t][d] = f /\ stack'[t][d + 1] = g
  BY <1>1, <1>2, <1>3
<1>5. QED
  BY <1>1, <1>2, <1>4

LEMMA GotoMoves ==
  ASSUME TypeOK, TypeOK', NEW t \in Threads, stack[t] # <<>>,
         NEW f, Goto(t, f), Same(Top(t), f)
  PROVE  Moved(t)
BY GotoFrame DEF Moved

LEMMA CallMoves ==
  ASSUME TypeOK, TypeOK', NEW t \in Threads, stack[t] # <<>>,
         NEW f, NEW g, Call(t, f, g), Same(Top(t), f), Calls(f, g),
         f.pc \in RegisterPCs => g.pc \in RegisterPCs,
         g.pc \notin AddPCs \union SetterPCs \union {"include"}
  PROVE  Moved(t)
<1>1. f \in Frame /\ g \in Frame
  BY CallFrames
<1>2. QED
  BY <1>1 DEF Moved

LEMMA PCMoves ==
  ASSUME TypeOK, TypeOK', NEW t \in Threads, stack[t] # <<>>,
         NEW pc, GotoPC(t, pc), pc # "include",
         Top(t).pc \in FindPCs => pc \in FindPCs,
         pc \in ApplyPCs <=> Top(t).pc \in ApplyPCs,
         pc \in SubPCs <=> Top(t).pc \in SubPCs,
         pc # "typeget",
         pc \in AddPCs => Top(t).pc \in AddPCs,
         pc \in SetterPCs => Top(t).pc \in SetterPCs
  PROVE  Moved(t)
<1> DEFINE f == [Top(t) EXCEPT !.pc = pc]
<1>1. f.pc = pc /\ f.type = Top(t).type /\ f.other = Top(t).other /\ Goto(t, f)
  BY TopIs DEF Frame, GotoPC
<1> HIDE DEF f
<1>2. Same(Top(t), f)
  BY <1>1 DEF Same
<1>3. QED
  BY <1>1, <1>2, GotoMoves

LEMMA ThrowMoves ==
  ASSUME NEW t \in Threads, NEW reason, Throw(t, reason)
  PROVE  Moved(t)
BY DEF Throw, Moved

LEMMA LockStepMoves ==
  ASSUME TypeOK, TypeOK', NEW t \in Threads, LockStep(t)
  PROVE  stack[t] # <<>> /\ Moved(t)
<1>1. ASSUME NEW pc, stack[t] # <<>>, TakeLock(t, pc),
             pc \notin ApplyPCs \union SubPCs \union SetterPCs \union {"typeget"},
             Top(t).pc \notin ApplyPCs \union SubPCs,
             Top(t).pc \in FindPCs => pc \in FindPCs,
             pc \in AddPCs => Top(t).pc \in AddPCs
      PROVE  Moved(t)
  <2> DEFINE f == [Top(t) EXCEPT !.pc = pc, !.held = TRUE]
  <2>1. f.pc = pc /\ f.type = Top(t).type /\ Goto(t, f)
    BY <1>1, TopIs DEF Frame, TakeLock
  <2> HIDE DEF f
  <2>2. Same(Top(t), f)
    BY <1>1, <2>1 DEF Same, ApplyPCs
  <2>3. QED
    BY <1>1, <2>1, <2>2, GotoMoves
<1> USE DEF FindPCs, ApplyPCs, SubPCs, AddPCs, SetterPCs, OptionPCs
<1>2. CASE WaitLock(t)
  BY <1>1, <1>2 DEF WaitLock, At
<1>3. CASE Take(t)
  BY <1>1, <1>3 DEF Take, At
<1>4. CASE RootLock(t)
  BY <1>1, <1>4 DEF RootLock, At
<1>5. CASE SerLock(t)
  BY <1>1, <1>5 DEF SerLock, At
<1>6. CASE FieldLock(t)
  BY <1>1, <1>6 DEF FieldLock, At
<1>7. CASE AddLock(t)
  BY <1>1, <1>7 DEF AddLock, At
<1>8. CASE TakeLockTimeout(t)
  BY <1>8, ThrowMoves DEF TakeLockTimeout
<1>9. QED
  BY <1>2, <1>3, <1>4, <1>5, <1>6, <1>7, <1>8 DEF LockStep

LEMMA FindStepMoves ==
  ASSUME TypeOK, TypeOK', NEW t \in Threads,
         \/ Look(t) \/ Waited(t) \/ Create(t) \/ Recheck(t) \/ AddType(t)
         \/ Ready(t) \/ Leave(t)
  PROVE  stack[t] # <<>> /\ Moved(t)
<1> USE DEF FindPCs, ApplyPCs, SubPCs, AddPCs, SetterPCs, OptionPCs
<1>1. CASE Look(t)
  BY <1>1, PCMoves DEF Look, At, Moved
<1>2. CASE Waited(t) \/ Leave(t)
  BY <1>2 DEF Waited, Leave, At, Moved
<1>3. CASE Create(t)
  BY <1>3, PCMoves, ThrowMoves DEF Create, At
<1>4. CASE Recheck(t)
  BY <1>4, PCMoves, ThrowMoves DEF Recheck, At, Moved
<1>5. CASE AddType(t)
  <2> DEFINE f == [Top(t) EXCEPT !.pc = "ready"]
             g == NewFrame("base", Top(t).type, NoType)
  <2>1. /\ stack[t] # <<>> /\ Top(t).pc = "add" /\ Call(t, f, g)
    BY <1>5 DEF AddType, At
  <2>2. /\ f.pc = "ready" /\ f.type = Top(t).type
        /\ g.pc = "base" /\ g.type = Top(t).type
    BY <2>1, TopIs DEF Frame, NewFrame
  <2> HIDE DEF f, g
  <2>3. Same(Top(t), f) /\ Calls(f, g) /\ g.pc \in RegisterPCs
    BY <2>1, <2>2 DEF Same, Calls, RegisterPCs
  <2>4. QED
    BY <2>1, <2>2, <2>3, CallMoves
<1>6. CASE Ready(t)
  BY <1>6, PCMoves DEF Ready, At
<1>7. QED
  BY <1>1, <1>2, <1>3, <1>4, <1>5, <1>6

LEMMA ApplyStepMoves ==
  ASSUME TypeOK, TypeOK', StacksNeat, NEW t \in Threads,
         ApplyBase(t) \/ ApplyInclude(t) \/ ApplyMembers(t) \/ ApplyThrows(t)
  PROVE  stack[t] # <<>> /\ Moved(t)
<1> USE DEF FindPCs, ApplyPCs, SubPCs, AddPCs, SetterPCs, OptionPCs
<1>0. stack[t] # <<>>
  BY DEF ApplyBase, ApplyInclude, ApplyMembers, ApplyThrows, At
<1>00. Top(t) \in Frame /\ Top(t).type \in Types
  BY <1>0, TopIs DEF Frame
<1>1. CASE ApplyBase(t)
  <2> DEFINE x == Top(t).type
             f == [Top(t) EXCEPT !.pc = "include", !.todo = ValidIncludes(x)]
             g == NewFrame("look", BaseOf[x], NoType)
  <2>1. /\ f.pc = "include" /\ f.type = x
        /\ g.pc = "look" /\ g.type = BaseOf[x] /\ Top(t).pc = "base"
        /\ f.todo = ValidIncludes(x)
        /\ Call(t, f, g) \/ Goto(t, f)
    BY <1>00, <1>1 DEF ApplyBase, At, Frame, NewFrame
  <2> HIDE DEF f, g
  <2>2. Same(Top(t), f) /\ Calls(f, g) /\ g.pc \in RegisterPCs
    BY <2>1 DEF Same, Calls, RegisterPCs
  <2>3. QED
    BY <1>0, <2>1, <2>2, CallMoves, GotoMoves
<1>2. CASE ApplyInclude(t)
  <2>0. Top(t).todo \subseteq ValidIncludes(Top(t).type) /\ Top(t).pc = "include"
    <3>1. Neat(stack[t]) /\ Top(t).pc = "include" /\ Len(stack[t]) \in 1 .. Len(stack[t])
          /\ Top(t) = stack[t][Len(stack[t])]
      BY <1>0, <1>2, TopIs DEF StacksNeat, ApplyInclude, At
    <3>2. QED
      BY <3>1 DEF Neat, Proper
  <2>1. PICK d \in Top(t).todo :
          Call(t, [Top(t) EXCEPT !.todo = @ \ {d}],
                  NewFrame("subfind", Top(t).type, d))
    BY <1>2 DEF ApplyInclude
  <2> DEFINE f == [Top(t) EXCEPT !.todo = @ \ {d}]
             g == NewFrame("subfind", Top(t).type, d)
  <2>2. /\ f.pc = "include" /\ f.type = Top(t).type /\ Call(t, f, g)
        /\ g.pc = "subfind" /\ g.type = f.type /\ g.other = d
        /\ f.todo \subseteq ValidIncludes(f.type) /\ d \in ValidIncludes(f.type)
    BY <1>00, <2>0, <2>1 DEF Frame, NewFrame
  <2> HIDE DEF f, g
  <2>3. Same(Top(t), f) /\ Calls(f, g) /\ g.pc \in RegisterPCs
    BY <2>0, <2>2 DEF Same, Calls, RegisterPCs
  <2>4. QED
    BY <1>0, <2>2, <2>3, CallMoves
<1>3. CASE ApplyMembers(t) \/ ApplyThrows(t)
  BY <1>0, <1>3, ThrowMoves DEF ApplyMembers, ApplyThrows, Moved
<1>4. QED
  BY <1>0, <1>1, <1>2, <1>3

LEMMA SubStepMoves ==
  ASSUME TypeOK, TypeOK', NEW t \in Threads,
         SubFind(t) \/ SubCheck(t) \/ Link(t) \/ SubAdd(t)
  PROVE  stack[t] # <<>> /\ Moved(t)
<1> USE DEF FindPCs, ApplyPCs, SubPCs, AddPCs, SetterPCs, OptionPCs
<1>1. CASE SubFind(t)
  <2> DEFINE f == [Top(t) EXCEPT !.pc = "subcheck"]
             g == NewFrame("look", Top(t).other, NoType)
  <2>1. stack[t] # <<>> /\ Top(t).pc = "subfind" /\ Call(t, f, g)
    BY <1>1 DEF SubFind, At
  <2>2. /\ f.pc = "subcheck" /\ f.type = Top(t).type /\ f.other = Top(t).other
        /\ g.pc = "look"
    BY <2>1, TopIs DEF Frame, NewFrame
  <2> HIDE DEF f, g
  <2>3. Same(Top(t), f) /\ Calls(f, g) /\ g.pc \in RegisterPCs
    BY <2>1, <2>2 DEF Same, Calls, RegisterPCs
  <2>4. QED
    BY <2>1, <2>2, <2>3, CallMoves
<1>2. CASE SubCheck(t)
  BY <1>2, PCMoves, ThrowMoves DEF SubCheck, At
<1>3. CASE Link(t)
  BY <1>3, PCMoves, ThrowMoves DEF Link, At
<1>4. CASE SubAdd(t)
  BY <1>4 DEF SubAdd, At, Moved
<1>5. QED
  BY <1>1, <1>2, <1>3, <1>4

LEMMA RootStepMoves ==
  ASSUME TypeOK, TypeOK', NEW t \in Threads,
         GetKey(t) \/ Climb(t) \/ RootRead(t) \/ Rekey(t) \/ Answer(t)
  PROVE  stack[t] # <<>> /\ Moved(t)
<1> USE DEF FindPCs, ApplyPCs, SubPCs, AddPCs, SetterPCs, OptionPCs
<1>0. stack[t] # <<>> /\ Top(t) \in Frame
  BY TopIs DEF GetKey, Climb, RootRead, Rekey, Answer, At
<1>1. CASE GetKey(t)
  <2> DEFINE f == [Top(t) EXCEPT !.pc = "climb", !.other = Top(t).type]
             g == NewFrame("look", Top(t).type, NoType)
  <2>1. /\ Top(t).pc = "getkey" /\ Call(t, f, g)
        /\ f.pc = "climb" /\ f.other = Top(t).type
        /\ g.pc = "look" /\ g.type = Top(t).type
    BY <1>0, <1>1 DEF GetKey, At, Frame, NewFrame
  <2> HIDE DEF f, g
  <2>2. Same(Top(t), f) /\ Calls(f, g) /\ f.pc \notin RegisterPCs
    BY <2>1 DEF Same, Calls, RegisterPCs, Wanted
  <2>3. QED
    BY <1>0, <2>1, <2>2, CallMoves
<1>2. CASE Climb(t)
  <2> DEFINE f == [Top(t) EXCEPT !.other = baseType[Top(t).other]]
  <2>1. Top(t).pc = "climb"
    BY <1>2 DEF Climb, At
  <2>2. f.pc = "climb"
    BY <1>0, <2>1 DEF Frame
  <2>3. Goto(t, f) \/ GotoPC(t, "rootlock") \/ GotoPC(t, "rekey")
    BY <1>2 DEF Climb
  <2> HIDE DEF f
  <2>4. Same(Top(t), f)
    BY <2>1, <2>2 DEF Same
  <2>5. QED
    BY <1>0, <2>1, <2>3, <2>4, GotoMoves, PCMoves
<1>3. CASE RootRead(t)
  <2> DEFINE f == [Top(t) EXCEPT !.other = baseType[Top(t).other]]
             g == [Top(t) EXCEPT !.pc = "rekey", !.held = FALSE]
  <2>1. Top(t).pc = "rootread"
    BY <1>3 DEF RootRead, At
  <2>2. f.pc = "rootread" /\ g.pc = "rekey"
    BY <1>0, <2>1 DEF Frame
  <2>3. Goto(t, f) \/ Goto(t, g)
    BY <1>3 DEF RootRead
  <2> HIDE DEF f, g
  <2>4. Same(Top(t), f) /\ Same(Top(t), g)
    BY <2>1, <2>2 DEF Same
  <2>5. QED
    BY <1>0, <2>3, <2>4, GotoMoves
<1>4. CASE Rekey(t)
  <2> DEFINE f == [Top(t) EXCEPT !.pc = Top(t).next, !.type = Top(t).other]
             g == NewFrame("look", Top(t).other, NoType)
  <2>1. /\ Top(t).pc = "rekey" /\ Call(t, f, g)
        /\ f.pc \in {"peek", "answer"} /\ f.type = Top(t).other
        /\ g.pc = "look" /\ g.type = Top(t).other
    BY <1>0, <1>4 DEF Rekey, At, Frame, NewFrame
  <2> HIDE DEF f, g
  <2>2. Same(Top(t), f) /\ Calls(f, g) /\ f.pc \notin RegisterPCs
    BY <2>1 DEF Same, Calls, RegisterPCs, Wanted
  <2>3. QED
    BY <1>0, <2>1, <2>2, CallMoves
<1>5. CASE Answer(t)
  BY <1>0, <1>5 DEF Answer, Moved
<1>6. QED
  BY <1>0, <1>1, <1>2, <1>3, <1>4, <1>5

LEMMA BuildStepMoves ==
  ASSUME TypeOK, TypeOK', NEW t \in Threads,
         Peek(t) \/ Build(t) \/ BuildMember(t) \/ StoreSerializer(t) \/ Built(t)
  PROVE  stack[t] # <<>> /\ Moved(t)
<1> USE DEF FindPCs, ApplyPCs, SubPCs, AddPCs, SetterPCs, OptionPCs
<1>0. stack[t] # <<>> /\ Top(t) \in Frame
  BY TopIs DEF Peek, Build, BuildMember, StoreSerializer, Built, At
<1>1. CASE Peek(t)
  BY <1>0, <1>1, PCMoves DEF Peek, At, Moved
<1>2. CASE Build(t)
  <2> DEFINE f == [Top(t) EXCEPT !.pc = "members", !.todo = Members[Top(t).type],
                                 !.subs = subTypes[Top(t).type]]
  <2>1. Top(t).pc = "build" /\ f.pc = "members" /\ (Return(t) \/ Goto(t, f))
    BY <1>0, <1>2 DEF Build, At, Frame
  <2> HIDE DEF f
  <2>2. Same(Top(t), f)
    BY <2>1 DEF Same
  <2>3. QED
    BY <1>0, <2>1, <2>2, GotoMoves DEF Moved
<1>3. CASE BuildMember(t)
  <2>1. PICK y \in Top(t).todo :
          Call(t, [Top(t) EXCEPT !.todo = @ \ {y}],
                  [NewFrame("getkey", y, NoType) EXCEPT !.next = "answer"])
    BY <1>3 DEF BuildMember
  <2> DEFINE f == [Top(t) EXCEPT !.todo = @ \ {y}]
             g == [NewFrame("getkey", y, NoType) EXCEPT !.next = "answer"]
  <2>2. /\ f.pc = "members" /\ g.pc = "getkey" /\ Call(t, f, g)
        /\ Top(t).pc = "members"
    BY <1>0, <1>3, <2>1 DEF BuildMember, At, Frame, NewFrame
  <2> HIDE DEF f, g
  <2>3. Same(Top(t), f) /\ Calls(f, g) /\ f.pc \notin RegisterPCs
    BY <2>2 DEF Same, Calls, RegisterPCs
  <2>4. QED
    BY <1>0, <2>2, <2>3, CallMoves
<1>4. CASE StoreSerializer(t)
  BY <1>0, <1>4, PCMoves DEF StoreSerializer, At
<1>5. CASE Built(t)
  BY <1>0, <1>5 DEF Built, Moved
<1>6. QED
  BY <1>0, <1>1, <1>2, <1>3, <1>4, <1>5

LEMMA ConfigStepMoves ==
  ASSUME TypeOK, TypeOK', NEW t \in Threads, ConfigStep(t)
  PROVE  stack[t] # <<>> /\ Moved(t)
<1> USE DEF FindPCs, ApplyPCs, SubPCs, AddPCs, SetterPCs, OptionPCs
<1>0. stack[t] # <<>> /\ Top(t) \in Frame
  BY TopIs DEF ConfigStep, ModelGet, FieldAdd, OptCheck, OptRead, OptWrite,
               AddFind, AddCreate, AddCheck, At
<1>1. CASE ModelGet(t)
  <2>1. PICK pc \in {"typeget", "fieldget", "optget", "compileget"} :
          /\ Top(t).pc = pc
          /\ Call(t, [Top(t) EXCEPT !.pc = CASE pc = "typeget" -> "subfind"
                                             [] pc = "fieldget" -> "fieldlock"
                                             [] pc = "optget" -> "optcheck"
                                             [] pc = "compileget" -> "peek"],
                     NewFrame("look", Top(t).type, NoType))
    BY <1>1 DEF ModelGet
  <2> DEFINE next == CASE pc = "typeget" -> "subfind"
                       [] pc = "fieldget" -> "fieldlock"
                       [] pc = "optget" -> "optcheck"
                       [] pc = "compileget" -> "peek"
             f == [Top(t) EXCEPT !.pc = next]
             g == NewFrame("look", Top(t).type, NoType)
  <2>2. /\ next \in {"subfind", "fieldlock", "optcheck", "peek"}
        /\ next = "subfind" => pc = "typeget"
        /\ next = "optcheck" => pc = "optget"
    OBVIOUS
  <2>3. Call(t, f, g)
    BY <2>1
  <2> HIDE DEF next
  <2>4. /\ f.pc = next /\ f.type = Top(t).type /\ f.other = Top(t).other
        /\ g.pc = "look" /\ g.type = Top(t).type
    BY <1>0 DEF Frame, NewFrame
  <2> HIDE DEF f, g
  <2>5. Same(Top(t), f) /\ Calls(f, g) /\ g.pc \in RegisterPCs
    BY <2>1, <2>2, <2>4 DEF Same, Calls, RegisterPCs, Wanted
  <2>6. QED
    BY <1>0, <2>3, <2>4, <2>5, CallMoves
<1>2. CASE FieldAdd(t)
  BY <1>0, <1>2, ThrowMoves DEF FieldAdd, Moved
<1>3. CASE OptCheck(t)
  BY <1>0, <1>3, PCMoves, ThrowMoves DEF OptCheck, At
<1>4. CASE OptRead(t)
  <2> DEFINE f == [Top(t) EXCEPT !.pc = "optwrite", !.saved = flags[Top(t).type]]
  <2>1. Top(t).pc = "optread" /\ f.pc = "optwrite" /\ Goto(t, f)
    BY <1>0, <1>4 DEF OptRead, At, Frame
  <2> HIDE DEF f
  <2>2. Same(Top(t), f)
    BY <2>1 DEF Same
  <2>3. QED
    BY <1>0, <2>1, <2>2, GotoMoves
<1>5. CASE OptWrite(t)
  BY <1>0, <1>5 DEF OptWrite, Moved
<1>6. CASE AddFind(t)
  BY <1>0, <1>6, PCMoves DEF AddFind, At, Moved
<1>7. CASE AddCreate(t)
  BY <1>0, <1>7, PCMoves, ThrowMoves DEF AddCreate, At
<1>8. CASE AddCheck(t)
  BY <1>0, <1>8, PCMoves, ThrowMoves DEF AddCheck, At
<1>9. QED
  BY <1>0, <1>1, <1>2, <1>3, <1>4, <1>5, <1>6, <1>7, <1>8 DEF ConfigStep

LEMMA StepMoves ==
  ASSUME TypeOK, TypeOK', StacksNeat, NEW t \in Threads, Step(t)
  PROVE  stack[t] # <<>> /\ Moved(t)
<1>1. CASE LockStep(t)
  BY <1>1, LockStepMoves
<1>2. CASE RegisterStep(t)
  BY <1>2, FindStepMoves, ApplyStepMoves, SubStepMoves DEF RegisterStep
<1>3. CASE UseStep(t)
  BY <1>3, RootStepMoves, BuildStepMoves DEF UseStep
<1>4. CASE ConfigStep(t)
  BY <1>4, ConfigStepMoves
<1>5. QED
  BY <1>1, <1>2, <1>3, <1>4 DEF Step

\* A call starts with one frame, of the method that was called.
LEMMA StartNeat ==
  ASSUME TypeOK, StacksNeat, NEW t \in Threads, Start(t)
  PROVE  StacksNeat'
<1> USE DEF FindPCs, ApplyPCs, SubPCs, AddPCs, SetterPCs, OptionPCs
<1>1. ASSUME NEW op, NEW pc, NEW x, NEW y, Begin(t, op, pc, x, y),
             pc \notin ApplyPCs \union SubPCs,
             pc = "typeget" => "AddSubType" \in Ops,
             pc \in AddPCs => "Add" \in Ops,
             pc \in SetterPCs => "Configure" \in Ops
      PROVE  StacksNeat'
  <2>1. PICK f : f = NewFrame(pc, x, y)
    OBVIOUS
  <2>2. /\ stack'[t] = <<f>> /\ \A u \in Threads : u # t => stack'[u] = stack[u]
        /\ f.pc = pc
    BY <1>1, <2>1 DEF Begin, TypeOK, NewFrame
  <2>3. Len(<<f>>) = 1 /\ <<f>>[1] = f
    OBVIOUS
  <2>4. Proper(f)
    BY <1>1, <2>2 DEF Proper
  <2>5. Neat(<<f>>)
    BY <1>1, <2>2, <2>3, <2>4 DEF Neat
  <2>6. QED
    BY <2>2, <2>5 DEF StacksNeat
<1>2. CASE Use(t)
  BY <1>1, <1>2 DEF Use
<1>3. CASE Compile(t) \/ CompileListed(t)
  BY <1>1, <1>3 DEF Compile, CompileListed
<1>4. CASE Add(t)
  <2>1. "Add" \in Ops
    BY <1>4 DEF Add, Begin
  <2>2. QED
    BY <1>1, <1>4, <2>1 DEF Add
<1>5. CASE AddField(t)
  BY <1>1, <1>5 DEF AddField
<1>6. CASE Configure(t)
  <2>1. "Configure" \in Ops
    BY <1>6 DEF Configure, Begin
  <2>2. QED
    BY <1>1, <1>6, <2>1 DEF Configure
<1>7. CASE AddSubType(t)
  <2>1. "AddSubType" \in Ops
    BY <1>7 DEF AddSubType, Begin
  <2>2. QED
    BY <1>1, <1>7, <2>1 DEF AddSubType
<1>8. CASE Freeze(t)
  BY <1>8 DEF Freeze, StacksNeat
<1>9. QED
  BY <1>2, <1>3, <1>4, <1>5, <1>6, <1>7, <1>8 DEF Start

-----------------------------------------------------------------------------
(* Complete contracts.                                                     *)

\* ApplyDefaultBehaviour has done its work.
Complete(x) == "attr" \in fields[x] /\ ValidIncludes(x) \subseteq subTypes[x]

\* What a frame of the Serializer getter relies on.
FrameDone(f) ==
  /\ f.pc \in {"serlock", "build", "members"} => Known(f.type)
  /\ f.pc = "members" => \/ f.type \in failed
                         \/ /\ "attr" \in fields[f.type]
                            /\ ValidIncludes(f.type) \subseteq f.subs

\* While sub-types are added, each is in the list, or still to do, or the one
\* that the frame g above is adding.
Waits(f, g) ==
  f.pc = "include" =>
    \A d \in ValidIncludes(f.type) :
      d \in subTypes[f.type] \/ d \in f.todo \/ (g.pc \in SubPCs /\ g.other = d)

TopDone(f) ==
  /\ f.pc = "ready" => Complete(f.type)
  /\ f.pc = "peek" => Known(f.type)
  /\ f.pc = "include" =>
       \A d \in ValidIncludes(f.type) : d \in subTypes[f.type] \/ d \in f.todo

StackDone(s) ==
  /\ \A i \in 1 .. Len(s) : FrameDone(s[i])
  /\ \A i \in 1 .. Len(s) - 1 : Waits(s[i], s[i + 1])
  /\ s # <<>> => TopDone(s[Len(s)])

StacksDone == \A t \in Threads : StackDone(stack[t])

\* A type in the list is complete, unless it is marked or was given up.
TypesDone ==
  \A x \in Types : Known(x) /\ ~Pending(x) /\ x \notin failed => Complete(x)

DoneInv ==
  RegInv /\ StacksNeat /\ StacksDone /\ TypesDone /\ SerializerComplete

\* What no step takes back.
Grows ==
  /\ failed \subseteq failed'
  /\ \A x \in Types : /\ Known(x) => Known(x)'
                      /\ fields[x] \subseteq fields'[x]
                      /\ subTypes[x] \subseteq subTypes'[x]

LEMMA GrowsKeeps ==
  ASSUME Grows
  PROVE  /\ \A x \in Types : Complete(x) => Complete(x)'
         /\ \A f \in Frame : FrameDone(f) => FrameDone(f)'
         /\ \A f \in Frame : TopDone(f) => TopDone(f)'
         /\ \A f \in Frame : \A g : Waits(f, g) => Waits(f, g)'
<1>1. \A f \in Frame : f.type \in Types
  BY DEF Frame
<1>2. \A x \in Types : Complete(x) => Complete(x)'
  BY DEF Grows, Complete
<1>3. \A f \in Frame : FrameDone(f) => FrameDone(f)'
  BY <1>1 DEF Grows, FrameDone
<1>4. \A f \in Frame : TopDone(f) => TopDone(f)'
  BY <1>1, <1>2 DEF Grows, TopDone
<1>5. \A f \in Frame : \A g : Waits(f, g) => Waits(f, g)'
  BY <1>1 DEF Grows, Waits
<1>6. QED
  BY <1>2, <1>3, <1>4, <1>5

\* Every step leaves the list, the members and the sub-types as they are, or
\* adds to them.
LEMMA QuietGrows ==
  ASSUME types' = types, fields' = fields, subTypes' = subTypes,
         failed \subseteq failed'
  PROVE  Grows
BY DEF Grows, Known

LEMMA StepGrows ==
  ASSUME Inv, NEW t \in Threads, Step(t) \/ Start(t)
  PROVE  Grows
<1> USE DEF metaVars, histVars, Throw
<1>0. /\ fields \in [Types -> SUBSET Field] /\ subTypes \in [Types -> SUBSET Types]
      /\ types \in Seq(Types)
  BY DEF Inv, TypeOK
<1>1. CASE AddType(t)
  <2>1. /\ types' = Append(types, Top(t).type)
        /\ fields' = fields /\ subTypes' = subTypes /\ failed' = failed
    BY <1>1 DEF AddType
  <2>2. \A x \in Types : Known(x) => Known(x)'
    BY <1>0, <2>1 DEF Known
  <2>3. QED
    BY <2>1, <2>2 DEF Grows
<1>2. CASE ApplyMembers(t) \/ FieldAdd(t)
  <2>1. types' = types /\ subTypes' = subTypes /\ failed \subseteq failed'
    BY <1>2 DEF ApplyMembers, FieldAdd
  <2>2. PICK m : \/ fields' = fields
                 \/ fields' = [fields EXCEPT ![Top(t).type] = @ \union m]
    BY <1>2 DEF ApplyMembers, FieldAdd
  <2>3. \A x \in Types : fields[x] \subseteq fields'[x]
    BY <1>0, <2>2
  <2>4. QED
    BY <2>1, <2>3 DEF Grows, Known
<1>3. CASE SubAdd(t)
  <2>1. /\ types' = types /\ fields' = fields /\ failed' = failed
        /\ subTypes' = [subTypes EXCEPT ![Top(t).type] = @ \union {Top(t).other}]
    BY <1>3 DEF SubAdd
  <2>2. \A x \in Types : subTypes[x] \subseteq subTypes'[x]
    BY <1>0, <2>1
  <2>3. QED
    BY <2>1, <2>2 DEF Grows, Known
<1>4. CASE LockStep(t)
  BY <1>4, QuietGrows
     DEF LockStep, WaitLock, Take, RootLock, SerLock, FieldLock, AddLock,
         TakeLockTimeout, TakeLock
<1>5. CASE \/ Look(t) \/ Waited(t) \/ Create(t) \/ Recheck(t)
           \/ Ready(t) \/ Leave(t)
           \/ ApplyBase(t) \/ ApplyInclude(t) \/ ApplyThrows(t)
           \/ SubFind(t) \/ SubCheck(t) \/ Link(t)
  BY <1>5, QuietGrows
     DEF Look, Waited, Create, Recheck, Ready, Leave, ApplyBase, ApplyInclude,
         ApplyThrows, SubFind, SubCheck, Link
<1>6. CASE UseStep(t)
  BY <1>6, QuietGrows
     DEF UseStep, GetKey, Climb, RootRead, Rekey, Answer, Peek, Build,
         BuildMember, StoreSerializer, Built
<1>7. CASE \/ ModelGet(t) \/ OptCheck(t) \/ OptRead(t) \/ OptWrite(t)
           \/ AddFind(t) \/ AddCreate(t) \/ AddCheck(t)
  BY <1>7, QuietGrows
     DEF ModelGet, OptCheck, OptRead, OptWrite, AddFind, AddCreate, AddCheck
<1>8. CASE Start(t)
  BY <1>8, QuietGrows
     DEF Start, Use, Compile, CompileListed, Add, AddField, Configure, AddSubType, Freeze, Begin
<1>9. QED
  BY <1>1, <1>2, <1>3, <1>4, <1>5, <1>6, <1>7, <1>8
     DEF Step, RegisterStep, ConfigStep

LEMMA OthersDone ==
  ASSUME TypeOK, StacksDone, Grows, NEW u \in Threads, stack'[u] = stack[u]
  PROVE  StackDone(stack[u])'
<1>1. PICK s \in Seq(Frame) : s = stack[u] /\ s = stack'[u] /\ StackDone(s)
  BY DEF TypeOK, StacksDone
<1>2. \A i \in 1 .. Len(s) : s[i] \in Frame
  BY <1>1
<1>3. \A i \in 1 .. Len(s) : FrameDone(s[i])'
  BY <1>1, <1>2, GrowsKeeps DEF StackDone
<1>4. \A i \in 1 .. Len(s) - 1 : Waits(s[i], s[i + 1])'
  BY <1>1, <1>2, GrowsKeeps DEF StackDone
<1>5. s # <<>> => TopDone(s[Len(s)])'
  BY <1>1, GrowsKeeps DEF StackDone
<1>6. StackDone(s)'
  BY <1>3, <1>4, <1>5 DEF StackDone
<1>7. QED
  BY <1>1, <1>6

\* The frames below the top one, e.
LEMMA LowerDone ==
  ASSUME TypeOK, StacksDone, Grows, NEW t \in Threads, stack[t] # <<>>,
         NEW z, NEW d, d = Len(stack[t]), NEW e, e = Top(t),
         \A i \in 1 .. d - 1 : z[i] = stack[t][i]
  PROVE  /\ \A i \in 1 .. d - 1 : FrameDone(z[i])'
         /\ \A i \in 1 .. d - 2 : Waits(z[i], z[i + 1])'
         /\ d > 1 => z[d - 1] \in Frame /\ Waits(z[d - 1], e)'
<1>1. PICK s \in Seq(Frame) :
        s = stack[t] /\ d = Len(s) /\ d \in Nat \ {0} /\ e = s[d] /\ StackDone(s)
  BY TopIs DEF StacksDone
<1>2. \A i \in 1 .. d - 1 : z[i] = s[i]
  BY <1>1
<1>3. \A i \in 1 .. d - 1 : s[i] \in Frame /\ FrameDone(s[i]) /\ Waits(s[i], s[i + 1])
  BY <1>1 DEF StackDone
<1>4. \A i \in 1 .. d - 1 : FrameDone(s[i])' /\ Waits(s[i], s[i + 1])'
  BY <1>3, GrowsKeeps
<1>5. \A i \in 1 .. d - 1 : FrameDone(z[i])'
  BY <1>2, <1>4
<1>6. ASSUME NEW i \in 1 .. d - 2
      PROVE  Waits(z[i], z[i + 1])'
  <2>1. i \in 1 .. d - 1 /\ i + 1 \in 1 .. d - 1
    BY <1>1
  <2>2. QED
    BY <1>2, <1>4, <2>1
<1>7. ASSUME d > 1
      PROVE  z[d - 1] \in Frame /\ Waits(z[d - 1], e)'
  <2>1. d - 1 \in 1 .. d - 1 /\ (d - 1) + 1 = d
    BY <1>1, <1>7
  <2>2. QED
    BY <1>1, <1>2, <1>3, <1>4, <2>1
<1>8. QED
  BY <1>5, <1>6, <1>7

LEMMA DoneGoto ==
  ASSUME TypeOK, TypeOK', StacksDone, Grows, NEW t \in Threads, stack[t] # <<>>,
         NEW f, Goto(t, f), FrameDone(f)', TopDone(f)',
         Top(t).pc \in SubPCs => f.pc \in SubPCs /\ f.other = Top(t).other
  PROVE  StacksDone'
<1>e. PICK e : e = Top(t)
  OBVIOUS
<1>1. PICK z \in Seq(Frame), d \in Nat \ {0} :
        /\ z = stack'[t] /\ d = Len(stack[t])
        /\ Len(z) = d /\ z[d] = f
        /\ \A i \in 1 .. d - 1 : z[i] = stack[t][i]
        /\ \A u \in Threads : u # t => stack'[u] = stack[u]
  <2>1. stack'[t] \in Seq(Frame)
    BY DEF TypeOK
  <2>2. QED
    BY <2>1, GotoIs
<1>2. /\ \A i \in 1 .. d - 1 : FrameDone(z[i])'
      /\ \A i \in 1 .. d - 2 : Waits(z[i], z[i + 1])'
      /\ d > 1 => Waits(z[d - 1], e)'
  BY <1>e, <1>1, LowerDone
<1>3. d > 1 => Waits(z[d - 1], f)'
  BY <1>e, <1>2 DEF Waits
<1>4. \A i \in 1 .. Len(z) : FrameDone(z[i])'
  BY <1>1, <1>2
<1>5. \A i \in 1 .. Len(z) - 1 : Waits(z[i], z[i + 1])'
  <2> SUFFICES ASSUME NEW i \in 1 .. d - 1 PROVE Waits(z[i], z[i + 1])'
    BY <1>1
  <2>1. CASE i = d - 1
    BY <1>1, <1>3, <2>1
  <2>2. CASE i # d - 1
    BY <1>1, <1>2, <2>2
  <2>3. QED
    BY <2>1, <2>2
<1>6. StackDone(z)'
  BY <1>1, <1>4, <1>5 DEF StackDone
<1>7. StackDone(stack[t])'
  BY <1>1, <1>6
<1>8. QED
  BY <1>1, <1>7, OthersDone DEF StacksDone

LEMMA DoneCall ==
  ASSUME TypeOK, TypeOK', StacksDone, Grows, NEW t \in Threads, stack[t] # <<>>,
         NEW f, NEW g, Call(t, f, g), FrameDone(f)', FrameDone(g)', Waits(f, g)',
         TopDone(g)',
         Top(t).pc \in SubPCs => f.pc \in SubPCs /\ f.other = Top(t).other
  PROVE  StacksDone'
<1>0. f \in Frame /\ g \in Frame
  BY CallFrames
<1>e. PICK e : e = Top(t)
  OBVIOUS
<1>1. PICK z \in Seq(Frame), d \in Nat \ {0} :
        /\ z = stack'[t] /\ d = Len(stack[t])
        /\ Len(z) = d + 1 /\ z[d] = f /\ z[d + 1] = g
        /\ \A i \in 1 .. d - 1 : z[i] = stack[t][i]
        /\ \A u \in Threads : u # t => stack'[u] = stack[u]
  <2>1. stack'[t] \in Seq(Frame)
    BY DEF TypeOK
  <2>2. QED
    BY <1>0, <2>1, CallIs
<1>2. /\ \A i \in 1 .. d - 1 : FrameDone(z[i])'
      /\ \A i \in 1 .. d - 2 : Waits(z[i], z[i + 1])'
      /\ d > 1 => Waits(z[d - 1], e)'
  BY <1>e, <1>1, LowerDone
<1>3. d > 1 => Waits(z[d - 1], f)'
  BY <1>e, <1>2 DEF Waits
<1>4. ASSUME NEW i \in 1 .. Len(z)
      PROVE  FrameDone(z[i])'
  <2>1. CASE i \in {d, d + 1}
    BY <1>1, <2>1
  <2>2. CASE i \notin {d, d + 1}
    <3>1. i \in 1 .. d - 1
      BY <1>1, <2>2
    <3>2. QED
      BY <1>2, <3>1
  <2>3. QED
    BY <2>1, <2>2
<1>5. ASSUME NEW i \in 1 .. Len(z) - 1
      PROVE  Waits(z[i], z[i + 1])'
  <2>0. i \in 1 .. d
    BY <1>1
  <2>1. CASE i = d
    BY <1>1, <2>1
  <2>2. CASE i = d - 1
    BY <1>1, <1>3, <2>0, <2>2
  <2>3. CASE i \notin {d, d - 1}
    BY <1>1, <1>2, <2>0, <2>3
  <2>4. QED
    BY <2>1, <2>2, <2>3
<1>6. StackDone(z)'
  BY <1>1, <1>4, <1>5 DEF StackDone
<1>7. StackDone(stack[t])'
  BY <1>1, <1>6
<1>8. QED
  BY <1>1, <1>7, OthersDone DEF StacksDone

\* What a method has done when it returns.
Returned(f) ==
  /\ f.pc \in FindPCs => Known(f.type)
  /\ f.pc \in ApplyPCs => Complete(f.type)
  /\ f.pc \in SubPCs => f.other \in subTypes[f.type]

LEMMA DoneReturn ==
  ASSUME TypeOK, TypeOK', StacksDone, StacksNeat, Grows,
         NEW t \in Threads, stack[t] # <<>>, Return(t),
         NEW e, e = Top(t), Returned(e)'
  PROVE  StacksDone'
<1>1. PICK z \in Seq(Frame), d \in Nat \ {0} :
        /\ z = stack'[t] /\ d = Len(stack[t])
        /\ Len(z) = d - 1
        /\ \A i \in 1 .. d - 1 : z[i] = stack[t][i]
        /\ \A u \in Threads : u # t => stack'[u] = stack[u]
  BY ReturnIs DEF TypeOK
<1>2. /\ \A i \in 1 .. d - 1 : FrameDone(z[i])'
      /\ \A i \in 1 .. d - 2 : Waits(z[i], z[i + 1])'
      /\ d > 1 => Waits(z[d - 1], e)'
  BY <1>1, LowerDone
<1>3. ASSUME d > 1
      PROVE  TopDone(z[d - 1])'
  <2>1. d - 1 \in 1 .. d - 1 /\ (d - 1) + 1 = d
    BY <1>1, <1>3
  <2>2. Calls(z[d - 1], e)
    <3>1. e = stack[t][d] /\ Neat(stack[t]) /\ z[d - 1] = stack[t][d - 1]
      BY <1>1, <2>1, TopIs DEF StacksNeat
    <3>2. QED
      BY <1>1, <2>1, <3>1 DEF Neat
  <2>3. Waits(z[d - 1], e)'
    BY <1>2, <1>3
  <2>4. PICK f : f = z[d - 1]
    OBVIOUS
  <2>5. f.pc = "ready" => Complete(f.type)'
    BY <2>2, <2>4 DEF Calls, Returned, Complete
  <2>6. f.pc = "peek" => Known(f.type)'
    BY <2>2, <2>4 DEF Calls, Returned, Wanted, Known
  <2>7. ASSUME f.pc = "include", NEW x \in ValidIncludes(f.type)
        PROVE  x \in subTypes'[f.type] \/ x \in f.todo
    BY <2>2, <2>3, <2>4, <2>7 DEF Calls, Waits, Returned, FindPCs, SubPCs
  <2>8. TopDone(f)'
    BY <2>5, <2>6, <2>7 DEF TopDone
  <2>9. QED
    BY <2>4, <2>8
<1>4. z # <<>> => d > 1
  BY <1>1
<1>5. \A i \in 1 .. Len(z) : FrameDone(z[i])'
  BY <1>1, <1>2
<1>6. \A i \in 1 .. Len(z) - 1 : Waits(z[i], z[i + 1])'
  BY <1>1, <1>2
<1>7. z # <<>> => TopDone(z[Len(z)])'
  BY <1>1, <1>3, <1>4
<1>8. StackDone(z)'
  BY <1>5, <1>6, <1>7 DEF StackDone
<1>9. StackDone(stack[t])'
  BY <1>1, <1>8
<1>10. QED
  BY <1>1, <1>9, OthersDone DEF StacksDone

LEMMA DoneEmpty ==
  ASSUME TypeOK, StacksDone, Grows, NEW t \in Threads,
         stack' = [stack EXCEPT ![t] = <<>>]
  PROVE  StacksDone'
<1>1. stack'[t] = <<>> /\ \A u \in Threads : u # t => stack'[u] = stack[u]
  BY DEF TypeOK
<1>2. StackDone(<<>>)'
  BY DEF StackDone
<1>3. StackDone(stack[t])'
  BY <1>1, <1>2
<1>4. QED
  BY <1>1, <1>3, OthersDone DEF StacksDone

LEMMA DoneBegin ==
  ASSUME TypeOK, StacksDone, Grows, NEW t \in Threads, NEW f,
         f.pc \notin {"serlock", "build", "members", "ready", "include"},
         f.pc = "peek" => f.type \in Types /\ Known(f.type),
         stack' = [stack EXCEPT ![t] = <<f>>]
  PROVE  StacksDone'
<1>1. stack'[t] = <<f>> /\ \A u \in Threads : u # t => stack'[u] = stack[u]
  BY DEF TypeOK
<1>2. Len(<<f>>) = 1 /\ <<f>>[1] = f
  OBVIOUS
<1>7. f.pc = "peek" => Known(f.type)'
  BY DEF Grows
<1>3. FrameDone(f)' /\ TopDone(f)'
  BY <1>7 DEF FrameDone, TopDone
<1>4. StackDone(<<f>>)'
  BY <1>2, <1>3 DEF StackDone
<1>5. StackDone(stack[t])'
  BY <1>1, <1>4
<1>6. QED
  BY <1>1, <1>5, OthersDone DEF StacksDone

\* Steps that touch neither marks nor serializers.
LEMMA IdleDone ==
  ASSUME TypesDone, SerializerComplete, Grows,
         types' = types, flags' = flags, serializer' = serializer
  PROVE  TypesDone' /\ SerializerComplete'
<1>1. \A x \in Types : Complete(x) => Complete(x)'
  BY GrowsKeeps
<1>2. TypesDone'
  BY <1>1 DEF TypesDone, Grows, Known, Pending
<1>3. SerializerComplete'
  BY DEF SerializerComplete, Grows
<1>4. QED
  BY <1>2, <1>3

DoneParts == StacksDone /\ TypesDone /\ SerializerComplete

\* Statements at which a frame relies on nothing.
FreePCs == PC \ {"serlock", "build", "members", "ready", "peek", "include"}

LEMMA FreeDone ==
  ASSUME NEW f, f.pc \in FreePCs
  PROVE  FrameDone(f)' /\ TopDone(f)' /\ \A g : Waits(f, g)'
BY DEF FreePCs, FrameDone, TopDone, Waits

LEMMA PCDone ==
  ASSUME TypeOK, TypeOK', StacksDone, Grows, NEW t \in Threads, stack[t] # <<>>,
         NEW pc \in FreePCs, GotoPC(t, pc), Top(t).pc \in SubPCs => pc \in SubPCs
  PROVE  StacksDone'
<1>1. PICK f : f = [Top(t) EXCEPT !.pc = pc]
  OBVIOUS
<1>2. f.pc = pc /\ f.other = Top(t).other /\ Goto(t, f)
  BY <1>1, TopIs DEF Frame, GotoPC
<1>3. FrameDone(f)' /\ TopDone(f)'
  BY <1>2, FreeDone
<1>4. QED
  BY <1>2, <1>3, DoneGoto

LEMMA ThrowDone ==
  ASSUME TypeOK, StacksDone, Grows, NEW t \in Threads, NEW reason, Throw(t, reason)
  PROVE  StacksDone'
BY DoneEmpty DEF Throw

\* A return from a method of which nothing is expected.
LEMMA PlainReturnDone ==
  ASSUME TypeOK, TypeOK', StacksDone, StacksNeat, Grows,
         NEW t \in Threads, stack[t] # <<>>, Return(t),
         Top(t).pc \notin RegisterPCs
  PROVE  StacksDone'
<1>1. PICK e : e = Top(t)
  OBVIOUS
<1>2. Returned(e)'
  BY <1>1 DEF Returned, RegisterPCs
<1>3. QED
  BY <1>1, <1>2, DoneReturn

\* FindOrAddAuto returns a type that is in the list.
LEMMA FindReturnDone ==
  ASSUME TypeOK, TypeOK', StacksDone, StacksNeat, Grows,
         NEW t \in Threads, stack[t] # <<>>, Return(t),
         Top(t).pc \notin ApplyPCs \union SubPCs, Known(Top(t).type)
  PROVE  StacksDone'
<1>1. PICK e : e = Top(t) /\ e.type \in Types
  BY TopIs DEF Frame
<1>2. Known(e.type)'
  BY <1>1 DEF Grows
<1>3. Returned(e)'
  BY <1>1, <1>2 DEF Returned
<1>4. QED
  BY <1>1, <1>3, DoneReturn

-----------------------------------------------------------------------------
(* The actions.                                                            *)

LEMMA LockStepDone ==
  ASSUME DoneInv, TypeOK', NEW t \in Threads, LockStep(t)
  PROVE  DoneParts'
<1> USE DEF FindPCs, ApplyPCs, SubPCs
<1>0. /\ TypeOK /\ StacksDone /\ StacksNeat /\ Grows /\ TypesDone /\ SerializerComplete
  BY StepGrows DEF DoneInv, RegInv, Inv, Step
<1>1. TypesDone' /\ SerializerComplete'
  BY <1>0, IdleDone DEF LockStep, WaitLock, Take, RootLock, SerLock, FieldLock,
                        AddLock, TakeLockTimeout, TakeLock, metaVars
<1>s. SUFFICES StacksDone'
  BY <1>1 DEF DoneParts
<1>2. ASSUME NEW pc \in FreePCs, stack[t] # <<>>, TakeLock(t, pc),
             Top(t).pc \notin SubPCs
      PROVE  StacksDone'
  <2>1. PICK f : f = [Top(t) EXCEPT !.pc = pc, !.held = TRUE]
    OBVIOUS
  <2>2. f.pc = pc /\ Goto(t, f)
    BY <1>0, <1>2, <2>1, TopIs DEF Frame, TakeLock
  <2>3. FrameDone(f)' /\ TopDone(f)'
    BY <2>2, FreeDone
  <2>4. QED
    BY <1>0, <1>2, <2>2, <2>3, DoneGoto
<1>3. CASE WaitLock(t) \/ Take(t) \/ RootLock(t) \/ FieldLock(t) \/ AddLock(t)
  <2>1. {"waited", "create", "rootread", "fieldadd", "addcheck"} \subseteq FreePCs
    BY DEF FreePCs, PC, LockedPCs
  <2>2. QED
    BY <1>2, <1>3, <2>1 DEF WaitLock, Take, RootLock, FieldLock, AddLock, At
<1>4. CASE SerLock(t)
  <2>1. PICK f : f = [Top(t) EXCEPT !.pc = "build", !.held = TRUE]
    OBVIOUS
  <2>2. /\ stack[t] # <<>> /\ Top(t).pc = "serlock" /\ Goto(t, f)
    BY <1>4, <2>1 DEF SerLock, At, TakeLock
  <2>3. f.pc = "build" /\ f.type = Top(t).type /\ f.type \in Types
    BY <1>0, <2>1, <2>2, TopIs DEF Frame
  <2>4. FrameDone(Top(t))
    BY <1>0, <2>2, TopIs DEF StacksDone, StackDone
  <2>5. Known(f.type)'
    BY <1>0, <2>2, <2>3, <2>4 DEF FrameDone, Grows
  <2>6. FrameDone(f)' /\ TopDone(f)'
    BY <2>3, <2>5 DEF FrameDone, TopDone
  <2>7. QED
    BY <1>0, <2>2, <2>6, DoneGoto
<1>5. CASE TakeLockTimeout(t)
  BY <1>0, <1>5, ThrowDone DEF TakeLockTimeout
<1>6. QED
  BY <1>3, <1>4, <1>5 DEF LockStep

LEMMA FindStepDone ==
  ASSUME DoneInv, TypeOK', NEW t \in Threads,
         Look(t) \/ Waited(t) \/ Create(t) \/ Recheck(t) \/ Leave(t)
  PROVE  DoneParts'
<1> USE DEF FindPCs, ApplyPCs, SubPCs
<1>0. /\ TypeOK /\ StacksDone /\ StacksNeat /\ Grows /\ TypesDone /\ SerializerComplete
      /\ RegInv
  BY StepGrows DEF DoneInv, RegInv, Inv, Step, RegisterStep
<1>1. TypesDone' /\ SerializerComplete'
  BY <1>0, IdleDone DEF Look, Waited, Create, Recheck, Leave, metaVars
<1>s. SUFFICES StacksDone'
  BY <1>1 DEF DoneParts
<1>2. /\ stack[t] # <<>> /\ FrameSettled(Top(t))
      /\ {"waitlock", "take", "recheck", "add"} \subseteq FreePCs
  BY <1>0, TopReg DEF Look, Waited, Create, Recheck, Leave, At, FreePCs, PC, LockPCs,
                      LockedPCs
<1>3. CASE Look(t)
  <2>1. Top(t).pc = "look"
    BY <1>3 DEF Look, At
  <2>2. CASE Known(Top(t).type) /\ Return(t)
    BY <1>0, <1>2, <2>1, <2>2, FindReturnDone
  <2>3. CASE GotoPC(t, "waitlock") \/ GotoPC(t, "take")
    BY <1>0, <1>2, <2>1, <2>3, PCDone
  <2>4. QED
    BY <1>3, <2>2, <2>3 DEF Look
<1>4. CASE Waited(t)
  BY <1>0, <1>2, <1>4, FindReturnDone DEF Waited, At, FrameSettled
<1>5. CASE Create(t)
  BY <1>0, <1>2, <1>5, PCDone, ThrowDone DEF Create, At
<1>6. CASE Recheck(t)
  <2>1. Top(t).pc = "recheck"
    BY <1>6 DEF Recheck, At
  <2>2. CASE Known(Top(t).type) /\ Return(t)
    BY <1>0, <1>2, <2>1, <2>2, FindReturnDone
  <2>3. CASE GotoPC(t, "add")
    BY <1>0, <1>2, <2>1, <2>3, PCDone
  <2>4. CASE Throw(t, "model frozen")
    BY <1>0, <2>4, ThrowDone
  <2>5. QED
    BY <1>6, <2>2, <2>3, <2>4 DEF Recheck
<1>7. CASE Leave(t)
  BY <1>0, <1>2, <1>7, FindReturnDone DEF Leave, At, FrameSettled, Settled
<1>8. QED
  BY <1>3, <1>4, <1>5, <1>6, <1>7

\* A new type is marked; a mark goes when ApplyDefaultBehaviour has returned.
LEMMA AddTypeDone ==
  ASSUME DoneInv, TypeOK', NEW t \in Threads, AddType(t)
  PROVE  DoneParts'
<1> USE DEF FindPCs, ApplyPCs, SubPCs
<1>0. /\ TypeOK /\ StacksDone /\ StacksNeat /\ Grows /\ TypesDone /\ SerializerComplete
      /\ stack[t] # <<>> /\ Top(t).pc = "add"
  BY StepGrows DEF DoneInv, RegInv, Inv, Step, RegisterStep, AddType, At
<1>1. PICK x \in Types : x = Top(t).type
  BY <1>0, TopIs DEF Frame
<1>2. PICK f, g : f = [Top(t) EXCEPT !.pc = "ready"] /\ g = NewFrame("base", x, NoType)
  <2>1. \E f : f = [Top(t) EXCEPT !.pc = "ready"]
    OBVIOUS
  <2>2. \E g : g = NewFrame("base", x, NoType)
    OBVIOUS
  <2>3. QED
    BY <2>1, <2>2
<1>3. f.pc = "ready" /\ g.pc = "base" /\ Call(t, f, g)
  BY <1>0, <1>1, <1>2, TopIs DEF AddType, Frame, NewFrame
<1>4. FrameDone(f)' /\ FrameDone(g)' /\ Waits(f, g)' /\ TopDone(g)'
  BY <1>3 DEF FrameDone, TopDone, Waits
<1>5. StacksDone'
  BY <1>0, <1>3, <1>4, DoneCall
<1>6. TypesDone'
  <2> SUFFICES ASSUME NEW y \in Types, Known(y)', ~Pending(y)', y \notin failed'
               PROVE  Complete(y)'
    BY DEF TypesDone
  <2>1. /\ types' = Append(types, x) /\ types \in Seq(Types)
        /\ flags' = [flags EXCEPT ![x] = {"Pending"}]
        /\ flags \in [Types -> SUBSET Flag]
    BY <1>0, <1>1 DEF AddType, TypeOK
  <2>2. y # x /\ (Pending(y)' <=> Pending(y))
    BY <2>1 DEF Pending
  <2>3. Known(y)
    BY <2>1, <2>2 DEF Known
  <2>4. Complete(y)
    BY <1>0, <2>2, <2>3 DEF TypesDone, Grows
  <2>5. QED
    BY <1>0, <2>4, GrowsKeeps
<1>7. SerializerComplete'
  BY <1>0 DEF SerializerComplete, AddType, histVars
<1>8. QED
  BY <1>5, <1>6, <1>7 DEF DoneParts

LEMMA ReadyDone ==
  ASSUME DoneInv, TypeOK', NEW t \in Threads, Ready(t)
  PROVE  DoneParts'
<1> USE DEF FindPCs, ApplyPCs, SubPCs
<1>0. /\ TypeOK /\ StacksDone /\ StacksNeat /\ Grows /\ TypesDone /\ SerializerComplete
      /\ stack[t] # <<>> /\ Top(t).pc = "ready" /\ GotoPC(t, "leave")
  BY StepGrows DEF DoneInv, RegInv, Inv, Step, RegisterStep, Ready, At
<1>1. PICK x \in Types : x = Top(t).type
  BY <1>0, TopIs DEF Frame
<1>2. StacksDone'
  BY <1>0, PCDone DEF FreePCs, PC, LockedPCs
<1>3. Complete(x)
  BY <1>0, <1>1, TopIs DEF StacksDone, StackDone, TopDone
<1>4. TypesDone'
  <2> SUFFICES ASSUME NEW y \in Types, Known(y)', ~Pending(y)', y \notin failed'
               PROVE  Complete(y)
    BY <1>0, GrowsKeeps DEF TypesDone
  <2>1. /\ types' = types /\ failed' = failed
        /\ flags' = [flags EXCEPT ![x] = @ \ {"Pending"}]
        /\ flags \in [Types -> SUBSET Flag]
    BY <1>0, <1>1 DEF Ready, TypeOK, histVars
  <2>2. y # x => ~Pending(y)
    BY <2>1 DEF Pending
  <2>3. QED
    BY <1>0, <1>3, <2>1, <2>2 DEF TypesDone, Known
<1>5. SerializerComplete'
  BY <1>0 DEF SerializerComplete, Ready, histVars
<1>6. QED
  BY <1>2, <1>4, <1>5 DEF DoneParts

LEMMA ApplyStepDone ==
  ASSUME DoneInv, TypeOK', NEW t \in Threads,
         ApplyBase(t) \/ ApplyInclude(t) \/ ApplyMembers(t) \/ ApplyThrows(t)
  PROVE  DoneParts'
<1> USE DEF FindPCs, ApplyPCs, SubPCs
<1>0. /\ TypeOK /\ StacksDone /\ StacksNeat /\ Grows /\ TypesDone /\ SerializerComplete
  BY StepGrows DEF DoneInv, RegInv, Inv, Step, RegisterStep
<1>1. TypesDone' /\ SerializerComplete'
  BY <1>0, IdleDone
     DEF ApplyBase, ApplyInclude, ApplyMembers, ApplyThrows, metaVars
<1>s. SUFFICES StacksDone'
  BY <1>1 DEF DoneParts
<1>2. stack[t] # <<>>
  BY DEF ApplyBase, ApplyInclude, ApplyMembers, ApplyThrows, At
<1>3. PICK e \in Frame : e = Top(t) /\ e.type \in Types /\ TopDone(e)
  BY <1>0, <1>2, TopIs DEF Frame, StacksDone, StackDone
<1>4. CASE ApplyBase(t)
  <2>1. PICK f, g : /\ f = [e EXCEPT !.pc = "include", !.todo = ValidIncludes(e.type)]
                    /\ g = NewFrame("look", BaseOf[e.type], NoType)
    <3>1. \E f : f = [e EXCEPT !.pc = "include", !.todo = ValidIncludes(e.type)]
      OBVIOUS
    <3>2. \E g : g = NewFrame("look", BaseOf[e.type], NoType)
      OBVIOUS
    <3>3. QED
      BY <3>1, <3>2
  <2>2. /\ e.pc = "base" /\ f.pc = "include" /\ f.type = e.type
        /\ f.todo = ValidIncludes(e.type) /\ g.pc = "look"
        /\ Call(t, f, g) \/ Goto(t, f)
    BY <1>3, <1>4, <2>1 DEF ApplyBase, At, Frame, NewFrame
  <2>3. FrameDone(f)' /\ TopDone(f)' /\ Waits(f, g)' /\ FrameDone(g)' /\ TopDone(g)'
    BY <2>2 DEF FrameDone, TopDone, Waits
  <2>4. QED
    BY <1>0, <1>2, <1>3, <2>2, <2>3, DoneGoto, DoneCall
<1>5. CASE ApplyInclude(t)
  <2>1. PICK d \in e.todo :
          Call(t, [e EXCEPT !.todo = @ \ {d}], NewFrame("subfind", e.type, d))
    BY <1>3, <1>5 DEF ApplyInclude
  <2>2. PICK f, g : /\ f = [e EXCEPT !.todo = @ \ {d}]
                    /\ g = NewFrame("subfind", e.type, d)
    <3>1. \E f : f = [e EXCEPT !.todo = @ \ {d}]
      OBVIOUS
    <3>2. \E g : g = NewFrame("subfind", e.type, d)
      OBVIOUS
    <3>3. QED
      BY <3>1, <3>2
  <2>3. /\ e.pc = "include" /\ f.pc = "include" /\ f.type = e.type
        /\ f.todo = e.todo \ {d} /\ g.pc = "subfind" /\ g.other = d
        /\ Call(t, f, g)
    BY <1>3, <1>5, <2>1, <2>2 DEF ApplyInclude, At, Frame, NewFrame
  <2>4. TopDone(e)'
    BY <1>0, <1>3, GrowsKeeps
  <2>5. Waits(f, g)' /\ FrameDone(f)' /\ FrameDone(g)' /\ TopDone(g)'
    BY <2>3, <2>4 DEF FrameDone, TopDone, Waits
  <2>6. QED
    BY <1>0, <1>2, <1>3, <2>3, <2>5, DoneCall
<1>6. CASE ApplyMembers(t)
  <2>1. e.pc = "include" /\ e.todo = {}
    BY <1>3, <1>6 DEF ApplyMembers, At
  <2>2. CASE Throw(t, "type frozen")
    BY <1>0, <2>2, ThrowDone
  <2>3. CASE fields' = [fields EXCEPT ![e.type] = @ \union {"attr"}] /\ Return(t)
    <3>1. "attr" \in fields'[e.type]
      BY <1>0, <1>3, <2>3 DEF TypeOK
    <3>2. ValidIncludes(e.type) \subseteq subTypes'[e.type]
      BY <1>0, <1>3, <2>1 DEF TopDone, Grows
    <3>3. Returned(e)'
      BY <2>1, <3>1, <3>2 DEF Returned, Complete
    <3>4. QED
      BY <1>0, <1>2, <1>3, <2>3, <3>3, DoneReturn
  <2>4. QED
    BY <1>3, <1>6, <2>2, <2>3 DEF ApplyMembers
<1>7. CASE ApplyThrows(t)
  BY <1>0, <1>7, ThrowDone DEF ApplyThrows
<1>8. QED
  BY <1>4, <1>5, <1>6, <1>7

LEMMA SubStepDone ==
  ASSUME DoneInv, TypeOK', NEW t \in Threads,
         SubFind(t) \/ SubCheck(t) \/ Link(t) \/ SubAdd(t)
  PROVE  DoneParts'
<1> USE DEF FindPCs, ApplyPCs, SubPCs
<1>0. /\ TypeOK /\ StacksDone /\ StacksNeat /\ Grows /\ TypesDone /\ SerializerComplete
  BY StepGrows DEF DoneInv, RegInv, Inv, Step, RegisterStep
<1>1. TypesDone' /\ SerializerComplete'
  BY <1>0, IdleDone DEF SubFind, SubCheck, Link, SubAdd, metaVars
<1>s. SUFFICES StacksDone'
  BY <1>1 DEF DoneParts
<1>2. stack[t] # <<>>
  BY DEF SubFind, SubCheck, Link, SubAdd, At
<1>3. PICK e \in Frame : e = Top(t) /\ e.type \in Types
  BY <1>0, <1>2, TopIs DEF Frame
<1>4. {"link", "subadd"} \subseteq FreePCs
  BY DEF FreePCs, PC, OtherPCs
<1>5. CASE SubFind(t)
  <2>1. PICK f, g : f = [e EXCEPT !.pc = "subcheck"] /\ g = NewFrame("look", e.other, NoType)
    <3>1. \E f : f = [e EXCEPT !.pc = "subcheck"]
      OBVIOUS
    <3>2. \E g : g = NewFrame("look", e.other, NoType)
      OBVIOUS
    <3>3. QED
      BY <3>1, <3>2
  <2>2. f.pc = "subcheck" /\ f.other = e.other /\ g.pc = "look" /\ Call(t, f, g)
    BY <1>3, <1>5, <2>1 DEF SubFind, Frame, NewFrame
  <2>3. Waits(f, g)' /\ FrameDone(f)' /\ FrameDone(g)' /\ TopDone(g)'
    BY <2>2 DEF FrameDone, TopDone, Waits
  <2>4. QED
    BY <1>0, <1>2, <1>3, <2>2, <2>3, DoneCall
<1>6. CASE SubCheck(t)
  BY <1>0, <1>2, <1>4, <1>6, PCDone, ThrowDone DEF SubCheck
<1>7. CASE Link(t)
  BY <1>0, <1>2, <1>4, <1>7, PCDone, ThrowDone DEF Link
<1>8. CASE SubAdd(t)
  <2>1. e.pc = "subadd" /\ Return(t) /\ e.other \in subTypes'[e.type]
    BY <1>0, <1>3, <1>8 DEF SubAdd, At, TypeOK
  <2>2. Returned(e)'
    BY <2>1 DEF Returned
  <2>3. QED
    BY <1>0, <1>2, <1>3, <2>1, <2>2, DoneReturn
<1>9. QED
  BY <1>5, <1>6, <1>7, <1>8

LEMMA RootStepDone ==
  ASSUME DoneInv, TypeOK', NEW t \in Threads,
         GetKey(t) \/ Climb(t) \/ RootRead(t) \/ Rekey(t) \/ Answer(t)
  PROVE  DoneParts'
<1> USE DEF FindPCs, ApplyPCs, SubPCs
<1>0. /\ TypeOK /\ StacksDone /\ StacksNeat /\ Grows /\ TypesDone /\ SerializerComplete
  BY StepGrows DEF DoneInv, RegInv, Inv, Step, UseStep
<1>1. TypesDone' /\ SerializerComplete'
  BY <1>0, IdleDone DEF GetKey, Climb, RootRead, Rekey, Answer, metaVars
<1>s. SUFFICES StacksDone'
  BY <1>1 DEF DoneParts
<1>2. /\ stack[t] # <<>>
      /\ Top(t).pc \in {"getkey", "climb", "rootread", "rekey", "answer"}
  BY DEF GetKey, Climb, RootRead, Rekey, Answer, At
<1>3. PICK e \in Frame : e = Top(t)
  BY <1>0, <1>2, TopIs
<1>4. {"climb", "rootlock", "rootread", "rekey"} \subseteq FreePCs
  BY DEF FreePCs, PC, LockPCs, LockedPCs, OtherPCs
<1>5. ASSUME NEW f, f.pc \in FreePCs, Goto(t, f) PROVE StacksDone'
  <2>1. FrameDone(f)' /\ TopDone(f)'
    BY <1>5, FreeDone
  <2>2. QED
    BY <1>0, <1>2, <1>5, <2>1, DoneGoto
<1>6. ASSUME NEW f, f.pc \in {"climb", "peek", "answer"}, NEW x,
             Call(t, f, NewFrame("look", x, NoType))
      PROVE  StacksDone'
  <2>1. PICK g : g = NewFrame("look", x, NoType)
    OBVIOUS
  <2>2. g.pc = "look"
    BY <2>1 DEF NewFrame
  <2>3. FrameDone(f)' /\ FrameDone(g)' /\ Waits(f, g)' /\ TopDone(g)'
    BY <1>6, <2>2 DEF FrameDone, TopDone, Waits
  <2>4. QED
    BY <1>0, <1>2, <1>6, <2>1, <2>3, DoneCall
<1>7. CASE GetKey(t)
  <2>1. PICK f : f = [e EXCEPT !.pc = "climb", !.other = e.type]
    OBVIOUS
  <2>2. f.pc = "climb" /\ Call(t, f, NewFrame("look", e.type, NoType))
    BY <1>3, <1>7, <2>1 DEF GetKey, Frame
  <2>3. QED
    BY <1>6, <2>2
<1>8. CASE Climb(t)
  <2>1. PICK f : f = [e EXCEPT !.other = baseType[e.other]]
    OBVIOUS
  <2>2. f.pc = "climb"
    BY <1>3, <1>8, <2>1 DEF Climb, At, Frame
  <2>3. Goto(t, f) \/ GotoPC(t, "rootlock") \/ GotoPC(t, "rekey")
    BY <1>3, <1>8, <2>1 DEF Climb
  <2>4. QED
    BY <1>0, <1>2, <1>4, <1>5, <2>2, <2>3, PCDone
<1>9. CASE RootRead(t)
  <2>1. PICK f : f = [e EXCEPT !.other = baseType[e.other]]
    OBVIOUS
  <2>2. PICK g : g = [e EXCEPT !.pc = "rekey", !.held = FALSE]
    OBVIOUS
  <2>3. f.pc = "rootread" /\ g.pc = "rekey"
    BY <1>3, <1>9, <2>1, <2>2 DEF RootRead, At, Frame
  <2>4. Goto(t, f) \/ Goto(t, g)
    BY <1>3, <1>9, <2>1, <2>2 DEF RootRead
  <2>5. QED
    BY <1>4, <1>5, <2>3, <2>4
<1>10. CASE Rekey(t)
  <2>1. PICK f : f = [e EXCEPT !.pc = e.next, !.type = e.other]
    OBVIOUS
  <2>2. f.pc \in {"peek", "answer"} /\ Call(t, f, NewFrame("look", e.other, NoType))
    BY <1>3, <1>10, <2>1 DEF Rekey, Frame
  <2>3. QED
    BY <1>6, <2>2
<1>11. CASE Answer(t)
  BY <1>0, <1>2, <1>11, PlainReturnDone DEF Answer, At, RegisterPCs
<1>12. QED
  BY <1>7, <1>8, <1>9, <1>10, <1>11

\* A thread that has the lock and registers nothing knows that nobody does.
LEMMA NobodyRegisters ==
  ASSUME RegInv, StacksNeat, NEW t \in Threads, stack[t] # <<>>,
         Top(t).pc \in LockedPCs, Top(t).pc \notin RegisterPCs
  PROVE  \A u \in Threads : Registering(u) = {}
<1> SUFFICES ASSUME NEW u \in Threads, NEW x \in Registering(u) PROVE FALSE
  OBVIOUS
<1>1. PICK i \in DOMAIN stack[u] : stack[u][i].pc = "ready"
  BY RegisteringIs
<1>2. FrameOK(stack[u][i])
  BY DEF RegInv, Inv, FramesOK
<1>3. Holds(u) /\ Holds(t)
  BY <1>1, <1>2, TopReg DEF FrameOK, LockedPCs, Holds
<1>4. u = t
  BY <1>3 DEF RegInv, Inv, MutualExclusion
<1>5. PICK d \in Nat \ {0} :
        d = Len(stack[t]) /\ Top(t) = stack[t][d] /\ DOMAIN stack[t] = 1 .. d
        /\ Neat(stack[t])
  BY TopIs DEF RegInv, Inv, StacksNeat
<1>6. i # d /\ i < d /\ i \in 1 .. d /\ d \in 1 .. d
  BY <1>1, <1>4, <1>5 DEF RegisterPCs, FindPCs
<1>7. QED
  BY <1>1, <1>4, <1>5, <1>6 DEF Neat, RegisterPCs, FindPCs

LEMMA BuildStepDone ==
  ASSUME DoneInv, TypeOK', NEW t \in Threads,
         Peek(t) \/ Build(t) \/ BuildMember(t) \/ StoreSerializer(t) \/ Built(t)
  PROVE  DoneParts'
<1> USE DEF FindPCs, ApplyPCs, SubPCs
<1>0. /\ TypeOK /\ StacksDone /\ StacksNeat /\ Grows /\ TypesDone /\ SerializerComplete
      /\ RegInv
  BY StepGrows DEF DoneInv, RegInv, Inv, Step, UseStep
<1>1. /\ stack[t] # <<>>
      /\ Top(t).pc \in {"peek", "build", "members", "built"}
  BY DEF Peek, Build, BuildMember, StoreSerializer, Built, At
<1>2. PICK e \in Frame : e = Top(t) /\ e.type \in Types /\ TopDone(e) /\ FrameDone(e)
  BY <1>0, <1>1, TopIs DEF Frame, StacksDone, StackDone
<1>3. FrameDone(e)'
  BY <1>0, <1>2, GrowsKeeps
<1>4. CASE Peek(t)
  <2>1. TypesDone' /\ SerializerComplete' /\ e.pc = "peek"
    BY <1>0, <1>2, <1>4, IdleDone DEF Peek, At, metaVars
  <2>2. CASE Return(t)
    BY <1>0, <1>1, <2>1, <2>2, PlainReturnDone DEF RegisterPCs, DoneParts
  <2>3. CASE GotoPC(t, "serlock")
    <3>1. PICK f : f = [e EXCEPT !.pc = "serlock"]
      OBVIOUS
    <3>2. f.pc = "serlock" /\ f.type = e.type /\ Goto(t, f)
      BY <1>2, <2>3, <3>1 DEF GotoPC, Frame
    <3>3. Known(e.type)'
      BY <1>0, <1>2, <2>1 DEF TopDone, Grows
    <3>4. FrameDone(f)' /\ TopDone(f)'
      BY <3>2, <3>3 DEF FrameDone, TopDone
    <3>5. QED
      BY <1>0, <1>1, <2>1, <3>2, <3>4, DoneGoto DEF DoneParts
  <2>4. QED
    BY <1>4, <2>2, <2>3 DEF Peek
<1>5. CASE Build(t)
  <2>0. e.pc = "build" /\ types' = types /\ serializer' = serializer /\ failed' = failed
        /\ subTypes' = subTypes /\ fields' = fields
    BY <1>2, <1>5 DEF Build, At, histVars
  <2>1. CASE Return(t) /\ UNCHANGED flags
    <3>1. TypesDone' /\ SerializerComplete'
      BY <1>0, <2>0, <2>1, IdleDone
    <3>2. QED
      BY <1>0, <1>1, <2>1, <3>1, PlainReturnDone DEF RegisterPCs, DoneParts
  <2>2. CASE /\ flags' = [flags EXCEPT ![e.type] = @ \union {"Frozen"}]
             /\ Goto(t, [e EXCEPT !.pc = "members", !.todo = Members[e.type],
                                  !.subs = subTypes[e.type]])
    <3>1. PICK f : f = [e EXCEPT !.pc = "members", !.todo = Members[e.type],
                                 !.subs = subTypes[e.type]]
      OBVIOUS
    <3>2. f.pc = "members" /\ f.type = e.type /\ f.subs = subTypes[e.type] /\ Goto(t, f)
      BY <1>2, <2>2, <3>1 DEF Frame
    <3>3. Known(e.type)
      BY <1>2, <2>0 DEF FrameDone
    <3>4. e.type \in failed \/ Complete(e.type)
      <4>1. Holds(t) /\ Registering(t) = {}
        BY <1>0, <1>1, <1>2, <2>0, TopReg, NobodyRegisters DEF LockedPCs, RegisterPCs
      <4>2. Settled(e.type)
        BY <1>0, <1>2, <3>3, <4>1, MineOrSettled
      <4>3. QED
        BY <1>0, <1>2, <4>2 DEF Settled, TypesDone
    <3>5. FrameDone(f)' /\ TopDone(f)'
      BY <2>0, <3>2, <3>3, <3>4 DEF FrameDone, TopDone, Complete, Known
    <3>6. StacksDone'
      BY <1>0, <1>1, <1>2, <2>0, <3>2, <3>5, DoneGoto
    <3>7. \A y \in Types : Pending(y)' <=> Pending(y)
      BY <1>0, <1>2, <2>2 DEF TypeOK, Pending
    <3>8. TypesDone' /\ SerializerComplete'
      BY <1>0, <2>0, <3>7 DEF TypesDone, SerializerComplete, Complete, Known
    <3>9. QED
      BY <3>6, <3>8 DEF DoneParts
  <2>3. QED
    BY <1>2, <1>5, <2>1, <2>2 DEF Build
<1>6. CASE BuildMember(t)
  <2>0. TypesDone' /\ SerializerComplete' /\ e.pc = "members"
    BY <1>0, <1>2, <1>6, IdleDone DEF BuildMember, At, metaVars
  <2>1. PICK y \in e.todo :
          Call(t, [e EXCEPT !.todo = @ \ {y}],
                  [NewFrame("getkey", y, NoType) EXCEPT !.next = "answer"])
    BY <1>2, <1>6 DEF BuildMember
  <2>2. PICK f : f = [e EXCEPT !.todo = @ \ {y}]
    OBVIOUS
  <2>3. PICK g : g = [NewFrame("getkey", y, NoType) EXCEPT !.next = "answer"]
    OBVIOUS
  <2>4. /\ f.pc = "members" /\ f.type = e.type /\ f.subs = e.subs
        /\ g.pc = "getkey" /\ Call(t, f, g)
    BY <1>2, <2>0, <2>1, <2>2, <2>3 DEF Frame, NewFrame
  <2>5. FrameDone(f)' /\ FrameDone(g)' /\ Waits(f, g)' /\ TopDone(g)'
    BY <1>3, <2>0, <2>4 DEF FrameDone, TopDone, Waits, Known
  <2>6. QED
    BY <1>0, <1>1, <1>2, <2>0, <2>4, <2>5, DoneCall DEF DoneParts
<1>7. CASE StoreSerializer(t)
  <2>1. /\ e.pc = "members" /\ GotoPC(t, "built")
        /\ types' = types /\ flags' = flags /\ failed' = failed
        /\ fields' = fields /\ subTypes' = subTypes
        /\ serializer' = [serializer EXCEPT ![e.type] =
             [fields |-> fields[e.type], subs |-> e.subs,
              root |-> baseType[e.type] = NoType]]
    BY <1>2, <1>7 DEF StoreSerializer, At, histVars
  <2>2. StacksDone'
    BY <1>0, <1>1, <2>1, PCDone DEF FreePCs, PC, LockedPCs
  <2>3. TypesDone'
    BY <1>0, <2>1 DEF TypesDone, Complete, Known, Pending
  <2>4. SerializerComplete'
    BY <1>0, <1>2, <2>1 DEF SerializerComplete, FrameDone, TypeOK
  <2>5. QED
    BY <2>2, <2>3, <2>4 DEF DoneParts
<1>8. CASE Built(t)
  <2>1. TypesDone' /\ SerializerComplete'
    BY <1>0, <1>8, IdleDone DEF Built, metaVars
  <2>2. QED
    BY <1>0, <1>1, <1>8, <2>1, PlainReturnDone DEF Built, RegisterPCs, DoneParts
<1>9. QED
  BY <1>4, <1>5, <1>6, <1>7, <1>8

LEMMA ConfigStepDone ==
  ASSUME DoneInv, TypeOK', NEW t \in Threads, ConfigStep(t)
  PROVE  DoneParts'
<1> USE DEF FindPCs, ApplyPCs, SubPCs
<1>0. /\ TypeOK /\ StacksDone /\ StacksNeat /\ Grows /\ TypesDone /\ SerializerComplete
      /\ RegInv
  BY StepGrows DEF DoneInv, RegInv, Inv, Step
<1>1. /\ stack[t] # <<>>
      /\ Top(t).pc \notin RegisterPCs
  BY DEF ConfigStep, ModelGet, FieldAdd, OptCheck, OptRead, OptWrite, AddFind,
         AddCreate, AddCheck, At, RegisterPCs
<1>2. PICK e \in Frame : e = Top(t) /\ e.type \in Types
  BY <1>0, <1>1, TopIs DEF Frame
<1>3. CASE OptWrite(t)
  <2>1. e.pc = "optwrite" /\ Return(t) /\ failed' = failed /\ types' = types
        /\ flags' = [flags EXCEPT ![e.type] = e.saved \union {"Option"}]
        /\ serializer' = serializer
    BY <1>2, <1>3 DEF OptWrite, At, histVars
  <2>2. StacksDone'
    BY <1>0, <1>1, <2>1, PlainReturnDone
  <2>3. Settled(e.type)
    <3>1. PICK d \in Nat \ {0} :
            d = Len(stack[t]) /\ e = stack[t][d] /\ DOMAIN stack[t] = 1 .. d
            /\ Configuring(stack[t])
      BY <1>0, <1>1, <1>2, TopIs DEF RegInv, StacksSettled
    <3>2. d = 1
      BY <2>1, <3>1 DEF Configuring, OptionPCs
    <3>3. QED
      BY <1>1, <2>1, <3>1, <3>2 DEF Configuring, OptionPCs
  <2>4. TypesDone'
    <3> SUFFICES ASSUME NEW y \in Types, Known(y)', ~Pending(y)', y \notin failed'
                 PROVE  Complete(y)
      BY <1>0, GrowsKeeps DEF TypesDone
    <3>1. Known(y) /\ y \notin failed
      BY <2>1 DEF Known
    <3>2. ~Pending(y)
      BY <1>0, <2>1, <2>3, <3>1 DEF TypeOK, Settled, Pending
    <3>3. QED
      BY <1>0, <3>1, <3>2 DEF TypesDone
  <2>5. SerializerComplete'
    BY <1>0, <2>1 DEF SerializerComplete
  <2>6. QED
    BY <2>2, <2>4, <2>5 DEF DoneParts
<1>4. ASSUME ~OptWrite(t) PROVE DoneParts'
  <2>1. TypesDone' /\ SerializerComplete'
    BY <1>0, <1>4, IdleDone DEF ConfigStep, ModelGet, FieldAdd, OptCheck, OptRead,
                                AddFind, AddCreate, AddCheck, metaVars
  <2>s. SUFFICES StacksDone'
    BY <2>1 DEF DoneParts
  <2>f. {"optread", "optwrite", "waitlock", "addcreate", "addlock", "add"} \subseteq FreePCs
    BY DEF FreePCs, PC, LockPCs, LockedPCs, OtherPCs
  <2>p. Top(t).pc \notin SubPCs
    BY <1>1 DEF RegisterPCs
  <2>2. CASE ModelGet(t)
    <3>1. PICK pc \in {"typeget", "fieldget", "optget", "compileget"} :
            /\ e.pc = pc
            /\ Call(t, [e EXCEPT !.pc = CASE pc = "typeget" -> "subfind"
                                          [] pc = "fieldget" -> "fieldlock"
                                          [] pc = "optget" -> "optcheck"
                                          [] pc = "compileget" -> "peek"],
                       NewFrame("look", e.type, NoType))
      BY <1>2, <2>2 DEF ModelGet
    <3>2. PICK next : /\ next = CASE pc = "typeget" -> "subfind"
                                  [] pc = "fieldget" -> "fieldlock"
                                  [] pc = "optget" -> "optcheck"
                                  [] pc = "compileget" -> "peek"
                      /\ next \in {"subfind", "fieldlock", "optcheck", "peek"}
      OBVIOUS
    <3>3. PICK f : f = [e EXCEPT !.pc = next]
      OBVIOUS
    <3>4. PICK g : g = NewFrame("look", e.type, NoType)
      OBVIOUS
    <3>5. f.pc = next /\ g.pc = "look" /\ Call(t, f, g)
      BY <1>2, <3>1, <3>2, <3>3, <3>4 DEF Frame, NewFrame
    <3>6. FrameDone(f)' /\ FrameDone(g)' /\ Waits(f, g)' /\ TopDone(g)'
      BY <3>2, <3>5 DEF FrameDone, TopDone, Waits
    <3>7. QED
      BY <1>0, <1>1, <2>p, <3>5, <3>6, DoneCall
  <2>3. CASE FieldAdd(t)
    BY <1>0, <1>1, <2>3, PlainReturnDone, ThrowDone DEF FieldAdd
  <2>4. CASE OptCheck(t)
    BY <1>0, <1>1, <2>4, <2>f, <2>p, PCDone, ThrowDone DEF OptCheck
  <2>5. CASE OptRead(t)
    <3>1. PICK f : f = [e EXCEPT !.pc = "optwrite", !.saved = flags[e.type]]
      OBVIOUS
    <3>2. f.pc = "optwrite" /\ Goto(t, f)
      BY <1>2, <2>5, <3>1 DEF OptRead, Frame
    <3>3. FrameDone(f)' /\ TopDone(f)'
      BY <2>f, <3>2, FreeDone
    <3>4. QED
      BY <1>0, <1>1, <2>p, <3>2, <3>3, DoneGoto
  <2>6. CASE AddFind(t)
    BY <1>0, <1>1, <2>6, <2>f, <2>p, PCDone, PlainReturnDone DEF AddFind
  <2>7. CASE AddCreate(t)
    BY <1>0, <1>1, <2>7, <2>f, <2>p, PCDone, ThrowDone DEF AddCreate
  <2>8. CASE AddCheck(t)
    BY <1>0, <1>1, <2>8, <2>f, <2>p, PCDone, ThrowDone DEF AddCheck
  <2>9. QED
    BY <1>4, <2>2, <2>3, <2>4, <2>5, <2>6, <2>7, <2>8 DEF ConfigStep
<1>5. QED
  BY <1>3, <1>4

LEMMA StartDone ==
  ASSUME DoneInv, NEW t \in Threads, Start(t)
  PROVE  DoneParts'
<1>0. /\ TypeOK /\ StacksDone /\ Grows /\ TypesDone /\ SerializerComplete
  BY StepGrows DEF DoneInv, RegInv, Inv
<1>1. TypesDone' /\ SerializerComplete'
  BY <1>0, IdleDone
     DEF Start, Use, Compile, CompileListed, Add, AddField, Configure, AddSubType, Freeze,
         Begin, metaVars
<1>s. SUFFICES StacksDone'
  BY <1>1 DEF DoneParts
<1>2. ASSUME NEW op, NEW pc, NEW x, NEW y, Begin(t, op, pc, x, y),
             pc \notin {"serlock", "build", "members", "ready", "include"},
             pc = "peek" => x \in Types /\ Known(x)
      PROVE  StacksDone'
  <2>1. PICK f : f = NewFrame(pc, x, y)
    OBVIOUS
  <2>2. f.pc = pc /\ f.type = x /\ stack' = [stack EXCEPT ![t] = <<f>>]
    BY <1>2, <2>1 DEF Begin, NewFrame
  <2>3. QED
    BY <1>0, <1>2, <2>2, DoneBegin
<1>3. CASE Freeze(t)
  <2>1. \A u \in Threads : stack'[u] = stack[u]
    BY <1>3 DEF Freeze
  <2>2. QED
    BY <1>0, <2>1, OthersDone DEF StacksDone
<1>6. CASE CompileListed(t)
  BY <1>2, <1>6 DEF CompileListed
<1>4. CASE \/ Use(t) \/ Compile(t) \/ Add(t) \/ AddField(t) \/ Configure(t)
           \/ AddSubType(t)
  <2>1. \E pc \in {"getkey", "addfind", "fieldget", "optget", "compileget", "typeget"},
           op \in OpNames, x \in Types, y \in Types \union {NoType} :
          Begin(t, op, pc, x, y)
    BY <1>4, RegistryAssumption
       DEF Use, Compile, Add, AddField, Configure, AddSubType, OpNames
  <2>2. QED
    BY <1>2, <2>1
<1>5. QED
  BY <1>3, <1>4, <1>6 DEF Start

LEMMA InitDone == Init => DoneInv
<1> SUFFICES ASSUME Init PROVE DoneInv
  OBVIOUS
<1>1. \A t \in Threads : stack[t] = <<>>
  BY DEF Init
<1>0. Neat(<<>>) /\ StackDone(<<>>)
  BY DEF Neat, StackDone
<1>2. StacksNeat
  BY <1>0, <1>1 DEF StacksNeat
<1>3. StacksDone
  BY <1>0, <1>1 DEF StacksDone
<1>4. TypesDone /\ SerializerComplete
  BY DEF Init, TypesDone, SerializerComplete, Known
<1>5. QED
  BY <1>2, <1>3, <1>4, InitReg DEF DoneInv

LEMMA NextDone == DoneInv /\ [Next]_vars => DoneInv'
<1> SUFFICES ASSUME DoneInv, [Next]_vars PROVE DoneInv'
  OBVIOUS
<1>1. RegInv' /\ TypeOK'
  BY NextReg DEF DoneInv, RegInv, Inv
<1>2. TypeOK /\ StacksNeat
  BY DEF DoneInv, RegInv, Inv
<1>3. ASSUME NEW t \in Threads, Step(t)
      PROVE  StacksNeat' /\ DoneParts'
  <2>1. StacksNeat'
    BY <1>1, <1>2, <1>3, StepMoves, MovedNeat
  <2>2. CASE LockStep(t)
    BY <1>1, <2>1, <2>2, LockStepDone
  <2>3. CASE RegisterStep(t)
    BY <1>1, <2>1, <2>3, FindStepDone, AddTypeDone, ReadyDone, ApplyStepDone, SubStepDone
       DEF RegisterStep
  <2>4. CASE UseStep(t)
    BY <1>1, <2>1, <2>4, RootStepDone, BuildStepDone DEF UseStep
  <2>5. CASE ConfigStep(t)
    BY <1>1, <2>1, <2>5, ConfigStepDone
  <2>6. QED
    BY <1>3, <2>2, <2>3, <2>4, <2>5 DEF Step
<1>4. ASSUME NEW t \in Threads, Start(t)
      PROVE  StacksNeat' /\ DoneParts'
  BY <1>2, <1>4, StartNeat, StartDone
<1>5. CASE UNCHANGED vars
  <2>1. /\ stack' = stack /\ types' = types /\ flags' = flags /\ failed' = failed
        /\ fields' = fields /\ subTypes' = subTypes /\ serializer' = serializer
    BY <1>5 DEF vars, metaVars, histVars
  <2>2. Grows
    BY <2>1, QuietGrows
  <2>3. TypesDone' /\ SerializerComplete'
    BY <2>1, <2>2, IdleDone DEF DoneInv
  <2>4. StacksDone'
    BY <1>2, <2>1, <2>2, OthersDone DEF DoneInv, StacksDone
  <2>5. QED
    BY <1>1, <1>2, <2>1, <2>3, <2>4 DEF DoneInv, StacksNeat
<1>6. QED
  BY <1>1, <1>3, <1>4, <1>5 DEF Next, Done, DoneInv, DoneParts

LEMMA DoneInvHolds == Spec => []DoneInv
<1>1. Init => DoneInv
  BY InitDone
<1>2. DoneInv /\ [Next]_vars => DoneInv'
  BY NextDone
<1>3. QED
  BY <1>1, <1>2, PTL DEF Spec

\* However the threads that meet a type together are interleaved, a serializer
\* has all the members and the [ProtoInclude] sub-types of its type, unless the
\* registration of the type ended in an exception: who builds it has the lock,
\* and has it only when no ApplyDefaultBehaviour is half done.
THEOREM SerializersAreComplete == Spec => []SerializerComplete
<1>1. DoneInv => SerializerComplete
  BY DEF DoneInv
<1>2. QED
  BY <1>1, DoneInvHolds, PTL

-----------------------------------------------------------------------------
(* Hierarchies.                                                            *)

\* Every [ProtoInclude] names a direct sub-class, and only registration links
\* types: the hierarchy that the attributes declare is that of the classes.
Declared ==
  /\ "AddSubType" \notin Ops
  /\ \A b \in Types : \A d \in ValidIncludes(b) : BaseOf[d] = b /\ b # d

\* Nobody will add y to the list any more; and nobody is configuring it.
Decided(y) ==
  \/ y = NoType
  \/ Known(y)
  \/ /\ modelFrozen
     /\ \A t \in Threads : \A i \in DOMAIN stack[t] :
          stack[t][i].pc = "add" => stack[t][i].type # y

Over(y) == Decided(y) /\ \A t \in Threads : y \notin Registering(t)

\* The base type of d links d no more; and x is linked and links no more.
Final(d) == Over(BaseOf[d])
Sealed(x) == Known(x) /\ Over(x) /\ Final(x)

\* A thread is looking for the base type of d, before anything else about d.
Early(t, d) ==
  /\ stack[t] # <<>>
  /\ \/ Top(t).pc = "base" /\ Top(t).type = d
     \/ /\ Len(stack[t]) > 1
        /\ stack[t][Len(stack[t]) - 1].pc = "include"
        /\ stack[t][Len(stack[t]) - 1].type = d
        /\ Top(t).pc \in FindPCs

\* The climb from x over the base types leads to r, if it leads anywhere: r is in
\* every set that has x and with a type its base type.
Reach(x, r) ==
  \A S \in SUBSET Types :
    /\ x \in S
    /\ \A n \in S : baseType[n] # NoType => baseType[n] \in S
    => r \in S

FrameHier(f) ==
  /\ f.pc \in ClimbPCs => f.other \in Types /\ Reach(f.type, f.other)
  /\ f.pc \in {"rootlock", "rootread"} => Known(f.other)
  /\ f.pc = "rekey" => Final(f.other) /\ baseType[f.other] = NoType
  /\ f.pc = "optwrite" /\ "Frozen" \in f.saved => Sealed(f.type)

StacksHier ==
  \A t \in Threads :
    /\ \A i \in DOMAIN stack[t] : FrameHier(stack[t][i])
    /\ At(t, "climb") => Known(Top(t).other)

\* Whoever lists a type looks for its base type first.
BasesFirst ==
  \A d \in Types : Known(d) => Decided(BaseOf[d]) \/ \E t \in Threads : Early(t, d)

LinksHier ==
  \A d \in Types : baseType[d] # NoType => baseType[d] = BaseOf[d] /\ Known(BaseOf[d])

FrozenHier ==
  \A x \in Types : Frozen(x) \/ serializer[x] # NoSerializer => Sealed(x)

KeysHier ==
  \A x \in Types : \A r \in keys[x] : Final(r) /\ baseType[r] = NoType /\ Reach(x, r)

HierInv == DoneInv /\ StacksHier /\ BasesFirst /\ LinksHier /\ FrozenHier /\ KeysHier

-----------------------------------------------------------------------------
(* What the call stacks say about registration.                            *)

LEMMA ApplyingIs ==
  ASSUME RegInv, StacksNeat, NEW t \in Threads, NEW i \in 1 .. Len(stack[t]),
         stack[t][i].pc \in ApplyPCs
  PROVE  /\ stack[t][i].type \in Registering(t) /\ stack[t][i].type \in Types
         /\ Known(stack[t][i].type) /\ Holds(t)
<1>1. PICK s \in Seq(Frame) : s = stack[t] /\ Neat(s) /\ DOMAIN stack[t] = 1 .. Len(s)
  BY DEF RegInv, Inv, TypeOK, StacksNeat
<1>2. i # 1
  BY <1>1 DEF Neat
<1>3. PICK j \in 1 .. Len(s) - 1 : j + 1 = i /\ j \in DOMAIN stack[t]
  BY <1>1, <1>2
<1>4. Calls(s[j], s[j + 1])
  BY <1>1, <1>3 DEF Neat
<1>5. s[j].pc = "ready" /\ s[j].type = s[i].type /\ s[j] \in Frame
  BY <1>1, <1>3, <1>4 DEF Calls
<1>6. s[i].type \in Registering(t)
  BY <1>1, <1>3, <1>5, RegisteringIs
<1>7. FrameSettled(stack[t][j]) /\ FrameOK(stack[t][j])
  BY <1>3 DEF RegInv, Inv, StacksSettled, FramesOK
<1>8. Known(s[i].type) /\ Holds(t)
  BY <1>1, <1>3, <1>5, <1>7 DEF FrameSettled, FrameOK, LockedPCs, Holds
<1>9. QED
  BY <1>1, <1>5, <1>6, <1>8 DEF Frame

LEMMA LinkingIs ==
  ASSUME Declared, RegInv, StacksNeat, NEW t \in Threads, stack[t] # <<>>,
         Top(t).pc \in SubPCs
  PROVE  /\ BaseOf[Top(t).other] = Top(t).type /\ Top(t).other # Top(t).type
         /\ Top(t).other \in Types /\ Top(t).type \in Types
         /\ Top(t).type \in Registering(t) /\ Known(Top(t).type)
<1>1. PICK s \in Seq(Frame), d \in Nat \ {0} :
        s = stack[t] /\ Neat(s) /\ d = Len(s) /\ Top(t) = s[d] /\ s # <<>>
  BY TopIs DEF RegInv, Inv, StacksNeat
<1>2. d # 1
  BY <1>1 DEF Neat, Declared
<1>3. PICK j \in 1 .. Len(s) - 1 : j + 1 = d /\ j \in 1 .. Len(stack[t])
  <2>1. d - 1 \in 1 .. d - 1 /\ d - 1 \in 1 .. d /\ (d - 1) + 1 = d
    BY <1>2
  <2>2. QED
    BY <1>1, <2>1
<1>4. Calls(s[j], s[j + 1])
  BY <1>1, <1>3 DEF Neat
<1>5. s[j].pc = "include"
  BY <1>1, <1>3, <1>4 DEF Calls
<1>6. s[d].type = s[j].type /\ s[d].other \in ValidIncludes(s[j].type)
  BY <1>1, <1>3, <1>4, <1>5 DEF Calls, FindPCs, SubPCs
<1>7. /\ s[j].type \in Registering(t) /\ s[j].type \in Types
      /\ Known(s[j].type)
  BY <1>1, <1>3, <1>5, ApplyingIs DEF ApplyPCs
<1>8. s[d].other \in Types
  BY <1>6, <1>7, RegistryAssumption DEF ValidIncludes
<1>9. QED
  BY <1>1, <1>6, <1>7, <1>8 DEF Declared

LEMMA EarlyIs ==
  ASSUME RegInv, StacksNeat, NEW t \in Threads, NEW d \in Types, Early(t, d)
  PROVE  d \in Registering(t) /\ Holds(t)
<1>1. PICK s \in Seq(Frame), k \in Nat \ {0} :
        s = stack[t] /\ k = Len(s) /\ Top(t) = s[k] /\ k \in 1 .. Len(stack[t])
  BY TopIs DEF RegInv, Inv, Early
<1>2. CASE Top(t).pc = "base" /\ Top(t).type = d
  BY <1>1, <1>2, ApplyingIs DEF ApplyPCs
<1>3. CASE k > 1 /\ s[k - 1].pc = "include" /\ s[k - 1].type = d
  <2>1. k - 1 \in 1 .. Len(stack[t])
    BY <1>1, <1>3
  <2>2. QED
    BY <1>1, <1>3, <2>1, ApplyingIs DEF ApplyPCs
<1>4. QED
  BY <1>1, <1>2, <1>3 DEF Early

\* When nobody registers anything, what is in the list is sealed.
LEMMA IdleSeals ==
  ASSUME DoneInv, BasesFirst, NEW t \in Threads, stack[t] # <<>>,
         Top(t).pc \in LockedPCs, Top(t).pc \notin RegisterPCs,
         NEW x \in Types, Known(x)
  PROVE  Sealed(x)
<1>1. \A u \in Threads : Registering(u) = {}
  BY NobodyRegisters DEF DoneInv
<1>2. \A u \in Threads : ~Early(u, x)
  BY <1>1, EarlyIs DEF DoneInv
<1>3. Decided(BaseOf[x])
  BY <1>2 DEF BasesFirst
<1>4. QED
  BY <1>1, <1>3 DEF Sealed, Over, Final, Decided

-----------------------------------------------------------------------------
(* What a step may bring onto a stack.                                     *)

\* A frame that a step of t may leave or put on the stack.
Sound(t, f) ==
  /\ FrameHier(f)
  /\ f.pc = "add" => ~modelFrozen
  /\ f.pc = "ready" => At(t, "add") /\ f.type = Top(t).type

HierMove(t) ==
  \/ \E f \in Frame : Goto(t, f) /\ Sound(t, f) /\ (f.pc = "climb" => Known(f.other))
  \/ \E f, g \in Frame : Call(t, f, g) /\ Sound(t, f) /\ Sound(t, g) /\ g.pc # "climb"
  \/ Return(t) /\ (Top(t).pc \in FindPCs => Known(Top(t).type))
  \/ stack' = [stack EXCEPT ![t] = <<>>]

\* Statements at which a frame of t is sound whatever has happened.
EasyPCs == PC \ (ClimbPCs \union {"add", "ready", "optwrite"})

LEMMA EasySound ==
  ASSUME NEW t, NEW f, f.pc \in EasyPCs
  PROVE  Sound(t, f) /\ f.pc # "climb"
BY DEF EasyPCs, Sound, FrameHier, ClimbPCs

LEMMA EasyGoto ==
  ASSUME TypeOK, TypeOK', NEW t \in Threads, stack[t] # <<>>,
         NEW f, Goto(t, f), f.pc \in EasyPCs
  PROVE  HierMove(t)
BY GotoFrame, EasySound DEF HierMove

LEMMA EasyPC ==
  ASSUME TypeOK, TypeOK', NEW t \in Threads, stack[t] # <<>>,
         NEW pc \in EasyPCs, GotoPC(t, pc)
  PROVE  HierMove(t)
<1>1. PICK f : f = [Top(t) EXCEPT !.pc = pc]
  OBVIOUS
<1>2. f.pc = pc /\ Goto(t, f)
  BY <1>1, TopIs DEF Frame, GotoPC
<1>3. QED
  BY <1>2, EasyGoto

LEMMA EasyCall ==
  ASSUME TypeOK, TypeOK', NEW t \in Threads, stack[t] # <<>>,
         NEW f, NEW g, Call(t, f, g), Sound(t, f), g.pc \in EasyPCs
  PROVE  HierMove(t)
<1>1. f \in Frame /\ g \in Frame
  BY CallFrames
<1>2. Sound(t, g) /\ g.pc # "climb"
  BY EasySound
<1>3. QED
  BY <1>1, <1>2 DEF HierMove

LEMMA PlainReturn ==
  ASSUME NEW t, Return(t), Top(t).pc \notin FindPCs
  PROVE  HierMove(t)
BY DEF HierMove

LEMMA LockStepHier ==
  ASSUME HierInv, TypeOK', NEW t \in Threads, LockStep(t)
  PROVE  HierMove(t)
<1>0. TypeOK /\ StacksHier
  BY DEF HierInv, DoneInv, RegInv, Inv
<1>1. ASSUME NEW pc \in EasyPCs, stack[t] # <<>>, TakeLock(t, pc)
      PROVE  HierMove(t)
  <2>1. PICK f : f = [Top(t) EXCEPT !.pc = pc, !.held = TRUE]
    OBVIOUS
  <2>2. f.pc = pc /\ Goto(t, f)
    BY <1>0, <1>1, <2>1, TopIs DEF Frame, TakeLock
  <2>3. QED
    BY <1>0, <1>1, <2>2, EasyGoto
<1>2. CASE WaitLock(t) \/ Take(t) \/ SerLock(t) \/ FieldLock(t) \/ AddLock(t)
  <2>1. {"waited", "create", "build", "fieldadd", "addcheck"} \subseteq EasyPCs
    BY DEF EasyPCs, PC, LockedPCs, ClimbPCs
  <2>2. QED
    BY <1>1, <1>2, <2>1 DEF WaitLock, Take, SerLock, FieldLock, AddLock, At
<1>3. CASE RootLock(t)
  <2>1. PICK e \in Frame : /\ e = Top(t) /\ e.pc = "rootlock" /\ stack[t] # <<>>
                           /\ FrameHier(e)
    BY <1>0, <1>3, TopIs DEF RootLock, At, StacksHier
  <2>2. PICK f : f = [e EXCEPT !.pc = "rootread", !.held = TRUE]
    OBVIOUS
  <2>3. /\ f.pc = "rootread" /\ f.other = e.other /\ f.type = e.type /\ Goto(t, f)
    BY <1>3, <2>1, <2>2 DEF Frame, RootLock, TakeLock
  <2>4. Sound(t, f)
    BY <2>1, <2>3 DEF Sound, FrameHier, ClimbPCs
  <2>5. QED
    BY <1>0, <2>1, <2>3, <2>4, GotoFrame DEF HierMove
<1>4. CASE TakeLockTimeout(t)
  BY <1>4 DEF TakeLockTimeout, Throw, HierMove
<1>5. QED
  BY <1>2, <1>3, <1>4 DEF LockStep

LEMMA FindStepHier ==
  ASSUME HierInv, TypeOK', NEW t \in Threads,
         \/ Look(t) \/ Waited(t) \/ Create(t) \/ Recheck(t) \/ AddType(t)
         \/ Ready(t) \/ Leave(t)
  PROVE  HierMove(t)
<1>0. TypeOK /\ RegInv
  BY DEF HierInv, DoneInv, RegInv, Inv
<1>1. /\ stack[t] # <<>> /\ FrameSettled(Top(t)) /\ Top(t) \in Frame
      /\ {"waitlock", "take", "recheck", "leave", "base"} \subseteq EasyPCs
  BY <1>0, TopReg DEF Look, Waited, Create, Recheck, AddType, Ready, Leave, At,
                      EasyPCs, ClimbPCs, PC, LockPCs, LockedPCs, OtherPCs
<1>2. CASE Look(t)
  BY <1>0, <1>1, <1>2, EasyPC DEF Look, HierMove
<1>3. CASE Waited(t) \/ Leave(t)
  BY <1>1, <1>3 DEF Waited, Leave, At, FrameSettled, Settled, HierMove
<1>4. CASE Create(t)
  BY <1>0, <1>1, <1>4, EasyPC DEF Create, Throw, HierMove
<1>5. CASE Recheck(t)
  <2>1. CASE ~modelFrozen /\ GotoPC(t, "add")
    <3>1. PICK f : f = [Top(t) EXCEPT !.pc = "add"]
      OBVIOUS
    <3>2. f.pc = "add" /\ Goto(t, f)
      BY <1>1, <2>1, <3>1 DEF Frame, GotoPC
    <3>3. Sound(t, f)
      BY <2>1, <3>2 DEF Sound, FrameHier, ClimbPCs
    <3>4. QED
      BY <1>0, <1>1, <3>2, <3>3, GotoFrame DEF HierMove
  <2>2. QED
    BY <1>5, <2>1 DEF Recheck, Throw, HierMove
<1>6. CASE AddType(t)
  <2>1. PICK f : f = [Top(t) EXCEPT !.pc = "ready"]
    OBVIOUS
  <2>2. PICK g : g = NewFrame("base", Top(t).type, NoType)
    OBVIOUS
  <2>3. /\ f.pc = "ready" /\ f.type = Top(t).type /\ g.pc = "base"
        /\ Call(t, f, g) /\ At(t, "add")
    BY <1>1, <1>6, <2>1, <2>2 DEF AddType, Frame, NewFrame
  <2>4. Sound(t, f)
    BY <2>3 DEF Sound, FrameHier, ClimbPCs
  <2>5. QED
    BY <1>0, <1>1, <2>3, <2>4, EasyCall
<1>7. CASE Ready(t)
  BY <1>0, <1>1, <1>7, EasyPC DEF Ready
<1>8. QED
  BY <1>2, <1>3, <1>4, <1>5, <1>6, <1>7

LEMMA ApplyStepHier ==
  ASSUME HierInv, TypeOK', NEW t \in Threads,
         ApplyBase(t) \/ ApplyInclude(t) \/ ApplyMembers(t) \/ ApplyThrows(t)
  PROVE  HierMove(t)
<1>0. TypeOK
  BY DEF HierInv, DoneInv, RegInv, Inv
<1>1. stack[t] # <<>> /\ Top(t).pc \in {"base", "include"}
      /\ {"look", "include", "subfind"} \subseteq EasyPCs
  BY DEF ApplyBase, ApplyInclude, ApplyMembers, ApplyThrows, At,
         EasyPCs, ClimbPCs, PC, OtherPCs
<1>2. PICK e \in Frame : e = Top(t)
  BY <1>0, <1>1, TopIs
<1>3. ASSUME NEW f, f.pc = "include", NEW g, g.pc \in EasyPCs, Call(t, f, g)
      PROVE  HierMove(t)
  <2>1. Sound(t, f)
    BY <1>1, <1>3, EasySound
  <2>2. QED
    BY <1>0, <1>1, <1>3, <2>1, EasyCall
<1>4. CASE ApplyBase(t)
  <2>1. PICK f : f = [e EXCEPT !.pc = "include", !.todo = ValidIncludes(e.type)]
    OBVIOUS
  <2>2. PICK g : g = NewFrame("look", BaseOf[e.type], NoType)
    OBVIOUS
  <2>3. f.pc = "include" /\ g.pc = "look" /\ (Call(t, f, g) \/ Goto(t, f))
    BY <1>2, <1>4, <2>1, <2>2 DEF ApplyBase, Frame, NewFrame
  <2>4. QED
    BY <1>0, <1>1, <1>3, <2>3, EasyGoto
<1>5. CASE ApplyInclude(t)
  <2>1. PICK d \in e.todo :
          Call(t, [e EXCEPT !.todo = @ \ {d}], NewFrame("subfind", e.type, d))
    BY <1>2, <1>5 DEF ApplyInclude
  <2>2. PICK f : f = [e EXCEPT !.todo = @ \ {d}]
    OBVIOUS
  <2>3. PICK g : g = NewFrame("subfind", e.type, d)
    OBVIOUS
  <2>4. f.pc = "include" /\ g.pc = "subfind" /\ Call(t, f, g)
    BY <1>2, <1>5, <2>1, <2>2, <2>3 DEF ApplyInclude, At, Frame, NewFrame
  <2>5. QED
    BY <1>1, <1>3, <2>4
<1>6. CASE ApplyMembers(t)
  BY <1>1, <1>6, PlainReturn DEF ApplyMembers, Throw, HierMove, FindPCs
<1>7. CASE ApplyThrows(t)
  BY <1>7 DEF ApplyThrows, Throw, HierMove
<1>8. QED
  BY <1>4, <1>5, <1>6, <1>7

LEMMA SubStepHier ==
  ASSUME HierInv, TypeOK', NEW t \in Threads,
         SubFind(t) \/ SubCheck(t) \/ Link(t) \/ SubAdd(t)
  PROVE  HierMove(t)
<1>0. TypeOK
  BY DEF HierInv, DoneInv, RegInv, Inv
<1>1. /\ stack[t] # <<>> /\ Top(t).pc \in {"subfind", "subcheck", "link", "subadd"}
      /\ {"look", "subcheck", "link", "subadd"} \subseteq EasyPCs
  BY DEF SubFind, SubCheck, Link, SubAdd, At, EasyPCs, ClimbPCs, PC, OtherPCs
<1>2. CASE SubFind(t)
  <2>1. PICK f : f = [Top(t) EXCEPT !.pc = "subcheck"]
    OBVIOUS
  <2>2. PICK g : g = NewFrame("look", Top(t).other, NoType)
    OBVIOUS
  <2>3. f.pc = "subcheck" /\ g.pc = "look" /\ Call(t, f, g)
    BY <1>0, <1>1, <1>2, <2>1, <2>2, TopIs DEF SubFind, Frame, NewFrame
  <2>4. Sound(t, f)
    BY <1>1, <2>3, EasySound
  <2>5. QED
    BY <1>0, <1>1, <2>3, <2>4, EasyCall
<1>3. CASE SubCheck(t)
  BY <1>0, <1>1, <1>3, EasyPC DEF SubCheck, Throw, HierMove
<1>4. CASE Link(t)
  BY <1>0, <1>1, <1>4, EasyPC DEF Link, Throw, HierMove
<1>5. CASE SubAdd(t)
  BY <1>1, <1>5, PlainReturn DEF SubAdd, FindPCs
<1>6. QED
  BY <1>2, <1>3, <1>4, <1>5

LEMMA ReachSelf ==
  ASSUME NEW x
  PROVE  Reach(x, x)
BY DEF Reach

LEMMA ReachOn ==
  ASSUME NEW x, NEW n, Reach(x, n), baseType[n] # NoType
  PROVE  Reach(x, baseType[n])
BY DEF Reach

LEMMA RootStepHier ==
  ASSUME HierInv, TypeOK', NEW t \in Threads,
         GetKey(t) \/ Climb(t) \/ RootRead(t) \/ Rekey(t) \/ Answer(t)
  PROVE  HierMove(t)
<1>0. TypeOK /\ StacksHier /\ LinksHier /\ FrozenHier
  BY DEF HierInv, DoneInv, RegInv, Inv
<1>1. /\ stack[t] # <<>> /\ Depth(t) \in DOMAIN stack[t]
      /\ Top(t).pc \in {"getkey", "climb", "rootread", "rekey", "answer"}
      /\ {"look", "peek", "answer"} \subseteq EasyPCs
  BY <1>0, TopIs DEF GetKey, Climb, RootRead, Rekey, Answer, At,
                     EasyPCs, ClimbPCs, PC, OtherPCs
<1>2. PICK e \in Frame : /\ e = Top(t) /\ FrameHier(e) /\ e.type \in Types
                         /\ e.pc = "climb" => Known(e.other)
  BY <1>0, <1>1, TopIs DEF StacksHier, At, Frame
<1>3. ASSUME NEW f, Goto(t, f), Sound(t, f), f.pc = "climb" => Known(f.other)
      PROVE  HierMove(t)
  BY <1>0, <1>1, <1>3, GotoFrame DEF HierMove
<1>4. CASE GetKey(t)
  <2>1. PICK f : f = [e EXCEPT !.pc = "climb", !.other = e.type]
    OBVIOUS
  <2>2. PICK g : g = NewFrame("look", e.type, NoType)
    OBVIOUS
  <2>3. /\ f.pc = "climb" /\ f.type = e.type /\ f.other = e.type
        /\ g.pc = "look" /\ Call(t, f, g)
    BY <1>2, <1>4, <2>1, <2>2 DEF GetKey, Frame, NewFrame
  <2>4. Sound(t, f)
    BY <1>2, <2>3, ReachSelf DEF Sound, FrameHier
  <2>5. QED
    BY <1>0, <1>1, <2>3, <2>4, EasyCall
<1>5. CASE Climb(t)
  <2>1. /\ e.pc = "climb" /\ e.other \in Types /\ Reach(e.type, e.other)
        /\ Known(e.other)
    BY <1>2, <1>5 DEF Climb, At, FrameHier, ClimbPCs
  <2>2. CASE GotoPC(t, "rootlock")
    <3>1. PICK f : f = [e EXCEPT !.pc = "rootlock"]
      OBVIOUS
    <3>2. f.pc = "rootlock" /\ f.type = e.type /\ f.other = e.other /\ Goto(t, f)
      BY <1>2, <2>2, <3>1 DEF GotoPC, Frame
    <3>3. Sound(t, f)
      BY <2>1, <3>2 DEF Sound, FrameHier
    <3>4. QED
      BY <1>3, <3>2, <3>3
  <2>3. CASE baseType[e.other] # NoType /\ Goto(t, [e EXCEPT !.other = baseType[e.other]])
    <3>1. PICK f : f = [e EXCEPT !.other = baseType[e.other]]
      OBVIOUS
    <3>2. f.pc = "climb" /\ f.type = e.type /\ f.other = baseType[e.other] /\ Goto(t, f)
      BY <1>2, <2>1, <2>3, <3>1 DEF Frame
    <3>3. f.other \in Types /\ Known(f.other) /\ Reach(f.type, f.other)
      BY <1>0, <2>1, <2>3, <3>2, ReachOn DEF LinksHier, TypeOK
    <3>4. Sound(t, f)
      BY <3>2, <3>3 DEF Sound, FrameHier
    <3>5. QED
      BY <1>3, <3>2, <3>3, <3>4
  <2>4. CASE /\ serializer[e.other] # NoSerializer /\ baseType[e.other] = NoType
             /\ GotoPC(t, "rekey")
    <3>1. PICK f : f = [e EXCEPT !.pc = "rekey"]
      OBVIOUS
    <3>2. f.pc = "rekey" /\ f.type = e.type /\ f.other = e.other /\ Goto(t, f)
      BY <1>2, <2>4, <3>1 DEF GotoPC, Frame
    <3>3. Final(e.other)
      BY <1>0, <2>1, <2>4 DEF FrozenHier, Sealed
    <3>4. Sound(t, f)
      BY <2>1, <2>4, <3>2, <3>3 DEF Sound, FrameHier
    <3>5. QED
      BY <1>3, <3>2, <3>4
  <2>5. QED
    BY <1>2, <1>5, <2>2, <2>3, <2>4 DEF Climb
<1>6. CASE RootRead(t)
  <2>1. /\ e.pc = "rootread" /\ e.other \in Types /\ Reach(e.type, e.other)
        /\ Known(e.other)
    BY <1>2, <1>6 DEF RootRead, At, FrameHier, ClimbPCs
  <2>2. CASE baseType[e.other] # NoType /\ Goto(t, [e EXCEPT !.other = baseType[e.other]])
    <3>1. PICK f : f = [e EXCEPT !.other = baseType[e.other]]
      OBVIOUS
    <3>2. f.pc = "rootread" /\ f.type = e.type /\ f.other = baseType[e.other] /\ Goto(t, f)
      BY <1>2, <2>1, <2>2, <3>1 DEF Frame
    <3>3. f.other \in Types /\ Known(f.other) /\ Reach(f.type, f.other)
      BY <1>0, <2>1, <2>2, <3>2, ReachOn DEF LinksHier, TypeOK
    <3>4. Sound(t, f)
      BY <3>2, <3>3 DEF Sound, FrameHier
    <3>5. QED
      BY <1>3, <3>2, <3>4
  <2>3. CASE /\ baseType[e.other] = NoType
             /\ Goto(t, [e EXCEPT !.pc = "rekey", !.held = FALSE])
    <3>1. PICK f : f = [e EXCEPT !.pc = "rekey", !.held = FALSE]
      OBVIOUS
    <3>2. f.pc = "rekey" /\ f.type = e.type /\ f.other = e.other /\ Goto(t, f)
      BY <1>2, <2>3, <3>1 DEF Frame
    <3>3. Final(e.other)
      BY <1>1, <1>2, <2>1, IdleSeals
         DEF HierInv, Sealed, LockedPCs, RegisterPCs, FindPCs, ApplyPCs, SubPCs
    <3>4. Sound(t, f)
      BY <2>1, <2>3, <3>2, <3>3 DEF Sound, FrameHier
    <3>5. QED
      BY <1>3, <3>2, <3>4
  <2>4. QED
    BY <1>2, <1>6, <2>2, <2>3 DEF RootRead
<1>7. CASE Rekey(t)
  <2>1. PICK f : f = [e EXCEPT !.pc = e.next, !.type = e.other]
    OBVIOUS
  <2>2. PICK g : g = NewFrame("look", e.other, NoType)
    OBVIOUS
  <2>3. f.pc \in {"peek", "answer"} /\ g.pc = "look" /\ Call(t, f, g)
    BY <1>2, <1>7, <2>1, <2>2 DEF Rekey, Frame, NewFrame
  <2>4. Sound(t, f)
    BY <1>1, <2>3, EasySound
  <2>5. QED
    BY <1>0, <1>1, <2>3, <2>4, EasyCall
<1>8. CASE Answer(t)
  BY <1>1, <1>8, PlainReturn DEF Answer, At, FindPCs
<1>9. QED
  BY <1>4, <1>5, <1>6, <1>7, <1>8

LEMMA BuildStepHier ==
  ASSUME HierInv, TypeOK', NEW t \in Threads,
         Peek(t) \/ Build(t) \/ BuildMember(t) \/ StoreSerializer(t) \/ Built(t)
  PROVE  HierMove(t)
<1>0. TypeOK
  BY DEF HierInv, DoneInv, RegInv, Inv
<1>1. /\ stack[t] # <<>> /\ Top(t).pc \notin FindPCs
      /\ {"serlock", "members", "getkey", "built"} \subseteq EasyPCs
  BY DEF Peek, Build, BuildMember, StoreSerializer, Built, At, FindPCs,
         EasyPCs, ClimbPCs, PC, LockPCs, LockedPCs, OtherPCs
<1>2. PICK e \in Frame : e = Top(t)
  BY <1>0, <1>1, TopIs
<1>3. CASE Peek(t)
  BY <1>0, <1>1, <1>3, EasyPC, PlainReturn DEF Peek
<1>4. CASE Build(t)
  <2>1. PICK f : f = [e EXCEPT !.pc = "members", !.todo = Members[e.type],
                               !.subs = subTypes[e.type]]
    OBVIOUS
  <2>2. f.pc = "members" /\ (Return(t) \/ Goto(t, f))
    BY <1>2, <1>4, <2>1 DEF Build, Frame
  <2>3. QED
    BY <1>0, <1>1, <2>2, EasyGoto, PlainReturn
<1>5. CASE BuildMember(t)
  <2>1. PICK y \in e.todo :
          Call(t, [e EXCEPT !.todo = @ \ {y}],
                  [NewFrame("getkey", y, NoType) EXCEPT !.next = "answer"])
    BY <1>2, <1>5 DEF BuildMember
  <2>2. PICK f : f = [e EXCEPT !.todo = @ \ {y}]
    OBVIOUS
  <2>3. PICK g : g = [NewFrame("getkey", y, NoType) EXCEPT !.next = "answer"]
    OBVIOUS
  <2>4. f.pc = "members" /\ g.pc = "getkey" /\ Call(t, f, g)
    BY <1>2, <1>5, <2>1, <2>2, <2>3 DEF BuildMember, At, Frame, NewFrame
  <2>5. Sound(t, f)
    BY <1>1, <2>4, EasySound
  <2>6. QED
    BY <1>0, <1>1, <2>4, <2>5, EasyCall
<1>6. CASE StoreSerializer(t)
  BY <1>0, <1>1, <1>6, EasyPC DEF StoreSerializer
<1>7. CASE Built(t)
  BY <1>1, <1>7, PlainReturn DEF Built
<1>8. QED
  BY <1>3, <1>4, <1>5, <1>6, <1>7

LEMMA ConfigStepHier ==
  ASSUME HierInv, TypeOK', NEW t \in Threads, ConfigStep(t)
  PROVE  HierMove(t)
<1>0. TypeOK /\ FrozenHier
  BY DEF HierInv, DoneInv, RegInv, Inv
<1>1. /\ stack[t] # <<>> /\ Top(t).pc \notin FindPCs
      /\ {"look", "subfind", "fieldlock", "optcheck", "peek", "optread", "waitlock",
          "addcreate", "addlock"} \subseteq EasyPCs
  BY DEF ConfigStep, ModelGet, FieldAdd, OptCheck, OptRead, OptWrite, AddFind,
         AddCreate, AddCheck, At, FindPCs, EasyPCs, ClimbPCs, PC, LockPCs, OtherPCs
<1>2. PICK e \in Frame : e = Top(t) /\ e.type \in Types
  BY <1>0, <1>1, TopIs DEF Frame
<1>3. CASE ModelGet(t)
  <2>1. PICK pc \in {"typeget", "fieldget", "optget", "compileget"} :
          Call(t, [e EXCEPT !.pc = CASE pc = "typeget" -> "subfind"
                                     [] pc = "fieldget" -> "fieldlock"
                                     [] pc = "optget" -> "optcheck"
                                     [] pc = "compileget" -> "peek"],
                  NewFrame("look", e.type, NoType))
    BY <1>2, <1>3 DEF ModelGet
  <2>2. PICK next : /\ next = CASE pc = "typeget" -> "subfind"
                                [] pc = "fieldget" -> "fieldlock"
                                [] pc = "optget" -> "optcheck"
                                [] pc = "compileget" -> "peek"
                    /\ next \in {"subfind", "fieldlock", "optcheck", "peek"}
    OBVIOUS
  <2>3. PICK f : f = [e EXCEPT !.pc = next]
    OBVIOUS
  <2>4. PICK g : g = NewFrame("look", e.type, NoType)
    OBVIOUS
  <2>5. f.pc = next /\ g.pc = "look" /\ Call(t, f, g)
    BY <1>2, <2>1, <2>2, <2>3, <2>4 DEF Frame, NewFrame
  <2>6. Sound(t, f)
    BY <1>1, <2>2, <2>5, EasySound
  <2>7. QED
    BY <1>0, <1>1, <2>5, <2>6, EasyCall
<1>4. CASE FieldAdd(t)
  BY <1>1, <1>4, PlainReturn DEF FieldAdd, Throw, HierMove
<1>5. CASE OptCheck(t)
  BY <1>0, <1>1, <1>5, EasyPC DEF OptCheck, Throw, HierMove
<1>6. CASE OptRead(t)
  <2>1. PICK f : f = [e EXCEPT !.pc = "optwrite", !.saved = flags[e.type]]
    OBVIOUS
  <2>2. /\ f.pc = "optwrite" /\ f.type = e.type /\ f.saved = flags[e.type]
        /\ Goto(t, f)
    BY <1>2, <1>6, <2>1 DEF OptRead, Frame
  <2>3. Sound(t, f)
    BY <1>0, <1>2, <2>2 DEF Sound, FrameHier, ClimbPCs, FrozenHier, Frozen
  <2>4. QED
    BY <1>0, <1>1, <2>2, <2>3, GotoFrame DEF HierMove
<1>7. CASE OptWrite(t)
  BY <1>1, <1>7, PlainReturn DEF OptWrite
<1>8. CASE AddFind(t)
  BY <1>0, <1>1, <1>8, EasyPC, PlainReturn DEF AddFind
<1>9. CASE AddCreate(t)
  BY <1>0, <1>1, <1>9, EasyPC DEF AddCreate, Throw, HierMove
<1>10. CASE AddCheck(t)
  <2>1. CASE ~modelFrozen /\ GotoPC(t, "add")
    <3>1. PICK f : f = [e EXCEPT !.pc = "add"]
      OBVIOUS
    <3>2. f.pc = "add" /\ Goto(t, f)
      BY <1>2, <2>1, <3>1 DEF Frame, GotoPC
    <3>3. Sound(t, f)
      BY <2>1, <3>2 DEF Sound, FrameHier, ClimbPCs
    <3>4. QED
      BY <1>0, <1>1, <3>2, <3>3, GotoFrame DEF HierMove
  <2>2. QED
    BY <1>10, <2>1 DEF AddCheck, Throw, HierMove
<1>11. QED
  BY <1>3, <1>4, <1>5, <1>6, <1>7, <1>8, <1>9, <1>10 DEF ConfigStep

LEMMA StepHier ==
  ASSUME HierInv, TypeOK', NEW t \in Threads, Step(t)
  PROVE  HierMove(t)
<1>1. CASE LockStep(t)
  BY <1>1, LockStepHier
<1>2. CASE RegisterStep(t)
  BY <1>2, FindStepHier, ApplyStepHier, SubStepHier DEF RegisterStep
<1>3. CASE UseStep(t)
  BY <1>3, RootStepHier, BuildStepHier DEF UseStep
<1>4. CASE ConfigStep(t)
  BY <1>4, ConfigStepHier
<1>5. QED
  BY <1>1, <1>2, <1>3, <1>4 DEF Step

-----------------------------------------------------------------------------
(* What lasts.                                                             *)

\* The frames of S are all that a step of t brings onto the stacks.
Fresh(t, S) ==
  \A u \in Threads : \A i \in DOMAIN stack'[u] :
    \/ i \in DOMAIN stack[u] /\ stack'[u][i] = stack[u][i]
    \/ u = t /\ stack'[u][i] \in S

LEMMA MoveFresh ==
  ASSUME TypeOK, TypeOK', NEW t \in Threads, stack[t] # <<>>, HierMove(t)
  PROVE  \E S \in SUBSET Frame : Fresh(t, S) /\ \A f \in S : Sound(t, f)
<1>0. stack[t] \in Seq(Frame) /\ stack'[t] \in Seq(Frame)
  BY DEF TypeOK
<1>1. CASE \E f \in Frame : Goto(t, f) /\ Sound(t, f)
  <2>1. PICK f \in Frame : Goto(t, f) /\ Sound(t, f)
    BY <1>1
  <2>2. PICK d \in Nat \ {0} :
          /\ d = Len(stack[t]) /\ Len(stack'[t]) = d /\ stack'[t][d] = f
          /\ \A i \in 1 .. d - 1 : stack'[t][i] = stack[t][i]
          /\ \A u \in Threads : u # t => stack'[u] = stack[u]
    BY <2>1, GotoIs
  <2>3. \A i \in 1 .. d : i = d \/ i \in 1 .. d - 1
    OBVIOUS
  <2>4. DOMAIN stack[t] = 1 .. d /\ DOMAIN stack'[t] = 1 .. d
    BY <1>0, <2>2
  <2>5. Fresh(t, {f})
    BY <2>2, <2>3, <2>4 DEF Fresh
  <2>6. QED
    BY <2>1, <2>5
<1>2. CASE \E f, g \in Frame : Call(t, f, g) /\ Sound(t, f) /\ Sound(t, g)
  <2>1. PICK f, g \in Frame : Call(t, f, g) /\ Sound(t, f) /\ Sound(t, g)
    BY <1>2
  <2>2. PICK d \in Nat \ {0} :
          /\ d = Len(stack[t]) /\ Len(stack'[t]) = d + 1
          /\ stack'[t][d] = f /\ stack'[t][d + 1] = g
          /\ \A i \in 1 .. d - 1 : stack'[t][i] = stack[t][i]
          /\ \A u \in Threads : u # t => stack'[u] = stack[u]
    BY <2>1, CallIs
  <2>3. \A i \in 1 .. d + 1 : i = d + 1 \/ i = d \/ i \in 1 .. d - 1
    OBVIOUS
  <2>4. DOMAIN stack[t] = 1 .. d /\ DOMAIN stack'[t] = 1 .. d + 1
    BY <1>0, <2>2
  <2>5. \A i \in 1 .. d - 1 : i \in 1 .. d
    OBVIOUS
  <2>6. Fresh(t, {f, g})
    BY <2>2, <2>3, <2>4, <2>5 DEF Fresh
  <2>7. QED
    BY <2>1, <2>6
<1>3. CASE Return(t)
  <2>1. PICK d \in Nat \ {0} :
          /\ d = Len(stack[t]) /\ Len(stack'[t]) = d - 1
          /\ \A i \in 1 .. d - 1 : stack'[t][i] = stack[t][i]
          /\ \A u \in Threads : u # t => stack'[u] = stack[u]
    BY <1>3, ReturnIs
  <2>2. /\ DOMAIN stack[t] = 1 .. d /\ DOMAIN stack'[t] = 1 .. d - 1
        /\ \A i \in 1 .. d - 1 : i \in 1 .. d
    BY <1>0, <2>1
  <2>3. Fresh(t, {})
    BY <2>1, <2>2 DEF Fresh
  <2>4. QED
    BY <2>3
<1>4. CASE stack' = [stack EXCEPT ![t] = <<>>]
  <2>1. stack'[t] = <<>> /\ \A u \in Threads : u # t => stack'[u] = stack[u]
    BY <1>4 DEF TypeOK
  <2>2. DOMAIN <<>> = {}
    OBVIOUS
  <2>3. Fresh(t, {})
    BY <2>1, <2>2 DEF Fresh
  <2>4. QED
    BY <2>3
<1>5. QED
  BY <1>1, <1>2, <1>3, <1>4 DEF HierMove

LEMMA StartFresh ==
  ASSUME TypeOK, TypeOK', NEW t \in Threads, Start(t)
  PROVE  \E S \in SUBSET Frame : Fresh(t, S) /\ \A f \in S : Sound(t, f)
<1>1. ASSUME NEW op, NEW pc \in EasyPCs, NEW x, NEW y, Begin(t, op, pc, x, y)
      PROVE  \E S \in SUBSET Frame : Fresh(t, S) /\ \A f \in S : Sound(t, f)
  <2>1. PICK f : f = NewFrame(pc, x, y)
    OBVIOUS
  <2>2. /\ stack'[t] = <<f>> /\ \A u \in Threads : u # t => stack'[u] = stack[u]
        /\ f.pc = pc
    BY <1>1, <2>1 DEF Begin, TypeOK, NewFrame
  <2>3. Len(<<f>>) = 1 /\ <<f>>[1] = f /\ DOMAIN <<f>> = {1}
    OBVIOUS
  <2>4. f \in Frame
    <3>1. stack'[t] \in Seq(Frame)
      BY DEF TypeOK
    <3>2. QED
      BY <2>2, <2>3, <3>1
  <2>5. Fresh(t, {f})
    BY <2>2, <2>3 DEF Fresh
  <2>6. Sound(t, f)
    BY <2>2, EasySound
  <2>7. QED
    BY <2>4, <2>5, <2>6
<1>2. {"getkey", "addfind", "fieldget", "optget", "compileget", "typeget", "peek"} \subseteq EasyPCs
  BY DEF EasyPCs, ClimbPCs, PC, OtherPCs
<1>3. CASE Freeze(t)
  <2>1. Fresh(t, {})
    BY <1>3 DEF Freeze, Fresh
  <2>2. QED
    BY <2>1
<1>4. CASE ~Freeze(t)
  <2>1. \E pc \in {"getkey", "addfind", "fieldget", "optget", "compileget", "typeget",
              "peek"},
           op \in OpNames, x \in Types, y \in Types \union {NoType} :
          Begin(t, op, pc, x, y)
    BY <1>4, RegistryAssumption
       DEF Start, Use, Compile, CompileListed, Add, AddField, Configure, AddSubType, OpNames
  <2>2. QED
    BY <1>1, <1>2, <2>1
<1>5. QED
  BY <1>3, <1>4

LEMMA FrozenStays ==
  ASSUME NEW t \in Threads, Step(t) \/ Start(t), modelFrozen
  PROVE  modelFrozen'
<1>1. CASE LockStep(t)
  BY <1>1 DEF LockStep, WaitLock, Take, RootLock, SerLock, FieldLock, AddLock,
              TakeLockTimeout, TakeLock
<1>2. CASE RegisterStep(t)
  BY <1>2 DEF RegisterStep, Look, Waited, Create, Recheck, AddType, Ready, Leave,
              ApplyBase, ApplyInclude, ApplyMembers, ApplyThrows,
              SubFind, SubCheck, Link, SubAdd
<1>3. CASE UseStep(t)
  BY <1>3 DEF UseStep, GetKey, Climb, RootRead, Rekey, Answer, Peek, Build,
              BuildMember, StoreSerializer, Built
<1>4. CASE ConfigStep(t)
  BY <1>4 DEF ConfigStep, ModelGet, FieldAdd, OptCheck, OptRead, OptWrite,
              AddFind, AddCreate, AddCheck
<1>5. CASE Start(t)
  BY <1>5 DEF Start, Use, Compile, CompileListed, Add, AddField, Configure, AddSubType, Freeze, Begin
<1>6. QED
  BY <1>1, <1>2, <1>3, <1>4, <1>5 DEF Step

\* A decision not to add a type is final.
LEMMA DecidedLasts ==
  ASSUME Inv, NEW t \in Threads, Step(t) \/ Start(t),
         NEW S, Fresh(t, S), \A f \in S : Sound(t, f),
         NEW y \in Types \union {NoType}
  PROVE  (Decided(y) => Decided(y)') /\ (Over(y) => Over(y)')
<1>1. ASSUME Decided(y) PROVE Decided(y)'
  <2>1. CASE y = NoType
    BY <2>1 DEF Decided
  <2>2. CASE y # NoType /\ Known(y)
    BY <2>2, StepGrows DEF Decided, Grows
  <2>3. CASE /\ modelFrozen
             /\ \A u \in Threads : \A i \in DOMAIN stack[u] :
                  stack[u][i].pc = "add" => stack[u][i].type # y
    <3>1. modelFrozen'
      BY <2>3, FrozenStays
    <3>2. ASSUME NEW u \in Threads, NEW i \in DOMAIN stack'[u], stack'[u][i].pc = "add"
          PROVE  stack'[u][i].type # y
      BY <2>3, <3>2 DEF Fresh, Sound
    <3>3. QED
      BY <3>1, <3>2 DEF Decided
  <2>4. QED
    BY <1>1, <2>1, <2>2, <2>3 DEF Decided
<1>2. ASSUME Over(y), NEW u \in Threads, y \in Registering(u)'
      PROVE  FALSE
  <2>1. PICK i \in DOMAIN stack'[u] : stack'[u][i].pc = "ready" /\ stack'[u][i].type = y
    BY <1>2 DEF Registering
  <2>2. CASE i \in DOMAIN stack[u] /\ stack'[u][i] = stack[u][i]
    BY <1>2, <2>1, <2>2 DEF Over, Registering
  <2>3. CASE u = t /\ stack'[u][i] \in S
    <3>1. At(t, "add") /\ Top(t).type = y
      BY <2>1, <2>3 DEF Sound
    <3>2. /\ Depth(t) \in DOMAIN stack[t] /\ Top(t) = stack[t][Depth(t)]
          /\ Top(t).pc = "add" /\ Top(t).type \in Types
      BY <3>1, TopIs DEF Inv, At, Frame
    <3>3. ~Known(y)
      BY <3>1, <3>2 DEF Inv, FramesOK
    <3>4. y # NoType
      BY <3>1, <3>2, RegistryAssumption
    <3>5. QED
      BY <1>2, <3>1, <3>2, <3>3, <3>4 DEF Over, Decided
  <2>4. QED
    BY <2>1, <2>2, <2>3 DEF Fresh
<1>3. QED
  BY <1>1, <1>2 DEF Over

\* A link follows the base types of the classes, and is not taken back.
BasesGrow ==
  \A n \in Types :
    /\ baseType[n] # NoType => baseType'[n] = baseType[n]
    /\ Final(n) => baseType'[n] = baseType[n]
    /\ baseType'[n] # NoType => baseType'[n] = BaseOf[n] /\ Known(BaseOf[n])

LEMMA LinkIs ==
  ASSUME Declared, HierInv, NEW t \in Threads, Link(t)
  PROVE  BasesGrow /\ errors' = errors
<1>0. RegInv /\ StacksNeat /\ TypeOK /\ LinksHier
  BY DEF HierInv, DoneInv, RegInv, Inv
<1>1. stack[t] # <<>> /\ Top(t).pc = "link"
  BY DEF Link, At
<1>2. PICK b \in Types : b = Top(t).type
  BY <1>0, <1>1, LinkingIs DEF SubPCs
<1>3. PICK d \in Types : d = Top(t).other
  BY <1>0, <1>1, LinkingIs DEF SubPCs
<1>4. BaseOf[d] = b /\ d # b /\ b \in Registering(t) /\ Known(b) /\ b # NoType
  BY <1>0, <1>1, <1>2, <1>3, LinkingIs, RegistryAssumption DEF SubPCs
<1>5. baseType[d] = b \/ baseType[d] = NoType
  BY <1>0, <1>4 DEF LinksHier
<1>6. baseType' = [baseType EXCEPT ![d] = b] /\ errors' = errors
  BY <1>2, <1>3, <1>4, <1>5 DEF Link
<1>7. ~Final(d)
  BY <1>4 DEF Final, Over
<1>8. baseType'[d] = b /\ \A n \in Types : n # d => baseType'[n] = baseType[n]
  BY <1>0, <1>6 DEF TypeOK
<1>9. ASSUME NEW n \in Types
      PROVE  /\ baseType[n] # NoType => baseType'[n] = baseType[n]
             /\ Final(n) => baseType'[n] = baseType[n]
             /\ baseType'[n] # NoType => baseType'[n] = BaseOf[n] /\ Known(BaseOf[n])
  BY <1>0, <1>4, <1>5, <1>7, <1>8 DEF LinksHier
<1>10. QED
  BY <1>6, <1>9 DEF BasesGrow

LEMMA StepBases ==
  ASSUME Declared, HierInv, NEW t \in Threads, Step(t) \/ Start(t)
  PROVE  BasesGrow
<1>1. CASE Link(t)
  BY <1>1, LinkIs
<1>2. CASE ~Link(t)
  <2> USE DEF metaVars
  <2>1. CASE LockStep(t)
    BY <2>1 DEF LockStep, WaitLock, Take, RootLock, SerLock, FieldLock, AddLock,
                TakeLockTimeout, TakeLock, BasesGrow, HierInv, LinksHier
  <2>2. CASE RegisterStep(t)
    BY <1>2, <2>2
       DEF RegisterStep, Look, Waited, Create, Recheck, AddType, Ready, Leave,
           ApplyBase, ApplyInclude, ApplyMembers, ApplyThrows,
           SubFind, SubCheck, SubAdd, BasesGrow, HierInv, LinksHier
  <2>3. CASE UseStep(t)
    BY <2>3 DEF UseStep, GetKey, Climb, RootRead, Rekey, Answer, Peek, Build,
                BuildMember, StoreSerializer, Built, BasesGrow, HierInv, LinksHier
  <2>4. CASE ConfigStep(t)
    BY <2>4 DEF ConfigStep, ModelGet, FieldAdd, OptCheck, OptRead, OptWrite,
                AddFind, AddCreate, AddCheck, BasesGrow, HierInv, LinksHier
  <2>5. CASE Start(t)
    BY <2>5 DEF Start, Use, Compile, CompileListed, Add, AddField, Configure, AddSubType, Freeze,
                Begin, BasesGrow, HierInv, LinksHier
  <2>6. QED
    BY <2>1, <2>2, <2>3, <2>4, <2>5 DEF Step
<1>3. QED
  BY <1>1, <1>2

\* What a frame knows about hierarchies, it knows for ever.
Lasts ==
  /\ \A x \in Types : /\ Known(x) => Known(x)'
                      /\ Final(x) => Final(x)'
                      /\ Sealed(x) => Sealed(x)'
                      /\ Decided(BaseOf[x]) => Decided(BaseOf[x])'
  /\ \A x \in Types : \A r \in Types : Reach(x, r) => Reach(x, r)'
  /\ \A f \in Frame : FrameHier(f) => FrameHier(f)'

LEMMA ReachLasts ==
  ASSUME BasesGrow, NEW x \in Types, NEW r \in Types, Reach(x, r)
  PROVE  Reach(x, r)'
<1> SUFFICES ASSUME NEW S \in SUBSET Types, x \in S,
                    \A n \in S : baseType'[n] # NoType => baseType'[n] \in S
             PROVE  r \in S
  BY DEF Reach
<1>1. \A n \in S : baseType[n] # NoType => baseType[n] \in S
  BY DEF BasesGrow
<1>2. QED
  BY <1>1 DEF Reach

LEMMA StepLasts ==
  ASSUME Declared, HierInv, NEW t \in Threads, Step(t) \/ Start(t),
         NEW S, Fresh(t, S), \A f \in S : Sound(t, f)
  PROVE  Lasts
<1>0. Inv /\ BasesGrow /\ Grows
  BY StepBases, StepGrows DEF HierInv, DoneInv, RegInv
<1>1. \A x \in Types : BaseOf[x] \in Types \union {NoType}
  BY RegistryAssumption
<1>2. \A y \in Types \union {NoType} : (Decided(y) => Decided(y)') /\ (Over(y) => Over(y)')
  BY <1>0, DecidedLasts
<1>3. \A x \in Types : /\ Known(x) => Known(x)'
                       /\ Final(x) => Final(x)'
                       /\ Sealed(x) => Sealed(x)'
                       /\ Decided(BaseOf[x]) => Decided(BaseOf[x])'
  <2> SUFFICES ASSUME NEW x \in Types
               PROVE  /\ Known(x) => Known(x)'
                      /\ Final(x) => Final(x)'
                      /\ Sealed(x) => Sealed(x)'
                      /\ Decided(BaseOf[x]) => Decided(BaseOf[x])'
    OBVIOUS
  <2>1. PICK y \in Types \union {NoType} : y = BaseOf[x]
    BY <1>1
  <2>2. (Final(x) => Final(x)') /\ (Decided(BaseOf[x]) => Decided(BaseOf[x])')
    BY <1>2, <2>1 DEF Final
  <2>3. Known(x) => Known(x)'
    BY <1>0 DEF Grows
  <2>4. Over(x) => Over(x)'
    BY <1>2
  <2>5. QED
    BY <2>2, <2>3, <2>4 DEF Sealed
<1>4. \A x \in Types : \A r \in Types : Reach(x, r) => Reach(x, r)'
  BY <1>0, ReachLasts
<1>5. ASSUME NEW f \in Frame, FrameHier(f)
      PROVE  FrameHier(f)'
  <2>1. f.type \in Types
    BY DEF Frame
  <2>2. f.pc \in ClimbPCs => f.other \in Types /\ Reach(f.type, f.other)'
    BY <1>4, <1>5, <2>1 DEF FrameHier
  <2>3. f.pc \in {"rootlock", "rootread"} => Known(f.other)'
    BY <1>3, <1>5, <2>2 DEF FrameHier, ClimbPCs
  <2>4. ASSUME f.pc = "rekey"
        PROVE  Final(f.other)' /\ baseType'[f.other] = NoType
    <3>1. f.other \in Types /\ Final(f.other) /\ baseType[f.other] = NoType
      BY <1>5, <2>2, <2>4 DEF FrameHier, ClimbPCs
    <3>2. baseType'[f.other] = NoType
      BY <1>0, <3>1 DEF BasesGrow
    <3>3. QED
      BY <1>3, <3>1, <3>2
  <2>5. f.pc = "optwrite" /\ "Frozen" \in f.saved => Sealed(f.type)'
    BY <1>3, <1>5, <2>1 DEF FrameHier
  <2>6. QED
    BY <2>2, <2>3, <2>4, <2>5 DEF FrameHier
<1>6. QED
  BY <1>3, <1>4, <1>5 DEF Lasts

LEMMA OthersStay ==
  ASSUME TypeOK, TypeOK', NEW t \in Threads,
         Start(t) \/ (stack[t] # <<>> /\ HierMove(t)),
         NEW u \in Threads, u # t
  PROVE  stack'[u] = stack[u]
<1>1. CASE Start(t)
  BY <1>1 DEF Start, Use, Compile, CompileListed, Add, AddField, Configure, AddSubType, Freeze,
              Begin, TypeOK
<1>2. CASE HierMove(t) /\ stack[t] # <<>>
  <2>1. CASE \E f \in Frame : Goto(t, f)
    BY <1>2, <2>1, GotoIs
  <2>2. CASE \E f, g \in Frame : Call(t, f, g)
    BY <1>2, <2>2, CallIs
  <2>3. CASE Return(t)
    BY <1>2, <2>3, ReturnIs
  <2>4. CASE stack' = [stack EXCEPT ![t] = <<>>]
    BY <2>4 DEF TypeOK
  <2>5. QED
    BY <1>2, <2>1, <2>2, <2>3, <2>4 DEF HierMove
<1>3. QED
  BY <1>1, <1>2

\* A climb goes on where FindOrAddAuto has returned.
LEMMA ClimbKnows ==
  ASSUME TypeOK, TypeOK', StacksNeat, NEW t \in Threads, stack[t] # <<>>, HierMove(t),
         At(t, "climb")'
  PROVE  \E f \in Frame : f = Top(t)' /\ Known(f.other)
<1>1. PICK z \in Seq(Frame), k \in Nat \ {0} :
        z = stack'[t] /\ k = Len(z) /\ Top(t)' = z[k] /\ z[k] \in Frame
  <2>1. stack'[t] \in Seq(Frame) /\ stack'[t] # <<>>
    BY DEF TypeOK, At
  <2>2. PICK z \in Seq(Frame) : z = stack'[t]
    BY <2>1
  <2>3. Len(z) \in Nat \ {0} /\ z[Len(z)] \in Frame
    BY <2>1, <2>2
  <2>4. QED
    BY <2>2, <2>3 DEF Top, Depth
<1>2. z[k].pc = "climb"
  BY <1>1 DEF At
<1>3. SUFFICES Known(z[k].other)
  BY <1>1
<1>4. CASE \E f \in Frame : Goto(t, f) /\ (f.pc = "climb" => Known(f.other))
  <2>1. PICK f \in Frame : Goto(t, f) /\ (f.pc = "climb" => Known(f.other))
    BY <1>4
  <2>2. z[k] = f
    BY <1>1, <2>1, GotoIs
  <2>3. QED
    BY <1>2, <2>1, <2>2
<1>5. CASE \E f, g \in Frame : Call(t, f, g) /\ g.pc # "climb"
  <2>1. PICK f, g \in Frame : Call(t, f, g) /\ g.pc # "climb"
    BY <1>5
  <2>2. z[k] = g
    BY <1>1, <2>1, CallIs
  <2>3. QED
    BY <1>2, <2>1, <2>2
<1>6. CASE Return(t) /\ (Top(t).pc \in FindPCs => Known(Top(t).type))
  <2>1. PICK s \in Seq(Frame), d \in Nat \ {0} :
          /\ s = stack[t] /\ d = Len(s) /\ Top(t) = s[d] /\ k = d - 1
          /\ \A i \in 1 .. d - 1 : z[i] = s[i]
    BY <1>1, <1>6, ReturnIs
  <2>2. k = d - 1
    BY <2>1
  <2>3. k \in 1 .. d - 1 /\ k + 1 = d
    BY <2>2
  <2>4. Neat(s) /\ z[k] = s[k] /\ k \in 1 .. Len(s) - 1
    BY <2>1, <2>3 DEF StacksNeat
  <2>5. Calls(s[k], s[d])
    BY <2>3, <2>4 DEF Neat
  <2>6. s[d].pc \in FindPCs /\ s[d].type = z[k].other
    BY <1>2, <2>4, <2>5 DEF Calls, Wanted
  <2>7. QED
    BY <1>6, <2>1, <2>6
<1>7. CASE stack' = [stack EXCEPT ![t] = <<>>]
  <2>1. stack'[t] = <<>>
    BY <1>7 DEF TypeOK
  <2>2. QED
    BY <2>1 DEF At
<1>8. QED
  BY <1>4, <1>5, <1>6, <1>7 DEF HierMove

LEMMA StacksHierNext ==
  ASSUME HierInv, TypeOK', Lasts, NEW t \in Threads,
         Start(t) \/ (stack[t] # <<>> /\ HierMove(t)),
         NEW S \in SUBSET Frame, Fresh(t, S), \A f \in S : Sound(t, f)
  PROVE  StacksHier'
<1>0. TypeOK /\ StacksHier /\ StacksNeat
  BY DEF HierInv, DoneInv, RegInv, Inv
<1>1. ASSUME NEW u \in Threads, NEW i \in DOMAIN stack'[u]
      PROVE  FrameHier(stack[u][i])'
  <2>1. stack'[u][i] \in Frame
    BY DEF TypeOK
  <2>2. PICK f \in Frame : f = stack'[u][i]
    BY <2>1
  <2>3. FrameHier(f)
    BY <1>0, <2>2 DEF Fresh, StacksHier, Sound
  <2>4. FrameHier(f)'
    BY <2>3 DEF Lasts
  <2>5. QED
    BY <2>2, <2>4
<1>2. ASSUME NEW u \in Threads, At(u, "climb")'
      PROVE  Known(Top(u).other)'
  <2>1. \E f \in Frame : f = Top(u)' /\ Known(f.other)
    <3>1. CASE u # t
      <4>1. stack'[u] = stack[u]
        BY <1>0, <3>1, OthersStay
      <4>2. At(u, "climb") /\ Top(u)' = Top(u)
        BY <1>2, <4>1 DEF At, Top, Depth
      <4>3. Top(u) \in Frame
        BY <1>0, <4>2, TopIs DEF At
      <4>4. QED
        BY <1>0, <4>2, <4>3 DEF StacksHier
    <3>2. CASE u = t /\ Start(t)
      <4>1. CASE Freeze(t)
        BY <1>2, <3>2, <4>1 DEF Freeze, At
      <4>2. CASE ~Freeze(t)
        <5>1. \E pc \in {"getkey", "addfind", "fieldget", "optget", "compileget", "typeget",
                       "peek"},
                 op \in OpNames, x \in Types, y \in Types \union {NoType} :
                Begin(t, op, pc, x, y)
          BY <3>2, <4>2, RegistryAssumption
             DEF Start, Use, Compile, CompileListed, Add, AddField, Configure, AddSubType, OpNames
        <5>2. PICK pc \in {"getkey", "addfind", "fieldget", "optget", "compileget", "typeget",
                            "peek"},
                   x \in Types, y \in Types \union {NoType} :
                stack' = [stack EXCEPT ![t] = <<NewFrame(pc, x, y)>>]
          BY <5>1 DEF Begin
        <5>3. PICK f : f.pc = pc /\ stack'[t] = <<f>>
          BY <1>0, <5>2 DEF NewFrame, TypeOK
        <5>4. Top(t)' = f
          BY <5>3 DEF Top, Depth
        <5>5. QED
          BY <1>2, <3>2, <5>3, <5>4 DEF At
      <4>3. QED
        BY <4>1, <4>2
    <3>3. CASE u = t /\ stack[t] # <<>> /\ HierMove(t)
      BY <1>0, <1>2, <3>3, ClimbKnows
    <3>4. QED
      BY <3>1, <3>2, <3>3
  <2>2. PICK f \in Frame : f = Top(u)' /\ Known(f.other)
    BY <2>1
  <2>3. FrameHier(f)'
    <3>1. \E i \in DOMAIN stack'[u] : f = stack'[u][i]
      <4>1. stack'[u] \in Seq(Frame) /\ stack'[u] # <<>>
        BY <1>2 DEF TypeOK, At
      <4>2. Len(stack'[u]) \in DOMAIN stack'[u] /\ Top(u)' = stack'[u][Len(stack'[u])]
        BY <4>1 DEF Top, Depth
      <4>3. QED
        BY <2>2, <4>2
    <3>2. QED
      BY <1>1, <3>1
  <2>4. f.other \in Types
    BY <1>2, <2>2, <2>3 DEF FrameHier, ClimbPCs, At
  <2>5. Known(f.other)'
    BY <2>2, <2>4 DEF Lasts
  <2>6. QED
    BY <2>2, <2>5
<1>3. QED
  BY <1>1, <1>2 DEF StacksHier

-----------------------------------------------------------------------------
(* Whoever lists a type looks for its base type first.                     *)

\* What can happen to a call of FindOrAddAuto.
LEMMA FindKinds ==
  ASSUME RegInv, NEW t \in Threads, Step(t), Top(t).pc \in FindPCs
  PROVE  \/ \E f : Goto(t, f) /\ f.pc \in FindPCs
         \/ Return(t) /\ Known(Top(t).type)
         \/ AddType(t)
         \/ modelFrozen /\ modelFrozen' = modelFrozen /\ stack' = [stack EXCEPT ![t] = <<>>]
         \/ HeldByOther(t)
<1> USE DEF FindPCs
<1>1. CASE LockStep(t)
  <2>1. ASSUME NEW pc \in {"waited", "create"}, stack[t] # <<>>, TakeLock(t, pc)
        PROVE  \E f : Goto(t, f) /\ f.pc \in FindPCs
    <3>1. PICK f : f = [Top(t) EXCEPT !.pc = pc, !.held = TRUE]
      OBVIOUS
    <3>2. f.pc = pc /\ Goto(t, f)
      BY <2>1, <3>1, TopReg DEF Frame, TakeLock
    <3>3. QED
      BY <3>2
  <2>2. CASE WaitLock(t)
    BY <2>1, <2>2 DEF WaitLock, At
  <2>3. CASE Take(t)
    BY <2>1, <2>3 DEF Take, At
  <2>4. CASE TakeLockTimeout(t)
    BY <2>4 DEF TakeLockTimeout
  <2>5. QED
    BY <1>1, <2>2, <2>3, <2>4 DEF LockStep, RootLock, SerLock, FieldLock, AddLock, At
<1>2. ASSUME NEW pc \in FindPCs, stack[t] # <<>>, GotoPC(t, pc)
      PROVE  \E f : Goto(t, f) /\ f.pc \in FindPCs
  <2>1. PICK f : f = [Top(t) EXCEPT !.pc = pc]
    OBVIOUS
  <2>2. f.pc = pc /\ Goto(t, f)
    BY <1>2, <2>1, TopReg DEF Frame, GotoPC
  <2>3. QED
    BY <2>2
<1>3. CASE RegisterStep(t)
  <2>1. CASE Look(t)
    BY <1>2, <2>1 DEF Look, At
  <2>2. CASE Waited(t) \/ Leave(t)
    BY <2>2, TopReg DEF Waited, Leave, At, FrameSettled, Settled
  <2>3. CASE Create(t)
    BY <1>2, <2>3 DEF Create, At, Throw
  <2>4. CASE Recheck(t)
    BY <1>2, <2>4 DEF Recheck, At, Throw
  <2>5. CASE AddType(t)
    BY <2>5
  <2>6. CASE Ready(t)
    BY <1>2, <2>6 DEF Ready, At
  <2>7. QED
    BY <1>3, <2>1, <2>2, <2>3, <2>4, <2>5, <2>6
       DEF RegisterStep, ApplyBase, ApplyInclude, ApplyMembers, ApplyThrows,
           SubFind, SubCheck, Link, SubAdd, At
<1>4. CASE UseStep(t)
  BY <1>4 DEF UseStep, GetKey, Climb, RootRead, Rekey, Answer, Peek, Build,
              BuildMember, StoreSerializer, Built, At
<1>5. CASE ConfigStep(t)
  BY <1>5 DEF ConfigStep, ModelGet, FieldAdd, OptCheck, OptRead, OptWrite,
              AddFind, AddCreate, AddCheck, At
<1>6. QED
  BY <1>1, <1>3, <1>4, <1>5 DEF Step

LEMMA BaseKinds ==
  ASSUME NEW t \in Threads, Step(t), Top(t).pc = "base"
  PROVE  ApplyBase(t)
<1>1. ~LockStep(t)
  BY DEF LockStep, WaitLock, Take, RootLock, SerLock, FieldLock, AddLock,
         TakeLockTimeout, At, LockPCs
<1>2. ~UseStep(t)
  BY DEF UseStep, GetKey, Climb, RootRead, Rekey, Answer, Peek, Build,
         BuildMember, StoreSerializer, Built, At
<1>3. ~ConfigStep(t)
  BY DEF ConfigStep, ModelGet, FieldAdd, OptCheck, OptRead, OptWrite,
         AddFind, AddCreate, AddCheck, At
<1>4. RegisterStep(t)
  BY <1>1, <1>2, <1>3 DEF Step
<1>5. QED
  BY <1>4 DEF RegisterStep, Look, Waited, Create, Recheck, AddType, Ready, Leave,
              ApplyInclude, ApplyMembers, ApplyThrows, SubFind, SubCheck, Link,
              SubAdd, At

\* Only the holder of the lock is about to add a type.
LEMMA AddersHold ==
  ASSUME Inv, NEW u \in Threads, NEW i \in DOMAIN stack[u], stack[u][i].pc = "add"
  PROVE  Holds(u)
<1>1. FrameOK(stack[u][i])
  BY DEF Inv, FramesOK
<1>2. QED
  BY <1>1 DEF FrameOK, LockedPCs, Holds

LEMMA EarlyKept ==
  ASSUME HierInv, TypeOK', Lasts, NEW t \in Threads, Step(t), HierMove(t),
         NEW u \in Threads, NEW d \in Types, Early(u, d)
  PROVE  Early(u, d)' \/ Decided(BaseOf[d])'
<1>0. RegInv /\ StacksNeat /\ TypeOK /\ Inv
  BY DEF HierInv, DoneInv, RegInv, Inv
<1>s. stack[t] # <<>>
  BY <1>0, StepMoves DEF HierInv, DoneInv
<1>1. CASE u # t
  <2>1. stack'[u] = stack[u]
    BY <1>0, <1>1, <1>s, OthersStay
  <2>2. QED
    BY <2>1 DEF Early, Top, Depth
<1>2. CASE u = t
  <2>0. /\ stack[t] # <<>>
        /\ \/ Top(t).pc = "base" /\ Top(t).type = d
           \/ /\ Len(stack[t]) > 1
              /\ stack[t][Len(stack[t]) - 1].pc = "include"
              /\ stack[t][Len(stack[t]) - 1].type = d
              /\ Top(t).pc \in FindPCs
    BY <1>2 DEF Early
  <2>1. CASE Top(t).pc = "base" /\ Top(t).type = d
    <3>1. ApplyBase(t)
      BY <2>1, BaseKinds
    <3>2. CASE BaseOf[d] = NoType \/ Known(BaseOf[d])
      BY <3>2 DEF Decided, Lasts
    <3>3. CASE /\ BaseOf[d] # NoType /\ ~Known(BaseOf[d])
      <4>1. PICK f : f = [Top(t) EXCEPT !.pc = "include", !.todo = ValidIncludes(d)]
        OBVIOUS
      <4>2. PICK g : g = NewFrame("look", BaseOf[d], NoType)
        OBVIOUS
      <4>3. f.pc = "include" /\ f.type = d /\ g.pc = "look" /\ Call(t, f, g)
        BY <1>0, <2>1, <1>s, <3>1, <3>3, <4>1, <4>2, TopIs
           DEF ApplyBase, Frame, NewFrame
      <4>4. f \in Frame /\ g \in Frame
        BY <1>0, <1>s, <4>3, CallFrames
      <4>5. PICK k \in Nat \ {0} : /\ k = Len(stack[t]) /\ Len(stack'[t]) = k + 1
                                   /\ stack'[t][k] = f /\ stack'[t][k + 1] = g
        BY <1>0, <1>s, <4>3, <4>4, CallIs
      <4>6. stack'[t] # <<>> /\ k + 1 > 1 /\ (k + 1) - 1 = k
        BY <4>5
      <4>7. QED
        BY <1>2, <4>3, <4>5, <4>6 DEF Early, Top, Depth, FindPCs
    <3>4. QED
      BY <3>2, <3>3
  <2>2. CASE /\ Len(stack[t]) > 1
             /\ stack[t][Len(stack[t]) - 1].pc = "include"
             /\ stack[t][Len(stack[t]) - 1].type = d
             /\ Top(t).pc \in FindPCs
    <3>1. PICK s \in Seq(Frame), k \in Nat \ {0} :
            /\ s = stack[t] /\ k = Len(s) /\ Top(t) = s[k] /\ k > 1
            /\ s[k - 1].pc = "include" /\ s[k - 1].type = d /\ s[k].pc \in FindPCs
      BY <1>0, <1>s, <2>2, TopIs
    <3>2. k - 1 \in 1 .. k - 1 /\ (k - 1) + 1 = k
      <4>1. k > 1
        BY <3>1
      <4>2. QED
        BY <4>1
    <3>3. Calls(s[k - 1], s[k])
      <4>1. Neat(s) /\ Len(s) = k
        BY <1>0, <3>1 DEF StacksNeat
      <4>2. \A i \in 1 .. k - 1 : Calls(s[i], s[i + 1])
        BY <4>1 DEF Neat
      <4>3. QED
        BY <3>2, <4>2
    <3>4. s[k].type = BaseOf[d] /\ s[k].type \in Types
      <4>1. s[k] \in Frame
        BY <3>1
      <4>2. s[k].type = BaseOf[d]
        BY <3>1, <3>3 DEF Calls, FindPCs, SubPCs
      <4>3. QED
        BY <4>1, <4>2 DEF Frame
    <3>5. Holds(t)
      BY <1>0, <1>2, EarlyIs
    <3>6. CASE \E f : Goto(t, f) /\ f.pc \in FindPCs
      <4>1. PICK f : Goto(t, f) /\ f.pc \in FindPCs
        BY <3>6
      <4>2. /\ Len(stack'[t]) = k /\ stack'[t][k] = f /\ stack'[t][k - 1] = s[k - 1]
        BY <1>0, <1>s, <3>1, <3>2, <4>1, GotoIs
      <4>3. stack'[t] # <<>>
        BY <3>1, <4>2
      <4>4. QED
        BY <1>2, <3>1, <4>1, <4>2, <4>3 DEF Early, Top, Depth
    <3>7. CASE Return(t) /\ Known(Top(t).type)
      <4>1. Known(BaseOf[d])
        BY <3>1, <3>4, <3>7
      <4>2. QED
        BY <4>1 DEF Lasts, Decided
    <3>8. CASE AddType(t)
      <4>1. types' = Append(types, s[k].type) /\ types \in Seq(Types)
        BY <1>0, <3>1, <3>8 DEF AddType, TypeOK
      <4>2. Known(s[k].type)'
        <5>1. Len(types) + 1 \in DOMAIN types' /\ types'[Len(types) + 1] = s[k].type
          BY <3>4, <4>1
        <5>2. QED
          BY <5>1 DEF Known
      <4>3. QED
        BY <3>4, <4>2 DEF Decided
    <3>9. CASE /\ modelFrozen /\ modelFrozen' = modelFrozen
               /\ stack' = [stack EXCEPT ![t] = <<>>]
      <4>1. ASSUME NEW v \in Threads, NEW i \in DOMAIN stack[v], stack[v][i].pc = "add"
            PROVE  v = t
        BY <1>0, <3>5, <4>1, AddersHold DEF Inv, MutualExclusion
      <4>2. ASSUME NEW v \in Threads, NEW i \in DOMAIN stack'[v], stack'[v][i].pc = "add"
            PROVE  FALSE
        <5>1. CASE v = t
          <6>1. stack'[v] = <<>> /\ DOMAIN <<>> = {}
            BY <1>0, <3>9, <5>1 DEF TypeOK
          <6>2. QED
            BY <4>2, <6>1
        <5>2. CASE v # t
          BY <1>0, <3>9, <4>1, <4>2, <5>2 DEF TypeOK
        <5>3. QED
          BY <5>1, <5>2
      <4>3. QED
        BY <3>9, <4>2 DEF Decided
    <3>10. CASE HeldByOther(t)
      BY <1>0, <3>5, <3>10 DEF HeldByOther, Inv, MutualExclusion
    <3>11. QED
      BY <1>0, <2>2, <3>6, <3>7, <3>8, <3>9, <3>10, FindKinds
  <2>3. QED
    BY <2>0, <2>1, <2>2
<1>3. QED
  BY <1>1, <1>2

LEMMA TypesStay ==
  ASSUME NEW t \in Threads, Step(t) \/ Start(t), ~AddType(t)
  PROVE  types' = types
<1>1. CASE LockStep(t)
  BY <1>1 DEF LockStep, WaitLock, Take, RootLock, SerLock, FieldLock, AddLock,
              TakeLockTimeout, TakeLock
<1>2. CASE RegisterStep(t)
  BY <1>2 DEF RegisterStep, Look, Waited, Create, Recheck, Ready, Leave,
              ApplyBase, ApplyInclude, ApplyMembers, ApplyThrows,
              SubFind, SubCheck, Link, SubAdd
<1>3. CASE UseStep(t)
  BY <1>3 DEF UseStep, GetKey, Climb, RootRead, Rekey, Answer, Peek, Build,
              BuildMember, StoreSerializer, Built
<1>4. CASE ConfigStep(t)
  BY <1>4 DEF ConfigStep, ModelGet, FieldAdd, OptCheck, OptRead, OptWrite,
              AddFind, AddCreate, AddCheck
<1>5. CASE Start(t)
  BY <1>5 DEF Start, Use, Compile, CompileListed, Add, AddField, Configure, AddSubType, Freeze, Begin
<1>6. QED
  BY <1>1, <1>2, <1>3, <1>4, <1>5 DEF Step

LEMMA BasesFirstNext ==
  ASSUME HierInv, TypeOK', Lasts, NEW t \in Threads,
         Start(t) \/ (Step(t) /\ HierMove(t))
  PROVE  BasesFirst'
<1> SUFFICES ASSUME NEW d \in Types, Known(d)', ~Decided(BaseOf[d])'
             PROVE  \E u \in Threads : Early(u, d)'
  BY DEF BasesFirst
<1>0. TypeOK /\ BasesFirst
  BY DEF HierInv, DoneInv, RegInv, Inv
<1>1. CASE Known(d)
  <2>1. PICK u \in Threads : Early(u, d)
    BY <1>0, <1>1 DEF BasesFirst, Lasts
  <2>2. CASE Start(t)
    <3>1. stack[t] = <<>> /\ \A v \in Threads : v # t => stack'[v] = stack[v]
      BY <1>0, <2>2, OthersStay
         DEF Start, Use, Compile, CompileListed, Add, AddField, Configure, AddSubType, Freeze, Begin
    <3>2. u # t
      BY <2>1, <3>1 DEF Early
    <3>3. QED
      BY <2>1, <3>1, <3>2 DEF Early, Top, Depth
  <2>3. CASE Step(t) /\ HierMove(t)
    BY <2>1, <2>3, EarlyKept
  <2>4. QED
    BY <2>2, <2>3
<1>2. CASE ~Known(d)
  <2>1. AddType(t)
    BY <1>2, TypesStay DEF Known
  <2>2. types' = Append(types, Top(t).type) /\ types \in Seq(Types)
        /\ stack[t] # <<>> /\ Top(t) \in Frame /\ Top(t).type \in Types
    BY <1>0, <2>1, TopIs DEF AddType, TypeOK, At, Frame
  <2>3. Top(t).type = d
    BY <1>2, <2>2 DEF Known
  <2>4. PICK f : f = [Top(t) EXCEPT !.pc = "ready"]
    OBVIOUS
  <2>5. PICK g : g = NewFrame("base", d, NoType)
    OBVIOUS
  <2>6. g.pc = "base" /\ g.type = d /\ Call(t, f, g)
    BY <2>1, <2>3, <2>4, <2>5 DEF AddType, NewFrame
  <2>7. f \in Frame /\ g \in Frame
    BY <1>0, <2>2, <2>6, CallFrames
  <2>8. PICK k \in Nat \ {0} : Len(stack'[t]) = k + 1 /\ stack'[t][k + 1] = g
    BY <1>0, <2>2, <2>6, <2>7, CallIs
  <2>9. stack'[t] # <<>>
    BY <2>8
  <2>10. Early(t, d)'
    BY <2>6, <2>8, <2>9 DEF Early, Top, Depth
  <2>11. QED
    BY <2>10
<1>3. QED
  BY <1>1, <1>2

-----------------------------------------------------------------------------
(* Frozen types and keys.                                                  *)

LEMMA FrozenNext ==
  ASSUME HierInv, TypeOK', Lasts, NEW t \in Threads, Step(t) \/ Start(t)
  PROVE  FrozenHier'
<1>0. /\ TypeOK /\ RegInv /\ FrozenHier /\ DoneInv /\ BasesFirst /\ StacksHier /\ StacksDone
      /\ flags \in [Types -> SUBSET Flag]
  BY DEF HierInv, DoneInv, RegInv, Inv, TypeOK
<1> SUFFICES ASSUME NEW x \in Types, Frozen(x)' \/ serializer'[x] # NoSerializer
             PROVE  Sealed(x)
  BY DEF FrozenHier, Lasts
<1>1. ASSUME stack[t] # <<>>
      PROVE  /\ Top(t) \in Frame /\ Top(t).type \in Types /\ FrameHier(Top(t))
             /\ FrameDone(Top(t))
  BY <1>0, <1>1, TopIs DEF StacksHier, StacksDone, StackDone, Frame
<1>2. CASE Build(t)
  <2>1. /\ stack[t] # <<>> /\ Top(t).pc = "build" /\ serializer' = serializer
        /\ flags' = flags \/ flags' = [flags EXCEPT ![Top(t).type] = @ \union {"Frozen"}]
    BY <1>2 DEF Build, At
  <2>2. CASE x = Top(t).type
    BY <1>0, <1>1, <2>1, <2>2, IdleSeals
       DEF FrameDone, LockedPCs, RegisterPCs, FindPCs, ApplyPCs, SubPCs
  <2>3. CASE x # Top(t).type
    BY <1>0, <2>1, <2>3 DEF FrozenHier, Frozen
  <2>4. QED
    BY <2>2, <2>3
<1>3. CASE StoreSerializer(t)
  <2>1. /\ stack[t] # <<>> /\ Top(t).pc = "members" /\ flags' = flags
        /\ \E c : serializer' = [serializer EXCEPT ![Top(t).type] = c]
    BY <1>3 DEF StoreSerializer, At
  <2>2. CASE x = Top(t).type
    BY <1>0, <1>1, <2>1, <2>2, IdleSeals
       DEF FrameDone, LockedPCs, RegisterPCs, FindPCs, ApplyPCs, SubPCs
  <2>3. CASE x # Top(t).type
    BY <1>0, <2>1, <2>3 DEF FrozenHier, Frozen, TypeOK
  <2>4. QED
    BY <2>2, <2>3
<1>4. CASE OptWrite(t)
  <2>1. /\ stack[t] # <<>> /\ Top(t).pc = "optwrite" /\ serializer' = serializer
        /\ flags' = [flags EXCEPT ![Top(t).type] = Top(t).saved \union {"Option"}]
    BY <1>4 DEF OptWrite, At
  <2>2. CASE x = Top(t).type
    BY <1>0, <1>1, <2>1, <2>2 DEF FrozenHier, Frozen, FrameHier
  <2>3. CASE x # Top(t).type
    BY <1>0, <2>1, <2>3 DEF FrozenHier, Frozen
  <2>4. QED
    BY <2>2, <2>3
<1>5. CASE AddType(t) \/ Ready(t)
  <2>1. /\ serializer' = serializer
        /\ \/ flags' = [flags EXCEPT ![Top(t).type] = {"Pending"}]
           \/ flags' = [flags EXCEPT ![Top(t).type] = @ \ {"Pending"}]
    BY <1>5 DEF AddType, Ready
  <2>2. Frozen(x)' => Frozen(x)
    BY <1>0, <2>1 DEF Frozen
  <2>3. QED
    BY <1>0, <2>1, <2>2 DEF FrozenHier
<1>6. ASSUME flags' = flags, serializer' = serializer
      PROVE  Sealed(x)
  BY <1>0, <1>6 DEF FrozenHier, Frozen
<1>7. CASE ~(Build(t) \/ StoreSerializer(t) \/ OptWrite(t) \/ AddType(t) \/ Ready(t))
  <2> USE DEF metaVars
  <2>1. CASE LockStep(t)
    BY <1>6, <2>1 DEF LockStep, WaitLock, Take, RootLock, SerLock, FieldLock, AddLock,
                      TakeLockTimeout, TakeLock
  <2>2. CASE RegisterStep(t)
    BY <1>6, <1>7, <2>2
       DEF RegisterStep, Look, Waited, Create, Recheck, Leave,
           ApplyBase, ApplyInclude, ApplyMembers, ApplyThrows,
           SubFind, SubCheck, Link, SubAdd
  <2>3. CASE UseStep(t)
    BY <1>6, <1>7, <2>3 DEF UseStep, GetKey, Climb, RootRead, Rekey, Answer, Peek,
                            BuildMember, Built
  <2>4. CASE ConfigStep(t)
    BY <1>6, <1>7, <2>4 DEF ConfigStep, ModelGet, FieldAdd, OptCheck, OptRead,
                            AddFind, AddCreate, AddCheck
  <2>5. CASE Start(t)
    BY <1>6, <2>5 DEF Start, Use, Compile, CompileListed, Add, AddField, Configure, AddSubType,
                      Freeze, Begin
  <2>6. QED
    BY <2>1, <2>2, <2>3, <2>4, <2>5 DEF Step
<1>8. QED
  BY <1>2, <1>3, <1>4, <1>5, <1>7

LEMMA KeysNext ==
  ASSUME Declared, HierInv, TypeOK', Lasts, NEW t \in Threads, Step(t) \/ Start(t)
  PROVE  KeysHier'
<1>0. TypeOK /\ KeysHier /\ StacksHier /\ BasesGrow
  BY StepBases DEF HierInv, DoneInv, RegInv, Inv
<1> SUFFICES ASSUME NEW x \in Types, NEW r \in Types, r \in keys'[x]
             PROVE  Final(r) /\ baseType[r] = NoType /\ Reach(x, r)
  <2>1. \A y \in Types : keys'[y] \subseteq Types
    BY DEF TypeOK
  <2>2. ASSUME NEW y \in Types, NEW s \in keys'[y]
        PROVE  Final(s)' /\ baseType'[s] = NoType /\ Reach(y, s)'
    <3>1. s \in Types
      BY <2>1, <2>2
    <3>2. Final(s) /\ baseType[s] = NoType /\ Reach(y, s)
      BY <2>2, <3>1
    <3>3. QED
      BY <1>0, <2>2, <3>1, <3>2 DEF Lasts, BasesGrow
  <2>3. QED
    BY <2>2 DEF KeysHier
<1>1. CASE r \in keys[x]
  BY <1>0, <1>1 DEF KeysHier
<1>2. CASE r \notin keys[x]
  <2>1. Rekey(t)
    <3>0. SUFFICES ASSUME ~Rekey(t) PROVE keys' = keys
      BY <1>2
    <3> USE DEF histVars
    <3>1. CASE LockStep(t)
      BY <3>1 DEF LockStep, WaitLock, Take, RootLock, SerLock, FieldLock, AddLock,
                  TakeLockTimeout, TakeLock
    <3>2. CASE RegisterStep(t)
      BY <3>2 DEF RegisterStep, Look, Waited, Create, Recheck, AddType, Ready, Leave,
                  ApplyBase, ApplyInclude, ApplyMembers, ApplyThrows,
                  SubFind, SubCheck, Link, SubAdd
    <3>3. CASE UseStep(t)
      BY <3>0, <3>3 DEF UseStep, GetKey, Climb, RootRead, Answer, Peek, Build,
                        BuildMember, StoreSerializer, Built
    <3>4. CASE ConfigStep(t)
      BY <3>4 DEF ConfigStep, ModelGet, FieldAdd, OptCheck, OptRead, OptWrite,
                  AddFind, AddCreate, AddCheck
    <3>5. CASE Start(t)
      BY <3>5 DEF Start, Use, Compile, CompileListed, Add, AddField, Configure, AddSubType, Freeze, Begin
    <3>6. QED
      BY <3>1, <3>2, <3>3, <3>4, <3>5 DEF Step
  <2>2. stack[t] # <<>> /\ Top(t).pc = "rekey"
    BY <2>1 DEF Rekey, At
  <2>3. Top(t) \in Frame /\ FrameHier(Top(t))
    BY <1>0, <2>2, TopIs DEF StacksHier
  <2>4. keys' = [keys EXCEPT ![Top(t).type] = @ \union {Top(t).other}]
    BY <2>1 DEF Rekey
  <2>5. x = Top(t).type /\ r = Top(t).other
    BY <1>0, <1>2, <2>4 DEF TypeOK
  <2>6. QED
    BY <2>2, <2>3, <2>5 DEF FrameHier, ClimbPCs
<1>3. QED
  BY <1>1, <1>2

LEMMA LinksNext ==
  ASSUME HierInv, TypeOK', Lasts, BasesGrow
  PROVE  LinksHier'
<1> SUFFICES ASSUME NEW d \in Types, baseType'[d] # NoType
             PROVE  baseType'[d] = BaseOf[d] /\ Known(BaseOf[d])'
  BY DEF LinksHier
<1>1. baseType'[d] = BaseOf[d] /\ Known(BaseOf[d])
  BY DEF BasesGrow
<1>2. BaseOf[d] \in Types
  BY <1>1 DEF TypeOK
<1>3. QED
  BY <1>1, <1>2 DEF Lasts

-----------------------------------------------------------------------------
(* The hierarchy never changes behind a key.                               *)

LEMMA InitHier == Init => HierInv
<1> SUFFICES ASSUME Init PROVE HierInv
  OBVIOUS
<1>1. DoneInv
  BY InitDone
<1>2. \A t \in Threads : stack[t] = <<>>
  BY DEF Init
<1>3. DOMAIN <<>> = {}
  OBVIOUS
<1>4. StacksHier
  BY <1>2, <1>3 DEF StacksHier, At
<1>5. BasesFirst /\ LinksHier /\ FrozenHier /\ KeysHier
  BY DEF Init, BasesFirst, LinksHier, FrozenHier, KeysHier, Known, Frozen
<1>6. QED
  BY <1>1, <1>4, <1>5 DEF HierInv

LEMMA NextHier ==
  ASSUME Declared, HierInv, [Next]_vars
  PROVE  HierInv'
<1>1. DoneInv' /\ TypeOK' /\ TypeOK /\ StacksNeat
  BY NextDone DEF HierInv, DoneInv, RegInv, Inv
<1>2. ASSUME NEW t \in Threads, Step(t) \/ Start(t)
      PROVE  HierInv'
  <2>1. Start(t) \/ (Step(t) /\ HierMove(t) /\ stack[t] # <<>>)
    BY <1>1, <1>2, StepHier, StepMoves
  <2>2. PICK S \in SUBSET Frame : Fresh(t, S) /\ \A f \in S : Sound(t, f)
    BY <1>1, <2>1, MoveFresh, StartFresh
  <2>3. Lasts /\ BasesGrow
    BY <1>2, <2>2, StepLasts, StepBases
  <2>4. StacksHier'
    BY <1>1, <2>1, <2>2, <2>3, StacksHierNext
  <2>5. BasesFirst' /\ LinksHier' /\ FrozenHier' /\ KeysHier'
    BY <1>1, <1>2, <2>1, <2>3, BasesFirstNext, LinksNext, FrozenNext, KeysNext
  <2>6. QED
    BY <1>1, <2>4, <2>5 DEF HierInv
<1>3. CASE UNCHANGED vars
  <2>1. /\ stack' = stack /\ types' = types /\ flags' = flags /\ baseType' = baseType
        /\ serializer' = serializer /\ keys' = keys /\ modelFrozen' = modelFrozen
    BY <1>3 DEF vars, metaVars, histVars
  <2>2. \A t \in Threads : Registering(t)' = Registering(t)
    BY <2>1 DEF Registering
  <2>3. \A y : (Known(y)' <=> Known(y)) /\ (Decided(y)' <=> Decided(y))
    BY <2>1 DEF Known, Decided
  <2>4. \A y : (Over(y)' <=> Over(y))
    BY <2>2, <2>3 DEF Over
  <2>5. \A y : (Final(y)' <=> Final(y)) /\ (Sealed(y)' <=> Sealed(y))
    BY <2>3, <2>4 DEF Final, Sealed
  <2>6. \A x, r : Reach(x, r)' <=> Reach(x, r)
    BY <2>1 DEF Reach
  <2>7. \A f : FrameHier(f)' <=> FrameHier(f)
    BY <2>1, <2>3, <2>5, <2>6 DEF FrameHier
  <2>8. StacksHier'
    BY <2>1, <2>3, <2>7 DEF HierInv, StacksHier, At, Top, Depth
  <2>9. BasesFirst'
    BY <2>1, <2>3 DEF HierInv, BasesFirst, Early, Top, Depth
  <2>10. LinksHier' /\ FrozenHier' /\ KeysHier'
    BY <2>1, <2>3, <2>5, <2>6 DEF HierInv, LinksHier, FrozenHier, KeysHier, Frozen
  <2>11. QED
    BY <1>1, <2>8, <2>9, <2>10 DEF HierInv
<1>4. QED
  BY <1>2, <1>3 DEF Next, Done

\* Two roots that the climb from a type can reach are one.
LEMMA OneRoot ==
  ASSUME TypeOK, NEW x \in Types, NEW r \in Types, NEW s \in Types,
         Reach(x, r), Reach(x, s), baseType[r] = NoType, baseType[s] = NoType
  PROVE  r = s
<1> DEFINE Below == {n \in Types : Reach(n, r)}
<1>1. SUFFICES s \in Below
  <2>1. Reach(s, r)
    BY <1>1
  <2>2. r \in {s}
    BY <2>1 DEF Reach
  <2>3. QED
    BY <2>2
<1>2. x \in Below
  OBVIOUS
<1>3. ASSUME NEW n \in Below, baseType[n] # NoType
      PROVE  baseType[n] \in Below
  <2>1. baseType[n] \in Types
    BY <1>3 DEF TypeOK
  <2>2. ASSUME NEW S \in SUBSET Types, baseType[n] \in S,
               \A m \in S : baseType[m] # NoType => baseType[m] \in S
        PROVE  r \in S
    <3>1. PICK U \in SUBSET Types : U = S \union {n}
      OBVIOUS
    <3>2. \A m \in U : baseType[m] # NoType => baseType[m] \in U
      BY <2>2, <3>1
    <3>3. r \in U
      BY <3>1, <3>2 DEF Reach
    <3>4. r # n
      BY <1>3
    <3>5. QED
      BY <3>1, <3>3, <3>4
  <2>3. Reach(baseType[n], r)
    BY <2>2 DEF Reach
  <2>4. QED
    BY <2>1, <2>3
<1>4. QED
  <2>1. Below \in SUBSET Types
    OBVIOUS
  <2>2. \A n \in Below : baseType[n] # NoType => baseType[n] \in Below
    BY <1>3
  <2> HIDE DEF Below
  <2>3. QED
    BY <1>2, <2>1, <2>2 DEF Reach

\* GetKey answers with the key of the root of a hierarchy, and gives every
\* caller the same one, for any classes whose [ProtoInclude]s name direct
\* sub-classes: a type that was ever taken for a root gets no base type later,
\* although other threads discover the hierarchy meanwhile and without the lock.
THEOREM KeysAreStable ==
  ASSUME Declared
  PROVE  Spec => []KeyStable
<1>1. Init => HierInv
  BY InitHier
<1>2. HierInv /\ [Next]_vars => HierInv'
  BY NextHier
<1>3. HierInv => KeyStable
  <2> SUFFICES ASSUME HierInv, NEW x \in Types, NEW r \in keys[x], NEW s \in keys[x]
               PROVE  r = s
    BY DEF KeyStable
  <2>1. TypeOK /\ r \in Types /\ s \in Types
    BY DEF HierInv, DoneInv, RegInv, Inv, TypeOK
  <2>2. /\ Reach(x, r) /\ Reach(x, s)
        /\ baseType[r] = NoType /\ baseType[s] = NoType
    BY DEF HierInv, KeysHier
  <2>3. QED
    BY <2>1, <2>2, OneRoot
<1>4. QED
  BY <1>1, <1>2, <1>3, PTL DEF Spec

-----------------------------------------------------------------------------
(* Calls that fail.                                                        *)

\* What t registers is not frozen, nor is what it links to it.
LEMMA MineThawed ==
  ASSUME HierInv, NEW t \in Threads, NEW x \in Types,
         x \in Registering(t) \/ BaseOf[x] \in Registering(t)
  PROVE  ~Frozen(x)
BY DEF HierInv, FrozenHier, Sealed, Final, Over

LEMMA ThrowExcused ==
  ASSUME Declared, "Add" \notin Ops, "Configure" \notin Ops, HierInv,
         NEW t \in Threads, Step(t) \/ Start(t)
  PROVE  \/ errors' = errors
         \/ \E reason : Throw(t, reason) /\ Excused(t, reason)
<1>0. RegInv /\ StacksNeat /\ TypeOK
  BY DEF HierInv, DoneInv, RegInv, Inv
<1>1. ASSUME stack[t] # <<>>
      PROVE  /\ Top(t) \in Frame /\ Top(t).type \in Types /\ Proper(Top(t))
             /\ Top(t).pc \in ApplyPCs => Top(t).type \in Registering(t)
  <2>1. PICK s \in Seq(Frame), k \in Nat \ {0} :
          s = stack[t] /\ k = Len(s) /\ Top(t) = s[k] /\ Neat(s) /\ Top(t) \in Frame
    BY <1>0, <1>1, TopIs DEF StacksNeat
  <2>2. k \in 1 .. Len(stack[t]) /\ Top(t) = stack[t][k]
    BY <2>1
  <2>3. Proper(Top(t))
    BY <2>1, <2>2 DEF Neat
  <2>4. Top(t).pc \in ApplyPCs => Top(t).type \in Registering(t)
    BY <1>0, <2>2, ApplyingIs
  <2>5. QED
    BY <2>1, <2>3, <2>4 DEF Frame
<1>2. CASE TakeLockTimeout(t)
  BY <1>2 DEF TakeLockTimeout, Excused
<1>3. CASE Create(t) \/ Recheck(t) \/ AddCreate(t)
  BY <1>3 DEF Create, Recheck, AddCreate, Excused
<1>4. CASE AddCheck(t) \/ OptCheck(t)
  <2>1. stack[t] # <<>> /\ Top(t).pc \in {"addcheck", "optcheck"}
    BY <1>4 DEF AddCheck, OptCheck, At
  <2>2. QED
    BY <1>1, <2>1 DEF Proper, AddPCs, SetterPCs, OptionPCs
<1>5. CASE ApplyMembers(t)
  <2>1. stack[t] # <<>> /\ Top(t).pc \in ApplyPCs
    BY <1>5 DEF ApplyMembers, At, ApplyPCs
  <2>2. ~Frozen(Top(t).type)
    BY <1>1, <2>1, MineThawed
  <2>3. QED
    BY <1>5, <2>2 DEF ApplyMembers
<1>6. CASE ApplyThrows(t)
  <2>1. stack[t] # <<>> /\ Top(t).pc \in ApplyPCs
    BY <1>6 DEF ApplyThrows, At, ApplyPCs
  <2>2. Top(t).type \in Registering(t) \intersect Faulty
    BY <1>1, <1>6, <2>1 DEF ApplyThrows
  <2>3. QED
    BY <1>6, <2>2 DEF ApplyThrows, Excused
<1>7. CASE SubCheck(t)
  <2>1. stack[t] # <<>> /\ Top(t).pc \in SubPCs
    BY <1>7 DEF SubCheck, At, SubPCs
  <2>2. /\ BaseOf[Top(t).other] = Top(t).type /\ Top(t).type \in Registering(t)
        /\ Top(t).other \in Types /\ Top(t).type \in Types
    BY <1>0, <2>1, LinkingIs
  <2>3. ~Frozen(Top(t).type) /\ ~Frozen(Top(t).other)
    BY <2>2, MineThawed
  <2>4. QED
    BY <1>7, <2>3 DEF SubCheck
<1>8. CASE Link(t)
  BY <1>8, LinkIs
<1>9. CASE FieldAdd(t)
  BY <1>9 DEF FieldAdd, Excused
<1>10. CASE ~(\/ TakeLockTimeout(t) \/ Create(t) \/ Recheck(t) \/ AddCreate(t)
              \/ AddCheck(t) \/ OptCheck(t) \/ ApplyMembers(t) \/ ApplyThrows(t)
              \/ SubCheck(t) \/ Link(t) \/ FieldAdd(t))
  <2>1. CASE LockStep(t)
    BY <1>10, <2>1 DEF LockStep, WaitLock, Take, RootLock, SerLock, FieldLock, AddLock,
                       TakeLock
  <2>2. CASE RegisterStep(t)
    BY <1>10, <2>2 DEF RegisterStep, Look, Waited, AddType, Ready, Leave,
                       ApplyBase, ApplyInclude, SubFind, SubAdd
  <2>3. CASE UseStep(t)
    BY <2>3 DEF UseStep, GetKey, Climb, RootRead, Rekey, Answer, Peek, Build,
                BuildMember, StoreSerializer, Built
  <2>4. CASE ConfigStep(t)
    BY <1>10, <2>4 DEF ConfigStep, ModelGet, OptRead, OptWrite, AddFind
  <2>5. CASE Start(t)
    BY <2>5 DEF Start, Use, Compile, CompileListed, Add, AddField, Configure, AddSubType, Freeze, Begin
  <2>6. QED
    BY <2>1, <2>2, <2>3, <2>4, <2>5 DEF Step
<1>11. QED
  BY <1>2, <1>3, <1>4, <1>5, <1>6, <1>7, <1>8, <1>9, <1>10

\* However many threads discover the same hierarchies together, no call fails for
\* it: where the threads use, compile and freeze types and add members, a call
\* ends in an exception for a time-out, a frozen model that it would have to
\* extend, a contract at fault or a member added to a type in use, and never
\* because ApplyDefaultBehaviour finds a type that it configures frozen or
\* linked to another base by somebody else.
THEOREM OnlyMisuseFails ==
  ASSUME Declared, "Add" \notin Ops, "Configure" \notin Ops
  PROVE  Spec => OnlyMisuseThrows
<1> DEFINE Fine == \A t \in Threads : \A reason \in errors[t]' \ errors[t] : Excused(t, reason)
<1>1. Init => HierInv
  BY InitHier
<1>2. HierInv /\ [Next]_vars => HierInv'
  BY NextHier
<1>3. HierInv /\ [Next]_vars => [Fine]_vars
  <2> SUFFICES ASSUME HierInv, Next PROVE Fine
    OBVIOUS
  <2>1. ASSUME errors' = errors PROVE Fine
    BY <2>1
  <2>2. ASSUME NEW t \in Threads, Step(t) \/ Start(t)
        PROVE  Fine
    <3>1. CASE errors' = errors
      BY <2>1, <3>1
    <3>2. CASE \E reason : Throw(t, reason) /\ Excused(t, reason)
      <4>1. PICK reason : Throw(t, reason) /\ Excused(t, reason)
        BY <3>2
      <4>2. /\ errors' = [errors EXCEPT ![t] = @ \union {reason}]
            /\ errors \in [Threads -> SUBSET Reason]
        BY <4>1 DEF Throw, HierInv, DoneInv, RegInv, Inv, TypeOK
      <4>3. /\ errors'[t] = errors[t] \union {reason}
            /\ \A u \in Threads : u # t => errors'[u] = errors[u]
        BY <4>2
      <4>4. QED
        BY <4>1, <4>3
    <3>3. QED
      BY <2>2, <3>1, <3>2, ThrowExcused
  <2>3. CASE Done
    BY <2>1, <2>3 DEF Done, vars
  <2>4. QED
    BY <2>2, <2>3 DEF Next
<1>4. QED
  BY <1>1, <1>2, <1>3, PTL DEF Spec, OnlyMisuseThrows
=============================================================================
