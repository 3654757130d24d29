-------------------------- MODULE MetadataLockProofs --------------------------
(***************************************************************************)
(* Proofs about MetadataLock: for any number of threads, depth of nesting  *)
(* and number of time-outs, regions and monitor agree and no time-out that *)
(* is counted during a region that completes goes unreported.              *)
(***************************************************************************)
EXTENDS MetadataLock, SequenceTheorems, TLAPS

\* What makes ContentionIsReported inductive: the oldest token of a thread that
\* owes a report is behind the count, so the outermost comparison sees it.
TokensOK ==
  \A t \in Threads :
    /\ \A i \in DOMAIN tokens[t] : tokens[t][i] <= counter
    /\ owed[t] => tokens[t] # <<>> /\ tokens[t][1] < counter
    /\ pc[t] = "enter" => depth[t] < MaxDepth

Inv == TypeOK /\ LockMatchesRegions /\ TokensOK

LEMMA InitInv == Init => Inv
<1> SUFFICES ASSUME Init PROVE Inv
  OBVIOUS
<1>1. <<>> \in Seq(Nat \ {0}) /\ Len(<<>>) = 0 /\ DOMAIN <<>> = {}
  OBVIOUS
<1>2. TypeOK
  BY <1>1, LockAssumption DEF Init, TypeOK, PC
<1>3. LockMatchesRegions /\ TokensOK
  BY <1>1 DEF Init, LockMatchesRegions, TokensOK, Owner
<1>4. QED
  BY <1>2, <1>3 DEF Inv

-----------------------------------------------------------------------------
(* One lemma for each action.                                              *)

LEMMA CallTakeLockInv ==
  ASSUME Inv, NEW t \in Threads, CallTakeLock(t) \/ EnterTimesOut(t) \/ Fail(t)
  PROVE  Inv'
<1> USE LockAssumption DEF Inv
<1>1. TypeOK'
  BY DEF CallTakeLock, EnterTimesOut, Fail, Move, TypeOK, PC
<1>2. LockMatchesRegions'
  BY DEF CallTakeLock, EnterTimesOut, Fail, Move, TypeOK, LockMatchesRegions, Owner
<1>3. TokensOK'
  <2>1. /\ tokens' = tokens /\ counter' = counter /\ depth' = depth
        /\ \A u \in Threads : owed'[u] => owed[u]
    BY DEF CallTakeLock, EnterTimesOut, Fail, TypeOK
  <2>2. \A u \in Threads : pc'[u] = "enter" => depth[u] < MaxDepth
    BY DEF CallTakeLock, EnterTimesOut, Fail, Move, TypeOK, TokensOK
  <2>3. QED
    BY <2>1, <2>2 DEF TokensOK
<1>4. QED
  BY <1>1, <1>2, <1>3

LEMMA EnterInv ==
  ASSUME Inv, NEW t \in Threads, Enter(t)
  PROVE  Inv'
<1> USE LockAssumption DEF Inv
<1>1. TypeOK'
  BY DEF Enter, Move, TypeOK, PC, TokensOK
<1>2. LockMatchesRegions'
  BY DEF Enter, Move, TypeOK, LockMatchesRegions, Owner
<1>3. TokensOK'
  BY DEF Enter, Move, TypeOK, TokensOK
<1>4. QED
  BY <1>1, <1>2, <1>3

LEMMA ReadTokenInv ==
  ASSUME Inv, NEW t \in Threads, ReadToken(t)
  PROVE  Inv'
<1> USE LockAssumption DEF Inv
<1> DEFINE new == Append(tokens[t], counter)
<1>1. /\ tokens[t] \in Seq(Nat \ {0}) /\ counter \in Nat \ {0}
      /\ tokens' = [tokens EXCEPT ![t] = new]
      /\ \A u \in Threads : u # t => tokens'[u] = tokens[u]
      /\ tokens'[t] = new
  BY DEF ReadToken, TypeOK
<1>2. /\ new \in Seq(Nat \ {0}) /\ Len(new) = Len(tokens[t]) + 1
      /\ \A i \in 1 .. Len(tokens[t]) : new[i] = tokens[t][i]
      /\ new[Len(tokens[t]) + 1] = counter
      /\ DOMAIN new = 1 .. Len(tokens[t]) + 1
  BY <1>1
<1> HIDE DEF new
<1>4. TypeOK'
  BY <1>1, <1>2 DEF ReadToken, Move, TypeOK, PC
<1>5. LockMatchesRegions'
  <2>1. /\ depth' = depth /\ pc[t] = "token"
        /\ pc'[t] = "run" /\ \A u \in Threads : u # t => pc'[u] = pc[u]
        /\ depth[t] = Len(tokens[t]) + 1
    BY <1>1 DEF ReadToken, Move, TypeOK, LockMatchesRegions
  <2>2. \A u \in Threads :
        /\ pc'[u] = "token" => depth'[u] = Len(tokens'[u]) + 1
        /\ pc'[u] = "compare" => depth'[u] + 1 = Len(tokens'[u])
        /\ pc'[u] \notin {"token", "compare"} => depth'[u] = Len(tokens'[u])
    BY <1>1, <1>2, <2>1 DEF TypeOK, LockMatchesRegions
  <2>3. QED
    BY <2>1, <2>2 DEF LockMatchesRegions, Owner
<1>6. TokensOK'
  <2> SUFFICES ASSUME NEW u \in Threads
               PROVE  /\ \A i \in DOMAIN tokens'[u] : tokens'[u][i] <= counter'
                      /\ owed'[u] => tokens'[u] # <<>> /\ tokens'[u][1] < counter'
                      /\ pc'[u] = "enter" => depth'[u] < MaxDepth
    BY DEF TokensOK
  <2>1. CASE u # t
    BY <1>1, <2>1 DEF ReadToken, Move, TypeOK, TokensOK
  <2>2. CASE u = t
    BY <1>1, <1>2, <2>2 DEF ReadToken, Move, TypeOK, TokensOK
  <2>3. QED
    BY <2>1, <2>2
<1>7. QED
  BY <1>4, <1>5, <1>6

LEMMA AddContentionInv ==
  ASSUME Inv, NEW t \in Threads, AddContention(t)
  PROVE  Inv'
<1> USE LockAssumption DEF Inv
<1>1. TypeOK'
  BY DEF AddContention, MustHear, Move, TypeOK, PC
<1>2. LockMatchesRegions'
  BY DEF AddContention, Move, TypeOK, LockMatchesRegions, Owner
<1>3. TokensOK'
  <2> SUFFICES ASSUME NEW u \in Threads
               PROVE  /\ \A i \in DOMAIN tokens'[u] : tokens'[u][i] <= counter'
                      /\ owed'[u] => tokens'[u] # <<>> /\ tokens'[u][1] < counter'
                      /\ pc'[u] = "enter" => depth'[u] < MaxDepth
    BY DEF TokensOK
  <2>1. tokens[u] \in Seq(Nat \ {0}) /\ tokens'[u] = tokens[u]
        /\ counter \in Nat /\ counter' = counter + 1
    BY DEF AddContention, TypeOK
  <2>2. \A i \in DOMAIN tokens[u] : tokens[u][i] \in Nat /\ tokens[u][i] <= counter
    BY <2>1 DEF TokensOK
  <2>3. owed'[u] => tokens[u] # <<>>
    BY DEF AddContention, MustHear, TypeOK, TokensOK
  <2>4. pc'[u] = "enter" => depth'[u] < MaxDepth
    BY DEF AddContention, Move, TypeOK, TokensOK
  <2>5. tokens[u] # <<>> => 1 \in DOMAIN tokens[u]
    BY <2>1
  <2>6. QED
    BY <2>1, <2>2, <2>3, <2>4, <2>5
<1>4. QED
  BY <1>1, <1>2, <1>3

LEMMA ExitInv ==
  ASSUME Inv, NEW t \in Threads, Exit(t)
  PROVE  Inv'
<1> USE LockAssumption DEF Inv
<1>1. TypeOK'
  BY DEF Exit, Owner, Move, TypeOK, PC
<1>2. LockMatchesRegions'
  BY DEF Exit, Move, TypeOK, LockMatchesRegions, Owner
<1>3. TokensOK'
  BY DEF Exit, Move, TypeOK, TokensOK
<1>4. QED
  BY <1>1, <1>2, <1>3

LEMMA CompareInv ==
  ASSUME Inv, NEW t \in Threads, Compare(t)
  PROVE  Inv'
<1> USE LockAssumption DEF Inv
<1> DEFINE old == tokens[t]
           new == Front(old)
           changed == Last(old) # counter
<1>0. /\ pc[t] = "compare" /\ depth[t] \in Nat /\ old \in Seq(Nat \ {0})
      /\ depth[t] + 1 = Len(old)
  BY DEF Compare, TypeOK, LockMatchesRegions
<1>1. /\ old \in Seq(Nat \ {0}) /\ Len(old) \in Nat \ {0}
      /\ tokens' = [tokens EXCEPT ![t] = new]
      /\ \A u \in Threads : u # t => tokens'[u] = tokens[u]
      /\ tokens'[t] = new
  BY <1>0 DEF Compare, TypeOK
<1>2. /\ new \in Seq(Nat \ {0}) /\ Len(new) = Len(old) - 1
      /\ \A i \in 1 .. Len(old) - 1 : new[i] = old[i]
      /\ DOMAIN new = 1 .. Len(old) - 1
  BY <1>1 DEF Front
<1>3. owed' = [owed EXCEPT ![t] = @ /\ ~changed]
  BY DEF Compare
<1>4. Len(old) = 1 => Last(old) = old[1]
  BY DEF Last
<1> HIDE DEF new, old
<1>5. TypeOK'
  <2>3. owed' \in [Threads -> BOOLEAN] /\ failing' \in [Threads -> BOOLEAN]
    BY DEF Compare, TypeOK
  <2>4. QED
    BY <1>1, <1>2, <2>3 DEF Compare, Move, TypeOK, PC
<1>6. LockMatchesRegions'
  <2>1. /\ depth' = depth /\ pc'[t] = "run"
        /\ \A u \in Threads : u # t => pc'[u] = pc[u]
    BY DEF Compare, Move, TypeOK
  <2>2. \A u \in Threads :
        /\ pc'[u] = "token" => depth'[u] = Len(tokens'[u]) + 1
        /\ pc'[u] = "compare" => depth'[u] + 1 = Len(tokens'[u])
        /\ pc'[u] \notin {"token", "compare"} => depth'[u] = Len(tokens'[u])
    <3> TAKE u \in Threads
    <3>1. CASE u # t
      BY <1>1, <2>1, <3>1 DEF LockMatchesRegions
    <3>2. CASE u = t
      <4>1. depth[t] + 1 = Len(old)
        BY <1>0, <1>1 DEF LockMatchesRegions
      <4>2. depth[t] \in Nat /\ Len(old) \in Nat
        BY <1>1 DEF TypeOK
      <4>3. depth[t] = Len(new)
        BY <1>2, <4>1, <4>2
      <4>4. QED
        BY <1>1, <2>1, <3>2, <4>3
    <3>3. QED
      BY <3>1, <3>2
  <2>3. QED
    BY <2>1, <2>2 DEF LockMatchesRegions, Owner
<1>7. TokensOK'
  <2> SUFFICES ASSUME NEW u \in Threads
               PROVE  /\ \A i \in DOMAIN tokens'[u] : tokens'[u][i] <= counter'
                      /\ owed'[u] => tokens'[u] # <<>> /\ tokens'[u][1] < counter'
                      /\ pc'[u] = "enter" => depth'[u] < MaxDepth
    BY DEF TokensOK
  <2>1. CASE u # t
    BY <1>1, <1>3, <2>1 DEF Compare, Move, TypeOK, TokensOK
  <2>2. CASE u = t
    <3>0. \A i \in 1 .. Len(old) : old[i] <= counter
      BY <1>1 DEF TokensOK, old
    <3>1. \A i \in DOMAIN tokens'[t] : tokens'[t][i] <= counter'
      <4>1. \A i \in 1 .. Len(old) - 1 : i \in 1 .. Len(old) /\ new[i] <= counter
        BY <1>1, <1>2, <3>0
      <4>2. counter' = counter
        BY DEF Compare
      <4>3. QED
        BY <1>1, <1>2, <4>1, <4>2
    <3>2. owed'[t] => owed[t] /\ Last(old) = counter
      BY <1>3 DEF TypeOK
    <3>3. owed[t] => old[1] < counter
      BY DEF TokensOK, old
    <3>4. owed'[t] => Len(old) # 1
      BY <1>4, <3>2, <3>3 DEF TypeOK
    <3>5. owed'[t] => tokens'[t] # <<>> /\ tokens'[t][1] < counter'
      <4>1. Len(old) # 1 => Len(new) # 0 /\ new[1] = old[1]
        BY <1>1, <1>2
      <4>2. new # <<>> <=> Len(new) # 0
        BY <1>2
      <4>3. QED
        BY <1>1, <3>2, <3>3, <3>4, <4>1, <4>2 DEF Compare
    <3>6. pc'[t] # "enter"
      BY DEF Compare, Move, TypeOK
    <3>7. QED
      BY <2>2, <3>1, <3>5, <3>6
  <2>3. QED
    BY <2>1, <2>2
<1>8. QED
  BY <1>5, <1>6, <1>7

LEMMA NextInv == Inv /\ [Next]_vars => Inv'
<1> SUFFICES ASSUME Inv, [Next]_vars PROVE Inv'
  OBVIOUS
<1>1. CASE Next
  BY <1>1, CallTakeLockInv, EnterInv, ReadTokenInv, AddContentionInv, ExitInv,
     CompareInv DEF Next
<1>2. CASE UNCHANGED vars
  BY <1>2 DEF vars, Inv, TypeOK, LockMatchesRegions, Owner, TokensOK
<1>3. QED
  BY <1>1, <1>2

LEMMA InvHolds == Spec => []Inv
<1>1. QED
  BY InitInv, NextInv, PTL DEF Spec

-----------------------------------------------------------------------------
(* What it adds up to.                                                     *)

\* The lock, the reported contention and each thread's token and region stay
\* what they are declared to be, for any set of threads.
THEOREM TypeCorrect == Spec => []TypeOK
<1>1. Inv => TypeOK
  BY DEF Inv
<1>2. QED
  BY <1>1, InvHolds, PTL

\* Nested regions, exceptions and time-outs never give the monitor away early
\* nor leave it taken.
THEOREM RegionsMatchMonitor == Spec => []LockMatchesRegions
<1>1. Inv => LockMatchesRegions
  BY DEF Inv
<1>2. QED
  BY <1>1, InvHolds, PTL

\* The comparison of tokens misses no time-out counted during a region that
\* completes, however deep the regions nest.
THEOREM NoContentionIsLost == Spec => []ContentionIsReported
<1>1. Inv => ContentionIsReported
  BY DEF Inv, TokensOK, ContentionIsReported
<1>2. QED
  BY <1>1, InvHolds, PTL
=============================================================================
