----------------------------- MODULE MetadataLock -----------------------------
(***************************************************************************)
(* TakeLock, ReleaseLock and the LockContended event of RuntimeTypeModel   *)
(* (Meta/RuntimeTypeModel.cs).                                             *)
(*                                                                         *)
(* The lock is a re-entrant .NET monitor.  A count of time-outs, read when *)
(* the lock is taken (the opaque token) and again when it has been given   *)
(* up, tells the owner that somebody timed out meanwhile.  The count is    *)
(* read and written outside the monitor, so takers, leavers and time-outs  *)
(* interleave with it.                                                     *)
(***************************************************************************)
EXTENDS Naturals, Sequences

CONSTANTS
  Threads,
  MaxDepth,    (* BOUND: nested TakeLocks of one thread                     *)
  MaxContention (* BOUND: time-outs                                         *)

ASSUME LockAssumption == MaxDepth \in Nat \ {0} /\ MaxContention \in Nat

VARIABLES
  counter, (* contentionCounter                                             *)
  depth,   (* the recursion count of the monitor, for each thread           *)
  tokens,  (* the opaque tokens of the regions each thread is in            *)
  pc,      (* where each thread is in TakeLock or ReleaseLock               *)
  failing, (* is an exception unwinding the thread?                         *)
  owed     (* history: was a time-out counted during a region of the thread *)
           (* that nobody was told of and that has not thrown?              *)

vars == <<counter, depth, tokens, pc, failing, owed>>

PC == {"run", "enter", "token", "count", "compare"}
Move(t, label) == pc' = [pc EXCEPT ![t] = label]

Owner(t) == depth[t] > 0
Last(s) == s[Len(s)]
Front(s) == SubSeq(s, 1, Len(s) - 1)

-----------------------------------------------------------------------------
(* TakeLock.                                                               *)

CallTakeLock(t) ==
  /\ pc[t] = "run" /\ ~failing[t] /\ depth[t] < MaxDepth
  /\ Move(t, "enter")
  /\ UNCHANGED <<counter, depth, tokens, failing, owed>>

Enter(t) ==
  /\ pc[t] = "enter"
  /\ \A u \in Threads \ {t} : ~Owner(u)
  /\ depth' = [depth EXCEPT ![t] = @ + 1]
  /\ Move(t, "token")
  /\ UNCHANGED <<counter, tokens, failing, owed>>

\* opaqueToken = GetContention().
ReadToken(t) ==
  /\ pc[t] = "token"
  /\ tokens' = [tokens EXCEPT ![t] = Append(@, counter)]
  /\ Move(t, "run")
  /\ UNCHANGED <<counter, depth, failing, owed>>

\* Monitor.TryEnter gives up while somebody else owns the monitor.
EnterTimesOut(t) ==
  /\ pc[t] = "enter" /\ counter <= MaxContention
  /\ \E u \in Threads \ {t} : Owner(u)
  /\ Move(t, "count")
  /\ UNCHANGED <<counter, depth, tokens, failing, owed>>

\* The owners whose code has not thrown must hear of a time-out.
MustHear == [u \in Threads |-> owed[u] \/ (tokens[u] # <<>> /\ ~failing[u])]

AddContention_lost(t) ==
  /\ pc[t] = "count"
  /\ owed' = MustHear
  /\ Move(t, "run")
  /\ UNCHANGED <<counter, depth, tokens, failing>>

\* AddContention; the TimeoutException finds no region of t to unwind, for an
\* owner never waits.
AddContention(t) ==
  /\ pc[t] = "count"
  /\ counter' = counter + 1
  /\ owed' = MustHear
  /\ Move(t, "run")
  /\ UNCHANGED <<depth, tokens, failing>>

-----------------------------------------------------------------------------
(* ReleaseLock, in the finally block of every region.                      *)

\* The code in the region throws: its owner need not hear of a time-out any more.
Fail(t) ==
  /\ pc[t] = "run" /\ Owner(t) /\ ~failing[t]
  /\ failing' = [failing EXCEPT ![t] = TRUE]
  /\ owed' = [owed EXCEPT ![t] = FALSE]
  /\ UNCHANGED <<counter, depth, tokens, pc>>

Exit_whole(t) ==
  /\ pc[t] = "run" /\ Owner(t)
  /\ depth' = [depth EXCEPT ![t] = 0]
  /\ Move(t, "compare")
  /\ UNCHANGED <<counter, tokens, failing, owed>>

\* Monitor.Exit; the token is not 0 (TypeOK).
Exit(t) ==
  /\ pc[t] = "run" /\ Owner(t)
  /\ depth' = [depth EXCEPT ![t] = @ - 1]
  /\ Move(t, "compare")
  /\ UNCHANGED <<counter, tokens, failing, owed>>

\* The comparison with GetContention, and the event, which a thread that unwinds
\* raises too, for ReleaseLock is in a finally block; the documentation of
\* LockContended (RuntimeTypeModel.cs:937-938) says that it does not.
Compare(t) ==
  LET changed == Last(tokens[t]) # counter
      outermost == Len(tokens[t]) = 1
  IN
  /\ pc[t] = "compare"
  /\ owed' = [owed EXCEPT ![t] = @ /\ ~changed]
  /\ tokens' = [tokens EXCEPT ![t] = Front(@)]
  /\ failing' = [failing EXCEPT ![t] = @ /\ ~outermost]
  /\ Move(t, "run")
  /\ UNCHANGED <<counter, depth>>

-----------------------------------------------------------------------------
Init_zero ==
  /\ counter = 0
  /\ depth = [t \in Threads |-> 0]
  /\ tokens = [t \in Threads |-> <<>>]
  /\ pc = [t \in Threads |-> "run"]
  /\ failing = [t \in Threads |-> FALSE]
  /\ owed = [t \in Threads |-> FALSE]

Init ==
  /\ counter = 1
  /\ depth = [t \in Threads |-> 0]
  /\ tokens = [t \in Threads |-> <<>>]
  /\ pc = [t \in Threads |-> "run"]
  /\ failing = [t \in Threads |-> FALSE]
  /\ owed = [t \in Threads |-> FALSE]

Next == \E t \in Threads :
  \/ CallTakeLock(t) \/ Enter(t) \/ ReadToken(t) \/ EnterTimesOut(t)
  \/ AddContention(t) \/ Fail(t) \/ Exit(t) \/ Compare(t)

Spec == Init /\ [][Next]_vars

-----------------------------------------------------------------------------
(* Properties.                                                             *)

\* Every variable keeps its type; a token is never 0, which ReleaseLock takes
\* for "not locked" and would leave the monitor taken.
TypeOK ==
  /\ counter \in Nat \ {0}
  /\ depth \in [Threads -> 0 .. MaxDepth]
  /\ tokens \in [Threads -> Seq(Nat \ {0})]
  /\ pc \in [Threads -> PC]
  /\ failing \in [Threads -> BOOLEAN]
  /\ owed \in [Threads -> BOOLEAN]

\* A region's token and a level of the monitor come and go together, so a
\* nested ReleaseLock never gives the monitor away and an exception never
\* leaves it taken; only one thread has regions at a time.
LockMatchesRegions ==
  /\ \A t \in Threads :
       /\ pc[t] = "token" => depth[t] = Len(tokens[t]) + 1
       /\ pc[t] = "compare" => depth[t] + 1 = Len(tokens[t])
       /\ pc[t] \notin {"token", "compare"} => depth[t] = Len(tokens[t])
  /\ \A t, u \in Threads : Owner(t) /\ Owner(u) => t = u

\* A time-out that is counted while a thread is in a region makes that thread
\* raise LockContended by the time it leaves its outermost region, if the code in
\* the region completes.  Nothing is asked of a thread that unwinds: its
\* ReleaseLock raises the event, and the documentation says it does not.
ContentionIsReported ==
  \A t \in Threads : owed[t] => tokens[t] # <<>>
=============================================================================
