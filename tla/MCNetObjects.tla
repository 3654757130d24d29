----------------------------- MODULE MCNetObjects -----------------------------
(***************************************************************************)
(* Every graph of a root with two members, a node with at most one and a   *)
(* node with none, that the writer can write.                              *)
(***************************************************************************)
EXTENDS NetObjects, FiniteSets

CONSTANTS
  LeafTypes,     (* what the third node is *)
  DynamicTargets (* what a member can point to that has a dynamic type and is
                    not tracked by reference *)

Kinds == [asReference : BOOLEAN, dynamicType : BOOLEAN]
Members == {[to |-> n, asReference |-> k.asReference, dynamicType |-> k.dynamicType] :
              n \in 1 .. 3, k \in Kinds}

\* The root is a 1, the second node another 1.
Shapes == {[root |-> 1, type |-> <<1, 1, leaf>>, members |-> <<<<a, b>>, rest, <<>>>>] :
             a \in Members, b \in Members, rest \in {<<>>} \cup {<<m>> : m \in Members},
             leaf \in LeafTypes}

EdgesOf(g) == UNION {{[from |-> n, member |-> g.members[n][i]] :
                        i \in DOMAIN g.members[n]} : n \in 1 .. 3}

\* What is not tracked by reference forms no cycle (ProtoWriter's recursion check
\* throws), and a string has no dynamic type (WriteNetObject throws).
IsWritable(g) ==
  \A e \in EdgesOf(g) :
    LET m == e.member IN
    /\ m.asReference \/ m.to > e.from
    /\ m.dynamicType => g.type[m.to] # StringType
    /\ m.dynamicType /\ ~m.asReference => m.to \in DynamicTargets

MCGraphs == {g \in Shapes : IsWritable(g)}
=============================================================================
