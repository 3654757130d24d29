--------------------------- MODULE MCTypeRegistry ---------------------------
(* Instances of TypeRegistry for TLC: a base class with one [ProtoInclude]  *)
(* sub-class, and a message that the sub-class contains and that contains   *)
(* the base class, so that contracts refer to each other in a cycle.        *)
EXTENDS TypeRegistry, TLC

CONSTANTS base, derived, message, t1, t2, t3

MCBaseOf == (base :> NoType) @@ (derived :> base) @@ (message :> NoType)
MCPairs == {<<x, x>> : x \in Types} \union {<<base, derived>>}
MCIncludes == (base :> {derived}) @@ (derived :> {}) @@ (message :> {})
MCMembers == (base :> {}) @@ (derived :> {message}) @@ (message :> {base})

MCSymmetry == Permutations(Threads)
=============================================================================
