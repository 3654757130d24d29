------------------------------ MODULE MCContracts ------------------------------
(* An instance of Contracts for TLC: a hierarchy of three types of which the *)
(* old application knows two, and an extensible contract to which members    *)
(* were added on either side of and inside the members of the old one.       *)
EXTENDS Contracts, TLC

Level(tags, extensible) == [tags |-> tags, extensible |-> extensible]

Base == Level(1 :> "scalar" @@ 2 :> "sub" @@ 3 :> "list", FALSE)
Middle == Level(1 :> "scalar" @@ 4 :> "sub", FALSE)
MiddleOld == Level(1 :> "scalar", FALSE)
Leaf == Level(2 :> "scalar", FALSE)

Hierarchy == [new |-> (<<>> :> Base @@ <<2>> :> Middle @@ <<2, 4>> :> Leaf),
              old |-> (<<>> :> Base @@ <<2>> :> MiddleOld)]

Order == Level(1 :> "list" @@ 2 :> "scalar" @@ 3 :> "part" @@ 4 :> "scalar", TRUE)
OrderOld == Level(2 :> "scalar" @@ 3 :> "part", TRUE)
Item == Level(1 :> "scalar" @@ 2 :> "scalar", TRUE)
ItemOld == Level(2 :> "scalar", TRUE)

Extended == [new |-> (<<>> :> Order @@ <<3>> :> Item),
             old |-> (<<>> :> OrderOld @@ <<3>> :> ItemOld)]

MCVersions == {Hierarchy, Extended}
=============================================================================
