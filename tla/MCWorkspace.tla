---------------------------- MODULE MCWorkspace ----------------------------
(* Bounded instances of Workspace, with the board drawn of its states.       *)
EXTENDS Drawn, TLC
CONSTANTS main, b1, x, y, z
MCLineOf == [i \in Items |-> IF i = z THEN Main ELSE b1]
MCOrder == b1 :> 1 @@ x :> 2 @@ y :> 3
MCOrderZ == b1 :> 1 @@ x :> 2 @@ z :> 3
MCOrder3 == b1 :> 1 @@ x :> 2 @@ y :> 3 @@ z :> 4
MCClash == {{x, y}}
=============================================================================
