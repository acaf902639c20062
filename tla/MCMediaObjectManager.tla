------------------------ MODULE MCMediaObjectManager ------------------------
(* A player path with its player and folder interfaces. *)
EXTENDS MediaObjectManager, TLC

CONSTANTS player, folder, path

MCPathOf == (player :> path) @@ (folder :> path)

\* Values are only compared with others of the same object and property, so
\* that the first ones may all be alike.
MCTrees ==
    LET first == CHOOSE v \in Data : TRUE
    IN  [Objects -> {[p \in Properties |-> first], Absent}]

=============================================================================
