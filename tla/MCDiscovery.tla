---------------------------- MODULE MCDiscovery ----------------------------
(***************************************************************************)
(* Two requests at the same time, each with a map of its own; somebody     *)
(* asks for the status of the first.                                       *)
(***************************************************************************)
EXTENDS Discovery, TLC

CONSTANTS r1, r2

MCRequest == {r1, r2}
MCParts == r1 :> {1, 2} @@ r2 :> {1}
MCUrl == r1 :> "map1" @@ r2 :> "map2"
=============================================================================
