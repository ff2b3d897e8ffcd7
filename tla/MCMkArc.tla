------------------------------ MODULE MCMkArc ------------------------------
(***************************************************************************)
(* Configurations of mkarc for TLC.                                        *)
(***************************************************************************)
EXTENDS MkArc, TLC

MCPre  == (1 :> 1 @@ 2 :> 0 @@ 3 :> 0)
MCPost == (1 :> 1 @@ 2 :> 0 @@ 3 :> 1)
NoEnv  == [j \in Job |-> {}]
SomeEnv == (1 :> {} @@ 2 :> {"QUALITY"} @@ 3 :> {})
============================================================================
