----------------------------- MODULE MCTransfer -----------------------------
(***************************************************************************)
(* Directories of secop for TLC.                                           *)
(***************************************************************************)
EXTENDS Transfer, TLC

(* A directory that is moved, the part of it that is kept on another        *)
(* server, and one that is empty.                                          *)
TrioListing == <<<<"f1", "f2">>, <<"f2">>, << >>>>
TrioKeep    == <<FALSE, TRUE, TRUE>>

(* A directory of one file that is moved, then one that is empty.          *)
TurnListing == <<<<"f1">>, << >>>>

(* Each file has a remote name of its own in each directory.               *)
OwnRemote == [d \in Dir |-> [f \in File |-> <<d, f>>]]

No     == [d \in Dir |-> FALSE]
Second == [d \in Dir |-> d = 2]

MCSize == [v \in Content |-> IF ToString(v) = "short" THEN 1 ELSE 2]
============================================================================
