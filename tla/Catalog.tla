------------------------------ MODULE Catalog ------------------------------
(***************************************************************************)
(* What the archive promises to whoever reads it while it is being filled, *)
(* and after any crash: a place is absent, placed (its data file is there) *)
(* or described (its document is complete as well).  A document may be     *)
(* withdrawn, to be written again, but a file that was placed stays, and   *)
(* the document of a product names only places whose file is there.        *)
(***************************************************************************)
CONSTANT Path

VARIABLES
    shelf,   \* shelf[f]: "absent", "placed" or "described"
    refs     \* refs[f]: the places that the document of a product names

Init ==
    /\ shelf = [f \in Path |-> "absent"]
    /\ refs = [f \in Path |-> {}]

Put(f) ==
    /\ shelf[f] = "absent"
    /\ shelf' = [shelf EXCEPT ![f] = "placed"]
    /\ UNCHANGED refs

Describe(f, R) ==
    /\ shelf[f] # "absent"
    /\ \A g \in R : shelf[g] # "absent"
    /\ shelf' = [shelf EXCEPT ![f] = "described"]
    /\ refs' = [refs EXCEPT ![f] = R]

Withdraw(f) ==
    /\ shelf[f] = "described"
    /\ shelf' = [shelf EXCEPT ![f] = "placed"]
    /\ refs' = [refs EXCEPT ![f] = {}]

Next ==
    \E f \in Path :
        \/ Put(f)
        \/ \E R \in SUBSET Path : Describe(f, R)
        \/ Withdraw(f)

Spec == Init /\ [][Next]_<<shelf, refs>>
============================================================================
