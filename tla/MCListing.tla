-------------------------------- MODULE MCListing --------------------------------
(* All mixtures of instructions in a few slots among unassigned ones. *)
EXTENDS Listing

CONSTANT Assigned                \* the addresses with any contents

MCMemories ==
    {[a \in Address |-> IF a \in Assigned THEN f[a] ELSE TRUE] :
        f \in [Assigned -> BOOLEAN]}
================================================================================
