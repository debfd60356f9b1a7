---------------------------- MODULE VersionedFeed -----------------------------
(***************************************************************************)
(* What a component that keeps a copy of data published elsewhere promises   *)
(* its readers: for every key they see a version that was published, and     *)
(* never an older one than they already saw.  One step may publish or refresh *)
(* any number of keys.                                                       *)
(***************************************************************************)
EXTENDS Naturals

CONSTANTS Keys

VARIABLES
    published,   \* the latest version of each key, 0 before the first
    served       \* the version that readers see, 0 before the first

Init ==
    /\ published \in [Keys -> 0..1]
    /\ served = [k \in Keys |-> 0]

Publish ==
    /\ \A k \in Keys : published'[k] \in {published[k], published[k] + 1}
    /\ DOMAIN published' = Keys
    /\ UNCHANGED served

Refresh ==
    /\ \A k \in Keys : served'[k] \in served[k]..published[k]
    /\ DOMAIN served' = Keys
    /\ UNCHANGED published

Next == Publish \/ Refresh

Spec == Init /\ [][Next]_<<published, served>>
=============================================================================
