---------------------------- MODULE TransientUse ----------------------------
(***************************************************************************)
(* What a transient verification run promises of a source that may be used *)
(* for one paper only: its bytes may be kept while the run is open, they   *)
(* are reported on at most once and only while they are there, and when    *)
(* the run is gone no byte is left and none ever comes back.               *)
(***************************************************************************)
CONSTANTS Roles, Source

VARIABLES
    phase,      \* "open", "closed" or "gone"
    bytes,      \* the objects that exist in storage
    reported    \* a batch of reports is committed

vars == <<phase, bytes, reported>>

Init == phase = "open" /\ bytes = {} /\ reported = FALSE

Arrive(k) ==
    /\ phase # "gone"
    /\ bytes' = bytes \cup {k}
    /\ UNCHANGED <<phase, reported>>

Report ==
    /\ phase = "open" /\ ~reported
    /\ Source \in bytes
    /\ reported' = TRUE /\ phase' = "closed"
    /\ UNCHANGED bytes

Close ==
    /\ phase = "open"
    /\ phase' = "closed"
    /\ UNCHANGED <<bytes, reported>>

Discard(k) ==
    /\ phase = "closed"
    /\ bytes' = bytes \ {k}
    /\ UNCHANGED <<phase, reported>>

Finish ==
    /\ phase = "closed" /\ bytes = {}
    /\ phase' = "gone"
    /\ UNCHANGED <<bytes, reported>>

Next == Report \/ Close \/ Finish \/ \E k \in Roles : Arrive(k) \/ Discard(k)

Spec == Init /\ [][Next]_vars
=============================================================================
