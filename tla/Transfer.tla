------------------------------ MODULE Transfer ------------------------------
(***************************************************************************)
(* What a streamed dump or restore promises its caller: pieces arrive one  *)
(* by one; in the end the transfer reports success, and then all of them   *)
(* have arrived and stay, or an error, and then some may still arrive.     *)
(* Only a transfer that was disturbed from outside (the streamer died, the *)
(* request was cancelled, the storage dropped a block) may lose a piece    *)
(* and yet report success.                                                 *)
(***************************************************************************)
CONSTANT Shards

VARIABLES arrived, outcome, lossy

vars == <<arrived, outcome, lossy>>

Init == arrived \in SUBSET Shards /\ outcome = "none" /\ lossy = FALSE

Arrive ==
    /\ outcome # "ok"
    /\ arrived' \in SUBSET Shards /\ arrived \subseteq arrived'
    /\ UNCHANGED <<outcome, lossy>>

Disturb ==
    /\ outcome # "ok"
    /\ arrived' \in SUBSET Shards /\ lossy' = TRUE
    /\ UNCHANGED outcome

Succeed ==
    /\ outcome = "none" /\ (arrived = Shards \/ lossy)
    /\ outcome' = "ok" /\ UNCHANGED <<arrived, lossy>>

Fail ==
    /\ outcome = "none"
    /\ outcome' = "error" /\ UNCHANGED <<arrived, lossy>>

Next == Arrive \/ Disturb \/ Succeed \/ Fail

Spec == Init /\ [][Next]_vars
=============================================================================
