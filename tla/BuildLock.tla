------------------------------- MODULE BuildLock -------------------------------
(***************************************************************************)
(* What the table of running builds (_runs and _runs_lock of               *)
(* services/images.py) promises: the folders of an image are built by at   *)
(* most one thread at a time, and a build told to stop stays told until    *)
(* it is over.                                                             *)
(***************************************************************************)
CONSTANTS Threads, Ids

VARIABLES phase,  \* "none", "live" or "stop", by image id
          owner   \* the threads building that image

vars == << phase, owner >>

Init == phase = [id \in Ids |-> "none"] /\ owner = [id \in Ids |-> {}]

Acquire(t, id) == /\ phase[id] = "none"
                  /\ phase' = [phase EXCEPT ![id] = "live"]
                  /\ owner' = [owner EXCEPT ![id] = {t}]

RequestStop(id) == /\ phase[id] = "live"
                   /\ phase' = [phase EXCEPT ![id] = "stop"]
                   /\ UNCHANGED owner

Release(t, id) == /\ owner[id] = {t}
                  /\ phase' = [phase EXCEPT ![id] = "none"]
                  /\ owner' = [owner EXCEPT ![id] = {}]

\* No build survives the process.
Crash == phase' = [id \in Ids |-> "none"] /\ owner' = [id \in Ids |-> {}]

Next == \/ \E id \in Ids : RequestStop(id)
        \/ \E t \in Threads, id \in Ids : Acquire(t, id) \/ Release(t, id)
        \/ Crash

Spec == Init /\ [][Next]_vars
================================================================================
