-------------------------------- MODULE Restores --------------------------------
(***************************************************************************)
(* What services/restore.py promises of the file at DB_PATH: that it is    *)
(* replaced in one step, by a file whose preview was shown, and only while *)
(* pxe.db.pre-restore is a copy of the database it replaces.               *)
(***************************************************************************)
CONSTANTS Here, Own, Modes   \* what a save may set, and what a restore may leave

VARIABLES live,       \* pxe.db
          safe,       \* pxe.db.pre-restore
          shown,      \* the files whose preview was shown
          disturbed   \* an upload, a cancel or another apply crossed an apply

vars == << live, safe, shown, disturbed >>

Init == /\ live.host \in Here /\ live.ok
        /\ \A d \in shown : d.ok
        /\ ~disturbed

\* A key of the settings is saved, or seeded when the process starts.
Save == /\ \/ \E h \in Here : live' = [live EXCEPT !.host = h]
           \/ \E m \in Modes : live' = [live EXCEPT !.mode = m]
        /\ UNCHANGED << safe, shown, disturbed >>

Look == /\ \E d \in shown' : d.ok /\ shown' = shown \cup {d}
        /\ UNCHANGED << live, safe, disturbed >>

Copy == safe' = live /\ UNCHANGED << live, shown, disturbed >>

\* The host value is the backup's or one that was kept instead.
Swap == /\ safe.from = live.from
        /\ \E d \in shown, h \in Own : live' = [d EXCEPT !.host = h]
        /\ UNCHANGED << safe, shown, disturbed >>

Disturb == disturbed' = TRUE /\ UNCHANGED << live, safe, shown >>

\* After a disturbance another file may get into place.
Stray == disturbed /\ UNCHANGED << safe, shown, disturbed >>

Next == Save \/ Look \/ Copy \/ Swap \/ Disturb \/ Stray

Spec == Init /\ [][Next]_vars
================================================================================
