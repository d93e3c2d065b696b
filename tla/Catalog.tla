-------------------------------- MODULE Catalog ---------------------------------
(***************************************************************************)
(* Everything behind the Netboot catalog: the images made from it and its  *)
(* custom entries (Netboot), and the release lists it shows (Releases).    *)
(* The two parts share no variable.                                        *)
(***************************************************************************)
EXTENDS Netboot, Releases

vars == << netbootVars, releaseVars >>
Init == NetbootInit /\ ReleasesInit

Next == \/ NetbootNext /\ UNCHANGED releaseVars
        \/ ReleasesNext /\ UNCHANGED netbootVars

\* The thread of a run is scheduled, and its reads time out.
Spec == Init /\ [][Next]_vars /\ WF_vars(RunStep /\ UNCHANGED releaseVars)

TypeOK == NetbootTypeOK /\ ReleasesTypeOK
================================================================================
