------------------------------ MODULE MCCatalog -------------------------------
(* Catalog for TLC.  Of the entry's editions two name a kernel and share an      *)
(* initrd, one names an archive; the newer initrd is empty, the newer archive    *)
(* too large, and what e2 calls a kernel is none at first.                       *)
EXTENDS Catalog

CONSTANTS e1, e2, arch, iso, k1, k2, ini, tar, a, b, c, r1, r2

AllEditions == {e1, e2, arch, iso}
AllUrls     == {k1, k2, ini, tar}
AllNames    == {"vmlinuz", "initrd", "archive"}
Lengths     == k1 :> << 2, 1 >> @@ k2 :> << 1, 1 >> @@ ini :> << 1, 0 >> @@ tar :> << 1, 3 >>
Where       == [e \in AllEditions |-> [n \in AllNames |->
                   CASE n = "archive" -> tar
                     [] n = "initrd"  -> ini
                     [] OTHER         -> IF e = e2 THEN k2 ELSE k1]]
AreKernels  == {<< k1, 1 >>, << k1, 2 >>, << k2, 2 >>}

TheNumbers == {<< 1, 0 >>, << 1, 1 >>}
TheList    == << << 0, 9 >> >>

\* The parts share no variable: each is explored next to an initial state of the other.
ImagesAtRest == NetbootInit /\ image.live /\ table[ImageId] = CHOOSE e \in Contents(ImageId) : TRUE
OneAtATime   == \/ ReleasesInit /\ releaseVars' = releaseVars
                \/ netbootVars' = netbootVars /\ ImagesAtRest
================================================================================
