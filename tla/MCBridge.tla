------------------------------ MODULE MCBridge ------------------------------
(***************************************************************************)
(* Instances of Bridge for TLC.                                            *)
(***************************************************************************)
EXTENDS Bridge, TLC

CONSTANTS s1, s2, s3, s4, n1, n2, i1, i2, i3, h1, h2, k1, k2

(* Every note belongs to s1 and is on h1.                                  *)
OneSeries == <<s1>>
NotesOf1 == [n \in Notes |-> s1]
AllOnHost1 == [n \in Notes |-> h1]
Knot1 == [s \in Series |-> k1]
Rkey1 == [s \in Series |-> s]

(* s2, s3 and s4 have names that sanitize to one record key; s2 and s3     *)
(* are on one knot.                                                        *)
FourSeries == <<s1, s2, s3, s4>>
RkeyClash == [s \in Series |-> IF s = s1 THEN s1 ELSE s2]
KnotClash == [s \in Series |-> IF s = s4 THEN k2 ELSE k1]

(* How often each kind of fault may strike.                                *)
NoFaults == [k \in FaultKinds |-> 0]
Only(kinds) == [k \in FaultKinds |-> IF k \in kinds THEN 1 ELSE 0]
OneOfEach == Only({"crash", "save", "lost", "blank"})
CrashSave == Only({"crash", "save"})
LostAnswer == Only({"lost"})
SaveLostIndex ==
  [k \in FaultKinds |-> CASE k \in {"save", "lost", "index"} -> 1
                          [] k = "unnamed" -> 2
                          [] OTHER -> 0]
TwoBlank == [k \in FaultKinds |-> IF k = "blank" THEN 2 ELSE 0]

Symmetry == Permutations(Issues) \cup Permutations(Notes)
=============================================================================
