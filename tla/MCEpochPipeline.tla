-------------------------- MODULE MCEpochPipeline --------------------------
(* A small instance of EpochPipeline: four FlowMods, the last of which     *)
(* (a strict modify, say) changes no rule of the detector, while the       *)
(* others share an xid: one whose measurement the next one has lost may    *)
(* finish that of a third.                                                 *)
EXTENDS EpochPipeline, TLC

CONSTANTS m1, m2, m3, m4, x1, x2

ThreeMods == {m1, m2, m3}
FourMods == {m1, m2, m3, m4}
TrackedMods == {m1, m2, m3}
XidSet == {x1, x2}
DistinctXids == [m \in ThreeMods |-> m]
SharedXids == m1 :> x1 @@ m2 :> x1 @@ m3 :> x1 @@ m4 :> x2
====
