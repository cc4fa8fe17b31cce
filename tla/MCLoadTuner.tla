---------------------------- MODULE MCLoadTuner -----------------------------
(* Instances of LoadTuner for TLC: three tiers, and loads of a few packets.  *)
EXTENDS LoadTuner

ThreeTiers == <<9, 6, 3>>
Thresholds == <<0, 1, 2>>
=============================================================================
