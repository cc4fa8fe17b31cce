------------------------------ MODULE MapRead -------------------------------
(***************************************************************************)
(* What reading a whole map means: BpfMap.keys and BpfMap.items of         *)
(* control/bpfmap.py as their callers rely on them.  The map changes while *)
(* it is read, so there is no single moment the result belongs to; but it  *)
(* has every key that was there all the time, and none that never was.     *)
(***************************************************************************)
CONSTANT Keys

VARIABLES map,      \* the keys in the map
          busy,     \* somebody is reading it
          must,     \* keys that have been there since the read began
          may,      \* keys that have been there at some moment of it
          result    \* what it returned, until the next one begins

vars == <<map, busy, must, may, result>>

Init ==
    /\ map = {} /\ busy = FALSE
    /\ must = {} /\ may = {} /\ result = {}

(* Anybody inserts or deletes. *)
Change ==
    /\ map' \in SUBSET Keys
    /\ must' = must \cap map'
    /\ may' = IF busy THEN may \cup map' ELSE may
    /\ UNCHANGED <<busy, result>>

Begin ==
    /\ ~busy /\ busy' = TRUE
    /\ must' = map /\ may' = map /\ result' = {}
    /\ UNCHANGED map

Return ==
    /\ busy /\ busy' = FALSE
    /\ must \subseteq result' /\ result' \subseteq may
    /\ must' = {} /\ may' = {}
    /\ UNCHANGED map

(* An error ends it without a result. *)
Fail ==
    /\ busy /\ busy' = FALSE
    /\ must' = {} /\ may' = {}
    /\ UNCHANGED <<map, result>>

Next == Change \/ Begin \/ Return \/ Fail

Spec == Init /\ [][Next]_vars
=============================================================================
