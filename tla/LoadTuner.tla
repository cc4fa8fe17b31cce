----------------------------- MODULE LoadTuner ------------------------------
(***************************************************************************)
(* The load tiers: class Aggressiveness of control/policy.py and the load  *)
(* measurement of Controller.step (control/controller.py), over the        *)
(* kernel's counters, which fwctl may reset at any moment, and the         *)
(* configured rate, which fwctl rewrites with the whole configuration, in  *)
(* a read and a write, and fwload sets anew when it reloads the program.   *)
(*                                                                         *)
(* read_stats and reset_stats make one system call per counter, in the     *)
(* order of the index, so packets and each other's calls come in between.  *)
(* A ratio is kept as its two sides; pass_rule is read, summed and reset   *)
(* like pass_default and is left out.                                      *)
(***************************************************************************)
EXTENDS Integers, Sequences, FiniteSets

CONSTANTS TIERS,          \* rate_pps of each tier, level 0 first
          ESCALATE_PPS,   \* load from which each tier is the target
          DROP_TIER,      \* tier when the limiter drops half of the load
          CALM_WINDOWS,
          INITIAL_RATE,   \* fwload -r
          OperatorRates,  \* what fwctl config set --rate is given
          MaxResets,      \* bound: times fwctl reset runs
          MaxRestarts,    \* bound: times the controller is restarted
          MaxWrites,      \* bound: times fwctl or fwload writes the configuration
          MaxCount,       \* bound: packets that arrive between two resets
          MaxSecs         \* bound: seconds from one measurement to the next

Levels == 0 .. Len(TIERS) - 1

ASSUME TunerAssumption ==
    /\ TIERS \in Seq(Nat) /\ TIERS # <<>>
    /\ ESCALATE_PPS \in Seq(Nat) /\ Len(ESCALATE_PPS) = Len(TIERS)
    /\ ESCALATE_PPS[1] = 0
    /\ DROP_TIER \in Levels /\ CALM_WINDOWS \in Nat \ {0}
    /\ INITIAL_RATE \in Nat /\ OperatorRates \subseteq Nat
    /\ MaxResets \in Nat /\ MaxRestarts \in Nat /\ MaxWrites \in Nat
    /\ MaxCount \in Nat /\ MaxSecs \in Nat \ {0}

Index == <<"rx_packets", "pass_default", "drop_ratelimit">>
Names == {Index[i] : i \in DOMAIN Index}
LIMITER_INPUT == {"pass_default", "drop_ratelimit"}

VARIABLES stats,    \* the kernel's counters, summed over CPUs
          flight,   \* packets received and not yet given a verdict
          rate,     \* config.rate_pps
          pending,  \* <<>> or <<rate that a running fwctl is about to write>>
          by,       \* history: who wrote rate last, since the controller started
          resetting,\* index of the next counter fwctl reset zeroes; 0: none
          resets, restarts, writes,
          ctl,      \* locals of Controller.step
          prev,     \* <<>> or <<counters at the last step>>
          load,     \* pps and drop_ratio: [packets, secs, dropped]
          level, calm,
          fed       \* history: the targets of the last windows

tuner == <<ctl, prev, load, level, calm, fed>>
config == <<rate, pending, by, writes>>
vars == <<stats, flight, config, resetting, resets, restarts, tuner>>

NoLoad == [packets |-> 0, secs |-> 1, dropped |-> 0]
Resting(secs) == [pc |-> "rest", got |-> <<>>, secs |-> secs]

Init ==
    /\ stats = [n \in Names |-> 0] /\ flight = 0
    /\ rate = INITIAL_RATE /\ pending = <<>> /\ by = "start" /\ writes = 0
    /\ resetting = 0 /\ resets = 0 /\ restarts = 0
    /\ ctl = Resting(1) /\ prev = <<>> /\ load = NoLoad
    /\ level = 0 /\ calm = 0 /\ fed = <<>>

-----------------------------------------------------------------------------
(* Packets: a CPU counts RX_PACKETS first and the verdict last. *)

Counts(name) ==
    /\ flight = IF name = "rx_packets" THEN 0 ELSE 1
    /\ stats' = [stats EXCEPT ![name] = @ + 1]
    /\ flight' = 1 - flight

Arrive ==
    /\ stats["rx_packets"] < MaxCount
    /\ Counts("rx_packets")
    /\ UNCHANGED <<config, resetting, resets, restarts, tuner>>

Verdict(name) ==
    /\ Counts(name)
    /\ UNCHANGED <<config, resetting, resets, restarts, tuner>>

Tick ==
    /\ ctl.secs < MaxSecs
    /\ ctl' = [ctl EXCEPT !.secs = @ + 1]
    /\ UNCHANGED <<stats, flight, config, resetting, resets, restarts,
                   prev, load, level, calm, fed>>

-----------------------------------------------------------------------------
(* fwctl *)

StartReset ==
    /\ resetting = 0 /\ resets < MaxResets
    /\ resetting' = 1 /\ resets' = resets + 1
    /\ UNCHANGED <<stats, flight, config, restarts, tuner>>

(* A CPU that has read its word to add to it when the zero is stored puts    *)
(* back the old value plus one.                                              *)
ResetStat ==
    /\ resetting > 0
    /\ \/ /\ stats' = [stats EXCEPT ![Index[resetting]] = 0]
          /\ UNCHANGED flight
       \/ Counts(Index[resetting])
    /\ resetting' = IF resetting < Len(Index) THEN resetting + 1 ELSE 0
    /\ UNCHANGED <<config, resets, restarts, tuner>>

(* update_config reads the whole configuration and writes it back: config    *)
(* set --rate and reset --all with a rate of their own, the others, policy   *)
(* and config set of other fields, with the rate they have read.             *)
ReadConfig ==
    /\ pending = <<>> /\ writes < MaxWrites
    /\ writes' = writes + 1
    /\ \E r \in OperatorRates \cup {rate} : pending' = <<r>>
    /\ UNCHANGED <<stats, flight, rate, by, resetting, resets, restarts, tuner>>

WriteConfig ==
    /\ pending # <<>>
    /\ rate' = pending[1] /\ pending' = <<>> /\ by' = "other"
    /\ UNCHANGED <<stats, flight, writes, resetting, resets, restarts, tuner>>

(* fwload, run again, keeps the maps and writes its own configuration.       *)
Reload ==
    /\ writes < MaxWrites /\ writes' = writes + 1
    /\ rate' = INITIAL_RATE /\ by' = "other"
    /\ UNCHANGED <<stats, flight, pending, resetting, resets, restarts, tuner>>

-----------------------------------------------------------------------------
(* Controller.step, once per interval of a second. *)

StartStep ==
    /\ ctl.pc = "rest" /\ ctl.secs > 0
    /\ ctl' = [ctl EXCEPT !.pc = "read"]
    /\ UNCHANGED <<stats, flight, config, resetting, resets, restarts,
                   prev, load, level, calm, fed>>

ReadStat ==
    /\ ctl.pc = "read" /\ Len(ctl.got) < Len(Index)
    /\ ctl' = [ctl EXCEPT !.got = Append(@, stats[Index[Len(@) + 1]])]
    /\ UNCHANGED <<stats, flight, config, resetting, resets, restarts,
                   prev, load, level, calm, fed>>

Delta(i) == ctl.got[i] - prev[1][i]

Reached == Delta(2) + Delta(3)           \* sum over LIMITER_INPUT

(* Mutant of Usable: an interval without traffic is not measured. *)
UsableBusy == prev # <<>> /\ Delta(1) >= 0 /\ Reached > 0

(* "A negative delta means someone ran fwctl reset; skip that interval." *)
Usable == prev # <<>> /\ Delta(1) >= 0 /\ Reached >= 0

Measured ==
    IF Usable
    THEN [packets |-> Reached, secs |-> ctl.secs,
          dropped |-> IF Reached = 0 THEN 0 ELSE Delta(3)]
    ELSE load

(* Aggressiveness.update *)
Target(m) ==
    LET byLoad == {l \in Levels : m.packets >= ESCALATE_PPS[l + 1] * m.secs}
        byDrop == IF m.packets > 0 /\ 2 * m.dropped >= m.packets THEN {DROP_TIER} ELSE {}
    IN  CHOOSE l \in byLoad \cup byDrop : \A k \in byLoad \cup byDrop : k <= l

(* Mutant of Patient: calm is compared before it is counted. *)
PatientLate == calm >= CALM_WINDOWS

(* One more calm window is enough to relax. *)
Patient == calm + 1 >= CALM_WINDOWS

(* Mutant of Interrupted: a busy window does not end a calm stretch. *)
NeverInterrupted == calm

(* calm after a window whose target is the present level *)
Interrupted == 0

Adapt ==
    LET m      == Measured
        target == Target(m)
        relax  == target < level /\ Patient
        change == target > level \/ relax
    IN
    /\ ctl.pc = "read" /\ Len(ctl.got) = Len(Index)
    /\ load' = m
    /\ prev' = <<ctl.got>>
    /\ level' = IF target > level THEN target
                ELSE IF relax THEN level - 1 ELSE level
    /\ calm' = IF change THEN 0
               ELSE IF target = level THEN Interrupted ELSE calm + 1
    /\ fed' = LET all == Append(fed, target)
              IN  SubSeq(all, IF Len(all) > CALM_WINDOWS THEN 2 ELSE 1, Len(all))
    /\ ctl' = [pc |-> IF change THEN "apply" ELSE "rest", got |-> <<>>, secs |-> 0]
    /\ UNCHANGED <<stats, flight, config, resetting, resets, restarts>>

(* Mutant of Limits: TIERS[level - 1], which is the last tier for level 0. *)
LimitsBelow == TIERS[IF level = 0 THEN Len(TIERS) ELSE level]

(* Aggressiveness.limits *)
Limits == TIERS[level + 1]

(* update_config(rate_pps=rate, ...): whatever it has read, the rate it      *)
(* writes is its own.                                                        *)
Apply ==
    /\ ctl.pc = "apply"
    /\ rate' = Limits /\ by' = "controller"
    /\ ctl' = [ctl EXCEPT !.pc = "rest"]
    /\ UNCHANGED <<stats, flight, pending, writes, resetting, resets, restarts,
                   prev, load, level, calm, fed>>

(* The controller is stopped and started again: Controller.__init__. *)
Restart ==
    /\ restarts < MaxRestarts
    /\ restarts' = restarts + 1
    /\ ctl' = Resting(1) /\ prev' = <<>> /\ load' = NoLoad
    /\ level' = 0 /\ calm' = 0 /\ fed' = <<>> /\ by' = "start"
    /\ UNCHANGED <<stats, flight, rate, pending, writes, resetting, resets>>

-----------------------------------------------------------------------------

Traffic == Arrive \/ \E name \in LIMITER_INPUT : Verdict(name)
Step    == StartStep \/ ReadStat \/ Adapt \/ Apply
Operate == StartReset \/ ResetStat \/ ReadConfig \/ WriteConfig \/ Reload

Next == Traffic \/ Tick \/ Operate \/ Step \/ Restart

Spec == Init /\ [][Next]_vars

(* Controller.run: the loop steps every interval, at a raised priority. *)
FairSpec == Spec /\ WF_vars(Tick) /\ WF_vars(Step)

-----------------------------------------------------------------------------
(* Counters, the step's locals and the tier stay in their ranges; between    *)
(* two changes the calm windows stay below the number that relaxes.          *)
TypeOK ==
    /\ stats \in [Names -> Nat] /\ flight \in 0 .. 1 /\ rate \in Nat
    /\ pending # <<>> => pending[1] \in Nat
    /\ by \in {"start", "controller", "other"}
    /\ resetting \in 0 .. Len(Index)
    /\ ctl.pc \in {"rest", "read", "apply"} /\ ctl.secs \in 0 .. MaxSecs
    /\ ctl.got \in Seq(Nat) /\ Len(ctl.got) <= Len(Index)
    /\ load.packets \in Nat /\ load.secs \in 1 .. MaxSecs
    /\ level \in Levels /\ calm \in 0 .. CALM_WINDOWS - 1
    /\ Len(fed) <= CALM_WINDOWS

(* "Relaxing needs CALM_WINDOWS quiet seconds in a row and goes down one     *)
(* tier at a time": a step down follows that many windows in a row whose     *)
(* target was below the present tier, with no escalation among them.         *)
RelaxStep ==
    level' < level /\ restarts' = restarts =>
        /\ level' = level - 1
        /\ Len(fed') = CALM_WINDOWS
        /\ \A i \in DOMAIN fed' : fed'[i] < level
RelaxesSlowly == [][RelaxStep]_vars

(* "tightens everyone's per-source limit within a second": once a window's   *)
(* load has been fed, the tier is at least what that load calls for, and     *)
(* when the step has ended the configured rate is that tier's, unless fwctl  *)
(* or fwload wrote the configuration after the controller: the controller    *)
(* writes when its tier changes, so a controller that has not written since  *)
(* it started is at tier 0, and one that has wrote its present tier.         *)
TierFollowsLoad ==
    fed # <<>> =>
        /\ level >= fed[Len(fed)]
        /\ \/ ctl.pc = "apply"
           \/ by = "other"
           \/ by = "controller" /\ rate = TIERS[level + 1]
           \/ by = "start" /\ level = 0

(* README: "then relaxes one step per 5 calm seconds": when traffic stops    *)
(* for good, the tier is in the end the lowest, whatever was fed before,     *)
(* with counters reset under a measurement and controllers restarted; the    *)
(* rate is then that tier's as far as TierFollowsLoad says.                  *)
Quiet == <>[][~Traffic]_vars
CalmEndsRelaxed == Quiet => <>[](level = 0 /\ ctl.pc # "apply")
=============================================================================
