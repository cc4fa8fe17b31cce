-------------------------- MODULE LoadTunerProofs ---------------------------
(***************************************************************************)
(* The load tiers, for any tiers and thresholds, any number of calm        *)
(* windows, and with counters reset and controllers restarted at any       *)
(* moment: the tier follows the load up at once, and down only after the   *)
(* calm windows, one at a time.                                            *)
(***************************************************************************)
EXTENDS LoadTuner, TLAPS, SequenceTheorems, WellFoundedInduction

-----------------------------------------------------------------------------
(* The inductive invariant. *)

(* The types of the counters, the step's locals and the measurements. *)
Types ==
    /\ stats \in [Names -> Nat] /\ flight \in 0 .. 1 /\ rate \in Nat
    /\ pending # <<>> => pending[1] \in Nat
    /\ by \in {"start", "controller", "other"}
    /\ resetting \in 0 .. Len(Index) /\ restarts \in Nat
    /\ ctl \in [pc : {"rest", "read", "apply"}, got : Seq(Nat), secs : 0 .. MaxSecs]
    /\ Len(ctl.got) <= Len(Index) /\ (ctl.pc = "read" => ctl.secs > 0)
    /\ prev # <<>> => prev[1] \in Seq(Nat) /\ Len(prev[1]) = Len(Index)
    /\ load \in [packets : Nat, secs : 1 .. MaxSecs, dropped : Int]
    /\ level \in Levels /\ calm \in 0 .. CALM_WINDOWS - 1
    /\ fed \in Seq(Levels) /\ Len(fed) <= CALM_WINDOWS

(* calm counts windows that were remembered, and whose target was below the  *)
(* present tier; no tier is below the last target.                           *)
CalmIsRemembered ==
    /\ calm <= Len(fed)
    /\ \A i \in DOMAIN fed : Len(fed) - i < calm => fed[i] < level
    /\ fed # <<>> => fed[Len(fed)] <= level

(* Whose the configured rate is: what the controller wrote last belongs to   *)
(* its present tier.                                                         *)
RateIsTiers ==
    \/ ctl.pc = "apply"
    \/ by = "other"
    \/ by = "controller" /\ rate = TIERS[level + 1]
    \/ by = "start" /\ level = 0

Tuned == Types /\ CalmIsRemembered /\ RateIsTiers

-----------------------------------------------------------------------------
(* The target of a window. *)

(* A nonempty bounded set of numbers has a largest one. *)
LEMMA GreatestExists ==
    ASSUME NEW n \in Nat, NEW S \in SUBSET (0 .. n), S # {}
    PROVE  \E m \in S : \A k \in S : k <= m
  <1> DEFINE T == {n - k : k \in S}
  <1>1. T \in SUBSET Nat /\ T # {}
    <2>1. \A k \in S : k \in 0 .. n
      OBVIOUS
    <2>2. \A k \in 0 .. n : n - k \in Nat
      OBVIOUS
    <2>3. PICK k \in S : TRUE
      OBVIOUS
    <2> QED BY <2>1, <2>2, <2>3
  <1> HIDE DEF T
  <1>2. PICK d \in T : \A e \in T : ~ (<<e, d>> \in OpToRel(<, Nat))
    BY <1>1, NatLessThanWellFounded, WFMin
  <1>3. ASSUME NEW e \in T, e < d PROVE FALSE
    <2>1. <<e, d>> \in {ss \in Nat \X Nat : ss[1] < ss[2]}
      BY <1>1, <1>3
    <2>2. OpToRel(<, Nat) = {ss \in Nat \X Nat : ss[1] < ss[2]}
      BY Zenon DEF OpToRel
    <2> QED BY <1>2, <2>1, <2>2
  <1>4. PICK m \in S : d = n - m
    BY DEF T
  <1>5. ASSUME NEW k \in S PROVE k <= m
    <2>1. n - k \in T
      BY DEF T
    <2> QED BY <2>1, <1>1, <1>3, <1>4
  <1> QED BY <1>5

LEMMA LevelFacts ==
    /\ Len(TIERS) \in Nat \ {0} /\ 0 \in Levels /\ Levels \subseteq Nat
    /\ \A l \in Levels : TIERS[l + 1] \in Nat
    /\ Len(Index) = 3
  <1>1. Len(TIERS) \in Nat \ {0} /\ \A i \in 1 .. Len(TIERS) : TIERS[i] \in Nat
    BY TunerAssumption
  <1>2. Len(Index) = 3
    BY DEF Index
  <1> QED BY <1>1, <1>2 DEF Levels

(* Every load has a target: tier 0 is one for any load. *)
LEMMA TargetExists ==
    ASSUME NEW m \in [packets : Nat, secs : 1 .. MaxSecs, dropped : Int]
    PROVE  Target(m) \in Levels
  <1> DEFINE byLoad == {l \in Levels : m.packets >= ESCALATE_PPS[l + 1] * m.secs}
             byDrop == IF m.packets > 0 /\ 2 * m.dropped >= m.packets
                       THEN {DROP_TIER} ELSE {}
             all == byLoad \cup byDrop
  <1>1. all \in SUBSET (0 .. Len(TIERS) - 1) /\ Len(TIERS) - 1 \in Nat
    BY TunerAssumption, LevelFacts DEF Levels
  <1>2. 0 \in all
    <2>1. ESCALATE_PPS[0 + 1] * m.secs = 0
      BY TunerAssumption
    <2> QED BY <2>1, LevelFacts
  <1>3. Target(m) = CHOOSE l \in all : \A k \in all : k <= l
    BY DEF Target
  <1> HIDE DEF all
  <1>4. \E l \in all : \A k \in all : k <= l
    BY <1>1, <1>2, GreatestExists
  <1> QED BY <1>1, <1>3, <1>4 DEF Levels

(* What Adapt measures is a load. *)
LEMMA MeasuredType ==
    ASSUME Types, ctl.pc = "read", Len(ctl.got) = Len(Index)
    PROVE  Measured \in [packets : Nat, secs : 1 .. MaxSecs, dropped : Int]
  <1>1. ctl.secs \in 1 .. MaxSecs /\ load \in [packets : Nat, secs : 1 .. MaxSecs, dropped : Int]
    BY TunerAssumption DEF Types
  <1>2. ASSUME Usable PROVE Reached \in Nat /\ Delta(3) \in Int
    <2>1. /\ ctl.got \in Seq(Nat) /\ Len(ctl.got) = 3
          /\ prev[1] \in Seq(Nat) /\ Len(prev[1]) = 3
      BY <1>2, LevelFacts DEF Types, Usable
    <2>2. /\ ctl.got[2] \in Nat /\ ctl.got[3] \in Nat
          /\ prev[1][2] \in Nat /\ prev[1][3] \in Nat
      <3>1. ASSUME NEW s \in Seq(Nat), Len(s) = 3 PROVE s[2] \in Nat /\ s[3] \in Nat
        <4>1. 2 \in 1 .. Len(s) /\ 3 \in 1 .. Len(s)
          BY <3>1
        <4> QED BY <4>1, ElementOfSeq
      <3> QED BY <2>1, <3>1
    <2> QED BY <1>2, <2>2 DEF Usable, Reached, Delta
  <1> QED BY <1>1, <1>2 DEF Measured

(* fed after a window of target t. *)
Remembered(f, t) ==
    LET all == Append(f, t)
    IN  SubSeq(all, IF Len(all) > CALM_WINDOWS THEN 2 ELSE 1, Len(all))

(* The history after a window: its last entry is the window's target, the    *)
(* others are the latest of the history before.                              *)
LEMMA HistoryGrows ==
    ASSUME NEW f \in Seq(Levels), Len(f) <= CALM_WINDOWS, NEW t \in Levels
    PROVE  LET g == Remembered(f, t) IN
           /\ g \in Seq(Levels) /\ g # <<>>
           /\ Len(g) = IF Len(f) = CALM_WINDOWS THEN CALM_WINDOWS ELSE Len(f) + 1
           /\ g[Len(g)] = t
           /\ \A i \in 1 .. Len(g) - 1 : g[i] = f[i + (Len(f) + 1 - Len(g))]
  <1> DEFINE all == Append(f, t)
             g == Remembered(f, t)
             a == Len(f)
             n == Len(all)
             m == IF n > CALM_WINDOWS THEN 2 ELSE 1
  <1>1. CALM_WINDOWS \in Nat \ {0} /\ a \in Nat /\ a <= CALM_WINDOWS
    BY TunerAssumption, LenProperties
  <1>2. /\ all \in Seq(Levels) /\ n = a + 1
        /\ \A i \in 1 .. a : all[i] = f[i]
        /\ all[a + 1] = t
    BY AppendProperties
  <1>3. g = SubSeq(all, m, n)
    BY DEF Remembered
  <1> HIDE DEF all, g, a, n
  <1>4. m \in 1 .. 2 /\ m <= n /\ n - m + 1 = IF a = CALM_WINDOWS THEN CALM_WINDOWS ELSE a + 1
    BY <1>1, <1>2
  <1> HIDE DEF m
  <1>5. \A i \in m .. n : all[i] \in Levels
    <2>1. \A i \in 1 .. n : all[i] \in Levels
      BY <1>2, ElementOfSeq DEF n
    <2> QED BY <1>1, <1>2, <1>4, <2>1
  <1>6. m \in Int /\ n \in Int /\ m <= n
    BY <1>1, <1>2, <1>4
  <1>7. /\ g \in Seq(Levels) /\ Len(g) = n - m + 1
        /\ \A i \in 1 .. n - m + 1 : g[i] = all[m + i - 1]
    BY <1>3, <1>5, <1>6, SubSeqProperties
  <1>8. g[Len(g)] = t
    <2>1. Len(g) \in 1 .. n - m + 1 /\ m + Len(g) - 1 = a + 1
      BY <1>1, <1>2, <1>4, <1>7
    <2> QED BY <1>2, <1>7, <2>1
  <1>9. ASSUME NEW i \in 1 .. Len(g) - 1 PROVE g[i] = f[i + (a + 1 - Len(g))]
    <2>1. /\ i \in 1 .. n - m + 1 /\ m + i - 1 \in 1 .. a
          /\ i + (a + 1 - Len(g)) = m + i - 1
      BY <1>1, <1>2, <1>4, <1>7
    <2> QED BY <1>2, <1>7, <2>1
  <1>10. g # <<>>
    BY <1>1, <1>4, <1>7, EmptySeq
  <1> QED BY <1>4, <1>7, <1>8, <1>9, <1>10 DEF g, a

-----------------------------------------------------------------------------
(* One window: Aggressiveness.update keeps the invariant, and a step down    *)
(* has all the calm windows behind it.                                       *)
LEMMA AdaptTunes ==
    ASSUME Tuned, Adapt
    PROVE  Tuned' /\ RelaxStep
  <1> DEFINE target == Target(Measured)
             relax  == target < level /\ Patient
             change == target > level \/ relax
  <1>1. /\ ctl.pc = "read" /\ Len(ctl.got) = Len(Index)
        /\ load' = Measured /\ prev' = <<ctl.got>>
        /\ level' = IF target > level THEN target
                    ELSE IF relax THEN level - 1 ELSE level
        /\ calm' = IF change THEN 0
                   ELSE IF target = level THEN Interrupted ELSE calm + 1
        /\ fed' = Remembered(fed, target)
        /\ ctl' = [pc |-> IF change THEN "apply" ELSE "rest", got |-> <<>>, secs |-> 0]
        /\ UNCHANGED <<stats, flight, config, resetting, resets, restarts>>
    BY DEF Adapt, Remembered
  <1>2. Measured \in [packets : Nat, secs : 1 .. MaxSecs, dropped : Int]
    BY <1>1, MeasuredType DEF Tuned
  <1>3. target \in Levels
    BY <1>2, TargetExists
  <1> HIDE DEF target
  <1>4. /\ level \in Levels /\ Levels \subseteq Nat /\ calm \in 0 .. CALM_WINDOWS - 1
        /\ fed \in Seq(Levels) /\ Len(fed) \in Nat /\ Len(fed) <= CALM_WINDOWS
        /\ calm <= Len(fed) /\ CALM_WINDOWS \in Nat \ {0} /\ MaxSecs \in Nat
    BY TunerAssumption, LevelFacts, LenProperties DEF Tuned, Types, CalmIsRemembered
  <1>5. /\ fed' \in Seq(Levels) /\ fed' # <<>>
        /\ Len(fed') = IF Len(fed) = CALM_WINDOWS THEN CALM_WINDOWS ELSE Len(fed) + 1
        /\ fed'[Len(fed')] = target
        /\ \A i \in 1 .. Len(fed') - 1 : fed'[i] = fed[i + (Len(fed) + 1 - Len(fed'))]
    BY <1>1, <1>3, <1>4, HistoryGrows
  <1>6. DOMAIN fed = 1 .. Len(fed) /\ DOMAIN fed' = 1 .. Len(fed')
        /\ \A i \in 1 .. Len(fed') : fed'[i] \in Nat
    BY <1>4, <1>5, LenProperties, ElementOfSeq
  <1>7. relax <=> target < level /\ calm = CALM_WINDOWS - 1
    BY <1>4 DEF Patient
  <1>8. ASSUME target < level,
               NEW i \in 1 .. Len(fed'), Len(fed') - i < calm + 1
        PROVE  fed'[i] < level
    <2>1. CASE i = Len(fed')
      BY <1>5, <1>8, <2>1
    <2>2. CASE i # Len(fed')
      <3> DEFINE j == i + (Len(fed) + 1 - Len(fed'))
      <3>1. Len(fed') \in Nat /\ i \in 1 .. Len(fed') - 1
        BY <1>4, <1>5, <2>2
      <3>2. j \in 1 .. Len(fed) /\ Len(fed) - j < calm
        BY <1>4, <1>5, <1>8, <3>1
      <3>3. fed[j] < level
        BY <1>6, <3>2 DEF Tuned, CalmIsRemembered
      <3> QED BY <1>5, <3>1, <3>3
    <2> QED BY <2>1, <2>2
  <1>9. level' \in Levels /\ calm' \in 0 .. CALM_WINDOWS - 1
    BY <1>1, <1>3, <1>4, <1>7, LevelFacts DEF Levels, Interrupted
  <1>10. Types'
    <2>1. ctl' \in [pc : {"rest", "read", "apply"}, got : Seq(Nat), secs : 0 .. MaxSecs]
          /\ Len(ctl'.got) = 0 /\ ctl'.pc # "read"
      BY <1>1, <1>4, EmptySeq
    <2>2. prev'[1] \in Seq(Nat) /\ Len(prev'[1]) = Len(Index)
      BY <1>1 DEF Tuned, Types
    <2>3. Len(fed') <= CALM_WINDOWS
      BY <1>4, <1>5
    <2>4. Len(ctl'.got) <= Len(Index)
      BY <2>1, LevelFacts
    <2> QED BY <1>1, <1>2, <1>5, <1>9, <2>1, <2>2, <2>3, <2>4 DEF Types, Tuned, config
  <1>11. CalmIsRemembered'
    <2>1. calm' <= Len(fed')
      BY <1>1, <1>4, <1>5, <1>7 DEF Interrupted
    <2>2. fed'[Len(fed')] <= level'
      <3>1. target \in Nat /\ level \in Nat
        BY <1>3, <1>4
      <3>2. target <= level'
        BY <1>1, <3>1
      <3> QED BY <1>5, <3>2
    <2>3. ASSUME NEW i \in 1 .. Len(fed'), Len(fed') - i < calm' PROVE fed'[i] < level'
      <3>1. CASE change
        BY <1>1, <1>4, <1>5, <2>3, <3>1
      <3>2. CASE ~change /\ target = level
        BY <1>1, <1>4, <1>5, <2>3, <3>2 DEF Interrupted
      <3>3. CASE ~change /\ target # level
        <4>1. target < level /\ calm' = calm + 1 /\ level' = level
          BY <1>1, <1>3, <1>4, <3>3
        <4> QED BY <1>8, <2>3, <4>1
      <3> QED BY <3>1, <3>2, <3>3
    <2> QED BY <1>6, <2>1, <2>2, <2>3 DEF CalmIsRemembered
  <1>12. RateIsTiers'
    <2>1. CASE change
      BY <1>1, <2>1 DEF RateIsTiers
    <2>2. CASE ~change
      <3>1. level' = level
        BY <1>1, <2>2
      <3> QED BY <1>1, <3>1 DEF RateIsTiers, Tuned, config
    <2> QED BY <2>1, <2>2
  <1>13. ASSUME level' < level
         PROVE  /\ level' = level - 1 /\ Len(fed') = CALM_WINDOWS
                /\ \A i \in DOMAIN fed' : fed'[i] < level
    <2>1. relax /\ level' = level - 1 /\ target < level /\ calm = CALM_WINDOWS - 1
      BY <1>1, <1>3, <1>4, <1>7, <1>13
    <2>2. Len(fed') = CALM_WINDOWS
      BY <1>4, <1>5, <2>1
    <2>3. \A i \in 1 .. Len(fed') : Len(fed') - i < calm + 1
      BY <1>4, <2>1, <2>2
    <2> QED BY <1>6, <1>8, <2>1, <2>2, <2>3
  <1> QED BY <1>10, <1>11, <1>12, <1>13 DEF Tuned, RelaxStep

(* Every other step leaves the tier alone, or starts from the lowest. *)
LEMMA OthersTune ==
    ASSUME Tuned, [Next]_vars, ~Adapt
    PROVE  Tuned' /\ RelaxStep
  <1> USE DEF tuner, config
  <1>1. /\ Types /\ CalmIsRemembered /\ RateIsTiers
    BY DEF Tuned
  <1>2. level \in Nat
    BY <1>1, LevelFacts DEF Types
  <1>3. ASSUME UNCHANGED <<level, calm, fed, restarts, rate, by>>, ctl'.pc = ctl.pc, Types'
        PROVE  Tuned' /\ RelaxStep
    BY <1>1, <1>2, <1>3 DEF Tuned, CalmIsRemembered, RateIsTiers, RelaxStep
  <1>4. ASSUME NEW name \in Names, Counts(name)
        PROVE  stats' \in [Names -> Nat] /\ flight' \in 0 .. 1
    BY <1>1, <1>4 DEF Types, Counts
  <1>5. {"rx_packets"} \cup LIMITER_INPUT \subseteq Names
        /\ \A i \in 1 .. 3 : Index[i] \in Names
    BY DEF LIMITER_INPUT, Names, Index
  <1>6. CASE Traffic
    <2>1. stats' \in [Names -> Nat] /\ flight' \in 0 .. 1
      BY <1>4, <1>5, <1>6 DEF Traffic, Arrive, Verdict
    <2>2. UNCHANGED <<config, resetting, resets, restarts, tuner>>
      BY <1>6 DEF Traffic, Arrive, Verdict
    <2>3. Types'
      BY <1>1, <2>1, <2>2 DEF Types
    <2> QED BY <1>3, <2>2, <2>3
  <1>7. CASE Tick
    <2>1. ctl' \in [pc : {"rest", "read", "apply"}, got : Seq(Nat), secs : 0 .. MaxSecs]
          /\ ctl'.pc = ctl.pc /\ ctl'.got = ctl.got /\ ctl'.secs > 0
      <3>1. ctl.secs + 1 \in 0 .. MaxSecs /\ ctl.secs + 1 > 0
        <4>1. ctl.secs \in 0 .. MaxSecs /\ ctl.secs < MaxSecs
          BY <1>1, <1>7 DEF Types, Tick
        <4>2. MaxSecs \in Nat
          BY TunerAssumption
        <4> QED BY <4>1, <4>2
      <3>2. ctl' = [ctl EXCEPT !.secs = ctl.secs + 1]
        BY <1>7 DEF Tick
      <3> QED BY <1>1, <3>1, <3>2 DEF Types
    <2>2. Types'
      BY <1>1, <1>7, <2>1 DEF Types, Tick
    <2> QED BY <1>3, <1>7, <2>1, <2>2 DEF Tick
  <1>8. CASE StartReset
    <2>1. Types'
      BY <1>1, <1>8, LevelFacts DEF Types, StartReset
    <2> QED BY <1>3, <1>8, <2>1 DEF StartReset
  <1>9. CASE ResetStat
    <2>1. resetting \in 1 .. 3 /\ resetting' \in 0 .. 3
      BY <1>1, <1>9, LevelFacts DEF Types, ResetStat
    <2>2. stats' \in [Names -> Nat] /\ flight' \in 0 .. 1
      <3>1. CASE stats' = [stats EXCEPT ![Index[resetting]] = 0] /\ UNCHANGED flight
        BY <1>1, <3>1 DEF Types
      <3>2. CASE Counts(Index[resetting])
        BY <1>4, <1>5, <2>1, <3>2
      <3> QED BY <1>9, <3>1, <3>2 DEF ResetStat
    <2>3. Types'
      BY <1>1, <1>9, <2>1, <2>2, LevelFacts DEF Types, ResetStat
    <2> QED BY <1>3, <1>9, <2>3 DEF ResetStat
  <1>10. CASE ReadConfig
    <2>1. pending'[1] \in Nat
      BY <1>1, <1>10, TunerAssumption DEF Types, ReadConfig
    <2>2. Types'
      BY <1>1, <1>10, <2>1 DEF Types, ReadConfig
    <2> QED BY <1>3, <1>10, <2>2 DEF ReadConfig
  <1>11. CASE WriteConfig \/ Reload
    <2>1. rate' \in Nat /\ by' = "other" /\ (pending' # <<>> => pending'[1] \in Nat)
      BY <1>1, <1>11, TunerAssumption DEF Types, WriteConfig, Reload
    <2>2. UNCHANGED <<stats, flight, resetting, resets, restarts, tuner>>
      BY <1>11 DEF WriteConfig, Reload
    <2>3. Types'
      BY <1>1, <2>1, <2>2 DEF Types
    <2> QED BY <1>1, <1>2, <2>1, <2>2, <2>3
            DEF Tuned, CalmIsRemembered, RateIsTiers, RelaxStep
  <1>12. CASE StartStep
    <2>1. ctl' = [ctl EXCEPT !.pc = "read"] /\ ctl.pc = "rest" /\ ctl.secs > 0
      BY <1>12 DEF StartStep
    <2>2. ctl' \in [pc : {"rest", "read", "apply"}, got : Seq(Nat), secs : 0 .. MaxSecs]
          /\ ctl'.pc = "read" /\ ctl'.got = ctl.got /\ ctl'.secs > 0
      BY <1>1, <2>1 DEF Types
    <2>3. Types'
      BY <1>1, <1>12, <2>2 DEF Types, StartStep
    <2> QED BY <1>1, <1>2, <1>12, <2>1, <2>3
            DEF Tuned, CalmIsRemembered, RateIsTiers, RelaxStep, StartStep
  <1>13. CASE ReadStat
    <2> DEFINE i == Len(ctl.got) + 1
    <2>1. ctl.got \in Seq(Nat) /\ i \in 1 .. 3
      <3>1. ctl.got \in Seq(Nat) /\ Len(ctl.got) < 3
        BY <1>1, <1>13, LevelFacts DEF Types, ReadStat
      <3>2. Len(ctl.got) \in Nat
        BY <3>1, LenProperties
      <3> QED BY <3>1, <3>2
    <2>2. stats[Index[i]] \in Nat
      BY <1>1, <1>5, <2>1 DEF Types
    <2>3. ctl' = [ctl EXCEPT !.got = Append(ctl.got, stats[Index[i]])]
      BY <1>13 DEF ReadStat
    <2>4. Append(ctl.got, stats[Index[i]]) \in Seq(Nat)
          /\ Len(Append(ctl.got, stats[Index[i]])) = i
      BY <2>1, <2>2, AppendProperties
    <2>5. ctl' \in [pc : {"rest", "read", "apply"}, got : Seq(Nat), secs : 0 .. MaxSecs]
          /\ ctl'.pc = ctl.pc /\ ctl'.secs = ctl.secs /\ Len(ctl'.got) = i
      BY <1>1, <2>3, <2>4 DEF Types
    <2>6. Len(ctl'.got) <= Len(Index) /\ (ctl'.pc = "read" => ctl'.secs > 0)
      BY <1>1, <2>1, <2>5, LevelFacts DEF Types
    <2>7. Types'
      <3> HIDE DEF i
      <3> QED BY <1>1, <1>13, <2>5, <2>6 DEF Types, ReadStat
    <2> QED BY <1>3, <1>13, <2>5, <2>7 DEF ReadStat
  <1>14. CASE Apply
    <2>1. ctl' = [ctl EXCEPT !.pc = "rest"] /\ rate' = TIERS[level + 1]
      BY <1>14 DEF Apply, Limits
    <2>2. ctl' \in [pc : {"rest", "read", "apply"}, got : Seq(Nat), secs : 0 .. MaxSecs]
          /\ ctl'.pc = "rest" /\ ctl'.got = ctl.got
      BY <1>1, <2>1 DEF Types
    <2>3. rate' \in Nat
      BY <1>1, <2>1, LevelFacts DEF Types
    <2>4. Types'
      BY <1>1, <1>14, <2>2, <2>3 DEF Types, Apply
    <2> QED BY <1>1, <1>2, <1>14, <2>1, <2>4
            DEF Tuned, CalmIsRemembered, RateIsTiers, RelaxStep, Apply
  <1>15. CASE Restart
    <2>1. Resting(1) \in [pc : {"rest", "read", "apply"}, got : Seq(Nat), secs : 0 .. MaxSecs]
          /\ Resting(1).pc = "rest" /\ Len(Resting(1).got) = 0
      BY TunerAssumption, EmptySeq DEF Resting
    <2>2. NoLoad \in [packets : Nat, secs : 1 .. MaxSecs, dropped : Int]
      BY TunerAssumption DEF NoLoad
    <2>3. restarts' \in Nat /\ restarts' > 0 /\ restarts' # restarts
      BY <1>1, <1>15 DEF Types, Restart
    <2>4. Types'
      <3>1. <<>> \in Seq(Levels) /\ Len(<<>>) <= CALM_WINDOWS /\ 0 <= Len(Index)
        BY EmptySeq, LevelFacts, TunerAssumption
      <3>2. 0 \in Levels /\ 0 \in 0 .. CALM_WINDOWS - 1
        BY LevelFacts, TunerAssumption
      <3> QED BY <1>1, <1>15, <2>1, <2>2, <2>3, <3>1, <3>2 DEF Types, Restart
    <2>5. CalmIsRemembered'
      BY <1>15, EmptySeq DEF Restart, CalmIsRemembered
    <2> QED BY <1>15, <2>3, <2>4, <2>5 DEF Tuned, RateIsTiers, RelaxStep, Restart
  <1>16. CASE UNCHANGED vars
    <2>1. Types'
      BY <1>1, <1>16 DEF Types, vars
    <2> QED BY <1>3, <1>16, <2>1 DEF vars
  <1> QED
    BY <1>6, <1>7, <1>8, <1>9, <1>10, <1>12, <1>13, <1>14, <1>15, <1>16, <1>11
    DEF Next, Operate, Step

-----------------------------------------------------------------------------
(* Tuned holds in every reachable state. *)
THEOREM TunerInvariant == Spec => []Tuned
  <1>1. Init => Tuned
    <2> SUFFICES ASSUME Init PROVE Tuned
      OBVIOUS
    <2>1. Resting(1) \in [pc : {"rest", "read", "apply"}, got : Seq(Nat), secs : 0 .. MaxSecs]
          /\ Resting(1).pc = "rest" /\ Len(Resting(1).got) = 0
      BY TunerAssumption, EmptySeq DEF Resting
    <2>2. NoLoad \in [packets : Nat, secs : 1 .. MaxSecs, dropped : Int]
      BY TunerAssumption DEF NoLoad
    <2>3. Types
      <3>1. <<>> \in Seq(Levels) /\ Len(<<>>) <= CALM_WINDOWS /\ 0 \in 0 .. Len(Index)
        BY EmptySeq, LevelFacts, TunerAssumption
      <3>2. 0 \in Levels /\ 0 \in 0 .. CALM_WINDOWS - 1 /\ INITIAL_RATE \in Nat
        BY LevelFacts, TunerAssumption
      <3> QED BY <2>1, <2>2, <3>1, <3>2 DEF Init, Types
    <2>4. CalmIsRemembered /\ RateIsTiers
      BY EmptySeq DEF Init, CalmIsRemembered, RateIsTiers
    <2> QED BY <2>3, <2>4 DEF Tuned
  <1>2. Tuned /\ [Next]_vars => Tuned'
    BY AdaptTunes, OthersTune
  <1> QED BY <1>1, <1>2, PTL DEF Spec

(* Counters, measurements and the tier stay in their ranges: the load is     *)
(* never negative, however fwctl reset races the measurement, and tier and   *)
(* calm index TIERS and stay below CALM_WINDOWS.                             *)
THEOREM TunerTypeCorrect == Spec => []TypeOK
  <1>1. Tuned => TypeOK
    BY DEF Tuned, Types, TypeOK
  <1> QED BY <1>1, TunerInvariant, PTL

(* The tier is never below what the last load calls for, and the rate in     *)
(* force is that tier's unless fwctl or a reload of fwload wrote it last,    *)
(* however their reads and writes of the configuration fall between the      *)
(* controller's.                                                             *)
THEOREM TierAlwaysFollowsLoad == Spec => []TierFollowsLoad
  <1>1. Tuned => TierFollowsLoad
    <2> SUFFICES ASSUME Tuned, fed # <<>> PROVE level >= fed[Len(fed)]
      BY DEF Tuned, TierFollowsLoad, RateIsTiers
    <2>1. fed[Len(fed)] <= level
      BY DEF Tuned, CalmIsRemembered
    <2> QED BY <2>1
  <1> QED BY <1>1, TunerInvariant, PTL

(* A tier is left downwards by one, and only after CALM_WINDOWS windows in a *)
(* row that called for less.                                                 *)
THEOREM TierRelaxesSlowly == Spec => RelaxesSlowly
  <1>1. Tuned /\ [Next]_vars => [RelaxStep]_vars
    BY AdaptTunes, OthersTune
  <1> QED BY <1>1, TunerInvariant, PTL DEF Spec, RelaxesSlowly
=============================================================================
