--------------------------- MODULE FirewallProofs ---------------------------
(* Proofs about Firewall that hold for every value of its constants.         *)
EXTENDS Firewall, TLAPS

-----------------------------------------------------------------------------
(* Types of the operators the actions are built from. *)

LEMMA FrameReasonType ==
    ASSUME NEW p
    PROVE  FrameReason(p) \in Reasons \cup {"continue"}
  BY DEF FrameReason, Reasons, PassReasons, DropReasons

LEMMA L4ReasonType ==
    ASSUME NEW p, NEW cfg, NEW rules
    PROVE  L4Reason(p, cfg, rules) \in Reasons \ {"pass_allowlist"}
  BY DEF L4Reason, FragmentReason, DefaultReason, Reasons, PassReasons, DropReasons

LEMMA AfterFrameType ==
    ASSUME NEW cfg
    PROVE  AfterFrame(cfg) \in Stages /\ AfterAllowlist(cfg) \in Stages
  BY DEF AfterFrame, AfterAllowlist, Stages

(* A CPU that is not idle holds a full set of locals. *)
LEMMA BusyJob ==
    ASSUME job \in [CPUs -> {Idle} \cup Busy], NEW c \in CPUs, job[c].pc # "idle"
    PROVE  job[c] \in Busy
  BY DEF Idle

LEMMA DisturbType ==
    ASSUME job \in [CPUs -> {Idle} \cup Busy], Disturb
    PROVE  job' \in [CPUs -> {Idle} \cup Busy]
  <1>1. \A c \in CPUs : job[c].pc # "idle" => job[c] \in Busy
    BY BusyJob
  <1>2. \A c \in CPUs : job[c].pc # "idle" =>
            [job[c] EXCEPT !.quiet = FALSE] \in Busy
    BY <1>1 DEF Busy
  <1> QED BY <1>2 DEF Disturb

LEMMA PutType ==
    ASSUME NEW m, NEW D, NEW R, IsMap(m, D, R), NEW k \in D, NEW v \in R
    PROVE  IsMap(Put(m, k, v), D, R)
  BY DEF IsMap, Put

LEMMA DelType ==
    ASSUME NEW m, NEW D, NEW R, IsMap(m, D, R), NEW k
    PROVE  IsMap(Del(m, k), D, R)
  BY DEF IsMap, Del

-----------------------------------------------------------------------------
(* Integer arithmetic. *)

LEMMA DivBounds ==
    ASSUME NEW a \in Nat, NEW b \in Nat \ {0}
    PROVE  /\ a \div b \in Nat
           /\ b * (a \div b) <= a
           /\ a < b * (a \div b) + b
  OBVIOUS

LEMMA DivAtLeast ==
    ASSUME NEW x \in Nat, NEW a \in Nat, NEW b \in Nat \ {0}, x * b <= a
    PROVE  x <= a \div b
  OBVIOUS

LEMMA ModFacts ==
    ASSUME NEW a \in Nat, NEW b \in Nat \ {0}
    PROVE  /\ a % b \in Nat
           /\ a % b <= a
           /\ a < b => a % b = a
  OBVIOUS

LEMMA BitIndex ==
    ASSUME NEW a \in Nat
    PROVE  a % 64 \in 0 .. 63
  OBVIOUS

LEMMA ProductMonotone ==
    ASSUME NEW a \in Nat, NEW b \in Nat, NEW c \in Nat, NEW d \in Nat,
           a <= b, c <= d
    PROVE  a * c <= b * d
  OBVIOUS

LEMMA CancelFactor ==
    ASSUME NEW a \in Nat, NEW b \in Nat, NEW c \in Nat \ {0}, a * c <= b * c
    PROVE  a <= b
  OBVIOUS

-----------------------------------------------------------------------------
(* One refill of the bucket. *)

LEMMA PeriodFacts ==
    /\ Period \in Nat \ {0}
    /\ Period * MaxRate <= NSEC_PER_SEC
  <1>1. MaxRate \in Nat \ {0} /\ NSEC_PER_SEC \in Nat /\ MaxRate <= NSEC_PER_SEC
    BY DataplaneAssumption, BucketAssumption
  <1>2. Period \in Nat /\ MaxRate * Period <= NSEC_PER_SEC
    BY <1>1, DivBounds DEF Period
  <1>3. 1 <= Period
    BY <1>1, DivAtLeast DEF Period
  <1> QED BY <1>1, <1>2, <1>3

(* Refill types hold whatever the rate, and even if the arithmetic wraps. *)
LEMMA RefillType ==
    ASSUME NEW last \in Nat, NEW now \in Nat, NEW rate \in Nat, NEW tokens \in Nat,
           NEW burst \in Nat, rate > 0
    PROVE  LET elapsed == Elapsed(last, now)
               add     == Earned(elapsed, rate)
               topped  == Topped(tokens, add, burst)
           IN  /\ elapsed \in Nat /\ add \in Nat /\ Skipped(elapsed) \in Nat
               /\ Refilled(last, now, rate) \in Nat
               /\ topped \in Nat /\ topped <= tokens + add /\ topped <= burst
  <1> DEFINE elapsed == Elapsed(last, now)
             add     == Earned(elapsed, rate)
             topped  == Topped(tokens, add, burst)
  <1> USE BucketAssumption
  <1>1. elapsed \in Nat
    BY DEF Elapsed
  <1>2. elapsed * rate \in Nat
    BY <1>1
  <1>3. add \in Nat
    BY <1>1, <1>2, ModFacts, DivBounds DEF Earned
  <1>4. add * NSEC_PER_SEC \in Nat
    BY <1>3
  <1>5. ((add * NSEC_PER_SEC) % WORD) \div rate \in Nat
    BY <1>4, ModFacts, DivBounds
  <1>6. Refilled(last, now, rate) \in Nat
    BY <1>5 DEF Refilled
  <1>7. tokens + add \in Nat
    BY <1>3
  <1>8. topped \in Nat /\ topped <= tokens + add /\ topped <= burst
    BY <1>7, ModFacts DEF Topped
  <1>9. Skipped(elapsed) \in Nat
    BY <1>1 DEF Skipped
  <1> QED BY <1>1, <1>3, <1>6, <1>8, <1>9

(* What a refill at a configured rate credits: at most one token per Period  *)
(* of the time by which last_refill_ns moves, and at least the slowest rate  *)
(* over the time it accounts for; it never moves past now or backwards.      *)
LEMMA RefillBounds ==
    ASSUME NEW last \in Nat, NEW now \in Nat, NEW rate \in MinRate .. MaxRate
    PROVE  LET elapsed == Elapsed(last, now)
               add     == Earned(elapsed, rate)
               moved   == Refilled(last, now, rate) - last
               skipped == Skipped(elapsed)
           IN  /\ add \in 0 .. rate
               /\ moved \in 0 .. elapsed /\ elapsed <= moved + Grain
               /\ add * Period <= moved
               /\ MinRate * (moved - skipped) <= add * NSEC_PER_SEC
               /\ add = 0 => elapsed * rate < NSEC_PER_SEC /\ moved = 0 /\ skipped = 0
  <1> DEFINE elapsed == Elapsed(last, now)
             add     == Earned(elapsed, rate)
             moved   == Refilled(last, now, rate) - last
             skipped == Skipped(elapsed)
             Goal == /\ add \in 0 .. rate
                     /\ moved \in 0 .. elapsed /\ elapsed <= moved + Grain
                     /\ add * Period <= moved
                     /\ MinRate * (moved - skipped) <= add * NSEC_PER_SEC
                     /\ add = 0 => /\ elapsed * rate < NSEC_PER_SEC
                                  /\ moved = 0 /\ skipped = 0
  <1>1. /\ MinRate \in Nat \ {0} /\ MaxRate \in Nat /\ rate \in Nat \ {0}
        /\ MinRate <= rate /\ rate <= MaxRate
        /\ NSEC_PER_SEC \in Nat \ {0} /\ WORD \in Nat \ {0}
        /\ NSEC_PER_SEC * MaxRate < WORD
    BY DataplaneAssumption, BucketAssumption
  <1>2. elapsed \in Nat /\ (elapsed > 0 => now = last + elapsed)
    BY DEF Elapsed
  <1>3. Period \in Nat \ {0} /\ Period * rate <= NSEC_PER_SEC
    <2>1. Period * rate <= Period * MaxRate
      BY <1>1, PeriodFacts, ProductMonotone
    <2> QED BY <2>1, <1>1, PeriodFacts
  <1>a. Grain \in Nat
    <2>1. NSEC_PER_SEC + MinRate - 1 \in Nat
      BY <1>1
    <2> QED BY <2>1, <1>1, DivBounds DEF Grain
  <1>4. ASSUME elapsed >= NSEC_PER_SEC PROVE Goal
    <2>1. add = rate /\ moved = elapsed /\ skipped = elapsed - NSEC_PER_SEC
      BY <1>1, <1>2, <1>4 DEF Earned, Refilled, Skipped
    <2>2. rate * Period <= elapsed
      BY <1>1, <1>2, <1>3, <1>4
    <2>3. MinRate * NSEC_PER_SEC <= rate * NSEC_PER_SEC
      BY <1>1, ProductMonotone
    <2>4. moved - skipped = NSEC_PER_SEC
      BY <2>1, <1>1, <1>2
    <2> HIDE DEF elapsed, add, moved, skipped
    <2> QED BY <1>1, <1>2, <1>a, <2>1, <2>2, <2>3, <2>4
  <1>5. ASSUME elapsed < NSEC_PER_SEC PROVE Goal
    <2> DEFINE shift == (add * NSEC_PER_SEC) \div rate
    <2>1. elapsed * rate \in Nat /\ elapsed * rate <= NSEC_PER_SEC * MaxRate
      BY <1>1, <1>2, <1>5, ProductMonotone
    <2>2. add = (elapsed * rate) \div NSEC_PER_SEC
      <3>1. (elapsed * rate) % WORD = elapsed * rate
        BY <1>1, <2>1, ModFacts
      <3> QED BY <3>1, <1>1, <1>2, <1>5 DEF Earned
    <2>3. add \in Nat /\ NSEC_PER_SEC * add <= elapsed * rate
                      /\ elapsed * rate < NSEC_PER_SEC * add + NSEC_PER_SEC
      BY <2>1, <2>2, <1>1, DivBounds
    <2>4. add <= rate
      <3>1. elapsed * rate <= NSEC_PER_SEC * rate
        BY <1>1, <1>2, <1>5, ProductMonotone
      <3>2. add * NSEC_PER_SEC <= rate * NSEC_PER_SEC
        BY <3>1, <2>1, <2>3, <1>1
      <3> QED BY <3>2, <2>3, <1>1, CancelFactor
    <2>5. (add * NSEC_PER_SEC) % WORD = add * NSEC_PER_SEC
      BY <2>1, <2>3, <1>1, ModFacts
    <2>6. shift \in Nat /\ rate * shift <= add * NSEC_PER_SEC
          /\ add * NSEC_PER_SEC < rate * shift + rate
      <3> DEFINE worth == add * NSEC_PER_SEC
      <3>1. worth \in Nat
        BY <2>3, <1>1
      <3> HIDE DEF worth
      <3>2. /\ worth \div rate \in Nat /\ rate * (worth \div rate) <= worth
            /\ worth < rate * (worth \div rate) + rate
        BY <3>1, <1>1, DivBounds
      <3> QED BY <3>2 DEF worth
    <2>7. moved = IF add > 0 THEN shift ELSE 0
      BY <2>5, <2>6, <1>1, <1>2, <1>5 DEF Refilled
    <2>8. skipped = 0
      BY <1>1, <1>2, <1>5 DEF Skipped
    <2> HIDE DEF elapsed, add, moved, skipped
    <2>9. shift <= elapsed
      <3>1. shift * rate <= elapsed * rate
        BY <2>6, <2>3, <2>1, <1>1
      <3> QED BY <3>1, <2>6, <1>1, <1>2, CancelFactor
    <2>10. add * Period <= shift
      <3>1. add * (Period * rate) <= add * NSEC_PER_SEC
        BY <1>1, <1>3, <2>3, ProductMonotone
      <3>2. (add * Period) * rate <= add * NSEC_PER_SEC
        BY <3>1, <1>1, <1>3, <2>3
      <3>3. add * Period \in Nat /\ add * NSEC_PER_SEC \in Nat
        BY <1>1, <1>3, <2>3
      <3> QED BY <3>2, <3>3, <1>1, DivAtLeast
    <2>11. MinRate * shift <= add * NSEC_PER_SEC
      <3>1. MinRate * shift <= rate * shift
        BY <1>1, <2>6, ProductMonotone
      <3> QED BY <3>1, <2>6, <2>3, <1>1
    <2>a. elapsed <= shift + Grain
      <3> DEFINE late == elapsed - shift
      <3>1. CASE late = 0
        BY <3>1, <1>2, <1>a, <2>6
      <3>2. CASE late > 0
        <4>1. late - 1 \in Nat /\ late \in Nat
          BY <3>2, <1>2, <2>6
        <4>2. elapsed * rate = rate * shift + rate * (late - 1) + rate
          BY <1>1, <1>2, <2>6
        <4>3. elapsed * rate < rate * shift + rate + NSEC_PER_SEC
          BY <1>1, <2>1, <2>3, <2>6
        <4> HIDE DEF late
        <4>4. rate * (late - 1) < NSEC_PER_SEC
          BY <4>1, <4>2, <4>3, <1>1, <1>2, <2>6
        <4>5. MinRate * (late - 1) <= rate * (late - 1)
          BY <4>1, <1>1, ProductMonotone
        <4>6. late * MinRate = MinRate * (late - 1) + MinRate
          BY <4>1, <1>1
        <4>7. late * MinRate <= NSEC_PER_SEC + MinRate - 1
          BY <4>1, <4>4, <4>5, <4>6, <1>1
        <4>8. NSEC_PER_SEC + MinRate - 1 \in Nat
          BY <1>1
        <4>9. late <= Grain
          BY <4>1, <4>7, <4>8, <1>1, DivAtLeast DEF Grain
        <4> QED BY <4>9, <1>2, <1>a, <2>6 DEF late
      <3> QED BY <3>1, <3>2, <2>9, <1>2, <2>6
    <2>12. CASE add > 0
      BY <2>a, <2>12, <2>3, <2>4, <2>6, <2>7, <2>8, <2>9, <2>10, <2>11, <1>1
    <2>13. CASE add = 0
      <3>1. moved = 0
        BY <2>13, <2>7
      <3>2. add * Period = 0 /\ MinRate * (moved - skipped) = 0
        BY <3>1, <2>8, <2>13, <1>1, <1>3
      <3>3. elapsed * rate < NSEC_PER_SEC
        BY <2>3, <2>13, <1>1
      <3>4. shift = 0
        BY <2>13, <2>6, <1>1
      <3> QED BY <2>a, <2>13, <3>1, <3>2, <3>3, <3>4, <2>8, <1>1, <1>2
    <2> QED BY <2>12, <2>13, <2>3
  <1>6. Goal
    BY <1>4, <1>5, <1>1, <1>2
  <1> QED BY <1>6

-----------------------------------------------------------------------------
(* Types of the updates the actions make. *)

LEMMA SlotOfType ==
    ASSUME NEW a
    PROVE  SlotOf(a) \subseteq Slots
  BY DEF SlotOf

LEMMA StatType ==
    ASSUME stats \in [CPUs -> [StatNames -> Nat]], NEW c \in CPUs,
           NEW name \in StatNames, NEW n \in Nat
    PROVE  stat_add(c, name, n) \in [CPUs -> [StatNames -> Nat]]
  <1>1. [stats[c] EXCEPT ![name] = @ + n] \in [StatNames -> Nat]
    OBVIOUS
  <1> QED BY <1>1 DEF stat_add

(* A counter with what resets wiped: an increment adds to it, a zero does not *)
(* take from it.                                                             *)
LEMMA EverType ==
    ASSUME stats \in [CPUs -> [StatNames -> Nat]],
           wiped \in [CPUs -> [StatNames -> Nat]]
    PROVE  ever \in [CPUs -> [StatNames -> Nat]]
  BY DEF ever

LEMMA EverKept ==
    ASSUME UNCHANGED <<stats, wiped>>
    PROVE  ever' = ever
  BY DEF ever

LEMMA EverAdds ==
    ASSUME stats \in [CPUs -> [StatNames -> Nat]],
           wiped \in [CPUs -> [StatNames -> Nat]], UNCHANGED wiped,
           NEW c \in CPUs, NEW name \in StatNames, NEW k \in Nat,
           stats' = stat_add(c, name, k)
    PROVE  ever' = [ever EXCEPT ![c][name] = @ + k]
  <1>1. \A d \in CPUs, n \in StatNames :
            stats'[d][n] = IF d = c /\ n = name THEN stats[d][n] + k ELSE stats[d][n]
    BY DEF stat_add
  <1>2. \A d \in CPUs, n \in StatNames : stats[d][n] \in Nat /\ wiped[d][n] \in Nat
    OBVIOUS
  <1>3. \A d \in CPUs, n \in StatNames :
            ever'[d][n] = IF d = c /\ n = name THEN ever[d][n] + k ELSE ever[d][n]
    BY <1>1, <1>2 DEF ever
  <1> DEFINE own == [ever[c] EXCEPT ![name] = @ + k]
  <1>4. ever[c] \in [StatNames -> Nat] /\ ever'[c] \in [StatNames -> Nat]
    BY <1>1, <1>2 DEF ever
  <1>5. ever'[c] = own
    BY <1>3, <1>4
  <1>6. \A d \in CPUs \ {c} : ever'[d] = ever[d]
    BY <1>1 DEF ever
  <1> HIDE DEF own
  <1>7. ever' = [ever EXCEPT ![c] = own]
    <2>1. ever \in [CPUs -> [StatNames -> Nat]] /\ DOMAIN ever' = CPUs
      BY EverType DEF ever
    <2>2. ever' = [d \in CPUs |-> ever'[d]]
      BY DEF ever
    <2> QED BY <2>1, <2>2, <1>5, <1>6
  <1> QED BY <1>7 DEF own

LEMMA EverWiped ==
    ASSUME stats \in [CPUs -> [StatNames -> Nat]],
           wiped \in [CPUs -> [StatNames -> Nat]],
           NEW t \in Tools, NEW c \in CPUs, ZeroStat(t, c)
    PROVE  ever' = ever
  <1>1. PICK name \in StatNames :
            /\ stats' = [stats EXCEPT ![c][name] = 0]
            /\ wiped' = [wiped EXCEPT ![c][name] = @ + stats[c][name]]
    BY DEF ZeroStat
  <1>2. \A d \in CPUs, n \in StatNames :
            /\ stats'[d][n] = IF d = c /\ n = name THEN 0 ELSE stats[d][n]
            /\ wiped'[d][n] = IF d = c /\ n = name THEN wiped[d][n] + stats[d][n]
                                                  ELSE wiped[d][n]
    BY <1>1
  <1>3. \A d \in CPUs, n \in StatNames : stats[d][n] \in Nat /\ wiped[d][n] \in Nat
    OBVIOUS
  <1>4. \A d \in CPUs, n \in StatNames :
            stats'[d][n] + wiped'[d][n] = stats[d][n] + wiped[d][n]
    BY <1>2, <1>3
  <1> QED BY <1>4 DEF ever

(* Crediting a hit keeps a list well typed, whichever entry is credited. *)
LEMMA AllowHitType ==
    ASSUME NEW m, NEW D, IsMap(m, D, [hits : Nat]), NEW k,
           NEW n, n = [m EXCEPT ![k].hits = @ + 1]
    PROVE  IsMap(n, D, [hits : Nat])
  <1>1. CASE k \in DOMAIN m
    <2>1. [m[k] EXCEPT !.hits = @ + 1] \in [hits : Nat]
      BY <1>1 DEF IsMap
    <2> QED BY <1>1, <2>1 DEF IsMap
  <1>2. CASE k \notin DOMAIN m
    BY <1>2 DEF IsMap
  <1> QED BY <1>1, <1>2

LEMMA BlockHitType ==
    ASSUME NEW m, NEW D, NEW X, NEW Y, NEW k,
           IsMap(m, D, [expires_ns : X, hits : Nat, reason : Y]),
           NEW n, n = [m EXCEPT ![k].hits = @ + 1]
    PROVE  IsMap(n, D, [expires_ns : X, hits : Nat, reason : Y])
  <1>1. CASE k \in DOMAIN m
    <2>1. [m[k] EXCEPT !.hits = @ + 1] \in [expires_ns : X, hits : Nat, reason : Y]
      BY <1>1 DEF IsMap
    <2> QED BY <1>1, <2>1 DEF IsMap
  <1>2. CASE k \notin DOMAIN m
    BY <1>2 DEF IsMap
  <1> QED BY <1>1, <1>2

LEMMA RuleHitType ==
    ASSUME NEW m, NEW D, NEW A, NEW k, NEW c \in CPUs,
           IsMap(m, D, [action : A, hits : [CPUs -> Nat]]),
           NEW n, n = [m EXCEPT ![k].hits[c] = @ + 1]
    PROVE  IsMap(n, D, [action : A, hits : [CPUs -> Nat]])
  <1>1. CASE k \in DOMAIN m
    <2>1. m[k] \in [action : A, hits : [CPUs -> Nat]]
      BY <1>1 DEF IsMap
    <2>2. [m[k].hits EXCEPT ![c] = @ + 1] \in [CPUs -> Nat]
      <3> DEFINE h == m[k].hits
      <3>1. h \in [CPUs -> Nat]
        BY <2>1
      <3> HIDE DEF h
      <3>2. [h EXCEPT ![c] = @ + 1] \in [CPUs -> Nat]
        BY <3>1
      <3> QED BY <3>2 DEF h
    <2>3. [m[k] EXCEPT !.hits[c] = @ + 1] \in [action : A, hits : [CPUs -> Nat]]
      BY <2>1, <2>2
    <2> QED BY <1>1, <2>3 DEF IsMap
  <1>2. CASE k \notin DOMAIN m
    BY <1>2 DEF IsMap
  <1> QED BY <1>1, <1>2

-----------------------------------------------------------------------------
(* Type correctness, one lemma per side of the system. *)

(* xdp_firewall, on any CPU and for any packet, leaves every map and every   *)
(* local well typed.                                                         *)
LEMMA KernelTypes ==
    ASSUME TypeOK, NEW c \in CPUs, task' \in [Tools -> Operations],
           Step(c) \/ \E p \in Packets : Receive(c, p)
    PROVE  TypeOK'
  <1> USE DEF TypeOK, maps, history
  <1>1. ASSUME NEW p \in Packets, Receive(c, p) PROVE TypeOK'
    <2>1. p.len \in Nat
      BY DataplaneAssumption DEF PacketType
    <2>2. job' \in [CPUs -> {Idle} \cup Busy]
      BY <1>1, FrameReasonType, AfterFrameType DEF Receive, Busy, Stages, Reasons, PassReasons
    <2>3. stats' \in [CPUs -> [StatNames -> Nat]]
      <3>1. [stats[c] EXCEPT !.rx_packets = @ + 1, !.rx_bytes = @ + p.len]
                \in [StatNames -> Nat]
        <4> DEFINE own == stats[c]
        <4>1. own \in [StatNames -> Nat] /\ {"rx_packets", "rx_bytes"} \subseteq StatNames
          BY DEF StatNames
        <4> DEFINE one == [own EXCEPT !.rx_packets = @ + 1]
        <4> HIDE DEF own
        <4>2. one \in [StatNames -> Nat]
          BY <4>1
        <4> HIDE DEF one
        <4>3. [one EXCEPT !.rx_bytes = @ + p.len] \in [StatNames -> Nat]
          BY <4>1, <4>2, <2>1
        <4> QED BY <4>3 DEF own, one
      <3> QED BY <1>1, <3>1 DEF Receive
    <2> QED BY <1>1, <2>2, <2>3 DEF Receive
  <1>2. ASSUME CheckAllowlist(c) PROVE TypeOK'
    <2>1. job[c] \in Busy
      BY <1>2, BusyJob DEF CheckAllowlist
    <2>2. job' \in [CPUs -> {Idle} \cup Busy]
      <3>1. "count" \in Stages /\ "pass_allowlist" \in Reasons
        BY DEF Stages, Reasons, PassReasons
      <3>2. \/ job' = [job EXCEPT ![c].pc = "count", ![c].reason = "pass_allowlist"]
            \/ job' = [job EXCEPT ![c].pc = AfterAllowlist(job[c].cfg)]
        BY <1>2 DEF CheckAllowlist, Decided, Goto
      <3>3. AfterAllowlist(job[c].cfg) \in Stages
        BY AfterFrameType
      <3>4. CASE job' = [job EXCEPT ![c].pc = "count", ![c].reason = "pass_allowlist"]
        BY <2>1, <3>1, <3>4 DEF Busy
      <3>5. CASE job' = [job EXCEPT ![c].pc = AfterAllowlist(job[c].cfg)]
        BY <2>1, <3>3, <3>5 DEF Busy
      <3> QED BY <3>2, <3>4, <3>5
    <2>3. IsMap(allowlist', Prefixes, [hits : Nat])
      <3>1. \/ UNCHANGED allowlist
            \/ \E k : allowlist' = [allowlist EXCEPT ![k].hits = @ + 1]
        BY <1>2 DEF CheckAllowlist
      <3> QED BY <3>1, AllowHitType
    <2> QED BY <1>2, <2>2, <2>3 DEF CheckAllowlist
  <1>3. ASSUME CheckBlocklist(c) PROVE TypeOK'
    <2>1. job[c] \in Busy
      BY <1>3, BusyJob DEF CheckBlocklist
    <2>2. job' \in [CPUs -> {Idle} \cup Busy]
      <3>1. {"count", "l4"} \subseteq Stages /\ "drop_blocklist" \in Reasons
        BY DEF Stages, Reasons, DropReasons
      <3>2. \/ job' = [job EXCEPT ![c].pc = "count", ![c].reason = "drop_blocklist"]
            \/ job' = [job EXCEPT ![c].pc = "l4"]
        BY <1>3 DEF CheckBlocklist, Decided, Goto
      <3>3. CASE job' = [job EXCEPT ![c].pc = "count", ![c].reason = "drop_blocklist"]
        BY <2>1, <3>1, <3>3 DEF Busy
      <3>4. CASE job' = [job EXCEPT ![c].pc = "l4"]
        BY <2>1, <3>1, <3>4 DEF Busy
      <3> QED BY <3>2, <3>3, <3>4
    <2>3. IsMap(blocklist', Prefixes, [expires_ns : Nat, hits : Nat,
                                       reason : {"manual", "auto"}])
      <3>1. \/ UNCHANGED blocklist
            \/ \E k : blocklist' = [blocklist EXCEPT ![k].hits = @ + 1]
        BY <1>3 DEF CheckBlocklist
      <3> QED BY <3>1, BlockHitType
    <2> QED BY <1>3, <2>2, <2>3 DEF CheckBlocklist
  <1>4. ASSUME Filter(c) PROVE TypeOK'
    <2>1. job[c] \in Busy
      BY <1>4, BusyJob DEF Filter
    <2>2. job' \in [CPUs -> {Idle} \cup Busy]
      BY <1>4, <2>1, L4ReasonType DEF Filter, Busy, Stages
    <2>3. IsMap(portrules', RuleKeys, [action : {"allow", "deny"},
                                       hits : [CPUs -> Nat]])
      <3>1. \/ UNCHANGED portrules
            \/ \E k : portrules' = [portrules EXCEPT ![k].hits[c] = @ + 1]
        BY <1>4 DEF Filter
      <3> QED BY <3>1, RuleHitType
    <2> QED BY <1>4, <2>2, <2>3 DEF Filter
  <1>5. ASSUME Lookup(c) PROVE TypeOK'
    <2>1. job[c] \in Busy
      BY <1>5, BusyJob DEF Lookup
    <2>2. job' \in [CPUs -> {Idle} \cup Busy]
      <3>1. {"insert", "update"} \subseteq Stages
        BY DEF Stages
      <3>2. \/ job' = [job EXCEPT ![c].pc = "insert"]
            \/ \E s \in Slots : job' = [job EXCEPT ![c].pc = "update", ![c].st = s]
        BY <1>5, SlotOfType DEF Lookup, Goto, Use
      <3>3. CASE job' = [job EXCEPT ![c].pc = "insert"]
        BY <2>1, <3>1, <3>3 DEF Busy
      <3>4. ASSUME NEW s \in Slots,
                   job' = [job EXCEPT ![c].pc = "update", ![c].st = s]
            PROVE  job' \in [CPUs -> {Idle} \cup Busy]
        BY <2>1, <3>1, <3>4 DEF Busy
      <3> QED BY <3>2, <3>3, <3>4
    <2> QED BY <1>5, <2>2 DEF Lookup
  <1>6. ASSUME Insert(c) PROVE TypeOK'
    <2>1. job[c] \in Busy
      BY <1>6, BusyJob DEF Insert
    <2>2. job' \in [CPUs -> {Idle} \cup Busy]
      BY <1>6, <2>1 DEF Insert, Goto, Busy, Stages
    <2>3. /\ job[c].cfg.burst_pkts \in Nat /\ job[c].now \in Nat
          /\ job[c].pkt.saddr \in Addresses
      BY <2>1, DataplaneAssumption DEF Busy, ConfigType, PacketType
    <2>4. srcstate' \in [Slots -> SrcState]
      BY <1>6, <2>3 DEF Insert, SlotOf, NewState, SrcState
    <2>5. ledger' \in [Slots -> Ledger]
      BY <1>6, <2>3 DEF Insert, SlotOf, NewLedger, Ledger
    <2> QED BY <1>6, <2>2, <2>4, <2>5 DEF Insert
  <1>7. ASSUME InsertFails(c) PROVE TypeOK'
    <2>1. job[c] \in Busy
      BY <1>7, BusyJob DEF InsertFails
    <2>2. job' \in [CPUs -> {Idle} \cup Busy]
      BY <1>7, <2>1 DEF InsertFails, Goto, Busy, Stages
    <2>3. stats' \in [CPUs -> [StatNames -> Nat]]
      BY <1>7, StatType DEF InsertFails, StatNames
    <2> QED BY <1>7, <2>2, <2>3 DEF InsertFails
  <1>8. ASSUME Relookup(c) PROVE TypeOK'
    <2>1. job[c] \in Busy
      BY <1>8, BusyJob DEF Relookup
    <2>2. job' \in [CPUs -> {Idle} \cup Busy]
      <3>1. {"count", "update"} \subseteq Stages
        BY DEF Stages
      <3>2. \/ job' = [job EXCEPT ![c].pc = "count"]
            \/ \E s \in Slots : job' = [job EXCEPT ![c].pc = "update", ![c].st = s]
        BY <1>8, SlotOfType DEF Relookup, Goto, Use
      <3>3. CASE job' = [job EXCEPT ![c].pc = "count"]
        BY <2>1, <3>1, <3>3 DEF Busy
      <3>4. ASSUME NEW s \in Slots,
                   job' = [job EXCEPT ![c].pc = "update", ![c].st = s]
            PROVE  job' \in [CPUs -> {Idle} \cup Busy]
        BY <2>1, <3>1, <3>4 DEF Busy
      <3> QED BY <3>2, <3>3, <3>4
    <2>3. stats' \in [CPUs -> [StatNames -> Nat]]
      <3>1. stats' = stats \/ stats' = stat_add(c, "state_full", 1)
        BY <1>8 DEF Relookup
      <3>2. "state_full" \in StatNames
        BY DEF StatNames
      <3> QED BY <3>1, <3>2, StatType
    <2> QED BY <1>8, <2>2, <2>3 DEF Relookup
  <1>9. ASSUME Update(c) PROVE TypeOK'
    <2> DEFINE j == job[c]
               e == srcstate[j.st]
               l == ledger[j.st]
               lim == Limited(j)
               elapsed == Elapsed(e.last_refill_ns, j.now)
               add == Earned(elapsed, j.cfg.rate_pps)
               topped == Topped(e.tokens, add, j.cfg.burst_pkts)
               reason == IF lim /\ topped = 0 THEN "drop_ratelimit" ELSE j.reason
               refilled == Refilled(e.last_refill_ns, j.now, j.cfg.rate_pps)
    <2>1. j \in Busy
      BY <1>9, BusyJob DEF Update
    <2>2. /\ j.cfg.rate_pps \in Nat /\ j.cfg.burst_pkts \in Nat /\ j.now \in Nat
          /\ j.pkt.len \in Nat /\ j.pkt.port \in Nat /\ j.pkt \in PacketType
      BY <2>1, DataplaneAssumption DEF Busy, ConfigType, PacketType
    <2>3. reason \in Reasons
      BY <2>1 DEF Busy, Reasons, DropReasons
    <2>4. job' \in [CPUs -> {Idle} \cup Busy]
      <3>1. job' = [job EXCEPT ![c].pc = "count", ![c].reason = reason]
        BY <1>9 DEF Update, Decided
      <3> HIDE DEF reason
      <3> QED BY <2>1, <2>3, <3>1 DEF Busy, Stages
    <2>5. paid' \in [CPUs -> Nat]
      BY <1>9 DEF Update, One
    <2>6. CASE j.st \in Slots
      <3>1. e \in SrcState /\ l \in Ledger
        BY <2>6
      <3>2. /\ e.tokens \in Nat /\ e.last_refill_ns \in Nat
            /\ e.key \in Addresses \cup {Free}
            /\ e.packets \in Nat /\ e.bytes \in Nat /\ e.dropped \in Nat
            /\ e.syn \in Nat /\ e.fin \in Nat /\ e.rst \in Nat
            /\ e.udp \in Nat /\ e.icmp \in Nat
            /\ e.port_bitmap \subseteq 0 .. 63
        BY <3>1 DEF SrcState
      <3>3. lim => j.cfg.rate_pps > 0
        BY DEF Limited
      <3>4. lim => /\ elapsed \in Nat /\ add \in Nat /\ refilled \in Nat
                   /\ Skipped(elapsed) \in Nat
                   /\ topped \in Nat /\ topped <= e.tokens + add
        BY <2>2, <3>2, <3>3, RefillType
      <3>5. srcstate' \in [Slots -> SrcState]
        <4> DEFINE bits == e.port_bitmap \cup
                             (IF DPort(j.pkt) # 0 THEN {DPort(j.pkt) % 64} ELSE {})
                   tokens == IF ~lim THEN e.tokens
                             ELSE IF topped > 0 THEN topped - 1 ELSE 0
                   last == IF lim THEN refilled ELSE e.last_refill_ns
        <4>1. bits \subseteq 0 .. 63
          <5>1. DPort(j.pkt) \in Nat
            BY <2>2 DEF DPort
          <5>2. DPort(j.pkt) % 64 \in 0 .. 63
            BY <5>1, BitIndex
          <5> QED BY <3>2, <5>2
        <4>2. tokens \in Nat /\ last \in Nat
          BY <3>2, <3>4
        <4>3. /\ One(reason \in DropReasons) \in Nat
              /\ One("SYN" \in Flags(j.pkt)) \in Nat
              /\ One("FIN" \in Flags(j.pkt)) \in Nat
              /\ One("RST" \in Flags(j.pkt)) \in Nat
              /\ One(j.pkt.proto = "udp") \in Nat /\ One(j.pkt.proto = "icmp") \in Nat
          BY DEF One
        <4>4. srcstate' = [srcstate EXCEPT ![j.st] =
                 [key |-> e.key, tokens |-> tokens, last_refill_ns |-> last,
                  last_seen_ns |-> j.now, packets |-> e.packets + 1,
                  bytes |-> e.bytes + j.pkt.len,
                  dropped |-> e.dropped + One(reason \in DropReasons),
                  syn |-> e.syn + One("SYN" \in Flags(j.pkt)),
                  fin |-> e.fin + One("FIN" \in Flags(j.pkt)),
                  rst |-> e.rst + One("RST" \in Flags(j.pkt)),
                  udp |-> e.udp + One(j.pkt.proto = "udp"),
                  icmp |-> e.icmp + One(j.pkt.proto = "icmp"),
                  port_bitmap |-> bits]]
          BY <1>9 DEF Update
        <4> HIDE DEF bits, tokens, last, reason, e, j
        <4>5. srcstate'[j.st] \in SrcState
          BY <4>1, <4>2, <4>3, <4>4, <2>2, <2>6, <3>2 DEF SrcState
        <4> QED BY <4>4, <4>5, <2>6
      <3>6. ledger' \in [Slots -> Ledger]
        <4>1. CASE ~lim
          BY <1>9, <4>1 DEF Update
        <4>2. CASE lim
          <5> DEFINE lost == e.tokens + add - topped
                     skipped == Skipped(elapsed)
                     took == One(topped > 0)
          <5>1. lost \in Nat /\ skipped \in Nat /\ took \in Nat
            BY <4>2, <3>2, <3>4 DEF One
          <5>2. ledger' = [ledger EXCEPT ![j.st] =
                   [born |-> l.born, start |-> l.start, spent |-> l.spent + took,
                    lost |-> l.lost + lost, idle |-> l.idle + skipped]]
            BY <1>9, <4>2 DEF Update
          <5> HIDE DEF lost, skipped, took, l, j
          <5>3. [born |-> l.born, start |-> l.start, spent |-> l.spent + took,
                 lost |-> l.lost + lost, idle |-> l.idle + skipped] \in Ledger
            BY <3>1, <5>1 DEF Ledger
          <5> QED BY <5>2, <5>3
        <4> QED BY <4>1, <4>2
      <3> QED BY <1>9, <2>4, <2>5, <3>5, <3>6 DEF Update
    <2>7. CASE j.st \notin Slots
      <3>1. srcstate' = srcstate /\ ledger' = ledger
        BY <1>9, <2>7 DEF Update
      <3> QED BY <1>9, <2>4, <2>5, <3>1 DEF Update
    <2> QED BY <2>6, <2>7
  <1>10. ASSUME Count(c) PROVE TypeOK'
    <2>1. job' \in [CPUs -> {Idle} \cup Busy]
      BY <1>10 DEF Count
    <2>2. stats' \in [CPUs -> [StatNames -> Nat]]
      <3>1. job[c].reason \in StatNames
        BY <1>10, BusyJob DEF Count, Busy, StatNames
      <3> QED BY <1>10, <3>1, StatType DEF Count
    <2> QED BY <1>10, <2>1, <2>2 DEF Count
  <1> QED
    BY <1>1, <1>2, <1>3, <1>4, <1>5, <1>6, <1>7, <1>8, <1>9, <1>10 DEF Step

LEMMA FreedType ==
    ASSUME NEW e \in SrcState
    PROVE  [e EXCEPT !.key = Free] \in SrcState
  BY DEF SrcState

(* What an operation in progress holds follows from its name. *)
LEMMA OperationType ==
    ASSUME NEW o \in Operations
    PROVE  /\ o.op = "block" => o \in Blocking
           /\ o.op = "del_blocks" => o \in DelBlocks
           /\ o.op = "del_rules" => o \in DelRules
           /\ o.op \in {"del_idle", "del_states"} => o \in DelStates
           /\ o.op = "config" => o \in Configuring
           /\ o.op = "reset" => o \in Resetting
  BY DEF Operations, Ready, Blocking, DelBlocks, DelRules, DelStates, Configuring,
         Resetting

(* A reset that has dealt with one CPU's word, stored or lost. *)
LEMMA ZeroesType ==
    ASSUME task \in [Tools -> Operations], NEW t \in Tools, NEW c, NEW name,
           Zeroes(t, c, name)
    PROVE  task' \in [Tools -> Operations]
  <1> DEFINE o == task[t]
             next == [op    |-> "reset",
                      names |-> IF o.cpus = {c} THEN Tail(o.names) ELSE o.names,
                      cpus  |-> IF o.cpus = {c} THEN CPUs ELSE o.cpus \ {c}]
  <1>1. o \in Resetting /\ o.names # <<>>
    BY OperationType DEF Zeroes
  <1>2. o.names \in Seq(StatNames) /\ o.cpus \subseteq CPUs
    BY <1>1 DEF Resetting
  <1>3. Tail(o.names) \in Seq(StatNames)
    BY <1>1, <1>2
  <1>4. next \in Resetting
    BY <1>2, <1>3 DEF Resetting
  <1>5. task' = [task EXCEPT ![t] = next]
    BY DEF Zeroes
  <1> HIDE DEF next
  <1> QED BY <1>4, <1>5 DEF Operations

(* So does every operation of the tools.                                     *)
LEMMA ToolTypes ==
    ASSUME TypeOK, NEW t \in Tools, ToolStep(t)
    PROVE  TypeOK'
  <1> USE DEF TypeOK, maps, history
  <1>1. ASSUME NEW key \in AllowKeys, Allow(t, key) PROVE TypeOK'
    <2>1. key \in Prefixes
      BY ToolAssumption
    <2>2. IsMap(allowlist', Prefixes, [hits : Nat])
      <3>1. [hits |-> 0] \in [hits : Nat]
        OBVIOUS
      <3> QED BY <1>1, <2>1, <3>1, PutType DEF Allow
    <2>3. job' \in [CPUs -> {Idle} \cup Busy]
      BY <1>1, DisturbType DEF Allow
    <2> QED BY <1>1, <2>2, <2>3 DEF Allow
  <1>2. ASSUME NEW key \in AllowKeys, Unallow(t, key) PROVE TypeOK'
    <2>1. IsMap(allowlist', Prefixes, [hits : Nat])
      BY <1>2, DelType DEF Unallow
    <2>2. job' \in [CPUs -> {Idle} \cup Busy]
      BY <1>2, DisturbType DEF Unallow
    <2> QED BY <1>2, <2>1, <2>2 DEF Unallow
  <1>3. ASSUME NEW key \in BlockKeys, NEW d \in Durations, CheckAllowed(t, key, d)
        PROVE  TypeOK'
    <2>1. task' \in [Tools -> Operations]
      <3>1. [op |-> "block", key |-> key, duration |-> d] \in Blocking
        BY DEF Blocking
      <3> QED BY <1>3, <3>1 DEF CheckAllowed, Operations
    <2> QED BY <1>3, <2>1 DEF CheckAllowed, xdpVars
  <1>4. ASSUME Block(t) PROVE TypeOK'
    <2>1. task[t] \in Blocking
      BY <1>4, OperationType DEF Block
    <2>2. task[t].key \in Prefixes /\ task[t].duration \in Nat
      BY <2>1, ToolAssumption DEF Blocking
    <2> DEFINE entry == [expires_ns |-> IF task[t].duration > 0
                                        THEN clock + task[t].duration ELSE 0,
                         hits |-> 0,
                         reason |-> IF t = "controller" THEN "auto" ELSE "manual"]
    <2>3. entry \in [expires_ns : Nat, hits : Nat, reason : {"manual", "auto"}]
      BY <2>2
    <2>4. \/ UNCHANGED <<blocklist, job>>
          \/ Disturb /\ blocklist' = Put(blocklist, task[t].key, entry)
      BY <1>4 DEF Block
    <2> HIDE DEF entry
    <2>5. IsMap(blocklist', Prefixes, [expires_ns : Nat, hits : Nat,
                                       reason : {"manual", "auto"}])
      <3>1. IsMap(Put(blocklist, task[t].key, entry), Prefixes,
                  [expires_ns : Nat, hits : Nat, reason : {"manual", "auto"}])
        BY <2>2, <2>3, PutType
      <3> QED BY <2>4, <3>1
    <2>6. job' \in [CPUs -> {Idle} \cup Busy]
      BY <2>4, DisturbType
    <2>7. task' \in [Tools -> Operations]
      BY <1>4 DEF Block, Operations
    <2> QED BY <1>4, <2>5, <2>6, <2>7 DEF Block
  <1>5. ASSUME NEW key \in BlockKeys, Unblock(t, key) PROVE TypeOK'
    <2>1. IsMap(blocklist', Prefixes, [expires_ns : Nat, hits : Nat,
                                       reason : {"manual", "auto"}])
      BY <1>5, DelType DEF Unblock
    <2>2. job' \in [CPUs -> {Idle} \cup Busy]
      BY <1>5, DisturbType DEF Unblock
    <2> QED BY <1>5, <2>1, <2>2 DEF Unblock
  <1>6. ASSUME NEW keys \in SUBSET Prefixes, UNCHANGED xdpVars,
               task' = [task EXCEPT ![t] = [op |-> "del_blocks", keys |-> keys]]
        PROVE  TypeOK'
    <2>1. [op |-> "del_blocks", keys |-> keys] \in DelBlocks
      BY DEF DelBlocks
    <2>2. task' \in [Tools -> Operations]
      BY <1>6, <2>1 DEF Operations
    <2> QED BY <1>6, <2>2 DEF xdpVars
  <1>7. ASSUME remove_expired_blocks(t) \/ clear_blocks(t) PROVE TypeOK'
    <2>1. ExpiredBlocks \in SUBSET Prefixes /\ DOMAIN blocklist \in SUBSET Prefixes
      BY DEF ExpiredBlocks, IsMap
    <2> QED BY <1>6, <1>7, <2>1 DEF remove_expired_blocks, clear_blocks
  <1>8. ASSUME NEW key \in Prefixes, DeleteBlock(t, key) PROVE TypeOK'
    <2>1. task[t] \in DelBlocks
      BY <1>8, OperationType DEF DeleteBlock
    <2>2. [task[t] EXCEPT !.keys = @ \ {key}] \in DelBlocks
      BY <2>1 DEF DelBlocks
    <2>3. task' \in [Tools -> Operations]
      BY <1>8, <2>2 DEF DeleteBlock, Operations
    <2>4. IsMap(blocklist', Prefixes, [expires_ns : Nat, hits : Nat,
                                       reason : {"manual", "auto"}])
      BY <1>8, DelType DEF DeleteBlock
    <2>5. job' \in [CPUs -> {Idle} \cup Busy]
      BY <1>8, DisturbType DEF DeleteBlock
    <2> QED BY <1>8, <2>3, <2>4, <2>5 DEF DeleteBlock
  <1>9. ASSUME NEW key \in RuleKeys, NEW a \in {"allow", "deny"},
               set_port_rule(t, key, a)
        PROVE  TypeOK'
    <2> DEFINE rule == [action |-> a, hits |-> [c \in CPUs |-> 0]]
    <2>1. rule \in [action : {"allow", "deny"}, hits : [CPUs -> Nat]]
      OBVIOUS
    <2>2. portrules' = Put(portrules, key, rule)
      BY <1>9 DEF set_port_rule
    <2> HIDE DEF rule
    <2>3. IsMap(portrules', RuleKeys, [action : {"allow", "deny"},
                                       hits : [CPUs -> Nat]])
      BY <2>1, <2>2, PutType
    <2>4. job' \in [CPUs -> {Idle} \cup Busy]
      BY <1>9, DisturbType DEF set_port_rule
    <2> QED BY <1>9, <2>3, <2>4 DEF set_port_rule
  <1>10. ASSUME NEW key \in RuleKeys, del_port_rule(t, key) PROVE TypeOK'
    <2>1. IsMap(portrules', RuleKeys, [action : {"allow", "deny"},
                                       hits : [CPUs -> Nat]])
      BY <1>10, DelType DEF del_port_rule
    <2>2. job' \in [CPUs -> {Idle} \cup Busy]
      BY <1>10, DisturbType DEF del_port_rule
    <2> QED BY <1>10, <2>1, <2>2 DEF del_port_rule
  <1>11. ASSUME clear_port_rules(t) PROVE TypeOK'
    <2>1. [op |-> "del_rules", keys |-> DOMAIN portrules] \in DelRules
      BY DEF DelRules, IsMap
    <2>2. task' \in [Tools -> Operations]
      BY <1>11, <2>1 DEF clear_port_rules, Operations
    <2> QED BY <1>11, <2>2 DEF clear_port_rules, xdpVars
  <1>12. ASSUME NEW key \in RuleKeys, DeleteRule(t, key) PROVE TypeOK'
    <2>1. task[t] \in DelRules
      BY <1>12, OperationType DEF DeleteRule
    <2>2. [task[t] EXCEPT !.keys = @ \ {key}] \in DelRules
      BY <2>1 DEF DelRules
    <2>3. task' \in [Tools -> Operations]
      BY <1>12, <2>2 DEF DeleteRule, Operations
    <2>4. IsMap(portrules', RuleKeys, [action : {"allow", "deny"},
                                       hits : [CPUs -> Nat]])
      BY <1>12, DelType DEF DeleteRule
    <2>5. job' \in [CPUs -> {Idle} \cup Busy]
      BY <1>12, DisturbType DEF DeleteRule
    <2> QED BY <1>12, <2>3, <2>4, <2>5 DEF DeleteRule
  <1>13. ASSUME NEW keys \in SUBSET Addresses, NEW op \in {"del_idle", "del_states"},
                UNCHANGED xdpVars,
                task' = [task EXCEPT ![t] = [op |-> op, keys |-> keys]]
         PROVE  TypeOK'
    <2>1. [op |-> op, keys |-> keys] \in DelStates
      BY DEF DelStates
    <2>2. task' \in [Tools -> Operations]
      BY <1>13, <2>1 DEF Operations
    <2> QED BY <1>13, <2>2 DEF xdpVars
  <1>14. ASSUME remove_idle_states(t) \/ clear_states(t) PROVE TypeOK'
    <2>1. \A s \in Slots : srcstate[s].key \in Addresses \cup {Free}
      BY DEF SrcState
    <2>2. IdleSources \in SUBSET Addresses /\ Tracked \in SUBSET Addresses
      BY <2>1 DEF IdleSources, Tracked
    <2> QED BY <1>13, <1>14, <2>2 DEF remove_idle_states, clear_states
  <1>15. ASSUME NEW addr \in Addresses, DeleteState(t, addr) PROVE TypeOK'
    <2>1. task[t] \in DelStates
      BY <1>15, OperationType DEF DeleteState
    <2>2. [task[t] EXCEPT !.keys = @ \ {addr}] \in DelStates
      BY <2>1 DEF DelStates
    <2>3. task' \in [Tools -> Operations]
      BY <1>15, <2>2 DEF DeleteState, Operations
    <2>4. \A s \in Slots : [srcstate[s] EXCEPT !.key = Free] \in SrcState
      BY FreedType
    <2>5. srcstate' \in [Slots -> SrcState]
      BY <1>15, <2>4 DEF DeleteState
    <2> QED BY <1>15, <2>3, <2>5 DEF DeleteState
  <1>16. ASSUME NEW ch \in Changes[t], update_config(t, ch[1], ch[2]) PROVE TypeOK'
    <2>1. ch[2] \in ConfigType
      BY ToolAssumption
    <2>2. Merge(config, ch[1], ch[2]) \in ConfigType
      BY <2>1 DEF Merge, ConfigType
    <2>3. [op |-> "config", fields |-> ConfigFields,
           cfg |-> Merge(config, ch[1], ch[2])] \in Configuring
      BY <2>2 DEF Configuring
    <2>4. task' \in [Tools -> Operations]
      BY <1>16, <2>3 DEF update_config, Operations
    <2> QED BY <1>16, <2>4 DEF update_config, xdpVars
  <1>17. ASSUME NEW field \in ConfigFields, WriteConfig(t, field) PROVE TypeOK'
    <2>1. task[t] \in Configuring
      BY <1>17, OperationType DEF WriteConfig
    <2>2. [task[t] EXCEPT !.fields = @ \ {field}] \in Configuring
      BY <2>1 DEF Configuring
    <2>3. task' \in [Tools -> Operations]
      BY <1>17, <2>2 DEF WriteConfig, Operations
    <2>4. task[t].cfg \in ConfigType
      BY <2>1 DEF Configuring
    <2>5. config' \in ConfigType
      BY <1>17, <2>4 DEF WriteConfig, ConfigFields, ConfigType
    <2> QED BY <1>17, <2>3, <2>5 DEF WriteConfig
  <1>18. ASSUME Finish(t) PROVE TypeOK'
    <2>1. task' \in [Tools -> Operations]
      BY <1>18 DEF Finish, Operations
    <2> QED BY <1>18, <2>1 DEF Finish, xdpVars
  <1>19. ASSUME reset_stats(t) PROVE TypeOK'
    <2>1. STAT_NAMES \in Seq(StatNames)
      BY DEF STAT_NAMES, StatNames, Reasons, PassReasons, DropReasons
    <2>2. [op |-> "reset", names |-> STAT_NAMES, cpus |-> CPUs] \in Resetting
      BY <2>1 DEF Resetting
    <2>3. task' \in [Tools -> Operations]
      BY <1>19, <2>2 DEF reset_stats, Operations
    <2> QED BY <1>19, <2>3 DEF reset_stats, xdpVars
  <1>20. ASSUME NEW c \in CPUs, ZeroStat(t, c) PROVE TypeOK'
    <2>1. PICK name \in StatNames :
              /\ Zeroes(t, c, name)
              /\ stats' = [stats EXCEPT ![c][name] = 0]
              /\ wiped' = [wiped EXCEPT ![c][name] = @ + stats[c][name]]
      BY <1>20 DEF ZeroStat
    <2>2. task' \in [Tools -> Operations]
      BY <2>1, ZeroesType
    <2>3. stats[c][name] \in Nat
      OBVIOUS
    <2>4. stats' \in [CPUs -> [StatNames -> Nat]]
      <3>1. [stats[c] EXCEPT ![name] = 0] \in [StatNames -> Nat]
        OBVIOUS
      <3> QED BY <2>1, <3>1
    <2>5. wiped' \in [CPUs -> [StatNames -> Nat]]
      <3>1. [wiped[c] EXCEPT ![name] = @ + stats[c][name]] \in [StatNames -> Nat]
        BY <2>3
      <3> QED BY <2>1, <3>1
    <2> QED BY <1>20, <2>2, <2>4, <2>5 DEF ZeroStat
  <1> QED
    BY <1>1, <1>2, <1>3, <1>4, <1>5, <1>7, <1>8, <1>9, <1>10, <1>11, <1>12,
       <1>14, <1>15, <1>16, <1>17, <1>18, <1>19, <1>20
    DEF ToolStep

(* Every map, every CPU's locals and every tool's operation stay well typed. *)
THEOREM TypeCorrect == Spec => []TypeOK
  <1>1. Init => TypeOK
    <2> SUFFICES ASSUME Init PROVE TypeOK
      OBVIOUS
    <2>1. \A D, R : IsMap(<<>>, D, R)
      BY DEF IsMap
    <2>2. srcstate \in [Slots -> SrcState] /\ ledger \in [Slots -> Ledger]
      BY DEF Init, XdpInit, NewState, NewLedger, SrcState, Ledger
    <2>3. /\ clock \in Nat /\ config \in ConfigType
          /\ job \in [CPUs -> {Idle} \cup Busy] /\ paid \in [CPUs -> Nat]
          /\ stats \in [CPUs -> [StatNames -> Nat]]
          /\ wiped \in [CPUs -> [StatNames -> Nat]]
      BY DataplaneAssumption DEF Init, XdpInit
    <2>4. task \in [Tools -> Operations]
      BY DEF Init, Operations
    <2> QED BY <2>1, <2>2, <2>3, <2>4 DEF Init, XdpInit, TypeOK
  <1>2. TypeOK /\ [Next]_vars => TypeOK'
    <2> SUFFICES ASSUME TypeOK, [Next]_vars PROVE TypeOK'
      OBVIOUS
    <2>1. CASE Tick /\ UNCHANGED task
      BY <2>1 DEF TypeOK, Tick, maps, history
    <2>2. ASSUME NEW c \in CPUs, NEW t \in Tools, Overwrite(t, c)
          PROVE  task' \in [Tools -> Operations]
      BY <2>2, ZeroesType DEF Overwrite, TypeOK
    <2>3. ASSUME NEW c \in CPUs, Step(c) \/ \E p \in Packets : Receive(c, p),
                 UNCHANGED task \/ \E t \in Tools : Overwrite(t, c)
          PROVE  TypeOK'
      <3>1. task' \in [Tools -> Operations]
        BY <2>2, <2>3 DEF TypeOK
      <3> QED BY <2>3, <3>1, KernelTypes
    <2>4. ASSUME NEW t \in Tools, ToolStep(t) PROVE TypeOK'
      BY <2>4, ToolTypes
    <2>5. CASE UNCHANGED vars
      BY <2>5 DEF TypeOK, vars, xdpVars
    <2> QED BY <2>1, <2>3, <2>4, <2>5 DEF Next
  <1> QED BY <1>1, <1>2, PTL DEF Spec

-----------------------------------------------------------------------------
(* Counters.  A packet is between Receive and Count exactly while its CPU is *)
(* not idle; nothing in between touches rx_packets or a verdict counter.     *)

LEMMA Countable ==
    ASSUME NEW s \in [StatNames -> Nat], NEW r \in Reasons
    PROVE  /\ Verdicts([s EXCEPT ![r] = @ + 1]) = Verdicts(s) + 1
           /\ [s EXCEPT ![r] = @ + 1].rx_packets = s.rx_packets
  <1>1. Reasons \subseteq StatNames /\ "rx_packets" \in StatNames
    BY DEF StatNames
  <1>2. /\ s["pass_allowlist"] \in Nat /\ s["pass_rule"] \in Nat
        /\ s["pass_default"] \in Nat /\ s["pass_non_ipv4"] \in Nat
        /\ s["drop_blocklist"] \in Nat /\ s["drop_port_rule"] \in Nat
        /\ s["drop_default"] \in Nat /\ s["drop_proto"] \in Nat
        /\ s["drop_ratelimit"] \in Nat /\ s["drop_malformed"] \in Nat
        /\ s["drop_fragment"] \in Nat
    BY DEF StatNames, Reasons, PassReasons, DropReasons
  <1>3. \A n \in StatNames : [s EXCEPT ![r] = @ + 1][n] = IF n = r THEN s[n] + 1 ELSE s[n]
    OBVIOUS
  <1> QED BY <1>1, <1>2, <1>3 DEF Verdicts, Reasons, PassReasons, DropReasons

LEMMA VerdictsType ==
    ASSUME NEW s \in [StatNames -> Nat]
    PROVE  Verdicts(s) \in Nat
  BY DEF Verdicts, StatNames, Reasons, PassReasons, DropReasons

(* Only a reset takes counts away. *)
LEMMA StepWipesNothing ==
    ASSUME NEW c \in CPUs, Step(c)
    PROVE  UNCHANGED wiped
  BY DEF Step, Count, CheckAllowlist, CheckBlocklist, Filter, Lookup, Insert,
         InsertFails, Relookup, Update, history

(* The steps between Receive and Count. *)
LEMMA InFlight ==
    ASSUME TypeOK, NEW c \in CPUs, Step(c), ~Count(c)
    PROVE  /\ job[c].pc # "idle" /\ job'[c].pc # "idle"
           /\ Verdicts(ever'[c]) = Verdicts(ever[c])
           /\ ever'[c].rx_packets = ever[c].rx_packets
           /\ \A d \in CPUs \ {c} : job'[d] = job[d] /\ ever'[d] = ever[d]
  <1> DEFINE Moves(pc) == /\ job'[c].pc = pc
                          /\ \A d \in CPUs \ {c} : job'[d] = job[d]
  <1>1. /\ stats \in [CPUs -> [StatNames -> Nat]]
        /\ wiped \in [CPUs -> [StatNames -> Nat]]
        /\ ever \in [CPUs -> [StatNames -> Nat]]
        /\ job \in [CPUs -> {Idle} \cup Busy]
    BY EverType DEF TypeOK
  <1>a. UNCHANGED wiped
    BY StepWipesNothing
  <1>2. ASSUME job[c].pc # "idle",
               \E pc \in Stages : Moves(pc),
               stats' = stats \/ stats' = stat_add(c, "state_full", 1)
        PROVE  /\ job[c].pc # "idle" /\ job'[c].pc # "idle"
               /\ Verdicts(ever'[c]) = Verdicts(ever[c])
               /\ ever'[c].rx_packets = ever[c].rx_packets
               /\ \A d \in CPUs \ {c} : job'[d] = job[d] /\ ever'[d] = ever[d]
    <2>1. "idle" \notin Stages
      BY DEF Stages
    <2>2. CASE stats' = stats
      BY <1>2, <1>a, <2>1, <2>2, EverKept
    <2>3. CASE stats' = stat_add(c, "state_full", 1)
      <3>a. ever' = [ever EXCEPT ![c]["state_full"] = @ + 1]
        BY <1>1, <1>a, <2>3, EverAdds DEF StatNames
      <3>1. \A n \in StatNames \ {"state_full"} : ever'[c][n] = ever[c][n]
        BY <1>1, <3>a
      <3>2. Reasons \cup {"rx_packets"} \subseteq StatNames \ {"state_full"}
        BY DEF StatNames, Reasons, PassReasons, DropReasons
      <3>3. \A d \in CPUs \ {c} : ever'[d] = ever[d]
        BY <1>1, <3>a
      <3>4. Verdicts(ever'[c]) = Verdicts(ever[c])
        BY <3>1, <3>2 DEF Verdicts, Reasons, PassReasons, DropReasons
      <3> QED BY <1>2, <2>1, <3>1, <3>2, <3>3, <3>4
    <2> QED BY <1>2, <2>2, <2>3
  <1>3. \A pc : job' = [job EXCEPT ![c].pc = pc] /\ job[c] \in Busy => Moves(pc)
    BY <1>1 DEF Busy
  <1>4. \A pc, r : job' = [job EXCEPT ![c].pc = pc, ![c].reason = r] /\ job[c] \in Busy
                      => Moves(pc)
    BY <1>1 DEF Busy
  <1>5. \A pc, r : job' = [job EXCEPT ![c].reason = r, ![c].pc = pc] /\ job[c] \in Busy
                      => Moves(pc)
    BY <1>1 DEF Busy
  <1>6. \A pc, s : job' = [job EXCEPT ![c].pc = pc, ![c].st = s] /\ job[c] \in Busy
                      => Moves(pc)
    BY <1>1 DEF Busy
  <1>7. job[c].pc # "idle" /\ job[c] \in Busy
    <2>1. job[c].pc # "idle"
      BY DEF Step, Count, CheckAllowlist, CheckBlocklist, Filter, Lookup, Insert,
             InsertFails, Relookup, Update
    <2> QED BY <2>1, <1>1, BusyJob
  <1> HIDE DEF Moves
  <1>8. {"l4", "lookup", "insert", "relookup", "update", "count"} \subseteq Stages
    BY DEF Stages
  <1>9. CASE CheckAllowlist(c)
    BY <1>9, <1>2, <1>3, <1>4, <1>7, <1>8, AfterFrameType DEF CheckAllowlist, Decided, Goto
  <1>10. CASE CheckBlocklist(c)
    BY <1>10, <1>2, <1>3, <1>4, <1>7, <1>8 DEF CheckBlocklist, Decided, Goto
  <1>11. CASE Filter(c)
    BY <1>11, <1>2, <1>5, <1>7, <1>8 DEF Filter
  <1>12. CASE Lookup(c)
    BY <1>12, <1>2, <1>3, <1>6, <1>7, <1>8 DEF Lookup, Goto, Use
  <1>13. CASE Insert(c)
    BY <1>13, <1>2, <1>3, <1>7, <1>8 DEF Insert, Goto
  <1>14. CASE InsertFails(c)
    BY <1>14, <1>2, <1>3, <1>7, <1>8 DEF InsertFails, Goto
  <1>15. CASE Relookup(c)
    BY <1>15, <1>2, <1>3, <1>6, <1>7, <1>8 DEF Relookup, Goto, Use
  <1>16. CASE Update(c)
    BY <1>16, <1>2, <1>4, <1>7, <1>8 DEF Update, Decided
  <1> QED
    BY <1>9, <1>10, <1>11, <1>12, <1>13, <1>14, <1>15, <1>16 DEF Step

LEMMA DisturbKeepsPc ==
    ASSUME job \in [CPUs -> {Idle} \cup Busy], Disturb
    PROVE  \A c \in CPUs : job'[c].pc = job[c].pc
  BY DEF Disturb, Busy, Idle

(* The tools count nothing and move no packet along. *)
LEMMA ToolsCountNothing ==
    ASSUME TypeOK, NEW t \in Tools, ToolStep(t)
    PROVE  ever' = ever /\ \A c \in CPUs : job'[c].pc = job[c].pc
  <1>1. job \in [CPUs -> {Idle} \cup Busy]
    BY DEF TypeOK
  <1>2. /\ UNCHANGED <<stats, wiped>> \/ \E c \in CPUs : ZeroStat(t, c)
        /\ job' = job \/ Disturb
    BY DEF ToolStep, Allow, Unallow, CheckAllowed, Block, Unblock,
           remove_expired_blocks, clear_blocks, DeleteBlock, set_port_rule,
           del_port_rule, clear_port_rules, DeleteRule, reset_stats, ZeroStat,
           remove_idle_states, clear_states, DeleteState, update_config,
           WriteConfig, Finish, xdpVars, history
  <1>3. ever' = ever
    BY <1>2, EverKept, EverWiped DEF TypeOK
  <1> QED BY <1>1, <1>2, <1>3, DisturbKeepsPc

(* common.h, "Every packet bumps RX_* and exactly one PASS_* or DROP_*       *)
(* counter": on every CPU, up to the packet in flight and with what resets   *)
(* wiped, for any number of CPUs, tools, sources and packets.                *)
THEOREM CountersConserved == Spec => []PacketsConserved
  <1>1. Init => PacketsConserved
    <2> SUFFICES ASSUME Init, NEW c \in CPUs
                 PROVE  Verdicts(ever[c]) + One(job[c].pc # "idle") = ever[c].rx_packets
      BY DEF PacketsConserved
    <2>1. \A n \in StatNames : ever[c][n] = 0
      BY DEF Init, XdpInit, ever
    <2>2. job[c].pc = "idle"
      BY DEF Init, XdpInit, Idle
    <2> QED BY <2>1, <2>2 DEF Verdicts, One, StatNames, Reasons, PassReasons, DropReasons
  <1>2. TypeOK /\ PacketsConserved /\ [Next]_vars => PacketsConserved'
    <2> SUFFICES ASSUME TypeOK, PacketsConserved, [Next]_vars,
                        NEW c \in CPUs
                 PROVE  Verdicts(ever'[c]) + One(job'[c].pc # "idle")
                            = ever'[c].rx_packets
      BY DEF PacketsConserved
    <2> DEFINE Kept == Verdicts(ever'[c]) + One(job'[c].pc # "idle")
                           = ever'[c].rx_packets
    <2>1. /\ stats \in [CPUs -> [StatNames -> Nat]]
          /\ wiped \in [CPUs -> [StatNames -> Nat]]
          /\ ever \in [CPUs -> [StatNames -> Nat]]
          /\ job \in [CPUs -> {Idle} \cup Busy]
      BY EverType DEF TypeOK
    <2>2. Verdicts(ever[c]) + One(job[c].pc # "idle") = ever[c].rx_packets
      BY DEF PacketsConserved
    <2>3. Verdicts(ever[c]) \in Nat
      BY <2>1, VerdictsType
    <2>4. ASSUME ever'[c] = ever[c], job'[c].pc = job[c].pc PROVE Kept
      BY <2>2, <2>4
    <2>5. CASE Tick /\ UNCHANGED task
      BY <2>4, <2>5, EverKept DEF Tick, history
    <2>6. ASSUME NEW d \in CPUs, NEW p \in Packets, Receive(d, p) PROVE Kept
      <3>a. /\ \A n \in StatNames : ever[c][n] = stats[c][n] + wiped[c][n]
            /\ \A n \in StatNames : ever'[c][n] = stats'[c][n] + wiped[c][n]
        BY <2>6 DEF ever, Receive, history
      <3>1. CASE d # c
        <4>1. job'[c] = job[c] /\ stats'[c] = stats[c]
          BY <2>1, <2>6, <3>1 DEF Receive
        <4>2. ever'[c] = ever[c]
          BY <4>1, <2>6 DEF ever, Receive, history
        <4> QED BY <4>1, <4>2, <2>4
      <3>2. CASE d = c
        <4>1. job[c].pc = "idle"
          BY <2>6, <3>2 DEF Receive
        <4>2. job'[c].pc # "idle"
          <5>1. job'[c].pc = IF FrameReason(p) = "continue"
                             THEN AfterFrame(config) ELSE "count"
            BY <2>1, <2>6, <3>2 DEF Receive
          <5> QED BY <5>1, AfterFrameType DEF AfterFrame, AfterAllowlist
        <4>3. \A n \in StatNames \ {"rx_packets", "rx_bytes"} : ever'[c][n] = ever[c][n]
          <5>1. \A n \in StatNames \ {"rx_packets", "rx_bytes"} :
                    stats'[c][n] = stats[c][n]
            BY <2>1, <2>6, <3>2 DEF Receive
          <5> QED BY <5>1, <3>a
        <4>4. ever'[c]["rx_packets"] = ever[c]["rx_packets"] + 1
          <5>1. "rx_packets" \in StatNames
            BY DEF StatNames
          <5>2. stats'[c]["rx_packets"] = stats[c]["rx_packets"] + 1
            BY <2>1, <2>6, <3>2, <5>1 DEF Receive
          <5>3. stats[c]["rx_packets"] \in Nat /\ wiped[c]["rx_packets"] \in Nat
            BY <2>1, <5>1
          <5> QED BY <5>1, <5>2, <5>3, <3>a
        <4>5. Verdicts(ever'[c]) = Verdicts(ever[c])
          BY <4>3 DEF Verdicts, StatNames, Reasons, PassReasons, DropReasons
        <4> QED BY <2>2, <2>3, <4>1, <4>2, <4>4, <4>5 DEF One
      <3> QED BY <3>1, <3>2
    <2>7. ASSUME NEW d \in CPUs, Step(d) PROVE Kept
      <3>1. CASE ~Count(d)
        <4>1. CASE d = c
          BY <2>2, <2>7, <3>1, <4>1, InFlight
        <4>2. CASE d # c
          BY <2>4, <2>7, <3>1, <4>2, InFlight
        <4> QED BY <4>1, <4>2
      <3>a. ASSUME Count(d)
            PROVE  /\ job[d].reason \in Reasons
                   /\ ever' = [ever EXCEPT ![d][job[d].reason] = @ + 1]
                   /\ job' = [job EXCEPT ![d] = Idle]
        <4>1. job[d].reason \in Reasons
          BY <3>a, <2>1, BusyJob DEF Count, Busy
        <4>2. job[d].reason \in StatNames
          BY <4>1 DEF StatNames
        <4>3. stats' = stat_add(d, job[d].reason, 1) /\ UNCHANGED wiped
          BY <3>a DEF Count, history
        <4>4. ever' = [ever EXCEPT ![d][job[d].reason] = @ + 1]
          BY <4>2, <4>3, <2>1, EverAdds
        <4> QED BY <3>a, <4>1, <4>4 DEF Count
      <3>2. CASE Count(d) /\ d # c
        <4>1. job'[c] = job[c] /\ ever'[c] = ever[c]
          BY <2>1, <3>2, <3>a
        <4> QED BY <4>1, <2>4
      <3>3. CASE Count(d) /\ d = c
        <4>1. job[c].pc = "count" /\ job'[c] = Idle
          BY <2>1, <3>3 DEF Count
        <4>2. job[c].reason \in Reasons
          BY <4>1, <2>1, BusyJob DEF Busy
        <4>3. ever'[c] = [ever[c] EXCEPT ![job[c].reason] = @ + 1]
          BY <2>1, <3>3, <3>a
        <4>4. Verdicts(ever'[c]) = Verdicts(ever[c]) + 1
              /\ ever'[c].rx_packets = ever[c].rx_packets
          <5>1. ever[c] \in [StatNames -> Nat]
            BY <2>1
          <5> QED BY <5>1, <4>2, <4>3, Countable
        <4> QED BY <2>2, <2>3, <4>1, <4>4 DEF One, Idle
      <3> QED BY <3>1, <3>2, <3>3
    <2>8. ASSUME NEW t \in Tools, ToolStep(t) PROVE Kept
      BY <2>4, <2>8, ToolsCountNothing
    <2>9. CASE UNCHANGED vars
      BY <2>4, <2>9, EverKept DEF vars, xdpVars
    <2> QED BY <2>5, <2>6, <2>7, <2>8, <2>9 DEF Next
  <1> QED BY <1>1, <1>2, TypeCorrect, PTL DEF Spec
=============================================================================
