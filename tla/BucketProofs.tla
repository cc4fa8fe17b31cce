---------------------------- MODULE BucketProofs ----------------------------
(***************************************************************************)
(* The token bucket for any number of CPUs, tools, sources and settings:   *)
(* BucketsSound is inductive, and it implies both the upper bound          *)
(* (RateContract) and the lower bound (FairShare) on what a source gets;   *)
(* the ledgers balance, and no packet passes the limiter unaccounted.  The *)
(* bucket implements RateLimiter, which limits every window of its life.   *)
(***************************************************************************)
EXTENDS FirewallProofs

(* One refill of a sound bucket, before a token is taken from it. *)
LEMMA RefillBalance ==
    ASSUME NEW e \in SrcState, NEW l \in Ledger, NEW now \in Nat, NEW clk \in Nat,
           NEW rate \in MinRate .. MaxRate, NEW burst \in 1 .. MaxBurst,
           l.born <= e.last_refill_ns, e.last_refill_ns <= clk, now <= clk,
           e.tokens <= MaxBurst,
           (e.tokens + l.spent + l.lost - l.start) * Period <= e.last_refill_ns - l.born,
           MinRate * (e.last_refill_ns - l.born - l.idle)
               <= NSEC_PER_SEC * (e.tokens + l.spent + l.lost - l.start)
    PROVE  LET add     == Earned(Elapsed(e.last_refill_ns, now), rate)
               moved   == Refilled(e.last_refill_ns, now, rate)
               skipped == Skipped(Elapsed(e.last_refill_ns, now))
               topped  == Topped(e.tokens, add, burst)
               credit  == e.tokens + l.spent + l.lost - l.start + add
           IN  /\ add \in Nat /\ skipped \in Nat /\ moved \in Nat
               /\ l.born <= moved /\ moved <= clk
               /\ topped \in 0 .. MaxBurst
               /\ credit * Period <= moved - l.born
               /\ MinRate * (moved - l.born - (l.idle + skipped)) <= NSEC_PER_SEC * credit
               /\ topped = 0 =>
                     /\ add = 0 /\ e.tokens = 0
                     /\ MinRate * (now - l.born - (l.idle + skipped))
                            < NSEC_PER_SEC * (l.spent + l.lost - l.start + 1)
  <1> DEFINE born == l.born   start == l.start   spent == l.spent   lost == l.lost
             idle == l.idle   tokens == e.tokens   last == e.last_refill_ns
             add     == Earned(Elapsed(last, now), rate)
             moment  == Refilled(last, now, rate)
             moved   == moment - last
             skipped == Skipped(Elapsed(last, now))
             topped  == Topped(tokens, add, burst)
             elapsed == Elapsed(last, now)
             credit  == tokens + spent + lost - start
  <1>1. /\ MinRate \in Nat \ {0} /\ MaxRate \in Nat /\ MaxBurst \in Nat
        /\ rate \in Nat /\ MinRate <= rate
        /\ NSEC_PER_SEC \in Nat \ {0} /\ WORD \in Nat \ {0}
        /\ MaxBurst + MaxRate < WORD
        /\ Period \in Nat
    BY DataplaneAssumption, BucketAssumption, PeriodFacts
  <1>a. /\ born \in Nat /\ start \in Nat /\ spent \in Nat /\ lost \in Nat
        /\ idle \in Nat /\ tokens \in Nat /\ last \in Nat
    BY DEF SrcState, Ledger
  <1>b. /\ born <= last /\ last <= clk /\ tokens <= MaxBurst
        /\ credit * Period <= last - born
        /\ MinRate * (last - born - idle) <= NSEC_PER_SEC * credit
    OBVIOUS
  <1> HIDE DEF born, start, spent, lost, idle, tokens, last
  <1>c. add \in Nat /\ topped \in Nat /\ skipped \in Nat /\ moment \in Nat
    <2>1. rate > 0 /\ burst \in Nat
      BY <1>1
    <2> QED BY <2>1, <1>1, <1>a, RefillType
  <1>2. elapsed \in Nat /\ last + elapsed <= clk /\ now - last <= elapsed
    BY <1>a, <1>b DEF Elapsed
  <1>3. /\ add \in 0 .. rate /\ moved \in 0 .. elapsed
        /\ add * Period <= moved
        /\ MinRate * (moved - skipped) <= add * NSEC_PER_SEC
        /\ add = 0 => elapsed * rate < NSEC_PER_SEC /\ moved = 0 /\ skipped = 0
    BY <1>a, RefillBounds
  <1> HIDE DEF add, moment, skipped, elapsed
  <1>4. tokens + add \in Nat /\ tokens + add < WORD
    BY <1>1, <1>3, <1>a, <1>b
  <1>5. topped = IF tokens + add > burst THEN burst ELSE tokens + add
    BY <1>1, <1>4, ModFacts DEF Topped
  <1> HIDE DEF topped
  <1>6. (credit + add) * Period <= moment - born
    <2>1. (credit + add) * Period = credit * Period + add * Period
      BY <1>a, <1>1, <1>3
    <2> QED BY <2>1, <1>a, <1>b, <1>c, <1>1, <1>3
  <1>7. MinRate * (moment - born - (idle + skipped)) <= NSEC_PER_SEC * (credit + add)
    <2>1. MinRate * (moment - born - (idle + skipped))
            = MinRate * (last - born - idle) + MinRate * (moved - skipped)
      BY <1>a, <1>c, <1>1, <1>3
    <2>2. NSEC_PER_SEC * (credit + add) = NSEC_PER_SEC * credit + add * NSEC_PER_SEC
      BY <1>a, <1>1, <1>3
    <2> QED BY <2>1, <2>2, <1>a, <1>b, <1>c, <1>1, <1>3
  <1>8. ASSUME topped = 0
        PROVE  /\ add = 0 /\ tokens = 0
               /\ MinRate * (now - born - (idle + skipped))
                      < NSEC_PER_SEC * (spent + lost - start + 1)
    <2>1. tokens = 0 /\ add = 0 /\ moved = 0 /\ skipped = 0
          /\ elapsed * rate < NSEC_PER_SEC
      BY <1>a, <1>1, <1>3, <1>5, <1>8
    <2>2. MinRate * elapsed <= rate * elapsed
      BY <1>1, <1>2, ProductMonotone
    <2>3. MinRate * (now - last) <= MinRate * elapsed
      BY <1>a, <1>1, <1>2
    <2>4. MinRate * (now - last) < NSEC_PER_SEC
      BY <2>1, <2>2, <2>3, <1>a, <1>1, <1>2
    <2>5. MinRate * (now - born - (idle + skipped))
            = MinRate * (last - born - idle) + MinRate * (now - last)
      BY <2>1, <1>a, <1>1
    <2>6. NSEC_PER_SEC * (spent + lost - start + 1) = NSEC_PER_SEC * credit + NSEC_PER_SEC
      BY <2>1, <1>a, <1>1
    <2> QED BY <2>1, <2>4, <2>5, <2>6, <1>a, <1>b, <1>1
  <1>9. topped \in 0 .. MaxBurst
    BY <1>a, <1>1, <1>3, <1>5
  <1>10. born <= moment /\ moment <= clk
    BY <1>a, <1>b, <1>c, <1>1, <1>2, <1>3
  <1> QED BY <1>c, <1>6, <1>7, <1>8, <1>9, <1>10
             DEF born, start, spent, lost, idle, tokens, last, add, skipped, elapsed,
                 topped, moment

(* A bucket that is not updated stays sound as time passes. *)
LEMMA BucketKept ==
    ASSUME TypeOK, clock' \in Nat, clock <= clock', NEW s \in Slots, BucketSound(s),
           srcstate'[s].tokens = srcstate[s].tokens,
           srcstate'[s].last_refill_ns = srcstate[s].last_refill_ns,
           ledger'[s] = ledger[s]
    PROVE  BucketSound(s)'
  <1>1. srcstate[s] \in SrcState /\ clock \in Nat
    BY DEF TypeOK
  <1>2. srcstate[s].last_refill_ns \in Nat
    BY <1>1 DEF SrcState
  <1> QED BY <1>1, <1>2 DEF BucketSound, Credited

(* What BucketsSound says of a CPU. *)
JobSound(c) == job[c].pc # "idle" => /\ job[c].now <= clock
                                     /\ job[c].pc = "update" => job[c].st \in Slots

LEMMA SoundParts ==
    BucketsSound <=> (\A s \in Slots : BucketSound(s)) /\ (\A c \in CPUs : JobSound(c))
  BY DEF BucketsSound, JobSound

(* The critical section, seen from the bucket it holds. *)
LEMMA UpdateBucket ==
    ASSUME TypeOK, BucketsSound, NEW c \in CPUs, Update(c),
           NEW s \in Slots, s = job[c].st
    PROVE  /\ BucketSound(s)'
           /\ job'[c].pc = "count"
           /\ job[c].reason \in PassReasons /\ job'[c].reason \in DropReasons =>
                 LET l == ledger'[s]
                 IN  MinRate * (job[c].now - l.born - l.idle)
                        < NSEC_PER_SEC * (l.spent + l.lost - l.start + 1)
  <1> DEFINE j       == job[c]
             e       == srcstate[s]
             l       == ledger[s]
             rate    == j.cfg.rate_pps
             burst   == j.cfg.burst_pkts
             add     == Earned(Elapsed(e.last_refill_ns, j.now), rate)
             topped  == Topped(e.tokens, add, burst)
             moved   == Refilled(e.last_refill_ns, j.now, rate)
             skipped == Skipped(Elapsed(e.last_refill_ns, j.now))
             credit  == e.tokens + l.spent + l.lost - l.start + add
             tokens  == IF ~Limited(j) THEN e.tokens
                        ELSE IF topped > 0 THEN topped - 1 ELSE 0
             last    == IF Limited(j) THEN moved ELSE e.last_refill_ns
             reason  == IF Limited(j) /\ topped = 0 THEN "drop_ratelimit" ELSE j.reason
             Fair    == LET m == ledger'[s]
                        IN  MinRate * (j.now - m.born - m.idle)
                               < NSEC_PER_SEC * (m.spent + m.lost - m.start + 1)
  <1>1. /\ clock \in Nat /\ j \in Busy /\ j.now <= clock
        /\ e \in SrcState /\ l \in Ledger /\ clock' = clock
        /\ job \in [CPUs -> {Idle} \cup Busy]
        /\ srcstate \in [Slots -> SrcState] /\ ledger \in [Slots -> Ledger]
    BY BusyJob DEF TypeOK, BucketsSound, Update
  <1>2. j.now \in Nat /\ j.cfg \in ConfigType
    BY <1>1 DEF Busy
  <1>3. rate \in {0} \cup MinRate .. MaxRate /\ burst \in 1 .. MaxBurst
    BY <1>2 DEF ConfigType
  <1>4. /\ e.tokens \in Nat /\ e.last_refill_ns \in Nat
        /\ l.born \in Nat /\ l.start \in Nat /\ l.spent \in Nat /\ l.lost \in Nat
        /\ l.idle \in Nat
    BY <1>1 DEF SrcState, Ledger
  <1>5. srcstate'[s].tokens = tokens /\ srcstate'[s].last_refill_ns = last
    BY <1>1 DEF Update
  <1>6. job'[c].pc = "count" /\ job'[c].reason = reason
    <2>1. job' = [job EXCEPT ![c].pc = "count", ![c].reason = reason]
      BY DEF Update, Decided
    <2> HIDE DEF reason
    <2> QED BY <2>1, <1>1 DEF Busy
  <1>7. /\ Limited(j) => ledger'[s] =
              [born |-> l.born, start |-> l.start, spent |-> l.spent + One(topped > 0),
               lost |-> l.lost + (e.tokens + add - topped), idle |-> l.idle + skipped]
        /\ ~Limited(j) => ledger'[s] = l
    BY <1>1 DEF Update
  <1>8. BucketSound(s)
    BY DEF BucketsSound
  <1>9. CASE ~Limited(j)
    <2>1. BucketSound(s)'
      BY <1>1, <1>5, <1>7, <1>8, <1>9, BucketKept
    <2>2. reason = j.reason
      BY <1>9
    <2>3. ~(j.reason \in PassReasons /\ reason \in DropReasons)
      BY <2>2 DEF PassReasons, DropReasons
    <2> HIDE DEF reason
    <2> QED BY <2>1, <2>3, <1>6
  <1>10. CASE Limited(j)
    <2>1. rate \in MinRate .. MaxRate
      BY <1>3, <1>10 DEF Limited
    <2>2. /\ l.born <= e.last_refill_ns /\ e.last_refill_ns <= clock
          /\ e.tokens <= MaxBurst /\ l.start <= MaxBurst
          /\ (e.tokens + l.spent + l.lost - l.start) * Period
                <= e.last_refill_ns - l.born
          /\ MinRate * (e.last_refill_ns - l.born - l.idle)
                <= NSEC_PER_SEC * (e.tokens + l.spent + l.lost - l.start)
      BY <1>8 DEF BucketSound, Credited
    <2>3. /\ add \in Nat /\ skipped \in Nat /\ moved \in Nat
          /\ l.born <= moved /\ moved <= clock
          /\ topped \in 0 .. MaxBurst
          /\ credit * Period <= moved - l.born
          /\ MinRate * (moved - l.born - (l.idle + skipped)) <= NSEC_PER_SEC * credit
          /\ topped = 0 =>
                /\ add = 0 /\ e.tokens = 0
                /\ MinRate * (j.now - l.born - (l.idle + skipped))
                       < NSEC_PER_SEC * (l.spent + l.lost - l.start + 1)
      <3> HIDE DEF e, l, j, rate, burst
      <3> QED BY <1>1, <1>2, <1>3, <2>1, <2>2, RefillBalance
    <2>4. last = moved /\ tokens = IF topped > 0 THEN topped - 1 ELSE 0
      BY <1>10
    <2>5. /\ ledger'[s].born = l.born /\ ledger'[s].start = l.start
          /\ ledger'[s].spent = l.spent + One(topped > 0)
          /\ ledger'[s].lost = l.lost + (e.tokens + add - topped)
          /\ ledger'[s].idle = l.idle + skipped
      BY <1>7, <1>10
    <2> HIDE DEF add, topped, moved, skipped, tokens, last, rate, burst, e, l
    <2>6. Credited(s)' = credit
      BY <1>4, <1>5, <2>3, <2>4, <2>5 DEF One, Credited
    <2>7. BucketSound(s)'
      <3> HIDE DEF credit
      <3>1. srcstate'[s].tokens <= MaxBurst /\ ledger'[s].start <= MaxBurst
        BY <1>5, <2>2, <2>3, <2>4, <2>5, DataplaneAssumption
      <3>2. /\ ledger'[s].born <= srcstate'[s].last_refill_ns
            /\ srcstate'[s].last_refill_ns <= clock'
        BY <1>1, <1>5, <2>3, <2>4, <2>5
      <3>3. Credited(s)' * Period <= srcstate'[s].last_refill_ns - ledger'[s].born
        BY <1>5, <2>3, <2>4, <2>5, <2>6
      <3>4. MinRate * (srcstate'[s].last_refill_ns - ledger'[s].born - ledger'[s].idle)
              <= NSEC_PER_SEC * Credited(s)'
        BY <1>5, <2>3, <2>4, <2>5, <2>6
      <3> QED BY <3>1, <3>2, <3>3, <3>4 DEF BucketSound
    <2>8. j.reason \in PassReasons /\ reason \in DropReasons => Fair
      <3>1. j.reason \in PassReasons /\ reason \in DropReasons => topped = 0
        BY DEF PassReasons, DropReasons
      <3>2. ASSUME topped = 0 PROVE Fair
        <4>1. /\ ledger'[s].spent = l.spent /\ ledger'[s].lost = l.lost
              /\ ledger'[s].start = l.start /\ ledger'[s].born = l.born
              /\ ledger'[s].idle = l.idle + skipped
          BY <3>2, <2>3, <2>5, <1>4 DEF One
        <4> QED BY <4>1, <3>2, <2>3
      <3> QED BY <3>1, <3>2
    <2> QED BY <2>7, <2>8, <1>6
  <1> QED BY <1>9, <1>10

(* A CPU's job after one of its own steps: the arrival time stays, and only  *)
(* a successful lookup leads to the critical section.                        *)
LEMMA StepJobSound ==
    ASSUME TypeOK, BucketsSound, NEW c \in CPUs, Step(c)
    PROVE  \A d \in CPUs : JobSound(d)'
  <1>1. job \in [CPUs -> {Idle} \cup Busy] /\ \A d \in CPUs : JobSound(d)
    BY SoundParts DEF TypeOK
  <1>2. job[c].pc # "idle" /\ clock' = clock
    BY DEF Step, Count, CheckAllowlist, CheckBlocklist, Filter, Lookup, Insert,
           InsertFails, Relookup, Update
  <1>3. job[c] \in Busy /\ job[c].now <= clock
    BY <1>1, <1>2, BusyJob DEF JobSound
  <1>4. ASSUME NEW pc, pc # "update", job' = [job EXCEPT ![c].pc = pc]
        PROVE  \A d \in CPUs : JobSound(d)'
    <2>1. job'[c].now = job[c].now /\ job'[c].pc = pc
      BY <1>1, <1>3, <1>4 DEF Busy
    <2>2. \A d \in CPUs : d # c => job'[d] = job[d]
      BY <1>1, <1>4
    <2> QED BY <1>1, <1>2, <1>3, <1>4, <2>1, <2>2 DEF JobSound
  <1>5. ASSUME NEW pc, pc # "update", NEW r,
               \/ job' = [job EXCEPT ![c].pc = pc, ![c].reason = r]
               \/ job' = [job EXCEPT ![c].reason = r, ![c].pc = pc]
        PROVE  \A d \in CPUs : JobSound(d)'
    <2>1. job'[c].now = job[c].now /\ job'[c].pc = pc
      BY <1>1, <1>3, <1>5 DEF Busy
    <2>2. \A d \in CPUs : d # c => job'[d] = job[d]
      BY <1>1, <1>5
    <2> QED BY <1>1, <1>2, <1>3, <1>5, <2>1, <2>2 DEF JobSound
  <1>6. ASSUME NEW s \in Slots, Use(c, s) PROVE \A d \in CPUs : JobSound(d)'
    <2>1. job'[c].now = job[c].now /\ job'[c].st = s
      BY <1>1, <1>3, <1>6 DEF Busy, Use
    <2>2. \A d \in CPUs : d # c => job'[d] = job[d]
      BY <1>1, <1>6 DEF Use
    <2> QED BY <1>1, <1>2, <1>3, <2>1, <2>2 DEF JobSound
  <1>7. \A cfg : AfterAllowlist(cfg) # "update"
    BY DEF AfterAllowlist
  <1>8. CASE CheckAllowlist(c)
    BY <1>8, <1>4, <1>5, <1>7 DEF CheckAllowlist, Decided, Goto
  <1>9. CASE CheckBlocklist(c)
    BY <1>9, <1>4, <1>5 DEF CheckBlocklist, Decided, Goto
  <1>10. CASE Filter(c)
    BY <1>10, <1>5 DEF Filter
  <1>11. CASE Lookup(c)
    BY <1>11, <1>4, <1>6, SlotOfType DEF Lookup, Goto
  <1>12. CASE Insert(c)
    BY <1>12, <1>4 DEF Insert, Goto
  <1>13. CASE InsertFails(c)
    BY <1>13, <1>4 DEF InsertFails, Goto
  <1>14. CASE Relookup(c)
    BY <1>14, <1>4, <1>6, SlotOfType DEF Relookup, Goto
  <1>15. CASE Update(c)
    BY <1>15, <1>5 DEF Update, Decided
  <1>16. CASE Count(c)
    <2>1. job'[c].pc = "idle" /\ \A d \in CPUs : d # c => job'[d] = job[d]
      BY <1>16, <1>1 DEF Count, Idle
    <2> QED BY <1>1, <1>2, <2>1 DEF JobSound
  <1> QED BY <1>8, <1>9, <1>10, <1>11, <1>12, <1>13, <1>14, <1>15, <1>16 DEF Step

(* The buckets after a step of a CPU. *)
LEMMA StepBucketsSound ==
    ASSUME TypeOK, BucketsSound, NEW c \in CPUs, Step(c), NEW s \in Slots
    PROVE  BucketSound(s)'
  <1>1. /\ srcstate \in [Slots -> SrcState] /\ ledger \in [Slots -> Ledger]
        /\ job \in [CPUs -> {Idle} \cup Busy] /\ clock \in Nat
        /\ BucketSound(s) /\ JobSound(c)
    BY SoundParts DEF TypeOK
  <1>2. clock' = clock
    BY DEF Step, Count, CheckAllowlist, CheckBlocklist, Filter, Lookup, Insert,
           InsertFails, Relookup, Update
  <1>3. ASSUME srcstate'[s] = srcstate[s], ledger'[s] = ledger[s] PROVE BucketSound(s)'
    BY <1>1, <1>2, <1>3, BucketKept
  <1>4. CASE Insert(c)
    <2>1. PICK n \in Slots :
             /\ srcstate' = [srcstate EXCEPT ![n] =
                   NewState(job[c].pkt.saddr, job[c].cfg.burst_pkts, job[c].now)]
             /\ ledger' = [ledger EXCEPT ![n] =
                   NewLedger(job[c].cfg.burst_pkts, job[c].now)]
      BY <1>4, SlotOfType DEF Insert
    <2>2. CASE n # s
      BY <1>1, <1>3, <2>1, <2>2
    <2>3. CASE n = s
      <3>1. job[c].pc # "idle"
        BY <1>4 DEF Insert
      <3>2. job[c] \in Busy /\ job[c].now <= clock
        BY <1>1, <3>1, BusyJob DEF JobSound
      <3>3. job[c].now \in Nat /\ job[c].cfg \in ConfigType
        BY <3>2 DEF Busy
      <3>4. job[c].cfg.burst_pkts \in 1 .. MaxBurst
        BY <3>3 DEF ConfigType
      <3> DEFINE now == job[c].now   burst == job[c].cfg.burst_pkts
      <3>5. /\ srcstate'[s].tokens = burst /\ srcstate'[s].last_refill_ns = now
            /\ ledger'[s].born = now /\ ledger'[s].start = burst
            /\ ledger'[s].spent = 0 /\ ledger'[s].lost = 0 /\ ledger'[s].idle = 0
        BY <1>1, <2>1, <2>3 DEF NewState, NewLedger
      <3> HIDE DEF now, burst
      <3>6. Credited(s)' = 0
        BY <3>4, <3>5 DEF Credited, burst
      <3>7. Credited(s)' * Period = 0 /\ NSEC_PER_SEC * Credited(s)' = 0
        BY <3>6, PeriodFacts, BucketAssumption
      <3>8. MinRate * (srcstate'[s].last_refill_ns - ledger'[s].born - ledger'[s].idle) = 0
        BY <3>3, <3>5, DataplaneAssumption DEF now
      <3> QED BY <1>2, <3>2, <3>3, <3>4, <3>5, <3>7, <3>8 DEF BucketSound, now, burst
    <2> QED BY <2>2, <2>3
  <1>5. CASE Update(c)
    <2>1. CASE s = job[c].st
      BY <1>5, <2>1, UpdateBucket
    <2>2. CASE s # job[c].st
      <3>1. srcstate'[s] = srcstate[s] /\ ledger'[s] = ledger[s]
        BY <1>1, <1>5, <2>2 DEF Update
      <3> QED BY <1>3, <3>1
    <2> QED BY <2>1, <2>2
  <1>6. CASE ~Insert(c) /\ ~Update(c)
    <2>1. srcstate' = srcstate /\ ledger' = ledger
      BY <1>6 DEF Step, Count, CheckAllowlist, CheckBlocklist, Filter, Lookup,
                  InsertFails, Relookup, history
    <2> QED BY <1>3, <2>1
  <1> QED BY <1>4, <1>5, <1>6

(* The tools touch a bucket only to delete its entry. *)
LEMMA ToolsKeepBuckets ==
    ASSUME TypeOK, NEW t \in Tools, ToolStep(t)
    PROVE  /\ clock' = clock /\ ledger' = ledger
           /\ \A s \in Slots :
                 /\ srcstate'[s].tokens = srcstate[s].tokens
                 /\ srcstate'[s].last_refill_ns = srcstate[s].last_refill_ns
                 /\ srcstate'[s].last_seen_ns = srcstate[s].last_seen_ns
           /\ \A c \in CPUs : job'[c] = job[c] \/ job'[c] = [job[c] EXCEPT !.quiet = FALSE]
  <1>1. srcstate \in [Slots -> SrcState] /\ job \in [CPUs -> {Idle} \cup Busy]
    BY DEF TypeOK
  <1>2. clock' = clock /\ ledger' = ledger /\ (job' = job \/ Disturb)
    BY DEF ToolStep, Allow, Unallow, CheckAllowed, Block, Unblock,
           remove_expired_blocks, clear_blocks, DeleteBlock, set_port_rule,
           del_port_rule, clear_port_rules, DeleteRule, reset_stats, ZeroStat, remove_idle_states,
           clear_states, DeleteState, update_config, WriteConfig, Finish, xdpVars,
           history
  <1>3. \/ srcstate' = srcstate
        \/ \E a \in Addresses : DeleteState(t, a)
    BY DEF ToolStep, Allow, Unallow, CheckAllowed, Block, Unblock,
           remove_expired_blocks, clear_blocks, DeleteBlock, set_port_rule,
           del_port_rule, clear_port_rules, DeleteRule, reset_stats, ZeroStat, remove_idle_states,
           clear_states, update_config, WriteConfig, Finish, xdpVars
  <1>4. ASSUME NEW a \in Addresses, DeleteState(t, a), NEW s \in Slots
        PROVE  /\ srcstate'[s].tokens = srcstate[s].tokens
               /\ srcstate'[s].last_refill_ns = srcstate[s].last_refill_ns
               /\ srcstate'[s].last_seen_ns = srcstate[s].last_seen_ns
    BY <1>1, <1>4 DEF DeleteState, SrcState
  <1>5. ASSUME Disturb, NEW c \in CPUs
        PROVE  job'[c] = job[c] \/ job'[c] = [job[c] EXCEPT !.quiet = FALSE]
    BY <1>5 DEF Disturb
  <1> QED BY <1>2, <1>3, <1>4, <1>5

(* The inductive invariant of the token bucket. *)
THEOREM BucketsStaySound == Spec => []BucketsSound
  <1>1. Init => BucketsSound
    <2> SUFFICES ASSUME Init PROVE BucketsSound
      OBVIOUS
    <2>1. ASSUME NEW s \in Slots PROVE BucketSound(s)
      <3>1. /\ srcstate[s].tokens = 0 /\ srcstate[s].last_refill_ns = 0
            /\ ledger[s].born = 0 /\ ledger[s].start = 0 /\ ledger[s].spent = 0
            /\ ledger[s].lost = 0 /\ ledger[s].idle = 0 /\ clock = 0
        BY DEF Init, XdpInit, NewState, NewLedger
      <3>2. 0 * Period = 0 /\ MinRate * 0 = 0 /\ NSEC_PER_SEC * 0 = 0 /\ MaxBurst >= 0
        BY PeriodFacts, DataplaneAssumption, BucketAssumption
      <3> QED BY <3>1, <3>2 DEF BucketSound, Credited
    <2>2. \A c \in CPUs : JobSound(c)
      BY DEF Init, XdpInit, JobSound, Idle
    <2> QED BY <2>1, <2>2, SoundParts
  <1>2. TypeOK /\ BucketsSound /\ [Next]_vars => BucketsSound'
    <2> SUFFICES ASSUME TypeOK, BucketsSound, [Next]_vars
                 PROVE  BucketsSound'
      OBVIOUS
    <2>1. SUFFICES /\ \A s \in Slots : BucketSound(s)'
                   /\ \A c \in CPUs : JobSound(c)'
      BY DEF BucketsSound, JobSound
    <2>2. /\ \A s \in Slots : BucketSound(s)
          /\ \A c \in CPUs : JobSound(c)
          /\ clock \in Nat /\ job \in [CPUs -> {Idle} \cup Busy]
      BY SoundParts DEF TypeOK
    <2>3. ASSUME clock' \in Nat, clock <= clock', srcstate' = srcstate, ledger' = ledger
          PROVE  \A s \in Slots : BucketSound(s)'
      BY <2>2, <2>3, BucketKept
    <2>4. CASE Tick /\ UNCHANGED task
      <3>1. clock' = clock + 1 /\ srcstate' = srcstate /\ ledger' = ledger /\ job' = job
        BY <2>4 DEF Tick, history
      <3>2. ASSUME NEW c \in CPUs PROVE JobSound(c)'
        <4>1. job[c].pc # "idle" => job[c].now \in Nat
          BY <2>2, BusyJob DEF Busy
        <4> QED BY <2>2, <3>1, <4>1 DEF JobSound
      <3> QED BY <2>2, <2>3, <3>1, <3>2
    <2>5. ASSUME NEW c \in CPUs, NEW p \in Packets, Receive(c, p)
          PROVE  /\ \A s \in Slots : BucketSound(s)'
                 /\ \A d \in CPUs : JobSound(d)'
      <3>1. clock' = clock /\ srcstate' = srcstate /\ ledger' = ledger
        BY <2>5 DEF Receive, history
      <3>2. job'[c].now = clock
            /\ job'[c].pc = IF FrameReason(p) = "continue" THEN AfterFrame(config)
                                                           ELSE "count"
        BY <2>2, <2>5 DEF Receive
      <3>3. job'[c].pc # "update"
        BY <3>2 DEF AfterFrame, AfterAllowlist
      <3>4. \A d \in CPUs : d # c => job'[d] = job[d]
        BY <2>2, <2>5 DEF Receive
      <3>5. \A d \in CPUs : JobSound(d)'
        BY <2>2, <3>1, <3>2, <3>3, <3>4 DEF JobSound
      <3> QED BY <2>2, <2>3, <3>1, <3>5
    <2>6. ASSUME NEW c \in CPUs, Step(c)
          PROVE  /\ \A s \in Slots : BucketSound(s)'
                 /\ \A d \in CPUs : JobSound(d)'
      BY <2>6, StepBucketsSound, StepJobSound
    <2>7. ASSUME NEW t \in Tools, ToolStep(t)
          PROVE  /\ \A s \in Slots : BucketSound(s)'
                 /\ \A d \in CPUs : JobSound(d)'
      <3>1. \A s \in Slots : BucketSound(s)'
        BY <2>2, <2>7, ToolsKeepBuckets, BucketKept
      <3>2. ASSUME NEW d \in CPUs PROVE JobSound(d)'
        <4>1. CASE job'[d] = job[d]
          BY <4>1, <2>2, <2>7, ToolsKeepBuckets DEF JobSound
        <4>2. CASE job'[d] = [job[d] EXCEPT !.quiet = FALSE]
          <5>1. job[d].pc # "idle" => /\ job'[d].pc = job[d].pc /\ job'[d].st = job[d].st
                                      /\ job'[d].now = job[d].now
            BY <4>2, <2>2, BusyJob DEF Busy
          <5>2. job[d].pc = "idle" => job'[d].pc = "idle"
            BY <4>2, <2>2 DEF Busy, Idle
          <5> QED BY <5>1, <5>2, <2>2, <2>7, ToolsKeepBuckets DEF JobSound
        <4> QED BY <2>7, <4>1, <4>2, ToolsKeepBuckets
      <3> QED BY <3>1, <3>2
    <2>8. CASE UNCHANGED vars
      <3>1. clock' = clock /\ srcstate' = srcstate /\ ledger' = ledger /\ job' = job
        BY <2>8 DEF vars, xdpVars
      <3>2. \A c \in CPUs : JobSound(c)'
        BY <2>2, <3>1 DEF JobSound
      <3> QED BY <2>2, <2>3, <3>1, <3>2
    <2> QED BY <2>4, <2>5, <2>6, <2>7, <2>8 DEF Next
  <1> QED BY <1>1, <1>2, TypeCorrect, PTL DEF Spec

(* The rate limit: no bucket ever lets more than MaxBurst packets through    *)
(* beyond one per token period since it was created.                         *)
THEOREM RateLimitHolds == Spec => []RateContract
  <1>1. TypeOK /\ BucketsSound => RateContract
    <2> SUFFICES ASSUME TypeOK, BucketsSound, NEW s \in Slots
                 PROVE  ledger[s].spent <= MaxBurst + (clock - ledger[s].born) \div Period
      BY DEF RateContract
    <2> DEFINE e == srcstate[s]   l == ledger[s]
               credit == e.tokens + l.spent + l.lost - l.start
               age == clock - l.born
    <2>1. /\ e.tokens \in Nat /\ e.last_refill_ns \in Nat /\ l.born \in Nat
          /\ l.start \in Nat /\ l.spent \in Nat /\ l.lost \in Nat /\ clock \in Nat
      BY DEF TypeOK, SrcState, Ledger
    <2>2. /\ l.born <= e.last_refill_ns /\ e.last_refill_ns <= clock
          /\ l.start <= MaxBurst /\ credit * Period <= e.last_refill_ns - l.born
      BY DEF BucketsSound, BucketSound, Credited
    <2>3. Period \in Nat \ {0} /\ MaxBurst \in Nat
      BY PeriodFacts, DataplaneAssumption
    <2>4. age \in Nat /\ credit * Period <= age /\ credit \in Int
      BY <2>1, <2>2, <2>3
    <2>5. age \div Period \in Nat
      BY <2>3, <2>4, DivBounds
    <2>6. l.spent <= MaxBurst + credit
      BY <2>1, <2>2, <2>3
    <2> HIDE DEF e, l, credit, age
    <2>7. credit >= 0 => credit <= age \div Period
      BY <2>3, <2>4, DivAtLeast
    <2>8. l.spent <= MaxBurst + age \div Period
      BY <2>1, <2>3, <2>4, <2>5, <2>6, <2>7
    <2> QED BY <2>8 DEF l, age
  <1> QED BY <1>1, TypeCorrect, BucketsStaySound, PTL

(* A packet is rate limited only when the time since the bucket was created, *)
(* save idle stretches, has been turned into tokens, short of one token.     *)
THEOREM ShareIsFair == Spec => FairShare
  <1>1. TypeOK /\ BucketsSound /\ [Next]_vars => [FairShareStep]_vars
    <2> SUFFICES ASSUME TypeOK, BucketsSound, Next, NEW c \in CPUs,
                        job[c].pc = "update", job'[c].pc = "count",
                        job[c].reason \in PassReasons, job'[c].reason \in DropReasons
                 PROVE  LET l == ledger'[job[c].st]
                        IN  MinRate * (job[c].now - l.born - l.idle)
                               < NSEC_PER_SEC * (l.spent + l.lost - l.start + 1)
      BY DEF FairShareStep
    <2>1. /\ job \in [CPUs -> {Idle} \cup Busy] /\ job[c].st \in Slots
      BY DEF TypeOK, BucketsSound
    <2>2. ASSUME NEW d \in CPUs, NEW p \in Packets, Receive(d, p) PROVE FALSE
      BY <2>1, <2>2 DEF Receive
    <2>3. ASSUME NEW d \in CPUs, Step(d) PROVE Update(c)
      <3>1. CASE d = c
        BY <2>3, <3>1 DEF Step, Count, CheckAllowlist, CheckBlocklist, Filter, Lookup,
                          Insert, InsertFails, Relookup
      <3>2. CASE d # c
        <4>1. CASE Count(d)
          BY <2>1, <3>2, <4>1 DEF Count
        <4>2. CASE ~Count(d)
          BY <2>3, <3>2, <4>2, InFlight
        <4> QED BY <4>1, <4>2
      <3> QED BY <3>1, <3>2
    <2>4. ASSUME NEW t \in Tools, ToolStep(t) PROVE FALSE
      BY <2>4, ToolsCountNothing
    <2>5. Tick => FALSE
      BY DEF Tick
    <2>6. Update(c)
      BY <2>2, <2>3, <2>4, <2>5 DEF Next
    <2> QED BY <2>1, <2>6, UpdateBucket
  <1> QED BY <1>1, TypeCorrect, BucketsStaySound, PTL DEF Spec, FairShare

(* The counters the detector divides by one another: in every element of     *)
(* srcstate the packets dropped and the packets that took a token are        *)
(* together no more than the packets counted, whichever source the element   *)
(* belongs to and however stale the pointer of the CPU that charges it.      *)
THEOREM LedgersBalance == Spec => []LedgerBalanced
  <1> DEFINE Fits(s) == ledger[s].spent + srcstate[s].dropped <= srcstate[s].packets
  <1>1. Init => LedgerBalanced
    BY DEF Init, XdpInit, NewState, NewLedger, LedgerBalanced
  <1>2. TypeOK /\ BucketsSound /\ LedgerBalanced /\ [Next]_vars => LedgerBalanced'
    <2> SUFFICES ASSUME TypeOK, BucketsSound, LedgerBalanced, [Next]_vars,
                        NEW s \in Slots
                 PROVE  Fits(s)'
      BY DEF LedgerBalanced
    <2>1. /\ Fits(s)
          /\ job \in [CPUs -> {Idle} \cup Busy]
          /\ srcstate \in [Slots -> SrcState] /\ ledger \in [Slots -> Ledger]
      BY DEF LedgerBalanced, TypeOK
    <2>2. ASSUME ledger'[s] = ledger[s], srcstate'[s].dropped = srcstate[s].dropped,
                 srcstate'[s].packets = srcstate[s].packets
          PROVE  Fits(s)'
      BY <2>1, <2>2
    <2>3. ASSUME NEW c \in CPUs, Insert(c) PROVE Fits(s)'
      <3>1. PICK k \in SlotOf(Free) :
              /\ srcstate' = [srcstate EXCEPT ![k] =
                     NewState(job[c].pkt.saddr, job[c].cfg.burst_pkts, job[c].now)]
              /\ ledger' = [ledger EXCEPT ![k] = NewLedger(job[c].cfg.burst_pkts, job[c].now)]
        BY <2>3 DEF Insert
      <3>2. CASE s = k
        <4>1. /\ srcstate'[s] = NewState(job[c].pkt.saddr, job[c].cfg.burst_pkts, job[c].now)
              /\ ledger'[s] = NewLedger(job[c].cfg.burst_pkts, job[c].now)
          BY <2>1, <3>1, <3>2
        <4> QED BY <4>1 DEF NewState, NewLedger
      <3>3. CASE s # k
        BY <2>1, <2>2, <3>1, <3>3
      <3> QED BY <3>2, <3>3
    <2>4. ASSUME NEW c \in CPUs, Update(c) PROVE Fits(s)'
      <3> DEFINE j      == job[c]
                 add    == Earned(Elapsed(srcstate[s].last_refill_ns, j.now), j.cfg.rate_pps)
                 topped == Topped(srcstate[s].tokens, add, j.cfg.burst_pkts)
                 reason == IF Limited(j) /\ topped = 0 THEN "drop_ratelimit" ELSE j.reason
      <3>1. CASE s # j.st
        <4>1. srcstate'[s] = srcstate[s] /\ ledger'[s] = ledger[s]
          BY <2>1, <2>4, <3>1 DEF Update
        <4> QED BY <2>2, <4>1
      <3>2. CASE s = j.st
        <4>1. /\ srcstate'[s].packets = srcstate[s].packets + 1
              /\ srcstate'[s].dropped = srcstate[s].dropped + One(reason \in DropReasons)
          BY <2>1, <2>4, <3>2 DEF Update
        <4>2. /\ Limited(j) => ledger'[s].spent = ledger[s].spent + One(topped > 0)
              /\ ~Limited(j) => ledger'[s] = ledger[s]
          BY <2>1, <2>4, <3>2 DEF Update
        <4>3. Limited(j) /\ topped > 0 => reason \notin DropReasons
          BY DEF Limited, PassReasons, DropReasons
        <4>4. /\ srcstate[s].packets \in Nat /\ srcstate[s].dropped \in Nat
              /\ ledger[s].spent \in Nat
          BY <2>1 DEF SrcState, Ledger
        <4> HIDE DEF reason, topped, j
        <4> QED BY <2>1, <4>1, <4>2, <4>3, <4>4 DEF One
      <3> QED BY <3>1, <3>2
    <2>5. ASSUME NEW c \in CPUs, Step(c) PROVE Fits(s)'
      <3>1. Insert(c) \/ Update(c) \/ (srcstate' = srcstate /\ ledger' = ledger)
        BY <2>5 DEF Step, CheckAllowlist, CheckBlocklist, Filter, Lookup, InsertFails,
                    Relookup, Count, history
      <3> QED BY <2>2, <2>3, <2>4, <3>1
    <2>6. ASSUME NEW t \in Tools, ToolStep(t) PROVE Fits(s)'
      <3>1. ledger' = ledger
        BY <2>6, ToolsKeepBuckets
      <3>2. srcstate' = srcstate \/ \E a \in Addresses : DeleteState(t, a)
        BY <2>6 DEF ToolStep, Allow, Unallow, CheckAllowed, Block, Unblock,
               remove_expired_blocks, clear_blocks, DeleteBlock, set_port_rule,
               del_port_rule, clear_port_rules, DeleteRule, reset_stats, ZeroStat, remove_idle_states,
               clear_states, update_config, WriteConfig, Finish, xdpVars
      <3>3. ASSUME NEW a \in Addresses, DeleteState(t, a)
            PROVE  /\ srcstate'[s].dropped = srcstate[s].dropped
                   /\ srcstate'[s].packets = srcstate[s].packets
        BY <2>1, <3>3 DEF DeleteState, SrcState
      <3> QED BY <2>2, <3>1, <3>2, <3>3
    <2>7. ASSUME srcstate' = srcstate, ledger' = ledger PROVE Fits(s)'
      BY <2>2, <2>7
    <2>8. Tick \/ (\E c \in CPUs, p \in Packets : Receive(c, p)) \/ UNCHANGED vars
            => srcstate' = srcstate /\ ledger' = ledger
      BY DEF Tick, Receive, vars, xdpVars, history
    <2> QED BY <2>5, <2>6, <2>7, <2>8 DEF Next
  <1> QED BY <1>1, <1>2, TypeCorrect, BucketsStaySound, PTL DEF Spec

-----------------------------------------------------------------------------
(* Nobody passes the limiter without a token or a trace. *)

Unasked   == \A t \in Tools : "config" \notin Commands[t]
LimiterOn == {"state", "ratelimit"} \subseteq config.features /\ config.rate_pps > 0

(* A packet about to be counted as passed by a rule or by the policy. *)
Passing(j) == j.pc = "count" /\ j.reason \in {"pass_rule", "pass_default"}

PassesPaid(c) ==
    ever[c].pass_rule + ever[c].pass_default + One(Passing(job[c]))
        <= paid[c] + ever[c].state_full

(* Settings nobody changes are the ones every packet was given. *)
SettingsFixed ==
    Unasked => /\ \A t \in Tools : task[t].op # "config"
               /\ \A c \in CPUs : job[c].pc # "idle" => job[c].cfg = config
               /\ LimiterOn => \A c \in CPUs : PassesPaid(c)

(* The counters involved, before and after one of them has grown. *)
LEMMA PassCounters ==
    ASSUME TypeOK, NEW c \in CPUs
    PROVE  /\ ever[c].pass_rule \in Nat /\ ever[c].pass_default \in Nat
           /\ ever[c].state_full \in Nat /\ paid[c] \in Nat
  <1>1. ever \in [CPUs -> [StatNames -> Nat]] /\ paid \in [CPUs -> Nat]
    BY EverType DEF TypeOK
  <1>2. {"pass_rule", "pass_default", "state_full"} \subseteq StatNames
    BY DEF StatNames, Reasons, PassReasons
  <1> QED BY <1>1, <1>2

LEMMA StatGrows ==
    ASSUME TypeOK, NEW c \in CPUs, NEW r \in StatNames, stats' = stat_add(c, r, 1),
           UNCHANGED wiped
    PROVE  /\ \A n \in StatNames : ever'[c][n] = IF n = r THEN ever[c][n] + 1
                                                  ELSE ever[c][n]
           /\ \A d \in CPUs \ {c} : ever'[d] = ever[d]
  <1>1. ever \in [CPUs -> [StatNames -> Nat]]
    BY EverType DEF TypeOK
  <1>2. ever' = [ever EXCEPT ![c][r] = @ + 1]
    BY EverAdds DEF TypeOK
  <1> QED BY <1>1, <1>2

(* A packet that becomes Passing has taken a token or is counted in          *)
(* STATE_FULL, and it is counted as passed when it stops being Passing.      *)
LEMMA StepPaysOrTells ==
    ASSUME TypeOK, BucketsSound, NEW c \in CPUs, Step(c), job[c].cfg = config,
           LimiterOn, PassesPaid(c)
    PROVE  PassesPaid(c)'
  <1> DEFINE j == job[c]
             k == job'[c]
  <1>1. /\ job \in [CPUs -> {Idle} \cup Busy]
        /\ paid \in [CPUs -> Nat]
    BY DEF TypeOK
  <1>2. j.pc # "idle" /\ j \in Busy
    <2>1. j.pc # "idle"
      BY DEF Step, Count, CheckAllowlist, CheckBlocklist, Filter, Lookup, Insert,
             InsertFails, Relookup, Update
    <2> QED BY <2>1, <1>1, BusyJob
  <1>3. /\ ever[c].pass_rule \in Nat /\ ever[c].pass_default \in Nat
        /\ ever[c].state_full \in Nat /\ paid[c] \in Nat
    BY PassCounters
  <1>4. {"pass_rule", "pass_default", "state_full"} \subseteq StatNames
    BY DEF StatNames, Reasons, PassReasons
  <1>5. /\ \A pc : Goto(c, pc) => k.pc = pc /\ k.reason = j.reason
        /\ \A r : Decided(c, r) => k.pc = "count" /\ k.reason = r
        /\ \A s : Use(c, s) => k.pc = "update"
    BY <1>1, <1>2 DEF Goto, Decided, Use, Busy
  <1>a. UNCHANGED wiped
    BY StepWipesNothing
  <1>6. ASSUME ~Passing(k), UNCHANGED <<stats, paid>> PROVE PassesPaid(c)'
    BY <1>3, <1>6, <1>a, EverKept DEF PassesPaid, One
  <1>7. ASSUME stats' = stat_add(c, "state_full", 1), UNCHANGED paid, j.pc # "count"
        PROVE  PassesPaid(c)'
    <2>1. /\ ever'[c].pass_rule = ever[c].pass_rule
          /\ ever'[c].pass_default = ever[c].pass_default
          /\ ever'[c].state_full = ever[c].state_full + 1
      BY <1>4, <1>7, <1>a, StatGrows
    <2> QED BY <1>3, <1>7, <2>1 DEF PassesPaid, One, Passing
  <1>8. CASE CheckAllowlist(c)
    <2>1. ~Passing(k)
      BY <1>5, <1>8 DEF CheckAllowlist, Passing, AfterAllowlist
    <2> QED BY <1>6, <1>8, <2>1 DEF CheckAllowlist, history
  <1>9. CASE CheckBlocklist(c)
    <2>1. ~Passing(k)
      BY <1>5, <1>9 DEF CheckBlocklist, Passing
    <2> QED BY <1>6, <1>9, <2>1 DEF CheckBlocklist, history
  <1>10. CASE Filter(c)
    <2>1. k.pc = "count" => k.reason = "drop_malformed"
      BY <1>1, <1>2, <1>10 DEF Filter, Busy, LimiterOn
    <2> QED BY <1>6, <1>10, <2>1 DEF Filter, Passing, history
  <1>11. CASE Lookup(c)
    <2>1. ~Passing(k)
      BY <1>5, <1>11 DEF Lookup, Passing
    <2> QED BY <1>6, <1>11, <2>1 DEF Lookup, history
  <1>12. CASE Insert(c)
    <2>1. ~Passing(k)
      BY <1>5, <1>12 DEF Insert, Passing
    <2> QED BY <1>6, <1>12, <2>1 DEF Insert
  <1>13. CASE InsertFails(c)
    BY <1>7, <1>13 DEF InsertFails, history
  <1>14. CASE Relookup(c)
    <2>1. CASE stats' = stat_add(c, "state_full", 1)
      BY <1>7, <1>14, <2>1 DEF Relookup, history
    <2>2. CASE UNCHANGED stats /\ \E s : Use(c, s)
      <3>1. ~Passing(k)
        BY <1>5, <2>2 DEF Passing
      <3> QED BY <1>6, <1>14, <2>2, <3>1 DEF Relookup, history
    <2> QED BY <1>14, <2>1, <2>2 DEF Relookup
  <1>15. CASE Update(c)
    <2> DEFINE e      == srcstate[j.st]
               topped == Topped(e.tokens, Earned(Elapsed(e.last_refill_ns, j.now),
                                                 j.cfg.rate_pps), j.cfg.burst_pkts)
               some   == topped > 0
               none   == topped = 0
    <2>1. UNCHANGED stats /\ j.pc = "update"
      BY <1>15 DEF Update
    <2>2. paid' = [paid EXCEPT ![c] = @ + One(Limited(j) /\ some)]
      BY <1>15 DEF Update
    <2>3. Decided(c, IF Limited(j) /\ none THEN "drop_ratelimit" ELSE j.reason)
      BY <1>15 DEF Update
    <2>4. topped \in Nat
      <3>1. e.tokens \in Nat /\ e.last_refill_ns \in Nat
        <4>1. j.st \in Slots
          BY <1>2, <2>1 DEF BucketsSound
        <4> QED BY <4>1 DEF TypeOK, SrcState
      <3>2. j.now \in Nat /\ j.cfg.burst_pkts \in Nat /\ j.cfg.rate_pps \in Nat
            /\ j.cfg.rate_pps > 0
        <4>1. j.now \in Nat /\ j.cfg \in ConfigType
          BY <1>2 DEF Busy
        <4> QED BY <4>1, DataplaneAssumption DEF ConfigType, LimiterOn
      <3> HIDE DEF j, e
      <3> QED BY <3>1, <3>2, RefillType
    <2>5. k.pc = "count"
          /\ k.reason = IF Limited(j) /\ none THEN "drop_ratelimit" ELSE j.reason
      BY <1>5, <2>3
    <2>6. paid'[c] = paid[c] + One(Limited(j) /\ some)
      BY <1>1, <2>2
    <2>7. Passing(k) => Limited(j) /\ some
      <3>1. Passing(k) => Limited(j) /\ ~none
        BY <2>5 DEF Passing, Limited, LimiterOn, PassReasons
      <3> HIDE DEF topped
      <3> QED BY <2>4, <3>1
    <2> HIDE DEF j, k, some
    <2>8. ever' = ever
      BY <1>a, <2>1, EverKept
    <2> QED BY <1>3, <2>1, <2>6, <2>7, <2>8 DEF PassesPaid, One, Passing, k, j
  <1>16. CASE Count(c)
    <2>1. j.pc = "count" /\ k = Idle /\ stats' = stat_add(c, j.reason, 1) /\ UNCHANGED paid
      BY <1>1, <1>16 DEF Count, history
    <2>2. j.reason \in StatNames /\ j.reason # "state_full"
      BY <1>2 DEF Busy, StatNames, Reasons, PassReasons, DropReasons
    <2>3. \A n \in StatNames : ever'[c][n] = IF n = j.reason THEN ever[c][n] + 1
                                              ELSE ever[c][n]
      BY <1>a, <2>1, <2>2, StatGrows
    <2>4. ~Passing(k)
      BY <2>1 DEF Passing, Idle
    <2>5. /\ ever'[c].pass_rule + ever'[c].pass_default
                 = ever[c].pass_rule + ever[c].pass_default + One(Passing(j))
          /\ ever'[c].state_full = ever[c].state_full
      BY <1>3, <1>4, <2>1, <2>2, <2>3 DEF Passing, One
    <2> QED BY <1>3, <2>1, <2>4, <2>5 DEF PassesPaid, One
  <1> QED BY <1>8, <1>9, <1>10, <1>11, <1>12, <1>13, <1>14, <1>15, <1>16 DEF Step

(* A run of xdp_firewall touches no other CPU's counters and no settings. *)
LEMMA StepIsLocal ==
    ASSUME TypeOK, NEW c \in CPUs, Step(c)
    PROVE  /\ config' = config
           /\ job[c].pc # "idle"
           /\ job'[c].pc # "idle" => job'[c].cfg = job[c].cfg
           /\ \A d \in CPUs \ {c} :
                 job'[d] = job[d] /\ ever'[d] = ever[d] /\ paid'[d] = paid[d]
  <1>1. /\ job \in [CPUs -> {Idle} \cup Busy] /\ paid \in [CPUs -> Nat]
        /\ ever \in [CPUs -> [StatNames -> Nat]]
    BY EverType DEF TypeOK
  <1>2. job[c].pc # "idle" /\ config' = config
    BY DEF Step, Count, CheckAllowlist, CheckBlocklist, Filter, Lookup, Insert,
           InsertFails, Relookup, Update
  <1>3. job[c] \in Busy
    BY <1>1, <1>2, BusyJob
  <1>4. \A d \in CPUs \ {c} : paid'[d] = paid[d]
    BY <1>1 DEF Step, Count, CheckAllowlist, CheckBlocklist, Filter, Lookup, Insert,
                InsertFails, Relookup, Update, history
  <1>5. CASE Count(c)
    <2>1. job'[c] = Idle /\ \A d \in CPUs \ {c} : job'[d] = job[d] /\ ever'[d] = ever[d]
      <3>1. job[c].reason \in StatNames
        BY <1>3 DEF Busy, StatNames
      <3>2. stats' = stat_add(c, job[c].reason, 1)
        BY <1>5 DEF Count
      <3>3. \A d \in CPUs \ {c} : ever'[d] = ever[d]
        BY <3>1, <3>2, StatGrows, StepWipesNothing
      <3> QED BY <1>1, <1>5, <3>3 DEF Count
    <2> QED BY <1>2, <1>4, <2>1 DEF Idle
  <1>6. CASE ~Count(c)
    <2>1. \/ \E pc : job' = [job EXCEPT ![c].pc = pc]
          \/ \E pc, r : job' = [job EXCEPT ![c].pc = pc, ![c].reason = r]
          \/ \E pc, r : job' = [job EXCEPT ![c].reason = r, ![c].pc = pc]
          \/ \E pc, s : job' = [job EXCEPT ![c].pc = pc, ![c].st = s]
      <3>1. CASE CheckAllowlist(c) \/ CheckBlocklist(c)
        BY <3>1 DEF CheckAllowlist, CheckBlocklist, Goto, Decided
      <3>2. CASE Filter(c)
        BY <3>2 DEF Filter
      <3>3. CASE Lookup(c) \/ Insert(c) \/ InsertFails(c) \/ Relookup(c)
        BY <3>3 DEF Lookup, Insert, InsertFails, Relookup, Goto, Use
      <3>4. CASE Update(c)
        <4>1. \E r : Decided(c, r)
          BY <3>4 DEF Update
        <4> QED BY <4>1 DEF Decided
      <3> QED BY <1>6, <3>1, <3>2, <3>3, <3>4 DEF Step
    <2>2. job'[c].cfg = job[c].cfg
      BY <1>1, <1>3, <2>1 DEF Busy
    <2> QED BY <1>2, <1>4, <1>6, <2>2, InFlight
  <1> QED BY <1>5, <1>6

(* Tools that are not asked for settings change none, and touch neither      *)
(* counters nor verdicts.                                                    *)
LEMMA ToolsLeaveSettings ==
    ASSUME TypeOK, NEW t \in Tools, ToolStep(t), Unasked,
           \A u \in Tools : task[u].op # "config"
    PROVE  /\ UNCHANGED <<config, ever, paid>>
           /\ \A u \in Tools : task'[u].op # "config"
           /\ \A c \in CPUs : /\ job'[c].pc = job[c].pc
                              /\ job[c].pc # "idle" =>
                                    /\ job'[c].reason = job[c].reason
                                    /\ job'[c].cfg = job[c].cfg
  <1>1. /\ job \in [CPUs -> {Idle} \cup Busy]
        /\ task \in [Tools -> Operations]
    BY DEF TypeOK
  <1>2. \A x, y : ~update_config(t, x, y) /\ ~WriteConfig(t, x)
    BY DEF update_config, WriteConfig, Asked, Unasked
  <1>3. UNCHANGED <<config, paid>> /\ (job' = job \/ Disturb)
    BY <1>2 DEF ToolStep, Allow, Unallow, CheckAllowed, Block, Unblock,
           remove_expired_blocks, clear_blocks, DeleteBlock, set_port_rule,
           del_port_rule, clear_port_rules, DeleteRule, reset_stats, ZeroStat, remove_idle_states,
           clear_states, DeleteState, Finish, xdpVars, history, maps
  <1>4. \A u \in Tools : task'[u].op # "config"
    <2>1. ASSUME NEW v, task' = [task EXCEPT ![t] = v], v.op # "config"
          PROVE  \A u \in Tools : task'[u].op # "config"
      BY <1>1, <2>1
    <2>2. CASE task' = task
      BY <2>2
    <2>3. CASE \E key, d : CheckAllowed(t, key, d)
      BY <2>1, <2>3 DEF CheckAllowed
    <2>4. CASE Block(t) \/ Finish(t)
      BY <2>1, <2>4 DEF Block, Finish, Ready
    <2>5. CASE \/ remove_expired_blocks(t) \/ clear_blocks(t) \/ clear_port_rules(t)
               \/ remove_idle_states(t) \/ clear_states(t) \/ reset_stats(t)
      BY <2>1, <2>5 DEF remove_expired_blocks, clear_blocks, clear_port_rules,
                        remove_idle_states, clear_states, reset_stats
    <2>6. CASE \E key : DeleteBlock(t, key) \/ DeleteRule(t, key) \/ DeleteState(t, key)
      <3>1. PICK key : task' = [task EXCEPT ![t].keys = @ \ {key}]
        BY <2>6 DEF DeleteBlock, DeleteRule, DeleteState
      <3>2. task[t] \in DelBlocks \cup DelRules \cup DelStates
        BY <1>1, <2>6, OperationType DEF DeleteBlock, DeleteRule, DeleteState
      <3>3. [task[t] EXCEPT !.keys = @ \ {key}].op = task[t].op
        BY <3>2 DEF DelBlocks, DelRules, DelStates
      <3> QED BY <1>1, <3>1, <3>3
    <2>7. CASE \E key, a : \/ Allow(t, key) \/ Unallow(t, key) \/ Unblock(t, key)
                           \/ set_port_rule(t, key, a) \/ del_port_rule(t, key)
      BY <2>2, <2>7 DEF Allow, Unallow, Unblock, set_port_rule, del_port_rule
    <2>8. CASE \E c \in CPUs : ZeroStat(t, c)
      <3>1. PICK c, name : Zeroes(t, c, name)
        BY <2>8 DEF ZeroStat
      <3> QED BY <2>1, <3>1 DEF Zeroes
    <2> QED BY <1>2, <2>3, <2>4, <2>5, <2>6, <2>7, <2>8 DEF ToolStep
  <1>5. ASSUME NEW c \in CPUs, Disturb
        PROVE  /\ job'[c].pc = job[c].pc
               /\ job[c].pc # "idle" => /\ job'[c].reason = job[c].reason
                                        /\ job'[c].cfg = job[c].cfg
    <2>1. CASE job[c].pc = "idle"
      BY <1>5, <2>1 DEF Disturb
    <2>2. CASE job[c].pc # "idle"
      <3>1. job[c] \in Busy /\ job'[c] = [job[c] EXCEPT !.quiet = FALSE]
        BY <1>1, <1>5, <2>2, BusyJob DEF Disturb
      <3> QED BY <3>1 DEF Busy
    <2> QED BY <2>1, <2>2
  <1> QED BY <1>3, <1>4, <1>5, ToolsCountNothing

(* The limiter, once on and left alone, lets through only packets that took  *)
(* a token or that were counted in STATE_FULL, what resets have wiped off it *)
(* included: settings stay what every packet was given (SettingsFixed), on   *)
(* any number of CPUs, slots and sources.                                    *)
THEOREM EveryPassIsPaid == Spec => []NoUncountedBypass
  <1>1. Init => SettingsFixed
    <2> SUFFICES ASSUME Init PROVE SettingsFixed
      OBVIOUS
    <2>1. \A t \in Tools : task[t].op # "config"
      BY DEF Init, Ready
    <2>2. \A c \in CPUs : job[c].pc = "idle"
      BY DEF Init, XdpInit, Idle
    <2>3. ASSUME NEW c \in CPUs PROVE PassesPaid(c)
      <3>1. \A n \in StatNames : ever[c][n] = 0
        BY DEF Init, XdpInit, ever
      <3>2. {"pass_rule", "pass_default", "state_full"} \subseteq StatNames
        BY DEF StatNames, Reasons, PassReasons
      <3>3. paid[c] = 0
        BY DEF Init, XdpInit
      <3> QED BY <2>2, <3>1, <3>2, <3>3 DEF PassesPaid, Passing, One
    <2> QED BY <2>1, <2>2, <2>3 DEF SettingsFixed
  <1>2. TypeOK /\ BucketsSound /\ SettingsFixed /\ [Next]_vars => SettingsFixed'
    <2> SUFFICES ASSUME TypeOK, BucketsSound, SettingsFixed, [Next]_vars, Unasked
                 PROVE  /\ \A t \in Tools : task'[t].op # "config"
                        /\ \A c \in CPUs : job'[c].pc # "idle" => job'[c].cfg = config'
                        /\ LimiterOn' => \A c \in CPUs : PassesPaid(c)'
      BY DEF SettingsFixed, Unasked
    <2> DEFINE Kept == /\ \A t \in Tools : task'[t].op # "config"
                       /\ \A c \in CPUs : job'[c].pc # "idle" => job'[c].cfg = config'
                       /\ LimiterOn' => \A c \in CPUs : PassesPaid(c)'
    <2>1. /\ \A t \in Tools : task[t].op # "config"
          /\ \A c \in CPUs : job[c].pc # "idle" => job[c].cfg = config
          /\ LimiterOn => \A c \in CPUs : PassesPaid(c)
      BY DEF SettingsFixed
    <2>2. ASSUME UNCHANGED <<config, stats, wiped, paid, job, task>> PROVE Kept
      BY <2>1, <2>2, EverKept DEF LimiterOn, PassesPaid
    <2>a. ASSUME NEW d \in CPUs, UNCHANGED task \/ \E t \in Tools : Overwrite(t, d)
          PROVE  \A t \in Tools : task'[t].op # "config"
      <3>1. CASE UNCHANGED task
        BY <2>1, <3>1
      <3>2. CASE \E t \in Tools : Overwrite(t, d)
        <4>1. PICK t \in Tools, name \in StatNames : Zeroes(t, d, name)
          BY <3>2 DEF Overwrite
        <4>2. \A u \in Tools : task'[u] = task[u] \/ task'[u].op = "reset"
          BY <4>1 DEF Zeroes, TypeOK
        <4> QED BY <2>1, <4>2
      <3> QED BY <2>a, <3>1, <3>2
    <2>3. CASE Tick /\ UNCHANGED task
      BY <2>2, <2>3 DEF Tick, history
    <2>4. ASSUME NEW d \in CPUs, NEW p \in Packets, Receive(d, p),
                 UNCHANGED task \/ \E t \in Tools : Overwrite(t, d)
          PROVE  Kept
      <3>1. /\ job \in [CPUs -> {Idle} \cup Busy] /\ stats \in [CPUs -> [StatNames -> Nat]]
        BY DEF TypeOK
      <3>2. UNCHANGED <<config, paid>> /\ job[d].pc = "idle"
        BY <2>4 DEF Receive, history
      <3>3. /\ job'[d].pc = IF FrameReason(p) = "continue" THEN AfterFrame(config) ELSE "count"
            /\ job'[d].reason = IF FrameReason(p) = "continue" THEN "pass_default"
                                ELSE FrameReason(p)
            /\ job'[d].cfg = config
            /\ \A c \in CPUs \ {d} : job'[c] = job[c] /\ stats'[c] = stats[c]
        BY <3>1, <2>4 DEF Receive
      <3>a. UNCHANGED wiped
        BY <2>4 DEF Receive, history
      <3>b. \A c \in CPUs \ {d} : ever'[c] = ever[c]
        BY <3>3, <3>a DEF ever
      <3>4. \A n \in StatNames \ {"rx_packets", "rx_bytes"} : ever'[d][n] = ever[d][n]
        <4>1. \A n \in StatNames \ {"rx_packets", "rx_bytes"} : stats'[d][n] = stats[d][n]
          BY <3>1, <2>4 DEF Receive
        <4> QED BY <4>1, <3>a DEF ever
      <3>5. /\ ever'[d].pass_rule = ever[d].pass_rule
            /\ ever'[d].pass_default = ever[d].pass_default
            /\ ever'[d].state_full = ever[d].state_full
        BY <3>4 DEF StatNames, Reasons, PassReasons
      <3>6. ~Passing(job[d]) /\ ~Passing(job'[d])
        BY <3>2, <3>3 DEF Passing, FrameReason, AfterFrame, AfterAllowlist
      <3>7. ASSUME NEW c \in CPUs, PassesPaid(c) PROVE PassesPaid(c)'
        BY <3>2, <3>3, <3>b, <3>5, <3>6, <3>7 DEF PassesPaid, One
      <3> QED BY <2>1, <2>a, <2>4, <3>2, <3>3, <3>7 DEF LimiterOn
    <2>5. ASSUME NEW d \in CPUs, Step(d),
                 UNCHANGED task \/ \E t \in Tools : Overwrite(t, d)
          PROVE  Kept
      <3>1. /\ config' = config
            /\ job[d].pc # "idle"
            /\ job'[d].pc # "idle" => job'[d].cfg = job[d].cfg
            /\ \A c \in CPUs \ {d} :
                  job'[c] = job[c] /\ ever'[c] = ever[c] /\ paid'[c] = paid[c]
        BY <2>5, StepIsLocal
      <3>2. \A c \in CPUs : job'[c].pc # "idle" => job'[c].cfg = config'
        BY <2>1, <3>1
      <3>3. ASSUME LimiterOn', NEW c \in CPUs PROVE PassesPaid(c)'
        <4>1. LimiterOn /\ PassesPaid(c)
          BY <2>1, <3>1, <3>3 DEF LimiterOn
        <4>2. CASE c = d
          BY <2>1, <2>5, <3>1, <4>1, <4>2, StepPaysOrTells
        <4>3. CASE c # d
          BY <3>1, <4>1, <4>3 DEF PassesPaid
        <4> QED BY <4>2, <4>3
      <3> QED BY <2>1, <2>a, <2>5, <3>2, <3>3
    <2>6. ASSUME NEW t \in Tools, ToolStep(t) PROVE Kept
      <3>1. /\ UNCHANGED <<config, ever, paid>>
            /\ \A u \in Tools : task'[u].op # "config"
            /\ \A c \in CPUs : /\ job'[c].pc = job[c].pc
                               /\ job[c].pc # "idle" =>
                                     /\ job'[c].reason = job[c].reason
                                     /\ job'[c].cfg = job[c].cfg
        BY <2>1, <2>6, ToolsLeaveSettings
      <3>2. \A c \in CPUs : Passing(job'[c]) <=> Passing(job[c])
        BY <3>1 DEF Passing
      <3>3. ASSUME NEW c \in CPUs, PassesPaid(c) PROVE PassesPaid(c)'
        BY <3>1, <3>2, <3>3 DEF PassesPaid, One
      <3> QED BY <2>1, <3>1, <3>3 DEF LimiterOn
    <2>7. CASE UNCHANGED vars
      BY <2>2, <2>7 DEF vars, xdpVars
    <2> QED BY <2>3, <2>4, <2>5, <2>6, <2>7 DEF Next
  <1>3. SettingsFixed => NoUncountedBypass
    BY DEF SettingsFixed, NoUncountedBypass, Unasked, LimiterOn, PassesPaid, Passing
  <1> QED BY <1>1, <1>2, <1>3, TypeCorrect, BucketsStaySound, PTL DEF Spec

-----------------------------------------------------------------------------
(* The bucket implements the schedule of RateLimiter. *)

LEMMA GrainType == Grain \in Nat
  <1>1. NSEC_PER_SEC + MinRate - 1 \in Nat /\ MinRate \in Nat \ {0}
    BY DataplaneAssumption, BucketAssumption
  <1> QED BY <1>1, DivBounds DEF Grain

(* Where the reservations of a bucket with this content end. *)
Ends(last, tokens) == last + (MaxBurst - tokens) * Period

LEMMA EndsBounds ==
    ASSUME NEW last \in Nat, NEW tokens \in 0 .. MaxBurst
    PROVE  /\ Ends(last, tokens) \in Nat
           /\ last <= Ends(last, tokens)
           /\ Ends(last, tokens) <= last + MaxBurst * Period
  <1>1. MaxBurst \in Nat /\ Period \in Nat /\ MaxBurst - tokens \in Nat
    BY DataplaneAssumption, PeriodFacts
  <1>2. /\ (MaxBurst - tokens) * Period \in Nat
        /\ (MaxBurst - tokens) * Period <= MaxBurst * Period
    BY <1>1, ProductMonotone
  <1> QED BY <1>1, <1>2 DEF Ends

(* One refill, and the token the packet takes if there is one: nothing that  *)
(* was reserved is given back, and unused time before the packet is lost.    *)
LEMMA RefillReserves ==
    ASSUME NEW last \in Nat, NEW tokens \in 0 .. MaxBurst, NEW at \in Nat,
           NEW rate \in MinRate .. MaxRate, NEW burst \in 1 .. MaxBurst
    PROVE  LET add    == Earned(Elapsed(last, at), rate)
               topped == Topped(tokens, add, burst)
               moment == Refilled(last, at, rate)
           IN  /\ moment \in Nat /\ (moment <= last \/ moment <= at)
               /\ topped \in 0 .. MaxBurst
               /\ Ends(moment, topped) >= Ends(last, tokens)
               /\ moment >= at - Grain
  <1> DEFINE elapsed == Elapsed(last, at)
             add     == Earned(elapsed, rate)
             moment  == Refilled(last, at, rate)
             topped  == Topped(tokens, add, burst)
  <1>1. /\ MaxBurst \in Nat /\ MaxRate \in Nat /\ Period \in Nat /\ Grain \in Nat
        /\ rate \in Nat /\ rate > 0 /\ burst \in Nat /\ tokens \in Nat
    BY DataplaneAssumption, PeriodFacts, GrainType
  <1>2. /\ elapsed \in Nat /\ at - last <= elapsed
        /\ elapsed = 0 \/ last + elapsed = at
    BY DEF Elapsed
  <1>3. /\ add \in Nat /\ moment \in Nat /\ topped \in Nat
        /\ topped <= tokens + add /\ topped <= burst
    BY <1>1, RefillType
  <1>4. /\ moment - last \in 0 .. elapsed /\ elapsed <= moment - last + Grain
        /\ add * Period <= moment - last
    BY RefillBounds
  <1> HIDE DEF elapsed, add, moment, topped
  <1>5. topped \in 0 .. MaxBurst
    BY <1>1, <1>3
  <1>6. moment >= at - Grain /\ (moment <= last \/ moment <= at)
    BY <1>1, <1>2, <1>3, <1>4
  <1>7. Ends(moment, topped) >= Ends(last, tokens)
    <2>1. (MaxBurst - tokens) <= (MaxBurst - topped) + add
      BY <1>1, <1>3
    <2>2. (MaxBurst - tokens) * Period <= ((MaxBurst - topped) + add) * Period
      <3>1. MaxBurst - tokens \in Nat /\ (MaxBurst - topped) + add \in Nat
        BY <1>1, <1>3, <1>5
      <3> QED BY <2>1, <3>1, <1>1, ProductMonotone
    <2>3. ((MaxBurst - topped) + add) * Period = (MaxBurst - topped) * Period + add * Period
      BY <1>1, <1>3, <1>5
    <2> DEFINE A == (MaxBurst - tokens) * Period   B == (MaxBurst - topped) * Period
               C == add * Period
    <2>4. A \in Int /\ B \in Int /\ C \in Int
      BY <1>1, <1>3, <1>5
    <2>5. A <= B + C /\ C <= moment - last
      BY <2>2, <2>3, <1>4
    <2> HIDE DEF A, B, C
    <2>6. moment + B >= last + A
      BY <2>4, <2>5, <1>3
    <2> QED BY <2>6 DEF Ends, A, B
  <1> QED BY <1>3, <1>5, <1>6, <1>7 DEF elapsed, add, moment, topped

LEMMA UpdateReserves ==
    ASSUME TypeOK, BucketsSound, NEW c \in CPUs, Update(c), NEW s \in Slots, s = job[c].st
    PROVE  LET at  == job[c].now
               end == Ends(srcstate[s].last_refill_ns, srcstate[s].tokens)
               new == Ends(srcstate'[s].last_refill_ns, srcstate'[s].tokens)
           IN  /\ at \in 0 .. clock /\ srcstate'[s].last_seen_ns = at
               /\ end \in Nat /\ new \in Nat /\ new <= clock + MaxBurst * Period
               /\ \/ ledger'[s].spent = ledger[s].spent /\ new >= end
                  \/ /\ ledger'[s].spent = ledger[s].spent + 1
                     /\ new >= end + Period /\ new >= at - Grain + Period
  <1> DEFINE j      == job[c]
             e      == srcstate[s]
             at     == j.now
             rate   == j.cfg.rate_pps
             burst  == j.cfg.burst_pkts
             last   == e.last_refill_ns
             add    == Earned(Elapsed(last, at), rate)
             topped == Topped(e.tokens, add, burst)
             moment == Refilled(last, at, rate)
             end    == Ends(last, e.tokens)
             new    == Ends(srcstate'[s].last_refill_ns, srcstate'[s].tokens)
             Goal   == /\ at \in 0 .. clock /\ srcstate'[s].last_seen_ns = at
                       /\ end \in Nat /\ new \in Nat /\ new <= clock + MaxBurst * Period
                       /\ \/ ledger'[s].spent = ledger[s].spent /\ new >= end
                          \/ /\ ledger'[s].spent = ledger[s].spent + 1
                             /\ new >= end + Period /\ new >= at - Grain + Period
  <1>1. /\ clock \in Nat /\ j \in Busy /\ j.now <= clock /\ e \in SrcState
        /\ srcstate \in [Slots -> SrcState] /\ ledger \in [Slots -> Ledger]
    BY BusyJob DEF TypeOK, BucketsSound, Update
  <1>2. at \in Nat /\ at <= clock /\ j.cfg \in ConfigType
    BY <1>1 DEF Busy
  <1>3. rate \in {0} \cup MinRate .. MaxRate /\ burst \in 1 .. MaxBurst
    BY <1>2 DEF ConfigType
  <1>4. /\ last \in Nat /\ last <= clock /\ e.tokens \in 0 .. MaxBurst
        /\ ledger[s].spent \in Nat
    BY <1>1 DEF SrcState, Ledger, BucketsSound, BucketSound
  <1>5. /\ srcstate'[s].last_seen_ns = at
        /\ ~Limited(j) => /\ srcstate'[s].tokens = e.tokens
                          /\ srcstate'[s].last_refill_ns = last
                          /\ ledger'[s] = ledger[s]
        /\ Limited(j) => /\ srcstate'[s].tokens = IF topped > 0 THEN topped - 1 ELSE 0
                         /\ srcstate'[s].last_refill_ns = moment
                         /\ ledger'[s].spent = ledger[s].spent + One(topped > 0)
    BY <1>1 DEF Update
  <1>6. MaxBurst \in Nat /\ Period \in Nat /\ Grain \in Nat /\ MaxBurst * Period \in Nat
    BY DataplaneAssumption, PeriodFacts, GrainType
  <1>7. end \in Nat /\ end <= last + MaxBurst * Period
    BY <1>4, EndsBounds
  <1>8. ASSUME ~Limited(j) PROVE Goal
    <2>1. new = end
      BY <1>5, <1>8
    <2>2. ledger'[s].spent = ledger[s].spent
      BY <1>5, <1>8
    <2> HIDE DEF new, end, last, at
    <2> QED BY <1>1, <1>2, <1>4, <1>5, <1>6, <1>7, <2>1, <2>2
  <1>9. ASSUME Limited(j) PROVE Goal
    <2>1. rate \in MinRate .. MaxRate
      BY <1>3, <1>9 DEF Limited
    <2>2. /\ moment \in Nat /\ (moment <= last \/ moment <= at)
          /\ topped \in 0 .. MaxBurst
          /\ Ends(moment, topped) >= end /\ moment >= at - Grain
      <3> HIDE DEF last, at, rate, burst
      <3>1. e.tokens \in 0 .. MaxBurst
        BY <1>4
      <3> QED BY <1>2, <1>3, <1>4, <2>1, <3>1, RefillReserves
    <2>3. moment <= clock
      BY <1>1, <1>2, <1>4, <2>2
    <2> HIDE DEF last, moment, topped, at, end
    <2>4. CASE topped = 0
      <3>1. new = Ends(moment, topped) /\ ledger'[s].spent = ledger[s].spent
        BY <1>4, <1>5, <1>9, <2>4 DEF One
      <3>2. new \in Nat /\ new <= moment + MaxBurst * Period
        BY <3>1, <2>2, EndsBounds
      <3> HIDE DEF new
      <3> QED BY <1>1, <1>2, <1>5, <1>6, <1>7, <2>2, <2>3, <3>1, <3>2
    <2>5. CASE topped > 0
      <3>1. new = Ends(moment, topped - 1) /\ ledger'[s].spent = ledger[s].spent + 1
        BY <1>5, <1>9, <2>5 DEF One
      <3>2. topped - 1 \in 0 .. MaxBurst
        BY <1>6, <2>2, <2>5
      <3>3. new \in Nat /\ new <= moment + MaxBurst * Period
        BY <3>1, <3>2, <2>2, EndsBounds
      <3>4. new = Ends(moment, topped) + Period
        <4>1. (MaxBurst - (topped - 1)) * Period = (MaxBurst - topped) * Period + Period
          BY <1>6, <2>2
        <4>2. (MaxBurst - topped) * Period \in Int
          BY <1>6, <2>2
        <4> QED BY <1>6, <2>2, <3>1, <4>1, <4>2 DEF Ends
      <3>5. Ends(moment, topped) \in Nat /\ moment <= Ends(moment, topped)
        BY <2>2, EndsBounds
      <3> HIDE DEF new
      <3>6. new >= end + Period /\ new >= at - Grain + Period
        BY <1>2, <1>6, <1>7, <2>2, <3>4, <3>5
      <3> QED BY <1>1, <1>2, <1>5, <1>6, <1>7, <2>3, <3>1, <3>3, <3>6, <2>2
    <2> QED BY <2>2, <2>4, <2>5
  <1> QED BY <1>8, <1>9

LEMMA ChangedAtOne ==
    ASSUME NEW D, NEW f, NEW g, NEW s \in D, NEW v,
           f = [r \in D |-> f[r]], g = [r \in D |-> g[r]],
           g[s] = v, \A r \in D \ {s} : g[r] = f[r]
    PROVE  g = [f EXCEPT ![s] = v]
  OBVIOUS

(* A change of one bucket, as the schedule sees it. *)
LEMMA OneBucket ==
    ASSUME TypeOK, NEW s \in Slots, NEW e, NEW l,
           srcstate' = [srcstate EXCEPT ![s] = e], ledger' = [ledger EXCEPT ![s] = l]
    PROVE  /\ tat' = [tat EXCEPT ![s] = Ends(e.last_refill_ns, e.tokens)]
           /\ seen' = [seen EXCEPT ![s] = e.last_seen_ns]
           /\ admitted' = [admitted EXCEPT ![s] = l.spent]
           /\ tat[s] = Ends(srcstate[s].last_refill_ns, srcstate[s].tokens)
           /\ admitted[s] = ledger[s].spent
  <1>1. srcstate \in [Slots -> SrcState] /\ ledger \in [Slots -> Ledger]
    BY DEF TypeOK
  <1>2. srcstate'[s] = e /\ ledger'[s] = l
    BY <1>1
  <1>3. \A r \in Slots \ {s} : srcstate'[r] = srcstate[r] /\ ledger'[r] = ledger[r]
    BY <1>1
  <1>4. tat' = [tat EXCEPT ![s] = Ends(e.last_refill_ns, e.tokens)]
    <2>1. tat = [r \in Slots |-> tat[r]] /\ tat' = [r \in Slots |-> tat'[r]]
      BY DEF tat
    <2>2. tat'[s] = Ends(e.last_refill_ns, e.tokens) /\ \A r \in Slots \ {s} : tat'[r] = tat[r]
      BY <1>2, <1>3 DEF tat, Ends
    <2> QED BY <2>1, <2>2, ChangedAtOne
  <1>5. seen' = [seen EXCEPT ![s] = e.last_seen_ns]
    <2>1. seen = [r \in Slots |-> seen[r]] /\ seen' = [r \in Slots |-> seen'[r]]
      BY DEF seen
    <2>2. seen'[s] = e.last_seen_ns /\ \A r \in Slots \ {s} : seen'[r] = seen[r]
      BY <1>2, <1>3 DEF seen
    <2> QED BY <2>1, <2>2, ChangedAtOne
  <1>6. admitted' = [admitted EXCEPT ![s] = l.spent]
    <2>1. admitted = [r \in Slots |-> admitted[r]] /\ admitted' = [r \in Slots |-> admitted'[r]]
      BY DEF admitted
    <2>2. admitted'[s] = l.spent /\ \A r \in Slots \ {s} : admitted'[r] = admitted[r]
      BY <1>2, <1>3 DEF admitted
    <2> QED BY <2>1, <2>2, ChangedAtOne
  <1>7. /\ tat[s] = Ends(srcstate[s].last_refill_ns, srcstate[s].tokens)
        /\ admitted[s] = ledger[s].spent
    BY DEF tat, admitted, Ends
  <1> QED BY <1>4, <1>5, <1>6, <1>7

LEMMA StepIsScheduled ==
    ASSUME TypeOK, TypeOK', BucketsSound, NEW c \in CPUs, Step(c)
    PROVE  Limiter!Next \/ UNCHANGED Limiter!vars
  <1>1. /\ srcstate \in [Slots -> SrcState] /\ ledger \in [Slots -> Ledger]
        /\ job \in [CPUs -> {Idle} \cup Busy] /\ clock \in Nat
    BY DEF TypeOK
  <1>2. clock' = clock
    BY DEF Step, Count, CheckAllowlist, CheckBlocklist, Filter, Lookup, Insert,
           InsertFails, Relookup, Update
  <1>3. CASE Insert(c)
    <2> DEFINE j   == job[c]
               end == Ends(j.now, j.cfg.burst_pkts)
    <2>a. PICK s \in Slots :
             /\ srcstate' = [srcstate EXCEPT ![s] =
                   NewState(j.pkt.saddr, j.cfg.burst_pkts, j.now)]
             /\ ledger' = [ledger EXCEPT ![s] = NewLedger(j.cfg.burst_pkts, j.now)]
      BY <1>3, SlotOfType DEF Insert
    <2>1. PICK e, l : /\ e = NewState(j.pkt.saddr, j.cfg.burst_pkts, j.now)
                      /\ l = NewLedger(j.cfg.burst_pkts, j.now)
                      /\ srcstate' = [srcstate EXCEPT ![s] = e]
                      /\ ledger' = [ledger EXCEPT ![s] = l]
      BY <2>a
    <2>2. j \in Busy /\ j.now <= clock
      BY <1>1, <1>3, BusyJob DEF Insert, BucketsSound
    <2>3. j.now \in 0 .. clock /\ j.cfg \in ConfigType
      BY <1>1, <2>2 DEF Busy
    <2>4. j.cfg.burst_pkts \in 0 .. MaxBurst
      BY <2>3 DEF ConfigType
    <2>5. /\ e.last_refill_ns = j.now /\ e.last_seen_ns = j.now
          /\ e.tokens = j.cfg.burst_pkts /\ l.spent = 0
      BY <2>1 DEF NewState, NewLedger
    <2>6. end \in j.now .. (clock + MaxBurst * Period)
      <3>1. MaxBurst * Period \in Nat
        BY DataplaneAssumption, PeriodFacts
      <3>2. end \in Nat /\ j.now <= end /\ end <= j.now + MaxBurst * Period
        BY <2>3, <2>4, EndsBounds
      <3> QED BY <1>1, <2>3, <3>1, <3>2
    <2>7. /\ tat' = [tat EXCEPT ![s] = end] /\ seen' = [seen EXCEPT ![s] = j.now]
          /\ admitted' = [admitted EXCEPT ![s] = 0]
      <3>1. /\ tat' = [tat EXCEPT ![s] = Ends(e.last_refill_ns, e.tokens)]
            /\ seen' = [seen EXCEPT ![s] = e.last_seen_ns]
            /\ admitted' = [admitted EXCEPT ![s] = l.spent]
            /\ tat[s] = Ends(srcstate[s].last_refill_ns, srcstate[s].tokens)
            /\ admitted[s] = ledger[s].spent
        <4>1. srcstate' = [srcstate EXCEPT ![s] = e] /\ ledger' = [ledger EXCEPT ![s] = l]
          BY <2>1
        <4>2. s \in Slots
          BY <2>a
        <4> QED BY <4>1, <4>2, OneBucket
      <3> QED BY <2>5, <3>1
    <2> HIDE DEF end, j
    <2>8. Limiter!Open(s, j.now)
      BY <1>2, <2>6, <2>7 DEF Limiter!Open, Limiter!Reserve
    <2> QED BY <2>3, <2>8 DEF Limiter!Next
  <1>4. CASE Update(c)
    <2> DEFINE s   == job[c].st
               at  == job[c].now
               end == Ends(srcstate'[s].last_refill_ns, srcstate'[s].tokens)
               n   == ledger'[s].spent
    <2>1. s \in Slots
      BY <1>4 DEF Update, BucketsSound
    <2>2. PICK e, l : /\ srcstate' = [srcstate EXCEPT ![s] = e]
                      /\ ledger' = [ledger EXCEPT ![s] = l]
      <3>1. srcstate' = [srcstate EXCEPT ![s] = srcstate'[s]]
        <4>1. srcstate = [r \in Slots |-> srcstate[r]]
          BY <1>1
        <4>2. srcstate' = [r \in Slots |-> srcstate'[r]]
          BY DEF TypeOK
        <4>3. \A r \in Slots \ {s} : srcstate'[r] = srcstate[r]
          BY <1>1, <1>4 DEF Update
        <4> QED BY <2>1, <4>1, <4>2, <4>3, ChangedAtOne
      <3>2. ledger' = [ledger EXCEPT ![s] = ledger'[s]]
        BY <1>1, <1>4, <2>1 DEF Update
      <3> QED BY <3>1, <3>2
    <2>3. srcstate'[s] = e /\ ledger'[s] = l
      BY <1>1, <2>1, <2>2
    <2>4. /\ at \in 0 .. clock /\ srcstate'[s].last_seen_ns = at
          /\ Ends(srcstate[s].last_refill_ns, srcstate[s].tokens) \in Nat
          /\ end \in Nat /\ end <= clock + MaxBurst * Period
          /\ \/ /\ n = ledger[s].spent
                /\ end >= Ends(srcstate[s].last_refill_ns, srcstate[s].tokens)
             \/ /\ n = ledger[s].spent + 1
                /\ end >= Ends(srcstate[s].last_refill_ns, srcstate[s].tokens) + Period
                /\ end >= at - Grain + Period
      BY <1>4, <2>1, UpdateReserves
    <2> HIDE DEF s
    <2>5. /\ tat' = [tat EXCEPT ![s] = end] /\ seen' = [seen EXCEPT ![s] = at]
          /\ admitted' = [admitted EXCEPT ![s] = n]
          /\ tat[s] = Ends(srcstate[s].last_refill_ns, srcstate[s].tokens)
          /\ admitted[s] = ledger[s].spent
      <3>1. /\ tat' = [tat EXCEPT ![s] = Ends(e.last_refill_ns, e.tokens)]
            /\ seen' = [seen EXCEPT ![s] = e.last_seen_ns]
            /\ admitted' = [admitted EXCEPT ![s] = l.spent]
            /\ tat[s] = Ends(srcstate[s].last_refill_ns, srcstate[s].tokens)
            /\ admitted[s] = ledger[s].spent
        BY <2>1, <2>2, OneBucket
      <3> QED BY <2>3, <2>4, <3>1
    <2> HIDE DEF end, n, at
    <2>6. /\ at \in 0 .. clock /\ tat[s] \in Nat
          /\ end \in Nat /\ end <= clock + MaxBurst * Period
          /\ \/ n = admitted[s] /\ end >= tat[s]
             \/ /\ n = admitted[s] + 1
                /\ end >= tat[s] + Period /\ end >= at - Grain + Period
      BY <2>4, <2>5
    <2>7. Period \in Nat /\ Grain \in Nat /\ MaxBurst * Period \in Nat
      BY DataplaneAssumption, PeriodFacts, GrainType
    <2>8. CASE n = admitted[s] /\ end >= tat[s]
      <3>1. end \in tat[s] .. (clock + MaxBurst * Period)
        BY <1>1, <2>6, <2>7, <2>8
      <3>2. admitted' = admitted
        BY <2>1, <2>5, <2>8 DEF admitted
      <3>3. Limiter!Touch(s, at)
        BY <1>2, <2>5, <3>1, <3>2 DEF Limiter!Touch, Limiter!Reserve
      <3> QED BY <2>1, <2>6, <3>3 DEF Limiter!Next
    <2>9. CASE n = admitted[s] + 1 /\ end >= tat[s] + Period /\ end >= at - Grain + Period
      <3>1. end \in (Limiter!Later(tat[s], at - Grain) + Period)
                       .. (clock + MaxBurst * Period)
        BY <1>1, <2>6, <2>7, <2>9 DEF Limiter!Later
      <3>2. admitted' = [admitted EXCEPT ![s] = @ + 1]
        BY <2>5, <2>9
      <3>3. Limiter!Admit(s, at)
        BY <1>2, <2>5, <3>1, <3>2 DEF Limiter!Admit, Limiter!Reserve
      <3> QED BY <2>1, <2>6, <3>3 DEF Limiter!Next
    <2> QED BY <2>6, <2>8, <2>9
  <1>5. CASE ~Insert(c) /\ ~Update(c)
    <2>1. srcstate' = srcstate /\ ledger' = ledger
      BY <1>5 DEF Step, Count, CheckAllowlist, CheckBlocklist, Filter, Lookup,
                  InsertFails, Relookup, history
    <2> QED BY <1>2, <2>1 DEF Limiter!vars, tat, seen, admitted
  <1> QED BY <1>3, <1>4, <1>5

(* The data plane and its tools implement the abstract limiter: an insertion *)
(* opens a bucket, the critical section admits or touches it, and nothing    *)
(* else moves it, on any number of CPUs and slots and with any settings.     *)
THEOREM LimiterIsImplemented == Spec => RateIsScheduled
  <1>1. TypeOK /\ Init => Limiter!Init
    <2> SUFFICES ASSUME TypeOK, Init PROVE Limiter!Init
      OBVIOUS
    <2>1. ASSUME NEW s \in Slots
          PROVE  /\ srcstate[s].tokens = 0 /\ srcstate[s].last_refill_ns = 0
                 /\ srcstate[s].last_seen_ns = 0 /\ ledger[s].spent = 0
      BY DEF Init, XdpInit, NewState, NewLedger
    <2>2. MaxBurst \in Nat /\ Period \in Nat
      BY DataplaneAssumption, PeriodFacts
    <2>3. MaxBurst * Period \in 0 .. MaxBurst * Period
      BY <2>2
    <2>4. \A s \in Slots : tat[s] = MaxBurst * Period
      BY <2>1, <2>2 DEF tat
    <2>5. tat \in [Slots -> 0 .. MaxBurst * Period]
      BY <2>3, <2>4 DEF tat
    <2>6. seen = [s \in Slots |-> 0] /\ admitted = [s \in Slots |-> 0]
      BY <2>1 DEF seen, admitted
    <2>7. clock = 0
      BY DEF Init, XdpInit
    <2> QED BY <2>5, <2>6, <2>7 DEF Limiter!Init
  <1>2. TypeOK /\ TypeOK' /\ BucketsSound /\ [Next]_vars
           => [Limiter!Next]_Limiter!vars
    <2> SUFFICES ASSUME TypeOK, TypeOK', BucketsSound, [Next]_vars
                 PROVE  Limiter!Next \/ UNCHANGED Limiter!vars
      OBVIOUS
    <2>1. ASSUME srcstate' = srcstate, ledger' = ledger
          PROVE  UNCHANGED <<tat, seen, admitted>>
      BY <2>1 DEF tat, seen, admitted
    <2>2. CASE Tick /\ UNCHANGED task
      <3>1. clock \in Nat /\ clock' = clock + 1 /\ srcstate' = srcstate /\ ledger' = ledger
        BY <2>2 DEF Tick, history, TypeOK
      <3>2. clock' > clock
        BY <3>1
      <3> QED BY <2>1, <3>1, <3>2 DEF Limiter!Next, Limiter!Advance
    <2>3. ASSUME NEW c \in CPUs, NEW p \in Packets, Receive(c, p)
          PROVE  UNCHANGED Limiter!vars
      <3>1. clock' = clock /\ srcstate' = srcstate /\ ledger' = ledger
        BY <2>3 DEF Receive, history
      <3> QED BY <2>1, <3>1 DEF Limiter!vars
    <2>4. ASSUME NEW c \in CPUs, Step(c)
          PROVE  Limiter!Next \/ UNCHANGED Limiter!vars
      BY <2>4, StepIsScheduled
    <2>5. ASSUME NEW t \in Tools, ToolStep(t) PROVE UNCHANGED Limiter!vars
      <3>1. /\ clock' = clock /\ ledger' = ledger
            /\ \A s \in Slots :
                  /\ srcstate'[s].tokens = srcstate[s].tokens
                  /\ srcstate'[s].last_refill_ns = srcstate[s].last_refill_ns
                  /\ srcstate'[s].last_seen_ns = srcstate[s].last_seen_ns
        BY <2>5, ToolsKeepBuckets
      <3>2. UNCHANGED <<tat, seen, admitted>>
        BY <3>1 DEF tat, seen, admitted
      <3> QED BY <3>1, <3>2 DEF Limiter!vars
    <2>6. CASE UNCHANGED vars
      <3>1. clock' = clock /\ srcstate' = srcstate /\ ledger' = ledger
        BY <2>6 DEF vars, xdpVars
      <3> QED BY <2>1, <3>1 DEF Limiter!vars
    <2> QED BY <2>2, <2>3, <2>4, <2>5, <2>6 DEF Next
  <1> QED BY <1>1, <1>2, TypeCorrect, BucketsStaySound, PTL
          DEF Spec, RateIsScheduled, Limiter!Spec

-----------------------------------------------------------------------------
(* What the schedule is for: a limit on every window, wherever it begins.    *)

LEMMA ScheduleTypes ==
    ASSUME TypeOK, BucketsSound
    PROVE  /\ tat \in [Slots -> Nat] /\ admitted \in [Slots -> Nat]
           /\ seen = [s \in Slots |-> seen[s]]
           /\ \A s \in Slots : tat[s] <= clock + MaxBurst * Period
  <1>1. clock \in Nat /\ MaxBurst * Period \in Nat
    BY DataplaneAssumption, PeriodFacts DEF TypeOK
  <1>2. ASSUME NEW s \in Slots
        PROVE  /\ tat[s] \in Nat /\ admitted[s] \in Nat
               /\ tat[s] <= clock + MaxBurst * Period
    <2>1. srcstate[s] \in SrcState /\ ledger[s] \in Ledger /\ BucketSound(s)
      BY DEF TypeOK, BucketsSound
    <2>2. /\ srcstate[s].last_refill_ns \in Nat /\ srcstate[s].last_refill_ns <= clock
          /\ srcstate[s].tokens \in 0 .. MaxBurst /\ ledger[s].spent \in Nat
      BY <2>1 DEF SrcState, Ledger, BucketSound
    <2>3. /\ tat[s] = Ends(srcstate[s].last_refill_ns, srcstate[s].tokens)
          /\ admitted[s] = ledger[s].spent
      BY DEF tat, admitted, Ends
    <2>4. tat[s] \in Nat /\ tat[s] <= srcstate[s].last_refill_ns + MaxBurst * Period
      BY <2>2, <2>3, EndsBounds
    <2> QED BY <1>1, <2>2, <2>3, <2>4
  <1>3. /\ tat = [s \in Slots |-> tat[s]] /\ admitted = [s \in Slots |-> admitted[s]]
        /\ seen = [s \in Slots |-> seen[s]]
    BY DEF tat, admitted, seen
  <1> QED BY <1>2, <1>3

(* The packets admitted after the first n have their periods reserved,        *)
(* counted from the arrival t of the first of them.                           *)
Since(s, t, n) == tat[s] >= t - Grain + (admitted[s] - n) * Period

(* A window begins with any admitted packet, and lasts until the slot is      *)
(* given to another entry.                                                    *)
WindowStep ==
    \A s \in Slots : \A t, n \in Nat :
        /\ seen'[s] = t /\ admitted[s] = n /\ admitted'[s] = n + 1 => Since(s, t, n)'
        /\ Since(s, t, n) => Since(s, t, n)' \/ admitted'[s] = 0

WindowBound ==
    \A s \in Slots : \A t, n \in Nat :
        Since(s, t, n) =>
            (admitted[s] - n) * Period <= MaxBurst * Period + (clock - t) + Grain

(* The limit a user expects: from the arrival t of any admitted packet on, a  *)
(* bucket admits no more than the burst and one packet per Period of the time *)
(* since t, plus the time that one token takes at the slowest rate.           *)
THEOREM EveryWindowIsLimited == Spec => [][WindowStep]_vars /\ []WindowBound
  <1> USE GrainType, PeriodFacts, DataplaneAssumption
  <1>1. TypeOK /\ BucketsSound => WindowBound
    <2> SUFFICES ASSUME TypeOK, BucketsSound, NEW s \in Slots, NEW t \in Nat, NEW n \in Nat,
                        Since(s, t, n)
                 PROVE  (admitted[s] - n) * Period
                            <= MaxBurst * Period + (clock - t) + Grain
      BY DEF WindowBound
    <2> DEFINE w == (admitted[s] - n) * Period   b == MaxBurst * Period
    <2>1. /\ tat[s] \in Nat /\ admitted[s] \in Nat /\ tat[s] <= clock + b
      BY ScheduleTypes
    <2>2. w \in Int /\ b \in Nat /\ clock \in Nat /\ tat[s] >= t - Grain + w
      BY <2>1 DEF Since, TypeOK
    <2> HIDE DEF w, b
    <2>3. w <= b + (clock - t) + Grain
      BY <2>1, <2>2
    <2> QED BY <2>3 DEF w, b
  <1>2. TypeOK /\ BucketsSound /\ [Limiter!Next]_Limiter!vars => WindowStep
    <2> SUFFICES ASSUME TypeOK, BucketsSound, [Limiter!Next]_Limiter!vars,
                        NEW s \in Slots, NEW t \in Nat, NEW n \in Nat
                 PROVE  /\ seen'[s] = t /\ admitted[s] = n /\ admitted'[s] = n + 1
                              => Since(s, t, n)'
                        /\ Since(s, t, n) => Since(s, t, n)' \/ admitted'[s] = 0
      BY DEF WindowStep
    <2> DEFINE Goal == /\ seen'[s] = t /\ admitted[s] = n /\ admitted'[s] = n + 1
                              => Since(s, t, n)'
                       /\ Since(s, t, n) => Since(s, t, n)' \/ admitted'[s] = 0
    <2>1. /\ tat \in [Slots -> Nat] /\ admitted \in [Slots -> Nat]
          /\ seen = [r \in Slots |-> seen[r]]
      BY ScheduleTypes
    <2>2. tat[s] \in Nat /\ admitted[s] \in Nat
      BY <2>1
    <2>3. ASSUME admitted'[s] = admitted[s], tat'[s] \in Int, tat'[s] >= tat[s]
          PROVE  Goal
      <3>1. (admitted[s] - n) * Period \in Int
        BY <2>2
      <3>2. Since(s, t, n) => Since(s, t, n)'
        BY <2>2, <2>3, <3>1 DEF Since
      <3> QED BY <2>2, <2>3, <3>2
    <2>4. ASSUME admitted'[s] = 0 PROVE Goal
      BY <2>2, <2>4
    <2>5. ASSUME NEW at \in 0 .. clock, Limiter!Admit(s, at) PROVE Goal
      <3>1. PICK end \in (Limiter!Later(tat[s], at - Grain) + Period)
                           .. (clock + MaxBurst * Period) : tat' = [tat EXCEPT ![s] = end]
        BY <2>5 DEF Limiter!Admit, Limiter!Reserve
      <3>2. /\ seen'[s] = at /\ admitted'[s] = admitted[s] + 1 /\ tat'[s] = end
        BY <2>1, <2>5, <3>1 DEF Limiter!Admit
      <3>3. end \in Int /\ end >= tat[s] + Period /\ end >= at - Grain + Period
        BY <2>2, <3>1 DEF Limiter!Later, TypeOK
      <3>4. ASSUME at = t, admitted[s] = n PROVE Since(s, t, n)'
        <4>1. (admitted'[s] - n) * Period = Period
          BY <2>2, <3>2, <3>4
        <4> QED BY <3>2, <3>3, <3>4, <4>1 DEF Since
      <3>5. ASSUME Since(s, t, n) PROVE Since(s, t, n)'
        <4> DEFINE w == (admitted[s] - n) * Period
        <4>1. (admitted'[s] - n) * Period = w + Period /\ w \in Int
          BY <2>2, <3>2
        <4>2. tat[s] >= t - Grain + w
          BY <3>5 DEF Since
        <4> HIDE DEF w
        <4>3. end >= t - Grain + (w + Period)
          BY <2>2, <3>3, <4>1, <4>2
        <4> QED BY <3>2, <4>1, <4>3 DEF Since
      <3> QED BY <3>2, <3>4, <3>5
    <2>6. ASSUME NEW b \in Slots, NEW at \in 0 .. clock,
                 Limiter!Open(b, at) \/ Limiter!Admit(b, at) \/ Limiter!Touch(b, at)
          PROVE  Goal
      <3>1. CASE b # s
        <4>1. tat'[s] = tat[s] /\ admitted'[s] = admitted[s]
          BY <2>1, <2>6, <3>1
             DEF Limiter!Open, Limiter!Admit, Limiter!Touch, Limiter!Reserve
        <4> QED BY <2>2, <2>3, <4>1
      <3>2. CASE b = s /\ Limiter!Open(b, at)
        <4>1. admitted'[s] = 0
          BY <2>1, <3>2 DEF Limiter!Open
        <4> QED BY <2>4, <4>1
      <3>3. CASE b = s /\ Limiter!Touch(b, at)
        <4>1. PICK end \in tat[s] .. (clock + MaxBurst * Period) :
                 tat' = [tat EXCEPT ![s] = end]
          BY <3>3 DEF Limiter!Touch, Limiter!Reserve
        <4>2. end \in Int /\ end >= tat[s] /\ tat'[s] = end /\ admitted'[s] = admitted[s]
          BY <2>1, <2>2, <3>3, <4>1 DEF Limiter!Touch
        <4> QED BY <2>3, <4>2
      <3> QED BY <2>5, <2>6, <3>1, <3>2, <3>3
    <2>7. CASE Limiter!Advance \/ UNCHANGED Limiter!vars
      <3>1. tat'[s] = tat[s] /\ admitted'[s] = admitted[s]
        BY <2>7 DEF Limiter!Advance, Limiter!vars
      <3> QED BY <2>2, <2>3, <3>1
    <2> QED BY <2>6, <2>7 DEF Limiter!Next
  <1> QED BY <1>1, <1>2, LimiterIsImplemented, TypeCorrect, BucketsStaySound, PTL
          DEF RateIsScheduled, Limiter!Spec
=============================================================================
