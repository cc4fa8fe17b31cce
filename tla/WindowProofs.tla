---------------------------- MODULE WindowProofs ----------------------------
(***************************************************************************)
(* Per-second measurements, for any sources, packets, thresholds, timeouts *)
(* and intervals, whatever is deleted and created between two snapshots:   *)
(* no row says more than the source sent, a row about an entry that stayed *)
(* is exact, and its verdict is the one the source earned.                 *)
(***************************************************************************)
EXTENDS Window, TLAPS

-----------------------------------------------------------------------------
(* The inductive invariant. *)

Counts == [Fields -> Nat]
State  == [count : Counts, port_bitmap : SUBSET Nat]

Types ==
    /\ srcstate \in [Sources -> State \cup {Missing}]
    /\ prev \in [Sources -> State \cup {Missing}]
    /\ pc \in {"wait", "judge", "dead"} /\ base \in BOOLEAN
    /\ secs \in 0 .. MaxSecs /\ cycle \in 0 .. CLEANUP_EVERY - 1
    /\ since \in [Sources -> Counts] /\ kept \in [Sources -> BOOLEAN]

(* Every row is about at least one packet and a time that passed. *)
RowsMeasure ==
    \A ip \in Sources : rows[ip] # Missing =>
        rows[ip].d.packets \in Nat \ {0} /\ rows[ip].secs > 0

(* What an entry counts, which is nothing if there is none. *)
Total(state) == IF state = Missing THEN Nothing ELSE state.count

(* While its entry stays, the counters of a source are those of the snapshot *)
(* and what it sent since; an entry made after a deletion holds no more than *)
(* the packets sent since the snapshot.                                      *)
Balanced ==
    base => \A ip \in Sources :
        IF kept[ip]
        THEN \A f \in Fields : Total(srcstate[ip])[f] = Total(prev[ip])[f] + since[ip][f]
        ELSE Total(srcstate[ip]).packets <= since[ip].packets

Measuring == Types /\ RowsMeasure /\ Balanced
-----------------------------------------------------------------------------
(* Entries and their counters. *)

LEMMA NothingType == Nothing \in Counts /\ \A f \in Fields : Nothing[f] = 0
  BY DEF Nothing, Counts

LEMMA FieldNames == {"packets", "bytes", "syn", "fin", "icmp"} = Fields
  BY DEF Fields

(* An entry is not the mark of a missing one. *)
LEMMA StateIsThere ==
    ASSUME NEW s \in State
    PROVE  s # Missing
  BY DEF State, Missing

LEMMA TotalType ==
    ASSUME NEW s \in State \cup {Missing}
    PROVE  Total(s) \in Counts /\ (s # Missing => s \in State /\ Total(s) = s.count)
  BY NothingType DEF Total, State

(* A packet adds the same to whatever was counted before. *)
LEMMA PacketAdds ==
    ASSUME NEW p \in Packets
    PROVE  \E more \in Counts : \A c \in Counts :
               /\ Counted(c, p) \in Counts
               /\ \A f \in Fields : Counted(c, p)[f] = c[f] + more[f]
  <1> DEFINE more == [packets |-> 1, bytes |-> p.bytes, syn |-> p.syn,
                      fin |-> p.fin, icmp |-> p.icmp]
  <1>1. p.bytes \in Nat /\ p.syn \in Nat /\ p.fin \in Nat /\ p.icmp \in Nat
    BY WindowAssumption
  <1>2. more \in Counts
    BY <1>1 DEF Counts, Fields
  <1>3. ASSUME NEW c \in Counts
        PROVE  /\ Counted(c, p) \in Counts
               /\ \A f \in Fields : Counted(c, p)[f] = c[f] + more[f]
    <2>1. /\ c.packets + 1 \in Nat /\ c.bytes + p.bytes \in Nat /\ c.syn + p.syn \in Nat
          /\ c.fin + p.fin \in Nat /\ c.icmp + p.icmp \in Nat
      BY <1>1, <1>3 DEF Counts, Fields
    <2>2. Counted(c, p) \in Counts
      BY <2>1 DEF Counts, Fields, Counted
    <2>3. \A f \in Fields : Counted(c, p)[f] = c[f] + more[f]
      BY DEF Fields, Counted
    <2> QED BY <2>2, <2>3
  <1> QED BY <1>2, <1>3

-----------------------------------------------------------------------------
(* What Window.update computes. *)

(* An entry that stayed was not recreated: the difference is what the source *)
(* sent.                                                                     *)
LEMMA KeptIsExact ==
    ASSUME Types, Balanced, base, NEW ip \in Sources, kept[ip], srcstate[ip] # Missing
    PROVE  Difference(ip) = since[ip]
  <1>1. /\ srcstate[ip] \in State \cup {Missing} /\ prev[ip] \in State \cup {Missing}
        /\ since[ip] \in Counts
    BY DEF Types
  <1>2. /\ Total(srcstate[ip]) \in Counts /\ Total(prev[ip]) \in Counts
        /\ Total(srcstate[ip]) = srcstate[ip].count
        /\ prev[ip] # Missing => Total(prev[ip]) = prev[ip].count
        /\ prev[ip] = Missing => Total(prev[ip]) = Nothing
    BY <1>1, TotalType DEF Total
  <1>3. \A f \in Fields : Total(srcstate[ip])[f] = Total(prev[ip])[f] + since[ip][f]
    BY DEF Balanced
  <1>4. /\ \A f \in Fields : since[ip][f] \in Nat
        /\ \A f \in Fields : Total(prev[ip])[f] \in Nat
    BY <1>1, <1>2 DEF Counts
  <1>5. Old(ip) = Total(prev[ip])
    <2>1. CASE prev[ip] = Missing
      BY <1>2, <2>1 DEF Old
    <2>2. CASE prev[ip] # Missing
      <3>1. Total(srcstate[ip]).packets = Total(prev[ip]).packets + since[ip].packets
        BY <1>3, FieldNames
      <3>2. since[ip].packets \in Nat /\ Total(prev[ip]).packets \in Nat
        BY <1>4, FieldNames
      <3>3. ~Recreated(srcstate[ip].count, prev[ip].count)
        BY <1>2, <2>2, <3>1, <3>2 DEF Recreated
      <3> QED BY <1>2, <2>2, <3>3 DEF Old
    <2> QED BY <2>1, <2>2
  <1>6. \A f \in Fields : srcstate[ip].count[f] - Old(ip)[f] = since[ip][f]
    BY <1>2, <1>3, <1>4, <1>5
  <1>7. Difference(ip) = [f \in Fields |-> since[ip][f]]
    BY <1>6 DEF Difference
  <1> QED BY <1>1, <1>7 DEF Counts

(* Whatever happened to the entry, the difference is no more than that. *)
LEMMA NeverMore ==
    ASSUME Types, Balanced, base, NEW ip \in Sources, srcstate[ip] # Missing
    PROVE  /\ Difference(ip).packets \in Int
           /\ Difference(ip).packets <= since[ip].packets
  <1>1. /\ srcstate[ip] \in State \cup {Missing} /\ prev[ip] \in State \cup {Missing}
        /\ since[ip] \in Counts
    BY DEF Types
  <1>2. since[ip].packets \in Nat
    BY <1>1, FieldNames DEF Counts
  <1>3. CASE kept[ip]
    BY <1>2, <1>3, KeptIsExact
  <1>4. CASE ~kept[ip]
    <2>1. srcstate[ip].count \in Counts /\ srcstate[ip].count.packets <= since[ip].packets
      <3>1. Total(srcstate[ip]) = srcstate[ip].count /\ Total(srcstate[ip]) \in Counts
        BY <1>1, TotalType
      <3>2. Total(srcstate[ip]).packets <= since[ip].packets
        BY <1>4 DEF Balanced
      <3> QED BY <3>1, <3>2
    <2>2. Old(ip) \in Counts
      BY <1>1, NothingType, TotalType DEF Old, State
    <2>3. Difference(ip).packets = srcstate[ip].count.packets - Old(ip).packets
      BY FieldNames DEF Difference
    <2>4. srcstate[ip].count.packets \in Nat /\ Old(ip).packets \in Nat
      BY <2>1, <2>2, FieldNames DEF Counts
    <2> QED BY <1>2, <2>1, <2>3, <2>4
  <1> QED BY <1>3, <1>4

LEMMA RowIsThere ==
    ASSUME NEW ip
    PROVE  Row(ip) # Missing
  BY DEF Row, Missing

(* The rows Window.update returns, and when there is one. *)
LEMMA PollRows ==
    ASSUME Types, Poll, NEW ip \in Sources
    PROVE  /\ rows'[ip] # Missing <=> pc' = "judge" /\ Snapshot /\ ip \in Measured
           /\ rows'[ip] # Missing => rows'[ip] = Row(ip)
  <1> DEFINE ips == IF Snapshot THEN Measured ELSE {}
  <1>1. /\ pc' = IF Raises(ips) THEN "dead" ELSE "judge"
        /\ rows' = IF Raises(ips) THEN NoRows
                   ELSE [s \in Sources |-> IF s \in ips THEN Row(s) ELSE Missing]
    BY DEF Poll
  <1>2. ip \in ips <=> Snapshot /\ ip \in Measured
    OBVIOUS
  <1> HIDE DEF ips
  <1>3. NoRows[ip] = Missing
    BY DEF NoRows
  <1>4. CASE Raises(ips)
    BY <1>1, <1>3, <1>4
  <1>5. CASE ~Raises(ips)
    <2>1. pc' = "judge" /\ rows'[ip] = IF ip \in ips THEN Row(ip) ELSE Missing
      BY <1>1, <1>5
    <2> QED BY <1>2, <2>1, RowIsThere
  <1> QED BY <1>4, <1>5

-----------------------------------------------------------------------------
(* Each action preserves the invariant. *)

LEMMA SendMeasures ==
    ASSUME Measuring, NEW ip \in Sources, NEW p \in Packets, Send(ip, p)
    PROVE  Measuring'
  <1> USE DEF Measuring, window
  <1> DEFINE old  == Total(srcstate[ip])
             bits == (IF srcstate[ip] = Missing THEN {} ELSE srcstate[ip].port_bitmap)
                        \cup Bits(p.port)
             new  == [count |-> Counted(old, p), port_bitmap |-> bits]
  <1>1. PICK more \in Counts : \A c \in Counts :
               /\ Counted(c, p) \in Counts
               /\ \A f \in Fields : Counted(c, p)[f] = c[f] + more[f]
    BY PacketAdds
  <1>2. srcstate[ip] \in State \cup {Missing} /\ since[ip] \in Counts
    BY DEF Types
  <1>3. old \in Counts
    BY <1>2, TotalType
  <1>4. bits \in SUBSET Nat
    BY <1>2, WindowAssumption DEF State, Bits
  <1>5. /\ srcstate' = [srcstate EXCEPT ![ip] = new]
        /\ since' = [since EXCEPT ![ip] = Counted(since[ip], p)]
        /\ UNCHANGED <<pc, base, prev, secs, rows, cycle, kept>>
    BY DEF Send, Total
  <1> HIDE DEF old, bits
  <1>6. new \in State
    BY <1>1, <1>3, <1>4 DEF State
  <1>7. Total(new) = Counted(old, p)
    BY <1>6, StateIsThere DEF Total
  <1> HIDE DEF new
  <1>8. Types'
    BY <1>1, <1>2, <1>5, <1>6 DEF Types
  <1>9. RowsMeasure'
    BY <1>5 DEF RowsMeasure
  <1>10. Balanced'
    <2> SUFFICES ASSUME base, NEW s \in Sources
                 PROVE  IF kept[s]
                        THEN \A f \in Fields : Total(srcstate'[s])[f]
                                                  = Total(prev[s])[f] + since'[s][f]
                        ELSE Total(srcstate'[s]).packets <= since'[s].packets
      BY <1>5 DEF Balanced
    <2>1. CASE s # ip
      <3>1. srcstate'[s] = srcstate[s] /\ since'[s] = since[s]
        BY <1>5, <2>1 DEF Types
      <3> QED BY <3>1 DEF Balanced
    <2>2. CASE s = ip
      <3>1. srcstate'[s] = new /\ since'[s] = Counted(since[s], p)
        BY <1>5, <2>2 DEF Types
      <3>2. /\ \A f \in Fields : Total(srcstate'[s])[f] = old[f] + more[f]
            /\ \A f \in Fields : since'[s][f] = since[s][f] + more[f]
        BY <1>1, <1>2, <1>3, <1>7, <2>2, <3>1
      <3>3. /\ \A f \in Fields : old[f] \in Nat
            /\ \A f \in Fields : more[f] \in Nat
            /\ \A f \in Fields : since[s][f] \in Nat
            /\ \A f \in Fields : Total(prev[s])[f] \in Nat
        BY <1>1, <1>2, <1>3, <2>2, TotalType DEF Types, Counts
      <3>4. CASE kept[s]
        <4>1. \A f \in Fields : old[f] = Total(prev[s])[f] + since[s][f]
          BY <2>2, <3>4 DEF Balanced, old
        <4> QED BY <3>2, <3>3, <3>4, <4>1
      <3>5. CASE ~kept[s]
        <4>1. old.packets <= since[s].packets
          BY <2>2, <3>5 DEF Balanced, old
        <4>2. "packets" \in Fields
          BY FieldNames
        <4> QED BY <3>2, <3>3, <3>5, <4>1, <4>2
      <3> QED BY <3>4, <3>5
    <2> QED BY <2>1, <2>2
  <1> QED BY <1>8, <1>9, <1>10

(* Deleting entries, by whomever. *)
LEMMA ForgetMeasures ==
    ASSUME Types, Balanced, NEW ips, Forget(ips), UNCHANGED <<base, prev, since>>
    PROVE  /\ srcstate' \in [Sources -> State \cup {Missing}]
           /\ kept' \in [Sources -> BOOLEAN]
           /\ Balanced'
  <1>1. /\ \A s \in Sources : srcstate'[s] = IF s \in ips THEN Missing ELSE srcstate[s]
        /\ \A s \in Sources : kept'[s] = (kept[s] /\ (s \in ips => srcstate[s] = Missing))
    BY DEF Forget
  <1>2. srcstate' \in [Sources -> State \cup {Missing}]
    BY DEF Forget, Types
  <1>3. kept' \in [Sources -> BOOLEAN]
    BY DEF Forget, Types
  <1>4. Balanced'
    <2> SUFFICES ASSUME base, NEW s \in Sources
                 PROVE  IF kept'[s]
                        THEN \A f \in Fields : Total(srcstate'[s])[f]
                                                  = Total(prev[s])[f] + since[s][f]
                        ELSE Total(srcstate'[s]).packets <= since[s].packets
      BY DEF Balanced
    <2>1. CASE s \in ips /\ srcstate[s] # Missing
      <3>1. Total(srcstate'[s]) = Nothing /\ ~kept'[s]
        BY <1>1, <2>1 DEF Total
      <3>2. Nothing.packets = 0 /\ since[s].packets \in Nat
        BY FieldNames, NothingType DEF Types, Counts
      <3> QED BY <3>1, <3>2
    <2>2. CASE ~(s \in ips /\ srcstate[s] # Missing)
      <3>1. srcstate'[s] = srcstate[s] /\ (kept'[s] <=> kept[s])
        BY <1>1, <2>2 DEF Types
      <3> QED BY <3>1 DEF Balanced
    <2> QED BY <2>1, <2>2
  <1> QED BY <1>2, <1>3, <1>4

LEMMA PollMeasures ==
    ASSUME Measuring, Poll
    PROVE  Measuring'
  <1> USE DEF Measuring
  <1>1. /\ base' = TRUE /\ secs' = 0 /\ prev' = srcstate
        /\ since' = [ip \in Sources |-> Nothing] /\ kept' = [ip \in Sources |-> TRUE]
        /\ pc' \in {"judge", "dead"} /\ UNCHANGED <<srcstate, cycle>>
    BY DEF Poll, Replaced, read_states
  <1>2. Types'
    <2>1. 0 \in 0 .. MaxSecs
      BY WindowAssumption
    <2> QED BY <1>1, <2>1, NothingType DEF Types
  <1>3. RowsMeasure'
    <2> SUFFICES ASSUME NEW ip \in Sources, rows'[ip] # Missing
                 PROVE  rows'[ip].d.packets \in Nat \ {0} /\ rows'[ip].secs > 0
      BY DEF RowsMeasure
    <2>1. Snapshot /\ ip \in Measured /\ rows'[ip] = Row(ip)
      BY PollRows
    <2>2. /\ srcstate[ip] # Missing /\ ~(Difference(ip).packets <= 0)
          /\ base /\ secs > 0
      BY <2>1 DEF Measured, Silent, Snapshot
    <2>3. Difference(ip).packets \in Int
      BY <2>2, NeverMore
    <2>4. rows'[ip].d = Difference(ip) /\ rows'[ip].secs = secs
      BY <2>1 DEF Row
    <2> QED BY <2>2, <2>3, <2>4
  <1>4. Balanced'
    <2> SUFFICES ASSUME NEW ip \in Sources, NEW f \in Fields
                 PROVE  Total(srcstate[ip])[f] = Total(srcstate[ip])[f] + Nothing[f]
      BY <1>1 DEF Balanced
    <2>1. Total(srcstate[ip])[f] \in Nat
      BY TotalType DEF Types, Counts
    <2> QED BY <2>1, NothingType
  <1> QED BY <1>2, <1>3, <1>4

LEMMA NextMeasures ==
    ASSUME Measuring, Next
    PROVE  Measuring'
  <1> USE DEF Measuring, window
  <1>1. ASSUME NEW ip \in Sources, Reset(ip) PROVE Measuring'
    <2>1. /\ Forget({ip})
          /\ UNCHANGED <<pc, base, prev, secs, rows, cycle, since>>
      BY <1>1 DEF Reset
    <2>2. /\ srcstate' \in [Sources -> State \cup {Missing}]
          /\ kept' \in [Sources -> BOOLEAN] /\ Balanced'
      BY <2>1, ForgetMeasures
    <2> QED BY <2>1, <2>2 DEF Types, RowsMeasure
  <1>2. ASSUME Second PROVE Measuring'
    <2>1. secs' \in 0 .. MaxSecs
      BY <1>2, WindowAssumption DEF Second, Types
    <2>2. UNCHANGED <<srcstate, pc, base, prev, rows, cycle, since, kept>>
      BY <1>2 DEF Second
    <2> QED BY <2>1, <2>2 DEF Types, RowsMeasure, Balanced
  <1>3. ASSUME EndStep PROVE Measuring'
    <2>1. /\ Forget({ip \in Sources : cycle = 0 /\ idle[ip] > IDLE_TIMEOUT_S})
          /\ UNCHANGED <<base, prev, secs, since>>
          /\ pc' = "wait" /\ rows' = NoRows
      BY <1>3 DEF EndStep
    <2>2. /\ srcstate' \in [Sources -> State \cup {Missing}]
          /\ kept' \in [Sources -> BOOLEAN] /\ Balanced'
      BY <2>1, ForgetMeasures
    <2>3. cycle' \in 0 .. CLEANUP_EVERY - 1
      <3>1. cycle \in Nat /\ CLEANUP_EVERY \in Nat \ {0} /\ cycle' = (cycle + 1) % CLEANUP_EVERY
        BY <1>3, WindowAssumption DEF EndStep, Types
      <3> QED BY <3>1
    <2> QED BY <2>1, <2>2, <2>3 DEF Types, RowsMeasure, NoRows
  <1>4. ASSUME Restart PROVE Measuring'
    <2>1. /\ pc' = "wait" /\ base' = FALSE /\ prev' = NoRows /\ secs' = 0 /\ cycle' = 0
          /\ rows' = NoRows /\ since' = [ip \in Sources |-> Nothing]
          /\ kept' = [ip \in Sources |-> TRUE] /\ UNCHANGED srcstate
      BY <1>4 DEF Restart, Start
    <2>2. 0 \in 0 .. MaxSecs /\ 0 \in 0 .. CLEANUP_EVERY - 1
      BY WindowAssumption
    <2> QED BY <2>1, <2>2, NothingType DEF Types, RowsMeasure, Balanced, NoRows
  <1> QED BY <1>1, <1>2, <1>3, <1>4, SendMeasures, PollMeasures DEF Next

(* The balance of snapshots and counters holds in every reachable state. *)
THEOREM WindowInvariant == Spec => []Measuring
  <1>1. Init => Measuring
    <2>1. 0 \in 0 .. MaxSecs /\ 0 \in 0 .. CLEANUP_EVERY - 1
      BY WindowAssumption
    <2> QED BY <2>1, NothingType DEF Init, Measuring, Types, RowsMeasure, Balanced, NoRows
  <1>2. Measuring /\ [Next]_vars => Measuring'
    <2>1. ASSUME Measuring, UNCHANGED vars PROVE Measuring'
      BY <2>1 DEF Measuring, Types, RowsMeasure, Balanced, vars, window
    <2> QED BY <2>1, NextMeasures
  <1> QED BY <1>1, <1>2, PTL DEF Spec

(* Counters and time stay in their ranges, and no row is about no packets    *)
(* or no time: every ratio that classify compares is defined.                *)
THEOREM WindowTypeCorrect == Spec => []TypeOK
  <1>1. Measuring => TypeOK
    <2> SUFFICES ASSUME Measuring PROVE TypeOK
      OBVIOUS
    <2>1. \A ip \in Sources : srcstate[ip] # Missing =>
              \A f \in Fields : srcstate[ip].count[f] \in Nat
      BY TotalType DEF Measuring, Types, Counts
    <2> QED BY <2>1 DEF Measuring, Types, RowsMeasure, TypeOK
  <1> QED BY <1>1, WindowInvariant, PTL

-----------------------------------------------------------------------------
(* Rows and verdicts. *)

LEMMA OnlyPollPolls ==
    ASSUME Next, Polled
    PROVE  Poll
  BY DEF Next, Polled, Reset, Send, Second, EndStep, Restart, window

(* "judge each source on what it did in that second only": for any deletions *)
(* and recreations between two snapshots, no row has more packets than the   *)
(* source sent between them.                                                 *)
THEOREM RowsNeverOverstate == Spec => NeverOverstates
  <1> DEFINE Step == \A ip \in Sources : Polled /\ rows'[ip] # Missing =>
                         rows'[ip].d.packets <= since[ip].packets
  <1>1. ASSUME Measuring, Next PROVE Step
    <2> SUFFICES ASSUME NEW ip \in Sources, Polled, rows'[ip] # Missing
                 PROVE  rows'[ip].d.packets <= since[ip].packets
      OBVIOUS
    <2>1. Poll
      BY <1>1, OnlyPollPolls
    <2>2. Snapshot /\ ip \in Measured /\ rows'[ip] = Row(ip)
      BY <1>1, <2>1, PollRows DEF Measuring
    <2>3. Difference(ip).packets <= since[ip].packets
      BY <1>1, <2>2, NeverMore DEF Measuring, Measured, Snapshot
    <2> QED BY <2>2, <2>3 DEF Row
  <1>2. Measuring /\ [Next]_vars => [Step]_vars
    BY <1>1
  <1> QED BY <1>2, WindowInvariant, PTL DEF Spec, NeverOverstates

(* What a poll says of a source whose entry stayed. *)
LEMMA PollIsExact ==
    ASSUME Measuring, Poll, pc' = "judge", Snapshot, NEW ip \in Sources, kept[ip]
    PROVE  IF since[ip].packets > 0 THEN rows'[ip] = Row(ip) /\ Row(ip).d = since[ip]
           ELSE rows'[ip] = Missing
  <1> USE DEF Measuring
  <1>1. base /\ srcstate[ip] \in State \cup {Missing} /\ since[ip] \in Counts
        /\ prev[ip] \in State \cup {Missing}
    BY DEF Types, Snapshot
  <1>2. since[ip].packets \in Nat
    BY <1>1, FieldNames DEF Counts
  <1>3. rows'[ip] # Missing <=> ip \in Measured
    BY PollRows
  <1>4. CASE srcstate[ip] = Missing
    <2>1. Total(srcstate[ip]).packets = 0
      BY <1>4, FieldNames, NothingType DEF Total
    <2>2. Total(srcstate[ip]).packets = Total(prev[ip]).packets + since[ip].packets
      BY <1>1, FieldNames DEF Balanced
    <2>3. Total(prev[ip]).packets \in Nat
      BY <1>1, FieldNames, TotalType DEF Counts
    <2>4. since[ip].packets = 0
      BY <1>2, <2>1, <2>2, <2>3
    <2> QED BY <1>3, <1>4, <2>4 DEF Measured
  <1>5. CASE srcstate[ip] # Missing
    <2>1. Difference(ip) = since[ip]
      BY <1>1, <1>5, KeptIsExact
    <2>2. ip \in Measured <=> since[ip].packets > 0
      BY <1>2, <1>5, <2>1 DEF Measured, Silent
    <2>3. rows'[ip] # Missing => rows'[ip] = Row(ip)
      BY PollRows
    <2>4. Row(ip).d = Difference(ip)
      BY DEF Row
    <2> QED BY <1>3, <2>1, <2>2, <2>3, <2>4
  <1> QED BY <1>4, <1>5

(* "every source that sent packets since the previous call": a source whose  *)
(* entry stayed has a row exactly if it sent something, and the row is what  *)
(* it sent.                                                                  *)
THEOREM RowsAreExact == Spec => ExactWhileKept
  <1> DEFINE Step ==
          \A ip \in Sources : Polled /\ pc' = "judge" /\ Snapshot /\ kept[ip] =>
              IF since[ip].packets > 0 THEN rows'[ip] # Missing /\ rows'[ip].d = since[ip]
              ELSE rows'[ip] = Missing
  <1>1. ASSUME Measuring, Next PROVE Step
    BY <1>1, OnlyPollPolls, PollIsExact, RowIsThere
  <1>2. Measuring /\ [Next]_vars => [Step]_vars
    BY <1>1
  <1> QED BY <1>2, WindowInvariant, PTL DEF Spec, ExactWhileKept

(* The rules by their places. *)
LEMMA RulesByPlace ==
    ASSUME NEW row
    PROVE  /\ Rules(row)[1][1] = "volumetric flood" /\ Rules(row)[2][1] = "port scan"
           /\ Rules(row)[3][1] = "syn flood" /\ Rules(row)[4][1] = "icmp flood"
           /\ Rules(row)[1][2] <=> (row.d.packets > FLOOD_PPS * row.secs
                                       /\ row.d.bytes < SMALL_PKT * row.d.packets)
           /\ Rules(row)[3][2] <=> SynFlood(row.d)
  BY DEF Rules

(* The first rule that matches names the reason: "volumetric flood" whenever *)
(* the first one does, "syn flood" only if the third one does.               *)
LEMMA ReasonsByRule ==
    ASSUME NEW row
    PROVE  /\ classify(row) = "volumetric flood"
                 <=> (row.d.packets > FLOOD_PPS * row.secs
                         /\ row.d.bytes < SMALL_PKT * row.d.packets)
           /\ classify(row) = "syn flood" => SynFlood(row.d)
  <1> DEFINE matching == {i \in 1 .. 4 : Rules(row)[i][2]}
             first == CHOOSE i \in matching : \A j \in matching : i <= j
  <1>1. /\ 1 \in matching <=> (row.d.packets > FLOOD_PPS * row.secs
                                  /\ row.d.bytes < SMALL_PKT * row.d.packets)
        /\ 3 \in matching => SynFlood(row.d)
    <2>1. 1 \in 1 .. 4 /\ 3 \in 1 .. 4
      OBVIOUS
    <2>2. (1 \in matching <=> Rules(row)[1][2]) /\ (3 \in matching <=> Rules(row)[3][2])
      BY <2>1, Zenon
    <2> HIDE DEF matching
    <2> QED BY <2>2, RulesByPlace, Zenon
  <1>2. /\ Rules(row)[1][1] = "volumetric flood" /\ Rules(row)[2][1] = "port scan"
        /\ Rules(row)[3][1] = "syn flood" /\ Rules(row)[4][1] = "icmp flood"
    BY RulesByPlace
  <1>3. classify(row) = IF matching = {} THEN "none" ELSE Rules(row)[first][1]
    BY DEF classify
  <1>4. matching \subseteq 1 .. 4
    OBVIOUS
  <1> HIDE DEF matching
  <1>5. CASE matching = {}
    BY <1>1, <1>3, <1>5
  <1>6. CASE matching # {}
    <2>1. \E i \in matching : \A j \in matching : i <= j
      <3>1. 1 \in matching \/ 2 \in matching \/ 3 \in matching \/ 4 \in matching
        <4>1. PICK i : i \in matching
          BY <1>6
        <4>2. i \in 1 .. 4
          BY <1>4, <4>1
        <4>3. i = 1 \/ i = 2 \/ i = 3 \/ i = 4
          BY <4>2
        <4> QED BY <4>1, <4>3, Zenon
      <3>2. CASE 1 \in matching
        BY <1>4, <3>2
      <3>3. CASE 1 \notin matching /\ 2 \in matching
        BY <1>4, <3>3
      <3>4. CASE 1 \notin matching /\ 2 \notin matching /\ 3 \in matching
        BY <1>4, <3>4
      <3>5. CASE 1 \notin matching /\ 2 \notin matching /\ 3 \notin matching
        BY <1>4, <3>1, <3>5
      <3> QED BY <3>2, <3>3, <3>4, <3>5
    <2>2. first \in matching /\ \A j \in matching : first <= j
      BY <2>1
    <2> HIDE DEF first
    <2>3. first \in 1 .. 4 /\ (1 \in matching <=> first = 1)
      BY <1>4, <2>2
    <2>4. classify(row) = Rules(row)[first][1]
      BY <1>3, <1>6
    <2>5. CASE first = 1
      <3>1. classify(row) = "volumetric flood" /\ 1 \in matching
        BY <1>2, <2>3, <2>4, <2>5
      <3> QED BY <1>1, <3>1
    <2>6. CASE first # 1
      <3>1. 1 \notin matching
        BY <2>3, <2>6
      <3>2. first = 2 \/ first = 3 \/ first = 4
        BY <2>3, <2>6
      <3>3. /\ classify(row) # "volumetric flood"
            /\ classify(row) = "syn flood" => first = 3
        BY <1>2, <2>4, <3>2
      <3> QED BY <1>1, <2>2, <3>1, <3>3
    <2> QED BY <2>5, <2>6
  <1> QED BY <1>5, <1>6

(* A source that closed all but one of what it opened is under any ratio. *)
LEMMA ClosersAreUnderTheRatio ==
    ASSUME NEW d \in Counts, d.syn <= d.fin + 1
    PROVE  ~SynFlood(d)
  <1>1. d.syn \in Nat /\ d.fin \in Nat
    BY FieldNames DEF Counts
  <1>2. \A r \in Nat \ {0}, n \in Nat : n <= r * n
    OBVIOUS
  <1>3. d.fin + 1 \in Nat /\ d.fin + 1 > 0 /\ SYN_FIN_RATIO * (d.fin + 1) \in Nat
        /\ d.fin + 1 <= SYN_FIN_RATIO * (d.fin + 1)
    BY <1>1, <1>2, WindowAssumption
  <1> QED BY <1>1, <1>3 DEF SynFlood, Exceeds

(* For a source whose entry stayed the verdict is earned, for any thresholds *)
(* and any traffic: a volumetric flood is exactly a source that sent that    *)
(* many small packets, and one that closes what it opens is never called a   *)
(* SYN flood.                                                                *)
THEOREM EarnedVerdicts == Spec => VerdictsAreEarned
  <1> DEFINE Earned(s, verdict) ==
                 /\ (verdict = "volumetric flood")
                      <=> (s.packets > FLOOD_PPS * secs /\ s.bytes < SMALL_PKT * s.packets)
                 /\ s.syn <= s.fin + 1 => verdict # "syn flood"
             Step == \A ip \in Sources : Polled /\ rows'[ip] # Missing /\ kept[ip] =>
                         LET s == since[ip]
                             verdict == classify(rows'[ip])
                         IN  Earned(s, verdict)
  <1>1. ASSUME Measuring, Next PROVE Step
    <2> SUFFICES ASSUME NEW ip \in Sources, Polled, rows'[ip] # Missing, kept[ip]
                 PROVE  Earned(since[ip], classify(rows'[ip]))
      OBVIOUS
    <2>1. Poll
      BY <1>1, OnlyPollPolls
    <2>2. pc' = "judge" /\ Snapshot
      BY <1>1, <2>1, PollRows DEF Measuring
    <2>3. rows'[ip] = Row(ip) /\ Row(ip).d = since[ip]
      BY <1>1, <2>1, <2>2, PollIsExact
    <2>4. Row(ip).secs = secs
      BY DEF Row
    <2>5. since[ip] \in Counts
      BY <1>1 DEF Measuring, Types
    <2>6. (classify(Row(ip)) = "volumetric flood")
             <=> (since[ip].packets > FLOOD_PPS * secs
                     /\ since[ip].bytes < SMALL_PKT * since[ip].packets)
      BY <2>3, <2>4, ReasonsByRule
    <2>7. since[ip].syn <= since[ip].fin + 1 => classify(Row(ip)) # "syn flood"
      BY <2>3, <2>5, ReasonsByRule, ClosersAreUnderTheRatio
    <2> QED BY <2>3, <2>6, <2>7
  <1>2. Measuring /\ [Next]_vars => [Step]_vars
    BY <1>1
  <1> QED BY <1>2, WindowInvariant, PTL DEF Spec, VerdictsAreEarned
=============================================================================
