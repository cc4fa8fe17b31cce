------------------------------- MODULE Window -------------------------------
(***************************************************************************)
(* Per-second measurements: class Window and classify of control/detect.py *)
(* over the cumulative counters of srcstate, whose entries are deleted by  *)
(* the controller (remove_idle_states) and by fwctl reset and created anew *)
(* by the kernel.  The counters that rules look at are kept; fin and rst   *)
(* are only ever added up and are one counter here, `fin`.                 *)
(*                                                                         *)
(* Window treats each source by itself, and an entry is read under its     *)
(* lock; that entries are read one after another is BpfMap's matter.       *)
(***************************************************************************)
EXTENDS Integers, FiniteSets

CONSTANTS Sources,
          Packets,         \* [bytes, syn, fin, icmp, port]: what a source may send
          FLOOD_PPS, SMALL_PKT, SYN_PERCENT, SYN_FIN_RATIO, SCAN_PORTS, SCAN_PKT,
          IDLE_TIMEOUT_S,
          CLEANUP_EVERY,   \* cycles between two remove_idle_states
          Resets,          \* whether somebody runs fwctl reset
          MaxPackets,      \* bound: packets an entry counts
          MaxSecs          \* bound: seconds from one poll to the next

ASSUME WindowAssumption ==
    /\ Packets \subseteq [bytes : Nat, syn : 0 .. 1, fin : 0 .. 1, icmp : 0 .. 1, port : Nat]
    /\ {FLOOD_PPS, SMALL_PKT, SYN_PERCENT, SCAN_PORTS, SCAN_PKT} \subseteq Nat
    /\ SYN_FIN_RATIO \in Nat \ {0}
    /\ IDLE_TIMEOUT_S \in Nat /\ CLEANUP_EVERY \in Nat \ {0}
    /\ Resets \in BOOLEAN /\ MaxPackets \in Nat /\ MaxSecs \in Nat \ {0}

Fields == {"packets", "bytes", "syn", "fin", "icmp"}

VARIABLES srcstate,  \* source -> Missing, or its counters and port bitmap
          idle,      \* source -> seconds since last_seen, up to one past the timeout
          pc,        \* controller: "wait" for the interval, "judge" rows, "dead"
          base,      \* Window has a snapshot
          prev,      \* that snapshot
          secs,      \* time since
          rows,      \* what Window.update returned
          cycle,
          since,     \* history: what each source sent since the snapshot
          kept       \* history: its entry has not been deleted since

window == <<base, prev, secs, rows, cycle>>
vars == <<srcstate, idle, pc, window, since, kept>>

Missing == [packets |-> -1]
Nothing == [f \in Fields |-> 0]
NoRows  == [ip \in Sources |-> Missing]

Counted(c, p) == [packets |-> c.packets + 1, bytes |-> c.bytes + p.bytes,
                  syn |-> c.syn + p.syn, fin |-> c.fin + p.fin, icmp |-> c.icmp + p.icmp]

Start ==
    /\ pc' = "wait" /\ base' = FALSE /\ prev' = NoRows
    /\ secs' = 0 /\ rows' = NoRows /\ cycle' = 0

Init ==
    /\ srcstate = NoRows
    /\ idle = [ip \in Sources |-> 0]
    /\ pc = "wait" /\ base = FALSE /\ prev = NoRows
    /\ secs = 0 /\ rows = NoRows /\ cycle = 0
    /\ since = [ip \in Sources |-> Nothing]
    /\ kept = [ip \in Sources |-> TRUE]

-----------------------------------------------------------------------------
(* port_bitmap has a bit for each port modulo 64; ICMP and fragments have no *)
(* port, which is 0 here, and set none.                                      *)
Bits(port) == IF port = 0 THEN {} ELSE {port % 64}

(* The kernel counts a packet, in a new entry if there is none. *)
Send(ip, p) ==
    LET new == srcstate[ip] = Missing
        old == IF new THEN Nothing ELSE srcstate[ip].count
    IN
    /\ since[ip].packets < MaxPackets /\ old.packets < MaxPackets
    /\ srcstate' = [srcstate EXCEPT ![ip] =
            [count |-> Counted(old, p),
             port_bitmap |-> (IF new THEN {} ELSE srcstate[ip].port_bitmap) \cup Bits(p.port)]]
    /\ idle' = [idle EXCEPT ![ip] = 0]
    /\ since' = [since EXCEPT ![ip] = Counted(@, p)]
    /\ UNCHANGED <<pc, window, kept>>

Second ==
    /\ secs < MaxSecs /\ secs' = secs + 1
    /\ idle' = [ip \in Sources |-> IF idle[ip] > IDLE_TIMEOUT_S THEN idle[ip] ELSE idle[ip] + 1]
    /\ UNCHANGED <<srcstate, pc, base, prev, rows, cycle, since, kept>>

Forget(ips) ==
    /\ srcstate' = [ip \in Sources |-> IF ip \in ips THEN Missing ELSE srcstate[ip]]
    /\ kept' = [ip \in Sources |-> kept[ip] /\ (ip \in ips => srcstate[ip] = Missing)]

(* fwctl reset, for one source; the others are deleted one after another.   *)
Reset(ip) ==
    /\ Resets
    /\ Forget({ip})
    /\ UNCHANGED <<idle, pc, window, since>>

-----------------------------------------------------------------------------
(* Firewall.read_states: every entry, under its lock *)
read_states == srcstate

(* Window.update *)

(* Mutant of Recreated: the comparison also holds for an idle entry. *)
RecreatedOrIdle(cur, old) == cur.packets <= old.packets

(* "A smaller count means the entry was deleted and recreated". *)
Recreated(cur, old) == cur.packets < old.packets

Old(ip) ==
    IF prev[ip] = Missing \/ Recreated(srcstate[ip].count, prev[ip].count)
    THEN Nothing ELSE prev[ip].count

(* d *)
Difference(ip) == [f \in Fields |-> srcstate[ip].count[f] - Old(ip)[f]]

(* Mutant of Silent: a source that sent nothing gets a row. *)
SilentBelow(d) == d.packets < 0

(* No row for it. *)
Silent(d) == d.packets <= 0

Measured == {ip \in Sources : srcstate[ip] # Missing /\ ~Silent(Difference(ip))}

Row(ip) == [d |-> Difference(ip), secs |-> secs,
            port_spread |-> Cardinality(srcstate[ip].port_bitmap)]

Snapshot == base /\ secs > 0

(* Mutant of Replaced: an interval too short to measure keeps the baseline. *)
ReplacedIfUsed == Snapshot \/ ~base

(* self.prev = states, before any return *)
Replaced == TRUE

(* One row divides by zero: no handler up to main catches it. *)
Raises(ips) == \E ip \in ips : Difference(ip).fin + 1 = 0

Poll ==
    LET ips == IF Snapshot THEN Measured ELSE {} IN
    /\ pc = "wait"
    /\ base' = TRUE /\ secs' = 0
    /\ prev' = IF Replaced THEN read_states ELSE prev
    /\ pc' = IF Raises(ips) THEN "dead" ELSE "judge"
    /\ rows' = IF Raises(ips) THEN NoRows
               ELSE [ip \in Sources |-> IF ip \in ips THEN Row(ip) ELSE Missing]
    /\ since' = [ip \in Sources |-> Nothing]
    /\ kept' = [ip \in Sources |-> TRUE]
    /\ UNCHANGED <<srcstate, idle, cycle>>

(* a / b > r, for any sign of b *)
Exceeds(a, b, r) == IF b > 0 THEN a > r * b ELSE a < r * b

(* Mutant of SynFlood: either sign is enough. *)
SynFloodEither(d) == \/ 100 * d.syn > SYN_PERCENT * d.packets
                     \/ Exceeds(d.syn, d.fin + 1, SYN_FIN_RATIO)

SynFlood(d) == /\ 100 * d.syn > SYN_PERCENT * d.packets
               /\ Exceeds(d.syn, d.fin + 1, SYN_FIN_RATIO)

(* classify's rules in their order: the reason, and whether it applies. *)
Rules(row) ==
    LET d == row.d IN
    << <<"volumetric flood", d.packets > FLOOD_PPS * row.secs
                                /\ d.bytes < SMALL_PKT * d.packets>>,
       <<"port scan", row.port_spread > SCAN_PORTS /\ d.bytes < SCAN_PKT * d.packets>>,
       <<"syn flood", SynFlood(d)>>,
       <<"icmp flood", 10 * d.icmp > 9 * d.packets
                          /\ 4 * d.packets > FLOOD_PPS * row.secs>> >>

(* "The first rule that matches names the reason". *)
classify(row) ==
    LET matching == {i \in 1 .. 4 : Rules(row)[i][2]} IN
    IF matching = {} THEN "none"
    ELSE Rules(row)[CHOOSE i \in matching : \A j \in matching : i <= j][1]

(* The rest of Controller.step: entries idle for too long are deleted. *)
EndStep ==
    /\ pc = "judge" /\ pc' = "wait"
    /\ rows' = NoRows
    /\ cycle' = (cycle + 1) % CLEANUP_EVERY
    /\ Forget({ip \in Sources : cycle = 0 /\ idle[ip] > IDLE_TIMEOUT_S})
    /\ UNCHANGED <<idle, base, prev, secs, since>>

(* Somebody starts the controller again. *)
Restart ==
    /\ pc = "dead"
    /\ Start
    /\ since' = [ip \in Sources |-> Nothing]
    /\ kept' = [ip \in Sources |-> TRUE]
    /\ UNCHANGED <<srcstate, idle>>

-----------------------------------------------------------------------------

Next == \/ \E ip \in Sources : Reset(ip) \/ \E p \in Packets : Send(ip, p)
        \/ Second \/ Poll \/ EndStep \/ Restart

Spec == Init /\ [][Next]_vars

-----------------------------------------------------------------------------
(* Counters and time stay in their ranges; every row is about at least one  *)
(* packet, so the four ratios over n are defined.                           *)
TypeOK ==
    /\ \A ip \in Sources : srcstate[ip] # Missing =>
            \A f \in Fields : srcstate[ip].count[f] \in Nat
    /\ pc \in {"wait", "judge", "dead"} /\ secs \in 0 .. MaxSecs
    /\ cycle \in 0 .. CLEANUP_EVERY - 1
    /\ \A ip \in Sources : rows[ip] # Missing =>
            rows[ip].d.packets \in Nat \ {0} /\ rows[ip].secs > 0

Polled == pc = "wait" /\ pc' # "wait"

(* detect.py: "judge each source on what it did in that second only".  No    *)
(* row has more packets than the source sent since the snapshot before,      *)
(* whatever was deleted and created between the two: nobody is taken for a   *)
(* flood on account of packets it did not send in that interval.             *)
NeverOverstates ==
    [][\A ip \in Sources : Polled /\ rows'[ip] # Missing =>
            rows'[ip].d.packets <= since[ip].packets]_vars

(* "every source that sent packets since the previous call": for a source    *)
(* whose entry stayed, the row is exactly what it sent, and there is one     *)
(* whenever it sent anything.                                                *)
ExactWhileKept ==
    [][\A ip \in Sources : Polled /\ pc' = "judge" /\ Snapshot /\ kept[ip] =>
            IF since[ip].packets > 0 THEN rows'[ip] # Missing /\ rows'[ip].d = since[ip]
            ELSE rows'[ip] = Missing]_vars

(* "A real client closes what it opens ...; a SYN flood never closes": with  *)
(* its entry in place, a source is a volumetric flood exactly if it sent     *)
(* that many small packets, and one that closed all but one of the           *)
(* connections it opened is never called a SYN flood.                        *)
VerdictsAreEarned ==
    [][\A ip \in Sources : Polled /\ rows'[ip] # Missing /\ kept[ip] =>
            LET s == since[ip]
                verdict == classify(rows'[ip])
            IN  /\ (verdict = "volumetric flood")
                      <=> (s.packets > FLOOD_PPS * secs /\ s.bytes < SMALL_PKT * s.packets)
                /\ s.syn <= s.fin + 1 => verdict # "syn flood"]_vars

(* "The +1 keeps a single new connection from looking infinite": the ratio   *)
(* of SYNs to closings can be computed, and the controller goes on.          *)
RatioIsFinite == pc # "dead"
=============================================================================
