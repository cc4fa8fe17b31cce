---------------------------- MODULE XdpFirewall -----------------------------
(***************************************************************************)
(* The XDP data plane, bpf/firewall.bpf.c: one run of xdp_firewall per     *)
(* packet, on every CPU at once, over maps that userspace changes under    *)
(* it.                                                                     *)
(*                                                                         *)
(* A run is cut into actions so that each touches at most one shared map;  *)
(* everything between two map accesses works on the CPU's own locals (the  *)
(* record job[cpu]).  The bucket update holds the entry's spin lock from   *)
(* end to end and is one action.                                           *)
(*                                                                         *)
(* srcstate is a preallocated hash: an entry is one of MAX_TRACKED slots,  *)
(* and a CPU that has looked a slot up keeps its pointer while another CPU *)
(* or userspace deletes the entry and the slot is given to another source. *)
(***************************************************************************)
EXTENDS PacketFilter, TokenBucket

CONSTANTS CPUs,         \* the CPUs that receive packets
          MAX_TRACKED,  \* capacity of srcstate
          Packets,      \* the packets that may arrive
          InitConfig,   \* the config value the loader wrote before attaching
          MaxRate,      \* no configured rate_pps is larger
          MinRate,      \* no configured rate_pps is smaller, unless it is 0
          MaxBurst,     \* no configured burst_pkts is larger
          MaxClock,     \* bound: the clock stops here
          MaxPackets    \* bound: packets received

Slots == 1 .. MAX_TRACKED
Free  == -1                       \* srcstate key of an unused slot
Features == {"allowlist", "blocklist", "proto", "ratelimit", "state",
             "frags", "ports"}

ConfigType ==
    [rate_pps       : {0} \cup MinRate .. MaxRate,
     burst_pkts     : 1 .. MaxBurst,
     features       : SUBSET Features,
     default_policy : {"allow", "deny"}]

PacketType ==
    [len : Nat, vlan : BOOLEAN, ipv4 : BOOLEAN, version : Nat, ihl : Nat,
     tot_len : Nat, ttl : Nat, saddr : Addresses,
     proto : {"tcp", "udp", "icmp", "other"}, frag_off : Nat, port : Nat,
     flags : SUBSET {"FIN", "SYN", "RST", "PSH", "ACK", "URG", "ECE", "CWR"},
     doff : Nat, udp_len : Nat]

ASSUME DataplaneAssumption ==
    /\ MAX_TRACKED \in Nat
    /\ MinRate \in Nat \ {0} /\ MaxRate \in Nat /\ MaxBurst \in Nat
    /\ MinRate <= MaxRate /\ MaxRate <= NSEC_PER_SEC
    /\ NSEC_PER_SEC * MaxRate < WORD
    /\ MaxBurst + MaxRate < WORD
    /\ MaxClock \in Nat /\ MaxPackets \in Nat
    /\ Packets \subseteq PacketType
    /\ InitConfig \in ConfigType

VARIABLES clock,      \* bpf_ktime_get_ns()
          config,     \* the config map's only value
          allowlist,  \* key -> [hits]
          blocklist,  \* key -> [expires_ns, hits, reason]
          portrules,  \* <<proto, port>> -> [action, hits per CPU]
          srcstate,   \* slot -> src_state, with its key
          stats,      \* CPU -> counter name -> value
          job,        \* CPU -> locals of the packet it is handling
          ledger,     \* slot -> history of its bucket (not in the program)
          paid,       \* CPU -> packets that took a token (not in the program)
          wiped       \* CPU -> counter -> what resets took off it (not in it)

history == <<ledger, paid, wiped>>
maps == <<allowlist, blocklist, portrules>>
xdpVars == <<clock, config, allowlist, blocklist, portrules, srcstate,
             stats, job, ledger, paid, wiped>>

-----------------------------------------------------------------------------
(* enum stat_index *)

StatNames == {"rx_packets", "rx_bytes", "state_full"} \cup Reasons

stat_add(cpu, name, n) == [stats EXCEPT ![cpu][name] = @ + n]

(* All that was ever added to a counter: what it shows and what resets wiped.*)
ever == [c \in CPUs |-> [n \in StatNames |-> stats[c][n] + wiped[c][n]]]

(* struct src_state; port_bitmap is the set of its bits. *)
SrcState ==
    [key : Addresses \cup {Free}, tokens : Nat, last_refill_ns : Nat,
     last_seen_ns : Nat, packets : Nat, bytes : Nat, dropped : Nat,
     syn : Nat, fin : Nat, rst : Nat, udp : Nat, icmp : Nat,
     port_bitmap : SUBSET (0 .. 63)]

(* Mutant of NewState: last_refill_ns is left zeroed. *)
NewStateUnstamped(key, burst, now) ==
    [key |-> key, tokens |-> burst, last_refill_ns |-> 0,
     last_seen_ns |-> now, packets |-> 0, bytes |-> 0, dropped |-> 0,
     syn |-> 0, fin |-> 0, rst |-> 0, udp |-> 0, icmp |-> 0,
     port_bitmap |-> {}]

NewState(key, burst, now) ==
    [key |-> key, tokens |-> burst, last_refill_ns |-> now,
     last_seen_ns |-> now, packets |-> 0, bytes |-> 0, dropped |-> 0,
     syn |-> 0, fin |-> 0, rst |-> 0, udp |-> 0, icmp |-> 0,
     port_bitmap |-> {}]

(* What happened to a bucket since it was created: its first content, the   *)
(* tokens taken from it, the tokens lost to the burst limit, and the time   *)
(* that earned nothing because a refill never covers more than a second.    *)
Ledger == [born : Nat, start : Nat, spent : Nat, lost : Nat, idle : Nat]

NewLedger(burst, now) ==
    [born |-> now, start |-> burst, spent |-> 0, lost |-> 0, idle |-> 0]

Idle == [pc |-> "idle"]

Stages == {"allowlist", "blocklist", "l4", "lookup", "insert", "relookup",
           "update", "count"}

(* The locals of one run.  st = 0 is a NULL pointer.  quiet is history: no   *)
(* list and no rule has been written since this packet arrived.             *)
Busy == [pc : Stages, pkt : Packets, now : Nat, cfg : ConfigType,
         reason : Reasons, st : {0} \cup Slots, quiet : BOOLEAN]

-----------------------------------------------------------------------------

XdpInit ==
    /\ clock = 0
    /\ config = InitConfig
    /\ allowlist = <<>>
    /\ blocklist = <<>>
    /\ portrules = <<>>
    /\ srcstate = [s \in Slots |-> NewState(Free, 0, 0)]
    /\ stats = [c \in CPUs |-> [n \in StatNames |-> 0]]
    /\ job = [c \in CPUs |-> Idle]
    /\ ledger = [s \in Slots |-> NewLedger(0, 0)]
    /\ paid = [c \in CPUs |-> 0]
    /\ wiped = [c \in CPUs |-> [n \in StatNames |-> 0]]

Goto(cpu, pc) == job' = [job EXCEPT ![cpu].pc = pc]

Decided(cpu, reason) ==
    job' = [job EXCEPT ![cpu].pc = "count", ![cpu].reason = reason]

(* Stages whose feature bit is cleared are skipped. *)
AfterAllowlist(cfg) == IF "blocklist" \in cfg.features THEN "blocklist" ELSE "l4"
(* Mutant of AfterFrame: the blocklist is asked before the allowlist. *)
BlocklistFirst(cfg) == AfterAllowlist(cfg)

AfterFrame(cfg) == IF "allowlist" \in cfg.features THEN "allowlist"
                                                   ELSE AfterAllowlist(cfg)

(* A packet arrives: clock, RX counters, config, Ethernet and IP headers.    *)
Receive(cpu, p) ==
    /\ job[cpu].pc = "idle"
    /\ ever[cpu].rx_packets < MaxPackets
    /\ stats' = [stats EXCEPT ![cpu].rx_packets = @ + 1,
                              ![cpu].rx_bytes = @ + p.len]
    /\ job' = [job EXCEPT ![cpu] =
                  [pc |-> IF FrameReason(p) = "continue"
                          THEN AfterFrame(config) ELSE "count",
                   pkt |-> p, now |-> clock, cfg |-> config,
                   reason |-> IF FrameReason(p) = "continue"
                              THEN "pass_default" ELSE FrameReason(p),
                   st |-> 0, quiet |-> TRUE]]
    /\ UNCHANGED <<clock, config, maps, srcstate, history>>

CheckAllowlist(cpu) ==
    LET j == job[cpu] IN
    /\ j.pc = "allowlist"
    /\ \/ /\ Covering(allowlist, j.pkt.saddr) # {}
          /\ allowlist' = [allowlist EXCEPT
                 ![LongestMatch(allowlist, j.pkt.saddr)].hits = @ + 1]
          /\ Decided(cpu, "pass_allowlist")
       \/ /\ Covering(allowlist, j.pkt.saddr) = {}
          /\ Goto(cpu, AfterAllowlist(j.cfg))
          /\ UNCHANGED allowlist
    /\ UNCHANGED <<clock, config, blocklist, portrules, srcstate, stats, history>>

(* Mutant of CheckBlocklist: the hit is counted before the deadline is read. *)
CheckBlocklistHitFirst(cpu) ==
    LET j == job[cpu] IN
    /\ j.pc = "blocklist"
    /\ blocklist' = IF Covering(blocklist, j.pkt.saddr) = {} THEN blocklist
                    ELSE [blocklist EXCEPT
                            ![LongestMatch(blocklist, j.pkt.saddr)].hits = @ + 1]
    /\ \/ Blocked(blocklist, j.pkt.saddr, j.now) /\ Decided(cpu, "drop_blocklist")
       \/ ~Blocked(blocklist, j.pkt.saddr, j.now) /\ Goto(cpu, "l4")
    /\ UNCHANGED <<clock, config, allowlist, portrules, srcstate, stats, history>>

CheckBlocklist(cpu) ==
    LET j == job[cpu] IN
    /\ j.pc = "blocklist"
    /\ \/ /\ Blocked(blocklist, j.pkt.saddr, j.now)
          /\ blocklist' = [blocklist EXCEPT
                 ![LongestMatch(blocklist, j.pkt.saddr)].hits = @ + 1]
          /\ Decided(cpu, "drop_blocklist")
       \/ /\ ~Blocked(blocklist, j.pkt.saddr, j.now)
          /\ Goto(cpu, "l4")
          /\ UNCHANGED blocklist
    /\ UNCHANGED <<clock, config, allowlist, portrules, srcstate, stats, history>>

(* Transport header, fragments, TCP flags, port rules, default policy.  A    *)
(* malformed packet returns at once; the rest goes to update_state.          *)
Filter(cpu) ==
    LET j      == job[cpu]
        reason == L4Reason(j.pkt, j.cfg, portrules)
    IN
    /\ j.pc = "l4"
    /\ portrules' =
           IF RuleHit(j.pkt, j.cfg, portrules)
           THEN [portrules EXCEPT ![PortKey(j.pkt)].hits[cpu] = @ + 1]
           ELSE portrules
    /\ job' = [job EXCEPT
                  ![cpu].reason = reason,
                  ![cpu].pc = IF reason = "drop_malformed"
                                 \/ "state" \notin j.cfg.features
                              THEN "count" ELSE "lookup"]
    /\ UNCHANGED <<clock, config, allowlist, blocklist, srcstate, stats, history>>

SlotOf(addr) == {s \in Slots : srcstate[s].key = addr}

Use(cpu, s) == job' = [job EXCEPT ![cpu].pc = "update", ![cpu].st = s]

Lookup(cpu) ==
    /\ job[cpu].pc = "lookup"
    /\ \/ SlotOf(job[cpu].pkt.saddr) = {} /\ Goto(cpu, "insert")
       \/ \E s \in SlotOf(job[cpu].pkt.saddr) : Use(cpu, s)
    /\ UNCHANGED <<clock, config, maps, srcstate, stats, history>>

(* bpf_map_update_elem(..., BPF_NOEXIST): the new element is taken from the  *)
(* free list.                                                                *)
Insert(cpu) ==
    LET j == job[cpu] IN
    /\ j.pc = "insert"
    /\ SlotOf(j.pkt.saddr) = {}
    /\ \E s \in SlotOf(Free) :
          /\ srcstate' = [srcstate EXCEPT ![s] =
                             NewState(j.pkt.saddr, j.cfg.burst_pkts, j.now)]
          /\ ledger' = [ledger EXCEPT ![s] = NewLedger(j.cfg.burst_pkts, j.now)]
    /\ Goto(cpu, "relookup")
    /\ UNCHANGED <<clock, config, maps, stats, paid, wiped>>

(* Mutant of InsertFails: an early return, past stat_inc(reason). *)
InsertFailsReturns(cpu) ==
    /\ job[cpu].pc = "insert"
    /\ SlotOf(job[cpu].pkt.saddr) # {} \/ SlotOf(Free) = {}
    /\ stats' = stat_add(cpu, "state_full", 1)
    /\ job' = [job EXCEPT ![cpu] = Idle]
    /\ UNCHANGED <<clock, config, maps, srcstate, history>>

(* The update fails, because the key exists or because no slot is free; the  *)
(* program treats both alike.                                                *)
InsertFails(cpu) ==
    /\ job[cpu].pc = "insert"
    /\ SlotOf(job[cpu].pkt.saddr) # {} \/ SlotOf(Free) = {}
    /\ stats' = stat_add(cpu, "state_full", 1)
    /\ Goto(cpu, "count")
    /\ UNCHANGED <<clock, config, maps, srcstate, history>>

(* Mutant of Relookup: a NULL pointer passes the packet without a trace. *)
RelookupUncounted(cpu) ==
    /\ job[cpu].pc = "relookup"
    /\ \/ SlotOf(job[cpu].pkt.saddr) = {} /\ Goto(cpu, "count")
       \/ \E s \in SlotOf(job[cpu].pkt.saddr) : Use(cpu, s)
    /\ UNCHANGED <<clock, config, maps, srcstate, stats, history>>

(* The entry just inserted may already have been deleted by userspace. *)
Relookup(cpu) ==
    /\ job[cpu].pc = "relookup"
    /\ \/ /\ SlotOf(job[cpu].pkt.saddr) = {}
          /\ stats' = stat_add(cpu, "state_full", 1)
          /\ Goto(cpu, "count")
       \/ /\ \E s \in SlotOf(job[cpu].pkt.saddr) : Use(cpu, s)
          /\ UNCHANGED stats
    /\ UNCHANGED <<clock, config, maps, srcstate, history>>

(* Mutant of Limited: packets already dropped take a token too. *)
LimitedAlways(j) == "ratelimit" \in j.cfg.features /\ j.cfg.rate_pps > 0

Limited(j) == /\ j.reason \in PassReasons
              /\ "ratelimit" \in j.cfg.features
              /\ j.cfg.rate_pps > 0

One(b) == IF b THEN 1 ELSE 0

(* The critical section: counters, then the bucket.                          *)
Update(cpu) ==
    LET j       == job[cpu]
        p       == j.pkt
        e       == srcstate[j.st]
        l       == ledger[j.st]
        rate    == j.cfg.rate_pps
        lim     == Limited(j)
        elapsed == Elapsed(e.last_refill_ns, j.now)
        add     == Earned(elapsed, rate)
        topped  == Topped(e.tokens, add, j.cfg.burst_pkts)
        reason  == IF lim /\ topped = 0 THEN "drop_ratelimit" ELSE j.reason
    IN
    /\ j.pc = "update"
    /\ srcstate' = [srcstate EXCEPT ![j.st] =
          [key            |-> e.key,
           tokens         |-> IF ~lim THEN e.tokens
                              ELSE IF topped > 0 THEN topped - 1 ELSE 0,
           last_refill_ns |-> IF lim THEN Refilled(e.last_refill_ns, j.now, rate)
                                     ELSE e.last_refill_ns,
           last_seen_ns   |-> j.now,
           packets        |-> e.packets + 1,
           bytes          |-> e.bytes + p.len,
           dropped        |-> e.dropped + One(reason \in DropReasons),
           syn            |-> e.syn + One("SYN" \in Flags(p)),
           fin            |-> e.fin + One("FIN" \in Flags(p)),
           rst            |-> e.rst + One("RST" \in Flags(p)),
           udp            |-> e.udp + One(p.proto = "udp"),
           icmp           |-> e.icmp + One(p.proto = "icmp"),
           port_bitmap    |-> e.port_bitmap \cup
                              (IF DPort(p) # 0 THEN {DPort(p) % 64} ELSE {})]]
    /\ ledger' = IF ~lim THEN ledger
                 ELSE [ledger EXCEPT ![j.st] =
          [born  |-> l.born,
           start |-> l.start,
           spent |-> l.spent + One(topped > 0),
           lost  |-> l.lost + (e.tokens + add - topped),
           idle  |-> l.idle + Skipped(elapsed)]]
    /\ paid' = [paid EXCEPT ![cpu] = @ + One(lim /\ topped > 0)]
    /\ Decided(cpu, reason)
    /\ UNCHANGED <<clock, config, maps, stats, wiped>>

(* Mutant of Count: malformed packets return without a verdict counter. *)
CountUnlessMalformed(cpu) ==
    /\ job[cpu].pc = "count"
    /\ stats' = IF job[cpu].reason = "drop_malformed" THEN stats
                ELSE stat_add(cpu, job[cpu].reason, 1)
    /\ job' = [job EXCEPT ![cpu] = Idle]
    /\ UNCHANGED <<clock, config, maps, srcstate, history>>

(* stat_inc(reason) and return. *)
Count(cpu) ==
    /\ job[cpu].pc = "count"
    /\ stats' = stat_add(cpu, job[cpu].reason, 1)
    /\ job' = [job EXCEPT ![cpu] = Idle]
    /\ UNCHANGED <<clock, config, maps, srcstate, history>>

Tick ==
    /\ clock < MaxClock
    /\ clock' = clock + 1
    /\ UNCHANGED <<config, maps, srcstate, stats, job, history>>

Step(cpu) ==
    \/ CheckAllowlist(cpu) \/ CheckBlocklist(cpu) \/ Filter(cpu)
    \/ Lookup(cpu) \/ Insert(cpu) \/ InsertFails(cpu) \/ Relookup(cpu)
    \/ Update(cpu) \/ Count(cpu)
=============================================================================
