------------------------------ MODULE Firewall ------------------------------
(***************************************************************************)
(* The data plane together with the userspace tools that write its maps:   *)
(* the operations of class Firewall (control/firewall.py) as fwctl and the *)
(* controller call them.                                                   *)
(*                                                                         *)
(* A bpf() system call on one map entry is one action.  An operation that  *)
(* needs several (check then write, snapshot then delete, read then write  *)
(* back) keeps what it has read in task[tool] between them, while packets  *)
(* and the other tool go on.                                               *)
(***************************************************************************)
EXTENDS XdpFirewall, FiniteSetsExt, Sequences

CONSTANTS Tools,           \* running tools, a subset of {"fwctl", "controller"}
          Commands,        \* tool -> the operations it is asked for
          AllowKeys,       \* prefixes given to allow and unallow
          BlockKeys,       \* prefixes given to block and unblock
          Durations,       \* block durations; 0 is permanent
          RuleKeys,        \* <<proto, port>> given to the port commands
          Changes,         \* tool -> <<fields, values>> given to update_config
          MAX_ALLOWLIST, MAX_BLOCKLIST, MAX_PORT_RULES,
          IDLE_TIMEOUT     \* IDLE_TIMEOUT_S on the kernel's clock

Prefixes     == {lpm_key(n, a) : n \in 0 .. ADDR_BITS, a \in Addresses}
ConfigFields == {"rate_pps", "burst_pkts", "features", "default_policy"}

ASSUME ToolAssumption ==
    /\ AllowKeys \subseteq Prefixes /\ BlockKeys \subseteq Prefixes
    /\ Durations \subseteq Nat
    /\ Changes \in [Tools -> SUBSET ((SUBSET ConfigFields) \X ConfigType)]
    /\ IDLE_TIMEOUT \in Nat

ASSUME CpuAssumption == IsFiniteSet(CPUs)

VARIABLE task   \* tool -> the operation it is in the middle of

vars == <<xdpVars, task>>

Ready == [op |-> "none"]

(* Operations between two of their system calls. *)
Blocking    == [op : {"block"}, key : BlockKeys, duration : Durations]
DelBlocks   == [op : {"del_blocks"}, keys : SUBSET Prefixes]
DelRules    == [op : {"del_rules"}, keys : SUBSET RuleKeys]
DelStates   == [op : {"del_idle", "del_states"}, keys : SUBSET Addresses]
Configuring == [op : {"config"}, cfg : ConfigType, fields : SUBSET ConfigFields]
Resetting   == [op : {"reset"}, names : Seq(StatNames), cpus : SUBSET CPUs]

Operations == {Ready} \cup Blocking \cup DelBlocks \cup DelRules \cup DelStates
                      \cup Configuring \cup Resetting

Asked(t, command) == task[t].op = "none" /\ command \in Commands[t]

(* The lists changed while a packet is being handled (history only). *)
Disturb == job' = [c \in CPUs |-> IF job[c].pc = "idle" THEN job[c]
                                  ELSE [job[c] EXCEPT !.quiet = FALSE]]

(* bpf_map_update_elem and bpf_map_delete_elem on a trie or a hash. *)
Put(map, key, val) == [k \in DOMAIN map \cup {key} |-> IF k = key THEN val ELSE map[k]]
Del(map, key)      == [k \in DOMAIN map \ {key} |-> map[k]]
Room(map, key, max) == key \in DOMAIN map \/ Cardinality(DOMAIN map) < max

-----------------------------------------------------------------------------
(* allow, unallow *)

Allow(t, key) ==
    /\ Asked(t, "allow")
    /\ Room(allowlist, key, MAX_ALLOWLIST)
    /\ allowlist' = Put(allowlist, key, [hits |-> 0])
    /\ Disturb
    /\ UNCHANGED <<clock, config, blocklist, portrules, srcstate, stats, history, task>>

Unallow(t, key) ==
    /\ Asked(t, "allow")
    /\ allowlist' = Del(allowlist, key)
    /\ Disturb
    /\ UNCHANGED <<clock, config, blocklist, portrules, srcstate, stats, history, task>>

-----------------------------------------------------------------------------
(* block: both callers ask is_allowed first, about the address as typed:    *)
(* any of the prefix (parse_cidr clears its host bits), and for the         *)
(* controller the one it blocks.                                            *)

(* "a /32 lookup finds a covering /8" *)
is_allowed(addr) == Covering(allowlist, addr) # {}

CheckAllowed(t, key, duration) ==
    /\ Asked(t, "block")
    /\ \E addr \in Addresses : Covers(key, addr) /\ ~is_allowed(addr)
    /\ task' = [task EXCEPT ![t] = [op |-> "block", key |-> key,
                                    duration |-> duration]]
    /\ UNCHANGED xdpVars

(* A full trie makes the update fail; the operation is given up. *)
Block(t) ==
    /\ task[t].op = "block"
    /\ \/ /\ Room(blocklist, task[t].key, MAX_BLOCKLIST)
          /\ blocklist' = Put(blocklist, task[t].key,
                 [expires_ns |-> IF task[t].duration > 0
                                 THEN clock + task[t].duration ELSE 0,
                  hits |-> 0,
                  reason |-> IF t = "controller" THEN "auto" ELSE "manual"])
          /\ Disturb
       \/ /\ ~Room(blocklist, task[t].key, MAX_BLOCKLIST)
          /\ UNCHANGED <<blocklist, job>>
    /\ task' = [task EXCEPT ![t] = Ready]
    /\ UNCHANGED <<clock, config, allowlist, portrules, srcstate, stats, history>>

Unblock(t, key) ==
    /\ Asked(t, "unblock")
    /\ blocklist' = Del(blocklist, key)
    /\ Disturb
    /\ UNCHANGED <<clock, config, allowlist, portrules, srcstate, stats, history, task>>

(* remove_expired_blocks and clear_blocks: list the keys, then delete them  *)
(* one by one, whatever they have become in the meantime.                   *)

ExpiredBlocks == {k \in DOMAIN blocklist :
                     /\ 0 < blocklist[k].expires_ns
                     /\ blocklist[k].expires_ns <= clock}

remove_expired_blocks(t) ==
    /\ Asked(t, "expire")
    /\ task' = [task EXCEPT ![t] = [op |-> "del_blocks", keys |-> ExpiredBlocks]]
    /\ UNCHANGED xdpVars

clear_blocks(t) ==
    /\ Asked(t, "flush")
    /\ task' = [task EXCEPT ![t] = [op |-> "del_blocks", keys |-> DOMAIN blocklist]]
    /\ UNCHANGED xdpVars

DeleteBlock(t, key) ==
    /\ task[t].op = "del_blocks"
    /\ key \in task[t].keys
    /\ blocklist' = Del(blocklist, key)
    /\ task' = [task EXCEPT ![t].keys = @ \ {key}]
    /\ Disturb
    /\ UNCHANGED <<clock, config, allowlist, portrules, srcstate, stats, history>>

-----------------------------------------------------------------------------
(* Port rules: every CPU's copy gets the action, and its hits start at 0.   *)

(* A protocol is named or, here "other", a number.  ICMP has types for ports.*)
parse_proto(name) == name \in {"tcp", "udp", "icmp", "other"}

(* Anything else is a ValueError, before the map is touched. *)
port_key(key) ==
    /\ parse_proto(key[1])
    /\ key[2] \in 0 .. (IF key[1] = "icmp" THEN 255 ELSE 65535)

set_port_rule(t, key, action) ==
    /\ Asked(t, "port") /\ port_key(key)
    /\ Room(portrules, key, MAX_PORT_RULES)
    /\ portrules' = Put(portrules, key, [action |-> action,
                                         hits |-> [c \in CPUs |-> 0]])
    /\ Disturb
    /\ UNCHANGED <<clock, config, allowlist, blocklist, srcstate, stats, history, task>>

del_port_rule(t, key) ==
    /\ Asked(t, "port") /\ port_key(key)
    /\ portrules' = Del(portrules, key)
    /\ Disturb
    /\ UNCHANGED <<clock, config, allowlist, blocklist, srcstate, stats, history, task>>

clear_port_rules(t) ==
    /\ Asked(t, "port")
    /\ task' = [task EXCEPT ![t] = [op |-> "del_rules", keys |-> DOMAIN portrules]]
    /\ UNCHANGED xdpVars

DeleteRule(t, key) ==
    /\ task[t].op = "del_rules"
    /\ key \in task[t].keys
    /\ portrules' = Del(portrules, key)
    /\ task' = [task EXCEPT ![t].keys = @ \ {key}]
    /\ Disturb
    /\ UNCHANGED <<clock, config, allowlist, blocklist, srcstate, stats, history>>

-----------------------------------------------------------------------------
(* fwctl reset: reset_stats zeroes the counters one after the other, one    *)
(* system call each, in which the kernel stores 0 to the words of one CPU   *)
(* after the other; then clear_states.                                      *)

STAT_NAMES == <<"rx_packets", "rx_bytes", "pass_allowlist", "pass_rule",
                "pass_default", "pass_non_ipv4", "drop_blocklist",
                "drop_port_rule", "drop_default", "drop_proto",
                "drop_ratelimit", "drop_malformed", "drop_fragment",
                "state_full">>

reset_stats(t) ==
    /\ Asked(t, "reset")
    /\ task' = [task EXCEPT ![t] = [op |-> "reset", names |-> STAT_NAMES,
                                    cpus |-> CPUs]]
    /\ UNCHANGED xdpVars

Zeroes(t, c, name) ==
    /\ task[t].op = "reset" /\ task[t].names # <<>>
    /\ name = Head(task[t].names)
    /\ c \in task[t].cpus
    /\ task' = [task EXCEPT ![t] =
                   [op    |-> "reset",
                    names |-> IF @.cpus = {c} THEN Tail(@.names) ELSE @.names,
                    cpus  |-> IF @.cpus = {c} THEN CPUs ELSE @.cpus \ {c}]]

ZeroStat(t, c) ==
    \E name \in StatNames :
        /\ Zeroes(t, c, name)
        /\ stats' = [stats EXCEPT ![c][name] = 0]
        /\ wiped' = [wiped EXCEPT ![c][name] = @ + stats[c][name]]
        /\ UNCHANGED <<clock, config, maps, srcstate, job, ledger, paid>>

(* stat_add loads the word, adds and stores it with no lock: a 0 stored in  *)
(* between is lost.                                                         *)
Overwrite(t, c) ==
    \E name \in StatNames :
        Zeroes(t, c, name) /\ stats'[c][name] # stats[c][name]

-----------------------------------------------------------------------------
(* Per-source state: remove_idle_states, clear_states.  Deleting an entry   *)
(* returns its slot to the free list; the value stays in memory.            *)

Tracked == {srcstate[s].key : s \in Slots} \ {Free}

IdleSources == {srcstate[s].key : s \in
                  {s \in Slots : srcstate[s].last_seen_ns < clock - IDLE_TIMEOUT}}
               \ {Free}

remove_idle_states(t) ==
    /\ Asked(t, "idle")
    /\ task' = [task EXCEPT ![t] = [op |-> "del_idle", keys |-> IdleSources]]
    /\ UNCHANGED xdpVars

clear_states(t) ==
    /\ task[t].op = "reset" /\ task[t].names = <<>>
    /\ task' = [task EXCEPT ![t] = [op |-> "del_states", keys |-> Tracked]]
    /\ UNCHANGED xdpVars

DeleteState(t, addr) ==
    /\ task[t].op \in {"del_idle", "del_states"}
    /\ addr \in task[t].keys
    /\ srcstate' = [s \in Slots |-> IF srcstate[s].key = addr
                                    THEN [srcstate[s] EXCEPT !.key = Free]
                                    ELSE srcstate[s]]
    /\ task' = [task EXCEPT ![t].keys = @ \ {addr}]
    /\ UNCHANGED <<clock, config, maps, stats, job, history>>

-----------------------------------------------------------------------------
(* update_config: read the whole value, change some fields, write the whole *)
(* value back.  The kernel copies it into the map while packets read it, so *)
(* its words arrive one by one, in no particular order.                     *)

Merge(cfg, fields, new) ==
    [rate_pps       |-> IF "rate_pps" \in fields THEN new.rate_pps
                                                 ELSE cfg.rate_pps,
     burst_pkts     |-> IF "burst_pkts" \in fields THEN new.burst_pkts
                                                   ELSE cfg.burst_pkts,
     features       |-> IF "features" \in fields THEN new.features
                                                 ELSE cfg.features,
     default_policy |-> IF "default_policy" \in fields THEN new.default_policy
                                                       ELSE cfg.default_policy]

update_config(t, fields, new) ==
    /\ Asked(t, "config")
    /\ task' = [task EXCEPT ![t] = [op |-> "config", fields |-> ConfigFields,
                                    cfg |-> Merge(config, fields, new)]]
    /\ UNCHANGED xdpVars

WriteConfig(t, field) ==
    /\ task[t].op = "config"
    /\ field \in task[t].fields
    /\ config' = [config EXCEPT ![field] = task[t].cfg[field]]
    /\ task' = [task EXCEPT ![t].fields = @ \ {field}]
    /\ UNCHANGED <<clock, maps, srcstate, stats, job, history>>

-----------------------------------------------------------------------------

Finish(t) ==
    /\ \/ task[t].op \in {"del_blocks", "del_rules", "del_idle", "del_states"}
          /\ task[t].keys = {}
       \/ task[t].op = "config" /\ task[t].fields = {}
    /\ task' = [task EXCEPT ![t] = Ready]
    /\ UNCHANGED xdpVars

ToolStep(t) ==
    \/ \E key \in AllowKeys : Allow(t, key) \/ Unallow(t, key)
    \/ \E key \in BlockKeys, d \in Durations : CheckAllowed(t, key, d)
    \/ Block(t)
    \/ \E key \in BlockKeys : Unblock(t, key)
    \/ remove_expired_blocks(t) \/ clear_blocks(t)
    \/ \E key \in Prefixes : DeleteBlock(t, key)
    \/ \E key \in RuleKeys, a \in {"allow", "deny"} : set_port_rule(t, key, a)
    \/ \E key \in RuleKeys : del_port_rule(t, key) \/ DeleteRule(t, key)
    \/ clear_port_rules(t)
    \/ reset_stats(t)
    \/ \E c \in CPUs : ZeroStat(t, c)
    \/ remove_idle_states(t) \/ clear_states(t)
    \/ \E addr \in Addresses : DeleteState(t, addr)
    \/ \E ch \in Changes[t] : update_config(t, ch[1], ch[2])
    \/ \E field \in ConfigFields : WriteConfig(t, field)
    \/ Finish(t)

Init == XdpInit /\ task = [t \in Tools |-> Ready]

Next ==
    \/ Tick /\ UNCHANGED task
    \/ \E c \in CPUs :
          /\ Step(c) \/ \E p \in Packets : Receive(c, p)
          /\ UNCHANGED task \/ \E t \in Tools : Overwrite(t, c)
    \/ \E t \in Tools : ToolStep(t)

Spec == Init /\ [][Next]_vars
-----------------------------------------------------------------------------
(* Type invariant. *)

IsMap(m, D, R) == DOMAIN m \subseteq D /\ m \in [DOMAIN m -> R]

(* Every map, every CPU's locals and every tool's unfinished operation hold *)
(* values of the types common.h and control/firewall.py give them.          *)
TypeOK ==
    /\ clock \in Nat
    /\ config \in ConfigType
    /\ IsMap(allowlist, Prefixes, [hits : Nat])
    /\ IsMap(blocklist, Prefixes, [expires_ns : Nat, hits : Nat,
                                   reason : {"manual", "auto"}])
    /\ IsMap(portrules, RuleKeys, [action : {"allow", "deny"},
                                   hits : [CPUs -> Nat]])
    /\ srcstate \in [Slots -> SrcState]
    /\ stats \in [CPUs -> [StatNames -> Nat]]
    /\ job \in [CPUs -> {Idle} \cup Busy]
    /\ ledger \in [Slots -> Ledger]
    /\ paid \in [CPUs -> Nat]
    /\ wiped \in [CPUs -> [StatNames -> Nat]]
    /\ task \in [Tools -> Operations]

-----------------------------------------------------------------------------
(* Counters. *)

Verdicts(s) ==
    s.pass_allowlist + s.pass_rule + s.pass_default + s.pass_non_ipv4
    + s.drop_blocklist + s.drop_port_rule + s.drop_default + s.drop_proto
    + s.drop_ratelimit + s.drop_malformed + s.drop_fragment

(* common.h: "Every packet bumps RX_* and exactly one PASS_* or DROP_*       *)
(* counter": on every CPU the increments of the two sides differ by exactly  *)
(* the packet it is still working on, through whichever of the early returns *)
(* packets leave.  Counts leave the map only when a reset stores its zeroes, *)
(* and each is then in `wiped`: a zero may be lost to an increment that had  *)
(* begun, an increment is never lost to a zero.                              *)
PacketsConserved ==
    \A c \in CPUs :
        Verdicts(ever[c]) + One(job[c].pc # "idle") = ever[c].rx_packets

(* common.h: "so passes + drops == rx_packets"; README: "always equals       *)
(* packets received".  Stated of a CPU that has no packet in hand and while  *)
(* no reset is under way.                                                    *)
PassesPlusDrops ==
    \A c \in CPUs :
        job[c].pc = "idle" /\ (\A t \in Tools : task[t].op # "reset") =>
            Verdicts(stats[c]) = stats[c].rx_packets

(* A counter with what resets wiped, and a rule's hits, over all CPUs' copies.*)
sum_percpu(name) == SumFunction([c \in CPUs |-> ever[c][name]])

list_port_rules ==
    [key \in DOMAIN portrules |->
        [action |-> portrules[key].action,
         hits   |-> SumFunction(portrules[key].hits)]]

(* The packets a counter has, or is about to get; the hits of a whole list. *)
Pending(r) == {c \in CPUs : job[c].pc # "idle" /\ job[c].reason = r}
Counted(r) == sum_percpu(r) + Cardinality(Pending(r))
Hits(map)  == SumFunction([k \in DOMAIN map |-> map[k].hits])

(* The hits a list shows never exceed the packets counted as decided by it   *)
(* since the program was loaded (or about to be counted): xdp_firewall       *)
(* credits a hit only to the entry that decides the packet's verdict, and    *)
(* re-adding an entry starts it at 0.  A reset zeroes the counters and keeps *)
(* the hits, so what it wiped counts too.  What a port rule lets pass may    *)
(* still be rate limited.                                                    *)
HitsBacked ==
    /\ Hits(allowlist) <= Counted("pass_allowlist")
    /\ Hits(blocklist) <= Counted("drop_blocklist")
    /\ Hits(list_port_rules) <= Counted("pass_rule") + Counted("drop_port_rule")
                                   + Counted("drop_ratelimit")

-----------------------------------------------------------------------------
(* The token bucket. *)

(* Time one token takes at the fastest configured rate, rounded down. *)
Period == NSEC_PER_SEC \div MaxRate

(* Tokens a slot's bucket has been credited with since it was created. *)
Credited(s) == srcstate[s].tokens + ledger[s].spent + ledger[s].lost
               - ledger[s].start

(* The rate limit of struct fw_config: since it was created, no bucket has   *)
(* let more packets through than one burst plus one per token period, even   *)
(* though CPUs read the clock before they take the lock (`now` may be behind *)
(* last_refill_ns), settings change and are read half-written, and recycled  *)
(* slots are charged through stale pointers.                                 *)
RateContract ==
    \A s \in Slots :
        ledger[s].spent <= MaxBurst + (clock - ledger[s].born) \div Period

(* The comment at the bucket: last_refill_ns moves only by the time whole    *)
(* tokens took to earn, or "a source sending just above the rate would be    *)
(* held well below it".  When a packet is rate limited, all the time since   *)
(* the bucket was created, save idle stretches past one second, has been     *)
(* turned into tokens at no less than the slowest rate, up to a fraction of  *)
(* one token, and those tokens are spent or were above the burst.            *)
FairShareStep ==
    \A c \in CPUs :
        (job[c].pc = "update" /\ job'[c].pc = "count"
            /\ job[c].reason \in PassReasons /\ job'[c].reason \in DropReasons) =>
        LET l == ledger'[job[c].st]
        IN  MinRate * (job[c].now - l.born - l.idle)
               < NSEC_PER_SEC * (l.spent + l.lost - l.start + 1)
FairShare == [][FairShareStep]_vars

(* Why both hold: last_refill_ns never passes the clock, and the tokens      *)
(* credited so far are worth no more time, at the fastest rate, and no less, *)
(* at the slowest, than last_refill_ns has advanced.  A CPU that updates a   *)
(* bucket holds a pointer that was looked up and a clock reading of the past.*)
BucketSound(s) ==
    LET e == srcstate[s]  l == ledger[s] IN
    /\ l.born <= e.last_refill_ns /\ e.last_refill_ns <= clock
    /\ e.tokens <= MaxBurst /\ l.start <= MaxBurst
    /\ Credited(s) * Period <= e.last_refill_ns - l.born
    /\ MinRate * (e.last_refill_ns - l.born - l.idle) <= NSEC_PER_SEC * Credited(s)

BucketsSound ==
    /\ \A s \in Slots : BucketSound(s)
    /\ \A c \in CPUs : job[c].pc # "idle" =>
          /\ job[c].now <= clock
          /\ job[c].pc = "update" => job[c].st \in Slots

(* Time one token takes at the slowest configured rate, rounded up. *)
Grain == (NSEC_PER_SEC + MinRate - 1) \div MinRate

(* The bucket as a schedule: a missing token is a period still reserved.     *)
tat      == [s \in Slots |-> srcstate[s].last_refill_ns
                               + (MaxBurst - srcstate[s].tokens) * Period]
seen     == [s \in Slots |-> srcstate[s].last_seen_ns]
admitted == [s \in Slots |-> ledger[s].spent]

Limiter == INSTANCE RateLimiter WITH Buckets <- Slots, Burst <- MaxBurst, now <- clock

(* The limiter is a schedule, in any window and not only since a bucket was  *)
(* created: an admitted packet uses a whole period that no refill, no change *)
(* of the settings and no late packet of another CPU gives back, and "an     *)
(* idle source can't bank a huge allowance" (firewall.bpf.c): what it saves  *)
(* while it is silent is the burst and at most the time that one token takes *)
(* at the slowest rate.                                                      *)
RateIsScheduled == Limiter!Spec

(* The counters the detector divides by one another: a token is spent only   *)
(* on a packet that passes, so a source's drops and its paid packets never   *)
(* exceed its packets.                                                       *)
LedgerBalanced ==
    \A s \in Slots : ledger[s].spent + srcstate[s].dropped <= srcstate[s].packets

(* While the limiter is on, STATE_FULL accounts for every packet that gets   *)
(* past it without a token: as long as nothing was ever added to it (what    *)
(* resets wiped counts too) nobody was let through unlimited, however        *)
(* inserts, deletions, recycled slots and resets interleave.                 *)
NoUncountedBypass ==
    (/\ {"state", "ratelimit"} \subseteq config.features /\ config.rate_pps > 0
     /\ \A t \in Tools : "config" \notin Commands[t]) =>
    \A c \in CPUs :
        ever[c].pass_rule + ever[c].pass_default
            + One(job[c].pc = "count" /\ job[c].reason \in {"pass_rule", "pass_default"})
        <= paid[c] + ever[c].state_full

-----------------------------------------------------------------------------
(* Verdicts.  Each property is about packets during whose handling no list   *)
(* and no rule was written, compared with the lists and rules in force.      *)

Judged(c) == job[c].pc = "count" /\ job[c].quiet

(* firewall.bpf.c: "an allowlisted host can't be blocked by anything": with  *)
(* the stage on, a well-formed IPv4 packet from a covered source passes      *)
(* whatever the blocklist, the rules, the policy and the bucket say.         *)
AllowlistWins ==
    \A c \in CPUs : LET j == job[c] IN
        /\ Judged(c) /\ FrameReason(j.pkt) = "continue"
        /\ "allowlist" \in j.cfg.features
        /\ Covering(allowlist, j.pkt.saddr) # {}
        => j.reason = "pass_allowlist"

(* A source that has a live /32 entry of its own never gets an IPv4 packet   *)
(* through, whatever wider prefixes are listed beside it.                    *)
HostBlockHolds ==
    \A c \in CPUs : LET j == job[c] IN
        /\ Judged(c) /\ FrameReason(j.pkt) = "continue"
        /\ "blocklist" \in j.cfg.features
        /\ HostKey(j.pkt.saddr) \in DOMAIN blocklist
        /\ Live(blocklist[HostKey(j.pkt.saddr)], j.now)
        /\ j.reason \in PassReasons
        => j.reason = "pass_allowlist"

(* firewall.bpf.c: "blocks lift on time without any userspace help": nobody  *)
(* is dropped as blocked without a covering entry that is permanent or whose *)
(* deadline is after the packet's arrival.                                   *)
BlocksLiftOnTime ==
    \A c \in CPUs : LET j == job[c] IN
        Judged(c) /\ j.reason = "drop_blocklist" =>
            \E k \in Covering(blocklist, j.pkt.saddr) : Live(blocklist[k], j.now)

(* Under the default-deny policy with port rules on, an IPv4 packet that is  *)
(* not allowlisted passes only if it is no fragment and an allow rule names  *)
(* its protocol and its port (or ICMP type).                                 *)
DenyIsClosed ==
    \A c \in CPUs : LET j == job[c] IN
        /\ Judged(c) /\ j.reason \in PassReasons \ {"pass_allowlist", "pass_non_ipv4"}
        /\ "ports" \in j.cfg.features /\ j.cfg.default_policy = "deny"
        => /\ ~IsFrag(j.pkt)
           /\ \E k \in DOMAIN portrules :
                 /\ k = <<j.pkt.proto, IF j.pkt.proto = "other" THEN 0 ELSE j.pkt.port>>
                 /\ portrules[k].action = "allow"

-----------------------------------------------------------------------------
(* What comments promise of the tools. *)

(* controller.py: "It never touches the port rules or the default policy".   *)
PolicyStep ==
    config'.default_policy # config.default_policy =>
        \E t \in Tools \ {"controller"} : task'[t] # task[t]
PolicyIsTheOperators == [][PolicyStep]_vars
=============================================================================
