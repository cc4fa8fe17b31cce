---------------------------- MODULE PacketFilter ----------------------------
(***************************************************************************)
(* The stateless part of bpf/firewall.bpf.c: what xdp_firewall concludes   *)
(* from a packet's own headers, and what it concludes from one lookup in   *)
(* the allowlist, the blocklist or the port rules.                         *)
(*                                                                         *)
(* A packet is a record of the header fields the program reads.  Lengths   *)
(* are byte counts, so every "(hdr + 1) > data_end" of the program is a    *)
(* comparison with p.len.  A verdict is named by the statistics counter    *)
(* that records it ("continue" when a stage leaves the packet undecided).  *)
(***************************************************************************)
EXTENDS Integers, FiniteSets

CONSTANT ADDR_BITS   \* width of a source address (32 in the program)

ASSUME AddrAssumption == ADDR_BITS \in Nat

Addresses == 0 .. (2 ^ ADDR_BITS - 1)

-----------------------------------------------------------------------------
(* Verdict counters of enum stat_index. *)

PassReasons == {"pass_allowlist", "pass_rule", "pass_default", "pass_non_ipv4"}
DropReasons == {"drop_blocklist", "drop_port_rule", "drop_default",
                "drop_proto", "drop_ratelimit", "drop_malformed",
                "drop_fragment"}
Reasons == PassReasons \cup DropReasons

-----------------------------------------------------------------------------
(* Headers.  p.vlan: one 802.1Q/802.1AD tag; p.ipv4: the ethertype after it *)
(* is IPv4; p.port: destination port, or the ICMP type.                     *)

ETH_HLEN  == 14
VLAN_HLEN == 4
IP_HLEN   == 20
L4_HLEN   == [tcp |-> 20, udp |-> 8, icmp |-> 4]

L3Offset(p) == ETH_HLEN + (IF p.vlan THEN VLAN_HLEN ELSE 0)
L4Offset(p) == L3Offset(p) + 4 * p.ihl
IsFrag(p)   == p.frag_off # 0

BadIpHeader(p) ==
    \/ p.len < L3Offset(p) + IP_HLEN
    \/ p.version # 4
    \/ 4 * p.ihl < IP_HLEN
    \/ 4 * p.ihl > 60
    \/ p.len < L4Offset(p)
    \/ p.tot_len < 4 * p.ihl
    \/ p.ttl = 0

FrameReason(p) ==
    IF p.len < L3Offset(p) THEN "drop_malformed"
    ELSE IF ~p.ipv4 THEN "pass_non_ipv4"
    ELSE IF BadIpHeader(p) THEN "drop_malformed"
    ELSE "continue"

(* A non-first fragment has no transport header to check. *)
BadTransport(p) ==
    /\ ~IsFrag(p)
    /\ p.proto \in DOMAIN L4_HLEN
    /\ \/ p.len < L4Offset(p) + L4_HLEN[p.proto]
       \/ p.proto = "tcp" /\ p.doff < 5
       \/ p.proto = "udp" /\ p.udp_len < 8

(* The program's locals dport, rule_port and tcp_flags after L4 parsing. *)
DPort(p)    == IF ~IsFrag(p) /\ p.proto \in {"tcp", "udp"} THEN p.port ELSE 0
RulePort(p) == IF ~IsFrag(p) /\ p.proto \in DOMAIN L4_HLEN THEN p.port ELSE 0
Flags(p)    == IF ~IsFrag(p) /\ p.proto = "tcp" THEN p.flags ELSE {}

tcp_flags_sane(f) ==
    /\ f # {}
    /\ \A bad \in {{"SYN", "FIN"}, {"SYN", "RST"}, {"FIN", "RST"},
                   {"FIN", "PSH", "URG"}} : ~(bad \subseteq f)

-----------------------------------------------------------------------------
(* LPM tries.  A key is <<prefix length, network>>; lpm_key clears the host *)
(* bits (parse_cidr, strict=False).  A lookup is always for a full address. *)

HostBits(plen)      == 2 ^ (ADDR_BITS - plen)
lpm_key(plen, addr) == <<plen, (addr \div HostBits(plen)) * HostBits(plen)>>
HostKey(addr)       == lpm_key(ADDR_BITS, addr)

Covers(key, addr)   == lpm_key(key[1], addr) = key
Covering(trie, addr) == {key \in DOMAIN trie : Covers(key, addr)}
(* Mutant of LongestMatch: the trie walk stops at the first, widest match. *)
ShortestMatch(trie, addr) ==
    CHOOSE key \in Covering(trie, addr) :
        \A other \in Covering(trie, addr) : other[1] >= key[1]

LongestMatch(trie, addr) ==
    CHOOSE key \in Covering(trie, addr) :
        \A other \in Covering(trie, addr) : other[1] <= key[1]

(* block_val.expires_ns: 0 is permanent, otherwise an absolute deadline. *)
Live(block, now) == block.expires_ns = 0 \/ block.expires_ns > now

(* Mutant of Blocked: the deadline is left to userspace. *)
BlockedUntilDeleted(blocklist, addr, now) == Covering(blocklist, addr) # {}

(* What one blocklist lookup decides: only the longest match is consulted. *)
Blocked(blocklist, addr, now) ==
    /\ Covering(blocklist, addr) # {}
    /\ Live(blocklist[LongestMatch(blocklist, addr)], now)

-----------------------------------------------------------------------------
(* From the transport header to the default policy.  rules maps             *)
(* <<protocol, port>> to a record with an action.                           *)

PortKey(p) == <<p.proto, RulePort(p)>>

(* Mutant of DefaultReason: without a policy the reason is left unset. *)
DefaultUnset(cfg) ==
    IF "ports" \in cfg.features /\ cfg.default_policy = "deny"
    THEN "drop_default" ELSE "continue"

DefaultReason(cfg) ==
    IF "ports" \in cfg.features /\ cfg.default_policy = "deny"
    THEN "drop_default" ELSE "pass_default"

(* Mutant of FragmentReason: a fragment skips the default policy. *)
FragmentPasses(cfg) ==
    IF "frags" \in cfg.features THEN "drop_fragment" ELSE "pass_default"

FragmentReason(cfg) ==
    IF "frags" \in cfg.features THEN "drop_fragment" ELSE DefaultReason(cfg)

Insane(p, cfg) ==
    /\ "proto" \in cfg.features
    /\ p.proto = "tcp"
    /\ ~tcp_flags_sane(Flags(p))

(* Mutant of RuleHit: the rule is looked up before the header is checked. *)
RuleHitFirst(p, cfg, rules) ==
    "ports" \in cfg.features /\ PortKey(p) \in DOMAIN rules

(* The packet gets as far as the port rule lookup, and finds a rule. *)
RuleHit(p, cfg, rules) ==
    /\ ~BadTransport(p) /\ ~IsFrag(p) /\ ~Insane(p, cfg)
    /\ "ports" \in cfg.features
    /\ PortKey(p) \in DOMAIN rules

L4Reason(p, cfg, rules) ==
    IF BadTransport(p) THEN "drop_malformed"
    ELSE IF IsFrag(p) THEN FragmentReason(cfg)
    ELSE IF Insane(p, cfg) THEN "drop_proto"
    ELSE IF ~RuleHit(p, cfg, rules) THEN DefaultReason(cfg)
    ELSE IF rules[PortKey(p)].action = "deny" THEN "drop_port_rule"
    ELSE "pass_rule"
=============================================================================
