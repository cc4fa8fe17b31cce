----------------------------- MODULE MCFirewall -----------------------------
(* Instances of Firewall for TLC: packets, settings and commands.            *)
EXTENDS Firewall, TLC

CONSTANTS c1, c2

Symmetry == Permutations(CPUs)   \* the program treats all CPUs alike

AllStages == Features \ {"frags"}       \* FEAT_DEFAULT

Cfg(rate, burst, features, policy) ==
    [rate_pps |-> rate, burst_pkts |-> burst, features |-> features,
     default_policy |-> policy]

(* A well-formed UDP datagram; the other packets are variations of it. *)
Udp(saddr) ==
    [len |-> 60, vlan |-> FALSE, ipv4 |-> TRUE, version |-> 4, ihl |-> 5,
     tot_len |-> 46, ttl |-> 64, saddr |-> saddr, proto |-> "udp",
     frag_off |-> 0, port |-> 80, flags |-> {}, doff |-> 0, udp_len |-> 26]

Tcp(saddr, flags) == [Udp(saddr) EXCEPT !.proto = "tcp", !.flags = flags,
                                        !.doff = 5, !.udp_len = 0]

-----------------------------------------------------------------------------
(* One source and its bucket, with a controller that moves between two tiers *)
(* and forgets the source when it is idle.                                   *)

(* Filtered from two, not {Udp(0)}: TLC sorts the fields of records when it   *)
(* compares them, and must not do so first while its workers share one.      *)
BucketPackets  == {p \in {Udp(0), Udp(1)} : p.saddr = 0}
RetuneInit     == Cfg(1, 2, {"ratelimit", "state"}, "allow")
RetuneCommands == [t \in {"controller"} |-> {"config", "idle"}]
RetuneChanges  == [t \in {"controller"} |->
    {<<{"rate_pps", "burst_pkts"}, RetuneInit>>,
     <<{"rate_pps", "burst_pkts"}, Cfg(2, 1, {}, "allow")>>}]

-----------------------------------------------------------------------------
(* Two sources compete for the slots of srcstate while the tools delete      *)
(* entries.                                                                  *)

RacePackets  == {Udp(0), Udp(1)}
RaceInit     == Cfg(1, 1, {"ratelimit", "state"}, "allow")
MixedPackets == RacePackets \cup {[Udp(1) EXCEPT !.frag_off = 185]}
MixedInit    == Cfg(1, 1, {"ratelimit", "state", "frags"}, "allow")
RaceCommands == [t \in {"controller"} |-> {"idle"}]

-----------------------------------------------------------------------------
(* The lists, the rules and the header checks with every stage on: a host and *)
(* the prefix that covers every address, while the operator writes and resets.*)

VerdictPackets ==
    {Udp(0), [Udp(0) EXCEPT !.frag_off = 185], [Udp(0) EXCEPT !.udp_len = 7],
     [Udp(0) EXCEPT !.ipv4 = FALSE], [Udp(0) EXCEPT !.vlan = TRUE, !.len = 17],
     [Tcp(1, {"SYN", "FIN"}) EXCEPT !.vlan = TRUE]}
VerdictInit     == Cfg(1, 1, AllStages, "deny")
HostKeys        == {HostKey(0)}
ListKeys        == {HostKey(0), lpm_key(0, 1)}
RuleKeySet      == {<<"udp", 80>>, <<"icmp", 256>>}
VerdictCommands == [t \in {"fwctl"} |->
    {"allow", "block", "unblock", "flush", "expire", "port", "reset"}]

-----------------------------------------------------------------------------
(* Commands of the runs about what comments promise.                         *)

TwoTools(fwctl, controller) ==
    [t \in {"fwctl", "controller"} |-> IF t = "fwctl" THEN fwctl ELSE controller]

ResetCommands   == [t \in {"fwctl"} |-> {"reset"}]
PolicyCommands  == TwoTools({"config"}, {"config"})
PolicyChanges   == TwoTools({<<{"default_policy"}, Cfg(1, 1, {}, "deny")>>},
                            {<<{"rate_pps", "burst_pkts"}, Cfg(2, 2, {}, "allow")>>})

NoKeys    == {}
NoChanges == [t \in Tools |-> {}]
=============================================================================
