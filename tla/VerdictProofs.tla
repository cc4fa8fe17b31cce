--------------------------- MODULE VerdictProofs ----------------------------
(***************************************************************************)
(* What the verdicts of xdp_firewall owe to the lists and rules in force,  *)
(* for any number of CPUs and tools, any address width and any packets and *)
(* settings.  The stages of one run are separate steps between which the   *)
(* other CPUs credit hits, the clock moves and the tools write; the        *)
(* inductive invariant says at every stage what the stages already passed  *)
(* have established, as long as nobody has written since.  In the second   *)
(* half, what the hits of the lists and rules owe to the counters.         *)
(***************************************************************************)
EXTENDS FirewallProofs, WellFoundedInduction, FiniteSetTheorems

-----------------------------------------------------------------------------
(* The longest match exists: prefix lengths are bounded. *)

(* A nonempty bounded set of numbers has a largest one. *)
LEMMA GreatestExists ==
    ASSUME NEW n \in Nat, NEW S \in SUBSET (0 .. n), S # {}
    PROVE  \E m \in S : \A k \in S : k <= m
  <1> DEFINE T == {n - k : k \in S}
  <1>1. T \in SUBSET Nat /\ T # {}
    <2>1. \A k \in S : k \in 0 .. n
      OBVIOUS
    <2>2. \A k \in 0 .. n : n - k \in Nat
      OBVIOUS
    <2>3. PICK k \in S : TRUE
      OBVIOUS
    <2> QED BY <2>1, <2>2, <2>3
  <1> HIDE DEF T
  <1>2. PICK d \in T : \A e \in T : ~ (<<e, d>> \in OpToRel(<, Nat))
    BY <1>1, NatLessThanWellFounded, WFMin
  <1>3. ASSUME NEW e \in T, e < d PROVE FALSE
    <2>1. <<e, d>> \in {ss \in Nat \X Nat : ss[1] < ss[2]}
      BY <1>1, <1>3
    <2>2. OpToRel(<, Nat) = {ss \in Nat \X Nat : ss[1] < ss[2]}
      BY Zenon DEF OpToRel
    <2> QED BY <1>2, <2>1, <2>2
  <1>4. PICK m \in S : d = n - m
    BY DEF T
  <1>5. ASSUME NEW k \in S PROVE k <= m
    <2>1. n - k \in T
      BY DEF T
    <2> QED BY <2>1, <1>1, <1>3, <1>4
  <1> QED BY <1>5

(* What LongestMatch picks from the covering keys. *)
Longest(keys) == CHOOSE key \in keys : \A other \in keys : other[1] <= key[1]

LEMMA LongestIsMatch ==
    ASSUME NEW trie, NEW addr
    PROVE  LongestMatch(trie, addr) = Longest(Covering(trie, addr))
  BY DEF LongestMatch, Longest

LEMMA LongestExists ==
    ASSUME NEW keys \in SUBSET Prefixes, keys # {}
    PROVE  /\ Longest(keys) \in keys
           /\ \A other \in keys : other[1] <= Longest(keys)[1]
  <1> DEFINE S == {key[1] : key \in keys}
  <1>1. S \in SUBSET (0 .. ADDR_BITS) /\ S # {}
    BY DEF Prefixes, lpm_key
  <1>2. PICK m \in S : \A k \in S : k <= m
    BY <1>1, AddrAssumption, GreatestExists
  <1>3. PICK key \in keys : key[1] = m
    OBVIOUS
  <1>4. \A other \in keys : other[1] <= key[1]
    BY <1>2, <1>3
  <1> QED BY <1>4 DEF Longest

(* Of the prefixes that cover an address its /32 is the longest, and the     *)
(* only one of that length.                                                  *)
LEMMA HostKeyIsLongest ==
    ASSUME NEW trie, DOMAIN trie \subseteq Prefixes, NEW addr,
           HostKey(addr) \in DOMAIN trie
    PROVE  /\ HostKey(addr) \in Covering(trie, addr)
           /\ LongestMatch(trie, addr) = HostKey(addr)
  <1> DEFINE keys == Covering(trie, addr)
  <1>1. HostKey(addr)[1] = ADDR_BITS /\ HostKey(addr) \in keys
    BY DEF Covering, Covers, HostKey, lpm_key
  <1>2. keys \in SUBSET Prefixes
    BY DEF Covering
  <1>3. \A key \in keys : key[1] \in 0 .. ADDR_BITS /\ key = lpm_key(key[1], addr)
    BY <1>2 DEF Covering, Covers, Prefixes, lpm_key
  <1> HIDE DEF keys
  <1>4. Longest(keys) \in keys /\ ADDR_BITS <= Longest(keys)[1]
    BY <1>1, <1>2, LongestExists
  <1>5. Longest(keys)[1] = ADDR_BITS
    BY <1>3, <1>4, AddrAssumption
  <1>6. Longest(keys) = HostKey(addr)
    BY <1>3, <1>4, <1>5 DEF HostKey
  <1> QED BY <1>1, <1>6, LongestIsMatch DEF keys

-----------------------------------------------------------------------------
(* Crediting a hit changes no verdict: two states of the maps that differ    *)
(* only in hits decide every packet alike.                                   *)

SameLists(al, bl, pr, al2, bl2, pr2) ==
    /\ DOMAIN al2 = DOMAIN al
    /\ DOMAIN bl2 = DOMAIN bl
    /\ \A k \in DOMAIN bl : bl2[k].expires_ns = bl[k].expires_ns
    /\ DOMAIN pr2 = DOMAIN pr
    /\ \A k \in DOMAIN pr : pr2[k].action = pr[k].action

LEMMA SameVerdicts ==
    ASSUME NEW al, NEW bl, NEW pr, NEW al2, NEW bl2, NEW pr2,
           SameLists(al, bl, pr, al2, bl2, pr2), DOMAIN bl \subseteq Prefixes,
           NEW addr, NEW now, NEW p, NEW cfg
    PROVE  /\ Covering(al2, addr) = Covering(al, addr)
           /\ Blocked(bl2, addr, now) <=> Blocked(bl, addr, now)
           /\ L4Reason(p, cfg, pr2) = L4Reason(p, cfg, pr)
  <1>1. Covering(al2, addr) = Covering(al, addr)
    BY DEF SameLists, Covering
  <1>2. Blocked(bl2, addr, now) <=> Blocked(bl, addr, now)
    <2>1. Covering(bl2, addr) = Covering(bl, addr)
      BY DEF SameLists, Covering
    <2>2. CASE Covering(bl, addr) = {}
      BY <2>1, <2>2 DEF Blocked
    <2>3. CASE Covering(bl, addr) # {}
      <3> DEFINE k == Longest(Covering(bl, addr))
      <3>1. Covering(bl, addr) \in SUBSET Prefixes /\ Covering(bl, addr) \subseteq DOMAIN bl
        BY DEF Covering
      <3>2. k \in DOMAIN bl
        BY <2>3, <3>1, LongestExists
      <3>3. LongestMatch(bl, addr) = k /\ LongestMatch(bl2, addr) = k
        BY <2>1, LongestIsMatch
      <3> HIDE DEF k
      <3> QED BY <2>1, <2>3, <3>2, <3>3 DEF Blocked, Live, SameLists
    <2> QED BY <2>2, <2>3
  <1>3. L4Reason(p, cfg, pr2) = L4Reason(p, cfg, pr)
    <2>1. RuleHit(p, cfg, pr2) <=> RuleHit(p, cfg, pr)
      BY DEF RuleHit, SameLists
    <2>2. RuleHit(p, cfg, pr) => pr2[PortKey(p)].action = pr[PortKey(p)].action
      BY DEF RuleHit, SameLists
    <2> QED BY <2>1, <2>2 DEF L4Reason
  <1> QED BY <1>1, <1>2, <1>3
-----------------------------------------------------------------------------
(* The inductive invariant. *)

(* A packet that has not reached the transport stage has no verdict yet; the *)
(* two lists and the header checks decide for good.                          *)
StageSound(j) ==
    /\ FrameReason(j.pkt) # "continue" =>
          j.pc = "count" /\ j.reason = FrameReason(j.pkt)
    /\ j.pc \in {"allowlist", "blocklist", "l4"} => j.reason = "pass_default"
    /\ j.reason \in {"pass_allowlist", "drop_blocklist"} => j.pc = "count"

(* What the stages behind an undisturbed packet have established. *)
ListSound(j, al, bl, pr) ==
    LET saddr == j.pkt.saddr IN
    /\ j.reason = "drop_blocklist" => Blocked(bl, saddr, j.now)
    /\ FrameReason(j.pkt) = "continue" =>
          /\ "allowlist" \in j.cfg.features /\ j.pc # "allowlist" =>
                j.reason = "pass_allowlist" \/ Covering(al, saddr) = {}
          /\ "blocklist" \in j.cfg.features /\ j.pc \notin {"allowlist", "blocklist"} =>
                \/ j.reason \in {"pass_allowlist", "drop_blocklist"}
                \/ ~Blocked(bl, saddr, j.now)
          /\ j.pc \notin {"allowlist", "blocklist", "l4"} =>
                j.reason \in {"pass_allowlist", "drop_blocklist", "drop_ratelimit",
                              L4Reason(j.pkt, j.cfg, pr)}

JobSound(j, al, bl, pr) ==
    j.pc # "idle" => StageSound(j) /\ (j.quiet => ListSound(j, al, bl, pr))

VerdictsSound == \A c \in CPUs : JobSound(job[c], allowlist, blocklist, portrules)

LEMMA SoundWithSameLists ==
    ASSUME NEW al, NEW bl, NEW pr, NEW al2, NEW bl2, NEW pr2,
           SameLists(al, bl, pr, al2, bl2, pr2), DOMAIN bl \subseteq Prefixes,
           NEW j, JobSound(j, al, bl, pr)
    PROVE  JobSound(j, al2, bl2, pr2)
  <1>1. /\ Covering(al2, j.pkt.saddr) = Covering(al, j.pkt.saddr)
        /\ Blocked(bl2, j.pkt.saddr, j.now) <=> Blocked(bl, j.pkt.saddr, j.now)
        /\ L4Reason(j.pkt, j.cfg, pr2) = L4Reason(j.pkt, j.cfg, pr)
    BY SameVerdicts
  <1> QED BY <1>1 DEF JobSound, ListSound

-----------------------------------------------------------------------------
(* What the steps do to lists and locals. *)

(* A run of xdp_firewall writes nothing to lists and rules but hits, and no  *)
(* locals but its own.                                                       *)
LEMMA KernelKeepsLists ==
    ASSUME TypeOK, NEW c \in CPUs, Step(c)
    PROVE  /\ SameLists(allowlist, blocklist, portrules, allowlist', blocklist', portrules')
           /\ \A d \in CPUs \ {c} : job'[d] = job[d]
  <1>1. /\ job \in [CPUs -> {Idle} \cup Busy]
        /\ IsMap(blocklist, Prefixes, [expires_ns : Nat, hits : Nat,
                                       reason : {"manual", "auto"}])
        /\ IsMap(portrules, RuleKeys, [action : {"allow", "deny"},
                                       hits : [CPUs -> Nat]])
    BY DEF TypeOK
  <1>2. ASSUME NEW k, blocklist' = [blocklist EXCEPT ![k].hits = @ + 1]
        PROVE  /\ DOMAIN blocklist' = DOMAIN blocklist
               /\ \A x \in DOMAIN blocklist : blocklist'[x].expires_ns = blocklist[x].expires_ns
    <2>1. \A x \in DOMAIN blocklist :
              blocklist[x] \in [expires_ns : Nat, hits : Nat, reason : {"manual", "auto"}]
      BY <1>1 DEF IsMap
    <2> QED BY <1>2, <2>1
  <1>3. ASSUME NEW k, portrules' = [portrules EXCEPT ![k].hits[c] = @ + 1]
        PROVE  /\ DOMAIN portrules' = DOMAIN portrules
               /\ \A x \in DOMAIN portrules : portrules'[x].action = portrules[x].action
    <2>1. \A x \in DOMAIN portrules :
              portrules[x] \in [action : {"allow", "deny"}, hits : [CPUs -> Nat]]
      BY <1>1 DEF IsMap
    <2> QED BY <1>3, <2>1
  <1>4. CASE CheckAllowlist(c)
    BY <1>1, <1>4 DEF CheckAllowlist, Decided, Goto, SameLists
  <1>5. CASE CheckBlocklist(c)
    <2>1. \A d \in CPUs \ {c} : job'[d] = job[d]
      BY <1>1, <1>5 DEF CheckBlocklist, Decided, Goto
    <2>2. UNCHANGED <<allowlist, portrules>>
      BY <1>5 DEF CheckBlocklist
    <2>3. UNCHANGED blocklist \/ \E k : blocklist' = [blocklist EXCEPT ![k].hits = @ + 1]
      BY <1>5 DEF CheckBlocklist
    <2> QED BY <1>2, <2>1, <2>2, <2>3 DEF SameLists
  <1>6. CASE Filter(c)
    <2>1. \A d \in CPUs \ {c} : job'[d] = job[d]
      BY <1>1, <1>6 DEF Filter
    <2>2. UNCHANGED <<allowlist, blocklist>>
      BY <1>6 DEF Filter
    <2>3. UNCHANGED portrules \/ \E k : portrules' = [portrules EXCEPT ![k].hits[c] = @ + 1]
      BY <1>6 DEF Filter
    <2> QED BY <1>3, <2>1, <2>2, <2>3 DEF SameLists
  <1>7. CASE Lookup(c) \/ Insert(c) \/ InsertFails(c) \/ Relookup(c) \/ Update(c) \/ Count(c)
    <2>1. UNCHANGED <<allowlist, blocklist, portrules>>
      BY <1>7 DEF Lookup, Insert, InsertFails, Relookup, Update, Count, maps
    <2>2. \A d \in CPUs \ {c} : job'[d] = job[d]
      BY <1>1, <1>7 DEF Lookup, Insert, InsertFails, Relookup, Update, Count,
                        Decided, Goto, Use
    <2> QED BY <2>1, <2>2 DEF SameLists
  <1> QED BY <1>4, <1>5, <1>6, <1>7 DEF Step

(* A tool that writes a list or a rule leaves its mark on every packet that  *)
(* is being handled.                                                         *)
LEMMA ToolsDisturb ==
    ASSUME NEW t \in Tools, ToolStep(t)
    PROVE  UNCHANGED <<job, allowlist, blocklist, portrules>> \/ Disturb
  <1>1. ASSUME NEW key \in AllowKeys, Allow(t, key) \/ Unallow(t, key) PROVE Disturb
    BY <1>1 DEF Allow, Unallow
  <1>2. CASE Block(t)
    BY <1>2 DEF Block
  <1>3. ASSUME NEW key, Unblock(t, key) \/ DeleteBlock(t, key)
                        \/ del_port_rule(t, key) \/ DeleteRule(t, key)
        PROVE  Disturb
    BY <1>3 DEF Unblock, DeleteBlock, del_port_rule, DeleteRule
  <1>4. ASSUME NEW key, NEW a, set_port_rule(t, key, a) PROVE Disturb
    BY <1>4 DEF set_port_rule
  <1>5. ASSUME UNCHANGED xdpVars
        PROVE  UNCHANGED <<job, allowlist, blocklist, portrules>>
    BY <1>5 DEF xdpVars
  <1>6. ASSUME NEW a, DeleteState(t, a) \/ WriteConfig(t, a)
        PROVE  UNCHANGED <<job, allowlist, blocklist, portrules>>
    BY <1>6 DEF DeleteState, WriteConfig, maps
  <1>7. ASSUME NEW key, NEW d, CheckAllowed(t, key, d) \/ update_config(t, key, d)
        PROVE  UNCHANGED xdpVars
    BY <1>7 DEF CheckAllowed, update_config
  <1>8. CASE remove_expired_blocks(t) \/ clear_blocks(t) \/ clear_port_rules(t)
             \/ reset_stats(t) \/ remove_idle_states(t) \/ clear_states(t) \/ Finish(t)
    BY <1>5, <1>8 DEF remove_expired_blocks, clear_blocks, clear_port_rules,
                      reset_stats, remove_idle_states, clear_states, Finish
  <1>9. ASSUME NEW c, ZeroStat(t, c)
        PROVE  UNCHANGED <<job, allowlist, blocklist, portrules>>
    BY <1>9 DEF ZeroStat, maps
  <1> QED BY <1>1, <1>2, <1>3, <1>4, <1>5, <1>6, <1>7, <1>8, <1>9 DEF ToolStep

(* Every stage leaves behind what the next ones rely on. *)
LEMMA StageKeepsSound ==
    ASSUME TypeOK, NEW c \in CPUs, Step(c),
           JobSound(job[c], allowlist, blocklist, portrules)
    PROVE  JobSound(job'[c], allowlist, blocklist, portrules)
  <1> DEFINE j == job[c]
             k == job'[c]
             Same == /\ k.pkt = j.pkt /\ k.now = j.now /\ k.cfg = j.cfg
                     /\ k.quiet = j.quiet
             Sound == JobSound(k, allowlist, blocklist, portrules)
  <1>1. job \in [CPUs -> {Idle} \cup Busy]
    BY DEF TypeOK
  <1>2. j.pc # "idle" /\ j \in Busy
    <2>1. j.pc # "idle"
      BY DEF Step, Count, CheckAllowlist, CheckBlocklist, Filter, Lookup, Insert,
             InsertFails, Relookup, Update
    <2> QED BY <2>1, <1>1, BusyJob
  <1>3. StageSound(j) /\ (j.quiet => ListSound(j, allowlist, blocklist, portrules))
    BY <1>2 DEF JobSound
  <1>4. \A pc : Goto(c, pc) => Same /\ k.pc = pc /\ k.reason = j.reason
    BY <1>1, <1>2 DEF Goto, Busy
  <1>5. \A r : Decided(c, r) => Same /\ k.pc = "count" /\ k.reason = r
    BY <1>1, <1>2 DEF Decided, Busy
  <1>6. \A s : Use(c, s) => Same /\ k.pc = "update" /\ k.reason = j.reason
    BY <1>1, <1>2 DEF Use, Busy
  <1>7. j.reason \in Reasons
    BY <1>2 DEF Busy
  <1> HIDE DEF j, k
  <1>8. ASSUME CheckAllowlist(c) PROVE Sound
    <2>1. j.pc = "allowlist"
      BY <1>8 DEF CheckAllowlist, j
    <2>2. CASE Covering(allowlist, j.pkt.saddr) # {}
      <3>1. Same /\ k.pc = "count" /\ k.reason = "pass_allowlist"
        BY <1>5, <1>8, <2>2 DEF CheckAllowlist, j
      <3> QED BY <1>3, <2>1, <3>1 DEF JobSound, StageSound, ListSound
    <2>3. CASE Covering(allowlist, j.pkt.saddr) = {}
      <3>1. Same /\ k.pc = AfterAllowlist(j.cfg) /\ k.reason = j.reason
        BY <1>4, <1>8, <2>3 DEF CheckAllowlist, j
      <3> QED BY <1>3, <2>1, <2>3, <3>1
              DEF JobSound, StageSound, ListSound, AfterAllowlist
    <2> QED BY <2>2, <2>3
  <1>9. ASSUME CheckBlocklist(c) PROVE Sound
    <2>1. j.pc = "blocklist"
      BY <1>9 DEF CheckBlocklist, j
    <2>2. CASE Blocked(blocklist, j.pkt.saddr, j.now)
      <3>1. Same /\ k.pc = "count" /\ k.reason = "drop_blocklist"
        BY <1>5, <1>9, <2>2 DEF CheckBlocklist, j
      <3> QED BY <1>3, <2>1, <2>2, <3>1 DEF JobSound, StageSound, ListSound
    <2>3. CASE ~Blocked(blocklist, j.pkt.saddr, j.now)
      <3>1. Same /\ k.pc = "l4" /\ k.reason = j.reason
        BY <1>4, <1>9, <2>3 DEF CheckBlocklist, j
      <3> QED BY <1>3, <2>1, <2>3, <3>1 DEF JobSound, StageSound, ListSound
    <2> QED BY <2>2, <2>3
  <1>10. ASSUME Filter(c) PROVE Sound
    <2>1. j.pc = "l4"
      BY <1>10 DEF Filter, j
    <2>2. Same /\ k.pc \in {"count", "lookup"} /\ k.reason = L4Reason(j.pkt, j.cfg, portrules)
      BY <1>1, <1>2, <1>10 DEF Filter, j, k, Busy
    <2>3. k.reason \notin {"pass_allowlist", "drop_blocklist"}
      BY <2>2 DEF L4Reason, FragmentReason, DefaultReason
    <2> QED BY <1>3, <2>1, <2>2, <2>3 DEF JobSound, StageSound, ListSound
  <1>11. ASSUME Lookup(c) \/ Insert(c) \/ InsertFails(c) \/ Relookup(c) PROVE Sound
    <2>1. j.pc \in {"lookup", "insert", "relookup"}
      BY <1>11 DEF Lookup, Insert, InsertFails, Relookup, j
    <2>2. \/ \E pc \in {"insert", "relookup", "count"} : Goto(c, pc)
          \/ \E s : Use(c, s)
      BY <1>11 DEF Lookup, Insert, InsertFails, Relookup
    <2>3. Same /\ k.pc \in {"insert", "relookup", "count", "update"} /\ k.reason = j.reason
      BY <1>4, <1>6, <2>2
    <2> QED BY <1>3, <2>1, <2>3 DEF JobSound, StageSound, ListSound
  <1>12. ASSUME Update(c) PROVE Sound
    <2>1. j.pc = "update"
      BY <1>12 DEF Update, j
    <2>2. \E r \in {"drop_ratelimit", j.reason} : Decided(c, r)
      BY <1>12 DEF Update, j
    <2>3. Same /\ k.pc = "count" /\ k.reason \in {"drop_ratelimit", j.reason}
      BY <1>5, <2>2
    <2> QED BY <1>3, <2>1, <2>3 DEF JobSound, StageSound, ListSound
  <1>13. ASSUME Count(c) PROVE Sound
    <2>1. k = Idle
      BY <1>1, <1>13 DEF Count, k
    <2> QED BY <2>1 DEF JobSound, Idle
  <1> QED BY <1>8, <1>9, <1>10, <1>11, <1>12, <1>13 DEF Step, j, k

LEMMA ArrivalSound ==
    ASSUME TypeOK, NEW c \in CPUs, NEW p \in Packets, Receive(c, p)
    PROVE  JobSound(job'[c], allowlist, blocklist, portrules)
  <1> DEFINE k == job'[c]
  <1>1. job \in [CPUs -> {Idle} \cup Busy]
    BY DEF TypeOK
  <1>2. /\ k.pc = IF FrameReason(p) = "continue" THEN AfterFrame(config) ELSE "count"
        /\ k.reason = IF FrameReason(p) = "continue" THEN "pass_default"
                      ELSE FrameReason(p)
        /\ k.pkt = p /\ k.cfg = config
    BY <1>1 DEF Receive
  <1>3. FrameReason(p) \in {"continue", "drop_malformed", "pass_non_ipv4"}
    BY DEF FrameReason
  <1> HIDE DEF k
  <1> QED BY <1>2, <1>3 DEF JobSound, StageSound, ListSound, AfterFrame, AfterAllowlist, k

(* The invariant holds in every reachable state. *)
THEOREM VerdictInvariant == Spec => []VerdictsSound
  <1>1. Init => VerdictsSound
    BY DEF Init, XdpInit, VerdictsSound, JobSound, Idle
  <1>2. TypeOK /\ VerdictsSound /\ [Next]_vars => VerdictsSound'
    <2> SUFFICES ASSUME TypeOK, VerdictsSound, [Next]_vars, NEW c \in CPUs
                 PROVE  JobSound(job'[c], allowlist', blocklist', portrules')
      BY DEF VerdictsSound
    <2> DEFINE Sound == JobSound(job'[c], allowlist', blocklist', portrules')
    <2>1. /\ job \in [CPUs -> {Idle} \cup Busy] /\ DOMAIN blocklist \subseteq Prefixes
      BY DEF TypeOK, IsMap
    <2>2. JobSound(job[c], allowlist, blocklist, portrules)
      BY DEF VerdictsSound
    <2>3. ASSUME job'[c] = job[c], UNCHANGED <<allowlist, blocklist, portrules>>
          PROVE  Sound
      BY <2>2, <2>3
    <2>4. CASE Tick /\ UNCHANGED task
      BY <2>3, <2>4 DEF Tick, maps
    <2>5. ASSUME NEW d \in CPUs, NEW p \in Packets, Receive(d, p) PROVE Sound
      <3>1. UNCHANGED <<allowlist, blocklist, portrules>>
        BY <2>5 DEF Receive, maps
      <3>2. CASE d = c
        BY <2>5, <3>1, <3>2, ArrivalSound
      <3>3. CASE d # c
        <4>1. job'[c] = job[c]
          BY <2>1, <2>5, <3>3 DEF Receive
        <4> QED BY <2>3, <3>1, <4>1
      <3> QED BY <3>2, <3>3
    <2>6. ASSUME NEW d \in CPUs, Step(d) PROVE Sound
      <3>1. /\ SameLists(allowlist, blocklist, portrules, allowlist', blocklist', portrules')
            /\ \A e \in CPUs \ {d} : job'[e] = job[e]
        BY <2>6, KernelKeepsLists
      <3>2. JobSound(job'[c], allowlist, blocklist, portrules)
        BY <2>2, <2>6, <3>1, StageKeepsSound
      <3> QED BY <2>1, <3>1, <3>2, SoundWithSameLists
    <2>7. ASSUME NEW t \in Tools, ToolStep(t) PROVE Sound
      <3>1. CASE UNCHANGED <<job, allowlist, blocklist, portrules>>
        BY <2>3, <3>1
      <3>2. CASE Disturb /\ job[c].pc = "idle"
        BY <3>2 DEF Disturb, JobSound
      <3>3. CASE Disturb /\ job[c].pc # "idle"
        <4>1. job[c] \in Busy /\ job'[c] = [job[c] EXCEPT !.quiet = FALSE]
          BY <2>1, <3>3, BusyJob DEF Disturb
        <4>2. /\ job'[c].pc = job[c].pc /\ job'[c].reason = job[c].reason
              /\ job'[c].pkt = job[c].pkt /\ ~job'[c].quiet
          BY <4>1 DEF Busy
        <4> QED BY <2>2, <3>3, <4>2 DEF JobSound, StageSound
      <3> QED BY <2>7, <3>1, <3>2, <3>3, ToolsDisturb
    <2>8. CASE UNCHANGED vars
      BY <2>3, <2>8 DEF vars, xdpVars
    <2> QED BY <2>4, <2>5, <2>6, <2>7, <2>8 DEF Next
  <1> QED BY <1>1, <1>2, TypeCorrect, PTL DEF Spec

-----------------------------------------------------------------------------
(* What the invariant means for a packet whose verdict is about to be        *)
(* counted.                                                                  *)

LEMMA AtVerdict ==
    ASSUME TypeOK, VerdictsSound, NEW c \in CPUs, Judged(c)
    PROVE  /\ job[c] \in Busy
           /\ job[c].pkt \in PacketType
           /\ StageSound(job[c])
           /\ ListSound(job[c], allowlist, blocklist, portrules)
  <1>1. job \in [CPUs -> {Idle} \cup Busy]
    BY DEF TypeOK
  <1>2. job[c].pc = "count" /\ job[c].quiet
    BY DEF Judged
  <1>3. job[c] \in Busy
    BY <1>1, <1>2, BusyJob
  <1>4. job[c].pkt \in PacketType
    BY <1>3, DataplaneAssumption DEF Busy
  <1> QED BY <1>2, <1>3, <1>4 DEF VerdictsSound, JobSound

(* firewall.bpf.c, "an allowlisted host can't be blocked by anything": with  *)
(* any lists, rules and settings, on any number of CPUs.                     *)
THEOREM AllowlistAlwaysWins == Spec => []AllowlistWins
  <1>1. TypeOK /\ VerdictsSound => AllowlistWins
    <2> SUFFICES ASSUME TypeOK, VerdictsSound, NEW c \in CPUs, Judged(c),
                        FrameReason(job[c].pkt) = "continue",
                        "allowlist" \in job[c].cfg.features,
                        Covering(allowlist, job[c].pkt.saddr) # {}
                 PROVE  job[c].reason = "pass_allowlist"
      BY DEF AllowlistWins
    <2>1. ListSound(job[c], allowlist, blocklist, portrules)
      BY AtVerdict
    <2>2. job[c].pc # "allowlist"
      BY DEF Judged
    <2> QED BY <2>1, <2>2 DEF ListSound
  <1> QED BY <1>1, TypeCorrect, VerdictInvariant, PTL

(* An address with a live /32 entry gets nothing through, whatever wider     *)
(* prefixes are listed: the trie's longest match is the /32, for addresses   *)
(* of any width.                                                             *)
THEOREM HostBlocksHold == Spec => []HostBlockHolds
  <1>1. TypeOK /\ VerdictsSound => HostBlockHolds
    <2> SUFFICES ASSUME TypeOK, VerdictsSound, NEW c \in CPUs, Judged(c),
                        FrameReason(job[c].pkt) = "continue",
                        "blocklist" \in job[c].cfg.features,
                        HostKey(job[c].pkt.saddr) \in DOMAIN blocklist,
                        Live(blocklist[HostKey(job[c].pkt.saddr)], job[c].now),
                        job[c].reason \in PassReasons
                 PROVE  job[c].reason = "pass_allowlist"
      BY DEF HostBlockHolds
    <2>1. ListSound(job[c], allowlist, blocklist, portrules)
      BY AtVerdict
    <2>2. DOMAIN blocklist \subseteq Prefixes
      BY DEF TypeOK, IsMap
    <2>3. Blocked(blocklist, job[c].pkt.saddr, job[c].now)
      BY <2>2, HostKeyIsLongest DEF Blocked
    <2>4. job[c].pc = "count" /\ job[c].reason # "drop_blocklist"
      BY DEF Judged, PassReasons
    <2> QED BY <2>1, <2>3, <2>4 DEF ListSound
  <1> QED BY <1>1, TypeCorrect, VerdictInvariant, PTL

(* firewall.bpf.c, "blocks lift on time without any userspace help": the     *)
(* entry that drops a packet had not expired when the packet arrived.        *)
THEOREM BlocksLift == Spec => []BlocksLiftOnTime
  <1>1. TypeOK /\ VerdictsSound => BlocksLiftOnTime
    <2> SUFFICES ASSUME TypeOK, VerdictsSound, NEW c \in CPUs, Judged(c),
                        job[c].reason = "drop_blocklist"
                 PROVE  \E k \in Covering(blocklist, job[c].pkt.saddr) :
                            Live(blocklist[k], job[c].now)
      BY DEF BlocksLiftOnTime
    <2> DEFINE keys == Covering(blocklist, job[c].pkt.saddr)
    <2>1. Blocked(blocklist, job[c].pkt.saddr, job[c].now)
      BY AtVerdict DEF ListSound
    <2>2. keys \in SUBSET Prefixes /\ keys # {}
      BY <2>1 DEF TypeOK, IsMap, Covering, Blocked
    <2>3. Longest(keys) \in keys
      BY <2>2, LongestExists
    <2>4. Live(blocklist[Longest(keys)], job[c].now)
      BY <2>1, LongestIsMatch DEF Blocked
    <2> QED BY <2>3, <2>4
  <1> QED BY <1>1, TypeCorrect, VerdictInvariant, PTL

(* Default deny: what passes the port stage was named by an allow rule, and  *)
(* fragments do not slip past it.                                            *)
THEOREM DefaultDenyIsClosed == Spec => []DenyIsClosed
  <1>1. TypeOK /\ VerdictsSound => DenyIsClosed
    <2> SUFFICES ASSUME TypeOK, VerdictsSound, NEW c \in CPUs, Judged(c),
                        job[c].reason \in PassReasons \ {"pass_allowlist", "pass_non_ipv4"},
                        "ports" \in job[c].cfg.features,
                        job[c].cfg.default_policy = "deny"
                 PROVE  /\ ~IsFrag(job[c].pkt)
                        /\ \E k \in DOMAIN portrules :
                              /\ k = <<job[c].pkt.proto,
                                       IF job[c].pkt.proto = "other" THEN 0
                                       ELSE job[c].pkt.port>>
                              /\ portrules[k].action = "allow"
      BY DEF DenyIsClosed
    <2> DEFINE j == job[c]
               p == job[c].pkt
    <2>1. /\ p \in PacketType /\ StageSound(j)
          /\ ListSound(j, allowlist, blocklist, portrules) /\ j.pc = "count"
      BY AtVerdict DEF Judged
    <2>2. j.reason \in {"pass_rule", "pass_default"}
      BY DEF PassReasons
    <2> HIDE DEF j
    <2>3. FrameReason(j.pkt) = "continue"
      BY <2>1, <2>2 DEF StageSound, FrameReason
    <2>4. j.reason = L4Reason(p, j.cfg, portrules)
      BY <2>1, <2>2, <2>3 DEF ListSound, j
    <2>5. DefaultReason(j.cfg) = "drop_default"
      BY DEF DefaultReason, j
    <2>6. /\ ~IsFrag(p) /\ RuleHit(p, j.cfg, portrules)
          /\ portrules[PortKey(p)].action # "deny"
      BY <2>2, <2>4, <2>5 DEF L4Reason, FragmentReason
    <2>7. PortKey(p) \in DOMAIN portrules
      BY <2>6 DEF RuleHit
    <2>8. portrules[PortKey(p)].action = "allow"
      <3>1. portrules[PortKey(p)] \in [action : {"allow", "deny"}, hits : [CPUs -> Nat]]
        BY <2>7 DEF TypeOK, IsMap
      <3> QED BY <2>6, <3>1
    <2>9. p.proto \in {"tcp", "udp", "icmp", "other"}
      BY <2>1 DEF PacketType
    <2>10. DOMAIN L4_HLEN = {"tcp", "udp", "icmp"}
      BY DEF L4_HLEN
    <2>11. PortKey(p) = <<p.proto, IF p.proto = "other" THEN 0 ELSE p.port>>
      BY <2>6, <2>9, <2>10 DEF PortKey, RulePort
    <2> QED BY <2>6, <2>7, <2>8, <2>11
  <1> QED BY <1>1, TypeCorrect, VerdictInvariant, PTL

-----------------------------------------------------------------------------
(* Sums over a finite set: SumFunction is a recursive fold that takes the   *)
(* members one at a time in an order of its own; these facts free it of it. *)

(* A nonempty collection of subsets of a finite set has a minimal one: what *)
(* takes the place of an induction over finite sets here.                   *)
LEMMA MinimalSubset ==
    ASSUME NEW D, IsFiniteSet(D), NEW C \in SUBSET (SUBSET D), C # {}
    PROVE  \E m \in C : \A u \in C : u \subseteq m => u = m
  <1>1. C \subseteq FiniteSubsetsOf(D)
    BY FS_FiniteSubsetsOfFinite
  <1>2. PICK m \in C : \A u \in C : ~ (<<u, m>> \in StrictSubsetOrdering(D))
    BY <1>1, WFMin, FS_StrictSubsetOrderingWellFounded
  <1>3. ASSUME NEW u \in C, u \subseteq m, u # m PROVE FALSE
    <2>1. <<u, m>> \in StrictSubsetOrdering(D)
      BY <1>3, Zenon DEF StrictSubsetOrdering
    <2> QED BY <1>2, <2>1
  <1> QED BY <1>2, <1>3

(* The recursive function behind SumFunction, and its value. *)
Chosen(s) == CHOOSE x \in s : TRUE
Rest(s)   == s \ {Chosen(s)}

IsFold(f, g, D) ==
    g = [s \in SUBSET D |-> IF s = {} THEN 0 ELSE f[Chosen(s)] + g[Rest(s)]]

SumOver(f, D) == (CHOOSE g : IsFold(f, g, D))[D]

LEMMA SumIsFold ==
    ASSUME NEW f
    PROVE  SumFunction(f) = SumOver(f, DOMAIN f)
  BY Zenon DEF SumFunction, SumFunctionOnSet, FoldFunctionOnSet, MapThenFoldSet,
               SumOver, IsFold, Chosen, Rest

LEMMA RestSmaller ==
    ASSUME NEW s, s # {}
    PROVE  Chosen(s) \in s /\ Rest(s) \subseteq s /\ Rest(s) # s
  BY DEF Chosen, Rest

LEMMA FoldValue ==
    ASSUME NEW f, NEW g, NEW D, IsFold(f, g, D)
    PROVE  /\ g[{}] = 0
           /\ \A s \in SUBSET D : s # {} => g[s] = f[Chosen(s)] + g[Rest(s)]
  BY DEF IsFold

LEMMA FoldsAgree ==
    ASSUME NEW f, NEW A, NEW B, IsFiniteSet(A), NEW g, NEW h,
           IsFold(f, g, A), IsFold(f, h, B), B \subseteq A
    PROVE  \A v \in SUBSET B : g[v] = h[v]
  <1> DEFINE C == {v \in SUBSET B : g[v] # h[v]}
  <1> SUFFICES ASSUME C # {} PROVE FALSE
    OBVIOUS
  <1>1. PICK m \in C : \A u \in C : u \subseteq m => u = m
    <2>1. C \in SUBSET (SUBSET A)
      OBVIOUS
    <2> HIDE DEF C
    <2> QED BY <2>1, MinimalSubset
  <1>2. m # {} /\ m \in SUBSET B /\ g[m] # h[m]
    BY <1>1, FoldValue
  <1>3. g[Rest(m)] = h[Rest(m)]
    BY <1>1, <1>2, RestSmaller
  <1>4. g[m] = f[Chosen(m)] + g[Rest(m)] /\ h[m] = f[Chosen(m)] + h[Rest(m)]
    BY <1>2, FoldValue
  <1> QED BY <1>2, <1>3, <1>4

LEMMA FoldExists ==
    ASSUME NEW f, NEW D, IsFiniteSet(D)
    PROVE  \E g : IsFold(f, g, D)
  <1> DEFINE C == {s \in SUBSET D : ~ \E g : IsFold(f, g, s)}
             G(s) == CHOOSE g : IsFold(f, g, s)
  <1> SUFFICES ASSUME C # {} PROVE FALSE
    OBVIOUS
  <1>1. PICK m \in C : \A u \in C : u \subseteq m => u = m
    <2>1. C \in SUBSET (SUBSET D)
      OBVIOUS
    <2> HIDE DEF C
    <2> QED BY <2>1, MinimalSubset
  <1>2. ASSUME NEW s \in SUBSET m, s # m PROVE IsFold(f, G(s), s) /\ IsFiniteSet(s)
    <2>1. \E g : IsFold(f, g, s)
      BY <1>1, <1>2
    <2> QED BY <2>1, <1>1, FS_Subset
  <1> DEFINE h == [s \in SUBSET m |-> IF s = {} THEN 0
                                      ELSE f[Chosen(s)] + G(Rest(s))[Rest(s)]]
  <1> HIDE DEF G
  <1>3. ASSUME NEW s \in SUBSET m, s # {} PROVE h[Rest(s)] = G(Rest(s))[Rest(s)]
    <2> DEFINE u == Rest(s)
    <2>1. u \in SUBSET m /\ u # m
      BY <1>3, RestSmaller
    <2> HIDE DEF u
    <2>2. ASSUME u = {} PROVE h[u] = G(u)[u]
      <3>1. G(u)[{}] = 0
        BY <1>2, <2>1, FoldValue
      <3> QED BY <3>1, <2>1, <2>2
    <2>3. ASSUME u # {} PROVE h[u] = G(u)[u]
      <3>1. Rest(u) \in SUBSET u /\ Rest(u) \in SUBSET m /\ Rest(u) # m
        BY <2>1, <2>3, RestSmaller
      <3>2. G(u)[Rest(u)] = G(Rest(u))[Rest(u)]
        BY <3>1, <2>1, <1>2, FoldsAgree
      <3>3. G(u)[u] = f[Chosen(u)] + G(u)[Rest(u)]
        BY <1>2, <2>1, <2>3, FoldValue
      <3> QED BY <2>1, <2>3, <3>2, <3>3
    <2> QED BY <2>2, <2>3 DEF u
  <1>4. h = [s \in SUBSET m |-> IF s = {} THEN 0 ELSE f[Chosen(s)] + h[Rest(s)]]
    BY <1>3
  <1>5. IsFold(f, h, m)
    BY <1>4 DEF IsFold
  <1> QED BY <1>1, <1>5

(* The equation of a sum, for the element that the fold happens to choose. *)
LEMMA SumStep ==
    ASSUME NEW f, NEW D, IsFiniteSet(D)
    PROVE  /\ SumOver(f, {}) = 0
           /\ D # {} => SumOver(f, D) = f[Chosen(D)] + SumOver(f, Rest(D))
  <1> DEFINE G(s) == CHOOSE g : IsFold(f, g, s)
  <1>1. ASSUME NEW s, IsFiniteSet(s) PROVE IsFold(f, G(s), s)
    BY <1>1, FoldExists
  <1>2. \A s : SumOver(f, s) = G(s)[s]
    BY DEF SumOver
  <1> HIDE DEF G
  <1>3. SumOver(f, {}) = 0
    BY <1>1, <1>2, FS_EmptySet, FoldValue
  <1>4. ASSUME D # {} PROVE SumOver(f, D) = f[Chosen(D)] + SumOver(f, Rest(D))
    <2>1. Rest(D) \subseteq D /\ IsFiniteSet(Rest(D))
      BY <1>4, RestSmaller, FS_Subset
    <2>2. IsFold(f, G(D), D) /\ IsFold(f, G(Rest(D)), Rest(D))
      BY <1>1, <2>1
    <2>3. G(D)[Rest(D)] = G(Rest(D))[Rest(D)]
      BY <2>1, <2>2, FoldsAgree
    <2> QED BY <1>2, <1>4, <2>2, <2>3, FoldValue
  <1> QED BY <1>3, <1>4

LEMMA SumType ==
    ASSUME NEW f, NEW D, IsFiniteSet(D), \A x \in D : f[x] \in Nat
    PROVE  SumOver(f, D) \in Nat
  <1> DEFINE C == {s \in SUBSET D : SumOver(f, s) \notin Nat}
  <1> SUFFICES ASSUME C # {} PROVE FALSE
    OBVIOUS
  <1>1. PICK m \in C : \A u \in C : u \subseteq m => u = m
    <2>1. C \in SUBSET (SUBSET D)
      OBVIOUS
    <2> HIDE DEF C
    <2> QED BY <2>1, MinimalSubset
  <1>2. m \in SUBSET D /\ IsFiniteSet(m) /\ SumOver(f, m) \notin Nat
    BY <1>1, FS_Subset
  <1>3. m # {}
    <2>1. SumOver(f, {}) = 0
      BY <1>2, SumStep
    <2> QED BY <1>2, <2>1
  <1>4. SumOver(f, Rest(m)) \in Nat /\ f[Chosen(m)] \in Nat
    BY <1>1, <1>2, <1>3, RestSmaller
  <1> QED BY <1>2, <1>3, <1>4, SumStep

(* The order does not matter: any element can be taken out first. *)
LEMMA SumTake ==
    ASSUME NEW f, NEW D, IsFiniteSet(D), \A x \in D : f[x] \in Nat, NEW x \in D
    PROVE  SumOver(f, D) = f[x] + SumOver(f, D \ {x})
  <1> DEFINE C == {s \in SUBSET D : \E y \in s : SumOver(f, s) # f[y] + SumOver(f, s \ {y})}
  <1> SUFFICES ASSUME C # {} PROVE FALSE
    OBVIOUS
  <1>1. PICK m \in C : \A u \in C : u \subseteq m => u = m
    <2>1. C \in SUBSET (SUBSET D)
      OBVIOUS
    <2> HIDE DEF C
    <2> QED BY <2>1, MinimalSubset
  <1>2. PICK y \in m : SumOver(f, m) # f[y] + SumOver(f, m \ {y})
    BY <1>1
  <1> DEFINE z == Chosen(m)
  <1>3. m \in SUBSET D /\ IsFiniteSet(m) /\ m # {} /\ z \in m
    BY <1>1, <1>2, FS_Subset, RestSmaller
  <1>4. SumOver(f, m) = f[z] + SumOver(f, m \ {z})
    BY <1>3, SumStep DEF Rest
  <1> HIDE DEF z
  <1>5. y # z
    BY <1>2, <1>4
  <1>6. SumOver(f, m \ {z}) = f[y] + SumOver(f, (m \ {z}) \ {y})
    <2>1. m \ {z} \notin C
      BY <1>1, <1>3
    <2> QED BY <2>1, <1>3, <1>5
  <1>7. SumOver(f, m \ {y}) = f[z] + SumOver(f, (m \ {y}) \ {z})
    <2>1. m \ {y} \notin C
      BY <1>1, <1>3
    <2> QED BY <2>1, <1>3, <1>5
  <1>8. (m \ {z}) \ {y} = (m \ {y}) \ {z}
    OBVIOUS
  <1>9. SumOver(f, (m \ {y}) \ {z}) \in Nat /\ f[y] \in Nat /\ f[z] \in Nat
    BY <1>3, FS_Subset, SumType
  <1> QED BY <1>2, <1>4, <1>6, <1>7, <1>8, <1>9

LEMMA SumSame ==
    ASSUME NEW f, NEW g, NEW D, IsFiniteSet(D), \A x \in D : f[x] = g[x]
    PROVE  SumOver(f, D) = SumOver(g, D)
  <1> DEFINE C == {s \in SUBSET D : SumOver(f, s) # SumOver(g, s)}
  <1> SUFFICES ASSUME C # {} PROVE FALSE
    OBVIOUS
  <1>1. PICK m \in C : \A u \in C : u \subseteq m => u = m
    <2>1. C \in SUBSET (SUBSET D)
      OBVIOUS
    <2> HIDE DEF C
    <2> QED BY <2>1, MinimalSubset
  <1>2. m \in SUBSET D /\ IsFiniteSet(m) /\ SumOver(f, m) # SumOver(g, m)
    BY <1>1, FS_Subset
  <1>3. m # {}
    BY <1>2, SumStep
  <1>4. SumOver(f, Rest(m)) = SumOver(g, Rest(m)) /\ f[Chosen(m)] = g[Chosen(m)]
    BY <1>1, <1>2, <1>3, RestSmaller
  <1> QED BY <1>2, <1>3, <1>4, SumStep
-----------------------------------------------------------------------------
(* The hits of a list under the operations on its map. *)

HitMap(m) == IsFiniteSet(DOMAIN m) /\ \A k \in DOMAIN m : m[k].hits \in Nat

LEMMA HitsType ==
    ASSUME NEW m, HitMap(m)
    PROVE  /\ Hits(m) \in Nat
           /\ Hits(m) = SumOver([k \in DOMAIN m |-> m[k].hits], DOMAIN m)
  <1> DEFINE f == [k \in DOMAIN m |-> m[k].hits]
  <1>1. Hits(m) = SumOver(f, DOMAIN m)
    BY SumIsFold DEF Hits
  <1>2. IsFiniteSet(DOMAIN m) /\ \A k \in DOMAIN m : f[k] \in Nat
    BY DEF HitMap
  <1> HIDE DEF f
  <1>3. SumOver(f, DOMAIN m) \in Nat
    BY <1>2, SumType
  <1> QED BY <1>1, <1>3 DEF f

(* Hits are summed entry by entry. *)
LEMMA HitsSplit ==
    ASSUME NEW m, HitMap(m), NEW k \in DOMAIN m
    PROVE  HitMap(Del(m, k)) /\ Hits(m) = m[k].hits + Hits(Del(m, k))
  <1> DEFINE f == [x \in DOMAIN m |-> m[x].hits]
             g == [x \in DOMAIN Del(m, k) |-> Del(m, k)[x].hits]
  <1>1. DOMAIN Del(m, k) = DOMAIN m \ {k} /\ \A x \in DOMAIN m \ {k} : Del(m, k)[x] = m[x]
    BY DEF Del
  <1>2. IsFiniteSet(DOMAIN m) /\ IsFiniteSet(DOMAIN m \ {k})
        /\ \A x \in DOMAIN m : f[x] \in Nat
    BY FS_RemoveElement DEF HitMap
  <1>3. HitMap(Del(m, k))
    BY <1>1, <1>2 DEF HitMap
  <1>4. \A x \in DOMAIN m \ {k} : f[x] = g[x]
    BY <1>1
  <1>5. f[k] = m[k].hits
    OBVIOUS
  <1>6. Hits(m) = SumOver(f, DOMAIN m) /\ Hits(Del(m, k)) = SumOver(g, DOMAIN m \ {k})
    BY <1>1, <1>3, HitsType
  <1> HIDE DEF f, g
  <1>7. SumOver(f, DOMAIN m) = f[k] + SumOver(f, DOMAIN m \ {k})
    BY <1>2, SumTake
  <1>8. SumOver(f, DOMAIN m \ {k}) = SumOver(g, DOMAIN m \ {k})
    BY <1>2, <1>4, SumSame
  <1> QED BY <1>3, <1>5, <1>6, <1>7, <1>8

LEMMA HitsSame ==
    ASSUME NEW m, HitMap(m), NEW n, DOMAIN n = DOMAIN m,
           \A k \in DOMAIN m : n[k].hits = m[k].hits
    PROVE  HitMap(n) /\ Hits(n) = Hits(m)
  <1>1. HitMap(n)
    BY DEF HitMap
  <1>2. [k \in DOMAIN n |-> n[k].hits] = [k \in DOMAIN m |-> m[k].hits]
    OBVIOUS
  <1> QED BY <1>1, <1>2 DEF Hits

(* A packet credits one entry. *)
LEMMA HitsBump ==
    ASSUME NEW m, HitMap(m), NEW n, DOMAIN n = DOMAIN m, NEW k \in DOMAIN m,
           n[k].hits = m[k].hits + 1,
           \A x \in DOMAIN m \ {k} : n[x].hits = m[x].hits
    PROVE  HitMap(n) /\ Hits(n) = Hits(m) + 1
  <1>1. HitMap(n)
    BY DEF HitMap
  <1>2. /\ Hits(m) = m[k].hits + Hits(Del(m, k)) /\ HitMap(Del(m, k))
        /\ Hits(n) = n[k].hits + Hits(Del(n, k))
    BY <1>1, HitsSplit
  <1>3. /\ DOMAIN Del(n, k) = DOMAIN Del(m, k)
        /\ \A x \in DOMAIN Del(m, k) : Del(n, k)[x].hits = Del(m, k)[x].hits
    BY DEF Del
  <1>4. Hits(Del(n, k)) = Hits(Del(m, k)) /\ Hits(Del(m, k)) \in Nat
    BY <1>2, <1>3, HitsSame, HitsType
  <1>5. m[k].hits \in Nat
    BY DEF HitMap
  <1> QED BY <1>1, <1>2, <1>4, <1>5

(* Deleting an entry takes its hits away, and a new one has none. *)
LEMMA HitsDel ==
    ASSUME NEW m, HitMap(m), NEW k
    PROVE  HitMap(Del(m, k)) /\ Hits(Del(m, k)) <= Hits(m)
  <1>1. CASE k \in DOMAIN m
    <2>1. HitMap(Del(m, k)) /\ Hits(m) = m[k].hits + Hits(Del(m, k))
      BY <1>1, HitsSplit
    <2>2. Hits(Del(m, k)) \in Nat /\ m[k].hits \in Nat
      BY <1>1, <2>1, HitsType DEF HitMap
    <2> QED BY <2>1, <2>2
  <1>2. CASE k \notin DOMAIN m
    <2>1. DOMAIN Del(m, k) = DOMAIN m
          /\ \A x \in DOMAIN m : Del(m, k)[x].hits = m[x].hits
      BY <1>2 DEF Del
    <2>2. HitMap(Del(m, k)) /\ Hits(Del(m, k)) = Hits(m)
      BY <2>1, HitsSame
    <2>3. Hits(m) \in Nat
      BY HitsType
    <2> QED BY <2>2, <2>3
  <1> QED BY <1>1, <1>2

LEMMA HitsPut ==
    ASSUME NEW m, HitMap(m), NEW k, NEW v, v.hits = 0
    PROVE  HitMap(Put(m, k, v)) /\ Hits(Put(m, k, v)) <= Hits(m)
  <1> DEFINE n == Put(m, k, v)
  <1>1. /\ DOMAIN n = DOMAIN m \cup {k} /\ n[k] = v
        /\ \A x \in DOMAIN m \ {k} : n[x] = m[x]
    BY DEF Put
  <1> HIDE DEF n
  <1>2. HitMap(n)
    BY <1>1, FS_AddElement DEF HitMap
  <1>3. Hits(n) = Hits(Del(n, k)) /\ Hits(Del(n, k)) \in Nat
    <2>1. HitMap(Del(n, k)) /\ Hits(n) = n[k].hits + Hits(Del(n, k))
      BY <1>1, <1>2, HitsSplit
    <2>2. Hits(Del(n, k)) \in Nat
      BY <2>1, HitsType
    <2> QED BY <1>1, <2>1, <2>2
  <1>4. /\ DOMAIN Del(n, k) = DOMAIN Del(m, k)
        /\ \A x \in DOMAIN Del(m, k) : Del(n, k)[x].hits = Del(m, k)[x].hits
    BY <1>1 DEF Del
  <1>5. HitMap(Del(m, k)) /\ Hits(Del(m, k)) <= Hits(m)
    BY HitsDel
  <1>6. Hits(Del(n, k)) = Hits(Del(m, k))
    BY <1>4, <1>5, HitsSame
  <1> QED BY <1>2, <1>3, <1>5, <1>6 DEF n

(* A rule shows the hits of all its copies. *)
LEMMA SumZero ==
    ASSUME NEW D, IsFiniteSet(D)
    PROVE  SumFunction([x \in D |-> 0]) = 0
  <1> DEFINE f == [x \in D |-> 0]
             C == {s \in SUBSET D : SumOver(f, s) # 0}
  <1>1. SumFunction(f) = SumOver(f, D)
    BY SumIsFold
  <1> SUFFICES ASSUME C # {} PROVE FALSE
    BY <1>1
  <1>2. PICK m \in C : \A u \in C : u \subseteq m => u = m
    <2>1. C \in SUBSET (SUBSET D)
      OBVIOUS
    <2> HIDE DEF C
    <2> QED BY <2>1, MinimalSubset
  <1>3. m \in SUBSET D /\ IsFiniteSet(m) /\ SumOver(f, m) # 0
    BY <1>2, FS_Subset
  <1>4. m # {}
    BY <1>3, SumStep
  <1>5. SumOver(f, Rest(m)) = 0 /\ f[Chosen(m)] = 0
    BY <1>2, <1>3, <1>4, RestSmaller
  <1> HIDE DEF f
  <1> QED BY <1>3, <1>4, <1>5, SumStep

(* Adding one at one place adds one to the sum. *)
LEMMA SumBump ==
    ASSUME NEW D, IsFiniteSet(D), NEW f \in [D -> Nat], NEW g \in [D -> Nat],
           NEW x \in D, g[x] = f[x] + 1, \A y \in D \ {x} : g[y] = f[y]
    PROVE  /\ SumFunction(f) \in Nat
           /\ SumFunction(g) = SumFunction(f) + 1
  <1>1. SumFunction(f) = SumOver(f, D) /\ SumFunction(g) = SumOver(g, D)
    BY SumIsFold
  <1>2. SumOver(f, D) = f[x] + SumOver(f, D \ {x})
    BY SumTake
  <1>3. SumOver(g, D) = g[x] + SumOver(g, D \ {x})
    BY SumTake
  <1>4. IsFiniteSet(D \ {x})
    BY FS_RemoveElement
  <1>5. SumOver(f, D \ {x}) = SumOver(g, D \ {x}) /\ SumOver(f, D \ {x}) \in Nat
    BY <1>4, SumSame, SumType
  <1> QED BY <1>1, <1>2, <1>3, <1>5

LEMMA SumNat ==
    ASSUME NEW D, IsFiniteSet(D), NEW f \in [D -> Nat]
    PROVE  SumFunction(f) \in Nat
  BY SumIsFold, SumType

-----------------------------------------------------------------------------
(* What the counters have, or are about to get. *)

LEMMA CountedType ==
    ASSUME TypeOK, NEW r \in Reasons
    PROVE  /\ sum_percpu(r) \in Nat
           /\ IsFiniteSet(Pending(r)) /\ Cardinality(Pending(r)) \in Nat
           /\ Counted(r) \in Nat
  <1> DEFINE f == [c \in CPUs |-> ever[c][r]]
  <1>1. f \in [CPUs -> Nat]
    <2>1. ever \in [CPUs -> [StatNames -> Nat]] /\ r \in StatNames
      BY EverType DEF TypeOK, StatNames
    <2> QED BY <2>1
  <1> HIDE DEF f
  <1>2. SumFunction(f) \in Nat
    BY <1>1, CpuAssumption, SumNat
  <1>3. sum_percpu(r) \in Nat
    BY <1>2 DEF sum_percpu, f
  <1>4. IsFiniteSet(Pending(r)) /\ Cardinality(Pending(r)) \in Nat
    BY CpuAssumption, FS_Subset, FS_CardinalityType DEF Pending
  <1> QED BY <1>3, <1>4 DEF Counted

(* stat_inc: one more in one copy of one counter. *)
LEMMA CounterAdds ==
    ASSUME TypeOK, NEW c \in CPUs, NEW name \in StatNames,
           stats' = stat_add(c, name, 1), UNCHANGED wiped, NEW r \in Reasons
    PROVE  sum_percpu(r)' = sum_percpu(r) + One(r = name)
  <1> DEFINE f == [d \in CPUs |-> ever[d][r]]
             g == [d \in CPUs |-> ever'[d][r]]
  <1>1. sum_percpu(r) = SumFunction(f) /\ sum_percpu(r)' = SumFunction(g)
    BY DEF sum_percpu
  <1>2. /\ ever \in [CPUs -> [StatNames -> Nat]] /\ r \in StatNames
        /\ ever' = [ever EXCEPT ![c][name] = @ + 1]
    <2>1. /\ stats \in [CPUs -> [StatNames -> Nat]]
          /\ wiped \in [CPUs -> [StatNames -> Nat]]
      BY DEF TypeOK
    <2>2. r \in StatNames
      BY DEF StatNames
    <2>3. ever \in [CPUs -> [StatNames -> Nat]]
      BY <2>1, EverType
    <2>4. 1 \in Nat /\ stats' = stat_add(c, name, 1) /\ UNCHANGED wiped
      OBVIOUS
    <2>5. ever' = [ever EXCEPT ![c][name] = @ + 1]
      BY <2>1, <2>4, EverAdds
    <2> QED BY <2>2, <2>3, <2>5
  <1>3. f \in [CPUs -> Nat] /\ g \in [CPUs -> Nat] /\ \A d \in CPUs \ {c} : g[d] = f[d]
    BY <1>2
  <1>4. g[c] = f[c] + One(r = name)
    BY <1>2 DEF One
  <1> HIDE DEF f, g
  <1>5. CASE r = name
    BY <1>1, <1>3, <1>4, <1>5, CpuAssumption, SumBump DEF One
  <1>6. CASE r # name
    <2>1. f = g
      BY <1>3, <1>4, <1>6 DEF One
    <2>2. SumFunction(f) \in Nat
      BY <1>3, CpuAssumption, SumNat
    <2> QED BY <1>1, <1>6, <2>1, <2>2 DEF One
  <1> QED BY <1>5, <1>6

(* Counters that no verdict uses leave the sums alone. *)
LEMMA CounterStays ==
    ASSUME NEW r, \A d \in CPUs : ever'[d][r] = ever[d][r]
    PROVE  sum_percpu(r)' = sum_percpu(r)
  <1>1. [d \in CPUs |-> ever'[d][r]] = [d \in CPUs |-> ever[d][r]]
    OBVIOUS
  <1> QED BY <1>1 DEF sum_percpu

Bears(j, r) == j.pc # "idle" /\ j.reason = r

(* One CPU's packet gets another verdict, arrives or leaves. *)
LEMMA PendingMoves ==
    ASSUME NEW c \in CPUs, NEW r,
           \A d \in CPUs \ {c} : Bears(job'[d], r) <=> Bears(job[d], r)
    PROVE  Cardinality(Pending(r)') =
               Cardinality(Pending(r)) + One(Bears(job'[c], r)) - One(Bears(job[c], r))
  <1> DEFINE P == Pending(r)
             Q == Pending(r)'
  <1>1. P = {d \in CPUs : Bears(job[d], r)} /\ Q = {d \in CPUs : Bears(job'[d], r)}
    BY DEF Pending, Bears
  <1>2. IsFiniteSet(P) /\ IsFiniteSet(Q) /\ Cardinality(P) \in Nat
    BY <1>1, CpuAssumption, FS_Subset, FS_CardinalityType
  <1> HIDE DEF P, Q
  <1>3. CASE Bears(job'[c], r) /\ ~Bears(job[c], r)
    <2>1. Q = P \cup {c} /\ c \notin P
      BY <1>1, <1>3
    <2> QED BY <1>2, <1>3, <2>1, FS_AddElement DEF One, P, Q
  <1>4. CASE ~Bears(job'[c], r) /\ Bears(job[c], r)
    <2>1. Q = P \ {c} /\ c \in P
      BY <1>1, <1>4
    <2> QED BY <1>2, <1>4, <2>1, FS_RemoveElement DEF One, P, Q
  <1>5. CASE Bears(job'[c], r) <=> Bears(job[c], r)
    <2>1. Q = P
      BY <1>1, <1>5
    <2> QED BY <1>2, <1>5, <2>1 DEF One, P, Q
  <1> QED BY <1>3, <1>4, <1>5

(* A step of a run moves its packet from the verdict it bears to the one it  *)
(* bears next; the verdict that is counted is the last one.                  *)
LEMMA StepMovesVerdict ==
    ASSUME TypeOK, NEW c \in CPUs, Step(c), NEW r \in Reasons
    PROVE  LET new == IF job'[c].pc = "idle" THEN job[c].reason ELSE job'[c].reason
           IN  Counted(r)' = Counted(r) + One(r = new) - One(r = job[c].reason)
  <1> DEFINE new == IF job'[c].pc = "idle" THEN job[c].reason ELSE job'[c].reason
  <1>1. job[c].pc # "idle" /\ job \in [CPUs -> {Idle} \cup Busy]
    BY DEF TypeOK, Step, Count, CheckAllowlist, CheckBlocklist, Filter, Lookup, Insert,
           InsertFails, Relookup, Update
  <1>2. job[c] \in Busy /\ job[c].reason \in Reasons
    BY <1>1, BusyJob DEF Busy
  <1>3. \A d \in CPUs \ {c} : job'[d] = job[d]
    BY KernelKeepsLists
  <1>4. Cardinality(Pending(r)') =
            Cardinality(Pending(r)) + One(Bears(job'[c], r)) - One(Bears(job[c], r))
    BY <1>3, PendingMoves
  <1>5. One(Bears(job[c], r)) = One(r = job[c].reason)
    BY <1>1 DEF Bears, One
  <1>6. /\ sum_percpu(r) \in Nat /\ Cardinality(Pending(r)) \in Nat
        /\ Counted(r) = sum_percpu(r) + Cardinality(Pending(r))
        /\ Counted(r)' = sum_percpu(r)' + Cardinality(Pending(r)')
    BY CountedType DEF Counted
  <1>7. \A b : One(b) \in 0 .. 1
    BY DEF One
  <1>8. CASE Count(c)
    <2>1. job'[c] = Idle /\ stats' = stat_add(c, job[c].reason, 1)
      BY <1>1, <1>8 DEF Count
    <2>2. job'[c].pc = "idle" /\ ~Bears(job'[c], r)
      BY <2>1 DEF Idle, Bears
    <2>3. One(Bears(job'[c], r)) = 0
      BY <2>2 DEF One
    <2>4. job[c].reason \in StatNames
      BY <1>2 DEF StatNames
    <2>5. sum_percpu(r)' = sum_percpu(r) + One(r = job[c].reason)
      BY <2>1, <2>4, CounterAdds, StepWipesNothing
    <2>6. new = job[c].reason
      BY <2>2
    <2> QED BY <1>4, <1>5, <1>6, <1>7, <2>3, <2>5, <2>6
  <1>9. CASE ~Count(c)
    <2>1. job'[c].pc # "idle"
      <3>1. AfterAllowlist(job[c].cfg) # "idle"
        BY DEF AfterAllowlist
      <3> QED BY <3>1, <1>1, <1>2, <1>9
              DEF Step, CheckAllowlist, CheckBlocklist, Filter, Lookup, Insert, InsertFails,
                  Relookup, Update, Goto, Decided, Use, Busy
    <2>2. One(Bears(job'[c], r)) = One(r = new)
      BY <2>1 DEF Bears, One
    <2>3. UNCHANGED stats \/ stats' = stat_add(c, "state_full", 1)
      BY <1>9 DEF Step, CheckAllowlist, CheckBlocklist, Filter, Lookup, Insert, InsertFails,
                  Relookup, Update
    <2>4. sum_percpu(r)' = sum_percpu(r)
      <3>1. CASE UNCHANGED stats
        BY <3>1, CounterStays, EverKept, StepWipesNothing
      <3>2. CASE stats' = stat_add(c, "state_full", 1)
        <4>1. r # "state_full" /\ "state_full" \in StatNames
          BY DEF StatNames, Reasons, PassReasons, DropReasons
        <4> QED BY <1>6, <3>2, <4>1, CounterAdds, StepWipesNothing DEF One
      <3> QED BY <2>3, <3>1, <3>2
    <2> QED BY <1>4, <1>5, <1>6, <1>7, <2>2, <2>4
  <1> QED BY <1>8, <1>9

(* A packet that arrives bears a verdict from the start. *)
LEMMA ArrivalAdds ==
    ASSUME TypeOK, NEW c \in CPUs, NEW p \in Packets, Receive(c, p), NEW r \in Reasons
    PROVE  Counted(r)' \in Nat /\ Counted(r)' >= Counted(r)
  <1>1. job \in [CPUs -> {Idle} \cup Busy] /\ stats \in [CPUs -> [StatNames -> Nat]]
    BY DEF TypeOK
  <1>2. \A d \in CPUs \ {c} : job'[d] = job[d]
    BY <1>1 DEF Receive
  <1>3. Cardinality(Pending(r)') =
            Cardinality(Pending(r)) + One(Bears(job'[c], r)) - One(Bears(job[c], r))
    BY <1>2, PendingMoves
  <1>4. One(Bears(job[c], r)) = 0
    BY DEF Receive, Bears, One
  <1>5. r \notin {"rx_packets", "rx_bytes"} /\ r \in StatNames
    BY DEF Reasons, PassReasons, DropReasons, StatNames
  <1>6. \A d \in CPUs : ever'[d][r] = ever[d][r]
    <2>1. \A d \in CPUs : stats'[d][r] = stats[d][r]
      BY <1>1, <1>5 DEF Receive
    <2>2. UNCHANGED wiped
      BY DEF Receive, history
    <2>3. ASSUME NEW d \in CPUs PROVE ever'[d][r] = ever[d][r]
      BY <1>5, <2>1, <2>2, <2>3 DEF ever
    <2> QED BY <2>3
  <1>7. sum_percpu(r)' = sum_percpu(r)
    BY <1>6, CounterStays
  <1>8. /\ sum_percpu(r) \in Nat /\ Cardinality(Pending(r)) \in Nat
        /\ Counted(r) = sum_percpu(r) + Cardinality(Pending(r))
        /\ Counted(r)' = sum_percpu(r)' + Cardinality(Pending(r)')
    BY CountedType DEF Counted
  <1>9. One(Bears(job'[c], r)) \in 0 .. 1
    BY DEF One
  <1> QED BY <1>3, <1>4, <1>7, <1>8, <1>9

LEMMA CountedKept ==
    ASSUME NEW r, UNCHANGED ever,
           \A c \in CPUs : job'[c].pc = job[c].pc /\ job'[c].reason = job[c].reason
    PROVE  Counted(r)' = Counted(r)
  <1>1. Pending(r)' = Pending(r)
    BY DEF Pending
  <1>2. sum_percpu(r)' = sum_percpu(r)
    BY CounterStays
  <1> QED BY <1>1, <1>2 DEF Counted

-----------------------------------------------------------------------------
(* Hits are backed by the counters. *)

FiniteMaps == /\ IsFiniteSet(DOMAIN allowlist)
              /\ IsFiniteSet(DOMAIN blocklist)
              /\ IsFiniteSet(DOMAIN portrules)

HitsSound == FiniteMaps /\ HitsBacked

(* list_port_rules of any rules. *)
Listed(rules) == [key \in DOMAIN rules |-> [action |-> rules[key].action,
                                            hits   |-> SumFunction(rules[key].hits)]]

LEMMA ListedRules == list_port_rules = Listed(portrules) /\ list_port_rules' = Listed(portrules')
  BY DEF list_port_rules, Listed

LEMMA ListsHaveHits ==
    ASSUME TypeOK, FiniteMaps
    PROVE  HitMap(allowlist) /\ HitMap(blocklist) /\ HitMap(Listed(portrules))
  <1>1. HitMap(allowlist) /\ HitMap(blocklist)
    BY DEF TypeOK, IsMap, FiniteMaps, HitMap
  <1>2. DOMAIN Listed(portrules) = DOMAIN portrules
    BY DEF Listed
  <1>3. ASSUME NEW k \in DOMAIN portrules PROVE Listed(portrules)[k].hits \in Nat
    <2>1. portrules[k].hits \in [CPUs -> Nat]
      BY <1>3 DEF TypeOK, IsMap
    <2>2. SumFunction(portrules[k].hits) \in Nat
      BY <2>1, CpuAssumption, SumNat
    <2> QED BY <1>3, <2>2 DEF Listed
  <1> QED BY <1>1, <1>2, <1>3 DEF HitMap, FiniteMaps

(* A rule that takes a hit shows one more. *)
LEMMA RuleTakesHit ==
    ASSUME TypeOK, FiniteMaps, NEW c \in CPUs, NEW k \in DOMAIN portrules,
           portrules' = [portrules EXCEPT ![k].hits[c] = @ + 1]
    PROVE  Hits(Listed(portrules')) = Hits(Listed(portrules)) + 1
  <1> DEFINE f == portrules[k].hits
             g == portrules'[k].hits
             m == Listed(portrules)
             n == Listed(portrules')
  <1>1. /\ portrules[k] \in [action : {"allow", "deny"}, hits : [CPUs -> Nat]]
        /\ portrules \in [DOMAIN portrules ->
                            [action : {"allow", "deny"}, hits : [CPUs -> Nat]]]
    BY DEF TypeOK, IsMap
  <1>2. g = [f EXCEPT ![c] = @ + 1] /\ f \in [CPUs -> Nat]
    BY <1>1
  <1>3. g \in [CPUs -> Nat] /\ g[c] = f[c] + 1 /\ \A d \in CPUs \ {c} : g[d] = f[d]
    BY <1>2
  <1>4. /\ DOMAIN portrules' = DOMAIN portrules
        /\ \A x \in DOMAIN portrules \ {k} : portrules'[x] = portrules[x]
    BY <1>1
  <1> HIDE DEF f, g
  <1>5. SumFunction(g) = SumFunction(f) + 1
    BY <1>2, <1>3, CpuAssumption, SumBump
  <1>6. /\ DOMAIN n = DOMAIN m /\ k \in DOMAIN m
        /\ n[k].hits = m[k].hits + 1
        /\ \A x \in DOMAIN m \ {k} : n[x].hits = m[x].hits
    BY <1>4, <1>5 DEF Listed, f, g
  <1> HIDE DEF m, n
  <1>7. HitMap(m)
    BY ListsHaveHits DEF m
  <1> QED BY <1>6, <1>7, HitsBump DEF m, n

(* Hits are credited by the two lists and the port stage only, to the entry  *)
(* that decides, and the packet then bears the verdict of that list.         *)
LEMMA StepBacksHits ==
    ASSUME TypeOK, VerdictsSound, HitsSound, NEW c \in CPUs, Step(c)
    PROVE  HitsSound'
  <1> DEFINE j   == job[c]
             new == IF job'[c].pc = "idle" THEN j.reason ELSE job'[c].reason
             A   == Hits(allowlist)
             B   == Hits(blocklist)
             R   == Hits(Listed(portrules))
             Allows == Counted("pass_allowlist")
             Blocks == Counted("drop_blocklist")
             Rules  == Counted("pass_rule") + Counted("drop_port_rule")
                         + Counted("drop_ratelimit")
  <1>1. /\ job \in [CPUs -> {Idle} \cup Busy] /\ j.pc # "idle"
        /\ DOMAIN allowlist \subseteq Prefixes /\ DOMAIN blocklist \subseteq Prefixes
    BY DEF TypeOK, IsMap, Step, Count, CheckAllowlist, CheckBlocklist, Filter, Lookup,
           Insert, InsertFails, Relookup, Update
  <1>2. j \in Busy /\ StageSound(j)
    BY <1>1, BusyJob DEF VerdictsSound, JobSound
  <1>3. FiniteMaps'
    BY KernelKeepsLists DEF SameLists, HitsSound, FiniteMaps
  <1>4. HitMap(allowlist) /\ HitMap(blocklist) /\ HitMap(Listed(portrules))
    BY ListsHaveHits DEF HitsSound
  <1>5. A \in Nat /\ B \in Nat /\ R \in Nat
    BY <1>4, HitsType
  <1>6. /\ \A r \in Reasons :
              Counted(r)' = Counted(r) + One(r = new) - One(r = j.reason)
        /\ \A r \in Reasons : Counted(r) \in Nat
    BY StepMovesVerdict, CountedType
  <1>7. {"pass_allowlist", "drop_blocklist", "pass_rule", "drop_port_rule",
         "drop_ratelimit", "pass_default"} \subseteq Reasons
    BY DEF Reasons, PassReasons, DropReasons
  <1>8. A <= Allows /\ B <= Blocks /\ R <= Rules
    BY ListedRules DEF HitsSound, HitsBacked
  <1>9. (/\ Hits(allowlist') <= Allows' /\ Hits(blocklist') <= Blocks'
         /\ Hits(Listed(portrules')) <= Rules') => HitsSound'
    BY <1>3, ListedRules DEF HitsSound, HitsBacked
  <1>10. /\ Allows' = Allows + One("pass_allowlist" = new) - One("pass_allowlist" = j.reason)
         /\ Blocks' = Blocks + One("drop_blocklist" = new) - One("drop_blocklist" = j.reason)
         /\ Rules' = Rules + One("pass_rule" = new) + One("drop_port_rule" = new)
                       + One("drop_ratelimit" = new) - One("pass_rule" = j.reason)
                       - One("drop_port_rule" = j.reason) - One("drop_ratelimit" = j.reason)
         /\ Allows \in Nat /\ Blocks \in Nat /\ Rules \in Nat
    <2> DEFINE C(r) == Counted(r)
               D(r) == Counted(r)'
    <2>1. \A r \in Reasons : D(r) = C(r) + One(r = new) - One(r = j.reason) /\ C(r) \in Nat
      BY <1>6
    <2>2. \A b : One(b) \in 0 .. 1
      BY DEF One
    <2> HIDE DEF C, D, new, j
    <2>3. /\ D("pass_allowlist") = C("pass_allowlist") + One("pass_allowlist" = new)
                                     - One("pass_allowlist" = j.reason)
          /\ C("pass_allowlist") \in Nat
      BY <1>7, <2>1
    <2>4. /\ D("drop_blocklist") = C("drop_blocklist") + One("drop_blocklist" = new)
                                     - One("drop_blocklist" = j.reason)
          /\ C("drop_blocklist") \in Nat
      BY <1>7, <2>1
    <2>5. /\ D("pass_rule") = C("pass_rule") + One("pass_rule" = new)
                                - One("pass_rule" = j.reason)
          /\ C("pass_rule") \in Nat
      BY <1>7, <2>1
    <2>6. /\ D("drop_port_rule") = C("drop_port_rule") + One("drop_port_rule" = new)
                                     - One("drop_port_rule" = j.reason)
          /\ C("drop_port_rule") \in Nat
      BY <1>7, <2>1
    <2>7. /\ D("drop_ratelimit") = C("drop_ratelimit") + One("drop_ratelimit" = new)
                                     - One("drop_ratelimit" = j.reason)
          /\ C("drop_ratelimit") \in Nat
      BY <1>7, <2>1
    <2> QED BY <2>2, <2>3, <2>4, <2>5, <2>6, <2>7 DEF C, D
  <1> HIDE DEF A, B, R, Allows, Blocks, Rules, new
  <1>11. ASSUME UNCHANGED <<allowlist, blocklist, portrules>>, new = j.reason
         PROVE  HitsSound'
    <2>1. Hits(allowlist') = A /\ Hits(blocklist') = B /\ Hits(Listed(portrules')) = R
      BY <1>11 DEF A, B, R
    <2>2. \A b : One(b) \in 0 .. 1
      BY DEF One
    <2>3. Allows' = Allows /\ Blocks' = Blocks /\ Rules' = Rules
      BY <1>10, <1>11, <2>2
    <2> QED BY <1>8, <1>9, <2>1, <2>3
  <1>12. \A pc : Goto(c, pc) /\ pc # "idle" => new = j.reason
    BY <1>1, <1>2 DEF Goto, Busy, new
  <1>13. \A r : Decided(c, r) => new = r
    BY <1>1, <1>2 DEF Decided, Busy, new
  <1>14. \A s : Use(c, s) => new = j.reason
    BY <1>1, <1>2 DEF Use, Busy, new
  <1>15. CASE CheckAllowlist(c)
    <2>1. j.pc = "allowlist" /\ j.reason = "pass_default"
      BY <1>2, <1>15 DEF CheckAllowlist, StageSound
    <2>2. CASE Covering(allowlist, j.pkt.saddr) # {}
      <3> DEFINE k == LongestMatch(allowlist, j.pkt.saddr)
      <3>1. k \in DOMAIN allowlist
        BY <1>1, <2>2, LongestExists, LongestIsMatch DEF Covering
      <3>2. /\ allowlist' = [allowlist EXCEPT ![k].hits = @ + 1]
            /\ UNCHANGED <<blocklist, portrules>> /\ Decided(c, "pass_allowlist")
        BY <1>15, <2>2 DEF CheckAllowlist
      <3> HIDE DEF k
      <3>3. allowlist \in [DOMAIN allowlist -> [hits : Nat]]
        BY DEF TypeOK, IsMap
      <3>4. /\ DOMAIN allowlist' = DOMAIN allowlist
            /\ allowlist'[k].hits = allowlist[k].hits + 1
            /\ \A x \in DOMAIN allowlist \ {k} : allowlist'[x].hits = allowlist[x].hits
        BY <3>1, <3>2, <3>3
      <3>5. Hits(allowlist') = A + 1
        BY <1>4, <3>1, <3>4, HitsBump DEF A
      <3>6. Hits(blocklist') = B /\ Hits(Listed(portrules')) = R /\ new = "pass_allowlist"
        BY <3>2, <1>13 DEF B, R
      <3> QED BY <1>5, <1>8, <1>9, <1>10, <2>1, <3>5, <3>6 DEF One
    <2>3. CASE Covering(allowlist, j.pkt.saddr) = {}
      <3>1. AfterAllowlist(j.cfg) # "idle"
        BY DEF AfterAllowlist
      <3> QED BY <1>11, <1>12, <1>15, <2>3, <3>1 DEF CheckAllowlist
    <2> QED BY <2>2, <2>3
  <1>16. CASE CheckBlocklist(c)
    <2>1. j.pc = "blocklist" /\ j.reason = "pass_default"
      BY <1>2, <1>16 DEF CheckBlocklist, StageSound
    <2>2. CASE Blocked(blocklist, j.pkt.saddr, j.now)
      <3> DEFINE k == LongestMatch(blocklist, j.pkt.saddr)
      <3>1. k \in DOMAIN blocklist
        BY <1>1, <2>2, LongestExists, LongestIsMatch DEF Covering, Blocked
      <3>2. /\ blocklist' = [blocklist EXCEPT ![k].hits = @ + 1]
            /\ UNCHANGED <<allowlist, portrules>> /\ Decided(c, "drop_blocklist")
        BY <1>16, <2>2 DEF CheckBlocklist
      <3> HIDE DEF k
      <3>3. blocklist \in [DOMAIN blocklist -> [expires_ns : Nat, hits : Nat,
                                                reason : {"manual", "auto"}]]
        BY DEF TypeOK, IsMap
      <3>4. /\ DOMAIN blocklist' = DOMAIN blocklist
            /\ blocklist'[k].hits = blocklist[k].hits + 1
            /\ \A x \in DOMAIN blocklist \ {k} : blocklist'[x].hits = blocklist[x].hits
        BY <3>1, <3>2, <3>3
      <3>5. Hits(blocklist') = B + 1
        BY <1>4, <3>1, <3>4, HitsBump DEF B
      <3>6. Hits(allowlist') = A /\ Hits(Listed(portrules')) = R /\ new = "drop_blocklist"
        BY <3>2, <1>13 DEF A, R
      <3> QED BY <1>5, <1>8, <1>9, <1>10, <2>1, <3>5, <3>6 DEF One
    <2>3. CASE ~Blocked(blocklist, j.pkt.saddr, j.now)
      BY <1>11, <1>12, <1>16, <2>3 DEF CheckBlocklist
    <2> QED BY <2>2, <2>3
  <1>17. CASE Filter(c)
    <2> DEFINE reason == L4Reason(j.pkt, j.cfg, portrules)
    <2>1. j.pc = "l4" /\ j.reason = "pass_default"
      BY <1>2, <1>17 DEF Filter, StageSound
    <2>2. new = reason /\ UNCHANGED <<allowlist, blocklist>>
      BY <1>1, <1>2, <1>17 DEF Filter, Busy, new
    <2>3. reason \notin {"pass_allowlist", "drop_blocklist"}
      BY DEF L4Reason, FragmentReason, DefaultReason
    <2>4. Hits(allowlist') = A /\ Hits(blocklist') = B
      BY <2>2 DEF A, B
    <2>5. CASE RuleHit(j.pkt, j.cfg, portrules)
      <3>1. /\ PortKey(j.pkt) \in DOMAIN portrules
            /\ portrules' = [portrules EXCEPT ![PortKey(j.pkt)].hits[c] = @ + 1]
        BY <1>17, <2>5 DEF Filter, RuleHit
      <3>2. Hits(Listed(portrules')) = R + 1
        BY <3>1, RuleTakesHit DEF HitsSound, R
      <3>3. reason \in {"pass_rule", "drop_port_rule"}
        BY <2>5 DEF L4Reason, RuleHit
      <3> HIDE DEF reason
      <3> QED BY <1>5, <1>8, <1>9, <1>10, <2>1, <2>2, <2>3, <2>4, <3>2, <3>3 DEF One
    <2>6. CASE ~RuleHit(j.pkt, j.cfg, portrules)
      <3>1. Hits(Listed(portrules')) = R
        BY <1>17, <2>6 DEF Filter, R
      <3> HIDE DEF reason
      <3> QED BY <1>5, <1>8, <1>9, <1>10, <2>1, <2>2, <2>3, <2>4, <3>1 DEF One
    <2> QED BY <2>5, <2>6
  <1>18. CASE Lookup(c) \/ Insert(c) \/ InsertFails(c) \/ Relookup(c)
    <2>1. UNCHANGED <<allowlist, blocklist, portrules>>
      BY <1>18 DEF Lookup, Insert, InsertFails, Relookup, maps
    <2>2. new = j.reason
      BY <1>12, <1>14, <1>18 DEF Lookup, Insert, InsertFails, Relookup
    <2> QED BY <1>11, <2>1, <2>2
  <1>19. CASE Update(c)
    <2>1. j.pc = "update" /\ j.reason \notin {"pass_allowlist", "drop_blocklist"}
      BY <1>2, <1>19 DEF Update, StageSound
    <2>2. /\ UNCHANGED <<allowlist, blocklist, portrules>>
          /\ \E r \in {"drop_ratelimit", j.reason} : Decided(c, r)
      BY <1>19 DEF Update, maps
    <2>3. new \in {"drop_ratelimit", j.reason}
      BY <1>13, <2>2
    <2>4. Hits(allowlist') = A /\ Hits(blocklist') = B /\ Hits(Listed(portrules')) = R
      BY <2>2 DEF A, B, R
    <2>5. CASE new = "drop_ratelimit"
      BY <1>5, <1>8, <1>9, <1>10, <2>1, <2>4, <2>5 DEF One
    <2>6. CASE new = j.reason
      BY <1>11, <2>2, <2>6
    <2> QED BY <2>3, <2>5, <2>6
  <1>20. CASE Count(c)
    <2>1. UNCHANGED <<allowlist, blocklist, portrules>> /\ job'[c] = Idle
      BY <1>1, <1>20 DEF Count, maps
    <2>2. new = j.reason
      BY <2>1 DEF Idle, new
    <2> QED BY <1>11, <2>1, <2>2
  <1> QED BY <1>15, <1>16, <1>17, <1>18, <1>19, <1>20 DEF Step

(* What a tool does to a list: nothing, a deletion, or an entry without hits. *)
Rewritten(new, old) ==
    \/ new = old
    \/ \E k : new = Del(old, k)
    \/ \E k, v : v.hits = 0 /\ new = Put(old, k, v)

LEMMA RewrittenHits ==
    ASSUME NEW old, HitMap(old), NEW new, Rewritten(new, old)
    PROVE  HitMap(new) /\ Hits(new) <= Hits(old)
  <1>1. CASE new = old
    <2>1. Hits(old) \in Nat
      BY HitsType
    <2> QED BY <1>1, <2>1
  <1>2. ASSUME NEW k, new = Del(old, k)
        PROVE  HitMap(new) /\ Hits(new) <= Hits(old)
    BY <1>2, HitsDel DEF HitMap
  <1>3. ASSUME NEW k, NEW v, v.hits = 0, new = Put(old, k, v)
        PROVE  HitMap(new) /\ Hits(new) <= Hits(old)
    BY <1>3, HitsPut DEF HitMap
  <1> QED BY <1>1, <1>2, <1>3 DEF Rewritten

(* A rule is written with every CPU's hits at 0, so its sum is 0. *)
LEMMA ListedRewritten ==
    ASSUME \/ UNCHANGED portrules
           \/ \E k : portrules' = Del(portrules, k)
           \/ \E k, a : portrules' = Put(portrules, k, [action |-> a,
                                                        hits |-> [c \in CPUs |-> 0]])
    PROVE  Rewritten(Listed(portrules'), Listed(portrules))
  <1>1. CASE UNCHANGED portrules
    BY <1>1 DEF Rewritten
  <1>2. ASSUME NEW k, portrules' = Del(portrules, k)
        PROVE  Rewritten(Listed(portrules'), Listed(portrules))
    <2>1. Listed(portrules') = Del(Listed(portrules), k)
      BY <1>2 DEF Listed, Del
    <2> QED BY <2>1 DEF Rewritten
  <1>3. ASSUME NEW k, NEW a, portrules' = Put(portrules, k, [action |-> a,
                                                   hits |-> [c \in CPUs |-> 0]])
        PROVE  Rewritten(Listed(portrules'), Listed(portrules))
    <2> DEFINE v == [action |-> a, hits |-> SumFunction([c \in CPUs |-> 0])]
    <2>1. Listed(portrules') = Put(Listed(portrules), k, v)
      BY <1>3 DEF Listed, Put
    <2>2. v.hits = 0
      BY CpuAssumption, SumZero
    <2> HIDE DEF v
    <2> QED BY <2>1, <2>2 DEF Rewritten
  <1> QED BY <1>1, <1>2, <1>3

LEMMA ToolsRewrite ==
    ASSUME NEW t \in Tools, ToolStep(t)
    PROVE  /\ Rewritten(allowlist', allowlist)
           /\ Rewritten(blocklist', blocklist)
           /\ Rewritten(Listed(portrules'), Listed(portrules))
  <1> DEFINE Rules == Rewritten(Listed(portrules'), Listed(portrules))
             Goal == /\ Rewritten(allowlist', allowlist)
                     /\ Rewritten(blocklist', blocklist)
                     /\ Rules
  <1>1. ASSUME UNCHANGED <<allowlist, blocklist, portrules>> PROVE Goal
    BY <1>1 DEF Rewritten
  <1>2. UNCHANGED portrules => Rules
    BY ListedRewritten
  <1> HIDE DEF Rules
  <1>3. ASSUME NEW key \in AllowKeys, Allow(t, key) \/ Unallow(t, key) PROVE Goal
    <2>1. Rewritten(allowlist', allowlist)
      <3>1. CASE Allow(t, key)
        <4>1. [hits |-> 0].hits = 0 /\ allowlist' = Put(allowlist, key, [hits |-> 0])
          BY <3>1 DEF Allow
        <4> QED BY <4>1 DEF Rewritten
      <3>2. CASE Unallow(t, key)
        BY <3>2 DEF Unallow, Rewritten
      <3> QED BY <1>3, <3>1, <3>2
    <2>2. UNCHANGED <<blocklist, portrules>>
      BY <1>3 DEF Allow, Unallow
    <2> QED BY <1>2, <2>1, <2>2 DEF Rewritten
  <1>4. ASSUME Block(t) PROVE Goal
    <2> DEFINE v == [expires_ns |-> IF task[t].duration > 0
                                    THEN clock + task[t].duration ELSE 0,
                     hits |-> 0,
                     reason |-> IF t = "controller" THEN "auto" ELSE "manual"]
    <2>1. v.hits = 0
      OBVIOUS
    <2>2. UNCHANGED blocklist \/ blocklist' = Put(blocklist, task[t].key, v)
      BY <1>4 DEF Block
    <2> HIDE DEF v
    <2>3. Rewritten(blocklist', blocklist)
      BY <2>1, <2>2 DEF Rewritten
    <2>4. UNCHANGED <<allowlist, portrules>>
      BY <1>4 DEF Block
    <2> QED BY <1>2, <2>3, <2>4 DEF Rewritten
  <1>5. ASSUME NEW key, Unblock(t, key) \/ DeleteBlock(t, key) PROVE Goal
    <2>1. blocklist' = Del(blocklist, key) /\ UNCHANGED <<allowlist, portrules>>
      BY <1>5 DEF Unblock, DeleteBlock
    <2> QED BY <1>2, <2>1 DEF Rewritten
  <1>6. ASSUME NEW key, del_port_rule(t, key) \/ DeleteRule(t, key) PROVE Goal
    <2>1. portrules' = Del(portrules, key) /\ UNCHANGED <<allowlist, blocklist>>
      BY <1>6 DEF del_port_rule, DeleteRule
    <2> QED BY <2>1, ListedRewritten DEF Rewritten, Rules
  <1>7. ASSUME NEW key, NEW a, set_port_rule(t, key, a) PROVE Goal
    <2>1. /\ portrules' = Put(portrules, key, [action |-> a, hits |-> [c \in CPUs |-> 0]])
          /\ UNCHANGED <<allowlist, blocklist>>
      BY <1>7 DEF set_port_rule
    <2> QED BY <2>1, ListedRewritten DEF Rewritten, Rules
  <1> HIDE DEF Goal
  <1>8. ASSUME UNCHANGED xdpVars PROVE Goal
    BY <1>1, <1>8 DEF xdpVars
  <1>9. ASSUME NEW a, DeleteState(t, a) \/ WriteConfig(t, a) PROVE Goal
    BY <1>1, <1>9 DEF DeleteState, WriteConfig, maps
  <1>10. ASSUME NEW key, NEW d, CheckAllowed(t, key, d) \/ update_config(t, key, d)
         PROVE  UNCHANGED xdpVars
    BY <1>10 DEF CheckAllowed, update_config
  <1>11. ASSUME \/ remove_expired_blocks(t) \/ clear_blocks(t) \/ clear_port_rules(t)
                \/ reset_stats(t) \/ remove_idle_states(t) \/ clear_states(t) \/ Finish(t)
         PROVE  Goal
    <2>1. UNCHANGED xdpVars
      BY <1>11 DEF remove_expired_blocks, clear_blocks, clear_port_rules,
                   reset_stats, remove_idle_states, clear_states, Finish
    <2> QED BY <1>8, <2>1
  <1>12. Goal
    <2>1. CASE \E key \in AllowKeys : Allow(t, key) \/ Unallow(t, key)
      BY <1>3, <2>1
    <2>2. CASE \E key \in BlockKeys, d \in Durations : CheckAllowed(t, key, d)
      BY <1>8, <1>10, <2>2
    <2>3. CASE \E key \in BlockKeys : Unblock(t, key)
      BY <1>5, <2>3
    <2>4. CASE \E key \in Prefixes : DeleteBlock(t, key)
      BY <1>5, <2>4
    <2>5. CASE \E key \in RuleKeys, a \in {"allow", "deny"} : set_port_rule(t, key, a)
      BY <1>7, <2>5
    <2>6. CASE \E key \in RuleKeys : del_port_rule(t, key) \/ DeleteRule(t, key)
      BY <1>6, <2>6
    <2>7. CASE \E addr \in Addresses : DeleteState(t, addr)
      BY <1>9, <2>7
    <2>8. CASE \E ch \in Changes[t] : update_config(t, ch[1], ch[2])
      BY <1>8, <1>10, <2>8
    <2>9. CASE \E field \in ConfigFields : WriteConfig(t, field)
      BY <1>9, <2>9
    <2>10. CASE \E c \in CPUs : ZeroStat(t, c)
      BY <1>1, <2>10 DEF ZeroStat, maps
    <2> QED BY <1>4, <1>11, <2>1, <2>2, <2>3, <2>4, <2>5, <2>6, <2>7, <2>8, <2>9, <2>10
            DEF ToolStep
  <1> QED BY <1>12 DEF Goal, Rules

LEMMA ToolsBackHits ==
    ASSUME TypeOK, HitsSound, NEW t \in Tools, ToolStep(t)
    PROVE  HitsSound'
  <1>1. /\ Rewritten(allowlist', allowlist) /\ Rewritten(blocklist', blocklist)
        /\ Rewritten(Listed(portrules'), Listed(portrules)) /\ UNCHANGED ever
    BY ToolsRewrite, ToolsCountNothing
  <1>2. HitMap(allowlist) /\ HitMap(blocklist) /\ HitMap(Listed(portrules))
    BY ListsHaveHits DEF HitsSound
  <1>3. /\ HitMap(allowlist') /\ Hits(allowlist') <= Hits(allowlist)
        /\ HitMap(blocklist') /\ Hits(blocklist') <= Hits(blocklist)
        /\ HitMap(Listed(portrules'))
        /\ Hits(Listed(portrules')) <= Hits(Listed(portrules))
    BY <1>1, <1>2, RewrittenHits
  <1>4. DOMAIN Listed(portrules') = DOMAIN portrules'
    BY DEF Listed
  <1>5. FiniteMaps'
    BY <1>3, <1>4 DEF FiniteMaps, HitMap
  <1>6. \A c \in CPUs : job'[c].pc = job[c].pc /\ job'[c].reason = job[c].reason
    <2>1. job \in [CPUs -> {Idle} \cup Busy]
      BY DEF TypeOK
    <2>2. ASSUME NEW c \in CPUs, Disturb
          PROVE  job'[c].pc = job[c].pc /\ job'[c].reason = job[c].reason
      <3>1. CASE job[c].pc = "idle"
        BY <2>2, <3>1 DEF Disturb
      <3>2. CASE job[c].pc # "idle"
        <4>1. job[c] \in Busy /\ job'[c] = [job[c] EXCEPT !.quiet = FALSE]
          BY <2>1, <2>2, <3>2, BusyJob DEF Disturb
        <4> QED BY <4>1 DEF Busy
      <3> QED BY <3>1, <3>2
    <2> QED BY <2>2, ToolsDisturb
  <1>7. \A r : Counted(r)' = Counted(r)
    BY <1>1, <1>6, CountedKept
  <1>8. HitsBacked'
    <2> DEFINE Allows == Counted("pass_allowlist")
               Blocks == Counted("drop_blocklist")
               Rules  == Counted("pass_rule") + Counted("drop_port_rule")
                           + Counted("drop_ratelimit")
    <2>1. Allows \in Nat /\ Blocks \in Nat /\ Rules \in Nat
      BY CountedType DEF Reasons, PassReasons, DropReasons
    <2>2. Allows' = Allows /\ Blocks' = Blocks /\ Rules' = Rules
      BY <1>7
    <2>3. /\ Hits(allowlist) <= Allows /\ Hits(blocklist) <= Blocks
          /\ Hits(Listed(portrules)) <= Rules
      BY ListedRules DEF HitsSound, HitsBacked
    <2> HIDE DEF Allows, Blocks, Rules
    <2>4. /\ Hits(allowlist) \in Nat /\ Hits(blocklist) \in Nat
          /\ Hits(Listed(portrules)) \in Nat
      BY <1>2, HitsType
    <2>5. /\ Hits(allowlist') \in Nat /\ Hits(blocklist') \in Nat
          /\ Hits(Listed(portrules')) \in Nat
      BY <1>3, HitsType
    <2>6. /\ Hits(allowlist') <= Allows' /\ Hits(blocklist') <= Blocks'
          /\ Hits(Listed(portrules')) <= Rules'
      BY <1>3, <2>1, <2>2, <2>3, <2>4, <2>5
    <2> QED BY <2>6, ListedRules DEF HitsBacked, Allows, Blocks, Rules
  <1> QED BY <1>5, <1>8 DEF HitsSound

(* The hits of the lists and rules, as fwctl shows them, are backed by what  *)
(* was ever added to the packet counters, however often these are reset, with *)
(* any number of entries, of copies and of CPUs.                             *)
THEOREM HitsAreBacked == Spec => []HitsBacked
  <1>1. TypeOK /\ Init => HitsSound
    <2> SUFFICES ASSUME TypeOK, Init PROVE HitsSound
      OBVIOUS
    <2>1. ASSUME NEW m, DOMAIN m = {} PROVE Hits(m) = 0
      <3>1. HitMap(m)
        BY <2>1, FS_EmptySet DEF HitMap
      <3>2. Hits(m) = SumOver([k \in DOMAIN m |-> m[k].hits], {})
        BY <2>1, <3>1, HitsType
      <3> QED BY <3>2, FS_EmptySet, SumStep
    <2>2. DOMAIN allowlist = {} /\ DOMAIN blocklist = {} /\ DOMAIN portrules = {}
      BY DEF Init, XdpInit
    <2>3. DOMAIN list_port_rules = {}
      BY <2>2 DEF list_port_rules
    <2>4. Hits(allowlist) = 0 /\ Hits(blocklist) = 0 /\ Hits(list_port_rules) = 0
      BY <2>1, <2>2, <2>3
    <2>5. \A r \in Reasons : Counted(r) \in Nat
      BY CountedType
    <2>6. HitsBacked
      BY <2>4, <2>5 DEF HitsBacked, Reasons, PassReasons, DropReasons
    <2> QED BY <2>2, <2>6, FS_EmptySet DEF HitsSound, FiniteMaps
  <1>2. TypeOK /\ VerdictsSound /\ HitsSound /\ [Next]_vars => HitsSound'
    <2> SUFFICES ASSUME TypeOK, VerdictsSound, HitsSound, [Next]_vars PROVE HitsSound'
      OBVIOUS
    <2>1. ASSUME UNCHANGED <<allowlist, blocklist, portrules>>,
                 \A r \in Reasons : Counted(r)' \in Nat /\ Counted(r)' >= Counted(r)
          PROVE  HitsSound'
      <3>1. list_port_rules' = list_port_rules /\ FiniteMaps'
        BY <2>1 DEF list_port_rules, HitsSound, FiniteMaps
      <3>2. HitMap(allowlist) /\ HitMap(blocklist) /\ HitMap(list_port_rules)
        BY ListsHaveHits, ListedRules DEF HitsSound
      <3>3. Hits(allowlist) \in Nat /\ Hits(blocklist) \in Nat /\ Hits(list_port_rules) \in Nat
        BY <3>2, HitsType
      <3> DEFINE C(r) == Counted(r)
                 D(r) == Counted(r)'
      <3>4. \A r \in Reasons : C(r) \in Nat /\ D(r) >= C(r) /\ D(r) \in Nat
        BY <2>1, CountedType
      <3>5. HitsBacked'
        BY <2>1, <3>1, <3>3, <3>4
           DEF HitsSound, HitsBacked, Reasons, PassReasons, DropReasons
      <3> QED BY <3>1, <3>5 DEF HitsSound
    <2>2. CASE Tick /\ UNCHANGED task
      <3>1. UNCHANGED <<allowlist, blocklist, portrules, ever, job>>
        BY <2>2, EverKept DEF Tick, maps, history
      <3>2. \A r : Counted(r)' = Counted(r)
        BY <3>1, CountedKept
      <3> QED BY <2>1, <3>1, <3>2, CountedType
    <2>3. ASSUME NEW c \in CPUs, NEW p \in Packets, Receive(c, p) PROVE HitsSound'
      BY <2>1, <2>3, ArrivalAdds DEF Receive, maps
    <2>4. ASSUME NEW c \in CPUs, Step(c) PROVE HitsSound'
      BY <2>4, StepBacksHits
    <2>5. ASSUME NEW t \in Tools, ToolStep(t) PROVE HitsSound'
      BY <2>5, ToolsBackHits
    <2>6. CASE UNCHANGED vars
      <3>1. UNCHANGED <<allowlist, blocklist, portrules, ever, job>>
        BY <2>6, EverKept DEF vars, xdpVars
      <3>2. \A r : Counted(r)' = Counted(r)
        BY <3>1, CountedKept
      <3> QED BY <2>1, <3>1, <3>2, CountedType
    <2> QED BY <2>2, <2>3, <2>4, <2>5, <2>6 DEF Next
  <1>3. HitsSound => HitsBacked
    BY DEF HitsSound
  <1> QED BY <1>1, <1>2, <1>3, TypeCorrect, VerdictInvariant, PTL DEF Spec
=============================================================================
