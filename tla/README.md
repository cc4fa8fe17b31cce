# The adaptive XDP firewall in TLA+

This directory is a TLA+ model of the firewall in `bpf/`, `control/` and
`src/`: what the kernel program does to every packet, what the userspace tools
do to the maps it reads, and how the controller adapts limits and blocks
sources. Paths below are relative to the root of the repository. TLC checks
the models on small instances; TLAPS proves the central facts for every value
of the constants.

## 1. Inventory

| component | code | state | operations |
|---|---|---|---|
| Data plane | `bpf/firewall.bpf.c`, `bpf/common.h` | maps `config`, `allowlist`, `blocklist`, `portrules`, `srcstate`, per-CPU `stats`; locals of one run per CPU | parse, allowlist, blocklist, protocol checks, port rules and policy, `update_state` (lookup, insert, spin-locked counters and token bucket), one verdict counter |
| Map operations | `control/firewall.py`, `control/fwctl.py` | the same maps; what an operation has read and not yet written | allow, unallow, block, unblock, clear and expire blocks, set/delete/clear port rules, forget idle or all sources, `update_config`, `reset_stats` |
| Blocker | `control/policy.py`, driven by `control/controller.py` | `strikes`, `offences`, `until`, blocks issued this window | one update per window, block, cleanup every few cycles, start, stop |
| Aggressiveness | `control/policy.py`, driven by `control/controller.py` | previous counters, load, `level`, `calm` | read counters, measure, change tier, write the tier's rate |
| Window, classify | `control/detect.py` | previous snapshot of `srcstate` | differences per source, verdict per source |
| Loader | `src/loader.c` | pins, attached programs and their modes | load, reload, unload, each a sequence of system calls |
| bpf(2) bindings | `control/bpfmap.py` | file descriptors, the position of a walk, the batch token | open, lookup, update, delete, `keys`, `items`, `_batch` |
| fwctl output and self-test | `control/fwctl.py` | none of its own | status, lists, top, selftest |
| Benchmarks, scripts | `bench/`, `scripts/` | | traffic generation, measurement |

**Interactions.** Kernel and userspace share only the maps. Every CPU runs the
program concurrently with the others and with system calls of `fwctl` and of
the controller, which may run at the same time. A system call on one entry is
atomic towards other system calls; an operation made of several is not. The
spin lock of a `srcstate` entry protects its value, not its membership in the
map. The tools find the maps by their pins; `fwload` makes and removes these,
for all interfaces in one directory, and a program goes on running on maps that
nobody can open any more.

**What is hard.** The clock is read before the lock; two CPUs insert the same
source; an entry is deleted and its element reused while a CPU holds a pointer
to it; settings are read while they are written; check-then-write,
snapshot-then-delete and read-modify-write in userspace; deadlines kept twice,
counted from different moments; counters reset between the reads of one
measurement, or under a packet in work; a controller that dies and forgets everything except what it
wrote to the maps; a map walked key by key or in batches while its keys go; a
counter entry deleted and created again between two snapshots; a load that
fails or dies half-way. `PROJECT.json` lists these hazards at their lines.

**What makes each component correct.**

* Data plane: every packet gets exactly one verdict counter; an allowlisted
  host always passes, a blocked one never, and a block ends at its deadline;
  default deny is closed; a source gets its rate and burst, no more and no
  less; nothing passes the limiter unaccounted.
* Map operations: cleaning up is invisible to traffic; the controller does not
  change what belongs to the operator.
* Blocker: the strikes are the recent history; the cap holds; a persistent
  offender is blocked again and again; belief and kernel agree.
* Aggressiveness: up at once, down slowly, and all the way down in the end.
* Window: a row is what the source did in that interval, never more.
* bpf(2) bindings: a read misses nothing that was there all the time, and ends;
  a clear clears.
* Loader: what is pinned is what runs; a reload keeps the operator's entries.

## 2. Modules

| module | models | state |
|---|---|---|
| `PacketFilter` | the stateless part of `xdp_firewall`: header checks, fragments, flags, prefix matching, port rules, default policy | none |
| `TokenBucket` | the arithmetic of `update_state`, on words of `WORD` values | none |
| `RateLimiter` | what the rate limit promises of a bucket: virtual scheduling (abstract) | the clock, each bucket's theoretical arrival time `tat`, packets admitted |
| `XdpFirewall` | one run of `xdp_firewall` on each CPU, all maps | maps, `job` (a CPU's locals), clock |
| `Firewall` | `XdpFirewall` together with the tools' operations | `task` (a tool's unfinished operation) |
| `AutoBlocker` | `Blocker`, the part of `Controller.step` that drives it, and an operator | Blocker's tables, host entries of the blocklist, the open window |
| `LoadTuner` | `Aggressiveness`, the load measurement, `fwctl reset`, and the writers of the configured rate: controller, `fwctl`, `fwload` | counters, `ctl`, `prev`, `load`, `level`, `calm`, rate, `pending` (fwctl's unfinished write) |
| `MapRead` | what reading a whole map promises while it changes (abstract) | the map's keys, what a result must and may contain |
| `BpfMap` | `keys`, `items`, `_batch` and the deleting loops of `control/firewall.py` and `fwctl reset --all`, against everybody else | a map, the tool's locals |
| `Window` | `Window.update`, `classify`, and the idle cleanup of `Controller.step` | `srcstate`, the snapshot, the rows |
| `Loader` | `fwload`, and the opening of the pins by a tool | pins, attached programs, processes under way |
| `MCFirewall`, `MCAutoBlocker`, `MCLoadTuner`, `MCWindow`, `MCLoader` | packets, settings and commands of the runs | |
| `FirewallProofs`, `BucketProofs`, `VerdictProofs` | theorems about `Firewall` | |
| `AutoBlockerProofs`, `LoadTunerProofs`, `WindowProofs`, `BpfMapProofs`, `LoaderProofs` | theorems about the module of that name | |

`Firewall` EXTENDS `XdpFirewall` EXTENDS `PacketFilter` and `TokenBucket`;
`BucketProofs` and `VerdictProofs` EXTEND `FirewallProofs`, which EXTENDS
`Firewall`. `BpfMap` implements
`MapRead` under a refinement mapping (`ReadsAreComplete`), and `Firewall`
implements `RateLimiter` (`RateIsScheduled`): `tat` of a slot is `last_refill_ns`
plus one `Period` for every token that is missing, `seen` is `last_seen_ns`, and
`admitted` is what the ledger says was spent.

### How actions correspond to code

*Data plane.* A run of the program is cut at every access to a map that
somebody else may change: `Receive` (clock, RX counters, settings, Ethernet
and IP), `CheckAllowlist`, `CheckBlocklist`, `Filter` (from the transport header
to the default policy), `Lookup`, `Insert`/`InsertFails`, `Relookup`, `Update`
(the critical section) and `Count`. Between two cuts only locals change. An
element of `srcstate` is a *slot*: the hash is preallocated, so a deleted
element can be given to another source while a CPU still holds its address.

*Tools.* One action per system call. `CheckAllowed` and `Block` are the two
halves of a block; `remove_expired_blocks`, `clear_blocks`,
`remove_idle_states`, `clear_states` and `clear_port_rules` take a snapshot of
keys and `DeleteBlock`, `DeleteState`, `DeleteRule` delete them one at a time;
`update_config` reads and `WriteConfig` writes back word by word, so that a
packet may see a half-written value. `reset_stats` writes one counter per system
call, in which the kernel stores a zero to each CPU's word (`ZeroStat`); a CPU adds
to its word with a load and a store and no lock, so a zero stored between the two
is lost (`Overwrite`, together with the step of the packet). `clear_states` is the
second half of `fwctl reset`. `fwctl` may be given the same operation
again and again; which ones is the constant `Commands`.

*Blocker.* `StartWindow` is the snapshot and hands over a verdict for any set of
sources that got past the lists since the previous one (the first snapshot is
only a baseline); `Clean` and `Flag` are the iterations of `Blocker.update`,
`Issue` its system call and bookkeeping, `IssueFails` the error of a full trie,
which ends the process; `EndWindow` is the rest of the cycle with the periodic
cleanup. The order in which sources are taken is left open. `Status` is what the
screen says of a source, from the same beliefs.

*Load tiers.* `StartStep`, one `ReadStat` per counter, `Adapt` (differences,
`Aggressiveness.update`) and `Apply` (the write of the rate). `fwctl reset`
zeroes one counter per step in the same order; the store races the CPUs, so an
increment in flight may put the old value back (`ResetStat`). The rate is part of
the configuration, which `fwctl policy`, `config set` and `reset --all` read
(`ReadConfig`) and write back whole (`WriteConfig`), with a rate of their own or the
one they read, and which `fwload` sets to its own when it is run again (`Reload`).

*Map reads.* A key is its place in the kernel's order. `CopyBucket` is one
bucket of a batch, `BatchReturns` one `MAP_LOOKUP_BATCH`, `Unsupported` the
fall-back to `WalkNext` (one `MAP_GET_NEXT_KEY`, which starts again when the
present key is gone) and `Lookup`. `Deliver` hands the result to the caller,
`DeleteNext` is one iteration of the loop that deletes. `Update`, `Delete` and
`Tick` are everybody else, between any two of these. `Fail` is any other error,
or Ctrl-C. The blocklist stands for all maps: a value is its deadline.

*Window.* `Send` counts a packet, `Reset` and the cleanup of `EndStep` delete
entries, `Poll` is the snapshot with `Window.update`; `classify` is applied to
the rows it leaves. A division by zero in a row ends the process.

*Loader.* One action per system call of `fwload`: `OpenMap` (create and pin, or
reuse, one map), `Loaded`, `WriteConfig`, `UnlinkProg`, `PinProg`, `Attach`, and
for `-u` `Detach` and one `Unlink` per pin; `LoadFails`, `Fails` and `Kill` end it
early. libbpf and the kernel are external and modelled as `loader.c` uses them.
A tool opens the maps one by one and keeps them (`OpenPinned`).

### Abstractions

* Addresses have `ADDR_BITS` bits; prefixes of every length exist. A port is a
  number; the 64-bit port bitmap is the set of its bits.
* The clock advances by 1 and `NSEC_PER_SEC` is small; words wrap at `WORD`.
  64-bit counters of packets and bytes are natural numbers (at line rate they
  take centuries to wrap).
* The missing-config return is left out: `config` is an array map and its only
  element always exists.
* A write of a port rule reaches the copies of all CPUs in one step; the
  snapshot of a map's keys is one step, and the cut-off against which it is
  compared is read with it.
* Insertion into `srcstate` is one step. To lookups it is: the kernel fills in the
  value before it links the element. A CPU that still holds a pointer to the
  element's previous owner could write to it during that copy, which the kernel
  does without the entry's spin lock; `Insert` models the copy as done before or
  after such a write, and the interleaving of the two is not covered.
* `fwctl config` toggles features from an earlier read; the model gives the
  resulting set directly, which allows every outcome of the code.
* An update that fails because the map is full changes nothing, and for
  allow and port rules is not an action of its own.
* `last_refill_ns` and `last_seen_ns` of a deleted element stay in memory, as in
  the code.
* In `AutoBlocker` deadlines are the seconds left, offences stop counting at
  the last duration, and strikes at `MaxStrikes` in an instance that does not
  remember verdicts (`MaxHistory = 0`); only host entries exist (prefixes are in
  `Firewall`).
* In `LoadTuner` a ratio is kept as its two sides; `pass_rule`, which is
  read, summed and reset exactly as `pass_default`, and the displayed
  `aggressiveness` field of the settings are left out. One packet is in
  flight at a time.
* In `Window` seconds are whole, `fin` and `rst` are one counter (the code only
  uses their sum), ratios are compared by cross-multiplication, and the
  snapshot is one step (`BpfMap` takes it apart). A port of 0 stands for a packet
  without one. `udp` and `dropped` are in no rule and left out.
* In `BpfMap` a bucket holds one key. A batch that does not fit a single bucket
  (`ENOSPC`) therefore does not occur; the code asks for far more entries than a
  bucket holds. The batch token is a bucket, as in the hash maps. The kernel's
  batch for tries resumes by key and may start again like the walk, which `_batch`,
  unlike `keys`, does not bound; its `chunk` of 4096 entries is a whole trie, and
  this case is not modelled apart, so `OperationsEnd` and `ReadsAreComplete` of a
  trie are about the walk.
* In `Loader` a map is its name and the load that created it; of its contents
  only whether something the operator wrote is still there. One `fwload` at a
  time works on an interface. Opening the object, `mkdir` and option parsing
  change nothing that others see.
* History variables, not in the program: `ledger` (what a bucket was given,
  spent, lost and slept through), `paid`, `wiped` (what resets took from a counter:
  `ever` is a counter with it) and `quiet` in `XdpFirewall`; `wrote` and
  `reach` and `seen` in `AutoBlocker`; `fed` and `by` (who wrote the rate last) in `LoadTuner`;
  `must`, `may`, `alive` in `BpfMap`; `since`, `kept` in `Window`; `stranded`,
  `abandoned`, `stale`, `missed`, `sound` in `Loader`. `missed` of an unload is
  whether its detach did nothing. `reach` limits which verdicts a window may contain; the others are never read
  by an action.

## 3. Runs

Every bound is a named constant (`MaxClock`, `MaxPackets`, `MaxAge`,
`MaxStrikes`, `MaxCrashes`, `MaxHistory`, `MaxResets`, `MaxRestarts`, `MaxWrites`,
`MaxCount`, `MaxSecs`, `MaxLoads`). Deadlock is checked in every run.

**Symmetry.** The program and the models treat CPUs alike, so the runs of
`MCFirewall` use permutations of `CPUs`; likewise `Sources` in `AutoBlocker` where
no source is singled out (`Persistent` is empty and `ALLOW_ARGS` is none or
all), and admins and interfaces in `Loader`. Runs with a liveness property use
none.

### Runs that pass

| run | instance | shows |
|---|---|---|
| `bucket` | 1 CPU, 1 source, two tiers (rate 1 burst 2, rate 2 burst 1) on a second of 4 ticks, 5 ticks, 4 packets | `RateContract` and `FairShare` while the settings change, are read half-written, and the source is forgotten when idle; `BucketsSound` is the inductive invariant of the proofs. Refills leave fractions, and the clock passes a full second, so the idle branch is taken |
| `race` | 2 CPUs, 2 sources, 1 slot, fragments dropped, the controller forgetting idle sources | `PacketsConserved`, `LedgerBalanced`, `NoUncountedBypass`, `RateContract` and `RateIsScheduled` (refinement of `RateLimiter`) through stale clock readings, failed inserts, entries deleted between insert and lookup, and reused slots |
| `verdicts` | 1 CPU, 6 kinds of packets, a host and a prefix that covers it, 2 rule keys (one that `port_key` refuses), default deny; `fwctl` allows, blocks, unblocks, flushes, expires, writes rules and resets | `AllowlistWins`, `HostBlockHolds`, `BlocksLiftOnTime`, `DenyIsClosed`; `PacketsConserved` through every return, `HitsBacked` and `NoUncountedBypass` with counters zeroed at any moment |
| `blocks` | 2 sources, a trie with 1 place, operator, 1 crash, dry runs, histories of 2 verdicts | `CapHolds`; `BeliefsMatchKernel`: only the operator can make the controller believe in a block that the kernel does not enforce; `DryRunOnlyWatches`; `StrikesAreRecent`: the counter equals its reference definition, the largest surplus of flagged windows over any suffix |
| `offenders` | 2 strikes, cap 1, one persistent offender, one other source, room for both, an operator who allows, unallows and unblocks, 1 crash | `OffendersAreBlocked` (liveness) |
| `tiers` | 3 tiers, the rate of tier 0 at first as by default, a reset that races the counting CPU, a restart, one write of the configuration by `fwctl` (its own rate, that of `reset --all`, or the one it read) or by a reload | `TierFollowsLoad`, `RelaxesSlowly`, `CalmEndsRelaxed` (liveness) |
| `walk` | 3 keys, 2 places, batches of 1, a limit of 3 keys, listings, clears, `reset --all`, expiry | `ReadsAreComplete` (refinement of `MapRead`), `ClearsEverything`, `SparesLiveBlocks`, `OperationsEnd` (liveness) |
| `window` | 1 source, 4 kinds of packets (two ports that share a bit, one that does not, none), entries of up to 3 packets, intervals of 0 to 2 s, `fwctl reset` and idle cleanup | `NeverOverstates`, `ExactWhileKept`, `VerdictsAreEarned` |
| `pins` | 1 `fwload` at a time on 2 interfaces, 2 maps, 2 loads, 1 tool | `PinsReachProgram`, `ToolsReachProgram`, `PinnedProgramRuns`, `ReloadKeepsEntries` |

Two CPUs suffice for the races on one bucket and one key: each involves one
reader and one writer, and the proofs cover any number. One slot for two
sources makes the map full and makes every deletion a chance of reuse. Two
ticks give `race` readings that are behind a refill and sources that are idle; that the
abstract limiter is implemented with fractions of tokens, longer silences and
changing settings is left to the proof, which bounds none of them. In `verdicts` one
packet meets any sequence of the operator's commands, which go on without bound;
packets that meet each other are the matter of `race` and of the proofs. Its 6 kinds
end at the frame, the fragment check, the transport header, the flags, the lists,
the rules and the policy; the checks of the IP header end as those of the frame do
(`FrameReason`).
In `tiers` one write of `fwctl`, begun before and ended after the controller's, or
one reload at any tier is enough to bring an older rate back; the proof bounds none
of them. `offenders` is at the limit of what `OffendersAreBlocked` assumes: a block takes
`STRIKES` flagged windows, so as long as there are no more sources than
`MAX_PER_WINDOW * STRIKES` the others cannot use up the cap in every window from
the one that waits. With one strike instead of two, or a blocklist with one place,
TLC finds it postponed for ever.
Durations and windows are of a few seconds so that blocks begin, are renewed
and end inside a run. `blocks` cuts histories at `MaxHistory` (a CONSTRAINT),
with `STRIKES` reached inside it; longer ones repeat the same counting. Three
keys let a walk lose the one it stands on with one before and one behind it;
with two places the limit of 3 is met only by a walk that starts again. In
`window` sources do not interact, so one is enough, and three packets tell
smaller, equal and larger recreated counts apart. Two loads on two interfaces
give a first load, a reload, and one object shared by two programs; that
several `fwload` run at once is covered by the proofs, which bound nothing.

### Runs that show a disagreement

Each violates one property that a comment or document states; the findings in
`PROJECT.json` quote it.

| run | what happens |
|---|---|
| `policy_race` | a tier change writes back the policy it read before `fwctl policy deny` |
| `recreated` | an entry deleted when idle comes back with more packets and one FIN or RST fewer: the ratio's divisor is zero and the controller dies |
| `recount` | `fwctl reset` falls between a packet's RX counter and its verdict: passes + drops differs from packets received from then on |

### Disagreements

Other differences between code and comments, documents or what one would expect,
which the models make visible and for which no run is kept:

* The loser of two concurrent inserts of a source counts `STATE_FULL` and its
  packet is not limited, although the comment at `bpf/firewall.bpf.c:409` says
  the lookup below finds the entry.
* An element of `srcstate` can be reused under a CPU's pointer, and the packet is
  then charged to another source (`bpf/firewall.bpf.c:427`).
* The expired entry of a host hides the permanent entry of its subnet until it
  is deleted (`bpf/firewall.bpf.c:291`).
* `remove_expired_blocks` and `remove_idle_states` delete by key: a block renewed,
  or a source active again, since it was read is deleted as well, and the source
  gets a second burst. Hence
  `SparesLiveBlocks` is about blocks in force when the cleanup began.
* An automatic block replaces the operator's permanent one, and ends
  (`control/policy.py:124`).
* After `fwctl block del` the controller goes on believing in its block until the
  old deadline (`control/policy.py:90`), and the screen says "would be blocked",
  which "only happens in a dry run" (`control/controller.py:112`).
  `BeliefsMatchKernel` says that nothing else leads there.
* A source that sends nothing has no row, so its strikes do not decay.
* Blocks of 300 s and 900 s exceed the bound on live automatic blocks of
  `bpf/common.h:19`, which counts first offences only.
* `--dry-run --allow` writes the allowlist (`control/controller.py:41`), hence
  `DryRunOnlyWatches` is about the blocklist.
* `port_spread` counts the ports of the entry's whole life, while `detect.py`
  says that a source is judged "on what it did in that second only".
* A walk made to start again lists keys twice, so the number in "removed N" of a
  clear may be too large.
* A controller assumes level 0 when it starts and leaves the rate it finds:
  what `fwload` set, or after a restart the limit of a strict tier, stays until
  the next change of tier; this is the last alternative of `TierFollowsLoad`.
* The controller writes the rate only when its tier changes. `fwctl policy` or
  `config set` that read the configuration before such a write puts the older
  tier's rate back, and a reload of `fwload` its own, and either stays until the
  next change of tier, whatever the load; this is `by = "other"` in
  `TierFollowsLoad`.
* `fwctl reset` keeps the hits of lists and rules (`tests/e2e.sh:95`), which then
  exceed the counters; `HitsBacked` is about what was counted since the load.
* With more offenders than the cap can serve, nothing makes the order of the
  verdicts fair: a source may be postponed to the next window for ever. A full
  blocklist ends the controller (`control/controller.py:182`), and its strikes with
  it. `OffendersAreBlocked` assumes neither is the case.
* An interval spoilt by `fwctl reset` is not skipped: the previous load is fed
  to the tier decision again (`control/controller.py:63`). A reset between two
  reads can also make the dropped part larger than the load.
* An escalation writes the tier's rate over a stricter one of the operator's.
* `fwload -u` detaches in the driver's default mode: a program attached in generic
  mode on a native-capable driver stays, with its pins gone. It also removes the
  pins of the programs of all other interfaces. Both are in `stranded`.
* A load whose attach fails has already replaced the pinned program and written
  the default settings; a death between `unlink` and `pin` leaves `fwctl status`
  without a program. Both are in `abandoned`.
* The self-test writes and removes entries under addresses the operator may be
  using, and its counting check can fail under traffic.

### Fairness

Only the controller's own loop and the passing of time are assumed fair.
`Controller.run` steps once per interval until it is stopped, at a raised
priority, so in `AutoBlocker` the start, the snapshot, each iteration, the
system call and the end of a window are weakly fair, and in `LoadTuner` the
step. In `BpfMap` the tool's own steps are weakly fair: it is a process like any
other. Nothing is assumed of packets, of the operator or of crashes, except
that the controller is started again after one. `CalmEndsRelaxed` is about executions in which traffic ends; in
`OffendersAreBlocked` a persistent source is flagged in every window during all
of which it got through, which is what makes it persistent.

## 4. Theorems

### The data plane

These are about `Firewall!Spec`, for any sets of CPUs, tools, packets, prefixes,
rules and settings and any capacities. The assumptions are
`DataplaneAssumption`, `ToolAssumption`, `CpuAssumption` (there are finitely many
CPUs, without which sums over them mean nothing) and `BucketAssumption`: rates
are 0 or in `MinRate .. MaxRate`, bursts in `1 .. MaxBurst`, and neither
`NSEC_PER_SEC * MaxRate` nor `MaxBurst + MaxRate` overflows a word. `fwctl config
set` enforces the range of the rate and a burst of at least 1; the loader's `-r`
and `-b` do not (see the hazards), and nobody bounds the burst from above,
where only a value next to 2^64 would break the assumption.

| theorem | statement |
|---|---|
| `TypeCorrect` | `Spec => []TypeOK` |
| `CountersConserved` | `Spec => []PacketsConserved`: verdicts and packets received, with what resets wiped of either, differ by exactly the packet in work, on every CPU |
| `BucketsStaySound` | `Spec => []BucketsSound` |
| `RateLimitHolds` | `Spec => []RateContract`: a bucket lets through at most a burst plus one packet per token period |
| `ShareIsFair` | `Spec => FairShare`: a packet is limited only when all the time its bucket has seen was turned into tokens, and these are gone |
| `LimiterIsImplemented` | `Spec => RateIsScheduled`: every step is a step of `RateLimiter` or a stutter |
| `EveryWindowIsLimited` | `Spec => [][WindowStep]_vars /\ []WindowBound`: from the arrival of any admitted packet on, a bucket admits at most a burst plus one packet per token period, and what the time of one token at the slowest rate is worth |
| `LedgersBalance` | `Spec => []LedgerBalanced`: tokens spent plus drops never exceed packets |
| `EveryPassIsPaid` | `Spec => []NoUncountedBypass`: with the limiter on, a CPU passes no packet without a token that is not told in `state_full`, whose wiped counts count |
| `AllowlistAlwaysWins` | `Spec => []AllowlistWins` |
| `HostBlocksHold` | `Spec => []HostBlockHolds` |
| `BlocksLift` | `Spec => []BlocksLiftOnTime` |
| `DefaultDenyIsClosed` | `Spec => []DenyIsClosed` |
| `HitsAreBacked` | `Spec => []HitsBacked`: the hits of a list never exceed the packets counted as decided by it, wiped by resets or not |

**The argument.** `TypeOK` is inductive; `KernelTypes` and `ToolTypes` have one
step per action, on lemmas about the maps (`PutType`, `DelType`, the hit
counters) and about the arithmetic (`RefillType`). `PacketsConserved` is
inductive relative to it: `Receive` adds one to both sides, `Count` moves the
packet in work to its verdict, and no other action touches either side
(`InFlight`, `ToolsCountNothing`). A reset touches the counters but not `ever`: what
a zero takes from a word it adds to `wiped` (`EverAdds`, `EverKept`), and a zero that
is lost to an increment takes nothing. The properties about counters are stated of
`ever` for this reason; of the counters alone they are false, as `recount` shows of
the one the documentation makes.

`RateContract` is not inductive: it says nothing of the tokens left or of
`last_refill_ns`. `BucketsSound` adds, for every slot, that `last_refill_ns` lies
between the bucket's birth and the clock, that tokens are at most `MaxBurst`,
and two inequalities between the tokens credited so far and the advance of
`last_refill_ns`: at the fastest rate the credit is worth no more time than
that, and at the slowest no less, idle time apart. For every CPU it adds
that its reading of the clock is in the past and its pointer was looked up. The
core is `RefillBounds`, about one refill with truncating division (what is
added is worth no more than `last_refill_ns` moves, and the movement is never
more than what was earned), from which `RefillBalance` and `UpdateBucket` show that
the critical section keeps both inequalities, whatever settings the packet
carries and however old its `now` is. `RateContract` follows from the first
inequality, `FairShare` from the second and the case of an empty bucket. A reused
element needs no extra argument: insertion writes the bucket and its ledger
together, and a stale pointer charges a bucket that is sound.

`RateContract` counts from a bucket's birth, so it would let a source that was
silent for a day send a day's worth at once; the burst limit and the branch for
idle sources prevent that, and `RateLimiter` says so. Its step for an admitted
packet moves `tat` by a `Period` from where it was, or from the packet's arrival
less `Grain` (the time of one token at the slowest rate) if that is later, and
never beyond `Burst` periods after the clock. `RefillReserves` is the core: the tokens a
refill adds are worth no more than `last_refill_ns` moves (`RefillBounds`), those cut
off by the burst only raise `tat`, and after the refill `last_refill_ns` is within
`Grain` of the arrival. Insertion opens a bucket, the critical section admits or
touches it (`UpdateReserves`), everything else stutters. For the window that
begins with the (n+1)st packet of a bucket, arrived at t, `Since` says that `tat`
is at least `t - Grain` plus a `Period` for each packet after the first n; the
admission establishes it, every step but a reopening keeps it, and with `tat` at
most `Burst` periods ahead of the clock it is the bound.

`NoUncountedBypass` is inductive together with `SettingsFixed`: if no tool may
change the settings, those a packet carries are the configured ones, so it takes
the limiter's branch. Each step then adds to both sides, or to `paid` or
`state_full` alone (`StepPaysOrTells`).

The verdict properties speak of the last stage of a packet, which has to
remember what the stages before found out. `VerdictsSound` says it stage by
stage: `StageSound` which verdicts are possible where, and `ListSound` what the
lists and rules in force say of the packet as long as nobody has written to them
since it arrived. Other CPUs do write to them in the meantime, but only hits, and
`SameVerdicts` shows that hits decide nothing; a tool's write makes the packet
disturbed (`ToolsDisturb`). `HostKeyIsLongest` is why a host's own entry is the one
found.

`HitsBacked` compares sums: hits over the entries of a map, a rule's hits and a
counter over the CPUs. The sum is a recursive fold in an order of its own
choosing. What it computes is proved without an induction principle, from a
least counterexample: a collection of subsets of a finite set has a minimal
member (`MinimalSubset`), so no smallest set exists on which the fold has no value,
two values, or depends on the order (`FoldExists`, `FoldsAgree`, `SumTake`). From
these, what changing, adding or removing one entry does to a sum (`HitsBump`,
`HitsPut`, `HitsDel`). The property is inductive once the maps are known to be
finite and the verdict a packet carries to be possible where it is (`VerdictsSound`):
a packet is in `Counted` from the moment it has a reason until its counter has it,
a step moves it from one reason to another (`StepMovesVerdict`), and a hit is given
in the step that gives the reason. What a rule let pass may be moved to
`drop_ratelimit`, which is on the same side. The tools only remove entries or write
them with no hits (`ToolsRewrite`).

### Map reads

About `BpfMap!Spec`, for any number of keys, places, any batch size and any limit
(`MapAssumption` gives types only).

| theorem | statement |
|---|---|
| `MapTypeCorrect` | `Spec => []TypeOK` |
| `ReadsImplementMapRead` | `Spec => Abstract!Spec`: every step of a read is a step of `MapRead` or a stutter |
| `ClearsAll` | `Spec => []ClearsEverything` |
| `SparesLive` | `Spec => []SparesLiveBlocks` |

The invariant adds to the types: `Phased`, which local is empty in which phase;
`Complete`, that a key of `must` is among the pairs read, or still ahead of the
walk (of the token, of the key it stands on, in the list left to look up or to
delete); `Sound`, that every pair read was there at some moment; and `Lasting`,
that a block in force since the start has no expired pair anywhere. The delicate
step is the walk: the key it stands on may go, and then everything is ahead
again, so `Complete` survives what makes the walk repeat itself. `NextIsLeast`
(from the well-foundedness of the naturals) says that the next key is the least
one ahead, hence skips nobody; `PairsAppend`, `PairsTail` and `PairsConcat` say
what the sequences of pairs contain after each step.

### The loader

About `Loader!Spec`, for any interfaces, drivers, maps and number of `fwload`
processes and loads (`LoaderAssumption`: the config map is one of the maps and the
program's name is not).

| theorem | statement |
|---|---|
| `LoaderTypeCorrect` | `Spec => []TypeOK` |
| `PinsReach` | `Spec => []PinsReachProgram` |
| `ToolsReach` | `Spec => []ToolsReachProgram` |
| `EntriesSurviveReload` | `Spec => ReloadKeepsEntries` |
| `StatusIsOfARunningProgram` | `Spec => []PinnedProgramRuns` |

`PinsReachProgram` is not inductive: a load that is under way will attach what it
holds, so the invariant says of every process that the maps it has opened are
what is pinned, unless a pin was removed meanwhile (`AdminsSane`), that attached
programs have all their maps (`ProgramsWhole`), that no two processes are at
work on an interface (`Exclusive`), and the same of a tool that is opening
(`ToolConsistent`). Removals are the only steps that separate a pin from its
holder, and `PinsRemoved` shows that each of them marks everybody it affects.

`PinnedProgramRuns` needs an invariant of its own, `Labelled`. While processes are
at work the pinned program is attached, given up, or somebody is going to attach
or unlink it (`Accountable`). The step that could break this is an attach that
replaces the pinned program on its interface; it does not, because a load
unlinks the pin before it makes its own, and the program it replaces cannot be
pinned again: numbers of loads are unique and its process has ended (`Numbered`,
`Superseded`). With two loads racing for the pin, TLC checked this invariant on
an instance with two processes before it was proved.

### Automatic blocks

About `AutoBlocker!Spec`, for any sources, verdicts, durations, caps, commands and
number of crashes (`BlockerAssumption`: at least one duration, none of them 0, and
positive strikes, ages and cleanup periods).

| theorem | statement |
|---|---|
| `BlockerTypeCorrect` | `Spec => []TypeOK` |
| `CapAlwaysHolds` | `Spec => []CapHolds` |
| `StrikesCountRecentWindows` | `Spec => [](MaxHistory > 0 => StrikesAreRecent)`; `MaxHistory = 0` is the instance that does not remember verdicts |
| `BeliefsNeverOutlast` | `Spec => BeliefsMatchKernel` |
| `DryRunsWriteNothing` | `Spec => DryRunOnlyWatches` |

The invariant `Sound` adds to the types that every entry written in a window is
counted in `issued` and that there is room for the one decided on (`Accounted`):
the cap is checked in one step and the entry written in another, and the property
counts entries, not calls. `BeliefEndsFirst` says that `until` is no later than the
kernel's deadline of an entry the controller wrote; it survives the call, which
starts the kernel's count later, a tick, which takes one from both, and a
restart, which forgets. A belief can then outlive only an entry that the operator
wrote or removed. `StrikesCountRecentWindows` needs no induction over the history:
the stretches that end in a new window are the earlier ones and that window, or
nothing (`SuffixesOfAppend`), and the window moves each surplus by one
(`SurplusOfAppend`), so the largest moves as the counter does, with 0 for the
empty stretch as its floor.

### Load tiers

About `LoadTuner!Spec`, for any tiers, thresholds and number of calm windows.

| theorem | statement |
|---|---|
| `TunerTypeCorrect` | `Spec => []TypeOK` |
| `TierAlwaysFollowsLoad` | `Spec => []TierFollowsLoad` |
| `TierRelaxesSlowly` | `Spec => RelaxesSlowly` |

The invariant `Tuned` ties `calm` to the targets that were fed: the last `calm` of
them were all below the present tier, and the very last is not above it
(`CalmIsRemembered`). A step down happens when `calm` has reached `CALM_WINDOWS`, so
the windows before it are those of the property. `RateIsTiers` says whose the rate is:
a change of tier is followed by `Apply` before anything else of the controller's, so
a controller that wrote last wrote for its present tier, and one that has not
written since it started is still at tier 0.

### Windows and verdicts

About `Window!Spec`, for any sources, packets, thresholds, timeouts and intervals.
`WindowAssumption` asks for a `SYN_FIN_RATIO` of at least 1 (the code has 40):
with 0 a source that closes everything would be called a SYN flood.

| theorem | statement |
|---|---|
| `WindowTypeCorrect` | `Spec => []TypeOK` |
| `RowsNeverOverstate` | `Spec => NeverOverstates` |
| `RowsAreExact` | `Spec => ExactWhileKept` |
| `EarnedVerdicts` | `Spec => VerdictsAreEarned` |

The invariant `Measuring` balances the books: while an entry stays, each of its
counters is the snapshot's plus what was sent since; once it was deleted, its
packets are at most those sent since (`Balanced`). In the first case
`Recreated` cannot hold and the difference is what was sent (`KeptIsExact`); in the
second it is at most the new entry's count, whether the code notices that the
entry is new or not (`NeverMore`). The other fields of a recreated entry have no
such bound, which is what the run `recreated` shows.

### Only model-checked

Liveness under fairness is beyond the proof system used here:
`OffendersAreBlocked`, `CalmEndsRelaxed`, `OperationsEnd`. Every other property of the
passing runs is proved.

## 5. Plan

Done: the data plane and the tools' operations; automatic blocks; load tiers
with racing resets and all writers of the rate; windows and verdicts; map reads and their abstract
specification; the loader; the abstract limiter that the data plane implements.
Proved: every safety property and both refinements that the passing runs check.
Left: a second clock in `AutoBlocker` (`until` is wall-clock time, the kernel's
deadline monotonic), once there is a claim about it to check.

## 6. Not modelled

* The parts of `Controller.step` are not composed in one module. They share no
  variable of the program but the order within a step: `Window` hands verdicts
  to `Blocker`, which `AutoBlocker` takes in every combination that the lists
  allow, and the load tiers use neither.
* The self-test checks structure sizes, byte order and clocks, which the models
  abstract, by means of operations that `Firewall` has.
* Struct packing, `possible_cpus`, the fields of `bpf_prog_info`, listings and the
  rest of the controller's screen are data or output and change no shared state.
  `--interval` and `--no-auto-tune` (and a dry run of the load tiers, which writes
  no rate) only remove behaviour.
* Benchmarks and scripts generate and measure traffic and are not part of the
  firewall.
