------------------------------ MODULE BpfMap --------------------------------
(***************************************************************************)
(* A pinned hash map or trie read, cleared and cleaned up by one tool      *)
(* through control/bpfmap.py while the kernel and other tools insert and   *)
(* delete: BpfMap.keys, items and _batch, one system call or one bucket at *)
(* a time, and the loops of control/firewall.py that delete what they      *)
(* found.  The blocklist is the example: a value is its deadline.          *)
(*                                                                         *)
(* A key is its place in the order of the kernel's walk.                   *)
(***************************************************************************)
EXTENDS Integers, Sequences, FiniteSets

CONSTANTS Size,         \* keys that ever occur
          MAX_ENTRIES,
          CHUNK,        \* entries of one batch
          RUNAWAY,      \* keys() gives up beyond so many (1 << 20)
          BATCH,        \* whether the kernel has batches: a set of booleans
          Ops,          \* what the tool does
          Durations,    \* of blocks; 0 is permanent
          MaxClock      \* bound: the clock stops

Keys == 1 .. Size

ASSUME MapAssumption ==
    /\ Size \in Nat /\ MAX_ENTRIES \in Nat
    /\ CHUNK \in Nat \ {0} /\ RUNAWAY \in Nat \ {0}
    /\ BATCH \subseteq BOOLEAN
    /\ Ops \subseteq {"list", "clear", "unallow", "expire"}
    /\ Durations \subseteq Nat /\ MaxClock \in Nat

VARIABLES map,      \* key -> expires_ns, or Absent
          clock,
          pc, op,   \* where the tool is, in which operation
          now,      \* ktime_ns() when it began
          cur,      \* the key, or the bucket, the walk stands on; 0 before the first
          got,      \* pairs of the batch the kernel is filling
          list,     \* pairs the walk has listed, or that are left to delete
          out,      \* pairs read
          result,   \* the keys of the last map read
          must, may, alive  \* history, see below

tool == <<pc, op, now, cur, got, list, out, result>>
history == <<must, may, alive>>
vars == <<map, clock, tool, history>>

Absent == -1
Present == {k \in Keys : map[k] # Absent}
KeysOf(pairs) == {pairs[i][1] : i \in DOMAIN pairs}

(* Mutant of Expired: without `0 <`, a permanent entry counts as expired. *)
ExpiredOrPermanent(expires, t) == expires <= t

(* 0 < expires <= now *)
Expired(expires, t) == 0 < expires /\ expires <= t

(* Firewall.is_blocked *)
InForce(expires, t) == expires = 0 \/ expires > t

Init ==
    /\ map = [k \in Keys |-> Absent] /\ clock = 0
    /\ pc = "idle" /\ op = "none" /\ now = 0 /\ cur = 0
    /\ got = <<>> /\ list = <<>> /\ out = <<>> /\ result = {}
    /\ must = {} /\ may = {} /\ alive = {}

Reading == pc \in {"batch", "walk", "lookup"}

(* must: there since the operation began; may: there at some moment of its *)
(* read; alive: in must, and in force when `expire` began.                  *)
Remember ==
    /\ must' = must \cap Present'
    /\ may' = IF Reading THEN may \cup Present' ELSE may
    /\ alive' = alive \cap Present'

-----------------------------------------------------------------------------
(* Everybody else. *)

(* E2BIG when the map is full. *)
Update(k, d) ==
    /\ k \in Present \/ Cardinality(Present) < MAX_ENTRIES
    /\ map' = [map EXCEPT ![k] = IF d = 0 THEN 0 ELSE clock + d]
    /\ Remember
    /\ UNCHANGED <<clock, tool>>

Delete(k) ==
    /\ map' = [map EXCEPT ![k] = Absent]
    /\ Remember
    /\ UNCHANGED <<clock, tool>>

Tick ==
    /\ clock < MaxClock /\ clock' = clock + 1
    /\ UNCHANGED <<map, tool, history>>

-----------------------------------------------------------------------------
(* The tool: a listing; clear_blocks, clear_states or clear_port_rules;      *)
(* the loop of fwctl reset --all over the allowlist, which deletes what a    *)
(* listing found; remove_expired_blocks.                                     *)

Emptying == op \in {"clear", "unallow"}

Begin(o) ==
    /\ pc = "idle"
    /\ op' = o /\ now' = clock
    /\ pc' = IF o = "clear" THEN "walk" ELSE "batch"
    /\ result' = {}
    /\ must' = Present /\ may' = Present
    /\ alive' = {k \in Present : o = "expire" /\ InForce(map[k], clock)}
    /\ UNCHANGED <<map, clock, cur, got, list, out>>

Rest ==
    /\ pc' = "idle" /\ op' = "none" /\ now' = 0 /\ cur' = 0
    /\ got' = <<>> /\ list' = <<>> /\ out' = <<>>
    /\ must' = {} /\ may' = {} /\ alive' = {}
    /\ UNCHANGED <<map, clock>>

(* The read is over: listings end with it, the others go on to delete. *)
Deliver(pairs) ==
    /\ result' = KeysOf(pairs)
    /\ IF op = "list" THEN Rest
       ELSE /\ pc' = "delete" /\ list' = pairs /\ out' = <<>>
            /\ got' = <<>> /\ cur' = 0 /\ may' = {}
            /\ UNCHANGED <<map, clock, op, now, must, alive>>

(* MAP_LOOKUP_BATCH, in the kernel: buckets are copied one by one, each     *)
(* under its own lock, until the next one would not fit.                    *)
CopyBucket ==
    LET b == cur + 1 IN
    /\ pc = "batch" /\ cur < Size
    /\ b \in Present => Len(got) < CHUNK
    /\ cur' = b
    /\ got' = IF b \in Present THEN Append(got, <<b, map[b]>>) ELSE got
    /\ UNCHANGED <<map, clock, pc, op, now, list, out, result, history>>

(* Mutant of Collected: the entries that come with ENOENT are not looked at. *)
CollectedUnlessLast(last) == IF last THEN out ELSE out \o got

(* out += the attr.count entries of this call *)
Collected(last) == out \o got

(* _batch: the call returns; ENOENT says that was the last one. *)
BatchReturns ==
    /\ pc = "batch"
    /\ \/ /\ cur < Size /\ cur + 1 \in Present /\ Len(got) >= CHUNK
          /\ out' = Collected(FALSE) /\ got' = <<>>
          /\ UNCHANGED <<map, clock, pc, op, now, cur, list, result, history>>
       \/ cur = Size /\ Deliver(Collected(TRUE))

(* EINVAL or ENOTSUPP from the first call: go key by key instead. *)
Unsupported ==
    /\ pc = "batch" /\ cur = 0 /\ FALSE \in BATCH
    /\ pc' = "walk"
    /\ UNCHANGED <<map, clock, op, now, cur, got, list, out, result, history>>

(* MAP_GET_NEXT_KEY: from the start if the present key is gone. *)
From == IF cur \in Present THEN cur ELSE 0
Ahead == {k \in Present : k > From}

(* Mutant of Listed: a key met again is not listed again. *)
ListedOnce(k) == IF k \in KeysOf(list) THEN list ELSE Append(list, <<k, 0>>)

Listed(k) == Append(list, <<k, 0>>)

(* Mutant of Runaway: off by one. *)
RunawayLate(l) == Len(l) > RUNAWAY + 1

Runaway(l) == Len(l) > RUNAWAY

(* keys(): one more key, or ERANGE. *)
WalkNext ==
    LET k == CHOOSE k \in Ahead : \A other \in Ahead : k <= other IN
    /\ pc = "walk" /\ Ahead # {}
    /\ IF Runaway(Listed(k)) THEN Rest /\ UNCHANGED result
       ELSE /\ list' = Listed(k) /\ cur' = k
            /\ UNCHANGED <<map, clock, pc, op, now, got, out, result, history>>

(* ENOENT: the walk is over.  items() goes on to look the keys up. *)
WalkEnds ==
    /\ pc = "walk" /\ Ahead = {}
    /\ IF op = "clear" THEN Deliver(list)
       ELSE /\ pc' = "lookup" /\ cur' = 0
            /\ UNCHANGED <<map, clock, op, now, got, list, out, result, history>>

(* "it may have gone since keys() ran" *)
Lookup ==
    LET k == Head(list)[1] IN
    /\ pc = "lookup" /\ list # <<>>
    /\ list' = Tail(list)
    /\ out' = IF k \in Present THEN Append(out, <<k, map[k]>>) ELSE out
    /\ UNCHANGED <<map, clock, pc, op, now, cur, got, result, history>>

LookupsEnd == pc = "lookup" /\ list = <<>> /\ Deliver(out)

(* Mutant of Remaining: a key that is gone already ends the loop. *)
RemainingIfFound == IF Head(list)[1] \in Present THEN Tail(list) ELSE <<>>

(* The rest of the loop; BpfMap.delete returns False for a key that is gone. *)
Remaining == Tail(list)

(* for k in keys, for e in list(...) or for k in doomed: delete(k) *)
DeleteNext ==
    LET k == Head(list)[1]
        doomed == Emptying \/ Expired(Head(list)[2], now)
    IN
    /\ pc = "delete" /\ list # <<>>
    /\ map' = IF doomed THEN [map EXCEPT ![k] = Absent] ELSE map
    /\ list' = Remaining
    /\ Remember
    /\ UNCHANGED <<clock, pc, op, now, cur, got, out, result>>

Finish == pc = "delete" /\ list = <<>> /\ Rest /\ UNCHANGED result

(* Any other error is raised and ends the tool, as does Ctrl-C. *)
Fail == pc # "idle" /\ Rest /\ UNCHANGED result

-----------------------------------------------------------------------------

Others == \/ \E k \in Keys : Delete(k) \/ \E d \in Durations : Update(k, d)
          \/ Tick

Read == CopyBucket \/ BatchReturns \/ Unsupported \/ WalkNext \/ WalkEnds
            \/ Lookup \/ LookupsEnd

Step == Read \/ DeleteNext \/ Finish

Next == Others \/ (\E o \in Ops : Begin(o)) \/ Step \/ Fail

Spec == Init /\ [][Next]_vars

(* The tool is a process of its own and is scheduled. *)
FairSpec == Spec /\ WF_vars(Step)

-----------------------------------------------------------------------------
(* The tool's locals and the map stay in their types; keys() never returns   *)
(* a list longer than its limit.                                             *)
TypeOK ==
    /\ map \in [Keys -> Nat \cup {Absent}] /\ clock \in Nat
    /\ pc \in {"idle", "batch", "walk", "lookup", "delete"}
    /\ op \in Ops \cup {"none"} /\ now \in 0 .. clock /\ cur \in 0 .. Size
    /\ got \in Seq(Keys \X Nat) /\ list \in Seq(Keys \X Nat) /\ out \in Seq(Keys \X Nat)
    /\ pc = "walk" => Len(list) <= RUNAWAY
    /\ result \subseteq Keys
    /\ must \subseteq Keys /\ may \subseteq Keys /\ alive \subseteq must

(* keys() and items(), with batches or key by key, with keys that go between *)
(* the walk and the lookup and walks that start again, read a map as MapRead *)
(* says: nothing that was there all the time is missed.                      *)
Abstract == INSTANCE MapRead WITH
    map <- Present, busy <- Reading,
    must <- IF Reading THEN must ELSE {}, may <- IF Reading THEN may ELSE {}
ReadsAreComplete == Abstract!Spec

(* "forgot N tracked sources", "removed N blocklist entries" (fwctl reset,   *)
(* reset --all, block flush): when the loop ends, no entry that was there    *)
(* when the tool began is there still, whoever inserts and deletes meanwhile.*)
ClearsEverything == Emptying /\ pc = "delete" /\ list = <<>> => must = {}

(* remove_expired_blocks: "this just frees slots".  It is never about to     *)
(* delete an entry that has been in force since it began.                    *)
SparesLiveBlocks ==
    op = "expire" /\ pc = "delete" =>
        \A i \in DOMAIN list : Expired(list[i][2], now) => list[i][1] \notin alive

(* Whatever the others do to the map, every operation ends: a walk that is   *)
(* made to start again and again runs into its limit.                        *)
OperationsEnd == pc # "idle" ~> pc = "idle"
=============================================================================
