---------------------------- MODULE AutoBlocker -----------------------------
(***************************************************************************)
(* The controller's automatic blocks: class Blocker of control/policy.py   *)
(* as control/controller.py drives it, once per window, against the host   *)
(* entries of the kernel's blocklist and next to an operator's fwctl.      *)
(*                                                                         *)
(* Time is counted in seconds and deadlines are kept as the seconds left.  *)
(* Blocker.update is one step per source, because each one makes system    *)
(* calls between which the operator and the clock go on.  The verdicts of  *)
(* a window come from outside (control/detect.py), for sources that got    *)
(* past the lists at some moment of that window.                           *)
(***************************************************************************)
EXTENDS Integers, Sequences, FiniteSets

CONSTANTS Sources,          \* source addresses
          Persistent,       \* sources flagged in every window they get through
          STRIKES, DURATIONS, MAX_PER_WINDOW,
          MAX_BLOCKLIST,
          CLEANUP_EVERY,    \* cycles between two remove_expired_blocks
          DRY_RUNS,         \* whether --dry-run may be given: a set of booleans
          ALLOW_ARGS,       \* --allow
          Commands,         \* what the operator does
          ManualDurations,  \* seconds of the operator's blocks; 0 is permanent
          MaxAge,           \* bound: seconds from the start of one window to the next
          MaxStrikes,       \* bound: strikes counted where verdicts are not remembered
          MaxCrashes,       \* bound: times the controller stops
          MaxHistory        \* bound: verdicts remembered per source

ASSUME BlockerAssumption ==
    /\ Persistent \subseteq Sources /\ ALLOW_ARGS \subseteq Sources
    /\ STRIKES \in Nat \ {0} /\ MAX_PER_WINDOW \in Nat
    /\ DURATIONS \in Seq(Nat \ {0}) /\ DURATIONS # <<>>
    /\ MAX_BLOCKLIST \in Nat /\ CLEANUP_EVERY \in Nat \ {0}
    /\ DRY_RUNS \subseteq BOOLEAN
    /\ Commands \subseteq {"allow", "unallow", "block", "unblock"}
    /\ ManualDurations \subseteq Nat
    /\ MaxAge \in Nat \ {0} /\ MaxStrikes \in Nat /\ MaxStrikes > STRIKES
    /\ MaxCrashes \in Nat /\ MaxHistory \in Nat

VARIABLES entry,     \* source -> its /32 entry in the kernel's blocklist
          allowed,   \* sources on the allowlist
          up,        \* the controller is running
          dry,       \* args.dry_run of the last one started
          strikes, offences,
          until,     \* source -> seconds for which Blocker.is_blocked holds
          window,    \* locals of Controller.step and Blocker.update
          reach,     \* source -> when it got past the lists since the last snapshot
          crashes,
          seen       \* history: source -> verdicts on it since its strikes were taken back

memory == <<strikes, offences, until, seen>>
vars == <<entry, allowed, up, dry, memory, window, reach, crashes>>

Forever == -1                        \* expires_ns = 0
NoEntry == [by |-> "none", left |-> 0]
NoOne   == "none"                    \* no source is between is_allowed and block

Live(e) == e.by # "none" /\ e.left # 0
Now(e, a) == [ip \in Sources |-> IF Live(e[ip]) \/ ip \in a THEN "never" ELSE "always"]

(* Packets of blocked and allowlisted sources leave no trace in srcstate. *)
Watch == reach' = [ip \in Sources |->
                      IF reach[ip] = Now(entry', allowed')[ip] THEN reach[ip] ELSE "partly"]

Room(ip) == \/ entry[ip].by # "none"
            \/ Cardinality({s \in Sources : entry[s].by # "none"}) < MAX_BLOCKLIST

-----------------------------------------------------------------------------
(* The process.  Nothing of Blocker is saved: a restart begins from nothing.*)

Fresh ==
    /\ strikes' = [ip \in Sources |-> 0]
    /\ offences' = [ip \in Sources |-> 0]
    /\ until' = [ip \in Sources |-> 0]
    /\ seen' = [ip \in Sources |-> <<>>]
    /\ window' = [open |-> FALSE, pending |-> <<>>, target |-> NoOne, issued |-> 0,
                  wrote |-> {}, cycle |-> 0, age |-> MaxAge, base |-> FALSE]

Init ==
    /\ entry = [ip \in Sources |-> NoEntry]
    /\ allowed = {}
    /\ up = FALSE /\ dry = FALSE
    /\ strikes = [ip \in Sources |-> 0]
    /\ offences = [ip \in Sources |-> 0]
    /\ until = [ip \in Sources |-> 0]
    /\ window = [open |-> FALSE, pending |-> <<>>, target |-> NoOne, issued |-> 0,
                 wrote |-> {}, cycle |-> 0, age |-> MaxAge, base |-> FALSE]
    /\ reach = [ip \in Sources |-> "always"]
    /\ crashes = 0 /\ seen = [ip \in Sources |-> <<>>]

Start ==
    /\ ~up
    /\ up' = TRUE /\ dry' \in DRY_RUNS
    /\ allowed' = allowed \cup ALLOW_ARGS
    /\ Fresh
    /\ UNCHANGED <<entry, crashes>>
    /\ Watch

(* Stopped by a signal or killed. *)
Die ==
    /\ up /\ crashes < MaxCrashes
    /\ up' = FALSE
    /\ crashes' = crashes + 1
    /\ UNCHANGED <<entry, allowed, dry, memory, window, reach>>

-----------------------------------------------------------------------------
(* One window. *)

(* The snapshot; verdicts: source -> flagged.  The first one is a baseline. *)
StartWindow(verdicts) ==
    /\ up /\ ~window.open /\ window.age > 0
    /\ DOMAIN verdicts \subseteq {ip \in Sources : window.base /\ reach[ip] # "never"}
    /\ \A ip \in Persistent : window.base /\ reach[ip] = "always" =>
            ip \in DOMAIN verdicts /\ verdicts[ip]
    /\ window' = [window EXCEPT !.open = TRUE, !.pending = verdicts, !.age = 0,
                                !.issued = 0, !.wrote = {}, !.base = TRUE]
    /\ reach' = Now(entry, allowed)
    /\ UNCHANGED <<entry, allowed, up, dry, memory, crashes>>

(* Verdicts are remembered where some property is about them. *)
Recall(s, verdict) == IF MaxHistory = 0 THEN s ELSE Append(s, verdict)

Done(ip) == [s \in DOMAIN window.pending \ {ip} |-> window.pending[s]]

(* Mutants of Decayed: no floor, and a clean window that wipes the history. *)
DecayedBelow(n)  == n - 1
DecayedToZero(n) == 0

Decayed(n) == IF n > 1 THEN n - 1 ELSE 0

(* A window in which the source behaved. *)
Clean(ip) ==
    /\ up /\ window.target = NoOne
    /\ ip \in DOMAIN window.pending /\ ~window.pending[ip]
    /\ strikes' = [strikes EXCEPT ![ip] = Decayed(@)]
    /\ seen' = [seen EXCEPT ![ip] = Recall(@, FALSE)]
    /\ window' = [window EXCEPT !.pending = Done(ip)]
    /\ UNCHANGED <<entry, allowed, up, dry, offences, until, reach, crashes>>

Struck(ip) ==
    IF MaxHistory > 0 \/ strikes[ip] < MaxStrikes THEN strikes[ip] + 1 ELSE strikes[ip]

(* Mutant of Believed: for ever after the first block. *)
BelievedEver(ip) == offences[ip] > 0

(* is_blocked *)
Believed(ip) == until[ip] > 0

(* Mutant of Capped: one block too many. *)
CappedLate == window.issued > MAX_PER_WINDOW

Capped == window.issued >= MAX_PER_WINDOW

(* A window in which it did not: one more strike, and if they suffice and   *)
(* no guard rail holds it back, the source is about to be blocked.           *)
Flag(ip) ==
    LET ready   == Struck(ip) >= STRIKES
        exempt  == Believed(ip) \/ ip \in allowed
        blocks  == ready /\ ~exempt /\ ~Capped
    IN
    /\ up /\ window.target = NoOne
    /\ ip \in DOMAIN window.pending /\ window.pending[ip]
    /\ strikes' = [strikes EXCEPT ![ip] = IF ready /\ exempt THEN 0 ELSE Struck(ip)]
    /\ seen' = [seen EXCEPT ![ip] = IF ready /\ exempt THEN <<>> ELSE Recall(@, TRUE)]
    /\ window' = [window EXCEPT !.pending = Done(ip),
                                !.target = IF blocks THEN ip ELSE NoOne]
    /\ UNCHANGED <<entry, allowed, up, dry, offences, until, reach, crashes>>

(* DURATIONS[min(n, len(DURATIONS) - 1)], from 1 here. *)
Duration(n) == DURATIONS[IF n < Len(DURATIONS) THEN n + 1 ELSE Len(DURATIONS)]

(* fw.block, then the bookkeeping.  `until` counts from the start of the    *)
(* window, the kernel's deadline from this call.                            *)
Issue ==
    LET ip == window.target
        d  == Duration(offences[ip])
    IN
    /\ up /\ ip # NoOne
    /\ dry \/ Room(ip)
    /\ entry' = IF dry THEN entry ELSE [entry EXCEPT ![ip] = [by |-> "auto", left |-> d]]
    /\ offences' = [offences EXCEPT ![ip] = IF @ < Len(DURATIONS) THEN @ + 1 ELSE @]
    /\ until' = [until EXCEPT ![ip] = IF d > window.age THEN d - window.age ELSE 0]
    /\ strikes' = [strikes EXCEPT ![ip] = 0]
    /\ seen' = [seen EXCEPT ![ip] = <<>>]
    /\ window' = [window EXCEPT !.target = NoOne, !.issued = @ + 1,
                                !.wrote = @ \cup {ip}]
    /\ UNCHANGED <<allowed, up, dry, crashes>>
    /\ Watch

(* The trie is full: the OSError ends the controller. *)
IssueFails ==
    /\ up /\ window.target # NoOne
    /\ ~dry /\ ~Room(window.target)
    /\ up' = FALSE
    /\ UNCHANGED <<entry, allowed, dry, memory, window, reach, crashes>>

(* Mutant of Kept: an entry in its last second counts as expired. *)
KeptUnlessEnding(e) == Live(e) /\ e.left # 1

(* remove_expired_blocks leaves it alone. *)
Kept(e) == Live(e)

(* Mutant of Cleans: a dry run cleans up as well. *)
CleansAlways == window.cycle = 0

(* Every few cycles expired entries are removed. *)
Cleans == window.cycle = 0 /\ ~dry

(* The rest of Controller.step. *)
EndWindow ==
    /\ up /\ window.open /\ window.target = NoOne /\ DOMAIN window.pending = {}
    /\ entry' = IF Cleans
                THEN [ip \in Sources |-> IF Kept(entry[ip]) THEN entry[ip] ELSE NoEntry]
                ELSE entry
    /\ window' = [window EXCEPT !.open = FALSE, !.cycle = (@ + 1) % CLEANUP_EVERY]
    /\ UNCHANGED <<allowed, up, dry, memory, reach, crashes>>

-----------------------------------------------------------------------------
(* The operator. *)

Allow(ip) ==
    /\ "allow" \in Commands
    /\ allowed' = allowed \cup {ip}
    /\ UNCHANGED <<entry, up, dry, memory, window, crashes>>
    /\ Watch

Unallow(ip) ==
    /\ "unallow" \in Commands
    /\ allowed' = allowed \ {ip}
    /\ UNCHANGED <<entry, up, dry, memory, window, crashes>>
    /\ Watch

Block(ip, d) ==
    /\ "block" \in Commands
    /\ ip \notin allowed /\ Room(ip)
    /\ entry' = [entry EXCEPT ![ip] = [by |-> "manual",
                                       left |-> IF d = 0 THEN Forever ELSE d]]
    /\ UNCHANGED <<allowed, up, dry, memory, window, crashes>>
    /\ Watch

Unblock(ip) ==
    /\ "unblock" \in Commands
    /\ entry' = [entry EXCEPT ![ip] = NoEntry]
    /\ UNCHANGED <<allowed, up, dry, memory, window, crashes>>
    /\ Watch

(* A second passes. *)
Down(n) == IF n > 0 THEN n - 1 ELSE n

Tick ==
    /\ window.age < MaxAge \/ ~up
    /\ entry' = [ip \in Sources |-> [entry[ip] EXCEPT !.left = Down(@)]]
    /\ until' = [ip \in Sources |-> Down(until[ip])]
    /\ window' = [window EXCEPT !.age = IF @ < MaxAge THEN @ + 1 ELSE @]
    /\ UNCHANGED <<allowed, up, dry, strikes, offences, seen, crashes>>
    /\ Watch

(* Controller.draw: what the screen says of a source. *)
Status(ip) ==
    IF ip \in allowed THEN "allowlisted"
    ELSE IF Live(entry[ip]) THEN "BLOCKED"
    ELSE IF Believed(ip) THEN "would be blocked"
    ELSE "verdict"

Judge == \E ip \in Sources : Clean(ip) \/ Flag(ip)

Operate == \E ip \in Sources : \/ Allow(ip) \/ Unallow(ip) \/ Unblock(ip)
                               \/ \E d \in ManualDurations : Block(ip, d)

Windows == UNION {[D -> BOOLEAN] : D \in SUBSET Sources}

Next == \/ Start \/ Die \/ Tick
        \/ \E verdicts \in Windows : StartWindow(verdicts)
        \/ Judge \/ Issue \/ IssueFails \/ EndWindow
        \/ Operate

Spec == Init /\ [][Next]_vars

(* Controller.run: the loop goes on, each window ends, and time passes. *)
Fairness ==
    /\ WF_vars(Start) /\ WF_vars(Tick)
    /\ WF_vars(\E verdicts \in Windows : StartWindow(verdicts))
    /\ WF_vars(Judge) /\ WF_vars(Issue) /\ WF_vars(EndWindow)

FairSpec == Spec /\ Fairness

-----------------------------------------------------------------------------
(* Blocker's tables, the kernel's entries and the window keep their types,  *)
(* and a source is about to be blocked only inside a window, with enough    *)
(* strikes.                                                                 *)
TypeOK ==
    /\ entry \in [Sources -> [by : {"none", "manual", "auto"}, left : Nat \cup {Forever}]]
    /\ allowed \subseteq Sources
    /\ up \in BOOLEAN
    /\ strikes \in [Sources -> Nat]
    /\ offences \in [Sources -> 0 .. Len(DURATIONS)]
    /\ until \in [Sources -> Nat]
    /\ window.pending \in Windows
    /\ window.issued \in Nat /\ window.age \in 0 .. MaxAge
    /\ window.cycle \in 0 .. CLEANUP_EVERY - 1
    /\ window.target # NoOne => window.open /\ strikes[window.target] >= STRIKES
    /\ reach \in [Sources -> {"never", "partly", "always"}]
    /\ crashes \in 0 .. MaxCrashes

Surplus(s)  == Cardinality({i \in DOMAIN s : s[i]}) - Cardinality({i \in DOMAIN s : ~s[i]})
Suffixes(s) == {SubSeq(s, i, Len(s)) : i \in 1 .. Len(s) + 1}

(* Blocker's docstring: "a source has to be flagged in most recent windows, *)
(* but a single dip does not undo its history".  The strikes of a source    *)
(* are the largest surplus of flagged over clean windows in any stretch up  *)
(* to now, so a block always follows a stretch with STRIKES more flagged    *)
(* windows than clean ones, and any such stretch leads to one.              *)
StrikesAreRecent ==
    \A ip \in Sources : up =>
        LET surpluses == {Surplus(s) : s \in Suffixes(seen[ip])} IN
        strikes[ip] \in surpluses /\ \A n \in surpluses : n <= strikes[ip]

(* "at most MAX_PER_WINDOW new blocks per second, so a bad rule can't block *)
(* the whole network at once": counted on the blocklist, not on `issued`.   *)
CapHolds == Cardinality(window.wrote) <= MAX_PER_WINDOW

(* Every block takes STRIKES new flagged windows, so this many sources do    *)
(* not use up the cap in every window from the one that waits; with more,    *)
(* the order of the verdicts can postpone a source for ever.                 *)
CapSuffices == Cardinality(Sources) <= MAX_PER_WINDOW * STRIKES

(* No block of the controller fails: OSError would end it, strikes and all.  *)
BlocklistSuffices == Cardinality(Sources) <= MAX_BLOCKLIST

(* As long as the cap and the blocklist suffice for the sources there are,   *)
(* one that is flagged in every window it gets through is blocked (or        *)
(* allowed) again and again, although the other sources' blocks may come     *)
(* first in any window and the operator undoes blocks at any time.           *)
OffendersAreBlocked ==
    CapSuffices /\ BlocklistSuffices =>
        \A ip \in Persistent : []<>(Live(entry[ip]) \/ ip \in allowed)

(* Blocker.is_blocked: "True while a block we issued ... lasts", and what   *)
(* the screen makes of it, "only happens in a dry run".  The                *)
(* deadline it compares is counted from the start of the window, the        *)
(* kernel's from the system call; entries are cleaned up, blocks repeated   *)
(* and controllers restarted in between.  No step but the operator's makes  *)
(* the controller believe in a block that the kernel does not enforce: an   *)
(* Unblock, or the end of a block the operator put in its place.            *)
Mistaken(ip) == up /\ ~dry /\ Status(ip) = "would be blocked"

BeliefStep ==
    \A ip \in Sources : Mistaken(ip)' /\ ~Mistaken(ip) =>
        entry[ip].by = "manual" \/ window' = window
BeliefsMatchKernel == [][BeliefStep]_vars

(* controller.py --dry-run: "show decisions but never write to the maps":   *)
(* during a dry run every change of who is listed in the blocklist is the   *)
(* operator's, although Blocker keeps its books as if it had blocked.       *)
DryRunStep ==
    dry /\ up => \A ip \in Sources :
        entry'[ip].by # entry[ip].by => window' = window
DryRunOnlyWatches == [][DryRunStep]_vars
=============================================================================
