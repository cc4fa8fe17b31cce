------------------------- MODULE AutoBlockerProofs --------------------------
(***************************************************************************)
(* The automatic blocks, for any sources, strikes, durations and caps, any *)
(* number of crashes and whatever the operator does: the cap counts every  *)
(* entry written, the controller's beliefs do not outlast the entries they *)
(* are about, and a dry run writes nothing.                                *)
(***************************************************************************)
EXTENDS AutoBlocker, TLAPS, FiniteSetTheorems, SequenceTheorems

-----------------------------------------------------------------------------
(* The inductive invariant. *)

(* Only the operator's blocks are permanent. *)
Entry == [by : {"none", "manual"}, left : Nat \cup {Forever}] \cup [by : {"auto"}, left : Nat]

WindowType ==
    [open : BOOLEAN, pending : Windows, target : Sources \cup {NoOne}, issued : Nat,
     wrote : SUBSET Sources, cycle : 0 .. CLEANUP_EVERY - 1, age : 0 .. MaxAge,
     base : BOOLEAN]

Types ==
    /\ entry \in [Sources -> Entry] /\ allowed \subseteq Sources
    /\ up \in BOOLEAN /\ dry \in BOOLEAN
    /\ strikes \in [Sources -> Nat]
    /\ offences \in [Sources -> 0 .. Len(DURATIONS)]
    /\ until \in [Sources -> Nat]
    /\ window \in WindowType
    /\ reach \in [Sources -> {"never", "partly", "always"}]
    /\ crashes \in 0 .. MaxCrashes

(* Blocker.update works inside a window, on a source with enough strikes. *)
InWindow ==
    /\ DOMAIN window.pending # {} => window.open
    /\ window.target # NoOne => window.open /\ strikes[window.target] >= STRIKES

(* Every entry written in this window is counted in issued, and there is     *)
(* room for the one about to be written.                                     *)
Accounted ==
    /\ IsFiniteSet(window.wrote) /\ Cardinality(window.wrote) <= window.issued
    /\ window.issued <= MAX_PER_WINDOW
    /\ window.target # NoOne => window.issued < MAX_PER_WINDOW

(* The controller stops believing in a block before the kernel lifts it. *)
BeliefEndsFirst ==
    up /\ ~dry => \A ip \in Sources :
                      entry[ip].by = "auto" => until[ip] <= entry[ip].left

Sound == Types /\ InWindow /\ Accounted /\ BeliefEndsFirst

-----------------------------------------------------------------------------
(* Types of what the actions compute. *)

LEMMA WatchType ==
    ASSUME reach \in [Sources -> {"never", "partly", "always"}], Watch
    PROVE  reach' \in [Sources -> {"never", "partly", "always"}]
  BY DEF Watch

LEMMA DoneType ==
    ASSUME window.pending \in Windows, NEW ip
    PROVE  Done(ip) \in Windows /\ DOMAIN Done(ip) \subseteq DOMAIN window.pending
  <1>1. PICK D \in SUBSET Sources : window.pending \in [D -> BOOLEAN]
    BY DEF Windows
  <1>2. Done(ip) \in [D \ {ip} -> BOOLEAN] /\ D \ {ip} \in SUBSET Sources
    BY <1>1 DEF Done
  <1> QED BY <1>1, <1>2 DEF Windows

LEMMA DurationType ==
    ASSUME NEW n \in 0 .. Len(DURATIONS)
    PROVE  Duration(n) \in Nat \ {0}
  <1>1. Len(DURATIONS) \in Nat \ {0} /\ DURATIONS \in Seq(Nat \ {0})
    BY BlockerAssumption, EmptySeq
  <1>2. (IF n < Len(DURATIONS) THEN n + 1 ELSE Len(DURATIONS)) \in 1 .. Len(DURATIONS)
    BY <1>1
  <1>3. \A i \in 1 .. Len(DURATIONS) : DURATIONS[i] \in Nat \ {0}
    BY <1>1, ElementOfSeq
  <1> QED BY <1>2, <1>3 DEF Duration

(* The window a controller starts with. *)
FreshWindow == [open |-> FALSE, pending |-> <<>>, target |-> NoOne, issued |-> 0,
                wrote |-> {}, cycle |-> 0, age |-> MaxAge, base |-> FALSE]

LEMMA FreshWindowType ==
    /\ FreshWindow \in WindowType
    /\ DOMAIN FreshWindow.pending = {} /\ FreshWindow.target = NoOne
    /\ FreshWindow.wrote = {} /\ FreshWindow.issued = 0
  <1>1. <<>> \in Windows
    <2>1. <<>> \in [{} -> BOOLEAN]
      OBVIOUS
    <2> QED BY <2>1 DEF Windows
  <1>2. 0 \in 0 .. CLEANUP_EVERY - 1 /\ MaxAge \in 0 .. MaxAge
    BY BlockerAssumption
  <1> QED BY <1>1, <1>2 DEF FreshWindow, WindowType

-----------------------------------------------------------------------------
(* One lemma per process: the controller's start and end, its window, the    *)
(* operator, and the clock.                                                  *)

LEMMA ProcessSound ==
    ASSUME Sound, Start \/ Die \/ IssueFails
    PROVE  Sound'
  <1> USE DEF Sound, memory
  <1>1. CASE Start
    <2>1. /\ window' = FreshWindow
          /\ strikes' = [ip \in Sources |-> 0] /\ offences' = [ip \in Sources |-> 0]
          /\ until' = [ip \in Sources |-> 0]
      BY <1>1 DEF Start, Fresh, FreshWindow
    <2>2. up' = TRUE /\ dry' \in BOOLEAN /\ allowed' \subseteq Sources
          /\ UNCHANGED <<entry, crashes>> /\ Watch
      BY <1>1, BlockerAssumption DEF Start, Types
    <2>3. 0 \in Nat /\ 0 \in 0 .. Len(DURATIONS)
      BY BlockerAssumption, LenProperties
    <2>4. Types'
      BY <2>1, <2>2, <2>3, FreshWindowType, WatchType DEF Types
    <2>5. InWindow'
      BY <2>1, FreshWindowType DEF InWindow
    <2>6. Accounted'
      BY <2>1, FreshWindowType, FS_EmptySet, BlockerAssumption DEF Accounted
    <2>7. BeliefEndsFirst'
      <3>1. \A ip \in Sources : entry[ip].by = "auto" => entry[ip].left \in Nat
        BY DEF Types, Entry
      <3>2. \A ip \in Sources : entry[ip].by = "auto" => 0 <= entry[ip].left
        BY <3>1
      <3> QED BY <2>1, <2>2, <3>2 DEF BeliefEndsFirst
    <2> QED BY <2>4, <2>5, <2>6, <2>7
  <1>2. CASE Die
    <2>1. crashes' \in 0 .. MaxCrashes /\ ~up'
      BY <1>2, BlockerAssumption DEF Die, Types
    <2>2. UNCHANGED <<entry, allowed, dry, strikes, offences, until, window, reach>>
          /\ up' \in BOOLEAN
      BY <1>2 DEF Die
    <2> QED BY <2>1, <2>2 DEF Types, InWindow, Accounted, BeliefEndsFirst
  <1>3. CASE IssueFails
    <2>1. UNCHANGED <<entry, allowed, dry, strikes, offences, until, window, reach, crashes>>
          /\ up' = FALSE
      BY <1>3 DEF IssueFails
    <2> QED BY <2>1 DEF Types, InWindow, Accounted, BeliefEndsFirst
  <1> QED BY <1>1, <1>2, <1>3

LEMMA WindowSound ==
    ASSUME Sound,
           \/ \E verdicts \in Windows : StartWindow(verdicts)
           \/ Judge \/ EndWindow
    PROVE  Sound'
  <1> USE DEF Sound, memory
  <1>1. window \in WindowType /\ window.pending \in Windows
    BY DEF Types, WindowType
  <1>2. ASSUME NEW verdicts \in Windows, StartWindow(verdicts) PROVE Sound'
    <2>1. /\ window' = [window EXCEPT !.open = TRUE, !.pending = verdicts, !.age = 0,
                                      !.issued = 0, !.wrote = {}, !.base = TRUE]
          /\ ~window.open
          /\ UNCHANGED <<entry, allowed, up, dry, strikes, offences, until, crashes>>
          /\ reach' = Now(entry, allowed)
      BY <1>2 DEF StartWindow
    <2>2. /\ window' \in WindowType /\ window'.open /\ window'.target = window.target
          /\ window'.wrote = {} /\ window'.issued = 0
      <3>1. 0 \in 0 .. MaxAge /\ 0 \in Nat /\ {} \in SUBSET Sources
        BY BlockerAssumption
      <3> QED BY <1>1, <2>1, <3>1 DEF WindowType
    <2>3. window.target = NoOne
      BY <2>1 DEF InWindow
    <2>4. reach' \in [Sources -> {"never", "partly", "always"}]
      BY <2>1 DEF Now
    <2>5. Types'
      BY <2>1, <2>2, <2>4 DEF Types
    <2>6. InWindow' /\ BeliefEndsFirst'
      BY <2>1, <2>2, <2>3 DEF InWindow, BeliefEndsFirst
    <2>7. Accounted'
      BY <2>2, <2>3, FS_EmptySet, BlockerAssumption DEF Accounted
    <2> QED BY <2>5, <2>6, <2>7
  <1>3. ASSUME NEW ip \in Sources, Clean(ip) PROVE Sound'
    <2>1. /\ window' = [window EXCEPT !.pending = Done(ip)]
          /\ window.target = NoOne /\ ip \in DOMAIN window.pending
          /\ strikes' = [strikes EXCEPT ![ip] = Decayed(@)]
          /\ UNCHANGED <<entry, allowed, up, dry, offences, until, reach, crashes>>
      BY <1>3 DEF Clean
    <2>2. /\ window' \in WindowType /\ window'.pending = Done(ip)
          /\ window'.open = window.open /\ window'.target = window.target
          /\ window'.wrote = window.wrote /\ window'.issued = window.issued
      BY <1>1, <2>1, DoneType DEF WindowType
    <2>3. strikes' \in [Sources -> Nat]
      <3>1. \A n \in Nat : Decayed(n) \in Nat
        BY DEF Decayed
      <3> QED BY <2>1, <3>1 DEF Types
    <2>4. Types'
      BY <2>1, <2>2, <2>3 DEF Types
    <2>5. InWindow' /\ Accounted' /\ BeliefEndsFirst'
      BY <2>1, <2>2 DEF InWindow, Accounted, BeliefEndsFirst
    <2> QED BY <2>4, <2>5
  <1>4. ASSUME NEW ip \in Sources, Flag(ip) PROVE Sound'
    <2> DEFINE ready  == Struck(ip) >= STRIKES
               exempt == Believed(ip) \/ ip \in allowed
               blocks == ready /\ ~exempt /\ ~Capped
    <2>1. /\ window' = [window EXCEPT !.pending = Done(ip),
                                      !.target = IF blocks THEN ip ELSE NoOne]
          /\ window.target = NoOne /\ ip \in DOMAIN window.pending
          /\ strikes' = [strikes EXCEPT ![ip] = IF ready /\ exempt THEN 0 ELSE Struck(ip)]
          /\ UNCHANGED <<entry, allowed, up, dry, offences, until, reach, crashes>>
      BY <1>4 DEF Flag
    <2>2. Struck(ip) \in Nat
      BY BlockerAssumption DEF Struck, Types
    <2>3. /\ strikes' \in [Sources -> Nat]
          /\ blocks => strikes'[ip] = Struck(ip)
      BY <2>1, <2>2, BlockerAssumption DEF Types
    <2> HIDE DEF exempt
    <2>4. /\ window' \in WindowType /\ window'.pending = Done(ip)
          /\ window'.open = window.open /\ window'.target = IF blocks THEN ip ELSE NoOne
          /\ window'.wrote = window.wrote /\ window'.issued = window.issued
      BY <1>1, <2>1, DoneType DEF WindowType
    <2>5. window.open
      BY <2>1 DEF InWindow
    <2>6. Types'
      BY <2>1, <2>3, <2>4 DEF Types
    <2>7. InWindow'
      BY <2>3, <2>4, <2>5 DEF InWindow
    <2>8. Accounted'
      <3>1. blocks => window.issued < MAX_PER_WINDOW
        BY <1>1, BlockerAssumption DEF Capped, WindowType
      <3> HIDE DEF blocks
      <3> QED BY <2>4, <3>1 DEF Accounted
    <2>9. BeliefEndsFirst'
      BY <2>1 DEF BeliefEndsFirst
    <2> QED BY <2>6, <2>7, <2>8, <2>9
  <1>5. ASSUME EndWindow PROVE Sound'
    <2>1. /\ window' = [window EXCEPT !.open = FALSE, !.cycle = (@ + 1) % CLEANUP_EVERY]
          /\ window.target = NoOne /\ DOMAIN window.pending = {}
          /\ UNCHANGED <<allowed, up, dry, strikes, offences, until, reach, crashes>>
      BY <1>5 DEF EndWindow
    <2>2. /\ window' \in WindowType /\ window'.pending = window.pending
          /\ window'.target = window.target
          /\ window'.wrote = window.wrote /\ window'.issued = window.issued
      <3>1. (window.cycle + 1) % CLEANUP_EVERY \in 0 .. CLEANUP_EVERY - 1
        <4>1. window.cycle \in Nat /\ CLEANUP_EVERY \in Nat \ {0}
          BY <1>1, BlockerAssumption DEF WindowType
        <4> QED BY <4>1
      <3> QED BY <1>1, <2>1, <3>1 DEF WindowType
    <2>3. /\ \A ip \in Sources : entry'[ip] \in {entry[ip], NoEntry}
          /\ entry' \in [Sources -> Entry]
      <3>1. NoEntry \in Entry
        BY DEF NoEntry, Entry
      <3> QED BY <1>5, <3>1 DEF EndWindow, Types
    <2>4. Types'
      BY <2>1, <2>2, <2>3 DEF Types
    <2>5. BeliefEndsFirst'
      BY <2>1, <2>3 DEF BeliefEndsFirst, NoEntry
    <2>6. InWindow' /\ Accounted'
      BY <2>1, <2>2 DEF InWindow, Accounted
    <2> QED BY <2>4, <2>5, <2>6
  <1> QED BY <1>2, <1>3, <1>4, <1>5 DEF Judge

(* A block is counted in `issued` and in `wrote`, and the kernel's deadline  *)
(* is not before the controller's.                                           *)
LEMMA IssueSound ==
    ASSUME Sound, Issue
    PROVE  Sound'
  <1> DEFINE ip == window.target
             d  == Duration(offences[ip])
  <1> USE DEF Sound
  <1>1. window \in WindowType /\ ip \in Sources
    BY DEF Types, WindowType, Issue
  <1>2. d \in Nat \ {0}
    BY <1>1, DurationType DEF Types
  <1> HIDE DEF d
  <1>3. /\ entry' = IF dry THEN entry ELSE [entry EXCEPT ![ip] = [by |-> "auto", left |-> d]]
        /\ offences' = [offences EXCEPT ![ip] = IF @ < Len(DURATIONS) THEN @ + 1 ELSE @]
        /\ until' = [until EXCEPT ![ip] = IF d > window.age THEN d - window.age ELSE 0]
        /\ strikes' = [strikes EXCEPT ![ip] = 0]
        /\ window' = [window EXCEPT !.target = NoOne, !.issued = @ + 1,
                                    !.wrote = @ \cup {ip}]
        /\ UNCHANGED <<allowed, up, dry, crashes>> /\ Watch
    BY DEF Issue, d
  <1>4. /\ window.age \in Nat /\ window.issued \in Nat /\ window.wrote \in SUBSET Sources
        /\ window.issued + 1 \in Nat /\ window.wrote \cup {ip} \in SUBSET Sources
        /\ NoOne \in Sources \cup {NoOne}
    BY <1>1, BlockerAssumption DEF WindowType
  <1>5. /\ window' \in WindowType /\ window'.pending = window.pending
        /\ window'.open = window.open /\ window'.target = NoOne
        /\ window'.wrote = window.wrote \cup {ip} /\ window'.issued = window.issued + 1
    <2> DEFINE n == window.issued + 1
               w == window.wrote \cup {ip}
    <2>1. window' = [window EXCEPT !.target = NoOne, !.issued = n, !.wrote = w]
      BY <1>3
    <2>2. n \in Nat /\ w \in SUBSET Sources
      BY <1>4
    <2> HIDE DEF n, w, ip
    <2>3. /\ window' \in WindowType /\ window'.pending = window.pending
          /\ window'.open = window.open /\ window'.target = NoOne
          /\ window'.wrote = w /\ window'.issued = n
      BY <1>1, <1>4, <2>1, <2>2 DEF WindowType
    <2> QED BY <2>3 DEF n, w
  <1>6. Types'
    <2>1. [by |-> "auto", left |-> d] \in Entry
      BY <1>2 DEF Entry
    <2>2. entry' \in [Sources -> Entry]
      BY <1>1, <1>3, <2>1 DEF Types
    <2>3. offences' \in [Sources -> 0 .. Len(DURATIONS)]
      <3>1. Len(DURATIONS) \in Nat
        BY BlockerAssumption, LenProperties
      <3>2. \A n \in 0 .. Len(DURATIONS) :
                (IF n < Len(DURATIONS) THEN n + 1 ELSE n) \in 0 .. Len(DURATIONS)
        BY <3>1
      <3> QED BY <1>1, <1>3, <3>2 DEF Types
    <2>4. until' \in [Sources -> Nat]
      <3>1. (IF d > window.age THEN d - window.age ELSE 0) \in Nat
        BY <1>2, <1>4
      <3> QED BY <1>1, <1>3, <3>1 DEF Types
    <2>5. strikes' \in [Sources -> Nat]
      <3>1. 0 \in Nat
        BY BlockerAssumption
      <3> QED BY <1>1, <1>3, <3>1 DEF Types
    <2>6. reach' \in [Sources -> {"never", "partly", "always"}]
      BY <1>3, WatchType DEF Types
    <2> QED BY <1>3, <1>5, <2>2, <2>3, <2>4, <2>5, <2>6 DEF Types
  <1>7. InWindow'
    BY <1>5 DEF InWindow
  <1>8. Accounted'
    <2>1. /\ IsFiniteSet(window.wrote) /\ Cardinality(window.wrote) <= window.issued
          /\ window.issued < MAX_PER_WINDOW
      BY DEF Accounted, Issue
    <2>2. /\ IsFiniteSet(window.wrote \cup {ip})
          /\ Cardinality(window.wrote \cup {ip}) <= Cardinality(window.wrote) + 1
          /\ Cardinality(window.wrote) \in Nat
          /\ Cardinality(window.wrote \cup {ip}) \in Nat
      <3>1. IsFiniteSet(window.wrote \cup {ip})
        BY <2>1, FS_AddElement
      <3>2. /\ Cardinality(window.wrote) \in Nat
            /\ Cardinality(window.wrote \cup {ip}) \in Nat
        BY <2>1, <3>1, FS_CardinalityType
      <3>3. \/ Cardinality(window.wrote \cup {ip}) = Cardinality(window.wrote)
            \/ Cardinality(window.wrote \cup {ip}) = Cardinality(window.wrote) + 1
        BY <2>1, FS_AddElement
      <3> QED BY <3>1, <3>2, <3>3
    <2>3. /\ Cardinality(window.wrote \cup {ip}) <= window.issued + 1
          /\ window.issued + 1 <= MAX_PER_WINDOW
      BY <1>4, <2>1, <2>2, BlockerAssumption
    <2> QED BY <1>5, <2>2, <2>3 DEF Accounted
  <1>9. BeliefEndsFirst'
    <2> SUFFICES ASSUME up, ~dry, NEW s \in Sources, entry'[s].by = "auto"
                 PROVE  until'[s] <= entry'[s].left
      BY <1>3 DEF BeliefEndsFirst
    <2>1. CASE s = ip
      <3>1. entry'[s].left = d
        BY <1>1, <1>3, <2>1 DEF Types
      <3>2. until'[s] = IF d > window.age THEN d - window.age ELSE 0
        BY <1>1, <1>3, <2>1 DEF Types
      <3> QED BY <1>2, <1>4, <3>1, <3>2
    <2>2. CASE s # ip
      <3>1. entry'[s] = entry[s] /\ until'[s] = until[s]
        BY <1>1, <1>3, <2>2 DEF Types
      <3> QED BY <3>1 DEF BeliefEndsFirst
    <2> QED BY <2>1, <2>2
  <1> QED BY <1>6, <1>7, <1>8, <1>9

LEMMA OperatorSound ==
    ASSUME Sound, Operate
    PROVE  Sound'
  <1> USE DEF Sound, memory
  <1>1. UNCHANGED <<up, dry, strikes, offences, until, window, crashes>> /\ Watch
    BY DEF Operate, Allow, Unallow, Unblock, Block
  <1>2. allowed' \subseteq Sources
    BY DEF Operate, Allow, Unallow, Unblock, Block, Types
  <1>3. /\ entry' \in [Sources -> Entry]
        /\ \A s \in Sources : entry'[s] = entry[s] \/ entry'[s].by # "auto"
    <2>1. ASSUME NEW ip \in Sources, NEW e \in Entry, e.by # "auto",
                 entry' = [entry EXCEPT ![ip] = e]
          PROVE  /\ entry' \in [Sources -> Entry]
                 /\ \A s \in Sources : entry'[s] = entry[s] \/ entry'[s].by # "auto"
      BY <2>1 DEF Types
    <2>2. NoEntry \in Entry /\ NoEntry.by # "auto"
      BY DEF NoEntry, Entry
    <2>3. \A d \in ManualDurations :
              LET e == [by |-> "manual", left |-> IF d = 0 THEN Forever ELSE d]
              IN  e \in Entry /\ e.by # "auto"
      BY BlockerAssumption DEF Entry
    <2>4. CASE \E ip \in Sources : Allow(ip) \/ Unallow(ip)
      BY <2>4 DEF Allow, Unallow, Types
    <2>5. CASE \E ip \in Sources : Unblock(ip)
      BY <2>1, <2>2, <2>5 DEF Unblock
    <2>6. ASSUME NEW ip \in Sources, NEW d \in ManualDurations, Block(ip, d)
          PROVE  /\ entry' \in [Sources -> Entry]
                 /\ \A s \in Sources : entry'[s] = entry[s] \/ entry'[s].by # "auto"
      BY <2>1, <2>3, <2>6 DEF Block
    <2> QED BY <2>4, <2>5, <2>6 DEF Operate
  <1>4. Types'
    BY <1>1, <1>2, <1>3, WatchType DEF Types
  <1>5. BeliefEndsFirst'
    BY <1>1, <1>3 DEF BeliefEndsFirst
  <1>6. InWindow' /\ Accounted'
    BY <1>1 DEF InWindow, Accounted
  <1> QED BY <1>4, <1>5, <1>6

(* What a second does to an entry. *)
LEMMA SecondPasses ==
    ASSUME Types, Tick, NEW ip \in Sources
    PROVE  /\ entry[ip] \in Entry /\ entry'[ip] \in Entry
           /\ entry'[ip].by = entry[ip].by
           /\ entry'[ip].left = Down(entry[ip].left)
           /\ until[ip] \in Nat /\ until'[ip] = Down(until[ip])
  <1>1. entry[ip] \in Entry /\ until[ip] \in Nat
    BY DEF Types
  <1>2. entry'[ip] = [entry[ip] EXCEPT !.left = Down(@)] /\ until'[ip] = Down(until[ip])
    BY DEF Tick
  <1>3. /\ \A n \in Nat : Down(n) \in Nat
        /\ \A n \in Nat \cup {Forever} : Down(n) \in Nat \cup {Forever}
    BY DEF Down, Forever
  <1> QED BY <1>1, <1>2, <1>3 DEF Entry

LEMMA TickSound ==
    ASSUME Sound, Tick
    PROVE  Sound'
  <1> USE DEF Sound
  <1>1. window \in WindowType
    BY DEF Types
  <1>2. /\ window' = [window EXCEPT !.age = IF @ < MaxAge THEN @ + 1 ELSE @]
        /\ UNCHANGED <<allowed, up, dry, strikes, offences, seen, crashes>> /\ Watch
    BY DEF Tick
  <1>3. /\ window' \in WindowType /\ window'.pending = window.pending
        /\ window'.open = window.open /\ window'.target = window.target
        /\ window'.wrote = window.wrote /\ window'.issued = window.issued
    <2>1. (IF window.age < MaxAge THEN window.age + 1 ELSE window.age) \in 0 .. MaxAge
      <3>1. window.age \in 0 .. MaxAge /\ MaxAge \in Nat
        BY <1>1, BlockerAssumption DEF WindowType
      <3> QED BY <3>1
    <2> QED BY <1>1, <1>2, <2>1 DEF WindowType
  <1>4. entry' \in [Sources -> Entry] /\ until' \in [Sources -> Nat]
    <2>1. /\ \A ip \in Sources : entry'[ip] \in Entry
          /\ \A ip \in Sources : until'[ip] \in Nat
      BY SecondPasses DEF Down
    <2> QED BY <2>1 DEF Tick
  <1>5. Types'
    BY <1>2, <1>3, <1>4, WatchType DEF Types
  <1>6. InWindow' /\ Accounted'
    BY <1>2, <1>3 DEF InWindow, Accounted
  <1>7. BeliefEndsFirst'
    <2> SUFFICES ASSUME up, ~dry, NEW ip \in Sources, entry'[ip].by = "auto"
                 PROVE  until'[ip] <= entry'[ip].left
      BY <1>2 DEF BeliefEndsFirst
    <2>1. /\ entry[ip] \in Entry /\ entry[ip].by = "auto"
          /\ entry'[ip].left = Down(entry[ip].left)
          /\ until[ip] \in Nat /\ until'[ip] = Down(until[ip])
      BY SecondPasses
    <2>2. entry[ip].left \in Nat /\ until[ip] <= entry[ip].left
      BY <2>1 DEF Entry, BeliefEndsFirst
    <2> QED BY <2>1, <2>2 DEF Down
  <1> QED BY <1>5, <1>6, <1>7

-----------------------------------------------------------------------------
(* Sound holds in every reachable state. *)
THEOREM BlockerInvariant == Spec => []Sound
  <1>1. Init => Sound
    <2> SUFFICES ASSUME Init PROVE Sound
      OBVIOUS
    <2>1. window = FreshWindow
      BY DEF Init, FreshWindow
    <2>2. NoEntry \in Entry
      BY DEF NoEntry, Entry
    <2>3. 0 \in Nat /\ 0 \in 0 .. Len(DURATIONS) /\ 0 \in 0 .. MaxCrashes
      BY BlockerAssumption, LenProperties
    <2>4. Types
      BY <2>1, <2>2, <2>3, FreshWindowType DEF Init, Types
    <2>5. InWindow /\ BeliefEndsFirst
      BY <2>1, FreshWindowType DEF Init, InWindow, BeliefEndsFirst
    <2>6. Accounted
      BY <2>1, FreshWindowType, FS_EmptySet, BlockerAssumption DEF Accounted
    <2> QED BY <2>4, <2>5, <2>6 DEF Sound
  <1>2. Sound /\ [Next]_vars => Sound'
    <2>1. ASSUME Sound, UNCHANGED vars PROVE Sound'
      BY <2>1 DEF Sound, Types, InWindow, Accounted, BeliefEndsFirst, vars, memory
    <2> QED BY <2>1, ProcessSound, WindowSound, IssueSound, OperatorSound, TickSound DEF Next
  <1> QED BY <1>1, <1>2, PTL DEF Spec

(* Blocker's tables, the kernel's entries and the window stay well typed,    *)
(* and only a source with enough strikes is ever about to be blocked.        *)
THEOREM BlockerTypeCorrect == Spec => []TypeOK
  <1>1. Sound => TypeOK
    BY DEF Sound, Types, InWindow, TypeOK, WindowType, Entry
  <1> QED BY <1>1, BlockerInvariant, PTL

(* "at most MAX_PER_WINDOW new blocks per second", counted on the entries    *)
(* written, for any cap and any number of sources.                           *)
THEOREM CapAlwaysHolds == Spec => []CapHolds
  <1>1. Sound => CapHolds
    <2> SUFFICES ASSUME Sound PROVE CapHolds
      OBVIOUS
    <2>1. /\ IsFiniteSet(window.wrote) /\ Cardinality(window.wrote) <= window.issued
          /\ window.issued <= MAX_PER_WINDOW /\ window.issued \in Nat
      BY DEF Sound, Accounted, Types, WindowType
    <2>2. Cardinality(window.wrote) \in Nat
      BY <2>1, FS_CardinalityType
    <2> QED BY <2>1, <2>2, BlockerAssumption DEF CapHolds
  <1> QED BY <1>1, BlockerInvariant, PTL

(* No step but the operator's makes the controller believe in a block the    *)
(* kernel does not enforce: the belief ends with the second in which the     *)
(* kernel lifts the block, or before.                                        *)
LEMMA StepKeepsBeliefs ==
    ASSUME Sound, Next
    PROVE  BeliefStep
  <1> USE DEF Sound, memory
  <1> SUFFICES ASSUME NEW ip \in Sources, Mistaken(ip)', ~Mistaken(ip), window' # window
               PROVE  entry[ip].by = "manual"
    BY DEF BeliefStep
  <1>1. up' /\ ~dry' /\ ip \notin allowed' /\ ~Live(entry'[ip]) /\ until'[ip] > 0
    BY DEF Mistaken, Status, Believed
  <1>2. up /\ ~dry /\ ip \notin allowed /\ until[ip] > 0 => Live(entry[ip])
    BY DEF Mistaken, Status, Believed
  <1>3. CASE Start
    BY <1>1, <1>3 DEF Start, Fresh
  <1>4. CASE (\E verdicts \in Windows : StartWindow(verdicts)) \/ Judge
    <2>1. UNCHANGED <<entry, allowed, up, dry, until>>
      BY <1>4 DEF StartWindow, Judge, Clean, Flag
    <2> QED BY <1>1, <1>2, <2>1
  <1>5. CASE Issue
    <2> DEFINE d == Duration(offences[window.target])
    <2>1. window.target \in Sources
      BY <1>5 DEF Types, WindowType, Issue
    <2>2. d \in Nat \ {0}
      BY <2>1, DurationType DEF Types
    <2> HIDE DEF d
    <2>3. /\ UNCHANGED <<allowed, up, dry>> /\ ~dry
          /\ entry' = [entry EXCEPT ![window.target] = [by |-> "auto", left |-> d]]
          /\ \E n : until' = [until EXCEPT ![window.target] = n]
      BY <1>1, <1>5 DEF Issue, d
    <2>4. ip # window.target
      BY <1>1, <2>1, <2>2, <2>3 DEF Types, Live
    <2>5. entry'[ip] = entry[ip] /\ until'[ip] = until[ip]
      BY <2>3, <2>4 DEF Types
    <2> QED BY <1>1, <1>2, <2>3, <2>5
  <1>6. CASE EndWindow
    <2>1. UNCHANGED <<allowed, up, dry, until>>
      BY <1>6 DEF EndWindow
    <2>2. Live(entry[ip]) => entry'[ip] = entry[ip]
      BY <1>6 DEF EndWindow, Kept, Types
    <2> QED BY <1>1, <1>2, <2>1, <2>2
  <1>7. CASE Tick
    <2>1. UNCHANGED <<allowed, up, dry>>
      BY <1>7 DEF Tick
    <2>2. /\ entry[ip] \in Entry /\ entry'[ip].by = entry[ip].by
          /\ entry'[ip].left = Down(entry[ip].left)
          /\ until[ip] \in Nat /\ until'[ip] = Down(until[ip])
      BY <1>7, SecondPasses
    <2>3. until[ip] > 1
      BY <1>1, <2>2 DEF Down
    <2>4. entry[ip].by # "none" /\ entry[ip].left # 0
      BY <1>1, <1>2, <2>1, <2>3 DEF Live, Types
    <2>5. Down(entry[ip].left) = 0
      BY <1>1, <2>2, <2>4 DEF Live
    <2>6. entry[ip].left = 1
      BY <2>2, <2>4, <2>5 DEF Down, Entry, Forever
    <2>7. entry[ip].by # "auto"
      BY <1>1, <2>1, <2>2, <2>3, <2>6 DEF BeliefEndsFirst
    <2> QED BY <2>2, <2>4, <2>7 DEF Entry
  <1>8. CASE Die \/ IssueFails \/ Operate
    BY <1>8 DEF Die, IssueFails, Operate, Allow, Unallow, Unblock, Block
  <1> QED BY <1>3, <1>4, <1>5, <1>6, <1>7, <1>8 DEF Next

(* is_blocked and the kernel: the deadline the controller counts from the    *)
(* start of its window never outlasts the one the kernel counts from the     *)
(* call, whatever is cleaned up, repeated or restarted in between.           *)
THEOREM BeliefsNeverOutlast == Spec => BeliefsMatchKernel
  <1>1. Sound /\ [Next]_vars => [BeliefStep]_vars
    BY StepKeepsBeliefs
  <1> QED BY <1>1, BlockerInvariant, PTL DEF Spec, BeliefsMatchKernel

LEMMA StepKeepsDry ==
    ASSUME Sound, Next
    PROVE  DryRunStep
  <1> USE DEF Sound, memory
  <1> SUFFICES ASSUME dry, up, NEW ip \in Sources, window' # window
               PROVE  entry'[ip].by = entry[ip].by
    BY DEF DryRunStep
  <1>1. CASE (\E verdicts \in Windows : StartWindow(verdicts)) \/ Judge
    BY <1>1 DEF StartWindow, Judge, Clean, Flag
  <1>2. CASE Issue
    BY <1>2 DEF Issue
  <1>3. CASE EndWindow
    BY <1>3 DEF EndWindow, Cleans
  <1>4. CASE Tick
    BY <1>4, SecondPasses
  <1>5. CASE Start \/ Die \/ IssueFails \/ Operate
    BY <1>5 DEF Start, Die, IssueFails, Operate, Allow, Unallow, Unblock, Block
  <1> QED BY <1>1, <1>2, <1>3, <1>4, <1>5 DEF Next

(* "show decisions but never write to the maps": in a dry run nobody but     *)
(* the operator changes who is on the blocklist.                             *)
THEOREM DryRunsWriteNothing == Spec => DryRunOnlyWatches
  <1>1. Sound /\ [Next]_vars => [DryRunStep]_vars
    BY StepKeepsDry
  <1> QED BY <1>1, BlockerInvariant, PTL DEF Spec, DryRunOnlyWatches

-----------------------------------------------------------------------------
(* Strikes and their reference definition, the largest surplus of flagged    *)
(* over clean windows in any stretch up to now.                              *)

Flagged(s) == {i \in DOMAIN s : s[i]}
Cleared(s) == {i \in DOMAIN s : ~s[i]}

LEMMA VerdictsFinite ==
    ASSUME NEW s \in Seq(BOOLEAN)
    PROVE  /\ IsFiniteSet(Flagged(s)) /\ IsFiniteSet(Cleared(s))
           /\ Cardinality(Flagged(s)) \in Nat /\ Cardinality(Cleared(s)) \in Nat
           /\ Len(s) \in Nat /\ DOMAIN s = 1 .. Len(s)
           /\ Surplus(s) = Cardinality(Flagged(s)) - Cardinality(Cleared(s))
           /\ Surplus(s) \in Int
  <1>1. Len(s) \in Nat /\ DOMAIN s = 1 .. Len(s)
    BY LenProperties
  <1>2. IsFiniteSet(1 .. Len(s))
    BY <1>1, FS_Interval
  <1>3. Flagged(s) \in SUBSET (1 .. Len(s)) /\ Cleared(s) \in SUBSET (1 .. Len(s))
    BY <1>1 DEF Flagged, Cleared
  <1>4. IsFiniteSet(Flagged(s)) /\ IsFiniteSet(Cleared(s))
    BY <1>2, <1>3, FS_Subset
  <1>5. Cardinality(Flagged(s)) \in Nat /\ Cardinality(Cleared(s)) \in Nat
    BY <1>4, FS_CardinalityType
  <1>6. Surplus(s) = Cardinality(Flagged(s)) - Cardinality(Cleared(s))
    BY DEF Surplus, Flagged, Cleared
  <1> QED BY <1>1, <1>4, <1>5, <1>6

(* One more window changes the surplus by one. *)
LEMMA SurplusOfAppend ==
    ASSUME NEW s \in Seq(BOOLEAN), NEW v \in BOOLEAN
    PROVE  Surplus(Append(s, v)) = IF v THEN Surplus(s) + 1 ELSE Surplus(s) - 1
  <1> DEFINE t == Append(s, v)
             n == Len(s) + 1
  <1>1. /\ t \in Seq(BOOLEAN) /\ Len(t) = n /\ t[n] = v
        /\ \A i \in 1 .. Len(s) : t[i] = s[i]
    BY AppendProperties
  <1>2. /\ Len(s) \in Nat /\ DOMAIN s = 1 .. Len(s) /\ DOMAIN t = 1 .. n
    BY <1>1, VerdictsFinite
  <1> HIDE DEF t
  <1>3. /\ 1 .. n = (1 .. Len(s)) \cup {n} /\ n \notin 1 .. Len(s)
    BY <1>2
  <1>4. n \notin Flagged(s) /\ n \notin Cleared(s)
    BY <1>2, <1>3 DEF Flagged, Cleared
  <1> HIDE DEF n
  <1>5. /\ Surplus(s) = Cardinality(Flagged(s)) - Cardinality(Cleared(s))
        /\ Surplus(t) = Cardinality(Flagged(t)) - Cardinality(Cleared(t))
        /\ Cardinality(Flagged(s)) \in Nat /\ Cardinality(Cleared(s)) \in Nat
    BY <1>1, VerdictsFinite
  <1>6. CASE v
    <2>1. Flagged(t) = Flagged(s) \cup {n} /\ Cleared(t) = Cleared(s)
      BY <1>1, <1>2, <1>3, <1>6, Zenon DEF Flagged, Cleared
    <2>2. Cardinality(Flagged(t)) = Cardinality(Flagged(s)) + 1
      BY <1>4, <2>1, VerdictsFinite, FS_AddElement
    <2>3. Surplus(t) = Surplus(s) + 1
      BY <1>5, <2>1, <2>2
    <2> QED BY <1>6, <2>3 DEF t
  <1>7. CASE ~v
    <2>1. Cleared(t) = Cleared(s) \cup {n} /\ Flagged(t) = Flagged(s)
      BY <1>1, <1>2, <1>3, <1>7, Zenon DEF Flagged, Cleared
    <2>2. Cardinality(Cleared(t)) = Cardinality(Cleared(s)) + 1
      BY <1>4, <2>1, VerdictsFinite, FS_AddElement
    <2>3. Surplus(t) = Surplus(s) - 1
      BY <1>5, <2>1, <2>2
    <2> QED BY <1>7, <2>3 DEF t
  <1> QED BY <1>6, <1>7

(* The stretches up to a new window: those up to the one before and the new  *)
(* window, or nothing.                                                       *)
LEMMA SuffixesOfAppend ==
    ASSUME NEW s \in Seq(BOOLEAN), NEW v \in BOOLEAN
    PROVE  /\ Suffixes(Append(s, v)) = {Append(t, v) : t \in Suffixes(s)} \cup {<<>>}
           /\ Suffixes(s) \subseteq Seq(BOOLEAN)
  <1> DEFINE a == Append(s, v)
  <1>1. /\ a \in Seq(BOOLEAN) /\ Len(a) = Len(s) + 1 /\ a[Len(s) + 1] = v
        /\ \A i \in 1 .. Len(s) : a[i] = s[i]
        /\ Len(s) \in Nat
        /\ \A i \in 1 .. Len(s) : s[i] \in BOOLEAN
        /\ \A i \in 1 .. Len(s) + 1 : a[i] \in BOOLEAN
    <2>1. /\ a \in Seq(BOOLEAN) /\ Len(a) = Len(s) + 1 /\ a[Len(s) + 1] = v
          /\ \A i \in 1 .. Len(s) : a[i] = s[i]
      BY AppendProperties
    <2> HIDE DEF a
    <2>2. /\ \A i \in 1 .. Len(s) : s[i] \in BOOLEAN
          /\ \A i \in 1 .. Len(a) : a[i] \in BOOLEAN
          /\ Len(s) \in Nat
      BY <2>1, ElementOfSeq, LenProperties
    <2> QED BY <2>1, <2>2
  <1> HIDE DEF a
  <1>2. ASSUME NEW i \in 1 .. Len(s) + 1
        PROVE  /\ SubSeq(s, i, Len(s)) \in Seq(BOOLEAN)
               /\ SubSeq(a, i, Len(a)) = Append(SubSeq(s, i, Len(s)), v)
    <2> DEFINE l == SubSeq(a, i, Len(a))
               m == SubSeq(s, i, Len(s))
    <2>1. /\ m \in Seq(BOOLEAN) /\ Len(m) = Len(s) - i + 1
          /\ \A j \in 1 .. Len(s) - i + 1 : m[j] = s[i + j - 1]
      <3>1. \A j \in i .. Len(s) : s[j] \in BOOLEAN
        BY <1>1
      <3>2. /\ m \in Seq(BOOLEAN) /\ Len(m) = IF i <= Len(s) THEN Len(s) - i + 1 ELSE 0
            /\ \A j \in 1 .. Len(s) - i + 1 : m[j] = s[i + j - 1]
        BY <1>1, <3>1, SubSeqProperties
      <3> QED BY <1>1, <3>2
    <2>2. /\ l \in Seq(BOOLEAN) /\ Len(l) = Len(s) - i + 2
          /\ \A j \in 1 .. Len(s) - i + 2 : l[j] = a[i + j - 1]
      <3>1. \A j \in i .. Len(a) : a[j] \in BOOLEAN
        BY <1>1
      <3>2. /\ l \in Seq(BOOLEAN) /\ Len(l) = IF i <= Len(a) THEN Len(a) - i + 1 ELSE 0
            /\ \A j \in 1 .. Len(a) - i + 1 : l[j] = a[i + j - 1]
        BY <1>1, <3>1, SubSeqProperties
      <3> QED BY <1>1, <3>2
    <2> HIDE DEF l, m
    <2>3. /\ Append(m, v) \in Seq(BOOLEAN) /\ Len(Append(m, v)) = Len(m) + 1
          /\ \A j \in 1 .. Len(m) : Append(m, v)[j] = m[j]
          /\ Append(m, v)[Len(m) + 1] = v
      <3>1. m \in Seq(BOOLEAN)
        BY <2>1
      <3> QED BY <3>1, AppendProperties
    <2>4. ASSUME NEW j \in 1 .. Len(l) PROVE l[j] = Append(m, v)[j]
      <3>1. CASE j \in 1 .. Len(m)
        <4>1. i + j - 1 \in 1 .. Len(s)
          BY <1>1, <2>1, <3>1
        <4>2. l[j] = a[i + j - 1] /\ m[j] = s[i + j - 1]
          BY <1>1, <2>1, <2>2, <2>4, <3>1
        <4> QED BY <1>1, <2>3, <3>1, <4>1, <4>2
      <3>2. CASE j = Len(m) + 1
        <4>1. i + j - 1 = Len(s) + 1
          BY <1>1, <2>1, <3>2
        <4>2. l[j] = a[Len(s) + 1]
          BY <2>2, <2>4, <4>1
        <4> QED BY <1>1, <2>3, <3>2, <4>2
      <3>3. j \in 1 .. Len(m) \/ j = Len(m) + 1
        BY <1>1, <2>1, <2>2
      <3> QED BY <3>1, <3>2, <3>3
    <2>5. Len(l) = Len(Append(m, v))
      BY <1>1, <2>1, <2>2, <2>3
    <2>6. l = Append(m, v)
      BY <2>2, <2>3, <2>4, <2>5, SeqEqual
    <2> QED BY <2>1, <2>6 DEF l, m
  <1>3. SubSeq(a, Len(s) + 2, Len(a)) = <<>>
    BY <1>1, SubSeqEmpty
  <1>4. 1 .. Len(a) + 1 = (1 .. Len(s) + 1) \cup {Len(s) + 2}
    BY <1>1
  <1>5. Suffixes(a) = {SubSeq(a, i, Len(a)) : i \in 1 .. Len(s) + 1} \cup {<<>>}
    <2>1. Suffixes(a) = {SubSeq(a, i, Len(a)) : i \in (1 .. Len(s) + 1) \cup {Len(s) + 2}}
      BY <1>4 DEF Suffixes
    <2> QED BY <1>3, <2>1, Zenon
  <1>6. {SubSeq(a, i, Len(a)) : i \in 1 .. Len(s) + 1} = {Append(t, v) : t \in Suffixes(s)}
    BY <1>2 DEF Suffixes
  <1>7. Suffixes(s) \subseteq Seq(BOOLEAN)
    BY <1>2 DEF Suffixes
  <1> QED BY <1>5, <1>6, <1>7 DEF a

LEMMA NothingSeen ==
    <<>> \in Seq(BOOLEAN) /\ Suffixes(<<>>) = {<<>>} /\ Surplus(<<>>) = 0
  <1>1. <<>> \in Seq(BOOLEAN) /\ Len(<<>>) = 0
    OBVIOUS
  <1>2. Suffixes(<<>>) = {<<>>}
    <2>1. 1 .. Len(<<>>) + 1 = {1} /\ SubSeq(<<>>, 1, 0) = <<>>
      BY SubSeqEmpty
    <2> QED BY <1>1, <2>1 DEF Suffixes
  <1>3. Flagged(<<>>) = {} /\ Cleared(<<>>) = {}
    BY DEF Flagged, Cleared
  <1>4. Surplus(<<>>) = Cardinality({}) - Cardinality({})
    BY <1>3 DEF Surplus, Flagged, Cleared
  <1> QED BY <1>1, <1>2, <1>4, FS_EmptySet

(* n is the largest surplus of a stretch up to now. *)
Recent(n, s) == /\ \E t \in Suffixes(s) : n = Surplus(t)
                /\ \A t \in Suffixes(s) : Surplus(t) <= n

LEMMA FlagIsRecent ==
    ASSUME NEW s \in Seq(BOOLEAN), NEW n \in Nat, Recent(n, s)
    PROVE  Recent(n + 1, Append(s, TRUE))
  <1>1. /\ Suffixes(Append(s, TRUE)) = {Append(t, TRUE) : t \in Suffixes(s)} \cup {<<>>}
        /\ Suffixes(s) \subseteq Seq(BOOLEAN)
    BY SuffixesOfAppend
  <1>2. \A t \in Suffixes(s) : /\ Surplus(t) \in Int /\ Surplus(t) <= n
                               /\ Surplus(Append(t, TRUE)) = Surplus(t) + 1
    BY <1>1, SurplusOfAppend, VerdictsFinite DEF Recent
  <1>3. \E t \in Suffixes(Append(s, TRUE)) : n + 1 = Surplus(t)
    <2>1. PICK t \in Suffixes(s) : n = Surplus(t)
      BY DEF Recent
    <2>2. Append(t, TRUE) \in Suffixes(Append(s, TRUE))
      BY <1>1
    <2> QED BY <1>2, <2>1, <2>2
  <1>4. ASSUME NEW t \in Suffixes(Append(s, TRUE)) PROVE Surplus(t) <= n + 1
    <2>1. CASE t = <<>>
      BY <2>1, NothingSeen
    <2>2. CASE \E u \in Suffixes(s) : t = Append(u, TRUE)
      <3>1. PICK u \in Suffixes(s) : t = Append(u, TRUE)
        BY <2>2
      <3>2. Surplus(u) \in Int /\ Surplus(u) <= n /\ Surplus(t) = Surplus(u) + 1
        BY <1>2, <3>1, Zenon
      <3> QED BY <3>2
    <2> QED BY <1>1, <1>4, <2>1, <2>2
  <1> QED BY <1>3, <1>4 DEF Recent

LEMMA CleanIsRecent ==
    ASSUME NEW s \in Seq(BOOLEAN), NEW n \in Nat, Recent(n, s)
    PROVE  Recent(Decayed(n), Append(s, FALSE))
  <1>1. /\ Suffixes(Append(s, FALSE)) = {Append(t, FALSE) : t \in Suffixes(s)} \cup {<<>>}
        /\ Suffixes(s) \subseteq Seq(BOOLEAN)
    BY SuffixesOfAppend
  <1>2. \A t \in Suffixes(s) : /\ Surplus(t) \in Int /\ Surplus(t) <= n
                               /\ Surplus(Append(t, FALSE)) = Surplus(t) - 1
    BY <1>1, SurplusOfAppend, VerdictsFinite DEF Recent
  <1>3. \E t \in Suffixes(Append(s, FALSE)) : Decayed(n) = Surplus(t)
    <2>1. CASE n > 0
      <3>1. PICK t \in Suffixes(s) : n = Surplus(t)
        BY DEF Recent
      <3>2. Append(t, FALSE) \in Suffixes(Append(s, FALSE))
        BY <1>1
      <3>3. Decayed(n) = n - 1
        BY <2>1 DEF Decayed
      <3> QED BY <1>2, <3>1, <3>2, <3>3
    <2>2. CASE n = 0
      <3>1. <<>> \in Suffixes(Append(s, FALSE))
        BY <1>1, Zenon
      <3>2. Decayed(n) = 0
        BY <2>2 DEF Decayed
      <3> QED BY <3>1, <3>2, NothingSeen
    <2>3. n = 0 \/ n > 0
      OBVIOUS
    <2> QED BY <2>1, <2>2, <2>3, Zenon
  <1>4. ASSUME NEW t \in Suffixes(Append(s, FALSE)) PROVE Surplus(t) <= Decayed(n)
    <2>1. CASE t = <<>>
      BY <2>1, NothingSeen DEF Decayed
    <2>2. CASE \E u \in Suffixes(s) : t = Append(u, FALSE)
      <3>1. PICK u \in Suffixes(s) : t = Append(u, FALSE)
        BY <2>2
      <3>2. Surplus(u) \in Int /\ Surplus(u) <= n /\ Surplus(t) = Surplus(u) - 1
        BY <1>2, <3>1, Zenon
      <3> QED BY <3>2 DEF Decayed
    <2> QED BY <1>1, <1>4, <2>1, <2>2
  <1> QED BY <1>3, <1>4 DEF Recent

LEMMA NothingIsRecent == <<>> \in Seq(BOOLEAN) /\ Recent(0, <<>>)
  BY NothingSeen DEF Recent

(* Where verdicts are remembered, the strikes of every source are recent. *)
StrikesFollow ==
    /\ seen \in [Sources -> Seq(BOOLEAN)]
    /\ MaxHistory > 0 => \A ip \in Sources : Recent(strikes[ip], seen[ip])

LEMMA JudgeIsRecent ==
    ASSUME Types, StrikesFollow, NEW ip \in Sources, Clean(ip) \/ Flag(ip)
    PROVE  StrikesFollow'
  <1>1. strikes[ip] \in Nat /\ seen[ip] \in Seq(BOOLEAN) /\ strikes \in [Sources -> Nat]
    BY DEF Types, StrikesFollow
  <1>2. ASSUME NEW n, NEW h \in Seq(BOOLEAN), MaxHistory > 0 => Recent(n, h),
               strikes' = [strikes EXCEPT ![ip] = n], seen' = [seen EXCEPT ![ip] = h]
        PROVE  StrikesFollow'
    <2>1. seen' \in [Sources -> Seq(BOOLEAN)]
      BY <1>2 DEF StrikesFollow
    <2>2. \A s \in Sources : /\ s = ip => strikes'[s] = n /\ seen'[s] = h
                             /\ s # ip => strikes'[s] = strikes[s] /\ seen'[s] = seen[s]
      BY <1>1, <1>2 DEF StrikesFollow
    <2> QED BY <1>2, <2>1, <2>2 DEF StrikesFollow
  <1>3. ASSUME NEW v \in BOOLEAN
        PROVE  /\ Recall(seen[ip], v) \in Seq(BOOLEAN)
               /\ MaxHistory > 0 => Recall(seen[ip], v) = Append(seen[ip], v)
    <2>1. Append(seen[ip], v) \in Seq(BOOLEAN)
      BY <1>1, <1>3, AppendProperties
    <2>2. MaxHistory > 0 => MaxHistory # 0
      BY BlockerAssumption
    <2> QED BY <1>1, <2>1, <2>2, Zenon DEF Recall
  <1>4. MaxHistory > 0 => Recent(strikes[ip], seen[ip])
    BY DEF StrikesFollow
  <1>5. CASE Clean(ip)
    <2>1. /\ strikes' = [strikes EXCEPT ![ip] = Decayed(strikes[ip])]
          /\ seen' = [seen EXCEPT ![ip] = Recall(seen[ip], FALSE)]
      BY <1>5 DEF Clean
    <2>2. MaxHistory > 0 => Recent(Decayed(strikes[ip]), Recall(seen[ip], FALSE))
      BY <1>1, <1>3, <1>4, CleanIsRecent
    <2> QED BY <1>2, <1>3, <2>1, <2>2
  <1>6. CASE Flag(ip)
    <2> DEFINE pardoned == Struck(ip) >= STRIKES /\ (Believed(ip) \/ ip \in allowed)
    <2>1. /\ strikes' = [strikes EXCEPT ![ip] = IF pardoned THEN 0 ELSE Struck(ip)]
          /\ seen' = [seen EXCEPT ![ip] = IF pardoned THEN <<>> ELSE Recall(seen[ip], TRUE)]
      BY <1>6 DEF Flag
    <2> HIDE DEF pardoned
    <2>2. CASE pardoned
      <3>1. /\ strikes' = [strikes EXCEPT ![ip] = 0] /\ seen' = [seen EXCEPT ![ip] = <<>>]
        BY <2>1, <2>2
      <3> QED BY <1>2, <3>1, NothingIsRecent
    <2>3. CASE ~pardoned
      <3>1. /\ strikes' = [strikes EXCEPT ![ip] = Struck(ip)]
            /\ seen' = [seen EXCEPT ![ip] = Recall(seen[ip], TRUE)]
        BY <2>1, <2>3
      <3>2. MaxHistory > 0 => Struck(ip) = strikes[ip] + 1
        BY DEF Struck
      <3>3. MaxHistory > 0 => Recent(Struck(ip), Recall(seen[ip], TRUE))
        BY <1>1, <1>3, <1>4, <3>2, FlagIsRecent
      <3> QED BY <1>2, <1>3, <3>1, <3>3
    <2> QED BY <2>2, <2>3
  <1> QED BY <1>5, <1>6

(* "a source has to be flagged in most recent windows, but a single dip does *)
(* not undo its history": one counter that goes up and down by one, and not  *)
(* below zero, is the largest surplus of flagged over clean windows in any   *)
(* stretch up to now, for histories of any length.                           *)
THEOREM StrikesCountRecentWindows == Spec => [](MaxHistory > 0 => StrikesAreRecent)
  <1>1. Init => StrikesFollow
    BY NothingIsRecent DEF Init, StrikesFollow
  <1>2. Sound /\ StrikesFollow /\ [Next]_vars => StrikesFollow'
    <2> SUFFICES ASSUME Sound, StrikesFollow, [Next]_vars PROVE StrikesFollow'
      OBVIOUS
    <2>1. CASE UNCHANGED <<strikes, seen>>
      BY <2>1 DEF StrikesFollow
    <2>2. CASE Start
      BY <2>2, NothingIsRecent DEF Start, Fresh, StrikesFollow
    <2>3. CASE Judge
      BY <2>3, JudgeIsRecent DEF Judge, Sound
    <2>4. CASE Issue
      <3>1. /\ strikes' = [strikes EXCEPT ![window.target] = 0]
            /\ seen' = [seen EXCEPT ![window.target] = <<>>]
        BY <2>4 DEF Issue
      <3>2. strikes \in [Sources -> Nat]
        BY DEF Sound, Types
      <3> QED BY <3>1, <3>2, NothingIsRecent DEF StrikesFollow
    <2>5. \/ Start \/ Judge \/ Issue \/ UNCHANGED <<strikes, seen>>
      BY DEF Next, Die, Tick, StartWindow, IssueFails, EndWindow, Operate, Allow, Unallow,
             Unblock, Block, vars, memory
    <2> QED BY <2>1, <2>2, <2>3, <2>4, <2>5
  <1>3. StrikesFollow => (MaxHistory > 0 => StrikesAreRecent)
    BY DEF StrikesFollow, Recent, StrikesAreRecent
  <1> QED BY <1>1, <1>2, <1>3, BlockerInvariant, PTL DEF Spec
=============================================================================
