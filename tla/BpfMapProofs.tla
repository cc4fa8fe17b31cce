---------------------------- MODULE BpfMapProofs ----------------------------
(***************************************************************************)
(* What BpfMap promises, for maps, batches and limits of any size: reading *)
(* a map implements MapRead, a cleared map has lost what was in it, and    *)
(* the cleanup of expired blocks spares those in force.                    *)
(***************************************************************************)
EXTENDS BpfMap, TLAPS, SequenceTheorems, WellFoundedInduction

Pair == Keys \X Nat
Pairs(s) == {s[i] : i \in DOMAIN s}

(* Sequences as the sets of pairs in them. *)
LEMMA PairsEmpty == Pairs(<<>>) = {} /\ KeysOf(<<>>) = {}
  BY DEF Pairs, KeysOf

LEMMA KeysArePairs == ASSUME NEW s PROVE KeysOf(s) = {p[1] : p \in Pairs(s)}
  BY DEF Pairs, KeysOf

LEMMA PairsAppend ==
    ASSUME NEW s \in Seq(Pair), NEW p \in Pair
    PROVE  Pairs(Append(s, p)) = Pairs(s) \cup {p} /\ Append(s, p) \in Seq(Pair)
  <1>1. Append(s, p) \in Seq(Pair) /\ Len(Append(s, p)) = Len(s) + 1
      OBVIOUS
  <1>2. \A i \in 1 .. Len(s) : Append(s, p)[i] = s[i]
      OBVIOUS
  <1>3. Append(s, p)[Len(s) + 1] = p
      OBVIOUS
  <1>4. DOMAIN s = 1 .. Len(s) /\ DOMAIN Append(s, p) = 1 .. Len(s) + 1
      BY <1>1
  <1> QED
      BY <1>1, <1>2, <1>3, <1>4 DEF Pairs

LEMMA PairsTail ==
    ASSUME NEW s \in Seq(Pair), s # <<>>
    PROVE  Head(s) \in Pair /\ Pairs(s) = {Head(s)} \cup Pairs(Tail(s)) /\ Tail(s) \in Seq(Pair)
  <1>1. Len(s) \in Nat /\ Len(s) > 0 /\ DOMAIN s = 1 .. Len(s) /\ Head(s) = s[1]
      OBVIOUS
  <1>2. Tail(s) \in Seq(Pair) /\ Len(Tail(s)) = Len(s) - 1
      OBVIOUS
  <1>3. DOMAIN Tail(s) = 1 .. Len(s) - 1
      BY <1>2
  <1>4. \A i \in 1 .. Len(s) - 1 : Tail(s)[i] = s[i + 1]
      OBVIOUS
  <1>5. ASSUME NEW p \in Pairs(s) PROVE p = Head(s) \/ p \in Pairs(Tail(s))
    <2>1. PICK i \in 1 .. Len(s) : p = s[i]
        BY <1>1, <1>5 DEF Pairs
    <2>2. CASE i = 1
        BY <1>1, <2>1, <2>2
    <2>3. CASE i # 1
      <3>1. i - 1 \in 1 .. Len(s) - 1 /\ (i - 1) + 1 = i
          BY <1>1, <2>3
      <3> QED
          BY <1>3, <1>4, <2>1, <3>1 DEF Pairs
    <2> QED
        BY <2>2, <2>3
  <1>6. ASSUME NEW p \in Pairs(Tail(s)) PROVE p \in Pairs(s)
    <2>1. PICK i \in 1 .. Len(s) - 1 : p = Tail(s)[i]
        BY <1>3, <1>6 DEF Pairs
    <2>2. i + 1 \in 1 .. Len(s) /\ p = s[i + 1]
        BY <1>1, <1>4, <2>1
    <2> QED
        BY <1>1, <2>2 DEF Pairs
  <1>7. Head(s) \in Pairs(s) /\ Head(s) \in Pair
      BY <1>1 DEF Pairs
  <1> QED
      BY <1>2, <1>5, <1>6, <1>7

LEMMA PairsConcat ==
    ASSUME NEW s \in Seq(Pair), NEW t \in Seq(Pair)
    PROVE  Pairs(s \o t) = Pairs(s) \cup Pairs(t) /\ s \o t \in Seq(Pair)
  <1>1. s \o t \in Seq(Pair) /\ Len(s \o t) = Len(s) + Len(t)
      OBVIOUS
  <1>2. /\ DOMAIN s = 1 .. Len(s) /\ DOMAIN t = 1 .. Len(t)
        /\ DOMAIN (s \o t) = 1 .. Len(s) + Len(t) /\ Len(s) \in Nat /\ Len(t) \in Nat
      BY <1>1
  <1>3. \A i \in 1 .. Len(s) : (s \o t)[i] = s[i]
      OBVIOUS
  <1>4. \A i \in 1 .. Len(t) : (s \o t)[Len(s) + i] = t[i]
      OBVIOUS
  <1>5. ASSUME NEW p \in Pairs(s \o t) PROVE p \in Pairs(s) \cup Pairs(t)
    <2>1. PICK i \in 1 .. Len(s) + Len(t) : p = (s \o t)[i]
        BY <1>2, <1>5 DEF Pairs
    <2>2. CASE i <= Len(s)
      <3>1. i \in 1 .. Len(s)
          BY <1>2, <2>2
      <3> QED
          BY <1>2, <1>3, <2>1, <3>1 DEF Pairs
    <2>3. CASE i > Len(s)
      <3>1. i - Len(s) \in 1 .. Len(t) /\ Len(s) + (i - Len(s)) = i
          BY <1>2, <2>3
      <3> QED
          BY <1>2, <1>4, <2>1, <3>1 DEF Pairs
    <2> QED
        BY <1>2, <2>2, <2>3
  <1>6. ASSUME NEW p \in Pairs(s) PROVE p \in Pairs(s \o t)
    <2>1. PICK i \in 1 .. Len(s) : p = s[i]
        BY <1>2, <1>6 DEF Pairs
    <2>2. i \in 1 .. Len(s) + Len(t)
        BY <1>2
    <2> QED
        BY <1>2, <1>3, <2>1, <2>2 DEF Pairs
  <1>7. ASSUME NEW p \in Pairs(t) PROVE p \in Pairs(s \o t)
    <2>1. PICK i \in 1 .. Len(t) : p = t[i]
        BY <1>2, <1>7 DEF Pairs
    <2>2. Len(s) + i \in 1 .. Len(s) + Len(t)
        BY <1>2
    <2> QED
        BY <1>2, <1>4, <2>1, <2>2 DEF Pairs
  <1> QED
      BY <1>1, <1>5, <1>6, <1>7

(* A set of numbers has a least one. *)
LEMMA LeastExists == ASSUME NEW S \in SUBSET Nat, S # {} PROVE \E m \in S : \A k \in S : m <= k
  <1>1. PICK m \in S : \A k \in S : ~ (<<k, m>> \in OpToRel(<, Nat))
      BY NatLessThanWellFounded, WFMin
  <1>2. ASSUME NEW k \in S, k < m PROVE FALSE
    <2>1. <<k, m>> \in {ss \in Nat \X Nat : ss[1] < ss[2]}
        BY <1>2
    <2>2. OpToRel(<, Nat) = {ss \in Nat \X Nat : ss[1] < ss[2]}
        BY Zenon DEF OpToRel
    <2> QED
        BY <1>1, <2>1, <2>2
  <1> QED
      BY <1>2

(* The next key of the walk. *)
NextKey == CHOOSE k \in Ahead : \A other \in Ahead : k <= other

LEMMA NextIsLeast ==
    ASSUME Ahead # {}
    PROVE  NextKey \in Ahead /\ \A k \in Ahead : NextKey <= k
  <1>1. Ahead \in SUBSET Nat
      BY MapAssumption DEF Ahead, Present, Keys
  <1>2. \E m \in Ahead : \A k \in Ahead : m <= k
      BY <1>1, LeastExists
  <1> QED
      BY <1>2 DEF NextKey

-----------------------------------------------------------------------------
(* The inductive invariant *)

Types ==
    /\ map \in [Keys -> Nat \cup {Absent}] /\ clock \in Nat
    /\ pc \in {"idle", "batch", "walk", "lookup", "delete"}
    /\ op \in Ops \cup {"none"} /\ now \in 0 .. clock /\ cur \in 0 .. Size
    /\ got \in Seq(Pair) /\ list \in Seq(Pair) /\ out \in Seq(Pair)
    /\ pc = "walk" => Len(list) <= RUNAWAY
    /\ result \subseteq Keys
    /\ must \subseteq Keys /\ may \subseteq Keys /\ alive \subseteq must

(* Which of its locals each phase uses. *)
Phased ==
    /\ pc = "idle" => cur = 0 /\ got = <<>> /\ list = <<>> /\ out = <<>>
    /\ pc = "batch" => list = <<>> /\ op # "clear" /\ (cur = 0 => got = <<>> /\ out = <<>>)
    /\ pc = "walk" => got = <<>> /\ out = <<>>
    /\ pc = "lookup" => got = <<>> /\ op # "clear"
    /\ pc = "delete" => got = <<>> /\ out = <<>>

(* Nothing that has been there all the time is missed so far... *)
Complete ==
    /\ must \subseteq Present
    /\ pc = "batch" => \A k \in must : k <= cur => k \in KeysOf(out) \cup KeysOf(got)
    /\ pc = "walk" => \A k \in must : k <= cur => k \in KeysOf(list)
    /\ pc = "lookup" => must \subseteq KeysOf(out) \cup KeysOf(list)
    /\ pc = "delete" /\ Emptying => must \subseteq KeysOf(list)

(* ...and nothing has been read that never was there. *)
Sound ==
    Reading => /\ Present \subseteq may
               /\ KeysOf(out) \subseteq may /\ KeysOf(got) \subseteq may /\ KeysOf(list) \subseteq may

(* A block in force when the cleanup began still is, and no pair says        *)
(* otherwise.                                                                *)
Lasting ==
    /\ \A k \in alive : InForce(map[k], now)
    /\ \A p \in Pairs(out) \cup Pairs(got) \cup Pairs(list) :
          Expired(p[2], now) => p[1] \notin alive

Inv == Types /\ Phased /\ Complete /\ Sound /\ Lasting

LEMMA InvInit == Init => Inv
  <1> SUFFICES ASSUME Init PROVE Inv
      OBVIOUS
  <1>1. Types
      BY MapAssumption DEF Init, Types, Keys, Absent
  <1>2. Phased /\ Complete /\ Sound
      BY DEF Init, Phased, Complete, Sound, Reading
  <1>3. Lasting
      BY PairsEmpty DEF Init, Lasting
  <1> QED
      BY <1>1, <1>2, <1>3 DEF Inv

(* Somebody changes the map. *)
LEMMA MapChanges ==
    ASSUME Inv, map' \in [Keys -> Nat \cup {Absent}], Remember,
           UNCHANGED <<clock, pc, op, now, cur, got, out, result>>,
           list' = list \/ (pc = "delete" /\ list # <<>> /\ list' = Tail(list)
                             /\ (Emptying => map'[Head(list)[1]] = Absent)),
           \A k \in alive \cap Present' : InForce(map'[k], now)
    PROVE  Inv'
  <1>a. Present' \subseteq Keys
      BY DEF Present
  <1>b. got \in Seq(Pair) /\ list \in Seq(Pair) /\ out \in Seq(Pair)
      BY DEF Inv, Types
  <1>c. list' \in Seq(Pair) /\ Pairs(list') \subseteq Pairs(list)
      BY <1>b, PairsTail
  <1>d. KeysOf(list') \subseteq KeysOf(list)
    <2>1. KeysOf(list') = {p[1] : p \in Pairs(list')} /\ KeysOf(list) = {p[1] : p \in Pairs(list)}
        BY KeysArePairs
    <2> QED
        BY <1>c, <2>1
  <1>e. pc # "delete" => list' = list
      OBVIOUS
  <1>1. Types'
      BY <1>a, <1>c, <1>e DEF Inv, Types, Remember
  <1>2. Phased'
      BY <1>e DEF Inv, Phased
  <1>3. Complete'
    <2>1. must' \subseteq must /\ must' \subseteq Present'
        BY DEF Remember
    <2>2. ASSUME pc = "delete", Emptying PROVE must' \subseteq KeysOf(list')
      <3>1. must \subseteq KeysOf(list)
          BY <2>2 DEF Inv, Complete
      <3>2. CASE list' = list
          BY <2>1, <3>1, <3>2
      <3>3. CASE list # <<>> /\ list' = Tail(list) /\ map'[Head(list)[1]] = Absent
        <4>1. Pairs(list) = {Head(list)} \cup Pairs(Tail(list))
            BY <1>b, <3>3, PairsTail
        <4>2. KeysOf(list') = {p[1] : p \in Pairs(list')} /\ KeysOf(list) = {p[1] : p \in Pairs(list)}
            BY KeysArePairs
        <4>3. KeysOf(list) \subseteq {Head(list)[1]} \cup KeysOf(list')
            BY <3>3, <4>1, <4>2
        <4>4. Head(list)[1] \notin Present'
            BY <3>3 DEF Present
        <4> QED
            BY <2>1, <3>1, <4>3, <4>4
      <3> QED
          BY <2>2, <3>2, <3>3
    <2> QED
        BY <1>e, <2>1, <2>2 DEF Inv, Complete, Emptying
  <1>4. Sound'
    <2>1. Reading' <=> Reading
        BY DEF Reading
    <2>2. Reading => list' = list /\ may' = may \cup Present'
        BY <1>e DEF Reading, Remember
    <2> QED
        BY <2>1, <2>2 DEF Inv, Sound
  <1>5. Lasting'
    <2>1. alive' = alive \cap Present'
        BY DEF Remember
    <2> QED
        BY <1>c, <2>1 DEF Inv, Lasting
  <1> QED
      BY <1>1, <1>2, <1>3, <1>4, <1>5 DEF Inv

(* An operation ends. *)
LEMMA Rests == ASSUME Inv, Rest, result' \subseteq Keys PROVE Inv'
  <1>1. Types'
      BY MapAssumption DEF Inv, Types, Rest
  <1>2. Phased' /\ Complete' /\ Sound'
      BY DEF Rest, Phased, Complete, Sound, Reading
  <1>3. Lasting'
      BY PairsEmpty DEF Rest, Lasting
  <1> QED
      BY <1>1, <1>2, <1>3 DEF Inv

(* A read ends. *)
LEMMA Delivers ==
    ASSUME Inv, NEW pairs \in Seq(Pair), Deliver(pairs), must \subseteq KeysOf(pairs),
           \A p \in Pairs(pairs) : Expired(p[2], now) => p[1] \notin alive
    PROVE  Inv'
  <1>a. KeysOf(pairs) \subseteq Keys
      BY DEF KeysOf, Pair
  <1>b. result' \subseteq Keys
      BY <1>a DEF Deliver
  <1>1. CASE op = "list"
      BY <1>1, <1>b, Rests DEF Deliver
  <1>2. CASE op # "list"
    <2>0. /\ pc' = "delete" /\ list' = pairs /\ out' = <<>>
          /\ got' = <<>> /\ cur' = 0 /\ may' = {}
          /\ UNCHANGED <<map, clock, op, now, must, alive>>
        BY <1>2 DEF Deliver
    <2>1. Types'
        BY <1>b, <2>0, MapAssumption DEF Inv, Types
    <2>2. Phased' /\ Sound'
        BY <2>0 DEF Phased, Sound, Reading
    <2>3. Complete'
        BY <2>0 DEF Inv, Complete, Present
    <2>4. Lasting'
        BY <2>0, PairsEmpty DEF Inv, Lasting
    <2> QED
        BY <2>1, <2>2, <2>3, <2>4 DEF Inv
  <1> QED
      BY <1>1, <1>2

(* Everybody else's steps, and the deletions. *)
LEMMA OthersStep == ASSUME Inv, Others PROVE Inv'
  <1>a. map \in [Keys -> Nat \cup {Absent}] /\ clock \in Nat /\ now \in Nat /\ now <= clock
      BY DEF Inv, Types
  <1>b. \A k \in alive : InForce(map[k], now)
      BY DEF Inv, Lasting
  <1>c. alive \subseteq Keys
      BY DEF Inv, Types
  <1>1. ASSUME NEW k \in Keys, Delete(k) PROVE Inv'
    <2>1. map' = [map EXCEPT ![k] = Absent] /\ Remember /\ UNCHANGED <<clock, tool>>
        BY <1>1 DEF Delete
    <2>2. \A j \in alive \cap Present' : InForce(map'[j], now)
        BY <1>a, <1>b, <1>c, <2>1 DEF Present
    <2> QED
        BY <1>a, <2>1, <2>2, MapChanges DEF tool
  <1>2. ASSUME NEW k \in Keys, NEW d \in Durations, Update(k, d) PROVE Inv'
    <2>0. d \in Nat
        BY MapAssumption
    <2>1. /\ map' = [map EXCEPT ![k] = IF d = 0 THEN 0 ELSE clock + d]
          /\ Remember /\ UNCHANGED <<clock, tool>>
        BY <1>2 DEF Update
    <2>2. \A j \in alive \cap Present' : InForce(map'[j], now)
        BY <1>a, <1>b, <1>c, <2>0, <2>1 DEF InForce
    <2>3. map' \in [Keys -> Nat \cup {Absent}]
        BY <1>a, <2>0, <2>1
    <2> QED
        BY <2>1, <2>2, <2>3, MapChanges DEF tool
  <1>3. ASSUME Tick PROVE Inv'
    <2>1. clock' = clock + 1 /\ UNCHANGED <<map, tool, history>>
        BY <1>3 DEF Tick
    <2>2. Types'
        BY <2>1 DEF Inv, Types, tool, history
    <2>3. Phased' /\ Complete' /\ Sound' /\ Lasting'
        BY <2>1 DEF Inv, Phased, Complete, Sound, Lasting, Present, Reading, Emptying, tool, history
    <2> QED
        BY <2>2, <2>3 DEF Inv
  <1> QED
      BY <1>1, <1>2, <1>3 DEF Others

LEMMA BeginStep == ASSUME Inv, NEW o \in Ops, Begin(o) PROVE Inv'
  <1>a. /\ pc = "idle" /\ op' = o /\ now' = clock
        /\ pc' = IF o = "clear" THEN "walk" ELSE "batch"
        /\ result' = {} /\ must' = Present /\ may' = Present
        /\ alive' = {k \in Present : o = "expire" /\ InForce(map[k], clock)}
        /\ UNCHANGED <<map, clock, cur, got, list, out>>
      BY DEF Begin
  <1>b. Present \subseteq Keys /\ Present' = Present
      BY <1>a DEF Present
  <1>c. cur = 0 /\ got = <<>> /\ list = <<>> /\ out = <<>>
      BY <1>a DEF Inv, Phased
  <1>1. Types'
    <2>1. Len(list) = 0 /\ 0 <= RUNAWAY
        BY <1>c, MapAssumption
    <2> QED
        BY <1>a, <1>b, <2>1 DEF Inv, Types
  <1>2. Phased'
      BY <1>a, <1>c DEF Phased
  <1>3. Complete'
    <2>1. \A k \in must' : ~(k <= cur')
        BY <1>a, <1>b, <1>c DEF Keys
    <2> QED
        BY <1>a, <1>b, <2>1 DEF Complete
  <1>4. Sound'
      BY <1>a, <1>b, <1>c, PairsEmpty DEF Sound
  <1>5. Lasting'
      BY <1>a, <1>c, PairsEmpty DEF Lasting
  <1> QED
      BY <1>1, <1>2, <1>3, <1>4, <1>5 DEF Inv

(* One more pair: what is there, is there. *)
LEMMA AddsPair ==
    ASSUME NEW s \in Seq(Pair), NEW k \in Keys, NEW v \in Nat
    PROVE  /\ Append(s, <<k, v>>) \in Seq(Pair)
           /\ Pairs(Append(s, <<k, v>>)) = Pairs(s) \cup {<<k, v>>}
           /\ KeysOf(Append(s, <<k, v>>)) = KeysOf(s) \cup {k}
  <1>1. <<k, v>> \in Pair
      BY DEF Pair
  <1>2. Pairs(Append(s, <<k, v>>)) = Pairs(s) \cup {<<k, v>>} /\ Append(s, <<k, v>>) \in Seq(Pair)
      BY <1>1, PairsAppend
  <1>3. /\ KeysOf(Append(s, <<k, v>>)) = {p[1] : p \in Pairs(Append(s, <<k, v>>))}
        /\ KeysOf(s) = {p[1] : p \in Pairs(s)}
      BY KeysArePairs
  <1> QED
      BY <1>2, <1>3

(* Every read step keeps the invariant. *)
LEMMA ReadStep == ASSUME Inv, Read PROVE Inv'
  <1>a. /\ map \in [Keys -> Nat \cup {Absent}] /\ clock \in Nat
        /\ cur \in 0 .. Size /\ got \in Seq(Pair) /\ list \in Seq(Pair) /\ out \in Seq(Pair)
      BY DEF Inv, Types
  <1>b. must \subseteq Present /\ Present \subseteq Keys /\ alive \subseteq must
      BY DEF Inv, Types, Complete, Present
  <1>c. \A k \in Present : map[k] \in Nat /\ (k \in alive => ~Expired(map[k], now))
    <2>1. now \in Nat
        BY DEF Inv, Types
    <2> QED
        BY <1>a, <1>b, <2>1 DEF Inv, Lasting, Present, InForce, Expired
  <1>d. Size \in Nat /\ CHUNK \in Nat \ {0}
      BY MapAssumption
  <1>1. CASE CopyBucket
    <2> DEFINE b == cur + 1
    <2>1. /\ pc = "batch" /\ cur < Size /\ cur' = b
          /\ got' = IF b \in Present THEN Append(got, <<b, map[b]>>) ELSE got
          /\ UNCHANGED <<map, clock, pc, op, now, list, out, result, must, may, alive>>
        BY <1>1 DEF CopyBucket, history
    <2>2. b \in Keys /\ b \in 0 .. Size /\ b # 0
        BY <1>a, <1>d, <2>1 DEF Keys
    <2>3. Present' = Present
        BY <2>1 DEF Present
    <2>4. /\ got' \in Seq(Pair)
          /\ KeysOf(got') = IF b \in Present THEN KeysOf(got) \cup {b} ELSE KeysOf(got)
          /\ Pairs(got') \subseteq Pairs(got) \cup (IF b \in Present THEN {<<b, map[b]>>} ELSE {})
      <3>1. CASE b \in Present
        <4>1. map[b] \in Nat /\ got' = Append(got, <<b, map[b]>>)
            BY <1>c, <2>1, <3>1
        <4> HIDE DEF b
        <4> QED
            BY <1>a, <2>2, <3>1, <4>1, AddsPair
      <3>2. CASE b \notin Present
          BY <1>a, <2>1, <3>2
      <3> QED
          BY <3>1, <3>2
    <2>5. \A k \in must : k <= b => k <= cur \/ (k = b /\ b \in Present)
        BY <1>a, <1>b DEF Keys
    <2> HIDE DEF b
    <2>6. Types'
        BY <2>1, <2>2, <2>4 DEF Inv, Types
    <2>7. Phased'
        BY <2>1, <2>2 DEF Inv, Phased
    <2>8. Complete'
        BY <2>1, <2>3, <2>4, <2>5 DEF Inv, Complete
    <2>9. Sound'
        BY <2>1, <2>3, <2>4 DEF Inv, Sound, Reading
    <2>10. Lasting'
        BY <1>c, <2>1, <2>4 DEF Inv, Lasting
    <2> QED
        BY <2>6, <2>7, <2>8, <2>9, <2>10 DEF Inv
  <1>2. CASE BatchReturns
    <2>0. pc = "batch" /\ list = <<>>
        BY <1>2 DEF BatchReturns, Inv, Phased
    <2>1. /\ out \o got \in Seq(Pair)
          /\ Pairs(out \o got) = Pairs(out) \cup Pairs(got)
          /\ KeysOf(out \o got) = KeysOf(out) \cup KeysOf(got)
      <3>1. Pairs(out \o got) = Pairs(out) \cup Pairs(got) /\ out \o got \in Seq(Pair)
          BY <1>a, PairsConcat
      <3>2. /\ KeysOf(out \o got) = {p[1] : p \in Pairs(out \o got)}
            /\ KeysOf(out) = {p[1] : p \in Pairs(out)} /\ KeysOf(got) = {p[1] : p \in Pairs(got)}
          BY KeysArePairs
      <3> QED
          BY <3>1, <3>2
    <2>2. ASSUME cur = Size, Deliver(Collected(TRUE)) PROVE Inv'
      <3>1. must \subseteq KeysOf(out \o got)
          BY <1>b, <1>d, <2>0, <2>1, <2>2 DEF Inv, Complete, Keys
      <3>2. \A p \in Pairs(out \o got) : Expired(p[2], now) => p[1] \notin alive
          BY <2>1 DEF Inv, Lasting
      <3> QED
          BY <2>1, <2>2, <3>1, <3>2, Delivers DEF Collected
    <2>3. ASSUME Len(got) >= CHUNK, out' = Collected(FALSE), got' = <<>>,
                 UNCHANGED <<map, clock, pc, op, now, cur, list, result, history>>
          PROVE  Inv'
      <3>1. out' = out \o got /\ UNCHANGED <<must, may, alive>>
          BY <2>3 DEF Collected, history
      <3>2. Present' = Present
          BY <2>3 DEF Present
      <3>3. got # <<>>
          BY <1>d, <2>3
      <3>4. Types'
          BY <2>0, <2>1, <2>3, <3>1 DEF Inv, Types
      <3>5. Phased'
          BY <2>0, <2>3, <3>3 DEF Inv, Phased
      <3>6. Complete'
          BY <2>0, <2>1, <2>3, <3>1, <3>2, PairsEmpty DEF Inv, Complete
      <3>7. Sound'
          BY <2>0, <2>1, <2>3, <3>1, <3>2, PairsEmpty DEF Inv, Sound, Reading
      <3>8. Lasting'
          BY <2>1, <2>3, <3>1, PairsEmpty DEF Inv, Lasting
      <3> QED
          BY <3>4, <3>5, <3>6, <3>7, <3>8 DEF Inv
    <2> QED
        BY <1>2, <2>2, <2>3 DEF BatchReturns
  <1>3. CASE Unsupported
    <2>1. /\ pc = "batch" /\ cur = 0 /\ pc' = "walk"
          /\ UNCHANGED <<map, clock, op, now, cur, got, list, out, result, must, may, alive>>
        BY <1>3 DEF Unsupported, history
    <2>2. list = <<>> /\ got = <<>> /\ out = <<>>
        BY <2>1 DEF Inv, Phased
    <2>3. Present' = Present
        BY <2>1 DEF Present
    <2>4. Types'
      <3>1. Len(list) = 0 /\ 0 <= RUNAWAY
          BY <2>2, MapAssumption
      <3> QED
          BY <2>1, <3>1 DEF Inv, Types
    <2>5. Phased' /\ Sound' /\ Lasting'
        BY <2>1, <2>2, <2>3 DEF Inv, Phased, Sound, Lasting, Reading
    <2>6. Complete'
        BY <2>1, <2>2, <2>3, PairsEmpty DEF Inv, Complete
    <2> QED
        BY <2>4, <2>5, <2>6 DEF Inv
  <1>4. CASE WalkNext
    <2>1. pc = "walk" /\ Ahead # {}
        BY <1>4 DEF WalkNext
    <2>2. NextKey \in Ahead /\ \A k \in Ahead : NextKey <= k
        BY <2>1, NextIsLeast
    <2>3. NextKey \in Keys /\ NextKey \in Present
        BY <2>2 DEF Ahead, Present
    <2>4. CASE Runaway(Listed(NextKey))
      <3>1. Rest /\ result' = result
          BY <1>4, <2>4 DEF WalkNext, NextKey
      <3> QED
          BY <3>1, Rests DEF Inv, Types
    <2>5. CASE ~Runaway(Listed(NextKey))
      <3>1. /\ list' = Append(list, <<NextKey, 0>>) /\ cur' = NextKey
            /\ UNCHANGED <<map, clock, pc, op, now, got, out, result, must, may, alive>>
          BY <1>4, <2>5 DEF WalkNext, NextKey, Listed, history
      <3>2. /\ list' \in Seq(Pair) /\ KeysOf(list') = KeysOf(list) \cup {NextKey}
            /\ Pairs(list') = Pairs(list) \cup {<<NextKey, 0>>}
          BY <1>a, <2>3, <3>1, AddsPair
      <3>3. Present' = Present
          BY <3>1 DEF Present
      <3>4. \A k \in must : k <= NextKey => k <= cur \/ k = NextKey
        <4>1. SUFFICES ASSUME NEW k \in must, k <= NextKey, ~(k <= cur) PROVE k = NextKey
            OBVIOUS
        <4>2. k \in Present /\ k \in Nat /\ k > 0 /\ NextKey \in Nat
            BY <1>b, <2>3, <1>d DEF Keys
        <4>3. k > From
            BY <1>a, <4>1, <4>2 DEF From
        <4> QED
            BY <2>2, <4>1, <4>2, <4>3 DEF Ahead
      <3>5. Types'
        <4>1. Len(list') <= RUNAWAY
            BY <2>5, <3>1, <3>2, MapAssumption DEF Runaway, Listed
        <4>2. NextKey \in 0 .. Size
            BY <2>3 DEF Keys
        <4> QED
            BY <3>1, <3>2, <4>1, <4>2 DEF Inv, Types
      <3>6. Phased'
          BY <2>1, <3>1 DEF Inv, Phased
      <3>7. Complete'
          BY <2>1, <3>1, <3>2, <3>3, <3>4 DEF Inv, Complete
      <3>8. Sound'
          BY <2>1, <2>3, <3>1, <3>2, <3>3 DEF Inv, Sound, Reading
      <3>9. Lasting'
        <4>1. ~Expired(0, now)
            BY DEF Expired
        <4> QED
            BY <3>1, <3>2, <4>1 DEF Inv, Lasting
      <3> QED
          BY <3>5, <3>6, <3>7, <3>8, <3>9 DEF Inv
    <2> QED
        BY <2>4, <2>5
  <1>5. CASE WalkEnds
    <2>1. pc = "walk" /\ Ahead = {} /\ got = <<>> /\ out = <<>>
        BY <1>5 DEF WalkEnds, Inv, Phased
    <2>2. must \subseteq KeysOf(list)
      <3> SUFFICES ASSUME NEW k \in must PROVE k \in KeysOf(list)
          OBVIOUS
      <3>1. k \in Present /\ k \in Nat
          BY <1>b DEF Keys
      <3>2. ~(k > From) /\ From \in Nat /\ From <= cur
          BY <1>a, <2>1, <3>1 DEF Ahead, From
      <3> QED
          BY <1>a, <2>1, <3>1, <3>2 DEF Inv, Complete
    <2>3. CASE op = "clear"
      <3>1. Deliver(list)
          BY <1>5, <2>3 DEF WalkEnds
      <3> QED
          BY <1>a, <2>2, <3>1, Delivers DEF Inv, Lasting
    <2>4. CASE op # "clear"
      <3>1. /\ pc' = "lookup" /\ cur' = 0
            /\ UNCHANGED <<map, clock, op, now, got, list, out, result, must, may, alive>>
          BY <1>5, <2>4 DEF WalkEnds, history
      <3>2. Present' = Present
          BY <3>1 DEF Present
      <3>3. Types'
          BY <1>d, <3>1 DEF Inv, Types
      <3>4. Phased' /\ Sound' /\ Lasting'
          BY <2>1, <2>4, <3>1, <3>2 DEF Inv, Phased, Sound, Lasting, Reading
      <3>5. Complete'
          BY <2>2, <3>1, <3>2 DEF Inv, Complete
      <3> QED
          BY <3>3, <3>4, <3>5 DEF Inv
    <2> QED
        BY <2>3, <2>4
  <1>6. CASE Lookup
    <2> DEFINE k == Head(list)[1]
    <2>1. /\ pc = "lookup" /\ list # <<>> /\ list' = Tail(list)
          /\ out' = IF k \in Present THEN Append(out, <<k, map[k]>>) ELSE out
          /\ UNCHANGED <<map, clock, pc, op, now, cur, got, result, must, may, alive>>
        BY <1>6 DEF Lookup, history
    <2>2. /\ Head(list) \in Pair /\ list' \in Seq(Pair)
          /\ Pairs(list) = {Head(list)} \cup Pairs(list')
        BY <1>a, <2>1, PairsTail
    <2>3. k \in Keys
        BY <2>2 DEF Pair
    <2>4. KeysOf(list) = {k} \cup KeysOf(list')
      <3>1. KeysOf(list') = {p[1] : p \in Pairs(list')} /\ KeysOf(list) = {p[1] : p \in Pairs(list)}
          BY KeysArePairs
      <3> QED
          BY <2>2, <3>1
    <2>5. /\ out' \in Seq(Pair)
          /\ KeysOf(out') = IF k \in Present THEN KeysOf(out) \cup {k} ELSE KeysOf(out)
          /\ Pairs(out') \subseteq Pairs(out) \cup (IF k \in Present THEN {<<k, map[k]>>} ELSE {})
      <3>1. CASE k \in Present
        <4>1. map[k] \in Nat /\ out' = Append(out, <<k, map[k]>>)
            BY <1>c, <2>1, <3>1
        <4> HIDE DEF k
        <4> QED
            BY <1>a, <2>3, <3>1, <4>1, AddsPair
      <3>2. CASE k \notin Present
          BY <1>a, <2>1, <3>2
      <3> QED
          BY <3>1, <3>2
    <2>6. Present' = Present
        BY <2>1 DEF Present
    <2> HIDE DEF k
    <2>7. Types'
        BY <2>1, <2>2, <2>5 DEF Inv, Types
    <2>8. Phased'
        BY <2>1 DEF Inv, Phased
    <2>9. Complete'
        BY <1>b, <2>1, <2>4, <2>5, <2>6 DEF Inv, Complete
    <2>10. Sound'
        BY <2>1, <2>4, <2>5, <2>6 DEF Inv, Sound, Reading
    <2>11. Lasting'
      <3>1. \A p \in Pairs(out') : p \in Pairs(out) \/ (k \in Present /\ p = <<k, map[k]>>)
          BY <2>5
      <3>2. \A p \in Pairs(out') : Expired(p[2], now) => p[1] \notin alive
          BY <1>c, <3>1 DEF Inv, Lasting
      <3> QED
          BY <2>1, <2>2, <3>2 DEF Inv, Lasting
    <2> QED
        BY <2>7, <2>8, <2>9, <2>10, <2>11 DEF Inv
  <1>7. CASE LookupsEnd
    <2>1. pc = "lookup" /\ list = <<>> /\ Deliver(out)
        BY <1>7 DEF LookupsEnd
    <2>2. must \subseteq KeysOf(out)
        BY <2>1, PairsEmpty DEF Inv, Complete
    <2> QED
        BY <1>a, <2>1, <2>2, Delivers DEF Inv, Lasting
  <1> QED
      BY <1>1, <1>2, <1>3, <1>4, <1>5, <1>6, <1>7 DEF Read

LEMMA DeleteStep == ASSUME Inv, DeleteNext PROVE Inv'
  <1> DEFINE k == Head(list)[1]
             doomed == Emptying \/ Expired(Head(list)[2], now)
  <1>1. /\ pc = "delete" /\ list # <<>> /\ list' = Tail(list) /\ Remember
        /\ map' = IF doomed THEN [map EXCEPT ![k] = Absent] ELSE map
        /\ UNCHANGED <<clock, pc, op, now, cur, got, out, result>>
      BY DEF DeleteNext, Remaining
  <1>2. map \in [Keys -> Nat \cup {Absent}] /\ list \in Seq(Pair) /\ alive \subseteq Keys
      BY DEF Inv, Types
  <1>3. k \in Keys
      BY <1>1, <1>2, PairsTail DEF Pair
  <1>4. map' \in [Keys -> Nat \cup {Absent}] /\ (Emptying => map'[k] = Absent)
      BY <1>1, <1>2, <1>3
  <1>5. \A j \in alive \cap Present' : InForce(map'[j], now)
    <2>1. \A j \in alive \cap Present' : map'[j] = map[j]
        BY <1>1, <1>2, <1>3 DEF Present
    <2> QED
        BY <2>1 DEF Inv, Lasting
  <1> QED
      BY <1>1, <1>4, <1>5, MapChanges

LEMMA InvStep == Inv /\ [Next]_vars => Inv'
  <1> SUFFICES ASSUME Inv, [Next]_vars PROVE Inv'
      OBVIOUS
  <1>1. CASE Others
      BY <1>1, OthersStep
  <1>2. ASSUME NEW o \in Ops, Begin(o) PROVE Inv'
      BY <1>2, BeginStep
  <1>3. CASE Read
      BY <1>3, ReadStep
  <1>4. CASE DeleteNext
      BY <1>4, DeleteStep
  <1>5. CASE Finish \/ Fail
    <2>1. Rest /\ result' = result
        BY <1>5 DEF Finish, Fail
    <2> QED
        BY <2>1, Rests DEF Inv, Types
  <1>6. CASE UNCHANGED vars
    <2>1. UNCHANGED <<map, clock, pc, op, now, cur, got, list, out, result, must, may, alive>>
        BY <1>6 DEF vars, tool, history
    <2>2. Types' /\ Phased'
        BY <2>1 DEF Inv, Types, Phased
    <2>3. Complete' /\ Sound' /\ Lasting'
        BY <2>1 DEF Inv, Complete, Sound, Lasting, Present, Reading, Emptying
    <2> QED
        BY <2>2, <2>3 DEF Inv
  <1> QED
      BY <1>1, <1>2, <1>3, <1>4, <1>5, <1>6 DEF Next, Step

LEMMA Invariance == Spec => []Inv
  <1> QED
      BY InvInit, InvStep, PTL DEF Spec

-----------------------------------------------------------------------------

(* The tool's locals stay in their types, and keys() within its limit.       *)
THEOREM MapTypeCorrect == Spec => []TypeOK
  <1>1. Inv => TypeOK
      BY DEF Inv, Types, TypeOK, Pair
  <1> QED
      BY <1>1, Invariance, PTL

(* clear_blocks, clear_states, clear_port_rules and the loop of reset --all  *)
(* leave nothing of what was there when they began.                          *)
THEOREM ClearsAll == Spec => []ClearsEverything
  <1>1. Inv => ClearsEverything
      BY PairsEmpty DEF Inv, Complete, ClearsEverything
  <1> QED
      BY <1>1, Invariance, PTL

(* remove_expired_blocks never deletes a block in force since it began.      *)
THEOREM SparesLive == Spec => []SparesLiveBlocks
  <1>1. Inv => SparesLiveBlocks
      BY DEF Inv, Lasting, SparesLiveBlocks, Pairs
  <1> QED
      BY <1>1, Invariance, PTL

(* keys() and items() implement MapRead.                                     *)
THEOREM ReadsImplementMapRead == Spec => ReadsAreComplete
  <1>1. Init => Abstract!Init
    <2> SUFFICES ASSUME Init PROVE Abstract!Init
        OBVIOUS
    <2>1. Present = {} /\ ~Reading /\ result = {}
        BY DEF Init, Present, Reading
    <2> QED
        BY <2>1 DEF Abstract!Init
  <1>2. Inv /\ Inv' /\ [Next]_vars => [Abstract!Next]_Abstract!vars
    <2> SUFFICES ASSUME Inv, Inv', [Next]_vars PROVE [Abstract!Next]_Abstract!vars
        OBVIOUS
    <2>a. Present \subseteq Keys /\ Present' \subseteq Keys
        BY DEF Present
    <2>1. ASSUME Remember, UNCHANGED <<pc, result>> PROVE Abstract!Change
      <3>1. Reading' <=> Reading
          BY <2>1 DEF Reading
      <3> QED
          BY <2>a, <2>1, <3>1 DEF Abstract!Change, Remember
    <2>2. ASSUME UNCHANGED <<map, result>>, ~Reading, ~Reading' PROVE UNCHANGED Abstract!vars
      <3>1. Present' = Present
          BY <2>2 DEF Present
      <3>2. Reading = FALSE /\ Reading' = FALSE
          BY <2>2 DEF Reading
      <3> QED
          BY <2>2, <3>1, <3>2 DEF Abstract!vars
    <2>3. ASSUME UNCHANGED <<map, result, must, may>>, Reading, Reading' PROVE UNCHANGED Abstract!vars
      <3>1. Present' = Present
          BY <2>3 DEF Present
      <3> QED
          BY <2>3, <3>1 DEF Abstract!vars
    <2>4. ASSUME Rest, result' = result, Reading PROVE Abstract!Fail
      <3>1. ~Reading' /\ Present' = Present
          BY <2>4 DEF Rest, Reading, Present
      <3> QED
          BY <2>4, <3>1 DEF Abstract!Fail
    <2>5. ASSUME NEW pairs, Deliver(pairs), Reading,
                 must \subseteq KeysOf(pairs), KeysOf(pairs) \subseteq may
          PROVE  Abstract!Return
      <3>1. result' = KeysOf(pairs) /\ map' = map /\ ~Reading'
          BY <2>5 DEF Deliver, Rest, Reading
      <3>2. Present' = Present
          BY <3>1 DEF Present
      <3> QED
          BY <2>5, <3>1, <3>2 DEF Abstract!Return
    <2>6. CASE Others
      <3>1. CASE Tick
        <4>1. UNCHANGED <<map, pc, result, must, may>>
            BY <3>1 DEF Tick, tool, history
        <4>2. Reading' <=> Reading
            BY <4>1 DEF Reading
        <4> QED
            BY <2>2, <2>3, <4>1, <4>2
      <3>2. CASE ~Tick
        <4>1. Remember /\ UNCHANGED <<pc, result>>
            BY <2>6, <3>2 DEF Others, Update, Delete, tool
        <4> QED
            BY <2>1, <4>1 DEF Abstract!Next
      <3> QED
          BY <3>1, <3>2
    <2>7. ASSUME NEW o \in Ops, Begin(o) PROVE Abstract!Begin
      <3>1. /\ ~Reading /\ Reading' /\ result' = {} /\ must' = Present /\ may' = Present
            /\ Present' = Present
          BY <2>7 DEF Begin, Reading, Present
      <3> QED
          BY <3>1 DEF Abstract!Begin
    <2>8. CASE Read
      <3>1. Reading
          BY <2>8 DEF Read, CopyBucket, BatchReturns, Unsupported, WalkNext, WalkEnds,
                      Lookup, LookupsEnd, Reading
      <3>2. CASE Rest /\ result' = result
          BY <2>4, <3>1, <3>2 DEF Abstract!Next
      <3>3. CASE UNCHANGED <<map, result, must, may>> /\ Reading'
          BY <2>3, <3>1, <3>3
      <3>5. CASE BatchReturns /\ Deliver(out \o got) /\ cur = Size
        <4>1. /\ KeysOf(out \o got) = {p[1] : p \in Pairs(out \o got)}
              /\ KeysOf(out) = {p[1] : p \in Pairs(out)} /\ KeysOf(got) = {p[1] : p \in Pairs(got)}
            BY KeysArePairs
        <4>2. Pairs(out \o got) = Pairs(out) \cup Pairs(got)
            BY PairsConcat DEF Inv, Types
        <4>3. KeysOf(out \o got) = KeysOf(out) \cup KeysOf(got)
            BY <4>1, <4>2
        <4>4. \A k \in must : k <= cur
            BY <3>5 DEF Inv, Types, Keys
        <4> QED
            BY <2>5, <3>1, <3>5, <4>3, <4>4 DEF Inv, Complete, Sound, BatchReturns, Abstract!Next
      <3>6. CASE WalkEnds /\ op = "clear"
        <4>1. Deliver(list) /\ KeysOf(list) \subseteq may
            BY <3>1, <3>6 DEF WalkEnds, Inv, Sound
        <4>2. must \subseteq KeysOf(list)
          <5> SUFFICES ASSUME NEW k \in must PROVE k \in KeysOf(list)
              OBVIOUS
          <5>1. k \in Present /\ k \in Nat
              BY DEF Inv, Complete, Types, Keys
          <5>2. cur \in Nat /\ pc = "walk" /\ ~(k > From)
              BY <3>6, <5>1 DEF WalkEnds, Ahead, Inv, Types
          <5> QED
              BY <5>1, <5>2 DEF Inv, Complete, From
        <4> QED
            BY <2>5, <3>1, <4>1, <4>2 DEF Abstract!Next
      <3>7. CASE LookupsEnd
          BY <2>5, <3>1, <3>7, PairsEmpty DEF LookupsEnd, Inv, Complete, Sound, Abstract!Next
      <3>8. CASE BatchReturns
        <4>1. \/ Deliver(out \o got) /\ cur = Size
              \/ UNCHANGED <<map, result, must, may, pc>> /\ pc = "batch"
            BY <3>8 DEF BatchReturns, Collected, history
        <4> QED
            BY <3>3, <3>5, <3>8, <4>1 DEF Reading
      <3>9. CASE WalkNext
        <4>1. (Rest /\ result' = result) \/ (UNCHANGED <<map, result, must, may, pc>> /\ pc = "walk")
            BY <3>9 DEF WalkNext, history
        <4> QED
            BY <3>2, <3>3, <4>1 DEF Reading
      <3>10. CASE WalkEnds /\ op # "clear"
        <4>1. UNCHANGED <<map, result, must, may>> /\ Reading'
            BY <3>10 DEF WalkEnds, history, Reading
        <4> QED
            BY <3>3, <4>1
      <3>11. CASE CopyBucket \/ Unsupported \/ Lookup
        <4>1. UNCHANGED <<map, result, must, may>> /\ Reading'
            BY <3>11 DEF CopyBucket, Unsupported, Lookup, history, Reading
        <4> QED
            BY <3>3, <4>1
      <3> QED
          BY <2>8, <3>6, <3>7, <3>8, <3>9, <3>10, <3>11 DEF Read
    <2>9. CASE DeleteNext
      <3>1. Remember /\ UNCHANGED <<pc, result>>
          BY <2>9 DEF DeleteNext
      <3> QED
          BY <2>1, <3>1 DEF Abstract!Next
    <2>10. CASE Finish \/ Fail
      <3>1. Rest /\ result' = result
          BY <2>10 DEF Finish, Fail
      <3>2. CASE Reading
          BY <2>4, <3>1, <3>2 DEF Abstract!Next
      <3>3. CASE ~Reading
          BY <2>2, <3>1, <3>3 DEF Rest, Reading
      <3> QED
          BY <3>2, <3>3
    <2>11. CASE UNCHANGED vars
      <3>1. UNCHANGED <<map, pc, result, must, may>>
          BY <2>11 DEF vars, tool, history
      <3>2. Reading' <=> Reading
          BY <3>1 DEF Reading
      <3> QED
          BY <2>2, <2>3, <3>1, <3>2
    <2> QED
        BY <2>6, <2>7, <2>8, <2>9, <2>10, <2>11 DEF Next, Step, Abstract!Next
  <1> QED
      BY <1>1, <1>2, Invariance, PTL DEF Spec, Abstract!Spec, ReadsAreComplete
=============================================================================
