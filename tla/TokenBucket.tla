---------------------------- MODULE TokenBucket -----------------------------
(***************************************************************************)
(* The refill arithmetic of the per-source token bucket in                 *)
(* bpf/firewall.bpf.c, on unsigned words that wrap at WORD.                *)
(***************************************************************************)
EXTENDS Integers

CONSTANTS NSEC_PER_SEC,  \* clock ticks per second
          WORD           \* 2^64 in the program

ASSUME BucketAssumption ==
    /\ NSEC_PER_SEC \in Nat \ {0}
    /\ WORD \in Nat \ {0}

(* Mutant of Elapsed: the unsigned difference, without the comparison. *)
ElapsedWrapped(last, now) == (now - last) % WORD

(* `now` was read before the lock, so it may be behind last_refill_ns. *)
Elapsed(last, now) == IF now > last THEN now - last ELSE 0

(* Tokens earned: a second or more of idleness earns one second's worth. *)
Earned(elapsed, rate) ==
    IF elapsed >= NSEC_PER_SEC THEN rate
    ELSE ((elapsed * rate) % WORD) \div NSEC_PER_SEC

(* The part of an idle stretch that earns nothing. *)
Skipped(elapsed) ==
    IF elapsed >= NSEC_PER_SEC THEN elapsed - NSEC_PER_SEC ELSE 0

(* Mutants of Refilled: every refill restarts the clock, so fractions of a   *)
(* token are lost; or only a long idle stretch moves it, so time counts twice. *)
RefilledToNow(last, now, rate) == IF now > last THEN now ELSE last

RefilledWhenIdle(last, now, rate) ==
    IF Elapsed(last, now) >= NSEC_PER_SEC THEN now ELSE last

(* last_refill_ns moves by the time the whole tokens took to earn. *)
Refilled(last, now, rate) ==
    LET add == Earned(Elapsed(last, now), rate)
    IN  IF Elapsed(last, now) >= NSEC_PER_SEC THEN now
        ELSE IF add > 0 THEN last + ((add * NSEC_PER_SEC) % WORD) \div rate
        ELSE last

(* Bucket content after the refill, before this packet takes its token. *)
Topped(tokens, add, burst) ==
    IF (tokens + add) % WORD > burst THEN burst ELSE (tokens + add) % WORD
=============================================================================
