---------------------------- MODULE RateLimiter -----------------------------
(***************************************************************************)
(* What the rate limit of struct fw_config (bpf/common.h) promises of a    *)
(* source, without tokens, refills or rounding: virtual scheduling.  Every *)
(* admitted packet reserves Period of a bucket's time; tat, the            *)
(* theoretical arrival time, is where the reservations end, and it may run *)
(* at most Burst periods ahead of the clock.  A packet that arrives later  *)
(* than that starts from its own arrival: time that passed unused is lost, *)
(* except for Grain, the time of a token that was still being earned.      *)
(***************************************************************************)
EXTENDS Integers

CONSTANTS Buckets,
          Period,    \* time between two packets at the highest rate
          Burst,     \* packets that may be admitted ahead of their time
          Grain      \* time that may be saved beyond the burst

VARIABLES now,       \* the clock
          tat,       \* bucket -> theoretical arrival time
          seen,      \* bucket -> arrival time of the packet handled last
          admitted   \* bucket -> packets admitted since it was opened

vars == <<now, tat, seen, admitted>>

Init ==
    /\ now = 0
    /\ tat \in [Buckets -> 0 .. Burst * Period]
    /\ seen = [b \in Buckets |-> 0]
    /\ admitted = [b \in Buckets |-> 0]

Later(s, t) == IF s > t THEN s ELSE t

(* The reservations of b now end at `from` or after, and within the burst. *)
Reserve(b, from) ==
    \E t \in from .. (now + Burst * Period) : tat' = [tat EXCEPT ![b] = t]

(* In each, `at` is when the packet arrived: others may have been handled   *)
(* since.                                                                   *)
Open(b, at) ==
    /\ Reserve(b, at)
    /\ seen' = [seen EXCEPT ![b] = at]
    /\ admitted' = [admitted EXCEPT ![b] = 0]
    /\ UNCHANGED now

Admit(b, at) ==
    /\ Reserve(b, Later(tat[b], at - Grain) + Period)
    /\ seen' = [seen EXCEPT ![b] = at]
    /\ admitted' = [admitted EXCEPT ![b] = @ + 1]
    /\ UNCHANGED now

(* A packet that was refused, or that the limit does not concern.  Whatever  *)
(* happens to the settings, no reservation is taken back.                    *)
Touch(b, at) ==
    /\ Reserve(b, tat[b])
    /\ seen' = [seen EXCEPT ![b] = at]
    /\ UNCHANGED <<now, admitted>>

Advance ==
    /\ now' > now
    /\ UNCHANGED <<tat, seen, admitted>>

Next ==
    \/ Advance
    \/ \E b \in Buckets : \E at \in 0 .. now : Open(b, at) \/ Admit(b, at) \/ Touch(b, at)

Spec == Init /\ [][Next]_vars
=============================================================================
