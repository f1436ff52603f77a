---------------------------- MODULE ReplayGuard ----------------------------
(***************************************************************************)
(* What replay defense promises, without saying how: while an acceptance   *)
(* is remembered, the same record is not accepted again. The last step of  *)
(* verify_handoff and inverba/seen.py are meant to implement it.           *)
(***************************************************************************)
EXTENDS Integers, Sequences

CONSTANTS
    Signatures,   \* what identifies a record
    None,         \* no time to live: memory lasts as long as the process
    TTL           \* how long an acceptance is remembered, or None

VARIABLES
    clock,        \* the wall clock
    log           \* the acceptances so far, oldest first

Forgotten(first, when) == TTL # None /\ when - first > TTL

Init == clock \in Int /\ log = << >>

Tick == clock' = clock + 1 /\ UNCHANGED log

Accept(s) ==
    /\ \A i \in DOMAIN log : log[i].signature = s => Forgotten(log[i].at, clock)
    /\ log' = Append(log, [signature |-> s, at |-> clock])
    /\ UNCHANGED clock

Next == Tick \/ \E s \in Signatures : Accept(s)

Spec == Init /\ [][Next]_<<clock, log>>
=============================================================================
