---------------------------- MODULE RateLimiter ----------------------------
(***************************************************************************)
(* The in-memory sliding-window limiter of one server process              *)
(* (apps/api/src/lib/rateLimit.ts).  The handlers of Identity pass through *)
(* it before anything else; a refused request changes nothing else.        *)
(***************************************************************************)
EXTENDS Integers, FiniteSets

CONSTANTS
    Key,         \* "handler:address" keys of the buckets
    Limit,       \* RATE_LIMIT_AUTH_MAX
    Window,      \* RATE_LIMIT_AUTH_WINDOW_SECONDS
    SweepEvery,  \* the 60 s of sweep, in the same unit
    MaxTime      \* bound: the clock stops here

ASSUME LimiterAssumption ==
    /\ Limit \in Nat \ {0} /\ Window \in Nat \ {0} /\ SweepEvery \in Nat \ {0}
    /\ MaxTime \in Nat

VARIABLES
    now,       \* Date.now()
    hits,      \* the buckets: the hits still remembered
    lastSweep,
    admitted   \* history: the hits of all the requests let through

limiter == <<now, hits, lastSweep, admitted>>

LimiterInit ==
    /\ now = 0 /\ lastSweep = 0
    /\ hits = [k \in Key |-> {}] /\ admitted = [k \in Key |-> {}]

\* A hit is a time; nth tells apart those of one key at the same time.
Hit(k) == [at |-> now, nth |-> Cardinality(admitted[k])]

\* The hits of s less than span ago.
Recent(s, span) == {h \in s : now - h.at < span}

\* Mistake the runs must catch: a sweep forgets every bucket, as when the
\* process restarts.
SweptAway == [k \in Key |-> IF now - lastSweep < SweepEvery THEN hits[k] ELSE {}]

\* sweep: once per SweepEvery, whatever the window is.
Swept == [k \in Key |-> IF now - lastSweep < SweepEvery THEN hits[k]
                        ELSE Recent(hits[k], SweepEvery)]

SweepTime == IF now - lastSweep < SweepEvery THEN lastSweep ELSE now

\* Mistake the runs must catch: refused requests are remembered too.
AttemptRemembers(k) ==
    LET h == Recent(Swept[k], Window) IN
    /\ lastSweep' = SweepTime
    /\ hits' = [Swept EXCEPT ![k] = h \cup {Hit(k)}]
    /\ admitted' = IF Cardinality(h) >= Limit THEN admitted
                   ELSE [admitted EXCEPT ![k] = @ \cup {Hit(k)}]
    /\ UNCHANGED now

\* rateLimit: the hit is recorded only when the request is let through.
Attempt(k) ==
    LET h == Recent(Swept[k], Window) IN
    /\ lastSweep' = SweepTime
    /\ IF Cardinality(h) >= Limit
       THEN hits' = Swept /\ UNCHANGED admitted
       ELSE /\ hits' = [Swept EXCEPT ![k] = h \cup {Hit(k)}]
            /\ admitted' = [admitted EXCEPT ![k] = @ \cup {Hit(k)}]
    /\ UNCHANGED now

Tick ==
    /\ now < MaxTime
    /\ now' = now + 1
    /\ UNCHANGED <<hits, lastSweep, admitted>>

LimiterNext == Tick \/ \E k \in Key : Attempt(k)

-----------------------------------------------------------------------------
LimiterTypeOK ==
    /\ now \in 0 .. MaxTime /\ lastSweep \in 0 .. now
    /\ hits \in [Key -> SUBSET [at : 0 .. now, nth : Nat]]
    /\ admitted \in [Key -> SUBSET [at : 0 .. now, nth : Nat]]
    /\ \A k \in Key : Cardinality(hits[k]) <= Limit

Shorter(a, b) == IF a < b THEN a ELSE b

(* rateLimit over the sweeps: within any window, cut at the 60 s after which *)
(* sweep forgets hits, at most Limit requests of a key are let through.      *)
WindowsAreLimited ==
    \A k \in Key : Cardinality(Recent(admitted[k], Shorter(Window, SweepEvery))) <= Limit
=============================================================================
