----------------------------- MODULE RateLimiter -----------------------------
(***************************************************************************)
(* RateLimiter.check: one counter in Redis for each bucket, incremented by *)
(* every request and expired a window after the request that started it.   *)
(*                                                                         *)
(* INCR and EXPIRE are two commands.  Between them other requests count,   *)
(* and a worker may die: then the counter has no end.                      *)
(*                                                                         *)
(* The requests are those of the module that extends this one: it says     *)
(* which of them are at which step, and Tick is every module's step.       *)
(***************************************************************************)
EXTENDS Integers

CONSTANTS
    Bucket,             \* bucket and identifier: what a counter is for
    Limit,              \* requests that a window admits
    Window,             \* window_seconds, in ticks
    MaxNow,             \* bound: ticks of a behaviour
    Never               \* model value: a key without a time to live

VARIABLES
    now,
    count,              \* Redis: count[b], 0 if there is no key
    until               \* Redis: until[b], when the key expires, or Never

limiter == <<now, count, until>>

ASSUME LimiterAssumption ==
    /\ Limit \in Nat \ {0} /\ Window \in Nat \ {0} /\ MaxNow \in Nat
    /\ Never \notin Int

LimiterType ==
    /\ now \in 0..MaxNow
    /\ count \in [Bucket -> Nat]
    /\ until \in [Bucket -> Nat \cup {Never}]

LimiterInit ==
    /\ now = 0
    /\ count = [b \in Bucket |-> 0]
    /\ until = [b \in Bucket |-> Never]

\* INCR: the reply is count'[b].
Incr(b) == count' = [count EXCEPT ![b] = @ + 1] /\ UNCHANGED <<now, until>>

\* EXPIRE, after the INCR that made the key.
Expire(b) ==
    /\ until' = [until EXCEPT ![b] = now + Window]
    /\ UNCHANGED <<now, count>>

\* Keys whose time is over are gone.
Tick ==
    LET over == {b \in Bucket : until[b] # Never /\ until[b] <= now + 1}
    IN  /\ now < MaxNow
        /\ now' = now + 1
        /\ count' = [b \in Bucket |-> IF b \in over THEN 0 ELSE count[b]]
        /\ until' = [b \in Bucket |-> IF b \in over THEN Never ELSE until[b]]
=============================================================================
