------------------------------ MODULE Governor -------------------------------
(***************************************************************************)
(* RateGovernor and _fetch_retrying of cdx.py: the threads of a CDX run    *)
(* share one pace.  A thread reserves the next start under a lock and      *)
(* sleeps to it outside the lock; answers stretch or ease the delay, a     *)
(* server's Retry-After and a run of refused connections push the next     *)
(* start away.  Times are kept relative to now, so that they stay small.   *)
(***************************************************************************)
EXTENDS Naturals, Sequences, FiniteSets

CONSTANTS Thread,
          MinDelay, MaxDelay,   \* bounds of the delay between two starts
          Ramp, Breaker,        \* successes before easing, refusals before the breaker
          Pause,                \* of the breaker
          MaxWait,              \* longest Retry-After a server sends; the code has no bound
          Retries

ASSUME GovernorAssumption ==
  /\ {MinDelay, MaxDelay, Ramp, Breaker, Pause, MaxWait, Retries} \subseteq Nat \ {0}
  /\ MinDelay <= MaxDelay

VARIABLES
  delay, next,            \* `delay` and `_next_at`, the latter as time from now, at least 0
  successes, refusals,
  doing,                  \* what each thread does: "idle", "wait", "sleep" or "ask"
  at,                     \* time from now to the start a sleeping thread reserved
  tried,
  pause,                  \* history: what is left of the breaker's pause
  early                   \* history: threads that had their start when the breaker tripped

governorVars == <<delay, next, successes, refusals, doing, at, tried, pause, early>>

GovernorTypeOK ==
  /\ delay \in MinDelay..MaxDelay /\ next \in Nat
  /\ successes \in 0..Ramp /\ refusals \in 0..Breaker - 1
  /\ doing \in [Thread -> {"idle", "wait", "sleep", "ask"}] /\ at \in [Thread -> Nat]
  /\ tried \in [Thread -> 0..Retries] /\ pause \in 0..Pause /\ early \subseteq Thread

GovernorInit ==
  /\ delay = MinDelay /\ next = 0 /\ successes = 0 /\ refusals = 0
  /\ doing = [t \in Thread |-> "idle"] /\ at = [t \in Thread |-> 0]
  /\ tried = [t \in Thread |-> 0]
  /\ pause = 0 /\ early = {}
-----------------------------------------------------------------------------
Greater(a, b) == IF a > b THEN a ELSE b
Lesser(a, b)  == IF a < b THEN a ELSE b

\* `backoff_factor` and `ramp_factor` on a coarse scale of delays.
Longer(d)  == Lesser(MaxDelay, d + 1)
Shorter(d) == Greater(MinDelay, d - 1)

Lookup(t) ==
  /\ doing[t] = "idle"
  /\ doing' = [doing EXCEPT ![t] = "wait"] /\ tried' = [tried EXCEPT ![t] = 1]
  /\ UNCHANGED <<delay, next, successes, refusals, at, pause, early>>

\* `wait`, its locked half: the start is reserved, and the next one is a delay after it.
Reserve(t) ==
  /\ doing[t] = "wait"
  /\ at' = [at EXCEPT ![t] = next] /\ next' = next + delay
  /\ doing' = [doing EXCEPT ![t] = "sleep"]
  /\ UNCHANGED <<delay, successes, refusals, tried, pause, early>>

\* The other half: nothing looks at the pace again when the sleep is over.
BeginRequest(t) ==
  /\ doing[t] = "sleep" /\ at[t] = 0
  /\ doing' = [doing EXCEPT ![t] = "ask"] /\ early' = early \ {t}
  /\ UNCHANGED <<delay, next, successes, refusals, at, tried, pause>>

FinishLookup(t) == doing' = [doing EXCEPT ![t] = "idle"] /\ tried' = [tried EXCEPT ![t] = 0]
Again(t)  == doing' = [doing EXCEPT ![t] = "wait"] /\ tried' = [tried EXCEPT ![t] = @ + 1]
MutRetry(t, stop) ==
  IF stop THEN FinishLookup(t) ELSE doing' = [doing EXCEPT ![t] = "wait"] /\ UNCHANGED tried
Retry(t, stop) == IF stop \/ tried[t] = Retries THEN FinishLookup(t) ELSE Again(t)

\* `on_success`.
Success(t) ==
  /\ doing[t] = "ask"
  /\ LET eased == successes + 1 >= Ramp /\ delay > MinDelay IN
     /\ successes' = IF eased THEN 0 ELSE Lesser(successes + 1, Ramp)
     /\ delay' = IF eased THEN Shorter(delay) ELSE delay
  /\ refusals' = 0
  /\ FinishLookup(t)
  /\ UNCHANGED <<next, at, pause, early>>

\* `on_throttle` without a refusal: 429, 503 or 504, with or without a Retry-After.  `stop`:
\* the caller has a better answer to this status than to ask again.
Throttled429(t, after, stop) ==
  /\ doing[t] = "ask"
  /\ successes' = 0 /\ delay' = Longer(delay) /\ refusals' = 0
  /\ next' = Greater(next, after)
  /\ Retry(t, stop)
  /\ UNCHANGED <<at, pause, early>>

MutRefuse(t) ==
  /\ doing[t] = "ask"
  /\ successes' = 0 /\ delay' = Longer(delay)
  /\ LET trips == refusals + 1 >= Breaker IN
     /\ refusals' = IF trips THEN 0 ELSE refusals + 1
     /\ UNCHANGED next
     /\ pause' = IF trips THEN Pause ELSE pause
     /\ early' = IF trips THEN {u \in Thread : doing[u] = "sleep"} \cup early ELSE early
  /\ Retry(t, FALSE)
  /\ UNCHANGED at

\* `on_throttle` of a connection that was never made: the breaker counts them.
Refused(t) ==
  /\ doing[t] = "ask"
  /\ successes' = 0 /\ delay' = Longer(delay)
  /\ LET trips == refusals + 1 >= Breaker IN
     /\ refusals' = IF trips THEN 0 ELSE refusals + 1
     /\ next' = IF trips THEN Greater(next, Pause) ELSE next
     /\ pause' = IF trips THEN Pause ELSE pause
     /\ early' = IF trips THEN {u \in Thread : doing[u] = "sleep"} \cup early ELSE early
  /\ Retry(t, FALSE)
  /\ UNCHANGED at

\* A timeout ends the attempts and leaves the pace alone, and so does any other status; a 500
\* or a 502 is asked again at the same pace.
Give(t) ==
  /\ doing[t] = "ask"
  /\ FinishLookup(t)
  /\ UNCHANGED <<delay, next, successes, refusals, at, pause, early>>

ServerError(t) ==
  /\ doing[t] = "ask"
  /\ Retry(t, FALSE)
  /\ UNCHANGED <<delay, next, successes, refusals, at, pause, early>>

\* Time passes only while somebody waits for it, and a start is not slept past.
Less(n) == IF n = 0 THEN 0 ELSE n - 1
Tick ==
  /\ \A t \in Thread : doing[t] = "sleep" => at[t] > 0
  /\ next > 0
  /\ next' = Less(next) /\ pause' = Less(pause) /\ at' = [t \in Thread |-> Less(at[t])]
  /\ early' = IF pause <= 1 THEN {} ELSE early
  /\ UNCHANGED <<delay, successes, refusals, doing, tried>>

Step(t) ==
  \/ Reserve(t) \/ BeginRequest(t) \/ Success(t) \/ Refused(t) \/ Give(t) \/ ServerError(t)
  \/ \E after \in {0, MaxWait}, stop \in BOOLEAN : Throttled429(t, after, stop)

GovernorNext == Tick \/ \E t \in Thread : Lookup(t) \/ Step(t)

\* Time passes, and a thread of a run that has a lookup goes on with it.
GovernorFair == WF_governorVars(Tick) /\ \A t \in Thread : WF_governorVars(Step(t))
GovernorSpec == GovernorInit /\ [][GovernorNext]_governorVars /\ GovernorFair
-----------------------------------------------------------------------------
(* Properties. *)

\* One pace for all threads: the starts that are reserved lie at least the shortest delay apart,
\* and the next one after each of them, whatever was answered in between.
Sleeping == {t \in Thread : doing[t] = "sleep"}
StartsApart ==
  /\ \A t, u \in Sleeping : t # u => at[t] >= at[u] + MinDelay \/ at[u] >= at[t] + MinDelay
  /\ \A t \in Sleeping : next >= MinDelay + at[t]

\* The breaker holds off every thread that has no start yet when it trips, its retries too.
HeldOff == \A t \in Thread : pause > 0 /\ doing[t] = "sleep" /\ t \notin early => at[t] >= pause

(***************************************************************************)
(* Said at cdx.py:299-300 of a pause: it holds every thread off, not just  *)
(* the one it tripped in.  Not kept: a start reserved before goes ahead.   *)
(***************************************************************************)
BreakerHoldsAll == [][\A t \in Thread : BeginRequest(t) => pause = 0]_governorVars

\* Every lookup ends, over throttles, refusals and trips of the breaker.
LookupEnds == \A t \in Thread : doing[t] # "idle" ~> doing[t] = "idle"

(***************************************************************************)
(* Reserved starts keep their distance and wait out a pause of the breaker *)
(* that trips before they are reserved, whatever the threads are told in   *)
(* between (cdx.py, reserve and refuse).                                   *)
(***************************************************************************)
PaceIsKept == GovernorTypeOK /\ StartsApart /\ HeldOff
=============================================================================
