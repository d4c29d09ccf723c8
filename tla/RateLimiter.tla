---------------------------- MODULE RateLimiter ----------------------------
(***************************************************************************)
(* The sliding-window limiter of core/rate_limit.py in one uvicorn worker: *)
(* a deque of accepted hits per key, in the memory of the process and gone *)
(* when it restarts.  N workers share nothing and permit N times as much.  *)
(*                                                                         *)
(* check() has no await, so a call is one step.  Time is the monotonic     *)
(* clock in ticks, several to a second, because the retry hint is rounded  *)
(* to whole seconds and the clock is not.                                  *)
(***************************************************************************)
EXTENDS Integers, Sequences, FiniteSets

CONSTANTS
  Keys,             \* what is limited: "login:<address>", "reset:<address>"
  Limit,            \* hits the rule of a key allows ...
  WindowSeconds,    \* ... in so many seconds
  PruneSeconds,     \* prune's max_window_seconds
  TicksPerSecond,
  Horizon,          \* bound on the clock, in ticks
  NoHint            \* no refusal is outstanding

ASSUME LimitAssumption  == Limit \in [Keys -> Nat \ {0}]
ASSUME WindowAssumption == WindowSeconds \in [Keys -> Nat]
ASSUME TickAssumption   == TicksPerSecond \in Nat \ {0} /\ Horizon \in Nat
ASSUME HintAssumption   == NoHint \notin Int
\* prune forgets nothing a rule still counts.
ASSUME PruneAssumption  ==
  PruneSeconds \in Nat /\ \A k \in Keys : WindowSeconds[k] <= PruneSeconds

Window(k)   == WindowSeconds[k] * TicksPerSecond
PruneWindow == PruneSeconds * TicksPerSecond

VARIABLES
  now,       \* time.monotonic()
  hits,      \* _hits; a key that is absent has no hits
  log,       \* history: every hit accepted since the process started
  dropped,   \* history: how many of those are no longer in hits
  hint       \* history: when the last refused caller was told to come back

limiterVars == <<now, hits, log, dropped, hint>>

LimiterTypeOK ==
  /\ now \in 0..Horizon
  /\ hits \in [Keys -> Seq(Int)]
  /\ log \in [Keys -> Seq(Int)]
  /\ dropped \in [Keys -> Nat]
  /\ hint \in [Keys -> Int \cup {NoHint}]

\* A process starts counting at whatever the clock reads.
LimiterInit ==
  /\ now \in 0..Horizon
  /\ hits = [k \in Keys |-> <<>>]
  /\ log = [k \in Keys |-> <<>>]
  /\ dropped = [k \in Keys |-> 0]
  /\ hint = [k \in Keys |-> NoHint]

\* Where the loop of check stops: the first n hits have aged out, the next,
\* if there is one, has not.
AgedOutAtWindow(k, n) ==     \* mutant: <= for <
  /\ n \in 0..Len(hits[k])
  /\ \A i \in 1..n : hits[k][i] <= now - Window(k)
  /\ n < Len(hits[k]) => hits[k][n + 1] > now - Window(k)

AgedOut(k, n) ==
  /\ n \in 0..Len(hits[k])
  /\ \A i \in 1..n : hits[k][i] < now - Window(k)
  /\ n < Len(hits[k]) => hits[k][n + 1] >= now - Window(k)

Recent(k, n) == SubSeq(hits[k], n + 1, Len(hits[k]))

\* check() within the limit: the hit is recorded.
Accept(k) ==
  \E n \in 0..Len(hits[k]) :
    /\ AgedOut(k, n)
    /\ Len(Recent(k, n)) < Limit[k]
    /\ hits' = [hits EXCEPT ![k] = Append(Recent(k, n), now)]
    /\ dropped' = [dropped EXCEPT ![k] = @ + n]
    /\ log' = [log EXCEPT ![k] = Append(@, now)]
    /\ hint' = [hint EXCEPT ![k] = NoHint]
    /\ UNCHANGED now

\* check() over the limit: nothing is recorded, what aged out stays forgotten,
\* and the caller is told how many seconds to wait.
RetryAfterRoundedDown(oldest, k) ==     \* mutant
  LET seconds == (oldest + Window(k) - now) \div TicksPerSecond
  IN  IF seconds > 1 THEN seconds ELSE 1

RetryAfter(oldest, k) ==
  LET seconds == ((oldest + Window(k) - now) \div TicksPerSecond) + 1
  IN  IF seconds > 1 THEN seconds ELSE 1

Refuse(k) ==
  \E n \in 0..Len(hits[k]) :
    /\ AgedOut(k, n)
    /\ Len(Recent(k, n)) >= Limit[k]
    /\ hits' = [hits EXCEPT ![k] = Recent(k, n)]
    /\ dropped' = [dropped EXCEPT ![k] = @ + n]
    /\ hint' = [hint EXCEPT ![k] =
                  now + RetryAfter(hits[k][n + 1], k) * TicksPerSecond]
    /\ UNCHANGED <<now, log>>

\* prune(): forget the keys whose last hit is older than any window.
Stale(k) ==
  hits[k] = <<>> \/ hits[k][Len(hits[k])] < now - PruneWindow

Prune ==
  /\ hits' = [k \in Keys |-> IF Stale(k) THEN <<>> ELSE hits[k]]
  /\ dropped' = [k \in Keys |-> IF Stale(k) THEN Len(log[k]) ELSE dropped[k]]
  /\ UNCHANGED <<now, log, hint>>

\* The process is replaced; its counters are not kept anywhere.
Restart ==
  /\ hits' = [k \in Keys |-> <<>>]
  /\ log' = [k \in Keys |-> <<>>]
  /\ dropped' = [k \in Keys |-> 0]
  /\ hint' = [k \in Keys |-> NoHint]
  /\ UNCHANGED now

Tick ==
  /\ now < Horizon
  /\ now' = now + 1
  /\ UNCHANGED <<hits, log, dropped, hint>>

LimiterNext ==
  \/ Tick
  \/ \E k \in Keys : Accept(k) \/ Refuse(k)
  \/ Prune
  \/ Restart

LimiterSpec == LimiterInit /\ [][LimiterNext]_limiterVars

-----------------------------------------------------------------------------
\* "Allow at most limit events per window_seconds": Limit + 1 hits that one
\* process accepts for a key always span more than the window, wherever the
\* window is put and whatever was pruned in between.
AtMostLimitPerWindow ==
  \A k \in Keys :
    \A i \in 1..(Len(log[k]) - Limit[k]) :
      log[k][i + Limit[k]] - log[k][i] > Window(k)

\* A caller who waits as long as the refusal said is let in, unless somebody
\* else with the same key was first: the hint is rounded up, and the hit it is
\* computed from has aged out by then.
HintSuffices ==
  \A k \in Keys :
    hint[k] # NoHint /\ now >= hint[k] =>
      \A n \in 0..Len(hits[k]) :
        AgedOut(k, n) => Len(Recent(k, n)) < Limit[k]

\* Nobody is refused who kept the rule: on a refusal the process has really
\* accepted Limit hits of that key within the last window.
RefusedOnlyOverLimit ==
  [][\A k \in Keys :
       hint'[k] \notin {hint[k], NoHint} =>
         Cardinality({i \in 1..Len(log[k]) : log[k][i] >= now - Window(k)})
           >= Limit[k]]_limiterVars

-----------------------------------------------------------------------------
(* The inductive invariant *)

\* hits is what is left of the log after its oldest entries were dropped, and
\* what was dropped is out of the window for good.
HitsAreRestOfLog ==
  \A k \in Keys :
    /\ Len(log[k]) = dropped[k] + Len(hits[k])
    /\ \A i \in 1..Len(hits[k]) : hits[k][i] = log[k][dropped[k] + i]
    /\ \A i \in 1..dropped[k] : log[k][i] < now - Window(k)

LogInOrder ==
  \A k \in Keys :
    /\ \A i \in 1..Len(log[k]) : log[k][i] <= now
    /\ \A i, j \in 1..Len(log[k]) : i <= j => log[k][i] <= log[k][j]

\* A refused caller waits for the oldest hit of a full deque.
HintOutlivesOldest ==
  \A k \in Keys :
    /\ Len(hits[k]) <= Limit[k]
    /\ hint[k] # NoHint =>
         \/ Len(hits[k]) < Limit[k]
         \/ hits[k][1] + Window(k) < hint[k]

LimiterInv ==
  /\ LimiterTypeOK
  /\ HitsAreRestOfLog
  /\ LogInOrder
  /\ HintOutlivesOldest
  /\ AtMostLimitPerWindow
=============================================================================
