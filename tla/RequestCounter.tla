--------------------------- MODULE RequestCounter ---------------------------
(***************************************************************************)
(* serve_proxy.py, class RequestCounter: the proxy of `gpulock serve` counts*)
(* the requests in flight and keeps the file serve.busy for the guard: the  *)
(* first request sets it, and it goes away once no request has been in      *)
(* flight for debounce_s. A request that starts meanwhile cancels the idle  *)
(* check by raising the token that the check compares.                      *)
(*                                                                         *)
(* The proxy's handlers and timers run on one event loop (OneLoop), where a *)
(* callback is never interrupted; the class also has a lock and a           *)
(* threading.Timer for callers in several threads, where the signal file is *)
(* written outside the lock.                                                *)
(***************************************************************************)
EXTENDS Integers, FiniteSets

CONSTANTS
  Requests,  \* the requests that should_count() lets through
  OneLoop,   \* every callback runs on one event loop
  Debounce,  \* debounce_s, in ticks
  MaxFails   \* bound on the number of failing file operations

ASSUME RequestsAssumption == IsFiniteSet(Requests)
ASSUME LoopAssumption == OneLoop \in BOOLEAN
ASSUME BoundsAssumption == Debounce \in Nat /\ MaxFails \in Nat

VARIABLES
  count,     \* _count
  token,     \* _idle_token
  timers,    \* scheduled _maybe_idle calls: the token and the ticks they wait
  clearing,  \* tokens of the idle checks that passed and now call on_idle
  state,     \* state[r]: where the handler of r is
  busy,      \* serve.busy exists
  quiet,     \* ticks, up to Debounce, since the last request began or ended
  fails      \* failed file operations so far

counterVars == <<count, token, timers, clearing, state, busy, quiet, fails>>

-----------------------------------------------------------------------------
\* No callback is between its locked section and its file operation.
Settled == clearing = {} /\ \A r \in Requests : state[r] # "first"

\* A new callback may start: on an event loop, once the running one is through.
MayRun == OneLoop => Settled

\* The file operation raises, and _set_busy or _set_idle swallows it.
Fails == /\ fails < MaxFails
         /\ fails' = fails + 1
         /\ UNCHANGED busy

Goto(r, s) == state' = [state EXCEPT ![r] = s]

CounterInit ==
  /\ count = 0
  /\ token = 0
  /\ timers = {}
  /\ clearing = {}
  /\ state = [r \in Requests |-> "new"]
  /\ busy \in BOOLEAN  \* an earlier session may have left the file behind
  /\ quiet = Debounce
  /\ fails = 0

-----------------------------------------------------------------------------
\* increment(), the locked section.
Increment(r) ==
  /\ MayRun
  /\ state[r] = "new"
  /\ count' = count + 1
  /\ token' = token + 1
  /\ Goto(r, IF count = 0 THEN "first" ELSE "serving")
  /\ quiet' = 0
  /\ UNCHANGED <<timers, clearing, busy, fails>>

\* increment() of the first request: _set_busy().
SetBusy(r) ==
  /\ state[r] = "first"
  /\ Goto(r, "serving")
  /\ \/ busy' = TRUE /\ UNCHANGED fails
     \/ Fails
  /\ UNCHANGED <<count, token, timers, clearing, quiet>>

\* Slip: the finally of a failed request decrements once more.
Decrement_twice(r) ==
  /\ MayRun
  /\ state[r] = "serving"
  /\ count' = IF count > 1 THEN count - 2 ELSE 0
  /\ IF count' = 0
     THEN /\ token' = token + 1
          /\ timers' = timers \cup {[token |-> token + 1, left |-> Debounce]}
     ELSE UNCHANGED <<token, timers>>
  /\ Goto(r, "done")
  /\ quiet' = 0
  /\ UNCHANGED <<clearing, busy, fails>>

\* Slip: the idle check is given the token that comes after the one it needs.
Decrement_nextToken(r) ==
  /\ MayRun
  /\ state[r] = "serving"
  /\ count' = IF count > 0 THEN count - 1 ELSE count
  /\ IF count' = 0
     THEN /\ token' = token + 1
          /\ timers' = timers \cup {[token |-> token + 2, left |-> Debounce]}
     ELSE UNCHANGED <<token, timers>>
  /\ Goto(r, "done")
  /\ quiet' = 0
  /\ UNCHANGED <<clearing, busy, fails>>

\* Slip: an idle check that is scheduled already is thought to be enough.
Decrement_coalesced(r) ==
  /\ MayRun
  /\ state[r] = "serving"
  /\ count' = IF count > 0 THEN count - 1 ELSE count
  /\ IF count' = 0
     THEN /\ token' = token + 1
          /\ timers' = IF timers = {} THEN {[token |-> token + 1, left |-> Debounce]}
                                     ELSE timers
     ELSE UNCHANGED <<token, timers>>
  /\ Goto(r, "done")
  /\ quiet' = 0
  /\ UNCHANGED <<clearing, busy, fails>>

\* decrement(), in the handler's `finally`, and _schedule_idle().
Decrement(r) ==
  /\ MayRun
  /\ state[r] = "serving"
  /\ count' = IF count > 0 THEN count - 1 ELSE count
  /\ IF count' = 0
     THEN /\ token' = token + 1
          /\ timers' = timers \cup {[token |-> token + 1, left |-> Debounce]}
     ELSE UNCHANGED <<token, timers>>
  /\ Goto(r, "done")
  /\ quiet' = 0
  /\ UNCHANGED <<clearing, busy, fails>>

\* Slip: the check compares the count alone.
MaybeIdle_ignoresToken(t) ==
  /\ MayRun
  /\ t \in timers
  /\ t.left = 0
  /\ timers' = timers \ {t}
  /\ clearing' = IF count = 0 THEN clearing \cup {t.token} ELSE clearing
  /\ UNCHANGED <<count, token, state, busy, quiet, fails>>

\* Slip: the timer clears the signal without a second look.
MaybeIdle_unchecked(t) ==
  /\ MayRun
  /\ t \in timers
  /\ t.left = 0
  /\ timers' = timers \ {t}
  /\ clearing' = clearing \cup {t.token}
  /\ UNCHANGED <<count, token, state, busy, quiet, fails>>

\* _maybe_idle(), the locked section.
MaybeIdle(t) ==
  /\ MayRun
  /\ t \in timers
  /\ t.left = 0
  /\ timers' = timers \ {t}
  /\ clearing' = IF t.token = token /\ count = 0
                 THEN clearing \cup {t.token} ELSE clearing
  /\ UNCHANGED <<count, token, state, busy, quiet, fails>>

\* _maybe_idle(): _set_idle().
SetIdle(k) ==
  /\ k \in clearing
  /\ clearing' = clearing \ {k}
  /\ \/ busy' = FALSE /\ UNCHANGED fails
     \/ Fails
  /\ UNCHANGED <<count, token, timers, state, quiet>>

\* Time passes; a timer fires when it is due or any time later.
Tick ==
  /\ quiet < Debounce \/ \E t \in timers : t.left > 0
  /\ quiet' = IF quiet < Debounce THEN quiet + 1 ELSE quiet
  /\ timers' = {[t EXCEPT !.left = IF @ > 0 THEN @ - 1 ELSE 0] : t \in timers}
  /\ UNCHANGED <<count, token, clearing, state, busy, fails>>

-----------------------------------------------------------------------------
Serve(r) == Increment(r) \/ SetBusy(r) \/ Decrement(r)

Idle == (\E t \in timers : MaybeIdle(t)) \/ (\E k \in clearing : SetIdle(k))

CounterNext == (\E r \in Requests : Serve(r)) \/ Idle \/ Tick

CounterSpec == CounterInit /\ [][CounterNext]_counterVars

-----------------------------------------------------------------------------
InFlight == {r \in Requests : state[r] \in {"first", "serving"}}

\* The counter's fields and the proxy's view of its requests have their types.
CounterTypeOK ==
  /\ count \in 0..Cardinality(Requests)
  /\ token \in Nat
  /\ timers \subseteq [token : 0..token, left : 0..Debounce]
  /\ clearing \subseteq 0..token
  /\ state \in [Requests -> {"new", "first", "serving", "done"}]
  /\ busy \in BOOLEAN
  /\ quiet \in 0..Debounce
  /\ fails \in 0..MaxFails

\* No request is lost or counted twice, whichever threads and timers cross
\* (increment, decrement and the handler's try/finally).
CountIsInFlight == count = Cardinality(InFlight)

\* While a request is served the guard sees serve.busy: no idle check, however
\* late its timer fires, takes the file from under a request (_maybe_idle). A
\* file operation that failed is not made up for.
BusyWhileServing == fails = 0 /\ Settled /\ InFlight # {} => busy

\* The counter takes serve.busy away only after debounce_s without a request: a
\* check that an earlier pause scheduled does not cut a later one short.
IdleIsDebounced == [][(\E k \in clearing : SetIdle(k)) => quiet >= Debounce]_counterVars

=============================================================================
