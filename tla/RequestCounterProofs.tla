------------------------ MODULE RequestCounterProofs ------------------------
(***************************************************************************)
(* Theorems about RequestCounter for every finite set of requests and every *)
(* debounce time.                                                           *)
(***************************************************************************)
EXTENDS RequestCounter, FiniteSetTheorems, TLAPS

-----------------------------------------------------------------------------
(* Types and the counter                                                    *)

\* Weaker than CounterTypeOK, and inductive without a word on the cardinality.
Typed ==
  /\ count \in Nat
  /\ token \in Nat
  /\ timers \subseteq [token : 0..token, left : 0..Debounce]
  /\ clearing \subseteq 0..token
  /\ state \in [Requests -> {"new", "first", "serving", "done"}]
  /\ busy \in BOOLEAN
  /\ quiet \in 0..Debounce
  /\ fails \in 0..MaxFails

CounterInv == Typed /\ CountIsInFlight

\* The requests in flight are finitely many.
LEMMA InFlightFinite == IsFiniteSet(InFlight)
  BY RequestsAssumption, FS_Subset DEF InFlight

\* A request that begins joins the requests in flight (increment).
LEMMA InFlightGrows ==
  ASSUME Typed, NEW r \in Requests, Increment(r)
  PROVE  r \notin InFlight /\ InFlight' = InFlight \cup {r}
  BY DEF Typed, Increment, Goto, InFlight

\* A request that ends leaves them (decrement).
LEMMA InFlightShrinks ==
  ASSUME Typed, NEW r \in Requests, Decrement(r)
  PROVE  r \in InFlight /\ InFlight' = InFlight \ {r}
  BY DEF Typed, Decrement, Goto, InFlight

\* Writing the file changes nothing about who is in flight (_set_busy).
LEMMA InFlightStays ==
  ASSUME Typed, NEW r \in Requests, SetBusy(r)
  PROVE  InFlight' = InFlight
  BY DEF Typed, SetBusy, Goto, InFlight

\* The counter's fields keep their types.
LEMMA TypedInductive == Typed /\ [CounterNext]_counterVars => Typed'
<1> SUFFICES ASSUME Typed, [CounterNext]_counterVars PROVE Typed'
  OBVIOUS
<1> USE DEF Typed
<1>1. ASSUME NEW r \in Requests, Increment(r) PROVE Typed'
  <2>1. state' \in [Requests -> {"new", "first", "serving", "done"}]
    BY <1>1 DEF Increment, Goto
  <2>2. count' \in Nat /\ token' \in Nat /\ quiet' \in 0..Debounce
    BY <1>1, BoundsAssumption DEF Increment
  <2>3. timers' \subseteq [token : 0..token', left : 0..Debounce]
    <3>1. 0..token \subseteq 0..token'
      BY <1>1 DEF Increment
    <3> QED
      BY <3>1, <1>1 DEF Increment
  <2>4. clearing' \subseteq 0..token'
    BY <1>1 DEF Increment
  <2> QED
    BY <1>1, <2>1, <2>2, <2>3, <2>4 DEF Increment
<1>2. ASSUME NEW r \in Requests, SetBusy(r) PROVE Typed'
  <2>1. state' \in [Requests -> {"new", "first", "serving", "done"}]
    BY <1>2 DEF SetBusy, Goto
  <2>2. fails' \in 0..MaxFails
    BY <1>2, BoundsAssumption DEF SetBusy, Fails
  <2>3. busy' \in BOOLEAN
    BY <1>2 DEF SetBusy, Fails
  <2> QED
    BY <1>2, <2>1, <2>2, <2>3 DEF SetBusy
<1>3. ASSUME NEW r \in Requests, Decrement(r) PROVE Typed'
  <2>1. state' \in [Requests -> {"new", "first", "serving", "done"}]
    BY <1>3 DEF Decrement, Goto
  <2>2. count' \in Nat /\ quiet' \in 0..Debounce
    BY <1>3, BoundsAssumption DEF Decrement
  <2>3. token' \in Nat /\ 0..token \subseteq 0..token'
    BY <1>3 DEF Decrement
  <2>4. timers' \subseteq [token : 0..token', left : 0..Debounce]
    <3>1. [token |-> token + 1, left |-> Debounce] \in [token : 0..(token + 1), left : 0..Debounce]
      BY BoundsAssumption
    <3>2. CASE count' = 0
      BY <1>3, <3>1, <3>2, <2>3 DEF Decrement
    <3>3. CASE count' # 0
      BY <1>3, <3>3 DEF Decrement
    <3> QED
      BY <3>2, <3>3
  <2>5. clearing' \subseteq 0..token'
    BY <1>3, <2>3 DEF Decrement
  <2> QED
    BY <1>3, <2>1, <2>2, <2>3, <2>4, <2>5 DEF Decrement
<1>4. ASSUME NEW t \in timers, MaybeIdle(t) PROVE Typed'
  <2>1. t.token \in 0..token
    BY <1>4
  <2> QED
    BY <1>4, <2>1 DEF MaybeIdle
<1>5. ASSUME NEW k \in clearing, SetIdle(k) PROVE Typed'
  <2>1. fails' \in 0..MaxFails
    BY <1>5, BoundsAssumption DEF SetIdle, Fails
  <2>2. busy' \in BOOLEAN
    BY <1>5 DEF SetIdle, Fails
  <2> QED
    BY <1>5, <2>1, <2>2 DEF SetIdle
<1>6. ASSUME Tick PROVE Typed'
  <2>1. timers' \subseteq [token : 0..token', left : 0..Debounce]
    <3>1. ASSUME NEW t \in timers
          PROVE  [t EXCEPT !.left = IF @ > 0 THEN @ - 1 ELSE 0]
                   \in [token : 0..token, left : 0..Debounce]
      BY <3>1, BoundsAssumption
    <3> QED
      BY <1>6, <3>1 DEF Tick
  <2>2. quiet' \in 0..Debounce
    BY <1>6, BoundsAssumption DEF Tick
  <2> QED
    BY <1>6, <2>1, <2>2 DEF Tick
<1>7. ASSUME UNCHANGED counterVars PROVE Typed'
  BY <1>7 DEF counterVars
<1> QED
  BY <1>1, <1>2, <1>3, <1>4, <1>5, <1>6, <1>7 DEF CounterNext, Serve, Idle

\* Every step adds to the counter what it adds to the requests in flight.
LEMMA CounterInductive == CounterInv /\ [CounterNext]_counterVars => CounterInv'
<1> SUFFICES ASSUME Typed, CountIsInFlight, [CounterNext]_counterVars PROVE CountIsInFlight'
  BY TypedInductive DEF CounterInv
<1>1. ASSUME NEW r \in Requests, Increment(r) PROVE CountIsInFlight'
  <2>1. Cardinality(InFlight \cup {r}) = Cardinality(InFlight) + 1
    BY <1>1, InFlightGrows, InFlightFinite, FS_AddElement
  <2> QED
    BY <1>1, <2>1, InFlightGrows DEF CountIsInFlight, Increment
<1>2. ASSUME NEW r \in Requests, Decrement(r) PROVE CountIsInFlight'
  <2>1. Cardinality(InFlight \ {r}) = Cardinality(InFlight) - 1
    BY <1>2, InFlightShrinks, InFlightFinite, FS_RemoveElement
  <2>2. count > 0
    BY <1>2, InFlightShrinks, InFlightFinite, FS_EmptySet DEF CountIsInFlight, Typed
  <2>3. count' = count - 1
    BY <1>2, <2>2 DEF Decrement
  <2> QED
    BY <1>2, <2>1, <2>3, InFlightShrinks DEF CountIsInFlight
<1>3. ASSUME NEW r \in Requests, SetBusy(r) PROVE CountIsInFlight'
  BY <1>3, InFlightStays DEF CountIsInFlight, SetBusy
<1>4. ASSUME Idle \/ Tick \/ UNCHANGED counterVars PROVE CountIsInFlight'
  <2>1. state' = state /\ count' = count
    BY <1>4 DEF Idle, MaybeIdle, SetIdle, Tick, counterVars
  <2> QED
    BY <2>1 DEF CountIsInFlight, InFlight
<1> QED
  BY <1>1, <1>2, <1>3, <1>4 DEF CounterNext, Serve

\* The invariant holds initially: nothing is in flight.
LEMMA CounterInitial == CounterInit => CounterInv
<1> SUFFICES ASSUME CounterInit PROVE CounterInv
  OBVIOUS
<1>1. InFlight = {}
  BY DEF CounterInit, InFlight
<1>2. Cardinality(InFlight) = 0
  BY <1>1, FS_EmptySet
<1>3. busy \in BOOLEAN
  BY DEF CounterInit
<1>4. quiet \in 0..Debounce /\ fails \in 0..MaxFails
  BY BoundsAssumption DEF CounterInit
<1>5. state \in [Requests -> {"new", "first", "serving", "done"}]
  BY DEF CounterInit
<1>6. count \in Nat /\ token \in Nat /\ timers = {} /\ clearing = {}
  BY DEF CounterInit
<1>7. Typed
  BY <1>3, <1>4, <1>5, <1>6 DEF Typed
<1> QED
  BY <1>2, <1>7 DEF CounterInit, CounterInv, CountIsInFlight

\* RequestCounter counts the requests in flight, each of them once, from any
\* number of threads and with any number of failing file operations
\* (serve_proxy.py increment and decrement).
THEOREM CountHolds == CounterSpec => []CountIsInFlight
<1>1. CounterInv => CountIsInFlight
  BY DEF CounterInv
<1> QED
  BY <1>1, CounterInitial, CounterInductive, PTL DEF CounterSpec

\* The counter's fields have their types in every reachable state.
THEOREM TypeCorrect == CounterSpec => []CounterTypeOK
<1>1. CounterInv => CounterTypeOK
  <2> SUFFICES ASSUME CounterInv PROVE count \in 0..Cardinality(Requests)
    BY DEF CounterInv, Typed, CounterTypeOK
  <2>1. Cardinality(InFlight) <= Cardinality(Requests)
    BY RequestsAssumption, FS_Subset DEF InFlight
  <2>2. Cardinality(Requests) \in Nat
    BY RequestsAssumption, FS_CardinalityType
  <2> QED
    BY <2>1, <2>2 DEF CounterInv, Typed, CountIsInFlight
<1> QED
  BY <1>1, CounterInitial, CounterInductive, PTL DEF CounterSpec

-----------------------------------------------------------------------------
(* The signal file, on one event loop                                       *)

\* What a callback of the loop has settled for those that follow: at most one
\* is between its locked section and its file operation, an idle check that
\* passed finds no request in flight when it clears the file, and a first
\* request is alone until it has set it.
LoopInv ==
  /\ clearing # {} => InFlight = {}
  /\ \A j, k \in clearing : j = k
  /\ \A r \in Requests : state[r] = "first" => InFlight = {r} /\ clearing = {}
  /\ BusyWhileServing

\* On one loop LoopInv stays true.
LEMMA LoopInductive ==
  ASSUME OneLoop
  PROVE  CounterInv /\ LoopInv /\ [CounterNext]_counterVars => LoopInv'
<1> SUFFICES ASSUME Typed, CountIsInFlight, LoopInv, [CounterNext]_counterVars PROVE LoopInv'
  BY DEF CounterInv
<1>0. fails \in Nat /\ (Fails => fails' # 0)
  BY BoundsAssumption DEF Fails, Typed
<1>1. count = 0 <=> InFlight = {}
  BY InFlightFinite, FS_EmptySet DEF CountIsInFlight
<1>2. ASSUME NEW r \in Requests, Increment(r) PROVE LoopInv'
  <2>1. clearing = {} /\ clearing' = {} /\ \A q \in Requests : state[q] # "first"
    BY <1>2 DEF Increment, MayRun, Settled
  <2>2. InFlight' = InFlight \cup {r} /\ state'[r] = (IF count = 0 THEN "first" ELSE "serving")
    BY <1>2, InFlightGrows DEF Increment, Goto, Typed
  <2>3. \A q \in Requests \ {r} : state'[q] = state[q]
    BY <1>2 DEF Increment, Goto, Typed
  <2>4. \A q \in Requests : state'[q] = "first" => InFlight' = {q} /\ clearing' = {}
    BY <1>1, <2>1, <2>2, <2>3
  <2>5. BusyWhileServing'
    <3>1. CASE count = 0
      BY <3>1, <2>2 DEF BusyWhileServing, Settled
    <3>2. CASE count # 0
      <4>1. Settled /\ InFlight # {}
        BY <1>1, <2>1, <3>2 DEF Settled
      <4>2. busy' = busy /\ fails' = fails
        BY <1>2 DEF Increment
      <4> QED
        BY <4>1, <4>2 DEF LoopInv, BusyWhileServing
    <3> QED
      BY <3>1, <3>2
  <2> QED
    BY <2>1, <2>4, <2>5 DEF LoopInv
<1>3. ASSUME NEW r \in Requests, SetBusy(r) PROVE LoopInv'
  <2>1. (fails' = 0 => busy') /\ clearing' = clearing
    BY <1>0, <1>3 DEF SetBusy
  <2>2. InFlight = {r} /\ clearing = {} /\ InFlight' = InFlight
    BY <1>3, InFlightStays DEF SetBusy, LoopInv
  <2>3. \A q \in Requests : state'[q] # "first"
    BY <1>3, <2>2 DEF SetBusy, Goto, Typed, InFlight
  <2> QED
    BY <2>1, <2>2, <2>3 DEF LoopInv, BusyWhileServing
<1>4. ASSUME NEW r \in Requests, Decrement(r) PROVE LoopInv'
  <2>1. clearing = {} /\ clearing' = {} /\ \A q \in Requests : state[q] # "first"
    BY <1>4 DEF Decrement, MayRun, Settled
  <2>2. \A q \in Requests : state'[q] # "first"
    BY <1>4, <2>1 DEF Decrement, Goto, Typed
  <2>3. fails = 0 => busy
    BY <1>4, <2>1, InFlightShrinks DEF LoopInv, BusyWhileServing, Settled
  <2>4. fails' = 0 => busy'
    BY <1>4, <2>3 DEF Decrement
  <2> QED
    BY <2>1, <2>2, <2>4 DEF LoopInv, BusyWhileServing
<1>5. ASSUME NEW t \in timers, MaybeIdle(t) PROVE LoopInv'
  <2>1. clearing = {} /\ \A q \in Requests : state[q] # "first"
    BY <1>5 DEF MaybeIdle, MayRun, Settled
  <2>2. state' = state /\ InFlight' = InFlight /\ busy' = busy /\ fails' = fails
    BY <1>5 DEF MaybeIdle, InFlight
  <2>3. clearing' = {} \/ (clearing' = {t.token} /\ count = 0)
    BY <1>5, <2>1 DEF MaybeIdle
  <2>4. fails = 0 /\ InFlight # {} => busy
    BY <2>1 DEF LoopInv, BusyWhileServing, Settled
  <2> QED
    BY <1>1, <2>1, <2>2, <2>3, <2>4 DEF LoopInv, BusyWhileServing
<1>6. ASSUME NEW k \in clearing, SetIdle(k) PROVE LoopInv'
  <2>1. InFlight = {} /\ \A q \in Requests : state[q] # "first"
    BY <1>6 DEF LoopInv
  <2>2. clearing' = {} /\ state' = state /\ InFlight' = {}
    BY <1>6, <2>1 DEF SetIdle, LoopInv, InFlight
  <2> QED
    BY <2>1, <2>2 DEF LoopInv, BusyWhileServing
<1>7. ASSUME Tick \/ UNCHANGED counterVars PROVE LoopInv'
  <2>1. state' = state /\ clearing' = clearing /\ busy' = busy /\ fails' = fails
    BY <1>7 DEF Tick, counterVars
  <2> QED
    BY <2>1 DEF LoopInv, BusyWhileServing, Settled, InFlight
<1> QED
  BY <1>2, <1>3, <1>4, <1>5, <1>6, <1>7 DEF CounterNext, Serve, Idle

\* On one event loop, as long as no file operation has failed, serve.busy is
\* there whenever requests are in flight and no callback is running: no idle
\* check takes it from under a request (serve_proxy.py _maybe_idle).
THEOREM BusyWhileServingHolds ==
  ASSUME OneLoop
  PROVE  CounterSpec => []BusyWhileServing
<1>1. CounterInit => LoopInv
  BY DEF CounterInit, LoopInv, InFlight, BusyWhileServing
<1>2. LoopInv => BusyWhileServing
  BY DEF LoopInv
<1> QED
  BY <1>1, <1>2, CounterInitial, CounterInductive, LoopInductive, PTL DEF CounterSpec

-----------------------------------------------------------------------------
(* The debounce time, on one event loop                                     *)

\* The timer whose token is current has waited as long as no request has come; a
\* check that passed has seen the whole debounce time go by.
DebounceInv ==
  /\ \A t \in timers : t.token = token /\ count = 0 => quiet + t.left >= Debounce
  /\ clearing # {} => quiet >= Debounce

\* On one loop DebounceInv stays true.
LEMMA DebounceInductive ==
  ASSUME OneLoop
  PROVE  Typed /\ DebounceInv /\ [CounterNext]_counterVars => DebounceInv'
<1> SUFFICES ASSUME Typed, DebounceInv, [CounterNext]_counterVars PROVE DebounceInv'
  OBVIOUS
<1>0. /\ count \in Nat /\ token \in Nat /\ quiet \in Nat /\ quiet <= Debounce /\ Debounce \in Nat
      /\ \A t \in timers : t.token \in Nat /\ t.token <= token /\ t.left \in Nat
  BY BoundsAssumption DEF Typed
<1>1. ASSUME NEW r \in Requests, Increment(r) PROVE DebounceInv'
  <2>1. clearing' = {} /\ count' # 0
    BY <1>0, <1>1 DEF Increment, MayRun, Settled
  <2> QED
    BY <2>1 DEF DebounceInv
<1>2. ASSUME NEW r \in Requests, Decrement(r) PROVE DebounceInv'
  <2>1. clearing' = {}
    BY <1>2 DEF Decrement, MayRun, Settled
  <2>2. CASE count' # 0
    BY <2>1, <2>2 DEF DebounceInv
  <2>3. CASE count' = 0
    <3>1. token' = token + 1 /\ quiet' = 0
      BY <1>2, <2>3 DEF Decrement
    <3>2. \A t \in timers' : t \in timers \/ t = [token |-> token + 1, left |-> Debounce]
      BY <1>2, <2>3 DEF Decrement
    <3>3. \A t \in timers' : t.token = token' => quiet' + t.left >= Debounce
      BY <1>0, <3>1, <3>2
    <3> QED
      BY <2>1, <3>3 DEF DebounceInv
  <2> QED
    BY <2>2, <2>3
<1>3. ASSUME NEW t \in timers, MaybeIdle(t) PROVE DebounceInv'
  <2>1. t.token = token /\ count = 0 => quiet >= Debounce
    BY <1>0, <1>3 DEF MaybeIdle, DebounceInv
  <2>2. clearing' # {} => quiet >= Debounce
    BY <1>3, <2>1 DEF MaybeIdle, DebounceInv
  <2> QED
    BY <1>3, <2>2 DEF MaybeIdle, DebounceInv
<1>4. ASSUME Tick PROVE DebounceInv'
  <2>1. quiet' >= quiet /\ (quiet < Debounce => quiet' = quiet + 1)
    BY <1>0, <1>4 DEF Tick
  <2>2. \A t \in timers' : \E u \in timers :
          t.token = u.token /\ t.left = IF u.left > 0 THEN u.left - 1 ELSE 0
    <3>1. \A u \in timers : [u EXCEPT !.left = IF @ > 0 THEN @ - 1 ELSE 0].token = u.token
      BY DEF Typed
    <3>2. \A u \in timers : [u EXCEPT !.left = IF @ > 0 THEN @ - 1 ELSE 0].left
                              = IF u.left > 0 THEN u.left - 1 ELSE 0
      BY DEF Typed
    <3> QED
      BY <1>4, <3>1, <3>2 DEF Tick
  <2>3. token' = token /\ count' = count /\ clearing' = clearing /\ quiet' \in Nat
    BY <1>0, <1>4 DEF Tick
  <2>4. \A t \in timers' : t.token = token /\ count = 0 => quiet' + t.left >= Debounce
    BY <1>0, <2>1, <2>2, <2>3 DEF DebounceInv
  <2>5. clearing' # {} => quiet' >= Debounce
    BY <1>0, <2>1, <2>3 DEF DebounceInv
  <2> QED
    BY <2>3, <2>4, <2>5 DEF DebounceInv
<1>5. ASSUME (\E r \in Requests : SetBusy(r)) \/ (\E k \in clearing : SetIdle(k))
             \/ UNCHANGED counterVars
      PROVE  DebounceInv'
  <2>1. timers' = timers /\ token' = token /\ count' = count /\ quiet' = quiet
        /\ clearing' \subseteq clearing
    BY <1>5 DEF SetBusy, SetIdle, counterVars
  <2> QED
    BY <2>1 DEF DebounceInv
<1> QED
  BY <1>1, <1>2, <1>3, <1>4, <1>5 DEF CounterNext, Serve, Idle

\* On one event loop serve.busy is never taken away by the counter before
\* debounce_s has passed without a request, however late timers fire and whatever
\* pauses they were scheduled for (serve_proxy.py _maybe_idle).
THEOREM IdleIsDebouncedHolds ==
  ASSUME OneLoop
  PROVE  CounterSpec => IdleIsDebounced
<1>1. CounterInit => DebounceInv
  BY DEF CounterInit, DebounceInv
<1>2. DebounceInv /\ [CounterNext]_counterVars
        => [(\E k \in clearing : SetIdle(k)) => quiet >= Debounce]_counterVars
  BY DEF DebounceInv
<1>3. CounterInv => Typed
  BY DEF CounterInv
<1> QED
  BY <1>1, <1>2, <1>3, CounterInitial, CounterInductive, DebounceInductive, PTL
     DEF CounterSpec, IdleIsDebounced
=============================================================================
