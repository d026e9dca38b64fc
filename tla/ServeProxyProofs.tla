-------------------------- MODULE ServeProxyProofs --------------------------
(***************************************************************************)
(* Theorems about ServeProxy for every finite set of requests, all command  *)
(* lines and any number of signals.                                         *)
(***************************************************************************)
EXTENDS ServeProxy, RequestCounterProofs

-----------------------------------------------------------------------------
(* The session: its phase, its backend, its markers and its lock            *)

\* Before Popen there is no backend.
Early == {"set_managed", "set_startup", "touch_busy", "launch"}

\* The startup hold is set, and nobody has dropped it.
Held == {"launch", "run_loop", "waiting"}

\* The hold is dropped, or about to be.
Opened == {"drop_startup", "drop_busy", "open", "proxying", "draining"}

\* The backend has been reaped or killed.
Reaped == {"clear_startup", "clear_busy", "clear_managed", "release", "done"}

SessionTyped ==
  /\ spc \in SpcStates
  /\ backend \in {"none", "loading", "up", "dying", "dead"}
  /\ opt \in Options

\* What each phase has settled for those that follow.
PhaseInv ==
  /\ lock \/ spc = "done" \/ CutShort
  /\ spc \in {"clear_busy", "clear_managed", "release", "done"} => ~startup
  /\ spc \in {"clear_managed", "release", "done"} => ~busy
  /\ spc \in {"release", "done"} => ~managed
  /\ spc \in Early => backend = "none"
  /\ spc \in Reaped => backend \in {"dead", "dying"}
  /\ opt.hold /\ spc \in {"touch_busy"} \cup Held => startup
  /\ opt.hold /\ spc \in Held => busy
  /\ opt.hold /\ spc \in Opened \ {"drop_startup"} => ~startup
  /\ spc = "done" \/ CutShort => ~lock
  /\ spc \in Opened /\ backend = "loading" => opt.timeout = "proxy"
  /\ HeldUntilReady

SessionInv == SessionTyped /\ PhaseInv

\* A callback of the counter leaves the session alone.
LEMMA CallbackFrame ==
  Callbacks => spc \in {"proxying", "draining"} /\ UNCHANGED <<process, fixed, spc, managed, startup, lock>>
  BY DEF Callbacks, OnLoop

\* The phases' assertions hold after each step.
LEMMA SessionInductive == SessionInv /\ [Next]_vars => SessionInv'
<1> SUFFICES ASSUME SessionTyped, PhaseInv, [Next]_vars PROVE SessionInv'
  BY DEF SessionInv
<1> USE DEF SessionInv, SessionTyped, PhaseInv, HeldUntilReady, SpcStates, Over, Early, Held,
            Opened, Reaped, CutShort
<1>1. CASE SetManaged
  BY <1>1 DEF SetManaged, process, fixed, counter
<1>2. CASE SetStartup
  BY <1>2 DEF SetStartup, process, fixed, counter
<1>3. CASE TouchBusy
  BY <1>3 DEF TouchBusy, process, fixed, counter
<1>4. CASE LaunchBackend
  BY <1>4 DEF LaunchBackend, process, fixed, counter
<1>5. CASE StartLoop
  BY <1>5 DEF StartLoop, process, fixed, counter
<1>6. CASE Await
  BY <1>6 DEF Await, StopWaiting, BackendReady, ReadyTimeout, CloseLoop, Proceed, process, fixed, counter
<1>7. CASE Open
  BY <1>7 DEF Open, DropStartup, DropBusy, OpenProxy, CloseLoop, process, fixed, counter
<1>8. CASE Handle
  BY <1>8 DEF Handle, Arrive, Forward, process, fixed
<1>9. CASE Callbacks
  BY <1>9, CallbackFrame DEF process, fixed
<1>10. CASE StopProxy \/ EndProxy
  BY <1>10 DEF StopProxy, EndProxy, CloseLoop, process, fixed, counter
<1>11. CASE Terminate \/ Reap
  BY <1>11 DEF Terminate, Reap, process, fixed, counter
<1>12. CASE ClearStartup \/ ClearBusy \/ ClearManaged \/ Release
  BY <1>12 DEF ClearStartup, ClearBusy, ClearManaged, Release, process, fixed, counter
<1>13. CASE BackendUp \/ BackendDies \/ WatchBackend
  BY <1>13 DEF BackendUp, BackendDies, WatchBackend, fixed, counter
<1>14. CASE SignalExits \/ SignalStops \/ SignalKills
  BY <1>14 DEF SignalExits, SignalStops, SignalKills, Signalled, fixed, counter
<1>15. CASE LaunchRaises \/ CleanupRaises \/ Interrupted
  BY <1>15 DEF LaunchRaises, CleanupRaises, Interrupted, Abort, fixed
<1>16. CASE UNCHANGED vars
  BY <1>16 DEF vars, process, fixed
<1> QED
  BY <1>1, <1>2, <1>3, <1>4, <1>5, <1>6, <1>7, <1>8, <1>9, <1>10, <1>11, <1>12, <1>13, <1>14, <1>15,
     <1>16
     DEF Next, Begin, Finish, Outside

\* They hold at first, markers of an earlier session or not.
LEMMA SessionInitial == Init => SessionInv
  BY DEF Init, SessionInv, SessionTyped, PhaseInv, HeldUntilReady, SpcStates, Early, Held, Opened,
         Reaped, CutShort

\* No marker without the write lock, on every way out that goes through the whole
\* finally block and when the session is killed; os._exit and an exception that
\* nobody catches are excepted by name (cli.py _run_serve_proxy_command).
THEOREM SignalsWithinLockHolds == Spec => []SignalsWithinLock
<1>1. SessionInv => SignalsWithinLock
  BY DEF SessionInv, PhaseInv, SignalsWithinLock
<1> QED
  BY <1>1, SessionInitial, SessionInductive, PTL DEF Spec

\* The backend never runs without the write lock, with the same exceptions.
THEOREM LockCoversBackendHolds == Spec => []LockCoversBackend
<1>1. SessionInv => LockCoversBackend
  BY DEF SessionInv, PhaseInv, LockCoversBackend, Reaped, CutShort
<1> QED
  BY <1>1, SessionInitial, SessionInductive, PTL DEF Spec

\* With the startup hold no backend loads next to a placeholder: the hold is not
\* dropped before the backend is ready or has been ended.
THEOREM HeldUntilReadyHolds == Spec => []HeldUntilReady
<1>1. SessionInv => HeldUntilReady
  BY DEF SessionInv, PhaseInv
<1> QED
  BY <1>1, SessionInitial, SessionInductive, PTL DEF Spec

-----------------------------------------------------------------------------
(* The counter inside the session                                           *)

\* Requests are in flight only while the proxy is open, or when the process ended
\* in the middle of them.
Quiescent ==
  spc \in {"proxying", "draining", "exited", "killed"} \/ (InFlight = {} /\ clearing = {})

CountingInv == CounterInv /\ LoopInv /\ DebounceInv /\ Quiescent

\* What the counter's invariants allow the session to do to its state.
Aside ==
  /\ UNCHANGED <<count, token, clearing, quiet, fails>>
  /\ InFlight' = InFlight
  /\ state' \in [Requests -> {"new", "first", "serving", "done"}]
  /\ \A r \in Requests : state'[r] = "first" <=> state[r] = "first"
  /\ timers' \subseteq timers
  /\ busy' = busy \/ (busy' \in BOOLEAN /\ InFlight = {})

\* The counter's invariants survive a step beside it.
LEMMA AsideKeeps == CounterInv /\ LoopInv /\ DebounceInv /\ Aside
                      => (CounterInv /\ LoopInv /\ DebounceInv)'
<1> SUFFICES ASSUME CounterInv, LoopInv, DebounceInv, Aside
             PROVE  (CounterInv /\ LoopInv /\ DebounceInv)'
  OBVIOUS
<1>1. Typed'
  BY DEF CounterInv, Typed, Aside
<1>2. CountIsInFlight'
  BY DEF CounterInv, CountIsInFlight, Aside
<1>3. BusyWhileServing'
  BY DEF LoopInv, BusyWhileServing, Settled, Aside
<1>4. LoopInv'
  BY <1>3 DEF LoopInv, Aside
<1>5. DebounceInv'
  BY DEF DebounceInv, Aside
<1> QED
  BY <1>1, <1>2, <1>4, <1>5 DEF CounterInv

\* The session's own steps are steps beside the counter.
LEMMA SessionSteps ==
  ASSUME Typed, Quiescent, [Next]_vars, ~(\E r \in Requests : Arrive(r)), ~Callbacks
  PROVE  Aside
<1> USE DEF Aside, InFlight
<1>1. CASE Handle
  <2>1. PICK r \in Requests : Forward(r)
    BY <1>1 DEF Handle
  <2>2. state' = [state EXCEPT ![r] = "done"] /\ state[r] = "new"
    BY <2>1 DEF Forward, Goto
  <2>3. InFlight' = InFlight
    BY <2>2 DEF Typed
  <2>4. state' \in [Requests -> {"new", "first", "serving", "done"}]
        /\ \A q \in Requests : state'[q] = "first" <=> state[q] = "first"
    BY <2>2 DEF Typed
  <2>5. UNCHANGED <<count, token, timers, clearing, quiet, fails, busy>>
    BY <2>1 DEF Forward
  <2> QED
    BY <2>3, <2>4, <2>5
<1>2. CASE Begin
  <2>1. UNCHANGED counter /\ (busy' = busy \/ (busy' = TRUE /\ spc = "touch_busy"))
    BY <1>2 DEF Begin, SetManaged, SetStartup, TouchBusy, LaunchBackend, StartLoop
  <2> QED
    BY <2>1 DEF counter, Quiescent, Typed
<1>3. CASE Await \/ StopProxy \/ EndProxy
  <2>1. UNCHANGED <<count, token, clearing, state, quiet, fails, busy>>
    BY <1>3 DEF Await, StopWaiting, BackendReady, ReadyTimeout, StopProxy, EndProxy, CloseLoop, counter
  <2>2. timers' \subseteq timers
    BY <1>3 DEF Await, StopWaiting, BackendReady, ReadyTimeout, StopProxy, EndProxy, CloseLoop, counter
  <2> QED
    BY <2>1, <2>2 DEF Typed
<1>4. CASE Open
  <2>1. UNCHANGED <<count, token, clearing, state, quiet, fails>>
    BY <1>4 DEF Open, DropStartup, DropBusy, OpenProxy, CloseLoop, counter
  <2>2. timers' \subseteq timers
    BY <1>4 DEF Open, DropStartup, DropBusy, OpenProxy, CloseLoop, counter
  <2>3. busy' = busy \/ (busy' = FALSE /\ spc = "drop_busy")
    BY <1>4 DEF Open, DropStartup, DropBusy, OpenProxy, counter
  <2> QED
    BY <2>1, <2>2, <2>3 DEF Quiescent, Typed
<1>5. CASE Finish
  <2>1. UNCHANGED counter /\ (busy' = busy \/ (busy' = FALSE /\ spc = "clear_busy"))
    BY <1>5 DEF Finish, Terminate, Reap, ClearStartup, ClearBusy, ClearManaged, Release
  <2> QED
    BY <2>1 DEF counter, Quiescent, Typed
<1>6. CASE Outside \/ UNCHANGED vars
  <2>1. UNCHANGED counter /\ busy' = busy
    BY <1>6 DEF Outside, BackendUp, BackendDies, WatchBackend, SignalExits, SignalStops, SignalKills,
                Signalled, LaunchRaises, CleanupRaises, Interrupted, Abort, vars
  <2> QED
    BY <2>1 DEF counter, Typed
<1> QED
  BY <1>1, <1>2, <1>3, <1>4, <1>5, <1>6 DEF Next

\* Every step of the session is one of the counter's, or one beside it.
LEMMA CounterOrAside ==
  ASSUME Typed, Quiescent, [Next]_vars
  PROVE  [CounterNext]_counterVars \/ Aside
<1>1. CASE \E r \in Requests : Arrive(r)
  BY <1>1 DEF Arrive, CounterNext, Serve
<1>2. CASE Callbacks
  BY <1>2 DEF Callbacks, OnLoop, CounterNext, Serve
<1> QED
  BY <1>1, <1>2, SessionSteps

\* The proxy is opened, and closed, with no request in flight.
LEMMA QuiescentInductive ==
  ASSUME Typed, SessionTyped, Quiescent, [Next]_vars
  PROVE  Quiescent'
<1>1. CASE \E r \in Requests : Arrive(r)
  BY <1>1 DEF Arrive, Quiescent
<1>2. CASE Callbacks
  BY <1>2, CallbackFrame DEF Quiescent
<1>3. CASE ~(\E r \in Requests : Arrive(r)) /\ ~Callbacks
  <2>1. InFlight' = InFlight /\ clearing' = clearing
    BY <1>3, SessionSteps DEF Aside
  <2>2. CASE spc \in {"proxying", "draining", "exited", "killed"}
    <3>1. spc' \in {"proxying", "draining", "exited", "killed"} \/ EndProxy
      BY <1>3, <2>2
         DEF Next, Begin, SetManaged, SetStartup, TouchBusy, LaunchBackend, StartLoop, Await,
             StopWaiting, BackendReady, ReadyTimeout, Open, DropStartup, DropBusy, OpenProxy,
             Handle, Forward, StopProxy, Finish, Terminate, Reap, ClearStartup, ClearBusy,
             ClearManaged, Release, Outside, BackendUp, BackendDies, WatchBackend, SignalExits,
             SignalStops, SignalKills, Signalled, LaunchRaises, CleanupRaises, Interrupted, Abort,
             vars
    <3> QED
      BY <2>1, <3>1 DEF Quiescent, EndProxy, Settled
  <2>3. CASE InFlight = {} /\ clearing = {}
    BY <2>1, <2>3 DEF Quiescent
  <2> QED
    BY <2>2, <2>3 DEF Quiescent
<1> QED
  BY <1>1, <1>2, <1>3

\* The counter's invariants hold throughout the session.
LEMMA CountingInductive ==
  ASSUME OneLoop
  PROVE  SessionInv /\ CountingInv /\ [Next]_vars => CountingInv'
<1> SUFFICES ASSUME SessionInv, CountingInv, [Next]_vars PROVE CountingInv'
  OBVIOUS
<1>1. Typed /\ Quiescent /\ SessionTyped
  BY DEF CountingInv, CounterInv, SessionInv
<1>2. Quiescent'
  BY <1>1, QuiescentInductive
<1>3. CASE [CounterNext]_counterVars
  BY <1>1, <1>2, <1>3, CounterInductive, LoopInductive, DebounceInductive DEF CountingInv
<1>4. CASE Aside
  BY <1>2, <1>4, AsideKeeps DEF CountingInv
<1> QED
  BY <1>1, <1>3, <1>4, CounterOrAside

\* They hold at first.
LEMMA CountingInitial == Init => CountingInv
<1> SUFFICES ASSUME Init PROVE CountingInv
  OBVIOUS
<1>1. CounterInit
  BY DEF Init
<1>2. InFlight = {} /\ clearing = {} /\ timers = {} /\ \A r \in Requests : state[r] = "new"
  BY <1>1 DEF CounterInit, InFlight
<1> QED
  BY <1>1, <1>2, CounterInitial DEF CountingInv, LoopInv, DebounceInv, BusyWhileServing, Quiescent

\* In the whole session, whose startup hold and exit write serve.busy as well,
\* the signal is there for every request that the proxy serves on its loop.
THEOREM SessionBusyWhileServing ==
  ASSUME OneLoop
  PROVE  Spec => []BusyWhileServing
<1>1. CountingInv => BusyWhileServing
  BY DEF CountingInv, LoopInv
<1> QED
  BY <1>1, SessionInitial, SessionInductive, CountingInitial, CountingInductive, PTL DEF Spec

\* In the whole session the count is that of the requests in flight, also when the
\* loop is closed and its timers are dropped.
THEOREM SessionCounts ==
  ASSUME OneLoop
  PROVE  Spec => []CountIsInFlight
<1>1. CountingInv => CountIsInFlight
  BY DEF CountingInv, CounterInv
<1> QED
  BY <1>1, SessionInitial, SessionInductive, CountingInitial, CountingInductive, PTL DEF Spec

\* In the whole session the counter takes serve.busy away only after debounce_s
\* without a request; the session's own steps neither shorten a pause nor let an
\* idle check pass early.
THEOREM SessionIdleIsDebounced ==
  ASSUME OneLoop
  PROVE  Spec => IdleIsDebounced
<1>1. CountingInv => [(\E k \in clearing : SetIdle(k)) => quiet >= Debounce]_counterVars
  BY DEF CountingInv, DebounceInv
<1> QED
  BY <1>1, SessionInitial, SessionInductive, CountingInitial, CountingInductive, PTL
     DEF Spec, IdleIsDebounced

-----------------------------------------------------------------------------
(* Types of the whole session, on its loop and off it                       *)

\* The fields that SessionTyped leaves out.
FieldsTyped ==
  /\ call \in [Requests -> Calls]
  /\ handlers \in {"session", "loop", "default"}
  /\ stop \in BOOLEAN
  /\ managed \in BOOLEAN
  /\ startup \in BOOLEAN
  /\ lock \in BOOLEAN
  /\ signals \in 0..MaxSignals

\* They keep their types.
LEMMA FieldsInductive == FieldsTyped /\ [Next]_vars => FieldsTyped'
<1> SUFFICES ASSUME FieldsTyped, [Next]_vars PROVE FieldsTyped'
  OBVIOUS
<1> USE DEF FieldsTyped
<1>1. CASE Begin
  BY <1>1 DEF Begin, SetManaged, SetStartup, TouchBusy, LaunchBackend, StartLoop, process, fixed
<1>2. CASE Await
  BY <1>2 DEF Await, StopWaiting, BackendReady, ReadyTimeout, CloseLoop, process, fixed
<1>3. CASE Open \/ StopProxy \/ EndProxy
  BY <1>3 DEF Open, DropStartup, DropBusy, OpenProxy, StopProxy, EndProxy, CloseLoop, process, fixed
<1>4. CASE Handle
  BY <1>4 DEF Handle, Arrive, Forward, process, fixed
<1>5. CASE Callbacks
  BY <1>5, CallbackFrame DEF process, fixed
<1>6. CASE Finish
  BY <1>6 DEF Finish, Terminate, Reap, ClearStartup, ClearBusy, ClearManaged, Release, process, fixed
<1>7. CASE BackendUp \/ BackendDies \/ WatchBackend
  BY <1>7 DEF BackendUp, BackendDies, WatchBackend, fixed
<1>8. CASE SignalExits \/ SignalStops \/ SignalKills
  <2>1. Signalled
    BY <1>8 DEF SignalExits, SignalStops, SignalKills
  <2>2. signals' \in 0..MaxSignals
    BY <2>1, SignalsAssumption DEF Signalled
  <2>3. stop' \in BOOLEAN /\ lock' \in BOOLEAN
    BY <1>8 DEF SignalExits, SignalStops, SignalKills
  <2> QED
    BY <2>1, <2>2, <2>3 DEF Signalled, fixed
<1>9. CASE LaunchRaises \/ CleanupRaises \/ Interrupted
  <2>1. signals' \in 0..MaxSignals
    BY <1>9, SignalsAssumption DEF LaunchRaises, CleanupRaises, Interrupted, Signalled
  <2> QED
    BY <1>9, <2>1 DEF LaunchRaises, CleanupRaises, Interrupted, Abort, fixed
<1>10. CASE UNCHANGED vars
  BY <1>10 DEF vars, process, fixed
<1> QED
  BY <1>1, <1>2, <1>3, <1>4, <1>5, <1>6, <1>7, <1>8, <1>9, <1>10 DEF Next, Outside

\* The counter's types alone do not say that count stays within the requests: that
\* it counts them does.
LEMMA CountedTypes == CounterInv => CounterTypeOK
<1> SUFFICES ASSUME CounterInv PROVE count \in 0..Cardinality(Requests)
  BY DEF CounterInv, Typed, CounterTypeOK
<1>1. Cardinality(InFlight) <= Cardinality(Requests)
  BY RequestsAssumption, FS_Subset DEF InFlight
<1>2. Cardinality(Requests) \in Nat
  BY RequestsAssumption, FS_CardinalityType
<1> QED
  BY <1>1, <1>2 DEF CounterInv, Typed, CountIsInFlight

\* Every field of the session and its counter has its type; count never exceeds
\* the number of requests.
THEOREM SessionTypeCorrect ==
  ASSUME OneLoop
  PROVE  Spec => []TypeOK
<1>1. Init => FieldsTyped
  <2>1. Init => managed \in BOOLEAN /\ startup \in BOOLEAN
    BY Zenon DEF Init
  <2>2. Init => signals \in 0..MaxSignals
    BY SignalsAssumption DEF Init
  <2> QED
    BY <2>1, <2>2 DEF Init, FieldsTyped
<1>2. SessionInv /\ CountingInv /\ FieldsTyped => TypeOK
  BY CountedTypes DEF SessionInv, SessionTyped, CountingInv, FieldsTyped, TypeOK
<1> QED
  BY <1>1, <1>2, SessionInitial, SessionInductive, CountingInitial, CountingInductive,
     FieldsInductive, PTL DEF Spec

-----------------------------------------------------------------------------
(* The rules that were configured, and the rules that apply                 *)

\* Whoever is in flight counts under the default rules.
OnlyCounted == \A r \in Requests : r \in InFlight => Counted(r)

\* Arrive is the only way into flight.
LEMMA OnlyCountedInductive ==
  ASSUME Typed, Quiescent, OnlyCounted, [Next]_vars
  PROVE  OnlyCounted'
<1>0. call' = call
  BY CallbackFrame
     DEF Next, Begin, SetManaged, SetStartup, TouchBusy, LaunchBackend, StartLoop, Await,
         StopWaiting, BackendReady, ReadyTimeout, Open, DropStartup, DropBusy, OpenProxy, Handle,
         Arrive, Forward, StopProxy, EndProxy, Finish, Terminate, Reap, ClearStartup, ClearBusy,
         ClearManaged, Release, Outside, BackendUp, BackendDies, WatchBackend, SignalExits,
         SignalStops, SignalKills, Signalled, LaunchRaises, CleanupRaises, Interrupted, Abort,
         fixed, vars
<1>1. \A r \in Requests : Counted(r)' <=> Counted(r)
  BY <1>0 DEF Counted
<1>2. ASSUME NEW r \in Requests, Arrive(r) PROVE OnlyCounted'
  <2>1. InFlight' = InFlight \cup {r} /\ Counted(r)
    BY <1>2, InFlightGrows DEF Arrive
  <2> QED
    BY <1>1, <2>1 DEF OnlyCounted
<1>3. CASE Callbacks
  <2>1. (\E r \in Requests : SetBusy(r) \/ Decrement(r)) \/ Idle \/ Tick
    BY <1>3 DEF Callbacks, OnLoop
  <2>2. CASE \E r \in Requests : SetBusy(r) \/ Decrement(r)
    BY <1>1, <2>2, InFlightStays, InFlightShrinks DEF OnlyCounted
  <2>3. CASE Idle \/ Tick
    <3>1. InFlight' = InFlight
      BY <2>3 DEF Idle, MaybeIdle, SetIdle, Tick, InFlight
    <3> QED
      BY <1>1, <3>1 DEF OnlyCounted
  <2> QED
    BY <2>1, <2>2, <2>3
<1>4. CASE ~(\E r \in Requests : Arrive(r)) /\ ~Callbacks
  BY <1>1, <1>4, SessionSteps DEF Aside, OnlyCounted
<1> QED
  BY <1>2, <1>3, <1>4

\* A session that only drops default rules (--ignore-reset without --ignore, or no
\* option at all) keeps the README's promise. The run Serve_ignore shows that one
\* which adds rules does not (serve_proxy.py: the handler's should_count call).
THEOREM ProbesStayQuietUnderDefaults ==
  ASSUME OneLoop, Rules \subseteq DefaultRules
  PROVE  Spec => []ConfiguredProbesStayQuiet
<1>1. Init => OnlyCounted
  BY DEF Init, CounterInit, InFlight, OnlyCounted
<1>2. CountingInv /\ SessionInv /\ OnlyCounted /\ [Next]_vars => OnlyCounted'
  BY OnlyCountedInductive DEF CountingInv, CounterInv
<1>3. OnlyCounted => ConfiguredProbesStayQuiet
  BY DEF OnlyCounted, Counted, ShouldCount, ConfiguredProbesStayQuiet
<1> QED
  BY <1>1, <1>2, <1>3, SessionInitial, SessionInductive, CountingInitial, CountingInductive, PTL
     DEF Spec

-----------------------------------------------------------------------------
(* The session is the one that the guard is checked with                    *)

\* Stage, phase by phase.
StageTable ==
  /\ spc = "set_managed" => Stage = "locked"
  /\ spc = "set_startup" => Stage = "managing"
  /\ spc = "touch_busy" => Stage = "holding"
  /\ spc = "launch" => Stage = "held"
  /\ spc \in {"run_loop", "waiting", "drop_startup"} => Stage = "starting"
  /\ spc = "drop_busy" => Stage = "ready"
  /\ spc \in {"open", "proxying", "draining"} => Stage = Serving
  /\ spc \in {"ending", "reaping"} => Stage = IF startup THEN "starting" ELSE Serving
  /\ spc = "clear_startup" => Stage = "closing"
  /\ spc = "clear_busy" => Stage = "unholding"
  /\ spc = "clear_managed" => Stage = "clearing"
  /\ spc = "release" => Stage = "leaving"
  /\ spc = "done" => Stage = "new"
  /\ CutShort => Stage = "hungup"
  /\ spc = "killed" => Stage = "killed"

LEMMA StageNow == StageTable
  BY DEF StageTable, Stage, CutShort

LEMMA StageNext == StageTable'
  BY StageNow, PTL

\* A wrapper has the lock in every stage between taking and leaving it.
LEMMA StageHolds ==
  ASSUME SessionTyped
  PROVE  Stage \in Card!Holding <=> spc \notin Over
<1>1. CASE spc \in Over
  BY <1>1, StageNow DEF StageTable, Over, CutShort, Card!Holding, Card!Session
<1>2. CASE spc \notin Over
  BY <1>2, StageNow DEF StageTable, SessionTyped, SpcStates, Over, Serving, Card!Holding, Card!Session
<1> QED
  BY <1>1, <1>2

\* The backend computes.
Runs == backend \in {"loading", "up"}

\* A step that the guard cannot see.
LEMMA Unseen ==
  ASSUME Stage' = Stage, Runs' <=> Runs, UNCHANGED <<managed, startup, busy>>
  PROVE  CardStep
  BY DEF CardStep, Card!workVars, Card!markers, Card!activity, Runs

\* Where CardWork's session is, and where it goes.
LEMMA CardPc ==
  /\ [j \in {"session"} |-> Stage]["session"] = Stage
  /\ \A t : Stage' = t => Card!Goto("session", t)
  BY DEF Card!Goto

\* Before the event loop runs.
LEMMA BeginIsCardStep ==
  ASSUME SessionInv, opt.hold, Begin
  PROVE  CardStep
<1> USE DEF Card!markers, Card!activity, Card!workerVars, process
<1>1. CASE SetManaged
  <2>1. Stage = "locked" /\ Stage' = "managing"
    BY <1>1, StageNow, StageNext DEF StageTable, SetManaged
  <2>2. Card!SetManaged("session")
    BY <1>1, <2>1, CardPc DEF SetManaged, Card!SetManaged
  <2> QED
    BY <2>2 DEF CardStep, Card!JobStep
<1>2. CASE SetStartup
  <2>1. Stage = "managing" /\ Stage' = "holding"
    BY <1>2, StageNow, StageNext DEF StageTable, SetStartup
  <2>2. Card!SetStartup("session")
    BY <1>2, <2>1, CardPc DEF SetStartup, Card!SetStartup
  <2> QED
    BY <2>2 DEF CardStep, Card!JobStep
<1>3. CASE TouchBusy
  <2>1. Stage = "holding" /\ Stage' = "held"
    BY <1>3, StageNow, StageNext DEF StageTable, TouchBusy
  <2>2. Card!TouchBusy("session")
    BY <1>3, <2>1, CardPc DEF TouchBusy, Card!TouchBusy
  <2> QED
    BY <2>2 DEF CardStep, Card!JobStep
<1>4. CASE LaunchBackend
  <2>1. Stage = "held" /\ Stage' = "starting" /\ ~Runs /\ Runs'
    BY <1>4, StageNow, StageNext DEF StageTable, LaunchBackend, Runs, SessionInv, PhaseInv, Early
  <2>2. Card!StartBackend("session")
    BY <1>4, <2>1, CardPc DEF LaunchBackend, Card!StartBackend, Runs
  <2> QED
    BY <2>2 DEF CardStep, Card!JobStep
<1>5. CASE StartLoop
  <2>1. Stage' = Stage /\ Runs' = Runs
    BY <1>5, StageNow, StageNext DEF StageTable, StartLoop, Runs
  <2> QED
    BY <1>5, <2>1, Unseen DEF StartLoop
<1> QED
  BY <1>1, <1>2, <1>3, <1>4, <1>5 DEF Begin

\* Until the proxy is open.
LEMMA AwaitIsCardStep ==
  ASSUME SessionInv, opt.hold, Await \/ Open
  PROVE  CardStep
<1> USE DEF Card!markers, Card!activity, Card!workerVars, process
<1>1. CASE Await
  <2>1. spc = "waiting" /\ spc' \in {"drop_startup", "ending"} /\ startup /\ startup' = startup
    BY <1>1 DEF Await, StopWaiting, BackendReady, ReadyTimeout, Proceed, CloseLoop, SessionInv,
                PhaseInv, Held
  <2>2. Stage' = Stage
    BY <2>1, StageNow, StageNext DEF StageTable
  <2>3. Runs' = Runs /\ UNCHANGED <<managed, busy>>
    BY <1>1 DEF Await, StopWaiting, BackendReady, ReadyTimeout, Runs
  <2> QED
    BY <2>1, <2>2, <2>3, Unseen
<1>2. CASE DropStartup
  <2>1. Stage = "starting" /\ Stage' = "ready"
    BY <1>2, StageNow, StageNext DEF StageTable, DropStartup
  <2>2. Card!ClearStartup("session")
    BY <1>2, <2>1, CardPc DEF DropStartup, Card!ClearStartup
  <2> QED
    BY <2>2 DEF CardStep, Card!JobStep
<1>3. CASE DropBusy
  <2>1. Stage = "ready" /\ Stage' = "open"
    BY <1>3, StageNow, StageNext DEF StageTable, DropBusy, Serving
  <2>2. Card!OpenProxy("session")
    BY <1>3, <2>1, CardPc DEF DropBusy, Card!OpenProxy
  <2> QED
    BY <2>2 DEF CardStep, Card!JobStep
<1>4. CASE OpenProxy
  <2>1. spc = "open" /\ spc' \in {"proxying", "ending"} /\ ~startup /\ UNCHANGED <<startup, busy>>
    BY <1>4 DEF OpenProxy, CloseLoop, SessionInv, PhaseInv, Opened
  <2>2. Stage' = Stage
    BY <2>1, StageNow, StageNext DEF StageTable, Serving
  <2>3. Runs' = Runs /\ UNCHANGED managed
    BY <1>4 DEF OpenProxy, Runs
  <2> QED
    BY <2>1, <2>2, <2>3, Unseen
<1> QED
  BY <1>1, <1>2, <1>3, <1>4 DEF Open

\* Of the session the counter moves serve.busy, and that only.
LEMMA CallbackBusy ==
  Callbacks => busy' \in {busy, TRUE, FALSE}
  BY DEF Callbacks, OnLoop, SetBusy, Fails, Decrement, Idle, MaybeIdle, SetIdle, Tick

\* While the proxy is open, until it is closed.
LEMMA ProxyIsCardStep ==
  ASSUME SessionInv, busy \in BOOLEAN, opt.hold, Handle \/ Callbacks \/ StopProxy \/ EndProxy
  PROVE  CardStep
<1> USE DEF Card!markers, Card!activity, Card!workerVars, process
<1>1. CASE Handle
  <2>1. UNCHANGED <<spc, backend, managed, startup, busy>>
    BY <1>1 DEF Handle, Arrive, Increment, Forward
  <2>2. Stage' = Stage
    BY <2>1 DEF Stage, Serving
  <2> QED
    BY <2>1, <2>2, Unseen DEF Runs
<1>2. CASE Callbacks
  <2>1. spc \in {"proxying", "draining"} /\ UNCHANGED <<spc, backend, managed, startup>>
    BY <1>2, CallbackFrame
  <2>2. Stage = Serving /\ Stage' = Serving'
    BY <2>1, StageNow, StageNext DEF StageTable
  <2>3. CASE busy' = busy
    BY <2>1, <2>2, <2>3, Unseen DEF Serving, Runs
  <2>4. CASE ~busy /\ busy' = TRUE
    <3>1. Card!RequestsBegin("session")
      BY <2>1, <2>2, <2>4, CardPc DEF Card!RequestsBegin, Serving
    <3> QED
      BY <3>1 DEF CardStep, Card!JobStep
  <2>5. CASE busy /\ busy' = FALSE
    <3>1. Card!RequestsEnd("session")
      BY <2>1, <2>2, <2>5, CardPc DEF Card!RequestsEnd, Serving
    <3> QED
      BY <3>1 DEF CardStep, Card!JobStep
  <2> QED
    BY <1>2, <2>3, <2>4, <2>5, CallbackBusy
<1>3. CASE StopProxy \/ EndProxy
  <2>1. /\ spc \in {"proxying", "draining"} /\ spc' \in {"draining", "ending"} /\ ~startup
        /\ UNCHANGED <<backend, managed, startup, busy>>
    BY <1>3 DEF StopProxy, EndProxy, CloseLoop, SessionInv, PhaseInv, Opened
  <2>2. Stage' = Stage
    BY <2>1, StageNow, StageNext DEF StageTable, Serving
  <2> QED
    BY <2>1, <2>2, Unseen DEF Runs
<1> QED
  BY <1>1, <1>2, <1>3

\* The finally block.
LEMMA FinishIsCardStep ==
  ASSUME SessionInv, Finish
  PROVE  CardStep
<1> USE DEF Card!markers, Card!activity, Card!workerVars, process
<1>1. ASSUME spc \in {"ending", "reaping"}, spc' = "clear_startup", ~Runs',
             UNCHANGED <<managed, startup, busy>>
      PROVE  CardStep
  <2>1. Stage \in {"starting", "open", "serving"} /\ Stage' = "closing"
    BY <1>1, StageNow, StageNext DEF StageTable, Serving
  <2>2. Card!CloseSession("session")
    BY <1>1, <2>1, CardPc DEF Card!CloseSession, Runs
  <2> QED
    BY <2>2 DEF CardStep, Card!JobStep
<1>2. CASE Terminate
  <2>1. CASE backend = "dead"
    BY <1>1, <1>2, <2>1 DEF Terminate, Runs
  <2>2. CASE backend # "dead"
    <3>1. Stage' = Stage
      BY <1>2, <2>2, StageNow, StageNext DEF StageTable, Terminate, Serving
    <3> QED
      BY <1>2, <3>1, Unseen DEF Terminate, Runs
  <2> QED
    BY <2>1, <2>2
<1>3. CASE Reap
  BY <1>1, <1>3 DEF Reap, Runs
<1>4. CASE ClearStartup
  <2>1. Stage = "closing" /\ Stage' = "unholding"
    BY <1>4, StageNow, StageNext DEF StageTable, ClearStartup
  <2>2. Card!EndStartup("session")
    BY <1>4, <2>1, CardPc DEF ClearStartup, Card!EndStartup
  <2> QED
    BY <2>2 DEF CardStep, Card!JobStep
<1>5. CASE ClearBusy
  <2>1. Stage = "unholding" /\ Stage' = "clearing"
    BY <1>5, StageNow, StageNext DEF StageTable, ClearBusy
  <2>2. Card!EndBusy("session")
    BY <1>5, <2>1, CardPc DEF ClearBusy, Card!EndBusy
  <2> QED
    BY <2>2 DEF CardStep, Card!JobStep
<1>6. CASE ClearManaged
  <2>1. Stage = "clearing" /\ Stage' = "leaving"
    BY <1>6, StageNow, StageNext DEF StageTable, ClearManaged
  <2>2. Card!ClearManaged("session")
    BY <1>6, <2>1, CardPc DEF ClearManaged, Card!ClearManaged
  <2> QED
    BY <2>2 DEF CardStep, Card!JobStep
<1>7. CASE Release
  <2>1. Stage = "leaving" /\ Stage' = "new"
    BY <1>7, StageNow, StageNext DEF StageTable, Release
  <2>2. Card!Release("session")
    BY <1>7, <2>1, CardPc DEF Release, Card!Release
  <2> QED
    BY <2>2 DEF CardStep, Card!JobStep
<1> QED
  BY <1>2, <1>3, <1>4, <1>5, <1>6, <1>7 DEF Finish

\* The backend and the signals.
LEMMA OutsideIsCardStep ==
  ASSUME SessionInv, Outside
  PROVE  CardStep
<1> USE DEF Card!markers, Card!activity, Card!workerVars, process
<1>1. CASE BackendUp \/ WatchBackend \/ SignalStops
  <2>1. UNCHANGED <<spc, managed, startup, busy>>
    BY <1>1 DEF BackendUp, WatchBackend, SignalStops, Signalled
  <2>2. Stage' = Stage
    BY <2>1 DEF Stage, Serving
  <2>3. Runs' = Runs
    BY <1>1 DEF BackendUp, WatchBackend, SignalStops, Signalled, Runs
  <2> QED
    BY <2>1, <2>2, <2>3, Unseen
<1>2. CASE BackendDies
  <2>1. UNCHANGED <<spc, managed, startup, busy>> /\ ~Runs'
    BY <1>2 DEF BackendDies, Runs
  <2>2. Stage' = Stage
    BY <2>1 DEF Stage, Serving
  <2>3. CASE ~Runs
    BY <2>1, <2>2, <2>3, Unseen
  <2>4. CASE Runs
    <3>1. spc \notin Early \cup Reaped
      BY <2>4 DEF Runs, SessionInv, PhaseInv
    <3>2. Stage \in Card!Session \cup {"killed", "hungup"}
      BY <3>1, StageNow DEF StageTable, SessionInv, SessionTyped, SpcStates, Over, Early, Reaped,
                            CutShort, Serving, Card!Session
    <3>3. Card!ChildEnds("session")
      BY <2>1, <2>2, <2>4, <3>2 DEF Card!ChildEnds, Runs
    <3> QED
      BY <3>3 DEF CardStep, Card!JobStep
  <2> QED
    BY <2>3, <2>4
<1>3. CASE SignalExits \/ LaunchRaises \/ CleanupRaises \/ Interrupted
  <2>1. spc \notin Over /\ CutShort'
    BY <1>3 DEF SignalExits, LaunchRaises, CleanupRaises, Interrupted, Signalled, Abort, Over, CutShort
  <2>2. Stage \in Card!Holding /\ Stage' = "hungup"
    BY <2>1, StageHolds, StageNext DEF StageTable, SessionInv
  <2>3. UNCHANGED <<backend, managed, startup, busy>>
    BY <1>3 DEF SignalExits, LaunchRaises, CleanupRaises, Interrupted, Signalled, Abort
  <2>4. Stage # "killed"
    BY <2>2 DEF Card!Holding, Card!Session
  <2>5. Card!Hangup("session")
    BY <2>2, <2>3, <2>4, CardPc DEF Card!Hangup
  <2> QED
    BY <2>5 DEF CardStep
<1>4. CASE SignalKills
  <2>1. Stage \in Card!Holding /\ Stage' = "killed"
    BY <1>4, StageHolds, StageNext DEF StageTable, SignalKills, Signalled, SessionInv
  <2>2. Stage \notin {"new", "killed", "hungup"}
    BY <2>1 DEF Card!Holding, Card!Session
  <2>3. Card!Kill("session")
    BY <1>4, <2>1, <2>2, CardPc DEF SignalKills, Signalled, Card!Kill
  <2> QED
    BY <2>3 DEF CardStep
<1> QED
  BY <1>1, <1>2, <1>3, <1>4 DEF Outside

\* serve.busy is there or not.
BusyType == busy \in BOOLEAN

LEMMA BusyTyped == BusyType /\ [Next]_vars => BusyType'
<1> SUFFICES ASSUME busy \in BOOLEAN, [Next]_vars PROVE busy' \in BOOLEAN
  BY Zenon DEF BusyType
<1>1. CASE Callbacks
  BY <1>1, CallbackBusy
<1>2. CASE ~Callbacks
  <2>1. busy' \in {busy, TRUE, FALSE}
    BY <1>2
       DEF Next, Begin, SetManaged, SetStartup, TouchBusy, LaunchBackend, StartLoop, Await,
           StopWaiting, BackendReady, ReadyTimeout, Open, DropStartup, DropBusy, OpenProxy, Handle,
           Arrive, Increment, Forward, StopProxy, EndProxy, Finish, Terminate, Reap, ClearStartup,
           ClearBusy, ClearManaged, Release, Outside, BackendUp, BackendDies, WatchBackend,
           SignalExits, SignalStops, SignalKills, Signalled, LaunchRaises, CleanupRaises,
           Interrupted, Abort, vars
  <2> QED
    BY <2>1
<1> QED
  BY <1>1, <1>2

\* With the startup hold every step of a session, from its write lock to its end and
\* under any requests, failures and signals, is one that CardWork's serve session
\* may take or one that the guard cannot see; and CardWork's session has the lock
\* exactly while this one has it, or was killed with it (cli.py
\* _run_serve_proxy_command).
THEOREM ImplementsCardWorkHolds == Spec => ImplementsCardWork
<1>1. Init => (opt.hold => Stage = "locked" /\ backend = "none")
  BY StageNow DEF StageTable, Init
<1>2. Init => BusyType
  BY Zenon DEF Init, BusyType
<1>3. SessionInv => (opt.hold => (lock <=> Stage \in Card!Holding \cup {"killed"}))
  <2> SUFFICES ASSUME SessionInv PROVE lock <=> Stage \in Card!Holding \cup {"killed"}
    OBVIOUS
  <2>1. CASE spc \in Over
    BY <2>1, StageNow, StageHolds DEF StageTable, Over, CutShort, SessionInv, PhaseInv
  <2>2. CASE spc \notin Over
    BY <2>2, StageHolds DEF Over, CutShort, SessionInv, PhaseInv
  <2> QED
    BY <2>1, <2>2
<1>4. SessionInv /\ BusyType /\ [Next]_vars => [opt.hold => CardStep]_vars
  BY BeginIsCardStep, AwaitIsCardStep, ProxyIsCardStep, FinishIsCardStep, OutsideIsCardStep
     DEF Next, BusyType
<1> QED
  BY <1>1, <1>2, <1>3, <1>4, SessionInitial, SessionInductive, BusyTyped, PTL
     DEF Spec, ImplementsCardWork
=============================================================================
