------------------------------ MODULE RunProofs ------------------------------
(***************************************************************************)
(* What a run chooses, starts, supervises, counts and stops, proved for     *)
(* every value of the constants: its device under the recovery supervisor   *)
(* (Supervisor), its servers (ServerStart), the copies of the counters that *)
(* a scraper reads (MetricsService), the choice of the device               *)
(* (DeviceSelection) and the reading of the command line (CommandLine).     *)
(***************************************************************************)
EXTENDS Supervisor, ServerStart, MetricsService, DeviceSelection, CommandLine,
        ModularArithmetic, FiniteSetTheorems, SequenceTheorems, TLAPS

-----------------------------------------------------------------------------
(* The supervisor: the inductive invariant *)

Opened == {"start", "launch", "isRunning", "read", "close", "cancel", "join",
           "closeHandle"}
Watched == {"isRunning", "read", "close", "cancel", "join", "closeHandle",
            "joinWatchdog"}

\* Where main is says which of handle, reader thread and watchdog there are.
LifeInv ==
  /\ handle = "open" <=> mpc \in Opened
  /\ wpc # "off" <=> mpc \in Watched
  /\ mpc = "start" => dthread = "none"
  /\ BetweenRuns => dthread \in {"none", "ended"}
  /\ mpc \in Watched \cup {"launch"} => dthread # "none"
  /\ mpc \in {"closeHandle", "joinWatchdog", "result"} => dthread = "ended"
  /\ handle = "closed" => dthread = "ended"

\* Where the request for recovery stands, from the watchdog that declares the
\* loss to main that takes note of it.
LossInv ==
  /\ wpc \in {"loop", "tune", "inspect", "dropSigint"} => ~deviceLost /\ ~lostReq
  /\ wpc \in {"lostShut", "lostSigint", "lostRequest"} => deviceLost /\ ~lostReq
  /\ wpc = "done" \/ mpc = "result" => (lostReq <=> deviceLost)
  /\ mpc \in {"start", "launch"} => ~deviceLost
  /\ mpc \in {"setup", "start", "launch", "lost", "retry", "sleep"} => ~lostReq
  /\ mpc = "after" => /\ outcome = "DeviceLost" <=> deviceLost
                      /\ lostReq => outcome = "DeviceLost"
  /\ mpc = "top" => (lostReq => reselectReq)

\* Who asked for the shutdown that is requested: a signal, or the watchdog of
\* this run, which then no longer calls the shutdown intended.
StopInv ==
  /\ mpc \in {"clearLost", "setup", "start", "launch"} => (shutdownReq => signalled)
  /\ mpc = "top" => reselectReq \/ (shutdownReq => signalled)
  /\ wpc # "off" => (shutdownReq => signalled \/ ~intended \/ wpc = "lostRequest")
  /\ wpc = "dropSigint" => ~intended
  /\ wpc \in {"lostRequest", "done"} => shutdownReq
  /\ wpc = "done" \/ mpc = "result" => (intended => signalled /\ ~lostReq)
  /\ mpc = "after" /\ outcome = "Clean" => signalled /\ intended /\ ~deviceLost
  /\ mpc = "exit0" => signalled /\ intended /\ ~deviceLost

IInv == TypeOK /\ LifeInv /\ LossInv /\ StopInv

-----------------------------------------------------------------------------
(* The supervisor: the first state and the types *)

\* The process has just been started.
LEMMA SupInit == Init => IInv
<1> SUFFICES ASSUME Init PROVE IInv
  OBVIOUS
<1>1. /\ shutdownReq \in BOOLEAN /\ reselectReq \in BOOLEAN /\ lostReq \in BOOLEAN
      /\ hup \in BOOLEAN /\ recovering \in BOOLEAN /\ intended \in BOOLEAN
      /\ running \in BOOLEAN /\ cancelled \in BOOLEAN /\ deviceLost \in BOOLEAN
      /\ full \in BOOLEAN /\ ringShut \in BOOLEAN /\ quiet \in BOOLEAN
      /\ delivered \in BOOLEAN /\ signalled \in BOOLEAN /\ askedIdle \in BOOLEAN
  BY Zenon DEF Init
<1>2. TypeOK
  BY <1>1, SupervisorAssumption DEF Init, TypeOK, BetweenRuns
<1>3. LifeInv
  BY DEF Init, LifeInv, BetweenRuns, Opened, Watched
<1>4. LossInv /\ StopInv
  BY DEF Init, LossInv, StopInv
<1> QED BY <1>2, <1>3, <1>4 DEF IInv

\* Every step keeps the types.
LEMMA SupTypes == TypeOK /\ Next => TypeOK'
<1> SUFFICES ASSUME TypeOK, Next PROVE TypeOK'
  OBVIOUS
<1> USE SupervisorAssumption DEF TypeOK, BetweenRuns, InRun, MainGoes, WatchdogGoes,
        flags, mainVars, devVars, ringVars, envVars, ghosts, runVars, mainAndEnv,
        notDevice
<1>1. CASE StartOver
  <2>1. reselectReq' \in BOOLEAN
    BY <1>1, Zenon DEF StartOver
  <2> QED BY <1>1, <2>1 DEF StartOver
<1>2. CASE StartOverClearShutdown
  <2>1. shutdownReq' \in BOOLEAN /\ signalled' \in BOOLEAN
    BY <1>2, Zenon DEF StartOverClearShutdown
  <2> QED BY <1>2, <2>1 DEF StartOverClearShutdown
<1>3. CASE StartOverClearLost
  <2>1. lostReq' \in BOOLEAN /\ recovering' \in BOOLEAN
    BY <1>3, Zenon DEF StartOverClearLost
  <2> QED BY <1>3, <2>1 DEF StartOverClearLost
<1>4. CASE GoOn
  BY <1>4 DEF GoOn
<1>5. CASE SetupFails
  <2>1. /\ running' \in BOOLEAN /\ cancelled' \in BOOLEAN
       /\ deviceLost' \in BOOLEAN /\ full' \in BOOLEAN
       /\ ringShut' \in BOOLEAN
    BY <1>5, Zenon DEF SetupFails
  <2> QED BY <1>5, <2>1 DEF SetupFails
<1>6. CASE SetupOpens
  <2>1. /\ running' \in BOOLEAN /\ cancelled' \in BOOLEAN
       /\ deviceLost' \in BOOLEAN /\ full' \in BOOLEAN
       /\ ringShut' \in BOOLEAN /\ delivered' \in BOOLEAN
       /\ askedIdle' \in BOOLEAN
    BY <1>6, Zenon DEF SetupOpens
  <2> QED BY <1>6, <2>1 DEF SetupOpens
<1>7. CASE StartDevice
  BY <1>7 DEF StartDevice
<1>8. CASE Launch
  <2>1. quiet' \in BOOLEAN /\ intended' \in BOOLEAN
    BY <1>8, Zenon DEF Launch
  <2> QED BY <1>8, <2>1 DEF Launch
<1>9. CASE EnterStream
  BY <1>9 DEF EnterStream
<1>10. CASE ReadBlock
  <2>1. full' \in BOOLEAN
    BY <1>10, Zenon DEF ReadBlock
  <2> QED BY <1>10, <2>1 DEF ReadBlock
<1>11. CASE StreamEnds
  BY <1>11 DEF StreamEnds
<1>12. CASE StopShutsWriter
  BY <1>12 DEF StopShutsWriter
<1>13. CASE StopCancels
  <2>1. running' \in BOOLEAN
    BY <1>13, Zenon DEF StopCancels
  <2> QED BY <1>13, <2>1 DEF StopCancels
<1>14. CASE StopJoins
  BY <1>14 DEF StopJoins
<1>15. CASE CloseHandle
  BY <1>15 DEF CloseHandle
<1>16. CASE JoinWatchdog
  BY <1>16 DEF JoinWatchdog
<1>17. CASE RunResult
  BY <1>17 DEF RunResult
<1>18. CASE Reselect
  BY <1>18 DEF Reselect
<1>19. CASE Finish
  BY <1>19 DEF Finish
<1>20. CASE NoteLoss
  <2>1. lostReq' \in BOOLEAN
    BY <1>20, Zenon DEF NoteLoss
  <2> QED BY <1>20, <2>1 DEF NoteLoss
<1>21. CASE BeginRecovery
  <2>1. /\ shutdownReq' \in BOOLEAN /\ signalled' \in BOOLEAN
       /\ recovering' \in BOOLEAN
    BY <1>21, Zenon DEF BeginRecovery
  <2> QED BY <1>21, <2>1 DEF BeginRecovery
<1>22. CASE FailedRun
  BY <1>22 DEF FailedRun
<1>23. CASE GiveUp
  BY <1>23 DEF GiveUp
<1>24. CASE Attempt
  BY <1>24 DEF Attempt
<1>25. CASE WakeUp
  BY <1>25 DEF WakeUp
<1>26. CASE WatchdogStops
  BY <1>26 DEF WatchdogStops
<1>27. CASE Maintain
  BY <1>27 DEF Maintain
<1>28. CASE Tuned
  BY <1>28 DEF Tuned
<1>29. CASE MarkDeviceLost
  BY <1>29 DEF MarkDeviceLost
<1>30. CASE LostShutsWriter
  BY <1>30 DEF LostShutsWriter
<1>31. CASE LostRaisesShutdown
  BY <1>31 DEF LostRaisesShutdown
<1>32. CASE LostAsksRecovery
  <2>1. lostReq' \in BOOLEAN /\ intended' \in BOOLEAN
    BY <1>32, Zenon DEF LostAsksRecovery
  <2> QED BY <1>32, <2>1 DEF LostAsksRecovery
<1>33. CASE DropsTolerated
  BY <1>33 DEF DropsTolerated
<1>34. CASE TooManyDrops
  <2>1. intended' \in BOOLEAN /\ ringShut' \in BOOLEAN
    BY <1>34, Zenon DEF TooManyDrops
  <2> QED BY <1>34, <2>1 DEF TooManyDrops
<1>35. CASE DropRaisesShutdown
  BY <1>35 DEF DropRaisesShutdown
<1>36. CASE ReaderStarts
  BY <1>36 DEF ReaderStarts
<1>37. CASE Deliver
  <2>1. quiet' \in BOOLEAN /\ delivered' \in BOOLEAN
    BY <1>37, Zenon DEF Deliver
  <2> QED BY <1>37, <2>1 DEF Deliver
<1>38. CASE WriterReturns
  BY <1>38 DEF WriterReturns
<1>39. CASE ReaderEnds
  <2>1. running' \in BOOLEAN
    BY <1>39, Zenon DEF ReaderEnds
  <2> QED BY <1>39, <2>1 DEF ReaderEnds
<1>40. CASE FallQuiet
  BY <1>40 DEF FallQuiet
<1>41. CASE Sigint
  BY <1>41 DEF Sigint
<1>42. CASE SighupReselect
  BY <1>42 DEF SighupReselect
<1>43. CASE SighupShutdown
  <2>1. /\ shutdownReq' \in BOOLEAN /\ signalled' \in BOOLEAN
       /\ hup' \in BOOLEAN
    BY <1>43, Zenon DEF SighupShutdown
  <2> QED BY <1>43, <2>1 DEF SighupShutdown
<1>44. CASE Replug
  BY <1>44 DEF Replug
<1> QED
  BY <1>1, <1>2, <1>3, <1>4, <1>5, <1>6, <1>7, <1>8, <1>9, <1>10, <1>11,
     <1>12, <1>13, <1>14, <1>15, <1>16, <1>17, <1>18, <1>19, <1>20, <1>21,
     <1>22, <1>23, <1>24, <1>25, <1>26, <1>27, <1>28, <1>29, <1>30, <1>31,
     <1>32, <1>33, <1>34, <1>35, <1>36, <1>37, <1>38, <1>39, <1>40, <1>41,
     <1>42, <1>43, <1>44 DEF Next, MainStep, WatchdogStep, DeviceStep

-----------------------------------------------------------------------------
(* The supervisor: every step keeps the invariant *)

\* A step of the main thread.
LEMMA SupMainStep ==
  ASSUME IInv, MainStep
  PROVE  LifeInv' /\ LossInv' /\ StopInv'
<1> USE DEF IInv, TypeOK, LifeInv, LossInv, StopInv, BetweenRuns, Opened,
        Watched, MainGoes, WatchdogGoes, flags, mainVars, devVars, ringVars,
        envVars, ghosts, runVars, mainAndEnv, notDevice
<1>1. CASE StartOver
  BY <1>1 DEF StartOver
<1>2. CASE StartOverClearShutdown
  BY <1>2 DEF StartOverClearShutdown
<1>3. CASE StartOverClearLost
  BY <1>3 DEF StartOverClearLost
<1>4. CASE GoOn
  BY <1>4 DEF GoOn
<1>5. CASE SetupFails
  BY <1>5 DEF SetupFails
<1>6. CASE SetupOpens
  BY <1>6 DEF SetupOpens
<1>7. CASE StartDevice
  BY <1>7 DEF StartDevice
<1>8. CASE Launch
  BY <1>8 DEF Launch
<1>9. CASE EnterStream
  BY <1>9 DEF EnterStream
<1>10. CASE ReadBlock
  BY <1>10 DEF ReadBlock
<1>11. CASE StreamEnds
  BY <1>11 DEF StreamEnds
<1>12. CASE StopShutsWriter
  BY <1>12 DEF StopShutsWriter
<1>13. CASE StopCancels
  BY <1>13 DEF StopCancels
<1>14. CASE StopJoins
  BY <1>14 DEF StopJoins
<1>15. CASE CloseHandle
  BY <1>15 DEF CloseHandle
<1>16. CASE JoinWatchdog
  BY <1>16 DEF JoinWatchdog
<1>17. CASE RunResult
  BY <1>17 DEF RunResult
<1>18. CASE Reselect
  BY <1>18 DEF Reselect
<1>19. CASE Finish
  BY <1>19 DEF Finish
<1>20. CASE NoteLoss
  BY <1>20 DEF NoteLoss
<1>21. CASE BeginRecovery
  BY <1>21 DEF BeginRecovery
<1>22. CASE FailedRun
  BY <1>22 DEF FailedRun
<1>23. CASE GiveUp
  BY <1>23 DEF GiveUp
<1>24. CASE Attempt
  BY <1>24 DEF Attempt
<1>25. CASE WakeUp
  BY <1>25 DEF WakeUp
<1> QED
  BY <1>1, <1>2, <1>3, <1>4, <1>5, <1>6, <1>7, <1>8, <1>9, <1>10, <1>11,
     <1>12, <1>13, <1>14, <1>15, <1>16, <1>17, <1>18, <1>19, <1>20, <1>21,
     <1>22, <1>23, <1>24, <1>25 DEF MainStep

\* A step of the watchdog.
LEMMA SupWatchdogStep ==
  ASSUME IInv, WatchdogStep
  PROVE  LifeInv' /\ LossInv' /\ StopInv'
<1> USE DEF IInv, TypeOK, LifeInv, LossInv, StopInv, BetweenRuns, Opened,
        Watched, MainGoes, WatchdogGoes, flags, mainVars, devVars, ringVars,
        envVars, ghosts, runVars, mainAndEnv, notDevice
<1>1. CASE WatchdogStops
  BY <1>1 DEF WatchdogStops
<1>2. CASE Maintain
  BY <1>2 DEF Maintain
<1>3. CASE Tuned
  BY <1>3 DEF Tuned
<1>4. CASE MarkDeviceLost
  BY <1>4 DEF MarkDeviceLost
<1>5. CASE LostShutsWriter
  BY <1>5 DEF LostShutsWriter
<1>6. CASE LostRaisesShutdown
  BY <1>6 DEF LostRaisesShutdown
<1>7. CASE LostAsksRecovery
  BY <1>7 DEF LostAsksRecovery
<1>8. CASE DropsTolerated
  BY <1>8 DEF DropsTolerated
<1>9. CASE TooManyDrops
  BY <1>9 DEF TooManyDrops
<1>10. CASE DropRaisesShutdown
  BY <1>10 DEF DropRaisesShutdown
<1> QED
  BY <1>1, <1>2, <1>3, <1>4, <1>5, <1>6, <1>7, <1>8, <1>9, <1>10 DEF
     WatchdogStep

\* A step of the reader thread of the device.
LEMMA SupDeviceStep ==
  ASSUME IInv, DeviceStep
  PROVE  LifeInv' /\ LossInv' /\ StopInv'
<1> USE DEF IInv, TypeOK, LifeInv, LossInv, StopInv, BetweenRuns, Opened,
        Watched, MainGoes, WatchdogGoes, flags, mainVars, devVars, ringVars,
        envVars, ghosts, runVars, mainAndEnv, notDevice
<1>1. CASE ReaderStarts
  BY <1>1 DEF ReaderStarts
<1>2. CASE Deliver
  BY <1>2 DEF Deliver
<1>3. CASE WriterReturns
  BY <1>3 DEF WriterReturns
<1>4. CASE ReaderEnds
  BY <1>4 DEF ReaderEnds
<1> QED
  BY <1>1, <1>2, <1>3, <1>4 DEF DeviceStep

\* Time passes, a signal arrives, the antenna end changes.
LEMMA SupOutside ==
  ASSUME IInv, FallQuiet \/ Sigint \/ SighupReselect \/ SighupShutdown \/ Replug
  PROVE  LifeInv' /\ LossInv' /\ StopInv'
<1> USE DEF IInv, TypeOK, LifeInv, LossInv, StopInv, BetweenRuns, Opened,
        Watched, MainGoes, WatchdogGoes, flags, mainVars, devVars, ringVars,
        envVars, ghosts, runVars, mainAndEnv, notDevice
<1>1. CASE FallQuiet
  BY <1>1 DEF FallQuiet
<1>2. CASE Sigint
  BY <1>2 DEF Sigint
<1>3. CASE SighupReselect
  BY <1>3 DEF SighupReselect
<1>4. CASE SighupShutdown
  BY <1>4 DEF SighupShutdown
<1>5. CASE Replug
  BY <1>5 DEF Replug
<1> QED
  BY <1>1, <1>2, <1>3, <1>4, <1>5

\* Every step of every actor.
LEMMA SupNext == IInv /\ [Next]_vars => IInv'
<1> SUFFICES ASSUME IInv, [Next]_vars PROVE IInv'
  OBVIOUS
<1>1. CASE Next
  BY <1>1, SupTypes, SupMainStep, SupWatchdogStep, SupDeviceStep, SupOutside
     DEF IInv, Next
<1>2. CASE UNCHANGED vars
  BY <1>2 DEF vars, flags, mainVars, devVars, ringVars, envVars, ghosts,
     runVars, IInv, TypeOK, LifeInv, LossInv, StopInv, BetweenRuns, InRun,
     Opened, Watched
<1> QED BY <1>1, <1>2

-----------------------------------------------------------------------------
(* The supervisor: what holds in every state *)

\* The inductive invariant: for each place of main which threads run and whether
\* the handle is open, where a loss and a request to stop come from
\* (MainInstance.hpp, run_async_device; ProcessSignals.hpp; main.cpp).
THEOREM SupIInv == SafeSpec => []IInv
BY SupInit, SupNext, PTL DEF SafeSpec

\* Type correctness of the supervisor.
THEOREM SupTypeOK == SafeSpec => []TypeOK
BY SupIInv, PTL DEF IInv

\* Between two runs no watchdog, reader thread or open handle is left
\* (MainInstance.hpp, run_async_device).
THEOREM SupNothingLeftBehind == SafeSpec => []NothingLeftBehind
<1>1. IInv => NothingLeftBehind
  BY DEF IInv, LifeInv, NothingLeftBehind, BetweenRuns, Opened, Watched
<1> QED BY <1>1, SupIInv, PTL

\* The handle is never closed under the reader thread
\* (RtlSdrDevice.cpp, close).
THEOREM SupReaderGoneBeforeClose == SafeSpec => []ReaderGoneBeforeClose
<1>1. IInv => ReaderGoneBeforeClose
  BY DEF IInv, LifeInv, ReaderGoneBeforeClose
<1> QED BY <1>1, SupIInv, PTL

\* main() learns of a loss exactly when this run had one, begins no run with
\* a stop nobody asked for, and ends with success only if it was told to.
THEOREM SupEndToldOnce == SafeSpec => []EndToldOnce
<1>1. IInv => EndToldOnce
  BY DEF IInv, LossInv, StopInv, EndToldOnce, LossReported, NoStaleStop,
     SuccessMeansAsked
<1> QED BY <1>1, SupIInv, PTL

-----------------------------------------------------------------------------
(* The servers of a run *)

Metrics == {"metrics"}

\* What is open at each place of the start and of the end.
OpenInv ==
  /\ at \in {"idle", "metrics", "metricsBind", "tcp", "pipe", "avr", "beast", "worker",
             "run", "stop", "stopMetrics"}
  /\ open \subseteq Metrics \cup Pipe \cup Listeners
  /\ at \in {"idle", "metrics", "metricsBind", "tcp", "stopMetrics"} => open \subseteq Metrics
  /\ at \in {"pipe", "worker"} \cup Listeners => Enabled # {} /\ Pipe \subseteq open
  /\ at = "pipe" => open \cap Listeners = {}
  /\ at = "avr" => "avr" \in Enabled /\ "beast" \notin open
  /\ at = "beast" => "beast" \in Enabled /\ ("avr" \in open <=> "avr" \in Enabled)
  /\ at = "worker" => open \cap Listeners = Enabled
  /\ at = "run" => /\ isRunning <=> Enabled # {}
                   /\ isRunning => Pipe \subseteq open /\ open \cap Listeners = Enabled
                   /\ ~isRunning => open \subseteq Metrics
  /\ at = "stop" /\ ~isRunning => open \subseteq Metrics

\* Who runs, and that what listens is what is open.
ServerInv ==
  /\ isRunning \in BOOLEAN /\ metricsRunning \in BOOLEAN /\ worker = isRunning
  /\ at \notin {"run", "stop"} => ~isRunning
  /\ at \in {"idle", "metrics", "metricsBind"} => ~metricsRunning
  /\ "metrics" \in open <=> metricsRunning \/ at = "metricsBind"

BoundInv ==
  /\ bound = [l \in DOMAIN bound |-> bound[l]]
  /\ DOMAIN bound = (open \cap Listeners) \cup IF metricsRunning THEN Metrics ELSE {}
  /\ \A l \in DOMAIN bound : bound[l][2] = ports[l]

StartInv == OpenInv /\ ServerInv /\ BoundInv

SpecStart == InitStart /\ [][NextStart]_startVars

LEMMA StartInit == InitStart => StartInv
<1> SUFFICES ASSUME InitStart PROVE StartInv
  OBVIOUS
<1>1. OpenInv /\ ServerInv
  BY DEF InitStart, OpenInv, ServerInv, Metrics, Pipe, Listeners
<1>2. BoundInv
  BY DEF InitStart, BoundInv, Metrics
<1> QED BY <1>1, <1>2 DEF StartInv

\* What Bind and Only make of what is bound.
LEMMA BindFacts ==
  ASSUME NEW l, NEW place, Bind(l, place)
  PROVE  /\ DOMAIN bound' = DOMAIN bound \cup {l} /\ bound'[l] = place
         /\ bound' = [k \in DOMAIN bound' |-> bound'[k]]
         /\ \A k \in DOMAIN bound : k # l => bound'[k] = bound[k]
BY DEF Bind

LEMMA OnlyFacts ==
  ASSUME NEW kept, Only(kept)
  PROVE  /\ open' = open \cap kept /\ DOMAIN bound' = DOMAIN bound \cap kept
         /\ bound' = [k \in DOMAIN bound' |-> bound'[k]]
         /\ \A k \in DOMAIN bound' : bound'[k] = bound[k]
BY DEF Only

LEMMA StartStep == StartInv /\ [NextStart]_startVars => StartInv'
<1> SUFFICES ASSUME StartInv, [NextStart]_startVars PROVE StartInv'
  OBVIOUS
<1> USE DEF Metrics, Pipe, Listeners, Enabled, Goes
<1>1. CASE Others \/ UNCHANGED startVars
  BY <1>1 DEF Others, startVars, StartInv, OpenInv, ServerInv, BoundInv
<1>2. CASE BeginRun
  BY <1>2 DEF BeginRun, StartInv, OpenInv, ServerInv, BoundInv
<1>3. CASE MetricsSocket
  BY <1>3 DEF MetricsSocket, StartInv, OpenInv, ServerInv, BoundInv
<1>4. CASE MetricsBind
  <2> DEFINE place == <<MetricsAddress, ports["metrics"]>>
  <2>1. /\ at = "metricsBind" /\ at' = "tcp"
        /\ UNCHANGED <<ports, isRunning, worker>>
        /\ \/ open' = open \ {"metrics"} /\ bound' = bound /\ metricsRunning' = metricsRunning
           \/ Bind("metrics", place) /\ metricsRunning' = TRUE /\ open' = open
    BY <1>4 DEF MetricsBind
  <2>2. place[2] = ports["metrics"]
    OBVIOUS
  <2>3. open \subseteq Metrics /\ ~metricsRunning /\ "metrics" \in open /\ ~isRunning
    BY <2>1 DEF StartInv, OpenInv, ServerInv
  <2> HIDE DEF place
  <2>4. CASE open' = open \ {"metrics"} /\ bound' = bound /\ metricsRunning' = metricsRunning
    BY <2>1, <2>3, <2>4 DEF StartInv, OpenInv, ServerInv, BoundInv
  <2>5. CASE Bind("metrics", place) /\ metricsRunning' = TRUE /\ open' = open
    <3>1. OpenInv' /\ ServerInv'
      BY <2>1, <2>3, <2>5 DEF StartInv, OpenInv, ServerInv
    <3>2. /\ DOMAIN bound' = DOMAIN bound \cup {"metrics"} /\ bound'["metrics"] = place
          /\ bound' = [k \in DOMAIN bound' |-> bound'[k]]
          /\ \A k \in DOMAIN bound : k # "metrics" => bound'[k] = bound[k]
      BY <2>5, BindFacts
    <3>3. BoundInv'
      BY <2>1, <2>2, <2>3, <2>5, <3>2 DEF StartInv, BoundInv
    <3> QED BY <3>1, <3>3 DEF StartInv
  <2> QED BY <2>1, <2>4, <2>5
<1>5. CASE OpenPipe
  BY <1>5 DEF OpenPipe, StartInv, OpenInv, ServerInv, BoundInv
<1>6. ASSUME Cleanup, StartInv, UNCHANGED <<metricsRunning, ports>>
      PROVE  BoundInv' /\ open' = open \cap Metrics
  BY <1>6, OnlyFacts DEF Cleanup, StartInv, BoundInv
<1>7. CASE ConfigurePipe
  <2>1. OpenInv' /\ ServerInv'
    BY <1>6, <1>7 DEF ConfigurePipe, After, StartInv, OpenInv, ServerInv
  <2>2. BoundInv'
    BY <1>6, <1>7 DEF ConfigurePipe, StartInv, BoundInv
  <2> QED BY <2>1, <2>2 DEF StartInv
<1>8. CASE TryAddress
  <2> DEFINE place == <<Addresses[candidate], ports[at]>>
  <2>1. /\ at \in Listeners /\ at \notin open
        /\ UNCHANGED <<ports, isRunning, worker, metricsRunning, at>>
        /\ \/ open' = open /\ bound' = bound
           \/ open' = open \cup {at} /\ Bind(at, place)
    BY <1>8 DEF TryAddress
  <2>2. place[2] = ports[at]
    OBVIOUS
  <2> HIDE DEF place
  <2>3. CASE open' = open /\ bound' = bound
    BY <2>1, <2>3 DEF StartInv, OpenInv, ServerInv, BoundInv
  <2>4. CASE open' = open \cup {at} /\ Bind(at, place)
    <3>1. OpenInv' /\ ServerInv'
      BY <2>1, <2>4 DEF StartInv, OpenInv, ServerInv
    <3>2. /\ DOMAIN bound' = DOMAIN bound \cup {at} /\ bound'[at] = place
          /\ bound' = [k \in DOMAIN bound' |-> bound'[k]]
          /\ \A k \in DOMAIN bound : k # at => bound'[k] = bound[k]
      BY <2>4, BindFacts
    <3>3. BoundInv'
      BY <2>1, <2>2, <2>4, <3>2 DEF StartInv, BoundInv
    <3> QED BY <3>1, <3>3 DEF StartInv
  <2> QED BY <2>1, <2>3, <2>4
<1>9. CASE NoAddress
  <2>1. OpenInv' /\ ServerInv'
    BY <1>6, <1>9 DEF NoAddress, StartInv, OpenInv, ServerInv
  <2> QED BY <1>6, <1>9, <2>1 DEF NoAddress, StartInv
<1>10. CASE InspectListener
  <2>1. OpenInv' /\ ServerInv'
    BY <1>6, <1>10 DEF InspectListener, After, StartInv, OpenInv, ServerInv
  <2>2. BoundInv'
    BY <1>6, <1>10 DEF InspectListener, StartInv, BoundInv
  <2> QED BY <2>1, <2>2 DEF StartInv
<1>11. CASE StartWorker
  BY <1>11 DEF StartWorker, StartInv, OpenInv, ServerInv, BoundInv
<1>12. CASE EndRun
  BY <1>12 DEF EndRun, StartInv, OpenInv, ServerInv, BoundInv
<1>13. CASE StopTcp
  <2>1. OpenInv' /\ ServerInv'
    BY <1>6, <1>13 DEF StopTcp, StartInv, OpenInv, ServerInv
  <2>2. BoundInv'
    BY <1>6, <1>13 DEF StopTcp, StartInv, BoundInv
  <2> QED BY <2>1, <2>2 DEF StartInv
<1>14. CASE StopMetrics
  <2>1. CASE metricsRunning
    <3>1. /\ open' = open \cap (Pipe \cup Listeners) /\ DOMAIN bound' = DOMAIN bound \cap (Pipe \cup Listeners)
          /\ bound' = [k \in DOMAIN bound' |-> bound'[k]]
          /\ \A k \in DOMAIN bound' : bound'[k] = bound[k]
      BY <1>14, <2>1, OnlyFacts DEF StopMetrics
    <3> QED BY <1>14, <3>1 DEF StopMetrics, StartInv, OpenInv, ServerInv, BoundInv
  <2>2. CASE ~metricsRunning
    BY <1>14, <2>2 DEF StopMetrics, StartInv, OpenInv, ServerInv, BoundInv
  <2> QED BY <2>1, <2>2
<1> QED BY <1>1, <1>2, <1>3, <1>4, <1>5, <1>7, <1>8, <1>9, <1>10, <1>11, <1>12, <1>13,
           <1>14 DEF NextStart

\* While a run decodes, it listens to each protocol that was asked for; before
\* and after it nothing is open, bound or running.
THEOREM StartServersWhole == SpecStart => []ServersWhole
<1>1. StartInv => ServersWhole
  <2> SUFFICES ASSUME StartInv PROVE ServersWhole
    OBVIOUS
  <2> USE DEF StartInv, OpenInv, ServerInv, BoundInv, Metrics, Pipe, Listeners, Enabled
  <2>1. ASSUME at = "idle" PROVE bound = <<>>
    <3>1. DOMAIN bound = {}
      BY <2>1
    <3> QED BY <3>1
  <2> QED BY <2>1 DEF ServersWhole
<1>2. InitStart => StartInv
  BY StartInit
<1>3. StartInv /\ [NextStart]_startVars => StartInv'
  BY StartStep
<1> QED BY <1>1, <1>2, <1>3, PTL DEF SpecStart

-----------------------------------------------------------------------------
(* The numbers a run shows *)

\* What the window and the totals hold of what was counted, and how far the
\* window has gone since the last copy.
LoggedInv ==
  /\ {window, total, counted} \subseteq [Events -> Nat] /\ lastPublish \in Nat
  /\ Cumulative = counted
  /\ lastPublish <= window["iterations"] /\ silent = window["iterations"] - lastPublish
  /\ silent < PublishInterval
  /\ ~EndOnly => window["iterations"] < TickIterations

SpecService == InitService /\ [][NextService]_serviceVars

\* A copy is due where the interval is over, and where the window began again.
LEMMA PublishDueExact ==
  ASSUME lastPublish \in Nat, NEW count \in Nat
  PROVE  /\ count >= lastPublish /\ count - lastPublish < PublishInterval + BlockIterations =>
              (PublishDue(count) <=> count - lastPublish >= PublishInterval)
         /\ count = 0 /\ lastPublish > 0 /\ lastPublish < TickIterations => PublishDue(count)
<1>0. /\ {BlockIterations, TickIterations, PublishInterval, CounterRange} \subseteq Nat \ {0}
      /\ PublishInterval + BlockIterations <= TickIterations
      /\ TickIterations + PublishInterval <= CounterRange
  BY MetricsServiceAssumption, PublishAssumption
<1>1. ASSUME count >= lastPublish, count - lastPublish < PublishInterval + BlockIterations
      PROVE  PublishDue(count) <=> count - lastPublish >= PublishInterval
  <2>1. count - lastPublish \in 0..CounterRange-1
    BY <1>0, <1>1
  <2>2. (count - lastPublish) % CounterRange = count - lastPublish
    BY <1>0, <2>1, ModSmall
  <2> QED BY <2>2 DEF PublishDue
<1>2. ASSUME count = 0, lastPublish > 0, lastPublish < TickIterations PROVE PublishDue(count)
  <2>1. /\ CounterRange - lastPublish \in 0..CounterRange-1
        /\ CounterRange - lastPublish >= PublishInterval
        /\ count - lastPublish = CounterRange * (-1) + (CounterRange - lastPublish)
    BY <1>0, <1>2
  <2>2. (count - lastPublish) % CounterRange = CounterRange - lastPublish
    BY <1>0, <1>2, <2>1, ModUnique
  <2> QED BY <2>1, <2>2 DEF PublishDue
<1> QED BY <1>1, <1>2

LEMMA LoggedInit == InitService => LoggedInv
BY MetricsServiceAssumption DEF InitService, LoggedInv, NothingCounted, Events, Cumulative, AccumulateInto

LEMMA LoggedStep == LoggedInv /\ [NextService]_serviceVars => LoggedInv'
<1> SUFFICES ASSUME LoggedInv, [NextService]_serviceVars PROVE LoggedInv'
  OBVIOUS
<1>0. /\ {BlockIterations, TickIterations, PublishInterval, CounterRange} \subseteq Nat \ {0}
      /\ PublishInterval + BlockIterations <= TickIterations
      /\ TickIterations + PublishInterval <= CounterRange /\ EndOnly \in BOOLEAN
  BY MetricsServiceAssumption, PublishAssumption
<1>1. CASE UNCHANGED <<window, total, lastPublish, counted, silent>>
  BY <1>1 DEF LoggedInv, Cumulative, AccumulateInto
<1>2. CASE StartService
  BY <1>0, <1>2 DEF StartService, LoggedInv, NothingCounted, Events, Cumulative, AccumulateInto
<1>3. CASE CountBlock
  <2>1. PICK frames \in {0, 1} :
          LET logged(c) == Log(Log(c, "sent", frames), "iterations", BlockIterations)
              ticked == IF EndOnly THEN [window |-> logged(window), total |-> total]
                        ELSE PrintTick(logged(window), total)
              due == PublishDue(ticked.window["iterations"])
          IN  /\ window' = ticked.window /\ total' = ticked.total
              /\ counted' = logged(counted)
              /\ lastPublish' = IF due THEN window'["iterations"] ELSE lastPublish
              /\ silent' = IF due THEN 0 ELSE silent + BlockIterations
    BY <1>3 DEF CountBlock
  <2>2. PICK win \in [Events -> Nat] :
          /\ win = Log(Log(window, "sent", frames), "iterations", BlockIterations)
          /\ win["iterations"] = window["iterations"] + BlockIterations
          /\ win["sent"] = window["sent"] + frames
    <3> DEFINE l == Log(Log(window, "sent", frames), "iterations", BlockIterations)
    <3>1. l \in [Events -> Nat] /\ l["iterations"] = window["iterations"] + BlockIterations
          /\ l["sent"] = window["sent"] + frames
      BY <1>0 DEF LoggedInv, Log, Events
    <3> QED BY <3>1
  <2>3. /\ counted' \in [Events -> Nat]
        /\ counted'["iterations"] = counted["iterations"] + BlockIterations
        /\ counted'["sent"] = counted["sent"] + frames
    BY <1>0, <2>1 DEF LoggedInv, Log, Events
  <2>4. /\ window["iterations"] \in Nat /\ window["sent"] \in Nat
        /\ total["iterations"] \in Nat /\ total["sent"] \in Nat
        /\ counted["iterations"] = total["iterations"] + window["iterations"]
        /\ counted["sent"] = total["sent"] + window["sent"]
    BY DEF LoggedInv, Cumulative, AccumulateInto, Events
  <2>5. /\ win["iterations"] >= lastPublish
        /\ win["iterations"] - lastPublish < PublishInterval + BlockIterations
        /\ PublishDue(win["iterations"]) <=> win["iterations"] - lastPublish >= PublishInterval
    <3>1. /\ win["iterations"] >= lastPublish
          /\ win["iterations"] - lastPublish < PublishInterval + BlockIterations
      BY <1>0, <2>2, <2>4 DEF LoggedInv
    <3> QED BY <3>1, <1>0, <2>2, <2>4, PublishDueExact DEF LoggedInv
  <2>6. CASE EndOnly \/ win["iterations"] < TickIterations
    <3>1. /\ window' = win /\ total' = total
          /\ lastPublish' = IF PublishDue(win["iterations"]) THEN win["iterations"] ELSE lastPublish
          /\ silent' = IF PublishDue(win["iterations"]) THEN 0 ELSE silent + BlockIterations
      <4>1. CASE EndOnly
        BY <2>1, <2>2, <4>1
      <4>2. CASE ~EndOnly /\ win["iterations"] < TickIterations
        <5>1. PrintTick(win, total) = [window |-> win, total |-> total]
          BY <1>0, <2>2, <2>4, <4>2 DEF PrintTick
        <5> QED BY <2>1, <2>2, <4>2, <5>1
      <4> QED BY <2>6, <4>1, <4>2
    <3>2. Cumulative' = counted'
      <4>1. Cumulative' = [e \in Events |-> total[e] + win[e]]
        BY <3>1 DEF Cumulative, AccumulateInto
      <4>2. \A e \in Events : total[e] + win[e] = counted'[e]
        BY <1>0, <2>2, <2>3, <2>4 DEF Events
      <4> QED BY <4>1, <4>2, <2>3
    <3>3. /\ lastPublish' \in Nat /\ lastPublish' <= win["iterations"]
          /\ silent' = win["iterations"] - lastPublish' /\ silent' < PublishInterval
      BY <1>0, <2>2, <2>4, <2>5, <3>1 DEF LoggedInv
    <3> QED BY <1>0, <2>2, <2>3, <2>6, <3>1, <3>2, <3>3 DEF LoggedInv
  \* The window begins again: it held a copy, so that one is due.
  <2>7. CASE ~EndOnly /\ win["iterations"] >= TickIterations
    <3>1. /\ window' = NothingCounted /\ total' = AccumulateInto(win, total)
      BY <2>1, <2>2, <2>7 DEF PrintTick, Reset
    <3>2. NothingCounted \in [Events -> Nat] /\ NothingCounted["iterations"] = 0
      BY DEF NothingCounted, Events
    <3>3. lastPublish > 0 /\ lastPublish < TickIterations
      BY <1>0, <2>2, <2>4, <2>5, <2>7 DEF LoggedInv
    <3>4. PublishDue(0)
      BY <3>3, PublishDueExact DEF LoggedInv
    <3>5. lastPublish' = 0 /\ silent' = 0
      BY <2>1, <2>2, <2>7, <3>1, <3>2, <3>4 DEF PrintTick, Reset
    <3>6. total' \in [Events -> Nat]
      BY <2>2, <2>4, <3>1 DEF AccumulateInto, Events
    <3>7. Cumulative' = counted'
      <4>1. Cumulative' = [e \in Events |-> total'[e] + NothingCounted[e]]
        BY <3>1 DEF Cumulative, AccumulateInto
      <4>2. \A e \in Events : total'[e] = total[e] + win[e] /\ NothingCounted[e] = 0
        BY <3>1 DEF AccumulateInto, NothingCounted
      <4>3. \A e \in Events : total'[e] + NothingCounted[e] = counted'[e]
        BY <1>0, <2>2, <2>3, <2>4, <4>2 DEF Events
      <4> QED BY <4>1, <4>3, <2>3
    <3> QED BY <1>0, <2>3, <3>1, <3>2, <3>5, <3>6, <3>7 DEF LoggedInv
  <2> QED BY <1>0, <2>2, <2>4, <2>6, <2>7
<1>4. CASE PublishDemod
  BY <1>1, <1>4 DEF PublishDemod
<1> QED BY <1>1, <1>2, <1>3, <1>4 DEF NextService, DropTcpFrame, WatchdogCopiesTcp, EndService,
          StopServer, JoinServer, ServerStep, ServerOnly, TestRunning, PollTimesOut, AcceptScraper,
          ReceiveRequest, ReceiveFails, RenderCounter, Respond, ConnectScraper, Leaves,
          SendsRequest, countVars, serviceVars

\* No more than an interval of a run goes by without a copy, and each copy
\* holds all that the run counted, whatever the window forgot since.
THEOREM ServiceSnapshotFresh == SpecService => []SnapshotFresh
<1>1. LoggedInv => SnapshotFresh
  BY DEF LoggedInv, SnapshotFresh
<1> QED BY <1>1, LoggedInit, LoggedStep, PTL DEF SpecService

-----------------------------------------------------------------------------
(* Sorting a finite set *)

\* R puts the elements of S in a row.
Sorts(R, S) ==
  /\ \A u \in S : <<u, u>> \notin R
  /\ \A u, v, w \in S : <<u, v>> \in R /\ <<v, w>> \in R => <<u, w>> \in R
  /\ \A u, v \in S : u # v => <<u, v>> \in R \/ <<v, u>> \in R

Before(u, R, S) == {v \in S : <<v, u>> \in R}

\* Whatever comes before another has fewer before it.
LEMMA FewerBefore ==
  ASSUME NEW S, IsFiniteSet(S), NEW R, Sorts(R, S), NEW u \in S, NEW v \in S, <<u, v>> \in R
  PROVE  Cardinality(Before(u, R, S)) < Cardinality(Before(v, R, S))
<1>1. IsFiniteSet(Before(v, R, S))
  <2>1. Before(v, R, S) \in SUBSET S
    BY DEF Before
  <2> QED BY <2>1, FS_Subset
<1>2. Before(u, R, S) \in SUBSET Before(v, R, S)
  BY DEF Before, Sorts
<1>3. u \in Before(v, R, S) /\ u \notin Before(u, R, S)
  BY DEF Before, Sorts
<1>4. /\ IsFiniteSet(Before(u, R, S))
      /\ Cardinality(Before(u, R, S)) <= Cardinality(Before(v, R, S))
      /\ Cardinality(Before(v, R, S)) # Cardinality(Before(u, R, S))
  BY <1>1, <1>2, <1>3, FS_Subset
<1>5. /\ Cardinality(Before(u, R, S)) \in Nat /\ Cardinality(Before(v, R, S)) \in Nat
  BY <1>1, <1>4, FS_CardinalityType
<1> QED BY <1>4, <1>5

\* So every place of the row is taken by one element.
LEMMA Placed ==
  ASSUME NEW S, IsFiniteSet(S), NEW R, Sorts(R, S)
  PROVE  /\ Cardinality(S) \in Nat
         /\ \A i \in 1..Cardinality(S) : \E u \in S : Cardinality(Before(u, R, S)) = i - 1
         /\ \A u \in S : Cardinality(Before(u, R, S)) \in 0..(Cardinality(S) - 1)
<1> DEFINE n == Cardinality(S)
           rank == [u \in S |-> Cardinality(Before(u, R, S)) + 1]
<1>1. n \in Nat
  BY FS_CardinalityType
<1>2. ASSUME NEW u \in S PROVE Cardinality(Before(u, R, S)) \in 0..(n - 1)
  <2>1. Before(u, R, S) \in SUBSET S /\ u \notin Before(u, R, S)
    BY DEF Before, Sorts
  <2>2. /\ IsFiniteSet(Before(u, R, S)) /\ Cardinality(Before(u, R, S)) <= n
        /\ Cardinality(Before(u, R, S)) # n
    BY <2>1, FS_Subset
  <2>3. Cardinality(Before(u, R, S)) \in Nat
    BY <2>2, FS_CardinalityType
  <2> QED BY <1>1, <2>2, <2>3
<1>3. rank \in [S -> 1..n]
  <2>1. \A u \in S : Cardinality(Before(u, R, S)) + 1 \in 1..n
    BY <1>1, <1>2
  <2> QED BY <2>1
<1>4. ASSUME NEW u \in S, NEW v \in S, rank[u] = rank[v] PROVE u = v
  <2>1. Cardinality(Before(u, R, S)) = Cardinality(Before(v, R, S))
    BY <1>2, <1>4
  <2> SUFFICES ASSUME u # v PROVE FALSE
    OBVIOUS
  <2>2. <<u, v>> \in R \/ <<v, u>> \in R
    BY DEF Sorts
  <2>3. Cardinality(Before(u, R, S)) < Cardinality(Before(v, R, S))
        \/ Cardinality(Before(v, R, S)) < Cardinality(Before(u, R, S))
    BY <2>2, FewerBefore
  <2> QED BY <1>2, <2>1, <2>3
<1> HIDE DEF rank
<1>5. rank \in Injection(S, 1..n)
  BY <1>3, <1>4 DEF Injection, IsInjective
<1>6. IsFiniteSet(1..n) /\ Cardinality(1..n) = n
  BY <1>1, FS_Interval
<1>7. rank \in Surjection(S, 1..n)
  BY <1>5, <1>6, FS_Injection
<1>8. ASSUME NEW i \in 1..n PROVE \E u \in S : Cardinality(Before(u, R, S)) = i - 1
  <2>1. PICK u \in S : rank[u] = i
    BY <1>7 DEF Surjection
  <2>2. Cardinality(Before(u, R, S)) + 1 = i
    BY <2>1 DEF rank
  <2> QED BY <1>2, <2>2
<1> QED BY <1>1, <1>2, <1>8

\* A row is the elements of a set, each once, one before the other.
Row(s, R, S) ==
  /\ DOMAIN s = 1..Cardinality(S) /\ Cardinality(S) \in Nat
  /\ \A i \in DOMAIN s : s[i] \in S
  /\ \A u \in S : \E i \in DOMAIN s : s[i] = u
  /\ \A i, j \in DOMAIN s : i < j => <<s[i], s[j]>> \in R /\ s[i] # s[j]

LEMMA RowOf ==
  ASSUME NEW S, IsFiniteSet(S), NEW R, Sorts(R, S), NEW s,
         DOMAIN s = 1..Cardinality(S),
         \A i \in DOMAIN s : s[i] \in S /\ Cardinality(Before(s[i], R, S)) = i - 1
  PROVE  Row(s, R, S)
<1> DEFINE n == Cardinality(S)
           ahead(u) == Cardinality(Before(u, R, S))
<1>1. /\ n \in Nat /\ \A i \in 1..n : \E u \in S : ahead(u) = i - 1
      /\ \A u \in S : ahead(u) \in 0..(n - 1)
  BY Placed
<1>2. ASSUME NEW i \in 1..n PROVE s[i] \in S /\ ahead(s[i]) = i - 1
  OBVIOUS
<1>3. ASSUME NEW u \in S, NEW v \in S, ahead(u) = ahead(v) PROVE u = v
  <2> SUFFICES ASSUME u # v PROVE FALSE
    OBVIOUS
  <2>1. <<u, v>> \in R \/ <<v, u>> \in R
    BY DEF Sorts
  <2>2. ahead(u) < ahead(v) \/ ahead(v) < ahead(u)
    BY <2>1, FewerBefore
  <2> QED BY <1>1, <1>3, <2>2
<1>4. ASSUME NEW u \in S PROVE \E i \in 1..n : s[i] = u
  <2>1. ahead(u) + 1 \in 1..n /\ ahead(u) \in Nat
    BY <1>1
  <2>2. s[ahead(u) + 1] \in S /\ ahead(s[ahead(u) + 1]) = ahead(u)
    BY <1>2, <2>1
  <2>3. s[ahead(u) + 1] = u
    BY <1>3, <2>2
  <2> QED BY <2>1, <2>3
<1>5. ASSUME NEW i \in 1..n, NEW j \in 1..n, i < j PROVE <<s[i], s[j]>> \in R /\ s[i] # s[j]
  <2>1. s[i] \in S /\ s[j] \in S /\ ahead(s[i]) < ahead(s[j]) /\ ahead(s[i]) \in Nat
    BY <1>2, <1>5
  <2>2. s[i] # s[j]
    <3> SUFFICES ASSUME s[i] = s[j] PROVE FALSE
      OBVIOUS
    <3>1. i - 1 = ahead(s[i]) /\ j - 1 = ahead(s[j])
      BY <1>2
    <3>2. i - 1 = j - 1
      BY <3>1
    <3> QED BY <1>1, <1>5, <3>2
  <2>3. ~(<<s[j], s[i]>> \in R)
    <3> SUFFICES ASSUME <<s[j], s[i]>> \in R PROVE FALSE
      OBVIOUS
    <3>1. ahead(s[j]) < ahead(s[i])
      BY <2>1, FewerBefore
    <3> QED BY <1>1, <2>1, <3>1
  <2> QED BY <2>1, <2>2, <2>3 DEF Sorts
<1>6. DOMAIN s = 1..n
  OBVIOUS
<1> QED BY <1>1, <1>2, <1>4, <1>5, <1>6 DEF Row

-----------------------------------------------------------------------------
(* The units of one type *)

BySerial(units) == {p \in units \X units : Precedes(p[1], p[2])}
ByPlace(units) == {p \in units \X units : p[1].place < p[2].place}

LEMMA UnitsSorted ==
  ASSUME NEW type, NEW units \in SUBSET Units, \A u \in units : u.type = type
  PROVE  /\ IsFiniteSet(units) /\ Sorts(BySerial(units), units) /\ Sorts(ByPlace(units), units)
         /\ \A u, v \in units : Precedes(u, v) <=>
              \/ u.serial.text < v.serial.text
              \/ (u.serial.text = v.serial.text /\ u.place < v.place)
<1>1. IsFiniteSet(units)
  BY FS_Subset, SelectionAssumption
<1>2. \A u, v \in units :
        /\ u.type = v.type /\ u.serial.text \in Nat /\ u.place \in Nat
        /\ u.place = v.place => u = v
  BY SelectionAssumption
<1>3. \A u, v \in units : Precedes(u, v) <=>
        \/ u.serial.text < v.serial.text
        \/ (u.serial.text = v.serial.text /\ u.place < v.place)
  <2> SUFFICES ASSUME NEW u \in units, NEW v \in units
               PROVE  Precedes(u, v) <=>
                        \/ u.serial.text < v.serial.text
                        \/ (u.serial.text = v.serial.text /\ u.place < v.place)
    OBVIOUS
  <2>1. CASE u.serial.text # v.serial.text
    <3>1. Precedes(u, v) = (u.serial.text < v.serial.text)
      BY <1>2, <2>1 DEF Precedes
    <3> QED BY <2>1, <3>1
  <2>2. CASE u.serial.text = v.serial.text
    <3>1. Precedes(u, v) = (u.place < v.place)
      BY <1>2, <2>2 DEF Precedes
    <3>2. ~(u.serial.text < v.serial.text)
      BY <1>2, <2>2
    <3> QED BY <2>2, <3>1, <3>2
  <2> QED BY <2>1, <2>2
<1>4. \A u, v \in units : /\ <<u, v>> \in BySerial(units) <=> Precedes(u, v)
                          /\ <<u, v>> \in ByPlace(units) <=> u.place < v.place
  BY DEF BySerial, ByPlace
<1>5. Sorts(BySerial(units), units)
  BY <1>2, <1>3, <1>4 DEF Sorts
<1>6. Sorts(ByPlace(units), units)
  BY <1>2, <1>4 DEF Sorts
<1> QED BY <1>1, <1>3, <1>5, <1>6

\* The list by serials, and the list of the driver, have every unit once.
LEMMA UnitsInRows ==
  ASSUME attached \subseteq Units
  PROVE  LET units == Kind("rtlsdr")
         IN  /\ Row(Ordered(units), BySerial(units), units)
             /\ Row(OnBus, ByPlace(units), units)
             /\ \A u, v \in units : <<u, v>> \in BySerial(units) => Precedes(u, v)
<1> DEFINE units == Kind("rtlsdr")
<1>1. units \in SUBSET Units /\ \A u \in units : u.type = "rtlsdr"
  BY DEF Kind
<1>2. \A u \in units : /\ {v \in units : Precedes(v, u)} = Before(u, BySerial(units), units)
                      /\ {v \in units : v.place < u.place} = Before(u, ByPlace(units), units)
  BY DEF Before, BySerial, ByPlace
<1>3. OnBus = [i \in 1..Cardinality(units) |->
                CHOOSE u \in units : Cardinality({v \in units : v.place < u.place}) = i - 1]
  BY DEF OnBus
<1> HIDE DEF units
<1>4. /\ IsFiniteSet(units) /\ Sorts(BySerial(units), units) /\ Sorts(ByPlace(units), units)
  BY <1>1, UnitsSorted
<1>5. Row(Ordered(units), BySerial(units), units)
  <2>1. ASSUME NEW i \in 1..Cardinality(units)
        PROVE  /\ Ordered(units)[i] \in units
               /\ Cardinality(Before(Ordered(units)[i], BySerial(units), units)) = i - 1
    <3>1. Ordered(units)[i] =
            CHOOSE u \in units : Cardinality({v \in units : Precedes(v, u)}) = i - 1
      BY DEF Ordered
    <3>2. PICK u \in units : Cardinality(Before(u, BySerial(units), units)) = i - 1
      BY <1>4, Placed
    <3>3. Cardinality({v \in units : Precedes(v, u)}) = i - 1
      BY <1>2, <3>2
    <3>4. /\ Ordered(units)[i] \in units
          /\ Cardinality({v \in units : Precedes(v, Ordered(units)[i])}) = i - 1
      BY <3>1, <3>3
    <3> QED BY <1>2, <3>4
  <2>2. DOMAIN Ordered(units) = 1..Cardinality(units)
    BY DEF Ordered
  <2> QED BY <1>4, <2>1, <2>2, RowOf
<1>6. Row(OnBus, ByPlace(units), units)
  <2>1. ASSUME NEW i \in 1..Cardinality(units)
        PROVE  /\ OnBus[i] \in units
               /\ Cardinality(Before(OnBus[i], ByPlace(units), units)) = i - 1
    <3>1. OnBus[i] = CHOOSE u \in units : Cardinality({v \in units : v.place < u.place}) = i - 1
      BY <1>3
    <3>2. PICK u \in units : Cardinality(Before(u, ByPlace(units), units)) = i - 1
      BY <1>4, Placed
    <3>3. Cardinality({v \in units : v.place < u.place}) = i - 1
      BY <1>2, <3>2
    <3>4. /\ OnBus[i] \in units
          /\ Cardinality({v \in units : v.place < OnBus[i].place}) = i - 1
      BY <3>1, <3>3
    <3> QED BY <1>2, <3>4
  <2>2. DOMAIN OnBus = 1..Cardinality(units)
    BY <1>3
  <2> QED BY <1>4, <2>1, <2>2, RowOf
<1>7. \A u, v \in units : <<u, v>> \in BySerial(units) => Precedes(u, v)
  BY DEF BySerial
<1> QED BY <1>5, <1>6, <1>7 DEF units

\* The least of some positions is one of them.
LEMMA LeastPosition ==
  ASSUME NEW n \in Nat, NEW P \in SUBSET (1..n), P # {}
  PROVE  Min(P) \in P
<1> DEFINE R == {p \in P \X P : p[1] < p[2]}
<1>1. IsFiniteSet(P)
  <2>1. IsFiniteSet(1..n)
    BY FS_Interval
  <2> QED BY <2>1, FS_Subset
<1>2. \A i, j \in P : /\ i \in Nat /\ j \in Nat
                      /\ <<i, j>> \in R <=> i < j
  OBVIOUS
<1> HIDE DEF R
<1>3. Sorts(R, P)
  BY <1>2 DEF Sorts
<1>4. 1 \in 1..Cardinality(P)
  <2>1. Cardinality(P) \in Nat /\ Cardinality(P) # 0
    BY <1>1, FS_CardinalityType, FS_EmptySet
  <2> QED BY <2>1
<1>5. PICK i \in P : Cardinality(Before(i, R, P)) = 0
  <2>1. \A k \in 1..Cardinality(P) : \E i \in P : Cardinality(Before(i, R, P)) = k - 1
    BY <1>1, <1>3, Placed
  <2>2. PICK i \in P : Cardinality(Before(i, R, P)) = 1 - 1
    BY <1>4, <2>1
  <2> QED BY <2>2
<1>6. Before(i, R, P) = {}
  <2>1. IsFiniteSet(Before(i, R, P))
    BY <1>1, FS_Subset DEF Before
  <2> QED BY <1>5, <2>1, FS_EmptySet
<1>7. ASSUME NEW j \in P PROVE i <= j
  <2>1. <<j, i>> \notin R
    BY <1>6 DEF Before
  <2> QED BY <1>2, <2>1
<1> QED BY <1>5, <1>7 DEF Min

\* The serial of a unit leads to some unit: one with that text, or the first on the bus
\* if the text is empty.
LEMMA SerialFound ==
  ASSUME attached \subseteq Units, NEW u \in Kind("rtlsdr"),
         NEW requested, requested = u.serial
  PROVE  LET index == OpenIndex(requested, OnBus)
         IN  index # None /\ OnBus[index] \in Kind("rtlsdr") /\ Leads(u.serial.text, OnBus[index])
<1> DEFINE units == Kind("rtlsdr")
           n == Cardinality(units)
           exact == {i \in DOMAIN OnBus : OnBus[i].serial.text = requested.text}
           index == OpenIndex(requested, OnBus)
<1>1. Row(OnBus, ByPlace(units), units)
  BY UnitsInRows
<1>2. DOMAIN OnBus = 1..n /\ n \in Nat
  BY <1>1 DEF Row
<1>3. PICK j \in 1..n : OnBus[j] = u
  BY <1>1, <1>2 DEF Row
<1>4. CASE requested.text # Empty
  <2>1. j \in exact /\ exact \in SUBSET (1..n)
    BY <1>2, <1>3
  <2>2. Min(exact) \in exact
    <3> HIDE DEF exact, n
    <3> QED BY <1>2, <2>1, LeastPosition
  <2>3. index = Min(exact)
    <3>1. OpenIndex(requested, OnBus) = ResolveIndex(requested, OnBus)
      BY <1>4 DEF OpenIndex
    <3>2. ResolveIndex(requested, OnBus) = Min(exact)
      BY <2>1 DEF ResolveIndex
    <3> QED BY <3>1, <3>2
  <2>4. index \in 1..n /\ OnBus[index].serial.text = u.serial.text
    BY <2>1, <2>2, <2>3
  <2> HIDE DEF index
  <2>5. index # None /\ OnBus[index] \in units
    BY <1>1, <1>2, <2>4, SelectionAssumption DEF Row
  <2> QED BY <1>4, <2>4, <2>5 DEF Leads, index
<1>5. CASE requested.text = Empty
  <2>1. OnBus # <<>> /\ 1 \in 1..n
    BY <1>2, <1>3
  <2>2. index = 1
    BY <1>5, <2>1 DEF OpenIndex
  <2>3. OnBus[1] \in units /\ 1 # None
    BY <1>1, <1>2, <2>1, SelectionAssumption DEF Row
  <2>4. ASSUME NEW v \in units PROVE OnBus[1].place <= v.place
    <3>1. PICK i \in 1..n : OnBus[i] = v
      BY <1>1, <1>2 DEF Row
    <3>2. v.place \in Nat /\ OnBus[1].place \in Nat
      BY <2>3, SelectionAssumption DEF Kind
    <3>3. CASE i = 1
      BY <3>1, <3>2, <3>3
    <3>4. CASE 1 < i
      <4>1. <<OnBus[1], OnBus[i]>> \in ByPlace(units)
        BY <1>1, <1>2, <2>1, <3>4 DEF Row
      <4>2. OnBus[1].place < v.place
        BY <3>1, <4>1 DEF ByPlace
      <4> QED BY <3>2, <4>2
    <3> QED BY <1>2, <3>1, <3>3, <3>4
  <2> HIDE DEF index, units
  <2> QED BY <1>5, <2>2, <2>3, <2>4 DEF Leads, units, index
<1> QED BY <1>4, <1>5

-----------------------------------------------------------------------------
(* The inductive invariant of a selection *)

SpecSelection == InitSelection /\ [][NextSelection]_selectionVars

\* The candidates are tried in the order of the list.  A unit tried before the last, if
\* its serial leads to it alone, is taken; the one that is open is where the last leads.
TriedInOrder ==
  LET units == Ordered(Kind("rtlsdr"))
      last == Len(tried)
  IN  /\ tried \in Seq({u.serial : u \in Units}) /\ last <= Cardinality(Kind("rtlsdr"))
      /\ \A i \in 1..last : tried[i] = units[i].serial
      /\ \A i \in 1..(last - 1) : Found(units[i]) => units[i] \in taken
      /\ opened = None => (last > 0 => (Found(units[last]) => units[last] \in taken))
      /\ opened # None => /\ last > 0 /\ step = "done"
                          /\ opened \in Kind("rtlsdr") \ taken
                          /\ Leads(tried[last].text, opened)
      /\ step = "failed" /\ config # None => last = Cardinality(Kind("rtlsdr")) /\ opened = None

SelInv ==
  /\ attached \subseteq Units /\ plugs \in Nat /\ plugs <= MaxPlugs
  /\ step \in {"choose", "rate", "config", "open", "done", "failed"}
  /\ step \in {"choose", "rate", "config"} => config = None /\ opened = None /\ tried = <<>>
  /\ step = "choose" => choice = None
  /\ FixedMeansFixed
  /\ Undisturbed => choice.serials = CandidatesOf("rtlsdr")
  /\ Undisturbed => TriedInOrder

LEMMA SelInit == InitSelection => SelInv
<1> SUFFICES ASSUME InitSelection PROVE SelInv
  OBVIOUS
<1>1. /\ attached \subseteq Units /\ plugs = MaxPlugs /\ plugs \in Nat /\ step = "choose"
      /\ config = None /\ opened = None /\ tried = <<>> /\ choice = None
  BY SelectionAssumption DEF InitSelection
<1>2. ~Undisturbed /\ FixedMeansFixed
  BY <1>1 DEF Undisturbed, FixedMeansFixed
<1> QED BY <1>1, <1>2 DEF SelInv

\* Of what is undisturbed a step sees the same bus.
LEMMA SameBus ==
  ASSUME UNCHANGED <<attached, taken>>
  PROVE  /\ Kind("rtlsdr")' = Kind("rtlsdr") /\ OnBus' = OnBus
         /\ \A text, u : Leads(text, u)' <=> Leads(text, u)
         /\ \A u : Found(u)' <=> Found(u)
         /\ UNCHANGED args => CandidatesOf("rtlsdr")' = CandidatesOf("rtlsdr")
BY DEF Kind, OnBus, CandidatesOf, Leads, Found

\* Nothing of the bus has been tried yet.
LEMMA NoneTried ==
  ASSUME attached \subseteq Units, UNCHANGED <<attached, taken>>,
         tried' = <<>>, opened' = None, config' = None
  PROVE  TriedInOrder'
<1>1. tried' \in Seq({u.serial : u \in Units}) /\ Len(tried') = 0
  OBVIOUS
<1>2. Cardinality(Kind("rtlsdr")) \in Nat /\ Kind("rtlsdr")' = Kind("rtlsdr")
  BY UnitsInRows, SameBus DEF Row
<1> QED BY <1>1, <1>2 DEF TriedInOrder

LEMMA PlugKeeps == SelInv /\ Plug => SelInv'
<1> SUFFICES ASSUME SelInv, Plug PROVE SelInv'
  OBVIOUS
<1>1. /\ UNCHANGED <<args, choice, inputRate, config, tried, opened, step>>
      /\ plugs > 0 /\ plugs' = plugs - 1 /\ attached' \subseteq Units
  BY DEF Plug, SelInv
<1>2. ~Undisturbed'
  BY <1>1, SelectionAssumption DEF SelInv, Undisturbed
<1>3. FixedMeansFixed'
  BY <1>1 DEF SelInv, FixedMeansFixed
<1>4. plugs' \in Nat /\ plugs' <= MaxPlugs
  BY <1>1, SelectionAssumption DEF SelInv
<1> QED BY <1>1, <1>2, <1>3, <1>4 DEF SelInv

LEMMA ChooseKeeps == SelInv /\ ChooseDevice => SelInv'
<1> SUFFICES ASSUME SelInv, ChooseDevice PROVE SelInv'
  OBVIOUS
<1>1. /\ UNCHANGED <<environment, config, tried, opened>> /\ step = "choose"
      /\ config = None /\ opened = None /\ tried = <<>> /\ choice = None
      /\ \/ step' = "failed" /\ choice' = choice
         \/ step' = "rate" /\ choice' = [type |-> "stream", serials |-> <<>>]
         \/ step' = "rate" /\ choice' = [type |-> SelectedType, serials |-> CandidatesOf(SelectedType)]
  BY DEF ChooseDevice, SelInv, Ends
<1>2. UNCHANGED <<args, attached, taken, plugs>>
  BY <1>1 DEF environment
<1>3. TriedInOrder'
  BY <1>1, <1>2, NoneTried DEF SelInv
<1>4. FixedMeansFixed'
  BY <1>1 DEF FixedMeansFixed
<1>5. ASSUME Undisturbed' PROVE choice'.serials = CandidatesOf("rtlsdr")'
  <2>1. choice' # None /\ choice'.type = "rtlsdr"
    BY <1>5 DEF Undisturbed
  <2>2. choice'.serials = CandidatesOf("rtlsdr")
    BY <1>1, <2>1
  <2> QED BY <1>2, <2>2, SameBus
<1> QED BY <1>1, <1>2, <1>3, <1>4, <1>5 DEF SelInv

LEMMA RateKeeps == SelInv /\ ResolveRate => SelInv'
<1> SUFFICES ASSUME SelInv, ResolveRate PROVE SelInv'
  OBVIOUS
<1>1. /\ UNCHANGED <<environment, choice, config, tried, opened>> /\ step = "rate"
      /\ config = None /\ opened = None /\ tried = <<>> /\ step' \in {"failed", "config"}
  BY DEF ResolveRate, SelInv, Ends
<1>2. UNCHANGED <<args, attached, taken, plugs>>
  BY <1>1 DEF environment
<1>3. TriedInOrder'
  BY <1>1, <1>2, NoneTried DEF SelInv
<1>4. FixedMeansFixed'
  BY <1>1 DEF FixedMeansFixed
<1>5. Undisturbed' => choice'.serials = CandidatesOf("rtlsdr")'
  BY <1>1, <1>2, SameBus DEF SelInv, Undisturbed
<1> QED BY <1>1, <1>2, <1>3, <1>4, <1>5 DEF SelInv

\* What is filled in for an RTL-SDR is what nobody fixed.
LEMMA ConfigKeeps == SelInv /\ BuildConfig => SelInv'
<1> SUFFICES ASSUME SelInv, BuildConfig PROVE SelInv'
  OBVIOUS
<1>1. /\ UNCHANGED <<environment, choice, inputRate, tried, opened>> /\ step = "config"
      /\ config = None /\ opened = None /\ tried = <<>> /\ step' \in {"open", "done"}
  BY DEF BuildConfig, SelInv
<1>2. UNCHANGED <<args, attached, taken, plugs>>
  BY <1>1 DEF environment
<1>3. FixedMeansFixed'
  <2> SUFFICES ASSUME config' # None, choice'.type = "rtlsdr"
               PROVE  /\ args'.adaptive = None =>
                           (config'.adaptive <=> args'.set \cap GainSettings = {})
                      /\ args'.autoPpm = None => (config'.autoPpm <=> ~args'.ppm)
    BY DEF FixedMeansFixed
  <2> DEFINE asked == [serial |-> args.serial, set |-> args.set, adaptive |-> args.adaptive,
                       bandwidth |-> None, ppm |-> args.ppm, autoPpm |-> FALSE]
             filled == Defaults(asked, choice.type, inputRate)
  <2>1. choice.type = "rtlsdr"
    BY <1>1
  <2>2. config' = IF args.autoPpm = None THEN filled ELSE [filled EXCEPT !.autoPpm = args.autoPpm]
    BY <2>1 DEF BuildConfig
  <2>3. filled =
          [serial |-> args.serial, set |-> args.set \cup {"gain"},
           adaptive |-> IF args.adaptive = None THEN args.set \cap GainSettings = {}
                        ELSE args.adaptive,
           bandwidth |-> IF inputRate = NarrowRate THEN "narrow" ELSE "wide", ppm |-> args.ppm,
           autoPpm |-> FALSE \/ ~args.ppm]
    BY <2>1 DEF Defaults
  <2> HIDE DEF filled
  <2>4. config'.adaptive = filled.adaptive
    BY <2>2, <2>3
  <2>5. args.autoPpm = None => config'.autoPpm = filled.autoPpm
    BY <2>2
  <2>6. args.adaptive = None => (config'.adaptive <=> args.set \cap GainSettings = {})
    BY <2>3, <2>4
  <2>7. args.autoPpm = None => (config'.autoPpm <=> ~args.ppm)
    BY <2>3, <2>5
  <2> QED BY <1>2, <2>6, <2>7
<1>4. Undisturbed' => choice'.serials = CandidatesOf("rtlsdr")'
  BY <1>1, <1>2, SameBus DEF SelInv, Undisturbed
<1>5. TriedInOrder'
  <2>1. Cardinality(Kind("rtlsdr")) \in Nat /\ Kind("rtlsdr")' = Kind("rtlsdr")
    BY <1>2, UnitsInRows, SameBus DEF Row, SelInv
  <2>2. tried' \in Seq({u.serial : u \in Units}) /\ Len(tried') = 0 /\ opened' = None
    BY <1>1
  <2> QED BY <1>1, <2>1, <2>2 DEF TriedInOrder
<1> QED BY <1>1, <1>2, <1>3, <1>4, <1>5 DEF SelInv

-----------------------------------------------------------------------------
(* Trying one after the other *)

LEMMA TryKeeps == SelInv /\ TryOpen => SelInv'
<1> SUFFICES ASSUME SelInv, TryOpen PROVE SelInv'
  OBVIOUS
<1>1. /\ UNCHANGED <<environment, choice, inputRate, config>> /\ step = "open"
      /\ step' \in {"failed", "open", "done"}
  BY DEF TryOpen, Ends
<1>2. UNCHANGED <<args, attached, taken, plugs>>
  BY <1>1 DEF environment
<1>3. FixedMeansFixed'
  BY <1>1, <1>2 DEF FixedMeansFixed, SelInv
<1>4. Undisturbed' => choice'.serials = CandidatesOf("rtlsdr")'
  BY <1>1, <1>2, SameBus DEF SelInv, Undisturbed
<1>5. ASSUME Undisturbed' PROVE TriedInOrder'
  <2> DEFINE S == Kind("rtlsdr")
             units == Ordered(S)
             last == Len(tried)
             n == Cardinality(S)
             Serials == {u.serial : u \in Units}
  <2>1. /\ Undisturbed /\ TriedInOrder
        /\ choice.serials = CandidatesOf("rtlsdr") /\ attached \subseteq Units
    BY <1>1, <1>2, <1>5 DEF Undisturbed, SelInv
  <2>2. Row(units, BySerial(S), S)
    BY <2>1, UnitsInRows
  <2>3. /\ n \in Nat /\ \A i \in 1..n : units[i] \in S
    BY <2>2 DEF Row
  <2>4. S \subseteq Units /\ None \notin S
    BY <2>1, SelectionAssumption DEF Kind
  <2>5. choice.serials = [i \in 1..n |-> units[i].serial]
    BY <2>1 DEF CandidatesOf, Undisturbed
  <2>6. choice.serials \in Seq(Serials) /\ Len(choice.serials) = n
    <3>1. \A i \in 1..n : units[i].serial \in Serials
      BY <2>3, <2>4
    <3> HIDE DEF S, units, n, Serials
    <3> QED BY <2>3, <2>5, <3>1
  <2>7. /\ tried \in Seq(Serials) /\ last \in Nat /\ last <= n /\ opened = None
        /\ \A i \in 1..last : tried[i] = units[i].serial
        /\ \A i \in 1..(last - 1) : Found(units[i]) => units[i] \in taken
        /\ last > 0 => (Found(units[last]) => units[last] \in taken)
    <3>1. opened = None
      BY <1>1, <2>1 DEF TriedInOrder
    <3> QED BY <2>1, <3>1 DEF TriedInOrder
  <2>8. \A i \in 1..last : Found(units[i]) => units[i] \in taken
    <3> HIDE DEF units, last
    <3> QED BY <2>7
  <2>9. /\ Kind("rtlsdr")' = S /\ UNCHANGED taken
        /\ \A text, u : Leads(text, u)' <=> Leads(text, u)
        /\ \A u : Found(u)' <=> Found(u)
    BY <1>2, SameBus
  <2>10. CASE last >= n
    <3>1. Untried = <<>>
      <4>1. Len(choice.serials) < Len(tried) + 1
        BY <2>3, <2>6, <2>7, <2>10
      <4> QED BY <2>3, <2>6, <2>7, <4>1, SubSeqEmpty DEF Untried
    <3>2. step' = "failed" /\ UNCHANGED <<tried, opened>>
      BY <3>1 DEF TryOpen, Ends
    <3>3. last = n
      BY <2>3, <2>7, <2>10
    <3> QED BY <2>1, <2>7, <2>9, <3>2, <3>3 DEF TriedInOrder
  <2>11. CASE last < n
    <3> DEFINE next == last + 1
               u == units[next]
    <3>1. next \in 1..n /\ u \in S
      BY <2>3, <2>7, <2>11
    <3>2. Untried # <<>> /\ Untried[1] = u.serial
      <4>1. /\ Len(Untried) = n - next + 1 /\ Untried[1] = choice.serials[next]
        <5> HIDE DEF n, Serials
        <5>1. \A i \in next..n : choice.serials[i] \in Serials
          BY <2>3, <2>6, <3>1
        <5>2. Untried = SubSeq(choice.serials, next, n)
          BY <2>6 DEF Untried
        <5> HIDE DEF next
        <5>3. /\ Len(SubSeq(choice.serials, next, n)) = n - next + 1
              /\ SubSeq(choice.serials, next, n)[1] = choice.serials[next + 1 - 1]
          BY <2>3, <3>1, <5>1, SubSeqProperties
        <5> QED BY <2>3, <3>1, <5>2, <5>3
      <4>2. Len(Untried) > 0
        BY <2>3, <3>1, <4>1
      <4> QED BY <2>5, <3>1, <4>1, <4>2
    <3> DEFINE w == OnBus[OpenIndex(Untried[1], OnBus)]
    <3>3. OpenIndex(Untried[1], OnBus) # None /\ w \in S /\ Leads(u.serial.text, w)
      BY <2>1, <3>1, <3>2, SerialFound
    <3>4. /\ tried' = Append(tried, u.serial)
          /\ opened' = IF w \notin taken THEN w ELSE None
          /\ step' = IF w \notin taken THEN "done" ELSE "open"
      BY <3>2, <3>3 DEF TryOpen
    <3>5. u # None /\ w # None /\ u.serial \in Serials
      BY <2>4, <3>1, <3>3
    <3> HIDE DEF u, w, units, S, n, Serials
    <3>6. tried' \in Seq(Serials) /\ Len(tried') = next /\ next <= n /\ next - 1 = last
      BY <2>3, <2>7, <3>1, <3>4, <3>5
    <3>7. /\ \A i \in 1..(next - 1) : Found(units[i]) => units[i] \in taken
      BY <2>8, <3>6
    <3>8. \A i \in 1..next : tried'[i] = units[i].serial
      <4>1. \A i \in 1..last : tried'[i] = tried[i]
        BY <2>7, <3>4, <3>5
      <4>2. tried'[next] = u.serial
        BY <2>7, <3>4, <3>5
      <4> QED BY <2>7, <4>1, <4>2 DEF u
    <3>9. opened' = None => (Found(u) => u \in taken)
      <4> SUFFICES ASSUME w \in taken, Found(u) PROVE u \in taken
        BY <3>4, <3>5
      <4>1. w = u
        BY <3>3 DEF Found, S
      <4> QED BY <4>1
    <3>10. opened' # None => /\ step' = "done" /\ opened' \in S \ taken
                             /\ Leads(tried'[next].text, opened')
      <4> SUFFICES ASSUME opened' # None
                   PROVE  /\ step' = "done" /\ opened' \in S \ taken
                          /\ Leads(tried'[next].text, opened')
        OBVIOUS
      <4>1. w \notin taken /\ opened' = w /\ step' = "done"
        BY <3>4
      <4>2. tried'[next] = u.serial
        BY <2>7, <3>1, <3>8 DEF u
      <4> QED BY <3>3, <4>1, <4>2
    <3>11. step' # "failed" /\ next > 0
      BY <2>7, <3>4
    <3>12. opened' = None => (Found(units[next]) => units[next] \in taken)
      BY <3>9 DEF u
    <3> HIDE DEF next
    <3> QED BY <2>9, <3>6, <3>7, <3>8, <3>10, <3>11, <3>12 DEF TriedInOrder, units, S, n, Serials
  <2> QED BY <2>3, <2>7, <2>10, <2>11
<1> QED BY <1>1, <1>2, <1>3, <1>4, <1>5 DEF SelInv

-----------------------------------------------------------------------------

LEMMA SelStep == SelInv /\ [NextSelection]_selectionVars => SelInv'
<1> SUFFICES ASSUME SelInv, UNCHANGED selectionVars PROVE SelInv'
  BY PlugKeeps, ChooseKeeps, RateKeeps, ConfigKeeps, TryKeeps DEF NextSelection
<1>1. UNCHANGED <<args, attached, taken, choice, inputRate, config, tried, opened, step, plugs>>
  BY DEF selectionVars
<1>2. FixedMeansFixed' /\ (Undisturbed' <=> Undisturbed)
  BY <1>1 DEF SelInv, FixedMeansFixed, Undisturbed
<1>3. /\ CandidatesOf("rtlsdr")' = CandidatesOf("rtlsdr") /\ Kind("rtlsdr")' = Kind("rtlsdr")
      /\ \A text, u : Leads(text, u)' <=> Leads(text, u)
      /\ \A u : Found(u)' <=> Found(u)
  BY <1>1, SameBus
<1>4. TriedInOrder' = TriedInOrder
  BY <1>1, <1>3 DEF TriedInOrder
<1> QED BY <1>1, <1>2, <1>3, <1>4 DEF SelInv

\* What is opened is where its candidate leads, and what was tried before it is taken.
LEMMA SelThen == SelInv => ChosenAsAsked
<1> SUFFICES ASSUME SelInv PROVE FirstFreeOpened
  BY DEF SelInv, ChosenAsAsked
<1> DEFINE S == Kind("rtlsdr")
           units == Ordered(S)
           last == Len(tried)
           n == Cardinality(S)
           text == tried[last].text
<1> SUFFICES ASSUME Undisturbed
             PROVE  /\ opened # None =>
                         /\ opened \in S \ taken /\ Leads(text, opened)
                         /\ \A u \in S \ taken : Found(u) => u = opened \/ text < u.serial.text
                    /\ step = "failed" /\ config # None => \A u \in S : Found(u) => u \in taken
  BY DEF FirstFreeOpened
<1>1. Row(units, BySerial(S), S)
  BY UnitsInRows DEF SelInv
<1>2. /\ last \in Nat /\ last <= n /\ \A i \in 1..last : tried[i] = units[i].serial
      /\ \A i \in 1..(last - 1) : Found(units[i]) => units[i] \in taken
      /\ opened = None => (last > 0 => (Found(units[last]) => units[last] \in taken))
      /\ opened # None => last > 0 /\ opened \in S \ taken /\ Leads(text, opened)
      /\ step = "failed" /\ config # None => last = n /\ opened = None
  BY DEF SelInv, TriedInOrder
<1>3. n \in Nat /\ DOMAIN units = 1..n /\ \A u \in S : \E i \in 1..n : u = units[i]
  BY <1>1 DEF Row
<1>4. /\ S \in SUBSET Units
      /\ \A u \in S : u.type = "rtlsdr" /\ u.serial.text \in Nat
  BY SelectionAssumption DEF SelInv, Kind
<1> HIDE DEF S, units, last, n, text
<1>5. ASSUME opened # None, NEW u \in S \ taken, Found(u)
      PROVE  u = opened \/ text < u.serial.text
  <2>1. PICK i \in 1..n : u = units[i]
    BY <1>3, <1>5
  <2>2. last \in 1..n /\ text = units[last].serial.text
    BY <1>2, <1>3, <1>5 DEF text
  <2>3. i >= last
    BY <1>2, <1>3, <1>5, <2>1, <2>2
  <2>4. CASE u.serial.text = text
    BY <1>2, <1>5, <2>4 DEF Found, S
  <2>5. CASE u.serial.text # text
    <3>1. last < i
      BY <1>3, <2>1, <2>2, <2>3, <2>5
    <3>2. <<units[last], units[i]>> \in BySerial(S)
      BY <1>1, <1>3, <2>1, <2>2, <3>1 DEF Row
    <3>3. units[last] \in S /\ Precedes(units[last], u)
      BY <2>1, <3>2 DEF BySerial
    <3>4. \/ units[last].serial.text < u.serial.text
          \/ units[last].serial.text = u.serial.text
      <4>1. units[last].type = u.type
        BY <1>4, <1>5, <3>3
      <4>2. CASE units[last].serial.text # u.serial.text
        BY <3>3, <4>1, <4>2 DEF Precedes
      <4> QED BY <4>2
    <3> QED BY <2>2, <2>5, <3>4
  <2> QED BY <2>4, <2>5
<1>6. ASSUME step = "failed", config # None, NEW u \in S, Found(u) PROVE u \in taken
  <2>1. last = n /\ opened = None
    BY <1>2, <1>6
  <2>2. \A i \in 1..n : Found(units[i]) => units[i] \in taken
    BY <1>2, <1>3, <2>1
  <2> QED BY <1>3, <1>6, <2>2
<1> QED BY <1>2, <1>5, <1>6

\* Whatever units there are, busy or not, with serials of their own, shared or none, and
\* whatever the command line says: as long as nobody touches the bus, what an automatic
\* choice opens is free and is where its candidate leads, by its text or, without one, to
\* the first on the bus.  No free unit that its serial leads to alone comes before it, and
\* none is left when the choice fails; what the user fixed stays fixed
\* (DeviceSelection.hpp:80-261, RtlSdrDevice.cpp:173-265).
THEOREM SelectionAsAsked == SpecSelection => []ChosenAsAsked
<1> QED BY SelInit, SelStep, SelThen, PTL DEF SpecSelection

-----------------------------------------------------------------------------
(* The command line has one reading *)

SpecCommandLine == InitCommandLine /\ [][NextCommandLine]_cliVars

\* What was read of the first n words: one way to cut them, which every way to
\* cut the whole line begins with, and what its pieces say.
ReadTo(line, n, cut, read) ==
  /\ cut \in Cuts(line, n)
  /\ \A whole \in Cuts(line, Len(line)) : whole \cap 1..n = cut
  /\ DOMAIN read = DOMAIN DefaultSettings
  /\ \A s \in DOMAIN DefaultSettings : read[s] = Said(line, cut, s)

LineInv ==
  /\ argv \in Seq(TextWord) /\ parsed \in 0..Len(argv)
  /\ parsing \in {"words", "checks"} => \E cut : ReadTo(argv, parsed, cut, settings)
  /\ parsing = "checks" => parsed = Len(argv)
  /\ parsing = "refused" /\ parsed < Len(argv) => Cuts(argv, Len(argv)) = {}

LEMMA MaxIs ==
  ASSUME NEW S \in SUBSET Int, NEW m \in S, \A y \in S : m >= y
  PROVE  Max(S) = m
<1>1. \E x \in S : \A y \in S : x >= y
  OBVIOUS
<1>2. Max(S) \in S /\ \A y \in S : Max(S) >= y
  BY <1>1 DEF Max
<1>3. Max(S) >= m /\ m >= Max(S) /\ Max(S) \in Int
  BY <1>2
<1> QED BY <1>3

LEMMA GreatestNumber ==
  ASSUME NEW n \in Nat, NEW S \in SUBSET (0..n), S # {}
  PROVE  Max(S) \in S
<1> DEFINE U == {k \in 0..n : n - k \in S}
<1>1. PICK k \in U : \A m \in U : k <= m
  <2>1. PICK s \in S : TRUE
    OBVIOUS
  <2>2. n - s \in U
    <3>1. s \in 0..n /\ n - s \in 0..n /\ n - (n - s) = s
      OBVIOUS
    <3> QED BY <3>1
  <2>3. U \subseteq Nat /\ U # {}
    BY <2>2
  <2> HIDE DEF U
  <2> QED BY <2>3, LeastNumber
<1>2. n - k \in S /\ k \in 0..n
  OBVIOUS
<1>3. ASSUME NEW y \in S PROVE n - k >= y
  <2>1. y \in 0..n /\ n - y \in 0..n /\ n - (n - y) = y
    OBVIOUS
  <2>2. n - y \in U
    BY <2>1
  <2>3. k <= n - y
    BY <1>1, <2>2
  <2> QED BY <1>2, <2>1, <2>3
<1>4. S \in SUBSET Int
  OBVIOUS
<1>5. Max(S) = n - k
  BY <1>2, <1>3, <1>4, MaxIs
<1> QED BY <1>2, <1>5

\* A piece goes on where the one before it ended.
LEMMA FromIs ==
  ASSUME NEW cut \in SUBSET Nat, NEW n \in Nat, NEW e \in Nat, n < e, n = 0 \/ n \in cut,
         \A c \in cut : c < e => c <= n
  PROVE  From(cut, e) = n + 1
<1> DEFINE S == {0} \cup {c \in cut : c < e}
<1>1. S \in SUBSET Int
  <2>1. {c \in cut : c < e} \subseteq cut /\ cut \subseteq Int /\ 0 \in Int
    OBVIOUS
  <2> QED BY <2>1
<1>2. n \in S
  OBVIOUS
<1>3. \A y \in S : n >= y
  OBVIOUS
<1> HIDE DEF S
<1>4. Max(S) = n
  BY <1>1, <1>2, <1>3, MaxIs
<1> QED BY <1>4 DEF From, S

LEMMA OneWord ==
  ASSUME NEW line \in Seq(TextWord), NEW n \in 0..(Len(line) - 1)
  PROVE  SubSeq(line, n + 1, n + 1) = <<line[n + 1]>> /\ line[n + 1] \in TextWord
<1>1. n + 1 \in 1..Len(line) /\ Len(line) \in Nat
  OBVIOUS
<1>2. line[n + 1] \in TextWord
  BY <1>1
<1> DEFINE piece == SubSeq(line, n + 1, n + 1)
<1>3. piece \in Seq(TextWord) /\ Len(piece) = 1 /\ piece[1] = line[n + 1]
  <2> DEFINE m == n + 1
  <2>1. m \in Int /\ \A i \in m..m : line[i] \in TextWord
    BY <1>2
  <2>2. m <= m /\ m - m + 1 = 1 /\ 1 \in 1..(m - m + 1) /\ m + 1 - 1 = m
    OBVIOUS
  <2> HIDE DEF m
  <2>3. SubSeq(line, m, m) \in Seq(TextWord) /\ Len(SubSeq(line, m, m)) = 1
        /\ SubSeq(line, m, m)[1] = line[m]
    BY <2>1, <2>2, SubSeqProperties
  <2> QED BY <2>3 DEF m
<1> HIDE DEF piece
<1>4. piece = <<line[n + 1]>>
  BY <1>3
<1> QED BY <1>2, <1>4 DEF piece

LEMMA TwoWords ==
  ASSUME NEW line \in Seq(TextWord), NEW n \in 0..(Len(line) - 2)
  PROVE  /\ SubSeq(line, n + 1, n + 2) = <<line[n + 1], line[n + 2]>>
         /\ line[n + 1] \in TextWord /\ line[n + 2] \in TextWord
<1>1. n + 1 \in 1..Len(line) /\ n + 2 \in 1..Len(line) /\ Len(line) \in Nat
  OBVIOUS
<1>2. line[n + 1] \in TextWord /\ line[n + 2] \in TextWord
  BY <1>1
<1> DEFINE piece == SubSeq(line, n + 1, n + 2)
<1>3. /\ piece \in Seq(TextWord) /\ Len(piece) = 2
      /\ piece[1] = line[n + 1] /\ piece[2] = line[n + 2]
  <2> DEFINE m == n + 1
             k == n + 2
  <2>1. m \in Int /\ k \in Int /\ \A i \in m..k : line[i] \in TextWord
    <3>1. \A i \in m..k : i = m \/ i = k
      OBVIOUS
    <3> QED BY <1>2, <3>1
  <2>2. /\ m <= k /\ k - m + 1 = 2 /\ 1 \in 1..(k - m + 1) /\ 2 \in 1..(k - m + 1)
        /\ m + 1 - 1 = m /\ m + 2 - 1 = k
    OBVIOUS
  <2> HIDE DEF m, k
  <2>3. SubSeq(line, m, k) \in Seq(TextWord) /\ Len(SubSeq(line, m, k)) = 2
        /\ SubSeq(line, m, k)[1] = line[m] /\ SubSeq(line, m, k)[2] = line[k]
    BY <2>1, <2>2, SubSeqProperties
  <2> QED BY <2>3 DEF m, k
<1> HIDE DEF piece
<1>4. piece = <<line[n + 1], line[n + 2]>>
  BY <1>3
<1> QED BY <1>2, <1>4 DEF piece

\* A piece begins with an option.
LEMMA PieceNamed ==
  ASSUME NEW piece, IsPiece(piece)
  PROVE  piece[1].name \in OptionNames
BY DEF IsPiece, OptionNames

\* What can be the first piece of the rest.
Possible(line, n, e) ==
  /\ e <= Len(line) /\ IsPiece(SubSeq(line, n + 1, e))
  /\ e < Len(line) => line[e + 1].name \in OptionNames

CutAt(line, whole, n, e) ==
  /\ e \in {n + 1, n + 2} /\ e \in whole /\ \A c \in whole : c < e => c <= n
  /\ e <= Len(line) /\ IsPiece(SubSeq(line, n + 1, e))

LEMMA FirstPiece ==
  ASSUME NEW line \in Seq(TextWord), NEW whole \in Cuts(line, Len(line)),
         NEW n \in 0..(Len(line) - 1), n = 0 \/ n \in whole
  PROVE  \E e \in {n + 1, n + 2} : CutAt(line, whole, n, e)
<1>1. /\ Len(line) \in Nat /\ whole \subseteq 1..Len(line) /\ Len(line) \in whole
      /\ \A e \in whole : e - From(whole, e) \in {0, 1} /\ IsPiece(SubSeq(line, From(whole, e), e))
  BY DEF Cuts, Piece
<1> DEFINE U == {c \in whole : c > n}
<1>2. PICK e \in U : \A m \in U : e <= m
  <2>1. U \subseteq Nat
    <3>1. whole \subseteq Nat
      BY <1>1
    <3> QED BY <3>1
  <2>2. Len(line) > n
    OBVIOUS
  <2>3. Len(line) \in U
    BY <1>1, <2>2
  <2> HIDE DEF U
  <2> QED BY <2>1, <2>3, LeastNumber
<1>3. e \in whole /\ e \in Nat /\ n < e /\ e <= Len(line)
  BY <1>1
<1>4. ASSUME NEW c \in whole, c < e PROVE c <= n
  BY <1>1, <1>2, <1>3, <1>4
<1>5. whole \in SUBSET Nat /\ n \in Nat
  BY <1>1
<1>6. From(whole, e) = n + 1
  BY <1>3, <1>4, <1>5, FromIs
<1>7. e - (n + 1) \in {0, 1} /\ IsPiece(SubSeq(line, n + 1, e))
  BY <1>1, <1>3, <1>6
<1>8. e \in {n + 1, n + 2}
  BY <1>3, <1>7
<1> QED BY <1>3, <1>4, <1>7, <1>8 DEF CutAt

LEMMA NextPiece ==
  ASSUME NEW line \in Seq(TextWord), NEW whole \in Cuts(line, Len(line)),
         NEW n \in 0..(Len(line) - 1), n = 0 \/ n \in whole
  PROVE  \E e \in {n + 1, n + 2} : CutAt(line, whole, n, e) /\ Possible(line, n, e)
<1>1. PICK e \in {n + 1, n + 2} : CutAt(line, whole, n, e)
  BY FirstPiece
<1>2. /\ e \in whole /\ e <= Len(line) /\ IsPiece(SubSeq(line, n + 1, e)) /\ e \in Nat
      /\ Len(line) \in Nat
  BY <1>1 DEF CutAt
<1>3. ASSUME e < Len(line) PROVE line[e + 1].name \in OptionNames
  <2>1. e \in 0..(Len(line) - 1)
    BY <1>2, <1>3
  <2>2. PICK d \in {e + 1, e + 2} : CutAt(line, whole, e, d)
    BY <1>2, <2>1, FirstPiece
  <2>3. d <= Len(line) /\ IsPiece(SubSeq(line, e + 1, d))
    BY <2>2 DEF CutAt
  <2>4. SubSeq(line, e + 1, d)[1] = line[e + 1]
    <3>1. CASE d = e + 1
      <4>1. SubSeq(line, e + 1, e + 1) = <<line[e + 1]>>
        BY <2>1, OneWord
      <4> QED BY <3>1, <4>1
    <3>2. CASE d = e + 2
      <4>1. e \in 0..(Len(line) - 2)
        BY <1>2, <2>3, <3>2
      <4>2. SubSeq(line, e + 1, e + 2) = <<line[e + 1], line[e + 2]>>
        BY <4>1, TwoWords
      <4> QED BY <3>2, <4>2
    <3> QED BY <3>1, <3>2
  <2> QED BY <2>3, <2>4, PieceNamed
<1> QED BY <1>1, <1>2, <1>3 DEF Possible

\* Nothing can: the line has no reading.
LEMMA NoReading ==
  ASSUME NEW line \in Seq(TextWord), NEW n \in 0..(Len(line) - 1), NEW cut, NEW read,
         ReadTo(line, n, cut, read), \A e \in {n + 1, n + 2} : ~Possible(line, n, e)
  PROVE  Cuts(line, Len(line)) = {}
<1> SUFFICES ASSUME NEW whole \in Cuts(line, Len(line)) PROVE FALSE
  OBVIOUS
<1>1. cut \in Cuts(line, n) /\ whole \cap 1..n = cut
  BY DEF ReadTo
<1>2. n = 0 \/ n \in whole
  BY <1>1 DEF Cuts
<1> QED BY <1>2, NextPiece

\* One can, and it is read.
LEMMA PieceRead ==
  ASSUME NEW line \in Seq(TextWord), NEW n \in 0..(Len(line) - 1), NEW cut, NEW read,
         ReadTo(line, n, cut, read),
         NEW e \in {n + 1, n + 2}, e <= Len(line), IsPiece(SubSeq(line, n + 1, e)),
         \A d \in {n + 1, n + 2} : Possible(line, n, d) => d = e,
         NEW setting \in DOMAIN DefaultSettings, NEW value,
         Says(SubSeq(line, n + 1, e)) = <<setting, value>>
  PROVE  ReadTo(line, e, cut \cup {e}, [read EXCEPT ![setting] = value])
<1> DEFINE more == cut \cup {e}
<1>1. /\ Len(line) \in Nat /\ n \in Nat /\ e \in Nat /\ n < e
      /\ cut \subseteq 1..n /\ (n = 0 \/ n \in cut)
      /\ \A c \in cut : c - From(cut, c) \in {0, 1} /\ IsPiece(Piece(line, cut, c))
  BY DEF ReadTo, Cuts
<1>2. ASSUME NEW c \in cut PROVE From(more, c) = From(cut, c) /\ Piece(line, more, c) = Piece(line, cut, c)
  <2>1. {d \in more : d < c} = {d \in cut : d < c}
    BY <1>1
  <2>2. From(more, c) = From(cut, c)
    BY <2>1 DEF From
  <2> QED BY <2>2 DEF Piece
<1>3. From(more, e) = n + 1 /\ Piece(line, more, e) = SubSeq(line, n + 1, e)
  <2>1. more \in SUBSET Nat /\ (n = 0 \/ n \in more) /\ \A c \in more : c < e => c <= n
    BY <1>1
  <2> HIDE DEF more
  <2>2. From(more, e) = n + 1
    BY <1>1, <2>1, FromIs
  <2> QED BY <2>2 DEF Piece
<1>4. more \in Cuts(line, e)
  <2>1. more \in SUBSET (1..e) /\ e \in more
    BY <1>1
  <2>2. ASSUME NEW c \in more PROVE c - From(more, c) \in {0, 1} /\ IsPiece(Piece(line, more, c))
    <3>1. CASE c \in cut
      BY <1>1, <1>2, <3>1
    <3>2. CASE c = e
      <4>1. e - (n + 1) \in {0, 1}
        BY <1>1
      <4> QED BY <1>3, <3>2, <4>1
    <3> QED BY <3>1, <3>2
  <2> HIDE DEF more
  <2> QED BY <2>1, <2>2 DEF Cuts
<1>5. ASSUME NEW whole \in Cuts(line, Len(line)) PROVE whole \cap 1..e = more
  <2>1. whole \cap 1..n = cut /\ whole \subseteq 1..Len(line)
    BY DEF ReadTo, Cuts
  <2>2. n = 0 \/ n \in whole
    BY <1>1, <2>1
  <2>3. PICK d \in {n + 1, n + 2} : CutAt(line, whole, n, d) /\ Possible(line, n, d)
    BY <2>2, NextPiece
  <2>4. d = e
    BY <2>3
  <2>5. e \in whole /\ \A c \in whole : c < e => c <= n
    BY <2>3, <2>4 DEF CutAt
  <2>6. ASSUME NEW c \in whole \cap 1..e PROVE c \in more
    <3>1. c = e \/ c \in whole \cap 1..n
      BY <1>1, <2>5
    <3> QED BY <2>1, <3>1
  <2>7. ASSUME NEW c \in more PROVE c \in whole \cap 1..e
    BY <1>1, <2>1, <2>5
  <2> QED BY <2>6, <2>7
<1>9. Says(Piece(line, more, e)) = <<setting, value>>
  <2> HIDE DEF more
  <2> QED BY <1>3
<1> DEFINE after == [read EXCEPT ![setting] = value]
<1>6. DOMAIN after = DOMAIN DefaultSettings /\ DOMAIN read = DOMAIN DefaultSettings
  BY DEF ReadTo
<1>7. ASSUME NEW s \in DOMAIN DefaultSettings PROVE after[s] = Said(line, more, s)
  <2>1. CASE s = setting
    <3>1. e \in About(line, more, s) /\ About(line, more, s) \in SUBSET Int
      <4>1. About(line, more, s) \in SUBSET more /\ more \in SUBSET Int
        BY <1>1 DEF About
      <4>2. Says(Piece(line, more, e))[1] = s /\ e \in more
        BY <1>9, <2>1
      <4>3. e \in About(line, more, s)
        BY <4>2 DEF About
      <4> QED BY <4>1, <4>3
    <3>2. \A c \in About(line, more, s) : e >= c
      BY <1>1 DEF About
    <3>3. Max(About(line, more, s)) = e
      BY <3>1, <3>2, MaxIs
    <3>4. Said(line, more, s) = value
      <4> HIDE DEF more
      <4> QED BY <1>9, <3>1, <3>3 DEF Said
    <3> QED BY <1>6, <2>1, <3>4
  <2>2. CASE s # setting
    <3>1. About(line, more, s) = About(line, cut, s)
      <4>1. Says(Piece(line, more, e))[1] = setting
        BY <1>9
      <4>2. About(line, more, s) = {c \in cut : Says(Piece(line, more, c))[1] = s}
        BY <2>2, <4>1 DEF About
      <4> QED BY <1>2, <4>2 DEF About
    <3>2. Said(line, more, s) = Said(line, cut, s)
      <4>1. CASE About(line, cut, s) = {}
        BY <3>1, <4>1 DEF Said
      <4>2. CASE About(line, cut, s) # {}
        <5>1. About(line, cut, s) \in SUBSET (0..n)
          <6>1. About(line, cut, s) \in SUBSET cut
            BY DEF About
          <6>2. cut \in SUBSET (0..n)
            BY <1>1
          <6> QED BY <6>1, <6>2
        <5>2. Max(About(line, cut, s)) \in About(line, cut, s)
          BY <1>1, <4>2, <5>1, GreatestNumber
        <5>3. Max(About(line, cut, s)) \in cut
          BY <5>2 DEF About
        <5> HIDE DEF more
        <5> QED BY <1>2, <3>1, <4>2, <5>3 DEF Said
      <4> QED BY <4>1, <4>2
    <3>3. read[s] = Said(line, cut, s)
      BY DEF ReadTo
    <3>4. after[s] = read[s]
      BY <1>6, <2>2
    <3> QED BY <3>2, <3>3, <3>4
  <2> QED BY <2>1, <2>2
<1> HIDE DEF more, after
<1>8. ReadTo(line, e, more, after)
  BY <1>4, <1>5, <1>6, <1>7 DEF ReadTo
<1> QED BY <1>8 DEF more, after

-----------------------------------------------------------------------------
(* The options *)

LEMMA ClassesApart ==
  ASSUME NEW name
  PROVE  /\ name \in Short => name \notin Texts /\ name \notin Ports /\ name \notin Booleans
                              /\ name \notin DOMAIN Switches /\ name # "--metrics"
         /\ name \in Texts => name \notin Ports /\ name \notin Booleans
                              /\ name \notin DOMAIN Switches /\ name # "--metrics"
         /\ name \in Ports => name \notin Booleans /\ name \notin DOMAIN Switches /\ name # "--metrics"
         /\ name \in Booleans => name \notin DOMAIN Switches /\ name # "--metrics"
         /\ name \in DOMAIN Switches => name # "--metrics"
<1> DEFINE B == Booleans
           S == {"-q", "--no-iq-filter", "-v", "--verbose", "--debug", "--no-stdout", "--no-adaptive-gain",
                 "--no-auto-ppm"}
<1>1. DOMAIN Switches = S
  BY DEF Switches
<1>2. name \in Short => name \notin Texts /\ name \notin Ports /\ name \notin Booleans
                        /\ name \notin S /\ name # "--metrics"
  BY DEF Short, Texts, Ports, Booleans
<1>3. name \in Ports => name \notin Booleans /\ name \notin S /\ name # "--metrics"
  BY DEF Ports, Booleans
<1>4. name \in Booleans => name \notin S /\ name # "--metrics"
  BY DEF Booleans
<1>5. name \in S => name # "--metrics"
  OBVIOUS
<1>6. name \in Texts => name \notin Ports /\ name \notin Booleans /\ name \notin S /\ name # "--metrics"
  BY DEF Texts, Ports, Booleans
<1> HIDE DEF S
<1> QED BY <1>1, <1>2, <1>3, <1>4, <1>5, <1>6

LEMMA SettingsNamed ==
  /\ Short \cup Texts \cup Ports \cup Booleans \cup {"--metrics"} \subseteq DOMAIN DefaultSettings
  /\ \A name \in DOMAIN Switches : /\ Switches[name] = <<Switches[name][1], Switches[name][2]>>
                                   /\ Switches[name][1] \in DOMAIN DefaultSettings
<1>1. DOMAIN DefaultSettings
        = Short \cup Texts \cup Ports \cup Booleans \cup {"--metrics", "-q", "stdout", "-v", "--debug"}
  BY DEF DefaultSettings
<1>2. "--adaptive-gain" \in Booleans /\ "--auto-ppm" \in Booleans
  BY DEF Booleans
<1>3. ASSUME NEW name \in DOMAIN Switches
      PROVE  /\ Switches[name] = <<Switches[name][1], Switches[name][2]>>
             /\ Switches[name][1] \in {"-q", "-v", "--debug", "stdout", "--adaptive-gain", "--auto-ppm"}
  BY DEF Switches
<1> QED BY <1>1, <1>2, <1>3

\* What a word is by itself.
LEMMA Alone ==
  ASSUME NEW w \in TextWord
  PROVE  /\ w.name \in Short => ~IsPiece(<<w>>)
         /\ w.name \in Texts => (IsPiece(<<w>>) <=> w.value # None)
         /\ w.name \in Ports =>
              (IsPiece(<<w>>) <=> w.value # None /\ ParseTcpPort(Word(w.value)) # None)
         /\ w.name \in Booleans =>
              (IsPiece(<<w>>) <=> w.value = None \/ ParseBool(Word(w.value)) # None)
         /\ w.name = "--metrics" => IsPiece(<<w>>)
         /\ w.name \in DOMAIN Switches => IsPiece(<<w>>)
<1> DEFINE piece == <<w>>
<1>1. Len(piece) = 1 /\ piece[1] = w /\ Value(piece) = Word(w.value)
  BY DEF Value
<1> HIDE DEF piece
<1>2. IsPiece(piece) <=>
        \/ w.name \in Texts /\ w.value # None
        \/ w.name \in Ports /\ w.value # None /\ ParseTcpPort(Word(w.value)) # None
        \/ w.name \in Booleans /\ (w.value = None \/ ParseBool(Word(w.value)) # None)
        \/ w.name = "--metrics"
        \/ w.name \in DOMAIN Switches
  BY <1>1 DEF IsPiece
<1> QED BY <1>2, ClassesApart DEF piece

\* And with the next.
LEMMA WithNext ==
  ASSUME NEW w \in TextWord, NEW x \in TextWord
  PROVE  /\ w.name \in Short => IsPiece(<<w, x>>)
         /\ w.name \in Texts => (IsPiece(<<w, x>>) <=> w.value = None)
         /\ w.name \in Ports => (IsPiece(<<w, x>>) <=> w.value = None /\ ParseTcpPort(x) # None)
         /\ w.name \in Booleans =>
              (IsPiece(<<w, x>>) <=> w.value = None /\ LooksLikeValue(x) /\ ParseBool(x) # None)
         /\ w.name = "--metrics" => (IsPiece(<<w, x>>) <=> w.value = None /\ LooksLikeValue(x))
         /\ w.name \in DOMAIN Switches => ~IsPiece(<<w, x>>)
<1> DEFINE piece == <<w, x>>
<1>1. Len(piece) = 2 /\ piece[1] = w /\ piece[2] = x /\ Value(piece) = x
  BY DEF Value
<1> HIDE DEF piece
<1>2. IsPiece(piece) <=>
        \/ w.name \in Short
        \/ w.name \in Texts /\ w.value = None
        \/ w.name \in Ports /\ w.value = None /\ ParseTcpPort(x) # None
        \/ w.name \in Booleans /\ w.value = None /\ LooksLikeValue(x) /\ ParseBool(x) # None
        \/ w.name = "--metrics" /\ w.value = None /\ LooksLikeValue(x)
  BY <1>1 DEF IsPiece
<1> QED BY <1>2, ClassesApart DEF piece

LEMMA SaysAlone ==
  ASSUME NEW w \in TextWord
  PROVE  /\ w.name \in Texts => Says(<<w>>) = <<w.name, Word(w.value)>>
         /\ w.name \in Ports => Says(<<w>>) = <<w.name, ParseTcpPort(Word(w.value))>>
         /\ w.name \in Booleans =>
              Says(<<w>>) = <<w.name, IF w.value = None THEN TRUE ELSE ParseBool(Word(w.value))>>
         /\ w.name = "--metrics" =>
              Says(<<w>>) = <<w.name, Word(IF w.value = None THEN MetricsDefault ELSE w.value)>>
         /\ w.name \in DOMAIN Switches => Says(<<w>>) = Switches[w.name]
<1> DEFINE piece == <<w>>
<1>1. piece[1] = w /\ Value(piece) = Word(w.value)
  BY DEF Value
<1>2. piece = <<Word(w.name)>> <=> w.value = None
  <2>1. w = Word(w.name) <=> w.value = None
    BY DEF TextWord, Word
  <2> QED BY <2>1
<1> HIDE DEF piece
<1> QED BY <1>1, <1>2, ClassesApart DEF Says, piece

LEMMA SaysWithNext ==
  ASSUME NEW w \in TextWord, NEW x \in TextWord
  PROVE  /\ w.name \in Short \cup Texts \cup {"--metrics"} => Says(<<w, x>>) = <<w.name, x>>
         /\ w.name \in Ports => Says(<<w, x>>) = <<w.name, ParseTcpPort(x)>>
         /\ w.name \in Booleans => Says(<<w, x>>) = <<w.name, ParseBool(x)>>
<1> DEFINE piece == <<w, x>>
<1>1. piece[1] = w /\ Value(piece) = x
  BY DEF Value
<1>2. piece # <<Word(w.name)>>
  OBVIOUS
<1> HIDE DEF piece
<1> QED BY <1>1, <1>2, ClassesApart DEF Says, piece

-----------------------------------------------------------------------------
(* The parser's steps *)

Reading == LineInv /\ Parsing

LEMMA Words ==
  ASSUME Reading
  PROVE  /\ argv \in Seq(TextWord) /\ parsed \in 0..(Len(argv) - 1) /\ Len(argv) \in Nat
         /\ Arg \in TextWord /\ SubSeq(argv, parsed + 1, parsed + 1) = <<Arg>>
         /\ HasNext <=> parsed + 2 <= Len(argv)
         /\ HasNext => /\ Next1 \in TextWord /\ SubSeq(argv, parsed + 1, parsed + 2) = <<Arg, Next1>>
         /\ \E cut : ReadTo(argv, parsed, cut, settings)
<1>1. /\ argv \in Seq(TextWord) /\ parsed \in 0..(Len(argv) - 1) /\ Len(argv) \in Nat
      /\ \E cut : ReadTo(argv, parsed, cut, settings)
  <2>1. argv \in Seq(TextWord) /\ parsed \in 0..Len(argv) /\ Len(argv) \in Nat /\ parsed < Len(argv)
    BY DEF Reading, LineInv, Parsing
  <2> QED BY <2>1 DEF Reading, LineInv, Parsing
<1>2. HasNext <=> parsed + 2 <= Len(argv)
  BY <1>1 DEF HasNext
<1>3. Arg \in TextWord /\ SubSeq(argv, parsed + 1, parsed + 1) = <<Arg>>
  BY <1>1, OneWord DEF Arg
<1>4. ASSUME HasNext
      PROVE  Next1 \in TextWord /\ SubSeq(argv, parsed + 1, parsed + 2) = <<Arg, Next1>>
  <2>1. parsed \in 0..(Len(argv) - 2)
    BY <1>1, <1>2, <1>4
  <2> QED BY <1>1, <2>1, TwoWords DEF Arg, Next1
<1> QED BY <1>1, <1>2, <1>3, <1>4

\* What can be the first piece.
FitsAlone == IsPiece(<<Arg>>) /\ (HasNext => Next1.name \in OptionNames)
FitsWithNext == HasNext /\ IsPiece(<<Arg, Next1>>)

LEMMA Fits ==
  ASSUME Reading
  PROVE  /\ Possible(argv, parsed, parsed + 1) => FitsAlone
         /\ Possible(argv, parsed, parsed + 2) => FitsWithNext
<1>1. ASSUME Possible(argv, parsed, parsed + 1) PROVE FitsAlone
  <2>1. parsed + 2 = (parsed + 1) + 1 /\ (HasNext => parsed + 1 < Len(argv))
    BY Words
  <2> QED BY <1>1, <2>1, Words DEF Possible, FitsAlone, Next1
<1>2. ASSUME Possible(argv, parsed, parsed + 2) PROVE FitsWithNext
  BY <1>2, Words DEF Possible, FitsWithNext
<1> QED BY <1>1, <1>2

LEMMA TakesOne ==
  ASSUME Reading, IsPiece(<<Arg>>), ~FitsWithNext,
         NEW setting \in DOMAIN DefaultSettings, NEW value, Says(<<Arg>>) = <<setting, value>>,
         Set(setting, value, 1)
  PROVE  LineInv'
<1>1. /\ argv' = argv /\ parsed' = parsed + 1 /\ parsing' = parsing
      /\ settings' = [settings EXCEPT ![setting] = value]
  BY DEF Set
<1>2. /\ argv \in Seq(TextWord) /\ parsed \in 0..(Len(argv) - 1) /\ Len(argv) \in Nat
      /\ SubSeq(argv, parsed + 1, parsed + 1) = <<Arg>> /\ parsing = "words"
  BY Words DEF Reading, Parsing
<1>3. PICK cut : ReadTo(argv, parsed, cut, settings)
  BY Words
<1>4. \A d \in {parsed + 1, parsed + 2} : Possible(argv, parsed, d) => d = parsed + 1
  BY Fits
<1>5. PICK e \in {parsed + 1, parsed + 2} : e = parsed + 1
  OBVIOUS
<1>6. ReadTo(argv, e, cut \cup {e}, [settings EXCEPT ![setting] = value])
  <2>1. e <= Len(argv)
    BY <1>2, <1>5
  <2>4. IsPiece(SubSeq(argv, parsed + 1, e))
    BY <1>2, <1>5
  <2>2. \A d \in {parsed + 1, parsed + 2} : Possible(argv, parsed, d) => d = e
    BY <1>4, <1>5
  <2>3. Says(SubSeq(argv, parsed + 1, e)) = <<setting, value>>
    BY <1>2, <1>5
  <2> QED BY <1>2, <1>3, <2>1, <2>2, <2>3, <2>4, PieceRead
<1>7. parsed' = e /\ parsed' \in 0..Len(argv)
  BY <1>1, <1>2, <1>5
<1> QED BY <1>1, <1>2, <1>6, <1>7 DEF LineInv

LEMMA TakesTwo ==
  ASSUME Reading, FitsWithNext, ~FitsAlone,
         NEW setting \in DOMAIN DefaultSettings, NEW value, Says(<<Arg, Next1>>) = <<setting, value>>,
         Set(setting, value, 2)
  PROVE  LineInv'
<1>1. /\ argv' = argv /\ parsed' = parsed + 2 /\ parsing' = parsing
      /\ settings' = [settings EXCEPT ![setting] = value]
  BY DEF Set
<1>2. /\ argv \in Seq(TextWord) /\ parsed \in 0..(Len(argv) - 1) /\ Len(argv) \in Nat
      /\ parsed + 2 <= Len(argv) /\ IsPiece(<<Arg, Next1>>)
      /\ SubSeq(argv, parsed + 1, parsed + 2) = <<Arg, Next1>> /\ parsing = "words"
  BY Words DEF Reading, Parsing, FitsWithNext
<1>3. PICK cut : ReadTo(argv, parsed, cut, settings)
  BY Words
<1>4. \A d \in {parsed + 1, parsed + 2} : Possible(argv, parsed, d) => d = parsed + 2
  BY Fits
<1>5. PICK e \in {parsed + 1, parsed + 2} : e = parsed + 2
  OBVIOUS
<1>6. ReadTo(argv, e, cut \cup {e}, [settings EXCEPT ![setting] = value])
  <2>1. e <= Len(argv)
    BY <1>2, <1>5
  <2>4. IsPiece(SubSeq(argv, parsed + 1, e))
    BY <1>2, <1>5
  <2>2. \A d \in {parsed + 1, parsed + 2} : Possible(argv, parsed, d) => d = e
    BY <1>4, <1>5
  <2>3. Says(SubSeq(argv, parsed + 1, e)) = <<setting, value>>
    BY <1>2, <1>5
  <2> QED BY <1>2, <1>3, <2>1, <2>2, <2>3, <2>4, PieceRead
<1>7. parsed' = e /\ parsed' \in 0..Len(argv)
  BY <1>1, <1>2, <1>5
<1> QED BY <1>1, <1>2, <1>6, <1>7 DEF LineInv

LEMMA Refuses ==
  ASSUME Reading, ~FitsAlone, ~FitsWithNext, Refuse
  PROVE  LineInv'
<1>1. /\ argv' = argv /\ parsed' = parsed /\ parsing' = "refused"
  BY DEF Refuse
<1>2. /\ argv \in Seq(TextWord) /\ parsed \in 0..(Len(argv) - 1) /\ parsed \in 0..Len(argv)
  BY Words
<1>3. PICK cut : ReadTo(argv, parsed, cut, settings)
  BY Words
<1>4. \A d \in {parsed + 1, parsed + 2} : ~Possible(argv, parsed, d)
  BY Fits
<1>5. Cuts(argv, Len(argv)) = {}
  BY <1>2, <1>3, <1>4, NoReading
<1> QED BY <1>1, <1>2, <1>5 DEF LineInv

LEMMA ReadsShort == Reading /\ ParseShort => LineInv'
<1> SUFFICES ASSUME Reading, ParseShort PROVE LineInv'
  OBVIOUS
<1>1. Arg.name \in Short /\ ~IsPiece(<<Arg>>) /\ ~FitsAlone
  BY Words, Alone DEF ParseShort, FitsAlone
<1>2. CASE HasNext
  <2>1. FitsWithNext /\ Says(<<Arg, Next1>>) = <<Arg.name, Next1>>
    BY <1>1, <1>2, Words, WithNext, SaysWithNext DEF FitsWithNext
  <2>2. Set(Arg.name, Next1, 2)
    BY <1>2 DEF ParseShort
  <2> QED BY <1>1, <2>1, <2>2, SettingsNamed, TakesTwo
<1>3. CASE ~HasNext
  BY <1>1, <1>3, Refuses DEF ParseShort, FitsWithNext
<1> QED BY <1>2, <1>3

LEMMA ReadsSwitch == Reading /\ ParseSwitch => LineInv'
<1> SUFFICES ASSUME Reading, ParseSwitch PROVE LineInv'
  OBVIOUS
<1>1. Arg.name \in DOMAIN Switches /\ Set(Switches[Arg.name][1], Switches[Arg.name][2], 1)
  BY DEF ParseSwitch
<1>2. IsPiece(<<Arg>>) /\ ~FitsWithNext /\ Says(<<Arg>>) = Switches[Arg.name]
  BY <1>1, Words, Alone, WithNext, SaysAlone DEF FitsWithNext
<1> QED BY <1>1, <1>2, SettingsNamed, TakesOne

LEMMA ReadsText == Reading /\ ParseText => LineInv'
<1> SUFFICES ASSUME Reading, ParseText PROVE LineInv'
  OBVIOUS
<1>1. Arg.name \in Texts /\ Arg.name \in DOMAIN DefaultSettings /\ Arg \in TextWord
  BY Words, SettingsNamed DEF ParseText
<1>2. CASE Arg.value # None
  <2>1. IsPiece(<<Arg>>) /\ ~FitsWithNext /\ Says(<<Arg>>) = <<Arg.name, Word(Arg.value)>>
    BY <1>1, <1>2, Words, Alone, WithNext, SaysAlone DEF FitsWithNext
  <2>2. Word(Arg.value) # None
    BY <1>1, <1>2, WordsAssumption DEF Word, TextWord
  <2>3. Set(Arg.name, Word(Arg.value), 1)
    BY <1>2, <2>2 DEF ParseText, Taken
  <2> QED BY <1>1, <2>1, <2>3, TakesOne
<1>3. CASE Arg.value = None /\ HasNext
  <2>1. FitsWithNext /\ ~FitsAlone /\ Says(<<Arg, Next1>>) = <<Arg.name, Next1>>
    BY <1>1, <1>3, Words, Alone, WithNext, SaysWithNext DEF FitsWithNext, FitsAlone
  <2>2. Next1 # None
    BY <1>3, Words, WordsAssumption
  <2>3. Set(Arg.name, Next1, 2)
    BY <1>3, <2>2 DEF ParseText, Taken
  <2> QED BY <1>1, <2>1, <2>3, TakesTwo
<1>4. CASE Arg.value = None /\ ~HasNext
  <2>1. ~FitsAlone /\ ~FitsWithNext
    BY <1>1, <1>4, Alone DEF FitsAlone, FitsWithNext
  <2>2. Refuse
    BY <1>4 DEF ParseText, Taken
  <2> QED BY <2>1, <2>2, Refuses
<1> QED BY <1>2, <1>3, <1>4

LEMMA ReadsPort == Reading /\ ParsePort => LineInv'
<1> SUFFICES ASSUME Reading, ParsePort PROVE LineInv'
  OBVIOUS
<1>1. Arg.name \in Ports /\ Arg.name \in DOMAIN DefaultSettings /\ Arg \in TextWord
  BY Words, SettingsNamed DEF ParsePort
<1>2. IF ParseTcpPort(Taken.value) = None THEN Refuse
      ELSE Set(Arg.name, ParseTcpPort(Taken.value), Taken.words)
  BY DEF ParsePort
<1>3. CASE Arg.value # None
  <2>1. Taken = [value |-> Word(Arg.value), words |-> 1]
    BY <1>3 DEF Taken
  <2>2. ~FitsWithNext /\ Says(<<Arg>>) = <<Arg.name, ParseTcpPort(Word(Arg.value))>>
    BY <1>1, <1>3, Words, WithNext, SaysAlone DEF FitsWithNext
  <2>3. CASE ParseTcpPort(Word(Arg.value)) = None
    <3>1. ~FitsAlone
      BY <1>1, <2>3, Alone DEF FitsAlone
    <3> QED BY <1>2, <2>1, <2>2, <2>3, <3>1, Refuses
  <2>4. CASE ParseTcpPort(Word(Arg.value)) # None
    <3>1. IsPiece(<<Arg>>)
      BY <1>1, <1>3, <2>4, Alone
    <3>2. Set(Arg.name, ParseTcpPort(Word(Arg.value)), 1)
      BY <1>2, <2>1, <2>4
    <3> QED BY <1>1, <2>2, <3>1, <3>2, TakesOne
  <2> QED BY <2>3, <2>4
<1>4. CASE Arg.value = None /\ HasNext
  <2>1. Taken = [value |-> Next1, words |-> 2]
    BY <1>4 DEF Taken
  <2>2. ~FitsAlone /\ Says(<<Arg, Next1>>) = <<Arg.name, ParseTcpPort(Next1)>>
    BY <1>1, <1>4, Words, Alone, SaysWithNext DEF FitsAlone
  <2>3. FitsWithNext <=> ParseTcpPort(Next1) # None
    BY <1>1, <1>4, Words, WithNext DEF FitsWithNext
  <2>4. CASE ParseTcpPort(Next1) = None
    BY <1>2, <2>1, <2>2, <2>3, <2>4, Refuses
  <2>5. CASE ParseTcpPort(Next1) # None
    <3>1. Set(Arg.name, ParseTcpPort(Next1), 2)
      BY <1>2, <2>1, <2>5
    <3> QED BY <1>1, <2>2, <2>3, <2>5, <3>1, TakesTwo
  <2> QED BY <2>4, <2>5
<1>5. CASE Arg.value = None /\ ~HasNext
  <2>1. ~FitsAlone /\ ~FitsWithNext
    BY <1>1, <1>5, Alone DEF FitsAlone, FitsWithNext
  <2>2. Refuse
    BY <1>2, <1>5 DEF Taken, ParseTcpPort
  <2> QED BY <2>1, <2>2, Refuses
<1> QED BY <1>3, <1>4, <1>5

LEMMA ReadsBoolean == Reading /\ ParseBoolean => LineInv'
<1> SUFFICES ASSUME Reading, ParseBoolean PROVE LineInv'
  OBVIOUS
<1>1. Arg.name \in Booleans /\ Arg.name \in DOMAIN DefaultSettings /\ Arg \in TextWord
  BY Words, SettingsNamed DEF ParseBoolean
<1>2. IF ParseBool(TakenBoolean.value) = None THEN Refuse
      ELSE Set(Arg.name, ParseBool(TakenBoolean.value), TakenBoolean.words)
  BY DEF ParseBoolean
<1>3. CASE Arg.value # None
  <2>1. TakenBoolean = [value |-> Word(Arg.value), words |-> 1]
    BY <1>3 DEF TakenBoolean
  <2>2. ~FitsWithNext /\ Says(<<Arg>>) = <<Arg.name, ParseBool(Word(Arg.value))>>
    BY <1>1, <1>3, Words, WithNext, SaysAlone DEF FitsWithNext
  <2>3. CASE ParseBool(Word(Arg.value)) = None
    <3>1. ~FitsAlone
      BY <1>1, <1>3, <2>3, Alone DEF FitsAlone
    <3> QED BY <1>2, <2>1, <2>2, <2>3, <3>1, Refuses
  <2>4. CASE ParseBool(Word(Arg.value)) # None
    <3>1. IsPiece(<<Arg>>)
      BY <1>1, <1>3, <2>4, Alone
    <3>2. Set(Arg.name, ParseBool(Word(Arg.value)), 1)
      BY <1>2, <2>1, <2>4
    <3> QED BY <1>1, <2>2, <3>1, <3>2, TakesOne
  <2> QED BY <2>3, <2>4
<1>4. CASE Arg.value = None /\ HasNext /\ LooksLikeValue(Next1)
  <2>1. TakenBoolean = [value |-> Next1, words |-> 2]
    BY <1>4 DEF TakenBoolean
  <2>2. ~FitsAlone /\ Says(<<Arg, Next1>>) = <<Arg.name, ParseBool(Next1)>>
    BY <1>1, <1>4, Words, SaysWithNext DEF FitsAlone, LooksLikeValue
  <2>3. FitsWithNext <=> ParseBool(Next1) # None
    BY <1>1, <1>4, Words, WithNext DEF FitsWithNext
  <2>4. CASE ParseBool(Next1) = None
    BY <1>2, <2>1, <2>2, <2>3, <2>4, Refuses
  <2>5. CASE ParseBool(Next1) # None
    <3>1. Set(Arg.name, ParseBool(Next1), 2)
      BY <1>2, <2>1, <2>5
    <3> QED BY <1>1, <2>2, <2>3, <2>5, <3>1, TakesTwo
  <2> QED BY <2>4, <2>5
<1>5. CASE Arg.value = None /\ ~(HasNext /\ LooksLikeValue(Next1))
  <2>1. TakenBoolean = [value |-> Word("true"), words |-> 1]
    BY <1>5 DEF TakenBoolean
  <2>2. ParseBool(Word("true")) = TRUE /\ TRUE # None
    <3>1. Word("true") \in {Word(t) : t \in TrueTexts} /\ TRUE # None
      BY WordsAssumption
    <3>2. ASSUME NEW t \in FalseTexts PROVE Word("true") # Word(t)
      BY WordsAssumption DEF Word
    <3> QED BY <3>1, <3>2 DEF ParseBool
  <2>3. Set(Arg.name, TRUE, 1)
    BY <1>2, <2>1, <2>2
  <2>4. IsPiece(<<Arg>>) /\ ~FitsWithNext /\ Says(<<Arg>>) = <<Arg.name, TRUE>>
    BY <1>1, <1>5, Words, Alone, WithNext, SaysAlone DEF FitsWithNext
  <2> QED BY <1>1, <2>3, <2>4, TakesOne
<1> QED BY <1>3, <1>4, <1>5

LEMMA ReadsMetrics == Reading /\ ParseMetrics => LineInv'
<1> SUFFICES ASSUME Reading, ParseMetrics PROVE LineInv'
  OBVIOUS
<1>1. Arg.name = "--metrics" /\ Arg.name \in DOMAIN DefaultSettings /\ Arg \in TextWord
  BY Words, SettingsNamed DEF ParseMetrics
<1>2. CASE Arg.value # None
  <2>1. IsPiece(<<Arg>>) /\ ~FitsWithNext /\ Says(<<Arg>>) = <<Arg.name, Word(Arg.value)>>
    BY <1>1, <1>2, Words, Alone, WithNext, SaysAlone DEF FitsWithNext
  <2>2. Set(Arg.name, Word(Arg.value), 1)
    BY <1>1, <1>2 DEF ParseMetrics
  <2> QED BY <1>1, <2>1, <2>2, TakesOne
<1>3. CASE Arg.value = None /\ HasNext /\ LooksLikeValue(Next1)
  <2>1. FitsWithNext /\ ~FitsAlone /\ Says(<<Arg, Next1>>) = <<Arg.name, Next1>>
    BY <1>1, <1>3, Words, WithNext, SaysWithNext DEF FitsWithNext, FitsAlone, LooksLikeValue
  <2>2. Set(Arg.name, Next1, 2)
    BY <1>1, <1>3 DEF ParseMetrics
  <2> QED BY <1>1, <2>1, <2>2, TakesTwo
<1>4. CASE Arg.value = None /\ ~(HasNext /\ LooksLikeValue(Next1))
  <2>1. IsPiece(<<Arg>>) /\ ~FitsWithNext /\ Says(<<Arg>>) = <<Arg.name, Word(MetricsDefault)>>
    BY <1>1, <1>4, Words, Alone, WithNext, SaysAlone DEF FitsWithNext
  <2>2. Set(Arg.name, Word(MetricsDefault), 1)
    BY <1>1, <1>4 DEF ParseMetrics
  <2> QED BY <1>1, <2>1, <2>2, TakesOne
<1> QED BY <1>2, <1>3, <1>4

LEMMA ReadsUnknown == Reading /\ ParseUnknown => LineInv'
<1> SUFFICES ASSUME Reading, ParseUnknown PROVE LineInv'
  OBVIOUS
<1>1. Arg.name \notin OptionNames /\ Refuse
  BY DEF ParseUnknown
<1>2. <<Arg>>[1] = Arg /\ <<Arg, Next1>>[1] = Arg
  OBVIOUS
<1>3. ~FitsAlone /\ ~FitsWithNext
  BY <1>1, <1>2, PieceNamed DEF FitsAlone, FitsWithNext
<1> QED BY <1>1, <1>3, Refuses

LEMMA LineNext == LineInv /\ [NextCommandLine]_cliVars => LineInv'
<1> SUFFICES ASSUME LineInv, [NextCommandLine]_cliVars PROVE LineInv'
  OBVIOUS
<1>1. CASE ParseHelp
  BY <1>1 DEF ParseHelp, LineInv
<1>2. CASE ParseShort
  BY <1>2, ReadsShort DEF Reading, ParseShort
<1>3. CASE ParseSwitch
  BY <1>3, ReadsSwitch DEF Reading, ParseSwitch
<1>4. CASE ParseText
  BY <1>4, ReadsText DEF Reading, ParseText
<1>5. CASE ParsePort
  BY <1>5, ReadsPort DEF Reading, ParsePort
<1>6. CASE ParseBoolean
  BY <1>6, ReadsBoolean DEF Reading, ParseBoolean
<1>7. CASE ParseMetrics
  BY <1>7, ReadsMetrics DEF Reading, ParseMetrics
<1>8. CASE ParseUnknown
  BY <1>8, ReadsUnknown DEF Reading, ParseUnknown
<1>9. CASE EndOfWords
  BY <1>9 DEF EndOfWords, LineInv
<1>10. CASE CheckPorts
  <2>1. parsed = Len(argv) /\ parsing' \in {"refused", "run"} /\ argv' = argv /\ parsed' = parsed
    BY <1>10 DEF CheckPorts, LineInv
  <2> QED BY <2>1 DEF LineInv
<1>11. CASE PlanRun
  BY <1>11 DEF PlanRun, LineInv
<1>12. CASE UNCHANGED cliVars
  BY <1>12 DEF cliVars, LineInv
<1> QED BY <1>1, <1>2, <1>3, <1>4, <1>5, <1>6, <1>7, <1>8, <1>9, <1>10, <1>11, <1>12
        DEF NextCommandLine

LEMMA LineStart == InitCommandLine => LineInv
<1> SUFFICES ASSUME InitCommandLine PROVE LineInv
  OBVIOUS
<1>1. /\ argv \in Seq(TextWord) /\ parsed = 0 /\ settings = DefaultSettings /\ parsing = "words"
      /\ Len(argv) \in Nat
  BY WordsAssumption DEF InitCommandLine
<1>2. {} \in Cuts(argv, 0)
  BY DEF Cuts
<1>3. \A s : About(argv, {}, s) = {}
  BY DEF About
<1>4. \A s \in DOMAIN DefaultSettings : DefaultSettings[s] = Said(argv, {}, s)
  BY <1>3 DEF Said
<1>5. ReadTo(argv, 0, {}, DefaultSettings)
  <2>1. 1..0 = {}
    OBVIOUS
  <2> QED BY <1>2, <1>4, <2>1 DEF ReadTo
<1> QED BY <1>1, <1>5 DEF LineInv

LEMMA LineRead == LineInv => LineReadOnce
<1> SUFFICES ASSUME LineInv PROVE LineReadOnce
  OBVIOUS
<1>1. ASSUME parsing = "checks"
      PROVE  /\ Cardinality(Cuts(argv, Len(argv))) = 1
             /\ \A cut \in Cuts(argv, Len(argv)), setting \in DOMAIN settings :
                  settings[setting] = Said(argv, cut, setting)
  <2>1. PICK cut : ReadTo(argv, Len(argv), cut, settings)
    BY <1>1 DEF LineInv
  <2>2. ASSUME NEW whole \in Cuts(argv, Len(argv)) PROVE whole = cut
    <3>1. whole \cap 1..Len(argv) = cut
      BY <2>1 DEF ReadTo
    <3>2. whole \subseteq 1..Len(argv)
      BY DEF Cuts
    <3> QED BY <3>1, <3>2
  <2>3. Cuts(argv, Len(argv)) = {cut}
    BY <2>1, <2>2 DEF ReadTo
  <2>4. Cardinality({cut}) = 1
    BY FS_Singleton
  <2> QED BY <2>1, <2>3, <2>4 DEF ReadTo
<1> QED BY <1>1 DEF LineReadOnce, LineInv

\* Whatever the command line, a line that is taken has one reading, which is
\* what was set, and one that is refused has none (Cli.hpp:104-371).
THEOREM LineIsReadOnce == SpecCommandLine => []LineReadOnce
<1>1. SpecCommandLine => []LineInv
  BY LineStart, LineNext, PTL DEF SpecCommandLine
<1> QED BY <1>1, LineRead, PTL
=============================================================================
