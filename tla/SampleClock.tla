---------------------------- MODULE SampleClock ----------------------------
(***************************************************************************)
(* The sample-drop monitor: the device's clock against the host's.  The     *)
(* tuner produces one unit of samples per tick.  They wait in the driver's  *)
(* transfer queue until the callback thread hands it to                   *)
(* InputDeviceBase::writeDataToBuffer, or is lost for good.  The callback  *)
(* thread computes the deficit, compares it with that of about 0.9 s ago    *)
(* and lets SampleDropEventGate tell a late callback, which is caught up,   *)
(* from a loss, which is not.  The watchdog counts the events and ends the  *)
(* run when there are too many of them within a minute.                     *)
(*                                                                          *)
(* The times keep the order they have in the code: a gap is shorter than    *)
(* the comparison, the comparison shorter than the recovery window.  The    *)
(* drift of the crystal stays far below the threshold and is left out.      *)
(***************************************************************************)
EXTENDS Absent, Integers, Sequences

CONSTANTS Gap,       \* 150 ms: a longer silence moves the baseline
          Past,      \* 900 ms: the deficit is compared with one this old
          Recovery,  \* 1 s: what is caught up within it was not lost
          Startup,   \* 5 s: losses of the ramp-up are forgiven
          History,   \* 32: deficits remembered
          Threshold, \* sampleRate / 500: a step must be larger
          Minute,    \* 60 s: the window of the exit policy
          MaxDrops,  \* maxDropsPerMin
          QueueRoom, \* transfer buffers of the driver
          MaxLoss,   \* bound: transfers lost at once
          MaxLosses, \* bound: losses in a behaviour
          MaxTime    \* bound: ticks of a behaviour

ASSUME MonitorAssumption ==
  /\ {Past, Recovery, Startup, Threshold, MaxDrops, MaxLoss, MaxLosses, MaxTime}
       \subseteq Nat
  /\ {Gap, History, Minute, QueueRoom} \subseteq Nat \ {0}
  /\ Gap < Past /\ Past <= Recovery /\ None \notin Int

VARIABLES
  now, delivered,
  lost,       \* history: what was lost so far
  losses,     \* history: the losses, each with its time, the events there
              \* were before it and whether it stands out
  caughtUp,   \* history: when a callback last left nothing in the queue
  overdue,    \* history: the queue was not caught up within Recovery
  acc,        \* m_lastAccounting, m_firstCallback, m_accT0, m_accPairs0 and,
              \* for the properties, what waited at the baseline
  hist,       \* m_deficitHist, oldest first
  gate,       \* SampleDropEventGate
  dropEvents, \* m_dropEvents: how many the gate reported
  reported,   \* history: the growths it reported, in sum
  seen,       \* watchdog: seenDropEvents
  recent,     \* watchdog: recentDrops
  running     \* the run goes on

deviceVars == <<now, delivered, lost, losses, caughtUp, overdue>>
monitorVars == <<acc, hist, gate, dropEvents, reported>>
watchdogVars == <<seen, recent, running>>
clockVars == <<deviceVars, monitorVars, watchdogVars>>

Queued == now - lost - delivered
Larger(a, b) == IF a >= b THEN a ELSE b
Smaller(a, b) == IF a <= b THEN a ELSE b

Idle == [state |-> "Idle", start |-> 0, base |-> 0, min |-> 0]

InitClock ==
  /\ now = 0 /\ delivered = 0 /\ lost = 0 /\ losses = <<>>
  /\ caughtUp = 0 /\ overdue = FALSE
  /\ acc = [last |-> None, first |-> None, t0 |-> 0, pairs0 |-> 0, owed |-> 0]
  /\ hist = <<>> /\ gate = Idle /\ dropEvents = 0 /\ reported = 0
  /\ seen = 0 /\ recent = <<>> /\ running = TRUE

-----------------------------------------------------------------------------
(* The device and its driver *)

\* The watchdog looks five times a second, before the next tick.
Tick ==
  /\ running /\ now < MaxTime /\ Queued < QueueRoom
  /\ seen = dropEvents
  /\ now' = now + 1
  /\ UNCHANGED <<delivered, lost, losses, caughtUp, overdue, monitorVars,
                 watchdogVars>>

\* A loss stands out if it comes when the monitor has had the time to remember
\* deficits, is not waiting for an earlier event to pass, and raises what will
\* never be delivered above every deficit of the last comparison.
StandsOut(k) ==
  /\ acc.first # None /\ now - acc.t0 >= Past + Gap /\ gate.state # "Latched"
  /\ \A i \in DOMAIN hist :
       now - hist[i].at < Past + Gap => lost + k - acc.owed > hist[i].size + Threshold

\* A sample lost in the tuner's FIFO or on the bus never comes back.
Lose(k) ==
  /\ running /\ k <= Queued /\ Len(losses) < MaxLosses
  /\ lost' = lost + k
  /\ losses' = Append(losses, [at |-> now, told |-> dropEvents, standsOut |-> StandsOut(k)])
  /\ UNCHANGED <<now, delivered, caughtUp, overdue, monitorVars,
                 watchdogVars>>

-----------------------------------------------------------------------------
(* The callback thread *)

\* A transfer of one unit is handed over; late ones come one after the other.
Arrive ==
  /\ running /\ Queued > 0
  /\ delivered' = delivered + 1
  /\ caughtUp' = IF Queued = 1 THEN now ELSE caughtUp
  /\ overdue' = (overdue \/ (Queued > 1 /\ now - caughtUp >= Recovery))
  /\ UNCHANGED <<now, lost, losses, watchdogVars>>

Owed == Queued' + lost

IsFirst == acc.first = None
IsGap == ~IsFirst /\ now - acc.last > Gap
IsStartup == now - acc.first < Startup

Baseline == [acc EXCEPT !.last = now, !.t0 = now, !.pairs0 = delivered', !.owed = Owed]

FirstData ==
  /\ Arrive /\ IsFirst
  /\ acc' = [Baseline EXCEPT !.first = now]
  /\ UNCHANGED <<hist, gate, dropEvents, reported>>

AfterGap ==
  /\ Arrive /\ IsGap
  /\ acc' = Baseline /\ hist' = <<>> /\ gate' = Idle
  /\ UNCHANGED <<dropEvents, reported>>

\* The gate is not reset here; it is idle, for it was never asked.
RampUp ==
  /\ Arrive /\ ~IsFirst /\ ~IsGap /\ IsStartup
  /\ acc' = Baseline /\ hist' = <<>>
  /\ UNCHANGED <<gate, dropEvents, reported>>

Deficit == Larger((now - acc.t0) - (delivered' - acc.pairs0), 0)

Remembered(s, x) ==
  LET all == Append(s, x) IN SubSeq(all, Len(all) - Smaller(Len(all), History) + 1, Len(all))

\* The newest remembered deficit that is at least Past old.
PastDeficit(s) ==
  LET Old(i) == now - s[i].at >= Past
      newest == {i \in DOMAIN s : Old(i) /\ \A j \in DOMAIN s : j > i => ~Old(j)}
  IN  IF newest = {} THEN None ELSE s[CHOOSE i \in newest : TRUE].size

\* SampleDropEventGate::observe: the gate afterwards and the growth reported.
\* Mutant: what is late is reported at once.
ObserveAtOnce(deficit, past) ==
  IF gate.state = "Idle" /\ deficit - past > Threshold
  THEN [gate |-> [gate EXCEPT !.state = "Latched"], event |-> deficit - past]
  ELSE IF gate.state = "Latched" /\ deficit - past <= Threshold
  THEN [gate |-> Idle, event |-> None]
  ELSE [gate |-> gate, event |-> None]

\* Mutant: a candidate is held against the rolling comparison too.
ObserveRolling(deficit, past) ==
  IF gate.state = "Idle" /\ deficit - past > Threshold
  THEN [gate |-> [state |-> "Pending", start |-> now, base |-> past, min |-> deficit - past], event |-> None]
  ELSE IF gate.state # "Idle" /\ deficit - past <= Threshold THEN [gate |-> Idle, event |-> None]
  ELSE IF gate.state = "Pending" /\ now - gate.start >= Recovery
  THEN [gate |-> [Idle EXCEPT !.state = "Latched"], event |-> Smaller(gate.min, deficit - past)]
  ELSE [gate |-> gate, event |-> None]

Observe(deficit, past) ==
  LET growth == deficit - past
      residual == deficit - gate.base
      least == Smaller(gate.min, residual)
      Becomes(g, event) == [gate |-> g, event |-> event]
  IN  CASE gate.state = "Idle" /\ growth > Threshold ->
             Becomes([state |-> "Pending", start |-> now, base |-> past, min |-> growth], None)
        [] gate.state = "Pending" /\ residual <= Threshold -> Becomes(Idle, None)
        [] gate.state = "Pending" /\ residual > Threshold /\ now - gate.start >= Recovery ->
             Becomes([Idle EXCEPT !.state = "Latched"], least)
        [] gate.state = "Pending" /\ residual > Threshold /\ now - gate.start < Recovery ->
             Becomes([gate EXCEPT !.min = least], None)
        [] gate.state = "Latched" /\ growth <= Threshold -> Becomes(Idle, None)
        [] OTHER -> Becomes(gate, None)

Measure ==
  /\ Arrive /\ ~IsFirst /\ ~IsGap /\ ~IsStartup
  /\ acc' = [acc EXCEPT !.last = now]
  /\ hist' = Remembered(hist, [at |-> now, size |-> Deficit])
  /\ LET past == PastDeficit(hist')
         result == IF past = None THEN [gate |-> gate, event |-> None]
                   ELSE Observe(Deficit, past)
     IN  /\ gate' = result.gate
         /\ IF result.event = None THEN UNCHANGED <<dropEvents, reported>>
            ELSE dropEvents' = dropEvents + 1 /\ reported' = reported + result.event

-----------------------------------------------------------------------------
(* The watchdog *)

Within(s) == SelectSeq(s, LAMBDA t : now - t <= Minute)

\* The events it has not seen, one after the other; it stops counting when
\* the limit is passed.
TooMany(s) == MaxDrops > 0 /\ Len(s) > MaxDrops

CountDrops ==
  /\ running /\ seen < dropEvents
  /\ seen' = seen + 1
  /\ recent' = Within(Append(recent, now))
  /\ running' = ~TooMany(recent')
  /\ UNCHANGED <<deviceVars, monitorVars>>

NextClock ==
  \/ Tick \/ CountDrops
  \/ \E k \in 1..MaxLoss : Lose(k)
  \/ FirstData \/ AfterGap \/ RampUp \/ Measure

-----------------------------------------------------------------------------
(* Properties *)

\* A callback that is late but caught up within the recovery window is never
\* a drop, and no loss is reported twice: what is reported is covered by what
\* was lost (SampleDropEventGate.hpp:30-71, InputDeviceBase.hpp:69-148).
NoPhantomDrop == ~overdue => reported <= lost

\* A loss that stands out is counted when the recovery window and a silence the
\* monitor tolerates have passed, whatever comes late or is lost in between, unless
\* there was a new baseline (InputDeviceBase.hpp:111-145, SampleDropEventGate.hpp:30-71).
LossesCounted ==
  \A i \in DOMAIN losses :
    ( /\ losses[i].standsOut /\ losses[i].at > acc.t0
      /\ acc.last >= losses[i].at + Gap + Recovery ) => dropEvents > losses[i].told
=============================================================================
