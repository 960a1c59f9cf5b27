----------------------------- MODULE Supervisor -----------------------------
(***************************************************************************)
(* The life of the process on an RTL-SDR: the recovery loop of main()       *)
(* (src/main.cpp), one run of a device with its watchdog thread             *)
(* (src/include/MainInstance.hpp, run_async_device), the flags the signal   *)
(* handlers and the watchdog raise (src/include/Global.hpp) and start, stop *)
(* and close of the device (src/src/devices/RtlSdrDevice.cpp).              *)
(*                                                                          *)
(* Four actors interleave: the main thread (mpc), the watchdog (wpc), the   *)
(* reader thread of the device (dthread) and whoever sends signals or pulls *)
(* the cable.  The ring buffer is one block deep here; RingBufferAsync is   *)
(* its own module.  Time is abstracted to one bit: quiet, no sample for     *)
(* more than a second.                                                      *)
(***************************************************************************)
EXTENDS Naturals

CONSTANTS MaxAttempts,  \* kMaxRecoveryAttempts
          Hardware,     \* what the antenna end may be, see hw
          Signals,      \* the signals the process may be sent
          Stalls        \* may the pipeline, a tuner call or the watchdog be
                        \* held up for more than a second?

ASSUME SupervisorAssumption ==
  /\ MaxAttempts \in Nat
  /\ Hardware \subseteq {"good", "dead", "absent"}
  /\ Signals \subseteq {"INT", "HUP"}
  /\ Stalls \in BOOLEAN

VARIABLES
  shutdownReq,  \* g_shutdownRequested
  reselectReq,  \* g_reselectRequested
  lostReq,      \* g_deviceLostRequested
  hup,          \* a handle_sighup is between its two stores
  mpc,          \* where the main thread is
  recovering,   \* main: recovering
  attempts,     \* main: recoveryAttempts
  outcome,      \* main: the result of run_once
  wpc,          \* where the watchdog thread is, "off": there is none
  intended,     \* run: intendedShutdown
  handle,       \* device: m_dev, "none", "open" or "closed"
  dthread,      \* device: m_thread
  running,      \* device: m_running
  cancelled,    \* device: rtlsdr_cancel_async was accepted
  deviceLost,   \* device: m_deviceLost
  full,         \* ring: a block is waiting
  ringShut,     \* ring: m_shutdown
  hw,           \* "good": delivers; "dead": opens but delivers nothing;
                \* "absent": cannot be opened, unplugged or in use elsewhere
  quiet,        \* lastSignOfLife() exceeds one second
  delivered,    \* history: this run received samples
  signalled,    \* history: a signal stored the shutdown since main cleared it
  askedIdle     \* history: a SIGINT came since the last run, before the next

flags == <<shutdownReq, reselectReq, lostReq>>
mainVars == <<mpc, recovering, attempts, outcome>>
devVars == <<handle, dthread, running, cancelled, deviceLost>>
ringVars == <<full, ringShut>>
envVars == <<hw, hup>>
ghosts == <<signalled, askedIdle>>
runVars == <<wpc, intended, devVars, ringVars, quiet, delivered>>
vars == <<flags, mainVars, runVars, envVars, ghosts>>

Init ==
  /\ shutdownReq = FALSE /\ reselectReq = FALSE /\ lostReq = FALSE /\ hup = FALSE
  /\ mpc = "top" /\ recovering = FALSE /\ attempts = 0 /\ outcome = "none"
  /\ wpc = "off" /\ intended = TRUE
  /\ handle = "none" /\ dthread = "none" /\ running = FALSE /\ cancelled = FALSE
  /\ deviceLost = FALSE /\ full = FALSE /\ ringShut = FALSE
  /\ hw \in Hardware /\ quiet = FALSE
  /\ delivered = FALSE /\ signalled = FALSE /\ askedIdle = FALSE

BetweenRuns == mpc \in {"top", "clearShutdown", "clearLost", "setup", "after",
                        "lost", "retry", "sleep", "exit0", "exit1"}

MainGoes(from, to) == mpc = from /\ mpc' = to
WatchdogGoes(from, to) == wpc = from /\ wpc' = to

-----------------------------------------------------------------------------
(* main(): the top of the loop *)

StartOver ==
  /\ reselectReq
  /\ MainGoes("top", "clearShutdown")
  /\ reselectReq' = FALSE
  /\ UNCHANGED <<shutdownReq, lostReq, recovering, attempts, outcome, runVars,
                 envVars, ghosts>>

StartOverClearShutdown ==
  /\ MainGoes("clearShutdown", "clearLost")
  /\ shutdownReq' = FALSE
  /\ signalled' = FALSE
  /\ UNCHANGED <<reselectReq, lostReq, recovering, attempts, outcome, runVars,
                 envVars, askedIdle>>

StartOverClearLost ==
  /\ MainGoes("clearLost", "setup")
  /\ lostReq' = FALSE
  /\ recovering' = FALSE /\ attempts' = 0
  /\ UNCHANGED <<shutdownReq, reselectReq, outcome, runVars, envVars, ghosts>>

GoOn ==
  /\ ~reselectReq
  /\ MainGoes("top", "setup")
  /\ UNCHANGED <<flags, recovering, attempts, outcome, runVars, envVars, ghosts>>

-----------------------------------------------------------------------------
(* run_once() and run_async_device(): one run *)

\* A new device object and a new ring; no candidate can be opened.
SetupFails ==
  /\ hw = "absent"
  /\ MainGoes("setup", "after")
  /\ outcome' = "Failed"
  /\ handle' = "none" /\ dthread' = "none" /\ running' = FALSE
  /\ cancelled' = FALSE /\ deviceLost' = FALSE
  /\ full' = FALSE /\ ringShut' = FALSE
  /\ UNCHANGED <<flags, recovering, attempts, wpc, intended, quiet, delivered,
                 envVars, ghosts>>

SetupOpens ==
  /\ hw # "absent"
  /\ MainGoes("setup", "start")
  /\ handle' = "open" /\ dthread' = "none" /\ running' = FALSE
  /\ cancelled' = FALSE /\ deviceLost' = FALSE
  /\ full' = FALSE /\ ringShut' = FALSE
  /\ delivered' = FALSE /\ askedIdle' = FALSE
  /\ UNCHANGED <<flags, recovering, attempts, outcome, wpc, intended, quiet,
                 envVars, signalled>>

StartDevice ==
  /\ MainGoes("start", "launch")
  /\ running' = TRUE /\ dthread' = "starting"
  /\ UNCHANGED <<flags, recovering, attempts, outcome, wpc, intended, handle,
                 cancelled, deviceLost, ringVars, quiet, delivered, envVars,
                 ghosts>>

\* markAsAlive and the watchdog thread.
Launch ==
  /\ MainGoes("launch", "isRunning")
  /\ quiet' = FALSE /\ intended' = TRUE
  /\ wpc' = "loop"
  /\ UNCHANGED <<flags, recovering, attempts, outcome, devVars, ringVars,
                 delivered, envVars, ghosts>>

EnterStream ==
  /\ MainGoes("isRunning", IF running THEN "read" ELSE "close")
  /\ UNCHANGED <<flags, recovering, attempts, outcome, runVars, envVars, ghosts>>

\* The pipeline takes a block, unless a shutdown is requested; it waits in
\* the ring when there is none and the ring is not shut down.
ReadBlock ==
  /\ mpc = "read" /\ full /\ ~shutdownReq
  /\ full' = FALSE
  /\ UNCHANGED <<flags, mainVars, wpc, intended, devVars, ringShut, quiet,
                 delivered, envVars, ghosts>>

StreamEnds ==
  /\ \/ full /\ shutdownReq
     \/ ~full /\ ringShut
  /\ MainGoes("read", "close")
  /\ UNCHANGED <<flags, recovering, attempts, outcome, runVars, envVars, ghosts>>

\* close() begins with stop(): wake the reader thread, cancel it, join it.
StopShutsWriter ==
  /\ MainGoes("close", "cancel")
  /\ ringShut' = TRUE
  /\ UNCHANGED <<flags, recovering, attempts, outcome, wpc, intended, devVars,
                 full, quiet, delivered, envVars, ghosts>>

\* rtlsdr_cancel_async works on a reader that is in rtlsdr_read_async.
StopCancels ==
  /\ MainGoes("cancel", "join")
  /\ running' = FALSE
  /\ cancelled' = (dthread \in {"reading", "writing"})
  /\ UNCHANGED <<flags, recovering, attempts, outcome, wpc, intended, handle,
                 dthread, deviceLost, ringVars, quiet, delivered, envVars, ghosts>>

\* Mutant: stop() without its join.
StopWithoutJoin ==
  /\ MainGoes("join", "closeHandle")
  /\ UNCHANGED <<flags, recovering, attempts, outcome, runVars, envVars, ghosts>>

StopJoins ==
  /\ dthread = "ended"
  /\ MainGoes("join", "closeHandle")
  /\ UNCHANGED <<flags, recovering, attempts, outcome, runVars, envVars, ghosts>>

CloseHandle ==
  /\ MainGoes("closeHandle", "joinWatchdog")
  /\ handle' = "closed"
  /\ UNCHANGED <<flags, recovering, attempts, outcome, wpc, intended, dthread,
                 running, cancelled, deviceLost, ringVars, quiet, delivered,
                 envVars, ghosts>>

\* Mutant: the result is read before the watchdog is joined.
LeaveWatchdog ==
  /\ MainGoes("joinWatchdog", "result")
  /\ UNCHANGED <<flags, recovering, attempts, outcome, runVars, envVars, ghosts>>

JoinWatchdog ==
  /\ wpc = "done"
  /\ MainGoes("joinWatchdog", "result")
  /\ wpc' = "off"
  /\ UNCHANGED <<flags, recovering, attempts, outcome, intended, devVars,
                 ringVars, quiet, delivered, envVars, ghosts>>

RunResult ==
  /\ MainGoes("result", "after")
  /\ outcome' = IF lostReq THEN "DeviceLost"
                ELSE IF intended THEN "Clean" ELSE "Failed"
  /\ UNCHANGED <<flags, recovering, attempts, runVars, envVars, ghosts>>

-----------------------------------------------------------------------------
(* main(): what follows a run *)

Reselect ==
  /\ reselectReq
  /\ MainGoes("after", "top")
  /\ UNCHANGED <<flags, recovering, attempts, outcome, runVars, envVars, ghosts>>

Finish ==
  /\ ~reselectReq /\ outcome = "Clean"
  /\ MainGoes("after", "exit0")
  /\ UNCHANGED <<flags, recovering, attempts, outcome, runVars, envVars, ghosts>>

\* Mutant: the request for recovery is not cleared.
NoteLossKeepRequest ==
  /\ ~reselectReq /\ outcome = "DeviceLost"
  /\ MainGoes("after", "lost")
  /\ UNCHANGED <<flags, recovering, attempts, outcome, runVars, envVars, ghosts>>

NoteLoss ==
  /\ ~reselectReq /\ outcome = "DeviceLost"
  /\ MainGoes("after", "lost")
  /\ lostReq' = FALSE
  /\ UNCHANGED <<shutdownReq, reselectReq, recovering, attempts, outcome,
                 runVars, envVars, ghosts>>

\* Mutant: the shutdown the watchdog raised is not cleared.
BeginRecoveryKeepShutdown ==
  /\ MainGoes("lost", "retry")
  /\ recovering' = TRUE /\ attempts' = 0
  /\ UNCHANGED <<flags, outcome, runVars, envVars, ghosts>>

BeginRecovery ==
  /\ MainGoes("lost", "retry")
  /\ shutdownReq' = FALSE
  /\ signalled' = FALSE
  /\ recovering' = TRUE /\ attempts' = 0
  /\ UNCHANGED <<reselectReq, lostReq, outcome, runVars, envVars, askedIdle>>

FailedRun ==
  /\ ~reselectReq /\ outcome = "Failed"
  /\ MainGoes("after", IF recovering THEN "retry" ELSE "exit1")
  /\ UNCHANGED <<flags, recovering, attempts, outcome, runVars, envVars, ghosts>>

GiveUp ==
  /\ attempts >= MaxAttempts
  /\ MainGoes("retry", "exit1")
  /\ UNCHANGED <<flags, recovering, attempts, outcome, runVars, envVars, ghosts>>

Attempt ==
  /\ attempts < MaxAttempts
  /\ MainGoes("retry", "sleep")
  /\ attempts' = attempts + 1
  /\ UNCHANGED <<flags, recovering, outcome, runVars, envVars, ghosts>>

WakeUp ==
  /\ MainGoes("sleep",
       IF shutdownReq /\ ~reselectReq THEN "exit1" ELSE "top")
  /\ UNCHANGED <<flags, recovering, attempts, outcome, runVars, envVars, ghosts>>

MainStep ==
  \/ StartOver \/ StartOverClearShutdown \/ StartOverClearLost \/ GoOn
  \/ SetupFails \/ SetupOpens \/ StartDevice \/ Launch
  \/ EnterStream \/ ReadBlock \/ StreamEnds
  \/ StopShutsWriter \/ StopCancels \/ StopJoins \/ CloseHandle
  \/ JoinWatchdog \/ RunResult
  \/ Reselect \/ Finish \/ NoteLoss \/ BeginRecovery \/ FailedRun
  \/ GiveUp \/ Attempt \/ WakeUp

-----------------------------------------------------------------------------
(* The watchdog thread *)

mainAndEnv == <<mainVars, devVars, envVars, ghosts>>

WatchdogStops ==
  /\ shutdownReq
  /\ WatchdogGoes("loop", "done")
  /\ UNCHANGED <<flags, intended, ringVars, quiet, delivered, mainAndEnv>>

\* periodicMaintenance, with no PPM correction due or with setPpm to follow.
Maintain ==
  /\ ~shutdownReq
  /\ \/ WatchdogGoes("loop", "inspect")
     \/ handle = "open" /\ delivered /\ WatchdogGoes("loop", "tune")
  /\ UNCHANGED <<flags, intended, ringVars, quiet, delivered, mainAndEnv>>

\* rtlsdr_set_freq_correction returns.
Tuned ==
  /\ WatchdogGoes("tune", "inspect")
  /\ UNCHANGED <<flags, intended, ringVars, quiet, delivered, mainAndEnv>>

\* The device is lost: five stores, in this order.
MarkDeviceLost ==
  /\ quiet
  /\ WatchdogGoes("inspect", "lostShut")
  /\ deviceLost' = TRUE
  /\ UNCHANGED <<flags, mainVars, intended, handle, dthread, running, cancelled,
                 ringVars, quiet, delivered, envVars, ghosts>>

\* Mutant: the pipeline is not woken.
LostLeavesWriter ==
  /\ WatchdogGoes("lostShut", "lostSigint")
  /\ UNCHANGED <<flags, intended, ringVars, quiet, delivered, mainAndEnv>>

LostShutsWriter ==
  /\ WatchdogGoes("lostShut", "lostSigint")
  /\ ringShut' = TRUE
  /\ UNCHANGED <<flags, intended, full, quiet, delivered, mainAndEnv>>

LostRaisesShutdown ==
  /\ WatchdogGoes("lostSigint", "lostRequest")
  /\ shutdownReq' = TRUE
  /\ UNCHANGED <<reselectReq, lostReq, intended, ringVars, quiet, delivered,
                 mainAndEnv>>

LostAsksRecovery ==
  /\ WatchdogGoes("lostRequest", "done")
  /\ lostReq' = TRUE
  /\ intended' = FALSE
  /\ UNCHANGED <<shutdownReq, reselectReq, ringVars, quiet, delivered, mainAndEnv>>

\* Nothing to complain about, or one drop too many in the last minute.
DropsTolerated ==
  /\ ~quiet
  /\ WatchdogGoes("inspect", "loop")
  /\ UNCHANGED <<flags, intended, ringVars, quiet, delivered, mainAndEnv>>

TooManyDrops ==
  /\ ~quiet /\ delivered
  /\ WatchdogGoes("inspect", "dropSigint")
  /\ intended' = FALSE
  /\ ringShut' = TRUE
  /\ UNCHANGED <<flags, full, quiet, delivered, mainAndEnv>>

DropRaisesShutdown ==
  /\ WatchdogGoes("dropSigint", "loop")
  /\ shutdownReq' = TRUE
  /\ UNCHANGED <<reselectReq, lostReq, intended, ringVars, quiet, delivered,
                 mainAndEnv>>

WatchdogStep ==
  \/ WatchdogStops \/ Maintain \/ Tuned \/ MarkDeviceLost \/ LostShutsWriter
  \/ LostRaisesShutdown \/ LostAsksRecovery \/ DropsTolerated
  \/ TooManyDrops \/ DropRaisesShutdown

-----------------------------------------------------------------------------
(* The reader thread of the device *)

notDevice == <<flags, mainVars, wpc, intended, envVars, ghosts>>

ReaderStarts ==
  /\ dthread = "starting"
  /\ dthread' = "reading"
  /\ UNCHANGED <<handle, running, cancelled, deviceLost, ringVars, quiet,
                 delivered, notDevice>>

\* callback(): a transfer with samples arrives.
Deliver ==
  /\ dthread = "reading" /\ hw = "good" /\ running
  /\ quiet' = FALSE /\ delivered' = TRUE
  /\ dthread' = "writing"
  /\ UNCHANGED <<handle, running, cancelled, deviceLost, ringVars, notDevice>>

\* write(): the block goes into the ring, or is dropped after its shutdown.
WriterReturns ==
  /\ dthread = "writing"
  /\ ~full \/ ringShut
  /\ full' = TRUE
  /\ dthread' = "reading"
  /\ UNCHANGED <<handle, running, cancelled, deviceLost, ringShut, quiet,
                 delivered, notDevice>>

\* rtlsdr_read_async returns, because it was cancelled or the device is gone.
ReaderEnds ==
  /\ dthread = "reading"
  /\ cancelled \/ hw = "absent"
  /\ dthread' = "ended"
  /\ running' = FALSE
  /\ UNCHANGED <<handle, cancelled, deviceLost, ringVars, quiet, delivered,
                 notDevice>>

\* A second passes without markAsAlive.
FallQuiet ==
  /\ wpc # "off" /\ ~quiet
  /\ \/ dthread = "reading" /\ (hw # "good" \/ ~running)
     \/ dthread = "ended"
     \/ dthread = "writing" /\ Stalls
  /\ wpc \in {"tune", "inspect"} => Stalls
  /\ quiet' = TRUE
  /\ UNCHANGED <<devVars, ringVars, delivered, notDevice>>

DeviceStep == ReaderStarts \/ Deliver \/ WriterReturns \/ ReaderEnds

-----------------------------------------------------------------------------
(* Signals and the hardware *)

Exited == mpc \in {"exit0", "exit1"}

Sigint ==
  /\ "INT" \in Signals /\ ~Exited
  /\ shutdownReq' = TRUE
  /\ signalled' = TRUE
  /\ askedIdle' = (askedIdle \/ BetweenRuns)
  /\ UNCHANGED <<reselectReq, lostReq, mainVars, runVars, envVars>>

\* handle_sighup may run on any thread: its two stores are two steps.
SighupReselect ==
  /\ "HUP" \in Signals /\ ~hup /\ ~Exited
  /\ reselectReq' = TRUE
  /\ hup' = TRUE
  /\ UNCHANGED <<shutdownReq, lostReq, mainVars, runVars, hw, ghosts>>

SighupShutdown ==
  /\ hup
  /\ shutdownReq' = TRUE
  /\ signalled' = TRUE
  /\ hup' = FALSE
  /\ UNCHANGED <<reselectReq, lostReq, mainVars, runVars, hw, askedIdle>>

Replug ==
  /\ ~Exited
  /\ hw' \in Hardware \ {hw}
  /\ UNCHANGED <<flags, mainVars, runVars, hup, ghosts>>

-----------------------------------------------------------------------------
Next == \/ MainStep \/ WatchdogStep \/ DeviceStep \/ FallQuiet
        \/ Sigint \/ SighupReselect \/ SighupShutdown \/ Replug

SafeSpec == Init /\ [][Next]_vars

\* The threads are scheduled, a begun signal handler returns, and time
\* passes.  Nobody has to send a signal or to plug the device.  Whether
\* there are too many drops is the host's choice, never forced.
Fairness ==
  /\ WF_vars(MainStep)
  /\ WF_vars(WatchdogStep)
  /\ WF_vars(DeviceStep)
  /\ WF_vars(FallQuiet)
  /\ WF_vars(SighupShutdown)

Spec == SafeSpec /\ Fairness

-----------------------------------------------------------------------------
(* Correctness *)

InRun == mpc \in {"start", "launch", "isRunning", "read", "close", "cancel",
                  "join", "closeHandle", "joinWatchdog", "result"}

TypeOK ==
  /\ shutdownReq \in BOOLEAN /\ reselectReq \in BOOLEAN /\ lostReq \in BOOLEAN
  /\ hup \in BOOLEAN
  /\ BetweenRuns \/ InRun
  /\ recovering \in BOOLEAN /\ attempts \in 0..MaxAttempts
  /\ outcome \in {"none", "Clean", "DeviceLost", "Failed"}
  /\ wpc \in {"off", "loop", "tune", "inspect", "lostShut", "lostSigint",
              "lostRequest", "dropSigint", "done"}
  /\ intended \in BOOLEAN
  /\ handle \in {"none", "open", "closed"}
  /\ dthread \in {"none", "starting", "reading", "writing", "ended"}
  /\ running \in BOOLEAN /\ cancelled \in BOOLEAN /\ deviceLost \in BOOLEAN
  /\ full \in BOOLEAN /\ ringShut \in BOOLEAN
  /\ hw \in Hardware /\ quiet \in BOOLEAN /\ delivered \in BOOLEAN
  /\ signalled \in BOOLEAN /\ askedIdle \in BOOLEAN

\* Between two runs nothing of the last one is left: no watchdog, no reader
\* thread and no open handle that the next open would find in use.
NothingLeftBehind ==
  BetweenRuns => wpc = "off" /\ dthread \in {"none", "ended"} /\ handle # "open"

\* The handle is never closed under the reader thread.
ReaderGoneBeforeClose ==
  handle = "closed" => dthread = "ended"

\* The supervisor learns of a loss exactly when the watchdog of that very run
\* declared one: the loss is neither taken for a clean end, which would exit
\* with success, nor carried over into a later run.
LossReported ==
  mpc = "after" => (outcome = "DeviceLost" <=> deviceLost)

\* A run begins with a shutdown request only if a signal asked for it: the
\* request the watchdog used to end the last run never ends the next one.
NoStaleStop ==
  mpc = "setup" => ~lostReq /\ (shutdownReq => signalled)

\* The process ends with success only when it was told to stop, and not
\* because the device was lost or the host could not keep up.
SuccessMeansAsked ==
  mpc = "exit0" => signalled /\ intended /\ ~deviceLost

\* The end of a run is told once, by that run: its loss reaches main and no
\* later run, its request to stop is gone before the next one, and neither
\* passes for success (main.cpp:374-404, MainInstance.hpp:256-262).
EndToldOnce == LossReported /\ NoStaleStop /\ SuccessMeansAsked

\* A device that stops delivering ends the run, whatever the pipeline waits
\* for: the watchdog notices and wakes it.  (A signal may send the watchdog
\* away first, see SighupStopsRun.)
SilenceEndsRun ==
  mpc = "read" /\ hw # "good" ~> mpc # "read" \/ hw = "good" \/ signalled

\* The process gives up on a device that stays unplugged.
GivesUp == hw = "absent" ~> Exited \/ hw # "absent" \/ signalled

\* A lost device that is back before the attempts are spent streams again,
\* whether the last attempt lost it once more or did not find it.
Recovers ==
  mpc = "sleep" /\ (outcome = "DeviceLost" \/ handle = "none") /\ hw = "good"
    ~> (mpc = "read" /\ delivered) \/ hw # "good" \/ signalled

\* With a device that delivers, a SIGINT ends the process, also one that
\* comes while a run is being set up, while it is ending by itself or while a
\* loss is being dealt with, unless the recovery from that loss erases it
\* (see NoSignalLost).
SigintStops ==
  signalled /\ hw = "good" /\ dthread # "ended"
    ~> Exited \/ hw # "good" \/ ~signalled

\* However it goes, it goes on: a device that stays away ends the process, one
\* that is back streams again, and a SIGINT is obeyed (main.cpp:364-413).
ComesToAnEnd == GivesUp /\ Recovers /\ SigintStops

-----------------------------------------------------------------------------
(* What the documents say and the code does not do *)

\* README: SIGHUP stops the current run, so that a newly attached dongle is
\* picked up.
SighupStopsRun == mpc = "read" /\ reselectReq /\ shutdownReq ~> mpc # "read"

\* A comment in main(): a signal between two runs is never lost.
NoSignalLost == mpc = "setup" /\ askedIdle => shutdownReq

\* README: a device that stops delivering samples is re-selected up to 10
\* times, then stream1090 gives up and exits.
BoundedRetries == hw # "good" ~> Exited \/ hw = "good"

\* A comment in RtlSdrDevice: every tuner access is serialised, which the
\* deinitialisation in rtlsdr_close is not.
TunerSerialised == wpc = "tune" => handle = "open"
=============================================================================
