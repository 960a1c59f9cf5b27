---------------------------- MODULE RtlsdrAsync ----------------------------
(***************************************************************************)
(* The asynchronous reader of the vendored librtlsdr and how RtlSdrDevice   *)
(* ends it.  The device thread keeps a set of USB transfers in flight       *)
(* (rtlsdr_read_async); libusb calls back for each one that ended, which    *)
(* hands the samples on and submits it again.  The main thread cancels      *)
(* (rtlsdr_cancel_async), joins the device thread and closes the device     *)
(* (rtlsdr_close), which waits for async_status unless the device is lost.  *)
(*                                                                          *)
(* libusb is external.  A transfer is idle, in flight, or has ended and     *)
(* waits for its callback.  On a prompt host, as with usbfs, a cancelled    *)
(* transfer has ended when the call returns, and the transfers of a device  *)
(* that is gone end at once; elsewhere, as libusb documents it, the former  *)
(* end later and the latter may not end at all.  No transfer is cancelled   *)
(* twice.                                                                   *)
(***************************************************************************)
EXTENDS Integers, FiniteSets

CONSTANTS Xfers,   \* 1..xfer_buf_num
          Hosts,   \* the hosts to look at: prompt, TRUE, or not
          IdleProbe, \* 2: wakeups without samples before the device is asked
          MaxErrors  \* bound: transfers that fail on a device that is there

ASSUME AsyncAssumption ==
  /\ Xfers = 1..Cardinality(Xfers) /\ IsFiniteSet(Xfers) /\ Xfers # {}
  /\ Hosts \subseteq BOOLEAN /\ IdleProbe \in Nat \ {0} /\ MaxErrors \in Nat

VARIABLES
  prompt,   \* the host is a prompt one
  xfer,     \* where each transfer is, what libusb holds for it, its last status
  status,   \* async_status
  cancel,   \* async_cancel
  reader,   \* where the device thread is in rtlsdr_read_async
  sweep,    \* the next transfer to cancel, and next_status
  due,      \* the ended transfers a call of libusb is about to hand back
  errors,   \* xfer_errors
  heard,    \* xfer_completed, as whether it is 0
  idle,     \* idle_wakeups
  lost,     \* dev_lost
  present,  \* the dongle is plugged in
  host,     \* where the main thread is
  asked,    \* history: rtlsdr_cancel_async did something
  broken,   \* history: libusb_handle_events failed
  failuresOnBus \* bound

deviceVars == <<xfer, status, cancel, errors, heard, lost>>
threadVars == <<reader, sweep, due, idle>>
asyncVars == <<prompt, deviceVars, threadVars, present, host, asked, broken, failuresOnBus>>

NewTransfer == [at |-> "idle", result |-> "none", status |-> "completed", cancelling |-> FALSE]

InitAsync ==
  /\ prompt \in Hosts
  /\ xfer = [t \in Xfers |-> NewTransfer]
  /\ status = "inactive" /\ cancel = FALSE /\ reader = "begin"
  /\ sweep = [next |-> 1, status |-> "inactive"] /\ due = {}
  /\ errors = 0 /\ heard = FALSE /\ idle = 0 /\ lost = FALSE /\ present = TRUE
  /\ host = "streaming" /\ asked = FALSE /\ broken = FALSE /\ failuresOnBus = 0

-----------------------------------------------------------------------------
(* The bus *)

Ended == {t \in Xfers : xfer[t].at = "ended"}
InFlight == {t \in Xfers : xfer[t].at = "flight"}

End(x, result) == [x EXCEPT !.at = "ended", !.result = result]

BusEnds ==
  /\ present /\ reader # "freed"
  /\ \E t \in {u \in InFlight : ~xfer[u].cancelling} :
       \/ xfer' = [xfer EXCEPT ![t] = End(@, "completed")] /\ UNCHANGED failuresOnBus
       \/ /\ failuresOnBus < MaxErrors /\ failuresOnBus' = failuresOnBus + 1
          /\ xfer' = [xfer EXCEPT ![t] = End(@, "error")]
  /\ UNCHANGED <<status, cancel, errors, heard, lost, threadVars, prompt, present, host, asked, broken>>

\* A cancelled transfer ends, where that takes time.
EndLate ==
  /\ ~prompt /\ reader # "freed"
  /\ \E t \in InFlight : xfer[t].cancelling /\ xfer' = [xfer EXCEPT ![t] = End(@, "cancelled")]
  /\ UNCHANGED <<status, cancel, errors, heard, lost, threadVars, prompt, present, host, asked, broken,
                 failuresOnBus>>

\* usbfs gives every transfer of a device that is gone back.
Unplug ==
  /\ present /\ present' = FALSE
  /\ xfer' = [t \in Xfers |-> IF t \in InFlight /\ prompt THEN End(xfer[t], "nodevice") ELSE xfer[t]]
  /\ UNCHANGED <<status, cancel, errors, heard, lost, threadVars, prompt, host, asked, broken, failuresOnBus>>

-----------------------------------------------------------------------------
(* The callback, _libusb_callback *)

\* rtlsdr_cancel_async, from whichever thread.
CancelAsync ==
  IF status = "running" THEN status' = "canceling" /\ cancel' = TRUE
  ELSE UNCHANGED <<status, cancel>>

Submitted(x) == [x EXCEPT !.at = "flight", !.cancelling = FALSE]
Retired(x) == [x EXCEPT !.at = "idle", !.status = x.result]

Completed(t) ==
  /\ xfer[t].result = "completed"
  /\ xfer' = [xfer EXCEPT ![t] = IF present THEN Submitted(Retired(@)) ELSE Retired(@)]
  /\ errors' = 0 /\ heard' = TRUE
  /\ UNCHANGED <<status, cancel, lost>>

Cancelled(t) ==
  /\ xfer[t].result = "cancelled"
  /\ xfer' = [xfer EXCEPT ![t] = Retired(@)]
  /\ UNCHANGED <<status, cancel, errors, heard, lost>>

\* A transfer that failed is not submitted again.
FailedTransfer(t) ==
  /\ xfer[t].result \in {"error", "nodevice"}
  /\ xfer' = [xfer EXCEPT ![t] = Retired(@)]
  /\ errors' = IF xfer[t].result = "error" THEN errors + 1 ELSE errors
  /\ IF errors' >= Cardinality(Xfers) \/ xfer[t].result = "nodevice"
     THEN lost' = TRUE /\ CancelAsync
     ELSE UNCHANGED <<lost, status, cancel>>
  /\ UNCHANGED heard

Callback(t) == Completed(t) \/ Cancelled(t) \/ FailedTransfer(t)

-----------------------------------------------------------------------------
(* The device thread, rtlsdr_read_async *)

hostVars == <<prompt, present, host, asked, broken, failuresOnBus>>

Begin ==
  /\ reader = "begin" /\ reader' = "clear"
  /\ status' = "running"
  /\ UNCHANGED <<xfer, cancel, errors, heard, lost, sweep, due, idle, hostVars>>

ClearCancel ==
  /\ reader = "clear" /\ reader' = "submit"
  /\ cancel' = FALSE
  /\ UNCHANGED <<xfer, status, errors, heard, lost, sweep, due, idle, hostVars>>

SubmitAll ==
  /\ reader = "submit" /\ reader' = "events"
  /\ \E n \in 0..Cardinality(Xfers) :
       /\ ~present => n = 0
       /\ xfer' = [t \in Xfers |-> IF t <= n THEN Submitted(xfer[t]) ELSE xfer[t]]
       /\ status' = IF n < Cardinality(Xfers) THEN "canceling" ELSE status
  /\ UNCHANGED <<cancel, errors, heard, lost, sweep, due, idle, hostVars>>

\* libusb looks at async_cancel first and then hands back what has ended, or
\* nothing when its second is over.
HandleEvents ==
  /\ reader = "events" /\ reader' = "handling"
  /\ due' \in IF cancel THEN {{}} ELSE SUBSET Ended
  /\ UNCHANGED <<deviceVars, sweep, idle, hostVars>>

\* handle_events fails: the loop is left at once.
EventsFail ==
  /\ reader = "events" /\ reader' = "free" /\ broken' = TRUE
  /\ UNCHANGED <<deviceVars, sweep, due, idle, prompt, present, host, asked, failuresOnBus>>

HandBack ==
  /\ reader \in {"handling", "flushing", "draining"}
  /\ \E t \in due : Callback(t) /\ due' = due \ {t}
  /\ UNCHANGED <<reader, sweep, idle, hostVars>>

StartSweep == [next |-> 1, status |-> "inactive"]

IdleWakeups == IF heard THEN 0 ELSE idle + 1

\* After some wakeups in a row without samples the device is asked.
CheckIdle ==
  /\ reader = "handling" /\ due = {}
  /\ reader' = "decide" /\ UNCHANGED <<sweep, due, hostVars, xfer, errors>>
  /\ LET asks == IdleWakeups >= IdleProbe
     IN  IF status = "running"
         THEN /\ heard' = FALSE /\ idle' = IF asks THEN 0 ELSE IdleWakeups
              /\ IF asks /\ ~present THEN lost' = TRUE /\ CancelAsync
                 ELSE UNCHANGED <<lost, status, cancel>>
         ELSE UNCHANGED <<heard, idle, lost, status, cancel>>

Decide ==
  /\ reader = "decide"
  /\ IF status = "canceling" THEN reader' = "sweep" /\ sweep' = StartSweep
     ELSE reader' = "events" /\ UNCHANGED sweep
  /\ UNCHANGED <<deviceVars, due, idle, hostVars>>

\* libusb_cancel_transfer; "refused" is its negative answer.  What has
\* ended already may be refused; usbfs hands it back as cancelled all the same.
Refuses(x) == x.at = "idle" \/ x.cancelling
Cancel(x) ==
  CASE Refuses(x) -> {[x |-> x, refused |-> TRUE]}
    [] ~Refuses(x) /\ x.at = "flight" ->
         {[x |-> IF prompt THEN End(x, "cancelled") ELSE [x EXCEPT !.cancelling = TRUE],
           refused |-> FALSE]}
    [] ~Refuses(x) /\ x.at = "ended" ->
         {[x |-> End(x, IF refused /\ ~prompt THEN x.result ELSE "cancelled"),
           refused |-> refused] : refused \in BOOLEAN}

\* Mutant: what cannot be cancelled is waited for.
NextStatusPending(outcome) == "canceling"

\* A transfer that could be cancelled is waited for.
NextStatus(outcome) == IF outcome.refused THEN sweep.status ELSE "canceling"

\* One round of the loop over the transfers: cancel, then let libusb hand back
\* what has ended.
CancelOne ==
  /\ reader = "sweep" /\ sweep.next <= Cardinality(Xfers)
  /\ LET t == sweep.next
     IN  IF xfer[t].status = "cancelled"
         THEN /\ sweep' = [sweep EXCEPT !.next = t + 1]
              /\ UNCHANGED <<xfer, reader, due>>
         ELSE \E outcome \in Cancel(xfer[t]) :
                /\ xfer' = [xfer EXCEPT ![t] = outcome.x]
                /\ sweep' = [next |-> t + 1, status |-> NextStatus(outcome)]
                /\ reader' = "flushing"
                /\ due' = {u \in Xfers : xfer'[u].at = "ended"}
  /\ UNCHANGED <<status, cancel, errors, heard, lost, idle, hostVars>>

Flushed ==
  /\ reader = "flushing" /\ due = {} /\ reader' = "sweep"
  /\ UNCHANGED <<deviceVars, sweep, due, idle, hostVars>>

\* Mutant: the sweep leaves the last transfer out.
SweptButLast == reader = "sweep" /\ sweep.next >= Cardinality(Xfers)

Swept == reader = "sweep" /\ sweep.next > Cardinality(Xfers)

EndSweep ==
  /\ Swept
  /\ IF lost \/ sweep.status = "inactive"
     THEN reader' = "draining" /\ due' = Ended
     ELSE reader' = "events" /\ due' = {}
  /\ UNCHANGED <<deviceVars, sweep, idle, hostVars>>

Drained ==
  /\ reader = "draining" /\ due = {} /\ reader' = "free"
  /\ UNCHANGED <<deviceVars, sweep, due, idle, hostVars>>

\* The buffers and the transfers are freed, then the status is set.
FreeBuffers ==
  /\ reader = "free" /\ reader' = "freed"
  /\ status' = sweep.status
  /\ UNCHANGED <<xfer, cancel, errors, heard, lost, sweep, due, idle, hostVars>>

ReadAsync ==
  \/ Begin \/ ClearCancel \/ SubmitAll \/ HandleEvents \/ HandBack \/ CheckIdle \/ Decide
  \/ CancelOne \/ Flushed \/ EndSweep \/ Drained \/ FreeBuffers

-----------------------------------------------------------------------------
(* The main thread, RtlSdrDevice::stop and close *)

Stop ==
  /\ host = "streaming" /\ host' = "joining"
  /\ asked' = (status = "running")
  /\ CancelAsync
  /\ UNCHANGED <<xfer, errors, heard, lost, threadVars, prompt, present, broken, failuresOnBus>>

Join ==
  /\ host = "joining" /\ reader = "freed" /\ host' = "probing"
  /\ UNCHANGED <<deviceVars, threadVars, prompt, present, asked, broken, failuresOnBus>>

\* rtlsdr_mark_dev_lost by the watchdog's word, or the device is asked.
Probe ==
  /\ host = "probing" /\ host' = "waiting"
  /\ lost' \in {lost \/ ~present, TRUE}
  /\ UNCHANGED <<xfer, status, cancel, errors, heard, threadVars, prompt, present, asked, broken,
                 failuresOnBus>>

CloseDevice ==
  /\ host = "waiting" /\ (lost \/ status = "inactive")
  /\ host' = "closed"
  /\ UNCHANGED <<deviceVars, threadVars, prompt, present, asked, broken, failuresOnBus>>

Host == Stop \/ Join \/ Probe \/ CloseDevice

NextAsync == BusEnds \/ EndLate \/ Unplug \/ EventsFail \/ ReadAsync \/ Host

-----------------------------------------------------------------------------
(* Properties *)

AtRest == \A t \in Xfers : xfer[t].at = "idle"

\* No transfer is freed that libusb still holds: on a prompt host the reader
\* gives its buffers back only when every transfer is at rest, whoever ended
\* it, unless libusb itself failed.
FreedAtRest == prompt /\ reader = "freed" /\ ~broken => AtRest

\* Not so: librtlsdr.c:2144-2146 says that the last call handles the events of the
\* transfers just cancelled, of every host.
FreedAtRestAnyway == reader = "freed" /\ ~broken => AtRest

\* A cancellation that found the stream running ends the reader, and the
\* device is closed; it does not hang in the join or in rtlsdr_close.
CancelEnds == asked ~> (host = "closed" \/ broken)

\* The reader of a device that is gone ends by itself, also when no transfer
\* is left to report it (librtlsdr.c:2098-2103).
LossEndsStream == ~present ~> (reader = "freed")

\* A stream that is to end does: cancelled while it runs, or with its device
\* gone (librtlsdr.c:2088-2174).
StreamEnds == CancelEnds /\ LossEndsStream
=============================================================================
