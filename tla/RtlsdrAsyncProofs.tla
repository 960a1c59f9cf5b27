-------------------------- MODULE RtlsdrAsyncProofs --------------------------
(***************************************************************************)
(* For every number of transfers, both kinds of hosts and every number of   *)
(* errors: on a prompt host no transfer is freed that libusb still holds,   *)
(* in whatever order transfers end, fail, are handed back and cancelled.    *)
(* And for every set of dongles, corrections and failing transactions: a    *)
(* dongle is open as it was asked for or nothing of it is held.             *)
(***************************************************************************)
EXTENDS RtlsdrAsync, DongleOpen, FiniteSetTheorems, TLAPS

\* The safety part of what MCRtlSdr runs of this module.
SpecAsync == InitAsync /\ [][NextAsync]_asyncVars

-----------------------------------------------------------------------------
(* The inductive invariant *)

Result == {"none", "completed", "error", "nodevice", "cancelled"}
Transfer == [at : {"idle", "flight", "ended"}, result : Result, status : Result,
             cancelling : BOOLEAN]

TypeInv ==
  /\ xfer \in [Xfers -> Transfer]
  /\ sweep \in [next : Nat \ {0}, status : {"inactive", "canceling"}]
  /\ reader \in {"begin", "clear", "submit", "events", "handling", "decide", "sweep",
                 "flushing", "draining", "free", "freed"}

\* Nothing is submitted before the device thread does so, and then once; what
\* was handed back as cancelled is not submitted again.
SubmitInv ==
  /\ reader \in {"begin", "clear", "submit"} => \A t \in Xfers : xfer[t] = NewTransfer
  /\ \A t \in Xfers : xfer[t].status = "cancelled" => xfer[t].at = "idle"
  /\ due \subseteq Ended
  /\ reader \notin {"handling", "flushing", "draining"} => due = {}

\* What the sweep has passed is at rest, or about to be handed back as
\* cancelled; so is everything when it has passed all.
SweptInv ==
  /\ \A t \in Xfers : ~xfer[t].cancelling
  /\ reader = "sweep" => \A t \in Xfers : t < sweep.next => xfer[t].at = "idle"
  /\ reader = "flushing" =>
       \A t \in Xfers : t < sweep.next =>
         xfer[t].at = "idle" \/ (t \in due /\ xfer[t].result = "cancelled")
  /\ reader \in {"draining", "free", "freed"} /\ ~broken => AtRest

IInv == TypeInv /\ SubmitInv /\ (prompt => SweptInv)

-----------------------------------------------------------------------------
(* What becomes of one transfer *)

\* A transfer that ends, is submitted, or is handed back.
LEMMA Outcomes ==
  ASSUME NEW x \in Transfer, NEW r \in Result
  PROVE  /\ End(x, r) \in Transfer /\ End(x, r).at = "ended" /\ End(x, r).result = r
         /\ End(x, r).status = x.status /\ End(x, r).cancelling = x.cancelling
         /\ Submitted(x) \in Transfer /\ Submitted(x).at = "flight"
         /\ Submitted(x).status = x.status /\ ~Submitted(x).cancelling
         /\ Retired(x) \in Transfer /\ Retired(x).at = "idle"
         /\ Retired(x).status = x.result /\ Retired(x).cancelling = x.cancelling
BY DEF End, Submitted, Retired, Transfer, Result

\* What one call of libusb_cancel_transfer makes of it.
LEMMA CancelOutcome ==
  ASSUME NEW x \in Transfer, x.status # "cancelled", NEW outcome \in Cancel(x)
  PROVE  /\ outcome.x \in Transfer /\ outcome.x.status # "cancelled"
         /\ prompt /\ ~x.cancelling =>
              /\ ~outcome.x.cancelling
              /\ outcome.x.at = "idle"
                   \/ (outcome.x.at = "ended" /\ outcome.x.result = "cancelled")
<1>1. CASE Refuses(x)
  <2>1. outcome.x = x
    BY <1>1 DEF Cancel
  <2> QED BY <1>1, <2>1 DEF Refuses
<1>2. CASE ~Refuses(x) /\ x.at = "flight"
  <2>1. outcome.x = IF prompt THEN End(x, "cancelled") ELSE [x EXCEPT !.cancelling = TRUE]
    BY <1>2 DEF Cancel
  <2>2. [x EXCEPT !.cancelling = TRUE] \in Transfer
          /\ [x EXCEPT !.cancelling = TRUE].status = x.status
    BY DEF Transfer
  <2> QED BY <2>1, <2>2, Outcomes DEF Result
<1>3. CASE ~Refuses(x) /\ x.at = "ended"
  <2>1. PICK refused \in BOOLEAN :
          outcome.x = End(x, IF refused /\ ~prompt THEN x.result ELSE "cancelled")
    BY <1>3 DEF Cancel
  <2>2. x.result \in Result
    BY DEF Transfer
  <2> QED BY <2>1, <2>2, Outcomes DEF Result
<1> QED BY <1>1, <1>2, <1>3 DEF Transfer, Refuses

-----------------------------------------------------------------------------
(* Every step keeps the invariant *)

\* The transfers are numbered.
LEMMA Numbered ==
  /\ Cardinality(Xfers) \in Nat \ {0} /\ Xfers \subseteq Nat \ {0}
  /\ \A t \in Nat \ {0} : t \in Xfers <=> t <= Cardinality(Xfers)
<1>1. Cardinality(Xfers) \in Nat /\ Xfers # {} /\ Xfers = 1..Cardinality(Xfers)
  BY AsyncAssumption, FS_CardinalityType
<1> QED BY <1>1

\* The device is open and nothing submitted.
LEMMA AsyncInit == InitAsync => IInv
BY DEF InitAsync, IInv, TypeInv, SubmitInv, SweptInv, NewTransfer,
   Transfer, Result, Ended, AtRest

\* The bus ends one transfer that is in flight.
LEMMA OneEnds ==
  ASSUME IInv, NEW t \in Xfers, xfer[t].at = "flight", NEW r \in Result,
         xfer' = [xfer EXCEPT ![t] = End(@, r)],
         UNCHANGED <<sweep, reader, due, prompt, broken>>
  PROVE  IInv'
<1> USE DEF IInv, TypeInv, SubmitInv, SweptInv, AtRest, Ended
<1>1. /\ xfer' \in [Xfers -> Transfer] /\ xfer'[t] = End(xfer[t], r)
      /\ \A u \in Xfers : u # t => xfer'[u] = xfer[u]
  BY Outcomes
<1>2. /\ xfer'[t].at = "ended" /\ xfer'[t].status = xfer[t].status
      /\ xfer'[t].cancelling = xfer[t].cancelling
  BY <1>1, Outcomes
<1>3. TypeInv'
  BY <1>1
<1>4. SubmitInv'
  <2>1. reader \notin {"begin", "clear", "submit"}
    BY DEF NewTransfer
  <2> QED BY <1>1, <1>2, <2>1
<1>5. prompt => SweptInv'
  BY <1>1, <1>2
<1> QED BY <1>3, <1>4, <1>5

\* One ended transfer is handed back.
LEMMA HandBackInv == IInv /\ HandBack => IInv'
<1> SUFFICES ASSUME IInv, HandBack PROVE IInv'
  OBVIOUS
<1> USE DEF IInv, TypeInv, SubmitInv, SweptInv, AtRest, Ended, hostVars
<1>1. PICK t \in due : Callback(t) /\ due' = due \ {t}
  BY DEF HandBack
<1>2. /\ reader \in {"handling", "flushing", "draining"}
      /\ UNCHANGED <<reader, sweep, prompt, broken>>
  BY DEF HandBack
<1>3. t \in Xfers /\ xfer[t] \in Transfer /\ xfer[t].at = "ended"
  BY <1>1
<1>4. PICK y \in {Retired(xfer[t]), Submitted(Retired(xfer[t]))} :
        /\ xfer' = [xfer EXCEPT ![t] = y]
        /\ xfer[t].result # "completed" => y = Retired(xfer[t])
  BY <1>1, <1>3 DEF Callback, Completed, Cancelled, FailedTransfer
<1>5. /\ Retired(xfer[t]) \in Transfer /\ Retired(xfer[t]).at = "idle"
      /\ Retired(xfer[t]).status = xfer[t].result
      /\ Retired(xfer[t]).cancelling = xfer[t].cancelling
  BY <1>3, Outcomes DEF Result
<1>6. /\ y \in Transfer /\ y.status = xfer[t].result
      /\ ~xfer[t].cancelling => ~y.cancelling
      /\ xfer[t].result # "completed" => y.at = "idle"
  BY <1>4, <1>5, Outcomes DEF Result
<1>7. /\ xfer' \in [Xfers -> Transfer] /\ xfer'[t] = y
      /\ \A u \in Xfers : u # t => xfer'[u] = xfer[u]
  BY <1>3, <1>4, <1>6
<1>8. TypeInv'
  BY <1>2, <1>7
<1>9. SubmitInv'
  BY <1>1, <1>2, <1>6, <1>7
<1>10. prompt => SweptInv'
  BY <1>1, <1>2, <1>3, <1>6, <1>7
<1> QED BY <1>2, <1>8, <1>9, <1>10

\* One round of the sweep.
LEMMA CancelOneInv == IInv /\ CancelOne => IInv'
<1> SUFFICES ASSUME IInv, CancelOne PROVE IInv'
  OBVIOUS
<1> USE DEF IInv, TypeInv, SubmitInv, SweptInv, AtRest, Ended, hostVars
<1> DEFINE t == sweep.next
<1>1. /\ t \in Xfers /\ xfer[t] \in Transfer /\ reader = "sweep" /\ due = {}
      /\ UNCHANGED <<prompt, broken>>
  BY Numbered DEF CancelOne
<1>2. CASE xfer[t].status = "cancelled"
  <2>1. /\ sweep' = [sweep EXCEPT !.next = t + 1]
        /\ UNCHANGED <<xfer, reader, due>>
    BY <1>2 DEF CancelOne
  <2>2. sweep'.next = t + 1 /\ TypeInv'
    BY <1>1, <2>1
  <2> QED BY <1>1, <1>2, <2>1, <2>2, Numbered
<1>3. CASE xfer[t].status # "cancelled"
  <2>1. PICK outcome \in Cancel(xfer[t]) :
          /\ xfer' = [xfer EXCEPT ![t] = outcome.x]
          /\ sweep' = [next |-> t + 1, status |-> NextStatus(outcome)]
          /\ reader' = "flushing" /\ due' = {u \in Xfers : xfer'[u].at = "ended"}
    BY <1>1, <1>3 DEF CancelOne
  <2>2. /\ outcome.x \in Transfer /\ outcome.x.status # "cancelled"
        /\ prompt =>
             /\ ~outcome.x.cancelling
             /\ outcome.x.at = "idle"
                  \/ (outcome.x.at = "ended" /\ outcome.x.result = "cancelled")
    BY <1>1, <1>3, <2>1, CancelOutcome
  <2>3. /\ xfer' \in [Xfers -> Transfer] /\ xfer'[t] = outcome.x
        /\ \A u \in Xfers : u # t => xfer'[u] = xfer[u]
    BY <1>1, <2>1, <2>2
  <2>4. TypeInv'
    BY <1>1, <2>1, <2>3 DEF NextStatus
  <2>5. SubmitInv'
    BY <1>1, <2>1, <2>2, <2>3
  <2>6. prompt => SweptInv'
    BY <1>1, <2>1, <2>2, <2>3, Numbered
  <2> QED BY <1>1, <2>4, <2>5, <2>6
<1> QED BY <1>2, <1>3

\* Every step of the bus, the device thread and the main thread.
LEMMA AsyncNext == IInv /\ [NextAsync]_asyncVars => IInv'
<1> SUFFICES ASSUME IInv, [NextAsync]_asyncVars PROVE IInv'
  OBVIOUS
<1> USE DEF IInv, TypeInv, SubmitInv, SweptInv, AtRest, Ended, InFlight, hostVars,
        threadVars, deviceVars
<1>1. CASE BusEnds
  BY <1>1, OneEnds DEF BusEnds, Result
<1>2. CASE EndLate
  BY <1>2, OneEnds DEF EndLate, Result
<1>3. CASE Unplug
  <2>1. \A t \in Xfers : xfer[t].at = "flight" =>
          /\ End(xfer[t], "nodevice") \in Transfer /\ End(xfer[t], "nodevice").at = "ended"
          /\ End(xfer[t], "nodevice").status = xfer[t].status
          /\ End(xfer[t], "nodevice").cancelling = xfer[t].cancelling
    BY Outcomes DEF Result
  <2>2. /\ xfer' \in [Xfers -> Transfer]
        /\ \A t \in Xfers :
             \/ xfer'[t] = xfer[t]
             \/ /\ xfer[t].at = "flight" /\ xfer'[t].at = "ended"
                /\ xfer'[t].status = xfer[t].status
                /\ xfer'[t].cancelling = xfer[t].cancelling
    BY <1>3, <2>1 DEF Unplug
  <2>3. UNCHANGED <<sweep, reader, due, prompt, broken>>
    BY <1>3 DEF Unplug
  <2>4. SubmitInv'
    <3>1. \A t \in Xfers : xfer[t] = NewTransfer => xfer'[t] = NewTransfer
      BY <2>2 DEF NewTransfer
    <3> QED BY <2>2, <2>3, <3>1
  <2> QED BY <2>2, <2>3, <2>4
<1>4. CASE SubmitAll
  <2>1. \A t \in Xfers : /\ Submitted(xfer[t]) \in Transfer
                         /\ Submitted(xfer[t]).status = "completed"
                         /\ ~Submitted(xfer[t]).cancelling
    <3>1. \A t \in Xfers : xfer[t] = NewTransfer /\ xfer[t] \in Transfer
      BY <1>4 DEF SubmitAll
    <3> QED BY <3>1, Outcomes DEF NewTransfer, Result
  <2>2. \A t \in Xfers : xfer'[t] = Submitted(xfer[t]) \/ xfer'[t] = xfer[t]
    BY <1>4 DEF SubmitAll
  <2>3. xfer' \in [Xfers -> Transfer]
    BY <1>4, <2>1 DEF SubmitAll
  <2>4. /\ reader = "submit" /\ reader' = "events" /\ due = {}
        /\ UNCHANGED <<sweep, due, prompt, broken>>
    BY <1>4 DEF SubmitAll
  <2>5. \A t \in Xfers : xfer[t].status = "completed"
    BY <2>4 DEF NewTransfer
  <2> QED BY <2>1, <2>2, <2>3, <2>4, <2>5
<1>5. CASE HandBack
  BY <1>5, HandBackInv
<1>6. CASE CancelOne
  BY <1>6, CancelOneInv
<1>7. CASE Decide
  <2>1. StartSweep.next = 1 /\ \A t \in Xfers : ~(t < 1)
    BY Numbered DEF StartSweep
  <2>2. StartSweep \in [next : Nat \ {0}, status : {"inactive", "canceling"}]
    BY DEF StartSweep
  <2> QED BY <1>7, <2>1, <2>2 DEF Decide
<1>8. CASE EndSweep
  <2>1. /\ reader = "sweep" /\ UNCHANGED <<xfer, sweep, prompt, broken>>
        /\ \A t \in Xfers : t < sweep.next
    BY <1>8, Numbered DEF EndSweep, Swept
  <2>2. \/ reader' = "draining" /\ due' = Ended
        \/ reader' = "events" /\ due' = {}
    BY <1>8 DEF EndSweep
  <2> QED BY <2>1, <2>2
<1>9. CASE EventsFail
  BY <1>9 DEF EventsFail
<1>10. CASE Begin
  BY <1>10 DEF Begin
<1>11. CASE ClearCancel
  BY <1>11 DEF ClearCancel
<1>12. CASE HandleEvents
  BY <1>12 DEF HandleEvents
<1>13. CASE CheckIdle
  BY <1>13 DEF CheckIdle, CancelAsync
<1>14. CASE Flushed
  BY <1>14 DEF Flushed
<1>15. CASE Drained
  BY <1>15 DEF Drained
<1>16. CASE FreeBuffers
  BY <1>16 DEF FreeBuffers
<1>17. CASE Stop
  BY <1>17 DEF Stop, CancelAsync
<1>18. CASE Join
  BY <1>18 DEF Join
<1>19. CASE Probe
  BY <1>19 DEF Probe
<1>20. CASE CloseDevice
  BY <1>20 DEF CloseDevice
<1>21. CASE UNCHANGED asyncVars
  BY <1>21 DEF asyncVars
<1> QED
  BY <1>1, <1>2, <1>3, <1>4, <1>5, <1>6, <1>7, <1>8, <1>9, <1>10, <1>11, <1>12,
     <1>13, <1>14, <1>15, <1>16, <1>17, <1>18, <1>19, <1>20, <1>21
     DEF NextAsync, ReadAsync, Host

-----------------------------------------------------------------------------
(* What holds in every state *)

\* On a prompt host, and unless libusb_handle_events failed, every transfer is
\* at rest when its buffers are freed (librtlsdr.c, rtlsdr_read_async). On a
\* host that ends cancelled transfers late it is false (FreedAtRestAnyway).
THEOREM AsyncFreedAtRest == SpecAsync => []FreedAtRest
<1>1. IInv => FreedAtRest
  BY DEF IInv, SweptInv, FreedAtRest
<1> QED BY <1>1, AsyncInit, AsyncNext, PTL DEF SpecAsync

-----------------------------------------------------------------------------
(* Opening, tuning and closing a dongle *)

\* What each step of librtlsdr's calls changes, and what it keeps.
LEMMA NotedFacts ==
  ASSUME NEW d \in Handles, NEW hz \in Nat
  PROVE  /\ NoteFreq(d, hz) \in Handles
         /\ NoteFreq(d, hz) = [d EXCEPT !.freq = NoteFreq(d, hz).freq]
         /\ NoteFreq(d, hz).freq \in {0, hz} /\ (d.ok => NoteFreq(d, hz).freq = hz)
         /\ (NoteFreq(d, hz).freq # 0 => d.ok)
BY DEF NoteFreq, Handles

LEMMA ShiftedFacts ==
  ASSUME NEW d \in Handles, NEW hz \in Nat, NEW name, NEW bad
  PROVE  /\ Shifted(d, hz, name, bad) \in Handles
         /\ Shifted(d, hz, name, bad)
              = [d EXCEPT !.ddc = Shifted(d, hz, name, bad).ddc, !.ok = Shifted(d, hz, name, bad).ok]
         /\ Shifted(d, hz, name, bad).ddc \in {None, <<"direct", hz>>}
         /\ bad = {} => Shifted(d, hz, name, bad).ddc = <<"direct", hz>> /\ Shifted(d, hz, name, bad).ok
<1> DEFINE ddc == Unless(bad, {name}, <<"direct", hz>>)
           ok == name \notin bad
<1>1. ddc \in {None, <<"direct", hz>>} /\ (bad = {} => ddc = <<"direct", hz>>)
  BY DEF Unless
<1>2. ok \in BOOLEAN /\ (bad = {} => ok)
  OBVIOUS
<1>3. Shifted(d, hz, name, bad) = [d EXCEPT !.ddc = ddc, !.ok = ok]
  BY DEF Shifted
<1>4. <<"direct", hz>> \in {"if", "direct"} \X Nat
  OBVIOUS
<1> HIDE DEF ddc, ok
<1> QED BY <1>1, <1>2, <1>3, <1>4 DEF Handles

LEMMA TunedFacts ==
  ASSUME NEW d \in Handles, NEW hz \in Nat, NEW bad
  PROVE  /\ Tuned(d, hz, bad) \in Handles
         /\ Tuned(d, hz, bad) = [d EXCEPT !.at = Tuned(d, hz, bad).at, !.ok = Tuned(d, hz, bad).ok]
         /\ (bad = {} => Tuned(d, hz, bad).ok)
         /\ Tuned(d, hz, bad).ok => Tuned(d, hz, bad).at = [freq |-> hz, filter |-> d.filter, corr |-> d.corr]
<1> DEFINE set == [freq |-> hz, filter |-> d.filter, corr |-> d.corr]
           at == Unless(bad, {"tune"}, set)
           ok == "tune" \notin bad
<1>1. at \in {None, set} /\ (ok => at = set)
  BY DEF Unless
<1>2. ok \in BOOLEAN /\ (bad = {} => ok)
  OBVIOUS
<1>3. Tuned(d, hz, bad) = [d EXCEPT !.at = at, !.ok = ok]
  BY DEF Tuned
<1>4. set \in Positions
  BY DEF Positions, Handles
<1> HIDE DEF at, ok, set
<1>5. Tuned(d, hz, bad).ok = ok /\ Tuned(d, hz, bad).at = at
  BY <1>3 DEF Handles
<1>6. Tuned(d, hz, bad) \in Handles
  <2>1. at \in {None} \cup Positions
    BY <1>1, <1>4
  <2> QED BY <1>2, <1>3, <2>1 DEF Handles
<1> QED BY <1>1, <1>2, <1>3, <1>5, <1>6 DEF set

\* The modes of direct sampling agree: without a mode of its own the driver
\* samples the antenna directly where the frequency is below its limit.
ModesAgree(d, hz) ==
  d.ds_mode = 0 => d.ds = 0 \/ (d.ds = 2 /\ setup.chip = "R820T" /\ hz < DirectBelow)

\* What setting the frequency leaves as it is.
KeptByCenter == {"ds_mode", "known", "bw", "filter", "corr", "clock", "driver_active", "bias", "baseband"}

SameIn(fields, c, d) == \A f \in fields : c[f] = d[f]

LEMMA EnterFacts ==
  ASSUME NEW d \in Handles, NEW on \in 0..2, NEW bad
  PROVE  /\ EnterDirectSampling(d, on, bad) \in Handles
         /\ \A f \in KeptByCenter : EnterDirectSampling(d, on, bad)[f] = d[f]
         /\ EnterDirectSampling(d, on, bad).ds = on /\ EnterDirectSampling(d, on, bad).at = d.at
         /\ EnterDirectSampling(d, on, bad).freq \in {0, d.freq}
         /\ EnterDirectSampling(d, on, bad).ddc \in {None, <<"direct", d.freq>>}
         /\ bad = {} => /\ EnterDirectSampling(d, on, bad).freq = d.freq
                        /\ EnterDirectSampling(d, on, bad).ddc = <<"direct", d.freq>>
<1> DEFINE awake == d.known /\ "standby" \in bad
           asleep == [d EXCEPT !.ds = on, !.awake = awake]
           shifted == Shifted(asleep, d.freq, "again", bad)
           again == NoteFreq(shifted, d.freq)
           ok == again.ok /\ bad \cap {"standby", "demod"} = {}
<1>1. awake \in BOOLEAN /\ ok \in BOOLEAN
  OBVIOUS
<1>2. d.freq \in Nat
  BY DEF Handles
<1>3. EnterDirectSampling(d, on, bad) = [again EXCEPT !.ok = ok]
  BY DEF EnterDirectSampling
<1> HIDE DEF awake, ok
<1>4. asleep \in Handles /\ asleep.ds = on /\ asleep.at = d.at /\ \A f \in KeptByCenter : asleep[f] = d[f]
  BY <1>1 DEF Handles, KeptByCenter
<1> HIDE DEF asleep
<1>5. /\ shifted \in Handles /\ shifted = [asleep EXCEPT !.ddc = shifted.ddc, !.ok = shifted.ok]
      /\ shifted.ddc \in {None, <<"direct", d.freq>>}
      /\ (bad = {} => shifted.ddc = <<"direct", d.freq>> /\ shifted.ok)
  BY <1>2, <1>4, ShiftedFacts
<1> HIDE DEF shifted
<1>6. /\ again \in Handles /\ again = [shifted EXCEPT !.freq = again.freq]
      /\ again.freq \in {0, d.freq} /\ (shifted.ok => again.freq = d.freq)
  BY <1>2, <1>5, NotedFacts
<1> HIDE DEF again
<1> DEFINE e == [again EXCEPT !.ok = ok]
<1>7. e \in Handles /\ e.freq = again.freq /\ e.ddc = again.ddc /\ e.ds = again.ds /\ e.at = again.at
      /\ \A f \in KeptByCenter : e[f] = again[f]
  BY <1>1, <1>6 DEF Handles, KeptByCenter
<1>8. again.ddc = shifted.ddc /\ again.ds = shifted.ds /\ again.at = shifted.at
      /\ \A f \in KeptByCenter : again[f] = shifted[f]
  BY <1>5, <1>6 DEF Handles, KeptByCenter
<1>9. shifted.ds = asleep.ds /\ shifted.at = asleep.at /\ \A f \in KeptByCenter : shifted[f] = asleep[f]
  BY <1>4, <1>5 DEF Handles, KeptByCenter
<1> HIDE DEF e
<1>10. EnterDirectSampling(d, on, bad) = e
  BY <1>3 DEF e
<1> QED BY <1>4, <1>5, <1>6, <1>7, <1>8, <1>9, <1>10

\* Setting the frequency: what the driver remembers of it is where the tuner or
\* the demodulator is, and all of it is in force where nothing failed.
LEMMA CenterFacts ==
  ASSUME NEW d \in Handles, NEW hz \in Nat, NEW bad, ModesAgree(d, hz)
  PROVE  /\ CenterAt(d, hz, bad) \in Handles /\ Remembers(CenterAt(d, hz, bad))
         /\ SameIn(KeptByCenter, CenterAt(d, hz, bad), d)
         /\ CenterAt(d, hz, bad).ds = DirectMode(d, hz) /\ CenterAt(d, hz, bad).freq \in {0, hz}
         /\ bad = {} =>
              /\ CenterAt(d, hz, bad).freq = hz
              /\ IF DirectMode(d, hz) = 0
                 THEN /\ CenterAt(d, hz, bad).at = [freq |-> hz, filter |-> d.filter, corr |-> d.corr]
                      /\ CenterAt(d, hz, bad).ddc = d.ddc /\ CenterAt(d, hz, bad).awake = d.awake
                 ELSE CenterAt(d, hz, bad).ddc = <<"direct", hz>>
<1> DEFINE ds == DirectMode(d, hz)
           moved == IF ds # 0 THEN Shifted(d, hz, "if", bad) ELSE Tuned(d, hz, bad)
           noted == NoteFreq(moved, hz)
           c == CenterAt(d, hz, bad)
<1>1. ds \in 0..2 /\ (ds # d.ds => ds = 2 /\ d.ds = 0)
  BY DEF ModesAgree, DirectMode, Handles
<1>2. c = IF ds = d.ds THEN noted ELSE EnterDirectSampling(noted, ds, bad)
  BY DEF CenterAt
<1> HIDE DEF ds, c
<1>3. CASE ds # 0
  <2>1. /\ moved \in Handles /\ moved = [d EXCEPT !.ddc = moved.ddc, !.ok = moved.ok]
        /\ moved.ddc \in {None, <<"direct", hz>>}
        /\ (bad = {} => moved.ddc = <<"direct", hz>> /\ moved.ok)
    BY <1>3, ShiftedFacts
  <2> HIDE DEF moved
  <2>2. /\ noted \in Handles /\ noted = [moved EXCEPT !.freq = noted.freq]
        /\ noted.freq \in {0, hz} /\ (moved.ok => noted.freq = hz)
    BY <2>1, NotedFacts
  <2> HIDE DEF noted
  <2>3. moved.ds = d.ds /\ \A f \in KeptByCenter : moved[f] = d[f]
    BY <2>1 DEF Handles, KeptByCenter
  <2>4. noted.ds = moved.ds /\ noted.ddc = moved.ddc /\ \A f \in KeptByCenter : noted[f] = moved[f]
    BY <2>1, <2>2 DEF Handles, KeptByCenter
  <2>5. CASE ds = d.ds
    <3>1. c = noted
      BY <1>2, <2>5
    <3>2. Remembers(c)
      BY <1>3, <2>1, <2>2, <2>3, <2>4, <2>5, <3>1 DEF Remembers
    <3> QED BY <1>3, <2>1, <2>2, <2>3, <2>4, <2>5, <3>1, <3>2 DEF c, ds, SameIn
  <2>6. CASE ds # d.ds
    <3>1. c = EnterDirectSampling(noted, ds, bad)
      BY <1>2, <2>6
    <3>2. /\ c \in Handles /\ c.ds = ds /\ \A f \in KeptByCenter : c[f] = noted[f]
          /\ c.freq \in {0, noted.freq} /\ c.ddc \in {None, <<"direct", noted.freq>>}
          /\ bad = {} => c.freq = noted.freq /\ c.ddc = <<"direct", noted.freq>>
      BY <1>1, <2>2, <3>1, EnterFacts
    <3>3. Remembers(c)
      BY <1>3, <3>2 DEF Remembers
    <3> QED BY <1>3, <2>1, <2>2, <2>3, <2>4, <3>2, <3>3 DEF c, ds, SameIn
  <2> QED BY <2>5, <2>6
<1>4. CASE ds = 0
  <2> DEFINE set == [freq |-> hz, filter |-> d.filter, corr |-> d.corr]
  <2>1. /\ moved \in Handles /\ moved = [d EXCEPT !.at = moved.at, !.ok = moved.ok]
        /\ (bad = {} => moved.ok) /\ (moved.ok => moved.at = set)
    BY <1>4, TunedFacts
  <2>8. set.freq = hz /\ set.corr = d.corr /\ set # None
    <3>1. set \in Positions
      BY DEF Positions, Handles
    <3> QED BY <3>1, HandleAssumption
  <2> HIDE DEF moved, set
  <2>2. /\ noted \in Handles /\ noted = [moved EXCEPT !.freq = noted.freq]
        /\ noted.freq \in {0, hz} /\ (moved.ok => noted.freq = hz) /\ (noted.freq # 0 => moved.ok)
    BY <2>1, NotedFacts
  <2> HIDE DEF noted
  <2>3. moved.ds = d.ds /\ moved.ddc = d.ddc /\ moved.awake = d.awake
        /\ \A f \in KeptByCenter : moved[f] = d[f]
    BY <2>1 DEF Handles, KeptByCenter
  <2>4. /\ noted.ds = moved.ds /\ noted.ddc = moved.ddc /\ noted.awake = moved.awake
        /\ noted.at = moved.at /\ \A f \in KeptByCenter : noted[f] = moved[f]
    BY <2>1, <2>2 DEF Handles, KeptByCenter
  <2>5. c = noted /\ ds = d.ds
    BY <1>1, <1>2, <1>4
  <2>6. noted.corr = d.corr
    BY <2>3, <2>4 DEF KeptByCenter
  <2>7. Remembers(c)
    BY <1>4, <2>1, <2>2, <2>3, <2>4, <2>5, <2>6, <2>8 DEF Remembers
  <2> QED BY <1>4, <2>1, <2>2, <2>3, <2>4, <2>5, <2>7 DEF c, ds, set, SameIn
<1> QED BY <1>3, <1>4

\* A handle between two calls.
Steady(d) == d \in Handles /\ Remembers(d) /\ ModesAgree(d, d.freq)

\* A dongle that lacks at most the frequency.
Direct == setup.frequency < DirectBelow /\ setup.chip = "R820T"
Ready(d) ==
  /\ d.known /\ d.ds_mode = 0 /\ d.clock = d.corr /\ d.baseband /\ ~d.bias
  /\ ~Direct => d.ds = 0 /\ d.awake /\ d.ddc = <<"if", d.filter>>

\* A retuned dongle is consistent, and if nothing failed it receives.
LEMMA CenterSteady ==
  ASSUME NEW d \in Handles, NEW hz \in Nat, NEW bad, ModesAgree(d, hz), setup \in Setups
  PROVE  /\ Steady(CenterAt(d, hz, bad))
         /\ Ready(d) /\ hz = setup.frequency =>
              Ready(CenterAt(d, hz, {})) /\ Receives(CenterAt(d, hz, {}))
<1>0. DirectBelow \in Nat /\ setup.frequency \in Nat \ {0}
  BY DongleAssumption
<1> DEFINE c == CenterAt(d, hz, bad)
           w == CenterAt(d, hz, {})
<1>1. /\ c \in Handles /\ Remembers(c) /\ c.ds_mode = d.ds_mode
      /\ c.ds = DirectMode(d, hz) /\ c.freq \in {0, hz}
  <2>1. /\ c \in Handles /\ Remembers(c) /\ c.ds = DirectMode(d, hz) /\ c.freq \in {0, hz}
        /\ SameIn(KeptByCenter, c, d)
    BY CenterFacts
  <2> HIDE DEF c
  <2> QED BY <2>1 DEF KeptByCenter, SameIn
<1>2. /\ SameIn(KeptByCenter, w, d)
      /\ w.ds = DirectMode(d, hz) /\ w.freq = hz
      /\ IF DirectMode(d, hz) = 0
         THEN /\ w.at = [freq |-> hz, filter |-> d.filter, corr |-> d.corr]
              /\ w.ddc = d.ddc /\ w.awake = d.awake
         ELSE w.ddc = <<"direct", hz>>
  BY CenterFacts
<1> HIDE DEF c, w
<1>3. ModesAgree(c, c.freq)
  <2> SUFFICES ASSUME c.ds_mode = 0, c.ds # 0 PROVE c.ds = 2 /\ setup.chip = "R820T" /\ c.freq < DirectBelow
    BY DEF ModesAgree
  <2>1. c.ds = 2 /\ setup.chip = "R820T" /\ hz < DirectBelow
    BY <1>1 DEF DirectMode
  <2>2. c.freq < DirectBelow
    BY <1>0, <1>1, <2>1
  <2> QED BY <2>1, <2>2
<1>4. ASSUME Ready(d), hz = setup.frequency PROVE Ready(w) /\ Receives(w)
  <2>1. DirectMode(d, hz) = IF Direct THEN 2 ELSE 0
    BY <1>4 DEF Ready, Direct, DirectMode
  <2>2. /\ w.known = d.known /\ w.ds_mode = d.ds_mode /\ w.clock = d.clock /\ w.corr = d.corr
        /\ w.baseband = d.baseband /\ w.bias = d.bias /\ w.filter = d.filter
    BY <1>2 DEF KeptByCenter, SameIn
  <2>3. CASE Direct
    <3>1. w.ds = 2 /\ w.ddc = <<"direct", hz>> /\ w.freq = hz
      BY <1>2, <2>1, <2>3
    <3> QED BY <1>4, <2>2, <2>3, <3>1 DEF Ready, Receives, Direct
  <2>4. CASE ~Direct
    <3>1. /\ w.ds = 0 /\ w.ddc = d.ddc /\ w.awake = d.awake /\ w.freq = hz
          /\ w.at = [freq |-> hz, filter |-> d.filter, corr |-> d.corr]
      BY <1>2, <2>1, <2>4
    <3> QED BY <1>4, <2>2, <2>4, <3>1 DEF Ready, Receives, Direct
  <2> QED BY <2>3, <2>4
<1> QED BY <1>1, <1>3, <1>4 DEF Steady, c, w

\* A dongle that receives what was asked for stays so while nothing fails.
KeptByBw == {"ds_mode", "known", "bw", "corr", "clock", "driver_active", "bias", "baseband"}

LEMMA SetBwFacts ==
  ASSUME NEW d, Steady(d), NEW bw \in Nat, NEW bad, setup \in Setups
  PROVE  /\ Steady(SetBw(d, bw, bad)) /\ SetBw(d, bw, bad).freq \in {0, d.freq}
         /\ \A f \in KeptByBw : SetBw(d, bw, bad)[f] = d[f]
         /\ Ready(d) /\ d.freq = setup.frequency =>
              Ready(SetBw(d, bw, {})) /\ Receives(SetBw(d, bw, {}))
<1> DEFINE Filtered(b) == SetIfFreq([d EXCEPT !.filter = bw], <<"if", bw>>, b)
<1>0. d \in Handles /\ Remembers(d) /\ ModesAgree(d, d.freq) /\ d.freq \in Nat
  BY DEF Steady, Handles
<1>1. ASSUME NEW b
      PROVE  /\ Filtered(b) \in Handles /\ Filtered(b).freq = d.freq /\ Filtered(b).ds = d.ds
             /\ Filtered(b).filter = bw /\ Filtered(b).awake = d.awake /\ Filtered(b).at = d.at
             /\ \A f \in KeptByBw : Filtered(b)[f] = d[f]
             /\ (~Filtered(b).ok => Filtered(b).ddc = None)
             /\ (b = {} => Filtered(b).ok /\ Filtered(b).ddc = <<"if", bw>>)
  <2> DEFINE ddc == Unless(b, {"if"}, <<"if", bw>>)
             ok == "if" \notin b
  <2>1. ddc \in {None} \cup ({"if", "direct"} \X Nat) /\ (~ok => ddc = None) /\ (b = {} => ddc = <<"if", bw>>)
    BY DEF Unless
  <2>2. ok \in BOOLEAN /\ (b = {} => ok)
    OBVIOUS
  <2>3. Filtered(b) = [[d EXCEPT !.filter = bw] EXCEPT !.ddc = ddc, !.ok = ok]
    BY DEF SetIfFreq
  <2> HIDE DEF ddc, ok, Filtered
  <2>4. Filtered(b).ok = ok /\ Filtered(b).ddc = ddc
    BY <1>0, <2>3 DEF Handles
  <2> QED BY <1>0, <2>1, <2>2, <2>3, <2>4 DEF Handles, KeptByBw
<1>2. ASSUME NEW b
      PROVE  SetBw(d, bw, b) = CASE ~d.known -> [d EXCEPT !.ok = TRUE]
                                 [] d.known /\ "filter" \in b -> [d EXCEPT !.filter = bw, !.ok = FALSE]
                                 [] d.known /\ "filter" \notin b /\ ~Filtered(b).ok -> Filtered(b)
                                 [] OTHER -> CenterAt(Filtered(b), d.freq, b)
  BY DEF SetBw
<1> HIDE DEF Filtered
<1>3. ASSUME NEW b PROVE ModesAgree(Filtered(b), d.freq)
  BY <1>0, <1>1 DEF ModesAgree, KeptByBw
<1>4. /\ Steady(SetBw(d, bw, bad)) /\ SetBw(d, bw, bad).freq \in {0, d.freq}
      /\ \A f \in KeptByBw : SetBw(d, bw, bad)[f] = d[f]
  <2> DEFINE s == SetBw(d, bw, bad)
             x == Filtered(bad)
  <2>0. /\ s = CASE ~d.known -> [d EXCEPT !.ok = TRUE]
                 [] d.known /\ "filter" \in bad -> [d EXCEPT !.filter = bw, !.ok = FALSE]
                 [] d.known /\ "filter" \notin bad /\ ~x.ok -> x
                 [] OTHER -> CenterAt(x, d.freq, bad)
        /\ x \in Handles /\ x.freq = d.freq /\ x.ds = d.ds /\ x.at = d.at
        /\ \A f \in KeptByBw : x[f] = d[f]
        /\ (~x.ok => x.ddc = None) /\ ModesAgree(x, d.freq)
    BY <1>1, <1>2, <1>3
  <2> HIDE DEF s, x
  <2>1. CASE ~d.known
    <3>1. s = [d EXCEPT !.ok = TRUE]
      BY <2>0, <2>1
    <3>2. /\ s \in Handles /\ s.freq = d.freq /\ s.ds = d.ds /\ s.at = d.at /\ s.ddc = d.ddc
          /\ \A f \in KeptByBw : s[f] = d[f]
      BY <1>0, <3>1 DEF Handles, KeptByBw
    <3> QED BY <1>0, <3>2 DEF Steady, Remembers, ModesAgree, KeptByBw, s
  <2>2. CASE d.known /\ "filter" \in bad
    <3>1. s = [d EXCEPT !.filter = bw, !.ok = FALSE]
      BY <2>0, <2>2
    <3>2. /\ s \in Handles /\ s.freq = d.freq /\ s.ds = d.ds /\ s.at = d.at /\ s.ddc = d.ddc
          /\ \A f \in KeptByBw : s[f] = d[f]
      BY <1>0, <3>1 DEF Handles, KeptByBw
    <3> QED BY <1>0, <3>2 DEF Steady, Remembers, ModesAgree, KeptByBw, s
  <2>3. CASE d.known /\ "filter" \notin bad /\ ~x.ok
    <3>1. s = x
      BY <2>0, <2>3
    <3>2. Remembers(s) /\ ModesAgree(s, s.freq)
      BY <1>0, <2>0, <2>3, <3>1 DEF Remembers, ModesAgree, KeptByBw
    <3> QED BY <2>0, <3>1, <3>2 DEF Steady, s
  <2>4. CASE d.known /\ "filter" \notin bad /\ x.ok
    <3>1. s = CenterAt(x, d.freq, bad)
      BY <2>0, <2>4
    <3>2. Steady(s)
      BY <1>0, <2>0, <3>1, CenterSteady
    <3>3. s.freq \in {0, d.freq} /\ SameIn(KeptByCenter, s, x)
      <4>1. PICK hz \in Nat : hz = d.freq
        BY <1>0
      <4>2. x \in Handles /\ ModesAgree(x, hz) /\ s = CenterAt(x, hz, bad)
        BY <2>0, <3>1, <4>1
      <4>3. s.freq \in {0, hz} /\ SameIn(KeptByCenter, s, x)
        BY <4>2, CenterFacts
      <4> QED BY <4>1, <4>3
    <3> QED BY <2>0, <3>2, <3>3 DEF s, KeptByCenter, KeptByBw, SameIn
  <2> QED BY <2>1, <2>2, <2>3, <2>4
<1>5. ASSUME Ready(d), d.freq = setup.frequency PROVE Ready(SetBw(d, bw, {})) /\ Receives(SetBw(d, bw, {}))
  <2>1. SetBw(d, bw, {}) = CenterAt(Filtered({}), d.freq, {})
    <3>1. d.known /\ Filtered({}).ok
      BY <1>1, <1>5 DEF Ready
    <3> QED BY <1>2, <3>1
  <2>2. Ready(Filtered({}))
    BY <1>1, <1>5 DEF Ready, KeptByBw
  <2>3. Filtered({}) \in Handles /\ ModesAgree(Filtered({}), d.freq)
    BY <1>1, <1>3
  <2> QED BY <1>0, <1>5, <2>1, <2>2, <2>3, CenterSteady
<1> QED BY <1>4, <1>5

\* The resampler's correction, and what setting it leaves as it is.
KeptByClock ==
  {"freq", "ds", "ds_mode", "known", "awake", "bw", "filter", "ddc", "at", "corr", "driver_active",
   "bias", "baseband"}

LEMMA ClockedFacts ==
  ASSUME NEW d \in Handles, NEW bad
  PROVE  /\ Clocked(d, bad) \in Handles /\ SameIn(KeptByClock, Clocked(d, bad), d)
         /\ bad = {} => Clocked(d, bad).clock = Clocked(d, bad).corr
<1> DEFINE clock == Unless(bad, {"clock"}, d.corr)
           ok == "clock" \notin bad
<1>1. clock \in {None} \cup Int /\ (bad = {} => clock = d.corr)
  BY DEF Unless, Handles
<1>2. ok \in BOOLEAN
  OBVIOUS
<1>3. Clocked(d, bad) = [d EXCEPT !.clock = clock, !.ok = ok]
  BY DEF Clocked
<1> HIDE DEF clock, ok
<1> QED BY <1>1, <1>2, <1>3 DEF Handles, SameIn, KeptByClock

\* The calls of RtlSdrDevice keep a device consistent, and without a failure
\* tuned as asked.
LEMMA RateFacts ==
  ASSUME NEW d, Steady(d), NEW bad, setup \in Setups
  PROVE  /\ Steady(SetSampleRate(d, bad)) /\ SetSampleRate(d, bad).driver_active = d.driver_active
         /\ Ready(d) /\ d.freq = setup.frequency =>
              Ready(SetSampleRate(d, {})) /\ Receives(SetSampleRate(d, {}))
<1>1. PICK bw \in Nat : bw = OrRate(d.bw)
  BY DongleAssumption DEF OrRate, Steady, Handles
<1>2. ASSUME NEW b
      PROVE  /\ Steady(SetSampleRate(d, b)) /\ SetSampleRate(d, b).driver_active = d.driver_active
             /\ Ready(SetBw(d, bw, b)) /\ Receives(SetBw(d, bw, b)) /\ b = {} =>
                  Ready(SetSampleRate(d, b)) /\ Receives(SetSampleRate(d, b))
  <2> DEFINE s == SetBw(d, bw, b)
             c == Clocked(s, b)
  <2>1. SetSampleRate(d, b) = c
    BY <1>1 DEF SetSampleRate
  <2>2. Steady(s) /\ s.driver_active = d.driver_active
    BY SetBwFacts DEF KeptByBw
  <2> HIDE DEF s
  <2>3. s \in Handles
    BY <2>2 DEF Steady
  <2>4. c \in Handles /\ SameIn(KeptByClock, c, s) /\ (b = {} => c.clock = c.corr)
    BY <2>3, ClockedFacts
  <2> HIDE DEF c
  <2>5. /\ c.freq = s.freq /\ c.ds = s.ds /\ c.ds_mode = s.ds_mode /\ c.known = s.known /\ c.awake = s.awake
        /\ c.filter = s.filter /\ c.ddc = s.ddc /\ c.at = s.at /\ c.corr = s.corr
        /\ c.driver_active = s.driver_active /\ c.bias = s.bias /\ c.baseband = s.baseband
    BY <2>4 DEF SameIn, KeptByClock
  <2>6. Steady(c)
    BY <2>2, <2>4, <2>5 DEF Steady, Remembers, ModesAgree
  <2>7. ASSUME Ready(s), Receives(s), b = {} PROVE Ready(c) /\ Receives(c)
    BY <2>4, <2>5, <2>7 DEF Ready, Receives
  <2> QED BY <2>1, <2>2, <2>5, <2>6, <2>7 DEF s
<1>3. ASSUME Ready(d), d.freq = setup.frequency
      PROVE  Ready(SetSampleRate(d, {})) /\ Receives(SetSampleRate(d, {}))
  <2>1. Ready(SetBw(d, bw, {})) /\ Receives(SetBw(d, bw, {}))
    BY <1>3, SetBwFacts
  <2> QED BY <1>2, <2>1
<1> QED BY <1>2, <1>3

LEMMA BandwidthFacts ==
  ASSUME NEW d, Steady(d), NEW bw \in Nat, NEW bad, setup \in Setups
  PROVE  /\ Steady(TunerBandwidth(d, bw, bad)) /\ TunerBandwidth(d, bw, bad).driver_active = d.driver_active
         /\ Ready(d) /\ d.freq = setup.frequency =>
              Ready(TunerBandwidth(d, bw, {})) /\ Receives(TunerBandwidth(d, bw, {}))
<1>1. PICK width \in Nat : width = OrRate(bw)
  BY DongleAssumption DEF OrRate
<1>2. ASSUME NEW b
      PROVE  /\ Steady(TunerBandwidth(d, bw, b)) /\ TunerBandwidth(d, bw, b).driver_active = d.driver_active
             /\ Ready(SetBw(d, width, b)) /\ Receives(SetBw(d, width, b)) =>
                  Ready(TunerBandwidth(d, bw, b)) /\ Receives(TunerBandwidth(d, bw, b))
  <2> DEFINE s == SetBw(d, width, b)
             t == TunerBandwidth(d, bw, b)
  <2>1. t = IF s.ok THEN [s EXCEPT !.bw = bw] ELSE s
    BY <1>1 DEF TunerBandwidth
  <2>2. Steady(s) /\ s.driver_active = d.driver_active
    BY SetBwFacts DEF KeptByBw
  <2> HIDE DEF s, t
  <2>3. s \in Handles
    BY <2>2 DEF Steady
  <2>4. t \in Handles
    BY <2>1, <2>3 DEF Handles
  <2>5. /\ t.freq = s.freq /\ t.ds = s.ds /\ t.ds_mode = s.ds_mode /\ t.known = s.known /\ t.awake = s.awake
        /\ t.filter = s.filter /\ t.ddc = s.ddc /\ t.at = s.at /\ t.corr = s.corr /\ t.clock = s.clock
        /\ t.driver_active = s.driver_active /\ t.bias = s.bias /\ t.baseband = s.baseband
    BY <2>1, <2>3 DEF Handles
  <2>6. Steady(t)
    BY <2>2, <2>4, <2>5 DEF Steady, Remembers, ModesAgree
  <2>7. ASSUME Ready(s), Receives(s) PROVE Ready(t) /\ Receives(t)
    BY <2>5, <2>7 DEF Ready, Receives
  <2> QED BY <2>2, <2>5, <2>6, <2>7 DEF s, t
<1>3. ASSUME Ready(d), d.freq = setup.frequency
      PROVE  Ready(TunerBandwidth(d, bw, {})) /\ Receives(TunerBandwidth(d, bw, {}))
  <2>1. Ready(SetBw(d, width, {})) /\ Receives(SetBw(d, width, {}))
    BY <1>3, SetBwFacts
  <2> QED BY <1>2, <2>1
<1> QED BY <1>2, <1>3

LEMMA CorrectionFacts ==
  ASSUME NEW d, Steady(d), NEW ppm \in Int, NEW bad, setup \in Setups
  PROVE  /\ Steady(SetFreqCorrection(d, ppm, bad))
         /\ SetFreqCorrection(d, ppm, bad).driver_active = d.driver_active
         /\ Ready(d) /\ d.freq = setup.frequency =>
              Ready(SetFreqCorrection(d, ppm, {})) /\ Receives(SetFreqCorrection(d, ppm, {}))
<1>0. d \in Handles /\ d.freq \in Nat /\ ModesAgree(d, d.freq) /\ setup.frequency # 0
  BY DongleAssumption DEF Steady, Handles
<1>1. PICK hz \in Nat : hz = d.freq
  BY <1>0
<1>2. ASSUME NEW b
      PROVE  /\ Steady(SetFreqCorrection(d, ppm, b))
             /\ SetFreqCorrection(d, ppm, b).driver_active = d.driver_active
             /\ Ready(d) /\ d.freq = setup.frequency /\ b = {} =>
                  Ready(SetFreqCorrection(d, ppm, b)) /\ Receives(SetFreqCorrection(d, ppm, b))
  <2> DEFINE e == [d EXCEPT !.corr = ppm]
             c == Clocked(e, b)
             t == CenterAt(c, hz, b)
             ok == t.ok /\ c.ok
             s == SetFreqCorrection(d, ppm, b)
  <2>1. s = IF hz = 0 THEN c ELSE [t EXCEPT !.ok = ok]
    BY <1>1 DEF SetFreqCorrection
  <2>2. ok \in BOOLEAN
    OBVIOUS
  <2>3. /\ e \in Handles /\ e.freq = d.freq /\ e.ds = d.ds /\ e.ds_mode = d.ds_mode /\ e.known = d.known
        /\ e.awake = d.awake /\ e.filter = d.filter /\ e.ddc = d.ddc /\ e.at = d.at
        /\ e.driver_active = d.driver_active /\ e.bias = d.bias /\ e.baseband = d.baseband
    BY <1>0 DEF Handles
  <2> HIDE DEF ok, s, e
  <2>4. c \in Handles /\ SameIn(KeptByClock, c, e) /\ (b = {} => c.clock = c.corr)
    BY <2>3, ClockedFacts
  <2> HIDE DEF c
  <2>5. /\ c.freq = d.freq /\ c.ds = d.ds /\ c.ds_mode = d.ds_mode /\ c.known = d.known
        /\ c.awake = d.awake /\ c.filter = d.filter /\ c.ddc = d.ddc
        /\ c.driver_active = d.driver_active /\ c.bias = d.bias /\ c.baseband = d.baseband
    BY <2>3, <2>4 DEF SameIn, KeptByClock
  <2>6. ModesAgree(c, hz)
    BY <1>0, <1>1, <2>5 DEF ModesAgree
  <2>7. CASE hz = 0
    <3>1. s = c
      BY <2>1, <2>7
    <3>2. Steady(s)
      BY <1>1, <2>4, <2>5, <2>6, <2>7, <3>1 DEF Steady, Remembers
    <3> QED BY <1>0, <1>1, <2>5, <2>7, <3>1, <3>2 DEF s
  <2>8. CASE hz # 0
    <3>1. s = [t EXCEPT !.ok = ok]
      BY <2>1, <2>8
    <3>2. Steady(t)
      BY <2>4, <2>6, CenterSteady
    <3>3. t.driver_active = c.driver_active
      <4>1. SameIn(KeptByCenter, t, c)
        BY <2>4, <2>6, CenterFacts
      <4> HIDE DEF t
      <4> QED BY <4>1 DEF SameIn, KeptByCenter
    <3>4. ASSUME Ready(d), d.freq = setup.frequency, b = {} PROVE Ready(t) /\ Receives(t)
      <4>1. Ready(c)
        BY <2>4, <2>5, <3>4 DEF Ready
      <4>2. Ready(CenterAt(c, hz, {})) /\ Receives(CenterAt(c, hz, {}))
        BY <1>1, <2>4, <2>6, <3>4, <4>1, CenterSteady
      <4> QED BY <3>4, <4>2
    <3> HIDE DEF t
    <3>5. t \in Handles
      BY <3>2 DEF Steady
    <3>6. /\ s \in Handles /\ s.freq = t.freq /\ s.ds = t.ds /\ s.ds_mode = t.ds_mode /\ s.known = t.known
          /\ s.awake = t.awake /\ s.filter = t.filter /\ s.ddc = t.ddc /\ s.at = t.at /\ s.corr = t.corr
          /\ s.clock = t.clock /\ s.driver_active = t.driver_active /\ s.bias = t.bias
          /\ s.baseband = t.baseband
      BY <2>2, <3>1, <3>5 DEF Handles
    <3>7. Steady(s)
      BY <3>2, <3>6 DEF Steady, Remembers, ModesAgree
    <3>8. Ready(t) /\ Receives(t) => Ready(s) /\ Receives(s)
      BY <3>6 DEF Ready, Receives
    <3> QED BY <2>5, <3>3, <3>4, <3>6, <3>7, <3>8 DEF s
  <2> QED BY <2>7, <2>8
<1> QED BY <1>2

\* What rtlsdr_open leaves: no frequency, and without a failure all but that.
LEMMA PreparedFacts ==
  ASSUME NEW bias \in BOOLEAN, NEW bad
  PROVE  /\ Steady(Prepared(bias, bad)) /\ Prepared(bias, bad).freq = 0
         /\ Prepared(bias, bad).ds_mode = 0 => Prepared(bias, bad).ds = 0
         /\ Prepared(bias, bad).driver_active = (kernel = "bound")
         /\ Ready(Prepared(FALSE, {}))
<1>1. ASSUME NEW tee \in BOOLEAN, NEW b
      PROVE  /\ Steady(Prepared(tee, b)) /\ Prepared(tee, b).freq = 0
             /\ Prepared(tee, b).ds_mode = 0 => Prepared(tee, b).ds = 0
             /\ Prepared(tee, b).driver_active = (kernel = "bound")
             /\ b = {} /\ tee = FALSE => Ready(Prepared(tee, b))
  <2> DEFINE active == (kernel = "bound")
             baseband == "baseband" \notin b
             known == "init" \notin b
             ddc == Unless(b, {"if"}, <<"if", 0>>)
             ok == "if" \notin b
             found == InitBaseband([Zeroed EXCEPT !.driver_active = active, !.bias = tee], b)
             started == [found EXCEPT !.awake = known]
             tuner == SetIfFreq(started, <<"if", 0>>, b)
             bare == [found EXCEPT !.known = FALSE, !.ds_mode = 1]
             unknown == EnterDirectSampling(bare, 1, b)
             p == Prepared(tee, b)
             chosen == IF "probe" \in b THEN unknown ELSE tuner
  <2>0. p = [chosen EXCEPT !.ok = TRUE]
    BY DEF Prepared
  <2>1. active \in BOOLEAN /\ baseband \in BOOLEAN /\ known \in BOOLEAN /\ ok \in BOOLEAN
        /\ ddc \in {None} \cup ({"if", "direct"} \X Nat)
        /\ (b = {} => baseband /\ known /\ ddc = <<"if", 0>>)
    BY DEF Unless
  <2>2. found = [[Zeroed EXCEPT !.driver_active = active, !.bias = tee] EXCEPT !.baseband = baseband]
    BY DEF InitBaseband
  <2>3. tuner = [started EXCEPT !.ddc = ddc, !.ok = ok]
    BY DEF SetIfFreq
  <2> HIDE DEF active, baseband, known, ddc, ok, found, started, tuner, bare, unknown, p, chosen
  <2> DEFINE z == Zeroed
             bound == [z EXCEPT !.driver_active = active, !.bias = tee]
  <2>4. /\ z \in Handles /\ z.freq = 0 /\ z.ds = 0 /\ z.ds_mode = 0 /\ z.known = TRUE
        /\ z.filter = 0 /\ z.corr = 0 /\ z.clock = 0
    BY DEF Zeroed, Handles
  <2>8. found = [bound EXCEPT !.baseband = baseband]
    BY <2>2
  <2> HIDE DEF z, bound
  <2>9. /\ bound \in Handles /\ bound.freq = 0 /\ bound.ds = 0 /\ bound.ds_mode = 0 /\ bound.known = TRUE
        /\ bound.filter = 0 /\ bound.corr = 0 /\ bound.clock = 0 /\ bound.driver_active = active
        /\ bound.bias = tee
    BY <2>1, <2>4 DEF Handles, bound
  <2>5. /\ found \in Handles /\ found.freq = 0 /\ found.ds = 0 /\ found.ds_mode = 0 /\ found.known = TRUE
        /\ found.filter = 0 /\ found.corr = 0 /\ found.clock = 0 /\ found.driver_active = active
        /\ found.bias = tee /\ found.baseband = baseband
    BY <2>1, <2>8, <2>9 DEF Handles
  <2>6. CASE "probe" \notin b
    <3>1. /\ started \in Handles /\ started.freq = 0 /\ started.ds = 0 /\ started.ds_mode = 0
          /\ started.known = TRUE /\ started.filter = 0 /\ started.corr = 0 /\ started.clock = 0
          /\ started.driver_active = active /\ started.bias = tee /\ started.baseband = baseband
          /\ started.awake = known
      BY <2>1, <2>5 DEF Handles, started
    <3>2. p = [tuner EXCEPT !.ok = TRUE]
      BY <2>0, <2>6 DEF chosen
    <3>3. /\ tuner \in Handles /\ tuner.freq = 0 /\ tuner.ds = 0 /\ tuner.ds_mode = 0
          /\ tuner.known = TRUE /\ tuner.filter = 0 /\ tuner.corr = 0 /\ tuner.clock = 0
          /\ tuner.driver_active = active /\ tuner.bias = tee /\ tuner.baseband = baseband
          /\ tuner.awake = known /\ tuner.ddc = ddc
      BY <2>1, <2>3, <3>1 DEF Handles
    <3>4. /\ p \in Handles /\ p.freq = 0 /\ p.ds = 0 /\ p.ds_mode = 0 /\ p.known = TRUE
          /\ p.filter = 0 /\ p.corr = 0 /\ p.clock = 0 /\ p.driver_active = active
          /\ p.bias = tee /\ p.baseband = baseband /\ p.awake = known /\ p.ddc = ddc
      BY <3>2, <3>3 DEF Handles
    <3>5. Steady(p)
      BY <3>4 DEF Steady, Remembers, ModesAgree
    <3>6. b = {} /\ tee = FALSE => Ready(p)
      BY <2>1, <3>4 DEF Ready
    <3> QED BY <3>4, <3>5, <3>6 DEF p, active
  <2>7. CASE "probe" \in b
    <3>1. bare \in Handles /\ bare.freq = 0 /\ bare.ds_mode = 1 /\ bare.driver_active = active
      <4> DEFINE half == [found EXCEPT !.known = FALSE]
      <4>1. bare = [half EXCEPT !.ds_mode = 1]
        BY DEF bare
      <4>2. half \in Handles /\ half.freq = 0 /\ half.driver_active = active
        BY <2>5 DEF Handles
      <4> HIDE DEF half
      <4> QED BY <4>1, <4>2 DEF Handles
    <3>2. /\ unknown \in Handles /\ SameIn(KeptByCenter, unknown, bare) /\ unknown.ds = 1
          /\ unknown.freq \in {0, bare.freq}
      BY <3>1, EnterFacts DEF SameIn, unknown
    <3>3. p = [unknown EXCEPT !.ok = TRUE]
      BY <2>0, <2>7 DEF chosen
    <3>4. p \in Handles /\ p.freq = 0 /\ p.ds_mode = 1 /\ p.driver_active = active
      BY <3>1, <3>2, <3>3 DEF Handles, SameIn, KeptByCenter
    <3>5. Steady(p)
      BY <3>4 DEF Steady, Remembers, ModesAgree
    <3> QED BY <2>7, <3>4, <3>5 DEF p, active
  <2> QED BY <2>6, <2>7
<1> QED BY <1>1

\* What the process holds, and whose the dongle is.
HeldInv ==
  /\ setup \in Setups /\ kernel \in {"bound", "detached", "absent"}
  /\ call \in {"closed", "frequency", "sample_rate", "bandwidth", "running"}
  /\ call = "closed" => dev = None
  /\ call \in {"sample_rate", "bandwidth", "running"} => dev # None
  /\ dev = None => held = {}
  /\ dev # None => held = Everything
  /\ kernel = "detached" /\ ~(dev # None /\ alive) => stranded
  /\ dev # None /\ alive /\ ~dev.driver_active => stranded

\* What the driver knows of a dongle that is open, and how it is tuned.
TunedInv ==
  dev # None =>
    /\ Steady(dev)
    /\ call = "frequency" => dev.freq = 0 /\ (dev.ds_mode = 0 => dev.ds = 0)
    /\ ~trouble => Ready(dev) /\ (call # "frequency" => Receives(dev))

DongleInv == HeldInv /\ TunedInv

SpecDongle == InitDongle /\ [][NextDongle]_dongleVars

\* A close gives back what was held and the dongle, where it can.
LEMMA CloseStep ==
  ASSUME DongleInv, NEW bad, CloseHandle(bad), dev # None, setup' = setup
  PROVE  DongleInv'
<1>1. HeldInv'
  BY DEF DongleInv, HeldInv, CloseHandle
<1>2. TunedInv'
  BY DEF CloseHandle, TunedInv
<1> QED BY <1>1, <1>2 DEF DongleInv

\* A call that is not the last one: what it makes of the dongle.
LEMMA CallStep ==
  ASSUME DongleInv, NEW d, NEW whole, NEW next \in {"sample_rate", "bandwidth", "running"},
         dev # None, dev' = d, call' = next, trouble' = (trouble \/ d # whole),
         UNCHANGED <<setup, held, kernel, alive, stranded>>,
         Steady(d), d.driver_active = dev.driver_active,
         ~trouble => Ready(whole) /\ Receives(whole)
  PROVE  DongleInv'
<1>1. d # None
  BY HandleAssumption DEF Steady
<1>2. HeldInv'
  BY <1>1 DEF DongleInv, HeldInv
<1>3. Steady(d)' /\ (Ready(d) => Ready(d)') /\ (Receives(d) => Receives(d)')
  BY DEF Steady, Remembers, ModesAgree, Ready, Direct, Receives
<1>4. TunedInv'
  BY <1>1, <1>3 DEF TunedInv
<1> QED BY <1>2, <1>4 DEF DongleInv

\* The invariant is inductive: one step for each way an open ends and each call.
LEMMA DongleStep == DongleInv /\ [NextDongle]_dongleVars => DongleInv'
<1> SUFFICES ASSUME DongleInv, [NextDongle]_dongleVars PROVE DongleInv'
  OBVIOUS
<1>0. setup \in Setups /\ setup.frequency \in Nat \ {0} /\ setup.bandwidth \in Nat
  BY DongleAssumption DEF DongleInv, HeldInv
<1>1. CASE UNCHANGED dongleVars
  BY <1>1 DEF dongleVars, DongleInv, HeldInv, TunedInv, Steady, Remembers, ModesAgree, Ready, Direct, Receives
<1>2. ASSUME dev' = None, held' = {}, setup' = setup, call' \in {"closed", "frequency"},
             kernel' \in {"bound", "detached", "absent"}, kernel' = "detached" => stranded'
      PROVE  DongleInv'
  BY <1>0, <1>2 DEF DongleInv, HeldInv, TunedInv
<1>3. CASE OpenRefused
  <2>1. dev = None /\ held = {} /\ ~(dev # None /\ alive)
    BY <1>3 DEF OpenRefused, Opens, DongleInv, HeldInv
  <2> QED BY <1>2, <1>3, <2>1 DEF OpenRefused, DongleInv, HeldInv, Opens
<1>4. CASE OpenUndetached
  <2>1. dev = None /\ held = {}
    BY <1>4 DEF OpenUndetached, Opens, DongleInv, HeldInv
  <2> QED BY <1>2, <1>4, <2>1 DEF OpenUndetached, DongleInv, HeldInv, Opens
<1>5. CASE OpenUnclaimed
  <2>1. dev = None /\ held = {}
    BY <1>5 DEF OpenUnclaimed, Opens, DongleInv, HeldInv
  <2> QED BY <1>2, <1>5, <2>1 DEF OpenUnclaimed, DongleInv, HeldInv, Opens
<1>6. CASE OpenWithoutDevice
  <2>1. held = {}
    BY <1>6 DEF OpenWithoutDevice, DongleInv, HeldInv
  <2> QED BY <1>2, <1>6, <2>1 DEF OpenWithoutDevice, DongleInv, HeldInv
<1>7. ASSUME NEW bias \in BOOLEAN, NEW bad \in {{}} \cup {{t} : t \in Transactions}, OpenDone(bias, bad)
      PROVE  DongleInv'
  <2>0. PICK p, w : p = Prepared(bias, bad) /\ w = Prepared(FALSE, {})
    OBVIOUS
  <2>1. /\ Steady(p) /\ p.freq = 0 /\ (p.ds_mode = 0 => p.ds = 0)
        /\ p.driver_active = (kernel = "bound") /\ Ready(w)
    BY <2>0, PreparedFacts
  <2>2. /\ dev' = p /\ trouble' = (p # w) /\ held' = Everything /\ kernel' = "detached" /\ alive' = TRUE
        /\ call' = "frequency" /\ setup' = setup /\ stranded' = stranded
        /\ call = "closed" /\ kernel # "absent"
    BY <1>7, <2>0 DEF OpenDone, Opens
  <2>3. p # None
    BY <2>1, HandleAssumption DEF Steady
  <2>4. ~p.driver_active => stranded
    BY <2>1, <2>2 DEF DongleInv, HeldInv
  <2>5. HeldInv'
    BY <1>0, <2>2, <2>3, <2>4 DEF HeldInv
  <2>6. Steady(p)' /\ (Ready(p) => Ready(p)')
    BY <2>1, <2>2 DEF Steady, Remembers, ModesAgree, Ready, Direct
  <2>7. TunedInv'
    BY <2>1, <2>2, <2>6 DEF TunedInv
  <2> QED BY <2>5, <2>7 DEF DongleInv
<1>8. ASSUME NEW bad, NEW d, NEW whole, NEW next \in {"sample_rate", "bandwidth", "running"}, dev # None,
             Check(d, whole, bad, next), Steady(d), d.driver_active = dev.driver_active,
             ~trouble => Ready(whole) /\ Receives(whole)
      PROVE  DongleInv'
  <2>1. CASE d.ok
    <3>1. dev' = d /\ call' = next /\ trouble' = (trouble \/ d # whole)
          /\ UNCHANGED <<setup, held, kernel, alive, stranded>>
      BY <1>8, <2>1 DEF Check, Possible
    <3> QED BY <1>8, <3>1, CallStep
  <2>2. CASE ~d.ok
    <3>1. CloseHandle(bad) /\ setup' = setup
      BY <1>8, <2>2 DEF Check, Possible
    <3> QED BY <1>8, <3>1, CloseStep
  <2> QED BY <2>1, <2>2
<1>9. ASSUME NEW bad, NEW d, NEW whole, dev # None,
             Configure(d, whole, bad), Steady(d), d.driver_active = dev.driver_active,
             ~trouble => Ready(whole) /\ Receives(whole)
      PROVE  DongleInv'
  <2>1. dev' = d /\ call' = "running" /\ trouble' = (trouble \/ d # whole)
        /\ UNCHANGED <<setup, held, kernel, alive, stranded>>
    BY <1>9 DEF Configure, Possible
  <2> QED BY <1>9, <2>1, CallStep
<1>10. ASSUME NEW bad, OpenFrequency(bad) PROVE DongleInv'
  <2> DEFINE d == CenterAt(dev, setup.frequency, bad)
             whole == CenterAt(dev, setup.frequency, {})
  <2>1. call = "frequency" /\ dev # None /\ Check(d, whole, bad, "sample_rate")
    BY <1>10 DEF OpenFrequency
  <2>2. dev \in Handles /\ ModesAgree(dev, setup.frequency) /\ (~trouble => Ready(dev))
    BY <2>1 DEF DongleInv, TunedInv, Steady, ModesAgree
  <2>3. Steady(d) /\ (~trouble => Ready(whole) /\ Receives(whole))
    BY <1>0, <2>2, CenterSteady
  <2>4. d.driver_active = dev.driver_active
    <3>1. SameIn(KeptByCenter, d, dev)
      BY <1>0, <2>2, CenterFacts
    <3> HIDE DEF d
    <3> QED BY <3>1 DEF SameIn, KeptByCenter
  <2> HIDE DEF d, whole
  <2> QED BY <1>8, <2>1, <2>3, <2>4
<1>11. dev # None /\ call # "frequency" => Steady(dev) /\ (~trouble => Ready(dev) /\ dev.freq = setup.frequency)
  BY DEF DongleInv, TunedInv, Receives
<1>12. ASSUME NEW bad, OpenSampleRate(bad) PROVE DongleInv'
  <2> DEFINE d == SetSampleRate(dev, bad)
             whole == SetSampleRate(dev, {})
  <2>1. call = "sample_rate" /\ dev # None /\ Check(d, whole, bad, "bandwidth")
    BY <1>12 DEF OpenSampleRate, DongleInv, HeldInv
  <2>2. Steady(d) /\ d.driver_active = dev.driver_active /\ (~trouble => Ready(whole) /\ Receives(whole))
    BY <1>0, <1>11, <2>1, RateFacts
  <2> HIDE DEF d, whole
  <2> QED BY <1>8, <2>1, <2>2
<1>13. ASSUME NEW bad, ConfigureBandwidth(bad) PROVE DongleInv'
  <2> DEFINE d == TunerBandwidth(dev, setup.bandwidth, bad)
             whole == TunerBandwidth(dev, setup.bandwidth, {})
  <2>1. call = "bandwidth" /\ dev # None /\ Configure(d, whole, bad)
    BY <1>13 DEF ConfigureBandwidth, DongleInv, HeldInv
  <2>2. Steady(d) /\ d.driver_active = dev.driver_active /\ (~trouble => Ready(whole) /\ Receives(whole))
    BY <1>0, <1>11, <2>1, BandwidthFacts
  <2> HIDE DEF d, whole
  <2> QED BY <1>9, <2>1, <2>2
<1>14. ASSUME NEW bad, NEW ppm \in Ppms, CorrectDongle(ppm, bad) PROVE DongleInv'
  <2> DEFINE d == SetFreqCorrection(dev, ppm, bad)
             whole == SetFreqCorrection(dev, ppm, {})
  <2>1. call = "running" /\ dev # None /\ Configure(d, whole, bad) /\ ppm \in Int
    BY <1>14, DongleAssumption DEF CorrectDongle, DongleInv, HeldInv
  <2>2. Steady(d) /\ d.driver_active = dev.driver_active /\ (~trouble => Ready(whole) /\ Receives(whole))
    BY <1>0, <1>11, <2>1, CorrectionFacts
  <2> HIDE DEF d, whole
  <2> QED BY <1>9, <2>1, <2>2
<1>15. ASSUME NEW bad, CloseDongle(bad) PROVE DongleInv'
  <2>1. dev # None /\ CloseHandle(bad) /\ setup' = setup
    BY <1>15 DEF CloseDongle, DongleInv, HeldInv
  <2> QED BY <2>1, CloseStep
<1>16. CASE UnplugDongle \/ PlugDongle
  <2>1. UNCHANGED <<setup, call, dev, held, trouble>> /\ kernel' \in {"bound", "absent"}
        /\ (alive' => alive /\ stranded' = stranded)
    BY <1>16 DEF UnplugDongle, PlugDongle
  <2>2. HeldInv'
    BY <2>1 DEF DongleInv, HeldInv
  <2>3. TunedInv'
    BY <2>1 DEF DongleInv, TunedInv, Steady, Remembers, ModesAgree, Ready, Direct, Receives
  <2> QED BY <2>2, <2>3 DEF DongleInv
<1> QED BY <1>1, <1>3, <1>4, <1>5, <1>6, <1>7, <1>10, <1>12, <1>13, <1>14, <1>15, <1>16 DEF NextDongle

\* Whatever transaction of whatever call fails, whenever the dongle is pulled
\* out: nothing is held of a dongle that is not open, one that is open is tuned
\* as asked unless a failure since the open left it otherwise, and the kernel has
\* its driver back (RtlSdrDevice.cpp:169-303, librtlsdr.c:1568-1858).
THEOREM DongleStaysWhole == SpecDongle => []DongleWhole
<1>1. InitDongle => DongleInv
  BY DEF InitDongle, DongleInv, HeldInv, TunedInv
<1>2. DongleInv => DongleWhole
  BY DEF DongleInv, HeldInv, TunedInv, Steady, DongleWhole
<1> QED BY <1>1, <1>2, DongleStep, PTL DEF SpecDongle
=============================================================================
