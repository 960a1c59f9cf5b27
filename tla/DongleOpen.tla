----------------------------- MODULE DongleOpen -----------------------------
(***************************************************************************)
(* Opening, tuning and closing an RTL-SDR dongle: RtlSdrDevice::open with   *)
(* the calls of librtlsdr it makes one after the other, in any of which a   *)
(* transaction may fail, the bandwidth and the corrections that follow, and *)
(* the close.  Some failures end the open, some are returned and some       *)
(* nobody looks at.  Below 24 MHz the driver leaves the tuner out and       *)
(* samples the antenna directly.                                            *)
(*                                                                          *)
(* A transaction is named for what it sends; "again" is the frequency that  *)
(* is set a second time when direct sampling begins.  The program asks for  *)
(* one frequency in a session, so it never leaves direct sampling.          *)
(***************************************************************************)
EXTENDS Absent, Integers, FiniteSets

CONSTANTS Setups,      \* a set of [chip, frequency, bandwidth]; 0 is the driver's own bandwidth,
                       \* and a V4L, which tunes below 24 MHz, is an "R828D" here
          SampleRate,
          DirectBelow, \* 24 MHz
          Ppms,        \* the corrections that are tried
          MaxFaulty    \* bound: calls with a failing transaction

ASSUME DongleAssumption ==
  /\ \A s \in Setups : s.frequency \in Nat \ {0} /\ s.bandwidth \in Nat
  /\ SampleRate \in Nat \ {0} /\ DirectBelow \in Nat
  /\ Ppms \subseteq Int /\ MaxFaulty \in Nat /\ None \notin Int

VARIABLES
  setup,    \* the tuner there is and what the configuration asks for
  call,     \* what RtlSdrDevice calls next; "closed" and "running" in between
  dev,      \* m_dev: None, or what the driver knows and the dongle does, see Zeroed
  held,     \* what the process holds of the library and of the host
  kernel,   \* the kernel's own driver: "bound", "detached", or "absent" with the dongle
  alive,    \* the dongle of the handle is still plugged in
  trouble,  \* history: since the open, a failure left the dongle other than asked
  stranded, \* history: a failure kept the kernel's driver detached
  faults    \* bound

dongleVars == <<setup, call, dev, held, kernel, alive, trouble, stranded, faults>>

Everything == {"memory", "context", "handle", "claim"}
Transactions ==
  {"baseband", "probe", "eeprom", "init", "tune", "filter", "if",
   "demod", "standby", "again", "clock", "attach"}

\* at: where the tuner's PLL was set; ddc: what the demodulator shifts by;
\* clock: the correction of the resampler.  None where a write failed.
Zeroed ==
  [freq |-> 0, ds |-> 0, ds_mode |-> 0, known |-> TRUE, awake |-> FALSE, bw |-> 0, filter |-> 0,
   ddc |-> None, at |-> None, corr |-> 0, clock |-> 0, driver_active |-> FALSE, bias |-> FALSE,
   baseband |-> TRUE, ok |-> TRUE]

\* The values a device may have.
Positions == [freq : Nat, filter : Nat, corr : Int]
Handles ==
  [freq : Nat, ds : 0..2, ds_mode : 0..2, known : BOOLEAN, awake : BOOLEAN, bw : Nat, filter : Nat,
   ddc : {None} \cup ({"if", "direct"} \X Nat), at : {None} \cup Positions, corr : Int,
   clock : {None} \cup Int, driver_active : BOOLEAN, bias : BOOLEAN, baseband : BOOLEAN, ok : BOOLEAN]

ASSUME HandleAssumption == None \notin Handles /\ None \notin Positions

InitDongle ==
  /\ setup \in Setups /\ call = "closed" /\ dev = None /\ held = {}
  /\ kernel = "bound" /\ alive = FALSE /\ trouble = FALSE /\ stranded = FALSE /\ faults = 0

-----------------------------------------------------------------------------
(* librtlsdr: each call maps the device to the next one and to ok *)

Unless(bad, names, value) == IF bad \cap names = {} THEN value ELSE None
SetIfFreq(d, value, bad) == [d EXCEPT !.ddc = Unless(bad, {"if"}, value), !.ok = "if" \notin bad]

\* The frequency goes to the demodulator or to the tuner.
Shifted(d, hz, name, bad) ==
  [d EXCEPT !.ddc = Unless(bad, {name}, <<"direct", hz>>), !.ok = name \notin bad]
Tuned(d, hz, bad) ==
  [d EXCEPT !.at = Unless(bad, {"tune"}, [freq |-> hz, filter |-> d.filter, corr |-> d.corr]),
            !.ok = "tune" \notin bad]
NoteFreq(d, hz) == [d EXCEPT !.freq = IF d.ok THEN hz ELSE 0]

\* _rtlsdr_set_direct_sampling: what failed before it is forgotten.
EnterDirectSampling(d, on, bad) ==
  LET asleep == [d EXCEPT !.ds = on, !.awake = d.known /\ "standby" \in bad]
      again == NoteFreq(Shifted(asleep, d.freq, "again", bad), d.freq)
  IN  [again EXCEPT !.ok = @ /\ bad \cap {"standby", "demod"} = {}]

\* The mode that was asked for (ds_mode) is kept, the driver's own follows
\* the frequency.
DirectMode(d, hz) ==
  IF d.ds_mode # 0 THEN d.ds ELSE IF hz < DirectBelow /\ setup.chip = "R820T" THEN 2 ELSE 0
CenterAt(d, hz, bad) ==
  LET ds == DirectMode(d, hz)
      noted == NoteFreq(IF ds # 0 THEN Shifted(d, hz, "if", bad) ELSE Tuned(d, hz, bad), hz)
  IN  IF ds = d.ds THEN noted ELSE EnterDirectSampling(noted, ds, bad)

\* Mutant: the tuner is not tuned again for the new intermediate frequency.
SetBwAlone(d, bw, bad) == SetIfFreq([d EXCEPT !.filter = bw], <<"if", bw>>, bad)

\* r820t_set_bw; a tuner nobody found has none.
SetBw(d, bw, bad) ==
  LET filtered == SetIfFreq([d EXCEPT !.filter = bw], <<"if", bw>>, bad)
  IN  CASE ~d.known -> [d EXCEPT !.ok = TRUE]
        [] d.known /\ "filter" \in bad -> [d EXCEPT !.filter = bw, !.ok = FALSE]
        [] d.known /\ "filter" \notin bad /\ ~filtered.ok -> filtered
        [] OTHER -> CenterAt(filtered, d.freq, bad)

OrRate(bw) == IF bw > 0 THEN bw ELSE SampleRate
Clocked(d, bad) == [d EXCEPT !.clock = Unless(bad, {"clock"}, d.corr), !.ok = "clock" \notin bad]

\* Nobody looks at the result of the filter.
SetSampleRate(d, bad) == Clocked(SetBw(d, OrRate(d.bw), bad), bad)

TunerBandwidth(d, bw, bad) ==
  LET after == SetBw(d, OrRate(bw), bad) IN IF after.ok THEN [after EXCEPT !.bw = bw] ELSE after

\* Retunes only where it knows to.
SetFreqCorrection(d, ppm, bad) ==
  LET clocked == Clocked([d EXCEPT !.corr = ppm], bad)
      retuned == CenterAt(clocked, d.freq, bad)
  IN  IF d.freq = 0 THEN clocked ELSE [retuned EXCEPT !.ok = @ /\ clocked.ok]

InitBaseband(d, bad) == [d EXCEPT !.baseband = "baseband" \notin bad]

\* rtlsdr_open once the interface is claimed: all its results are dropped.
\* An EEPROM that cannot be read leaves the bias tee to what is on the stack.
Prepared(bias, bad) ==
  LET found == InitBaseband([Zeroed EXCEPT !.driver_active = (kernel = "bound"), !.bias = bias], bad)
      tuner == SetIfFreq([found EXCEPT !.awake = "init" \notin bad], <<"if", 0>>, bad)
      unknown == EnterDirectSampling([found EXCEPT !.known = FALSE, !.ds_mode = 1], 1, bad)
  IN  [(IF "probe" \in bad THEN unknown ELSE tuner) EXCEPT !.ok = TRUE]

-----------------------------------------------------------------------------
(* The host *)

\* At most one transaction fails in a call; with the dongle, all do.
MayFailIn == IF ~alive THEN {Transactions} ELSE {{}} \cup {{t} : t \in Transactions}
Tallied(bad) ==
  IF alive /\ bad # {} THEN faults < MaxFaulty /\ faults' = faults + 1 ELSE faults' = faults
\* The call ends with d, and with whole had nothing failed.  A transaction that
\* is not part of the call cannot fail in it.
Possible(d, whole, bad) ==
  /\ Tallied(bad) /\ (alive /\ bad # {} => d # whole)
  /\ UNCHANGED setup

UnplugDongle ==
  /\ kernel # "absent" /\ kernel' = "absent" /\ alive' = FALSE /\ stranded' = FALSE
  /\ UNCHANGED <<setup, call, dev, held, trouble, faults>>
\* The handle of the dongle that went stays dead.
PlugDongle ==
  /\ kernel = "absent" /\ kernel' = "bound"
  /\ UNCHANGED <<setup, call, dev, held, alive, trouble, stranded, faults>>

-----------------------------------------------------------------------------
(* RtlSdrDevice *)

Opens == call = "closed" /\ kernel # "absent"
Occurs == faults < MaxFaulty /\ faults' = faults + 1

\* The errors of rtlsdr_open give back what was taken.
OpenRefused ==   \* libusb_open
  /\ Opens /\ Occurs
  /\ UNCHANGED <<setup, call, dev, held, kernel, alive, trouble, stranded>>
\* Returns the result of libusb_open, 0, and no device.
OpenUndetached ==
  /\ Opens /\ Occurs /\ kernel = "bound"
  /\ call' = "frequency"
  /\ UNCHANGED <<setup, dev, held, kernel, alive, trouble, stranded>>
\* The kernel's driver is not attached again.
OpenUnclaimed ==
  /\ Opens /\ Occurs
  /\ kernel' = "detached" /\ stranded' = TRUE
  /\ UNCHANGED <<setup, call, dev, held, alive, trouble>>
OpenDone(bias, bad) ==
  /\ Opens /\ (bias => "eeprom" \in bad)
  /\ dev' = Prepared(bias, bad) /\ trouble' = (dev' # Prepared(FALSE, {}))
  /\ IF bad = {} THEN faults' = faults ELSE Occurs /\ trouble'
  /\ held' = Everything /\ kernel' = "detached" /\ alive' = TRUE /\ call' = "frequency"
  /\ UNCHANGED <<setup, stranded>>

\* rtlsdr_close: a dongle that is gone is left as it is.
CloseHandle(bad) ==
  /\ dev' = None /\ held' = {} /\ call' = "closed" /\ alive' = FALSE /\ trouble' = FALSE
  /\ kernel' = IF alive /\ dev.driver_active /\ "attach" \notin bad THEN "bound" ELSE kernel
  /\ stranded' = (stranded \/ (alive /\ dev.driver_active /\ "attach" \in bad))

\* The lambda check of open_with_serial.
Check(d, whole, bad, next) ==
  /\ Possible(d, whole, bad)
  /\ IF d.ok
     THEN /\ dev' = d /\ call' = next /\ trouble' = (trouble \/ d # whole)
          /\ UNCHANGED <<held, kernel, alive, stranded>>
     ELSE CloseHandle(bad)

\* Without a device the first call fails, and closing it does nothing.
OpenWithoutDevice ==
  /\ call = "frequency" /\ dev = None /\ call' = "closed"
  /\ UNCHANGED <<setup, dev, held, kernel, alive, trouble, stranded, faults>>
OpenFrequency(bad) ==
  /\ call = "frequency" /\ dev # None
  /\ Check(CenterAt(dev, setup.frequency, bad), CenterAt(dev, setup.frequency, {}), bad, "sample_rate")
OpenSampleRate(bad) ==
  /\ call = "sample_rate"
  /\ Check(SetSampleRate(dev, bad), SetSampleRate(dev, {}), bad, "bandwidth")

Configure(d, whole, bad) ==
  /\ Possible(d, whole, bad) /\ dev' = d /\ call' = "running"
  /\ trouble' = (trouble \/ d # whole)
  /\ UNCHANGED <<held, kernel, alive, stranded>>
ConfigureBandwidth(bad) ==
  /\ call = "bandwidth"
  /\ Configure(TunerBandwidth(dev, setup.bandwidth, bad), TunerBandwidth(dev, setup.bandwidth, {}), bad)
CorrectDongle(ppm, bad) ==
  /\ call = "running" /\ ppm # dev.corr
  /\ Configure(SetFreqCorrection(dev, ppm, bad), SetFreqCorrection(dev, ppm, {}), bad)
CloseDongle(bad) ==
  /\ call = "running" /\ (~alive \/ bad \subseteq {"attach"})
  /\ CloseHandle(bad) /\ Tallied(bad) /\ UNCHANGED setup

NextDongle ==
  \/ OpenRefused \/ OpenUndetached \/ OpenUnclaimed \/ OpenWithoutDevice
  \/ \E bias \in BOOLEAN, bad \in {{}} \cup {{t} : t \in Transactions} : OpenDone(bias, bad)
  \/ \E bad \in MayFailIn : \/ OpenFrequency(bad) \/ OpenSampleRate(bad) \/ ConfigureBandwidth(bad)
                          \/ CloseDongle(bad)
                          \/ \E ppm \in Ppms : CorrectDongle(ppm, bad)
  \/ UnplugDongle \/ PlugDongle

-----------------------------------------------------------------------------
(* Properties *)

\* The tuner, or without it the demodulator, is at the frequency asked for,
\* with the filter and the correction that are in force.
Receives(d) ==
  /\ d.freq = setup.frequency /\ d.clock = d.corr /\ d.baseband /\ ~d.bias
  /\ IF setup.frequency < DirectBelow /\ setup.chip = "R820T"
     THEN d.ds = 2 /\ d.ddc = <<"direct", setup.frequency>>
     ELSE /\ d.ds = 0 /\ d.awake /\ d.ddc = <<"if", d.filter>>
          /\ d.at = [freq |-> setup.frequency, filter |-> d.filter, corr |-> d.corr]

\* The driver knows a frequency only where the tuner or the demodulator has it.
Remembers(d) ==
  d.freq # 0 => IF d.ds = 0 THEN d.at # None /\ d.at.freq = d.freq /\ d.at.corr = d.corr
                ELSE d.ddc \in {None, <<"direct", d.freq>>}

\* A dongle is open, claimed and, as long as no transaction failed, tuned as
\* asked, or nothing of it is held; and the kernel has its own driver back
\* unless detaching or attaching it was cut short
\* (RtlSdrDevice.cpp:169-303, librtlsdr.c:1568-1858).
DongleWhole ==
  /\ dev = None => held = {}
  /\ dev # None => held = Everything /\ Remembers(dev)
  /\ call \in {"bandwidth", "running"} => dev # None /\ (trouble \/ Receives(dev))
  /\ call = "closed" /\ kernel = "detached" => stranded
=============================================================================
