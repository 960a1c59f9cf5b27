------------------------------ MODULE DemodCore ------------------------------
(***************************************************************************)
(* The demodulator core (src/include/DemodCore.hpp) from the point where a  *)
(* candidate frame lies in a shift register: the handlers of the downlink   *)
(* formats, the door by which an address earns trust, the repairs of        *)
(* damaged frames, the checks of values and the suppression of copies.      *)
(*                                                                          *)
(* A step is one call of a handler, or one tick of the clock with the sweep *)
(* of the table it does.  A frame is what its CRC and fields say of it: its *)
(* address, its value, what the error table or the erasure repair would     *)
(* make of it.  Frames that change nothing are no step: those of address 0, *)
(* those of unknown addresses that carry no CRC, repairs that are refused,  *)
(* and the copy of a candidate in the next phase (phaseDupCheck).           *)
(***************************************************************************)
EXTENDS IcaoTable

CONSTANTS
  Squitters,      \* clean DF17-19: [df, ica, sane, position]
  Damaged,        \* DF17-19 with an error: [before, fixed, solved, position]
  AllCalls,       \* addresses in DF11 with a CRC of 0
  Interrogated,   \* addresses in DF11 with the code of an interrogator
  Corrected,      \* addresses in DF11 with one bit corrected
  ValueFrames,    \* DF0, 4, 5, 16, 20, 21: [addr, field, value]
  PlausibleAddr,  \* Plausibility::checkICAO
  Near(_, _),     \* is a position within RepairDistanceLimitKm of a place?
  TrustMax, Df11Max, RejectedMax,           \* ticks a candidate is good for
  TrustIndex, Df11Index, RejectedIndex      \* where candidates are kept

Field == {"altitude", "squawk"}

ASSUME FrameAssumption ==
  /\ \A f \in Squitters : f.ica \in Ica /\ f.df \in 17..19
  /\ AllCalls \subseteq Ica /\ Interrogated \subseteq Ica
  /\ Corrected \subseteq Ica
  /\ \A f \in Damaged :
       f.before \in Ica /\ {f.fixed, f.solved} \subseteq Ica \union {None}
  /\ \A f \in ValueFrames : f.addr \in Addr /\ f.field \in Field
  /\ None \notin ValueFrames
  /\ PlausibleAddr \subseteq Addr
  /\ TrustMax \in Nat /\ Df11Max \in Nat /\ RejectedMax \in Nat

VARIABLES
  phase,         \* m_time1Mhz
  table,         \* m_table, m_squawkAlt, m_msgStatTable, m_trustedBits
  trustCands,    \* m_trustCandidates
  df11Cands,     \* m_df11Candidates
  rejectedCands, \* m_rejectedCandidates
  out,           \* history: what the last step emitted, None: nothing
  sighted,       \* history: the ages of the sightings of an address
  refused,       \* history: the ages of the rejections of a frame
  aired          \* history: of each address, whatever becomes of its slot,
                 \* the age of its last emission and, within the window,
                 \* whether another address had its slot since (displaced)

cands == <<trustCands, df11Cands, rejectedCands>>
vars == <<phase, table, cands, out, sighted, refused, aired>>

LongAgo == [age |-> DupWindow, displaced |-> FALSE]

TrustSlots == {TrustIndex[x] : x \in Ica}
Df11Slots == {Df11Index[x] : x \in Ica}
RejectedSlots == {RejectedIndex[f] : f \in ValueFrames}

Init ==
  /\ phase = 0
  /\ table = [k \in Key |-> EmptySlot]
  /\ trustCands = [i \in TrustSlots |-> NoCandidate]
  /\ df11Cands = [i \in Df11Slots |-> NoCandidate]
  /\ rejectedCands = [i \in RejectedSlots |-> NoCandidate]
  /\ out = None
  /\ sighted = [door \in {"clean", "coded"} |-> [x \in Ica |-> {}]]
  /\ refused = [f \in ValueFrames |-> {}]
  /\ aired = [x \in Addr |-> LongAgo]

-----------------------------------------------------------------------------
(* History: of what happened in the past only what a pair may be made of is *)
(* kept, the ages below MinSeparation and the least of the others.          *)

Recent(ages, max) ==
  {a \in ages : a <= max /\ \A b \in ages : b < a => b < MinSeparation}
Noted(ages, max) == Recent(ages \union {0}, max)
Past(ages, max) == Recent({a + 1 : a \in ages}, max)
Paired(ages, max) == \E a \in ages : a \in MinSeparation..max

DoorMax(door) == IF door = "clean" THEN TrustMax ELSE Df11Max
Sighted(door, ica) ==
  sighted' = [sighted EXCEPT ![door][ica] = Noted(@, DoorMax(door))]

\* The slot of an address after a sighting of it, a repair to it that was
\* accepted, or a mere mention of it.
Sound(s, door, ica) ==
  [s EXCEPT !.named = 0, !.sound = 0,
            !.earned = @ \/ Paired(sighted[door][ica], DoorMax(door))]
Accepted(s) == [s EXCEPT !.named = 0, !.sound = 0]
Mentioned(s) == [s EXCEPT !.named = 0]

-----------------------------------------------------------------------------
(* Lookups and the common end of the handlers *)

SlotOf(ica) == table[KeyOf[ica.addr]]
Known(ica) == SlotOf(ica).icao = ica                    \* findWithCA
Holds(s, addr) == s.icao # None /\ s.icao.addr = addr
KnownAddr(addr) == Holds(table[KeyOf[addr]], addr)      \* find
Trusted(ica) == Known(ica) /\ IsTrusted(SlotOf(ica))

Put(addr, s) == table' = [table EXCEPT ![KeyOf[addr]] = s]

\* e.isValid() ? e : insertWithCA
SlotFor(ica) == IF Known(ica) THEN SlotOf(ica) ELSE Inserted(SlotOf(ica), ica)

\* What is emitted of an address, with what is known of the emission before.
Emission(addr, rescued, backed) ==
  [addr |-> addr, since |-> aired[addr].age, displaced |-> aired[addr].displaced,
   rescued |-> rescued, backed |-> backed]

\* Mutant: the time of an emission is not kept.
EmittedUntimed(s) == TrustedSeen(Accepted(s))

Emitted(s) == [TrustedSeen(Accepted(s)) EXCEPT !.last = 0]

\* sendFrameLongAligned, sendFrameShortAligned for DF11, 17 and 18: a copy is
\* dropped, an untrusted address emits nothing.
IsCopy(s) == s.last < DupWindow

Send(addr, s, backed) ==
  \/ IsCopy(s) /\ Put(addr, [s EXCEPT !.last = 0]) /\ out' = None
  \/ ~IsCopy(s) /\ ~IsTrusted(s) /\ Put(addr, s) /\ out' = None
  \/ /\ ~IsCopy(s) /\ IsTrusted(s)
     /\ Put(addr, Emitted(s)) /\ out' = Emission(addr, FALSE, backed)

-----------------------------------------------------------------------------
(* handleExtSquitterLongMessage, crc = 0 *)

\* The frame's position, if it has one, seeds the pair of its aircraft.
Tells(field, value) == [field |-> field, value |-> value]

WithPosition(s, f) ==
  IF f.position = None THEN s
  ELSE [PositionNoted(s, f.position) EXCEPT !.told =
          @ \union {Tells(IF f.position.odd THEN "odd" ELSE "even",
                          f.position.cpr)}]

\* A frame that is clean only as the DF17 a DF19 was taken for.
Converted(f) == f.df = 19

SquitterTrusted(f) ==
  /\ Trusted(f.ica)
  /\ Send(f.ica.addr,
          WithPosition(TrustedSeen(Sound(SlotOf(f.ica), "clean", f.ica)), f), TRUE)
  /\ IF Converted(f) THEN UNCHANGED sighted ELSE Sighted("clean", f.ica)
  /\ UNCHANGED <<phase, cands, refused>>

\* What gets to the trust door.
SquitterDoor(f) ==
  /\ ~Converted(f)
  /\ Known(f.ica) \/ (f.ica.addr \in PlausibleAddr /\ (f.df = 18 \/ f.sane))

TrustCand(ica) == trustCands[TrustIndex[ica]]
TrustDoor(ica) ==
  trustCands' = [trustCands EXCEPT ![TrustIndex[ica]] =
                   AfterSighting(@, ica, TrustMax)]

SquitterSighted(f) ==
  /\ ~Trusted(f.ica) /\ SquitterDoor(f)
  /\ ~Confirms(TrustCand(f.ica), f.ica, TrustMax)
  /\ TrustDoor(f.ica)
  /\ Put(f.ica.addr, Seen(Sound(SlotFor(f.ica), "clean", f.ica)))
  /\ out' = None
  /\ Sighted("clean", f.ica)
  /\ UNCHANGED <<phase, df11Cands, rejectedCands, refused>>

SquitterConfirmed(f) ==
  /\ ~Trusted(f.ica) /\ SquitterDoor(f)
  /\ Confirms(TrustCand(f.ica), f.ica, TrustMax)
  /\ TrustDoor(f.ica)
  /\ Send(f.ica.addr,
          WithPosition(TrustedSeen(Sound(SlotFor(f.ica), "clean", f.ica)), f), TRUE)
  /\ Sighted("clean", f.ica)
  /\ UNCHANGED <<phase, df11Cands, rejectedCands, refused>>

-----------------------------------------------------------------------------
(* handleExtSquitterLongMessage, crc # 0, and tryErasureRepairLong *)

\* Mutant: any position is plausible for a trusted aircraft.
PositionTaken(s, f) == TRUE

\* repairPositionPlausible
PositionPlausible(s, f) ==
  f.position = None \/ (HasReference(s) /\ Near(s.ref.cpr, f.position.cpr))

\* Do an even and an odd position the aircraft told support this one?
Anchored(s, f) ==
  f.position = None
    \/ \E e, o \in s.told :
         /\ e.field = "even" /\ o.field = "odd"
         /\ DecodeCpr(e.value, o.value) # None
         /\ Near(DecodeCpr(e.value, o.value), f.position.cpr)

Repaired(ica, f) ==
  /\ PositionPlausible(SlotOf(ica), f)
  /\ Send(ica.addr, TrustedSeen(Accepted(SlotOf(ica))), Anchored(SlotOf(ica), f))
  /\ UNCHANGED <<phase, cands, sighted, refused>>

\* The error table knows the syndrome.
RepairByTable(f) == f.fixed # None /\ Trusted(f.fixed) /\ Repaired(f.fixed, f)

\* It does not, or what it makes of the frame is known but not trusted.
RepairByErasure(f) ==
  /\ f.fixed # None => Known(f.fixed) /\ ~Trusted(f.fixed)
  /\ SlotOf(f.before).bit /\ Trusted(f.before)
  /\ f.solved # None /\ Trusted(f.solved)
  /\ Repaired(f.solved, f)

-----------------------------------------------------------------------------
(* handleDF11ShortMessage *)

AllCallTrusted(ica) ==
  /\ Trusted(ica)
  /\ Send(ica.addr, TrustedSeen(Sound(SlotOf(ica), "clean", ica)), TRUE)
  /\ Sighted("clean", ica)
  /\ UNCHANGED <<phase, cands, refused>>

AllCallConfirmed(ica) ==
  /\ ~Trusted(ica) /\ Confirms(TrustCand(ica), ica, TrustMax)
  /\ TrustDoor(ica)
  /\ IF Known(ica) \/ ica.addr \in PlausibleAddr
       THEN /\ Send(ica.addr, TrustedSeen(Sound(SlotFor(ica), "clean", ica)), TRUE)
            /\ Sighted("clean", ica)
       ELSE out' = None /\ UNCHANGED <<table, sighted>>
  /\ UNCHANGED <<phase, df11Cands, rejectedCands, refused>>

\* A first sighting enters its address, unless it is there with another CA.
AllCallSighted(ica) ==
  /\ ~Trusted(ica) /\ ~Confirms(TrustCand(ica), ica, TrustMax)
  /\ TrustDoor(ica)
  /\ IF Known(ica) \/ (~KnownAddr(ica.addr) /\ ica.addr \in PlausibleAddr)
       THEN Put(ica.addr, Seen(Sound(SlotFor(ica), "clean", ica)))
       ELSE UNCHANGED table
  /\ out' = None
  /\ Sighted("clean", ica)
  /\ UNCHANGED <<phase, df11Cands, rejectedCands, refused>>

Df11Cand(ica) == df11Cands[Df11Index[ica]]

\* A reply to an interrogator: the second one is trusted, and silent.
InterrogatedUntrusted(ica) ==
  /\ ~Trusted(ica)
  /\ df11Cands' = [df11Cands EXCEPT ![Df11Index[ica]] =
                     AfterSighting(@, ica, Df11Max)]
  /\ IF /\ Confirms(Df11Cand(ica), ica, Df11Max)
        /\ Known(ica) \/ ica.addr \in PlausibleAddr
       THEN Put(ica.addr, TrustedSeen(Sound(SlotFor(ica), "coded", ica)))
       ELSE UNCHANGED table
  /\ out' = None
  /\ Sighted("coded", ica)
  /\ UNCHANGED <<phase, trustCands, rejectedCands, refused>>

InterrogatedTrusted(ica) ==
  /\ Trusted(ica)
  /\ Send(ica.addr, Seen(Sound(SlotOf(ica), "coded", ica)), TRUE)
  /\ Sighted("coded", ica)
  /\ UNCHANGED <<phase, cands, refused>>

\* handleDF11ShortMessageWithZeroCRC for a corrected frame: an entry that is
\* due to be reset is revived, and emits nothing yet.
CorrectedAllCall(ica) ==
  /\ Known(ica)
  /\ LET s == Seen(Mentioned(SlotOf(ica)))
     IN  IF IsAlive(SlotOf(ica)) THEN Send(ica.addr, s, TRUE)
         ELSE Put(ica.addr, s) /\ out' = None
  /\ UNCHANGED <<phase, cands, sighted, refused>>

-----------------------------------------------------------------------------
(* handleAcasSurvShortMessage, handleAcasCommBLongMessage: a frame whose     *)
(* parity names its address.                                                 *)

Fits(s, f) == IF f.field = "altitude" THEN AltitudeFits(s, f.value)
              ELSE SquawkFits(s, f.value)

Checked(s, f) ==
  LET t == IF f.field = "altitude" THEN AltitudeChecked(s, f.value)
           ELSE SquawkChecked(s, f.value)
  IN  [t EXCEPT !.told = @ \union {Tells(f.field, f.value)}]

\* Has the aircraft told such a value before?
Corroborates(s, f) ==
  f.value # None /\ \E t \in s.told :
    /\ t.field = f.field /\ t.value # None
    /\ IF f.field = "altitude" THEN Gap(t.value, f.value) <= AltDelta
       ELSE t.value = f.value

ValueSlot(f) == Mentioned(table[KeyOf[f.addr]])
Listens(f) == KnownAddr(f.addr) /\ IsAlive(ValueSlot(f))

ValueCopy(f) ==
  /\ Listens(f) /\ IsCopy(ValueSlot(f))
  /\ Put(f.addr, [ValueSlot(f) EXCEPT !.last = 0])
  /\ out' = None
  /\ UNCHANGED <<phase, cands, sighted, refused>>

ChecksValue(f) == Listens(f) /\ ~IsCopy(ValueSlot(f)) /\ IsTrusted(ValueSlot(f))

ValueAccepted(f) ==
  /\ ChecksValue(f) /\ Fits(ValueSlot(f), f)
  /\ Put(f.addr, Emitted(Checked(ValueSlot(f), f)))
  /\ out' = Emission(f.addr, FALSE, Corroborates(ValueSlot(f), f))
  /\ UNCHANGED <<phase, cands, sighted, refused>>

RejectedCand(f) == rejectedCands[RejectedIndex[f]]

\* A value that does not fit counts when the same frame was refused before.
ValueRejected(f) ==
  /\ ChecksValue(f) /\ ~Fits(ValueSlot(f), f)
  /\ rejectedCands' = [rejectedCands EXCEPT ![RejectedIndex[f]] =
                         AfterRejection(@, f, RejectedMax)]
  /\ refused' = [refused EXCEPT ![f] = Noted(@, RejectedMax)]
  /\ IF Confirms(RejectedCand(f), f, RejectedMax)
       THEN /\ Put(f.addr, Emitted(Checked(ValueSlot(f), f)))
            /\ out' = Emission(f.addr, TRUE, Paired(refused[f], RejectedMax))
       ELSE Put(f.addr, Checked(ValueSlot(f), f)) /\ out' = None
  /\ UNCHANGED <<phase, trustCands, df11Cands, sighted>>

-----------------------------------------------------------------------------
(* ICAOTable::tick, at each new bit *)

Tick ==
  /\ phase' = (phase + 1) % Period
  /\ table' = [k \in Key |->
                 Aged(IF k = phase' THEN Swept(table[k]) ELSE table[k])]
  /\ trustCands' = [i \in TrustSlots |-> AgedCandidate(trustCands[i], TrustMax)]
  /\ df11Cands' = [i \in Df11Slots |-> AgedCandidate(df11Cands[i], Df11Max)]
  /\ rejectedCands' =
       [i \in RejectedSlots |-> AgedCandidate(rejectedCands[i], RejectedMax)]
  /\ out' = None
  /\ sighted' = [door \in DOMAIN sighted |->
                   [x \in Ica |-> Past(sighted[door][x], DoorMax(door))]]
  /\ refused' = [f \in ValueFrames |-> Past(refused[f], RejectedMax)]
  /\ aired' = [x \in Addr |-> IF aired[x].age + 1 >= DupWindow THEN LongAgo
                                ELSE [aired[x] EXCEPT !.age = @ + 1]]

HandleSquitter(f) ==
  SquitterTrusted(f) \/ SquitterSighted(f) \/ SquitterConfirmed(f)
HandleDamaged(f) == RepairByTable(f) \/ RepairByErasure(f)
HandleAllCall(x) == AllCallTrusted(x) \/ AllCallConfirmed(x) \/ AllCallSighted(x)
HandleInterrogated(x) == InterrogatedTrusted(x) \/ InterrogatedUntrusted(x)
HandleValue(f) == ValueCopy(f) \/ ValueAccepted(f) \/ ValueRejected(f)

\* History: what a handler emitted, and whose slot it gave to another.
LosesSlot(x) ==
  /\ aired[x].age < DupWindow /\ KnownAddr(x)
  /\ table'[KeyOf[x]].icao # None /\ ~Holds(table'[KeyOf[x]], x)

Airing ==
  aired' = [x \in Addr |->
    IF out' # None /\ out'.addr = x THEN [age |-> 0, displaced |-> FALSE]
    ELSE [aired[x] EXCEPT !.displaced = @ \/ LosesSlot(x)]]

Next ==
  \/ Tick
  \/ \E f \in Squitters : HandleSquitter(f) /\ Airing
  \/ \E f \in Damaged : HandleDamaged(f) /\ Airing
  \/ \E x \in AllCalls : HandleAllCall(x) /\ Airing
  \/ \E x \in Interrogated : HandleInterrogated(x) /\ Airing
  \/ \E x \in Corrected : CorrectedAllCall(x) /\ Airing
  \/ \E f \in ValueFrames : HandleValue(f) /\ Airing

Spec == Init /\ [][Next]_vars

-----------------------------------------------------------------------------
(* Correctness *)

TypeOK ==
  /\ phase \in 0..Period-1
  /\ DOMAIN table = Key
  /\ \A k \in Key :
       LET s == table[k]
       IN  /\ s.icao \in Ica \union {None} /\ s.bit \in BOOLEAN
           /\ s.icao # None => KeyOf[s.icao.addr] = k
           /\ s.ttl \in 0..SeenTtl /\ s.trust \in 0..TrustTtl
           /\ s.last \in 0..DupWindow
           /\ s.altSure => s.alt # None
           /\ s.squawkSure => s.squawk # None
           /\ s.icao = None => s = EmptySlot
  /\ \A i \in TrustSlots : trustCands[i].of \in Ica \union {None}
  /\ \A i \in Df11Slots : df11Cands[i].of \in Ica \union {None}
  /\ \A i \in RejectedSlots : rejectedCands[i].of \in ValueFrames \union {None}

\* Trust is earned: an entry is trusted, and so emits, only if its address was
\* sighted twice with a CRC that checks, by transmissions apart and near
\* enough.  No repair, no converted frame, no collision in the table or among
\* the candidates and no other CA makes an address trusted.
TrustEarned == \A k \in Key : table[k].trust > 0 => table[k].earned

\* An entry lives only as long as frames name its address, and is trusted
\* only as long as sound ones come, also when an entry past its time is
\* revived before the sweep.
TrustDecays ==
  \A k \in Key :
    /\ IsAlive(table[k]) => table[k].named < SeenTtl * Period
    /\ table[k].trust > 0 => table[k].sound < TrustTtl * Period

\* One transmission is emitted once, in however many phases and by whatever
\* handlers it is decoded: two emissions of an address are a window apart, its
\* entry resets, is revived or changes its CA in between.  The one exception:
\* another address took its slot in between, and with it the time of the
\* emission (ICAOCache.hpp:116, 467, DemodCore.hpp:176).  The record of the
\* emissions is kept outside the table, which forgets.
EmissionsApart == out # None => out.since >= DupWindow \/ out.displaced

\* What cannot be checked by its CRC is emitted only with a witness: a value
\* agrees with one the same aircraft told before, a repaired position lies
\* near one it told by an even and an odd frame.  What another address in the
\* same slot told is no witness.
Corroborated == out # None /\ ~out.rescued => out.backed

\* A value without a witness is emitted only if the very frame was refused
\* before, in another transmission and not too long ago.
RescueIsRepeat == out # None /\ out.rescued => out.backed

\* An address that no frame names leaves the table one sweep after its time
\* has run out, also when it was revived in between.
Forgotten ==
  \A k \in Key : table[k].icao # None => table[k].named < (SeenTtl + 1) * Period

\* Trust is earned by two sightings of the address, ends with them in time,
\* and with it the entry: whatever collides, is repaired, is revived between
\* its expiry and its sweep or is confirmed by a candidate
\* (ICAOCache.hpp:107-460, DemodCore.hpp:405-560).
TrustIsTimely == TrustEarned /\ TrustDecays /\ Forgotten

-----------------------------------------------------------------------------
(* What a comment says and the code does not do *)

\* ICAOCache: the trusted bit is never clear for a trusted entry.
TrustedBitSet == \A k \in Key : IsTrusted(table[k]) => table[k].bit
=============================================================================
