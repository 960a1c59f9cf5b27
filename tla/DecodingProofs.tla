---------------------------- MODULE DecodingProofs ----------------------------
(***************************************************************************)
(* Three things of the decoding, for every value of the constants.          *)
(* Of the demodulator, for every table, every set of frames and all         *)
(* windows: what an entry of the address table, a candidate and an emission *)
(* owe to the frames that really came.  Of the stream before it, for every  *)
(* pair of rates: that a bit is made of the samples it should be made of,   *)
(* and is looked back at where they are.  Of the filters before that, for   *)
(* all taps and every cut of the stream: that they treat it as one.         *)
(***************************************************************************)
EXTENDS DemodCore, SampleStream, IqPipeline, ModularArithmetic, WellFoundedInduction,
        SequenceTheorems, TLAPS

-----------------------------------------------------------------------------
(* The inductive invariant *)

\* The values, positions and places the frames can tell.
Values == {f.value : f \in ValueFrames} \union {None}
Cprs == {f.position.cpr : f \in {g \in Squitters : g.position # None}}
Places == {DecodeCpr(e, o) : e \in Cprs, o \in Cprs}
Fix(cprs, bound) == {None} \union [cpr : cprs, age : 0..bound]

Slot ==
  [icao : Ica \union {None}, ttl : 0..SeenTtl, trust : 0..TrustTtl, bit : BOOLEAN,
   last : 0..DupWindow, alt : Values, altSure : BOOLEAN,
   squawk : Values, squawkSure : BOOLEAN,
   even : Fix(Cprs, PairWindow + 1), odd : Fix(Cprs, PairWindow + 1),
   ref : Fix(Places, PositionMaxAge + 1),
   named : Nat, sound : Nat, earned : BOOLEAN,
   told : SUBSET [field : Field \union {"even", "odd"}, value : Values \union Cprs]]

\* Ticks since the last sweep of a slot, and what n sweeps less than all of
\* them are in ticks.
SinceSweep(k) == IF k <= phase THEN phase - k ELSE phase + Period - k
Spell(sweeps, left) == (sweeps - left) * Period

\* Times to live are counted down by the sweep, so that they bound the time
\* since the frame that set them.
TimeInv(s, d) ==
  /\ s.named <= Spell(SeenTtl, s.ttl) + d
  /\ s.trust > 0 => s.earned /\ s.sound <= Spell(TrustTtl, s.trust) + d

\* What a slot holds its aircraft has told.
ToldInv(s) ==
  /\ s.alt # None => Tells("altitude", s.alt) \in s.told
  /\ s.squawk # None => Tells("squawk", s.squawk) \in s.told
  /\ s.even # None => Tells("even", s.even.cpr) \in s.told
  /\ s.odd # None => Tells("odd", s.odd.cpr) \in s.told
  /\ s.ref # None =>
       \E e, o \in Cprs :
         /\ Tells("even", e) \in s.told /\ Tells("odd", o) \in s.told
         /\ DecodeCpr(e, o) # None /\ s.ref.cpr = DecodeCpr(e, o)

SlotInv(s, d) ==
  /\ s \in Slot
  /\ s.icao = None => s = EmptySlot
  /\ s.altSure => s.alt # None
  /\ s.squawkSure => s.squawk # None
  /\ TimeInv(s, d) /\ ToldInv(s)

\* What the slot of an address knows of its last emission, unless another
\* address had it since: its entry is as old at least as the time it keeps,
\* and an entry that is gone was swept for longer than the window.
AiringInv(r, s, x, d) ==
  ~r.displaced =>
    IF Holds(s, x)
      THEN s.last <= r.age /\ (s.ttl < SeenTtl => r.age >= DupWindow \/ r.age >= d)
      ELSE r.age = DupWindow

AiredInv ==
  /\ aired \in [Addr -> [age : 0..DupWindow, displaced : BOOLEAN]]
  /\ \A x \in Addr : AiringInv(aired[x], table[KeyOf[x]], x, SinceSweep(KeyOf[x]))

TableInv ==
  /\ phase \in 0..Period-1
  /\ table \in [Key -> Slot]
  /\ \A k \in Key : /\ SlotInv(table[k], SinceSweep(k))
                    /\ table[k].icao # None => KeyOf[table[k].icao.addr] = k
  /\ AiredInv

\* Of the ages of what was sighted or refused one at most is old enough to
\* make a pair.
AgesInv(ages, max) ==
  /\ ages \subseteq 0..max
  /\ \A x, y \in ages : x >= MinSeparation /\ y >= MinSeparation => x = y

\* A candidate stands for something that really came: at its age, or later
\* but still apart from now.
CandInv(c, ages, max) ==
  /\ c.age \in 0..max+1
  /\ c.age < MinSeparation /\ c.age <= max => c.age \in ages
  /\ c.age \in MinSeparation..max => \E x \in ages : x \in MinSeparation..c.age

Candidate(X) == [of : X \union {None}, age : Nat]

CandsInv(slots, cs, X, history, max) ==
  /\ cs \in [slots -> Candidate(X)]
  /\ \A i \in slots : cs[i].of # None => CandInv(cs[i], history[cs[i].of], max)

HistoryInv(history, X, max) ==
  /\ history \in [X -> SUBSET Nat]
  /\ \A x \in X : AgesInv(history[x], max)

DoorsInv ==
  /\ sighted \in [{"clean", "coded"} -> [Ica -> SUBSET Nat]]
  /\ HistoryInv(sighted["clean"], Ica, TrustMax)
  /\ HistoryInv(sighted["coded"], Ica, Df11Max)
  /\ HistoryInv(refused, ValueFrames, RejectedMax)
  /\ CandsInv(TrustSlots, trustCands, Ica, sighted["clean"], TrustMax)
  /\ CandsInv(Df11Slots, df11Cands, Ica, sighted["coded"], Df11Max)
  /\ CandsInv(RejectedSlots, rejectedCands, ValueFrames, refused, RejectedMax)

OutInv == out # None => (out.since >= DupWindow \/ out.displaced) /\ out.backed

IInv == TableInv /\ DoorsInv /\ OutInv

-----------------------------------------------------------------------------
(* Ages and candidates *)

\* The bounds as the numbers they are.
LEMMA Bounds ==
  /\ Period \in Nat \ {0} /\ SeenTtl \in Nat \ {0} /\ TrustTtl \in Nat \ {0}
  /\ MinSeparation \in Nat \ {0} /\ AltDelta \in Nat
  /\ DupWindow \in Nat /\ DupWindow <= Period
  /\ PairWindow \in Nat /\ PositionMaxAge \in Nat
  /\ TrustMax \in Nat /\ Df11Max \in Nat /\ RejectedMax \in Nat
  /\ None \notin Ica /\ None \notin ValueFrames
BY TableAssumption, FrameAssumption DEF Ica

\* Of whatever ages, one at most is kept that makes a pair.
LEMMA RecentAges ==
  ASSUME NEW max \in Nat, NEW ages \in SUBSET Nat
  PROVE  AgesInv(Recent(ages, max), max)
<1>1. ASSUME NEW x \in Recent(ages, max) PROVE x \in 0..max
  <2>1. x \in ages /\ x <= max
    BY DEF Recent
  <2> QED BY <2>1
<1>2. ASSUME NEW x \in Recent(ages, max), NEW y \in Recent(ages, max),
             x >= MinSeparation, y >= MinSeparation
      PROVE  x = y
  <2>1. x \in Nat /\ y \in Nat /\ x \in ages /\ y \in ages
    BY DEF Recent
  <2>2. (x < y => x < MinSeparation) /\ (y < x => y < MinSeparation)
    BY <2>1 DEF Recent
  <2> QED BY <1>2, <2>1, <2>2, Bounds
<1> QED BY <1>1, <1>2 DEF AgesInv

\* What is kept of the history after one more sighting now.
LEMMA NotedAges ==
  ASSUME NEW max \in Nat, NEW ages, AgesInv(ages, max)
  PROVE  /\ AgesInv(Noted(ages, max), max)
         /\ 0 \in Noted(ages, max) /\ ages \subseteq Noted(ages, max)
<1>1. ages \subseteq Nat
  BY DEF AgesInv
<1>2. AgesInv(Noted(ages, max), max)
  BY <1>1, RecentAges DEF Noted
<1>3. ASSUME NEW x \in ages \union {0} PROVE x \in Noted(ages, max)
  <2>1. x <= max
    BY <1>3 DEF AgesInv
  <2>2. ASSUME NEW y \in ages \union {0}, y < x PROVE y < MinSeparation
    BY <1>1, <1>3, <2>2, Bounds DEF AgesInv
  <2> QED BY <2>1, <2>2 DEF Noted, Recent
<1> QED BY <1>2, <1>3

\* A tick later the least age that makes a pair may be another one.
LEMMA PastAges ==
  ASSUME NEW max \in Nat, NEW ages, AgesInv(ages, max)
  PROVE  /\ AgesInv(Past(ages, max), max)
         /\ \A x \in ages : x < MinSeparation /\ x < max => x + 1 \in Past(ages, max)
         /\ \A x \in ages : x >= MinSeparation /\ x < max =>
              x + 1 \in Past(ages, max) \/ MinSeparation \in Past(ages, max)
<1> DEFINE older == {x + 1 : x \in ages}
<1>1. Past(ages, max) = {x \in older : x <= max /\ \A y \in older : y < x => y < MinSeparation}
  BY DEF Past, Recent
<1>2. ages \subseteq 0..max /\ older \subseteq Nat
  BY DEF AgesInv
<1>3. AgesInv(Past(ages, max), max)
  BY <1>2, RecentAges DEF Past
<1>4. ASSUME NEW x \in ages, x < MinSeparation, x < max
      PROVE  x + 1 \in Past(ages, max)
  <2>1. \A y \in older : y < x + 1 => y < MinSeparation
    BY <1>2, <1>4, Bounds
  <2> QED BY <1>1, <1>2, <1>4, <2>1
<1>5. ASSUME NEW x \in ages, x >= MinSeparation, x < max,
             MinSeparation \notin Past(ages, max)
      PROVE  x + 1 \in Past(ages, max)
  <2>1. MinSeparation - 1 \notin ages
    BY <1>4, <1>5, <1>2, Bounds
  <2>2. ASSUME NEW y \in ages, y + 1 < x + 1 PROVE y + 1 < MinSeparation
    BY <1>2, <1>5, <2>1, <2>2, Bounds DEF AgesInv
  <2>3. \A y \in older : y < x + 1 => y < MinSeparation
    BY <2>2
  <2> QED BY <1>1, <1>2, <1>5, <2>3
<1> QED BY <1>3, <1>4, <1>5

\* A candidate's witness outlives a sighting.
LEMMA CandNoted ==
  ASSUME NEW max \in Nat, NEW ages, AgesInv(ages, max), NEW c, CandInv(c, ages, max)
  PROVE  CandInv(c, Noted(ages, max), max)
BY NotedAges DEF CandInv

\* And a tick.
LEMMA CandPast ==
  ASSUME NEW max \in Nat, NEW ages, AgesInv(ages, max), NEW X,
         NEW c \in Candidate(X), c.of # None, CandInv(c, ages, max)
  PROVE  CandInv(AgedCandidate(c, max), Past(ages, max), max)
<1> DEFINE d == AgedCandidate(c, max)
<1>1. d.age = IF c.age < max + 1 THEN c.age + 1 ELSE max + 1
  BY DEF AgedCandidate, Older, Candidate
<1> HIDE DEF d
<1>2. c.age \in 0..max+1 /\ d.age \in 0..max+1
  BY <1>1 DEF CandInv
<1>3. d.age < MinSeparation /\ d.age <= max => d.age \in Past(ages, max)
  BY <1>1, <1>2, PastAges, Bounds DEF CandInv
<1>4. ASSUME d.age \in MinSeparation..max
      PROVE  \E x \in Past(ages, max) : x \in MinSeparation..d.age
  <2>1. c.age = d.age - 1 /\ c.age < max
    BY <1>1, <1>2, <1>4, Bounds
  <2>2. CASE c.age < MinSeparation
    <3>1. c.age \in ages /\ c.age + 1 = MinSeparation
      BY <1>2, <1>4, <2>1, <2>2, Bounds DEF CandInv
    <3>2. c.age + 1 \in Past(ages, max)
      BY <2>1, <2>2, <3>1, PastAges
    <3>3. d.age = c.age + 1
      BY <1>2, <2>1
    <3>4. d.age \in Past(ages, max)
      BY <3>2, <3>3
    <3> QED BY <1>4, <3>4, Bounds
  <2>3. CASE c.age >= MinSeparation
    <3>1. PICK x \in ages : x \in MinSeparation..c.age
      BY <1>2, <2>1, <2>3, Bounds DEF CandInv
    <3>2. x + 1 \in Past(ages, max) \/ MinSeparation \in Past(ages, max)
      BY <2>1, <3>1, <1>2, PastAges, Bounds
    <3> QED BY <1>2, <1>4, <2>1, <3>1, <3>2, Bounds
  <2> QED BY <1>2, <2>2, <2>3, Bounds
<1> QED BY <1>2, <1>3, <1>4 DEF CandInv, d

\* One thing is seen once more: what stands for it, or for another, still does.
LEMMA SeenAgain ==
  ASSUME NEW max \in Nat, NEW X, NEW slots, NEW cs, NEW history, NEW x \in X,
         HistoryInv(history, X, max), CandsInv(slots, cs, X, history, max)
  PROVE  LET h == [history EXCEPT ![x] = Noted(@, max)]
         IN  HistoryInv(h, X, max) /\ CandsInv(slots, cs, X, h, max)
<1> DEFINE h == [history EXCEPT ![x] = Noted(@, max)]
<1>1. /\ history[x] \in SUBSET Nat /\ AgesInv(history[x], max)
      /\ Noted(history[x], max) \in SUBSET Nat
      /\ AgesInv(Noted(history[x], max), max)
  <2>1. history[x] \in SUBSET Nat /\ AgesInv(history[x], max)
    BY DEF HistoryInv
  <2>2. AgesInv(Noted(history[x], max), max)
    BY <2>1, NotedAges
  <2> QED BY <2>1, <2>2 DEF AgesInv
<1>2. /\ h \in [X -> SUBSET Nat] /\ h[x] = Noted(history[x], max)
      /\ \A y \in X : y # x => h[y] = history[y]
  BY <1>1 DEF HistoryInv
<1> HIDE DEF h
<1>3. HistoryInv(h, X, max)
  BY <1>1, <1>2 DEF HistoryInv
<1>4. ASSUME NEW i \in slots, cs[i].of # None
      PROVE  CandInv(cs[i], h[cs[i].of], max)
  <2>1. CandInv(cs[i], history[cs[i].of], max) /\ cs[i].of \in X
    BY <1>4 DEF CandsInv, Candidate
  <2> QED BY <1>1, <1>2, <2>1, CandNoted
<1> QED BY <1>3, <1>4 DEF CandsInv, h

\* A candidate that has been confirmed is used up.
LEMMA UsedUp ==
  ASSUME NEW max, NEW X, NEW slots, NEW cs, NEW history, NEW i \in slots,
         CandsInv(slots, cs, X, history, max)
  PROVE  CandsInv(slots, [cs EXCEPT ![i] = NoCandidate], X, history, max)
BY DEF CandsInv, Candidate, NoCandidate

\* What was seen becomes a candidate, one that is too young to confirm stays.
LEMMA Replaced ==
  ASSUME NEW max \in Nat, NEW X, NEW slots, NEW cs, NEW history, NEW x \in X,
         NEW i \in slots, NEW c \in {cs[i], [of |-> x, age |-> 0]},
         HistoryInv(history, X, max), CandsInv(slots, cs, X, history, max)
  PROVE  LET h == [history EXCEPT ![x] = Noted(@, max)]
         IN  CandsInv(slots, [cs EXCEPT ![i] = c], X, h, max)
<1> DEFINE h == [history EXCEPT ![x] = Noted(@, max)]
           d == [cs EXCEPT ![i] = c]
           first == [of |-> x, age |-> 0]
<1>1. CandsInv(slots, cs, X, h, max)
  BY SeenAgain
<1>2. first \in Candidate(X) /\ CandInv(first, h[x], max)
  <2>1. AgesInv(history[x], max) /\ h[x] = Noted(history[x], max)
    BY DEF HistoryInv
  <2>2. 0 \in h[x]
    BY <2>1, NotedAges
  <2> QED BY <2>2, Bounds DEF Candidate, CandInv
<1> HIDE DEF h
<1>3. /\ d \in [slots -> Candidate(X)] /\ d[i] \in {cs[i], first}
      /\ \A j \in slots : j # i => d[j] = cs[j]
  BY <1>1, <1>2 DEF CandsInv
<1> HIDE DEF d
<1>4. ASSUME NEW j \in slots, d[j].of # None
      PROVE  CandInv(d[j], h[d[j].of], max)
  BY <1>1, <1>2, <1>3, <1>4 DEF CandsInv
<1> QED BY <1>3, <1>4 DEF CandsInv, h, d

\* What confirms was seen before, apart and in time.
LEMMA Confirmed ==
  ASSUME NEW max \in Nat, NEW X, NEW slots, NEW cs, NEW history, NEW x \in X, x # None,
         NEW i \in slots, CandsInv(slots, cs, X, history, max), Confirms(cs[i], x, max)
  PROVE  Paired(history[x], max)
<1>1. CandInv(cs[i], history[x], max) /\ cs[i].age \in MinSeparation..max
  BY DEF CandsInv, Confirms
<1>2. PICK y \in history[x] : y \in MinSeparation..cs[i].age
  BY <1>1 DEF CandInv
<1>3. y \in MinSeparation..max
  BY <1>1, <1>2, Bounds
<1> QED BY <1>2, <1>3 DEF Paired

\* A tick.
LEMMA TickedCands ==
  ASSUME NEW max \in Nat, NEW X, NEW slots, NEW cs, NEW history,
         HistoryInv(history, X, max), CandsInv(slots, cs, X, history, max)
  PROVE  LET h == [x \in X |-> Past(history[x], max)]
         IN  /\ HistoryInv(h, X, max)
             /\ CandsInv(slots, [i \in slots |-> AgedCandidate(cs[i], max)], X, h, max)
<1> DEFINE h == [x \in X |-> Past(history[x], max)]
           d == [i \in slots |-> AgedCandidate(cs[i], max)]
<1>1. ASSUME NEW x \in X
      PROVE  AgesInv(history[x], max) /\ AgesInv(h[x], max) /\ h[x] \in SUBSET Nat
  <2>1. AgesInv(history[x], max)
    BY DEF HistoryInv
  <2>2. AgesInv(h[x], max)
    BY <2>1, PastAges
  <2> QED BY <2>1, <2>2 DEF AgesInv
<1>2. HistoryInv(h, X, max)
  BY <1>1 DEF HistoryInv
<1>3. ASSUME NEW i \in slots
      PROVE  /\ d[i] \in Candidate(X)
             /\ d[i].of # None => CandInv(d[i], h[d[i].of], max)
  <2>1. cs[i] \in Candidate(X) /\ d[i] = AgedCandidate(cs[i], max)
    BY DEF CandsInv
  <2>2. d[i] \in Candidate(X) /\ d[i].of = cs[i].of
    BY <2>1 DEF AgedCandidate, Candidate, Older
  <2>3. CASE cs[i].of # None
    <3>1. cs[i].of \in X /\ CandInv(cs[i], history[cs[i].of], max)
      BY <2>1, <2>3 DEF CandsInv, Candidate
    <3>2. CandInv(AgedCandidate(cs[i], max), Past(history[cs[i].of], max), max)
      BY <1>1, <2>1, <2>3, <3>1, CandPast
    <3> QED BY <2>1, <2>2, <3>1, <3>2
  <2> QED BY <2>2, <2>3
<1> QED BY <1>2, <1>3 DEF CandsInv

-----------------------------------------------------------------------------
(* What is done to a slot *)

\* What becomes of the time of the last frame and the time to live.
Kept(t, s) == t.last \in {0, s.last} /\ t.ttl \in {SeenTtl, s.ttl}

\* One sweep more or less.
LEMMA SpellFacts ==
  ASSUME NEW n \in Nat, NEW l \in 0..n
  PROVE  /\ Spell(n, l) \in Nat /\ Spell(n, n) = 0 /\ Spell(n, 0) = n * Period
         /\ l > 0 => /\ Spell(n, l - 1) = Spell(n, l) + Period
                     /\ Spell(n, l) + Period <= n * Period
<1>1. Spell(n, l) \in Nat /\ n * Period \in Nat
  BY Bounds DEF Spell
<1>2. Spell(n, n) = 0 /\ Spell(n, 0) = n * Period
  BY Bounds DEF Spell
<1>3. ASSUME l > 0 PROVE Spell(n, l - 1) = Spell(n, l) + Period
  BY <1>3, Bounds DEF Spell
<1>4. ASSUME l > 0 PROVE Spell(n, l) + Period <= n * Period
  <2>1. n * Period = Spell(n, l) + l * Period
    BY Bounds DEF Spell
  <2>2. l * Period >= Period
    BY <1>4, Bounds
  <2> QED BY <1>1, <2>1, <2>2, Bounds
<1> QED BY <1>1, <1>2, <1>3, <1>4

\* A slot nobody has entered.
LEMMA EmptySlotOK ==
  ASSUME NEW d \in Nat
  PROVE  SlotInv(EmptySlot, d) /\ EmptySlot.icao = None /\ ~EmptySlot.earned
<1>1. EmptySlot \in Slot
  BY Bounds DEF EmptySlot, Slot, Values, Fix
<1>2. TimeInv(EmptySlot, d)
  BY SpellFacts, Bounds DEF EmptySlot, TimeInv
<1> QED BY <1>1, <1>2, Bounds DEF SlotInv, EmptySlot, ToldInv

\* A frame names the address, or is sound as well.
LEMMA MentionedOK ==
  ASSUME NEW d \in Nat, NEW s, SlotInv(s, d), s.icao # None
  PROVE  /\ SlotInv(Mentioned(s), d) /\ Mentioned(s).icao = s.icao
         /\ Mentioned(s).named = 0
         /\ Mentioned(s) = [s EXCEPT !.named = 0]
         /\ SlotInv(Accepted(s), d) /\ Accepted(s).icao = s.icao
         /\ Accepted(s).named = 0 /\ Accepted(s).sound = 0
         /\ Accepted(s).earned = s.earned
         /\ Kept(Mentioned(s), s) /\ Kept(Accepted(s), s)
<1>1. s \in Slot /\ Spell(SeenTtl, s.ttl) \in Nat /\ Spell(TrustTtl, s.trust) \in Nat
  BY SpellFacts, Bounds DEF SlotInv, Slot
<1>2. Mentioned(s) \in Slot /\ Accepted(s) \in Slot
  BY <1>1 DEF Mentioned, Accepted, Slot
<1>3. TimeInv(Mentioned(s), d) /\ TimeInv(Accepted(s), d)
  BY <1>1 DEF Mentioned, Accepted, Slot, SlotInv, TimeInv
<1>4. ToldInv(Mentioned(s)) /\ ToldInv(Accepted(s))
  BY <1>1 DEF Mentioned, Accepted, Slot, SlotInv, ToldInv
<1> QED BY <1>1, <1>2, <1>3, <1>4 DEF Mentioned, Accepted, Slot, SlotInv, Kept

\* A sighting.
LEMMA SoundOK ==
  ASSUME NEW d \in Nat, NEW s, SlotInv(s, d), s.icao # None, NEW door, NEW ica
  PROVE  LET t == Sound(s, door, ica)
         IN  /\ SlotInv(t, d) /\ t.icao = s.icao /\ t.named = 0 /\ t.sound = 0
             /\ s.earned \/ Paired(sighted[door][ica], DoorMax(door)) => t.earned
             /\ Kept(t, s)
<1> DEFINE t == Sound(s, door, ica)
           pair == Paired(sighted[door][ica], DoorMax(door))
<1>1. s \in Slot /\ Spell(SeenTtl, s.ttl) \in Nat /\ Spell(TrustTtl, s.trust) \in Nat
  BY SpellFacts, Bounds DEF SlotInv, Slot
<1>2. (s.earned \/ pair) \in BOOLEAN
  BY DEF Paired
<1>3. t = [s EXCEPT !.named = 0, !.sound = 0, !.earned = s.earned \/ pair]
  BY DEF Sound
<1> HIDE DEF t, pair
<1>4. t \in Slot /\ (s.earned \/ pair => t.earned)
  BY <1>1, <1>2, <1>3 DEF Slot
<1>5. TimeInv(t, d) /\ ToldInv(t)
  BY <1>1, <1>3, <1>4 DEF Slot, SlotInv, TimeInv, ToldInv
<1> QED BY <1>1, <1>3, <1>4, <1>5 DEF Slot, SlotInv, Kept, t, pair

\* Times to live begin again.
LEMMA SeenOK ==
  ASSUME NEW d \in Nat, NEW s, SlotInv(s, d), s.icao # None, s.named = 0
  PROVE  /\ SlotInv(Seen(s), d) /\ Seen(s).icao = s.icao
         /\ Kept(Seen(s), s) /\ Kept(TrustedSeen(s), s)
         /\ s.sound = 0 /\ s.earned =>
              SlotInv(TrustedSeen(s), d) /\ TrustedSeen(s).icao = s.icao
<1>1. s \in Slot /\ Spell(SeenTtl, SeenTtl) = 0 /\ Spell(TrustTtl, TrustTtl) = 0
  BY SpellFacts, Bounds DEF SlotInv, Slot
<1>2. Seen(s) \in Slot /\ TrustedSeen(s) \in Slot
  <2>1. SeenTtl \in 0..SeenTtl /\ TrustTtl \in 0..TrustTtl
    BY Bounds
  <2>2. Seen(s) \in Slot
    BY <1>1, <2>1 DEF Seen, Slot
  <2>3. TrustedSeen(s) \in Slot
    BY <1>1, <2>1 DEF TrustedSeen, Slot
  <2> QED BY <2>2, <2>3
<1>3. /\ TimeInv(Seen(s), d)
      /\ s.sound = 0 /\ s.earned => TimeInv(TrustedSeen(s), d)
  BY <1>1 DEF Seen, TrustedSeen, Slot, SlotInv, TimeInv
<1>4. ToldInv(Seen(s)) /\ ToldInv(TrustedSeen(s))
  BY <1>1 DEF Seen, TrustedSeen, Slot, SlotInv, ToldInv
<1> QED BY <1>1, <1>2, <1>3, <1>4 DEF Seen, TrustedSeen, Slot, SlotInv, Kept

\* An address is entered, over another or with another capability.
LEMMA InsertedOK ==
  ASSUME NEW d \in Nat, NEW s, SlotInv(s, d), NEW ica \in Ica
  PROVE  /\ SlotInv(Inserted(s, ica), d) /\ Inserted(s, ica).icao = ica
         /\ Holds(s, ica.addr) => Kept(Inserted(s, ica), s)
<1>1. s \in Slot /\ ica # None
  BY Bounds DEF SlotInv
<1>2. CASE s.icao # None /\ s.icao.addr = ica.addr
  <2>1. Inserted(s, ica) = [s EXCEPT !.icao = ica]
    BY <1>2 DEF Inserted
  <2>2. Inserted(s, ica) \in Slot
    BY <1>1, <2>1 DEF Slot
  <2>3. TimeInv(Inserted(s, ica), d) /\ ToldInv(Inserted(s, ica))
    BY <1>1, <2>1 DEF Slot, SlotInv, TimeInv, ToldInv
  <2> QED BY <1>1, <2>1, <2>2, <2>3 DEF Slot, SlotInv, Kept
<1>3. CASE ~(s.icao # None /\ s.icao.addr = ica.addr)
  <2>1. Inserted(s, ica) = [EmptySlot EXCEPT !.bit = s.bit, !.icao = ica]
    BY <1>3 DEF Inserted, Reset, EmptySlot
  <2>2. EmptySlot \in Slot /\ SlotInv(EmptySlot, d)
    BY EmptySlotOK DEF SlotInv
  <2> HIDE DEF EmptySlot
  <2>3. Inserted(s, ica) \in Slot
    BY <1>1, <2>1, <2>2 DEF Slot
  <2>4. TimeInv(Inserted(s, ica), d) /\ ToldInv(Inserted(s, ica))
    BY <1>1, <2>1, <2>2 DEF Slot, SlotInv, TimeInv, ToldInv
  <2> QED BY <1>1, <1>3, <2>1, <2>2, <2>3, <2>4 DEF Slot, SlotInv, Holds
<1> QED BY <1>2, <1>3

\* A frame is emitted, or is a copy of the last one.
LEMMA EmittedOK ==
  ASSUME NEW d \in Nat, NEW s, SlotInv(s, d), s.icao # None
  PROVE  /\ SlotInv([s EXCEPT !.last = 0], d) /\ [s EXCEPT !.last = 0].icao = s.icao
         /\ Kept([s EXCEPT !.last = 0], s)
         /\ s.trust > 0 =>
              /\ SlotInv(Emitted(s), d) /\ Emitted(s).icao = s.icao
              /\ Emitted(s).last = 0 /\ Emitted(s).ttl = SeenTtl
<1>1. ASSUME NEW t, SlotInv(t, d), t.icao = s.icao
      PROVE  /\ SlotInv([t EXCEPT !.last = 0], d)
             /\ [t EXCEPT !.last = 0].last = 0 /\ [t EXCEPT !.last = 0].ttl = t.ttl
             /\ [t EXCEPT !.last = 0].icao = t.icao
  <2>1. t \in Slot /\ Spell(SeenTtl, t.ttl) \in Nat /\ Spell(TrustTtl, t.trust) \in Nat
    BY <1>1, SpellFacts, Bounds DEF SlotInv, Slot
  <2> DEFINE u == [t EXCEPT !.last = 0]
  <2>2. u \in Slot
    <3>1. 0 \in 0..DupWindow
      BY Bounds
    <3> QED BY <2>1, <3>1 DEF Slot
  <2>3. TimeInv(u, d) /\ ToldInv(u)
    BY <1>1, <2>1 DEF Slot, SlotInv, TimeInv, ToldInv
  <2> QED BY <1>1, <2>1, <2>2, <2>3 DEF Slot, SlotInv
<1>2. ASSUME s.trust > 0
      PROVE  /\ SlotInv(Emitted(s), d) /\ Emitted(s).icao = s.icao
             /\ Emitted(s).last = 0 /\ Emitted(s).ttl = SeenTtl
  <2> DEFINE t == TrustedSeen(Accepted(s))
  <2>1. s.earned
    BY <1>2 DEF SlotInv, TimeInv
  <2>2. SlotInv(t, d) /\ t.icao = s.icao
    BY <2>1, MentionedOK, SeenOK
  <2>3. t.ttl = SeenTtl
    BY DEF TrustedSeen, Accepted, Slot, SlotInv
  <2>4. Emitted(s) = [t EXCEPT !.last = 0]
    BY DEF Emitted
  <2> HIDE DEF t
  <2> QED BY <1>1, <2>2, <2>3, <2>4
<1> QED BY <1>1, <1>2 DEF Kept

\* A position is noted, and maybe a reference with it.
LEMMA PositionOK ==
  ASSUME NEW d \in Nat, NEW s, SlotInv(s, d), s.icao # None, NEW f \in Squitters
  PROVE  LET t == WithPosition(s, f)
         IN  /\ SlotInv(t, d) /\ t.icao = s.icao
             /\ t.named = s.named /\ t.sound = s.sound
             /\ t.earned = s.earned /\ t.trust = s.trust
             /\ Kept(t, s)
<1>1. s \in Slot
  BY DEF SlotInv
<1>2. CASE f.position = None
  BY <1>2 DEF WithPosition, Kept
<1>3. CASE f.position # None
  <2> DEFINE cpr == f.position.cpr
             fix == [cpr |-> cpr, age |-> 0]
             half == IF f.position.odd THEN "odd" ELSE "even"
             told == s.told \union {Tells(half, cpr)}
             even == IF f.position.odd THEN s.even ELSE fix
             odd == IF f.position.odd THEN fix ELSE s.odd
             place == DecodeCpr(even.cpr, odd.cpr)
             new == [cpr |-> place, age |-> 0]
             t == WithPosition(s, f)
  <2>1. cpr \in Cprs /\ fix \in Fix(Cprs, PairWindow + 1)
    <3>1. cpr \in Cprs
      BY <1>3 DEF Cprs
    <3> QED BY <3>1, Bounds DEF Fix
  <2>2. /\ even \in Fix(Cprs, PairWindow + 1) /\ odd \in Fix(Cprs, PairWindow + 1)
        /\ told \in SUBSET [field : Field \union {"even", "odd"}, value : Values \union Cprs]
    <3>1. s.even \in Fix(Cprs, PairWindow + 1) /\ s.odd \in Fix(Cprs, PairWindow + 1)
      BY <1>1 DEF Slot
    <3>2. Tells(half, cpr) \in [field : Field \union {"even", "odd"}, value : Values \union Cprs]
      BY <2>1 DEF Tells
    <3>3. s.told \in SUBSET [field : Field \union {"even", "odd"}, value : Values \union Cprs]
      BY <1>1 DEF Slot
    <3> HIDE DEF fix, cpr
    <3> QED BY <2>1, <3>1, <3>2, <3>3
  <2>3. /\ even # None => even.cpr \in Cprs /\ Tells("even", even.cpr) \in told
        /\ odd # None => odd.cpr \in Cprs /\ Tells("odd", odd.cpr) \in told
    <3>1. s.even # None => s.even.cpr \in Cprs /\ Tells("even", s.even.cpr) \in s.told
      BY <1>1 DEF Slot, Fix, SlotInv, ToldInv
    <3>2. s.odd # None => s.odd.cpr \in Cprs /\ Tells("odd", s.odd.cpr) \in s.told
      BY <1>1 DEF Slot, Fix, SlotInv, ToldInv
    <3>3. fix.cpr = cpr
      OBVIOUS
    <3> HIDE DEF fix, cpr
    <3> QED BY <2>1, <3>1, <3>2, <3>3
  <2>4. \/ t = [s EXCEPT !.even = even, !.odd = odd, !.told = told]
        \/ /\ t = [s EXCEPT !.even = even, !.odd = odd, !.told = told, !.ref = new]
           /\ even.cpr \in Cprs /\ Tells("even", even.cpr) \in told
           /\ odd.cpr \in Cprs /\ Tells("odd", odd.cpr) \in told /\ place # None
    <3> DEFINE p == PositionNoted(s, f.position)
    <3>1. CASE f.position.odd
      <4> DEFINE u == [s EXCEPT !.odd = fix]
      <4>1. u.even = s.even /\ u.odd = fix /\ even = s.even /\ odd = fix
            /\ u = [s EXCEPT !.even = even, !.odd = odd]
        BY <1>1, <3>1 DEF Slot
      <4>2. \/ p = u
            \/ p = [u EXCEPT !.ref = new] /\ place # None /\ s.even # None
        BY <3>1, <4>1 DEF PositionNoted
      <4>3. t = [p EXCEPT !.told = p.told \union {Tells("odd", cpr)}]
        BY <1>3, <3>1 DEF WithPosition
      <4>4. half = "odd" /\ fix.cpr = cpr
        BY <3>1
      <4>5. odd.cpr \in Cprs /\ Tells("odd", odd.cpr) \in told
        BY <2>1, <4>1, <4>4
      <4>6. s.even # None => even.cpr \in Cprs /\ Tells("even", even.cpr) \in told
        BY <2>3, <4>1
      <4>7. p.told = s.told
        BY <1>1, <4>1, <4>2 DEF Slot
      <4> HIDE DEF fix, cpr, new, even, odd, p, place
      <4>8. CASE p = u
        BY <1>1, <4>1, <4>3, <4>4, <4>7, <4>8 DEF Slot
      <4>9. CASE p = [u EXCEPT !.ref = new] /\ place # None /\ s.even # None
        <5>1. told = p.told \union {Tells("odd", cpr)}
          BY <4>4, <4>7
        <5>2. t = [[[s EXCEPT !.even = even, !.odd = odd] EXCEPT !.ref = new]
                     EXCEPT !.told = told]
          BY <4>1, <4>3, <4>9, <5>1
        <5> HIDE DEF told, t
        <5>3. t = [s EXCEPT !.even = even, !.odd = odd, !.told = told, !.ref = new]
          BY <1>1, <5>2 DEF Slot
        <5> QED BY <4>5, <4>6, <4>9, <5>3
      <4> QED BY <4>2, <4>8, <4>9
    <3>2. CASE ~f.position.odd
      <4> DEFINE u == [s EXCEPT !.even = fix]
      <4>1. u.odd = s.odd /\ u.even = fix /\ odd = s.odd /\ even = fix
            /\ u = [s EXCEPT !.even = even, !.odd = odd]
        BY <1>1, <3>2 DEF Slot
      <4>2. \/ p = u
            \/ p = [u EXCEPT !.ref = new] /\ place # None /\ s.odd # None
        BY <3>2, <4>1 DEF PositionNoted
      <4>3. t = [p EXCEPT !.told = p.told \union {Tells("even", cpr)}]
        BY <1>3, <3>2 DEF WithPosition
      <4>4. half = "even" /\ fix.cpr = cpr
        BY <3>2
      <4>5. even.cpr \in Cprs /\ Tells("even", even.cpr) \in told
        BY <2>1, <4>1, <4>4
      <4>6. s.odd # None => odd.cpr \in Cprs /\ Tells("odd", odd.cpr) \in told
        BY <2>3, <4>1
      <4>7. p.told = s.told
        BY <1>1, <4>1, <4>2 DEF Slot
      <4> HIDE DEF fix, cpr, new, even, odd, p, place
      <4>8. CASE p = u
        BY <1>1, <4>1, <4>3, <4>4, <4>7, <4>8 DEF Slot
      <4>9. CASE p = [u EXCEPT !.ref = new] /\ place # None /\ s.odd # None
        <5>1. told = p.told \union {Tells("even", cpr)}
          BY <4>4, <4>7
        <5>2. t = [[[s EXCEPT !.even = even, !.odd = odd] EXCEPT !.ref = new]
                     EXCEPT !.told = told]
          BY <4>1, <4>3, <4>9, <5>1
        <5> HIDE DEF told, t
        <5>3. t = [s EXCEPT !.even = even, !.odd = odd, !.told = told, !.ref = new]
          BY <1>1, <5>2 DEF Slot
        <5> QED BY <4>5, <4>6, <4>9, <5>3
      <4> QED BY <4>2, <4>8, <4>9
    <3> QED BY <3>1, <3>2
  <2>5. even.cpr \in Cprs /\ odd.cpr \in Cprs => new \in Fix(Places, PositionMaxAge + 1)
    <3>1. even.cpr \in Cprs /\ odd.cpr \in Cprs => place \in Places
      BY DEF Places
    <3> QED BY <3>1, Bounds DEF Fix
  <2>6. s.told \subseteq told /\ new.cpr = place
    OBVIOUS
  <2>7. ToldInv(s) /\ TimeInv(s, d)
    BY DEF SlotInv
  <2> HIDE DEF cpr, fix, half, told, even, odd, place, new, t
  <2>8. t \in Slot
    <3>1. CASE t = [s EXCEPT !.even = even, !.odd = odd, !.told = told]
      BY <1>1, <2>2, <3>1 DEF Slot
    <3>2. CASE /\ t = [s EXCEPT !.even = even, !.odd = odd, !.told = told, !.ref = new]
               /\ new \in Fix(Places, PositionMaxAge + 1)
      BY <1>1, <2>2, <3>2 DEF Slot
    <3> QED BY <2>4, <2>5, <3>1, <3>2
  <2>9. /\ t.icao = s.icao /\ t.named = s.named /\ t.sound = s.sound
        /\ t.earned = s.earned /\ t.trust = s.trust /\ t.ttl = s.ttl
        /\ t.last = s.last /\ t.alt = s.alt
        /\ t.altSure = s.altSure /\ t.squawk = s.squawk /\ t.squawkSure = s.squawkSure
        /\ t.even = even /\ t.odd = odd /\ t.told = told
        /\ \/ t.ref = s.ref
           \/ /\ t.ref = new /\ even.cpr \in Cprs /\ Tells("even", even.cpr) \in told
              /\ odd.cpr \in Cprs /\ Tells("odd", odd.cpr) \in told /\ place # None
    BY <1>1, <2>4 DEF Slot
  <2>10. place = DecodeCpr(even.cpr, odd.cpr)
    BY DEF place
  <2>11. t.ref # None =>
       \E e, o \in Cprs :
         /\ Tells("even", e) \in told /\ Tells("odd", o) \in told
         /\ DecodeCpr(e, o) # None /\ t.ref.cpr = DecodeCpr(e, o)
    <3>1. CASE t.ref = s.ref
      BY <2>6, <2>7, <3>1 DEF ToldInv
    <3>2. CASE ~(t.ref = s.ref)
      BY <2>6, <2>9, <2>10, <3>2
    <3> QED BY <3>1, <3>2
  <2>12. ToldInv(t)
    BY <2>3, <2>6, <2>7, <2>9, <2>11 DEF ToldInv
  <2>13. TimeInv(t, d)
    BY <2>7, <2>9 DEF TimeInv
  <2> QED BY <2>8, <2>9, <2>12, <2>13 DEF SlotInv, Kept, t
<1> QED BY <1>2, <1>3

\* A value is checked: what fits was told before, what is kept is told now.
LEMMA CheckedOK ==
  ASSUME NEW d \in Nat, NEW s, SlotInv(s, d), s.icao # None, NEW f \in ValueFrames
  PROVE  LET t == Checked(s, f)
         IN  /\ SlotInv(t, d) /\ t.icao = s.icao /\ t.trust = s.trust
             /\ Kept(t, s)
             /\ Fits(s, f) => Corroborates(s, f)
<1> DEFINE t == Checked(s, f)
           told == s.told \union {Tells(f.field, f.value)}
<1>1. /\ s \in Slot /\ f.value \in Values /\ f.field \in Field
      /\ ToldInv(s) /\ TimeInv(s, d)
  BY FrameAssumption DEF SlotInv, Values
<1>2. told \in SUBSET [field : Field \union {"even", "odd"}, value : Values \union Cprs]
  BY <1>1 DEF Slot, Tells
<1>3. Fits(s, f) => Corroborates(s, f)
  <2>1. CASE f.field = "altitude"
    BY <1>1, <2>1 DEF Fits, AltitudeFits, Corroborates, ToldInv, Tells
  <2>2. CASE f.field = "squawk"
    BY <1>1, <2>2 DEF Fits, SquawkFits, Corroborates, ToldInv, Tells
  <2> QED BY <1>1, <2>1, <2>2 DEF Field
<1>4. PICK v \in {s.alt, f.value}, vSure \in BOOLEAN,
           q \in {s.squawk, f.value}, qSure \in BOOLEAN :
        /\ t = [s EXCEPT !.alt = v, !.altSure = vSure, !.squawk = q,
                         !.squawkSure = qSure, !.told = told]
        /\ vSure => v # None
        /\ qSure => q # None
        /\ f.field = "altitude" => q = s.squawk
        /\ f.field = "squawk" => v = s.alt
  <2>1. CASE f.field = "altitude"
    <3> DEFINE c == AltitudeChecked(s, f.value)
    <3>1. t = [c EXCEPT !.told = c.told \union {Tells(f.field, f.value)}]
      BY <2>1 DEF Checked
    <3>2. PICK v \in {s.alt, f.value}, vSure \in BOOLEAN :
            /\ c = [s EXCEPT !.alt = v, !.altSure = vSure]
            /\ vSure => v # None
      BY <1>1 DEF AltitudeChecked, AltitudeFits, Slot, SlotInv
    <3> HIDE DEF c
    <3>3. c.told = s.told
      BY <1>1, <3>2 DEF Slot
    <3>4. t = [s EXCEPT !.alt = v, !.altSure = vSure, !.squawk = s.squawk,
                        !.squawkSure = s.squawkSure, !.told = told]
      BY <1>1, <3>1, <3>2, <3>3 DEF Slot
    <3> QED BY <1>1, <2>1, <3>2, <3>4 DEF Slot, SlotInv
  <2>2. CASE f.field = "squawk"
    <3> DEFINE c == SquawkChecked(s, f.value)
    <3>1. t = [c EXCEPT !.told = c.told \union {Tells(f.field, f.value)}]
      BY <2>2 DEF Checked
    <3>2. PICK q \in {s.squawk, f.value}, qSure \in BOOLEAN :
            /\ c = [s EXCEPT !.squawk = q, !.squawkSure = qSure]
            /\ qSure => q # None
      BY <1>1 DEF SquawkChecked, SquawkFits, Slot, SlotInv
    <3> HIDE DEF c
    <3>3. c.told = s.told
      BY <1>1, <3>2 DEF Slot
    <3>4. t = [s EXCEPT !.alt = s.alt, !.altSure = s.altSure, !.squawk = q,
                        !.squawkSure = qSure, !.told = told]
      BY <1>1, <3>1, <3>2, <3>3 DEF Slot
    <3> QED BY <1>1, <2>2, <3>2, <3>4 DEF Slot, SlotInv
  <2> QED BY <1>1, <2>1, <2>2 DEF Field
<1> HIDE DEF t
<1>5. s.told \subseteq told /\ Tells(f.field, f.value) \in told
  OBVIOUS
<1> HIDE DEF told
<1>6. t \in Slot
  BY <1>1, <1>2, <1>4 DEF Slot
<1>7. /\ t.alt = v /\ t.altSure = vSure /\ t.squawk = q /\ t.squawkSure = qSure
      /\ t.told = told /\ t.icao = s.icao /\ t.trust = s.trust /\ t.ttl = s.ttl
      /\ t.named = s.named /\ t.sound = s.sound /\ t.earned = s.earned
      /\ t.last = s.last
      /\ t.even = s.even /\ t.odd = s.odd /\ t.ref = s.ref
  BY <1>1, <1>4 DEF Slot
<1>8. ToldInv(t)
  <2>1. v # None => Tells("altitude", v) \in told
    BY <1>1, <1>4, <1>5 DEF ToldInv, Field
  <2>2. q # None => Tells("squawk", q) \in told
    BY <1>1, <1>4, <1>5 DEF ToldInv, Field
  <2> QED BY <1>1, <1>5, <1>7, <2>1, <2>2 DEF ToldInv
<1>9. TimeInv(t, d)
  BY <1>1, <1>7 DEF TimeInv
<1> QED BY <1>3, <1>4, <1>6, <1>7, <1>8, <1>9 DEF SlotInv, Kept, t

\* A tick.
LEMMA AgedOK ==
  ASSUME NEW d \in Int, NEW s, SlotInv(s, d), d + 1 >= 0, Period > 0
  PROVE  /\ SlotInv(Aged(s), d + 1) /\ Aged(s).icao = s.icao
         /\ s.icao # None =>
              Aged(s).last = Older(s.last, DupWindow) /\ Aged(s).ttl = s.ttl
<1>1. s \in Slot /\ Spell(SeenTtl, s.ttl) \in Nat /\ Spell(TrustTtl, s.trust) \in Nat
  BY SpellFacts, Bounds DEF SlotInv, Slot
<1>2. CASE s.icao = None
  <2>1. Aged(s) = EmptySlot
    BY <1>2 DEF Aged, SlotInv
  <2> QED BY <1>2, <2>1, EmptySlotOK
<1>3. CASE s.icao # None
  <2> DEFINE t == Aged(s)
             bound == (SeenTtl + 1) * Period
             limit == TrustTtl * Period
  <2>1. bound \in Nat /\ limit \in Nat
    BY Bounds
  <2>2. \A a \in 0..DupWindow : Older(a, DupWindow) \in 0..DupWindow
    BY Bounds DEF Older
  <2>3. ASSUME NEW C, NEW b \in Nat, NEW x \in Fix(C, b)
        PROVE  /\ OlderSince(x, b) \in Fix(C, b)
               /\ OlderSince(x, b) # None => x # None /\ OlderSince(x, b).cpr = x.cpr
    BY DEF Fix, OlderSince, Older
  <2>4. /\ s.even \in Fix(Cprs, PairWindow + 1) /\ s.odd \in Fix(Cprs, PairWindow + 1)
        /\ s.ref \in Fix(Places, PositionMaxAge + 1)
    BY <1>1 DEF Slot
  <2>5. /\ PairWindow + 1 \in Nat /\ PositionMaxAge + 1 \in Nat
        /\ Older(s.named, bound) \in Nat /\ Older(s.named, bound) <= s.named + 1
        /\ Older(s.sound, limit) \in Nat /\ Older(s.sound, limit) <= s.sound + 1
    BY <1>1, <2>1, Bounds DEF Older, Slot
  <2>6. t = [s EXCEPT !.last = Older(s.last, DupWindow),
                      !.even = OlderSince(s.even, PairWindow + 1),
                      !.odd = OlderSince(s.odd, PairWindow + 1),
                      !.ref = OlderSince(s.ref, PositionMaxAge + 1),
                      !.named = Older(s.named, bound), !.sound = Older(s.sound, limit)]
    BY <1>3 DEF Aged
  <2> HIDE DEF t, bound, limit
  <2>7. /\ t.last = Older(s.last, DupWindow)
        /\ t.even = OlderSince(s.even, PairWindow + 1)
        /\ t.odd = OlderSince(s.odd, PairWindow + 1)
        /\ t.ref = OlderSince(s.ref, PositionMaxAge + 1)
        /\ t.named = Older(s.named, bound) /\ t.sound = Older(s.sound, limit)
        /\ t.icao = s.icao /\ t.ttl = s.ttl /\ t.trust = s.trust
        /\ t.earned = s.earned /\ t.told = s.told /\ t.alt = s.alt
        /\ t.altSure = s.altSure /\ t.squawk = s.squawk /\ t.squawkSure = s.squawkSure
    BY <1>1, <2>6 DEF Slot
  <2>8. t \in Slot
    <3>1. /\ t.last \in 0..DupWindow
          /\ t.named \in Nat /\ t.sound \in Nat
      BY <1>1, <2>2, <2>5, <2>7 DEF Slot
    <3>2. /\ t.even \in Fix(Cprs, PairWindow + 1) /\ t.odd \in Fix(Cprs, PairWindow + 1)
          /\ t.ref \in Fix(Places, PositionMaxAge + 1)
      BY <2>3, <2>4, <2>5, <2>7
    <3>3. t = [s EXCEPT !.last = t.last, !.even = t.even,
                        !.odd = t.odd, !.ref = t.ref, !.named = t.named, !.sound = t.sound]
      BY <2>6, <2>7
    <3> QED BY <1>1, <3>1, <3>2, <3>3 DEF Slot
  <2>10. TimeInv(t, d + 1)
    BY <1>1, <2>5, <2>7 DEF SlotInv, TimeInv, Slot
  <2>11. ToldInv(t)
    <3>1. ToldInv(s)
      BY DEF SlotInv
    <3>2. /\ t.even # None => s.even # None /\ t.even.cpr = s.even.cpr
          /\ t.odd # None => s.odd # None /\ t.odd.cpr = s.odd.cpr
          /\ t.ref # None => s.ref # None /\ t.ref.cpr = s.ref.cpr
      BY <2>3, <2>4, <2>5, <2>7
    <3> QED BY <2>7, <3>1, <3>2 DEF ToldInv
  <2> QED BY <1>3, <2>7, <2>8, <2>10, <2>11 DEF SlotInv, t
<1> QED BY <1>2, <1>3

\* A sweep, done at the end of a period and before the tick.
LEMMA SweptOK ==
  ASSUME NEW s, SlotInv(s, Period - 1), Period > 0
  PROVE  /\ SlotInv(Swept(s), -1)
         /\ Swept(s).icao # None =>
              /\ Swept(s).icao = s.icao /\ Swept(s).last = s.last
              /\ Swept(s).ttl = s.ttl - 1
         /\ Swept(s).icao = None => s.icao = None \/ s.ttl = 0
<1>1. s \in Slot
  BY DEF SlotInv
<1>2. SlotInv(EmptySlot, -1)
  <2>1. EmptySlot \in Slot /\ ToldInv(EmptySlot)
    BY EmptySlotOK DEF SlotInv
  <2>2. Spell(SeenTtl, 0) >= Period
    <3>1. Spell(SeenTtl, 0) = SeenTtl * Period
      BY SpellFacts, Bounds
    <3>2. SeenTtl * Period >= Period
      BY Bounds
    <3> QED BY <3>1, <3>2
  <2>3. TimeInv(EmptySlot, -1)
    BY <2>2, Bounds, SpellFacts DEF TimeInv, EmptySlot
  <2> QED BY <2>1, <2>3, EmptySlotOK, Bounds DEF SlotInv, EmptySlot
<1>3. CASE s.icao = None
  BY <1>2, <1>3 DEF Swept, SlotInv
<1>4. CASE s.icao # None /\ s.ttl = 0
  <2> DEFINE trust == IF s.trust > 0 THEN s.trust - 1 ELSE 0
             t == [s EXCEPT !.trust = trust]
             u == [EmptySlot EXCEPT !.bit = s.bit]
  <2>1. t.bit = s.bit /\ Reset(t) = u /\ ~(s.ttl > 0)
    BY <1>1, <1>4 DEF Slot, Reset
  <2>2. Swept(s) = [u EXCEPT !.bit = IsTrusted(u)]
    <3>1. Swept(s) = [Reset(t) EXCEPT !.bit = IsTrusted(Reset(t))]
      BY <1>4, <2>1, Zenon DEF Swept
    <3> QED BY <2>1, <3>1
  <2>3. ~IsTrusted(u)
    BY DEF IsTrusted, IsAlive, EmptySlot
  <2>4. IsTrusted(u) = FALSE
    BY <2>3 DEF IsTrusted
  <2>5. Swept(s) = EmptySlot
    BY <2>2, <2>4, ZenonT(40) DEF EmptySlot
  <2> QED BY <1>2, <1>4, <2>5, EmptySlotOK
<1>5. CASE s.icao # None /\ s.ttl > 0
  <2> DEFINE trust == IF s.trust > 0 THEN s.trust - 1 ELSE 0
             t == [s EXCEPT !.trust = trust]
             u == [t EXCEPT !.ttl = t.ttl - 1]
             w == Swept(s)
  <2>1. t.ttl = s.ttl /\ t.icao = s.icao
    BY <1>1 DEF Slot
  <2>2. w = [u EXCEPT !.bit = IsTrusted(u)]
    BY <1>5, <2>1 DEF Swept
  <2>3. IsTrusted(u) \in BOOLEAN
    BY DEF IsTrusted
  <2>4. trust \in 0..TrustTtl /\ s.ttl - 1 \in 0..SeenTtl
    BY <1>1, <1>5, Bounds DEF Slot
  <2>5. PICK b \in BOOLEAN : w = [s EXCEPT !.trust = trust, !.ttl = s.ttl - 1, !.bit = b]
    BY <1>1, <2>1, <2>2, <2>3 DEF Slot
  <2>6. trust > 0 => s.trust > 0 /\ trust = s.trust - 1
    BY <1>1, Bounds DEF Slot
  <2> HIDE DEF w, trust
  <2>7. w \in Slot
    BY <1>1, <2>4, <2>5 DEF Slot
  <2>8. /\ w.icao = s.icao /\ w.trust = trust /\ w.ttl = s.ttl - 1
        /\ w.named = s.named /\ w.sound = s.sound /\ w.earned = s.earned
        /\ w.last = s.last /\ w.told = s.told
        /\ w.alt = s.alt /\ w.altSure = s.altSure /\ w.squawk = s.squawk
        /\ w.squawkSure = s.squawkSure /\ w.even = s.even /\ w.odd = s.odd /\ w.ref = s.ref
    BY <1>1, <2>5 DEF Slot
  <2>9. /\ Spell(SeenTtl, s.ttl) \in Nat /\ Spell(TrustTtl, s.trust) \in Nat
        /\ Spell(SeenTtl, s.ttl - 1) = Spell(SeenTtl, s.ttl) + Period
        /\ s.trust > 0 => Spell(TrustTtl, s.trust - 1) = Spell(TrustTtl, s.trust) + Period
    BY <1>1, <1>5, SpellFacts, Bounds DEF Slot
  <2>10. s.named \in Nat /\ s.sound \in Nat
    BY <1>1 DEF Slot
  <2>11. TimeInv(w, -1)
    BY <2>6, <2>8, <2>9, <2>10, Bounds DEF SlotInv, TimeInv
  <2>12. ToldInv(w)
    BY <2>8 DEF SlotInv, ToldInv
  <2> QED BY <1>5, <2>7, <2>8, <2>11, <2>12 DEF SlotInv, w
<1>6. s.ttl \in Nat
  BY <1>1, Bounds DEF Slot
<1> QED BY <1>3, <1>4, <1>5, <1>6

-----------------------------------------------------------------------------
(* What a handler does to the table *)

\* A slot somebody has, at this moment.
EntryOK(s, addr) ==
  /\ SlotInv(s, SinceSweep(KeyOf[addr]))
  /\ Holds(s, addr)
  /\ KnownAddr(addr) => Kept(s, table[KeyOf[addr]])

\* A sweep is less than a period ago.
LEMMA Since ==
  ASSUME phase \in 0..Period-1, NEW k \in Key
  PROVE  SinceSweep(k) \in 0..Period-1 /\ Period > 0
BY Bounds, TableAssumption DEF SinceSweep, Key

\* Every address has a slot.
LEMMA AddrKey ==
  ASSUME NEW addr \in Addr
  PROVE  KeyOf[addr] \in Key
BY TableAssumption DEF Key

\* Steps of one handler: what the first keeps the second keeps, too.
LEMMA StillOK ==
  ASSUME NEW addr, NEW s, EntryOK(s, addr), NEW t,
         SlotInv(t, SinceSweep(KeyOf[addr])), t.icao = s.icao, Kept(t, s)
  PROVE  EntryOK(t, addr)
BY DEF EntryOK, Holds, Kept

\* A copy is dropped.
LEMMA CopyOK ==
  ASSUME NEW addr, NEW s, EntryOK(s, addr), SinceSweep(KeyOf[addr]) \in Nat
  PROVE  EntryOK([s EXCEPT !.last = 0], addr)
<1>1. SlotInv(s, SinceSweep(KeyOf[addr])) /\ s.icao # None
  BY DEF EntryOK, Holds
<1> QED BY <1>1, EmittedOK, StillOK

\* A frame is emitted.
LEMMA SentOK ==
  ASSUME NEW addr, NEW s, EntryOK(s, addr), SinceSweep(KeyOf[addr]) \in Nat, s.trust > 0
  PROVE  EntryOK(Emitted(s), addr) /\ Emitted(s).last = 0 /\ Emitted(s).ttl = SeenTtl
<1>1. SlotInv(s, SinceSweep(KeyOf[addr])) /\ s.icao # None
  BY DEF EntryOK, Holds
<1>2. /\ SlotInv(Emitted(s), SinceSweep(KeyOf[addr])) /\ Emitted(s).icao = s.icao
      /\ Emitted(s).last = 0 /\ Emitted(s).ttl = SeenTtl
  BY <1>1, EmittedOK
<1> QED BY <1>2, StillOK DEF Kept

\* A slot is stored, and what was emitted is recorded.
LEMMA PutAired ==
  ASSUME TableInv, UNCHANGED phase, NEW addr \in Addr, NEW s, EntryOK(s, addr),
         Put(addr, s), Airing,
         out' # None => out'.addr = addr /\ s.last = 0 /\ s.ttl = SeenTtl
  PROVE  AiredInv'
<1>1. /\ KeyOf[addr] \in Key /\ s \in Slot /\ table \in [Key -> Slot] /\ AiredInv
      /\ \A x \in Addr : KeyOf[x] \in Key
      /\ \A k \in Key : SinceSweep(k)' = SinceSweep(k)
  BY AddrKey DEF EntryOK, SlotInv, TableInv, SinceSweep
<1>2. /\ table'[KeyOf[addr]] = s
      /\ \A k \in Key : k # KeyOf[addr] => table'[k] = table[k]
  BY <1>1 DEF Put
<1>3. ASSUME NEW x \in Addr
      PROVE  /\ aired[x] \in [age : 0..DupWindow, displaced : BOOLEAN]
             /\ aired'[x] =
                  IF out' # None /\ out'.addr = x THEN [age |-> 0, displaced |-> FALSE]
                  ELSE [aired[x] EXCEPT !.displaced = @ \/ LosesSlot(x)]
             /\ LosesSlot(x) \in BOOLEAN
  BY <1>1 DEF Airing, AiredInv, LosesSlot
<1>4. ASSUME NEW x \in Addr, out' # None, out'.addr = x
      PROVE  /\ aired'[x] \in [age : 0..DupWindow, displaced : BOOLEAN]
             /\ AiringInv(aired'[x], table'[KeyOf[x]], x, SinceSweep(KeyOf[x])')
  <2>1. x = addr /\ s.last = 0 /\ s.ttl = SeenTtl /\ Holds(s, x)
    BY <1>4 DEF EntryOK
  <2>2. aired'[x] = [age |-> 0, displaced |-> FALSE]
    BY <1>3, <1>4
  <2>3. SinceSweep(KeyOf[x])' \in Int /\ SeenTtl \in Nat
    BY <1>1, Bounds, Since DEF TableInv
  <2> QED BY <1>2, <2>1, <2>2, <2>3, Bounds DEF AiringInv
<1>5. ASSUME NEW x \in Addr, ~(out' # None /\ out'.addr = x)
      PROVE  /\ aired'[x] \in [age : 0..DupWindow, displaced : BOOLEAN]
             /\ AiringInv(aired'[x], table'[KeyOf[x]], x, SinceSweep(KeyOf[x])')
  <2>1. /\ aired'[x] \in [age : 0..DupWindow, displaced : BOOLEAN]
        /\ aired'[x].age = aired[x].age
        /\ aired'[x].displaced = (aired[x].displaced \/ LosesSlot(x))
    BY <1>3, <1>5
  <2>2. /\ AiringInv(aired[x], table[KeyOf[x]], x, SinceSweep(KeyOf[x]))
        /\ SinceSweep(KeyOf[x])' = SinceSweep(KeyOf[x])
        /\ aired[x].age \in 0..DupWindow
    BY <1>1, <1>3 DEF AiredInv
  <2>3. CASE KeyOf[x] # KeyOf[addr]
    BY <1>1, <1>2, <2>1, <2>2, <2>3 DEF AiringInv
  <2>4. CASE x = addr
    <3>1. Holds(table'[KeyOf[x]], x) /\ table'[KeyOf[x]] = s
      BY <1>2, <2>4 DEF EntryOK
    <3>2. s.last \in 0..DupWindow /\ s.ttl \in 0..SeenTtl
      BY <1>1 DEF Slot
    <3>3. CASE KnownAddr(x)
      <4>1. Kept(s, table[KeyOf[x]]) /\ Holds(table[KeyOf[x]], x)
        BY <2>4, <3>3 DEF EntryOK, KnownAddr
      <4> QED BY <2>1, <2>2, <3>1, <3>2, <4>1, Bounds DEF AiringInv, Kept
    <3>4. CASE ~KnownAddr(x)
      BY <2>1, <2>2, <3>1, <3>2, <3>4, Bounds DEF AiringInv, KnownAddr
    <3> QED BY <3>3, <3>4
  <2>5. CASE x # addr /\ KeyOf[x] = KeyOf[addr]
    <3>1. s.icao # None /\ ~Holds(s, x) /\ table'[KeyOf[x]] = s
      BY <1>2, <2>5 DEF EntryOK, Holds
    <3>2. LosesSlot(x) <=> aired[x].age < DupWindow /\ KnownAddr(x)
      BY <3>1 DEF LosesSlot
    <3>3. CASE KnownAddr(x)
      BY <2>1, <2>2, <3>1, <3>2, <3>3, Bounds DEF AiringInv
    <3>4. CASE ~KnownAddr(x)
      BY <2>1, <2>2, <3>1, <3>4 DEF AiringInv, KnownAddr
    <3> QED BY <3>3, <3>4
  <2> QED BY <2>3, <2>4, <2>5
<1>6. aired' \in [Addr -> [age : 0..DupWindow, displaced : BOOLEAN]]
  <2>1. aired' = [x \in Addr |-> aired'[x]]
    BY DEF Airing
  <2> QED BY <1>4, <1>5, <2>1
<1> QED BY <1>4, <1>5, <1>6 DEF AiredInv

\* And the table is as it should be.
LEMMA PutKeeps ==
  ASSUME TableInv, UNCHANGED phase, NEW addr \in Addr, NEW s, EntryOK(s, addr),
         Put(addr, s), Airing,
         out' # None => out'.addr = addr /\ s.last = 0 /\ s.ttl = SeenTtl
  PROVE  TableInv'
<1> DEFINE i == KeyOf[addr]
<1>1. i \in Key /\ s \in Slot
  BY AddrKey DEF EntryOK, SlotInv
<1>2. /\ table' \in [Key -> Slot] /\ table'[i] = s
      /\ \A k \in Key : k # i => table'[k] = table[k]
  BY <1>1 DEF TableInv, Put
<1>3. \A k \in Key : SinceSweep(k)' = SinceSweep(k)
  BY DEF SinceSweep
<1>4. AiredInv'
  BY PutAired
<1>5. s.icao # None /\ KeyOf[s.icao.addr] = i
  BY DEF EntryOK, Holds
<1> QED BY <1>1, <1>2, <1>3, <1>4, <1>5 DEF TableInv, EntryOK

\* What is no copy comes a window after the last emission.
LEMMA NoCopy ==
  ASSUME TableInv, NEW addr \in Addr, NEW s, EntryOK(s, addr), ~IsCopy(s)
  PROVE  aired[addr].age >= DupWindow \/ aired[addr].displaced
<1>1. /\ aired[addr] \in [age : 0..DupWindow, displaced : BOOLEAN]
      /\ AiringInv(aired[addr], table[KeyOf[addr]], addr, SinceSweep(KeyOf[addr]))
      /\ s \in Slot /\ table[KeyOf[addr]] \in Slot
  BY AddrKey DEF TableInv, AiredInv, EntryOK, SlotInv
<1>2. s.last \in Nat /\ table[KeyOf[addr]].last \in Nat /\ s.last >= DupWindow
  BY <1>1, Bounds DEF Slot, IsCopy
<1>3. CASE KnownAddr(addr)
  BY <1>1, <1>2, <1>3, Bounds DEF AiringInv, KnownAddr, EntryOK, Kept
<1>4. CASE ~KnownAddr(addr)
  BY <1>1, <1>4, Bounds DEF AiringInv, KnownAddr
<1> QED BY <1>3, <1>4

\* A frame is sent, dropped as a copy, or not trusted yet.
LEMMA SendKeeps ==
  ASSUME TableInv, UNCHANGED phase, NEW addr \in Addr, NEW s, EntryOK(s, addr),
         NEW backed, backed = TRUE, Send(addr, s, backed), Airing
  PROVE  TableInv' /\ OutInv'
<1>1. SinceSweep(KeyOf[addr]) \in Nat
  BY AddrKey, Since DEF TableInv
<1>2. CASE IsCopy(s) /\ Put(addr, [s EXCEPT !.last = 0]) /\ out' = None
  <2>1. EntryOK([s EXCEPT !.last = 0], addr)
    BY <1>1, CopyOK
  <2> QED BY <1>2, <2>1, PutKeeps DEF OutInv
<1>3. CASE ~IsCopy(s) /\ ~IsTrusted(s) /\ Put(addr, s) /\ out' = None
  BY <1>3, PutKeeps DEF OutInv
<1>4. CASE /\ ~IsCopy(s) /\ IsTrusted(s)
           /\ Put(addr, Emitted(s)) /\ out' = Emission(addr, FALSE, backed)
  <2>1. EntryOK(Emitted(s), addr) /\ Emitted(s).last = 0 /\ Emitted(s).ttl = SeenTtl
    BY <1>1, <1>4, SentOK DEF IsTrusted
  <2>2. aired[addr].age >= DupWindow \/ aired[addr].displaced
    BY <1>4, NoCopy
  <2>3. /\ out'.addr = addr /\ out'.since = aired[addr].age
        /\ out'.displaced = aired[addr].displaced /\ out'.backed = TRUE
    BY <1>4 DEF Emission
  <2>4. TableInv'
    BY <1>4, <2>1, <2>3, PutKeeps
  <2> QED BY <2>2, <2>3, <2>4 DEF OutInv
<1> QED BY <1>2, <1>3, <1>4 DEF Send

\* The slot of an address that is there.
LEMMA KnownOK ==
  ASSUME TableInv, NEW ica \in Ica, Known(ica)
  PROVE  /\ EntryOK(SlotOf(ica), ica.addr) /\ ica.addr \in Addr
         /\ Trusted(ica) => SlotOf(ica).earned
<1>1. ica.addr \in Addr /\ KeyOf[ica.addr] \in Key /\ ica # None
  BY AddrKey, Bounds DEF Ica
<1>2. EntryOK(SlotOf(ica), ica.addr)
  BY <1>1 DEF TableInv, EntryOK, Known, SlotOf, Holds, Kept
<1>3. Trusted(ica) => SlotOf(ica).earned
  BY <1>2 DEF Trusted, IsTrusted, EntryOK, SlotInv, TimeInv
<1> QED BY <1>1, <1>2, <1>3

\* The slot of an address that is there, or is entered.
LEMMA SlotForOK ==
  ASSUME TableInv, NEW ica \in Ica
  PROVE  EntryOK(SlotFor(ica), ica.addr) /\ ica.addr \in Addr
<1>1. ica.addr \in Addr /\ KeyOf[ica.addr] \in Key /\ ica # None
  BY AddrKey, Bounds DEF Ica
<1>2. CASE Known(ica)
  BY <1>2, KnownOK DEF SlotFor
<1>3. CASE ~Known(ica)
  <2>1. /\ SinceSweep(KeyOf[ica.addr]) \in Nat
        /\ SlotInv(SlotOf(ica), SinceSweep(KeyOf[ica.addr]))
    BY <1>1, Since DEF TableInv, SlotOf
  <2>2. SlotFor(ica) = Inserted(SlotOf(ica), ica)
    BY <1>3 DEF SlotFor
  <2>3. KnownAddr(ica.addr) <=> Holds(SlotOf(ica), ica.addr)
    BY DEF KnownAddr, SlotOf
  <2> QED BY <1>1, <2>1, <2>2, <2>3, InsertedOK DEF EntryOK, Holds, SlotOf
<1> QED BY <1>1, <1>2, <1>3

\* An address is sighted: it lives, and once there was a pair it is trusted.
LEMMA SightingOK ==
  ASSUME phase \in 0..Period-1, NEW ica \in Ica, NEW s, EntryOK(s, ica.addr),
         NEW door
  PROVE  LET t == Sound(s, door, ica)
         IN  /\ EntryOK(Seen(t), ica.addr)
             /\ s.earned \/ Paired(sighted[door][ica], DoorMax(door)) =>
                  EntryOK(TrustedSeen(t), ica.addr)
<1> DEFINE d == SinceSweep(KeyOf[ica.addr])
           t == Sound(s, door, ica)
<1>1. d \in Nat
  BY AddrKey, Since DEF Ica
<1>2. /\ SlotInv(t, d) /\ t.icao = s.icao /\ t.named = 0 /\ t.sound = 0
      /\ s.earned \/ Paired(sighted[door][ica], DoorMax(door)) => t.earned
      /\ s.icao # None /\ EntryOK(t, ica.addr)
  <2>1. SlotInv(s, d) /\ s.icao # None
    BY DEF EntryOK, Holds
  <2> QED BY <1>1, <2>1, SoundOK, StillOK
<1> HIDE DEF t
<1>3. SlotInv(Seen(t), d) /\ Seen(t).icao = t.icao /\ Kept(Seen(t), t)
  BY <1>1, <1>2, SeenOK
<1>4. ASSUME s.earned \/ Paired(sighted[door][ica], DoorMax(door))
      PROVE  /\ SlotInv(TrustedSeen(t), d) /\ TrustedSeen(t).icao = t.icao
             /\ Kept(TrustedSeen(t), t)
  BY <1>1, <1>2, <1>4, SeenOK
<1>5. EntryOK(Seen(t), ica.addr)
  BY <1>2, <1>3, StillOK
<1>6. ASSUME s.earned \/ Paired(sighted[door][ica], DoorMax(door))
      PROVE  EntryOK(TrustedSeen(t), ica.addr)
  BY <1>2, <1>4, <1>6, StillOK
<1> QED BY <1>5, <1>6 DEF t

\* And the position it told.
LEMMA PositionEntryOK ==
  ASSUME phase \in 0..Period-1, NEW f \in Squitters, NEW s, EntryOK(s, f.ica.addr)
  PROVE  EntryOK(WithPosition(s, f), f.ica.addr)
<1>1. SinceSweep(KeyOf[f.ica.addr]) \in Nat
  BY AddrKey, Since, FrameAssumption DEF Ica
<1>2. SlotInv(s, SinceSweep(KeyOf[f.ica.addr])) /\ s.icao # None
  BY DEF EntryOK, Holds
<1> QED BY <1>1, <1>2, PositionOK, StillOK

-----------------------------------------------------------------------------
(* What a handler does to the candidates and the history *)

\* Something is seen once more, and its candidate used up, kept or begun.
LEMMA SeenOnce ==
  ASSUME NEW max \in Nat, NEW X, NEW slots, NEW cs, NEW history, NEW x \in X,
         NEW i \in slots, NEW c \in {NoCandidate, cs[i], [of |-> x, age |-> 0]},
         HistoryInv(history, X, max), CandsInv(slots, cs, X, history, max)
  PROVE  LET h == [history EXCEPT ![x] = Noted(@, max)]
         IN  /\ HistoryInv(h, X, max)
             /\ CandsInv(slots, [cs EXCEPT ![i] = c], X, h, max)
<1> DEFINE h == [history EXCEPT ![x] = Noted(@, max)]
<1>1. HistoryInv(h, X, max) /\ CandsInv(slots, cs, X, h, max)
  BY SeenAgain
<1>2. CASE c = NoCandidate
  BY <1>1, <1>2, UsedUp
<1>3. CASE c \in {cs[i], [of |-> x, age |-> 0]}
  BY <1>1, <1>3, Replaced
<1> QED BY <1>2, <1>3

\* A sighting at one of the doors, by which only its own history changes.
LEMMA SightedDoor ==
  ASSUME DoorsInv, NEW door \in {"clean", "coded"}, NEW ica \in Ica,
         Sighted(door, ica)
  PROVE  /\ sighted' \in [{"clean", "coded"} -> [Ica -> SUBSET Nat]]
         /\ sighted'[door] = [sighted[door] EXCEPT ![ica] = Noted(@, DoorMax(door))]
         /\ \A e \in {"clean", "coded"} : e # door => sighted'[e] = sighted[e]
<1>1. AgesInv(sighted[door][ica], DoorMax(door)) /\ DoorMax(door) \in Nat
  BY Bounds DEF DoorsInv, HistoryInv, DoorMax
<1>2. AgesInv(Noted(sighted[door][ica], DoorMax(door)), DoorMax(door))
  BY <1>1, NotedAges
<1>3. Noted(sighted[door][ica], DoorMax(door)) \in SUBSET Nat
  BY <1>1, <1>2 DEF AgesInv
<1>4. sighted \in [{"clean", "coded"} -> [Ica -> SUBSET Nat]]
  BY DEF DoorsInv
<1> QED BY <1>3, <1>4 DEF Sighted

\* A clean sighting.
LEMMA CleanSighting ==
  ASSUME DoorsInv, NEW ica \in Ica, Sighted("clean", ica),
         TrustDoor(ica) \/ UNCHANGED trustCands,
         UNCHANGED <<df11Cands, rejectedCands, refused>>
  PROVE  DoorsInv'
<1> DEFINE h == [sighted["clean"] EXCEPT ![ica] = Noted(@, TrustMax)]
<1>1. /\ sighted' \in [{"clean", "coded"} -> [Ica -> SUBSET Nat]]
      /\ sighted'["clean"] = h /\ sighted'["coded"] = sighted["coded"]
  BY SightedDoor DEF DoorMax
<1>2. HistoryInv(h, Ica, TrustMax) /\ CandsInv(TrustSlots, trustCands, Ica, h, TrustMax)
  BY SeenAgain, Bounds DEF DoorsInv
<1>3. CandsInv(TrustSlots, trustCands', Ica, h, TrustMax)
  <2>1. CASE UNCHANGED trustCands
    BY <1>2, <2>1
  <2>2. CASE TrustDoor(ica)
    <3> DEFINE i == TrustIndex[ica]
               c == AfterSighting(trustCands[i], ica, TrustMax)
    <3>1. i \in TrustSlots
      BY DEF TrustSlots
    <3>2. c \in {NoCandidate, trustCands[i], [of |-> ica, age |-> 0]}
      BY DEF AfterSighting
    <3>3. trustCands' = [trustCands EXCEPT ![i] = c]
      BY <2>2 DEF TrustDoor
    <3> HIDE DEF c, i
    <3>4. CandsInv(TrustSlots, [trustCands EXCEPT ![i] = c], Ica, h, TrustMax)
      BY <3>1, <3>2, SeenOnce, Bounds DEF DoorsInv
    <3> QED BY <3>3, <3>4
  <2> QED BY <2>1, <2>2
<1> HIDE DEF h
<1> QED BY <1>1, <1>2, <1>3 DEF DoorsInv

\* A coded sighting.
LEMMA CodedSighting ==
  ASSUME DoorsInv, NEW ica \in Ica, Sighted("coded", ica),
         \/ df11Cands' = [df11Cands EXCEPT ![Df11Index[ica]] =
                            AfterSighting(@, ica, Df11Max)]
         \/ UNCHANGED df11Cands,
         UNCHANGED <<trustCands, rejectedCands, refused>>
  PROVE  DoorsInv'
<1> DEFINE h == [sighted["coded"] EXCEPT ![ica] = Noted(@, Df11Max)]
<1>1. /\ sighted' \in [{"clean", "coded"} -> [Ica -> SUBSET Nat]]
      /\ sighted'["coded"] = h /\ sighted'["clean"] = sighted["clean"]
  BY SightedDoor DEF DoorMax
<1>2. HistoryInv(h, Ica, Df11Max) /\ CandsInv(Df11Slots, df11Cands, Ica, h, Df11Max)
  BY SeenAgain, Bounds DEF DoorsInv
<1>3. CandsInv(Df11Slots, df11Cands', Ica, h, Df11Max)
  <2>1. CASE UNCHANGED df11Cands
    BY <1>2, <2>1
  <2>2. CASE ~UNCHANGED df11Cands
    <3> DEFINE i == Df11Index[ica]
               c == AfterSighting(df11Cands[i], ica, Df11Max)
    <3>1. i \in Df11Slots
      BY DEF Df11Slots
    <3>2. c \in {NoCandidate, df11Cands[i], [of |-> ica, age |-> 0]}
      BY DEF AfterSighting
    <3>3. df11Cands' = [df11Cands EXCEPT ![i] = c]
      BY <2>2
    <3> HIDE DEF c, i
    <3>4. CandsInv(Df11Slots, [df11Cands EXCEPT ![i] = c], Ica, h, Df11Max)
      BY <3>1, <3>2, SeenOnce, Bounds DEF DoorsInv
    <3> QED BY <3>3, <3>4
  <2> QED BY <2>1, <2>2
<1> HIDE DEF h
<1> QED BY <1>1, <1>2, <1>3 DEF DoorsInv

\* Nothing was stored.
LEMMA TableKept ==
  ASSUME TableInv, UNCHANGED <<phase, table>>,
         UNCHANGED aired \/ (Airing /\ out' = None)
  PROVE  TableInv'
<1>1. \A k \in Key : SinceSweep(k)' = SinceSweep(k)
  BY DEF SinceSweep
<1>2. UNCHANGED aired
  <2>1. CASE Airing /\ out' = None
    <3>1. AiredInv
      BY DEF TableInv
    <3>2. \A x \in Addr : ~LosesSlot(x)
      BY DEF LosesSlot, KnownAddr
    <3>3. \A x \in Addr : aired'[x] = aired[x]
      BY <2>1, <3>1, <3>2 DEF Airing, AiredInv
    <3>4. aired' = [x \in Addr |-> aired'[x]]
      BY <2>1 DEF Airing
    <3> QED BY <3>1, <3>3, <3>4 DEF AiredInv
  <2> QED BY <2>1
<1>3. AiredInv'
  BY <1>1, <1>2, AddrKey DEF TableInv, AiredInv
<1> QED BY <1>1, <1>3 DEF TableInv

\* Nothing was sighted or refused.
LEMMA DoorsKept ==
  ASSUME DoorsInv, UNCHANGED <<cands, sighted, refused>>
  PROVE  DoorsInv'
BY DEF DoorsInv, cands

\* A pair at the clean door.
LEMMA CleanPair ==
  ASSUME DoorsInv, NEW ica \in Ica, Confirms(TrustCand(ica), ica, TrustMax)
  PROVE  Paired(sighted["clean"][ica], DoorMax("clean"))
<1>1. TrustIndex[ica] \in TrustSlots /\ ica # None
  BY Bounds DEF TrustSlots
<1> QED BY <1>1, Confirmed, Bounds DEF DoorsInv, TrustCand, DoorMax

\* A pair at the coded one.
LEMMA CodedPair ==
  ASSUME DoorsInv, NEW ica \in Ica, Confirms(Df11Cand(ica), ica, Df11Max)
  PROVE  Paired(sighted["coded"][ica], DoorMax("coded"))
<1>1. Df11Index[ica] \in Df11Slots /\ ica # None
  BY Bounds DEF Df11Slots
<1> QED BY <1>1, Confirmed, Bounds DEF DoorsInv, Df11Cand, DoorMax

-----------------------------------------------------------------------------
(* One lemma for each handler *)

\* handleExtSquitterLongMessage, a clean frame.
LEMMA SquitterStep ==
  ASSUME IInv, NEW f \in Squitters, HandleSquitter(f), Airing
  PROVE  IInv'
<1>1. /\ TableInv /\ DoorsInv /\ phase \in 0..Period-1
      /\ f.ica \in Ica /\ f.ica.addr \in Addr
  BY FrameAssumption DEF IInv, TableInv, Ica
<1>2. CASE SquitterTrusted(f)
  <2> DEFINE s == TrustedSeen(Sound(SlotOf(f.ica), "clean", f.ica))
  <2>1. EntryOK(s, f.ica.addr)
    BY <1>1, <1>2, KnownOK, SightingOK DEF SquitterTrusted, Trusted
  <2>2. EntryOK(WithPosition(s, f), f.ica.addr)
    BY <1>1, <2>1, PositionEntryOK
  <2>3. TableInv' /\ OutInv'
    BY <1>1, <1>2, <2>2, SendKeeps DEF SquitterTrusted
  <2>4. DoorsInv'
    BY <1>1, <1>2, DoorsKept, CleanSighting DEF SquitterTrusted, cands
  <2> QED BY <2>3, <2>4 DEF IInv
<1>3. CASE SquitterSighted(f)
  <2>1. EntryOK(Seen(Sound(SlotFor(f.ica), "clean", f.ica)), f.ica.addr)
    BY <1>1, SlotForOK, SightingOK
  <2>2. TableInv' /\ OutInv'
    BY <1>1, <1>3, <2>1, PutKeeps DEF SquitterSighted, OutInv
  <2>3. DoorsInv'
    BY <1>1, <1>3, CleanSighting DEF SquitterSighted
  <2> QED BY <2>2, <2>3 DEF IInv
<1>4. CASE SquitterConfirmed(f)
  <2> DEFINE s == TrustedSeen(Sound(SlotFor(f.ica), "clean", f.ica))
  <2>1. EntryOK(s, f.ica.addr)
    BY <1>1, <1>4, SlotForOK, CleanPair, SightingOK DEF SquitterConfirmed
  <2>2. EntryOK(WithPosition(s, f), f.ica.addr)
    BY <1>1, <2>1, PositionEntryOK
  <2>3. TableInv' /\ OutInv'
    BY <1>1, <1>4, <2>2, SendKeeps DEF SquitterConfirmed
  <2>4. DoorsInv'
    BY <1>1, <1>4, CleanSighting DEF SquitterConfirmed
  <2> QED BY <2>3, <2>4 DEF IInv
<1> QED BY <1>2, <1>3, <1>4 DEF HandleSquitter

\* A damaged frame, repaired to one of a trusted aircraft.
LEMMA RepairedKeeps ==
  ASSUME IInv, NEW ica \in Ica, Trusted(ica), NEW f, Repaired(ica, f), Airing
  PROVE  IInv'
<1> DEFINE s == SlotOf(ica)
           t == TrustedSeen(Accepted(s))
           d == SinceSweep(KeyOf[ica.addr])
<1>1. /\ EntryOK(s, ica.addr) /\ s.earned /\ ica.addr \in Addr /\ d \in Nat
      /\ TableInv /\ DoorsInv
  BY KnownOK, AddrKey, Since DEF IInv, TableInv, Trusted
<1>2. EntryOK(t, ica.addr)
  <2>1. SlotInv(s, d) /\ s.icao # None
    BY <1>1 DEF EntryOK, Holds
  <2>2. EntryOK(Accepted(s), ica.addr)
    BY <1>1, <2>1, MentionedOK, StillOK
  <2> QED BY <1>1, <2>1, <2>2, MentionedOK, SeenOK, StillOK
<1>3. Anchored(s, f) = TRUE
  <2>1. CASE f.position = None
    BY <2>1 DEF Anchored
  <2>2. CASE f.position # None
    <3>1. s.ref # None /\ Near(s.ref.cpr, f.position.cpr)
      BY <2>2 DEF Repaired, PositionPlausible, HasReference
    <3>2. PICK e, o \in Cprs :
            /\ Tells("even", e) \in s.told /\ Tells("odd", o) \in s.told
            /\ DecodeCpr(e, o) # None /\ s.ref.cpr = DecodeCpr(e, o)
      BY <1>1, <3>1 DEF EntryOK, SlotInv, ToldInv
    <3>3. /\ Tells("even", e).field = "even" /\ Tells("even", e).value = e
          /\ Tells("odd", o).field = "odd" /\ Tells("odd", o).value = o
      BY DEF Tells
    <3>4. Near(DecodeCpr(e, o), f.position.cpr)
      BY <3>1, <3>2
    <3> QED BY <3>2, <3>3, <3>4, Zenon DEF Anchored
  <2> QED BY <2>1, <2>2
<1>4. TableInv' /\ OutInv'
  BY <1>1, <1>2, <1>3, SendKeeps DEF Repaired
<1>5. DoorsInv'
  BY <1>1, DoorsKept DEF Repaired
<1> QED BY <1>4, <1>5 DEF IInv

\* handleExtSquitterLongMessage, a damaged frame.
LEMMA DamagedStep ==
  ASSUME IInv, NEW f \in Damaged, HandleDamaged(f), Airing
  PROVE  IInv'
BY RepairedKeeps, FrameAssumption DEF HandleDamaged, RepairByTable, RepairByErasure

\* handleDF11ShortMessage without an interrogator.
LEMMA AllCallStep ==
  ASSUME IInv, NEW ica \in AllCalls, HandleAllCall(ica), Airing
  PROVE  IInv'
<1>1. /\ TableInv /\ DoorsInv /\ phase \in 0..Period-1
      /\ ica \in Ica /\ ica.addr \in Addr
  BY FrameAssumption DEF IInv, TableInv, Ica
<1>2. CASE AllCallTrusted(ica)
  <2>1. EntryOK(TrustedSeen(Sound(SlotOf(ica), "clean", ica)), ica.addr)
    BY <1>1, <1>2, KnownOK, SightingOK DEF AllCallTrusted, Trusted
  <2>2. TableInv' /\ OutInv'
    BY <1>1, <1>2, <2>1, SendKeeps DEF AllCallTrusted
  <2>3. DoorsInv'
    BY <1>1, <1>2, CleanSighting DEF AllCallTrusted, cands
  <2> QED BY <2>2, <2>3 DEF IInv
<1>3. CASE AllCallConfirmed(ica)
  <2>1. CASE Known(ica) \/ ica.addr \in PlausibleAddr
    <3>1. EntryOK(TrustedSeen(Sound(SlotFor(ica), "clean", ica)), ica.addr)
      BY <1>1, <1>3, SlotForOK, CleanPair, SightingOK DEF AllCallConfirmed
    <3>2. TableInv' /\ OutInv'
      BY <1>1, <1>3, <2>1, <3>1, SendKeeps DEF AllCallConfirmed
    <3>3. DoorsInv'
      BY <1>1, <1>3, <2>1, CleanSighting DEF AllCallConfirmed
    <3> QED BY <3>2, <3>3 DEF IInv
  <2>2. CASE ~(Known(ica) \/ ica.addr \in PlausibleAddr)
    <3>1. UNCHANGED <<phase, table, sighted>> /\ out' = None
      BY <1>3, <2>2 DEF AllCallConfirmed
    <3>2. TableInv' /\ OutInv'
      BY <1>1, <3>1, TableKept DEF OutInv
    <3>3. TrustIndex[ica] \in TrustSlots
      BY <1>1 DEF TrustSlots
    <3>4. trustCands' = [trustCands EXCEPT ![TrustIndex[ica]] = NoCandidate]
      BY <1>3 DEF AllCallConfirmed, TrustDoor, AfterSighting, TrustCand
    <3>5. CandsInv(TrustSlots, trustCands, Ica, sighted["clean"], TrustMax)
      BY <1>1 DEF DoorsInv
    <3>6. CandsInv(TrustSlots, trustCands', Ica, sighted["clean"], TrustMax)
      BY <3>3, <3>4, <3>5, UsedUp
    <3>7. DoorsInv'
      BY <1>1, <1>3, <3>1, <3>6 DEF AllCallConfirmed, DoorsInv
    <3> QED BY <3>2, <3>7 DEF IInv
  <2> QED BY <2>1, <2>2
<1>4. CASE AllCallSighted(ica)
  <2> DEFINE s == Seen(Sound(SlotFor(ica), "clean", ica))
  <2>1. EntryOK(s, ica.addr)
    BY <1>1, SlotForOK, SightingOK
  <2>2. UNCHANGED table \/ Put(ica.addr, s)
    BY <1>4 DEF AllCallSighted
  <2>3. UNCHANGED phase /\ out' = None
    BY <1>4 DEF AllCallSighted
  <2> HIDE DEF s
  <2>4. ASSUME UNCHANGED table PROVE TableInv'
    BY <1>1, <2>3, <2>4, TableKept
  <2>5. ASSUME Put(ica.addr, s) PROVE TableInv'
    BY <1>1, <2>1, <2>3, <2>5, PutKeeps
  <2>6. DoorsInv'
    BY <1>1, <1>4, CleanSighting DEF AllCallSighted
  <2> QED BY <2>2, <2>3, <2>4, <2>5, <2>6 DEF IInv, OutInv
<1> QED BY <1>2, <1>3, <1>4 DEF HandleAllCall

\* handleDF11ShortMessage with the code of an interrogator.
LEMMA InterrogatedStep ==
  ASSUME IInv, NEW ica \in Interrogated, HandleInterrogated(ica), Airing
  PROVE  IInv'
<1>1. /\ TableInv /\ DoorsInv /\ phase \in 0..Period-1
      /\ ica \in Ica /\ ica.addr \in Addr
  BY FrameAssumption DEF IInv, TableInv, Ica
<1>2. CASE InterrogatedTrusted(ica)
  <2>1. EntryOK(Seen(Sound(SlotOf(ica), "coded", ica)), ica.addr)
    BY <1>1, <1>2, KnownOK, SightingOK DEF InterrogatedTrusted, Trusted
  <2>2. TableInv' /\ OutInv'
    BY <1>1, <1>2, <2>1, SendKeeps DEF InterrogatedTrusted
  <2>3. DoorsInv'
    BY <1>1, <1>2, CodedSighting DEF InterrogatedTrusted, cands
  <2> QED BY <2>2, <2>3 DEF IInv
<1>3. CASE InterrogatedUntrusted(ica)
  <2>1. UNCHANGED phase /\ out' = None
    BY <1>3 DEF InterrogatedUntrusted
  <2>2. ASSUME UNCHANGED table PROVE TableInv'
    BY <1>1, <2>1, <2>2, TableKept
  <2>3. ASSUME ~UNCHANGED table PROVE TableInv'
    <3> DEFINE s == TrustedSeen(Sound(SlotFor(ica), "coded", ica))
    <3>1. Confirms(Df11Cand(ica), ica, Df11Max) /\ Put(ica.addr, s)
      BY <1>3, <2>3 DEF InterrogatedUntrusted
    <3>2. EntryOK(s, ica.addr)
      BY <1>1, <3>1, SlotForOK, CodedPair, SightingOK
    <3> HIDE DEF s
    <3> QED BY <1>1, <2>1, <3>1, <3>2, PutKeeps
  <2>4. DoorsInv'
    BY <1>1, <1>3, CodedSighting DEF InterrogatedUntrusted
  <2> QED BY <2>1, <2>2, <2>3, <2>4 DEF IInv, OutInv
<1> QED BY <1>2, <1>3 DEF HandleInterrogated

\* handleDF11ShortMessageWithZeroCRC after a correction.
LEMMA CorrectedStep ==
  ASSUME IInv, NEW ica \in Corrected, CorrectedAllCall(ica), Airing
  PROVE  IInv'
<1> DEFINE s == Seen(Mentioned(SlotOf(ica)))
<1>1. /\ TableInv /\ DoorsInv /\ ica \in Ica /\ EntryOK(SlotOf(ica), ica.addr)
      /\ ica.addr \in Addr
  BY FrameAssumption, KnownOK DEF IInv, CorrectedAllCall
<1>2. SinceSweep(KeyOf[ica.addr]) \in Nat
  BY <1>1, AddrKey, Since DEF TableInv
<1>3. EntryOK(s, ica.addr)
  <2>1. SlotInv(SlotOf(ica), SinceSweep(KeyOf[ica.addr])) /\ SlotOf(ica).icao # None
    BY <1>1 DEF EntryOK, Holds
  <2>2. EntryOK(Mentioned(SlotOf(ica)), ica.addr)
    BY <1>1, <1>2, <2>1, MentionedOK, StillOK
  <2> QED BY <1>2, <2>1, <2>2, MentionedOK, SeenOK, StillOK
<1>4. UNCHANGED <<phase, cands, sighted, refused>>
  BY DEF CorrectedAllCall
<1>5. Send(ica.addr, s, TRUE) \/ (Put(ica.addr, s) /\ out' = None)
  BY DEF CorrectedAllCall
<1> HIDE DEF s
<1>6. TableInv' /\ OutInv'
  BY <1>1, <1>3, <1>4, <1>5, SendKeeps, PutKeeps DEF OutInv
<1>7. DoorsInv'
  BY <1>1, <1>4, DoorsKept
<1> QED BY <1>6, <1>7 DEF IInv

\* handleAcasSurvShortMessage, handleAcasCommBLongMessage.
LEMMA ValueStep ==
  ASSUME IInv, NEW f \in ValueFrames, HandleValue(f), Airing
  PROVE  IInv'
<1> DEFINE s == ValueSlot(f)
           d == SinceSweep(KeyOf[f.addr])
<1>1. /\ TableInv /\ DoorsInv /\ f.addr \in Addr /\ d \in Nat /\ UNCHANGED phase
  <2>1. TableInv /\ DoorsInv /\ f.addr \in Addr
    BY FrameAssumption DEF IInv
  <2>2. d \in Nat
    BY <2>1, AddrKey, Since DEF TableInv
  <2>3. UNCHANGED phase
    BY DEF HandleValue, ValueCopy, ValueAccepted, ValueRejected
  <2> QED BY <2>1, <2>2, <2>3
<1>2. EntryOK(s, f.addr)
  <2>1. Listens(f)
    BY DEF HandleValue, ValueCopy, ValueAccepted, ValueRejected, ChecksValue
  <2>2. EntryOK(table[KeyOf[f.addr]], f.addr)
    BY <1>1, <2>1, AddrKey DEF Listens, KnownAddr, EntryOK, TableInv, Kept
  <2>3. SlotInv(table[KeyOf[f.addr]], d) /\ table[KeyOf[f.addr]].icao # None
    BY <2>2 DEF EntryOK, Holds
  <2> QED BY <1>1, <2>2, <2>3, MentionedOK, StillOK DEF ValueSlot
<1>3. SlotInv(s, d) /\ s.icao # None
  BY <1>2 DEF EntryOK, Holds
<1>4. /\ EntryOK(Checked(s, f), f.addr)
      /\ Fits(s, f) => Corroborates(s, f)
  BY <1>1, <1>2, <1>3, CheckedOK, StillOK
<1>5. ASSUME ChecksValue(f)
      PROVE  /\ EntryOK(Emitted(Checked(s, f)), f.addr)
             /\ Emitted(Checked(s, f)).last = 0 /\ Emitted(Checked(s, f)).ttl = SeenTtl
             /\ aired[f.addr].age >= DupWindow \/ aired[f.addr].displaced
  <2>1. s.trust > 0 /\ ~IsCopy(s)
    BY <1>5 DEF ChecksValue, IsTrusted
  <2>2. Checked(s, f).trust > 0
    BY <1>1, <1>3, <2>1, CheckedOK
  <2>3. /\ EntryOK(Emitted(Checked(s, f)), f.addr)
        /\ Emitted(Checked(s, f)).last = 0 /\ Emitted(Checked(s, f)).ttl = SeenTtl
    BY <1>1, <1>4, <2>2, SentOK
  <2>4. aired[f.addr].age >= DupWindow \/ aired[f.addr].displaced
    BY <1>1, <1>2, <2>1, NoCopy
  <2> QED BY <2>3, <2>4
<1>6. CASE ValueCopy(f)
  <2>1. EntryOK([s EXCEPT !.last = 0], f.addr)
    BY <1>1, <1>2, CopyOK
  <2>2. TableInv' /\ OutInv'
    BY <1>1, <1>6, <2>1, PutKeeps DEF ValueCopy, OutInv
  <2>3. DoorsInv'
    BY <1>1, <1>6, DoorsKept DEF ValueCopy
  <2> QED BY <2>2, <2>3 DEF IInv
<1>7. CASE ValueAccepted(f)
  <2>1. Fits(s, f) /\ ChecksValue(f)
    BY <1>7 DEF ValueAccepted
  <2>2. Corroborates(s, f) = TRUE
    BY <1>4, <2>1 DEF Corroborates
  <2>3. /\ out'.addr = f.addr /\ out'.since = aired[f.addr].age
        /\ out'.displaced = aired[f.addr].displaced /\ out'.backed = TRUE
    BY <1>7, <2>2 DEF ValueAccepted, Emission
  <2>4. TableInv'
    BY <1>1, <1>5, <1>7, <2>1, <2>3, PutKeeps DEF ValueAccepted
  <2>5. DoorsInv'
    BY <1>1, <1>7, DoorsKept DEF ValueAccepted
  <2> QED BY <1>5, <2>1, <2>3, <2>4, <2>5 DEF IInv, OutInv
<1>8. CASE ValueRejected(f)
  <2> DEFINE i == RejectedIndex[f]
             c == AfterRejection(rejectedCands[i], f, RejectedMax)
             h == [refused EXCEPT ![f] = Noted(@, RejectedMax)]
  <2>1. i \in RejectedSlots /\ f # None
    BY Bounds DEF RejectedSlots
  <2>2. c \in {NoCandidate, rejectedCands[i], [of |-> f, age |-> 0]}
    BY DEF AfterRejection
  <2>3. /\ rejectedCands' = [rejectedCands EXCEPT ![i] = c] /\ refused' = h
        /\ UNCHANGED <<trustCands, df11Cands, sighted>>
    BY <1>8 DEF ValueRejected
  <2>4. /\ HistoryInv(refused, ValueFrames, RejectedMax)
        /\ CandsInv(RejectedSlots, rejectedCands, ValueFrames, refused, RejectedMax)
    BY <1>1 DEF DoorsInv
  <2> HIDE DEF c, i
  <2>5. /\ HistoryInv(h, ValueFrames, RejectedMax)
        /\ CandsInv(RejectedSlots, [rejectedCands EXCEPT ![i] = c], ValueFrames, h, RejectedMax)
    BY <2>1, <2>2, <2>4, SeenOnce, Bounds
  <2>6. DoorsInv'
    BY <1>1, <2>3, <2>5 DEF DoorsInv
  <2>7. CASE Confirms(RejectedCand(f), f, RejectedMax)
    <3>1. Paired(refused[f], RejectedMax) = TRUE
      <4>1. Paired(refused[f], RejectedMax)
        BY <2>1, <2>4, <2>7, Confirmed, Bounds DEF RejectedCand, i
      <4> QED BY <4>1 DEF Paired
    <3>2. /\ out' = Emission(f.addr, TRUE, Paired(refused[f], RejectedMax))
          /\ Put(f.addr, Emitted(Checked(s, f))) /\ ChecksValue(f)
      BY <1>8, <2>7 DEF ValueRejected
    <3>3. /\ out'.addr = f.addr /\ out'.since = aired[f.addr].age
          /\ out'.displaced = aired[f.addr].displaced /\ out'.backed = TRUE
      BY <3>1, <3>2 DEF Emission
    <3>4. TableInv'
      BY <1>1, <1>5, <3>2, <3>3, PutKeeps
    <3> QED BY <1>5, <2>6, <3>2, <3>3, <3>4 DEF IInv, OutInv
  <2>8. CASE ~Confirms(RejectedCand(f), f, RejectedMax)
    <3>1. Put(f.addr, Checked(s, f)) /\ out' = None
      BY <1>8, <2>8 DEF ValueRejected
    <3>2. TableInv'
      BY <1>1, <1>4, <3>1, PutKeeps
    <3> QED BY <2>6, <3>1, <3>2 DEF IInv, OutInv
  <2> QED BY <2>7, <2>8
<1> QED BY <1>6, <1>7, <1>8 DEF HandleValue

\* ICAOTable::tick.
LEMMA TickStep ==
  ASSUME IInv, Tick
  PROVE  IInv'
<1>1. /\ TableInv /\ DoorsInv /\ phase \in 0..Period-1 /\ Period \in Nat \ {0}
      /\ phase' = (phase + 1) % Period
  BY Bounds DEF IInv, TableInv, Tick
<1>2. /\ phase' \in 0..Period-1
      /\ phase' = IF phase = Period - 1 THEN 0 ELSE phase + 1
  <2>1. CASE phase = Period - 1
    <3>1. phase + 1 = Period * 1 + 0
      BY <1>1, <2>1
    <3>2. (phase + 1) % Period = 0
      BY <1>1, <3>1, ModUnique
    <3> QED BY <1>1, <2>1, <3>2
  <2>2. CASE phase # Period - 1
    <3>1. phase + 1 \in 0..Period-1
      BY <1>1, <2>2
    <3>2. (phase + 1) % Period = phase + 1
      BY <1>1, <3>1, ModSmall
    <3> QED BY <1>1, <2>2, <3>1, <3>2
  <2> QED BY <2>1, <2>2
<1>3. ASSUME NEW k \in Key
      PROVE  /\ SinceSweep(k) \in 0..Period-1
             /\ k = phase' => SinceSweep(k) = Period - 1 /\ SinceSweep(k)' = 0
             /\ k # phase' => SinceSweep(k)' = SinceSweep(k) + 1
  BY <1>1, <1>2, TableAssumption DEF SinceSweep, Key
<1>4. ASSUME NEW k \in Key
      PROVE  /\ SlotInv(table'[k], SinceSweep(k)')
             /\ table'[k].icao # None => KeyOf[table'[k].icao.addr] = k
  <2>1. SlotInv(table[k], SinceSweep(k)) /\ (table[k].icao # None => KeyOf[table[k].icao.addr] = k)
    BY <1>1 DEF TableInv
  <2>2. CASE k = phase'
    <3>1. table'[k] = Aged(Swept(table[k]))
      BY <2>2 DEF Tick
    <3>2. /\ SlotInv(Swept(table[k]), -1)
          /\ Swept(table[k]).icao # None => Swept(table[k]).icao = table[k].icao
      BY <1>1, <1>3, <2>1, <2>2, SweptOK
    <3>3. SlotInv(table'[k], 0) /\ table'[k].icao = Swept(table[k]).icao
      BY <1>1, <3>1, <3>2, AgedOK
    <3> QED BY <1>3, <2>1, <2>2, <3>2, <3>3
  <2>3. CASE k # phase'
    <3>1. table'[k] = Aged(table[k])
      BY <2>3 DEF Tick
    <3>2. SlotInv(table'[k], SinceSweep(k) + 1) /\ table'[k].icao = table[k].icao
      BY <1>1, <1>3, <2>1, <3>1, AgedOK
    <3> QED BY <1>3, <2>1, <2>3, <3>2
  <2> QED BY <2>2, <2>3
<1>7. AiredInv'
  <2>1. ASSUME NEW x \in Addr
        PROVE  /\ aired[x] \in [age : 0..DupWindow, displaced : BOOLEAN]
               /\ aired'[x] = IF aired[x].age + 1 >= DupWindow THEN LongAgo
                             ELSE [aired[x] EXCEPT !.age = @ + 1]
               /\ aired'[x] \in [age : 0..DupWindow, displaced : BOOLEAN]
    <3>1. /\ aired[x] \in [age : 0..DupWindow, displaced : BOOLEAN]
          /\ aired'[x] = IF aired[x].age + 1 >= DupWindow THEN LongAgo
                        ELSE [aired[x] EXCEPT !.age = @ + 1]
      BY <1>1 DEF TableInv, AiredInv, Tick
    <3> QED BY <3>1, Bounds DEF LongAgo
  <2>2. aired' \in [Addr -> [age : 0..DupWindow, displaced : BOOLEAN]]
    <3>1. aired' = [x \in Addr |-> aired'[x]]
      BY DEF Tick
    <3> QED BY <2>1, <3>1
  <2>3. ASSUME NEW x \in Addr, ~aired'[x].displaced
        PROVE  AiringInv(aired'[x], table'[KeyOf[x]], x, SinceSweep(KeyOf[x])')
    <3> DEFINE k == KeyOf[x]
               r == aired[x]
               s == table[k]
               w == IF k = phase' THEN Swept(s) ELSE s
    <3>1. k \in Key /\ table'[k] = Aged(w)
      BY AddrKey DEF Tick
    <3>2. /\ SlotInv(s, SinceSweep(k)) /\ s \in Slot /\ AiringInv(r, s, x, SinceSweep(k))
          /\ r.age \in 0..DupWindow
      BY <1>1, <2>1, <3>1 DEF TableInv, AiredInv
    <3>3. /\ w.icao # None => /\ w.icao = s.icao /\ w.last = s.last
                             /\ w.ttl = IF k = phase' THEN s.ttl - 1 ELSE s.ttl
          /\ w.icao = None => s.icao = None \/ (k = phase' /\ s.ttl = 0)
      BY <1>1, <1>3, <3>1, <3>2, SweptOK
    <3>4. \E d \in Int : SlotInv(w, d) /\ d + 1 >= 0
      <4>1. CASE k = phase'
        BY <1>1, <1>3, <3>1, <3>2, <4>1, SweptOK
      <4>2. CASE k # phase'
        BY <1>3, <3>1, <3>2, <4>2
      <4> QED BY <4>1, <4>2
    <3>5. /\ table'[k].icao = w.icao
          /\ w.icao # None =>
               table'[k].last = Older(w.last, DupWindow) /\ table'[k].ttl = w.ttl
      BY <1>1, <3>1, <3>4, AgedOK
    <3> HIDE DEF w
    <3>6. s.last \in 0..DupWindow /\ s.ttl \in 0..SeenTtl /\ SeenTtl \in Nat
      BY <3>2, Bounds DEF Slot
    <3>7. CASE aired'[x] = LongAgo
      <4>1. aired'[x].age = DupWindow
        BY <3>7 DEF LongAgo
      <4>2. Holds(table'[k], x) => table'[k].last <= DupWindow
        BY <3>3, <3>5, <3>6, Bounds DEF Holds, Older
      <4> QED BY <4>1, <4>2, Bounds DEF AiringInv
    <3>8. CASE r.age + 1 < DupWindow /\ aired'[x] = [r EXCEPT !.age = r.age + 1]
      <4> HIDE DEF r, k, s
      <4>1. aired'[x].age = r.age + 1 /\ ~r.displaced /\ r.age < DupWindow
        <5>1. r \in [age : 0..DupWindow, displaced : BOOLEAN]
          BY <2>1 DEF r
        <5>2. aired'[x].age = r.age + 1 /\ aired'[x].displaced = r.displaced
          BY <3>8, <5>1
        <5> QED BY <2>3, <3>2, <3>8, <5>2, Bounds
      <4>2. Holds(s, x) /\ s.last <= r.age /\ (s.ttl < SeenTtl => r.age >= SinceSweep(k))
        BY <3>2, <4>1, Bounds DEF AiringInv
      <4>3. ~(k = phase' /\ s.ttl < SeenTtl)
        <5> SUFFICES ASSUME k = phase', s.ttl < SeenTtl PROVE FALSE
          OBVIOUS
        <5>1. r.age >= Period - 1
          BY <1>3, <3>1, <4>2
        <5> QED BY <3>2, <3>8, <5>1, Bounds
      <4>4. w.icao # None /\ w.icao = s.icao
        BY <3>3, <4>2, <4>3, Bounds DEF Holds
      <4>5. Holds(table'[k], x)
        BY <3>5, <4>2, <4>4 DEF Holds
      <4>6. table'[k].last <= r.age + 1
        BY <3>2, <3>3, <3>5, <3>6, <4>2, <4>4, Bounds DEF Older
      <4>7. table'[k].ttl < SeenTtl => r.age + 1 >= SinceSweep(k)'
        BY <1>3, <3>1, <3>2, <3>3, <3>5, <4>2, <4>4
      <4> QED BY <4>1, <4>5, <4>6, <4>7 DEF AiringInv, k
    <3> QED BY <2>1, <3>2, <3>7, <3>8, Bounds
  <2> QED BY <2>2, <2>3 DEF AiredInv, AiringInv
<1>5. TableInv'
  <2>1. table' \in [Key -> Slot]
    <3>1. table' = [k \in Key |-> table'[k]]
      BY DEF Tick
    <3>2. \A k \in Key : table'[k] \in Slot
      BY <1>4 DEF SlotInv
    <3> QED BY <3>1, <3>2
  <2> QED BY <1>2, <1>4, <1>7, <2>1 DEF TableInv
<1>6. DoorsInv'
  <2> DEFINE clean == [x \in Ica |-> Past(sighted["clean"][x], TrustMax)]
             coded == [x \in Ica |-> Past(sighted["coded"][x], Df11Max)]
  <2>1. sighted'["clean"] = clean /\ sighted'["coded"] = coded
    BY <1>1 DEF Tick, DoorsInv, DoorMax
  <2>2. /\ HistoryInv(clean, Ica, TrustMax)
        /\ CandsInv(TrustSlots, trustCands', Ica, clean, TrustMax)
    BY <1>1, TickedCands, Bounds DEF Tick, DoorsInv
  <2>3. /\ HistoryInv(coded, Ica, Df11Max)
        /\ CandsInv(Df11Slots, df11Cands', Ica, coded, Df11Max)
    BY <1>1, TickedCands, Bounds DEF Tick, DoorsInv
  <2>4. /\ HistoryInv(refused, ValueFrames, RejectedMax)'
        /\ CandsInv(RejectedSlots, rejectedCands, ValueFrames, refused, RejectedMax)'
    BY <1>1, TickedCands, Bounds DEF Tick, DoorsInv
  <2>5. DOMAIN sighted = {"clean", "coded"}
    BY <1>1 DEF DoorsInv
  <2> HIDE DEF clean, coded
  <2>6. sighted' \in [{"clean", "coded"} -> [Ica -> SUBSET Nat]]
    <3>1. sighted' = [door \in {"clean", "coded"} |-> sighted'[door]]
      BY <2>5 DEF Tick
    <3>2. clean \in [Ica -> SUBSET Nat] /\ coded \in [Ica -> SUBSET Nat]
      BY <2>2, <2>3 DEF HistoryInv
    <3> QED BY <2>1, <3>1, <3>2
  <2> QED BY <2>1, <2>2, <2>3, <2>4, <2>6 DEF DoorsInv
<1> QED BY <1>5, <1>6 DEF IInv, OutInv, Tick

-----------------------------------------------------------------------------
(* The theorems *)

\* An empty table, no candidates and nothing past.
LEMMA DemodInit ==
  ASSUME Init
  PROVE  IInv
<1>1. TableInv
  <2>1. phase \in 0..Period-1 /\ \A k \in Key : table[k] = EmptySlot
    BY Bounds DEF Init
  <2>2. \A k \in Key : SlotInv(table[k], SinceSweep(k)) /\ table[k].icao = None
    BY <2>1, Since, EmptySlotOK
  <2>3. table \in [Key -> Slot]
    BY <2>1, <2>2 DEF Init, SlotInv
  <2>4. AiredInv
    BY <2>1, AddrKey, Bounds DEF Init, AiredInv, AiringInv, LongAgo, Holds, EmptySlot
  <2> QED BY <2>1, <2>2, <2>3, <2>4 DEF TableInv
<1>2. ASSUME NEW X, NEW max \in Nat, NEW slots, NEW history,
             history = [x \in X |-> {}]
      PROVE  /\ history \in [X -> SUBSET Nat] /\ HistoryInv(history, X, max)
             /\ CandsInv(slots, [i \in slots |-> NoCandidate], X, history, max)
  <2>1. HistoryInv(history, X, max)
    BY <1>2 DEF HistoryInv, AgesInv
  <2>2. CandsInv(slots, [i \in slots |-> NoCandidate], X, history, max)
    BY DEF CandsInv, NoCandidate, Candidate
  <2> QED BY <1>2, <2>1, <2>2
<1>3. /\ sighted["clean"] = [x \in Ica |-> {}] /\ sighted["coded"] = [x \in Ica |-> {}]
      /\ sighted \in [{"clean", "coded"} -> [Ica -> SUBSET Nat]]
  BY DEF Init
<1>4. DoorsInv
  BY <1>2, <1>3, Bounds DEF Init, DoorsInv
<1> QED BY <1>1, <1>4 DEF IInv, OutInv, Init

\* Every handler and the clock keep it.
LEMMA DemodNext ==
  ASSUME IInv, [Next]_vars
  PROVE  IInv'
<1>1. CASE UNCHANGED vars
  <2>1. UNCHANGED <<phase, table, trustCands, df11Cands, rejectedCands, out, sighted, refused,
              aired>>
    BY <1>1 DEF vars, cands
  <2>2. TableInv' /\ DoorsInv' /\ OutInv'
    BY <2>1, TableKept, DoorsKept DEF IInv, OutInv, cands
  <2> QED BY <2>2 DEF IInv
<1>2. CASE Next
  BY <1>2, TickStep, SquitterStep, DamagedStep, AllCallStep, InterrogatedStep,
     CorrectedStep, ValueStep DEF Next
<1> QED BY <1>1, <1>2

\* The inductive invariant holds in every behaviour.
THEOREM DemodIInv ==
  Spec => []IInv
<1>1. Init => IInv
  BY DemodInit
<1>2. IInv /\ [Next]_vars => IInv'
  BY DemodNext
<1> QED BY <1>1, <1>2, PTL DEF Spec

\* Whatever is decoded, the slots and candidates hold what they are for.
THEOREM DemodTypeOK ==
  Spec => []TypeOK
<1>1. IInv => TypeOK
  <2> SUFFICES ASSUME IInv PROVE TypeOK
    OBVIOUS
  <2>1. phase \in 0..Period-1 /\ DOMAIN table = Key
    BY DEF IInv, TableInv
  <2>2. \A k \in Key : SlotInv(table[k], SinceSweep(k)) /\
                       (table[k].icao # None => KeyOf[table[k].icao.addr] = k)
    BY DEF IInv, TableInv
  <2>3. ASSUME NEW slots, NEW cs, NEW X, NEW h, NEW max, CandsInv(slots, cs, X, h, max)
        PROVE  \A i \in slots : cs[i].of \in X \union {None}
    BY <2>3 DEF CandsInv, Candidate
  <2>4. /\ \A i \in TrustSlots : trustCands[i].of \in Ica \union {None}
        /\ \A i \in Df11Slots : df11Cands[i].of \in Ica \union {None}
        /\ \A i \in RejectedSlots : rejectedCands[i].of \in ValueFrames \union {None}
    BY <2>3 DEF IInv, DoorsInv
  <2>5. ASSUME NEW s, NEW d, SlotInv(s, d)
        PROVE  /\ s.icao \in Ica \union {None} /\ s.bit \in BOOLEAN
               /\ s.ttl \in 0..SeenTtl /\ s.trust \in 0..TrustTtl
               /\ s.last \in 0..DupWindow
               /\ s.altSure => s.alt # None
               /\ s.squawkSure => s.squawk # None
               /\ s.icao = None => s = EmptySlot
    BY <2>5, Bounds DEF SlotInv, Slot
  <2> QED BY <2>1, <2>2, <2>4, <2>5 DEF TypeOK
<1> QED BY <1>1, DemodIInv, PTL

\* Trust, and life with it, is owed to frames of the address itself, of its
\* recent past (ICAOCache.hpp:107-460): two sightings gave it, sound frames
\* prolong it, and no collision, repair or revival does.
THEOREM DemodTrust ==
  Spec => []TrustIsTimely
<1>1. IInv => TrustIsTimely
  <2> SUFFICES ASSUME IInv, NEW k \in Key
               PROVE  /\ table[k].trust > 0 => table[k].earned
                      /\ IsAlive(table[k]) => table[k].named < SeenTtl * Period
                      /\ table[k].trust > 0 => table[k].sound < TrustTtl * Period
                      /\ table[k].icao # None => table[k].named < (SeenTtl + 1) * Period
    BY DEF TrustIsTimely, TrustEarned, TrustDecays, Forgotten
  <2> DEFINE s == table[k]
             d == SinceSweep(k)
  <2>1. s \in Slot /\ TimeInv(s, d) /\ d \in 0..Period-1
    BY Since DEF IInv, TableInv, SlotInv
  <2>2. /\ s.ttl \in 0..SeenTtl /\ s.trust \in 0..TrustTtl /\ s.named \in Nat /\ s.sound \in Nat
    BY <2>1 DEF Slot
  <2>3. /\ Spell(SeenTtl, s.ttl) \in Nat /\ Spell(TrustTtl, s.trust) \in Nat
        /\ s.ttl > 0 => Spell(SeenTtl, s.ttl) + Period <= SeenTtl * Period
        /\ s.trust > 0 => Spell(TrustTtl, s.trust) + Period <= TrustTtl * Period
        /\ Spell(SeenTtl, 0) = SeenTtl * Period
    BY <2>2, SpellFacts, Bounds
  <2> HIDE DEF s, d
  <2>4. s.trust > 0 => s.earned /\ s.sound < TrustTtl * Period
    <3>1. TrustTtl * Period \in Nat
      BY Bounds
    <3> QED BY <2>1, <2>2, <2>3, <3>1, Bounds DEF TimeInv
  <2>5. SeenTtl * Period \in Nat /\ (SeenTtl + 1) * Period = SeenTtl * Period + Period
    BY Bounds
  <2>6. s.ttl > 0 => s.named < SeenTtl * Period
    BY <2>1, <2>2, <2>3, <2>5, Bounds DEF TimeInv
  <2>7. s.named < (SeenTtl + 1) * Period
    <3>1. CASE s.ttl = 0
      BY <2>1, <2>2, <2>3, <2>5, <3>1, Bounds DEF TimeInv
    <3>2. CASE s.ttl > 0
      BY <2>2, <2>5, <2>6, <3>2, Bounds
    <3> QED BY <2>2, <3>1, <3>2, Bounds
  <2> QED BY <2>4, <2>6, <2>7 DEF IsAlive, s
<1> QED BY <1>1, DemodIInv, PTL

\* One transmission is emitted once, by whichever handlers decode it: two
\* emissions of an address are a window apart, unless another address took
\* its slot in between (ICAOCache.hpp:116, 467, DemodCore.hpp:176).
THEOREM DemodEmissionsApart ==
  Spec => []EmissionsApart
<1>1. IInv => EmissionsApart
  BY DEF IInv, OutInv, EmissionsApart
<1> QED BY <1>1, DemodIInv, PTL

\* What its CRC does not vouch for has a witness in what the same aircraft
\* told (ICAOCache.hpp:462-640).
THEOREM DemodCorroborated ==
  Spec => []Corroborated
<1>1. IInv => Corroborated
  BY DEF IInv, OutInv, Corroborated
<1> QED BY <1>1, DemodIInv, PTL

\* Without one, it was refused before, in another transmission
\* (DemodCore.hpp:172-260).
THEOREM DemodRescueIsRepeat ==
  Spec => []RescueIsRepeat
<1>1. IInv => RescueIsRepeat
  BY DEF IInv, OutInv, RescueIsRepeat
<1> QED BY <1>1, DemodIInv, PTL

-----------------------------------------------------------------------------
(* The sizes of a sampler *)

LEMMA Monotone ==
  ASSUME NEW a \in Int, NEW b \in Int, NEW c \in Nat, a <= b
  PROVE  a * c <= b * c
<1>1. PICK e \in Nat : b = a + e
  <2>1. b - a \in Nat /\ b = a + (b - a)
    OBVIOUS
  <2> QED BY <2>1
<1>2. b * c = a * c + e * c /\ e * c \in Nat /\ a * c \in Int
  BY <1>1
<1> QED BY <1>2

\* What divides a number divides it into whole parts.
LEMMA Quotient ==
  ASSUME NEW d \in Nat \ {0}, NEW n \in Nat \ {0}, Divides(d, n)
  PROVE  n \div d \in Nat \ {0} /\ n = d * (n \div d)
<1> DEFINE q == n \div d
<1>1. q \in Int /\ n = d * q
  BY DivMod DEF Divides
<1> HIDE DEF q
<1>2. q > 0
  <2> SUFFICES ASSUME q <= 0 PROVE FALSE
    BY <1>1
  <2>1. q * d <= 0 * d
    BY <1>1, Monotone
  <2> QED BY <1>1, <2>1
<1>3. q \in Nat \ {0} /\ n = d * q
  BY <1>1, <1>2
<1> QED BY <1>3 DEF q

\* There is a greatest common divisor, the one that is least below the first number.
LEMMA GcdDivides ==
  ASSUME NEW a \in Nat \ {0}, NEW b \in Nat \ {0}
  PROVE  Gcd(a, b) \in 1..a /\ Divides(Gcd(a, b), a) /\ Divides(Gcd(a, b), b)
<1> DEFINE Common == {d \in 1..a : Divides(d, a) /\ Divides(d, b)}
           Short == {a - d : d \in Common}
           R == OpToRel(<, Nat)
<1>1. IsWellFoundedOn(R, Nat)
  BY NatLessThanWellFounded
<1>2. 1 \in Common
  <2>1. a % 1 = 0 /\ b % 1 = 0
    BY ModSmall, DivMod
  <2> QED BY <2>1 DEF Divides
<1>3. Short \subseteq Nat /\ Short # {}
  BY <1>2
<1>4. \A x0, y0 \in Nat : <<y0, x0>> \in R <=> y0 < x0
  BY DEF OpToRel
<1> HIDE DEF R
<1>5. PICK s \in Short : \A t \in Short : ~(<<t, s>> \in R)
  <2> HIDE DEF Short
  <2> QED BY <1>1, <1>3, WFMin, Zenon
<1>6. PICK d \in Common : s = a - d
  BY <1>5
<1>7. d \in 1..a /\ Divides(d, a) /\ Divides(d, b)
  BY <1>6
<1>8. ASSUME NEW e \in (d + 1)..a, Divides(e, a), Divides(e, b) PROVE FALSE
  <2>1. e \in Common
    BY <1>7, <1>8
  <2>2. a - e \in Short /\ a - e \in Nat /\ s \in Nat /\ a - e < s
    BY <1>6, <1>7, <2>1
  <2> QED BY <1>4, <1>5, <2>2
<1> HIDE DEF Common, Short
<1>9. \E f \in 1..a : /\ Divides(f, a) /\ Divides(f, b)
                      /\ \A e \in (f + 1)..a : ~(Divides(e, a) /\ Divides(e, b))
  BY <1>7, <1>8
<1> QED BY <1>9 DEF Gcd

\* There is only one.
LEMMA GcdIs ==
  ASSUME NEW a \in Nat \ {0}, NEW b \in Nat \ {0}, NEW d \in 1..a,
         Divides(d, a), Divides(d, b),
         \A e \in (d + 1)..a : ~(Divides(e, a) /\ Divides(e, b))
  PROVE  Gcd(a, b) = d
<1> DEFINE Greatest(f) == /\ Divides(f, a) /\ Divides(f, b)
                          /\ \A e \in (f + 1)..a : ~(Divides(e, a) /\ Divides(e, b))
<1>1. Greatest(d)
  OBVIOUS
<1>2. ASSUME NEW f \in 1..a, Greatest(f) PROVE f = d
  <2>1. ~(f > d)
    <3> SUFFICES ASSUME f > d PROVE FALSE
      OBVIOUS
    <3>1. f \in (d + 1)..a
      OBVIOUS
    <3> QED BY <1>2, <3>1
  <2>2. ~(d > f)
    <3> SUFFICES ASSUME d > f PROVE FALSE
      OBVIOUS
    <3>1. d \in (f + 1)..a
      OBVIOUS
    <3> QED BY <1>2, <3>1
  <2> QED BY <2>1, <2>2
<1>3. Gcd(a, b) = CHOOSE f \in 1..a : Greatest(f)
  BY DEF Gcd
<1> HIDE DEF Greatest
<1> QED BY <1>1, <1>2, <1>3

Sized(s) ==
  /\ {s.ri, s.ro, s.half, s.groups, s.inSize, s.outSize} \subseteq Nat \ {0}
  /\ s.streams = 2 * s.half /\ s.groups >= s.streams
  /\ s.inSize = s.ri * s.groups /\ s.ro <= 100 * s.ri
  /\ s.outSize \div s.streams \in Nat /\ s.outSize \div s.streams >= 266
  /\ s.outSize = s.streams * (s.outSize \div s.streams)

\* A block is a whole number of symbols, and a symbol of two halves.
LEMMA SamplerSized ==
  ASSUME NEW p \in RatePairs
  PROVE  Sized(SamplerOf(p)) /\ SamplerOf(p).pair = p
<1> DEFINE a == p[1] \div 40
           b == p[2] \div 40
           g == Gcd(a, b)
           ri == p[1] \div (40 * g)
           ro == p[2] \div (40 * g)
           n == p[2] \div 1000
           whole == DesiredInputBufferSize \div (ri * n) + 1
           groups == whole * n
           s == SamplerOf(p)
<1>1. /\ p[1] \in Nat \ {0} /\ p[2] \in Nat \ {0} /\ p[1] % 40 = 0 /\ p[2] % 2000 = 0
      /\ p[1] <= p[2] /\ p[2] <= 100 * p[1]
  BY SampleStreamAssumption
<1>2. s = [pair |-> p, ri |-> ri, ro |-> ro, streams |-> n, half |-> n \div 2,
           groups |-> groups, inSize |-> ri * groups, outSize |-> ro * groups,
           passthrough |-> p[1] = p[2]]
  BY DEF SamplerOf
<1>3. a \in Nat \ {0} /\ p[1] = 40 * a
  BY <1>1, Quotient DEF Divides
<1>4. PICK h \in Nat \ {0} : p[2] = 2000 * h
  <2>1. 2000 \in Nat \ {0} /\ Divides(2000, p[2])
    BY <1>1 DEF Divides
  <2> QED BY <1>1, <2>1, Quotient
<1>5. b = 50 * h /\ n = 2 * h
  BY <1>1, <1>4
<1>6. n \div 2 = h
  BY <1>4, <1>5
<1>7. g \in Nat \ {0} /\ Divides(g, a) /\ Divides(g, b) /\ b \in Nat \ {0}
  BY <1>3, <1>4, <1>5, GcdDivides
<1> DEFINE qa == a \div g
           qb == b \div g
<1>8. qa \in Nat \ {0} /\ a = g * qa /\ qb \in Nat \ {0} /\ b = g * qb
  BY <1>3, <1>7, Quotient
<1>9. b <= 100 * a /\ p[2] = 40 * b
  BY <1>1, <1>3, <1>4, <1>5
<1> HIDE DEF a, b, g, qa, qb, s
<1>10. ri = qa /\ ro = qb
  <2> DEFINE k == 40 * g
  <2>1. /\ k \in Nat \ {0} /\ p[1] = k * qa + 0 /\ p[2] = k * qb + 0
    <3>1. /\ 40 * (g * qa) = (40 * g) * qa /\ 40 * (g * qb) = (40 * g) * qb
      BY <1>7, <1>8
    <3> QED BY <1>3, <1>7, <1>8, <1>9, <3>1
  <2>2. ri = p[1] \div k /\ ro = p[2] \div k
    OBVIOUS
  <2> HIDE DEF k, ri, ro
  <2>3. p[1] \div k = qa
    BY <1>1, <1>8, <2>1, DivUnique
  <2>4. p[2] \div k = qb
    BY <1>1, <1>8, <2>1, DivUnique
  <2> QED BY <2>2, <2>3, <2>4
<1>11. qb <= 100 * qa
  <2> SUFFICES ASSUME qb >= 100 * qa + 1 PROVE FALSE
    BY <1>8
  <2>1. (100 * qa + 1) * g <= qb * g
    BY <1>7, <1>8, Monotone
  <2>2. (100 * qa + 1) * g = 100 * (g * qa) + g /\ qb * g = g * qb
    BY <1>7, <1>8
  <2> QED BY <1>7, <1>8, <1>9, <2>1, <2>2
<1>12. ri \in Nat \ {0} /\ ro \in Nat \ {0} /\ ro <= 100 * ri
  BY <1>8, <1>10, <1>11
<1>13. n \in Nat \ {0}
  BY <1>4, <1>5
<1> HIDE DEF ri, ro, n
<1>14. ri * n \in Nat \ {0} /\ DesiredInputBufferSize \in Nat
  BY <1>12, <1>13, SampleStreamAssumption
<1>15. whole \in Nat \ {0}
  BY <1>14
<1> HIDE DEF whole
<1>16. groups \in Nat \ {0} /\ groups >= n
  <2>1. 1 * n <= whole * n
    BY <1>13, <1>15, Monotone
  <2> QED BY <1>13, <1>15, <2>1
<1> DEFINE m == ro * whole
<1>17. ro * groups = n * m /\ m \in Nat \ {0}
  BY <1>12, <1>13, <1>15
<1> HIDE DEF groups, m
<1>18. (ro * groups) \div n = m
  BY <1>13, <1>17, DivUnique
<1>19. m >= 266
  <2>1. ro * groups >= 266 * n
    BY <1>2, LookBackAssumption DEF s
  <2> SUFFICES ASSUME m + 1 <= 266 PROVE FALSE
    BY <1>17
  <2>2. (m + 1) * n <= 266 * n
    BY <1>13, <1>17, Monotone
  <2> QED BY <1>13, <1>17, <2>1, <2>2
<1>20. ri * groups \in Nat \ {0} /\ ro * groups \in Nat \ {0}
  BY <1>12, <1>16
<1>21. /\ s.ri = ri /\ s.ro = ro /\ s.half = h /\ s.groups = groups /\ s.streams = n
       /\ s.inSize = ri * groups /\ s.outSize = ro * groups /\ s.pair = p
  BY <1>2, <1>6
<1>22. Sized(s) /\ s.pair = p
  BY <1>4, <1>5, <1>12, <1>16, <1>17, <1>18, <1>19, <1>20, <1>21 DEF Sized
<1> QED BY <1>22 DEF s

-----------------------------------------------------------------------------
(* A ring after so many writes and reads *)

Even(n) == n % 2 = 0
After(size, delay, writes, reads) ==
  [size |-> size, delay |-> delay,
   front |-> (IF Even(writes) THEN writes ELSE writes - 1) * size - delay,
   block |-> IF Even(writes) THEN <<(writes - 2) * size, (writes - 1) * size>>
             ELSE <<(writes - 1) * size, (writes - 2) * size>>,
   readPos |-> IF Even(reads) THEN 0 ELSE size,
   writePos |-> IF Even(writes) THEN delay ELSE delay + size,
   full |-> writes - reads]

\* Writes and reads alternate between the two blocks.
LEMMA EvenNext == ASSUME NEW n \in Nat PROVE Even(n + 1) <=> ~Even(n)
BY DEF Even

LEMMA RingBegins ==
  ASSUME NEW size \in Nat \ {0}, NEW delay \in Nat
  PROVE  Ring(size, delay) = After(size, delay, 0, 0)
<1>1. Even(0)
  BY DEF Even
<1>2. /\ 0 * size - delay = -delay /\ (0 - 2) * size = -2 * size /\ (0 - 1) * size = -size
      /\ 0 - 0 = 0
  OBVIOUS
<1> QED BY <1>1, <1>2 DEF Ring, After

\* A ring whose first block is the next to write.
FirstNext(ring, size, delay, front, older, newer, readPos, full) ==
  ring = [size |-> size, delay |-> delay, front |-> front, block |-> <<older, newer>>,
          readPos |-> readPos, writePos |-> delay, full |-> full]

LEMMA WrittenFirst ==
  ASSUME NEW size \in Nat \ {0}, NEW delay \in Nat, NEW front, NEW older, NEW newer,
         NEW readPos, NEW full, NEW first \in Int, NEW ring,
         FirstNext(ring, size, delay, front, older, newer, readPos, full)
  PROVE  Written(ring, first) =
           [size |-> size, delay |-> delay, front |-> front, block |-> <<first, newer>>,
            readPos |-> readPos, writePos |-> delay + size, full |-> full + 1]
<1>0. ring = [size |-> size, delay |-> delay, front |-> front, block |-> <<older, newer>>,
              readPos |-> readPos, writePos |-> delay, full |-> full]
  BY DEF FirstNext
<1>1. (ring.writePos - ring.delay) \div ring.size + 1 = 1
  BY <1>0
<1>2. ~(ring.writePos + ring.size + ring.size > RingSize(ring) + ring.delay)
  BY <1>0 DEF RingSize
<1>3. Written(ring, first) =
        [ring EXCEPT !.block[1] = first, !.front = ring.front,
                     !.writePos = ring.writePos + ring.size, !.full = @ + 1]
  BY <1>0, <1>1, <1>2 DEF Written
<1>4. [ring.block EXCEPT ![1] = first] = <<first, newer>>
  BY <1>0
<1> QED BY <1>0, <1>3, <1>4

\* A ring whose second block is the next to write.
SecondNext(ring, size, delay, front, newer, older, readPos, full) ==
  ring = [size |-> size, delay |-> delay, front |-> front, block |-> <<newer, older>>,
          readPos |-> readPos, writePos |-> delay + size, full |-> full]

LEMMA WrittenSecond ==
  ASSUME NEW size \in Nat \ {0}, NEW delay \in Nat, NEW front, NEW older, NEW newer,
         NEW readPos, NEW full, NEW first \in Int, NEW ring,
         SecondNext(ring, size, delay, front, newer, older, readPos, full)
  PROVE  Written(ring, first) =
           [size |-> size, delay |-> delay, front |-> first + size - delay,
            block |-> <<newer, first>>, readPos |-> readPos, writePos |-> delay, full |-> full + 1]
<1>0. ring = [size |-> size, delay |-> delay, front |-> front, block |-> <<newer, older>>,
              readPos |-> readPos, writePos |-> delay + size, full |-> full]
  BY DEF SecondNext
<1>1. (ring.writePos - ring.delay) \div ring.size + 1 = 2
  <2>1. delay + size - delay = size * 1 + 0
    OBVIOUS
  <2>2. (delay + size - delay) \div size = 1
    BY <2>1, DivUnique
  <2> QED BY <1>0, <2>2
<1>2. ring.writePos + ring.size + ring.size > RingSize(ring) + ring.delay
  BY <1>0 DEF RingSize
<1>3. Written(ring, first) =
        [ring EXCEPT !.block[2] = first, !.front = first + ring.size - ring.delay,
                     !.writePos = ring.delay, !.full = @ + 1]
  BY <1>0, <1>1, <1>2 DEF Written
<1>4. [ring.block EXCEPT ![2] = first] = <<newer, first>>
  BY <1>0
<1> QED BY <1>0, <1>3, <1>4

\* A write goes to the other block, and a write that wraps renews the front.
LEMMA WrittenAfter ==
  ASSUME NEW size \in Nat \ {0}, NEW delay \in Nat, NEW n \in Nat, NEW r \in Nat
  PROVE  Written(After(size, delay, n, r), n * size) = After(size, delay, n + 1, r)
<1> DEFINE ring == After(size, delay, n, r)
           m == n * size
           readPos == IF Even(r) THEN 0 ELSE size
<1>1. /\ m \in Int /\ (n - 2) * size = m - 2 * size /\ (n - 1) * size = m - size
      /\ (n + 1) * size = m + size /\ n + 1 - 2 = n - 1 /\ n + 1 - 1 = n
      /\ n - r + 1 = n + 1 - r
  OBVIOUS
<1>2. CASE Even(n)
  <2>1. ring = [size |-> size, delay |-> delay, front |-> m - delay,
                block |-> <<m - 2 * size, m - size>>, readPos |-> readPos,
                writePos |-> delay, full |-> n - r]
    BY <1>1, <1>2 DEF After
  <2>2. After(size, delay, n + 1, r) =
          [size |-> size, delay |-> delay, front |-> m - delay,
           block |-> <<m, m - size>>, readPos |-> readPos,
           writePos |-> delay + size, full |-> n - r + 1]
    BY <1>1, <1>2, EvenNext DEF After
  <2> HIDE DEF ring, m, readPos
  <2>3. Written(ring, m) =
          [size |-> size, delay |-> delay, front |-> m - delay,
           block |-> <<m, m - size>>, readPos |-> readPos,
           writePos |-> delay + size, full |-> n - r + 1]
    <3> DEFINE newer == m - size
               older == m - 2 * size
               front == m - delay
               full == n - r
    <3>1. FirstNext(ring, size, delay, front, older, newer, readPos, full)
      BY <2>1 DEF FirstNext
    <3> HIDE DEF newer, older, front, full
    <3>2. Written(ring, m) =
            [size |-> size, delay |-> delay, front |-> front,
             block |-> <<m, newer>>, readPos |-> readPos, writePos |-> delay + size,
             full |-> full + 1]
      BY <1>1, <3>1, WrittenFirst
    <3> QED BY <3>2 DEF newer, front, full
  <2>4. Written(ring, m) = After(size, delay, n + 1, r)
    BY <2>2, <2>3
  <2> QED BY <2>4 DEF ring, m
<1>3. CASE ~Even(n)
  <2>1. ring = [size |-> size, delay |-> delay, front |-> m - size - delay,
                block |-> <<m - size, m - 2 * size>>, readPos |-> readPos,
                writePos |-> delay + size, full |-> n - r]
    BY <1>1, <1>3 DEF After
  <2>2. After(size, delay, n + 1, r) =
          [size |-> size, delay |-> delay, front |-> m + size - delay,
           block |-> <<m - size, m>>, readPos |-> readPos,
           writePos |-> delay, full |-> n - r + 1]
    BY <1>1, <1>3, EvenNext DEF After
  <2> HIDE DEF ring, m, readPos
  <2>3. Written(ring, m) =
          [size |-> size, delay |-> delay, front |-> m + size - delay,
           block |-> <<m - size, m>>, readPos |-> readPos,
           writePos |-> delay, full |-> n - r + 1]
    <3> DEFINE newer == m - size
               older == m - 2 * size
               front == m - size - delay
               full == n - r
    <3>1. SecondNext(ring, size, delay, front, newer, older, readPos, full)
      BY <2>1 DEF SecondNext
    <3> HIDE DEF newer, older, front, full
    <3>2. Written(ring, m) =
            [size |-> size, delay |-> delay, front |-> m + size - delay,
             block |-> <<newer, m>>, readPos |-> readPos, writePos |-> delay, full |-> full + 1]
      BY <1>1, <3>1, WrittenSecond
    <3> QED BY <3>2 DEF newer, full
  <2>4. Written(ring, m) = After(size, delay, n + 1, r)
    BY <2>2, <2>3
  <2> QED BY <2>4 DEF ring, m
<1> QED BY <1>2, <1>3

LEMMA AdvancedAfter ==
  ASSUME NEW size \in Nat \ {0}, NEW delay \in Nat, NEW n \in Nat, NEW r \in Nat
  PROVE  Advanced(After(size, delay, n, r)) = After(size, delay, n, r + 1)
<1> DEFINE ring == After(size, delay, n, r)
           front == (IF Even(n) THEN n ELSE n - 1) * size - delay
           block == IF Even(n) THEN <<(n - 2) * size, (n - 1) * size>>
                    ELSE <<(n - 1) * size, (n - 2) * size>>
           writePos == IF Even(n) THEN delay ELSE delay + size
           readPos == IF Even(r) THEN 0 ELSE size
           nextPos == IF Even(r + 1) THEN 0 ELSE size
<1>1. ring = [size |-> size, delay |-> delay, front |-> front, block |-> block,
              readPos |-> readPos, writePos |-> writePos, full |-> n - r]
  BY DEF After
<1>2. After(size, delay, n, r + 1) =
        [size |-> size, delay |-> delay, front |-> front, block |-> block,
         readPos |-> nextPos, writePos |-> writePos, full |-> n - r - 1]
  <2>1. n - (r + 1) = n - r - 1
    OBVIOUS
  <2> QED BY <2>1 DEF After
<1>3. nextPos = IF readPos + size >= 2 * size THEN 0 ELSE readPos + size
  BY EvenNext
<1> HIDE DEF ring, front, block, writePos, readPos, nextPos
<1>4. (IF ring.readPos + ring.size >= RingSize(ring) THEN 0 ELSE ring.readPos + ring.size)
        = nextPos
  BY <1>1, <1>3 DEF RingSize
<1>5. Advanced(ring) = [ring EXCEPT !.readPos = nextPos, !.full = @ - 1]
  BY <1>4 DEF Advanced
<1>6. Advanced(ring) = After(size, delay, n, r + 1)
  BY <1>1, <1>2, <1>5
<1> QED BY <1>6 DEF ring

\* The cells of a ring: the front, and the two blocks.
LEMMA CellsOf ==
  ASSUME NEW ring, ring.size \in Nat \ {0}, ring.delay \in Nat, NEW c \in Nat
  PROVE  /\ c < ring.delay => At(ring, c) = ring.front + c
         /\ c >= ring.delay /\ c < ring.delay + ring.size =>
              At(ring, c) = ring.block[1] + (c - ring.delay)
         /\ c >= ring.delay + ring.size /\ c < ring.delay + ring.size + ring.size =>
              At(ring, c) = ring.block[2] + (c - ring.delay - ring.size)
<1> DEFINE size == ring.size
           delay == ring.delay
<1>1. ASSUME c < delay PROVE At(ring, c) = ring.front + c
  BY <1>1 DEF At
<1>2. ASSUME c >= delay, c < delay + size PROVE At(ring, c) = ring.block[1] + (c - delay)
  <2> DEFINE x == c - delay
  <2>1. x = size * 0 + x /\ x \in 0..size-1
    BY <1>2
  <2>2. x \div size = 0 /\ x % size = x
    BY <2>1, DivUnique, ModUnique, SMTT(30)
  <2>3. At(ring, c) = ring.block[x \div size + 1] + (x % size)
    BY <1>2 DEF At
  <2> HIDE DEF x
  <2>4. At(ring, c) = ring.block[1] + x
    BY <2>2, <2>3
  <2> QED BY <2>4 DEF x
<1>3. ASSUME c >= delay + size, c < delay + size + size
      PROVE  At(ring, c) = ring.block[2] + (c - delay - size)
  <2> DEFINE x == c - delay
             y == x - size
  <2>1. x = size * 1 + y /\ y \in 0..size-1 /\ x \in Int
    BY <1>3
  <2>2. At(ring, c) = ring.block[x \div size + 1] + (x % size)
    BY <1>3 DEF At
  <2>3. size \in Nat \ {0}
    OBVIOUS
  <2> HIDE DEF x, y, size
  <2>4. x \div size = 1 /\ x % size = y
    BY <2>1, <2>3, DivUnique, ModUnique
  <2>5. At(ring, c) = ring.block[2] + y
    BY <2>2, <2>4
  <2> QED BY <2>5 DEF x, y, size
<1> QED BY <1>1, <1>2, <1>3

\* While the last block written is being read.
LEMMA BlockBeingRead ==
  ASSUME NEW size \in Nat \ {0}, NEW delay \in 0..size, NEW n \in Nat
  PROVE  LET ring == After(size, delay, n + 1, n)
             m == n * size
         IN  /\ m \in Int /\ ring.size = size /\ ring.delay = delay
             /\ Even(n) => /\ ring.front = m - delay /\ ring.block = <<m, m - size>>
                           /\ ring.readPos = 0
             /\ ~Even(n) => /\ ring.front = m + size - delay /\ ring.block = <<m - size, m>>
                            /\ ring.readPos = size
<1>1. /\ n * size \in Int /\ (n - 1) * size = n * size - size
      /\ (n + 1) * size = n * size + size /\ n + 1 - 2 = n - 1 /\ n + 1 - 1 = n
  OBVIOUS
<1> QED BY <1>1, EvenNext DEF After

\* From there the numbers go on to the end of the block and what it is late by.
LEMMA AheadInRing ==
  ASSUME NEW size \in Nat \ {0}, NEW delay \in 0..size, NEW n \in Nat,
         NEW y \in 0..(size + delay - 1)
  PROVE  LET ring == After(size, delay, n + 1, n)
         IN  At(ring, ring.readPos + y) = n * size + y - delay
<1> DEFINE ring == After(size, delay, n + 1, n)
           m == n * size
<1>1. /\ m \in Int /\ ring.size = size /\ ring.delay = delay
      /\ Even(n) => /\ ring.front = m - delay /\ ring.block = <<m, m - size>>
                    /\ ring.readPos = 0
      /\ ~Even(n) => /\ ring.front = m + size - delay /\ ring.block = <<m - size, m>>
                     /\ ring.readPos = size
  BY BlockBeingRead
<1> HIDE DEF ring, m
<1>2. CASE Even(n)
  <2>1. ring.readPos + y = y /\ y \in Nat
    BY <1>1, <1>2
  <2>2. /\ y < delay => At(ring, y) = m - delay + y
        /\ y >= delay => At(ring, y) = m + (y - delay)
    BY <1>1, <1>2, CellsOf
  <2> QED BY <1>1, <2>1, <2>2 DEF ring, m
<1>3. CASE ~Even(n)
  <2> DEFINE c == size + y
  <2>1. ring.readPos + y = c /\ c \in Nat
    BY <1>1, <1>3
  <2>2. c >= delay /\ c < delay + size + size
    OBVIOUS
  <2> HIDE DEF c
  <2>3. /\ c < delay + size => At(ring, c) = m - size + (c - delay)
        /\ c >= delay + size => At(ring, c) = m + (c - delay - size)
    BY <1>1, <1>3, <2>1, <2>2, CellsOf
  <2>4. At(ring, c) = m - size + c - delay
    BY <1>1, <2>1, <2>3
  <2>5. m - size + c - delay = m + y - delay
    BY <1>1 DEF c
  <2> QED BY <2>1, <2>4, <2>5 DEF ring, m
<1> QED BY <1>2, <1>3

\* A look-back that does not reach into the front finds the number as far back.
LEMMA BackInRing ==
  ASSUME NEW size \in Nat \ {0}, NEW delay \in 0..size, NEW n \in Nat,
         NEW offset \in 0..(size - 1), NEW k \in Nat, k <= size - delay + offset
  PROVE  LookBack(After(size, delay, n + 1, n), k, offset) = n * size + offset - delay - k
<1> DEFINE ring == After(size, delay, n + 1, n)
           m == n * size
<1>1. /\ m \in Int /\ ring.size = size /\ ring.delay = delay
      /\ Even(n) => /\ ring.front = m - delay /\ ring.block = <<m, m - size>>
                    /\ ring.readPos = 0
      /\ ~Even(n) => /\ ring.front = m + size - delay /\ ring.block = <<m - size, m>>
                     /\ ring.readPos = size
  BY BlockBeingRead
<1> HIDE DEF ring, m
<1> DEFINE at == ring.readPos + offset
           i == at + 2 * size - k
           c == IF i >= 2 * size THEN i - 2 * size ELSE i
<1>2. ring.readPos \in {0, size} /\ at \in 0..(2 * size - 1) /\ 2 * size \in Nat \ {0}
  BY <1>1
<1>3. LookBack(ring, k, offset) = At(ring, c)
  <2>1. at % (2 * size) = at
    <3> HIDE DEF at
    <3> QED BY <1>2, ModSmall
  <2> QED BY <1>1, <2>1 DEF LookBack, RingSize
<1>4. CASE Even(n)
  <2>1. at = offset
    BY <1>1, <1>4
  <2>2. CASE k <= offset
    <3>1. c = offset - k /\ c \in Nat /\ c < size
      BY <2>1, <2>2
    <3> HIDE DEF c
    <3>2. At(ring, c) = m - delay + c \/ At(ring, c) = m + (c - delay)
      BY <1>1, <1>4, <3>1, CellsOf
    <3>3. At(ring, c) = m + offset - delay - k
      BY <1>1, <3>1, <3>2
    <3> QED BY <1>3, <3>3 DEF ring, m
  <2>3. CASE k > offset
    <3>1. /\ c = offset + 2 * size - k /\ c \in Nat /\ c >= delay + size /\ c < delay + size + size
      BY <2>1, <2>3
    <3> HIDE DEF c
    <3>2. At(ring, c) = m - size + (c - delay - size)
      BY <1>1, <1>4, <3>1, CellsOf
    <3>3. At(ring, c) = m + offset - delay - k
      BY <1>1, <3>1, <3>2
    <3> QED BY <1>3, <3>3 DEF ring, m
  <2> QED BY <2>2, <2>3
<1>5. CASE ~Even(n)
  <2>1. at = size + offset
    BY <1>1, <1>5
  <2>2. /\ c = size + offset - k /\ c \in Nat /\ c >= delay /\ c < delay + size + size
    BY <2>1
  <2> HIDE DEF c
  <2>3. At(ring, c) = m - size + (c - delay) \/ At(ring, c) = m + (c - delay - size)
    BY <1>1, <1>5, <2>2, CellsOf
  <2>4. At(ring, c) = m + offset - delay - k
    BY <1>1, <2>2, <2>3
  <2> QED BY <1>3, <2>4 DEF ring, m
<1> QED BY <1>4, <1>5

-----------------------------------------------------------------------------
(* The tables of the samplers *)

\* For every output: its inputs are of the group, its weights add up, and its
\* instant is less than a step from where an even spacing has it.
Spaced(mixes, ri, ro) ==
  \A j \in DOMAIN mixes :
    LET strays == (mixes[j].k * mixes[j].den + mixes[j].w1) * ro - (j - 1) * ri * mixes[j].den
    IN  /\ mixes[j].k \in 0..(ri - 1)
        /\ mixes[j].w0 + mixes[j].w1 = mixes[j].den /\ mixes[j].w0 >= 0
        /\ -ro <= strays /\ strays <= ri * mixes[j].den

\* Rates without a common divisor above d.
LEMMA NoneGreater ==
  ASSUME NEW a \in Nat \ {0}, NEW b \in Nat \ {0}, NEW d \in 1..a, a < 3 * (d + 1),
         b % a # 0 \/ a = d,
         \A h \in Nat : a = 2 * h => b % h # 0 \/ h <= d
  PROVE  \A e \in (d + 1)..a : ~(Divides(e, a) /\ Divides(e, b))
<1> SUFFICES ASSUME NEW e \in (d + 1)..a, Divides(e, a), Divides(e, b) PROVE FALSE
  OBVIOUS
<1> DEFINE q == a \div e
<1>1. q \in Nat \ {0} /\ a = e * q
  BY Quotient
<1> HIDE DEF q
<1>2. q < 3
  <2> SUFFICES ASSUME 3 <= q PROVE FALSE
    BY <1>1
  <2>1. 3 * e <= q * e
    BY <1>1, Monotone
  <2> QED BY <1>1, <2>1
<1>3. CASE q = 1
  BY <1>1, <1>3 DEF Divides
<1>4. CASE q = 2
  BY <1>1, <1>4 DEF Divides
<1> QED BY <1>1, <1>2, <1>3, <1>4

LEMMA Multiple ==
  ASSUME NEW d \in Nat \ {0}, NEW q \in Nat, NEW n, n = d * q
  PROVE  n % d = 0 /\ n \div d = q
<1>1. n \in Int /\ n = d * q + 0 /\ 0 \in 0..d-1
  OBVIOUS
<1>2. n % d = 0
  BY <1>1, ModUnique
<1>3. n \div d = q
  BY <1>1, DivUnique
<1> QED BY <1>2, <1>3

\* Two rates in units of 40 kHz, whose greatest common divisor is d.
Reduced(p, a, b, d, ri, ro) ==
  /\ p[1] = 40 * a /\ p[2] = 40 * b /\ {a, b} \subseteq Nat \ {0}
  /\ d \in 1..a /\ {ri, ro} \subseteq Nat /\ a = d * ri /\ b = d * ro
  /\ a < 3 * (d + 1) /\ (b % a # 0 \/ a = d)
  /\ \A h \in Nat : a = 2 * h => b % h # 0 \/ h <= d

LEMMA RatioIs ==
  ASSUME NEW p \in RatePairs, NEW a, NEW b, NEW d, NEW ri, NEW ro, Reduced(p, a, b, d, ri, ro)
  PROVE  SamplerOf(p).ri = ri /\ SamplerOf(p).ro = ro
<1> DEFINE k == 40 * d
<1>1. /\ p[1] = 40 * a /\ p[2] = 40 * b /\ a \in Nat \ {0} /\ b \in Nat \ {0}
      /\ d \in 1..a /\ ri \in Nat /\ ro \in Nat /\ a = d * ri /\ b = d * ro
      /\ k \in Nat \ {0} /\ d \in Nat \ {0}
  BY DEF Reduced
<1>2. p[1] \div 40 = a /\ p[2] \div 40 = b
  BY <1>1
<1>3. Divides(d, a) /\ Divides(d, b)
  BY <1>1, Multiple DEF Divides
<1>4. Gcd(a, b) = d
  <2>1. \A e \in (d + 1)..a : ~(Divides(e, a) /\ Divides(e, b))
    BY <1>1, NoneGreater DEF Reduced
  <2> QED BY <1>1, <1>3, <2>1, GcdIs
<1>5. p[1] = k * ri /\ p[2] = k * ro
  <2>1. 40 * (d * ri) = (40 * d) * ri /\ 40 * (d * ro) = (40 * d) * ro
    BY <1>1
  <2> QED BY <1>1, <2>1
<1> HIDE DEF k
<1>6. p[1] \div k = ri
  BY <1>1, <1>5, Multiple
<1>7. p[2] \div k = ro
  BY <1>1, <1>5, Multiple
<1> QED BY <1>2, <1>4, <1>6, <1>7 DEF SamplerOf, k

LEMMA Ratio2400To4000 ==
  ASSUME NEW p \in RatePairs, p = <<2400, 4000>>
  PROVE  SamplerOf(p).ri = 3 /\ SamplerOf(p).ro = 5
<1>1. 100 % 30 # 0 \/ 30 <= 20
  OBVIOUS
<1>2. ASSUME NEW h \in Nat, 60 = 2 * h PROVE 100 % h # 0 \/ h <= 20
  <2>1. h = 30
    BY <1>2
  <2> QED BY <1>1, <2>1
<1>3. Reduced(p, 60, 100, 20, 3, 5)
  BY <1>2 DEF Reduced
<1> QED BY <1>3, RatioIs

LEMMA Ratio2400To6000 ==
  ASSUME NEW p \in RatePairs, p = <<2400, 6000>>
  PROVE  SamplerOf(p).ri = 2 /\ SamplerOf(p).ro = 5
<1>1. 150 % 30 # 0 \/ 30 <= 30
  OBVIOUS
<1>2. ASSUME NEW h \in Nat, 60 = 2 * h PROVE 150 % h # 0 \/ h <= 30
  <2>1. h = 30
    BY <1>2
  <2> QED BY <1>1, <2>1
<1>3. Reduced(p, 60, 150, 30, 2, 5)
  BY <1>2 DEF Reduced
<1> QED BY <1>3, RatioIs

LEMMA Ratio2400To8000 ==
  ASSUME NEW p \in RatePairs, p = <<2400, 8000>>
  PROVE  SamplerOf(p).ri = 3 /\ SamplerOf(p).ro = 10
<1>1. 200 % 30 # 0 \/ 30 <= 20
  OBVIOUS
<1>2. ASSUME NEW h \in Nat, 60 = 2 * h PROVE 200 % h # 0 \/ h <= 20
  <2>1. h = 30
    BY <1>2
  <2> QED BY <1>1, <2>1
<1>3. Reduced(p, 60, 200, 20, 3, 10)
  BY <1>2 DEF Reduced
<1> QED BY <1>3, RatioIs

LEMMA Ratio6000To16000 ==
  ASSUME NEW p \in RatePairs, p = <<6000, 16000>>
  PROVE  SamplerOf(p).ri = 3 /\ SamplerOf(p).ro = 8
<1>1. 400 % 75 # 0 \/ 75 <= 50
  OBVIOUS
<1>2. ASSUME NEW h \in Nat, 150 = 2 * h PROVE 400 % h # 0 \/ h <= 50
  <2>1. h = 75
    BY <1>2
  <2> QED BY <1>1, <2>1
<1>3. Reduced(p, 150, 400, 50, 3, 8)
  BY <1>2 DEF Reduced
<1> QED BY <1>3, RatioIs

LEMMA Ratio6000To24000 ==
  ASSUME NEW p \in RatePairs, p = <<6000, 24000>>
  PROVE  SamplerOf(p).ri = 1 /\ SamplerOf(p).ro = 4
<1>1. 600 % 75 # 0 \/ 75 <= 150
  OBVIOUS
<1>2. ASSUME NEW h \in Nat, 150 = 2 * h PROVE 600 % h # 0 \/ h <= 150
  <2>1. h = 75
    BY <1>2
  <2> QED BY <1>1, <2>1
<1>3. Reduced(p, 150, 600, 150, 1, 4)
  BY <1>2 DEF Reduced
<1> QED BY <1>3, RatioIs

\* A weight is the rounded part of h an instant is from the input before it.
LEMMA Rounding ==
  ASSUME NEW ro \in Nat \ {0}, NEW rest \in 0..(ro - 1), NEW h \in Nat \ {0},
         NEW part, part = rest * h, NEW w, w = (2 * part + ro) \div (2 * ro)
  PROVE  w \in 0..h /\ -ro <= w * ro - part /\ w * ro - part <= ro
<1> DEFINE den == 2 * ro
           num == 2 * part + ro
           more == num % den
<1>1. part \in Nat /\ num \in Int /\ den \in Nat \ {0} /\ w = num \div den
  OBVIOUS
<1>2. part <= ro * h - h /\ ro * h \in Nat
  <2>1. rest * h <= (ro - 1) * h
    BY Monotone
  <2> QED BY <2>1
<1>3. den = 2 * ro /\ num = 2 * part + ro
  OBVIOUS
<1> HIDE DEF den, num
<1>4. w \in Int /\ more \in 0..(den - 1) /\ num = den * w + more
  BY <1>1, DivMod
<1> HIDE DEF more
<1>5. den * w = 2 * (w * ro) /\ w * ro \in Int
  BY <1>3, <1>4
<1>6. -ro <= w * ro - part /\ w * ro - part <= ro
  BY <1>1, <1>3, <1>4, <1>5
<1>7. ~(w < 0)
  <2> SUFFICES ASSUME w <= -1 PROVE FALSE
    BY <1>4
  <2>1. w * ro <= (-1) * ro
    BY <1>4, Monotone
  <2> QED BY <1>1, <1>3, <1>4, <1>5, <2>1
<1>8. ~(w > h)
  <2> SUFFICES ASSUME h + 1 <= w PROVE FALSE
    BY <1>4
  <2>1. (h + 1) * ro <= w * ro
    BY <1>4, Monotone
  <2>2. (h + 1) * ro = ro * h + ro
    OBVIOUS
  <2> QED BY <1>1, <1>2, <1>5, <1>6, <2>1, <2>2
<1> QED BY <1>4, <1>6, <1>7, <1>8

\* The input before an instant is one of the group.
LEMMA InputBefore ==
  ASSUME NEW ri \in Nat \ {0}, NEW ro \in Nat \ {0}, NEW j \in 1..ro,
         NEW at, at = (j - 1) * ri
  PROVE  /\ at \in Nat /\ at \div ro \in 0..(ri - 1) /\ at % ro \in 0..(ro - 1)
         /\ at = ro * (at \div ro) + (at % ro)
<1>1. at \in Nat /\ at <= ro * ri - ri /\ ro * ri \in Nat
  <2>1. (j - 1) * ri <= (ro - 1) * ri
    BY Monotone
  <2>2. (ro - 1) * ri = ro * ri - ri /\ (j - 1) * ri \in Nat
    OBVIOUS
  <2> QED BY <2>1, <2>2
<1>2. at \in Int
  BY <1>1
<1>3. at \div ro \in Int /\ at % ro \in 0..(ro - 1) /\ at = ro * (at \div ro) + (at % ro)
  BY <1>2, DivMod
<1> DEFINE k == at \div ro
           rest == at % ro
<1>4. k \in Int /\ rest \in 0..(ro - 1) /\ at = k * ro + rest
  BY <1>3
<1> HIDE DEF k, rest
<1>5. ~(k < 0)
  <2> SUFFICES ASSUME k <= -1 PROVE FALSE
    BY <1>4
  <2>1. k * ro <= (-1) * ro
    BY <1>4, Monotone
  <2> QED BY <1>1, <1>4, <2>1
<1>6. ~(k >= ri)
  <2> SUFFICES ASSUME ri <= k PROVE FALSE
    OBVIOUS
  <2>1. ri * ro <= k * ro
    BY <1>4, Monotone
  <2> QED BY <1>1, <1>4, <2>1
<1>7. k \in 0..(ri - 1)
  BY <1>4, <1>5, <1>6
<1> QED BY <1>1, <1>3, <1>7 DEF k

\* An interpolation has the weights of the two inputs around its instant.
LEMMA LinearSpaced ==
  ASSUME Sized(sampler)
  PROVE  Spaced(Linear, sampler.ri, sampler.ro)
<1> DEFINE ri == sampler.ri
           ro == sampler.ro
           h == Halves
<1>1. ri \in Nat \ {0} /\ ro \in Nat \ {0} /\ ro <= ri * h /\ h \in Nat \ {0}
  BY DEF Sized, Halves
<1>2. DOMAIN Linear = 1..ro
  BY DEF Linear
<1>3. ASSUME NEW j \in 1..ro
      PROVE  LET mix == Linear[j]
                 strays == (mix.k * mix.den + mix.w1) * ro - (j - 1) * ri * mix.den
             IN  /\ mix.k \in 0..(ri - 1) /\ mix.w0 + mix.w1 = mix.den /\ mix.w0 >= 0
                 /\ -ro <= strays /\ strays <= ri * mix.den
  <2> DEFINE at == (j - 1) * ri
             k == at \div ro
             rest == at % ro
             part == rest * h
             w == (2 * part + ro) \div (2 * ro)
             mix == Linear[j]
  <2>1. mix = [k |-> k, w0 |-> h - w, w1 |-> w, den |-> h]
    BY DEF Linear, Mix
  <2>2. at = (j - 1) * ri /\ k = at \div ro /\ rest = at % ro /\ part = rest * h
        /\ w = (2 * part + ro) \div (2 * ro)
    OBVIOUS
  <2> HIDE DEF at, k, rest, part, w, mix, h, ri, ro
  <2>3. at \in Nat /\ k \in 0..(ri - 1) /\ rest \in 0..(ro - 1) /\ at = ro * k + rest
    BY <1>1, <2>2, InputBefore
  <2>4. w \in 0..h /\ -ro <= w * ro - part /\ w * ro - part <= ro
    BY <1>1, <2>2, <2>3, Rounding
  <2>5. (k * h + w) * ro - at * h = w * ro - part
    <3>1. (k * h + w) * ro - (ro * k + rest) * h = w * ro - rest * h
      BY <1>1, <2>3, <2>4
    <3> QED BY <2>2, <2>3, <3>1
  <2>6. h - w + w = h /\ h - w >= 0 /\ w * ro - part <= ri * h
    <3>1. w * ro \in Int /\ part \in Int /\ ri * h \in Int
      BY <1>1, <2>2, <2>3, <2>4
    <3> QED BY <1>1, <2>4, <3>1
  <2>7. /\ mix.k \in 0..(ri - 1) /\ mix.w0 + mix.w1 = mix.den /\ mix.w0 >= 0
        /\ -ro <= (mix.k * mix.den + mix.w1) * ro - at * mix.den
        /\ (mix.k * mix.den + mix.w1) * ro - at * mix.den <= ri * mix.den
    BY <2>1, <2>3, <2>4, <2>5, <2>6
  <2> QED BY <2>7 DEF mix, at
<1> QED BY <1>2, <1>3 DEF Spaced

LEMMA TableSpaced ==
  ASSUME NEW p \in RatePairs, sampler = SamplerOf(p)
  PROVE  Spaced(Table(p), sampler.ri, sampler.ro)
<1>0. Spaced(Linear, sampler.ri, sampler.ro)
  BY SamplerSized, LinearSpaced
<1>1. CASE p = <<2400, 4000>>
  <2>1. sampler.ri = 3 /\ sampler.ro = 5
    BY <1>1, Ratio2400To4000
  <2>2. Table(p) = <<Mix(0, 3, 3, 6), Mix(1, 5, 1, 6), Mix(1, 2, 4, 6), Mix(2, 4, 2, 6),
                    Mix(2, 1, 5, 6)>>
    BY <1>1 DEF Table
  <2> QED BY <2>1, <2>2 DEF Spaced, Mix
<1>2. CASE p = <<2400, 6000>>
  <2>1. sampler.ri = 2 /\ sampler.ro = 5
    BY <1>2, Ratio2400To6000
  <2>2. Table(p) = <<Mix(0, 5, 1, 6), Mix(0, 3, 3, 6), Mix(0, 1, 5, 6), Mix(1, 4, 2, 6),
                    Mix(1, 2, 4, 6)>>
    BY <1>2 DEF Table
  <2> QED BY <2>1, <2>2 DEF Spaced, Mix
<1>3. CASE p = <<2400, 8000>>
  <2>1. sampler.ri = 3 /\ sampler.ro = 10
    BY <1>3, Ratio2400To8000
  <2>2. Table(p) = <<Mix(0, 7, 1, 8), Mix(0, 4, 4, 8), Mix(0, 1, 7, 8), Mix(1, 8, 0, 8),
                    Mix(1, 5, 3, 8), Mix(1, 2, 6, 8), Mix(2, 8, 0, 8), Mix(2, 6, 2, 8),
                    Mix(2, 3, 5, 8), Mix(2, 0, 8, 8)>>
    BY <1>3 DEF Table
  <2> QED BY <2>1, <2>2 DEF Spaced, Mix
<1>4. CASE p = <<6000, 16000>>
  <2>1. sampler.ri = 3 /\ sampler.ro = 8
    BY <1>4, Ratio6000To16000
  <2>2. Table(p) = <<Mix(0, 8, 0, 8), Mix(0, 5, 3, 8), Mix(0, 2, 6, 8), Mix(1, 7, 1, 8),
                    Mix(1, 4, 4, 8), Mix(1, 1, 7, 8), Mix(2, 6, 2, 8), Mix(2, 3, 5, 8)>>
    BY <1>4 DEF Table
  <2> QED BY <2>1, <2>2 DEF Spaced, Mix
<1>5. CASE p = <<6000, 24000>>
  <2> DEFINE mixes == <<Mix(0, 1, 0, 1), Mix(0, 3, 1, 4), Mix(0, 1, 1, 2), Mix(0, 1, 3, 4)>>
  <2>1. sampler.ri = 1 /\ sampler.ro = 4
    BY <1>5, Ratio6000To24000
  <2>2. Table(p) = mixes
    BY <1>5 DEF Table
  <2>3. DOMAIN mixes = {1, 2, 3, 4} /\ 0 \in 0..(1 - 1)
    OBVIOUS
  <2>4. /\ mixes[1] = Mix(0, 1, 0, 1) /\ mixes[2] = Mix(0, 3, 1, 4)
        /\ mixes[3] = Mix(0, 1, 1, 2) /\ mixes[4] = Mix(0, 1, 3, 4)
    OBVIOUS
  <2> HIDE DEF mixes
  <2>5. Spaced(mixes, 1, 4)
    BY <2>3, <2>4 DEF Spaced, Mix
  <2> QED BY <2>1, <2>2, <2>5
<1> QED BY <1>0, <1>1, <1>2, <1>3, <1>4, <1>5 DEF Table

-----------------------------------------------------------------------------
(* The inductive invariant of the stream *)

SpecStream == InitStream /\ [][NextStream]_streamVars

\* At every place the rings have had one block after the other, and which of
\* them is a block ahead.
RingsInv ==
  /\ \E p \in RatePairs : sampler = SamplerOf(p)
  /\ read \in Nat /\ pc \in {"eof", "read", "sample", "demod", "ended"}
  /\ pc \notin {"sample", "demod"} => samples = After(sampler.outSize, Half, read, read)
  /\ pc = "demod" => read > 0 /\ samples = After(sampler.outSize, Half, read, read - 1)
  /\ pc = "sample" => /\ ~sampler.passthrough /\ read > 0
                      /\ samples = After(sampler.outSize, Half, read - 1, read - 1)
                      /\ input = After(sampler.inSize, 1, read, read - 1)
  /\ pc # "sample" /\ ~sampler.passthrough => input = After(sampler.inSize, 1, read, read)

\* The blocks since the last flush are fewer than are flushed together.
FlushInv ==
  /\ sinceFlush \in Nat /\ sinceFlush < FlushEveryBlocks
  /\ unflushed = IF pc = "ended" THEN 0 ELSE sinceFlush * BlockMicros

LEMMA InvSized == RingsInv => Sized(sampler)
BY SamplerSized DEF RingsInv

LEMMA StreamInit == InitStream => RingsInv
<1> SUFFICES ASSUME InitStream PROVE RingsInv
  OBVIOUS
<1>1. PICK p \in RatePairs : sampler = SamplerOf(p)
  BY DEF InitStream
<1>2. /\ sampler.inSize \in Nat \ {0} /\ sampler.outSize \in Nat \ {0} /\ Half \in Nat
  BY <1>1, SamplerSized DEF Sized, Half
<1>3. input = After(sampler.inSize, 1, 0, 0) /\ samples = After(sampler.outSize, Half, 0, 0)
  BY <1>2, RingBegins DEF InitStream
<1> QED BY <1>1, <1>3 DEF InitStream, RingsInv

LEMMA StreamStep == RingsInv /\ [NextStream]_streamVars => RingsInv'
<1> SUFFICES ASSUME RingsInv, [NextStream]_streamVars PROVE RingsInv'
  OBVIOUS
<1>1. /\ sampler.inSize \in Nat \ {0} /\ sampler.outSize \in Nat \ {0} /\ Half \in Nat
      /\ read \in Nat /\ \E p \in RatePairs : sampler = SamplerOf(p)
  BY InvSized DEF RingsInv, Sized, Half
<1>2. CASE Eof
  <2>1. UNCHANGED <<sampler, input, samples, read>> /\ pc = "eof" /\ pc' \in {"ended", "read"}
    BY <1>2 DEF Eof
  <2> QED BY <2>1 DEF RingsInv, Half
<1>3. ASSUME NEW short \in BOOLEAN, ReadMagnitude(short) PROVE RingsInv'
  <2>1. pc = "read" /\ read' = read + 1 /\ UNCHANGED sampler /\ read' - 1 = read
    BY <1>1, <1>3 DEF ReadMagnitude
  <2>2. samples = After(sampler.outSize, Half, read, read)
    BY <2>1 DEF RingsInv
  <2>3. CASE sampler.passthrough
    <3>1. samples' = Written(samples, read * sampler.outSize) /\ pc' = "demod" /\ UNCHANGED input
      BY <1>3, <2>3 DEF ReadMagnitude
    <3>2. samples' = After(sampler.outSize, Half, read + 1, read)
      BY <1>1, <2>2, <3>1, WrittenAfter, ZenonT(40)
    <3> QED BY <1>1, <2>1, <2>3, <3>1, <3>2 DEF RingsInv, Half
  <2>4. CASE ~sampler.passthrough
    <3>1. input' = Written(input, read * sampler.inSize) /\ pc' = "sample" /\ UNCHANGED samples
      BY <1>3, <2>4 DEF ReadMagnitude
    <3>2. input = After(sampler.inSize, 1, read, read)
      BY <2>1, <2>4 DEF RingsInv
    <3>3. input' = After(sampler.inSize, 1, read + 1, read)
      <4> DEFINE size == sampler.inSize
                 late == 1
      <4>1. size \in Nat \ {0} /\ late \in Nat /\ read \in Nat
        BY <1>1
      <4>2. input = After(size, late, read, read) /\ input' = Written(input, read * size)
        BY <3>1, <3>2
      <4> HIDE DEF size, late
      <4>3. Written(After(size, late, read, read), read * size) = After(size, late, read + 1, read)
        BY <4>1, WrittenAfter
      <4>4. input' = After(size, late, read + 1, read)
        BY <4>2, <4>3
      <4> QED BY <4>4 DEF size, late
    <3> QED BY <1>1, <2>1, <2>2, <2>4, <3>1, <3>3 DEF RingsInv, Half
  <2> QED BY <2>3, <2>4
<1>4. CASE Sample
  <2>1. pc = "sample" /\ pc' = "demod" /\ UNCHANGED <<sampler, read>>
    BY <1>4 DEF Sample
  <2>2. /\ ~sampler.passthrough /\ read > 0
        /\ samples = After(sampler.outSize, Half, read - 1, read - 1)
        /\ input = After(sampler.inSize, 1, read, read - 1)
    BY <2>1 DEF RingsInv
  <2>3. read - 1 \in Nat /\ read - 1 + 1 = read /\ read - (read - 1) = 1
    BY <1>1, <2>2
  <2>4. input.full = 1
    BY <2>2, <2>3 DEF After
  <2>5. /\ input' = Advanced(input)
        /\ samples' = Written(samples, (read - 1) * sampler.outSize)
    BY <1>4, <2>4 DEF Sample
  <2>6. input' = After(sampler.inSize, 1, read, read)
    <3> DEFINE size == sampler.inSize
               late == 1
               before == read - 1
    <3>1. size \in Nat \ {0} /\ late \in Nat /\ before \in Nat /\ before + 1 = read
      BY <1>1, <2>3
    <3>2. input = After(size, late, read, before)
      BY <2>2
    <3> HIDE DEF size, late, before
    <3>3. Advanced(After(size, late, read, before)) = After(size, late, read, before + 1)
      BY <1>1, <3>1, AdvancedAfter
    <3>4. input' = After(size, late, read, read)
      BY <2>5, <3>1, <3>2, <3>3
    <3> QED BY <3>4 DEF size, late
  <2>7. samples' = After(sampler.outSize, Half, read, read - 1)
    <3> DEFINE size == sampler.outSize
               before == read - 1
    <3>1. size \in Nat \ {0} /\ Half \in Nat /\ before \in Nat /\ before + 1 = read
      BY <1>1, <2>3
    <3>2. samples = After(size, Half, before, before) /\ samples' = Written(samples, before * size)
      BY <2>2, <2>5
    <3> HIDE DEF size, before
    <3>3. Written(After(size, Half, before, before), before * size)
            = After(size, Half, before + 1, before)
      BY <3>1, WrittenAfter
    <3>4. samples' = After(size, Half, read, before)
      BY <3>1, <3>2, <3>3
    <3> QED BY <3>4 DEF size, before
  <2> QED BY <1>1, <2>1, <2>2, <2>6, <2>7 DEF RingsInv, Half
<1>5. CASE Demodulate
  <2>1. pc = "demod" /\ pc' = "eof" /\ UNCHANGED <<sampler, input, read>>
    BY <1>5 DEF Demodulate
  <2>2. read > 0 /\ samples = After(sampler.outSize, Half, read, read - 1)
    BY <2>1 DEF RingsInv
  <2>3. read - 1 \in Nat /\ read - 1 + 1 = read /\ read - (read - 1) = 1
    BY <1>1, <2>2
  <2>4. samples.full = 1
    BY <2>2, <2>3 DEF After
  <2>5. samples' = Advanced(samples)
    BY <1>5, <2>4 DEF Demodulate
  <2>6. samples' = After(sampler.outSize, Half, read, read)
    BY <1>1, <2>2, <2>3, <2>5, AdvancedAfter
  <2> QED BY <1>1, <2>1, <2>6 DEF RingsInv, Half
<1>6. CASE UNCHANGED streamVars
  BY <1>6 DEF streamVars, RingsInv, Half
<1> QED BY <1>2, <1>3, <1>4, <1>5, <1>6 DEF NextStream

-----------------------------------------------------------------------------
(* The flush *)

LEMMA FlushFacts ==
  ASSUME Sized(sampler)
  PROVE  /\ BlockMicros \in Nat \ {0} /\ FlushEveryBlocks \in Nat \ {0}
         /\ \A n \in Nat : n < FlushEveryBlocks => n * BlockMicros < FlushIntervalMicros
<1> DEFINE block == BlockMicros
           limit == FlushIntervalMicros
           num == limit + block - 1
           every == FlushEveryBlocks
           rest == num % block
<1>1. block \in Nat \ {0} /\ limit \in Nat \ {0}
  BY SampleStreamAssumption DEF Sized, BlockMicros, NumStreams
<1>2. every = num \div block /\ num \in Nat /\ num = limit + block - 1
  BY <1>1 DEF FlushEveryBlocks
<1> HIDE DEF block, limit, num, every
<1>3. every \in Int /\ rest \in 0..(block - 1) /\ num = block * every + rest
  BY <1>1, <1>2, DivMod
<1> HIDE DEF rest
<1>4. every > 0
  <2> SUFFICES ASSUME every <= 0 PROVE FALSE
    BY <1>3
  <2>1. every * block <= 0 * block
    BY <1>1, <1>3, Monotone
  <2> QED BY <1>1, <1>2, <1>3, <2>1
<1>5. ASSUME NEW n \in Nat, n < every PROVE n * block < limit
  <2>1. (n + 1) * block <= every * block
    BY <1>1, <1>3, <1>5, Monotone
  <2>2. (n + 1) * block = n * block + block /\ n * block \in Nat /\ every * block = block * every
    BY <1>1, <1>3
  <2> QED BY <1>1, <1>2, <1>3, <2>1, <2>2
<1> QED BY <1>1, <1>3, <1>4, <1>5 DEF block, every, limit

LEMMA FlushInit == InitStream => FlushInv
<1> SUFFICES ASSUME InitStream PROVE FlushInv
  OBVIOUS
<1>1. BlockMicros \in Nat \ {0} /\ FlushEveryBlocks \in Nat \ {0}
  BY StreamInit, InvSized, FlushFacts
<1> QED BY <1>1 DEF InitStream, FlushInv

LEMMA FlushStep == RingsInv /\ FlushInv /\ [NextStream]_streamVars => FlushInv'
<1> SUFFICES ASSUME RingsInv, FlushInv, [NextStream]_streamVars PROVE FlushInv'
  OBVIOUS
<1>1. BlockMicros \in Nat \ {0} /\ FlushEveryBlocks \in Nat \ {0}
  BY InvSized, FlushFacts
<1>2. sampler' = sampler
  BY DEF NextStream, Eof, ReadMagnitude, Sample, Demodulate, streamVars
<1>3. BlockMicros' = BlockMicros /\ FlushEveryBlocks' = FlushEveryBlocks
  BY <1>2 DEF BlockMicros, FlushEveryBlocks, NumStreams
<1>4. CASE Eof
  <2>1. /\ sinceFlush' = sinceFlush /\ pc = "eof"
        /\ (pc' = "ended" /\ unflushed' = 0) \/ (pc' = "read" /\ unflushed' = unflushed)
    BY <1>4 DEF Eof
  <2> QED BY <1>3, <2>1 DEF FlushInv
<1>5. ASSUME NEW short \in BOOLEAN, ReadMagnitude(short) PROVE FlushInv'
  <2>1. /\ sinceFlush' = sinceFlush /\ unflushed' = unflushed /\ pc = "read"
        /\ pc' \in {"demod", "sample"}
    BY <1>5 DEF ReadMagnitude
  <2> QED BY <1>3, <2>1 DEF FlushInv
<1>6. CASE Sample
  <2>1. sinceFlush' = sinceFlush /\ unflushed' = unflushed /\ pc = "sample" /\ pc' = "demod"
    BY <1>6 DEF Sample
  <2> QED BY <1>3, <2>1 DEF FlushInv
<1>7. CASE Demodulate
  <2>1. pc = "demod" /\ pc' = "eof"
    BY <1>7 DEF Demodulate
  <2>2. sinceFlush \in Nat /\ sinceFlush < FlushEveryBlocks /\ unflushed = sinceFlush * BlockMicros
    BY <2>1 DEF FlushInv
  <2>3. (sinceFlush + 1) * BlockMicros = unflushed + BlockMicros /\ 0 * BlockMicros = 0
    BY <1>1, <2>2
  <2>4. \/ sinceFlush' = 0 /\ unflushed' = 0
        \/ /\ sinceFlush + 1 < FlushEveryBlocks /\ sinceFlush' = sinceFlush + 1
           /\ unflushed' = unflushed + BlockMicros
        \/ sinceFlush' = sinceFlush /\ unflushed' = unflushed
    BY <1>1, <1>7, <2>2 DEF Demodulate
  <2>5. sinceFlush' \in Nat /\ sinceFlush' < FlushEveryBlocks
    BY <1>1, <2>2, <2>4
  <2>6. unflushed' = sinceFlush' * BlockMicros
    <3>1. CASE sinceFlush' = 0 /\ unflushed' = 0
      BY <1>1, <2>3, <3>1
    <3>2. CASE sinceFlush' = sinceFlush + 1 /\ unflushed' = unflushed + BlockMicros
      BY <2>3, <3>2
    <3>3. CASE sinceFlush' = sinceFlush /\ unflushed' = unflushed
      BY <2>2, <3>3
    <3> QED BY <2>4, <3>1, <3>2, <3>3
  <2> QED BY <1>3, <2>1, <2>5, <2>6 DEF FlushInv
<1>8. CASE UNCHANGED streamVars
  BY <1>3, <1>8 DEF streamVars, FlushInv
<1> QED BY <1>4, <1>5, <1>6, <1>7, <1>8 DEF NextStream

LEMMA FlushedThen == RingsInv /\ FlushInv => FlushedInTime
<1> SUFFICES ASSUME RingsInv, FlushInv PROVE FlushedInTime
  OBVIOUS
<1>1. sinceFlush * BlockMicros < FlushIntervalMicros /\ 0 < FlushIntervalMicros
  BY InvSized, FlushFacts, SampleStreamAssumption DEF FlushInv
<1> QED BY <1>1 DEF FlushInv, FlushedInTime

-----------------------------------------------------------------------------
(* Where the samples of an iteration are *)

\* An iteration starts a bit's samples into the block, and a whole bit is left of it.
LEMMA Iteration ==
  ASSUME Sized(sampler), NEW n \in Nat, read = n + 1, NEW i \in 0..(BlockMicros - 1)
  PROVE  /\ NumStreams = 2 * Half /\ Half \in Nat \ {0} /\ sampler.outSize \in Nat \ {0}
         /\ sampler.outSize >= 266 * NumStreams
         /\ i * NumStreams \in 0..(sampler.outSize - NumStreams)
         /\ Newest(i) \in Int
         /\ Newest(i) * NumStreams = n * sampler.outSize + i * NumStreams
<1> DEFINE streams == NumStreams
           size == sampler.outSize
           block == BlockMicros
<1>1. /\ streams = 2 * Half /\ Half \in Nat \ {0} /\ streams \in Nat \ {0}
      /\ size \in Nat \ {0} /\ block \in Nat /\ block >= 266 /\ size = streams * block
  BY DEF Sized, NumStreams, Half, BlockMicros
<1>2. Newest(i) = n * block + i
  <2>1. read - 1 = n
    OBVIOUS
  <2> QED BY <2>1 DEF Newest, BlockMicros
<1> HIDE DEF streams, size, block
<1>3. i \in 0..(block - 1)
  BY DEF block
<1>4. 266 * streams <= block * streams
  BY <1>1, Monotone
<1>5. i * streams <= (block - 1) * streams
  BY <1>1, <1>3, Monotone
<1>6. /\ (block - 1) * streams = size - streams /\ block * streams = size /\ i * streams \in Nat
  BY <1>1, <1>3
<1>7. Newest(i) \in Int
  BY <1>1, <1>2, <1>3
<1>8. (n * block + i) * streams = n * (streams * block) + i * streams
  BY <1>1, <1>3
<1> QED BY <1>1, <1>2, <1>4, <1>5, <1>6, <1>7, <1>8 DEF streams, size

LEMMA StepConsecutive == RingsInv => BitsConsecutive
<1> SUFFICES ASSUME RingsInv, pc = "demod",
                    NEW i \in {0, 1, BlockMicros - 2, BlockMicros - 1}, NEW j \in Streams,
                    NEW later \in {0, Half}
             PROVE  Same(At(samples, samples.readPos + i * NumStreams + j + later),
                         Newest(i) * NumStreams + j + later - Half)
  BY DEF BitsConsecutive
<1> DEFINE n == read - 1
           size == sampler.outSize
           y == i * NumStreams + j + later
           ring == After(size, Half, n + 1, n)
<1>1. Sized(sampler) /\ n \in Nat /\ read = n + 1 /\ samples = ring
  <2>1. read \in Nat /\ read > 0 /\ samples = After(sampler.outSize, Half, read, read - 1)
    BY DEF RingsInv
  <2>2. read - 1 + 1 = read
    BY <2>1
  <2> QED BY <2>1, <2>2, InvSized
<1>2. i \in 0..(BlockMicros - 1)
  <2>1. BlockMicros \in Nat /\ BlockMicros >= 266
    BY <1>1 DEF Sized, BlockMicros, NumStreams
  <2> QED BY <2>1
<1> HIDE DEF n
<1>3. /\ NumStreams = 2 * Half /\ Half \in Nat \ {0} /\ size \in Nat \ {0}
      /\ size >= 266 * NumStreams /\ i * NumStreams \in 0..(size - NumStreams)
      /\ Newest(i) * NumStreams = n * size + i * NumStreams /\ n * size \in Int
  BY <1>1, <1>2, Iteration
<1>4. j \in 0..(NumStreams - 1)
  BY DEF Streams
<1> HIDE DEF size
<1>5. y \in 0..(size + Half - 1) /\ Half \in 0..size
  BY <1>3, <1>4
<1> HIDE DEF y
<1>6. At(ring, ring.readPos + y) = n * size + y - Half
  BY <1>1, <1>3, <1>5, AheadInRing
<1>7. ring.readPos \in Int
  BY <1>3 DEF After
<1> HIDE DEF ring
<1>8. samples.readPos + i * NumStreams + j + later = ring.readPos + y
  BY <1>1, <1>3, <1>4, <1>7 DEF y
<1>9. n * size + y - Half = Newest(i) * NumStreams + j + later - Half
  BY <1>3, <1>4 DEF y
<1> QED BY <1>1, <1>6, <1>8, <1>9 DEF Same

\* A look-back finds the sample of its stream so many bits ago.
LEMMA BackAt ==
  ASSUME RingsInv, pc = "demod", NEW i \in 0..(BlockMicros - 1), NEW ago \in 2..265,
         NEW s \in Streams, NEW late \in Streams, NEW k, k = ago * NumStreams - s - late
  PROVE  Same(Back(k, i), (Newest(i) - ago) * NumStreams + s - Half + late)
<1> DEFINE n == read - 1
           size == sampler.outSize
           ring == After(size, Half, n + 1, n)
           m == ago * NumStreams
           offset == i * NumStreams
<1>1. Sized(sampler) /\ n \in Nat /\ read = n + 1 /\ samples = ring
  <2>1. read \in Nat /\ read > 0 /\ samples = After(sampler.outSize, Half, read, read - 1)
    BY DEF RingsInv
  <2>2. read - 1 + 1 = read
    BY <2>1
  <2> QED BY <2>1, <2>2, InvSized
<1> HIDE DEF n
<1>2. /\ NumStreams = 2 * Half /\ Half \in Nat \ {0} /\ size \in Nat \ {0}
      /\ size >= 266 * NumStreams /\ offset \in 0..(size - NumStreams)
      /\ Newest(i) \in Int /\ Newest(i) * NumStreams = n * size + offset /\ n * size \in Int
  BY <1>1, Iteration
<1>3. s \in 0..(NumStreams - 1) /\ late \in 0..(NumStreams - 1)
  BY DEF Streams
<1>4. 2 * NumStreams <= m /\ m <= 265 * NumStreams /\ m \in Int
  BY <1>2, Monotone
<1>5. (Newest(i) - ago) * NumStreams = n * size + offset - m
  BY <1>2
<1>6. k = m - s - late
  OBVIOUS
<1> HIDE DEF size, m, offset
<1>7. k \in Nat /\ k <= size - Half + offset /\ offset \in 0..(size - 1) /\ Half \in 0..size
  BY <1>2, <1>3, <1>4, <1>6
<1>8. LookBack(ring, k, offset) = n * size + offset - Half - k
  BY <1>1, <1>2, <1>7, BackInRing
<1>9. Back(k, i) = n * size + offset - Half - k
  BY <1>1, <1>8 DEF Back, offset
<1>10. n * size + offset - Half - k = (Newest(i) - ago) * NumStreams + s - Half + late
  <2> DEFINE base == n * size
             then == (Newest(i) - ago) * NumStreams
  <2>1. base \in Int /\ then = base + offset - m
    BY <1>2, <1>5
  <2> HIDE DEF base, then
  <2>2. base + offset - Half - k = then + s - Half + late
    BY <1>2, <1>3, <1>4, <1>6, <1>7, <2>1
  <2> QED BY <2>2 DEF base, then
<1> QED BY <1>9, <1>10 DEF Same

LEMMA StepLooksBack == RingsInv => LookBacksExact
<1> SUFFICES ASSUME RingsInv, pc = "demod", NEW i \in Iterations, NEW s \in Ends
             PROVE  LET number(ago) == (Newest(i) - ago) * NumStreams + s - Half
                    IN  /\ \A bit \in {0, 55, 111} :
                             /\ Same(Back(ConfidenceAt(bit, s)[1], i), number(16 + bit))
                             /\ Same(Back(ConfidenceAt(bit, s)[2], i), number(16 + bit) + Half)
                        /\ \A slot \in {0, 7} : \A h \in {0, 1} : \A k \in {0, Half - 1} :
                             Same(Back(PreambleScoreAt(s, slot, h, k), i),
                                  number(127 + 8 - slot) + h * Half + k)
                        /\ \A bit \in {0, 111} :
                             Same(Back(FrameMeanLevel(bit, s), i), number(16 + bit))
                        /\ \A bit \in {0, 63} :
                             Same(Back(NoiseMeanLevel(bit, s), i), number(200 + bit))
                        /\ \A bit \in {28, 56} : \E ago \in ShortBits :
                             Same(Back(GetRSSI(bit, s), i), number(ago))
  BY DEF LookBacksExact
<1> DEFINE number(ago) == (Newest(i) - ago) * NumStreams + s - Half
<1>1. /\ NumStreams = 2 * Half /\ Half \in Nat \ {0} /\ NumStreams \in Nat
      /\ BlockMicros \in Nat /\ BlockMicros >= 266 /\ read \in Nat /\ read > 0
  BY InvSized DEF RingsInv, Sized, NumStreams, Half, BlockMicros
<1>2. i \in 0..(BlockMicros - 1) /\ s \in Streams /\ s \in Int
  BY <1>1 DEF Iterations, Ends, Streams
<1>3. 0 \in Streams /\ Half \in Streams
  BY <1>1 DEF Streams
<1>4. Newest(i) \in Int
  <2>1. sampler.outSize \div NumStreams = BlockMicros
    BY DEF BlockMicros
  <2> QED BY <1>1, <1>2, <2>1 DEF Newest
<1>5. ASSUME NEW ago \in 2..265
      PROVE  number(ago) \in Int /\ Same(Back(ago * NumStreams - s, i), number(ago))
  <2>1. number(ago) \in Int /\ ago * NumStreams \in Int
    BY <1>1, <1>2, <1>4
  <2>2. number(ago) + 0 = number(ago) /\ ago * NumStreams - s - 0 = ago * NumStreams - s
    <3> DEFINE many == ago * NumStreams
    <3> HIDE DEF number, many
    <3>1. number(ago) + 0 = number(ago) /\ many - s - 0 = many - s
      BY <1>2, <2>1 DEF many
    <3> QED BY <3>1 DEF many
  <2>3. Same(Back(ago * NumStreams - s - 0, i), number(ago) + 0)
    BY <1>2, <1>3, BackAt
  <2> HIDE DEF number
  <2> QED BY <2>1, <2>2, <2>3
<1>6. ASSUME NEW ago \in 2..265, NEW late \in Streams
      PROVE  Same(Back(ago * NumStreams - s - late, i), number(ago) + late)
  BY <1>2, BackAt
<1> HIDE DEF number
<1>7. ASSUME NEW bit \in {0, 55, 111}
      PROVE  /\ Same(Back(ConfidenceAt(bit, s)[1], i), number(16 + bit))
             /\ Same(Back(ConfidenceAt(bit, s)[2], i), number(16 + bit) + Half)
  <2> DEFINE ago == 16 + bit
  <2>1. ago \in 2..265
    OBVIOUS
  <2>2. /\ ConfidenceAt(bit, s)[1] = ago * NumStreams - s
        /\ ConfidenceAt(bit, s)[2] = ago * NumStreams - s - Half
    BY DEF ConfidenceAt
  <2> HIDE DEF ago
  <2>3. /\ Same(Back(ConfidenceAt(bit, s)[1], i), number(ago))
        /\ Same(Back(ConfidenceAt(bit, s)[2], i), number(ago) + Half)
    BY <1>3, <1>5, <1>6, <2>1, <2>2
  <2> QED BY <2>3 DEF ago
<1>8. ASSUME NEW slot \in {0, 7}, NEW h \in {0, 1}, NEW k \in {0, Half - 1}
      PROVE  Same(Back(PreambleScoreAt(s, slot, h, k), i), number(127 + 8 - slot) + h * Half + k)
  <2> DEFINE ago == 127 + 8 - slot
             late == h * Half + k
  <2>1. ago \in 2..265 /\ ago = 135 - slot
    OBVIOUS
  <2>2. late \in Streams /\ k \in Int /\ h * Half \in Int
    BY <1>1 DEF Streams
  <2>3. PreambleScoreAt(s, slot, h, k) = ago * NumStreams - s - late
    <3>1. ago * NumStreams \in Int /\ PreambleScoreAt(s, slot, h, k) = ago * NumStreams - s - h * Half - k
      BY <1>1, <2>1 DEF PreambleScoreAt
    <3> QED BY <1>2, <2>2, <3>1
  <2>4. number(ago) + late = number(ago) + h * Half + k
    BY <1>5, <2>1, <2>2
  <2>5. Same(Back(ago * NumStreams - s - late, i), number(ago) + late)
    BY <1>6, <2>1, <2>2
  <2> QED BY <2>3, <2>4, <2>5
<1>9. ASSUME NEW bit \in {0, 111} PROVE Same(Back(FrameMeanLevel(bit, s), i), number(16 + bit))
  <2> DEFINE ago == 16 + bit
  <2>1. ago \in 2..265 /\ FrameMeanLevel(bit, s) = ago * NumStreams - s
    BY DEF FrameMeanLevel
  <2> HIDE DEF ago
  <2>2. Same(Back(FrameMeanLevel(bit, s), i), number(ago))
    BY <1>5, <2>1
  <2> QED BY <2>2 DEF ago
<1>10. ASSUME NEW bit \in {0, 63} PROVE Same(Back(NoiseMeanLevel(bit, s), i), number(200 + bit))
  <2> DEFINE ago == 200 + bit
  <2>1. ago \in 2..265 /\ NoiseMeanLevel(bit, s) = ago * NumStreams - s
    BY DEF NoiseMeanLevel
  <2> HIDE DEF ago
  <2>2. Same(Back(NoiseMeanLevel(bit, s), i), number(ago))
    BY <1>5, <2>1
  <2> QED BY <2>2 DEF ago
<1>11. ASSUME NEW bit \in {28, 56}
       PROVE  \E ago \in ShortBits : Same(Back(GetRSSI(bit, s), i), number(ago))
  <2> DEFINE ago == 128 - bit
  <2>1. ago \in 2..265 /\ ago \in ShortBits /\ GetRSSI(bit, s) = ago * NumStreams - s
    BY DEF GetRSSI, ShortBits
  <2> HIDE DEF ago
  <2> QED BY <1>5, <2>1
<1> QED BY <1>7, <1>8, <1>9, <1>10, <1>11 DEF number

-----------------------------------------------------------------------------
(* The inputs of a group *)

\* No group reaches before its block, nor further than the one sample it is late by.
LEMMA InputsOfGroup ==
  ASSUME Sized(sampler), NEW group \in {0, 1, sampler.groups - 2, sampler.groups - 1},
         NEW mix, mix.k \in 0..(sampler.ri - 1), NEW x \in Reach(group, mix)
  PROVE  group * sampler.ri + x \in 0..sampler.inSize
<1> DEFINE ri == sampler.ri
           groups == sampler.groups
<1>1. /\ ri \in Nat \ {0} /\ groups \in Nat \ {0} /\ groups >= 2 /\ sampler.inSize = groups * ri
  <2>1. sampler.streams = 2 * sampler.half /\ sampler.half \in Nat \ {0}
        /\ sampler.groups >= sampler.streams
    BY DEF Sized
  <2> QED BY <2>1 DEF Sized
<1>2. group \in 0..(groups - 1)
  BY <1>1
<1>3. mix.k \in 0..(ri - 1)
  OBVIOUS
<1> DEFINE k == mix.k
           span == groups * ri
           at == group * ri
<1>4. \/ x \in {k, k + 1}
      \/ group \in 1..(groups - 2) /\ x \in (k - 1)..(k + 2)
  BY <1>1 DEF Reach
<1>5. span \in Nat /\ at \in Nat /\ at <= span - ri
  <2>1. group * ri <= (groups - 1) * ri
    BY <1>1, <1>2, Monotone
  <2>2. (groups - 1) * ri = groups * ri - ri
    BY <1>1
  <2> QED BY <1>1, <1>2, <2>1, <2>2
<1>6. group \in 1..(groups - 2) => ri <= at /\ at <= span - 2 * ri
  <2> SUFFICES ASSUME group \in 1..(groups - 2) PROVE ri <= at /\ at <= span - 2 * ri
    OBVIOUS
  <2>1. 1 * ri <= group * ri /\ group * ri <= (groups - 2) * ri
    BY <1>1, Monotone
  <2>2. (groups - 2) * ri = groups * ri - 2 * ri /\ 1 * ri = ri
    BY <1>1
  <2> QED BY <1>1, <2>1, <2>2
<1>7. k \in 0..(ri - 1)
  BY <1>3
<1> HIDE DEF ri, groups, k, span, at
<1>8. at + x \in 0..span
  BY <1>1, <1>4, <1>5, <1>6, <1>7
<1> QED BY <1>1, <1>8 DEF at, span, ri, groups

LEMMA StepResampled == RingsInv => ResampledInStep
<1> SUFFICES ASSUME RingsInv, pc = "sample" PROVE ResampledInStep
  BY DEF ResampledInStep
<1> DEFINE n == read - 1
           size == sampler.inSize
           late == 1
           ring == After(size, late, n + 1, n)
           mixes == Table(sampler.pair)
<1>1. Sized(sampler) /\ n \in Nat /\ input = ring
  <2>1. read \in Nat /\ read > 0 /\ input = After(sampler.inSize, 1, read, read - 1)
    BY DEF RingsInv
  <2>2. read - 1 + 1 = read
    BY <2>1
  <2> QED BY <2>1, <2>2, InvSized
<1>2. Spaced(mixes, sampler.ri, sampler.ro)
  <2>1. PICK p \in RatePairs : sampler = SamplerOf(p)
    BY DEF RingsInv
  <2>2. sampler.pair = p
    BY <2>1, SamplerSized
  <2> QED BY <2>1, <2>2, TableSpaced
<1>3. size \in Nat \ {0} /\ late \in 0..size /\ late \in Nat
  BY <1>1 DEF Sized
<1>4. ring.readPos \in {0, size} /\ ring.size = size
  BY DEF After
<1> HIDE DEF mixes
<1>5. ASSUME NEW j \in DOMAIN mixes, NEW group \in {0, 1, sampler.groups - 2, sampler.groups - 1},
             NEW cell \in Used(group, mixes[j])
      PROVE  /\ cell <= RingSize(input)
             /\ Same(At(input, cell), (read - 1) * sampler.inSize + (cell - input.readPos) - 1)
  <2>1. PICK x \in Reach(group, mixes[j]) : cell = input.readPos + group * sampler.ri + x
    BY <1>5 DEF Used
  <2> DEFINE y == group * sampler.ri + x
  <2>2. mixes[j].k \in 0..(sampler.ri - 1)
    BY <1>2, <1>5 DEF Spaced
  <2>3. y \in 0..size
    BY <1>1, <1>5, <2>1, <2>2, InputsOfGroup
  <2>4. cell = ring.readPos + y
    <3>1. group * sampler.ri \in Int
      BY <1>1, <1>5 DEF Sized
    <3>2. x \in Int
      BY <1>5, <2>1, <2>2 DEF Reach
    <3> QED BY <1>1, <1>3, <1>4, <2>1, <3>1, <3>2
  <2> HIDE DEF y, late
  <2>5. y \in 0..(size + late - 1)
    BY <1>3, <2>3 DEF late
  <2> HIDE DEF size, n
  <2>6. At(ring, ring.readPos + y) = n * size + y - late
    BY <1>1, <1>3, <2>5, AheadInRing
  <2> HIDE DEF ring
  <2>7. At(input, cell) = n * size + (cell - input.readPos) - late
    BY <1>1, <1>3, <1>4, <2>3, <2>4, <2>6
  <2>8. cell <= RingSize(input)
    BY <1>1, <1>3, <1>4, <2>3, <2>4 DEF RingSize
  <2> QED BY <2>7, <2>8 DEF Same, n, size, late
<1>6. ASSUME NEW j \in DOMAIN mixes
      PROVE  /\ mixes[j].w0 + mixes[j].w1 = mixes[j].den /\ mixes[j].w0 >= 0
             /\ -sampler.ro <= (mixes[j].k * mixes[j].den + mixes[j].w1) * sampler.ro
                                 - (j - 1) * sampler.ri * mixes[j].den
             /\ (mixes[j].k * mixes[j].den + mixes[j].w1) * sampler.ro
                  - (j - 1) * sampler.ri * mixes[j].den <= sampler.ri * mixes[j].den
  BY <1>2, <1>6 DEF Spaced
<1> QED BY <1>5, <1>6 DEF ResampledInStep, mixes

-----------------------------------------------------------------------------

\* Whatever the pair of rates, the size of a block and the number of blocks, every
\* sample is compared with the one half a bit later, resampled from the inputs around
\* its instant and looked back at where it was kept, and a decoded frame leaves within
\* the flush interval (SampleStream.hpp:28-317, BlockRing.hpp, Sampler.hpp).
THEOREM StreamStaysInStep == SpecStream => []SamplesInStep
<1>1. InitStream => RingsInv /\ FlushInv
  BY StreamInit, FlushInit
<1>2. RingsInv /\ FlushInv /\ [NextStream]_streamVars => (RingsInv /\ FlushInv)'
  BY StreamStep, FlushStep
<1>3. RingsInv /\ FlushInv => SamplesInStep
  BY StepConsecutive, StepResampled, StepLooksBack, FlushedThen DEF SamplesInStep
<1> QED BY <1>1, <1>2, <1>3, PTL DEF SpecStream

-----------------------------------------------------------------------------
(* Sums and means, pass by pass *)

\* The sums over a sequence, each made from the one before.
LEMMA SumsUnroll ==
  ASSUME NEW terms \in Seq(Int)
  PROVE  /\ Sums(terms) \in [0..Len(terms) -> Int]
         /\ Sums(terms)[0] = 0
         /\ \A n \in 1..Len(terms) : Sums(terms)[n] = Sums(terms)[n - 1] + terms[n]
<1> DEFINE L == Len(terms)
           step == [x \in Int \X Nat |-> IF x[2] \in 1..L THEN x[1] + terms[x[2]] ELSE 0]
           Loop(g) == g = [n \in 0..L |-> IF n = 0 THEN 0 ELSE g[n - 1] + terms[n]]
           s == CHOOSE g : Loop(g)
<1>1. L \in Nat /\ 0 \in Int /\ \A n \in 1..L : terms[n] \in Int
  OBVIOUS
<1>2. step \in [Int \X Nat -> Int]
  BY <1>1
<1>3. \A x \in Int, n \in 1..L : step[<<x, n>>] = x + terms[n]
  <2>1. ASSUME NEW x \in Int, NEW n \in 1..L PROVE step[<<x, n>>] = x + terms[n]
    <3>1. <<x, n>> \in Int \X Nat /\ <<x, n>>[1] = x /\ <<x, n>>[2] = n
      BY <1>1
    <3> QED BY <3>1
  <2> QED BY <2>1
<1>4. Sums(terms) = s
  BY DEF Sums
<1> HIDE DEF step, L
<1>5. PICK f \in [0..L -> Int] : IsIterate(f, 0, step, L)
  BY <1>1, <1>2, IterateExists
<1>6. Loop(f)
  <2>1. f = [n \in 0..L |-> IF n = 0 THEN 0 ELSE step[<<f[n - 1], n>>]]
    BY <1>5 DEF IsIterate
  <2>2. ASSUME NEW n \in 0..L, n # 0 PROVE step[<<f[n - 1], n>>] = f[n - 1] + terms[n]
    <3>1. n \in 1..L /\ n - 1 \in 0..L
      BY <1>1, <2>2
    <3> QED BY <1>3, <1>5, <3>1
  <2> QED BY <2>1, <2>2
<1>7. Loop(s)
  <2> HIDE DEF Loop
  <2> QED BY <1>6
<1> HIDE DEF s
<1>8. \A n \in 0..L : s[n] \in Int
  <2> DEFINE P == {n \in 0..L : s[n] \in Int}
  <2>1. 0 \in 0..L /\ s[0] = 0
    BY <1>1, <1>7
  <2>2. ASSUME NEW n \in 0..(L - 1), n \in P PROVE n + 1 \in P
    <3>1. n + 1 \in 0..L /\ n + 1 \in 1..L /\ n + 1 # 0 /\ (n + 1) - 1 = n
      BY <1>1
    <3>2. s[n + 1] = s[n] + terms[n + 1]
      BY <1>7, <3>1
    <3> QED BY <1>1, <2>2, <3>1, <3>2
  <2>3. 0 \in P
    BY <2>1
  <2> HIDE DEF P
  <2>4. \A n \in 0..L : n \in P
    BY <1>1, <2>2, <2>3, EveryPass
  <2> QED BY <2>4 DEF P
<1>9. s = [n \in 0..L |-> s[n]]
  BY <1>7
<1>10. s[0] = 0 /\ \A n \in 1..L : s[n] = s[n - 1] + terms[n]
  <2>1. 0 \in 0..L /\ \A n \in 1..L : n \in 0..L /\ n # 0
    BY <1>1
  <2> QED BY <1>7, <2>1
<1> QED BY <1>4, <1>8, <1>9, <1>10 DEF L

\* What the mean is made from, each time from what it was made from before.
LEMMA AccumulatorsUnroll ==
  ASSUME NEW acc \in Int, NEW tile \in Seq(Int)
  PROVE  /\ Accumulators(acc, tile) \in [0..Len(tile) -> Int]
         /\ Accumulators(acc, tile)[0] = acc
         /\ \A n \in 1..Len(tile) :
              Accumulators(acc, tile)[n] =
                Accumulators(acc, tile)[n - 1]
                + (tile[n] - Mean(Accumulators(acc, tile)[n - 1]))
<1> DEFINE L == Len(tile)
           step == [x \in Int \X Nat |->
                      IF x[2] \in 1..L THEN x[1] + (tile[x[2]] - Mean(x[1])) ELSE 0]
           Loop(g) ==
             g = [n \in 0..L |-> IF n = 0 THEN acc ELSE g[n - 1] + (tile[n] - Mean(g[n - 1]))]
           s == CHOOSE g : Loop(g)
<1>1. L \in Nat /\ \A n \in 1..L : tile[n] \in Int
  OBVIOUS
<1>a. \A x \in Int : Mean(x) \in Int
  <2>1. DcWindow \in Nat \ {0}
    BY IqPipelineAssumption
  <2> QED BY <2>1, DivMod DEF Mean
<1>2. step \in [Int \X Nat -> Int]
  <2>1. ASSUME NEW x \in Int, NEW n \in 1..L PROVE x + (tile[n] - Mean(x)) \in Int
    <3>1. tile[n] \in Int /\ Mean(x) \in Int
      BY <1>1, <1>a
    <3> QED BY <3>1
  <2>2. ASSUME NEW x \in Int \X Nat PROVE x[1] \in Int
    OBVIOUS
  <2>3. \A x \in Int \X Nat :
          (IF x[2] \in 1..L THEN x[1] + (tile[x[2]] - Mean(x[1])) ELSE 0) \in Int
    BY <2>1, <2>2
  <2> HIDE DEF L
  <2> QED BY <2>3, Zenon
<1>3. \A x \in Int, n \in 1..L : step[<<x, n>>] = x + (tile[n] - Mean(x))
  <2>1. ASSUME NEW x \in Int, NEW n \in 1..L
        PROVE  step[<<x, n>>] = x + (tile[n] - Mean(x))
    <3>1. <<x, n>> \in Int \X Nat /\ <<x, n>>[1] = x /\ <<x, n>>[2] = n
      BY <1>1
    <3> QED BY <3>1
  <2> QED BY <2>1
<1>4. Accumulators(acc, tile) = s
  BY DEF Accumulators
<1> HIDE DEF step, L
<1>5. PICK f \in [0..L -> Int] : IsIterate(f, acc, step, L)
  BY <1>1, <1>2, IterateExists
<1>6. Loop(f)
  <2>1. f = [n \in 0..L |-> IF n = 0 THEN acc ELSE step[<<f[n - 1], n>>]]
    BY <1>5 DEF IsIterate
  <2>2. ASSUME NEW n \in 0..L, n # 0
        PROVE  step[<<f[n - 1], n>>] = f[n - 1] + (tile[n] - Mean(f[n - 1]))
    <3>1. n \in 1..L /\ n - 1 \in 0..L
      BY <1>1, <2>2
    <3> QED BY <1>3, <1>5, <3>1
  <2> QED BY <2>1, <2>2
<1>7. Loop(s)
  <2> HIDE DEF Loop
  <2> QED BY <1>6
<1> HIDE DEF s
<1>8. \A n \in 0..L : s[n] \in Int
  <2> DEFINE P == {n \in 0..L : s[n] \in Int}
  <2>1. 0 \in 0..L /\ s[0] = acc
    BY <1>1, <1>7
  <2>2. ASSUME NEW n \in 0..(L - 1), n \in P PROVE n + 1 \in P
    <3>1. n + 1 \in 0..L /\ n + 1 \in 1..L /\ n + 1 # 0 /\ (n + 1) - 1 = n
      BY <1>1
    <3>2. s[n + 1] = s[n] + (tile[n + 1] - Mean(s[n]))
      BY <1>7, <3>1
    <3>3. s[n] \in Int /\ Mean(s[n]) \in Int /\ tile[n + 1] \in Int
      BY <1>1, <1>a, <2>2, <3>1
    <3> QED BY <3>1, <3>2, <3>3
  <2>3. 0 \in P
    BY <2>1
  <2> HIDE DEF P
  <2>4. \A n \in 0..L : n \in P
    BY <1>1, <2>2, <2>3, EveryPass
  <2> QED BY <2>4 DEF P
<1>9. s = [n \in 0..L |-> s[n]]
  BY <1>7
<1>10. s[0] = acc /\ \A n \in 1..L : s[n] = s[n - 1] + (tile[n] - Mean(s[n - 1]))
  <2>1. 0 \in 0..L /\ \A n \in 1..L : n \in 0..L /\ n # 0
    BY <1>1
  <2> QED BY <1>7, <2>1
<1> QED BY <1>4, <1>8, <1>9, <1>10 DEF L

\* The samples of the three formats, and what the mean is made from.
Q14 == {x \in Int : -16384 <= x /\ x <= 16383}
Difference == {x \in Int : -32767 <= x /\ x <= 32767}
Levels == {a \in Int : -(16384 * DcWindow) <= a /\ a < 16384 * DcWindow}

LEMMA Q14Number ==
  \A x : x \in Q14 <=> x \in Int /\ -16384 <= x /\ x <= 16383
BY DEF Q14

LEMMA LevelNumber ==
  \A a : a \in Levels <=> a \in Int /\ -(16384 * DcWindow) <= a /\ a < 16384 * DcWindow
BY DEF Levels

\* DCRemoval stays inside: the mean is a sample, and the difference to it, which
\* is all that is added, an int16.
LEMMA MeanStays ==
  ASSUME NEW a \in Levels, NEW x \in Q14
  PROVE  /\ Mean(a) \in Q14 /\ x - Mean(a) \in Difference
         /\ a + (x - Mean(a)) \in Levels
<1> DEFINE w == DcWindow
           m == a \div w
           r == a % w
<1>1. w \in Nat \ {0} /\ a \in Int /\ -(16384 * w) <= a /\ a < 16384 * w
  BY IqPipelineAssumption DEF Levels
<1>2. m \in Int /\ r \in 0..(w - 1) /\ a = w * m + r /\ Mean(a) = m
  BY <1>1, DivMod DEF Mean
<1>3. x \in Int /\ -16384 <= x /\ x <= 16383
  BY Q14Number
<1> HIDE DEF w, m, r
<1>4. -16384 <= m /\ m <= 16383
  <2>1. ASSUME m <= -16385 PROVE FALSE
    <3>1. w * m <= w * (-16385)
      BY <1>1, <1>2, <2>1
    <3> QED BY <1>1, <1>2, <3>1
  <2>2. ASSUME m >= 16384 PROVE FALSE
    <3>1. w * m >= w * 16384
      BY <1>1, <1>2, <2>2
    <3> QED BY <1>1, <1>2, <3>1
  <2> QED BY <1>2, <2>1, <2>2
<1>5. (w - 1) * m >= (w - 1) * (-16384) /\ (w - 1) * m <= (w - 1) * 16383
  <2>1. w - 1 \in Nat
    BY <1>1
  <2> DEFINE v == w - 1
  <2> HIDE DEF v
  <2>2. v \in Nat
    BY <2>1 DEF v
  <2>3. v * m >= v * (-16384) /\ v * m <= v * 16383
    BY <2>2, <1>2, <1>4
  <2> QED BY <2>3 DEF v
<1>6. (w - 1) * m = w * m - m
  BY <1>1, <1>2
<1>7. -(16384 * w) <= a + (x - m) /\ a + (x - m) < 16384 * w
  BY <1>1, <1>2, <1>3, <1>4, <1>5, <1>6
<1>8. a + (x - m) \in Levels
  BY <1>1, <1>2, <1>3, <1>7 DEF Levels, w
<1>9. m \in Q14
  BY <1>2, <1>4, Q14Number
<1>10. x - m \in Difference
  BY <1>2, <1>3, <1>4 DEF Difference
<1> QED BY <1>2, <1>8, <1>9, <1>10

\* So it does over a whole tile.
LEMMA LevelsKept ==
  ASSUME NEW acc \in Levels, NEW tile \in Seq(Q14)
  PROVE  \A n \in 0..Len(tile) : Accumulators(acc, tile)[n] \in Levels
<1> DEFINE L == Len(tile)
           s == Accumulators(acc, tile)
           P == {n \in 0..L : s[n] \in Levels}
<1>1. L \in Nat /\ tile \in Seq(Int) /\ acc \in Int /\ \A n \in 1..L : tile[n] \in Q14
  BY Q14Number, LevelNumber
<1>2. s[0] = acc /\ \A n \in 1..L : s[n] = s[n - 1] + (tile[n] - Mean(s[n - 1]))
  BY <1>1, AccumulatorsUnroll
<1> HIDE DEF s, L
<1>3. 0 \in P
  BY <1>1, <1>2
<1>4. ASSUME NEW n \in 0..(L - 1), n \in P PROVE n + 1 \in P
  <2>1. n + 1 \in 0..L /\ n + 1 \in 1..L /\ (n + 1) - 1 = n /\ s[n] \in Levels
    BY <1>1, <1>4
  <2>2. tile[n + 1] \in Q14 /\ s[n + 1] = s[n] + (tile[n + 1] - Mean(s[n]))
    BY <1>1, <1>2, <2>1
  <2>3. s[n + 1] \in Levels
    <3>1. s[n] + (tile[n + 1] - Mean(s[n])) \in Levels
      BY <2>1, <2>2, MeanStays
    <3> QED BY <2>2, <3>1
  <2> QED BY <2>1, <2>3
<1> HIDE DEF P
<1>5. \A n \in 0..L : n \in P
  BY <1>1, <1>3, <1>4, EveryPass
<1> QED BY <1>5 DEF P, s, L

\* A tile goes on where the one before has left off.
LEMMA AccumulatorsJoin ==
  ASSUME NEW acc \in Int, NEW before \in Seq(Int), NEW tile \in Seq(Int)
  PROVE  LET all == Accumulators(acc, before \o tile)
             first == Accumulators(acc, before)
         IN  /\ \A n \in 0..Len(before) : all[n] = first[n]
             /\ \A n \in 0..Len(tile) :
                  all[Len(before) + n] = Accumulators(first[Len(before)], tile)[n]
<1> DEFINE B == Len(before)
           L == Len(tile)
           both == before \o tile
           all == Accumulators(acc, both)
           first == Accumulators(acc, before)
           second == Accumulators(first[B], tile)
<1>1. /\ B \in Nat /\ L \in Nat /\ both \in Seq(Int) /\ Len(both) = B + L
      /\ \A n \in 1..B : both[n] = before[n]
      /\ \A n \in 1..L : both[B + n] = tile[n]
  OBVIOUS
<1>2. first[0] = acc /\ \A n \in 1..B : first[n] = first[n - 1] + (before[n] - Mean(first[n - 1]))
  BY AccumulatorsUnroll
<1>3. first[B] \in Int
  <2>1. first \in [0..B -> Int]
    BY AccumulatorsUnroll
  <2>2. B \in 0..B
    BY <1>1
  <2> HIDE DEF first
  <2> QED BY <2>1, <2>2
<1>4. second[0] = first[B] /\ \A n \in 1..L : second[n] = second[n - 1] + (tile[n] - Mean(second[n - 1]))
  BY <1>3, AccumulatorsUnroll
<1>5. all[0] = acc /\ \A n \in 1..(B + L) : all[n] = all[n - 1] + (both[n] - Mean(all[n - 1]))
  <2>1. both \in Seq(Int) /\ Len(both) = B + L
    BY <1>1
  <2> HIDE DEF both
  <2>2. /\ all[0] = acc
        /\ \A n \in 1..Len(both) : all[n] = all[n - 1] + (both[n] - Mean(all[n - 1]))
    BY <2>1, AccumulatorsUnroll, ZenonT(30)
  <2> QED BY <2>1, <2>2
<1> DEFINE P == {n \in 0..B : all[n] = first[n]}
           Q == {n \in 0..L : all[B + n] = second[n]}
<1> HIDE DEF B, L, both, all, first, second
<1>6. \A n \in 0..B : n \in P
  <2>1. 0 \in P
    BY <1>1, <1>2, <1>5
  <2>2. ASSUME NEW n \in 0..(B - 1), n \in P PROVE n + 1 \in P
    <3>1. n + 1 \in 0..B /\ n + 1 \in 1..B /\ n + 1 \in 1..(B + L) /\ (n + 1) - 1 = n
      BY <1>1
    <3>2. all[n + 1] = all[n] + (both[n + 1] - Mean(all[n]))
      BY <1>5, <3>1
    <3>3. first[n + 1] = first[n] + (before[n + 1] - Mean(first[n]))
      BY <1>2, <3>1
    <3>4. all[n + 1] = first[n + 1]
      BY <1>1, <2>2, <3>1, <3>2, <3>3
    <3> QED BY <3>1, <3>4
  <2> HIDE DEF P
  <2> QED BY <1>1, <2>1, <2>2, EveryPass
<1>7. \A n \in 0..L : n \in Q
  <2>1. 0 \in Q
    <3>1. B \in 0..B /\ B + 0 = B /\ 0 \in 0..L
      BY <1>1
    <3>2. all[B] = first[B]
      BY <1>6, <3>1
    <3> QED BY <1>4, <3>1, <3>2
  <2>2. ASSUME NEW n \in 0..(L - 1), n \in Q PROVE n + 1 \in Q
    <3>1. /\ n + 1 \in 0..L /\ n + 1 \in 1..L /\ (n + 1) - 1 = n
          /\ B + (n + 1) \in 1..(B + L) /\ (B + (n + 1)) - 1 = B + n
      BY <1>1
    <3>2. all[B + (n + 1)] = all[B + n] + (both[B + (n + 1)] - Mean(all[B + n]))
      BY <1>5, <3>1
    <3>3. second[n + 1] = second[n] + (tile[n + 1] - Mean(second[n]))
      BY <1>4, <3>1
    <3>4. both[B + (n + 1)] = tile[n + 1] /\ all[B + n] = second[n]
      BY <1>1, <2>2, <3>1
    <3>5. all[B + (n + 1)] = second[n + 1]
      BY <3>2, <3>3, <3>4
    <3> QED BY <3>1, <3>5
  <2> HIDE DEF Q
  <2> QED BY <1>1, <2>1, <2>2, EveryPass
<1>8. (\A n \in 0..B : all[n] = first[n]) /\ \A n \in 0..L : all[B + n] = second[n]
  BY <1>6, <1>7
<1> QED BY <1>8 DEF B, L, both, all, first, second

-----------------------------------------------------------------------------
(* The sums of a filter *)

\* Taken in pairs, from both ends, the terms add up to the same; and on the way
\* there to what both ends have added up to so far.
PairsOf(pairs, terms) ==
  LET n == Len(terms)
  IN  /\ Len(pairs) = (n + 1) \div 2
      /\ \A k \in 1..Len(pairs) :
           pairs[k] = IF 2 * k = n + 1 THEN terms[k] ELSE terms[k] + terms[n + 1 - k]
BothEnds(terms, h) ==
  LET n == Len(terms)
  IN  IF 2 * h = n + 1 THEN Sums(terms)[n]
      ELSE Sums(terms)[h] + (Sums(terms)[n] - Sums(terms)[n - h])

LEMMA AddMiddle ==
  ASSUME NEW a \in Int, NEW b \in Int, NEW t \in Int
  PROVE  (a + (b - (a + t))) + t = b
OBVIOUS

LEMMA PairsAddUp ==
  ASSUME NEW terms \in Seq(Int), NEW pairs \in Seq(Int), PairsOf(pairs, terms)
  PROVE  /\ \A h \in 0..Len(pairs) : Sums(pairs)[h] = BothEnds(terms, h)
         /\ Total(pairs) = Total(terms)
<1> DEFINE n == Len(terms)
           half == Len(pairs)
           S == Sums(terms)
           P == Sums(pairs)
<1>1. n \in Nat /\ half \in Nat /\ (2 * half = n \/ 2 * half = n + 1)
  <2>1. n \in Nat /\ half \in Nat /\ half = (n + 1) \div 2
    BY DEF PairsOf
  <2> HIDE DEF n, half
  <2> QED BY <2>1
<1>2. \A k \in 1..half : pairs[k] = IF 2 * k = n + 1 THEN terms[k] ELSE terms[k] + terms[n + 1 - k]
  BY DEF PairsOf
<1>3. \A k \in 1..n : terms[k] \in Int
  OBVIOUS
<1>4. (\A k \in 0..n : S[k] \in Int) /\ S[0] = 0 /\ \A k \in 1..n : S[k] = S[k - 1] + terms[k]
  BY SumsUnroll
<1>5. P[0] = 0 /\ \A k \in 1..half : P[k] = P[k - 1] + pairs[k]
  BY SumsUnroll
<1> DEFINE Met(h) == IF 2 * h = n + 1 THEN S[n] ELSE S[h] + (S[n] - S[n - h])
           H == {h \in 0..half : P[h] = Met(h)}
<1> HIDE DEF n, half, S, P
<1>6. 0 \in H
  <2>1. 0 \in 0..half /\ 2 * 0 # n + 1 /\ n - 0 = n /\ 0 \in 0..n /\ n \in 0..n
    BY <1>1
  <2> QED BY <1>4, <1>5, <2>1
<1>7. ASSUME NEW h \in 0..(half - 1), h \in H PROVE h + 1 \in H
  <2>1. /\ h \in Int /\ 2 * h # n + 1 /\ h + 1 \in 1..half /\ h + 1 \in 0..half /\ (h + 1) - 1 = h
        /\ h + 1 \in 1..n /\ h \in 0..n /\ n - h \in 1..n /\ n - h \in 0..n
        /\ n - (h + 1) = (n - h) - 1 /\ (n - h) - 1 \in 0..n /\ n \in 0..n
        /\ (n + 1) - (h + 1) = n - h /\ h + 1 \in 0..n
    BY <1>1
  <2>2. P[h] = S[h] + (S[n] - S[n - h]) /\ P[h + 1] = P[h] + pairs[h + 1]
    BY <1>5, <1>7, <2>1
  <2>3. S[h + 1] = S[h] + terms[h + 1] /\ S[n - h] = S[(n - h) - 1] + terms[n - h]
    BY <1>4, <2>1
  <2>4. /\ S[h] \in Int /\ S[h + 1] \in Int /\ S[n] \in Int /\ S[n - h] \in Int
        /\ S[(n - h) - 1] \in Int /\ terms[h + 1] \in Int /\ terms[n - h] \in Int
    BY <1>3, <1>4, <2>1
  <2>5. CASE 2 * (h + 1) = n + 1
    <3>1. n - h = h + 1 /\ pairs[h + 1] = terms[h + 1] /\ Met(h + 1) = S[n]
      BY <1>1, <1>2, <2>1, <2>5
    <3>2. P[h + 1] = (S[h] + (S[n] - S[n - h])) + terms[h + 1] /\ S[n - h] = S[h] + terms[h + 1]
      BY <2>2, <2>3, <3>1
    <3>3. (S[h] + (S[n] - (S[h] + terms[h + 1]))) + terms[h + 1] = S[n]
      <4>1. S[h] \in Int /\ S[n] \in Int /\ terms[h + 1] \in Int
        BY <2>4
      <4> QED BY <4>1, AddMiddle, SMTT(30)
    <3>4. P[h + 1] = S[n]
      BY <3>2, <3>3, Zenon
    <3> QED BY <2>1, <3>1, <3>4
  <2>6. CASE 2 * (h + 1) # n + 1
    <3>1. /\ pairs[h + 1] = terms[h + 1] + terms[n - h]
          /\ Met(h + 1) = S[h + 1] + (S[n] - S[(n - h) - 1])
      BY <1>2, <2>1, <2>6
    <3>2. P[h + 1] = (S[h] + (S[n] - S[n - h])) + (terms[h + 1] + terms[n - h])
      BY <2>2, <3>1
    <3>3. (S[h] + (S[n] - (S[(n - h) - 1] + terms[n - h]))) + (terms[h + 1] + terms[n - h])
          = (S[h] + terms[h + 1]) + (S[n] - S[(n - h) - 1])
      <4>1. /\ S[h] \in Int /\ S[n] \in Int /\ S[(n - h) - 1] \in Int
            /\ terms[h + 1] \in Int /\ terms[n - h] \in Int
        BY <2>4
      <4> DEFINE a == S[h]
                 b == S[n]
                 c == S[(n - h) - 1]
                 t == terms[h + 1]
                 u == terms[n - h]
      <4>2. a \in Int /\ b \in Int /\ c \in Int /\ t \in Int /\ u \in Int
        BY <4>1
      <4> HIDE DEF a, b, c, t, u
      <4>3. (a + (b - (c + u))) + (t + u) = (a + t) + (b - c)
        BY <4>2
      <4> QED BY <4>3 DEF a, b, c, t, u
    <3>4. P[h + 1] = S[h + 1] + (S[n] - S[(n - h) - 1])
      BY <2>3, <3>2, <3>3, Zenon
    <3> QED BY <2>1, <3>1, <3>4
  <2> QED BY <2>5, <2>6
<1> HIDE DEF H
<1>8. \A h \in 0..half : h \in H
  BY <1>1, <1>6, <1>7, EveryPass
<1>9. \A h \in 0..half : P[h] = Met(h)
  BY <1>8 DEF H
<1>10. P[half] = S[n]
  <2>1. half \in 0..half /\ half \in 0..n /\ n \in 0..n /\ (2 * half # n + 1 => n - half = half)
    BY <1>1
  <2>2. S[half] \in Int /\ S[n] \in Int
    BY <1>4, <2>1
  <2> QED BY <1>9, <2>1, <2>2
<1> QED BY <1>9, <1>10 DEF Total, BothEnds, n, half, S, P

\* A product is no more than the magnitudes of what is multiplied.
LEMMA ProductBounded ==
  ASSUME NEW t \in Int, NEW x \in Int, NEW most \in Nat, -most <= x, x <= most
  PROVE  /\ t * x \in Int /\ Abs(t) \in Nat
         /\ -(Abs(t) * most) <= t * x /\ t * x <= Abs(t) * most
<1>1. CASE t < 0
  <2> DEFINE s == -t
  <2>1. s \in Nat /\ Abs(t) = s /\ t = -s
    BY <1>1 DEF Abs
  <2> HIDE DEF s
  <2>2. s * x <= s * most /\ s * (-most) <= s * x /\ s * (-most) = -(s * most) /\ (-s) * x = -(s * x)
    BY <2>1
  <2>3. s * x \in Int /\ s * most \in Int
    BY <2>1
  <2> QED BY <2>1, <2>2, <2>3
<1>2. CASE ~(t < 0)
  <2>1. t \in Nat /\ Abs(t) = t
    BY <1>2 DEF Abs
  <2>2. t * x <= t * most /\ t * (-most) <= t * x /\ t * (-most) = -(t * most)
    BY <2>1
  <2>3. t * x \in Int /\ t * most \in Int
    BY <2>1
  <2> QED BY <2>1, <2>2, <2>3
<1> QED BY <1>1, <1>2

\* What is added between two passes is no more than the magnitudes that are.
LEMMA SumsBetween ==
  ASSUME NEW terms \in Seq(Int), NEW mags \in Seq(Nat), Len(mags) = Len(terms),
         NEW most \in Nat,
         \A k \in 1..Len(terms) : -(mags[k] * most) <= terms[k] /\ terms[k] <= mags[k] * most
  PROVE  \A a, b \in 0..Len(terms) : a <= b =>
           LET added == Sums(terms)[b] - Sums(terms)[a]
               room == (Sums(mags)[b] - Sums(mags)[a]) * most
           IN  /\ -room <= added /\ added <= room
               /\ Sums(mags)[a] <= Sums(mags)[b]
<1> DEFINE n == Len(terms)
           S == Sums(terms)
           M == Sums(mags)
<1>1. n \in Nat /\ Len(mags) = n /\ mags \in Seq(Int)
  OBVIOUS
<1>2. \A k \in 1..n : mags[k] \in Nat /\ terms[k] \in Int
  BY <1>1
<1>3. (\A k \in 0..n : S[k] \in Int) /\ \A k \in 1..n : S[k] = S[k - 1] + terms[k]
  BY SumsUnroll
<1>4. (\A k \in 0..n : M[k] \in Int) /\ \A k \in 1..n : M[k] = M[k - 1] + mags[k]
  <2> HIDE DEF n
  <2> QED BY <1>1, SumsUnroll
<1>5. \A k \in 1..n : -(mags[k] * most) <= terms[k] /\ terms[k] <= mags[k] * most
  OBVIOUS
<1> DEFINE Within(a, b) ==
             /\ -((M[b] - M[a]) * most) <= S[b] - S[a] /\ S[b] - S[a] <= (M[b] - M[a]) * most
             /\ M[a] <= M[b]
<1> HIDE DEF n, S, M
<1>6. ASSUME NEW a \in 0..n PROVE \A b \in 0..n : a <= b => Within(a, b)
  <2> DEFINE P == {b \in 0..n : a <= b => Within(a, b)}
  <2>1. ASSUME a \in 0..n PROVE Within(a, a)
    <3>1. M[a] \in Int /\ S[a] \in Int
      BY <1>3, <1>4
    <3>2. M[a] - M[a] = 0 /\ S[a] - S[a] = 0 /\ 0 * most = 0
      BY <3>1
    <3> QED BY <3>1, <3>2
  <2>2. 0 \in P
    <3>1. 0 \in 0..n /\ (a <= 0 => a = 0)
      BY <1>1
    <3> HIDE DEF Within
    <3> QED BY <2>1, <3>1
  <2>3. ASSUME NEW b \in 0..(n - 1), b \in P PROVE b + 1 \in P
    <3>1. b \in 0..n /\ b + 1 \in 0..n /\ b + 1 \in 1..n /\ (b + 1) - 1 = b
      BY <1>1
    <3>2. CASE a <= b
      <4> DEFINE ma == M[a]
                 mb == M[b]
                 sa == S[a]
                 sb == S[b]
                 m == mags[b + 1]
                 t == terms[b + 1]
      <4>1. ma \in Int /\ mb \in Int /\ sa \in Int /\ sb \in Int /\ m \in Nat /\ t \in Int
        BY <1>2, <1>3, <1>4, <3>1
      <4>2. M[b + 1] = mb + m /\ S[b + 1] = sb + t
        BY <1>3, <1>4, <3>1
      <4>3. -(m * most) <= t /\ t <= m * most
        BY <1>5, <3>1
      <4>4. -((mb - ma) * most) <= sb - sa /\ sb - sa <= (mb - ma) * most /\ ma <= mb
        BY <2>3, <3>2
      <4> HIDE DEF ma, mb, sa, sb, m, t
      <4> DEFINE p == (mb - ma) * most
                 q == m * most
      <4>5. ((mb + m) - ma) * most = p + q /\ p \in Int /\ q \in Int
        BY <4>1
      <4> HIDE DEF p, q
      <4>6. -(p + q) <= (sb + t) - sa /\ (sb + t) - sa <= p + q /\ ma <= mb + m
        BY <4>1, <4>3, <4>4, <4>5 DEF p, q
      <4>7. Within(a, b + 1)
        BY <4>2, <4>5, <4>6 DEF ma, sa
      <4> HIDE DEF Within
      <4> QED BY <3>1, <4>7
    <3>3. CASE b < a
      <4>1. a <= b + 1 => a = b + 1
        BY <3>1, <3>3
      <4> HIDE DEF Within
      <4> QED BY <2>1, <3>1, <4>1
    <3> QED BY <3>1, <3>2, <3>3
  <2> HIDE DEF P
  <2>4. \A b \in 0..n : b \in P
    BY <1>1, <2>2, <2>3, EveryPass
  <2> HIDE DEF Within
  <2> QED BY <2>4 DEF P
<1> QED BY <1>6 DEF n, S, M

\* The magnitudes of taps, and the terms of a sample, for a stream that is long
\* enough and nowhere louder than that.
Mags(taps) == [k \in 1..Len(taps) |-> Abs(taps[k])]
Covers(taps, stream, i) == i \in Nat \ {0} /\ i + Len(taps) - 1 <= Len(stream)
Below(stream, most) == \A j \in 1..Len(stream) : -most <= stream[j] /\ stream[j] <= most

LEMMA TermsBounded ==
  ASSUME NEW taps \in Seq(Int), NEW stream \in Seq(Int), NEW i, Covers(taps, stream, i)
  PROVE  /\ TapTerms(taps, stream, i) \in Seq(Int) /\ Len(TapTerms(taps, stream, i)) = Len(taps)
         /\ Mags(taps) \in Seq(Nat) /\ Len(Mags(taps)) = Len(taps)
         /\ Magnitude(taps) = Sums(Mags(taps))[Len(taps)]
         /\ \A most \in Nat : Below(stream, most) =>
              \A k \in 1..Len(taps) :
                /\ -(Mags(taps)[k] * most) <= TapTerms(taps, stream, i)[k]
                /\ TapTerms(taps, stream, i)[k] <= Mags(taps)[k] * most
<1> DEFINE n == Len(taps)
           terms == TapTerms(taps, stream, i)
<1>1. n \in Nat /\ \A k \in 1..n : taps[k] \in Int
  OBVIOUS
<1>2. /\ i \in Nat \ {0}
      /\ \A k \in 1..n : i + k - 1 \in 1..Len(stream)
  BY <1>1 DEF Covers
<1>3. \A k \in 1..n : stream[i + k - 1] \in Int
  BY <1>2
<1>4. \A k \in 1..n : taps[k] * stream[i + k - 1] \in Int
  <2>1. \A a, b \in Int : a * b \in Int
    OBVIOUS
  <2> QED BY <1>1, <1>3, <2>1
<1>5. \A k \in 1..n : Abs(taps[k]) \in Nat
  <2>1. \A a \in Int : Abs(a) \in Nat
    BY DEF Abs
  <2> QED BY <1>1, <2>1
<1>6. terms = [k \in 1..n |-> taps[k] * stream[i + k - 1]] /\ Mags(taps) = [k \in 1..n |-> Abs(taps[k])]
  BY DEF TapTerms, Mags
<1> HIDE DEF n, terms
<1>7. terms \in Seq(Int) /\ Len(terms) = n
  BY <1>1, <1>4, <1>6
<1>8. Mags(taps) \in Seq(Nat) /\ Len(Mags(taps)) = n
  BY <1>1, <1>5, <1>6
<1>9. Magnitude(taps) = Sums(Mags(taps))[n]
  <2>1. Magnitude(taps) = Total(Mags(taps))
    BY DEF Magnitude, Mags
  <2> QED BY <1>8, <2>1 DEF Total
<1>10. ASSUME NEW most \in Nat, Below(stream, most), NEW k \in 1..n
       PROVE  -(Mags(taps)[k] * most) <= terms[k] /\ terms[k] <= Mags(taps)[k] * most
  <2>1. -most <= stream[i + k - 1] /\ stream[i + k - 1] <= most
    BY <1>2, <1>10 DEF Below
  <2>2. taps[k] \in Int /\ stream[i + k - 1] \in Int
    BY <1>1, <1>3
  <2>3. /\ -(Abs(taps[k]) * most) <= taps[k] * stream[i + k - 1]
        /\ taps[k] * stream[i + k - 1] <= Abs(taps[k]) * most
    BY <2>1, <2>2, ProductBounded
  <2>4. terms[k] = taps[k] * stream[i + k - 1] /\ Mags(taps)[k] = Abs(taps[k])
    BY <1>6
  <2> QED BY <2>3, <2>4
<1> QED BY <1>7, <1>8, <1>9, <1>10 DEF n, terms

\* So no sum on the way is more than the magnitudes of all taps at that loudness.
Inside(sum, room) == sum \in Int /\ -room <= sum /\ sum <= room

LEMMA TapSumsInside ==
  ASSUME NEW taps \in Seq(Int), NEW stream \in Seq(Int), NEW i, Covers(taps, stream, i),
         NEW most \in Nat, Below(stream, most)
  PROVE  /\ Magnitude(taps) * most \in Nat
         /\ \A k \in 0..Len(taps) :
              Inside(Sums(TapTerms(taps, stream, i))[k], Magnitude(taps) * most)
<1> DEFINE n == Len(taps)
           terms == TapTerms(taps, stream, i)
           mags == Mags(taps)
           S == Sums(terms)
           M == Sums(mags)
<1>1. n \in Nat /\ terms \in Seq(Int) /\ Len(terms) = n /\ mags \in Seq(Nat) /\ Len(mags) = n
  BY TermsBounded
<1>2. Magnitude(taps) = M[n]
  BY TermsBounded
<1>3. \A k \in 1..Len(terms) : -(mags[k] * most) <= terms[k] /\ terms[k] <= mags[k] * most
  BY <1>1, TermsBounded
<1> HIDE DEF n, terms, mags
<1>4. \A a, b \in 0..n : a <= b =>
        /\ -((M[b] - M[a]) * most) <= S[b] - S[a] /\ S[b] - S[a] <= (M[b] - M[a]) * most
        /\ M[a] <= M[b]
  BY <1>1, <1>3, SumsBetween
<1>5. S[0] = 0 /\ \A k \in 0..n : S[k] \in Int
  BY <1>1, SumsUnroll
<1>6. M[0] = 0 /\ \A k \in 0..n : M[k] \in Int
  <2>1. mags \in Seq(Int)
    BY <1>1
  <2> QED BY <1>1, <2>1, SumsUnroll
<1> HIDE DEF S, M
<1>7. ASSUME NEW k \in 0..n PROVE Inside(S[k], M[n] * most) /\ M[n] * most \in Nat
  <2>1. 0 \in 0..n /\ n \in 0..n /\ 0 <= k /\ k <= n
    BY <1>1
  <2> DEFINE a == M[k]
             b == M[n]
             s == S[k]
  <2>2. a \in Int /\ b \in Int /\ s \in Int /\ 0 <= a /\ a <= b
    BY <1>4, <1>6, <1>5, <2>1
  <2>3. -((a - 0) * most) <= s - 0 /\ s - 0 <= (a - 0) * most
    BY <1>4, <1>5, <1>6, <2>1
  <2> HIDE DEF a, b, s
  <2>4. a * most <= b * most /\ a * most \in Int /\ b * most \in Nat
    <3>1. a \in Nat /\ b \in Nat
      BY <2>2
    <3> QED BY <2>2, <3>1
  <2>5. (a - 0) * most = a * most
    BY <2>2
  <2> QED BY <2>2, <2>3, <2>4, <2>5, SMTT(30) DEF Inside, b, s
<1>8. 0 \in 0..n
  BY <1>1
<1> QED BY <1>2, <1>7, <1>8 DEF n, terms, S

\* The pairs of a symmetric filter are the pairs of its terms.
LEMMA PairTermsArePairs ==
  ASSUME NEW taps \in Seq(Int), NEW stream \in Seq(Int), NEW i, Covers(taps, stream, i),
         IsSymmetric(taps)
  PROVE  /\ PairTerms(taps, stream, i) \in Seq(Int)
         /\ PairsOf(PairTerms(taps, stream, i), TapTerms(taps, stream, i))
<1> DEFINE n == Len(taps)
           half == (n + 1) \div 2
           terms == TapTerms(taps, stream, i)
           pairs == PairTerms(taps, stream, i)
<1>1. n \in Nat /\ half \in Nat /\ (2 * half = n \/ 2 * half = n + 1)
  <2>1. n \in Nat
    OBVIOUS
  <2> HIDE DEF n
  <2> QED BY <2>1
<1>2. pairs = [k \in 1..half |->
                 taps[k] * (IF 2 * k = n + 1 THEN stream[i + k - 1]
                            ELSE stream[i + k - 1] + stream[i + n - k])]
  BY DEF PairTerms
<1>3. terms = [k \in 1..n |-> taps[k] * stream[i + k - 1]]
  BY DEF TapTerms
<1>4. (\A k \in 1..n : taps[k] \in Int) /\ i \in Nat \ {0} /\ i + n - 1 <= Len(stream)
  BY DEF Covers
<1>5. \A k \in 1..n : taps[k] = taps[n + 1 - k]
  <2>1. \A k \in 1..(n \div 2) : taps[k] = taps[n + 1 - k]
    BY DEF IsSymmetric
  <2> HIDE DEF n
  <2>2. ASSUME NEW k \in 1..n PROVE taps[k] = taps[n + 1 - k]
    <3>1. CASE k <= n \div 2
      <4>1. k \in 1..(n \div 2)
        BY <1>1, <3>1
      <4> QED BY <2>1, <4>1
    <3>2. CASE 2 * k = n + 1
      <4>1. n + 1 - k = k
        BY <1>1, <3>2
      <4> QED BY <4>1
    <3>3. CASE ~(k <= n \div 2) /\ 2 * k # n + 1
      <4>1. n + 1 - k \in 1..(n \div 2) /\ n + 1 - (n + 1 - k) = k
        BY <1>1, <3>3
      <4> QED BY <2>1, <4>1
    <3> QED BY <3>1, <3>2, <3>3
  <2> QED BY <2>2
<1>6. \A k \in 1..n : i + k - 1 \in 1..Len(stream) /\ stream[i + k - 1] \in Int
  <2>1. ASSUME NEW k \in 1..n PROVE i + k - 1 \in 1..Len(stream)
    <3>1. Len(stream) \in Nat
      OBVIOUS
    <3> HIDE DEF n
    <3> QED BY <1>1, <1>4, <3>1
  <2> HIDE DEF n
  <2> QED BY <2>1
<1> HIDE DEF n, half, terms, pairs
<1>7. ASSUME NEW k \in 1..half
      PROVE  /\ pairs[k] = IF 2 * k = n + 1 THEN terms[k] ELSE terms[k] + terms[n + 1 - k]
             /\ pairs[k] \in Int
  <2>1. k \in 1..n /\ n + 1 - k \in 1..n /\ i + (n + 1 - k) - 1 = i + n - k
    BY <1>1, <1>4
  <2> DEFINE t == taps[k]
             x == stream[i + k - 1]
             y == stream[i + n - k]
  <2>2. t \in Int /\ x \in Int /\ y \in Int /\ t = taps[n + 1 - k]
    <3>1. t \in Int /\ x \in Int /\ t = taps[n + 1 - k]
      BY <1>4, <1>5, <1>6, <2>1
    <3>2. stream[i + (n + 1 - k) - 1] \in Int
      BY <1>6, <2>1
    <3> QED BY <2>1, <3>1, <3>2
  <2>3. terms[k] = t * x /\ terms[n + 1 - k] = t * y
    <3>1. terms[k] = taps[k] * stream[i + k - 1]
      BY <1>3, <2>1
    <3>2. terms[n + 1 - k] = taps[n + 1 - k] * stream[i + (n + 1 - k) - 1]
      BY <1>3, <2>1
    <3> QED BY <2>1, <2>2, <3>1, <3>2
  <2>4. pairs[k] = t * (IF 2 * k = n + 1 THEN x ELSE x + y)
    BY <1>2
  <2> HIDE DEF t, x, y
  <2>5. t * (x + y) = t * x + t * y /\ t * x \in Int /\ t * (x + y) \in Int
    BY <2>2
  <2> QED BY <2>3, <2>4, <2>5
<1>8. pairs \in Seq(Int) /\ Len(pairs) = half
  <2>1. pairs = [k \in 1..half |-> pairs[k]]
    BY <1>2
  <2>2. \A k \in 1..half : pairs[k] \in Int
    BY <1>7
  <2>3. pairs \in [1..half -> Int]
    BY <2>1, <2>2, Zenon
  <2> QED BY <1>1, <2>3
<1>9. Len(terms) = n
  BY <1>1, <1>3
<1>10. PairsOf(pairs, terms)
  BY <1>7, <1>8, <1>9 DEF PairsOf, half
<1> QED BY <1>8, <1>10 DEF pairs, terms

\* Neither are the sums of pairs.
LEMMA PairSumsInside ==
  ASSUME NEW taps \in Seq(Int), NEW stream \in Seq(Int), NEW i, Covers(taps, stream, i),
         IsSymmetric(taps), NEW most \in Nat, Below(stream, most)
  PROVE  \A h \in 0..Len(PairTerms(taps, stream, i)) :
           Inside(Sums(PairTerms(taps, stream, i))[h], Magnitude(taps) * most)
<1> DEFINE n == Len(taps)
           terms == TapTerms(taps, stream, i)
           pairs == PairTerms(taps, stream, i)
           mags == Mags(taps)
           S == Sums(terms)
           M == Sums(mags)
<1>1. n \in Nat /\ terms \in Seq(Int) /\ Len(terms) = n /\ mags \in Seq(Nat) /\ Len(mags) = n
  BY TermsBounded
<1>2. Magnitude(taps) = M[n]
  BY TermsBounded
<1>3. \A k \in 1..Len(terms) : -(mags[k] * most) <= terms[k] /\ terms[k] <= mags[k] * most
  BY <1>1, TermsBounded
<1>4. pairs \in Seq(Int) /\ PairsOf(pairs, terms)
  BY PairTermsArePairs
<1>5. \A k \in 0..n : Inside(S[k], M[n] * most)
  BY <1>2, TapSumsInside
<1> HIDE DEF n, terms, mags, pairs
<1>6. \A h \in 0..Len(pairs) : Sums(pairs)[h] = BothEnds(terms, h)
  BY <1>1, <1>4, PairsAddUp
<1>7. \A a, b \in 0..n : a <= b =>
        /\ -((M[b] - M[a]) * most) <= S[b] - S[a] /\ S[b] - S[a] <= (M[b] - M[a]) * most
        /\ M[a] <= M[b]
  BY <1>1, <1>3, SumsBetween
<1>8. S[0] = 0 /\ \A k \in 0..n : S[k] \in Int
  BY <1>1, SumsUnroll
<1>9. M[0] = 0 /\ \A k \in 0..n : M[k] \in Int
  <2>1. mags \in Seq(Int)
    BY <1>1
  <2> QED BY <1>1, <2>1, SumsUnroll
<1>10. \A h \in 0..Len(pairs) : h \in 0..n /\ n - h \in 0..n /\ (2 * h # n + 1 => h <= n - h)
  <2>1. Len(pairs) = (n + 1) \div 2
    BY <1>1, <1>4 DEF PairsOf
  <2> QED BY <1>1, <2>1
<1> HIDE DEF S, M
<1>11. ASSUME NEW h \in 0..Len(pairs) PROVE Inside(BothEnds(terms, h), M[n] * most)
  <2>1. n \in 0..n /\ 0 \in 0..n
    BY <1>1
  <2>2. CASE 2 * h = n + 1
    <3>1. BothEnds(terms, h) = S[n]
      BY <1>1, <2>2 DEF BothEnds, S
    <3> QED BY <1>5, <2>1, <3>1
  <2>3. CASE 2 * h # n + 1
    <3>1. BothEnds(terms, h) = S[h] + (S[n] - S[n - h])
      BY <1>1, <2>3 DEF BothEnds, S
    <3>2. h \in 0..n /\ n - h \in 0..n /\ h <= n - h /\ 0 <= h /\ n - h <= n
      BY <1>1, <1>10, <2>3
    <3> DEFINE a == M[h]
               b == M[n - h]
               c == M[n]
               s == S[h]
               d == S[n] - S[n - h]
    <3>3. a \in Nat /\ b \in Nat /\ c \in Nat /\ a <= b /\ b <= c
      <4>1. a \in Int /\ b \in Int /\ c \in Int
        BY <1>9, <2>1, <3>2
      <4>2. M[0] <= a /\ a <= b /\ b <= c
        BY <1>7, <2>1, <3>2
      <4> QED BY <1>9, <4>1, <4>2
    <3>4. -((a - 0) * most) <= s - 0 /\ s - 0 <= (a - 0) * most
      BY <1>7, <1>8, <1>9, <2>1, <3>2
    <3>5. -((c - b) * most) <= d /\ d <= (c - b) * most
      BY <1>7, <2>1, <3>2
    <3>6. s \in Int /\ d \in Int
      BY <1>8, <2>1, <3>2
    <3> HIDE DEF a, b, c, s, d
    <3>7. (a - 0) * most <= b * most /\ (c - b) * most = c * most - b * most /\ b * most \in Int
          /\ c * most \in Int /\ (a - 0) * most \in Int
      BY <3>3
    <3>8. -(c * most) <= s + d /\ s + d <= c * most /\ s + d \in Int
      BY <3>4, <3>5, <3>6, <3>7, SMTT(30)
    <3> QED BY <3>1, <3>8 DEF Inside, s, d, c
  <2> QED BY <2>2, <2>3
<1>12. \A h \in 0..Len(pairs) : Inside(Sums(pairs)[h], M[n] * most)
  BY <1>6, <1>11
<1> QED BY <1>2, <1>12 DEF pairs

-----------------------------------------------------------------------------
(* Pieces of a stream *)

IsSlice(p, s, a, b) ==
  p \in Seq(Int) /\ Len(p) = b - a /\ \A j \in 1..(b - a) : p[j] = s[a + j]

LEMMA FunctionIsSeq ==
  ASSUME NEW S, NEW n \in Nat, NEW f \in [1..n -> S]
  PROVE  f \in Seq(S) /\ Len(f) = n
OBVIOUS

LEMMA IntFunction ==
  ASSUME NEW n \in Nat, NEW f \in [1..n -> Int]
  PROVE  f \in Seq(Int) /\ Len(f) = n
OBVIOUS

\* What has the elements of two sequences, one after the other, is both.
LEMMA JoinedAre ==
  ASSUME NEW p \in Seq(Int), NEW q \in Seq(Int), NEW r \in Seq(Int), Len(r) = Len(p) + Len(q),
         \A j \in 1..Len(p) : r[j] = p[j], \A j \in 1..Len(q) : r[Len(p) + j] = q[j]
  PROVE  r = p \o q
<1>1. /\ p \o q \in Seq(Int) /\ Len(p \o q) = Len(p) + Len(q)
      /\ \A j \in 1..(Len(p) + Len(q)) : (p \o q)[j] = IF j <= Len(p) THEN p[j] ELSE q[j - Len(p)]
  BY ConcatProperties
<1>2. ASSUME NEW j \in 1..Len(r) PROVE r[j] = (p \o q)[j]
  <2>1. Len(p) \in Nat /\ Len(q) \in Nat
    OBVIOUS
  <2>2. CASE j <= Len(p)
    <3>1. j \in 1..Len(p) /\ j \in 1..(Len(p) + Len(q))
      BY <2>1, <2>2
    <3>2. (p \o q)[j] = p[j]
      BY <1>1, <2>2, <3>1
    <3>3. r[j] = p[j]
      BY <3>1
    <3> QED BY <3>2, <3>3
  <2>3. CASE ~(j <= Len(p))
    <3>1. j - Len(p) \in 1..Len(q) /\ j \in 1..(Len(p) + Len(q)) /\ Len(p) + (j - Len(p)) = j
      BY <2>1, <2>3
    <3>2. (p \o q)[j] = q[j - Len(p)]
      BY <1>1, <2>3, <3>1
    <3>3. r[Len(p) + (j - Len(p))] = q[j - Len(p)]
      BY <3>1
    <3> QED BY <3>1, <3>2, <3>3
  <2> QED BY <2>2, <2>3
<1> QED BY <1>1, <1>2, SeqEqual

LEMMA SliceIs ==
  ASSUME NEW s \in Seq(Int), NEW a \in Nat, NEW b \in Nat, a <= b, b <= Len(s)
  PROVE  IsSlice(Slice(s, a, b), s, a, b)
<1>1. b - a \in Nat /\ \A j \in 1..(b - a) : a + j \in 1..Len(s)
  OBVIOUS
<1>2. \A j \in 1..(b - a) : s[a + j] \in Int
  BY <1>1
<1>3. Slice(s, a, b) = [j \in 1..(b - a) |-> s[a + j]]
  BY DEF Slice
<1> QED BY <1>1, <1>2, <1>3 DEF IsSlice

\* Two pieces that meet are one, a piece of a piece is a piece, and a piece of
\* what is put behind is a piece of the whole.
LEMMA SlicesMeet ==
  ASSUME NEW s \in Seq(Int), NEW a \in Nat, NEW b \in Nat, NEW c \in Nat,
         a <= b, b <= c, c <= Len(s)
  PROVE  Slice(s, a, b) \o Slice(s, b, c) = Slice(s, a, c)
<1>0. a <= c /\ b <= Len(s)
  OBVIOUS
<1> DEFINE p == Slice(s, a, b)
           q == Slice(s, b, c)
           r == Slice(s, a, c)
<1>1. IsSlice(p, s, a, b)
  BY <1>0, SliceIs, Zenon
<1>2. IsSlice(q, s, b, c)
  BY <1>0, SliceIs, Zenon
<1>3. IsSlice(r, s, a, c)
  BY <1>0, SliceIs, Zenon
<1> HIDE DEF p, q, r
<1>4. /\ p \o q \in Seq(Int) /\ Len(p \o q) = (b - a) + (c - b)
      /\ \A j \in 1..((b - a) + (c - b)) :
           (p \o q)[j] = IF j <= b - a THEN p[j] ELSE q[j - (b - a)]
  <2>1. p \in Seq(Int) /\ Len(p) = b - a /\ q \in Seq(Int) /\ Len(q) = c - b
    BY <1>1, <1>2 DEF IsSlice
  <2>2. /\ p \o q \in Seq(Int) /\ Len(p \o q) = Len(p) + Len(q)
        /\ \A j \in 1..(Len(p) + Len(q)) :
             (p \o q)[j] = IF j <= Len(p) THEN p[j] ELSE q[j - Len(p)]
    BY <2>1, ConcatProperties
  <2> QED BY <2>1, <2>2
<1>5. ASSUME NEW j \in 1..(c - a) PROVE (p \o q)[j] = r[j]
  <2>1. j \in 1..((b - a) + (c - b)) /\ r[j] = s[a + j]
    BY <1>3 DEF IsSlice
  <2>2. CASE j <= b - a
    <3>1. j \in 1..(b - a)
      BY <2>2
    <3> QED BY <1>1, <1>4, <2>1, <2>2, <3>1 DEF IsSlice
  <2>3. CASE ~(j <= b - a)
    <3>1. j - (b - a) \in 1..(c - b) /\ b + (j - (b - a)) = a + j
      BY <2>3
    <3>2. q[j - (b - a)] = s[a + j]
      BY <1>2, <3>1 DEF IsSlice
    <3> QED BY <1>4, <2>1, <2>3, <3>2
  <2> QED BY <2>2, <2>3
<1>6. (b - a) + (c - b) = c - a
  OBVIOUS
<1>7. p \o q = r
  <2>1. Len(p \o q) = c - a /\ Len(r) = c - a /\ r \in Seq(Int) /\ p \o q \in Seq(Int)
    BY <1>3, <1>4, <1>6 DEF IsSlice
  <2>2. Len(p \o q) = Len(r) /\ \A j \in 1..Len(p \o q) : (p \o q)[j] = r[j]
    BY <1>5, <2>1
  <2> QED BY <2>1, <2>2, SeqEqual
<1> QED BY <1>7 DEF p, q, r

LEMMA SliceOfSlice ==
  ASSUME NEW s \in Seq(Int), NEW a \in Nat, NEW c \in Nat, a <= c, c <= Len(s),
         NEW d \in Nat, NEW e \in Nat, d <= e, e <= c - a
  PROVE  Slice(Slice(s, a, c), d, e) = Slice(s, a + d, a + e)
<1> DEFINE p == Slice(s, a, c)
<1>1. IsSlice(p, s, a, c)
  BY SliceIs, Zenon
<1> HIDE DEF p
<1>2. (a + e) - (a + d) = e - d
  OBVIOUS
<1>3. ASSUME NEW j \in 1..(e - d) PROVE p[d + j] = s[(a + d) + j]
  <2>1. d + j \in 1..(c - a) /\ a + (d + j) = (a + d) + j
    OBVIOUS
  <2> QED BY <1>1, <2>1 DEF IsSlice
<1>4. Slice(p, d, e) = Slice(s, a + d, a + e)
  BY <1>2, <1>3 DEF Slice
<1> QED BY <1>4 DEF p

LEMMA SliceBehind ==
  ASSUME NEW h \in Seq(Int), NEW t \in Seq(Int), NEW a \in Nat, NEW b \in Nat, a <= b, b <= Len(t)
  PROVE  Slice(h \o t, Len(h) + a, Len(h) + b) = Slice(t, a, b)
<1> DEFINE H == Len(h)
           w == h \o t
<1>1. H \in Nat /\ \A j \in 1..Len(t) : w[H + j] = t[j]
  OBVIOUS
<1> HIDE DEF H, w
<1>2. (H + b) - (H + a) = b - a
  BY <1>1
<1>3. ASSUME NEW j \in 1..(b - a) PROVE w[(H + a) + j] = t[a + j]
  <2>1. a + j \in 1..Len(t) /\ H + (a + j) = (H + a) + j
    BY <1>1
  <2> QED BY <1>1, <2>1
<1>4. Slice(w, H + a, H + b) = Slice(t, a, b)
  BY <1>2, <1>3 DEF Slice
<1> QED BY <1>4 DEF H, w

LEMMA SliceBefore ==
  ASSUME NEW h \in Seq(Int), NEW t \in Seq(Int), NEW a \in Nat, NEW b \in Nat, a <= b, b <= Len(h)
  PROVE  Slice(h \o t, a, b) = Slice(h, a, b)
<1>1. \A j \in 1..(b - a) : a + j \in 1..Len(h)
  OBVIOUS
<1>2. \A j \in 1..Len(h) : (h \o t)[j] = h[j]
  OBVIOUS
<1>3. \A j \in 1..(b - a) : (h \o t)[a + j] = h[a + j]
  BY <1>1, <1>2
<1> QED BY <1>3 DEF Slice

-----------------------------------------------------------------------------
(* A filter, chunk by chunk *)

\* The filter of a stream at a sample, and what is left of a tile when so many
\* of its samples are done: their history and what came out.
FirAt(taps, stream, i) == Rounded(Total(TapTerms(taps, stream, i)))
Done(taps, stream, size, n) ==
  [history |-> Slice(stream, n, n + size), out |-> [i \in 1..n |-> FirAt(taps, stream, i)]]

LEMMA RoundedInt ==
  ASSUME NEW sum \in Int
  PROVE  Rounded(sum) \in Int
<1>1. (sum + 16384) \div 32768 \in Int
  OBVIOUS
<1>2. \A x \in Int : Int16(x) \in Int
  BY DEF Int16
<1> QED BY <1>1, <1>2 DEF Rounded

LEMMA FirAtInt ==
  ASSUME NEW taps \in Seq(Int), NEW stream \in Seq(Int), NEW i, Covers(taps, stream, i)
  PROVE  Total(TapTerms(taps, stream, i)) \in Int /\ FirAt(taps, stream, i) \in Int
<1> DEFINE terms == TapTerms(taps, stream, i)
<1>1. terms \in Seq(Int)
  BY TermsBounded
<1> HIDE DEF terms
<1>2. Sums(terms) \in [0..Len(terms) -> Int] /\ Len(terms) \in 0..Len(terms)
  BY <1>1, SumsUnroll
<1>3. Total(terms) \in Int
  BY <1>2 DEF Total
<1> QED BY <1>3, RoundedInt DEF FirAt, terms

SameUnder(taps, work, i, stream, j) ==
  \A k \in 1..Len(taps) : work[i + k - 1] = stream[j + k - 1]

\* The same samples under the taps come out the same.
LEMMA FirAtMoved ==
  \A taps, work, stream, i, j :
    SameUnder(taps, work, i, stream, j) => FirAt(taps, work, i) = FirAt(taps, stream, j)
BY DEF FirAt, TapTerms, SameUnder

\* Whether a sample fills a vector or not makes no difference to it.
LEMMA FirBlockIs ==
  ASSUME NEW taps \in Seq(Int), NEW work \in Seq(Int), NEW n \in Nat,
         n + Len(taps) - 1 <= Len(work)
  PROVE  FirBlock(taps, work, n) = [i \in 1..n |-> FirAt(taps, work, i)]
<1> DEFINE paired(i) == Neon /\ IsSymmetric(taps) /\ i <= n - (n % Lanes)
           terms(i) == IF paired(i) THEN PairTerms(taps, work, i) ELSE TapTerms(taps, work, i)
<1>1. ASSUME NEW i \in 1..n PROVE Rounded(Total(terms(i))) = FirAt(taps, work, i)
  <2>1. Covers(taps, work, i)
    BY DEF Covers
  <2>2. ASSUME IsSymmetric(taps) PROVE Total(PairTerms(taps, work, i)) = Total(TapTerms(taps, work, i))
    <3>1. /\ PairTerms(taps, work, i) \in Seq(Int) /\ TapTerms(taps, work, i) \in Seq(Int)
          /\ PairsOf(PairTerms(taps, work, i), TapTerms(taps, work, i))
      BY <2>1, <2>2, PairTermsArePairs, TermsBounded
    <3> QED BY <3>1, PairsAddUp
  <2>3. CASE paired(i)
    <3>1. Total(PairTerms(taps, work, i)) = Total(TapTerms(taps, work, i))
      BY <2>2, <2>3
    <3> QED BY <2>3, <3>1 DEF FirAt
  <2>4. CASE ~paired(i)
    BY <2>4 DEF FirAt
  <2> QED BY <2>3, <2>4
<1>2. FirBlock(taps, work, n) = [i \in 1..n |-> Rounded(Total(terms(i)))]
  BY DEF FirBlock
<1> HIDE DEF terms
<1> QED BY <1>1, <1>2

\* A chunk takes what is done from one sample to a later one, as far as the
\* history reaches back as far as the taps.
Reaches(taps, size) == size \in Nat /\ Len(taps) - 1 <= size

LEMMA DoneTyped ==
  ASSUME NEW taps \in Seq(Int), NEW stream \in Seq(Int), NEW size, Reaches(taps, size),
         NEW n \in Nat, n + size <= Len(stream)
  PROVE  /\ Done(taps, stream, size, n).out \in Seq(Int) /\ Len(Done(taps, stream, size, n).out) = n
         /\ IsSlice(Done(taps, stream, size, n).history, stream, n, n + size)
<1> DEFINE outs == [i \in 1..n |-> FirAt(taps, stream, i)]
<1>1. size \in Nat /\ Len(taps) - 1 <= size
  BY DEF Reaches
<1>2. \A i \in 1..n : FirAt(taps, stream, i) \in Int
  <2>1. ASSUME NEW i \in 1..n PROVE FirAt(taps, stream, i) \in Int
    <3>1. Covers(taps, stream, i)
      BY <1>1 DEF Covers
    <3> QED BY <3>1, FirAtInt
  <2> QED BY <2>1
<1>3. outs \in [1..n -> Int]
  BY <1>2, Zenon
<1> HIDE DEF outs
<1>4. outs \in Seq(Int) /\ Len(outs) = n
  BY <1>3
<1>5. IsSlice(Slice(stream, n, n + size), stream, n, n + size)
  <2>1. n + size \in Nat /\ n <= n + size
    BY <1>1
  <2> QED BY <2>1, SliceIs, Zenon
<1>6. Done(taps, stream, size, n) = [history |-> Slice(stream, n, n + size), out |-> outs]
  BY DEF Done, outs
<1> QED BY <1>4, <1>5, <1>6

LEMMA ChunkStep ==
  ASSUME NEW taps \in Seq(Int), NEW stream \in Seq(Int), NEW size, Reaches(taps, size),
         NEW from \in Nat, NEW upto \in Nat, from <= upto, upto + size <= Len(stream)
  PROVE  Filtered(taps, Done(taps, stream, size, from), Slice(stream, size + from, size + upto))
         = Done(taps, stream, size, upto)
<1> DEFINE r == Done(taps, stream, size, from)
           chunk == Slice(stream, size + from, size + upto)
           m == upto - from
           work == r.history \o chunk
           L == Len(taps)
<1>1. size \in Nat /\ L \in Nat /\ L - 1 <= size /\ m \in Nat
  BY DEF Reaches
<1>2. /\ size + from \in Nat /\ size + upto \in Nat /\ from + size \in Nat
      /\ from <= size + from /\ size + from <= size + upto /\ size + upto <= Len(stream)
      /\ from + size = size + from /\ (size + upto) - (size + from) = m
  BY <1>1
<1>3. r.history = Slice(stream, from, size + from) /\ r.out = [i \in 1..from |-> FirAt(taps, stream, i)]
  BY <1>2 DEF Done
<1>4. IsSlice(chunk, stream, size + from, size + upto)
  BY <1>2, SliceIs, Zenon
<1>5. work = Slice(stream, from, size + upto)
  <2>1. Slice(stream, from, size + from) \o Slice(stream, size + from, size + upto)
        = Slice(stream, from, size + upto)
    BY <1>2, SlicesMeet, ZenonT(30)
  <2> HIDE DEF r
  <2> QED BY <1>3, <2>1
<1>6. Len(chunk) = m
  BY <1>2, <1>4 DEF IsSlice
<1> DEFINE all == Slice(stream, from, size + upto)
<1>7. IsSlice(all, stream, from, size + upto)
  <2>1. from <= size + upto
    BY <1>1, <1>2
  <2> QED BY <1>2, <2>1, SliceIs, Zenon
<1>8. all \in Seq(Int) /\ Len(all) = m + size /\ \A j \in 1..(m + size) : all[j] = stream[from + j]
  <2>1. (size + upto) - from = m + size
    BY <1>1
  <2> QED BY <1>7, <2>1 DEF IsSlice
<1> HIDE DEF r, chunk, all
\* the history
<1>9. Slice(all, m, Len(all)) = Slice(stream, upto, upto + size)
  <2>1. /\ m <= m + size /\ m + size <= (size + upto) - from /\ from <= size + upto
        /\ from + m = upto /\ from + (m + size) = upto + size /\ m + size \in Nat
    BY <1>1
  <2>2. Slice(Slice(stream, from, size + upto), m, m + size) = Slice(stream, from + m, from + (m + size))
    BY <1>1, <1>2, <2>1, SliceOfSlice
  <2> QED BY <1>8, <2>1, <2>2 DEF all
\* what comes out
<1> DEFINE fresh == FirBlock(taps, all, m)
           outs == [i \in 1..upto |-> FirAt(taps, stream, i)]
           before == [i \in 1..from |-> FirAt(taps, stream, i)]
<1>10. fresh = [i \in 1..m |-> FirAt(taps, stream, from + i)]
  <2>1. m + L - 1 <= Len(all)
    BY <1>1, <1>8
  <2>2. fresh = [i \in 1..m |-> FirAt(taps, all, i)]
    BY <1>1, <1>8, <2>1, FirBlockIs
  <2>3. ASSUME NEW i \in 1..m PROVE FirAt(taps, all, i) = FirAt(taps, stream, from + i)
    <3>1. ASSUME NEW k \in 1..L PROVE all[i + k - 1] = stream[(from + i) + k - 1]
      <4>1. i + k - 1 \in 1..(m + size) /\ from + (i + k - 1) = (from + i) + k - 1
        BY <1>1
      <4> QED BY <1>8, <4>1
    <3>2. SameUnder(taps, all, i, stream, from + i)
      BY <3>1 DEF SameUnder
    <3> QED BY <3>2, FirAtMoved
  <2> HIDE DEF fresh
  <2> QED BY <2>2, <2>3
<1>11. \A i \in 1..upto : FirAt(taps, stream, i) \in Int
  <2>1. ASSUME NEW i \in 1..upto PROVE FirAt(taps, stream, i) \in Int
    <3>1. Covers(taps, stream, i)
      BY <1>1 DEF Covers
    <3> QED BY <3>1, FirAtInt
  <2> QED BY <2>1
<1>12. before \o fresh = outs
  <2>1. outs \in [1..upto -> Int]
    BY <1>11, Zenon
  <2>2. before \in [1..from -> Int]
    <3>1. \A i \in 1..from : i \in 1..upto
      OBVIOUS
    <3>2. \A i \in 1..from : FirAt(taps, stream, i) \in Int
      BY <1>11, <3>1
    <3> QED BY <3>2, Zenon
  <2>3. fresh \in [1..m -> Int]
    <3>1. \A i \in 1..m : from + i \in 1..upto
      OBVIOUS
    <3>2. \A i \in 1..m : FirAt(taps, stream, from + i) \in Int
      BY <1>11, <3>1
    <3> HIDE DEF fresh
    <3> QED BY <1>10, <3>2, Zenon
  <2>4. (\A i \in 1..from : before[i] = FirAt(taps, stream, i)) /\ \A i \in 1..upto : outs[i] = FirAt(taps, stream, i)
    OBVIOUS
  <2>5. \A i \in 1..m : fresh[i] = FirAt(taps, stream, from + i)
    <3> HIDE DEF fresh
    <3> QED BY <1>10
  <2> HIDE DEF outs, before, fresh
  <2>6. /\ outs \in Seq(Int) /\ Len(outs) = upto /\ before \in Seq(Int) /\ Len(before) = from
        /\ fresh \in Seq(Int) /\ Len(fresh) = m
    BY <1>1, <2>1, <2>2, <2>3, IntFunction
  <2>7. /\ before \o fresh \in Seq(Int) /\ Len(before \o fresh) = Len(before) + Len(fresh)
        /\ \A i \in 1..(Len(before) + Len(fresh)) :
             (before \o fresh)[i] = IF i <= Len(before) THEN before[i] ELSE fresh[i - Len(before)]
    BY <2>6, ConcatProperties
  <2>8. from + m = upto
    BY <1>1
  <2>9. ASSUME NEW i \in 1..upto PROVE (before \o fresh)[i] = outs[i]
    <3>1. (before \o fresh)[i] = IF i <= from THEN before[i] ELSE fresh[i - from]
      BY <2>6, <2>7, <2>8
    <3>2. CASE i <= from
      <4>1. i \in 1..from
        BY <3>2
      <4> QED BY <2>4, <3>1, <3>2, <4>1
    <3>3. CASE ~(i <= from)
      <4>1. i - from \in 1..m /\ from + (i - from) = i
        BY <1>1, <3>3
      <4> QED BY <2>4, <2>5, <3>1, <3>3, <4>1
    <3> QED BY <3>2, <3>3
  <2>10. Len(before \o fresh) = Len(outs) /\ \A i \in 1..Len(before \o fresh) : (before \o fresh)[i] = outs[i]
    BY <2>6, <2>7, <2>8, <2>9
  <2> QED BY <2>6, <2>7, <2>10, SeqEqual
<1>13. Chunk(taps, r, chunk) = [history |-> Slice(all, m, Len(all)), out |-> before \o fresh]
  BY <1>3, <1>5, <1>6 DEF Chunk, all
<1>14. DualChunk(taps, r, chunk) = Chunk(taps, r, chunk)
  BY DEF DualChunk, Chunk, FilterBlockTyped
<1>15. Filtered(taps, r, chunk) = [history |-> Slice(stream, upto, upto + size), out |-> outs]
  <2> HIDE DEF fresh, outs, before
  <2> QED BY <1>9, <1>12, <1>13, <1>14 DEF Filtered
<1> QED BY <1>15 DEF Done, r, chunk, outs

\* Where the chunks of a tile end.
ChunkCount(n) == (n + ChunkSize - 1) \div ChunkSize
ChunkEnd(n, c) == IF c * ChunkSize < n THEN c * ChunkSize ELSE n

LEMMA ChunkEnds ==
  ASSUME NEW n \in Nat
  PROVE  /\ ChunkCount(n) \in Nat /\ ChunkEnd(n, 0) = 0 /\ ChunkEnd(n, ChunkCount(n)) = n
         /\ \A c \in 1..ChunkCount(n) :
              /\ ChunkEnd(n, c - 1) = (c - 1) * ChunkSize
              /\ ChunkEnd(n, c - 1) \in Nat /\ ChunkEnd(n, c) \in Nat
              /\ ChunkEnd(n, c - 1) <= ChunkEnd(n, c) /\ ChunkEnd(n, c) <= n
<1> DEFINE size == ChunkSize
           C == ChunkCount(n)
           r == (n + size - 1) % size
<1>1. size \in Nat \ {0}
  BY IqPipelineAssumption
<1>2. n + size - 1 \in Nat
  BY <1>1
<1>3. C \in Int /\ r \in 0..(size - 1) /\ n + size - 1 = size * C + r
  <2> DEFINE a == n + size - 1
  <2>1. C = a \div size /\ r = a % size /\ a \in Int
    BY <1>2 DEF ChunkCount
  <2> HIDE DEF C, r, size, a
  <2>2. C \in Int /\ r \in 0..(size - 1) /\ a = size * C + r
    BY <1>1, <2>1, DivMod
  <2> QED BY <2>2 DEF a
<1> HIDE DEF C, r, size
<1>4. C \in Nat
  <2>1. ASSUME C <= -1 PROVE FALSE
    <3>1. size * C <= size * (-1) /\ size * (-1) = -size
      BY <1>1, <1>3, <2>1
    <3> QED BY <1>1, <1>2, <1>3, <3>1
  <2> QED BY <1>3, <2>1
<1>5. C * size = size * C /\ C * size \in Nat /\ ~(C * size < n)
  <2>1. C * size = size * C /\ C * size \in Nat
    BY <1>1, <1>4
  <2> QED BY <1>1, <1>3, <2>1
<1>6. ASSUME NEW c \in 1..C
      PROVE  /\ (c - 1) * size < n /\ (c - 1) * size \in Nat /\ c * size \in Nat
             /\ (c - 1) * size <= c * size
  <2>1. c \in Nat /\ c - 1 \in Nat /\ c - 1 <= C - 1
    BY <1>4
  <2>2. (c - 1) * size = c * size - size /\ (c - 1) * size \in Nat /\ c * size \in Nat
    BY <1>1, <2>1
  <2>3. (c - 1) * size <= (C - 1) * size /\ (C - 1) * size = C * size - size
    BY <1>1, <1>4, <2>1
  <2> QED BY <1>1, <1>3, <1>5, <2>2, <2>3
<1>7. ChunkEnd(n, 0) = 0 /\ ChunkEnd(n, C) = n
  <2>1. 0 * size = 0
    BY <1>1
  <2>2. ChunkEnd(n, 0) = IF 0 * size < n THEN 0 * size ELSE n
    BY DEF ChunkEnd, size
  <2>3. ChunkEnd(n, C) = IF C * size < n THEN C * size ELSE n
    BY DEF ChunkEnd, size
  <2> QED BY <1>5, <2>1, <2>2, <2>3
<1>8. ASSUME NEW c \in 1..C
      PROVE  /\ ChunkEnd(n, c - 1) = (c - 1) * size
             /\ ChunkEnd(n, c - 1) \in Nat /\ ChunkEnd(n, c) \in Nat
             /\ ChunkEnd(n, c - 1) <= ChunkEnd(n, c) /\ ChunkEnd(n, c) <= n
  <2>1. ChunkEnd(n, c - 1) = IF (c - 1) * size < n THEN (c - 1) * size ELSE n
    BY DEF ChunkEnd, size
  <2>2. ChunkEnd(n, c) = IF c * size < n THEN c * size ELSE n
    BY DEF ChunkEnd, size
  <2> DEFINE a == (c - 1) * size
             b == c * size
  <2>3. a < n /\ a \in Nat /\ b \in Nat /\ a <= b
    BY <1>6
  <2> HIDE DEF a, b
  <2>4. ChunkEnd(n, c - 1) = a /\ ChunkEnd(n, c) = IF b < n THEN b ELSE n
    BY <2>1, <2>2, <2>3 DEF a, b
  <2>5. ChunkEnd(n, c) \in Nat /\ a <= ChunkEnd(n, c) /\ ChunkEnd(n, c) <= n
    BY <2>3, <2>4
  <2> QED BY <2>3, <2>4, <2>5 DEF a
<1> QED BY <1>4, <1>7, <1>8 DEF C, size

\* A tile comes out of the filter as what is behind the history does.
LEMMA FirIs ==
  ASSUME NEW taps \in Seq(Int), NEW history \in Seq(Int), NEW tile \in Seq(Int),
         Reaches(taps, Len(history))
  PROVE  Fir(taps, history, tile) = Done(taps, history \o tile, Len(history), Len(tile))
<1> DEFINE H == Len(history)
           n == Len(tile)
           C == ChunkCount(n)
           stream == history \o tile
           chunks == Chunks(tile)
           start == [history |-> history, out |-> <<>>]
           f == [c \in 0..C |-> Done(taps, stream, H, ChunkEnd(n, c))]
           Loop(g) == g = [c \in 0..C |-> IF c = 0 THEN start ELSE Filtered(taps, g[c - 1], chunks[c])]
           after == CHOOSE g : Loop(g)
<1>1. H \in Nat /\ n \in Nat /\ stream \in Seq(Int) /\ Len(stream) = H + n
  BY ConcatProperties
<1>2. /\ C \in Nat /\ ChunkEnd(n, 0) = 0 /\ ChunkEnd(n, C) = n
      /\ \A c \in 1..C :
           /\ ChunkEnd(n, c - 1) = (c - 1) * ChunkSize
           /\ ChunkEnd(n, c - 1) \in Nat /\ ChunkEnd(n, c) \in Nat
           /\ ChunkEnd(n, c - 1) <= ChunkEnd(n, c) /\ ChunkEnd(n, c) <= n
  <2> HIDE DEF n
  <2> QED BY <1>1, ChunkEnds, ZenonT(30)
<1>3. chunks = [c \in 1..C |-> Slice(tile, (c - 1) * ChunkSize, ChunkEnd(n, c))]
  BY DEF Chunks, ChunkCount, ChunkEnd
<1>4. Len(chunks) = C
  <2> HIDE DEF chunks, C
  <2> QED BY <1>2, <1>3
<1>5. Fir(taps, history, tile) = after[C]
  BY <1>4 DEF Fir
<1>6. Done(taps, stream, H, 0) = start
  <2>1. 0 + H = H /\ Slice(stream, 0, H) = Slice(history, 0, H)
    <3>1. 0 \in Nat /\ 0 <= H /\ H <= H
      BY <1>1
    <3> QED BY <1>1, <3>1, SliceBefore
  <2>2. Slice(history, 0, H) = history
    <3>1. history = [j \in 1..H |-> history[j]]
      OBVIOUS
    <3>2. H - 0 = H /\ \A j \in 1..H : 0 + j = j
      BY <1>1
    <3>3. Slice(history, 0, H) = [j \in 1..(H - 0) |-> history[0 + j]]
      BY DEF Slice
    <3> HIDE DEF H
    <3> QED BY <3>1, <3>2, <3>3
  <2>3. [i \in 1..0 |-> FirAt(taps, stream, i)] = <<>>
    OBVIOUS
  <2> HIDE DEF stream, H
  <2> QED BY <2>1, <2>2, <2>3 DEF Done
<1> HIDE DEF H, n, C, chunks, start
<1>7. ASSUME NEW c \in 1..C
      PROVE  Filtered(taps, Done(taps, stream, H, ChunkEnd(n, c - 1)), chunks[c])
             = Done(taps, stream, H, ChunkEnd(n, c))
  <2> DEFINE from == ChunkEnd(n, c - 1)
             upto == ChunkEnd(n, c)
  <2>1. from \in Nat /\ upto \in Nat /\ from <= upto /\ upto <= n /\ from = (c - 1) * ChunkSize
    BY <1>2
  <2>2. chunks[c] = Slice(tile, from, upto)
    BY <1>3, <2>1
  <2> HIDE DEF from, upto
  <2>3. Slice(stream, H + from, H + upto) = Slice(tile, from, upto)
    BY <2>1, SliceBehind DEF H, n
  <2>4. Reaches(taps, H) /\ upto + H <= Len(stream)
    BY <1>1, <2>1 DEF H
  <2> HIDE DEF stream
  <2>5. Filtered(taps, Done(taps, stream, H, from), Slice(stream, H + from, H + upto))
        = Done(taps, stream, H, upto)
    <3>1. stream \in Seq(Int) /\ from \in Nat /\ upto \in Nat /\ from <= upto
      BY <1>1, <2>1
    <3> QED BY <2>4, <3>1, ChunkStep, ZenonT(30)
  <2> QED BY <2>2, <2>3, <2>5 DEF from, upto
<1> HIDE DEF stream
<1>8. Loop(f)
  <2>1. 0 \in 0..C /\ f[0] = start
    BY <1>2, <1>6
  <2>2. ASSUME NEW c \in 0..C, c # 0 PROVE f[c] = Filtered(taps, f[c - 1], chunks[c])
    <3>1. c \in 1..C /\ c - 1 \in 0..C
      BY <1>2, <2>2
    <3>2. f[c] = Done(taps, stream, H, ChunkEnd(n, c)) /\ f[c - 1] = Done(taps, stream, H, ChunkEnd(n, c - 1))
      BY <3>1
    <3> QED BY <1>7, <3>1, <3>2
  <2>3. f = [c \in 0..C |-> f[c]]
    OBVIOUS
  <2> HIDE DEF f
  <2>4. \A c \in 0..C : f[c] = IF c = 0 THEN start ELSE Filtered(taps, f[c - 1], chunks[c])
    BY <2>1, <2>2
  <2> QED BY <2>3, <2>4
<1>9. Loop(after)
  <2> HIDE DEF Loop, f
  <2> QED BY <1>8
<1> HIDE DEF after
<1>10. after[0] = start /\ \A c \in 1..C : after[c] = Filtered(taps, after[c - 1], chunks[c])
  <2>1. 0 \in 0..C /\ \A c \in 1..C : c \in 0..C /\ c # 0
    BY <1>2
  <2> QED BY <1>9, <2>1
<1> DEFINE P == {c \in 0..C : after[c] = Done(taps, stream, H, ChunkEnd(n, c))}
<1>11. 0 \in P
  BY <1>2, <1>6, <1>10
<1>12. ASSUME NEW c \in 0..(C - 1), c \in P PROVE c + 1 \in P
  <2>1. c + 1 \in 1..C /\ c + 1 \in 0..C /\ (c + 1) - 1 = c
    BY <1>2
  <2>2. after[c + 1] = Filtered(taps, after[c], chunks[c + 1])
    BY <1>10, <2>1
  <2>3. Filtered(taps, Done(taps, stream, H, ChunkEnd(n, (c + 1) - 1)), chunks[c + 1])
        = Done(taps, stream, H, ChunkEnd(n, c + 1))
    BY <1>7, <2>1
  <2> QED BY <1>12, <2>1, <2>2, <2>3
<1> HIDE DEF P
<1>13. \A c \in 0..C : c \in P
  BY <1>2, <1>11, <1>12, EveryPass
<1>14. C \in 0..C
  BY <1>2
<1>15. after[C] = Done(taps, stream, H, n)
  BY <1>2, <1>13, <1>14 DEF P
<1> QED BY <1>5, <1>15 DEF stream, H, n

-----------------------------------------------------------------------------
(* The stages, tile by tile *)

Level(raw) == IF "dc" \in pipe.stages THEN Accumulators(0, raw)[Len(raw)] ELSE 0
Centred(raw, tile) ==
  IF "dc" \in pipe.stages THEN Centre(Level(raw), tile) ELSE [acc |-> Level(raw), out |-> tile]
Quiet(stream) == stream \in Seq(Int) /\ Below(stream, Loudest)

LEMMA Int16Same ==
  ASSUME NEW x \in Int, -32768 <= x, x <= 32767
  PROVE  Int16(x) = x
<1> DEFINE turn == 65536
           up == x + 32768
<1>1. turn \in Nat \ {0} /\ up \in Int /\ 0 <= up /\ up < turn /\ up - 32768 = x
  OBVIOUS
<1>2. Int16(x) = (up % turn) - 32768
  BY DEF Int16
<1> HIDE DEF turn, up
<1>3. up \in 0..(turn - 1)
  BY <1>1
<1>4. up % turn = up
  BY <1>1, <1>3, ModSmall
<1> QED BY <1>1, <1>2, <1>4

\* The difference of a sample and a mean is an int16, and its negative too.
LEMMA DifferenceFits ==
  \A x \in Difference : Int16(x) = x /\ Int16(-x) = -x /\ -x \in Difference
<1>1. ASSUME NEW x \in Difference PROVE Int16(x) = x /\ -x \in Difference
  <2>1. x \in Int /\ -32767 <= x /\ x <= 32767
    BY DEF Difference
  <2>2. Int16(x) = x
    BY <2>1, Int16Same
  <2>3. -x \in Difference
    BY <2>1 DEF Difference
  <2> QED BY <2>2, <2>3
<1> QED BY <1>1

LEMMA LoudestNumber == Loudest \in Nat /\ 16384 <= Loudest /\ Loudest <= 32767
BY DEF Loudest

LEMMA SeqInts ==
  ASSUME NEW raw \in Seq(Q14)
  PROVE  raw \in Seq(Int) /\ \A n \in 1..Len(raw) : raw[n] \in Q14
<1>1. Q14 \subseteq Int
  BY Q14Number
<1>2. raw \in Seq(Int)
  BY <1>1, SeqMonotonic
<1> QED BY <1>2

LEMMA CentredQuiet ==
  ASSUME NEW raw \in Seq(Q14)
  PROVE  Quiet(CentredStream(raw)) /\ Len(CentredStream(raw)) = Len(raw)
<1> DEFINE n == Len(raw)
<1>1. n \in Nat /\ raw \in Seq(Int) /\ \A k \in 1..n : raw[k] \in Q14
  BY SeqInts
<1>2. CASE "dc" \in pipe.stages
  <2> DEFINE accs == Accumulators(0, raw)
             outs == [k \in 1..n |-> raw[k] - Mean(accs[k - 1])]
  <2>1. 0 \in Levels
    <3>1. DcWindow \in Nat \ {0}
      BY IqPipelineAssumption
    <3> QED BY <3>1, LevelNumber
  <2>2. \A k \in 0..n : accs[k] \in Levels
    BY <2>1, LevelsKept
  <2>3. CentredStream(raw) = outs
    BY <1>2 DEF CentredStream
  <2>4. Loudest = 32767
    BY <1>2 DEF Loudest
  <2> HIDE DEF accs
  <2>5. \A k \in 1..n : raw[k] - Mean(accs[k - 1]) \in Difference
    <3>1. ASSUME NEW k \in 1..n PROVE raw[k] - Mean(accs[k - 1]) \in Difference
      <4>1. k - 1 \in 0..n
        BY <1>1
      <4> QED BY <1>1, <2>2, <4>1, MeanStays
    <3> QED BY <3>1
  <2> HIDE DEF outs, n
  <2>6. \A k \in 1..n : outs[k] \in Difference
    BY <2>5 DEF outs
  <2>7. \A k \in 1..n : outs[k] \in Int /\ -32767 <= outs[k] /\ outs[k] <= 32767
    BY <2>6 DEF Difference
  <2>8. outs \in [1..n -> Int]
    <3>1. outs = [k \in 1..n |-> outs[k]]
      BY DEF outs
    <3>2. \A k \in 1..n : outs[k] \in Int
      BY <2>7
    <3> QED BY <3>1, <3>2, Zenon
  <2>9. outs \in Seq(Int) /\ Len(outs) = n
    BY <1>1, <2>8, IntFunction
  <2> QED BY <2>3, <2>4, <2>7, <2>9 DEF Quiet, Below, n
<1>3. CASE "dc" \notin pipe.stages
  <2>1. CentredStream(raw) = raw /\ Loudest = 16384
    BY <1>3 DEF CentredStream, Loudest
  <2>2. \A k \in 1..n : raw[k] \in Int /\ -16384 <= raw[k] /\ raw[k] <= 16384
    BY <1>1, Q14Number
  <2> QED BY <1>1, <2>1, <2>2 DEF Quiet, Below
<1> QED BY <1>2, <1>3

\* DCRemoval goes on where it left off.
LEMMA CentredJoins ==
  ASSUME NEW raw \in Seq(Q14), NEW tile \in Seq(Q14)
  PROVE  /\ raw \o tile \in Seq(Q14)
         /\ Centred(raw, tile).acc = Level(raw \o tile)
         /\ Centred(raw, tile).out \in Seq(Difference) /\ Len(Centred(raw, tile).out) = Len(tile)
         /\ CentredStream(raw \o tile) = CentredStream(raw) \o Centred(raw, tile).out
<1> DEFINE R == Len(raw)
           T == Len(tile)
           both == raw \o tile
<1>1. /\ R \in Nat /\ T \in Nat /\ both \in Seq(Q14) /\ Len(both) = R + T
      /\ \A n \in 1..R : both[n] = raw[n]
      /\ \A n \in 1..T : both[R + n] = tile[n]
  <2>1. /\ both \in Seq(Q14) /\ Len(both) = R + T
        /\ \A n \in 1..(R + T) : both[n] = IF n <= R THEN raw[n] ELSE tile[n - R]
    BY ConcatProperties
  <2>2. R \in Nat /\ T \in Nat
    OBVIOUS
  <2> HIDE DEF both, R, T
  <2>3. ASSUME NEW n \in 1..R PROVE both[n] = raw[n]
    <3>1. n \in 1..(R + T) /\ n <= R
      BY <2>2
    <3> QED BY <2>1, <3>1
  <2>4. ASSUME NEW n \in 1..T PROVE both[R + n] = tile[n]
    <3>1. R + n \in 1..(R + T) /\ ~(R + n <= R) /\ (R + n) - R = n
      BY <2>2
    <3> QED BY <2>1, <3>1
  <2> QED BY <2>1, <2>2, <2>3, <2>4
<1>2. raw \in Seq(Int) /\ tile \in Seq(Int) /\ \A n \in 1..T : tile[n] \in Q14
  BY SeqInts
<1>3. CASE "dc" \in pipe.stages
  <2> DEFINE first == Accumulators(0, raw)
             second == Accumulators(first[R], tile)
             all == Accumulators(0, both)
             a == [n \in 1..R |-> raw[n] - Mean(first[n - 1])]
             b == [n \in 1..T |-> Int16(tile[n] - Mean(second[n - 1]))]
             c == [n \in 1..(R + T) |-> both[n] - Mean(all[n - 1])]
  <2>1. (\A n \in 0..R : all[n] = first[n]) /\ \A n \in 0..T : all[R + n] = second[n]
    BY <1>2, AccumulatorsJoin
  <2>2. first[R] \in Levels
    <3>1. 0 \in Levels
      <4>1. DcWindow \in Nat \ {0}
        BY IqPipelineAssumption
      <4> QED BY <4>1, LevelNumber
    <3>2. R \in 0..R
      BY <1>1
    <3> QED BY <3>1, <3>2, LevelsKept
  <2>3. \A n \in 0..T : second[n] \in Levels
    BY <2>2, LevelsKept
  <2>4. CentredStream(raw) = a /\ CentredStream(both) = c
    BY <1>1, <1>3 DEF CentredStream
  <2>5. Centred(raw, tile) = [acc |-> second[T], out |-> b] /\ Level(both) = all[R + T]
    BY <1>1, <1>3 DEF Centred, Centre, Level
  <2> HIDE DEF first, second, all, both, R, T
  <2>6. ASSUME NEW n \in 1..T
        PROVE  /\ tile[n] - Mean(second[n - 1]) \in Difference
               /\ b[n] = tile[n] - Mean(second[n - 1])
    <3>1. n - 1 \in 0..T
      BY <1>1
    <3>2. tile[n] - Mean(second[n - 1]) \in Difference
      BY <1>2, <2>3, <3>1, MeanStays
    <3>3. b[n] = Int16(tile[n] - Mean(second[n - 1]))
      OBVIOUS
    <3> HIDE DEF b
    <3> QED BY <3>2, <3>3, DifferenceFits
  <2>7. \A n \in 1..T : c[R + n] = b[n]
    <3>1. ASSUME NEW n \in 1..T PROVE c[R + n] = b[n]
      <4>1. R + n \in 1..(R + T) /\ (R + n) - 1 = R + (n - 1) /\ n - 1 \in 0..T
        BY <1>1
      <4>2. c[R + n] = both[R + n] - Mean(all[(R + n) - 1])
        BY <4>1
      <4> HIDE DEF b, c
      <4>3. both[R + n] = tile[n] /\ all[(R + n) - 1] = second[n - 1]
        BY <1>1, <2>1, <4>1
      <4> QED BY <2>6, <4>2, <4>3
    <3> QED BY <3>1
  <2>8. \A n \in 1..R : c[n] = a[n]
    <3>1. ASSUME NEW n \in 1..R PROVE c[n] = a[n]
      <4>1. n \in 1..(R + T) /\ n - 1 \in 0..R
        BY <1>1
      <4>2. c[n] = both[n] - Mean(all[n - 1]) /\ a[n] = raw[n] - Mean(first[n - 1])
        BY <4>1
      <4> HIDE DEF a, c
      <4> QED BY <1>1, <2>1, <4>1, <4>2
    <3> QED BY <3>1
  <2>9. Quiet(a) /\ Len(a) = R /\ Quiet(c) /\ Len(c) = R + T
    <3> HIDE DEF a, c
    <3> QED BY <1>1, <2>4, CentredQuiet DEF R
  <2>10. b \in Seq(Difference) /\ Len(b) = T
    <3>1. \A n \in 1..T : b[n] \in Difference
      BY <2>6
    <3>2. b = [n \in 1..T |-> b[n]]
      OBVIOUS
    <3> HIDE DEF b
    <3>3. b \in [1..T -> Difference]
      BY <3>1, <3>2, Zenon
    <3> QED BY <1>1, <3>3, FunctionIsSeq
  <2> HIDE DEF a, b, c
  <2>11. c = a \o b
    <3>1. Difference \subseteq Int
      BY DEF Difference
    <3>2. a \in Seq(Int) /\ b \in Seq(Int) /\ c \in Seq(Int)
      BY <2>9, <2>10, <3>1, SeqMonotonic DEF Quiet
    <3> QED BY <1>1, <2>7, <2>8, <2>9, <2>10, <3>2, JoinedAre
  <2>12. second[T] = all[R + T]
    <3>1. T \in 0..T
      BY <1>1
    <3> QED BY <2>1, <3>1
  <2> QED BY <1>1, <2>4, <2>5, <2>10, <2>11, <2>12 DEF both, T
<1>4. CASE "dc" \notin pipe.stages
  <2>1. /\ Centred(raw, tile) = [acc |-> 0, out |-> tile] /\ Level(both) = 0
        /\ CentredStream(raw) = raw /\ CentredStream(both) = both
    BY <1>4 DEF Centred, Level, CentredStream
  <2>2. Q14 \subseteq Difference
    BY DEF Q14, Difference
  <2>3. tile \in Seq(Difference)
    BY <2>2, SeqMonotonic
  <2> QED BY <1>1, <2>1, <2>3
<1> QED BY <1>3, <1>4

Turned(raw) == "flip" \in pipe.stages /\ Len(raw) % 2 = 1
Flipped(raw, tile) ==
  IF "flip" \in pipe.stages THEN Flip(Turned(raw), tile) ELSE [flip |-> Turned(raw), out |-> tile]

LEMMA EvenOdd ==
  \A a \in Nat, b \in Nat : /\ (a + b) % 2 = 0 <=> ((b % 2 = 1) <=> (a % 2 = 1))
                            /\ (a + b) % 2 = 1 <=> ~((b % 2 = 1) <=> (a % 2 = 1))
<1>1. ASSUME NEW a \in Nat, NEW b \in Nat
      PROVE  /\ (a + b) % 2 = 0 <=> ((b % 2 = 1) <=> (a % 2 = 1))
             /\ (a + b) % 2 = 1 <=> ~((b % 2 = 1) <=> (a % 2 = 1))
  OBVIOUS
<1> QED BY <1>1

LEMMA FlippedQuiet ==
  ASSUME NEW raw \in Seq(Q14)
  PROVE  Quiet(FlippedStream(raw)) /\ Len(FlippedStream(raw)) = Len(raw)
<1> DEFINE n == Len(raw)
           centred == CentredStream(raw)
           outs == [k \in 1..n |-> IF "flip" \in pipe.stages /\ k % 2 = 0 THEN -centred[k]
                                  ELSE centred[k]]
<1>1. FlippedStream(raw) = outs /\ n \in Nat
  <2>1. Len(centred) = n
    BY CentredQuiet
  <2> HIDE DEF centred, n
  <2> QED BY <2>1 DEF FlippedStream, centred, n
<1>2. Quiet(centred) /\ Len(centred) = n
  BY CentredQuiet
<1> HIDE DEF centred, n
<1>3. ASSUME NEW k \in 1..n PROVE outs[k] \in Int /\ -Loudest <= outs[k] /\ outs[k] <= Loudest
  <2>1. centred[k] \in Int /\ -Loudest <= centred[k] /\ centred[k] <= Loudest
    BY <1>2 DEF Quiet, Below
  <2>2. Loudest \in Nat
    BY LoudestNumber
  <2>3. outs[k] = centred[k] \/ outs[k] = -centred[k]
    OBVIOUS
  <2> HIDE DEF outs
  <2> QED BY <2>1, <2>2, <2>3
<1>4. outs = [k \in 1..n |-> outs[k]]
  OBVIOUS
<1> HIDE DEF outs
<1>5. outs \in [1..n -> Int]
  BY <1>3, <1>4, Zenon
<1>6. outs \in Seq(Int) /\ Len(outs) = n
  BY <1>1, <1>5, IntFunction
<1> QED BY <1>1, <1>3, <1>6 DEF Quiet, Below, n

\* Every second sample of the stream is negated, wherever a tile begins.
LEMMA FlippedJoins ==
  ASSUME NEW raw \in Seq(Q14), NEW tile \in Seq(Q14)
  PROVE  /\ Flipped(raw, Centred(raw, tile).out).flip = Turned(raw \o tile)
         /\ Flipped(raw, Centred(raw, tile).out).out \in Seq(Int)
         /\ Len(Flipped(raw, Centred(raw, tile).out).out) = Len(tile)
         /\ FlippedStream(raw \o tile)
            = FlippedStream(raw) \o Flipped(raw, Centred(raw, tile).out).out
<1> DEFINE R == Len(raw)
           T == Len(tile)
           both == raw \o tile
           first == CentredStream(raw)
           second == Centred(raw, tile).out
           all == CentredStream(both)
           a == FlippedStream(raw)
           b == Flipped(raw, second)
           c == FlippedStream(both)
<1>1. both \in Seq(Q14) /\ Len(both) = R + T /\ R \in Nat /\ T \in Nat
  BY ConcatProperties
<1>2. second \in Seq(Difference) /\ Len(second) = T /\ all = first \o second
  BY CentredJoins
<1>3. /\ first \in Seq(Int) /\ Len(first) = R /\ all \in Seq(Int) /\ Len(all) = R + T
  BY <1>1, CentredQuiet DEF Quiet
<1>4. /\ a \in Seq(Int) /\ Len(a) = R /\ c \in Seq(Int) /\ Len(c) = R + T
  BY <1>1, FlippedQuiet DEF Quiet
<1> HIDE DEF first, second, all
<1>5. /\ \A n \in 1..R : all[n] = first[n]
      /\ \A n \in 1..T : all[R + n] = second[n] /\ second[n] \in Difference
  <2>1. Difference \subseteq Int
    BY DEF Difference
  <2>2. second \in Seq(Int)
    BY <1>2, <2>1, SeqMonotonic
  <2>3. /\ Len(first \o second) = R + T
        /\ \A n \in 1..(R + T) : (first \o second)[n] = IF n <= R THEN first[n] ELSE second[n - R]
    BY <1>2, <1>3, <2>2, ConcatProperties
  <2>4. ASSUME NEW n \in 1..R PROVE all[n] = first[n]
    <3>1. n \in 1..(R + T) /\ n <= R
      BY <1>1
    <3> QED BY <1>2, <2>3, <3>1
  <2>5. ASSUME NEW n \in 1..T PROVE all[R + n] = second[n] /\ second[n] \in Difference
    <3>1. R + n \in 1..(R + T) /\ ~(R + n <= R) /\ (R + n) - R = n
      BY <1>1
    <3>2. second[n] \in Difference
      BY <1>2
    <3> QED BY <1>2, <2>3, <3>1, <3>2
  <2> QED BY <2>4, <2>5
<1>6. /\ a = [n \in 1..R |-> IF "flip" \in pipe.stages /\ n % 2 = 0 THEN -first[n] ELSE first[n]]
      /\ c = [n \in 1..(R + T) |-> IF "flip" \in pipe.stages /\ n % 2 = 0 THEN -all[n] ELSE all[n]]
  <2>1. Len(both) = R + T
    BY <1>1
  <2> HIDE DEF both
  <2> QED BY <2>1 DEF FlippedStream, first, all
<1>7. CASE "flip" \in pipe.stages
  <2>1. b = Flip(Turned(raw), second)
    BY <1>7 DEF Flipped
  <2>2. Turned(raw) = (R % 2 = 1) /\ Turned(both) = ((R + T) % 2 = 1)
    BY <1>1, <1>7 DEF Turned
  <2>3. /\ b.flip = IF T % 2 = 1 THEN ~Turned(raw) ELSE Turned(raw)
        /\ b.out = [n \in 1..T |-> IF (n % 2 = 1) = Turned(raw) THEN Int16(-second[n]) ELSE second[n]]
    BY <1>2, <2>1 DEF Flip
  <2> HIDE DEF a, b, c, both, R, T
  <2>4. b.flip = Turned(both)
    <3>1. (R + T) % 2 = 1 <=> ~((T % 2 = 1) <=> (R % 2 = 1))
      BY <1>1, EvenOdd
    <3> QED BY <2>2, <2>3, <3>1
  <2>5. ASSUME NEW n \in 1..T
        PROVE  b.out[n] = (IF (n % 2 = 1) = (R % 2 = 1) THEN -second[n] ELSE second[n]) /\ b.out[n] \in Int
    <3>1. second[n] \in Difference
      BY <1>5
    <3>2. Int16(-second[n]) = -second[n]
      <4> DEFINE x == -second[n]
      <4>1. x \in Difference
        BY <3>1, DifferenceFits
      <4> HIDE DEF x
      <4>2. Int16(x) = x
        BY <4>1, DifferenceFits
      <4> QED BY <4>2 DEF x
    <3>3. second[n] \in Int
      BY <3>1 DEF Difference
    <3> QED BY <2>2, <2>3, <3>2, <3>3
  <2>6. b.out \in Seq(Int) /\ Len(b.out) = T
    <3> DEFINE p == b.out
    <3>1. (\A n \in 1..T : p[n] \in Int) /\ p = [n \in 1..T |-> p[n]]
      BY <2>3, <2>5
    <3> HIDE DEF p
    <3>2. p \in [1..T -> Int]
      BY <3>1, Zenon
    <3>3. p \in Seq(Int) /\ Len(p) = T
      BY <1>1, <3>2, IntFunction
    <3> QED BY <3>3 DEF p
  <2>7. \A n \in 1..R : c[n] = a[n]
    <3>1. ASSUME NEW n \in 1..R PROVE c[n] = a[n]
      <4>1. n \in 1..(R + T)
        BY <1>1
      <4> QED BY <1>5, <1>6, <4>1
    <3> QED BY <3>1
  <2>8. \A n \in 1..T : c[R + n] = b.out[n]
    <3>1. ASSUME NEW n \in 1..T PROVE c[R + n] = b.out[n]
      <4>1. R + n \in 1..(R + T) /\ n \in Nat
        BY <1>1
      <4>2. (R + n) % 2 = 0 <=> ((n % 2 = 1) <=> (R % 2 = 1))
        BY <1>1, <4>1, EvenOdd
      <4>3. c[R + n] = IF (R + n) % 2 = 0 THEN -all[R + n] ELSE all[R + n]
        BY <1>6, <1>7, <4>1
      <4> QED BY <1>5, <2>5, <4>2, <4>3
    <3> QED BY <3>1
  <2>9. c = a \o b.out
    BY <1>4, <2>6, <2>7, <2>8, JoinedAre
  <2> QED BY <2>4, <2>6, <2>9 DEF b, c, a, both, T, second
<1>8. CASE "flip" \notin pipe.stages
  <2>1. b = [flip |-> FALSE, out |-> second] /\ Turned(both) = FALSE
    BY <1>8 DEF Flipped, Turned
  <2>2. a = first /\ c = all
    <3> HIDE DEF a, c
    <3>1. a = [n \in 1..R |-> first[n]] /\ c = [n \in 1..(R + T) |-> all[n]]
      BY <1>6, <1>8
    <3> QED BY <1>3, <1>4, <3>1
  <2>3. Difference \subseteq Int
    BY DEF Difference
  <2>4. second \in Seq(Int)
    BY <1>2, <2>3, SeqMonotonic
  <2>5. b.flip = Turned(both) /\ b.out = second
    <3> HIDE DEF b
    <3> QED BY <2>1
  <2>6. c = a \o b.out /\ b.out \in Seq(Int) /\ Len(b.out) = T
    BY <1>2, <2>2, <2>4, <2>5
  <2> HIDE DEF a, b, c, both, T
  <2> QED BY <2>5, <2>6 DEF b, c, a, both, T, second
<1> QED BY <1>7, <1>8

-----------------------------------------------------------------------------
(* The filter, tile by tile *)

GoesOn(r, taps, s, t, R, size) ==
  /\ r.history = Slice(s \o t, R + Len(t), R + Len(t) + size)
  /\ r.out \in Seq(Int) /\ Len(r.out) = Len(t)
  /\ \A n \in 1..Len(t) : r.out[n] = FirAt(taps, s \o t, R + n)
  /\ \A n \in 1..R : FirAt(taps, s \o t, n) = FirAt(taps, s, n)

\* What the filter makes of the tail of a stream and of what follows is what it
\* makes of the whole.
LEMMA FilterGoesOn ==
  ASSUME NEW taps \in Seq(Int), NEW s \in Seq(Int), NEW t \in Seq(Int), NEW R \in Nat,
         NEW size, Reaches(taps, size), Len(s) = R + size
  PROVE  GoesOn(Fir(taps, Slice(s, R, R + size), t), taps, s, t, R, size)
<1> DEFINE T == Len(t)
           w == s \o t
           h == Slice(s, R, R + size)
           work == h \o t
           r == Fir(taps, h, t)
<1>1. /\ T \in Nat /\ size \in Nat /\ Len(taps) \in Nat /\ Len(taps) - 1 <= size
      /\ w \in Seq(Int) /\ Len(w) = R + size + T /\ \A j \in 1..Len(s) : w[j] = s[j]
  <2>1. T \in Nat /\ size \in Nat /\ Len(taps) \in Nat /\ Len(taps) - 1 <= size /\ Len(s) \in Nat
    BY DEF Reaches
  <2>2. /\ w \in Seq(Int) /\ Len(w) = Len(s) + T
        /\ \A j \in 1..(Len(s) + T) : w[j] = IF j <= Len(s) THEN s[j] ELSE t[j - Len(s)]
    BY ConcatProperties
  <2> HIDE DEF w, T
  <2>3. ASSUME NEW j \in 1..Len(s) PROVE w[j] = s[j]
    <3>1. j \in 1..(Len(s) + T) /\ j <= Len(s)
      BY <2>1
    <3> QED BY <2>2, <3>1
  <2> QED BY <2>1, <2>2, <2>3
<1>2. h \in Seq(Int) /\ Len(h) = size
  <2>1. R + size \in Nat /\ R <= R + size /\ R + size <= Len(s) /\ (R + size) - R = size
    BY <1>1
  <2>2. IsSlice(h, s, R, R + size)
    BY <2>1, SliceIs
  <2> QED BY <2>1, <2>2 DEF IsSlice
<1>3. work = Slice(w, R, R + size + T) /\ work \in Seq(Int) /\ Len(work) = size + T
  <2>1. Slice(w, R, R + size) = h
    <3>1. R + size \in Nat /\ R <= R + size /\ R + size <= Len(s)
      BY <1>1
    <3> QED BY <3>1, SliceBefore
  <2>2. Slice(w, R + size, R + size + T) = t
    <3>1. Slice(w, Len(s) + 0, Len(s) + T) = Slice(t, 0, T)
      BY <1>1, SliceBehind
    <3>2. Slice(t, 0, T) = t
      <4>1. IsSlice(Slice(t, 0, T), t, 0, T)
        BY <1>1, SliceIs
      <4>2. Slice(t, 0, T) \in Seq(Int) /\ Len(Slice(t, 0, T)) = Len(t)
            /\ \A j \in 1..Len(t) : Slice(t, 0, T)[j] = t[j]
        BY <1>1, <4>1 DEF IsSlice
      <4> QED BY <4>2, SeqEqual
    <3>3. Len(s) + 0 = R + size
      BY <1>1
    <3> QED BY <3>1, <3>2, <3>3
  <2>3. R + size \in Nat /\ R + size + T \in Nat /\ R <= R + size /\ R + size <= R + size + T
        /\ R + size + T <= Len(w)
    BY <1>1
  <2> DEFINE b == R + size
             c == R + size + T
  <2>4. b \in Nat /\ c \in Nat /\ R <= b /\ b <= c /\ c <= Len(w) /\ w \in Seq(Int)
    BY <1>1, <2>3
  <2>5. work \in Seq(Int) /\ Len(work) = size + T
    <3> HIDE DEF h
    <3>1. h \o t \in Seq(Int) /\ Len(h \o t) = Len(h) + Len(t)
      BY <1>2, ConcatProperties
    <3> QED BY <1>2, <3>1
  <2> HIDE DEF w, T, b, c, h, work
  <2>6. Slice(w, R, b) \o Slice(w, b, c) = Slice(w, R, c)
    BY <2>4, SlicesMeet, Zenon
  <2> QED BY <2>1, <2>2, <2>5, <2>6 DEF b, c, work
<1> HIDE DEF h, w
<1>4. r = Done(taps, work, size, T)
  BY <1>2, FirIs
<1>5. r.history = Slice(work, T, T + size) /\ r.out = [i \in 1..T |-> FirAt(taps, work, i)]
  BY <1>4 DEF Done
<1>6. r.out \in Seq(Int) /\ Len(r.out) = T
  <2> HIDE DEF r, work
  <2>1. T + size <= Len(work)
    BY <1>1, <1>3
  <2> QED BY <1>1, <1>3, <1>4, <2>1, DoneTyped, SMTT(30)
<1> HIDE DEF r, work, T
<1>7. Slice(work, T, T + size) = Slice(w, R + T, R + T + size)
  <2>1. R + size + T \in Nat /\ R <= R + size + T /\ R + size + T <= Len(w)
        /\ T + size \in Nat /\ T <= T + size /\ T + size <= (R + size + T) - R
        /\ R + (T + size) = R + T + size
    BY <1>1
  <2> DEFINE c == R + size + T
             e == T + size
  <2>2. c \in Nat /\ R <= c /\ c <= Len(w) /\ e \in Nat /\ T \in Nat /\ T <= e /\ e <= c - R
        /\ w \in Seq(Int) /\ R \in Nat
    BY <1>1, <2>1
  <2> HIDE DEF c, e
  <2>3. Slice(Slice(w, R, c), T, e) = Slice(w, R + T, R + e)
    BY <2>2, SliceOfSlice
  <2> QED BY <1>3, <2>1, <2>3 DEF c, e
<1>8. ASSUME NEW n \in 1..T PROVE r.out[n] = FirAt(taps, w, R + n)
  <2>1. r.out[n] = FirAt(taps, work, n)
    BY <1>5
  <2>2. ASSUME NEW k \in 1..Len(taps) PROVE work[n + k - 1] = w[(R + n) + k - 1]
    <3>1. IsSlice(Slice(w, R, R + size + T), w, R, R + size + T)
      <4>1. R + size + T \in Nat /\ R <= R + size + T /\ R + size + T <= Len(w)
        BY <1>1, SMTT(30)
      <4> QED BY <1>1, <4>1, SliceIs
    <3>2. n + k - 1 \in 1..((R + size + T) - R) /\ R + (n + k - 1) = (R + n) + k - 1
      BY <1>1
    <3> QED BY <1>3, <3>1, <3>2 DEF IsSlice
  <2>3. SameUnder(taps, work, n, w, R + n)
    BY <2>2 DEF SameUnder
  <2> QED BY <2>1, <2>3, FirAtMoved
<1>9. ASSUME NEW n \in 1..R PROVE FirAt(taps, w, n) = FirAt(taps, s, n)
  <2>1. ASSUME NEW k \in 1..Len(taps) PROVE w[n + k - 1] = s[n + k - 1]
    <3>1. n + k - 1 \in 1..Len(s)
      BY <1>1, SMTT(30)
    <3> QED BY <1>1, <3>1
  <2>2. SameUnder(taps, w, n, s, n)
    BY <2>1 DEF SameUnder
  <2> QED BY <2>2, FirAtMoved
<1> QED BY <1>5, <1>6, <1>7, <1>8, <1>9 DEF r, h, w, T, GoesOn

LEMMA BitCeilReaches ==
  ASSUME NEW n \in Nat, 1 <= n, n <= 256
  PROVE  BitCeil(n) \in Nat /\ n <= BitCeil(n)
<1> DEFINE IsCeil(p) == p >= n /\ (p = 1 \/ p \div 2 < n)
<1>1. \E p \in {1, 2, 4, 8, 16, 32, 64, 128, 256} : IsCeil(p)
  OBVIOUS
<1>2. BitCeil(n) \in {1, 2, 4, 8, 16, 32, 64, 128, 256} /\ IsCeil(BitCeil(n))
  BY <1>1, Zenon DEF BitCeil
<1> QED BY <1>2

\* A filter that may be installed has taps, and a history that reaches back to
\* all of them.
LEMMA TapsReach ==
  ASSUME NEW taps \in InstalledTaps
  PROVE  /\ taps \in Seq(Int) /\ Len(taps) \in Nat /\ 1 <= Len(taps)
         /\ Reaches(taps, HistorySize(taps)) /\ Magnitude(taps) <= MaxMagnitude
         /\ Silence(HistorySize(taps)) \in Seq(Int)
         /\ Len(Silence(HistorySize(taps))) = HistorySize(taps)
         /\ \A j \in 1..HistorySize(taps) : Silence(HistorySize(taps))[j] = 0
<1>1. taps \in Seq(Q15) /\ Len(taps) \in 1..MaxNumTaps /\ Magnitude(taps) <= MaxMagnitude
  BY DEF InstalledTaps
<1>2. Len(taps) \in Nat /\ 1 <= Len(taps) /\ Len(taps) <= 256
  <2>1. MaxNumTaps \in Nat /\ MaxNumTaps <= 256
    BY DEF MaxNumTaps
  <2> QED BY <1>1, <2>1
<1>3. taps \in Seq(Int)
  <2>1. Q15 \subseteq Int
    BY DEF Q15
  <2> QED BY <1>1, <2>1, SeqMonotonic
<1>4. BitCeil(Len(taps)) \in Nat /\ Len(taps) <= BitCeil(Len(taps))
  BY <1>2, BitCeilReaches
<1>5. HistorySize(taps) \in Nat /\ Reaches(taps, HistorySize(taps))
  BY <1>2, <1>4 DEF HistorySize, Reaches
<1> DEFINE n == HistorySize(taps)
           f == [i \in 1..n |-> 0]
<1>6. n \in Nat /\ Silence(n) = f
  BY <1>5 DEF Silence
<1> HIDE DEF n
<1>7. f \in [1..n -> Int] /\ \A j \in 1..n : f[j] = 0
  OBVIOUS
<1> HIDE DEF f
<1>8. f \in Seq(Int) /\ Len(f) = n
  BY <1>6, <1>7, IntFunction
<1> QED BY <1>1, <1>2, <1>3, <1>5, <1>6, <1>7, <1>8 DEF n

\* What a branch carries after a stream.
StateAfter(raw, taps) ==
  [acc |-> Level(raw), flip |-> Turned(raw),
   history |-> IF Filters
               THEN Slice(FilterInput(raw, taps), Len(raw), Len(raw) + HistorySize(taps))
               ELSE Silence(HistorySize(taps))]

LEMMA FilterInputQuiet ==
  ASSUME NEW raw \in Seq(Q14), NEW taps \in InstalledTaps
  PROVE  /\ Quiet(FilterInput(raw, taps))
         /\ Len(FilterInput(raw, taps)) = Len(raw) + HistorySize(taps)
<1> DEFINE H == HistorySize(taps)
           z == Silence(H)
           s == FlippedStream(raw)
           all == FilterInput(raw, taps)
<1>1. H \in Nat /\ z \in Seq(Int) /\ Len(z) = H /\ \A j \in 1..H : z[j] = 0
  BY TapsReach DEF Reaches
<1>2. Quiet(s) /\ Len(s) = Len(raw) /\ Len(raw) \in Nat
  BY FlippedQuiet
<1>3. all = z \o s
  BY DEF FilterInput
<1> HIDE DEF H, z, s, all
<1>4. s \in Seq(Int) /\ \A j \in 1..Len(s) : -Loudest <= s[j] /\ s[j] <= Loudest
  BY <1>2 DEF Quiet, Below
<1>5. /\ all \in Seq(Int) /\ Len(all) = H + Len(s)
      /\ \A j \in 1..(H + Len(s)) : all[j] = IF j <= H THEN z[j] ELSE s[j - H]
  BY <1>1, <1>3, <1>4, ConcatProperties
<1>6. ASSUME NEW j \in 1..Len(all) PROVE -Loudest <= all[j] /\ all[j] <= Loudest
  <2>1. Loudest \in Nat
    BY LoudestNumber
  <2>2. CASE j <= H
    <3>1. j \in 1..H /\ all[j] = z[j]
      BY <1>1, <1>5, <2>2
    <3> QED BY <1>1, <2>1, <3>1
  <2>3. CASE ~(j <= H)
    <3>1. j - H \in 1..Len(s) /\ all[j] = s[j - H]
      BY <1>1, <1>2, <1>5, <2>3
    <3> QED BY <1>4, <3>1
  <2> QED BY <2>2, <2>3
<1> QED BY <1>1, <1>2, <1>5, <1>6 DEF Quiet, Below, all, H

LEMMA FilteredTyped ==
  ASSUME NEW raw \in Seq(Q14), NEW taps \in InstalledTaps
  PROVE  FilteredStream(raw, taps) \in Seq(Int) /\ Len(FilteredStream(raw, taps)) = Len(raw)
<1> DEFINE n == Len(raw)
           s == FilterInput(raw, taps)
           f == [i \in 1..n |-> FirAt(taps, s, i)]
<1>1. CASE ~Filters
  <2>1. FilteredStream(raw, taps) = FlippedStream(raw)
    BY <1>1 DEF FilteredStream
  <2> QED BY <2>1, FlippedQuiet DEF Quiet
<1>2. CASE Filters
  <2>1. FilteredStream(raw, taps) = f /\ n \in Nat
    BY <1>2 DEF FilteredStream, FirAt
  <2>2. taps \in Seq(Int) /\ Reaches(taps, HistorySize(taps)) /\ Len(taps) \in Nat
    BY TapsReach
  <2>3. s \in Seq(Int) /\ Len(s) = n + HistorySize(taps)
    BY FilterInputQuiet DEF Quiet
  <2> HIDE DEF s, n
  <2>4. ASSUME NEW i \in 1..n PROVE f[i] \in Int
    <3>1. Covers(taps, s, i)
      BY <2>1, <2>2, <2>3 DEF Covers, Reaches
    <3>2. FirAt(taps, s, i) \in Int
      BY <2>2, <2>3, <3>1, FirAtInt
    <3> QED BY <3>2
  <2>5. f = [i \in 1..n |-> f[i]]
    OBVIOUS
  <2> HIDE DEF f
  <2>6. f \in [1..n -> Int]
    BY <2>4, <2>5, Zenon
  <2>7. f \in Seq(Int) /\ Len(f) = n
    BY <2>1, <2>6, IntFunction
  <2> QED BY <2>1, <2>7 DEF n
<1> QED BY <1>1, <1>2

\* A tile on: the branch carries what it would after the whole of the stream,
\* and what it put out is what was missing of it.
LEMMA BranchGoesOn ==
  ASSUME NEW raw \in Seq(Q14), NEW tile \in Seq(Q14), NEW taps \in InstalledTaps
  PROVE  /\ raw \o tile \in Seq(Q14)
         /\ Branch(StateAfter(raw, taps), taps, tile).state = StateAfter(raw \o tile, taps)
         /\ FilteredStream(raw \o tile, taps)
            = FilteredStream(raw, taps) \o Branch(StateAfter(raw, taps), taps, tile).out
<1> DEFINE R == Len(raw)
           T == Len(tile)
           H == HistorySize(taps)
           both == raw \o tile
           state == StateAfter(raw, taps)
           centred == Centred(raw, tile)
           flipped == Flipped(raw, centred.out)
           filtered == IF Filters THEN Fir(taps, state.history, flipped.out)
                       ELSE [history |-> state.history, out |-> flipped.out]
           branch == Branch(state, taps, tile)
           s == FilterInput(raw, taps)
           all == FilterInput(both, taps)
<1>1. /\ both \in Seq(Q14) /\ Len(both) = R + T /\ R \in Nat /\ T \in Nat
  BY ConcatProperties
<1>2. /\ state.acc = Level(raw) /\ state.flip = Turned(raw)
      /\ state.history = IF Filters THEN Slice(s, R, R + H) ELSE Silence(H)
  BY DEF StateAfter
<1>3. branch = [state |-> [acc |-> centred.acc, flip |-> flipped.flip, history |-> filtered.history],
                out |-> filtered.out]
  <2> HIDE DEF state
  <2> QED BY <1>2 DEF Branch, Centred, Flipped
<1>4. /\ centred.acc = Level(both) /\ flipped.flip = Turned(both)
      /\ flipped.out \in Seq(Int) /\ Len(flipped.out) = T
      /\ FlippedStream(both) = FlippedStream(raw) \o flipped.out
  BY CentredJoins, FlippedJoins
<1>5. /\ taps \in Seq(Int) /\ Reaches(taps, H) /\ H \in Nat /\ Silence(H) \in Seq(Int)
  BY TapsReach DEF Reaches
<1>6. /\ s \in Seq(Int) /\ Len(s) = R + H /\ all \in Seq(Int)
  BY <1>1, FilterInputQuiet DEF Quiet
<1>7. all = s \o flipped.out
  <2>1. FlippedStream(raw) \in Seq(Int)
    BY FlippedQuiet DEF Quiet
  <2>2. all = Silence(H) \o FlippedStream(both) /\ s = Silence(H) \o FlippedStream(raw)
    BY DEF FilterInput
  <2> HIDE DEF flipped, s, all, both, H
  <2>3. Silence(H) \o (FlippedStream(raw) \o flipped.out) = (Silence(H) \o FlippedStream(raw)) \o flipped.out
    <3>1. Silence(H) \in Seq(Int) /\ FlippedStream(raw) \in Seq(Int) /\ flipped.out \in Seq(Int)
      BY <1>4, <1>5, <2>1
    <3> DEFINE p == Silence(H)
               q == FlippedStream(raw)
               r == flipped.out
    <3>2. p \in Seq(Int) /\ q \in Seq(Int) /\ r \in Seq(Int)
      BY <3>1
    <3> HIDE DEF p, q, r
    <3>3. (p \o q) \o r = p \o (q \o r)
      BY <3>2, ConcatAssociative, SMTT(30)
    <3> QED BY <3>3 DEF p, q, r
  <2> QED BY <1>4, <2>2, <2>3
<1>8. /\ FilteredStream(raw, taps) \in Seq(Int) /\ Len(FilteredStream(raw, taps)) = R
      /\ FilteredStream(both, taps) \in Seq(Int) /\ Len(FilteredStream(both, taps)) = R + T
  BY <1>1, FilteredTyped
<1>9. CASE Filters
  <2> DEFINE a == FilteredStream(raw, taps)
             c == FilteredStream(both, taps)
  <2>1. filtered = Fir(taps, Slice(s, R, R + H), flipped.out)
    BY <1>2, <1>9
  <2>2. /\ \A n \in 1..R : a[n] = FirAt(taps, s, n)
        /\ \A n \in 1..(R + T) : c[n] = FirAt(taps, all, n)
    <3>1. a = [n \in 1..R |-> FirAt(taps, s, n)] /\ c = [n \in 1..Len(both) |-> FirAt(taps, all, n)]
      BY <1>9 DEF FilteredStream, FirAt
    <3> HIDE DEF a, c, both
    <3> QED BY <1>1, <3>1
  <2> HIDE DEF filtered, flipped, s, all, H
  <2> DEFINE t == flipped.out
  <2>3. t \in Seq(Int) /\ Len(t) = T /\ all = s \o t
    BY <1>4, <1>7
  <2> HIDE DEF t, R, T, both, a, c
  <2>4. /\ filtered.history = Slice(all, R + T, R + T + H)
        /\ filtered.out \in Seq(Int) /\ Len(filtered.out) = T
        /\ \A n \in 1..T : filtered.out[n] = FirAt(taps, all, R + n)
        /\ \A n \in 1..R : FirAt(taps, all, n) = FirAt(taps, s, n)
    <3>1. filtered = Fir(taps, Slice(s, R, R + H), t)
      BY <2>1 DEF t
    <3>2. GoesOn(Fir(taps, Slice(s, R, R + H), t), taps, s, t, R, H)
      BY <1>1, <1>5, <1>6, <2>3, FilterGoesOn
    <3> QED BY <2>3, <3>1, <3>2 DEF GoesOn
  <2>5. c = a \o filtered.out
    <3>1. ASSUME NEW n \in 1..R PROVE c[n] = a[n]
      <4>1. n \in 1..(R + T)
        BY <1>1
      <4> QED BY <2>2, <2>4, <4>1
    <3>2. ASSUME NEW n \in 1..T PROVE c[R + n] = filtered.out[n]
      <4>1. R + n \in 1..(R + T)
        BY <1>1
      <4> QED BY <2>2, <2>4, <4>1
    <3> DEFINE o == filtered.out
    <3>3. o \in Seq(Int) /\ Len(o) = T /\ \A n \in 1..T : c[R + n] = o[n]
      BY <2>4, <3>2
    <3>4. a \in Seq(Int) /\ Len(a) = R /\ c \in Seq(Int) /\ Len(c) = R + T
      BY <1>8 DEF a, c
    <3> HIDE DEF o
    <3>5. c = a \o o
      BY <3>1, <3>3, <3>4, JoinedAre
    <3> QED BY <3>5 DEF o
  <2>6. branch.out = filtered.out
    BY <1>3
  <2>7. branch.state = [acc |-> Level(both), flip |-> Turned(both), history |-> Slice(all, R + T, R + T + H)]
    BY <1>3, <1>4, <2>4
  <2>8. StateAfter(both, taps)
        = [acc |-> Level(both), flip |-> Turned(both), history |-> Slice(all, R + T, R + T + H)]
    BY <1>1, <1>9 DEF StateAfter, all, H
  <2> QED BY <1>1, <2>5, <2>6, <2>7, <2>8 DEF a, c, both
<1>10. CASE ~Filters
  <2>1. filtered.history = Silence(H) /\ filtered.out = flipped.out
    BY <1>2, <1>10
  <2>2. FilteredStream(raw, taps) = FlippedStream(raw) /\ FilteredStream(both, taps) = FlippedStream(both)
    BY <1>10 DEF FilteredStream
  <2>3. StateAfter(both, taps) = [acc |-> Level(both), flip |-> Turned(both), history |-> Silence(H)]
    BY <1>10 DEF StateAfter
  <2> HIDE DEF filtered, flipped, H
  <2>4. branch.out = flipped.out /\ branch.state = StateAfter(both, taps)
    BY <1>3, <1>4, <2>1, <2>3
  <2> QED BY <1>1, <1>4, <2>2, <2>4
<1> QED BY <1>9, <1>10

\* None of the three conversions wraps, and what they make is a sample.
LEMMA ConvertedFits ==
  ASSUME NEW format \in Formats, NEW v \in Int, InFormat(format, v)
  PROVE  ConvertFixed(format, v) \in Q14
<1>1. format \in {"rtlsdr", "airspy", "antsdr"}
  BY DEF Formats
<1>2. SampleOne \div 256 = 64 /\ SampleOne \div 4096 = 4 /\ SampleOne \div 2048 = 8
  BY DEF SampleOne
<1>3. CASE format = "rtlsdr"
  <2> DEFINE x == (2 * v - 255) * 64
  <2>1. x \in Int /\ -16384 <= x /\ x <= 16383 /\ ConvertFixed(format, v) = Int16(x)
    BY <1>2, <1>3 DEF InFormat, ConvertFixed
  <2> HIDE DEF x
  <2>2. Int16(x) = x
    BY <2>1, Int16Same
  <2> QED BY <2>1, <2>2, Q14Number
<1>4. CASE format = "airspy"
  <2> DEFINE x == (2 * v - 4095) * 4
  <2>1. x \in Int /\ -16384 <= x /\ x <= 16383 /\ ConvertFixed(format, v) = Int16(x)
    BY <1>2, <1>4 DEF InFormat, ConvertFixed
  <2> HIDE DEF x
  <2>2. Int16(x) = x
    BY <2>1, Int16Same
  <2> QED BY <2>1, <2>2, Q14Number
<1>5. CASE format = "antsdr"
  <2> DEFINE x == v * 8
  <2>1. x \in Int /\ -16384 <= x /\ x <= 16383 /\ ConvertFixed(format, v) = Int16(x)
    BY <1>2, <1>5 DEF InFormat, ConvertFixed
  <2> HIDE DEF x
  <2>2. Int16(x) = x
    BY <2>1, Int16Same
  <2> QED BY <2>1, <2>2, Q14Number
<1> QED BY <1>1, <1>3, <1>4, <1>5

\* The widths: every sum on the way is bounded by the magnitude of the taps
\* times the loudest of samples, the sums of pairs too.
LEMMA WidthsAreKept ==
  ASSUME NEW raw \in Seq(Q14), NEW taps \in InstalledTaps
  PROVE  WidthsKept(raw, taps)
<1> DEFINE R == Len(raw)
           stream == FilterInput(raw, taps)
           room == Magnitude(taps) * Loudest
           Within(terms) == room <= 2147467263 => \A k \in 0..Len(terms) : Holds32(Sums(terms)[k])
           Right(terms) == room < 1073725440 => Rounded(Total(terms)) = (Total(terms) + 16384) \div 32768
<1>1. /\ taps \in Seq(Int) /\ Len(taps) \in Nat /\ Reaches(taps, HistorySize(taps))
      /\ stream \in Seq(Int) /\ Len(stream) = R + HistorySize(taps) /\ Below(stream, Loudest) /\ R \in Nat
  BY TapsReach, FilterInputQuiet DEF Quiet
<1>2. Loudest \in Nat
  BY LoudestNumber
<1> HIDE DEF stream, R, room
<1>3. ASSUME NEW sum, Inside(sum, room), room \in Nat, room <= 2147467263 PROVE Holds32(sum)
  BY <1>3 DEF Inside, Holds32
<1>4. ASSUME NEW n \in 1..R, NEW terms, terms = TapTerms(taps, stream, n)
      PROVE  /\ Within(terms) /\ Right(terms)
             /\ IsSymmetric(taps) => Within(PairTerms(taps, stream, n))
  <2>1. Covers(taps, stream, n)
    BY <1>1 DEF Covers, Reaches
  <2>2. room \in Nat /\ \A k \in 0..Len(taps) : Inside(Sums(terms)[k], room)
    BY <1>1, <1>2, <1>4, <2>1, TapSumsInside DEF room
  <2>3. terms \in Seq(Int) /\ Len(terms) = Len(taps)
    BY <1>1, <1>4, <2>1, TermsBounded
  <2>4. Within(terms)
    BY <1>3, <2>2, <2>3
  <2>5. IsSymmetric(taps) => Within(PairTerms(taps, stream, n))
    <3>1. HAVE IsSymmetric(taps)
    <3>2. \A k \in 0..Len(PairTerms(taps, stream, n)) : Inside(Sums(PairTerms(taps, stream, n))[k], room)
      BY <1>1, <1>2, <2>1, <3>1, PairSumsInside DEF room
    <3> QED BY <1>3, <2>2, <3>2
  <2>6. Right(terms)
    <3>1. HAVE room < 1073725440
    <3> DEFINE total == Total(terms)
               x == (total + 16384) \div 32768
    <3>2. Inside(total, room)
      <4>1. Len(taps) \in 0..Len(taps)
        BY <1>1
      <4> QED BY <2>2, <2>3, <4>1 DEF Total
    <3> HIDE DEF total
    <3>3. x \in Int /\ -32768 <= x /\ x <= 32767
      BY <2>2, <3>1, <3>2 DEF Inside
    <3>4. Rounded(total) = Int16(x)
      BY DEF Rounded
    <3> HIDE DEF x
    <3>5. Rounded(total) = x
      BY <3>3, <3>4, Int16Same
    <3> QED BY <3>5 DEF x, total
  <2> QED BY <2>4, <2>5, <2>6
<1>5. \A n \in 1..R : LET terms == TapTerms(taps, stream, n)
                      IN  /\ Within(terms) /\ (IsSymmetric(taps) => Within(PairTerms(taps, stream, n)))
                          /\ Right(terms)
  BY <1>4
<1> QED BY <1>5 DEF WidthsKept, stream, R, room

\* Alignment: where a branch of three taps more and one of two more have the
\* same history, half a sample lies between them, and no tap is cut off.
LEMMA HalfApart ==
  ASSUME NEW base \in Seq(Int), NEW length \in Nat, length = Len(base), 1 <= length, length <= 64
  PROVE  LET aligned == MakeAlignedIQTaps(base, 6)
             I == SetBranch(aligned[1])
             Q == SetBranch(aligned[2])
         IN  /\ Len(I) = Len(aligned[1]) /\ Len(Q) = Len(aligned[2])
             /\ aligned = <<base, base>> \/ TwiceDelay(Q) - TwiceDelay(I) = 1
             /\ TwiceDelay(Q) - TwiceDelay(I) \in {0, 1}
<1> DEFINE aligned == MakeAlignedIQTaps(base, 6)
           I == SetBranch(aligned[1])
           Q == SetBranch(aligned[2])
<1>1. ASSUME NEW source, NEW n \in Nat, n = Len(source), 1 <= n, n <= 68 PROVE Len(SetBranch(source)) = n
  <2>1. source # <<>>
    BY <1>1
  <2> DEFINE upto == IF n < MaxNumTaps THEN n ELSE MaxNumTaps
             f == [i \in 1..upto |-> ToQ15(source[i])]
  <2>2. upto = n
    <3>1. n <= MaxNumTaps /\ MaxNumTaps \in Nat
      BY <1>1 DEF MaxNumTaps
    <3>2. CASE n < MaxNumTaps
      BY <3>2
    <3>3. CASE n = MaxNumTaps
      BY <3>3
    <3> QED BY <1>1, <3>1, <3>2, <3>3
  <2>3. SetBranch(source) = f
    BY <1>1, <2>1 DEF SetBranch
  <2> HIDE DEF upto
  <2>4. DOMAIN f = 1..n /\ f = [i \in 1..n |-> f[i]]
    BY <2>2
  <2> HIDE DEF f
  <2>5. Len(f) = n
    BY <1>1, <2>4
  <2> QED BY <2>3, <2>5
<1>2. ASSUME NEW taps, NEW n \in Nat, n = Len(taps), 1 <= n, n <= 256
      PROVE  TwiceDelay(taps) = 2 * (BitCeil(n) - 1) - (n - 1) /\ BitCeil(n) \in Nat
  BY <1>2, BitCeilReaches DEF TwiceDelay, HistorySize
<1>3. CASE IqAlignmentBucketsAgree(length)
  <2> DEFINE edge == IqAlignmentEdgeTap(6)
             i == Convolved(base, <<edge, 500 - edge, 500 - edge, edge>>)
             q == <<0>> \o base \o <<0>>
  <2>1. aligned = <<i, q>>
    BY <1>3 DEF MakeAlignedIQTaps
  <2>2. Len(i) = length + 3
    <3> DEFINE delay == <<edge, 500 - edge, 500 - edge, edge>>
               m == length + 3
    <3>1. i = [k \in 1..m |-> i[k]] /\ m \in Nat
      BY DEF Convolved
    <3> HIDE DEF i, m
    <3>2. Len(i) = m
      BY <3>1
    <3> QED BY <3>2 DEF m
  <2>3. Len(q) = length + 2
    <3>1. <<0>> \in Seq(Int) /\ Len(<<0>>) = 1
      OBVIOUS
    <3>2. <<0>> \o base \in Seq(Int) /\ Len(<<0>> \o base) = 1 + length
      BY <3>1, ConcatProperties
    <3>3. Len((<<0>> \o base) \o <<0>>) = (1 + length) + 1
      BY <3>1, <3>2, ConcatProperties
    <3> QED BY <3>3
  <2> HIDE DEF i, q
  <2>4. aligned[1] = i /\ aligned[2] = q
    BY <2>1
  <2> HIDE DEF aligned
  <2>5. Len(I) = length + 3 /\ Len(Q) = length + 2
    BY <1>1, <2>2, <2>3, <2>4
  <2>6. BitCeil(length + 3) = BitCeil(length + 2)
    BY <1>3 DEF IqAlignmentBucketsAgree
  <2> HIDE DEF I, Q
  <2>7. /\ TwiceDelay(I) = 2 * (BitCeil(length + 3) - 1) - (length + 2) /\ BitCeil(length + 3) \in Nat
        /\ TwiceDelay(Q) = 2 * (BitCeil(length + 2) - 1) - (length + 1)
    BY <1>2, <2>5
  <2>8. TwiceDelay(Q) - TwiceDelay(I) = 1
    BY <2>6, <2>7
  <2> QED BY <2>2, <2>3, <2>4, <2>5, <2>8 DEF I, Q, aligned
<1>4. CASE ~IqAlignmentBucketsAgree(length)
  <2>1. aligned = <<base, base>>
    BY <1>4 DEF MakeAlignedIQTaps
  <2>2. aligned[1] = base /\ aligned[2] = base
    BY <2>1
  <2> HIDE DEF aligned
  <2>3. I = Q /\ Len(I) = length
    BY <1>1, <2>2
  <2> HIDE DEF I, Q
  <2>4. TwiceDelay(I) \in Int
    <3>1. TwiceDelay(I) = 2 * (BitCeil(length) - 1) - (length - 1) /\ BitCeil(length) \in Nat
      <4>1. length <= 256
        OBVIOUS
      <4> QED BY <1>2, <2>3, <4>1
    <3> QED BY <3>1
  <2>5. TwiceDelay(Q) - TwiceDelay(I) = 0
    BY <2>3, <2>4
  <2> QED BY <2>1, <2>2, <2>3, <2>5 DEF I, Q, aligned
<1> QED BY <1>3, <1>4

LEMMA AlwaysHalfApart == BranchesHalfApart
<1>1. ASSUME NEW length \in 1..64
      PROVE  LET base == [i \in 1..length |-> 1000 \div length]
                 aligned == MakeAlignedIQTaps(base, 6)
                 I == SetBranch(aligned[1])
                 Q == SetBranch(aligned[2])
             IN  /\ Len(I) = Len(aligned[1]) /\ Len(Q) = Len(aligned[2])
                 /\ aligned = <<base, base>> \/ TwiceDelay(Q) - TwiceDelay(I) = 1
                 /\ TwiceDelay(Q) - TwiceDelay(I) \in {0, 1}
  <2> DEFINE base == [i \in 1..length |-> 1000 \div length]
  <2>1. length \in Nat /\ 1 <= length /\ length <= 64
    OBVIOUS
  <2>2. base \in [1..length -> Int]
    BY <2>1
  <2> HIDE DEF base
  <2>3. base \in Seq(Int) /\ Len(base) = length
    BY <2>1, <2>2, IntFunction
  <2>4. LET aligned == MakeAlignedIQTaps(base, 6)
            I == SetBranch(aligned[1])
            Q == SetBranch(aligned[2])
        IN  /\ Len(I) = Len(aligned[1]) /\ Len(Q) = Len(aligned[2])
            /\ aligned = <<base, base>> \/ TwiceDelay(Q) - TwiceDelay(I) = 1
            /\ TwiceDelay(Q) - TwiceDelay(I) \in {0, 1}
    BY <2>1, <2>3, HalfApart
  <2> QED BY <2>4 DEF base
<1> QED BY <1>1 DEF BranchesHalfApart

-----------------------------------------------------------------------------
(* The two branches of the sample pipeline (IqPipeline, BranchesExact) *)

PipeSpec == InitPipe /\ [][NextPipe]_pipeVars

\* That the output is that of one stream is not inductive: the next tile also
\* needs what is carried to be the mean, the sign and the history that the
\* stream so far leaves behind.
PipeInv ==
  /\ pipe \in Pipelines /\ rawI \in Seq(Q14) /\ rawQ \in Seq(Q14)
  /\ carried = [i |-> StateAfter(rawI, pipe.tapsI), q |-> StateAfter(rawQ, pipe.tapsQ)]
  /\ FilteredAsOneStream

LEMMA PipelineTyped ==
  ASSUME pipe \in Pipelines
  PROVE  pipe.tapsI \in InstalledTaps /\ pipe.tapsQ \in InstalledTaps /\ pipe.format \in Formats
BY IqPipelineAssumption

LEMMA IdleIsStart ==
  ASSUME NEW taps \in InstalledTaps
  PROVE  Idle(taps) = StateAfter(<<>>, taps) /\ FilteredStream(<<>>, taps) = <<>>
<1> DEFINE H == HistorySize(taps)
<1>1. <<>> \in Seq(Q14) /\ Len(<<>>) = 0
  OBVIOUS
<1>2. Level(<<>>) = 0
  <2>1. Accumulators(0, <<>>)[0] = 0
    <3>1. <<>> \in Seq(Int) /\ 0 \in Int
      OBVIOUS
    <3> QED BY <3>1, AccumulatorsUnroll
  <2> QED BY <2>1 DEF Level
<1>3. Turned(<<>>) = FALSE
  <2>1. 0 % 2 # 1
    OBVIOUS
  <2> QED BY <2>1 DEF Turned
<1>4. Filters => Slice(FilterInput(<<>>, taps), 0, 0 + H) = Silence(H)
  <2> DEFINE s == FilterInput(<<>>, taps)
  <2>1. Silence(H) \in Seq(Int) /\ Len(Silence(H)) = H /\ H \in Nat
    BY TapsReach DEF Reaches
  <2>2. FlippedStream(<<>>) \in Seq(Int) /\ Len(FlippedStream(<<>>)) = 0
    BY <1>1, FlippedQuiet DEF Quiet
  <2>3. s = Silence(H) \o FlippedStream(<<>>)
    BY DEF FilterInput
  <2> HIDE DEF s, H
  <2>4. s \in Seq(Int) /\ Len(s) = H /\ \A j \in 1..H : s[j] = Silence(H)[j]
    BY <2>1, <2>2, <2>3, ConcatProperties
  <2>5. IsSlice(Slice(s, 0, H), s, 0, H)
    BY <2>1, <2>4, SliceIs
  <2>6. /\ Slice(s, 0, H) \in Seq(Int) /\ Len(Slice(s, 0, H)) = H
        /\ \A j \in 1..H : Slice(s, 0, H)[j] = Silence(H)[j]
    BY <2>1, <2>4, <2>5 DEF IsSlice
  <2>7. Slice(s, 0, H) = Silence(H)
    BY <2>1, <2>6, SeqEqual
  <2> QED BY <2>1, <2>7 DEF s
<1>5. FilteredStream(<<>>, taps) \in Seq(Int) /\ Len(FilteredStream(<<>>, taps)) = 0
  BY <1>1, FilteredTyped
<1>6. FilteredStream(<<>>, taps) = <<>>
  BY <1>5
<1> QED BY <1>1, <1>2, <1>3, <1>4, <1>6 DEF Idle, StateAfter, H

LEMMA PipeInit == InitPipe => PipeInv
<1> SUFFICES ASSUME InitPipe PROVE PipeInv
  OBVIOUS
<1>1. /\ pipe \in Pipelines /\ carried = [i |-> Idle(pipe.tapsI), q |-> Idle(pipe.tapsQ)]
      /\ rawI = <<>> /\ rawQ = <<>> /\ outI = <<>> /\ outQ = <<>>
  BY DEF InitPipe
<1>2. pipe.tapsI \in InstalledTaps /\ pipe.tapsQ \in InstalledTaps
  BY <1>1, PipelineTyped
<1>3. /\ Idle(pipe.tapsI) = StateAfter(<<>>, pipe.tapsI) /\ FilteredStream(<<>>, pipe.tapsI) = <<>>
      /\ Idle(pipe.tapsQ) = StateAfter(<<>>, pipe.tapsQ) /\ FilteredStream(<<>>, pipe.tapsQ) = <<>>
  BY <1>2, IdleIsStart
<1> QED BY <1>1, <1>3 DEF PipeInv, FilteredAsOneStream

LEMMA SamplesConverted ==
  ASSUME NEW format \in Formats, NEW n \in Nat, NEW v \in [1..n -> RawValues(format)]
  PROVE  [j \in 1..Len(v) |-> ConvertFixed(format, v[j])] \in Seq(Q14)
<1> DEFINE x == [j \in 1..n |-> ConvertFixed(format, v[j])]
<1>1. Len(v) = n
  BY FunctionIsSeq
<1>2. ASSUME NEW j \in 1..n PROVE ConvertFixed(format, v[j]) \in Q14
  <2>1. v[j] \in RawValues(format)
    OBVIOUS
  <2>2. v[j] \in Int /\ InFormat(format, v[j])
    BY <2>1, IqPipelineAssumption
  <2> QED BY <2>2, ConvertedFits
<1>3. x \in [1..n -> Q14]
  BY <1>2
<1> HIDE DEF x
<1>4. x \in Seq(Q14)
  BY <1>3, FunctionIsSeq
<1> QED BY <1>1, <1>4 DEF x

LEMMA PipeStep == PipeInv /\ [NextPipe]_pipeVars => PipeInv'
<1> SUFFICES ASSUME PipeInv, [NextPipe]_pipeVars PROVE PipeInv'
  OBVIOUS
<1> USE DEF PipeInv
<1>1. CASE NextPipe
  <2>0. PICK n \in TileSizes : \E I \in [1..n -> RawValues(pipe.format)] :
          ProcessTile(I, [j \in 1..n |-> I[n + 1 - j]])
    BY <1>1 DEF NextPipe
  <2>1. PICK I \in [1..n -> RawValues(pipe.format)] : ProcessTile(I, [j \in 1..n |-> I[n + 1 - j]])
    BY <2>0
  <2> DEFINE Q == [j \in 1..n |-> I[n + 1 - j]]
             x == [j \in 1..Len(I) |-> ConvertFixed(pipe.format, I[j])]
             y == [j \in 1..Len(Q) |-> ConvertFixed(pipe.format, Q[j])]
             branchI == Branch(carried.i, pipe.tapsI, x)
             branchQ == Branch(carried.q, pipe.tapsQ, y)
  <2>2. pipe.tapsI \in InstalledTaps /\ pipe.tapsQ \in InstalledTaps /\ pipe.format \in Formats
    BY PipelineTyped
  <2>3. n \in Nat /\ Q \in [1..n -> RawValues(pipe.format)]
    <3>1. n \in Nat
      BY IqPipelineAssumption
    <3>2. \A j \in 1..n : n + 1 - j \in 1..n
      BY <3>1
    <3> QED BY <3>1, <3>2
  <2> HIDE DEF Q
  <2>4. x \in Seq(Q14) /\ y \in Seq(Q14)
    BY <2>2, <2>3, SamplesConverted
  <2>5. /\ carried' = [i |-> branchI.state, q |-> branchQ.state]
        /\ rawI' = rawI \o x /\ rawQ' = rawQ \o y
        /\ outI' = outI \o branchI.out /\ outQ' = outQ \o branchQ.out
        /\ pipe' = pipe
    BY <2>1 DEF ProcessTile, Q
  <2> HIDE DEF x, y
  <2>6. /\ carried.i = StateAfter(rawI, pipe.tapsI) /\ carried.q = StateAfter(rawQ, pipe.tapsQ)
        /\ rawI \in Seq(Q14) /\ rawQ \in Seq(Q14)
        /\ outI = FilteredStream(rawI, pipe.tapsI) /\ outQ = FilteredStream(rawQ, pipe.tapsQ)
    BY DEF FilteredAsOneStream
  <2>7. /\ rawI \o x \in Seq(Q14) /\ branchI.state = StateAfter(rawI \o x, pipe.tapsI)
        /\ FilteredStream(rawI \o x, pipe.tapsI) = FilteredStream(rawI, pipe.tapsI) \o branchI.out
    BY <2>2, <2>4, <2>6, BranchGoesOn
  <2>8. /\ rawQ \o y \in Seq(Q14) /\ branchQ.state = StateAfter(rawQ \o y, pipe.tapsQ)
        /\ FilteredStream(rawQ \o y, pipe.tapsQ) = FilteredStream(rawQ, pipe.tapsQ) \o branchQ.out
    BY <2>2, <2>4, <2>6, BranchGoesOn
  <2> HIDE DEF branchI, branchQ
  <2>9. /\ rawI' \in Seq(Q14) /\ rawQ' \in Seq(Q14) /\ pipe' \in Pipelines
        /\ carried' = [i |-> StateAfter(rawI \o x, pipe.tapsI), q |-> StateAfter(rawQ \o y, pipe.tapsQ)]
        /\ outI' = FilteredStream(rawI \o x, pipe.tapsI) /\ outQ' = FilteredStream(rawQ \o y, pipe.tapsQ)
    BY <2>5, <2>6, <2>7, <2>8
  <2>10. /\ StateAfter(rawI, pipe.tapsI)' = StateAfter(rawI \o x, pipe.tapsI)
         /\ StateAfter(rawQ, pipe.tapsQ)' = StateAfter(rawQ \o y, pipe.tapsQ)
    BY <2>5 DEF StateAfter, Level, Turned, Filters, FilterInput, FlippedStream, CentredStream
  <2>11. /\ FilteredStream(rawI, pipe.tapsI)' = FilteredStream(rawI \o x, pipe.tapsI)
         /\ FilteredStream(rawQ, pipe.tapsQ)' = FilteredStream(rawQ \o y, pipe.tapsQ)
    BY <2>5 DEF FilteredStream, Filters, FilterInput, FlippedStream, CentredStream
  <2> QED BY <2>9, <2>10, <2>11 DEF FilteredAsOneStream
<1>2. CASE UNCHANGED pipeVars
  <2>1. /\ pipe' = pipe /\ carried' = carried /\ rawI' = rawI /\ rawQ' = rawQ
        /\ outI' = outI /\ outQ' = outQ
    BY <1>2 DEF pipeVars
  <2>2. /\ StateAfter(rawI, pipe.tapsI)' = StateAfter(rawI, pipe.tapsI)
        /\ StateAfter(rawQ, pipe.tapsQ)' = StateAfter(rawQ, pipe.tapsQ)
    BY <2>1 DEF StateAfter, Level, Turned, Filters, FilterInput, FlippedStream, CentredStream
  <2>3. /\ FilteredStream(rawI, pipe.tapsI)' = FilteredStream(rawI, pipe.tapsI)
        /\ FilteredStream(rawQ, pipe.tapsQ)' = FilteredStream(rawQ, pipe.tapsQ)
    BY <2>1 DEF FilteredStream, Filters, FilterInput, FlippedStream, CentredStream
  <2> QED BY <2>1, <2>2, <2>3 DEF FilteredAsOneStream
<1> QED BY <1>1, <1>2

\* However the stream is cut into tiles and chunks, I and Q come out as if it
\* were one, with every stage before the filter inside its int16 and the sums of
\* the filter inside the widths they are kept in, and half a sample apart or
\* together (IQPipeline.hpp:27-90, LowPassFilter.hpp:295-321, 490-592).
THEOREM BranchesStayExact == PipeSpec => []BranchesExact
<1>1. PipeInv => BranchesExact
  <2> SUFFICES ASSUME PipeInv PROVE BranchesExact
    OBVIOUS
  <2>1. pipe.tapsI \in InstalledTaps /\ pipe.tapsQ \in InstalledTaps
    BY PipelineTyped DEF PipeInv
  <2>2. WidthsKept(rawI, pipe.tapsI) /\ WidthsKept(rawQ, pipe.tapsQ)
    BY <2>1, WidthsAreKept DEF PipeInv
  <2> QED BY <2>2, AlwaysHalfApart DEF BranchesExact, PipeInv
<1> QED BY <1>1, PipeInit, PipeStep, PTL DEF PipeSpec

-----------------------------------------------------------------------------
(* What may be installed *)

\* A tap of q in 32768ths is half of one of them above t thousandths, at the most.
HalfAbove(q, t) == q \in Nat /\ t \in Nat /\ 1000 * q <= 32768 * t + 500

LEMMA ToQ15Bounded ==
  ASSUME NEW t \in Int, -1000 <= t, t <= 1000
  PROVE  ToQ15(t) \in Q15 /\ HalfAbove(Abs(ToQ15(t)), Abs(t))
<1> DEFINE q == ToQ15(t)
<1>1. Abs(t) \in Nat
  BY DEF Abs
<1>2. CASE t = 1000
  <2>1. q = 32767 /\ Abs(t) = 1000
    BY <1>2 DEF ToQ15, Abs
  <2> HIDE DEF q
  <2>2. Abs(q) = 32767
    BY <2>1 DEF Abs
  <2> QED BY <2>1, <2>2 DEF Q15, HalfAbove, q
<1>3. CASE t + 1000 = 0
  <2>1. q + 32768 = 0 /\ q \in Int
    BY <1>3 DEF ToQ15
  <2>2. Abs(t) = 1000
    BY <1>3 DEF Abs
  <2> HIDE DEF q
  <2>4. Abs(q) = 32768
    BY <2>1 DEF Abs
  <2> QED BY <2>1, <2>2, <2>4 DEF Q15, HalfAbove, q
<1>4. CASE 0 <= t /\ t < 1000
  <2> DEFINE a == 65536 * t + 1000
             d == a \div 2000
  <2>1. a \in Int /\ 0 <= a /\ a <= 65536 * 999 + 1000 /\ Abs(t) = t
    BY <1>4 DEF Abs
  <2>2. q = d
    BY <1>4 DEF ToQ15
  <2> HIDE DEF q
  <2>3. d \in Int /\ 2000 * d <= a /\ a < 2000 * d + 2000
    BY <2>1
  <2>4. 0 <= d /\ d <= 32767 /\ Abs(d) = d
    BY <2>1, <2>3 DEF Abs
  <2>5. 1000 * d <= 32768 * t + 500
    BY <2>1, <2>3
  <2> HIDE DEF d
  <2> QED BY <1>1, <2>1, <2>2, <2>3, <2>4, <2>5 DEF Q15, HalfAbove, q
<1>5. CASE -1000 < t /\ t < 0
  <2> DEFINE a == 1000 - 65536 * t
             d == a \div 2000
  <2>1. a \in Int /\ 0 <= a /\ a <= 65536 * 999 + 1000 /\ Abs(t) = -t
    BY <1>5 DEF Abs
  <2>2. q = -d
    <3>1. 1000 - 2 * (t * 32768) = a
      OBVIOUS
    <3>2. q = -((1000 - 2 * (t * 32768)) \div 2000)
      BY <1>5 DEF ToQ15
    <3> QED BY <3>1, <3>2
  <2> HIDE DEF q
  <2>3. d \in Int /\ 2000 * d <= a /\ a < 2000 * d + 2000
    BY <2>1
  <2>4. 0 <= d /\ d <= 32767 /\ Abs(-d) = d
    BY <2>1, <2>3 DEF Abs
  <2>5. 1000 * d <= 32768 * (-t) + 500
    BY <2>1, <2>3
  <2> HIDE DEF d
  <2> QED BY <1>1, <2>1, <2>2, <2>3, <2>4, <2>5 DEF Q15, HalfAbove, q
<1> QED BY <1>2, <1>3, <1>4, <1>5

\* Rounding adds half a unit to a tap at the most, and so for all of them.
HalvesUp(made, given, n) ==
  /\ Total(made) \in Int /\ Total(given) \in Int /\ Sums(given)[n] \in Int
  /\ 1000 * Total(made) <= 32768 * Sums(given)[n] + 500 * n
  /\ Sums(given)[n] <= Total(given)

LEMMA HalvesAddUp ==
  ASSUME NEW made \in Seq(Nat), NEW given \in Seq(Nat), NEW n \in Nat, n = Len(made), n <= Len(given),
         \A i \in 1..n : HalfAbove(made[i], given[i])
  PROVE  HalvesUp(made, given, n)
<1> DEFINE L == Len(given)
           G == Sums(given)
           M == Sums(made)
<1>1. L \in Nat /\ n \in 0..L /\ L \in 0..L /\ n <= L
  OBVIOUS
<1>2. given \in Seq(Int) /\ made \in Seq(Int)
  <2>1. Nat \subseteq Int
    OBVIOUS
  <2> QED BY <2>1, SeqMonotonic
<1>3. /\ G \in [0..L -> Int] /\ G[0] = 0 /\ \A i \in 1..L : G[i] = G[i - 1] + given[i]
  BY <1>2, SumsUnroll
<1>4. /\ M \in [0..n -> Int] /\ M[0] = 0 /\ \A i \in 1..n : M[i] = M[i - 1] + made[i]
  BY <1>2, SumsUnroll
<1>5. G[n] <= G[L]
  <2>1. \A k \in 1..Len(given) : -(given[k] * 1) <= given[k] /\ given[k] <= given[k] * 1
    <3>1. ASSUME NEW k \in 1..Len(given) PROVE -(given[k] * 1) <= given[k] /\ given[k] <= given[k] * 1
      <4>1. given[k] \in Nat
        OBVIOUS
      <4> QED BY <4>1
    <3> QED BY <3>1
  <2>2. \A a, b \in 0..Len(given) : a <= b =>
          LET added == Sums(given)[b] - Sums(given)[a]
              room == (Sums(given)[b] - Sums(given)[a]) * 1
          IN  -room <= added /\ added <= room /\ Sums(given)[a] <= Sums(given)[b]
    BY <1>2, <2>1, SumsBetween
  <2> QED BY <1>1, <2>2
<1>6. Total(made) = M[n] /\ Total(given) = G[L]
  BY DEF Total
<1> HIDE DEF G, M, L
<1>7. ASSUME NEW k \in 0..n PROVE M[k] \in Int /\ G[k] \in Int
  <2>1. k \in 0..L
    BY <1>1
  <2> QED BY <1>3, <1>4, <2>1
<1> DEFINE P == {k \in 0..n : 1000 * M[k] <= 32768 * G[k] + 500 * k}
<1>8. 0 \in P
  BY <1>3, <1>4
<1>9. ASSUME NEW k \in 0..(n - 1), k \in P PROVE k + 1 \in P
  <2>1. k + 1 \in 1..n /\ k + 1 \in 1..L /\ k + 1 \in 0..n /\ k \in 0..n /\ (k + 1) - 1 = k /\ k \in Nat
    BY <1>1
  <2>2. M[k + 1] = M[k] + made[k + 1] /\ G[k + 1] = G[k] + given[k + 1]
    BY <1>3, <1>4, <2>1
  <2>3. M[k] \in Int /\ G[k] \in Int /\ HalfAbove(made[k + 1], given[k + 1])
    BY <1>7, <2>1
  <2>4. 1000 * M[k] <= 32768 * G[k] + 500 * k
    BY <1>9
  <2> DEFINE m == M[k]
             g == G[k]
             q == made[k + 1]
             t == given[k + 1]
  <2>6. m \in Int /\ g \in Int /\ HalfAbove(q, t) /\ 1000 * m <= 32768 * g + 500 * k /\ k \in Int
    BY <2>1, <2>3, <2>4
  <2> HIDE DEF m, g, q, t
  <2>7. 1000 * (m + q) <= 32768 * (g + t) + 500 * (k + 1)
    BY <2>6 DEF HalfAbove
  <2>5. 1000 * (M[k] + made[k + 1]) <= 32768 * (G[k] + given[k + 1]) + 500 * (k + 1)
    BY <2>7 DEF m, g, q, t
  <2> QED BY <2>1, <2>2, <2>5
<1>10. n \in P
  <2> HIDE DEF P
  <2>1. \A k \in 0..(n - 1) : k \in P => k + 1 \in P
    BY <1>9
  <2>2. \A k \in 0..n : k \in P
    BY <1>8, <2>1, EveryPass
  <2>3. n \in 0..n
    OBVIOUS
  <2> QED BY <2>2, <2>3
<1>11. 1000 * M[n] <= 32768 * G[n] + 500 * n
  BY <1>10
<1>12. M[n] \in Int /\ G[n] \in Int /\ G[L] \in Int
  BY <1>1, <1>3, <1>7
<1> QED BY <1>5, <1>6, <1>11, <1>12 DEF G, HalvesUp

\* Taps that are let through make a filter that may be installed.
CutTo(source, n) == [i \in 1..n |-> ToQ15(source[i])]
Fitting(source, n) ==
  /\ source \in Seq(Int) /\ n \in Nat /\ 1 <= n /\ n <= Len(source) /\ n <= MaxNumTaps
  /\ (\A i \in 1..Len(source) : Abs(source[i]) <= 1000) /\ Magnitude(source) <= 3000

LEMMA FittingTaps ==
  ASSUME NEW source, NEW n, Fitting(source, n)
  PROVE  CutTo(source, n) \in InstalledTaps
<1> DEFINE taps == [i \in 1..n |-> ToQ15(source[i])]
           given == Mags(source)
           made == Mags(taps)
           L == Len(source)
<1>0. source \in Seq(Int) /\ n \in Nat /\ 1 <= n /\ n <= Len(source) /\ n <= MaxNumTaps
  BY DEF Fitting
<1>1. ASSUME NEW i \in 1..L
      PROVE  ToQ15(source[i]) \in Q15 /\ HalfAbove(Abs(ToQ15(source[i])), Abs(source[i])) /\ Abs(source[i]) \in Nat
  <2>1. source[i] \in Int /\ -1000 <= source[i] /\ source[i] <= 1000 /\ Abs(source[i]) \in Nat
    BY <1>0 DEF Abs, Fitting
  <2> QED BY <2>1, ToQ15Bounded
<1>2. L \in Nat /\ \A i \in 1..n : i \in 1..L
  BY <1>0
<1>3. taps \in Seq(Q15) /\ Len(taps) = n /\ \A i \in 1..n : taps[i] = ToQ15(source[i])
  <2>1. taps \in [1..n -> Q15] /\ \A i \in 1..n : taps[i] = ToQ15(source[i])
    BY <1>1, <1>2
  <2> HIDE DEF taps
  <2> QED BY <1>0, <2>1, FunctionIsSeq
<1>4. given \in Seq(Nat) /\ Len(given) = L /\ \A i \in 1..L : given[i] = Abs(source[i])
  <2>1. given \in [1..L -> Nat] /\ \A i \in 1..L : given[i] = Abs(source[i])
    BY <1>1 DEF Mags
  <2> HIDE DEF given, L
  <2> QED BY <1>2, <2>1, FunctionIsSeq
<1> HIDE DEF taps
<1>5. made \in Seq(Nat) /\ Len(made) = n /\ \A i \in 1..n : made[i] = Abs(taps[i])
  <2>1. \A i \in 1..n : Abs(taps[i]) \in Nat
    BY <1>1, <1>2, <1>3 DEF HalfAbove
  <2>2. made \in [1..n -> Nat] /\ \A i \in 1..n : made[i] = Abs(taps[i])
    BY <1>3, <2>1 DEF Mags
  <2> HIDE DEF made
  <2> QED BY <1>0, <2>2, FunctionIsSeq
<1>6. Magnitude(source) = Total(given) /\ Magnitude(taps) = Total(made)
  BY DEF Magnitude, Mags
<1>7. \A i \in 1..n : HalfAbove(made[i], given[i])
  <2> HIDE DEF made, given, L
  <2>1. ASSUME NEW i \in 1..n PROVE HalfAbove(made[i], given[i])
    <3>1. i \in 1..L
      BY <1>2
    <3>2. given[i] = Abs(source[i])
      BY <1>4, <3>1
    <3>3. made[i] = Abs(ToQ15(source[i]))
      BY <1>3, <1>5
    <3>4. HalfAbove(Abs(ToQ15(source[i])), Abs(source[i]))
      BY <1>1, <3>1
    <3> QED BY <3>2, <3>3, <3>4
  <2> QED BY <2>1
<1> HIDE DEF made, given
<1>8. HalvesUp(made, given, n)
  <2>1. n = Len(made) /\ n <= Len(given) /\ made \in Seq(Nat) /\ given \in Seq(Nat)
    BY <1>0, <1>4, <1>5
  <2> QED BY <1>0, <1>7, <2>1, HalvesAddUp
<1>9. Magnitude(taps) <= MaxMagnitude
  <2>1. n <= 68 /\ MaxMagnitude = 98338
    BY <1>0 DEF MaxNumTaps, MaxMagnitude
  <2> QED BY <1>6, <1>8, <2>1, SMTT(30) DEF HalvesUp, Fitting
<1>10. Len(taps) \in 1..MaxNumTaps
  BY <1>0, <1>3
<1> QED BY <1>3, <1>9, <1>10 DEF InstalledTaps, taps, CutTo

LEMMA OneTapFits == Fitting(<<1000>>, 1)
<1> DEFINE one == <<1000>>
           n == 1
           mags == Mags(one)
<1>0. one \in Seq(Int) /\ n \in Nat /\ n = 1 /\ Len(one) = n /\ one[n] = 1000
  OBVIOUS
<1> HIDE DEF one, n
<1>1. Abs(1000) = 1000
  BY DEF Abs
<1>2. mags \in [1..n -> Int] /\ mags[n] = 1000
  BY <1>0, <1>1 DEF Mags
<1>3. Magnitude(one) = Total(mags)
  BY DEF Magnitude, Mags
<1> HIDE DEF mags
<1>4. mags \in Seq(Int) /\ Len(mags) = n
  BY <1>0, <1>2, IntFunction
<1>5. Sums(mags)[n] = Sums(mags)[n - 1] + mags[n] /\ Sums(mags)[0] = 0
  <2>1. n \in 1..Len(mags)
    BY <1>0, <1>4
  <2> QED BY <1>4, <2>1, SumsUnroll
<1>6. Total(mags) = 1000
  BY <1>0, <1>2, <1>4, <1>5 DEF Total
<1>7. 1 <= MaxNumTaps
  BY DEF MaxNumTaps
<1>8. Fitting(one, n)
  BY <1>0, <1>1, <1>3, <1>6, <1>7 DEF Fitting
<1> QED BY <1>8 DEF one, n

\* Whatever taps are let through, cut or from a file, may be installed: the
\* assumption on Pipelines asks no more than requireTapsFitAccumulator.
LEMMA TapsLetThrough ==
  ASSUME NEW source \in Seq(Int), RequireTapsFit(source)
  PROVE  SetBranch(source) \in InstalledTaps /\ SetTaps(source) \in InstalledTaps
<1> DEFINE L == Len(source)
<1>1. <<ToQ15(1000)>> \in InstalledTaps
  <2>1. CutTo(<<1000>>, 1) \in InstalledTaps
    BY OneTapFits, FittingTaps
  <2>2. CutTo(<<1000>>, 1) = <<ToQ15(1000)>>
    BY DEF CutTo
  <2> QED BY <2>1, <2>2
<1>2. CASE source = <<>>
  BY <1>1, <1>2 DEF SetBranch, SetTaps
<1>3. CASE source # <<>>
  <2>1. /\ \A i \in 1..L : Abs(source[i]) <= 1000
        /\ Magnitude(source) <= 3000 /\ L \in Nat /\ 1 <= L
    BY <1>3 DEF RequireTapsFit, TapsFitAccumulator, TapMagnitudeSum
  <2>2. SetBranch(source) \in InstalledTaps
    <3> DEFINE n == IF L < MaxNumTaps THEN L ELSE MaxNumTaps
    <3>1. n \in Nat /\ 1 <= n /\ n <= L /\ n <= MaxNumTaps
      BY <2>1 DEF MaxNumTaps
    <3>2. SetBranch(source) = CutTo(source, n)
      BY <1>3 DEF SetBranch, CutTo
    <3> HIDE DEF n
    <3>3. Fitting(source, n)
      BY <2>1, <3>1 DEF Fitting
    <3> QED BY <3>2, <3>3, FittingTaps
  <2>3. SetTaps(source) \in InstalledTaps
    <3>1. CASE L > MaxFileTaps
      BY <1>1, <3>1 DEF SetTaps
    <3>2. CASE ~(L > MaxFileTaps)
      <4>1. SetTaps(source) = CutTo(source, L)
        BY <1>3, <3>2, SMTT(30) DEF SetTaps, CutTo
      <4>2. L <= MaxNumTaps
        BY <2>1, <3>2 DEF MaxFileTaps, MaxNumTaps
      <4>3. Fitting(source, L)
        BY <2>1, <4>2 DEF Fitting
      <4> HIDE DEF L
      <4> QED BY <4>1, <4>3, FittingTaps
    <3> QED BY <3>1, <3>2
  <2> QED BY <2>2, <2>3
<1> QED BY <1>2, <1>3
=============================================================================
