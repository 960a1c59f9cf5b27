------------------------------ MODULE IcaoTable ------------------------------
(***************************************************************************)
(* The table of aircraft addresses the demodulator keeps                    *)
(* (src/include/ICAOCache.hpp): what a slot holds, how it is used, renewed, *)
(* swept and reset, and the candidates that wait to be seen once more.      *)
(*                                                                          *)
(* The code stores times and compares differences with windows.  A slot or  *)
(* candidate here holds the age itself, in ticks, and an age past the last  *)
(* window it is compared with stops growing.  The bitmap of occupied slots  *)
(* is exact in the code, hence left out; the one of trusted slots is kept.  *)
(***************************************************************************)
EXTENDS Naturals, FiniteSets

CONSTANTS
  Addr, Capability,   \* 24-bit addresses and the 3 bits that come with them
  None,               \* no entry, value or position; a squawk of 0 or an
                      \* altitude that cannot be decoded, too
  NumKeys, KeyOf,     \* slots of the table, and the slot of an address
  Period,             \* ticks between two sweeps of a slot, 10^6
  SeenTtl,            \* TTL_not_trusted, in sweeps
  TrustTtl,           \* TTL_trusted, in sweeps
  MinSeparation,      \* ticks: two sightings are of two transmissions
  AltDelta,           \* ALT_delta_ft
  DupWindow,          \* ticks: a frame is a copy of the last one
  PairWindow,         \* ticks: an even and an odd position make a pair
  PositionMaxAge,     \* ticks: a position may serve as a reference
  DecodeCpr(_, _)     \* the place an even and an odd position give, or None

ASSUME TableAssumption ==
  /\ None \notin [addr : Addr, ca : Capability]
  /\ NumKeys \in Nat /\ KeyOf \in [Addr -> 0..NumKeys-1]
  /\ Period \in Nat \ {0} /\ NumKeys <= Period
  /\ SeenTtl \in Nat \ {0} /\ TrustTtl \in Nat \ {0}
  /\ MinSeparation \in Nat \ {0} /\ AltDelta \in Nat
  /\ DupWindow \in Nat /\ DupWindow <= Period
  /\ PairWindow \in Nat /\ PositionMaxAge \in Nat

Key == 0..NumKeys-1
Ica == [addr : Addr, ca : Capability]     \* icaoWithCA

Older(age, bound) == IF age < bound THEN age + 1 ELSE bound
Gap(x, y) == IF x <= y THEN y - x ELSE x - y

-----------------------------------------------------------------------------
(* A slot: Entry, MsgStatEntry, SquawkAlt and its bit of m_trustedBits.     *)

\* The last four fields are history of the entry: the ages of the last frame
\* that named the address and of the last sound one, whether the address was
\* sighted twice, and what its frames have told.
EmptySlot ==
  [icao |-> None, ttl |-> 0, trust |-> 0, bit |-> FALSE, last |-> DupWindow,
   alt |-> None, altSure |-> FALSE, squawk |-> None, squawkSure |-> FALSE,
   even |-> None, odd |-> None, ref |-> None,
   named |-> 0, sound |-> 0, earned |-> FALSE, told |-> {}]

IsAlive(s) == s.ttl > 0
IsTrusted(s) == IsAlive(s) /\ s.trust > 0

\* doResetEntry: the trusted bit is not touched.
Reset(s) == [EmptySlot EXCEPT !.bit = s.bit]

\* Mutant: an address that takes the slot of another inherits its trust.
InsertedOverOther(s, ica) == [s EXCEPT !.icao = ica, !.earned = FALSE]

\* insertWithCA
Inserted(s, ica) ==
  IF s.icao # None /\ s.icao.addr = ica.addr THEN [s EXCEPT !.icao = ica]
  ELSE [Reset(s) EXCEPT !.icao = ica]

TrustedSeen(s) == [s EXCEPT !.trust = TrustTtl, !.ttl = SeenTtl, !.bit = TRUE]
Seen(s) == [s EXCEPT !.ttl = SeenTtl]

\* doTickForEntry
Swept(s) ==
  IF s.icao = None THEN s
  ELSE LET t == [s EXCEPT !.trust = IF @ > 0 THEN @ - 1 ELSE 0]
           u == IF s.ttl > 0 THEN [t EXCEPT !.ttl = @ - 1] ELSE Reset(t)
       IN  [u EXCEPT !.bit = IsTrusted(u)]

OlderSince(fix, bound) ==
  IF fix = None THEN None ELSE [fix EXCEPT !.age = Older(@, bound)]

\* What a tick does to the ages in a slot.
Aged(s) ==
  IF s.icao = None THEN s
  ELSE [s EXCEPT
         !.last = Older(@, DupWindow),
         !.even = OlderSince(@, PairWindow + 1),
         !.odd = OlderSince(@, PairWindow + 1),
         !.ref = OlderSince(@, PositionMaxAge + 1),
         !.named = Older(@, (SeenTtl + 1) * Period),
         !.sound = Older(@, TrustTtl * Period)]

-----------------------------------------------------------------------------
(* Values: checkAltitude, checkSquawk, noteCprClean *)

AltitudeFits(s, alt) ==
  s.alt # None /\ alt # None /\ Gap(s.alt, alt) <= AltDelta

\* The altitude an unsure entry holds is replaced, a sure one is doubted.
AltitudeChecked(s, alt) ==
  IF alt = None THEN s
  ELSE IF AltitudeFits(s, alt) THEN [s EXCEPT !.alt = alt, !.altSure = TRUE]
  ELSE IF s.alt # None /\ s.altSure THEN [s EXCEPT !.altSure = FALSE]
  ELSE [s EXCEPT !.alt = alt]

SquawkFits(s, squawk) == squawk # None /\ s.squawk = squawk

SquawkChecked(s, squawk) ==
  IF squawk = None THEN s
  ELSE IF SquawkFits(s, squawk) THEN [s EXCEPT !.squawkSure = TRUE]
  ELSE IF s.squawkSure THEN [s EXCEPT !.squawkSure = FALSE]
  ELSE [s EXCEPT !.squawk = squawk]

\* A clean position, and the reference it gives with its other half.
PositionNoted(s, position) ==
  LET fix == [cpr |-> position.cpr, age |-> 0]
      t == IF position.odd THEN [s EXCEPT !.odd = fix] ELSE [s EXCEPT !.even = fix]
      other == IF position.odd THEN t.even ELSE t.odd
      paired == other # None /\ other.age <= PairWindow
      place == DecodeCpr(t.even.cpr, t.odd.cpr)
  IN  IF paired /\ place # None THEN [t EXCEPT !.ref = [cpr |-> place, age |-> 0]]
      ELSE t

\* cachedPosition
HasReference(s) == s.ref # None /\ s.ref.age <= PositionMaxAge

-----------------------------------------------------------------------------
(* Candidates: direct-mapped tables of what was seen once. *)

NoCandidate == [of |-> None, age |-> 0]

\* Mutant: a copy of the same transmission confirms it.
ConfirmsAtOnce(c, x, max) == c.of = x /\ c.age <= max

Confirms(c, x, max) == c.of = x /\ c.age \in MinSeparation..max
TooSoon(c, x) == c.of = x /\ c.age < MinSeparation

\* confirmTrustCandidate, confirmDF11Candidate: what is confirmed is used up.
AfterSighting(c, x, max) ==
  IF Confirms(c, x, max) THEN NoCandidate
  ELSE IF TooSoon(c, x) THEN c
  ELSE [of |-> x, age |-> 0]

\* confirmRejectedFrame: what is confirmed may be confirmed again.
AfterRejection(c, x, max) ==
  IF TooSoon(c, x) THEN c ELSE [of |-> x, age |-> 0]

AgedCandidate(c, max) ==
  IF c.of = None THEN c ELSE [c EXCEPT !.age = Older(@, max + 1)]
=============================================================================
