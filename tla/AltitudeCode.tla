---------------------------- MODULE AltitudeCode ----------------------------
(***************************************************************************)
(* The altitude in 13 bits of a surveillance reply (decodeAltitude of       *)
(* ModeS.hpp): steps of 25 feet in binary, or of 100 feet in Gillham's      *)
(* code, a reflected one.  A code is the set of its bits that are one, bit  *)
(* 12 the first on the air.  The state is the code that came last.          *)
(***************************************************************************)
EXTENDS Absent, Integers, Sequences, FiniteSetsExt

VARIABLE code   \* None before the first

InitAltitude == code = None

CodeBits == 0..12
MetricBit == 6
QBit == 4

-----------------------------------------------------------------------------
(* Binary: all bits but those two are a number *)

Weight(bit) == CASE bit < 4 -> 2^bit [] bit = 5 -> 16 [] bit > 6 -> 2^(bit - 2)

DecodeAltitudeBitsFeet(bits) ==
  25 * MapThenSumSet(Weight, bits \ {QBit, MetricBit}) - 1000

-----------------------------------------------------------------------------
(* Gillham *)

\* The pulses of Mode A, each at its bit of the reply.
Pulse ==
  [C1 |-> 12, A1 |-> 11, C2 |-> 10, A2 |-> 9, C4 |-> 8, A4 |-> 7,
   B1 |-> 5, D1 |-> 4, B2 |-> 3, D2 |-> 2, B4 |-> 1, D4 |-> 0]
DecodeGillhamID13(bits) == {p \in DOMAIN Pulse : Pulse[p] \in bits}

\* A pulse turns its own bit of the number and all below it over.
Reflected(order, pulses) ==
  LET IsOne(i) == Cardinality({j \in 1..i : order[j] \in pulses}) % 2 = 1
  IN  SumSet({2^(Len(order) - i) : i \in {i \in 1..Len(order) : IsOne(i)}})

\* Mutant: the fifth step of a group is left where the code has it.
OneHundredsPlain(pulses) == Reflected(<<"C1", "C2", "C4">>, pulses)
OneHundreds(pulses) ==
  LET steps == Reflected(<<"C1", "C2", "C4">>, pulses)
  IN  CASE steps = 7 -> 5 [] steps = 5 -> 7 [] OTHER -> steps

FiveHundreds(pulses) ==
  Reflected(<<"D2", "D4", "A1", "A2", "A4", "B1", "B2", "B4">>, pulses)

DecodeGillhamAltitude(bits) ==
  LET pulses == DecodeGillhamID13(bits)
      five == FiveHundreds(pulses)
      one == OneHundreds(pulses)
      hundreds == five * 5 + (IF five % 2 = 1 THEN 6 - one ELSE one) - 13
  IN  IF \/ "D1" \in pulses \/ pulses \cap {"C1", "C2", "C4"} = {}
         \/ one > 5 \/ hundreds < -12
      THEN None ELSE hundreds * 100

DecodeAltitude(bits) ==
  CASE MetricBit \in bits -> None
    [] MetricBit \notin bits /\ QBit \in bits -> DecodeAltitudeBitsFeet(bits)
    [] OTHER -> DecodeGillhamAltitude(bits)

ReceiveCode == code = None /\ code' \in SUBSET CodeBits
NextAltitude == ReceiveCode

-----------------------------------------------------------------------------
(* Properties *)

\* An encoder: the groups of 500 feet in the reflected binary code, and in
\* a group five combinations of the C pulses, forth and back in turns.
Grouped(five) ==
  LET order == <<"D2", "D4", "A1", "A2", "A4", "B1", "B2", "B4">>
  IN  {order[i] : i \in {i \in 1..8 : ((five \div 2^(8 - i)) % 2) # ((five \div 2^(9 - i)) % 2)}}
InGroup == << {"C4"}, {"C2", "C4"}, {"C2"}, {"C1", "C2"}, {"C1"} >>
GillhamCode(feet) ==
  LET level == (feet + 1200) \div 100
      five == level \div 5
      place == IF five % 2 = 1 THEN 5 - (level % 5) ELSE (level % 5) + 1
  IN  {Pulse[p] : p \in Grouped(five) \cup InGroup[place]}
BinaryCode(feet) ==
  LET level == (feet + 1000) \div 25
  IN  {QBit} \cup {b \in CodeBits \ {QBit, MetricBit} : ((level \div Weight(b)) % 2) = 1}

GillhamCodes == {GillhamCode(100 * h) : h \in -12..1267}

\* Every code is decoded to the one altitude that is encoded as it, none is
\* made of a code that stands for no altitude, and none of those that do is
\* refused (ModeS.hpp:57-143).
AltitudesExact ==
  code # None =>
    LET feet == DecodeAltitude(code)
    IN  CASE MetricBit \in code -> feet = None
          [] MetricBit \notin code /\ QBit \in code -> code = BinaryCode(feet)
          [] feet = None -> code \notin GillhamCodes
          [] OTHER -> feet \in -1200..126700 /\ code = GillhamCode(feet)
=============================================================================
