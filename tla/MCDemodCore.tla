----------------------------- MODULE MCDemodCore -----------------------------
(***************************************************************************)
(* DemodCore for TLC: two addresses that share the only slot of the table,  *)
(* a third that is not plausible, one place for all candidates, and windows *)
(* of a few ticks in the order of those of the code.  What is received is   *)
(* of one kind in a behaviour, its aspect: a set of frames chosen for trust,*)
(* altitudes, squawks or positions.                                         *)
(***************************************************************************)
EXTENDS DemodCore

CONSTANTS a, b, c

X(addr, ca) == [addr |-> addr, ca |-> ca]
At(odd, cpr) == [odd |-> odd, cpr |-> cpr]
Clean(df, ica, position) ==
  [df |-> df, ica |-> ica, sane |-> df = 17, position |-> position]
Bad(before, fixed, solved, position) ==
  [before |-> before, fixed |-> fixed, solved |-> solved, position |-> position]
Value(addr, field, value) == [addr |-> addr, field |-> field, value |-> value]

SquittersIn ==
  [trust |-> {Clean(17, X(a, 1), None), Clean(17, X(b, 1), None),
              Clean(19, X(a, 1), None)},
   altitude |-> {}, squawk |-> {},
   position |-> {Clean(17, X(a, 1), At(FALSE, "p")),
                 Clean(18, X(a, 1), At(TRUE, "p")),
                 Clean(17, X(a, 1), At(TRUE, "q")),
                 Clean(17, X(b, 1), At(FALSE, "p"))}]

DamagedIn ==
  [trust |-> {Bad(X(a, 1), None, X(a, 1), None), Bad(X(b, 1), X(a, 1), None, None)},
   altitude |-> {}, squawk |-> {},
   position |-> {Bad(X(x, 1), X(x, 1), None, At(TRUE, cpr)) :
                   x \in {a, b}, cpr \in {"p", "q"}}]

AllCallsIn == [trust |-> {X(a, 1), X(a, 2)}, altitude |-> {X(a, 1), X(b, 1)},
               squawk |-> {X(a, 1), X(b, 1)}, position |-> {X(c, 1)}]
InterrogatedIn == [trust |-> {X(a, 1)}, altitude |-> {}, squawk |-> {},
                   position |-> {X(c, 1)}]
CorrectedIn == [trust |-> {X(a, 1)}, altitude |-> {}, squawk |-> {},
                position |-> {}]
ValuesIn ==
  [trust |-> {},
   altitude |-> {Value(a, "altitude", 1), Value(a, "altitude", 3),
                 Value(b, "altitude", 2), Value(a, "altitude", None)},
   squawk |-> {Value(a, "squawk", 7), Value(a, "squawk", 5),
               Value(b, "squawk", 7), Value(a, "squawk", None)},
   position |-> {}]

Aspect == {"trust", "altitude", "squawk", "position"}
InAny(f) == UNION {f[i] : i \in Aspect}
MCSquitters == InAny(SquittersIn)
MCDamaged == InAny(DamagedIn)
MCAllCalls == InAny(AllCallsIn)
MCInterrogated == InAny(InterrogatedIn)
MCCorrected == InAny(CorrectedIn)
MCValueFrames == InAny(ValuesIn)

MCKeyOf == [x \in Addr |-> 0]
MCTrustIndex == [x \in Ica |-> 0]
MCRejectedIndex == [f \in ValueFrames |-> 0]
MCNear(p, q) == p = q
MCDecodeCpr(even, odd) == IF even = odd THEN even ELSE None

VARIABLE aspect

MCInit == Init /\ aspect \in Aspect
MCNext ==
  /\ aspect' = aspect
  /\ \/ Tick
     \/ \E f \in SquittersIn[aspect] : HandleSquitter(f) /\ Airing
     \/ \E f \in DamagedIn[aspect] : HandleDamaged(f) /\ Airing
     \/ \E x \in AllCallsIn[aspect] : HandleAllCall(x) /\ Airing
     \/ \E x \in InterrogatedIn[aspect] : HandleInterrogated(x) /\ Airing
     \/ \E x \in CorrectedIn[aspect] : CorrectedAllCall(x) /\ Airing
     \/ \E f \in ValuesIn[aspect] : HandleValue(f) /\ Airing

MCSpec == MCInit /\ [][MCNext]_<<vars, aspect>>
=============================================================================
