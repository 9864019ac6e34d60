-------------------------- MODULE MCDetectionRuns ---------------------------
(* Instances of DetectionRuns for TLC. *)
EXTENDS DetectionRuns, TLC

CONSTANTS r1, r2, w1, p1, veg, built

Classes == {veg, built}

Feature(c, a, on) == [cls |-> c, area |-> a, on |-> on]

\* An area that alerts on any class and one that alerts on construction only;
\* a threshold of 1 lets a fraction be below it, at it, and twice as large.
AnyAndBuilt == {[threshold |-> 1, classes |-> {}],
                [threshold |-> 1, classes |-> {built}]}

AnyArea == {[threshold |-> 1, classes |-> {}]}

OneResult == {[frac |-> 2, feats |-> <<Feature(built, 1, {})>>]}

\* Vegetation at the threshold; construction, the smaller feature last, at twice
\* the threshold.  The ai-worker answers an area that alerts on construction
\* with the second only.
TwoResults ==
    {[frac |-> 1, feats |-> <<Feature(veg, 1, {})>>],
     [frac |-> 2, feats |-> <<Feature(built, 2, {}), Feature(built, 1, {})>>]}

\* Two constructions on the parcel of a permit; vegetation on it and a construction
\* beside it.
PermitResults ==
    {[frac |-> 2, feats |-> <<Feature(built, 1, {p1}), Feature(built, 1, {p1})>>],
     [frac |-> 1, feats |-> <<Feature(veg, 1, {p1}), Feature(built, 1, {})>>]}

SymRuns == Permutations(Run)
=============================================================================
