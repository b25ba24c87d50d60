----------------------- MODULE MCExtractionControllers -----------------------
(* Instances of the controllers small enough for TLC. *)
EXTENDS ExtractionControllers, TLC

CONSTANTS s1, s2, t1, t2

OneStream  == {s1}
TwoStreams == {s1, s2}
OneTick    == {t1}
TwoTicks   == {t1, t2}

\* Two observations of the first stream, one of the other.
Lopsided == [s \in Streams |-> IF s = s1 THEN 2 ELSE 1]

\* Explores no further than two releases, the second of which may be a whole
\* batch: what lies one step beyond is still checked.
FewReleases == Cardinality(db.released) <= 2

\* Concurrent ticks differ in nothing but their request.
TickSymmetry == Permutations(Ticks)

=============================================================================
