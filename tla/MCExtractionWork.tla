-------------------------- MODULE MCExtractionWork --------------------------
(* Instances of the work queue small enough for TLC. *)
EXTENDS ExtractionWork, TLC

CONSTANTS r1, xa, xb, k1, k2, c1, c2

OneRepo       == {r1}
OneExtractor  == {xa}
OneWorker     == {k1}
TwoWorkers    == {k1, k2}
OneCommit     == {c1}

\* The second observation reverts to a clean tree at the first commit when
\* only one commit is given; observation 3 returns to the commit of the first.
Heads == [o \in 1..MaxObservation |->
            IF o % 2 = 1 \/ c2 \notin Commits THEN c1 ELSE c2]
AllClean == 1..MaxObservation

\* Explores only the behaviours in which no extraction completes, so that no
\* attempt can succeed: those in which the retry policy has work to do.
NothingExtracted == generations = {}

=============================================================================
