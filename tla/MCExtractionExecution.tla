----------------------- MODULE MCExtractionExecution -----------------------
(* Instances of the execution small enough for TLC. *)
EXTENDS ExtractionExecution

\* Every request names the first claim; a later claim is somebody else's.
TheFirst == [e \in Requests |-> 1]

=============================================================================
