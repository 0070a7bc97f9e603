--------------------------- MODULE MCIngestQueue ---------------------------
(* IngestQueue on small instances. *)
EXTENDS IngestQueue, TLC

Symmetry == Permutations(Repo) \cup Permutations(Owner) \cup Permutations(Slot)
=============================================================================
