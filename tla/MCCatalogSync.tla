--------------------------- MODULE MCCatalogSync ---------------------------
(* CatalogSync on small instances, of two scopes: two issues and few changes *)
(* of them with one worker, fewer once open issues were pruned, and one      *)
(* issue that nobody saved with two workers and more changes, the repository *)
(* staying eligible.                                                         *)
EXTENDS CatalogSync, FiniteSetsExt, TLC

CONSTANT FewChanges   \* bound on the changes of two issues

VARIABLE scope

ScopedInit == Init /\ scope \in {"two issues", "two workers"}

InScope ==
  \/ /\ scope = "two issues" /\ now <= FewChanges
     /\ Quantify(Worker, LAMBDA w : page[w] # NoPage) <= 1
     /\ "pruned" \in irregular => now < FewChanges
  \/ scope = "two workers" /\ eligible /\ \A i \in Saved : github[i] = Absent

ScopedNext == UNCHANGED scope /\ Next /\ InScope'

ScopedSpec == ScopedInit /\ [][ScopedNext]_<<vars, scope>>

Symmetry == Permutations(Saved) \cup Permutations(Issue \ Saved) \cup Permutations(Worker)
=============================================================================
