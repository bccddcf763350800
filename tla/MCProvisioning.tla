--------------------------- MODULE MCProvisioning ---------------------------
(* Subjects whose identifiers begin alike, and requests that only differ   *)
(* by their names.                                                         *)
EXTENDS Provisioning, TLC

MCSuffix == [s \in Subjects |-> "prefix"]
Symmetry == Permutations(Requests) \cup Permutations(Subjects) \cup Permutations(Ids)
=============================================================================
