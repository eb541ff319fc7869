---------------------------- MODULE MCPublishSystem ----------------------------
(* The whole server on small instances, for TLC. *)
EXTENDS PublishSystem, MCPublishService

\* Readers are interchangeable, too.
SystemSymmetry == Symmetry \cup Permutations(Readers)

================================================================================
