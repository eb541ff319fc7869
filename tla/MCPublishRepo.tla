---------------------------- MODULE MCPublishRepo ----------------------------
(* The repository under its most general callers, for TLC. *)
EXTENDS PublishRepo, TLC

\* Callers, pages and uris are interchangeable.
Symmetry ==
  Permutations(Callers) \cup Permutations(Pages) \cup Permutations(Uris)

==============================================================================
