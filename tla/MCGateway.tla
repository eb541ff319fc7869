------------------------------- MODULE MCGateway -------------------------------
(* The gateway on small instances, for TLC. *)
EXTENDS Gateway, TLC

\* Requests and callers are served alike; publishes and versions of the renderer
\* are compared only for equality.
Symmetry ==
  Permutations(Readers) \cup Permutations(Callers) \cup Permutations(Publishes)
    \cup Permutations(Versions)

================================================================================
