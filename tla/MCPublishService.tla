--------------------------- MODULE MCPublishService ---------------------------
(* The publish service on small instances, for TLC. *)
EXTENDS PublishService, TLC

\* Handlers and files are interchangeable.
Symmetry == Permutations(Handlers) \cup Permutations(Files)

\* Every page may ask for every uri: pages are renamed, uris pass from one page
\* to another.
AnyUri == [p \in Pages |-> Uris]

\* Each page keeps a uri of its own.
OwnUri == CHOOSE f \in [Pages -> {{u} : u \in Uris}] :
            \A p, q \in Pages : f[p] = f[q] => p = q

===============================================================================
