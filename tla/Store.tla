--------------------------------- MODULE Store ---------------------------------
(***************************************************************************)
(* The bucket of published files (store/store.go).  A key is a publish id  *)
(* and a file name; ids have one length, so that the prefix DeletePath     *)
(* lists by matches the keys of one publish only.                          *)
(***************************************************************************)
EXTENDS Naturals, FiniteSets

CONSTANTS
  ListMax,            \* keys in one page of ListObjectsV2 (1000)
  EmptyDeleteFails    \* does the provider refuse a DeleteObjects of no keys?

VARIABLE bucket       \* the keys stored

KeysOf(id) == {k \in bucket : k[1] = id}

Put(key) == bucket' = bucket \cup {key}

\* What ListObjectsV2 returns: its first page.  DeletePath asks for no other.
Listings(id) ==
  {page \in SUBSET KeysOf(id) :
     \/ Cardinality(page) = ListMax
     \/ Cardinality(page) < ListMax /\ page = KeysOf(id)}

DeleteRefused(keys) == EmptyDeleteFails /\ keys = {}

DeleteObjects(keys) ==
  /\ ~DeleteRefused(keys)
  /\ bucket' = bucket \ keys

\* The call succeeds for some of the keys and reports the errors of the others
\* in an output that DeletePath drops.
DeleteSome(keys) ==
  /\ keys # {}
  /\ \E deleted \in SUBSET keys : bucket' = bucket \ deleted

================================================================================
