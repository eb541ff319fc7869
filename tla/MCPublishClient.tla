---------------------------- MODULE MCPublishClient ----------------------------
(* Calls with short and long strings and bytes of any kind, for TLC. *)
EXTENDS PublishClient

\* A string that needs two bytes for its length.
Long == [i \in 1..130 |-> 97]
SomeStrings == {<<>>, Long}

Active(status, version, size) ==
  <<[status |-> status, version |-> version, size |-> size]>>

\* Numbers at the borders of what a byte, two bytes and the sign bit hold.
SomeDocuments ==
  {[spaceId |-> s, objectId |-> Long, uri |-> u, timestamp |-> 128, publish |-> p] :
     s \in {<<97>>, Long}, u \in {<<97>>, Long},
     p \in {<<>>, Active("ReadyToDelete", <<97>>, 1), Active("Published", <<>>, 0),
            Active("Published", Long, 2^(IntBits - 1) - 1)}}

\* A field of number 8.
SomeExtensions == {<<>>, <<66, 1, 7>>}

\* Tags of every wire type for known and unknown fields, lengths, and bytes that go
\* on; and a Publish in two pieces, one with a negative number, and numbers that do
\* not end.
SomeBytes ==
  SeqOf({1, 8, 10, 43, 44, 48, 65, 255}, 4)
    \cup {<<10, 2, 48, 1, 10, 2, 56, 2>>, <<10, 4, 48, 255, 255, 1>>,
          <<10, 4, 32, 255, 255, 1>>, <<10, 5, 48, 255, 255, 255, 255>>}

================================================================================
