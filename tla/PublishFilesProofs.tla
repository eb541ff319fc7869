--------------------------- MODULE PublishFilesProofs ---------------------------
(***************************************************************************)
(* No file in the bucket loses who is going to delete it, but to an upload *)
(* that is finalized too late, for any number of handlers, pages and       *)
(* publishes, as long as no publish has more files than a listing returns. *)
(*                                                                         *)
(* The argument: an upload starts where nothing is stored, since files lie *)
(* only under a publish that was shown or that somebody works on; and who  *)
(* is about to delete the files of a publish has listed all of them, since *)
(* nobody else stores any under its id.  A page hands what it shows to the *)
(* cleanup when it is unpublished or shows another, or else the upload it  *)
(* shows was finalized too late.                                           *)
(***************************************************************************)
EXTENDS PublishPagesProofs, FiniteSetTheorems

--------------------------------------------------------------------------------
(* The invariant *)

Retired(id) == \E p \in publishes : p.id = id /\ p.status # "Created"

\* A file lies under a publish that was shown, or that somebody works on.
KeptOrUsed(k) ==
  Retired(k[1]) \/ \E h \in Handlers : Uses(handler[h]) /\ handler[h].id = k[1]

FilesKept == \A k \in bucket : KeptOrUsed(k)

\* Whoever deletes the files of a publish has listed all of them.
ListedAll ==
  /\ \A h \in Handlers : At(h, "delete") => S3!KeysOf(handler[h].id) \subseteq handler[h].keys
  /\ CleanerAt("delete") => S3!KeysOf(cleaner.id) \subseteq cleaner.keys

\* The cleanup has deleted the files of a publish before it deletes the publish.
NoneLeft == CleanerAt("deletePublish") => S3!KeysOf(cleaner.id) = {}

\* Nothing is stored yet for an upload that just began.
StartsEmpty ==
  \A h \in Handlers : At(h, "getObject") => S3!KeysOf(handler[h].id) = {}

FilesInv ==
  /\ ApartInv
  /\ FilesKept
  /\ ListedAll
  /\ NoneLeft
  /\ StartsEmpty

\* A listing returns all files of a publish.
ListsAll(id) ==
  /\ IsFiniteSet(S3!KeysOf(id))
  /\ Cardinality(S3!KeysOf(id)) <= ListMax

UploadsFit == \A id \in Repo!PublishIds : ListsAll(id)

--------------------------------------------------------------------------------
(* Listings and the bucket *)

\* The cardinality of two modules that is one.
LEMMA SameCardinality == \A S : S3!Cardinality(S) = Cardinality(S)
BY DEF S3!Cardinality, Cardinality

LEMMA ListingIsWhole ==
  ASSUME NEW id, ListsAll(id), ListMax \in Nat, NEW keys \in S3!Listings(id)
  PROVE  keys = S3!KeysOf(id)
<1>1. keys \in SUBSET S3!KeysOf(id)
  BY DEF S3!Listings
<1>2. CASE Cardinality(keys) = ListMax
  <2>1. /\ Cardinality(keys) <= Cardinality(S3!KeysOf(id))
        /\ Cardinality(S3!KeysOf(id)) = Cardinality(keys) => S3!KeysOf(id) = keys
    BY <1>1, FS_Subset DEF ListsAll
  <2>2. Cardinality(S3!KeysOf(id)) \in Nat
    BY FS_CardinalityType DEF ListsAll
  <2> QED BY <1>2, <2>1, <2>2 DEF ListsAll
<1>3. Cardinality(keys) = ListMax \/ keys = S3!KeysOf(id)
  BY SameCardinality DEF S3!Listings
<1> QED BY <1>2, <1>3

\* Who stores a file.
LEMMA BucketGrows ==
  ASSUME IInv, [Next]_vars, NEW k \in bucket', k \notin bucket
  PROVE  \E h \in Handlers :
           PutFile(h) /\ k[1] = handler[h].id /\ Uses(handler'[h]) /\ handler'[h].id = k[1]
<1>1. \A keys : DeleteDone(keys) \/ DeleteFailed(keys) => k \in bucket
  BY DEF DeleteDone, DeleteFailed, S3!DeleteObjects, S3!DeleteSome
<1>2. ASSUME NEW h \in Handlers, HandlerStep(h)
      PROVE  PutFile(h) /\ k[1] = handler[h].id /\ Uses(handler'[h]) /\ handler'[h].id = k[1]
  <2>1. CASE PutFile(h)
    <3>1. handler[h] \in [pc : {"put", "finalize"}, id : Repo!PublishIds,
                          objectId : Repo!ObjectIds, prev : 0..MaxPublishes,
                          done : SUBSET Files]
      BY <2>1, StatesOf DEF IInv, PutFile
    <3>2. PICK f \in Files : /\ bucket' = bucket \cup {<<handler[h].id, f>>}
                             /\ handler'[h] = [handler[h] EXCEPT !.done = @ \cup {f}]
      BY <2>1 DEF PutFile, S3!Put, FileKey, Goto, IInv, HandlersSound
    <3>3. k = <<handler[h].id, f>>
      BY <3>2
    <3>4. handler'[h].id = handler[h].id /\ handler'[h].pc = handler[h].pc
      BY <3>1, <3>2
    <3> QED BY <2>1, <3>1, <3>3, <3>4 DEF Uses
  <2>2. CASE DeleteFiles(h)
    BY <1>1, <2>2 DEF DeleteFiles
  <2> QED BY <1>2, <2>1, <2>2
          DEF HandlerStep, RpcRequest, CommitStep, UploadStep, Publish, UnPublish,
              PublishEnd, UnPublishEnd, FinalizeEnd, RequestFails, Invalidate, GetPublish,
              GetObject, UploadFails, Finalize, FinalizeFails, ListFiles
<1>3. CASE CleanerStep
  BY <1>1, <1>3
     DEF CleanerStep, CleanupStart, DeleteOutdatedPublishes, DeleteOutdatedObjects,
         FindReadyToDelete, CleanerListFiles, CleanerDeleteFiles, DeletePublish, CleanupEnd,
         CleanerStatementFails
<1> QED BY <1>2, <1>3 DEF Next, Age, Crash, vars

\* Nobody stores files for a publish that another request works on.
LEMMA UsedGrowsNot ==
  ASSUME ApartInv, [Next]_vars, NEW h \in Handlers, Uses(handler[h]),
         handler'[h] = handler[h], handler[h].pc # "put", NEW k \in bucket',
         k[1] = handler[h].id
  PROVE  k \in bucket
<1> SUFFICES ASSUME k \notin bucket PROVE FALSE
  OBVIOUS
<1>1. PICK g \in Handlers : PutFile(g) /\ k[1] = handler[g].id
  BY BucketGrows DEF ApartInv
<1>2. g = h
  BY <1>1 DEF ApartInv, UsersApart, Uses, PutFile, At
<1> QED BY <1>1, <1>2 DEF PutFile, At

\* Nobody stores files for a publish that the cleanup deletes.
LEMMA CleanedGrowsNot ==
  ASSUME ApartInv, [Next]_vars, NEW k \in bucket', Cleans(cleaner, k[1])
  PROVE  k \in bucket
<1> SUFFICES ASSUME k \notin bucket PROVE FALSE
  OBVIOUS
<1>1. PICK g \in Handlers : PutFile(g) /\ k[1] = handler[g].id
  BY BucketGrows DEF ApartInv
<1>2. PICK p \in publishes : p.id = handler[g].id /\ p.status = "Created"
  BY <1>1 DEF ApartInv, UploadsThere, PutFile, At, Started
<1> QED BY <1>1, <1>2 DEF ApartInv, CleansRetired

--------------------------------------------------------------------------------
(* FilesInv, step by step *)

\* How a request ends its work on a publish.
LEMMA UseEnds ==
  ASSUME IInv, UploadInv, [Next]_vars, "crash" \notin Faults, "s3" \notin Faults,
         NEW h \in Handlers, Uses(handler[h]),
         ~(Uses(handler'[h]) /\ handler'[h].id = handler[h].id)
  PROVE  \/ At(h, "getObject") /\ bucket' = bucket
         \/ FinalizeEnd(h) /\ bucket' = bucket
         \/ /\ At(h, "delete")
            /\ \/ S3!DeleteObjects(handler[h].keys)
               \/ S3!DeleteRefused(handler[h].keys) /\ bucket' = bucket
<1>1. \A s : Goto(h, s) => handler'[h] = s
  BY DEF IInv, HandlersSound, Goto
<1>2. HandlerStep(h)
  <2>1. CASE handler'[h] = handler[h]
    BY <2>1
  <2>2. ASSUME NEW g \in Handlers, HandlerStep(g), handler'[h] # handler[h]
        PROVE  g = h
    <3>1. \E s : Goto(g, s)
      BY <2>2 DEF HandlerStep, RpcRequest, Publish, UnPublish, CommitStep, PublishEnd,
                  UnPublishEnd, FinalizeEnd, RequestFails, Invalidate, UploadStep,
                  GetPublish, GetObject, PutFile, UploadFails, Finalize, FinalizeFails,
                  ListFiles, DeleteFiles
    <3> QED BY <2>2, <3>1 DEF IInv, HandlersSound, Goto
  <2>3. CASE CleanerStep
    BY <2>1, <2>3, CleanerBucket
  <2> QED BY <2>1, <2>2, <2>3 DEF Next, Crash, Age, vars
<1>3. CASE GetObject(h)
  BY <1>3 DEF GetObject
<1>4. CASE FinalizeEnd(h)
  BY <1>4 DEF FinalizeEnd
<1>5. CASE DeleteFiles(h)
  BY <1>5 DEF DeleteFiles, DeleteDone, DeleteFailed
<1>6. CASE PutFile(h) \/ Finalize(h)
  <2>1. handler[h] \in [pc : {"put", "finalize"}, id : Repo!PublishIds,
                        objectId : Repo!ObjectIds, prev : 0..MaxPublishes,
                        done : SUBSET Files]
    BY <1>6, StatesOf DEF IInv, PutFile, Finalize
  <2>2. handler'[h].id = handler[h].id /\ handler'[h].pc \in {"put", "finalize"}
    BY <1>1, <1>6, <2>1 DEF PutFile, Finalize
  <2> QED BY <2>2 DEF Uses
<1>7. CASE UploadFails(h) \/ FinalizeFails(h)
  <2>1. handler'[h] = [pc |-> "list", id |-> handler[h].id]
    BY <1>1, <1>7 DEF UploadFails, FinalizeFails, Failed
  <2> QED BY <2>1 DEF Uses
<1>8. CASE ListFiles(h)
  <2>1. PICK keys : handler'[h] = [pc |-> "delete", id |-> handler[h].id, keys |-> keys]
    BY <1>1, <1>8 DEF ListFiles
  <2> QED BY <2>1 DEF Uses
<1>9. CASE \/ RpcRequest(h) \/ PublishEnd(h) \/ UnPublishEnd(h) \/ RequestFails(h)
           \/ Invalidate(h) \/ GetPublish(h)
  BY <1>9 DEF RpcRequest, Publish, UnPublish, PublishEnd, UnPublishEnd, RequestFails,
              Invalidate, GetPublish, Uses, Idle, At
<1> QED BY <1>2, <1>3, <1>4, <1>5, <1>6, <1>7, <1>8, <1>9
        DEF HandlerStep, CommitStep, UploadStep

\* What was shown goes on until the cleanup has deleted its files.
LEMMA RetiredStays ==
  ASSUME FilesInv, [Next]_vars, NEW k \in bucket, Retired(k[1])
  PROVE  Retired(k[1])'
<1>0. IInv /\ UploadInv /\ TxMatches
  BY DEF FilesInv, ApartInv, UploadInv
<1>1. PICK p \in publishes : p.id = k[1] /\ p.status # "Created"
  BY DEF Retired
<1>2. CASE p \in publishes' \/ Survives(p)
  BY <1>1, <1>2 DEF Retired, Survives
<1>3. CASE DeletePublish /\ p.id = cleaner.id
  BY <1>1, <1>3 DEF FilesInv, NoneLeft, S3!KeysOf, DeletePublish
<1> QED BY <1>0, <1>1, <1>2, <1>3, Fate

LEMMA FilesStayKept ==
  ASSUME FilesInv, [Next]_vars, "crash" \notin Faults, "s3" \notin Faults
  PROVE  FilesKept'
<1> SUFFICES ASSUME NEW k \in bucket' PROVE KeptOrUsed(k)'
  BY DEF FilesKept
<1>0. IInv /\ UploadInv /\ TxMatches
  BY DEF FilesInv, ApartInv, UploadInv
<1>1. CASE k \notin bucket
  BY <1>0, <1>1, BucketGrows DEF KeptOrUsed
<1>2. CASE k \in bucket /\ Retired(k[1])
  BY <1>2, RetiredStays DEF KeptOrUsed
<1>3. ASSUME k \in bucket, NEW h \in Handlers, Uses(handler[h]), handler[h].id = k[1]
      PROVE  KeptOrUsed(k)'
  <2>1. CASE Uses(handler'[h]) /\ handler'[h].id = handler[h].id
    BY <1>3, <2>1 DEF KeptOrUsed
  <2>2. CASE At(h, "getObject")
    BY <1>3, <2>2 DEF FilesInv, StartsEmpty, S3!KeysOf
  <2>3. CASE FinalizeEnd(h)
    <3>1. PICK r \in publishes : r.id = handler[h].id /\ r.status = "Created"
      BY <2>3 DEF FilesInv, ApartInv, UploadsThere, FinalizeEnd, At, Started
    <3>2. [r EXCEPT !.status = "Published", !.entries = tx[h].req.entries] \in publishes'
      BY <1>0, <2>3, <3>1, Finalizing, MaxPublishesAssumption, RepoProofs!FinalizeShows
    <3>3. Retired(k[1])'
      BY <1>0, <1>3, <3>1, <3>2, RepoTyped DEF Retired, Repo!PublishDocs
    <3> QED BY <3>3 DEF KeptOrUsed
  <2>4. CASE /\ At(h, "delete")
             /\ \/ S3!DeleteObjects(handler[h].keys)
                \/ S3!DeleteRefused(handler[h].keys) /\ bucket' = bucket
    <3>1. k \in handler[h].keys
      BY <1>3, <2>4 DEF FilesInv, ListedAll, S3!KeysOf
    <3> QED BY <2>4, <3>1 DEF S3!DeleteObjects, S3!DeleteRefused
  <2> QED BY <1>0, <1>3, <2>1, <2>2, <2>3, <2>4, UseEnds
<1> QED BY <1>1, <1>2, <1>3 DEF FilesInv, FilesKept, KeptOrUsed

LEMMA StaysEmpty ==
  ASSUME FilesInv, [Next]_vars, "sharedUrl" \notin Faults
  PROVE  StartsEmpty'
<1> SUFFICES ASSUME NEW h \in Handlers, handler'[h].pc = "getObject",
                    NEW k \in bucket', k[1] = handler'[h].id
             PROVE  FALSE
  BY DEF StartsEmpty, At, S3!KeysOf
<1>0. IInv /\ UploadInv /\ TxMatches
  BY DEF FilesInv, ApartInv, UploadInv
<1>1. CASE handler'[h] = handler[h]
  <2>1. k \in bucket
    BY <1>1, UsedGrowsNot DEF FilesInv, Uses
  <2> QED BY <1>1, <2>1 DEF FilesInv, StartsEmpty, At, S3!KeysOf
<1>2. CASE HandlerStep(h)
  <2>1. GetPublish(h)
    BY <1>0, <1>2, UploadMoves DEF Started
  <2>2. PICK p \in publishes :
          /\ p.id = handler'[h].id /\ p.status = "Created"
          /\ \A g \in Handlers : ~InUse(g, p.id)
    BY <1>0, <1>2, <2>1, UploadMoves DEF Started, GetPublish, At, Idle
  <2>3. k \in bucket
    BY <2>1 DEF GetPublish
  <2>4. ~Retired(k[1])
    BY <1>0, <2>2 DEF Retired, IInv, RepoProofs!IInv, RepoProofs!UniqueIds
  <2>5. \A g \in Handlers : Uses(handler[g]) /\ handler[g].id = k[1] => InUse(g, p.id)
    BY <2>2 DEF InUse, Uploading, Uses
  <2> QED BY <2>2, <2>3, <2>4, <2>5 DEF FilesInv, FilesKept, KeptOrUsed
<1> QED BY <1>0, <1>1, <1>2, StepsOf DEF Started

\* So does the cleanup: it deletes what it listed, and then the publish.
LEMMA CleanerLists ==
  ASSUME IInv, [Next]_vars
  PROVE  /\ cleaner'.pc = "delete" => cleaner' = cleaner \/ CleanerListFiles
         /\ cleaner'.pc = "deletePublish" =>
              \/ cleaner' = cleaner
              \/ /\ CleanerAt("delete") /\ cleaner'.id = cleaner.id
                 /\ DeleteDone(cleaner.keys)
<1> DEFINE Other(s) == s.pc \notin {"delete", "deletePublish"}
<1>1. /\ Other(Idle) /\ Other([pc |-> "find"]) /\ Other(NextId)
      /\ \A c : Other([pc |-> "publishes", cutoff |-> c])
      /\ \A todo : Other([pc |-> "iterate", todo |-> todo])
  BY DEF Idle, NextId
<1>2. CleanerAt("publishes") => Other([cleaner EXCEPT !.pc = "objects"])
  BY CleanerStatesOf DEF IInv
<1>3. CASE CleanerListFiles
  <2>1. ASSUME NEW rest PROVE Other([cleaner EXCEPT !.todo = rest])
    BY <1>3, CleanerStatesOf DEF IInv, CleanerListFiles, CleanerAt
  <2>2. ASSUME NEW id, NEW keys, NEW rest
        PROVE  [pc |-> "delete", id |-> id, keys |-> keys, todo |-> rest].pc = "delete"
    OBVIOUS
  <2> HIDE DEF Other
  <2>3. Other(cleaner') \/ cleaner'.pc = "delete"
    BY <1>3, <2>1, <2>2 DEF CleanerListFiles, CleanerGoto
  <2> QED BY <1>3, <2>3 DEF Other
<1>4. CASE CleanerDeleteFiles
  BY <1>1, <1>4 DEF CleanerDeleteFiles, CleanerGoto
<1>5. CASE CleanerStatementFails
  BY <1>1, <1>2, <1>5 DEF CleanerStatementFails, CleanerGoto, CleanerAfterError, CleanerAt
<1>6. CASE \/ CleanupStart \/ DeleteOutdatedPublishes \/ DeleteOutdatedObjects
           \/ FindReadyToDelete \/ DeletePublish \/ CleanupEnd \/ Crash
  <2> HIDE DEF Other
  <2>1. cleaner' = cleaner \/ Other(cleaner')
    BY <1>1, <1>2, <1>6
       DEF CleanupStart, DeleteOutdatedPublishes, DeleteOutdatedObjects,
           FindReadyToDelete, DeletePublish, CleanupEnd, Crash, CleanerGoto
  <2> QED BY <2>1 DEF Other
<1>7. ASSUME NEW h \in Handlers, HandlerStep(h) PROVE UNCHANGED cleaner
  BY <1>7, HandlerBucket
<1> QED BY <1>3, <1>4, <1>5, <1>6, <1>7 DEF Next, CleanerStep, Age, vars

LEMMA ListedStays ==
  ASSUME FilesInv, UploadsFit, ListMax \in Nat, [Next]_vars
  PROVE  ListedAll'
<1>0. IInv /\ UploadInv /\ TxMatches /\ KeysOwn /\ ApartInv
  BY DEF FilesInv, ApartInv, UploadInv
<1>1. ASSUME NEW h \in Handlers, handler'[h].pc = "delete",
             NEW k \in bucket', k[1] = handler'[h].id
      PROVE  k \in handler'[h].keys
  <2>1. CASE handler'[h] = handler[h]
    <3>1. k \in bucket
      BY <1>0, <1>1, <2>1, UsedGrowsNot DEF Uses
    <3> QED BY <1>1, <2>1, <3>1 DEF FilesInv, ListedAll, At, S3!KeysOf
  <2>2. CASE HandlerStep(h)
    <3>1. ListFiles(h)
      BY <1>0, <1>1, <2>2, OnlyLists
    <3>2. PICK keys \in S3!Listings(handler[h].id) :
            handler'[h] = [pc |-> "delete", id |-> handler[h].id, keys |-> keys]
      BY <1>0, <1>1, <3>1 DEF ListFiles, Idle, Goto, IInv, HandlersSound
    <3>3. handler[h].id \in Repo!PublishIds
      BY <1>0, <3>1, StatesOf DEF IInv, ListFiles
    <3>4. keys = S3!KeysOf(handler[h].id)
      BY <3>2, <3>3, ListingIsWhole DEF UploadsFit
    <3>5. k \in bucket
      BY <3>1 DEF ListFiles
    <3> QED BY <1>1, <3>2, <3>4, <3>5 DEF S3!KeysOf
  <2> QED BY <1>0, <1>1, <2>1, <2>2, Moves DEF Idle
<1>2. ASSUME cleaner'.pc = "delete", NEW k \in bucket', k[1] = cleaner'.id
      PROVE  k \in cleaner'.keys
  <2>1. CASE cleaner' = cleaner
    <3>1. k \in bucket
      BY <1>0, <1>2, <2>1, CleanedGrowsNot DEF Cleans
    <3> QED BY <1>2, <2>1, <3>1 DEF FilesInv, ListedAll, CleanerAt, S3!KeysOf
  <2>2. CASE CleanerListFiles
    <3>1. PICK id \in cleaner.todo :
            \E keys \in S3!Listings(id) :
              cleaner' = [pc |-> "delete", id |-> id, keys |-> keys,
                          todo |-> cleaner.todo \ {id}]
      <4>1. \A rest : [cleaner EXCEPT !.todo = rest].pc # "delete"
        BY <1>0, <2>2, CleanerStatesOf DEF IInv, CleanerListFiles, CleanerAt
      <4> QED BY <1>2, <2>2, <4>1 DEF CleanerListFiles, CleanerGoto
    <3>2. id \in Repo!PublishIds
      BY <1>0, <2>2, CleanerStatesOf DEF IInv, CleanerListFiles, CleanerAt
    <3>3. \A keys \in S3!Listings(id) : keys = S3!KeysOf(id)
      BY <3>2, ListingIsWhole DEF UploadsFit
    <3>4. k \in bucket
      BY <2>2 DEF CleanerListFiles
    <3> QED BY <1>2, <3>1, <3>3, <3>4 DEF S3!KeysOf
  <2> QED BY <1>0, <1>2, <2>1, <2>2, CleanerLists
<1> QED BY <1>1, <1>2 DEF ListedAll, At, CleanerAt, S3!KeysOf

LEMMA NoneStaysLeft ==
  ASSUME FilesInv, [Next]_vars, "s3" \notin Faults
  PROVE  NoneLeft'
<1> SUFFICES ASSUME cleaner'.pc = "deletePublish", NEW k \in bucket', k[1] = cleaner'.id
             PROVE  FALSE
  BY DEF NoneLeft, CleanerAt, S3!KeysOf
<1>0. IInv /\ UploadInv /\ TxMatches /\ ApartInv
  BY DEF FilesInv, ApartInv, UploadInv
<1>1. CASE cleaner' = cleaner
  <2>1. k \in bucket
    BY <1>0, <1>1, CleanedGrowsNot DEF Cleans
  <2> QED BY <1>1, <2>1 DEF FilesInv, NoneLeft, CleanerAt, S3!KeysOf
<1>2. CASE CleanerAt("delete") /\ cleaner'.id = cleaner.id /\ DeleteDone(cleaner.keys)
  <2>1. bucket' = bucket \ cleaner.keys
    BY <1>2 DEF DeleteDone, S3!DeleteObjects
  <2> QED BY <1>2, <2>1 DEF FilesInv, ListedAll, S3!KeysOf
<1> QED BY <1>0, <1>1, <1>2, CleanerLists

LEMMA FilesStep ==
  ASSUME FilesInv, UploadsFit, ListMax \in Nat, [Next]_vars,
         {"sharedUrl", "slowUpload", "crash", "s3"} \cap Faults = {}
  PROVE  FilesInv'
<1>1. /\ "sharedUrl" \notin Faults /\ "slowUpload" \notin Faults
      /\ "crash" \notin Faults /\ "s3" \notin Faults
  OBVIOUS
<1> QED BY <1>1, ApartStep, FilesStayKept, StaysEmpty, ListedStays, NoneStaysLeft
        DEF FilesInv

LEMMA FilesInit == Init => FilesInv
BY ApartInit DEF Init, FilesInv, FilesKept, ListedAll, NoneLeft, StartsEmpty, Idle, At,
                 CleanerAt

LEMMA ReadyStaysAccounted ==
  ASSUME FilesInv, [Next]_vars, NEW k \in bucket,
         NEW p \in publishes, p.id = k[1], p.status = "ReadyToDelete"
  PROVE  \E q \in publishes' : q.id = k[1] /\ q.status = "ReadyToDelete"
<1>0. IInv /\ UploadInv
  BY DEF FilesInv, ApartInv
<1>1. PICK q \in publishes' : q.id = k[1]
  BY RetiredStays DEF Retired
<1> QED BY <1>0, <1>1, NothingReturns

\* What a page shows is shown still, or was handed to the cleanup, or replaced unread.
LEMMA ShownStaysAccounted ==
  ASSUME FilesInv, SnapshotWhole, TxWhole, [Next]_vars, "sharedUrl" \notin Faults,
         NEW k \in bucket, NEW p \in publishes, p.id = k[1], p.status # "ReadyToDelete",
         NEW d \in objects, d.active = p.id
  PROVE  Accounted(k)' \/ FinalizedLate(k)
<1>0. IInv /\ UploadInv /\ TxMatches /\ UsersApart /\ RepoProofs!IInv
  BY DEF FilesInv, ApartInv, UploadInv, IInv
<1>1. PICK q \in publishes' : q.id = k[1]
  <2>1. p.status # "Created"
    BY <1>0 DEF RepoProofs!IInv, RepoProofs!ActiveWasFinalized
  <2> QED BY <2>1, RetiredStays DEF Retired
<1> SUFFICES ASSUME \A e \in objects' : e.active # d.active, q.status # "ReadyToDelete"
             PROVE  FinalizedLate(k)
  BY <1>1 DEF Accounted
<1>2. d \notin objects'
  OBVIOUS
<1>3. ASSUME NEW h \in Handlers, PublishEnd(h) PROVE FALSE
  <2> DEFINE req == tx[h].req
             wanted == Repo!ObjectId(req.sharing, req.uri)
  <2>1. RepoProofs!ObjectCreate(h)
    BY <1>3, SameTransactions DEF PublishEnd
  <2>2. \/ objects \subseteq objects'
        \/ \E c \in objects :
             objects' = (objects \ {c}) \cup {RepoProofs!Moved(c, wanted)}
    BY <1>0, <2>1, SameIds, MaxPublishesAssumption, RepoProofs!CreateObjects
  <2>3. RepoProofs!Moved(d, wanted) \in objects'
    BY <1>2, <2>2
  <2>4. RepoProofs!Moved(d, wanted).active = d.active
    BY <1>0, RepoTyped DEF RepoProofs!Moved, Repo!ObjectDocs
  <2> QED BY <2>3, <2>4
<1>4. ASSUME NEW h \in Handlers, UnPublishEnd(h) PROVE FALSE
  <2>1. RepoProofs!ObjectDelete(h)
    BY <1>4, SameTransactions DEF UnPublishEnd
  <2>2. PICK c \in objects : objects' = objects \ {c}
    BY <1>0, <2>1, MaxPublishesAssumption, RepoProofs!DeleteObjects
  <2>3. c = d /\ \A e \in objects : e.id = d.id => e = d
    BY <1>0, <1>2, <2>2 DEF RepoProofs!IInv, RepoProofs!UniqueIds
  <2>4. Repo!Removed(d) /\ ~ \E e \in objects' : Repo!Added(e)
    BY <2>2, <2>3 DEF Repo!Removed, Repo!Added, Repo!Ids
  <2> QED BY <1>0, <1>1, <2>4, Retires
<1>5. ASSUME NEW h \in Handlers, FinalizeEnd(h) PROVE FinalizedLate(k)
  <2>1. /\ RepoProofs!FinalizePublish(h) /\ At(h, "finalize")
        /\ tx[h].req.id = handler[h].id /\ tx[h].req.objectId = handler[h].objectId
    BY <1>0, <1>5, Finalizing DEF TxWhole
  <2>2. PICK c \in objects :
          /\ c.id = handler[h].objectId
          /\ objects' = (objects \ {c}) \cup {[c EXCEPT !.active = handler[h].id]}
    BY <1>0, <1>2, <2>1, MaxPublishesAssumption, RepoProofs!FinalizeObjects
  <2>3. c = d
    BY <1>2, <2>2
  <2> DEFINE e == [d EXCEPT !.active = handler[h].id]
  <2>4. e \in objects' /\ e.id = d.id /\ e.active = handler[h].id
    BY <1>0, <2>2, <2>3, RepoTyped DEF Repo!ObjectDocs
  <2> HIDE DEF e
  <2>5. PICK g \in Handlers : /\ At(g, "finalize") /\ handler[g].id = e.active
                              /\ handler[g].prev # d.active
    BY <1>0, <1>1, <2>4, Replaces
  <2>6. g = h
    BY <1>0, <2>1, <2>4, <2>5 DEF UsersApart, Uses, At
  <2> QED BY <1>5, <2>2, <2>3, <2>5, <2>6 DEF FinalizedLate
<1> QED BY <1>0, <1>2, <1>3, <1>4, <1>5, Writers

\* A request that is done with a publish has shown it, deleted its files, or is late.
LEMMA UsedStaysAccounted ==
  ASSUME FilesInv, TxWhole, [Next]_vars, "crash" \notin Faults, "s3" \notin Faults,
         NEW k \in bucket, k \in bucket',
         NEW h \in Handlers, Uses(handler[h]), handler[h].id = k[1]
  PROVE  Accounted(k)' \/ FinalizedLate(k)
<1>0. IInv /\ UploadInv /\ TxMatches
  BY DEF FilesInv, ApartInv, UploadInv
<1>1. CASE Uses(handler'[h]) /\ handler'[h].id = handler[h].id
  BY <1>1 DEF Accounted, InUse, Uploading, Uses
<1>2. CASE At(h, "getObject")
  BY <1>2 DEF FilesInv, StartsEmpty, S3!KeysOf
<1>3. CASE FinalizeEnd(h)
  <2>1. /\ RepoProofs!IInv /\ RepoProofs!FinalizePublish(h)
        /\ tx[h].req.id = handler[h].id /\ tx[h].req.objectId = handler[h].objectId
    BY <1>0, <1>3, Finalizing DEF TxWhole
  <2>2. CASE ~ \E d \in tx[h].objects : d.id = handler[h].objectId
    BY <1>3, <2>2 DEF FinalizedLate
  <2>3. CASE \E d \in tx[h].objects : d.id = handler[h].objectId
    <3>1. PICK c \in objects :
            objects' = (objects \ {c}) \cup {[c EXCEPT !.active = handler[h].id]}
      BY <2>1, <2>3, MaxPublishesAssumption, RepoProofs!FinalizeObjects DEF RepoProofs!Ids
    <3>2. \E e \in objects' : e.active = handler[h].id
      <4>1. [c EXCEPT !.active = handler[h].id].active = handler[h].id
        BY <1>0, <3>1, RepoTyped DEF Repo!ObjectDocs
      <4> QED BY <3>1, <4>1
    <3>3. PICK r \in publishes : r.id = handler[h].id /\ r.status = "Created"
      BY <1>3 DEF FilesInv, ApartInv, UploadsThere, FinalizeEnd, At, Started
    <3>4. [r EXCEPT !.status = "Published", !.entries = tx[h].req.entries] \in publishes'
      BY <2>1, <3>3, MaxPublishesAssumption, RepoProofs!FinalizeShows
    <3>5. \E q \in publishes' : q.id = k[1]
      <4>1. [r EXCEPT !.status = "Published", !.entries = tx[h].req.entries].id = r.id
        BY <1>0, RepoTyped DEF Repo!PublishDocs
      <4> QED BY <3>3, <3>4, <4>1
    <3> QED BY <3>2, <3>5 DEF Accounted
  <2> QED BY <2>2, <2>3
<1>4. CASE /\ At(h, "delete")
           /\ \/ S3!DeleteObjects(handler[h].keys)
              \/ S3!DeleteRefused(handler[h].keys) /\ bucket' = bucket
  <2>1. k \in handler[h].keys
    BY <1>4 DEF FilesInv, ListedAll, S3!KeysOf
  <2> QED BY <1>4, <2>1 DEF S3!DeleteObjects, S3!DeleteRefused
<1> QED BY <1>0, <1>1, <1>2, <1>3, <1>4, UseEnds

LEMMA FilesStayAccounted ==
  ASSUME FilesInv, SnapshotWhole, TxWhole, [Next]_vars,
         {"sharedUrl", "crash", "s3"} \cap Faults = {}
  PROVE  KeepsAccounted
<1> SUFFICES ASSUME NEW k \in bucket', k \in bucket => Accounted(k)
             PROVE  Accounted(k)' \/ FinalizedLate(k)
  BY DEF KeepsAccounted
<1>0. IInv /\ "sharedUrl" \notin Faults /\ "crash" \notin Faults /\ "s3" \notin Faults
  BY DEF FilesInv, ApartInv
<1>1. CASE k \notin bucket
  <2>1. \E h \in Handlers : Uses(handler'[h]) /\ handler'[h].id = k[1]
    BY <1>0, <1>1, BucketGrows
  <2> QED BY <2>1 DEF Accounted, InUse, Uploading, Uses
<1>2. ASSUME k \in bucket, NEW h \in Handlers, InUse(h, k[1])
      PROVE  Accounted(k)' \/ FinalizedLate(k)
  <2>1. Uses(handler[h]) /\ handler[h].id = k[1]
    BY <1>2 DEF InUse, Uploading, Uses
  <2> QED BY <1>0, <1>2, <2>1, UsedStaysAccounted
<1>3. ASSUME k \in bucket, NEW p \in publishes, p.id = k[1],
             p.status = "ReadyToDelete" \/ \E d \in objects : d.active = p.id
      PROVE  Accounted(k)' \/ FinalizedLate(k)
  <2>1. CASE p.status = "ReadyToDelete"
    BY <1>3, <2>1, ReadyStaysAccounted DEF Accounted
  <2>2. CASE p.status # "ReadyToDelete"
    BY <1>0, <1>3, <2>2, ShownStaysAccounted
  <2> QED BY <2>1, <2>2
<1> QED BY <1>1, <1>2, <1>3 DEF Accounted

--------------------------------------------------------------------------------
(* The theorems *)

\* As long as no publish has more files than DeletePath gets listed at once, no file in
\* the bucket loses who will delete it, the request at work on it or the cleanup that
\* finds its publish ReadyToDelete, now or when its page shows it no more: whatever
\* interleaves, and whether or not statements fail and commits look failed.  The one
\* exception is an upload that is finalized too late, when its page was unpublished or
\* moved away, or shows another than the upload read.  This takes that S3 answers, that
\* the server does not stop in the middle of an upload, that no url is uploaded to twice
\* at a time and that uploads end within the hour (service.go:167-206, 259-294;
\* store.go:101-133; publishrepo.go:287-334).
THEOREM AllFilesAccounted ==
  ASSUME ListMax \in Nat, {"sharedUrl", "slowUpload", "crash", "s3"} \cap Faults = {}
  PROVE  Spec /\ []UploadsFit => FilesAccounted
<1> DEFINE Inv == FilesInv /\ SnapshotWhole /\ TxWhole
<1>1. Init => Inv
  BY FilesInit, SnapshotsInit, PagesInit DEF PagesInv
<1>2. ASSUME Inv, UploadsFit, [Next]_vars PROVE Inv'
  <2>1. IInv /\ UploadInv
    BY <1>2 DEF FilesInv, ApartInv
  <2> QED BY <1>2, <2>1, FilesStep, SnapshotsStay, TxStaysWhole
<1>3. Inv /\ [Next]_vars => [KeepsAccounted]_vars
  <2>1. {"sharedUrl", "crash", "s3"} \cap Faults = {}
    OBVIOUS
  <2> QED BY <2>1, FilesStayAccounted
<1> HIDE DEF Inv
<1> QED BY <1>1, <1>2, <1>3, PTL DEF Spec, FilesAccounted

\* In particular if no archive holds more names than that.
THEOREM SmallUploadsAccounted ==
  ASSUME ListMax \in Nat, {"sharedUrl", "slowUpload", "crash", "s3"} \cap Faults = {},
         IsFiniteSet(Files), Cardinality(Files) <= ListMax
  PROVE  Spec => FilesAccounted
<1>1. IInv => UploadsFit
  <2> SUFFICES ASSUME IInv, NEW id PROVE ListsAll(id)
    BY DEF UploadsFit
  <2> DEFINE S == S3!KeysOf(id)
             f == [k \in S |-> k[2]]
  <2>1. S \subseteq Keys /\ \A k \in S : k[1] = id
    BY DEF IInv, S3!KeysOf
  <2>2. \A k \in S : k = <<id, k[2]>> /\ k[2] \in Files
    BY <2>1 DEF Keys
  <2> HIDE DEF S
  <2>3. f \in Injection(S, Files)
    <3>1. f \in [S -> Files]
      BY <2>2
    <3>2. \A j, k \in S : f[j] = f[k] => j = k
      BY <2>2
    <3> QED BY <3>1, <3>2 DEF Injection, IsInjective
  <2>4. IsFiniteSet(S) /\ Cardinality(S) <= Cardinality(Files)
    BY <2>3, FS_Injection
  <2>5. Cardinality(S) \in Nat /\ Cardinality(Files) \in Nat
    BY <2>4, FS_CardinalityType
  <2> QED BY <2>4, <2>5 DEF ListsAll, S
<1> QED BY <1>1, AllFilesAccounted, Invariant, PTL

================================================================================
