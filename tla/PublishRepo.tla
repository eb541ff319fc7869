------------------------------ MODULE PublishRepo ------------------------------
(***************************************************************************)
(* The repository of publishes (publish/publishrepo) over the MongoDB      *)
(* transactions of db/db.go.                                               *)
(*                                                                         *)
(* The collection "object" holds one document per shared page, whose _id   *)
(* is Identity/Uri; the collection "publish" holds one document per upload *)
(* that was asked for.  A collection is the set of its documents.          *)
(*                                                                         *)
(* Every caller of db.Tx works on the snapshot its transaction took at its *)
(* first statement.  It commits only if no document it writes was written  *)
(* by somebody else since (MongoDB's WriteConflict); otherwise, and        *)
(* whenever a statement fails, it aborts and leaves no trace.  Two         *)
(* transactions that write different documents both commit, even if each   *)
(* read what the other wrote.                                              *)
(*                                                                         *)
(* Here the callers are the most general ones the service has: any caller  *)
(* may ask for anything at any time, with arguments it read long ago.      *)
(***************************************************************************)
EXTENDS Naturals

CONSTANTS
  Callers,       \* goroutines that call the repository
  Identities,    \* accounts
  Pages,         \* (spaceId, objectId) pairs
  Uris,          \* what an account may name a page
  Files,         \* names of the files an upload may hold
  MaxPublishes   \* bound on the number of publishes ever created

ASSUME MaxPublishesAssumption == MaxPublishes \in Nat

VARIABLES
  objects,       \* the collection "object"
  publishes,     \* the collection "publish"
  lastId,        \* the last publish id handed out; ids grow with time
  tx             \* tx[c]: the transaction caller c has open, or NoTx

vars == <<objects, publishes, lastId, tx>>

--------------------------------------------------------------------------------
(* Documents *)

PublishIds == 1..MaxPublishes
NoPublish == 0                      \* activePublishId absent (omitempty)
Sharings == Identities \X Pages     \* what the index on "object" is over
ObjectIds == Identities \X Uris
Statuses == {"Created", "Published", "ReadyToDelete"}

ObjectId(sharing, uri) == <<sharing[1], uri>>

\* Time is counted in publishes: a document's age is the publish it came with.
ObjectDocs == [id : ObjectIds, sharing : Sharings,
               active : PublishIds \cup {NoPublish}, timestamp : PublishIds]

\* entries: the files whose sizes add up to Publish.Size.
PublishDocs == [id : PublishIds, objectId : ObjectIds, status : Statuses,
                entries : SUBSET Files]

\* Mutant: the object points to its first publish before it was uploaded.
ActiveAtOnce(sharing, uri, now) ==
  [id |-> ObjectId(sharing, uri), sharing |-> sharing,
   active |-> now, timestamp |-> now]

NewObject(sharing, uri, now) ==
  [id |-> ObjectId(sharing, uri), sharing |-> sharing,
   active |-> NoPublish, timestamp |-> now]

createPublish(object, id) ==
  [id |-> id, objectId |-> object.id, status |-> "Created", entries |-> {}]

Ids(docs) == {d.id : d \in docs}

\* The collection after the documents with these ids are replaced by docs.
Replace(collection, ids, docs) == {d \in collection : d.id \notin ids} \cup docs

--------------------------------------------------------------------------------
(* Transactions *)

CreateRequests == [op : {"ObjectCreate"}, sharing : Sharings, uri : Uris]
DeleteRequests == [op : {"ObjectDelete"}, sharing : Sharings]

\* objectId and prev are what GetPublish read of the object, possibly long ago.
FinalizeRequests == [op : {"FinalizePublish"}, objectId : ObjectIds,
                     prev : PublishIds \cup {NoPublish}, id : PublishIds,
                     entries : SUBSET Files]

NoRequest == [op |-> "none"]
Requests == CreateRequests \cup DeleteRequests \cup FinalizeRequests

\* dirtyObjects, dirtyPublishes: ids somebody else wrote since the snapshot.
Transactions == [req : Requests \cup {NoRequest},
                 objects : SUBSET ObjectDocs, publishes : SUBSET PublishDocs,
                 dirtyObjects : SUBSET ObjectIds,
                 dirtyPublishes : SUBSET PublishIds]

NoTx == [req |-> NoRequest, objects |-> {}, publishes |-> {},
         dirtyObjects |-> {}, dirtyPublishes |-> {}]

InTx(c, op) == tx[c].req.op = op

Begin(c, req) ==
  /\ tx[c] = NoTx
  /\ tx' = [tx EXCEPT ![c] = [req |-> req, objects |-> objects,
                              publishes |-> publishes, dirtyObjects |-> {},
                              dirtyPublishes |-> {}]]
  /\ UNCHANGED <<objects, publishes, lastId>>

\* What an open transaction learns of a write it did not make.
Missed(t, objectIds, publishIds) ==
  IF t = NoTx THEN t
  ELSE [t EXCEPT !.dirtyObjects = @ \cup objectIds,
                 !.dirtyPublishes = @ \cup publishIds]

\* Mutant: the statements run outside a transaction.
NeverConflict(t, objectIds, publishIds) == TRUE

\* Did nobody else write these documents since the snapshot of t was taken?
NoConflict(t, objectIds, publishIds) ==
  /\ objectIds \cap t.dirtyObjects = {}
  /\ publishIds \cap t.dirtyPublishes = {}

\* The transaction of c removes the object documents in removed and writes
\* those in objs and pubs: no write conflict, and all of it at once.
Commit(c, removed, objs, pubs) ==
  LET oids == Ids(removed \cup objs)
      pids == Ids(pubs)
  IN  /\ NoConflict(tx[c], oids, pids)
      /\ objects' = Replace(objects, oids, objs)
      /\ publishes' = Replace(publishes, pids, pubs)
      /\ tx' = [o \in Callers |->
                  IF o = c THEN NoTx ELSE Missed(tx[o], oids, pids)]

\* A statement of each of these transactions failed: duplicate key, nothing
\* found, write conflict, lost connection, the server stopped.
Abort(callers) ==
  /\ callers # {}
  /\ \A c \in callers : tx[c] # NoTx
  /\ tx' = [c \in Callers |-> IF c \in callers THEN NoTx ELSE tx[c]]
  /\ UNCHANGED <<objects, publishes, lastId>>

--------------------------------------------------------------------------------
(* The repository's transactions, as they commit *)

\* Mutant: the id of the last publish is used again.
ReusedPublishId == lastId

\* primitive.NewObjectID: greater than every earlier one.
NewPublishId == lastId + 1

\* changeObjectUri
Moved(d, id) == [d EXCEPT !.id = id]

\* The documents FindOne may return for a sharing.
Found(t) == {d \in t.objects : d.sharing = t.req.sharing}

ObjectCreate(c) ==
  LET t == tx[c]
      wanted == ObjectId(t.req.sharing, t.req.uri)
      id == NewPublishId
  IN  /\ InTx(c, "ObjectCreate")
      /\ lastId < MaxPublishes
      /\ lastId' = id
      /\ \/ /\ Found(t) = {}
            /\ wanted \notin Ids(t.objects)
            /\ LET d == NewObject(t.req.sharing, t.req.uri, id)
               IN  Commit(c, {}, {d}, {createPublish(d, id)})
         \/ \E d \in Found(t) :
              /\ d.id = wanted
              /\ Commit(c, {}, {}, {createPublish(d, id)})
         \/ \E d \in Found(t) :
              /\ d.id # wanted
              /\ wanted \notin Ids(t.objects)
              /\ LET moved == Moved(d, wanted)
                 IN  Commit(c, {d}, {moved}, {createPublish(moved, id)})

\* The publish documents an update of the status to ReadyToDelete writes: none
\* if there is no such publish, and none if it has that status already.
markPublishToDelete(t, id) ==
  {[p EXCEPT !.status = "ReadyToDelete"] : p \in {q \in t.publishes : q.id = id}}
    \ t.publishes

ObjectDelete(c) ==
  LET t == tx[c]
  IN  /\ InTx(c, "ObjectDelete")
      /\ \E d \in Found(t) : Commit(c, {d}, {}, markPublishToDelete(t, d.active))
      /\ UNCHANGED lastId

\* Mutant: the publish that is replaced is left as it is.
NotMarked(t) == {}

\* What the three updates of FinalizePublish write.  None asks whether it matched
\* a document; the last one always writes, as it sets the time of the update.
Marked(t) == {p \in markPublishToDelete(t, t.req.prev) : p.id # t.req.id}

Finalized(t) ==
  {[p EXCEPT !.status = "Published", !.entries = t.req.entries] :
     p \in {q \in t.publishes : q.id = t.req.id}} \ t.publishes

Updated(t) ==
  {[d EXCEPT !.active = t.req.id] : d \in {e \in t.objects : e.id = t.req.objectId}}

FinalizePublish(c) ==
  /\ InTx(c, "FinalizePublish")
  /\ Commit(c, {}, Updated(tx[c]), Marked(tx[c]) \cup Finalized(tx[c]))
  /\ UNCHANGED lastId

--------------------------------------------------------------------------------
(* Writes outside a transaction, used by Cleanup *)

RemovePublishes(ids) ==
  /\ publishes' = Replace(publishes, ids, {})
  /\ tx' = [o \in Callers |-> Missed(tx[o], {}, ids)]
  /\ UNCHANGED <<objects, lastId>>

ReadyToDeleteIds == Ids({p \in publishes : p.status = "ReadyToDelete"})

\* Mutant: the filter matches nothing.
DeleteNoPublish(id) == RemovePublishes({})

DeletePublish(id) == RemovePublishes({id} \cap Ids(publishes))

\* Mutant: the filter is on the status of what the iteration deletes anyway.
OfWrongStatus(cutoff) ==
  Ids({p \in publishes : p.status = "ReadyToDelete" /\ p.id <= cutoff})

\* The publishes never uploaded that are older than cutoff.
Outdated(cutoff) ==
  Ids({p \in publishes : p.status = "Created" /\ p.id <= cutoff})

\* DeleteMany removes its documents one by one.
DeleteOutdatedPublish(cutoff) ==
  \E id \in Outdated(cutoff) : RemovePublishes({id})

\* The filter of DeleteOutdatedObjects.  A document without a timestamp does
\* not match a condition on it.
OutdatedObject(doc, cutoff) ==
  /\ "active" \in DOMAIN doc => doc.active = NoPublish
  /\ "timestamp" \in DOMAIN doc
  /\ doc.timestamp <= cutoff

\* The filter is applied to the collection "publish".
DeleteOutdatedObjects(cutoff) ==
  RemovePublishes(Ids({p \in publishes : OutdatedObject(p, cutoff)}))

--------------------------------------------------------------------------------

Init ==
  /\ objects = {}
  /\ publishes = {}
  /\ lastId = 0
  /\ tx = [c \in Callers |-> NoTx]

BeginCreate(c) ==
  \E s \in Sharings, u \in Uris :
    Begin(c, [op |-> "ObjectCreate", sharing |-> s, uri |-> u])

BeginDelete(c) ==
  \E s \in Sharings : Begin(c, [op |-> "ObjectDelete", sharing |-> s])

\* A caller names the publish and the previous publish that GetPublish read once,
\* and the object of that publish, which never changes.
BeginFinalize(c) ==
  \E o \in ObjectIds, prev \in 0..lastId, id \in 1..lastId, f \in SUBSET Files :
    /\ \A p \in publishes : p.id = id => p.objectId = o
    /\ Begin(c, [op |-> "FinalizePublish", objectId |-> o, prev |-> prev,
                 id |-> id, entries |-> f])

CallerStep(c) ==
  \/ BeginCreate(c) \/ BeginDelete(c) \/ BeginFinalize(c)
  \/ ObjectCreate(c) \/ ObjectDelete(c) \/ FinalizePublish(c)

CleanupStep ==
  \/ \E id \in 1..lastId : DeletePublish(id)
  \/ \E cutoff \in 0..lastId : DeleteOutdatedPublish(cutoff)
  \/ \E cutoff \in 0..lastId : DeleteOutdatedObjects(cutoff)

Next ==
  \/ \E c \in Callers : CallerStep(c)
  \/ \E callers \in SUBSET Callers : Abort(callers)
  \/ CleanupStep

Spec == Init /\ [][Next]_vars

--------------------------------------------------------------------------------
(* Properties *)

TypeOK ==
  /\ objects \subseteq ObjectDocs
  /\ publishes \subseteq PublishDocs
  /\ lastId \in 0..MaxPublishes
  /\ tx \in [Callers -> Transactions]

\* What a page shows was uploaded: the publish an object points to has left the
\* status Created, so that DeleteOutdatedPublishes never takes it away
\* (FinalizePublish, publishrepo.go:287-320, against 350-362).
ActiveWasFinalized ==
  \A d \in objects, p \in publishes : d.active = p.id => p.status # "Created"

Removed(d) == d \in objects /\ d.id \notin Ids(objects')
Added(e) == e \in objects' /\ e.id \notin Ids(objects)

\* Does each document that leaves under one id and comes under another keep the
\* rest of itself?
MovesWhole ==
  \A d \in objects, e \in objects' :
    d.sharing = e.sharing /\ Removed(d) /\ Added(e) => e = [d EXCEPT !.id = e.id]

KeepsItsPage == \A d \in objects, e \in objects' : d.id = e.id => d.sharing = e.sharing

\* Changing the uri of a page moves its document and loses nothing of it, in
\* particular not an upload that was finalized while the transaction was open
\* (changeObjectUri, publishrepo.go:147-160).
RenameKeepsPage == [][MovesWhole]_vars

\* An address passes to another page only after the page that had it was
\* unpublished or renamed, however the transactions that ask for it interleave
\* (ErrUriNotUnique: the inserts of publishrepo.go:127 and 153).
NoUriTheft == [][KeepsItsPage]_vars

================================================================================
