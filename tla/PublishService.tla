---------------------------- MODULE PublishService -----------------------------
(***************************************************************************)
(* The publish service (publish/service.go): the requests it handles at    *)
(* the same time, the periodic Cleanup, and restarts of the server, over   *)
(* the repository (PublishRepo) and the bucket (Store).                    *)
(*                                                                         *)
(* A step is what a goroutine does between two calls that leave the        *)
(* process: a MongoDB statement outside a transaction, the beginning and   *)
(* the end of a transaction, a call to S3.                                 *)
(*                                                                         *)
(* Faults names what the environment may do beyond requests in any order:  *)
(*   crash       the server stops and starts again                         *)
(*   s3          a list or a delete fails, or a delete does part of its    *)
(*               work                                                      *)
(*   mongo       a statement outside a transaction fails                   *)
(*   lostReply   a commit succeeds and its caller gets an error            *)
(*   sharedUrl   two requests upload to the same url at the same time      *)
(*   slowUpload  an upload ends later than an hour after its publish was   *)
(*               created                                                   *)
(*   emptyTar    an archive holds no file                                  *)
(***************************************************************************)
EXTENDS Naturals, FiniteSets

CONSTANTS
  Handlers,           \* goroutines that handle requests
  Identities, Pages, Uris, Files,
  UrisOf,             \* the uris its owner asks for, for each page
  EmptyUri,           \* the empty string, which may be one of Uris
  MaxPublishes,
  ListMax, EmptyDeleteFails,
  Faults

ASSUME FaultsAssumption ==
  Faults \subseteq {"crash", "s3", "mongo", "lostReply", "sharedUrl", "slowUpload",
                    "emptyTar"}
ASSUME UrisOfAssumption == UrisOf \in [Pages -> SUBSET Uris]
ASSUME MaxPublishesAssumption == MaxPublishes \in Nat

VARIABLES
  objects, publishes, lastId, tx,   \* of the repository
  bucket,                           \* of the store
  handler,    \* handler[h]: where goroutine h is, and its local variables
  cleaner,    \* the same for the goroutine of the periodic Cleanup
  horizon     \* publishes up to this one are older than an hour

Repo == INSTANCE PublishRepo WITH Callers <- Handlers
S3 == INSTANCE Store

repoVars == <<objects, publishes, lastId, tx>>
vars == <<repoVars, bucket, handler, cleaner, horizon>>

--------------------------------------------------------------------------------
(* Handlers *)

Idle == [pc |-> "idle"]
At(h, pc) == handler[h].pc = pc
Goto(h, state) == handler' = [handler EXCEPT ![h] = state]

\* UploadTar h is at work on publish id, between GetPublish and its end.
Uploading(h, id) ==
  handler[h].pc \in {"getObject", "put", "finalize"} /\ handler[h].id = id

\* The same, until its deferred DeletePath is over.
InUse(h, id) ==
  Uploading(h, id) \/ (handler[h].pc \in {"list", "delete"} /\ handler[h].id = id)

--------------------------------------------------------------------------------
(* How the second half of DeletePath ends, as its caller sees it *)

DeleteDone(keys) ==
  \/ S3!DeleteObjects(keys)
  \/ "s3" \in Faults /\ S3!DeleteSome(keys)

DeleteFailed(keys) ==
  /\ "s3" \in Faults \/ S3!DeleteRefused(keys)
  /\ UNCHANGED bucket

--------------------------------------------------------------------------------
(* Publish and UnPublish *)

Publish(h) ==
  /\ handler[h] = Idle
  /\ \E s \in Repo!Sharings :
       \E u \in UrisOf[s[2]] :
         Repo!Begin(h, [op |-> "ObjectCreate", sharing |-> s, uri |-> u])
  /\ Goto(h, [pc |-> "create"])
  /\ UNCHANGED <<bucket, cleaner, horizon>>

\* prevUri # "": the page moved away from d.id.
HasPrevUri(d) == Repo!Removed(d) /\ d.id[2] # EmptyUri

\* The cache of the address the page had is invalidated if there was one.
PublishEnd(h) ==
  /\ At(h, "create")
  /\ Repo!ObjectCreate(h)
  /\ \/ \E d \in objects :
          /\ HasPrevUri(d)
          /\ Goto(h, [pc |-> "invalidate", objectId |-> d.id])
     \/ /\ \/ ~ \E d \in objects : HasPrevUri(d)
           \/ "lostReply" \in Faults
        /\ Goto(h, Idle)
  /\ UNCHANGED <<bucket, cleaner, horizon>>

UnPublish(h) ==
  /\ handler[h] = Idle
  /\ \E s \in Repo!Sharings :
       Repo!Begin(h, [op |-> "ObjectDelete", sharing |-> s])
  /\ Goto(h, [pc |-> "unpublish"])
  /\ UNCHANGED <<bucket, cleaner, horizon>>

UnPublishEnd(h) ==
  /\ At(h, "unpublish")
  /\ Repo!ObjectDelete(h)
  /\ \/ \E d \in objects :
          /\ Repo!Removed(d)
          /\ Goto(h, [pc |-> "invalidate", objectId |-> d.id])
     \/ "lostReply" \in Faults /\ Goto(h, Idle)
  /\ UNCHANGED <<bucket, cleaner, horizon>>

\* The transaction of a Publish or an UnPublish fails, and so does the request.
RequestFails(h) ==
  /\ handler[h].pc \in {"create", "unpublish"}
  /\ Repo!Abort({h})
  /\ Goto(h, Idle)
  /\ UNCHANGED <<bucket, cleaner, horizon>>

\* invalidateCache returns; what it does to the cache is in PublishSystem.
Invalidate(h) ==
  /\ At(h, "invalidate")
  /\ Goto(h, Idle)
  /\ UNCHANGED <<repoVars, bucket, cleaner, horizon>>

--------------------------------------------------------------------------------
(* UploadTar *)

\* Mutant: the status is not checked.
AnyStatus(p) == TRUE

\* The check of the status; a request with a wrong id or key changes nothing.
Uploadable(p) == p.status = "Created"

GetPublish(h) ==
  /\ handler[h] = Idle
  /\ \E p \in publishes :
       /\ Uploadable(p)
       /\ "sharedUrl" \in Faults \/ \A g \in Handlers : ~InUse(g, p.id)
       /\ "slowUpload" \in Faults \/ p.id > horizon
       /\ Goto(h, [pc |-> "getObject", id |-> p.id, objectId |-> p.objectId])
  /\ UNCHANGED <<repoVars, bucket, cleaner, horizon>>

\* Mutant: the page's object is looked up wherever it is now.
AnyObject(h) == objects

ObjectOf(h) == {d \in objects : d.id = handler[h].objectId}

\* The second query of GetPublish.  Nothing is deleted if it finds nothing or fails.
GetObject(h) ==
  /\ At(h, "getObject")
  /\ \/ \E d \in ObjectOf(h) :
          Goto(h, [pc |-> "put", id |-> handler[h].id, objectId |-> d.id,
                   prev |-> d.active, done |-> {}])
     \/ (ObjectOf(h) = {} \/ "mongo" \in Faults) /\ Goto(h, Idle)
  /\ UNCHANGED <<repoVars, bucket, cleaner, horizon>>

\* Mutant: the key lacks the id of the publish.
KeyWithoutId(id, f) == <<Repo!NoPublish, f>>

FileKey(id, f) == <<id, f>>

\* The next entry of the archive.
PutFile(h) ==
  /\ At(h, "put")
  /\ \E f \in Files :
       /\ S3!Put(FileKey(handler[h].id, f))
       /\ Goto(h, [handler[h] EXCEPT !.done = @ \cup {f}])
  /\ UNCHANGED <<repoVars, cleaner, horizon>>

\* Mutant: a failed upload leaves its files behind.
LeftBehind(h) == Idle

\* What UploadTar does on its way out when it fails: its deferred DeletePath.
Failed(h) == [pc |-> "list", id |-> handler[h].id]

\* The archive is broken or too large, the client is gone, or a Put failed.
UploadFails(h) ==
  /\ At(h, "put")
  /\ Goto(h, Failed(h))
  /\ UNCHANGED <<repoVars, bucket, cleaner, horizon>>

\* The end of the archive.
Finalize(h) ==
  /\ At(h, "put")
  /\ "emptyTar" \in Faults \/ handler[h].done # {}
  /\ Repo!Begin(h, [op |-> "FinalizePublish", objectId |-> handler[h].objectId,
                    prev |-> handler[h].prev, id |-> handler[h].id,
                    entries |-> handler[h].done])
  /\ Goto(h, [handler[h] EXCEPT !.pc = "finalize"])
  /\ UNCHANGED <<bucket, cleaner, horizon>>

FinalizeEnd(h) ==
  /\ At(h, "finalize")
  /\ Repo!FinalizePublish(h)
  /\ \/ Goto(h, [pc |-> "invalidate", objectId |-> handler[h].objectId])
     \/ "lostReply" \in Faults /\ Goto(h, Failed(h))
  /\ UNCHANGED <<bucket, cleaner, horizon>>

FinalizeFails(h) ==
  /\ At(h, "finalize")
  /\ Repo!Abort({h})
  /\ Goto(h, Failed(h))
  /\ UNCHANGED <<bucket, cleaner, horizon>>

\* The DeletePath that UploadTar defers until it fails: its errors are dropped.
ListFiles(h) ==
  /\ At(h, "list")
  /\ \/ \E keys \in S3!Listings(handler[h].id) :
          Goto(h, [pc |-> "delete", id |-> handler[h].id, keys |-> keys])
     \/ "s3" \in Faults /\ Goto(h, Idle)
  /\ UNCHANGED <<repoVars, bucket, cleaner, horizon>>

DeleteFiles(h) ==
  /\ At(h, "delete")
  /\ DeleteDone(handler[h].keys) \/ DeleteFailed(handler[h].keys)
  /\ Goto(h, Idle)
  /\ UNCHANGED <<repoVars, cleaner, horizon>>

\* A request over RPC arrives.
RpcRequest(h) == Publish(h) \/ UnPublish(h)

\* The steps after which an address may show something else.
CommitStep(h) == PublishEnd(h) \/ UnPublishEnd(h) \/ FinalizeEnd(h)

UploadStep(h) ==
  \/ GetPublish(h) \/ GetObject(h) \/ PutFile(h) \/ UploadFails(h)
  \/ Finalize(h) \/ FinalizeFails(h)
  \/ ListFiles(h) \/ DeleteFiles(h)

HandlerStep(h) ==
  RpcRequest(h) \/ CommitStep(h) \/ RequestFails(h) \/ Invalidate(h) \/ UploadStep(h)

--------------------------------------------------------------------------------
(* Cleanup *)

CleanerAt(pc) == cleaner.pc = pc
CleanerGoto(state) == cleaner' = state

\* The ticker fires, and the time an hour ago is taken.
CleanupStart ==
  /\ cleaner = Idle
  /\ CleanerGoto([pc |-> "publishes", cutoff |-> horizon])
  /\ UNCHANGED <<repoVars, bucket, handler, horizon>>

DeleteOutdatedPublishes ==
  /\ CleanerAt("publishes")
  /\ \/ /\ Repo!DeleteOutdatedPublish(cleaner.cutoff)
        /\ UNCHANGED cleaner
     \/ /\ Repo!Outdated(cleaner.cutoff) = {}
        /\ CleanerGoto([cleaner EXCEPT !.pc = "objects"])
        /\ UNCHANGED repoVars
  /\ UNCHANGED <<bucket, handler, horizon>>

DeleteOutdatedObjects ==
  /\ CleanerAt("objects")
  /\ Repo!DeleteOutdatedObjects(cleaner.cutoff)
  /\ CleanerGoto([pc |-> "find"])
  /\ UNCHANGED <<bucket, handler, horizon>>

\* The cursor of IterateReadyToDeleteIds returns what matched when it was opened.
FindReadyToDelete ==
  /\ CleanerAt("find")
  /\ CleanerGoto([pc |-> "iterate", todo |-> Repo!ReadyToDeleteIds])
  /\ UNCHANGED <<repoVars, bucket, handler, horizon>>

\* The next id of the cursor, and the first half of its DeletePath.
CleanerListFiles ==
  /\ CleanerAt("iterate")
  /\ \E id \in cleaner.todo :
       LET rest == cleaner.todo \ {id}
       IN  \/ \E keys \in S3!Listings(id) :
                CleanerGoto([pc |-> "delete", id |-> id, keys |-> keys, todo |-> rest])
           \/ "s3" \in Faults /\ CleanerGoto([cleaner EXCEPT !.todo = rest])
  /\ UNCHANGED <<repoVars, bucket, handler, horizon>>

NextId == [pc |-> "iterate", todo |-> cleaner.todo]

CleanerDeleteFiles ==
  /\ CleanerAt("delete")
  /\ \/ /\ DeleteDone(cleaner.keys)
        /\ CleanerGoto([pc |-> "deletePublish", id |-> cleaner.id,
                        todo |-> cleaner.todo])
     \/ DeleteFailed(cleaner.keys) /\ CleanerGoto(NextId)
  /\ UNCHANGED <<repoVars, handler, horizon>>

DeletePublish ==
  /\ CleanerAt("deletePublish")
  /\ Repo!DeletePublish(cleaner.id)
  /\ CleanerGoto(NextId)
  /\ UNCHANGED <<bucket, handler, horizon>>

CleanupEnd ==
  /\ CleanerAt("iterate")
  /\ cleaner.todo = {}
  /\ CleanerGoto(Idle)
  /\ UNCHANGED <<repoVars, bucket, handler, horizon>>

\* What Cleanup does after a statement that failed: it logs the error and goes on.
CleanerAfterError ==
  CASE CleanerAt("publishes") -> [cleaner EXCEPT !.pc = "objects"]
    [] CleanerAt("objects") -> [pc |-> "find"]
    [] CleanerAt("deletePublish") -> NextId
    [] CleanerAt("find") \/ CleanerAt("iterate") -> Idle

CleanerStatementFails ==
  /\ "mongo" \in Faults
  /\ cleaner.pc \in {"publishes", "objects", "find", "iterate", "deletePublish"}
  /\ CleanerGoto(CleanerAfterError)
  /\ UNCHANGED <<repoVars, bucket, handler, horizon>>

\* It fails, and something stays undone: with nothing to do, success looks the same.
CleanerLeavesUndone ==
  /\ CleanerStatementFails
  /\ ~ (DeleteOutdatedPublishes \/ DeleteOutdatedObjects \/ DeletePublish \/ CleanupEnd)

CleanerStep ==
  \/ CleanupStart
  \/ DeleteOutdatedPublishes
  \/ DeleteOutdatedObjects
  \/ FindReadyToDelete
  \/ CleanerListFiles
  \/ CleanerDeleteFiles
  \/ DeletePublish
  \/ CleanupEnd
  \/ CleanerStatementFails

--------------------------------------------------------------------------------
(* Time, restarts and the whole service *)

\* The next publish becomes older than an hour.
Age ==
  /\ horizon < lastId
  /\ "slowUpload" \in Faults \/ \A h \in Handlers : ~Uploading(h, horizon + 1)
  /\ horizon' = horizon + 1
  /\ UNCHANGED <<repoVars, bucket, handler, cleaner>>

\* The server stops and starts again: what is in its memory is gone, MongoDB
\* aborts its transactions.
Crash ==
  /\ "crash" \in Faults
  /\ LET open == {h \in Handlers : tx[h] # Repo!NoTx}
     IN  Repo!Abort(open) \/ (open = {} /\ UNCHANGED repoVars)
  /\ handler' = [h \in Handlers |-> Idle]
  /\ CleanerGoto(Idle)
  /\ UNCHANGED <<bucket, horizon>>

Init ==
  /\ Repo!Init
  /\ bucket = {}
  /\ handler = [h \in Handlers |-> Idle]
  /\ cleaner = Idle
  /\ horizon = 0

Next == (\E h \in Handlers : HandlerStep(h)) \/ CleanerStep \/ Age \/ Crash

Spec == Init /\ [][Next]_vars

\* The ticker keeps firing, time keeps passing, the server does not restart for ever, and
\* the cleanup's statements do not fail for ever.  Nothing is assumed of clients.
FairSpec ==
  /\ Spec
  /\ WF_vars(CleanerStep)
  /\ WF_vars(Age)
  /\ <>[][~(Crash \/ CleanerLeavesUndone)]_vars

--------------------------------------------------------------------------------
(* Properties *)

Keys == Repo!PublishIds \X Files

HandlerStates ==
  [pc : {"idle", "create", "unpublish"}]
    \cup [pc : {"getObject"}, id : Repo!PublishIds, objectId : Repo!ObjectIds]
    \cup [pc : {"put", "finalize"}, id : Repo!PublishIds,
          objectId : Repo!ObjectIds, prev : 0..MaxPublishes, done : SUBSET Files]
    \cup [pc : {"list"}, id : Repo!PublishIds]
    \cup [pc : {"delete"}, id : Repo!PublishIds, keys : SUBSET Keys]
    \cup [pc : {"invalidate"}, objectId : Repo!ObjectIds]

CleanerStates ==
  [pc : {"idle", "find"}]
    \cup [pc : {"publishes", "objects"}, cutoff : 0..MaxPublishes]
    \cup [pc : {"iterate"}, todo : SUBSET Repo!PublishIds]
    \cup [pc : {"delete"}, id : Repo!PublishIds, keys : SUBSET Keys,
          todo : SUBSET Repo!PublishIds]
    \cup [pc : {"deletePublish"}, id : Repo!PublishIds,
          todo : SUBSET Repo!PublishIds]

TypeOK ==
  /\ Repo!TypeOK
  /\ bucket \subseteq Keys
  /\ handler \in [Handlers -> HandlerStates]
  /\ cleaner \in CleanerStates
  /\ horizon \in 0..lastId

\* A page that shows something shows a whole upload: the publish its object
\* points to is there, is Published, and all its files are in the bucket.
PageComplete ==
  \A d \in objects : d.active # Repo!NoPublish =>
    \E p \in publishes :
      /\ p.id = d.active
      /\ p.status = "Published"
      /\ {p.id} \X p.entries \subseteq bucket

\* What the cleanup has to delete stays to be deleted: no upload brings back a
\* publish whose files the cleanup may already be removing.
NoResurrection ==
  [][\A p \in publishes, q \in publishes' :
       p.id = q.id /\ p.status = "ReadyToDelete" => q.status = "ReadyToDelete"]_vars

\* Unpublishing a page hands what it showed at that instant to the cleanup, not
\* what it showed when the transaction began.
UnPublishRetires ==
  [][\A d \in objects, p \in publishes' :
       /\ Repo!Removed(d)
       /\ ~ \E e \in objects' : Repo!Added(e)
       /\ d.active = p.id
       => p.status = "ReadyToDelete"]_vars

\* An upload that replaces what a page shows hands that to the cleanup, unless it read
\* of another publish when it began: two uploads for one page overlapped, and what the
\* first one showed stays Published though nothing shows it (publishrepo.go:272-320).
ReplacementRetires ==
  [][\A d \in objects, e \in objects', p \in publishes' :
       /\ d.id = e.id /\ d.active # e.active
       /\ d.active = p.id
       => \/ p.status = "ReadyToDelete"
          \/ \E h \in Handlers :
               /\ At(h, "finalize") /\ handler[h].id = e.active
               /\ handler[h].prev # d.active]_vars

\* Is there somebody who will delete this file: the request that is at work on its
\* publish, or the cleanup, when it finds the publish ReadyToDelete, which becomes what a
\* page shows when the page is unpublished or shows another?
Accounted(k) ==
  \/ \E h \in Handlers : InUse(h, k[1])
  \/ \E p \in publishes :
       /\ p.id = k[1]
       /\ p.status = "ReadyToDelete" \/ \E d \in objects : d.active = p.id

\* An upload is finalized too late for this file: it is one of its own, and the page was
\* unpublished or moved away before its transaction began; or the page showed it, and not
\* the publish that the upload is going to replace.
FinalizedLate(k) ==
  \E h \in Handlers :
    /\ FinalizeEnd(h)
    /\ \/ /\ k[1] = handler[h].id
          /\ ~ \E d \in tx[h].objects : d.id = handler[h].objectId
       \/ /\ k[1] # handler[h].prev
          /\ \E d \in objects : d.id = handler[h].objectId /\ d.active = k[1]

\* What every step leaves of them.
KeepsAccounted ==
  \A k \in bucket' :
    Accounted(k)' \/ (k \in bucket /\ ~Accounted(k)) \/ FinalizedLate(k)

\* Every file in the bucket has somebody to delete it, and keeps having somebody until it
\* is deleted.  The one step that leaves files for ever is a finalization that comes too
\* late: what it shows nowhere, and what it replaces unread, stays Published, and Cleanup
\* looks for ReadyToDelete only (publishrepo.go:290-316 and 324; service.go:181-204,
\* 277-290).
FilesAccounted == [][KeepsAccounted]_vars

Gone(id) == id \notin Repo!Ids(publishes) /\ S3!KeysOf(id) = {}

\* What is ReadyToDelete is eventually deleted, document and files.
Reclaimed ==
  \A id \in Repo!PublishIds : id \in Repo!ReadyToDeleteIds ~> Gone(id)

\* A publish is not left Created for ever.
Expires ==
  \A id \in Repo!PublishIds :
    (\E p \in publishes : p.id = id /\ p.status = "Created")
      ~> ~ \E p \in publishes : p.id = id /\ p.status = "Created"

\* An object older than an hour that shows nothing is eventually deleted, as
\* Cleanup reports ("deleted outdated objects", service.go:271), or given
\* something to show.
ObjectsExpire ==
  \A id \in Repo!ObjectIds :
    (\E d \in objects : d.id = id /\ Repo!OutdatedObject(d, horizon))
      ~> ~ \E d \in objects : d.id = id /\ Repo!OutdatedObject(d, horizon)

\* What the service does to the database is what the callers of the repository
\* may do: everything shown of PublishRepo holds of the service.
RepoSpec == Repo!Spec

================================================================================
