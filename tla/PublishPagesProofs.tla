--------------------------- MODULE PublishPagesProofs ---------------------------
(***************************************************************************)
(* What a page shows is a whole upload that nobody is deleting, and what a *)
(* page showed when it was unpublished is handed to the cleanup, for any   *)
(* number of handlers, pages, files and publishes.                         *)
(*                                                                         *)
(* The argument: an upload that is under way has its publish to itself, as *)
(* GetPublish gives it to one request, and the cleanup keeps away from it, *)
(* being an hour behind.  So a publish is shown only by the upload that    *)
(* finalizes it, and it is replaced together with the page that shows it,  *)
(* or else the transaction meets a write conflict.                         *)
(***************************************************************************)
EXTENDS PublishServiceProofs

--------------------------------------------------------------------------------
(* Uploads and the cleanup keep apart *)

\* Is a handler in this state at work on a publish (InUse)?
Uses(s) == s.pc \in {"getObject", "put", "finalize", "list", "delete"}

UsersApart ==
  \A g, h \in Handlers :
    Uses(handler[g]) /\ Uses(handler[h]) /\ handler[g].id = handler[h].id => g = h

\* The publish an upload is at work on is there.
UploadsThere ==
  \A h \in Handlers : Started(handler[h]) =>
    \E p \in publishes : p.id = handler[h].id /\ p.status = "Created"

\* Nothing younger than an hour is cleaned up, and every upload is younger.
InTime ==
  /\ \A h \in Handlers : Started(handler[h]) => handler[h].id > horizon
  /\ cleaner.pc \in {"publishes", "objects"} => cleaner.cutoff <= horizon

\* Is the publish one that the cleanup is about to delete?
Cleans(s, id) ==
  \/ s.pc \in {"iterate", "delete", "deletePublish"} /\ id \in s.todo
  \/ s.pc \in {"delete", "deletePublish"} /\ id = s.id

CleansRetired ==
  \A p \in publishes : Cleans(cleaner, p.id) => p.status = "ReadyToDelete"

\* Whoever deletes files deletes those of one publish.
KeysOwn ==
  /\ \A h \in Handlers : At(h, "delete") => \A k \in handler[h].keys : k[1] = handler[h].id
  /\ CleanerAt("delete") => \A k \in cleaner.keys : k[1] = cleaner.id

ApartInv ==
  /\ IInv
  /\ UploadInv
  /\ UsersApart
  /\ UploadsThere
  /\ InTime
  /\ CleansRetired
  /\ KeysOwn

--------------------------------------------------------------------------------
(* Pages *)

\* Pages and the requests for them keep to the uris of the page.
UrisOwn ==
  /\ \A d \in objects :
       d.id[1] = d.sharing[1] /\ d.id[2] \in UrisOf[d.sharing[2]]
  /\ \A h \in Handlers : Repo!InTx(h, "ObjectCreate") =>
       tx[h].req.uri \in UrisOf[tx[h].req.sharing[2]]

\* A page shows publishes that were created for its address.
ShownOwn ==
  \A d \in objects, p \in publishes : d.active = p.id => p.objectId = d.id

\* So does the upload that is going to replace them.
PrevOwn ==
  \A h \in Handlers : handler[h].pc \in {"put", "finalize"} =>
    \A p \in publishes : p.id = handler[h].prev => p.objectId = handler[h].objectId

\* The transaction that finalizes an upload is about what the upload read.
TxWhole ==
  \A h \in Handlers : At(h, "finalize") /\ Repo!InTx(h, "FinalizePublish") =>
    /\ tx[h].req.objectId = handler[h].objectId
    /\ tx[h].req.entries = handler[h].done

\* It sees the page, if the page still shows what the upload is going to replace.
ShownSeen ==
  \A h \in Handlers : At(h, "finalize") /\ Repo!InTx(h, "FinalizePublish") =>
    \A d \in objects :
      d.id = handler[h].objectId /\ d.active = handler[h].prev
        /\ d.active # Repo!NoPublish
        => d.id \in Repo!Ids(tx[h].objects)

\* The files an upload has stored so far are there.
FilesThere ==
  \A h \in Handlers : handler[h].pc \in {"put", "finalize"} =>
    {handler[h].id} \X handler[h].done \subseteq bucket

\* What a failed upload takes away is not shown.
FailedNotShown ==
  \A h \in Handlers : handler[h].pc \in {"list", "delete"} =>
    \A d \in objects : d.active # handler[h].id

PagesInv ==
  /\ ApartInv
  /\ UrisOwn
  /\ ShownOwn
  /\ PrevOwn
  /\ TxWhole
  /\ ShownSeen
  /\ FilesThere
  /\ FailedNotShown
  /\ PageComplete

--------------------------------------------------------------------------------
(* What becomes of publishes, pages and files in a step *)

\* The ids of two modules that are one.
LEMMA SameIds ==
  /\ \A docs : Repo!Ids(docs) = RepoProofs!Ids(docs)
  /\ Repo!NoPublish = RepoProofs!NoPublish /\ Repo!NoPublish = 0
  /\ \A sharing, uri : Repo!ObjectId(sharing, uri) = RepoProofs!ObjectId(sharing, uri)
BY DEF Repo!Ids, RepoProofs!Ids, Repo!NoPublish, RepoProofs!NoPublish, Repo!ObjectId,
       RepoProofs!ObjectId

\* The filter of DeleteOutdatedObjects matches no publish.
LEMMA NothingOutdated ==
  ASSUME IInv, NEW cutoff, Repo!DeleteOutdatedObjects(cutoff)
  PROVE  publishes' = publishes /\ objects' = objects
<1>1. \A p \in Repo!PublishDocs : "timestamp" \notin DOMAIN p
  BY DEF Repo!PublishDocs
<1>2. {p \in publishes : Repo!OutdatedObject(p, cutoff)} = {}
  BY <1>1, RepoTyped DEF Repo!OutdatedObject
<1> QED BY <1>2 DEF Repo!DeleteOutdatedObjects, Repo!RemovePublishes, Repo!Replace, Repo!Ids

\* The steps that write to the database.
LEMMA Writers ==
  ASSUME IInv, [Next]_vars
  PROVE  \/ objects' = objects /\ publishes' = publishes
         \/ \E h \in Handlers : PublishEnd(h) \/ UnPublishEnd(h) \/ FinalizeEnd(h)
         \/ objects' = objects /\ DeletePublish
         \/ /\ objects' = objects
            /\ DeleteOutdatedPublishes
            /\ Repo!DeleteOutdatedPublish(cleaner.cutoff)
<1>1. CASE \E h \in Handlers :
             \/ RpcRequest(h) \/ RequestFails(h) \/ Invalidate(h) \/ UploadStep(h)
  BY <1>1 DEF RpcRequest, Publish, UnPublish, RequestFails, Invalidate, UploadStep,
              GetPublish, GetObject, PutFile, UploadFails, Finalize, FinalizeFails,
              ListFiles, DeleteFiles, Repo!Begin, Repo!Abort, repoVars
<1>2. CASE DeleteOutdatedObjects
  BY <1>2, NothingOutdated DEF DeleteOutdatedObjects
<1>3. CASE DeletePublish \/ DeleteOutdatedPublishes
  BY <1>3 DEF DeletePublish, Repo!DeletePublish, DeleteOutdatedPublishes,
              Repo!DeleteOutdatedPublish, Repo!RemovePublishes, repoVars
<1>4. CASE \/ CleanupStart \/ FindReadyToDelete \/ CleanerListFiles \/ CleanerDeleteFiles
           \/ CleanupEnd \/ CleanerStatementFails \/ Age \/ Crash \/ UNCHANGED vars
  BY <1>4 DEF CleanupStart, FindReadyToDelete, CleanerListFiles, CleanerDeleteFiles,
              CleanupEnd, CleanerStatementFails, Age, Crash, Repo!Abort, repoVars, vars
<1> QED BY <1>1, <1>2, <1>3, <1>4 DEF Next, HandlerStep, CommitStep, CleanerStep

\* The transaction that finalizes an upload, as the repository knows it.
LEMMA Finalizing ==
  ASSUME IInv, TxMatches, NEW h \in Handlers, FinalizeEnd(h)
  PROVE  /\ RepoProofs!IInv /\ RepoProofs!FinalizePublish(h)
         /\ At(h, "finalize") /\ Repo!InTx(h, "FinalizePublish")
         /\ tx[h].req.id = handler[h].id /\ tx[h].req.prev = handler[h].prev
         /\ bucket' = bucket
<1>1. At(h, "finalize") /\ Repo!InTx(h, "FinalizePublish") /\ bucket' = bucket
  BY DEF FinalizeEnd, Repo!FinalizePublish
<1> QED BY <1>1, SameTransactions DEF FinalizeEnd, IInv, TxMatches

\* Does a publish go on, and not as one that waits for its upload?
Survives(p) == \E q \in publishes' : q.id = p.id /\ q.status # "Created"

\* Why a publish document may go, or become another.
LEMMA Fate ==
  ASSUME IInv, TxMatches, [Next]_vars, NEW p \in publishes, p \notin publishes'
  PROVE  \/ \E h \in Handlers : /\ FinalizeEnd(h) /\ Survives(p)
                                /\ p.id \in {handler[h].id, handler[h].prev}
         \/ \E h \in Handlers, d \in objects :
              UnPublishEnd(h) /\ p.id = d.active /\ objects' = objects \ {d} /\ Survives(p)
         \/ DeletePublish /\ p.id = cleaner.id
         \/ /\ DeleteOutdatedPublishes
            /\ p.status = "Created" /\ p.id <= cleaner.cutoff
<1>0. RepoProofs!IInv /\ p \in Repo!PublishDocs
  BY RepoTyped DEF IInv
<1>1. ASSUME NEW h \in Handlers, PublishEnd(h) PROVE FALSE
  <2>1. RepoProofs!ObjectCreate(h)
    BY <1>1, SameTransactions DEF PublishEnd
  <2> QED BY <1>0, <2>1, MaxPublishesAssumption, RepoProofs!CreateKeeps
<1>2. ASSUME NEW h \in Handlers, UnPublishEnd(h)
      PROVE  \E d \in objects :
               p.id = d.active /\ objects' = objects \ {d} /\ Survives(p)
  <2>1. RepoProofs!ObjectDelete(h)
    BY <1>2, SameTransactions DEF UnPublishEnd
  <2>2. PICK d \in objects :
          /\ objects' = objects \ {d}
          /\ p.id = d.active /\ [p EXCEPT !.status = "ReadyToDelete"] \in publishes'
    BY <1>0, <2>1, MaxPublishesAssumption, RepoProofs!DeleteRetires
  <2> QED BY <1>0, <2>2 DEF Survives, Repo!PublishDocs
<1>3. ASSUME NEW h \in Handlers, FinalizeEnd(h)
      PROVE  Survives(p) /\ p.id \in {handler[h].id, handler[h].prev}
  <2>1. \/ /\ p.id = tx[h].req.id
           /\ [p EXCEPT !.status = "Published", !.entries = tx[h].req.entries] \in publishes'
        \/ /\ p.id = tx[h].req.prev
           /\ [p EXCEPT !.status = "ReadyToDelete"] \in publishes'
    BY <1>0, <1>3, Finalizing, MaxPublishesAssumption, RepoProofs!FinalizeKeeps
  <2>2. Survives(p)
    BY <1>0, <2>1 DEF Survives, Repo!PublishDocs
  <2> QED BY <1>3, <2>1, <2>2, Finalizing
<1>4. CASE DeletePublish
  BY <1>4 DEF DeletePublish, Repo!DeletePublish, Repo!RemovePublishes, Repo!Replace
<1>5. CASE DeleteOutdatedPublishes /\ Repo!DeleteOutdatedPublish(cleaner.cutoff)
  <2>1. PICK id \in Repo!Outdated(cleaner.cutoff) : Repo!RemovePublishes({id})
    BY <1>5 DEF Repo!DeleteOutdatedPublish
  <2>2. p.id = id
    BY <2>1 DEF Repo!RemovePublishes, Repo!Replace
  <2>3. PICK q \in publishes : q.id = id /\ q.status = "Created" /\ q.id <= cleaner.cutoff
    BY DEF Repo!Outdated, Repo!Ids
  <2>4. q = p
    BY <2>2, <2>3 DEF IInv, RepoProofs!IInv, RepoProofs!UniqueIds
  <2> QED BY <1>5, <2>3, <2>4
<1> QED BY <1>1, <1>2, <1>3, <1>4, <1>5, Writers

\* How a page comes to be as it is.
LEMMA PageWritten ==
  ASSUME IInv, TxMatches, [Next]_vars, NEW e \in objects', e \notin objects
  PROVE  \/ \E h \in Handlers :
              /\ PublishEnd(h) /\ Repo!InTx(h, "ObjectCreate")
              /\ e.id = Repo!ObjectId(tx[h].req.sharing, tx[h].req.uri)
              /\ e.id \notin Repo!Ids(objects)
              /\ e.sharing = tx[h].req.sharing
              /\ \/ e.active = Repo!NoPublish
                 \/ \E d \in objects :
                      d.sharing = e.sharing /\ d.id # e.id /\ d.active = e.active
         \/ \E h \in Handlers, d \in objects :
              /\ FinalizeEnd(h)
              /\ e.id = d.id /\ e.sharing = d.sharing /\ d.id = tx[h].req.objectId
              /\ e.active = handler[h].id
<1>0. RepoProofs!IInv
  BY DEF IInv
<1>1. ASSUME NEW h \in Handlers, PublishEnd(h)
      PROVE  /\ Repo!InTx(h, "ObjectCreate")
             /\ e.id = Repo!ObjectId(tx[h].req.sharing, tx[h].req.uri)
             /\ e.id \notin Repo!Ids(objects)
             /\ e.sharing = tx[h].req.sharing
             /\ \/ e.active = Repo!NoPublish
                \/ \E d \in objects :
                     d.sharing = e.sharing /\ d.id # e.id /\ d.active = e.active
  <2> DEFINE req == tx[h].req
             wanted == Repo!ObjectId(req.sharing, req.uri)
  <2>1. RepoProofs!ObjectCreate(h) /\ Repo!InTx(h, "ObjectCreate")
    BY <1>1, SameTransactions DEF PublishEnd, Repo!ObjectCreate
  <2>2. \/ objects' = objects
        \/ /\ wanted \notin Repo!Ids(objects)
           /\ objects' = objects \cup {RepoProofs!NewObject(req.sharing, req.uri, lastId + 1)}
        \/ /\ wanted \notin Repo!Ids(objects)
           /\ \E d \in objects :
                /\ d.sharing = req.sharing /\ d.id # wanted
                /\ objects' = (objects \ {d}) \cup {RepoProofs!Moved(d, wanted)}
    BY <1>0, <2>1, SameIds, MaxPublishesAssumption, RepoProofs!CreateObjects
  <2>3. CASE /\ wanted \notin Repo!Ids(objects)
             /\ e = RepoProofs!NewObject(req.sharing, req.uri, lastId + 1)
    BY <2>1, <2>3, SameIds DEF RepoProofs!NewObject
  <2>4. ASSUME wanted \notin Repo!Ids(objects), NEW d \in objects, d.sharing = req.sharing,
               d.id # wanted, e = RepoProofs!Moved(d, wanted)
        PROVE  /\ e.id = wanted /\ e.sharing = req.sharing
               /\ d.sharing = e.sharing /\ d.id # e.id /\ d.active = e.active
    BY <2>4, RepoTyped DEF RepoProofs!Moved, Repo!ObjectDocs
  <2> QED BY <2>1, <2>2, <2>3, <2>4
<1>2. ASSUME NEW h \in Handlers, UnPublishEnd(h) PROVE FALSE
  <2>1. RepoProofs!ObjectDelete(h)
    BY <1>2, SameTransactions DEF UnPublishEnd
  <2> QED BY <1>0, <2>1, MaxPublishesAssumption, RepoProofs!DeleteRetires
<1>3. ASSUME NEW h \in Handlers, FinalizeEnd(h)
      PROVE  \E d \in objects :
               /\ e.id = d.id /\ e.sharing = d.sharing /\ d.id = tx[h].req.objectId
               /\ e.active = handler[h].id
  <2>1. PICK d \in objects :
               /\ d.id = tx[h].req.objectId
               /\ objects' = (objects \ {d}) \cup {[d EXCEPT !.active = tx[h].req.id]}
    BY <1>0, <1>3, Finalizing, MaxPublishesAssumption, RepoProofs!FinalizeObjects
  <2>2. e = [d EXCEPT !.active = handler[h].id] /\ d \in Repo!ObjectDocs
    BY <1>3, <2>1, Finalizing, RepoTyped
  <2> QED BY <2>1, <2>2 DEF Repo!ObjectDocs
<1> QED BY <1>1, <1>2, <1>3, Writers

\* Who takes a file away.
LEMMA BucketFate ==
  ASSUME IInv, KeysOwn, [Next]_vars, NEW k \in bucket, k \notin bucket'
  PROVE  \/ \E h \in Handlers : DeleteFiles(h) /\ k[1] = handler[h].id
         \/ CleanerDeleteFiles /\ k[1] = cleaner.id
<1>1. \A keys : DeleteDone(keys) \/ DeleteFailed(keys) => k \in bucket' \/ k \in keys
  BY DEF DeleteDone, DeleteFailed, S3!DeleteObjects, S3!DeleteSome
<1>2. ASSUME NEW h \in Handlers, HandlerStep(h)
      PROVE  DeleteFiles(h) /\ k[1] = handler[h].id
  <2>1. CASE DeleteFiles(h)
    BY <1>1, <2>1 DEF DeleteFiles, KeysOwn
  <2>2. CASE PutFile(h)
    BY <2>2 DEF PutFile, S3!Put
  <2> QED BY <1>2, <2>1, <2>2
          DEF HandlerStep, RpcRequest, CommitStep, UploadStep, Publish, UnPublish,
              PublishEnd, UnPublishEnd, FinalizeEnd, RequestFails, Invalidate, GetPublish,
              GetObject, UploadFails, Finalize, FinalizeFails, ListFiles
<1>3. CASE CleanerStep
  <2>1. CASE CleanerDeleteFiles
    BY <1>1, <2>1 DEF CleanerDeleteFiles, KeysOwn
  <2> QED BY <1>3, <2>1
          DEF CleanerStep, CleanupStart, DeleteOutdatedPublishes, DeleteOutdatedObjects,
              FindReadyToDelete, CleanerListFiles, DeletePublish, CleanupEnd,
              CleanerStatementFails
<1> QED BY <1>2, <1>3 DEF Next, Age, Crash, vars

--------------------------------------------------------------------------------
(* What becomes of the goroutines in a step *)

LEMMA Moves ==
  ASSUME IInv, [Next]_vars, NEW h \in Handlers
  PROVE  \/ handler'[h] = handler[h]
         \/ HandlerStep(h) /\ \A g \in Handlers \ {h} : handler'[g] = handler[g]
         \/ handler'[h] = Idle
<1>1. ASSUME NEW g \in Handlers, HandlerStep(g)
      PROVE  \A c \in Handlers \ {g} : handler'[c] = handler[c]
  <2>1. \A s : Goto(g, s) => \A c \in Handlers \ {g} : handler'[c] = handler[c]
    BY DEF IInv, HandlersSound, Goto
  <2>2. \E s : Goto(g, s)
    BY <1>1 DEF HandlerStep, RpcRequest, Publish, UnPublish, CommitStep, PublishEnd,
                UnPublishEnd, FinalizeEnd, RequestFails, Invalidate, UploadStep,
                GetPublish, GetObject, PutFile, UploadFails, Finalize, FinalizeFails,
                ListFiles, DeleteFiles
  <2> QED BY <2>1, <2>2
<1>2. CASE CleanerStep
  BY <1>2, CleanerBucket
<1> QED BY <1>1, <1>2 DEF Next, Crash, Age, vars

\* The states of a request that never uses a publish.
LEMMA UsesNothing ==
  /\ ~Uses(Idle)
  /\ \A pc \in {"create", "unpublish"} : ~Uses([pc |-> pc])
  /\ \A o : ~Uses([pc |-> "invalidate", objectId |-> o])
BY DEF Uses, Idle

\* A request that starts to use a publish is the only one that does.
LEMMA UseMoves ==
  ASSUME IInv, NEW h \in Handlers, HandlerStep(h), Uses(handler'[h])
  PROVE  \/ Uses(handler[h]) /\ handler'[h].id = handler[h].id
         \/ /\ handler[h] = Idle /\ handler'[h].pc = "getObject"
            /\ publishes' = publishes /\ horizon' = horizon
            /\ \E p \in publishes :
                 /\ p.id = handler'[h].id /\ p.status = "Created"
                 /\ "sharedUrl" \in Faults \/ \A g \in Handlers : ~InUse(g, p.id)
                 /\ "slowUpload" \in Faults \/ p.id > horizon
<1>1. \A s : Goto(h, s) => handler'[h] = s
  BY DEF IInv, HandlersSound, Goto
<1>2. CASE GetPublish(h)
  <2>1. PICK p \in publishes :
          /\ p.status = "Created"
          /\ "sharedUrl" \in Faults \/ \A g \in Handlers : ~InUse(g, p.id)
          /\ "slowUpload" \in Faults \/ p.id > horizon
          /\ Goto(h, [pc |-> "getObject", id |-> p.id, objectId |-> p.objectId])
    BY <1>2 DEF GetPublish, Uploadable
  <2>2. handler'[h] = [pc |-> "getObject", id |-> p.id, objectId |-> p.objectId]
    BY <1>1, <2>1
  <2>3. handler'[h].id = p.id /\ handler'[h].pc = "getObject"
    BY <2>2
  <2>4. handler[h] = Idle /\ publishes' = publishes /\ horizon' = horizon
    BY <1>2 DEF GetPublish, repoVars
  <2> QED BY <2>1, <2>3, <2>4
<1>3. CASE GetObject(h)
  <2>1. ~Goto(h, Idle)
    BY <1>1, UsesNothing
  <2>2. PICK d \in ObjectOf(h) :
          Goto(h, [pc |-> "put", id |-> handler[h].id, objectId |-> d.id,
                   prev |-> d.active, done |-> {}])
    BY <1>3, <2>1 DEF GetObject
  <2>3. handler'[h] = [pc |-> "put", id |-> handler[h].id, objectId |-> d.id,
                       prev |-> d.active, done |-> {}]
    BY <1>1, <2>2
  <2> QED BY <1>3, <2>3 DEF GetObject, At, Uses
<1>4. CASE PutFile(h) \/ Finalize(h)
  <2>1. At(h, "put")
    BY <1>4 DEF PutFile, Finalize
  <2>2. handler[h] \in [pc : {"put", "finalize"}, id : Repo!PublishIds,
                        objectId : Repo!ObjectIds, prev : 0..MaxPublishes,
                        done : SUBSET Files]
    BY <2>1, StatesOf DEF IInv
  <2> QED BY <1>1, <1>4, <2>1, <2>2 DEF PutFile, Finalize, At, Uses
<1>5. CASE UploadFails(h) \/ FinalizeEnd(h) \/ FinalizeFails(h)
  <2>1. handler[h].pc \in {"put", "finalize"}
    BY <1>5 DEF UploadFails, FinalizeEnd, FinalizeFails, At
  <2>2. Goto(h, [pc |-> "list", id |-> handler[h].id])
        \/ \E o : Goto(h, [pc |-> "invalidate", objectId |-> o])
    BY <1>5 DEF UploadFails, FinalizeEnd, FinalizeFails, Failed
  <2>3. handler'[h] = [pc |-> "list", id |-> handler[h].id]
    BY <1>1, <2>2, UsesNothing
  <2> QED BY <2>1, <2>3 DEF Uses
<1>6. CASE ListFiles(h)
  <2>1. PICK keys : Goto(h, [pc |-> "delete", id |-> handler[h].id, keys |-> keys])
    BY <1>1, <1>6, UsesNothing DEF ListFiles
  <2>2. handler'[h] = [pc |-> "delete", id |-> handler[h].id, keys |-> keys]
    BY <1>1, <2>1
  <2> QED BY <1>6, <2>2 DEF ListFiles, At, Uses
<1>7. CASE \/ RpcRequest(h) \/ PublishEnd(h) \/ UnPublishEnd(h) \/ RequestFails(h)
           \/ Invalidate(h) \/ DeleteFiles(h)
  <2>1. \/ Goto(h, Idle) \/ Goto(h, [pc |-> "create"]) \/ Goto(h, [pc |-> "unpublish"])
        \/ \E o : Goto(h, [pc |-> "invalidate", objectId |-> o])
    BY <1>7 DEF RpcRequest, Publish, UnPublish, PublishEnd, UnPublishEnd, RequestFails,
                Invalidate, DeleteFiles
  <2> QED BY <1>1, <2>1, UsesNothing
<1> QED BY <1>2, <1>3, <1>4, <1>5, <1>6, <1>7 DEF HandlerStep, CommitStep, UploadStep

\* What an upload knows of its page, its files and its transaction.
LEMMA PutMoves ==
  ASSUME IInv, NEW h \in Handlers, HandlerStep(h), handler'[h].pc \in {"put", "finalize"}
  PROVE  /\ objects' = objects /\ publishes' = publishes
         /\ \/ /\ At(h, "getObject") /\ handler'[h].pc = "put"
               /\ bucket' = bucket
               /\ \E d \in objects :
                    /\ handler'[h].objectId = d.id /\ handler'[h].prev = d.active
                    /\ handler'[h].done = {}
            \/ /\ At(h, "put") /\ handler'[h].pc = "put"
               /\ handler'[h].id = handler[h].id
               /\ handler'[h].objectId = handler[h].objectId
               /\ handler'[h].prev = handler[h].prev
               /\ \E f \in Files :
                    /\ handler'[h].done = handler[h].done \cup {f}
                    /\ bucket' = bucket \cup {<<handler[h].id, f>>}
            \/ /\ At(h, "put") /\ handler'[h].pc = "finalize"
               /\ handler'[h] = [handler[h] EXCEPT !.pc = "finalize"]
               /\ bucket' = bucket
               /\ tx'[h].req = [op |-> "FinalizePublish", objectId |-> handler[h].objectId,
                                prev |-> handler[h].prev, id |-> handler[h].id,
                                entries |-> handler[h].done]
               /\ tx'[h].objects = objects
<1>1. \A s : Goto(h, s) => handler'[h] = s
  BY DEF IInv, HandlersSound, Goto
<1>2. CASE GetObject(h)
  <2>1. ~Goto(h, Idle)
    BY <1>1 DEF Idle
  <2>2. PICK d \in ObjectOf(h) :
          Goto(h, [pc |-> "put", id |-> handler[h].id, objectId |-> d.id,
                   prev |-> d.active, done |-> {}])
    BY <1>2, <2>1 DEF GetObject
  <2>3. handler'[h] = [pc |-> "put", id |-> handler[h].id, objectId |-> d.id,
                       prev |-> d.active, done |-> {}]
    BY <1>1, <2>2
  <2>4. /\ handler'[h].pc = "put" /\ handler'[h].objectId = d.id
        /\ handler'[h].prev = d.active /\ handler'[h].done = {}
    BY <2>3
  <2> QED BY <1>2, <2>4 DEF GetObject, ObjectOf, repoVars
<1>3. CASE PutFile(h)
  <2>1. At(h, "put")
    BY <1>3 DEF PutFile
  <2>2. handler[h] \in [pc : {"put", "finalize"}, id : Repo!PublishIds,
                        objectId : Repo!ObjectIds, prev : 0..MaxPublishes,
                        done : SUBSET Files]
    BY <2>1, StatesOf DEF IInv
  <2>3. PICK f \in Files : /\ bucket' = bucket \cup {<<handler[h].id, f>>}
                           /\ handler'[h] = [handler[h] EXCEPT !.done = @ \cup {f}]
    BY <1>1, <1>3 DEF PutFile, S3!Put, FileKey
  <2>4. /\ handler'[h].pc = "put" /\ handler'[h].id = handler[h].id
        /\ handler'[h].objectId = handler[h].objectId
        /\ handler'[h].prev = handler[h].prev
        /\ handler'[h].done = handler[h].done \cup {f}
    BY <2>1, <2>2, <2>3 DEF At
  <2> QED BY <1>3, <2>1, <2>3, <2>4 DEF PutFile, repoVars
<1>4. CASE Finalize(h)
  <2> DEFINE req == [op |-> "FinalizePublish", objectId |-> handler[h].objectId,
                     prev |-> handler[h].prev, id |-> handler[h].id,
                     entries |-> handler[h].done]
  <2>1. At(h, "put") /\ Repo!Begin(h, req) /\ bucket' = bucket
    BY <1>4 DEF Finalize
  <2>2. handler[h] \in [pc : {"put", "finalize"}, id : Repo!PublishIds,
                        objectId : Repo!ObjectIds, prev : 0..MaxPublishes,
                        done : SUBSET Files]
    BY <2>1, StatesOf DEF IInv
  <2>3. handler'[h] = [handler[h] EXCEPT !.pc = "finalize"]
    BY <1>1, <1>4 DEF Finalize
  <2>4. handler'[h].pc = "finalize"
    BY <2>2, <2>3
  <2> HIDE DEF req
  <2>5. RepoProofs!TypeOK /\ RepoProofs!Begin(h, req)
    BY <2>1, SameTransactions DEF IInv, RepoProofs!IInv
  <2>6. tx'[h].req = req /\ tx'[h].objects = objects
    BY <2>5, MaxPublishesAssumption, RepoProofs!TransactionsStay
  <2>7. objects' = objects /\ publishes' = publishes
    BY <2>1 DEF Repo!Begin
  <2> QED BY <2>1, <2>3, <2>4, <2>6, <2>7 DEF req
<1>5. CASE \/ RpcRequest(h) \/ CommitStep(h) \/ RequestFails(h) \/ Invalidate(h)
           \/ GetPublish(h) \/ UploadFails(h) \/ FinalizeFails(h) \/ ListFiles(h)
           \/ DeleteFiles(h)
  <2>1. \/ Goto(h, Idle) \/ Goto(h, [pc |-> "create"]) \/ Goto(h, [pc |-> "unpublish"])
        \/ \E o : Goto(h, [pc |-> "invalidate", objectId |-> o])
        \/ \E id, o : Goto(h, [pc |-> "getObject", id |-> id, objectId |-> o])
        \/ \E id : Goto(h, [pc |-> "list", id |-> id])
        \/ \E id, keys : Goto(h, [pc |-> "delete", id |-> id, keys |-> keys])
    BY <1>5 DEF RpcRequest, Publish, UnPublish, CommitStep, PublishEnd, UnPublishEnd,
                FinalizeEnd, RequestFails, Invalidate, GetPublish, UploadFails,
                FinalizeFails, ListFiles, DeleteFiles, Failed
  <2> DEFINE Other(s) == s.pc \notin {"put", "finalize"}
  <2>2. /\ Other(Idle) /\ Other([pc |-> "create"]) /\ Other([pc |-> "unpublish"])
        /\ \A o : Other([pc |-> "invalidate", objectId |-> o])
        /\ \A id, o : Other([pc |-> "getObject", id |-> id, objectId |-> o])
        /\ \A id : Other([pc |-> "list", id |-> id])
        /\ \A id, keys : Other([pc |-> "delete", id |-> id, keys |-> keys])
    BY DEF Idle
  <2>3. ~Other(handler'[h])
    OBVIOUS
  <2> HIDE DEF Other
  <2> QED BY <1>1, <2>1, <2>2, <2>3
<1> QED BY <1>2, <1>3, <1>4, <1>5 DEF HandlerStep, UploadStep

\* Which publishes the cleanup is about to delete.
LEMMA CleanerMoves ==
  ASSUME IInv, KeysOwn, [Next]_vars
  PROVE  /\ \A id : Cleans(cleaner', id) =>
              \/ Cleans(cleaner, id)
              \/ id \in Repo!ReadyToDeleteIds /\ publishes' = publishes
         /\ cleaner'.pc \in {"publishes", "objects"} =>
              \/ cleaner'.cutoff = horizon
              \/ /\ cleaner.pc \in {"publishes", "objects"}
                 /\ cleaner'.cutoff = cleaner.cutoff
         /\ cleaner'.pc = "delete" => \A k \in cleaner'.keys : k[1] = cleaner'.id
<1> DEFINE Good(s) ==
             /\ \A id : Cleans(s, id) =>
                  \/ Cleans(cleaner, id)
                  \/ id \in Repo!ReadyToDeleteIds /\ publishes' = publishes
             /\ s.pc \in {"publishes", "objects"} =>
                  \/ s.cutoff = horizon
                  \/ /\ cleaner.pc \in {"publishes", "objects"}
                     /\ s.cutoff = cleaner.cutoff
             /\ s.pc = "delete" => \A k \in s.keys : k[1] = s.id
<1> SUFFICES Good(cleaner')
  OBVIOUS
<1>1. CASE UNCHANGED cleaner
  BY <1>1 DEF KeysOwn, CleanerAt
<1>2. Good(Idle) /\ Good([pc |-> "find"])
  BY DEF Cleans, Idle
<1>3. CASE CleanupStart
  <2>1. Good([pc |-> "publishes", cutoff |-> horizon])
    BY DEF Cleans
  <2> QED BY <1>3, <2>1 DEF CleanupStart, CleanerGoto
<1>4. ASSUME CleanerAt("publishes")
      PROVE  Good([cleaner EXCEPT !.pc = "objects"])
  BY <1>4, CleanerStatesOf DEF IInv, Cleans, CleanerAt
<1>5. CASE FindReadyToDelete
  <2>1. publishes' = publishes
    BY <1>5 DEF FindReadyToDelete, repoVars
  <2>2. Good([pc |-> "iterate", todo |-> Repo!ReadyToDeleteIds])
    BY <2>1 DEF Cleans
  <2> QED BY <1>5, <2>2 DEF FindReadyToDelete, CleanerGoto
<1>6. CASE CleanerListFiles
  <2>1. CleanerAt("iterate")
    BY <1>6 DEF CleanerListFiles
  <2>2. PICK id \in cleaner.todo :
          \/ \E keys \in S3!Listings(id) :
               cleaner' = [pc |-> "delete", id |-> id, keys |-> keys,
                           todo |-> cleaner.todo \ {id}]
          \/ cleaner' = [cleaner EXCEPT !.todo = cleaner.todo \ {id}]
    BY <1>6 DEF CleanerListFiles, CleanerGoto
  <2>3. Good([cleaner EXCEPT !.todo = cleaner.todo \ {id}])
    BY <2>1, CleanerStatesOf DEF IInv, Cleans, CleanerAt
  <2>4. ASSUME NEW keys \in S3!Listings(id)
        PROVE  Good([pc |-> "delete", id |-> id, keys |-> keys,
                     todo |-> cleaner.todo \ {id}])
    <3>1. \A k \in keys : k[1] = id
      BY DEF S3!Listings, S3!KeysOf
    <3> QED BY <2>1, <3>1 DEF Cleans, CleanerAt
  <2> QED BY <2>2, <2>3, <2>4
<1>7. ASSUME cleaner.pc \in {"delete", "deletePublish"}
      PROVE  /\ Good(NextId)
             /\ cleaner.pc = "delete" =>
                  Good([pc |-> "deletePublish", id |-> cleaner.id, todo |-> cleaner.todo])
  BY <1>7 DEF Cleans, NextId
<1>8. CASE CleanerDeleteFiles \/ DeletePublish
  BY <1>7, <1>8 DEF CleanerDeleteFiles, DeletePublish, CleanerGoto, CleanerAt
<1>9. CASE CleanerStatementFails
  BY <1>2, <1>4, <1>7, <1>9
     DEF CleanerStatementFails, CleanerGoto, CleanerAfterError, CleanerAt
<1>10. CASE DeleteOutdatedPublishes \/ DeleteOutdatedObjects \/ CleanupEnd \/ Crash
  BY <1>1, <1>2, <1>4, <1>10
     DEF DeleteOutdatedPublishes, DeleteOutdatedObjects, CleanupEnd, Crash, CleanerGoto
<1>11. ASSUME NEW h \in Handlers, HandlerStep(h) PROVE UNCHANGED cleaner
  BY <1>11, HandlerBucket
<1> QED BY <1>1, <1>3, <1>5, <1>6, <1>8, <1>9, <1>10, <1>11
        DEF Next, CleanerStep, Age, vars

LEMMA HorizonMoves ==
  ASSUME IInv, [Next]_vars
  PROVE  /\ horizon \in Nat
         /\ \/ horizon' = horizon
            \/ /\ horizon' = horizon + 1 /\ handler' = handler /\ cleaner' = cleaner
               /\ "slowUpload" \in Faults \/ \A h \in Handlers : ~Uploading(h, horizon + 1)
<1>1. horizon \in Nat
  BY RepoTyped, MaxPublishesAssumption DEF IInv
<1>2. ASSUME NEW h \in Handlers, HandlerStep(h) PROVE horizon' = horizon
  BY <1>2, HandlerBucket
<1>3. CASE CleanerStep
  BY <1>1, <1>3, CleanerBucket
<1> QED BY <1>1, <1>2, <1>3 DEF Next, Age, Crash, vars

--------------------------------------------------------------------------------
(* Uploads and the cleanup keep apart: ApartInv, step by step *)

\* The publish of a request that stays at work on it.
LEMMA UsersOf ==
  ASSUME IInv, [Next]_vars, NEW h \in Handlers, Uses(handler'[h])
  PROVE  \/ /\ Uses(handler[h]) /\ handler'[h].id = handler[h].id
            /\ \A g \in Handlers \ {h} : handler'[g] = handler[g] \/ handler'[h] = handler[h]
         \/ /\ handler'[h].pc = "getObject"
            /\ publishes' = publishes /\ horizon' = horizon
            /\ \A g \in Handlers \ {h} : handler'[g] = handler[g]
            /\ \E p \in publishes :
                 /\ p.id = handler'[h].id /\ p.status = "Created"
                 /\ "sharedUrl" \in Faults
                      \/ \A g \in Handlers : Uses(handler[g]) => handler[g].id # p.id
                 /\ "slowUpload" \in Faults \/ p.id > horizon
<1>1. \A g, id : InUse(g, id) <=> Uses(handler[g]) /\ handler[g].id = id
  BY DEF InUse, Uploading, Uses
<1>2. CASE handler'[h] = handler[h]
  BY <1>2
<1>3. CASE HandlerStep(h) /\ \A g \in Handlers \ {h} : handler'[g] = handler[g]
  BY <1>1, <1>3, UseMoves
<1>4. handler'[h] # Idle
  BY UsesNothing
<1> QED BY <1>2, <1>3, <1>4, Moves

LEMMA UsersStayApart ==
  ASSUME IInv, UsersApart, [Next]_vars, "sharedUrl" \notin Faults
  PROVE  UsersApart'
<1> SUFFICES ASSUME NEW g \in Handlers, NEW h \in Handlers, g # h,
                    Uses(handler'[g]), Uses(handler'[h]), handler'[g].id = handler'[h].id
             PROVE  FALSE
  BY DEF UsersApart
<1>1. CASE /\ Uses(handler[g]) /\ handler[g].id = handler'[g].id
           /\ Uses(handler[h]) /\ handler[h].id = handler'[h].id
  BY <1>1 DEF UsersApart
<1>2. CASE ~(Uses(handler[g]) /\ handler[g].id = handler'[g].id)
  <2>1. /\ handler'[h] = handler[h]
        /\ \A c \in Handlers : Uses(handler[c]) => handler[c].id # handler'[g].id
    BY <1>2, UsersOf
  <2> QED BY <2>1
<1>3. CASE ~(Uses(handler[h]) /\ handler[h].id = handler'[h].id)
  <2>1. /\ handler'[g] = handler[g]
        /\ \A c \in Handlers : Uses(handler[c]) => handler[c].id # handler'[h].id
    BY <1>3, UsersOf
  <2> QED BY <2>1
<1> QED BY <1>1, <1>2, <1>3

\* An upload that goes on does not commit.
LEMMA EndsUpload ==
  ASSUME IInv, NEW h \in Handlers, FinalizeEnd(h)
  PROVE  ~Started(handler'[h])
<1>1. \A s : Goto(h, s) => handler'[h] = s
  BY DEF IInv, HandlersSound, Goto
<1>2. \/ handler'[h] = [pc |-> "invalidate", objectId |-> handler[h].objectId]
      \/ handler'[h] = [pc |-> "list", id |-> handler[h].id]
  BY <1>1 DEF FinalizeEnd, Failed
<1> QED BY <1>2 DEF Started

LEMMA CreatedIsThere ==
  ASSUME ApartInv, [Next]_vars, "sharedUrl" \notin Faults, NEW h \in Handlers,
         Started(handler[h]), handler'[h] = handler[h], NEW p \in publishes,
         p.id = handler[h].id, p.status = "Created"
  PROVE  p \in publishes'
<1> SUFFICES ASSUME p \notin publishes' PROVE FALSE
  OBVIOUS
<1>0. IInv /\ UploadInv /\ TxMatches
  BY DEF ApartInv, UploadInv
<1>1. ASSUME NEW g \in Handlers, FinalizeEnd(g), p.id = handler[g].id
      PROVE  FALSE
  <2>1. Started(handler[g])
    BY <1>1 DEF FinalizeEnd, At, Started
  <2>2. g = h
    BY <1>0, <1>1, <2>1 DEF UploadInv, OneUploader
  <2> QED BY <1>0, <1>1, <2>2, EndsUpload
<1>2. ASSUME NEW g \in Handlers, FinalizeEnd(g), p.id = handler[g].prev
      PROVE  FALSE
  BY <1>0, <1>2 DEF UploadInv, ReplacesShown, FinalizeEnd, At
<1>3. ASSUME NEW d \in objects, p.id = d.active
      PROVE  FALSE
  BY <1>0, <1>3 DEF IInv, RepoProofs!IInv, RepoProofs!ActiveWasFinalized
<1>4. ASSUME DeletePublish, p.id = cleaner.id
      PROVE  FALSE
  BY <1>4 DEF ApartInv, CleansRetired, Cleans, DeletePublish, CleanerAt
<1>5. ASSUME DeleteOutdatedPublishes, p.id <= cleaner.cutoff
      PROVE  FALSE
  <2>1. cleaner.cutoff <= horizon /\ p.id > horizon
    BY <1>5 DEF ApartInv, InTime, DeleteOutdatedPublishes, CleanerAt
  <2>2. cleaner.cutoff \in Nat /\ horizon \in Nat /\ p.id \in Nat
    BY <1>0, <1>5, RepoTyped, CleanerStatesOf, MaxPublishesAssumption
       DEF IInv, DeleteOutdatedPublishes
  <2> QED BY <1>5, <2>1, <2>2
<1> QED BY <1>0, <1>1, <1>2, <1>3, <1>4, <1>5, Fate

LEMMA UploadsStayThere ==
  ASSUME ApartInv, [Next]_vars, "sharedUrl" \notin Faults
  PROVE  UploadsThere'
<1> SUFFICES ASSUME NEW h \in Handlers, Started(handler'[h])
             PROVE  \E p \in publishes' : p.id = handler'[h].id /\ p.status = "Created"
  BY DEF UploadsThere
<1>0. IInv /\ UploadInv /\ TxMatches
  BY DEF ApartInv, UploadInv
<1>1. CASE handler'[h] = handler[h]
  <2>1. PICK p \in publishes : p.id = handler[h].id /\ p.status = "Created"
    BY <1>1 DEF ApartInv, UploadsThere
  <2> QED BY <1>1, <2>1, CreatedIsThere
<1>2. CASE HandlerStep(h)
  <2>1. \/ \E p \in publishes : p.id = handler'[h].id /\ p.status = "Created"
        \/ Started(handler[h]) /\ handler'[h].id = handler[h].id
    BY <1>0, <1>2, UploadMoves DEF Started, At
  <2>2. publishes' = publishes
    BY <1>0, <1>2, UploadMoves
  <2> QED BY <2>1, <2>2 DEF ApartInv, UploadsThere
<1> QED BY <1>0, <1>1, <1>2, StepsOf

LEMMA StaysInTime ==
  ASSUME ApartInv, [Next]_vars, "slowUpload" \notin Faults
  PROVE  InTime'
<1>0. IInv /\ KeysOwn
  BY DEF ApartInv
<1>1. ASSUME NEW h \in Handlers, Started(handler'[h])
      PROVE  handler'[h].id > horizon'
  <2>1. Uses(handler'[h])
    BY <1>1 DEF Started, Uses
  <2>2. CASE handler'[h] = handler[h]
    <3>1. handler[h].id \in Nat /\ handler[h].id > horizon
      <4>1. handler[h].id \in 1..lastId /\ lastId \in Nat
        BY <1>0, <1>1, <2>2, RepoTyped, MaxPublishesAssumption
           DEF IInv, HandlersSound, Sound, Started
      <4> QED BY <1>1, <2>2, <4>1 DEF ApartInv, InTime
    <3>2. "slowUpload" \in Faults \/ ~Uploading(h, horizon + 1) => handler[h].id # horizon + 1
      BY <1>1, <2>2 DEF Uploading, Started
    <3> QED BY <1>0, <2>2, <3>1, <3>2, HorizonMoves
  <2>3. CASE HandlerStep(h)
    <3>1. horizon' = horizon
      BY <1>0, <2>3, HandlerBucket
    <3>2. \/ Started(handler[h]) /\ handler'[h].id = handler[h].id
          \/ handler'[h].id > horizon
      <4>1. CASE GetPublish(h)
        <5>1. ~Uses(handler[h])
          BY <4>1, UsesNothing DEF GetPublish
        <5> QED BY <1>0, <2>1, <2>3, <5>1, UseMoves
      <4> QED BY <1>0, <1>1, <2>3, <4>1, UploadMoves DEF Started, At
    <3> QED BY <3>1, <3>2 DEF ApartInv, InTime
  <2> QED BY <1>0, <1>1, <2>2, <2>3, StepsOf
<1>2. ASSUME cleaner'.pc \in {"publishes", "objects"}
      PROVE  cleaner'.cutoff <= horizon'
  <2>1. horizon' \in Nat /\ horizon \in Nat /\ horizon <= horizon'
    BY <1>0, HorizonMoves
  <2>2. \/ cleaner'.cutoff = horizon
        \/ cleaner.pc \in {"publishes", "objects"} /\ cleaner'.cutoff = cleaner.cutoff
    BY <1>0, <1>2, CleanerMoves
  <2>3. cleaner.pc \in {"publishes", "objects"} =>
          cleaner.cutoff \in Nat /\ cleaner.cutoff <= horizon
    BY <1>0, CleanerStatesOf, MaxPublishesAssumption DEF IInv, CleanerAt, ApartInv, InTime
  <2> QED BY <2>1, <2>2, <2>3
<1> QED BY <1>1, <1>2 DEF InTime

LEMMA CleansStayRetired ==
  ASSUME ApartInv, [Next]_vars
  PROVE  CleansRetired'
<1> SUFFICES ASSUME NEW q \in publishes', Cleans(cleaner', q.id)
             PROVE  q.status = "ReadyToDelete"
  BY DEF CleansRetired
<1>0. IInv /\ UploadInv /\ TxMatches /\ KeysOwn
  BY DEF ApartInv, UploadInv
<1>1. CASE q.id \in Repo!ReadyToDeleteIds /\ publishes' = publishes
  <2>1. PICK p \in publishes : p.id = q.id /\ p.status = "ReadyToDelete"
    BY <1>1 DEF Repo!ReadyToDeleteIds, Repo!Ids
  <2> QED BY <1>0, <2>1, NothingReturns
<1>2. CASE Cleans(cleaner, q.id)
  <2>1. q.id \in 1..lastId /\ lastId \in Nat
    BY <1>0, <1>2, RepoTyped, MaxPublishesAssumption DEF IInv, CleanerKnows, Cleans
  <2>2. RepoProofs!Continues(q)
    <3>1. RepoProofs!Continues(q) \/ q.id = lastId + 1
      BY <1>0, NextInRepo, SameSteps, MaxPublishesAssumption, RepoProofs!NextPublishes
         DEF IInv
    <3> QED BY <2>1, <3>1
  <2>3. PICK p \in publishes : p.id = q.id
    BY <2>2 DEF RepoProofs!Continues
  <2>4. p.status = "ReadyToDelete"
    BY <1>2, <2>3 DEF ApartInv, CleansRetired
  <2> QED BY <1>0, <2>3, <2>4, NothingReturns
<1> QED BY <1>0, <1>1, <1>2, CleanerMoves

\* Files are deleted only after they were listed.
LEMMA OnlyLists ==
  ASSUME IInv, NEW h \in Handlers, HandlerStep(h), handler'[h].pc = "delete"
  PROVE  ListFiles(h)
<1> SUFFICES ASSUME ~ListFiles(h) PROVE FALSE
  OBVIOUS
<1> DEFINE Other(s) == s.pc # "delete"
<1>1. \A s : Goto(h, s) => handler'[h] = s
  BY DEF IInv, HandlersSound, Goto
<1>2. CASE PutFile(h) \/ Finalize(h)
  <2>1. handler[h] \in [pc : {"put", "finalize"}, id : Repo!PublishIds,
                        objectId : Repo!ObjectIds, prev : 0..MaxPublishes,
                        done : SUBSET Files]
    BY <1>2, StatesOf DEF IInv, PutFile, Finalize
  <2> QED BY <1>1, <1>2, <2>1 DEF PutFile, Finalize, At
<1>3. CASE ~(PutFile(h) \/ Finalize(h))
  <2>1. \/ Goto(h, Idle) \/ Goto(h, [pc |-> "create"]) \/ Goto(h, [pc |-> "unpublish"])
        \/ \E o : Goto(h, [pc |-> "invalidate", objectId |-> o])
        \/ \E id, o : Goto(h, [pc |-> "getObject", id |-> id, objectId |-> o])
        \/ \E id : Goto(h, [pc |-> "list", id |-> id])
        \/ \E id, o, prev, done :
             Goto(h, [pc |-> "put", id |-> id, objectId |-> o, prev |-> prev,
                      done |-> done])
    BY <1>3 DEF HandlerStep, UploadStep, RpcRequest, Publish, UnPublish, CommitStep,
                PublishEnd, UnPublishEnd, FinalizeEnd, RequestFails, Invalidate,
                GetPublish, GetObject, UploadFails, FinalizeFails, DeleteFiles, Failed
  <2>2. /\ Other(Idle) /\ Other([pc |-> "create"]) /\ Other([pc |-> "unpublish"])
        /\ \A o : Other([pc |-> "invalidate", objectId |-> o])
        /\ \A id, o : Other([pc |-> "getObject", id |-> id, objectId |-> o])
        /\ \A id : Other([pc |-> "list", id |-> id])
        /\ \A id, o, prev, done :
             Other([pc |-> "put", id |-> id, objectId |-> o, prev |-> prev,
                    done |-> done])
    BY DEF Idle
  <2>3. ~Other(handler'[h])
    OBVIOUS
  <2> HIDE DEF Other
  <2> QED BY <1>1, <2>1, <2>2, <2>3
<1> QED BY <1>2, <1>3

LEMMA KeysStayOwn ==
  ASSUME IInv, KeysOwn, [Next]_vars
  PROVE  KeysOwn'
<1>1. ASSUME NEW h \in Handlers, handler'[h].pc = "delete", NEW k \in handler'[h].keys
      PROVE  k[1] = handler'[h].id
  <2>1. CASE HandlerStep(h)
    <3>1. ListFiles(h)
      BY <1>1, <2>1, OnlyLists
    <3>2. PICK keys \in S3!Listings(handler[h].id) :
            handler'[h] = [pc |-> "delete", id |-> handler[h].id, keys |-> keys]
      BY <1>1, <3>1 DEF ListFiles, Idle, Goto, IInv, HandlersSound
    <3> QED BY <1>1, <3>2 DEF S3!Listings, S3!KeysOf
  <2>2. CASE handler'[h] = handler[h]
    BY <1>1, <2>2 DEF KeysOwn, At
  <2> QED BY <1>1, <2>1, <2>2, Moves DEF Idle
<1>2. cleaner'.pc = "delete" => \A k \in cleaner'.keys : k[1] = cleaner'.id
  BY CleanerMoves
<1> QED BY <1>1, <1>2 DEF KeysOwn, At, CleanerAt

LEMMA ApartStep ==
  ASSUME ApartInv, [Next]_vars, "sharedUrl" \notin Faults, "slowUpload" \notin Faults
  PROVE  ApartInv'
<1>1. IInv /\ UploadInv /\ TxMatches /\ UsersApart /\ KeysOwn
  BY DEF ApartInv, UploadInv
<1>2. IInv'
  BY <1>1, NextInv
<1>3. UploadInv'
  BY <1>1, NextUploads
<1> QED BY <1>1, <1>2, <1>3, UsersStayApart, UploadsStayThere, StaysInTime,
           CleansStayRetired, KeysStayOwn DEF ApartInv

LEMMA ApartInit == Init => ApartInv
<1> SUFFICES ASSUME Init PROVE ApartInv
  OBVIOUS
<1>1. /\ \A h \in Handlers : handler[h] = Idle
      /\ cleaner = Idle /\ publishes = {}
  BY DEF Init, Repo!Init
<1> QED BY <1>1, InitInv, InitUploads
        DEF ApartInv, UsersApart, UploadsThere, InTime, CleansRetired, KeysOwn, Uses,
            Started, Idle, At, CleanerAt

--------------------------------------------------------------------------------
(* Pages: PagesInv, step by step *)

\* Nobody asks for a page under a second uri.
NoRename == \A page \in Pages : \A u, v \in UrisOf[page] : u = v

LEMMA TxStaysWhole ==
  ASSUME IInv, TxWhole, [Next]_vars
  PROVE  TxWhole'
<1> SUFFICES ASSUME NEW h \in Handlers, handler'[h].pc = "finalize",
                    tx'[h].req.op = "FinalizePublish"
             PROVE  /\ tx'[h].req.objectId = handler'[h].objectId
                    /\ tx'[h].req.entries = handler'[h].done
  BY DEF TxWhole, At, Repo!InTx
<1>1. CASE handler'[h] = handler[h]
  <2>1. tx'[h] # RepoProofs!NoTx
    BY DEF RepoProofs!NoTx, RepoProofs!NoRequest
  <2>2. tx'[h].req = tx[h].req
    BY <1>1, <2>1, TransactionKept DEF RepoProofs!Kept
  <2> QED BY <1>1, <2>2 DEF TxWhole, At, Repo!InTx
<1>2. CASE HandlerStep(h)
  <2>1. /\ At(h, "put") /\ handler'[h] = [handler[h] EXCEPT !.pc = "finalize"]
        /\ tx'[h].req = [op |-> "FinalizePublish", objectId |-> handler[h].objectId,
                         prev |-> handler[h].prev, id |-> handler[h].id,
                         entries |-> handler[h].done]
    <3>1. handler'[h].pc \in {"put", "finalize"} /\ handler'[h].pc # "put"
      OBVIOUS
    <3> QED BY <1>2, <3>1, PutMoves
  <2>2. /\ handler'[h].objectId = handler[h].objectId
        /\ handler'[h].done = handler[h].done
    BY <2>1, StatesOf DEF IInv
  <2> QED BY <2>1, <2>2
<1> QED BY <1>1, <1>2, Moves DEF Idle

LEMMA UrisStayOwn ==
  ASSUME IInv, TxMatches, UrisOwn, [Next]_vars
  PROVE  UrisOwn'
<1>1. ASSUME NEW h \in Handlers, tx'[h].req.op = "ObjectCreate"
      PROVE  tx'[h].req.uri \in UrisOf[tx'[h].req.sharing[2]]
  <2>1. CASE RepoProofs!Kept(h)
    <3>1. tx'[h] # RepoProofs!NoTx
      BY <1>1 DEF RepoProofs!NoTx, RepoProofs!NoRequest
    <3>2. tx'[h].req = tx[h].req
      BY <2>1, <3>1 DEF RepoProofs!Kept
    <3> QED BY <1>1, <3>2 DEF UrisOwn, Repo!InTx
  <2>2. ASSUME NEW req, Repo!Begin(h, req)
        PROVE  tx'[h].req = req
    BY <2>2, SameTransactions, MaxPublishesAssumption, RepoProofs!TransactionsStay
       DEF IInv, RepoProofs!IInv
  <2>3. CASE Publish(h)
    BY <2>2, <2>3 DEF Publish
  <2>4. CASE UnPublish(h)
    BY <1>1, <2>2, <2>4 DEF UnPublish
  <2>5. CASE Finalize(h)
    BY <1>1, <2>2, <2>5 DEF Finalize
  <2> QED BY <2>1, <2>3, <2>4, <2>5, TransactionFate
<1>2. ASSUME NEW e \in objects'
      PROVE  e.id[1] = e.sharing[1] /\ e.id[2] \in UrisOf[e.sharing[2]]
  <2>1. CASE e \in objects
    BY <2>1 DEF UrisOwn
  <2>2. ASSUME NEW h \in Handlers, Repo!InTx(h, "ObjectCreate"),
               e.id = Repo!ObjectId(tx[h].req.sharing, tx[h].req.uri),
               e.sharing = tx[h].req.sharing
        PROVE  e.id[1] = e.sharing[1] /\ e.id[2] \in UrisOf[e.sharing[2]]
    BY <2>2 DEF UrisOwn, Repo!ObjectId
  <2>3. ASSUME NEW d \in objects, e.id = d.id, e.sharing = d.sharing
        PROVE  e.id[1] = e.sharing[1] /\ e.id[2] \in UrisOf[e.sharing[2]]
    BY <2>3 DEF UrisOwn
  <2> QED BY <2>1, <2>2, <2>3, PageWritten
<1> QED BY <1>1, <1>2 DEF UrisOwn, Repo!InTx

\* If pages keep their uris, a page that changes is new, or shows a new upload.
LEMMA PageChanged ==
  ASSUME PagesInv, [Next]_vars, NoRename, NEW e \in objects', e \notin objects
  PROVE  \/ e.active = Repo!NoPublish
         \/ \E h \in Handlers : /\ FinalizeEnd(h)
                                /\ e.id = handler[h].objectId
                                /\ e.active = handler[h].id
<1>0. IInv /\ UploadInv /\ TxMatches
  BY DEF PagesInv, ApartInv, UploadInv
<1>1. ASSUME NEW h \in Handlers, Repo!InTx(h, "ObjectCreate"),
             e.id = Repo!ObjectId(tx[h].req.sharing, tx[h].req.uri),
             e.sharing = tx[h].req.sharing,
             NEW d \in objects, d.sharing = e.sharing, d.id # e.id
      PROVE  FALSE
  <2>1. /\ tx[h].req.uri \in UrisOf[e.sharing[2]]
        /\ d.id[1] = e.sharing[1] /\ d.id[2] \in UrisOf[e.sharing[2]]
    BY <1>1 DEF PagesInv, UrisOwn
  <2>2. d.id \in Identities \X Uris /\ e.sharing \in Identities \X Pages
    BY <1>0, <1>1, RepoTyped DEF Repo!ObjectDocs, Repo!ObjectIds, Repo!Sharings
  <2>3. d.id[2] = tx[h].req.uri
    BY <2>1, <2>2 DEF NoRename
  <2>4. d.id = <<d.id[1], d.id[2]>>
    BY <2>2
  <2> QED BY <1>1, <2>1, <2>3, <2>4 DEF Repo!ObjectId
<1>2. ASSUME NEW h \in Handlers, FinalizeEnd(h), e.id = tx[h].req.objectId
      PROVE  e.id = handler[h].objectId
  BY <1>0, <1>2, Finalizing DEF PagesInv, TxWhole
<1> QED BY <1>0, <1>1, <1>2, PageWritten

LEMMA TypedNext ==
  ASSUME IInv, [Next]_vars
  PROVE  /\ objects' \subseteq Repo!ObjectDocs
         /\ publishes' \subseteq Repo!PublishDocs
         /\ \A q \in publishes' : q.id # 0
<1>1. RepoProofs!TypeOK'
  BY NextInv DEF IInv, RepoProofs!IInv
<1>2. objects' \subseteq Repo!ObjectDocs /\ publishes' \subseteq Repo!PublishDocs
  BY <1>1 DEF RepoProofs!TypeOK, RepoProofs!ObjectDocs, Repo!ObjectDocs,
              RepoProofs!PublishDocs, Repo!PublishDocs, RepoProofs!ObjectIds,
              Repo!ObjectIds, RepoProofs!PublishIds, Repo!PublishIds,
              RepoProofs!Sharings, Repo!Sharings, RepoProofs!Statuses, Repo!Statuses,
              RepoProofs!NoPublish, Repo!NoPublish
<1>3. \A q \in publishes' : q.id # 0
  BY <1>2, MaxPublishesAssumption DEF Repo!PublishDocs, Repo!PublishIds
<1> QED BY <1>2, <1>3

\* Publishes that were there go on; new ones are younger than all of them.
LEMMA Goes ==
  ASSUME IInv, [Next]_vars, NEW q \in publishes', q.id <= lastId
  PROVE  \E p \in publishes : p.id = q.id /\ p.objectId = q.objectId
<1>1. RepoProofs!Continues(q) \/ q.id = lastId + 1
  BY NextInRepo, SameSteps, MaxPublishesAssumption, RepoProofs!NextPublishes DEF IInv
<1>2. lastId \in Nat
  BY RepoTyped, MaxPublishesAssumption
<1> QED BY <1>1, <1>2 DEF RepoProofs!Continues

LEMMA ShownStaysOwn ==
  ASSUME PagesInv, [Next]_vars, NoRename
  PROVE  ShownOwn'
<1> SUFFICES ASSUME NEW e \in objects', NEW q \in publishes', e.active = q.id
             PROVE  q.objectId = e.id
  BY DEF ShownOwn
<1>0. IInv /\ UploadInv /\ TxMatches
  BY DEF PagesInv, ApartInv, UploadInv
<1>1. CASE e \in objects
  <2>1. q.id <= lastId
    BY <1>0, <1>1, RepoTyped, MaxPublishesAssumption
  <2> QED BY <1>0, <1>1, <2>1, Goes DEF PagesInv, ShownOwn
<1>2. CASE e.active = Repo!NoPublish
  BY <1>0, <1>2, TypedNext, SameIds
<1>3. ASSUME NEW h \in Handlers, FinalizeEnd(h), e.id = handler[h].objectId,
             e.active = handler[h].id
      PROVE  q.objectId = e.id
  <2>1. /\ handler[h].id \in 1..lastId /\ lastId \in Nat
        /\ \A p \in publishes : p.id = handler[h].id => p.objectId = handler[h].objectId
    BY <1>0, <1>3, RepoTyped, MaxPublishesAssumption
       DEF IInv, HandlersSound, Sound, FinalizeEnd, At
  <2>2. q.id <= lastId
    BY <1>3, <2>1
  <2> QED BY <1>0, <1>3, <2>1, <2>2, Goes
<1> QED BY <1>1, <1>2, <1>3, PageChanged

LEMMA PrevStaysOwn ==
  ASSUME PagesInv, [Next]_vars
  PROVE  PrevOwn'
<1> SUFFICES ASSUME NEW h \in Handlers, handler'[h].pc \in {"put", "finalize"},
                    NEW q \in publishes', q.id = handler'[h].prev
             PROVE  q.objectId = handler'[h].objectId
  BY DEF PrevOwn
<1>0. IInv
  BY DEF PagesInv, ApartInv
<1>1. CASE handler'[h] = handler[h]
  <2>1. q.id <= lastId
    BY <1>0, <1>1, RepoTyped, MaxPublishesAssumption DEF IInv, HandlersSound, Sound
  <2> QED BY <1>0, <1>1, <2>1, Goes DEF PagesInv, PrevOwn
<1>2. CASE HandlerStep(h)
  <2>1. publishes' = publishes
    BY <1>0, <1>2, PutMoves
  <2>2. CASE \E d \in objects : handler'[h].objectId = d.id /\ handler'[h].prev = d.active
    BY <2>1, <2>2 DEF PagesInv, ShownOwn
  <2>3. CASE /\ At(h, "put") /\ handler'[h].objectId = handler[h].objectId
             /\ handler'[h].prev = handler[h].prev
    BY <2>1, <2>3 DEF PagesInv, PrevOwn, At
  <2>4. CASE At(h, "put") /\ handler'[h] = [handler[h] EXCEPT !.pc = "finalize"]
    <3>1. /\ handler'[h].objectId = handler[h].objectId
          /\ handler'[h].prev = handler[h].prev
      BY <1>0, <2>4, StatesOf DEF IInv
    <3> QED BY <2>3, <2>4, <3>1
  <2> QED BY <1>0, <1>2, <2>2, <2>3, <2>4, PutMoves
<1> QED BY <1>0, <1>1, <1>2, Moves DEF Idle

LEMMA ShownStaysSeen ==
  ASSUME PagesInv, [Next]_vars, NoRename
  PROVE  ShownSeen'
<1> SUFFICES ASSUME NEW h \in Handlers, handler'[h].pc = "finalize",
                    tx'[h].req.op = "FinalizePublish",
                    NEW e \in objects', e.id = handler'[h].objectId,
                    e.active = handler'[h].prev, e.active # Repo!NoPublish
             PROVE  e.id \in Repo!Ids(tx'[h].objects)
  BY DEF ShownSeen, At, Repo!InTx, Repo!Ids
<1>0. IInv /\ UploadInv /\ TxMatches
  BY DEF PagesInv, ApartInv, UploadInv
<1>1. CASE handler'[h] = handler[h]
  <2>1. tx'[h] # RepoProofs!NoTx
    BY DEF RepoProofs!NoTx, RepoProofs!NoRequest
  <2>2. tx'[h].req = tx[h].req /\ tx'[h].objects = tx[h].objects
    BY <1>0, <1>1, <2>1, TransactionKept DEF RepoProofs!Kept
  <2>3. CASE e \in objects
    BY <1>1, <2>2, <2>3 DEF PagesInv, ShownSeen, At, Repo!InTx
  <2>4. ASSUME NEW g \in Handlers, FinalizeEnd(g), e.active = handler[g].id
        PROVE  FALSE
    <3>1. PICK p \in publishes : p.id = handler[g].id /\ p.status = "Created"
      BY <2>4 DEF PagesInv, ApartInv, UploadsThere, FinalizeEnd, At, Started
    <3>2. ReplacesShown(handler[h], publishes)
      BY <1>0 DEF UploadInv
    <3> QED BY <1>1, <2>4, <3>1, <3>2 DEF ReplacesShown
  <2> QED BY <2>3, <2>4, PageChanged
<1>2. CASE HandlerStep(h)
  <2>1. objects' = objects /\ tx'[h].objects = objects
    <3>1. handler'[h].pc \in {"put", "finalize"} /\ handler'[h].pc # "put"
      OBVIOUS
    <3> QED BY <1>0, <1>2, <3>1, PutMoves
  <2> QED BY <2>1 DEF Repo!Ids
<1> QED BY <1>0, <1>1, <1>2, Moves DEF Idle

\* Nobody deletes the files of an upload that has not failed.
LEMMA FilesStayThere ==
  ASSUME PagesInv, [Next]_vars
  PROVE  FilesThere'
<1> SUFFICES ASSUME NEW h \in Handlers, handler'[h].pc \in {"put", "finalize"},
                    NEW f \in handler'[h].done
             PROVE  <<handler'[h].id, f>> \in bucket'
  BY DEF FilesThere
<1>0. IInv /\ UploadInv /\ TxMatches /\ KeysOwn
  BY DEF PagesInv, ApartInv, UploadInv
<1>1. CASE handler'[h] = handler[h]
  <2> DEFINE k == <<handler[h].id, f>>
  <2>1. k \in bucket /\ Started(handler[h])
    BY <1>1 DEF PagesInv, FilesThere, Started
  <2>2. ASSUME NEW g \in Handlers, DeleteFiles(g), k[1] = handler[g].id
        PROVE  FALSE
    <3>1. At(g, "delete")
      BY <2>2 DEF DeleteFiles
    <3>2. g = h
      BY <1>1, <2>1, <2>2, <3>1 DEF PagesInv, ApartInv, UsersApart, Uses, At, Started
    <3> QED BY <1>1, <3>1, <3>2 DEF At
  <2>3. ASSUME CleanerDeleteFiles, k[1] = cleaner.id
        PROVE  FALSE
    <3>1. PICK p \in publishes : p.id = handler[h].id /\ p.status = "Created"
      BY <2>1 DEF PagesInv, ApartInv, UploadsThere
    <3>2. p.status = "ReadyToDelete"
      BY <2>3, <3>1 DEF PagesInv, ApartInv, CleansRetired, Cleans, CleanerDeleteFiles,
                        CleanerAt
    <3> QED BY <3>1, <3>2
  <2> QED BY <1>0, <1>1, <2>1, <2>2, <2>3, BucketFate
<1>2. CASE HandlerStep(h)
  <2>1. CASE handler'[h].done = {}
    BY <2>1
  <2>2. ASSUME At(h, "put"), handler'[h].id = handler[h].id,
               NEW g \in Files, handler'[h].done = handler[h].done \cup {g},
               bucket' = bucket \cup {<<handler[h].id, g>>}
        PROVE  <<handler'[h].id, f>> \in bucket'
    BY <2>2 DEF PagesInv, FilesThere, At
  <2>3. CASE /\ At(h, "put") /\ handler'[h] = [handler[h] EXCEPT !.pc = "finalize"]
             /\ bucket' = bucket
    <3>1. handler'[h].id = handler[h].id /\ handler'[h].done = handler[h].done
      BY <1>0, <2>3, StatesOf DEF IInv
    <3> QED BY <2>3, <3>1 DEF PagesInv, FilesThere, At
  <2> QED BY <1>0, <1>2, <2>1, <2>2, <2>3, PutMoves
<1> QED BY <1>0, <1>1, <1>2, Moves DEF Idle

\* What a request is about to take away is not shown: if its transaction failed,
\* its publish is still Created.
LEMMA FailedStaysHidden ==
  ASSUME PagesInv, [Next]_vars, NoRename, "lostReply" \notin Faults
  PROVE  FailedNotShown'
<1> SUFFICES ASSUME NEW h \in Handlers, handler'[h].pc \in {"list", "delete"},
                    NEW e \in objects', e.active = handler'[h].id
             PROVE  FALSE
  BY DEF FailedNotShown
<1>0. IInv /\ UploadInv /\ TxMatches
  BY DEF PagesInv, ApartInv, UploadInv
<1>1. CASE handler'[h] = handler[h]
  <2>1. handler[h].id # Repo!NoPublish
    BY <1>0, <1>1, StatesOf, MaxPublishesAssumption, SameIds
       DEF IInv, At, Repo!PublishIds
  <2>2. CASE e \in objects
    BY <1>1, <2>2 DEF PagesInv, FailedNotShown
  <2>3. ASSUME NEW g \in Handlers, FinalizeEnd(g), e.active = handler[g].id
        PROVE  FALSE
    <3>1. g = h /\ At(g, "finalize")
      BY <1>1, <2>3 DEF PagesInv, ApartInv, UsersApart, Uses, FinalizeEnd, At
    <3> QED BY <1>1, <3>1 DEF At
  <2> QED BY <1>1, <2>1, <2>2, <2>3, PageChanged
<1>2. CASE HandlerStep(h)
  <2>1. Uses(handler'[h])
    BY DEF Uses
  <2>2. Uses(handler[h]) /\ handler'[h].id = handler[h].id
    BY <1>0, <1>2, <2>1, UseMoves
  <2>3. CASE Started(handler[h])
    <3>1. PICK p \in publishes : p.id = handler[h].id /\ p.status = "Created"
      BY <2>3 DEF PagesInv, ApartInv, UploadsThere
    <3>2. CASE e \in objects
      BY <1>0, <2>2, <3>1, <3>2 DEF IInv, RepoProofs!IInv, RepoProofs!ActiveWasFinalized
    <3>3. ASSUME NEW g \in Handlers, FinalizeEnd(g)
          PROVE  FALSE
      <4>1. \A s : Goto(h, s) => handler'[h] = s
        BY <1>0 DEF IInv, HandlersSound, Goto
      <4>2. CASE g = h
        <5>1. handler'[h] = [pc |-> "invalidate", objectId |-> handler[h].objectId]
          BY <3>3, <4>1, <4>2 DEF FinalizeEnd
        <5> QED BY <5>1
      <4>3. CASE g # h
        <5>1. \E s : Goto(g, s)
          BY <3>3 DEF FinalizeEnd
        <5>2. handler'[h] = handler[h]
          BY <1>0, <4>3, <5>1 DEF IInv, HandlersSound, Goto
        <5> QED BY <2>3, <5>2 DEF Started
      <4> QED BY <4>2, <4>3
    <3>4. e.active # Repo!NoPublish
      <4>1. p.id # Repo!NoPublish
        BY <1>0, RepoTyped, MaxPublishesAssumption, SameIds
      <4> QED BY <2>2, <3>1, <4>1
    <3> QED BY <3>2, <3>3, <3>4, PageChanged
  <2>4. CASE handler[h].pc \in {"list", "delete"}
    <3>1. ListFiles(h) \/ DeleteFiles(h)
      BY <1>2, <2>4 DEF HandlerStep, RpcRequest, Publish, UnPublish, CommitStep,
                        PublishEnd, UnPublishEnd, FinalizeEnd, RequestFails, Invalidate,
                        UploadStep, GetPublish, GetObject, PutFile, UploadFails, Finalize,
                        FinalizeFails, At, Idle
    <3>2. objects' = objects
      BY <3>1 DEF ListFiles, DeleteFiles, repoVars
    <3> QED BY <2>2, <2>4, <3>2 DEF PagesInv, FailedNotShown
  <2> QED BY <2>2, <2>3, <2>4 DEF Uses, Started
<1> QED BY <1>0, <1>1, <1>2, Moves DEF Idle

\* A page that shows something stays as it is, or is given another upload; its publish
\* and the files of that stay until then.
LEMMA PagesStayComplete ==
  ASSUME PagesInv, [Next]_vars, NoRename
  PROVE  PageComplete'
<1> SUFFICES ASSUME NEW e \in objects', e.active # Repo!NoPublish
             PROVE  \E p \in publishes' :
                      /\ p.id = e.active /\ p.status = "Published"
                      /\ {p.id} \X p.entries \subseteq bucket'
  BY DEF PageComplete, Repo!NoPublish
<1>0. IInv /\ UploadInv /\ TxMatches /\ KeysOwn
  BY DEF PagesInv, ApartInv, UploadInv
<1>1. CASE e \in objects
  <2>1. PICK p \in publishes : /\ p.id = e.active /\ p.status = "Published"
                               /\ {p.id} \X p.entries \subseteq bucket
    BY <1>1 DEF PagesInv, PageComplete
  <2>2. ASSUME NEW h \in Handlers, FinalizeEnd(h)
        PROVE  p.id # handler[h].id
    <3>1. PICK r \in publishes : r.id = handler[h].id /\ r.status = "Created"
      BY <2>2 DEF PagesInv, ApartInv, UploadsThere, FinalizeEnd, At, Started
    <3> QED BY <1>0, <2>1, <3>1 DEF IInv, RepoProofs!IInv, RepoProofs!UniqueIds
  \* An upload that replaces what the page shows is shown instead of it.
  <2>3. ASSUME NEW h \in Handlers, FinalizeEnd(h), p.id = handler[h].prev
        PROVE  FALSE
    <3>1. At(h, "finalize") /\ Repo!InTx(h, "FinalizePublish")
      BY <1>0, <2>3, Finalizing
    <3>2. p.objectId = handler[h].objectId /\ p.objectId = e.id
      BY <1>1, <2>1, <2>3, <3>1 DEF PagesInv, PrevOwn, ShownOwn, At
    <3>3. e.id \in Repo!Ids(tx[h].objects)
      BY <1>1, <2>1, <2>3, <3>1, <3>2 DEF PagesInv, ShownSeen
    <3>4. tx[h].req.objectId = e.id /\ tx[h].req.id = handler[h].id
      BY <1>0, <2>3, <3>1, <3>2, Finalizing DEF PagesInv, TxWhole
    <3>5. PICK d \in objects :
                 /\ d.id = tx[h].req.objectId
                 /\ objects' = (objects \ {d}) \cup {[d EXCEPT !.active = tx[h].req.id]}
      BY <1>0, <2>3, <3>3, <3>4, Finalizing, SameIds, MaxPublishesAssumption,
         RepoProofs!FinalizeObjects
    <3>6. d = e
      BY <1>0, <1>1, <3>4, <3>5 DEF IInv, RepoProofs!IInv, RepoProofs!UniqueIds
    <3>7. [e EXCEPT !.active = tx[h].req.id] # e
      <4>1. e \in Repo!ObjectDocs
        BY <1>0, <1>1, RepoTyped
      <4>2. [e EXCEPT !.active = tx[h].req.id].active = tx[h].req.id
        BY <4>1 DEF Repo!ObjectDocs
      <4> QED BY <2>1, <2>2, <2>3, <3>4, <4>2
    <3> QED BY <3>5, <3>6, <3>7
  <2>4. ASSUME NEW d \in objects, p.id = d.active, objects' = objects \ {d}
        PROVE  FALSE
    <3>1. d.id = e.id
      BY <1>1, <2>1, <2>4 DEF PagesInv, ShownOwn
    <3>2. d = e
      BY <1>0, <1>1, <3>1 DEF IInv, RepoProofs!IInv, RepoProofs!UniqueIds
    <3> QED BY <2>4, <3>2
  <2>5. ASSUME DeletePublish, p.id = cleaner.id
        PROVE  FALSE
    BY <2>1, <2>5 DEF PagesInv, ApartInv, CleansRetired, Cleans, DeletePublish, CleanerAt
  <2>6. p \in publishes'
    BY <1>0, <2>1, <2>2, <2>3, <2>4, <2>5, Fate
  <2>7. ASSUME NEW f \in p.entries, <<p.id, f>> \notin bucket'
        PROVE  FALSE
    <3> DEFINE k == <<p.id, f>>
    <3>1. k \in bucket
      BY <2>1
    <3>2. ASSUME NEW h \in Handlers, DeleteFiles(h), k[1] = handler[h].id
          PROVE  FALSE
      BY <1>1, <2>1, <3>2 DEF PagesInv, FailedNotShown, DeleteFiles, At
    <3>3. ASSUME CleanerDeleteFiles, k[1] = cleaner.id
          PROVE  FALSE
      BY <2>1, <3>3 DEF PagesInv, ApartInv, CleansRetired, Cleans, CleanerDeleteFiles,
                        CleanerAt
    <3> QED BY <1>0, <2>7, <3>1, <3>2, <3>3, BucketFate
  <2> QED BY <2>1, <2>6, <2>7
<1>2. ASSUME NEW h \in Handlers, FinalizeEnd(h), e.active = handler[h].id
      PROVE  \E p \in publishes' :
               /\ p.id = e.active /\ p.status = "Published"
               /\ {p.id} \X p.entries \subseteq bucket'
  <2>1. PICK r \in publishes : r.id = handler[h].id /\ r.status = "Created"
    BY <1>2 DEF PagesInv, ApartInv, UploadsThere, FinalizeEnd, At, Started
  <2> DEFINE p == [r EXCEPT !.status = "Published", !.entries = tx[h].req.entries]
  <2>2. p \in publishes' /\ bucket' = bucket
    BY <1>0, <1>2, <2>1, Finalizing, MaxPublishesAssumption, RepoProofs!FinalizeShows
  <2>3. At(h, "finalize") /\ tx[h].req.entries = handler[h].done
    BY <1>0, <1>2, Finalizing DEF PagesInv, TxWhole
  <2>4. p.id = r.id /\ p.status = "Published" /\ p.entries = handler[h].done
    BY <1>0, <2>3, RepoTyped DEF Repo!PublishDocs
  <2>5. {handler[h].id} \X handler[h].done \subseteq bucket
    BY <2>3 DEF PagesInv, FilesThere, At
  <2> QED BY <1>2, <2>1, <2>2, <2>4, <2>5
<1> QED BY <1>1, <1>2, PageChanged

LEMMA PagesStep ==
  ASSUME PagesInv, [Next]_vars, NoRename,
         {"sharedUrl", "slowUpload", "lostReply"} \cap Faults = {}
  PROVE  PagesInv'
<1>1. IInv /\ UploadInv /\ TxMatches /\ ApartInv /\ TxWhole /\ UrisOwn
  BY DEF PagesInv, ApartInv, UploadInv
<1>2. "sharedUrl" \notin Faults /\ "slowUpload" \notin Faults /\ "lostReply" \notin Faults
  OBVIOUS
<1> QED BY <1>1, <1>2, ApartStep, UrisStayOwn, ShownStaysOwn, PrevStaysOwn, TxStaysWhole,
           ShownStaysSeen, FilesStayThere, FailedStaysHidden, PagesStayComplete
        DEF PagesInv

LEMMA PagesInit == Init => PagesInv
<1> SUFFICES ASSUME Init PROVE PagesInv
  OBVIOUS
<1>1. /\ \A h \in Handlers : handler[h] = Idle /\ tx[h] = Repo!NoTx
      /\ objects = {} /\ publishes = {}
  BY DEF Init, Repo!Init
<1> QED BY <1>1, ApartInit
        DEF PagesInv, UrisOwn, ShownOwn, PrevOwn, TxWhole, ShownSeen, FilesThere,
            FailedNotShown, PageComplete, Idle, At, Repo!InTx, Repo!NoTx, Repo!NoRequest

--------------------------------------------------------------------------------
(* What is handed to the cleanup *)

\* A transaction that saw a page saw what it shows, if that is still there; and what
\* it saw ReadyToDelete is so still.
SnapshotWhole ==
  \A h \in Handlers :
    /\ \A d \in tx[h].objects : d.active <= lastId
    /\ \A d \in tx[h].objects, p \in publishes :
         d.active = p.id => \E s \in tx[h].publishes : s.id = p.id
    /\ \A s \in tx[h].publishes, p \in publishes :
         s.id = p.id /\ s.status = "ReadyToDelete" => p.status = "ReadyToDelete"

\* The snapshot of a transaction is there until it ends, and is taken where it begins.
LEMMA SnapshotFate ==
  ASSUME IInv, [Next]_vars, NEW h \in Handlers
  PROVE  \/ tx'[h].objects = {} /\ tx'[h].publishes = {}
         \/ tx'[h].objects = tx[h].objects /\ tx'[h].publishes = tx[h].publishes
         \/ /\ tx'[h].objects = objects /\ tx'[h].publishes = publishes
            /\ publishes' = publishes
<1>1. CASE RepoProofs!Kept(h)
  BY <1>1 DEF RepoProofs!Kept, RepoProofs!NoTx
<1>2. ASSUME NEW req, Repo!Begin(h, req)
      PROVE  /\ tx'[h].objects = objects /\ tx'[h].publishes = publishes
             /\ publishes' = publishes
  <2>1. publishes' = publishes
    BY <1>2 DEF Repo!Begin
  <2> QED BY <1>2, <2>1, SameTransactions, MaxPublishesAssumption,
             RepoProofs!TransactionsStay DEF IInv, RepoProofs!IInv
<1>3. CASE Publish(h) \/ UnPublish(h) \/ Finalize(h)
  <2>1. \E req : Repo!Begin(h, req)
    BY <1>3 DEF Publish, UnPublish, Finalize
  <2> QED BY <1>2, <2>1
<1> QED BY <1>1, <1>3, TransactionFate

LEMMA SnapshotsInit == Init => SnapshotWhole
BY DEF Init, Repo!Init, SnapshotWhole, Repo!NoTx

LEMMA SnapshotsStay ==
  ASSUME IInv, UploadInv, SnapshotWhole, [Next]_vars
  PROVE  SnapshotWhole'
<1>0. RepoProofs!IInv
  BY DEF IInv
<1>1. lastId \in Nat /\ lastId' \in {lastId, lastId + 1}
  BY <1>0, NextInRepo, SameSteps, RepoTyped, MaxPublishesAssumption,
     RepoProofs!NextPublishes
<1>2. ASSUME NEW h \in Handlers, NEW d \in tx'[h].objects
      PROVE  /\ d.active <= lastId'
             /\ \A q \in publishes' : d.active = q.id =>
                  \E s \in tx'[h].publishes : s.id = q.id
  <2>1. CASE tx'[h].objects = tx[h].objects /\ tx'[h].publishes = tx[h].publishes
    <3>1. d.active <= lastId /\ d.active \in Nat
      <4>1. d \in Repo!ObjectDocs
        BY <2>1 DEF IInv, RepoProofs!IInv, RepoProofs!TypeOK, RepoProofs!Transactions,
                    RepoProofs!ObjectDocs, Repo!ObjectDocs, RepoProofs!ObjectIds,
                    Repo!ObjectIds, RepoProofs!PublishIds, Repo!PublishIds,
                    RepoProofs!Sharings, Repo!Sharings, RepoProofs!NoPublish,
                    Repo!NoPublish
      <4> QED BY <2>1, <4>1, MaxPublishesAssumption
              DEF SnapshotWhole, Repo!ObjectDocs, Repo!PublishIds, Repo!NoPublish
    <3> QED BY <1>1, <2>1, <3>1, Goes DEF SnapshotWhole
  <2>2. CASE /\ tx'[h].objects = objects /\ tx'[h].publishes = publishes
             /\ publishes' = publishes
    <3>1. d.active \in Nat /\ d.active <= lastId
      BY <2>2, RepoTyped, <1>1
    <3> QED BY <1>1, <2>2, <3>1
  <2> QED BY <2>1, <2>2, SnapshotFate
<1>3. ASSUME NEW h \in Handlers, NEW s \in tx'[h].publishes, NEW q \in publishes',
             s.id = q.id, s.status = "ReadyToDelete"
      PROVE  q.status = "ReadyToDelete"
  <2>1. CASE tx'[h].publishes = tx[h].publishes
    <3>1. q.id <= lastId
      BY <1>0, <1>3, <2>1 DEF RepoProofs!IInv, RepoProofs!IdsHandedOut
    <3>2. PICK p \in publishes : p.id = q.id
      BY <3>1, Goes
    <3>3. p.status = "ReadyToDelete"
      BY <1>3, <2>1, <3>2 DEF SnapshotWhole
    <3> QED BY <3>2, <3>3, NothingReturns
  <2>2. CASE tx'[h].publishes = publishes /\ publishes' = publishes
    BY <1>0, <1>3, <2>2 DEF RepoProofs!IInv, RepoProofs!UniqueIds
  <2> QED BY <2>1, <2>2, SnapshotFate
<1> QED BY <1>2, <1>3 DEF SnapshotWhole

LEMMA Retires ==
  ASSUME IInv, SnapshotWhole, [Next]_vars, NEW d \in objects, Repo!Removed(d),
         ~ \E e \in objects' : Repo!Added(e), NEW q \in publishes', d.active = q.id
  PROVE  q.status = "ReadyToDelete"
<1>0. RepoProofs!IInv /\ objects' # objects
  BY DEF IInv, Repo!Removed, Repo!Ids
<1>1. ASSUME NEW h \in Handlers, PublishEnd(h)
      PROVE  FALSE
  <2> DEFINE req == tx[h].req
             wanted == Repo!ObjectId(req.sharing, req.uri)
  <2>1. RepoProofs!ObjectCreate(h)
    BY <1>1, SameTransactions DEF PublishEnd
  <2>2. \/ objects \subseteq objects'
        \/ \E c \in objects : /\ wanted \notin Repo!Ids(objects)
                              /\ RepoProofs!Moved(c, wanted) \in objects'
    BY <1>0, <2>1, SameIds, MaxPublishesAssumption, RepoProofs!CreateObjects
  <2>3. d \notin objects'
    BY DEF Repo!Removed, Repo!Ids
  <2>4. PICK c \in objects : /\ wanted \notin Repo!Ids(objects)
                             /\ RepoProofs!Moved(c, wanted) \in objects'
    BY <2>2, <2>3
  <2>5. RepoProofs!Moved(c, wanted).id = wanted
    BY RepoTyped DEF RepoProofs!Moved, Repo!ObjectDocs
  <2> QED BY <2>4, <2>5 DEF Repo!Added
<1>2. ASSUME NEW h \in Handlers, FinalizeEnd(h)
      PROVE  FALSE
  <2>1. PICK c \in objects :
          objects' = (objects \ {c}) \cup {[c EXCEPT !.active = tx[h].req.id]}
    <3>1. RepoProofs!FinalizePublish(h)
      BY <1>2, SameTransactions DEF FinalizeEnd
    <3> QED BY <1>0, <3>1, MaxPublishesAssumption, RepoProofs!FinalizeObjects
  <2>2. [c EXCEPT !.active = tx[h].req.id].id = c.id
    BY RepoTyped DEF Repo!ObjectDocs
  <2> QED BY <2>1, <2>2 DEF Repo!Removed, Repo!Ids
<1>3. ASSUME NEW h \in Handlers, UnPublishEnd(h)
      PROVE  q.status = "ReadyToDelete"
  <2>1. RepoProofs!ObjectDelete(h)
    BY <1>3, SameTransactions DEF UnPublishEnd
  <2>2. PICK c \in objects :
          /\ c \in tx[h].objects
          /\ objects' = objects \ {c}
          /\ \A p \in publishes' : p.id = c.active =>
               \/ p.status = "ReadyToDelete"
               \/ /\ p \in publishes
                  /\ \A s \in tx[h].publishes : s.id = p.id =>
                       \E r \in tx[h].publishes : r.id = p.id /\ r.status = "ReadyToDelete"
    BY <1>0, <2>1, MaxPublishesAssumption, RepoProofs!DeleteRetires
  <2>3. c = d
    BY <2>2 DEF Repo!Removed, Repo!Ids
  <2> QED BY <2>2, <2>3 DEF SnapshotWhole
<1> QED BY <1>0, <1>1, <1>2, <1>3, Writers

\* An upload that replaces what it read of retires it.
LEMMA Replaces ==
  ASSUME IInv, UploadInv, SnapshotWhole, [Next]_vars, NEW d \in objects, NEW e \in objects',
         d.id = e.id, d.active # e.active, NEW q \in publishes', d.active = q.id
  PROVE  \/ q.status = "ReadyToDelete"
         \/ \E h \in Handlers : /\ At(h, "finalize") /\ handler[h].id = e.active
                               /\ handler[h].prev # d.active
<1> SUFFICES ASSUME q.status # "ReadyToDelete"
             PROVE  \E h \in Handlers : /\ At(h, "finalize") /\ handler[h].id = e.active
                                      /\ handler[h].prev # d.active
  OBVIOUS
<1>1. e \notin objects /\ e.id \in Repo!Ids(objects)
  BY DEF IInv, RepoProofs!IInv, RepoProofs!UniqueIds, Repo!Ids
<1>2. PICK h \in Handlers :
        FinalizeEnd(h) /\ e.id = tx[h].req.objectId /\ e.active = handler[h].id
  BY <1>1, PageWritten DEF UploadInv
<1>3. /\ RepoProofs!IInv /\ RepoProofs!FinalizePublish(h) /\ At(h, "finalize")
      /\ tx[h].req.id = handler[h].id /\ tx[h].req.prev = handler[h].prev
  BY <1>2, Finalizing DEF UploadInv
<1>4. ASSUME handler[h].prev = d.active PROVE FALSE
  <2>1. PICK c \in objects : c \in tx[h].objects /\ c.id = tx[h].req.objectId
    BY <1>1, <1>3, MaxPublishesAssumption, RepoProofs!FinalizeObjects
  <2>2. d \in tx[h].objects
    BY <1>2, <1>3, <2>1 DEF RepoProofs!IInv, RepoProofs!UniqueIds
  <2>3. /\ q \in publishes
        /\ \A s \in tx[h].publishes : s.id = q.id =>
             \E r \in tx[h].publishes : r.id = q.id /\ r.status = "ReadyToDelete"
    BY <1>2, <1>3, <1>4, MaxPublishesAssumption, RepoProofs!FinalizeRetires
  <2> QED BY <2>2, <2>3 DEF SnapshotWhole
<1> QED BY <1>2, <1>3, <1>4

--------------------------------------------------------------------------------
(* The theorems *)

\* However requests, uploads and the cleanup interleave, whatever fails and whenever the
\* server restarts: a page that shows something shows a whole upload, whose publish is
\* Published and whose files are all in the bucket.  This takes that no url is uploaded to
\* twice at a time, that uploads end within the hour, that no commit looks failed to its
\* caller (UploadTar would delete the files of what it has just shown, service.go:182-186)
\* and that pages keep their uris (service.go:167-206, 259-294; publishrepo.go:272-348).
THEOREM PagesWhole ==
  ASSUME NoRename, {"sharedUrl", "slowUpload", "lostReply"} \cap Faults = {}
  PROVE  Spec => []PageComplete
<1>1. PagesInv /\ [Next]_vars => PagesInv'
  BY PagesStep
<1>2. PagesInv => PageComplete
  BY DEF PagesInv
<1> QED BY <1>1, <1>2, PagesInit, PTL DEF Spec

\* If no url is uploaded to twice at a time, unpublishing a page hands to the cleanup what
\* it showed at that instant, however many uploads were finalized since the transaction
\* of the request began, and whatever else fails (publishrepo.go:193-224).
THEOREM UnPublishIsWhole ==
  ASSUME "sharedUrl" \notin Faults
  PROVE  Spec => UnPublishRetires
<1> DEFINE Handed == \A d \in objects, p \in publishes' :
                       /\ Repo!Removed(d)
                       /\ ~ \E e \in objects' : Repo!Added(e)
                       /\ d.active = p.id
                       => p.status = "ReadyToDelete"
           Inv == IInv /\ UploadInv /\ SnapshotWhole
<1>1. Init => Inv
  BY SnapshotsInit, InitInv, InitUploads
<1>2. Inv /\ [Next]_vars => Inv'
  BY NextInv, NextUploads, SnapshotsStay
<1>3. Inv /\ [Next]_vars => [Handed]_vars
  BY Retires
<1> HIDE DEF Handed, Inv
<1>4. Spec => [][Handed]_vars
  BY <1>1, <1>2, <1>3, PTL DEF Spec
<1> QED BY <1>4 DEF Handed, UnPublishRetires

\* So does an upload with the publish it replaces, if that is the one it read of when it
\* began, however many requests and cleanups interleave and whatever else fails: only what
\* uploads of one page that overlap showed is left Published (publishrepo.go:272-320).
THEOREM ReplacementIsWhole ==
  ASSUME "sharedUrl" \notin Faults
  PROVE  Spec => ReplacementRetires
<1> DEFINE Handed == \A d \in objects, e \in objects', p \in publishes' :
                       /\ d.id = e.id /\ d.active # e.active
                       /\ d.active = p.id
                       => \/ p.status = "ReadyToDelete"
                          \/ \E h \in Handlers :
                               /\ At(h, "finalize") /\ handler[h].id = e.active
                               /\ handler[h].prev # d.active
           Inv == IInv /\ UploadInv /\ SnapshotWhole
<1>1. Init => Inv
  BY SnapshotsInit, InitInv, InitUploads
<1>2. Inv /\ [Next]_vars => Inv'
  BY NextInv, NextUploads, SnapshotsStay
<1>3. Inv /\ [Next]_vars => [Handed]_vars
  BY Replaces
<1> HIDE DEF Handed, Inv
<1>4. Spec => [][Handed]_vars
  BY <1>1, <1>2, <1>3, PTL DEF Spec
<1> QED BY <1>4 DEF Handed, ReplacementRetires

================================================================================
