-------------------------- MODULE PublishServiceProofs --------------------------
(***************************************************************************)
(* The service as a caller of the repository, for any number of handlers,  *)
(* pages, uris, files and publishes, and under every fault: its steps are  *)
(* steps of PublishRepo, so that what PublishRepoProofs shows holds of it, *)
(* and no upload brings back what the cleanup has to delete.               *)
(***************************************************************************)
EXTENDS PublishService, TLAPS

RepoProofs == INSTANCE PublishRepoProofs WITH Callers <- Handlers

--------------------------------------------------------------------------------
(* PublishRepo and what PublishRepoProofs is about are the same *)

LEMMA SameTypes ==
  /\ Repo!Init <=> RepoProofs!Init
  /\ Repo!TypeOK <=> RepoProofs!TypeOK
  /\ Repo!vars = RepoProofs!vars
  /\ Repo!vars = repoVars
BY DEF Repo!Init, RepoProofs!Init, Repo!TypeOK, RepoProofs!TypeOK,
       Repo!vars, RepoProofs!vars, repoVars,
       Repo!NoTx, RepoProofs!NoTx, Repo!NoRequest, RepoProofs!NoRequest,
       Repo!ObjectDocs, RepoProofs!ObjectDocs, Repo!PublishDocs, RepoProofs!PublishDocs,
       Repo!ObjectIds, RepoProofs!ObjectIds, Repo!PublishIds, RepoProofs!PublishIds,
       Repo!Sharings, RepoProofs!Sharings, Repo!Statuses, RepoProofs!Statuses,
       Repo!NoPublish, RepoProofs!NoPublish,
       Repo!Transactions, RepoProofs!Transactions, Repo!Requests, RepoProofs!Requests,
       Repo!CreateRequests, RepoProofs!CreateRequests,
       Repo!DeleteRequests, RepoProofs!DeleteRequests,
       Repo!FinalizeRequests, RepoProofs!FinalizeRequests

LEMMA SameTransactions ==
  ASSUME NEW h
  PROVE  /\ Repo!ObjectCreate(h) <=> RepoProofs!ObjectCreate(h)
         /\ Repo!ObjectDelete(h) <=> RepoProofs!ObjectDelete(h)
         /\ Repo!FinalizePublish(h) <=> RepoProofs!FinalizePublish(h)
         /\ \A req : Repo!Begin(h, req) <=> RepoProofs!Begin(h, req)
         /\ \A callers : Repo!Abort(callers) <=> RepoProofs!Abort(callers)
         /\ \A ids : Repo!RemovePublishes(ids) <=> RepoProofs!RemovePublishes(ids)
BY DEF Repo!ObjectCreate, RepoProofs!ObjectCreate,
       Repo!ObjectDelete, RepoProofs!ObjectDelete,
       Repo!FinalizePublish, RepoProofs!FinalizePublish,
       Repo!Begin, RepoProofs!Begin, Repo!Abort, RepoProofs!Abort,
       Repo!RemovePublishes, RepoProofs!RemovePublishes,
       Repo!Commit, RepoProofs!Commit, Repo!Replace, RepoProofs!Replace,
       Repo!Missed, RepoProofs!Missed, Repo!NoConflict, RepoProofs!NoConflict,
       Repo!NoTx, RepoProofs!NoTx, Repo!NoRequest, RepoProofs!NoRequest,
       Repo!InTx, RepoProofs!InTx, Repo!Ids, RepoProofs!Ids,
       Repo!Found, RepoProofs!Found, Repo!Moved, RepoProofs!Moved,
       Repo!NewPublishId, RepoProofs!NewPublishId,
       Repo!NewObject, RepoProofs!NewObject, Repo!ObjectId, RepoProofs!ObjectId,
       Repo!createPublish, RepoProofs!createPublish,
       Repo!NoPublish, RepoProofs!NoPublish,
       Repo!markPublishToDelete, RepoProofs!markPublishToDelete,
       Repo!Marked, RepoProofs!Marked, Repo!Finalized, RepoProofs!Finalized,
       Repo!Updated, RepoProofs!Updated

LEMMA SameNext == Repo!Next <=> RepoProofs!Next
<1>1. \A h \in Handlers : Repo!CallerStep(h) <=> RepoProofs!CallerStep(h)
  BY SameTransactions
     DEF Repo!CallerStep, RepoProofs!CallerStep, Repo!BeginCreate, RepoProofs!BeginCreate,
         Repo!BeginDelete, RepoProofs!BeginDelete,
         Repo!BeginFinalize, RepoProofs!BeginFinalize,
         Repo!Sharings, RepoProofs!Sharings, Repo!ObjectIds, RepoProofs!ObjectIds
<1>2. Repo!CleanupStep <=> RepoProofs!CleanupStep
  BY SameTransactions
     DEF Repo!CleanupStep, RepoProofs!CleanupStep,
         Repo!DeletePublish, RepoProofs!DeletePublish, Repo!Ids, RepoProofs!Ids,
         Repo!DeleteOutdatedPublish, RepoProofs!DeleteOutdatedPublish,
         Repo!Outdated, RepoProofs!Outdated,
         Repo!DeleteOutdatedObjects, RepoProofs!DeleteOutdatedObjects,
         Repo!OutdatedObject, RepoProofs!OutdatedObject,
         Repo!NoPublish, RepoProofs!NoPublish
<1> QED BY <1>1, <1>2, SameTransactions DEF Repo!Next, RepoProofs!Next

LEMMA SameSteps == [Repo!Next]_repoVars <=> [RepoProofs!Next]_(RepoProofs!vars)
BY SameNext DEF repoVars, RepoProofs!vars

--------------------------------------------------------------------------------
(* The inductive invariant *)

\* What a handler holds in its local variables is still true enough of the database
\* with these publishes: ids were handed out, and a publish, if it is still there,
\* belongs to the object that was read with it.
Sound(s, docs, last) ==
  /\ s \in HandlerStates
  /\ s.pc \in {"getObject", "put", "finalize"} =>
       /\ s.id \in 1..last
       /\ \A p \in docs : p.id = s.id => p.objectId = s.objectId
  /\ s.pc \in {"put", "finalize"} => s.prev \in 0..last

HandlersSound ==
  /\ handler \in [Handlers -> HandlerStates]
  /\ \A h \in Handlers : Sound(handler[h], publishes, lastId)

\* The same of the goroutine of the cleanup.
CleanerKnows(s, last) ==
  /\ s \in CleanerStates
  /\ s.pc \in {"publishes", "objects"} => s.cutoff \in 0..last
  /\ s.pc \in {"iterate", "delete", "deletePublish"} => s.todo \subseteq 1..last
  /\ s.pc \in {"delete", "deletePublish"} => s.id \in 1..last

IInv ==
  /\ RepoProofs!IInv
  /\ HandlersSound
  /\ CleanerKnows(cleaner, lastId)
  /\ bucket \subseteq Keys
  /\ horizon \in 0..lastId

LEMMA RepoTyped ==
  ASSUME IInv
  PROVE  /\ objects \subseteq Repo!ObjectDocs
         /\ publishes \subseteq Repo!PublishDocs
         /\ lastId \in 0..MaxPublishes
         /\ \A p \in publishes : p.id \in 1..lastId
         /\ \A d \in objects : d.active \in 0..lastId
<1>1. Repo!TypeOK
  BY SameTypes DEF IInv, RepoProofs!IInv
<1>2. /\ objects \subseteq Repo!ObjectDocs
      /\ publishes \subseteq Repo!PublishDocs
      /\ lastId \in 0..MaxPublishes
  BY <1>1 DEF Repo!TypeOK
<1>3. /\ \A p \in publishes : p.id \in 1..MaxPublishes /\ p.id <= lastId
      /\ \A d \in objects : d.active \in 0..MaxPublishes /\ d.active <= lastId
  BY <1>2, MaxPublishesAssumption
     DEF IInv, RepoProofs!IInv, RepoProofs!IdsHandedOut, Repo!PublishDocs,
         Repo!ObjectDocs, Repo!PublishIds, Repo!NoPublish
<1> QED BY <1>2, <1>3, MaxPublishesAssumption

\* The local variables of a handler, by where it is.
LEMMA StatesOf ==
  ASSUME HandlersSound, NEW h \in Handlers
  PROVE  /\ At(h, "getObject") =>
              handler[h] \in [pc : {"getObject"}, id : Repo!PublishIds,
                              objectId : Repo!ObjectIds]
         /\ At(h, "put") \/ At(h, "finalize") =>
              handler[h] \in [pc : {"put", "finalize"}, id : Repo!PublishIds,
                              objectId : Repo!ObjectIds, prev : 0..MaxPublishes,
                              done : SUBSET Files]
         /\ At(h, "list") => handler[h] \in [pc : {"list"}, id : Repo!PublishIds]
         /\ At(h, "delete") =>
              handler[h] \in [pc : {"delete"}, id : Repo!PublishIds, keys : SUBSET Keys]
BY DEF HandlersSound, HandlerStates, At

LEMMA CleanerStatesOf ==
  ASSUME CleanerKnows(cleaner, lastId)
  PROVE  /\ CleanerAt("publishes") \/ CleanerAt("objects") =>
              cleaner \in [pc : {"publishes", "objects"}, cutoff : 0..MaxPublishes]
         /\ CleanerAt("iterate") =>
              cleaner \in [pc : {"iterate"}, todo : SUBSET Repo!PublishIds]
         /\ CleanerAt("delete") =>
              cleaner \in [pc : {"delete"}, id : Repo!PublishIds, keys : SUBSET Keys,
                           todo : SUBSET Repo!PublishIds]
         /\ CleanerAt("deletePublish") =>
              cleaner \in [pc : {"deletePublish"}, id : Repo!PublishIds,
                           todo : SUBSET Repo!PublishIds]
BY DEF CleanerKnows, CleanerStates, CleanerAt

--------------------------------------------------------------------------------
(* Every step is one that the callers of the repository may make *)

LEMMA FinalizeBegins ==
  ASSUME IInv, NEW h \in Handlers, Finalize(h)
  PROVE  Repo!BeginFinalize(h)
<1>1. /\ handler[h].objectId \in Repo!ObjectIds
      /\ handler[h].done \in SUBSET Files
  BY StatesOf DEF IInv, Finalize
<1>2. /\ handler[h].id \in 1..lastId
      /\ handler[h].prev \in 0..lastId
      /\ \A p \in publishes : p.id = handler[h].id => p.objectId = handler[h].objectId
  BY DEF IInv, HandlersSound, Sound, Finalize, At
<1>3. Repo!Begin(h, [op |-> "FinalizePublish", objectId |-> handler[h].objectId,
                     prev |-> handler[h].prev, id |-> handler[h].id,
                     entries |-> handler[h].done])
  BY DEF Finalize
<1> QED BY <1>1, <1>2, <1>3 DEF Repo!BeginFinalize

LEMMA HandlerInRepo ==
  ASSUME IInv, NEW h \in Handlers, HandlerStep(h)
  PROVE  Repo!Next \/ UNCHANGED repoVars
<1>1. ASSUME Repo!CallerStep(h) PROVE Repo!Next
  BY <1>1 DEF Repo!Next
<1>2. CASE Publish(h)
  <2>1. PICK s \in Repo!Sharings : \E u \in UrisOf[s[2]] :
          Repo!Begin(h, [op |-> "ObjectCreate", sharing |-> s, uri |-> u])
    BY <1>2 DEF Publish
  <2>2. UrisOf[s[2]] \subseteq Uris
    BY UrisOfAssumption DEF Repo!Sharings
  <2> QED BY <1>1, <2>1, <2>2 DEF Repo!BeginCreate, Repo!CallerStep
<1>3. CASE UnPublish(h)
  BY <1>1, <1>3 DEF UnPublish, Repo!BeginDelete, Repo!CallerStep
<1>4. CASE PublishEnd(h) \/ UnPublishEnd(h) \/ FinalizeEnd(h)
  BY <1>1, <1>4 DEF PublishEnd, UnPublishEnd, FinalizeEnd, Repo!CallerStep
<1>5. CASE RequestFails(h) \/ FinalizeFails(h)
  <2>1. Repo!Abort({h}) /\ {h} \in SUBSET Handlers
    BY <1>5 DEF RequestFails, FinalizeFails
  <2> QED BY <2>1 DEF Repo!Next
<1>6. CASE Finalize(h)
  BY <1>1, <1>6, FinalizeBegins DEF Repo!CallerStep
<1>7. CASE \/ Invalidate(h) \/ GetPublish(h) \/ GetObject(h) \/ PutFile(h)
           \/ UploadFails(h) \/ ListFiles(h) \/ DeleteFiles(h)
  BY <1>7 DEF Invalidate, GetPublish, GetObject, PutFile, UploadFails, ListFiles,
              DeleteFiles
<1> QED BY <1>2, <1>3, <1>4, <1>5, <1>6, <1>7
        DEF HandlerStep, RpcRequest, CommitStep, UploadStep

LEMMA CleanerInRepo ==
  ASSUME IInv, CleanerStep
  PROVE  Repo!Next \/ UNCHANGED repoVars
<1>1. CASE DeleteOutdatedPublishes \/ DeleteOutdatedObjects
  <2>1. cleaner.cutoff \in 0..lastId
    BY <1>1 DEF DeleteOutdatedPublishes, DeleteOutdatedObjects, CleanerAt, IInv,
                CleanerKnows
  <2> QED BY <1>1, <2>1 DEF DeleteOutdatedPublishes, DeleteOutdatedObjects,
                            Repo!CleanupStep, Repo!Next
<1>2. CASE DeletePublish
  <2>1. cleaner.id \in 1..lastId
    BY <1>2 DEF DeletePublish, CleanerAt, IInv, CleanerKnows
  <2> QED BY <1>2, <2>1 DEF DeletePublish, Repo!CleanupStep, Repo!Next
<1>3. CASE \/ CleanupStart \/ FindReadyToDelete \/ CleanerListFiles
           \/ CleanerDeleteFiles \/ CleanupEnd \/ CleanerStatementFails
  BY <1>3 DEF CleanupStart, FindReadyToDelete, CleanerListFiles, CleanerDeleteFiles,
              CleanupEnd, CleanerStatementFails
<1> QED BY <1>1, <1>2, <1>3 DEF CleanerStep

LEMMA NextInRepo ==
  ASSUME IInv, [Next]_vars
  PROVE  [Repo!Next]_repoVars
<1>1. CASE Crash
  <2> DEFINE open == {h \in Handlers : tx[h] # Repo!NoTx}
  <2>1. open \in SUBSET Handlers
    OBVIOUS
  <2>2. Repo!Abort(open) \/ UNCHANGED repoVars
    BY <1>1 DEF Crash
  <2> QED BY <2>1, <2>2 DEF Repo!Next
<1>2. CASE Age \/ UNCHANGED vars
  BY <1>2 DEF Age, vars
<1> QED BY <1>1, <1>2, HandlerInRepo, CleanerInRepo DEF Next

--------------------------------------------------------------------------------
(* The invariant, step by step *)

LEMMA RepoInvStays ==
  ASSUME IInv, [Repo!Next]_repoVars
  PROVE  RepoProofs!IInv'
BY SameSteps, MaxPublishesAssumption, RepoProofs!NextInv DEF IInv

\* Publishes keep their objects, and ids are never taken back.
LEMMA Stays ==
  ASSUME IInv, [Repo!Next]_repoVars
  PROVE  /\ 0..lastId \subseteq 0..lastId' /\ 1..lastId \subseteq 1..lastId'
         /\ \A s : Sound(s, publishes, lastId) => Sound(s, publishes', lastId')
         /\ \A s : CleanerKnows(s, lastId) => CleanerKnows(s, lastId')
<1>1. /\ lastId' \in {lastId, lastId + 1}
      /\ \A q \in publishes' : RepoProofs!Continues(q) \/ q.id = lastId + 1
  BY SameSteps, MaxPublishesAssumption, RepoProofs!NextPublishes DEF IInv
<1>2. lastId \in Nat
  BY RepoTyped, MaxPublishesAssumption
<1>3. 0..lastId \subseteq 0..lastId' /\ 1..lastId \subseteq 1..lastId'
  BY <1>1, <1>2
<1>4. ASSUME NEW s, Sound(s, publishes, lastId)
      PROVE  Sound(s, publishes', lastId')
  <2>1. ASSUME s.pc \in {"getObject", "put", "finalize"}, NEW q \in publishes', q.id = s.id
        PROVE  q.objectId = s.objectId
    <3>1. s.id \in 1..lastId /\ \A p \in publishes : p.id = s.id => p.objectId = s.objectId
      BY <1>4, <2>1 DEF Sound
    <3>2. RepoProofs!Continues(q)
      BY <1>1, <1>2, <2>1, <3>1
    <3> QED BY <2>1, <3>1, <3>2 DEF RepoProofs!Continues
  <2> QED BY <1>3, <1>4, <2>1 DEF Sound
<1>5. \A s : CleanerKnows(s, lastId) => CleanerKnows(s, lastId')
  BY <1>3 DEF CleanerKnows
<1> QED BY <1>3, <1>4, <1>5

LEMMA GotoSound ==
  ASSUME IInv, [Repo!Next]_repoVars, NEW h \in Handlers, NEW s,
         Sound(s, publishes', lastId'), Goto(h, s)
  PROVE  HandlersSound'
<1>1. handler' \in [Handlers -> HandlerStates]
  BY DEF IInv, HandlersSound, Goto, Sound
<1>2. ASSUME NEW g \in Handlers PROVE Sound(handler'[g], publishes', lastId')
  <2>1. Sound(handler[g], publishes', lastId')
    BY Stays DEF IInv, HandlersSound
  <2>2. handler'[g] = IF g = h THEN s ELSE handler[g]
    BY DEF IInv, HandlersSound, Goto
  <2> QED BY <2>1, <2>2
<1> QED BY <1>1, <1>2 DEF HandlersSound

\* The states whose local variables say nothing of the database.
LEMMA SimplyStates ==
  ASSUME NEW docs, NEW last
  PROVE  /\ Sound(Idle, docs, last)
         /\ \A pc \in {"create", "unpublish"} : Sound([pc |-> pc], docs, last)
         /\ \A o \in Repo!ObjectIds : Sound([pc |-> "invalidate", objectId |-> o], docs, last)
         /\ \A id \in Repo!PublishIds : Sound([pc |-> "list", id |-> id], docs, last)
         /\ \A id \in Repo!PublishIds, keys \in SUBSET Keys :
              Sound([pc |-> "delete", id |-> id, keys |-> keys], docs, last)
BY DEF Sound, Idle, HandlerStates

\* Whose file names are those of the archive, and what deletes only deletes.
LEMMA BucketKept ==
  ASSUME bucket \subseteq Keys
  PROVE  /\ \A keys : DeleteDone(keys) \/ DeleteFailed(keys) => bucket' \subseteq Keys
         /\ \A id \in Repo!PublishIds, f \in Files : S3!Put(FileKey(id, f)) =>
              bucket' \subseteq Keys
         /\ \A id : S3!Listings(id) \subseteq SUBSET Keys
BY DEF DeleteDone, DeleteFailed, S3!DeleteObjects, S3!DeleteSome, S3!Put, FileKey, Keys,
       S3!Listings, S3!KeysOf

LEMMA RpcSound ==
  ASSUME IInv, NEW h \in Handlers, [Repo!Next]_repoVars,
         \/ RpcRequest(h) \/ PublishEnd(h) \/ UnPublishEnd(h)
         \/ RequestFails(h) \/ Invalidate(h)
  PROVE  HandlersSound'
<1>1. \A d \in objects : d.id \in Repo!ObjectIds
  BY RepoTyped DEF Repo!ObjectDocs
<1>2. ASSUME NEW s, Sound(s, publishes', lastId'), Goto(h, s) PROVE HandlersSound'
  BY <1>2, GotoSound
<1>3. CASE RpcRequest(h)
  BY <1>2, <1>3, SimplyStates DEF RpcRequest, Publish, UnPublish
<1>4. CASE PublishEnd(h) \/ UnPublishEnd(h)
  <2>1. \/ Goto(h, Idle)
        \/ \E d \in objects : Goto(h, [pc |-> "invalidate", objectId |-> d.id])
    BY <1>4 DEF PublishEnd, UnPublishEnd
  <2> QED BY <1>1, <1>2, <2>1, SimplyStates
<1>5. CASE RequestFails(h) \/ Invalidate(h)
  BY <1>2, <1>5, SimplyStates DEF RequestFails, Invalidate
<1> QED BY <1>3, <1>4, <1>5

LEMMA UploadSound ==
  ASSUME IInv, NEW h \in Handlers, [Repo!Next]_repoVars, UploadStep(h) \/ FinalizeEnd(h)
  PROVE  HandlersSound'
<1>1. ASSUME NEW s, Sound(s, publishes', lastId'), Goto(h, s) PROVE HandlersSound'
  BY <1>1, GotoSound
<1>2. Sound(handler[h], publishes, lastId)
  BY DEF IInv, HandlersSound
<1>3. CASE GetPublish(h)
  <2>1. PICK p \in publishes :
          Goto(h, [pc |-> "getObject", id |-> p.id, objectId |-> p.objectId])
    BY <1>3 DEF GetPublish
  <2>2. p.id \in 1..lastId /\ p \in Repo!PublishDocs
    BY RepoTyped
  <2>3. \A q \in publishes : q.id = p.id => q.objectId = p.objectId
    BY DEF IInv, RepoProofs!IInv, RepoProofs!UniqueIds
  <2>4. Sound([pc |-> "getObject", id |-> p.id, objectId |-> p.objectId],
              publishes, lastId)
    BY <2>2, <2>3 DEF Sound, HandlerStates, Repo!PublishDocs
  <2> QED BY <1>1, <1>3, <2>1, <2>4 DEF GetPublish, repoVars
<1>4. CASE GetObject(h)
  <2>1. ASSUME NEW d \in ObjectOf(h)
        PROVE  Sound([pc |-> "put", id |-> handler[h].id, objectId |-> d.id,
                      prev |-> d.active, done |-> {}], publishes, lastId)
    <3>1. /\ handler[h].id \in Repo!PublishIds
          /\ d \in Repo!ObjectDocs /\ d.active \in 0..lastId
          /\ d.id = handler[h].objectId
      BY <1>4, StatesOf, RepoTyped DEF GetObject, ObjectOf, IInv
    <3>2. d.active \in 0..MaxPublishes
      BY <3>1, RepoTyped, MaxPublishesAssumption
    <3> QED BY <1>2, <1>4, <3>1, <3>2 DEF Sound, HandlerStates, Repo!ObjectDocs, GetObject, At
  <2>2. UNCHANGED <<publishes, lastId>>
    BY <1>4 DEF GetObject, repoVars
  <2>3. CASE Goto(h, Idle)
    BY <1>1, <2>3, SimplyStates
  <2> QED BY <1>1, <1>4, <2>1, <2>2, <2>3 DEF GetObject
<1>5. CASE PutFile(h)
  <2>1. PICK f \in Files : Goto(h, [handler[h] EXCEPT !.done = @ \cup {f}])
    BY <1>5 DEF PutFile
  <2>2. handler[h] \in [pc : {"put", "finalize"}, id : Repo!PublishIds,
                        objectId : Repo!ObjectIds, prev : 0..MaxPublishes,
                        done : SUBSET Files]
    BY <1>5, StatesOf DEF PutFile, IInv
  <2>3. Sound([handler[h] EXCEPT !.done = @ \cup {f}], publishes, lastId)
    BY <1>2, <2>2 DEF Sound, HandlerStates
  <2> QED BY <1>1, <1>5, <2>1, <2>3 DEF PutFile, repoVars
<1>6. CASE Finalize(h)
  <2>1. handler[h] \in [pc : {"put", "finalize"}, id : Repo!PublishIds,
                        objectId : Repo!ObjectIds, prev : 0..MaxPublishes,
                        done : SUBSET Files]
    BY <1>6, StatesOf DEF Finalize, IInv
  <2>2. Sound([handler[h] EXCEPT !.pc = "finalize"], publishes, lastId)
    BY <1>2, <1>6, <2>1 DEF Sound, HandlerStates, Finalize, At
  <2>3. UNCHANGED <<publishes, lastId>>
    BY <1>6 DEF Finalize, Repo!Begin
  <2> QED BY <1>1, <1>6, <2>2, <2>3 DEF Finalize
<1>7. CASE FinalizeEnd(h) \/ UploadFails(h) \/ FinalizeFails(h)
  <2>1. handler[h].id \in Repo!PublishIds /\ handler[h].objectId \in Repo!ObjectIds
    BY <1>7, StatesOf DEF FinalizeEnd, UploadFails, FinalizeFails, IInv
  <2>2. \/ Goto(h, [pc |-> "invalidate", objectId |-> handler[h].objectId])
        \/ Goto(h, [pc |-> "list", id |-> handler[h].id])
    BY <1>7 DEF FinalizeEnd, UploadFails, FinalizeFails, Failed
  <2> QED BY <1>1, <2>1, <2>2, SimplyStates
<1>8. CASE ListFiles(h)
  <2>1. handler[h].id \in Repo!PublishIds
    BY <1>8, StatesOf DEF ListFiles, IInv
  <2>2. \/ Goto(h, Idle)
        \/ \E keys \in SUBSET Keys :
             Goto(h, [pc |-> "delete", id |-> handler[h].id, keys |-> keys])
    BY <1>8, BucketKept DEF ListFiles, IInv
  <2> QED BY <1>1, <2>1, <2>2, SimplyStates
<1>9. CASE DeleteFiles(h)
  BY <1>1, <1>9, SimplyStates DEF DeleteFiles
<1> QED BY <1>3, <1>4, <1>5, <1>6, <1>7, <1>8, <1>9 DEF UploadStep

LEMMA HandlerBucket ==
  ASSUME IInv, NEW h \in Handlers, HandlerStep(h)
  PROVE  bucket' \subseteq Keys /\ UNCHANGED <<cleaner, horizon>>
<1>1. CASE PutFile(h)
  <2>1. handler[h].id \in Repo!PublishIds
    BY <1>1, StatesOf DEF PutFile, IInv
  <2> QED BY <1>1, <2>1, BucketKept DEF PutFile, IInv
<1>2. CASE DeleteFiles(h)
  BY <1>2, BucketKept DEF DeleteFiles, IInv
<1> QED BY <1>1, <1>2
        DEF HandlerStep, RpcRequest, CommitStep, UploadStep, Publish, UnPublish,
            PublishEnd, UnPublishEnd, FinalizeEnd, RequestFails, Invalidate, GetPublish,
            GetObject, UploadFails, Finalize, FinalizeFails, ListFiles, IInv

\* A step that changes no handler's state.
LEMMA OthersSound ==
  ASSUME IInv, [Repo!Next]_repoVars, UNCHANGED handler
  PROVE  HandlersSound'
BY Stays DEF IInv, HandlersSound

LEMMA CleanerSound ==
  ASSUME IInv, [Repo!Next]_repoVars, CleanerStep
  PROVE  CleanerKnows(cleaner', lastId')
<1>1. ASSUME NEW s, CleanerKnows(s, lastId), CleanerGoto(s)
      PROVE  CleanerKnows(cleaner', lastId')
  BY <1>1, Stays DEF CleanerGoto
<1>2. CleanerKnows(cleaner, lastId)
  BY DEF IInv
<1>3. CleanerKnows(Idle, lastId) /\ CleanerKnows([pc |-> "find"], lastId)
  BY DEF CleanerKnows, CleanerStates, Idle
<1>4. lastId \in 0..MaxPublishes /\ 0..lastId \subseteq 0..MaxPublishes
  BY RepoTyped, MaxPublishesAssumption
<1>5. CASE CleanupStart
  <2>1. horizon \in 0..lastId /\ horizon \in 0..MaxPublishes
    BY <1>4 DEF IInv
  <2>2. CleanerKnows([pc |-> "publishes", cutoff |-> horizon], lastId)
    BY <2>1 DEF CleanerKnows, CleanerStates
  <2> QED BY <1>1, <1>5, <2>2 DEF CleanupStart
<1>6. CASE DeleteOutdatedPublishes
  <2>1. cleaner \in [pc : {"publishes", "objects"}, cutoff : 0..MaxPublishes]
    BY <1>2, <1>6, CleanerStatesOf DEF DeleteOutdatedPublishes
  <2>2. CleanerKnows([cleaner EXCEPT !.pc = "objects"], lastId)
    BY <1>2, <1>6, <2>1 DEF CleanerKnows, CleanerStates, DeleteOutdatedPublishes, CleanerAt
  <2>3. UNCHANGED cleaner \/ CleanerGoto([cleaner EXCEPT !.pc = "objects"])
    BY <1>6 DEF DeleteOutdatedPublishes
  <2> QED BY <1>1, <1>2, <2>2, <2>3 DEF CleanerGoto
<1>7. CASE DeleteOutdatedObjects
  BY <1>1, <1>3, <1>7 DEF DeleteOutdatedObjects
<1>8. CASE FindReadyToDelete
  <2>1. Repo!ReadyToDeleteIds \subseteq 1..lastId
    BY RepoTyped DEF Repo!ReadyToDeleteIds, Repo!Ids
  <2>2. 1..lastId \subseteq Repo!PublishIds
    BY <1>4, MaxPublishesAssumption DEF Repo!PublishIds
  <2>3. CleanerKnows([pc |-> "iterate", todo |-> Repo!ReadyToDeleteIds], lastId)
    BY <2>1, <2>2 DEF CleanerKnows, CleanerStates
  <2> QED BY <1>1, <1>8, <2>3 DEF FindReadyToDelete
<1>9. CASE CleanerListFiles
  <2>1. PICK id \in cleaner.todo :
          \/ \E keys \in S3!Listings(id) :
               CleanerGoto([pc |-> "delete", id |-> id, keys |-> keys,
                            todo |-> cleaner.todo \ {id}])
          \/ CleanerGoto([cleaner EXCEPT !.todo = cleaner.todo \ {id}])
    BY <1>9 DEF CleanerListFiles
  <2>2. /\ cleaner \in [pc : {"iterate"}, todo : SUBSET Repo!PublishIds]
        /\ cleaner.todo \subseteq 1..lastId
    BY <1>2, <1>9, CleanerStatesOf DEF CleanerListFiles, CleanerKnows, CleanerAt
  <2>3. CleanerKnows([cleaner EXCEPT !.todo = cleaner.todo \ {id}], lastId)
    BY <2>2 DEF CleanerKnows, CleanerStates
  <2>4. ASSUME NEW keys \in S3!Listings(id)
        PROVE  CleanerKnows([pc |-> "delete", id |-> id, keys |-> keys,
                             todo |-> cleaner.todo \ {id}], lastId)
    <3>1. keys \in SUBSET Keys
      BY BucketKept DEF IInv
    <3> QED BY <2>1, <2>2, <3>1 DEF CleanerKnows, CleanerStates
  <2> QED BY <1>1, <2>1, <2>3, <2>4
<1>10. CASE CleanerDeleteFiles
  <2>1. /\ cleaner \in [pc : {"delete"}, id : Repo!PublishIds, keys : SUBSET Keys,
                        todo : SUBSET Repo!PublishIds]
        /\ cleaner.todo \subseteq 1..lastId /\ cleaner.id \in 1..lastId
    BY <1>2, <1>10, CleanerStatesOf DEF CleanerDeleteFiles, CleanerKnows, CleanerAt
  <2>2. /\ CleanerKnows([pc |-> "deletePublish", id |-> cleaner.id,
                         todo |-> cleaner.todo], lastId)
        /\ CleanerKnows(NextId, lastId)
    BY <2>1 DEF CleanerKnows, CleanerStates, NextId
  <2> QED BY <1>1, <1>10, <2>2 DEF CleanerDeleteFiles
<1>11. CASE DeletePublish
  <2>1. /\ cleaner \in [pc : {"deletePublish"}, id : Repo!PublishIds,
                        todo : SUBSET Repo!PublishIds]
        /\ cleaner.todo \subseteq 1..lastId
    BY <1>2, <1>11, CleanerStatesOf DEF DeletePublish, CleanerKnows, CleanerAt
  <2>2. CleanerKnows(NextId, lastId)
    BY <2>1 DEF CleanerKnows, CleanerStates, NextId
  <2> QED BY <1>1, <1>11, <2>2 DEF DeletePublish
<1>12. CASE CleanupEnd
  BY <1>1, <1>3, <1>12 DEF CleanupEnd
<1>13. CASE CleanerStatementFails
  <2>1. CASE CleanerAt("publishes")
    <3>1. cleaner \in [pc : {"publishes", "objects"}, cutoff : 0..MaxPublishes]
      BY <1>2, <2>1, CleanerStatesOf
    <3>2. CleanerKnows([cleaner EXCEPT !.pc = "objects"], lastId)
      BY <1>2, <2>1, <3>1 DEF CleanerKnows, CleanerStates, CleanerAt
    <3> QED BY <1>1, <1>13, <2>1, <3>2 DEF CleanerStatementFails, CleanerAfterError, CleanerAt
  <2>2. CASE CleanerAt("objects")
    BY <1>1, <1>3, <1>13, <2>2 DEF CleanerStatementFails, CleanerAfterError, CleanerAt
  <2>3. CASE CleanerAt("deletePublish")
    <3>1. /\ cleaner \in [pc : {"deletePublish"}, id : Repo!PublishIds,
                          todo : SUBSET Repo!PublishIds]
          /\ cleaner.todo \subseteq 1..lastId
      BY <1>2, <2>3, CleanerStatesOf DEF CleanerKnows, CleanerAt
    <3>2. CleanerKnows(NextId, lastId)
      BY <3>1 DEF CleanerKnows, CleanerStates, NextId
    <3> QED BY <1>1, <1>13, <2>3, <3>2 DEF CleanerStatementFails, CleanerAfterError, CleanerAt
  <2>4. CASE CleanerAt("find") \/ CleanerAt("iterate")
    BY <1>1, <1>3, <1>13, <2>4 DEF CleanerStatementFails, CleanerAfterError, CleanerAt
  <2> QED BY <1>13, <2>1, <2>2, <2>3, <2>4 DEF CleanerStatementFails, CleanerAt
<1> QED BY <1>5, <1>6, <1>7, <1>8, <1>9, <1>10, <1>11, <1>12, <1>13 DEF CleanerStep

LEMMA CleanerBucket ==
  ASSUME IInv, CleanerStep
  PROVE  bucket' \subseteq Keys /\ UNCHANGED <<handler, horizon>>
<1>1. CASE CleanerDeleteFiles
  BY <1>1, BucketKept DEF CleanerDeleteFiles, IInv
<1> QED BY <1>1 DEF CleanerStep, CleanupStart, DeleteOutdatedPublishes,
                    DeleteOutdatedObjects, FindReadyToDelete, CleanerListFiles,
                    DeletePublish, CleanupEnd, CleanerStatementFails, IInv

LEMMA InitInv == Init => IInv
<1> SUFFICES ASSUME Init PROVE IInv
  OBVIOUS
<1>1. RepoProofs!IInv
  BY SameTypes, MaxPublishesAssumption, RepoProofs!InitInv DEF Init
<1>2. HandlersSound
  BY SimplyStates DEF Init, HandlersSound, Sound
<1>3. CleanerKnows(cleaner, lastId)
  BY DEF Init, CleanerKnows, CleanerStates, Idle
<1>4. lastId = 0
  BY DEF Init, Repo!Init
<1> QED BY <1>1, <1>2, <1>3, <1>4 DEF Init, IInv

LEMMA NextInv ==
  ASSUME IInv, [Next]_vars
  PROVE  IInv'
<1>1. [Repo!Next]_repoVars
  BY NextInRepo
<1>2. RepoProofs!IInv'
  BY <1>1, RepoInvStays
<1>3. /\ horizon \in 0..lastId'
      /\ CleanerKnows(cleaner, lastId')
  BY <1>1, Stays DEF IInv
<1>4. ASSUME NEW h \in Handlers, HandlerStep(h) PROVE IInv'
  <2>1. HandlersSound'
    BY <1>1, <1>4, RpcSound, UploadSound DEF HandlerStep, CommitStep
  <2>2. bucket' \subseteq Keys /\ UNCHANGED <<cleaner, horizon>>
    BY <1>4, HandlerBucket
  <2> QED BY <1>2, <1>3, <2>1, <2>2 DEF IInv
<1>5. CASE CleanerStep
  BY <1>1, <1>2, <1>3, <1>5, OthersSound, CleanerSound, CleanerBucket DEF IInv
<1>6. CASE Age
  <2>1. horizon + 1 \in 0..lastId
    BY <1>6, RepoTyped, MaxPublishesAssumption DEF Age, IInv
  <2>2. lastId' = lastId
    BY <1>6 DEF Age, repoVars
  <2> QED BY <1>1, <1>2, <1>3, <1>6, <2>1, <2>2, OthersSound DEF Age, IInv
<1>7. CASE Crash
  <2>1. handler' = [h \in Handlers |-> Idle] /\ UNCHANGED <<bucket, horizon>>
    BY <1>7 DEF Crash
  <2>2. HandlersSound'
    <3>1. Sound(Idle, publishes', lastId') /\ Idle \in HandlerStates
      BY SimplyStates DEF Sound
    <3> QED BY <2>1, <3>1 DEF HandlersSound
  <2>3. CleanerKnows(cleaner', lastId')
    BY <1>7 DEF Crash, CleanerGoto, CleanerKnows, CleanerStates, Idle
  <2> QED BY <1>2, <1>3, <2>1, <2>2, <2>3 DEF IInv
<1>8. CASE UNCHANGED vars
  BY <1>1, <1>2, <1>3, <1>8, OthersSound DEF vars, IInv
<1> QED BY <1>4, <1>5, <1>6, <1>7, <1>8 DEF Next

--------------------------------------------------------------------------------
(* Uploads keep apart, if no url is used twice at a time *)

Started(s) == s.pc \in {"getObject", "put", "finalize"}

\* The publish an upload is at work on is still Created, if it is still there.
UploadsCreated(s, docs) ==
  Started(s) => \A p \in docs : p.id = s.id => p.status = "Created"

\* The publish it is going to replace is not.
ReplacesShown(s, docs) ==
  s.pc \in {"put", "finalize"} => \A p \in docs : p.id = s.prev => p.status # "Created"

OneUploader ==
  \A g, h \in Handlers :
    Started(handler[g]) /\ Started(handler[h]) /\ handler[g].id = handler[h].id => g = h

\* The transaction that finalizes an upload is about that upload.
TxMatches ==
  \A h \in Handlers : At(h, "finalize") /\ Repo!InTx(h, "FinalizePublish") =>
    tx[h].req.id = handler[h].id /\ tx[h].req.prev = handler[h].prev

UploadInv ==
  /\ \A h \in Handlers : UploadsCreated(handler[h], publishes)
  /\ \A h \in Handlers : ReplacesShown(handler[h], publishes)
  /\ OneUploader
  /\ TxMatches

\* What may be written to the publishes, and why.
LEMMA Written ==
  ASSUME IInv, UploadInv, [Next]_vars, NEW q \in publishes', q \notin publishes
  PROVE  \/ q.id = lastId + 1 /\ q.status = "Created"
         \/ /\ q.status = "ReadyToDelete"
            /\ \E p \in publishes : p.id = q.id /\ p.status # "Created"
         \/ /\ q.status = "Published"
            /\ \E h \in Handlers : FinalizeEnd(h) /\ handler[h].id = q.id
<1>0. RepoProofs!IInv
  BY DEF IInv
<1>1. ASSUME NEW h \in Handlers, PublishEnd(h)
      PROVE  q.id = lastId + 1 /\ q.status = "Created"
  <2>1. RepoProofs!ObjectCreate(h)
    BY <1>1, SameTransactions DEF PublishEnd
  <2> QED BY <1>0, <2>1, MaxPublishesAssumption, RepoProofs!CreatePublishes
<1>2. ASSUME NEW h \in Handlers, UnPublishEnd(h)
      PROVE  /\ q.status = "ReadyToDelete"
             /\ \E p \in publishes : p.id = q.id /\ p.status # "Created"
  <2>1. RepoProofs!ObjectDelete(h)
    BY <1>2, SameTransactions DEF UnPublishEnd
  <2> QED BY <1>0, <2>1, MaxPublishesAssumption, RepoProofs!DeletePublishes
<1>3. ASSUME NEW h \in Handlers, FinalizeEnd(h)
      PROVE  \/ /\ q.status = "ReadyToDelete"
                /\ \E p \in publishes : p.id = q.id /\ p.status # "Created"
             \/ q.status = "Published" /\ handler[h].id = q.id
  <2>1. RepoProofs!FinalizePublish(h)
    BY <1>3, SameTransactions DEF FinalizeEnd
  <2>2. /\ \/ q.status = "ReadyToDelete" /\ q.id = tx[h].req.prev
           \/ q.status = "Published" /\ q.id = tx[h].req.id
        /\ \E p \in publishes : p.id = q.id
    BY <1>0, <2>1, MaxPublishesAssumption, RepoProofs!FinalizePublishes
  <2>3. At(h, "finalize") /\ Repo!InTx(h, "FinalizePublish")
    BY <1>3 DEF FinalizeEnd, Repo!FinalizePublish
  <2>4. tx[h].req.id = handler[h].id /\ tx[h].req.prev = handler[h].prev
    BY <2>3 DEF UploadInv, TxMatches
  <2>5. \A p \in publishes : p.id = handler[h].prev => p.status # "Created"
    BY <2>3 DEF UploadInv, ReplacesShown, At
  <2> QED BY <2>2, <2>4, <2>5
<1>4. CASE \E h \in Handlers :
             \/ RpcRequest(h) \/ RequestFails(h) \/ Invalidate(h) \/ UploadStep(h)
  <2>1. publishes' = publishes
    BY <1>4 DEF RpcRequest, Publish, UnPublish, RequestFails, Invalidate, UploadStep,
                GetPublish, GetObject, PutFile, UploadFails, Finalize, FinalizeFails,
                ListFiles, DeleteFiles, Repo!Begin, Repo!Abort, repoVars
  <2> QED BY <2>1
<1>5. CASE CleanerStep \/ Age \/ Crash \/ UNCHANGED vars
  <2>1. publishes' \subseteq publishes
    BY <1>5 DEF CleanerStep, CleanupStart, DeleteOutdatedPublishes,
                DeleteOutdatedObjects, FindReadyToDelete, CleanerListFiles,
                CleanerDeleteFiles, DeletePublish, CleanupEnd, CleanerStatementFails,
                Age, Crash, Repo!Abort, Repo!DeletePublish, Repo!DeleteOutdatedPublish,
                Repo!DeleteOutdatedObjects, Repo!RemovePublishes, Repo!Replace,
                repoVars, vars
  <2> QED BY <2>1
<1> QED BY <1>1, <1>2, <1>3, <1>4, <1>5 DEF Next, HandlerStep, CommitStep

\* What a step of a handler makes of an upload.
LEMMA UploadMoves ==
  ASSUME IInv, NEW h \in Handlers, HandlerStep(h), Started(handler'[h])
  PROVE  /\ publishes' = publishes
         /\ \/ /\ GetPublish(h)
               /\ handler'[h].pc = "getObject"
               /\ \E p \in publishes :
                    /\ p.id = handler'[h].id
                    /\ p.status = "Created"
                    /\ "sharedUrl" \in Faults \/ \A g \in Handlers : ~InUse(g, p.id)
            \/ /\ GetObject(h) /\ At(h, "getObject")
               /\ handler'[h].pc = "put" /\ handler'[h].id = handler[h].id
               /\ \E d \in objects : handler'[h].prev = d.active
            \/ /\ At(h, "put")
               /\ handler'[h].id = handler[h].id /\ handler'[h].prev = handler[h].prev
               /\ \/ handler'[h].pc = "put"
                  \/ /\ handler'[h].pc = "finalize"
                     /\ tx'[h].req.id = handler[h].id
                     /\ tx'[h].req.prev = handler[h].prev
<1>1. \A s : Goto(h, s) => handler'[h] = s
  BY DEF IInv, HandlersSound, Goto
<1>2. \A s : Goto(h, s) => Started(s)
  BY <1>1
<1>3. CASE GetPublish(h)
  BY <1>1, <1>3 DEF GetPublish, Uploadable, repoVars
<1>4. CASE GetObject(h)
  <2>1. ~Goto(h, Idle)
    BY <1>2 DEF Started, Idle
  <2>2. PICK d \in ObjectOf(h) :
          Goto(h, [pc |-> "put", id |-> handler[h].id, objectId |-> d.id,
                   prev |-> d.active, done |-> {}])
    BY <1>4, <2>1 DEF GetObject
  <2>3. handler'[h] = [pc |-> "put", id |-> handler[h].id, objectId |-> d.id,
                       prev |-> d.active, done |-> {}]
    BY <1>1, <2>2
  <2>4. /\ handler'[h].pc = "put"
        /\ handler'[h].id = handler[h].id
        /\ handler'[h].prev = d.active
    BY <2>3
  <2>5. d \in objects
    BY DEF ObjectOf
  <2>6. publishes' = publishes /\ At(h, "getObject")
    BY <1>4 DEF GetObject, repoVars
  <2> QED BY <1>4, <2>4, <2>5, <2>6
<1>5. CASE PutFile(h) \/ Finalize(h)
  <2>1. At(h, "put")
    BY <1>5 DEF PutFile, Finalize
  <2>2. handler[h] \in [pc : {"put", "finalize"}, id : Repo!PublishIds,
                        objectId : Repo!ObjectIds, prev : 0..MaxPublishes,
                        done : SUBSET Files]
    BY <2>1, StatesOf DEF IInv
  <2>3. CASE PutFile(h)
    BY <1>1, <2>1, <2>2, <2>3 DEF PutFile, At, repoVars
  <2>4. CASE Finalize(h)
    <3> DEFINE req == [op |-> "FinalizePublish", objectId |-> handler[h].objectId,
                       prev |-> handler[h].prev, id |-> handler[h].id,
                       entries |-> handler[h].done]
    <3>1. Repo!Begin(h, req) /\ Goto(h, [handler[h] EXCEPT !.pc = "finalize"])
      BY <2>4 DEF Finalize
    <3>2. publishes' = publishes
      BY <3>1 DEF Repo!Begin
    <3>3. RepoProofs!Begin(h, req) /\ RepoProofs!TypeOK
      BY <3>1, SameTransactions DEF IInv, RepoProofs!IInv
    <3> HIDE DEF req
    <3>4. tx'[h].req = req
      BY <3>3, MaxPublishesAssumption, RepoProofs!TransactionsStay
    <3>5. tx'[h].req.id = handler[h].id /\ tx'[h].req.prev = handler[h].prev
      BY <3>4 DEF req
    <3>6. handler'[h] = [handler[h] EXCEPT !.pc = "finalize"]
      BY <1>1, <3>1
    <3> QED BY <2>1, <2>2, <3>2, <3>5, <3>6
  <2> QED BY <1>5, <2>3, <2>4
<1>6. CASE \/ RpcRequest(h) \/ CommitStep(h) \/ RequestFails(h) \/ Invalidate(h)
           \/ UploadFails(h) \/ FinalizeFails(h) \/ ListFiles(h) \/ DeleteFiles(h)
  <2>1. \/ Goto(h, Idle) \/ Goto(h, [pc |-> "create"]) \/ Goto(h, [pc |-> "unpublish"])
        \/ \E o : Goto(h, [pc |-> "invalidate", objectId |-> o])
        \/ Goto(h, [pc |-> "list", id |-> handler[h].id])
        \/ \E keys : Goto(h, [pc |-> "delete", id |-> handler[h].id, keys |-> keys])
    BY <1>6 DEF RpcRequest, Publish, UnPublish, CommitStep, PublishEnd, UnPublishEnd,
                FinalizeEnd, RequestFails, Invalidate, UploadFails, FinalizeFails,
                ListFiles, DeleteFiles, Failed
  <2>2. /\ ~Started(Idle) /\ ~Started([pc |-> "create"]) /\ ~Started([pc |-> "unpublish"])
        /\ \A o : ~Started([pc |-> "invalidate", objectId |-> o])
        /\ ~Started([pc |-> "list", id |-> handler[h].id])
        /\ \A keys : ~Started([pc |-> "delete", id |-> handler[h].id, keys |-> keys])
    BY DEF Started, Idle
  <2> QED BY <1>2, <2>1, <2>2
<1> QED BY <1>3, <1>4, <1>5, <1>6 DEF HandlerStep, UploadStep

\* A handler moves by a step of its own, or stops with the server.
LEMMA StepsOf ==
  ASSUME IInv, [Next]_vars, NEW h \in Handlers, Started(handler'[h])
  PROVE  handler'[h] = handler[h] \/ HandlerStep(h)
<1>1. ASSUME NEW g \in Handlers, HandlerStep(g)
      PROVE  handler'[h] = handler[h] \/ HandlerStep(h)
  <2>1. \A s : Goto(g, s) => g = h \/ handler'[h] = handler[h]
    BY DEF IInv, HandlersSound, Goto
  <2>2. \E s : Goto(g, s)
    BY <1>1 DEF HandlerStep, RpcRequest, Publish, UnPublish, CommitStep, PublishEnd,
                UnPublishEnd, FinalizeEnd, RequestFails, Invalidate, UploadStep,
                GetPublish, GetObject, PutFile, UploadFails, Finalize, FinalizeFails,
                ListFiles, DeleteFiles
  <2> QED BY <1>1, <2>1, <2>2
<1>2. CASE Crash
  BY <1>2 DEF Crash, Started, Idle
<1>3. CASE CleanerStep
  BY <1>3, CleanerBucket
<1>4. CASE Age \/ UNCHANGED vars
  BY <1>4 DEF Age, vars
<1> QED BY <1>1, <1>2, <1>3, <1>4 DEF Next

LEMMA CreatedStays ==
  ASSUME IInv, UploadInv, [Next]_vars, "sharedUrl" \notin Faults, NEW h \in Handlers
  PROVE  UploadsCreated(handler'[h], publishes')
<1> SUFFICES ASSUME Started(handler'[h]), NEW q \in publishes', q.id = handler'[h].id
             PROVE  q.status = "Created"
  BY DEF UploadsCreated
<1>1. CASE handler'[h] = handler[h]
  <2>1. /\ handler[h].id \in 1..lastId /\ lastId \in Nat
        /\ \A p \in publishes : p.id = handler[h].id => p.status = "Created"
    BY <1>1, RepoTyped, MaxPublishesAssumption
       DEF IInv, HandlersSound, Sound, Started, UploadInv, UploadsCreated
  <2>2. q.id # lastId + 1
    BY <1>1, <2>1
  <2>3. ASSUME NEW g \in Handlers, FinalizeEnd(g), handler[g].id = q.id
        PROVE  FALSE
    <3>1. g = h
      BY <1>1, <2>3 DEF UploadInv, OneUploader, Started, FinalizeEnd, At
    <3>2. ~Started(handler'[g])
      <4>1. \/ Goto(g, [pc |-> "invalidate", objectId |-> handler[g].objectId])
            \/ Goto(g, [pc |-> "list", id |-> handler[g].id])
        BY <2>3 DEF FinalizeEnd, Failed
      <4>2. /\ ~Started([pc |-> "invalidate", objectId |-> handler[g].objectId])
            /\ ~Started([pc |-> "list", id |-> handler[g].id])
        BY DEF Started
      <4> QED BY <4>1, <4>2 DEF IInv, HandlersSound, Goto
    <3> QED BY <3>1, <3>2
  <2> QED BY <1>1, <2>1, <2>2, <2>3, Written
<1>2. CASE HandlerStep(h)
  <2>1. publishes' = publishes
    BY <1>2, UploadMoves
  <2>2. \A p, r \in publishes : p.id = r.id => p = r
    BY DEF IInv, RepoProofs!IInv, RepoProofs!UniqueIds
  <2>3. CASE \E p \in publishes : p.id = handler'[h].id /\ p.status = "Created"
    BY <2>1, <2>2, <2>3
  <2>4. CASE Started(handler[h]) /\ handler'[h].id = handler[h].id
    BY <2>1, <2>4 DEF UploadInv, UploadsCreated
  <2> QED BY <1>2, <2>3, <2>4, UploadMoves DEF Started, At
<1> QED BY <1>1, <1>2, StepsOf

LEMMA ShownStays ==
  ASSUME IInv, UploadInv, [Next]_vars, NEW h \in Handlers
  PROVE  ReplacesShown(handler'[h], publishes')
<1> SUFFICES ASSUME handler'[h].pc \in {"put", "finalize"},
                    NEW q \in publishes', q.id = handler'[h].prev
             PROVE  q.status # "Created"
  BY DEF ReplacesShown
<1>0. Started(handler'[h])
  BY DEF Started
<1>1. CASE handler'[h] = handler[h]
  <2>1. handler[h].prev \in 0..lastId /\ lastId \in Nat
    BY <1>1, RepoTyped, MaxPublishesAssumption DEF IInv, HandlersSound, Sound
  <2>2. RepoProofs!Continues(q)
    <3>1. [RepoProofs!Next]_(RepoProofs!vars)
      BY NextInRepo, SameSteps
    <3>2. RepoProofs!Continues(q) \/ q.id = lastId + 1
      BY <3>1, MaxPublishesAssumption, RepoProofs!NextPublishes DEF IInv
    <3> QED BY <1>1, <2>1, <3>2
  <2>3. \A p \in publishes : p.id = handler[h].prev => p.status # "Created"
    BY <1>1 DEF UploadInv, ReplacesShown
  <2> QED BY <1>1, <2>2, <2>3 DEF RepoProofs!Continues
<1>2. CASE HandlerStep(h)
  <2>1. publishes' = publishes
    BY <1>0, <1>2, UploadMoves
  <2>2. CASE \E d \in objects : handler'[h].prev = d.active
    BY <2>1, <2>2 DEF IInv, RepoProofs!IInv, RepoProofs!ActiveWasFinalized
  <2>3. CASE At(h, "put") /\ handler'[h].prev = handler[h].prev
    BY <2>1, <2>3 DEF UploadInv, ReplacesShown, At
  <2> QED BY <1>0, <1>2, <2>2, <2>3, UploadMoves
<1> QED BY <1>0, <1>1, <1>2, StepsOf

\* An upload starts only where there is none.
LEMMA StartsAlone ==
  ASSUME IInv, [Next]_vars, "sharedUrl" \notin Faults, NEW h \in Handlers,
         Started(handler'[h])
  PROVE  \/ Started(handler[h]) /\ handler[h].id = handler'[h].id
         \/ /\ HandlerStep(h)
            /\ \A g \in Handlers : Started(handler[g]) => handler[g].id # handler'[h].id
<1>1. CASE handler'[h] = handler[h]
  BY <1>1
<1>2. CASE HandlerStep(h)
  BY <1>2, UploadMoves DEF InUse, Uploading, Started, At
<1> QED BY <1>1, <1>2, StepsOf

LEMMA ApartStays ==
  ASSUME IInv, UploadInv, [Next]_vars, "sharedUrl" \notin Faults
  PROVE  OneUploader'
<1> SUFFICES ASSUME NEW g \in Handlers, NEW h \in Handlers, g # h,
                    Started(handler'[g]), Started(handler'[h]),
                    handler'[g].id = handler'[h].id
             PROVE  FALSE
  BY DEF OneUploader
<1>1. CASE /\ Started(handler[g]) /\ handler[g].id = handler'[g].id
           /\ Started(handler[h]) /\ handler[h].id = handler'[h].id
  BY <1>1 DEF UploadInv, OneUploader
<1>2. ASSUME NEW c \in Handlers, NEW d \in Handlers, c # d, HandlerStep(c)
      PROVE  handler'[d] = handler[d]
  <2>1. \A s : Goto(c, s) => handler'[d] = handler[d]
    BY <1>2 DEF IInv, HandlersSound, Goto
  <2>2. \E s : Goto(c, s)
    BY <1>2 DEF HandlerStep, RpcRequest, Publish, UnPublish, CommitStep, PublishEnd,
                UnPublishEnd, FinalizeEnd, RequestFails, Invalidate, UploadStep,
                GetPublish, GetObject, PutFile, UploadFails, Finalize, FinalizeFails,
                ListFiles, DeleteFiles
  <2> QED BY <2>1, <2>2
<1>3. CASE /\ HandlerStep(g)
           /\ \A c \in Handlers : Started(handler[c]) => handler[c].id # handler'[g].id
  BY <1>2, <1>3
<1>4. CASE /\ HandlerStep(h)
           /\ \A c \in Handlers : Started(handler[c]) => handler[c].id # handler'[h].id
  BY <1>2, <1>4
<1> QED BY <1>1, <1>3, <1>4, StartsAlone

\* Steps that do not begin a transaction leave its request and its snapshot alone.
LEMMA TransactionFate ==
  ASSUME IInv, [Next]_vars, NEW h \in Handlers
  PROVE  RepoProofs!Kept(h) \/ Publish(h) \/ UnPublish(h) \/ Finalize(h)
<1>1. RepoProofs!TypeOK
  BY DEF IInv, RepoProofs!IInv
<1>2. tx'[h] = tx[h] => RepoProofs!Kept(h)
  BY DEF RepoProofs!Kept
<1>3. ASSUME NEW g \in Handlers,
             \/ Repo!ObjectCreate(g) \/ Repo!ObjectDelete(g) \/ Repo!FinalizePublish(g)
      PROVE  RepoProofs!Kept(h)
  BY <1>1, <1>3, SameTransactions, MaxPublishesAssumption, RepoProofs!CommitsKeep
<1>4. ASSUME NEW callers, Repo!Abort(callers)
      PROVE  RepoProofs!Kept(h)
  BY <1>1, <1>4, SameTransactions, MaxPublishesAssumption, RepoProofs!TransactionsStay
<1>5. ASSUME NEW ids, Repo!RemovePublishes(ids)
      PROVE  RepoProofs!Kept(h)
  BY <1>1, <1>5, SameTransactions, MaxPublishesAssumption, RepoProofs!TransactionsStay
<1>6. ASSUME NEW g \in Handlers \ {h}, NEW req, Repo!Begin(g, req)
      PROVE  RepoProofs!Kept(h)
  BY <1>1, <1>2, <1>6, SameTransactions, MaxPublishesAssumption,
     RepoProofs!TransactionsStay
<1>7. ASSUME NEW g \in Handlers, HandlerStep(g),
             ~(g = h /\ (Publish(h) \/ UnPublish(h) \/ Finalize(h)))
      PROVE  RepoProofs!Kept(h)
  <2>1. CASE Publish(g) \/ UnPublish(g) \/ Finalize(g)
    BY <1>6, <1>7, <2>1 DEF Publish, UnPublish, Finalize
  <2>2. CASE CommitStep(g)
    BY <1>3, <2>2 DEF CommitStep, PublishEnd, UnPublishEnd, FinalizeEnd
  <2>3. CASE RequestFails(g) \/ FinalizeFails(g)
    BY <1>4, <2>3 DEF RequestFails, FinalizeFails
  <2>4. CASE \/ Invalidate(g) \/ GetPublish(g) \/ GetObject(g) \/ PutFile(g)
             \/ UploadFails(g) \/ ListFiles(g) \/ DeleteFiles(g)
    BY <1>2, <2>4 DEF Invalidate, GetPublish, GetObject, PutFile, UploadFails,
                      ListFiles, DeleteFiles, repoVars
  <2> QED BY <1>7, <2>1, <2>2, <2>3, <2>4 DEF HandlerStep, RpcRequest, UploadStep
<1>8. CASE CleanerStep
  BY <1>2, <1>5, <1>8 DEF CleanerStep, CleanupStart, DeleteOutdatedPublishes,
                          DeleteOutdatedObjects, FindReadyToDelete, CleanerListFiles,
                          CleanerDeleteFiles, DeletePublish, CleanupEnd,
                          CleanerStatementFails, Repo!DeletePublish,
                          Repo!DeleteOutdatedPublish, Repo!DeleteOutdatedObjects,
                          repoVars
<1>9. CASE Crash
  BY <1>2, <1>4, <1>9 DEF Crash, repoVars
<1>10. CASE Age \/ UNCHANGED vars
  BY <1>2, <1>10 DEF Age, vars, repoVars
<1> QED BY <1>7, <1>8, <1>9, <1>10 DEF Next

LEMMA TransactionKept ==
  ASSUME IInv, [Next]_vars, NEW h \in Handlers, handler'[h] = handler[h]
  PROVE  RepoProofs!Kept(h)
<1>1. \A s : Goto(h, s) => handler[h] = s
  BY DEF IInv, HandlersSound, Goto
<1>2. ~Publish(h) /\ ~UnPublish(h)
  BY <1>1 DEF Publish, UnPublish, Idle
<1>3. CASE Finalize(h)
  <2>1. At(h, "put") /\ handler[h] = [handler[h] EXCEPT !.pc = "finalize"]
    BY <1>1, <1>3 DEF Finalize
  <2>2. [handler[h] EXCEPT !.pc = "finalize"].pc = "finalize"
    BY <2>1, StatesOf DEF IInv
  <2> QED BY <2>1, <2>2 DEF At
<1> QED BY <1>2, <1>3, TransactionFate

LEMMA TxMatchesStays ==
  ASSUME IInv, TxMatches, [Next]_vars
  PROVE  TxMatches'
<1> SUFFICES ASSUME NEW h \in Handlers, handler'[h].pc = "finalize",
                    tx'[h].req.op = "FinalizePublish"
             PROVE  tx'[h].req.id = handler'[h].id /\ tx'[h].req.prev = handler'[h].prev
  BY DEF TxMatches, At, Repo!InTx
<1>0. Started(handler'[h])
  BY DEF Started
<1>1. CASE handler'[h] = handler[h]
  <2>1. tx'[h] # RepoProofs!NoTx
    BY DEF RepoProofs!NoTx, RepoProofs!NoRequest
  <2>2. tx'[h].req = tx[h].req
    BY <1>1, <2>1, TransactionKept DEF RepoProofs!Kept
  <2> QED BY <1>1, <2>2 DEF TxMatches, At, Repo!InTx
<1>2. CASE HandlerStep(h)
  BY <1>0, <1>2, UploadMoves
<1> QED BY <1>0, <1>1, <1>2, StepsOf

LEMMA NextUploads ==
  ASSUME IInv, UploadInv, [Next]_vars, "sharedUrl" \notin Faults
  PROVE  UploadInv'
BY CreatedStays, ShownStays, ApartStays, TxMatchesStays DEF UploadInv

LEMMA InitUploads == Init => UploadInv
BY DEF Init, UploadInv, UploadsCreated, ReplacesShown, OneUploader, TxMatches,
       Started, At, Idle

\* What is written over a publish that is ReadyToDelete says so again.
LEMMA NothingReturns ==
  ASSUME IInv, UploadInv, [Next]_vars, NEW p \in publishes, NEW q \in publishes',
         p.id = q.id, p.status = "ReadyToDelete"
  PROVE  q.status = "ReadyToDelete"
<1>1. \A r \in publishes : r.id = p.id => r = p
  BY DEF IInv, RepoProofs!IInv, RepoProofs!UniqueIds
<1>2. CASE q \in publishes
  BY <1>1, <1>2
<1>3. CASE q \notin publishes
  <2>1. q.id # lastId + 1
    BY RepoTyped, MaxPublishesAssumption
  <2>2. ASSUME NEW h \in Handlers, FinalizeEnd(h), handler[h].id = q.id
        PROVE  FALSE
    BY <2>2 DEF UploadInv, UploadsCreated, FinalizeEnd, At, Started
  <2> QED BY <1>3, <2>1, <2>2, Written
<1> QED BY <1>2, <1>3

--------------------------------------------------------------------------------
(* The theorems *)

\* Whatever the locals of a handler or of the cleanup say of the database was true of
\* it, and stays true as far as they rely on it (service.go:167-206, 259-294).
THEOREM Invariant == Spec => []IInv
  BY InitInv, NextInv, PTL DEF Spec

\* Handlers, cleanup, bucket and database are always well formed, whatever fails or
\* is restarted.
THEOREM TypeCorrect == Spec => []TypeOK
<1>1. IInv => TypeOK
  BY SameTypes DEF IInv, RepoProofs!IInv, HandlersSound, CleanerKnows, TypeOK
<1> QED BY <1>1, Invariant, PTL

\* The service keeps to what the repository expects of its callers: it finalizes an
\* upload with the object and the previous publish it read, and cleans up by ids and
\* times that were handed out (service.go:167-206, 259-294; publishrepo.go:272-348).
THEOREM ImplementsRepo == Spec => RepoSpec
<1>1. Init => Repo!Init
  BY DEF Init
<1>2. IInv /\ [Next]_vars => [Repo!Next]_(Repo!vars)
  BY NextInRepo DEF repoVars, Repo!vars
<1> QED BY <1>1, <1>2, Invariant, PTL DEF Spec, RepoSpec, Repo!Spec

\* If no two requests upload to one url at a time, no upload brings back a publish
\* whose files the cleanup may already be deleting, however old what it read of its
\* page is, and whatever else fails (service.go:167-206 against 273-290).
THEOREM NothingComesBack ==
  ASSUME "sharedUrl" \notin Faults
  PROVE  Spec => NoResurrection
<1> DEFINE Kept == \A p \in publishes, q \in publishes' :
                      p.id = q.id /\ p.status = "ReadyToDelete"
                        => q.status = "ReadyToDelete"
<1>1. IInv /\ UploadInv /\ [Next]_vars => UploadInv'
  BY NextUploads
<1>2. IInv /\ UploadInv /\ [Next]_vars => [Kept]_vars
  BY NothingReturns
<1>3. Spec => []UploadInv
  BY <1>1, InitUploads, Invariant, PTL DEF Spec
<1> HIDE DEF Kept
<1>4. Spec => [][Kept]_vars
  BY <1>2, <1>3, Invariant, PTL DEF Spec
<1> QED BY <1>4 DEF Kept, NoResurrection

================================================================================
