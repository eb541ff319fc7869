--------------------------- MODULE PublishRepoProofs ---------------------------
(***************************************************************************)
(* What holds of the repository for any number of callers, accounts,       *)
(* pages, uris, files and publishes.                                       *)
(*                                                                         *)
(* The inductive invariant is IInv.  Its heart is SnapshotFresh: where     *)
(* nobody else wrote, the snapshot of a transaction is still the truth, so *)
(* that a commit without a write conflict acts on the present state of the *)
(* documents it writes.                                                    *)
(***************************************************************************)
EXTENDS PublishRepo, TLAPS

UniqueIds ==
  /\ \A d, e \in objects : d.id = e.id => d = e
  /\ \A p, q \in publishes : p.id = q.id => p = q

\* Publish ids are handed out before they are used.
IdsHandedOut ==
  /\ \A p \in publishes : p.id <= lastId
  /\ \A d \in objects : d.active <= lastId
  /\ \A c \in Callers :
       /\ \A s \in tx[c].publishes : s.id <= lastId
       /\ InTx(c, "FinalizePublish") => tx[c].req.id <= lastId

SnapshotFresh ==
  \A c \in Callers : tx[c] # NoTx =>
    /\ \A d \in ObjectDocs :
         d.id \notin tx[c].dirtyObjects => (d \in tx[c].objects <=> d \in objects)
    /\ \A p \in PublishDocs :
         p.id \notin tx[c].dirtyPublishes =>
           (p \in tx[c].publishes <=> p \in publishes)

\* A publish a transaction finalizes is in its snapshot, if it still exists.
FinalizedSeen ==
  \A c \in Callers : InTx(c, "FinalizePublish") =>
    \A p \in publishes :
      p.id = tx[c].req.id => \E s \in tx[c].publishes : s.id = p.id

\* No publish returns to the status Created after a snapshot saw it leave it.
NeverCreatedAgain ==
  \A c \in Callers : \A s \in tx[c].publishes, p \in publishes :
    s.id = p.id /\ s.status # "Created" => p.status # "Created"

IInv ==
  /\ TypeOK
  /\ UniqueIds
  /\ IdsHandedOut
  /\ SnapshotFresh
  /\ FinalizedSeen
  /\ NeverCreatedAgain
  /\ ActiveWasFinalized

--------------------------------------------------------------------------------
(* What the writes do to the collections *)

LEMMA ReplaceElements ==
  ASSUME NEW collection, NEW ids, NEW docs, NEW d
  PROVE  d \in Replace(collection, ids, docs)
           <=> (d \in collection /\ d.id \notin ids) \/ d \in docs
BY DEF Replace

LEMMA InIds ==
  ASSUME NEW docs, NEW d \in docs
  PROVE  d.id \in Ids(docs)
BY DEF Ids

LEMMA IdsTyped ==
  /\ \A docs \in SUBSET ObjectDocs : Ids(docs) \subseteq ObjectIds
  /\ \A docs \in SUBSET PublishDocs : Ids(docs) \subseteq PublishIds
BY DEF Ids, ObjectDocs, PublishDocs

LEMMA NoTxTyped == NoTx \in Transactions
BY DEF NoTx, Transactions

\* No request is the one of NoTx.
LEMMA OpenInTx ==
  ASSUME NEW c \in Callers, NEW op \in {"ObjectCreate", "ObjectDelete", "FinalizePublish"},
         InTx(c, op)
  PROVE  tx[c] # NoTx
BY DEF InTx, NoTx, NoRequest

LEMMA MissedTyped ==
  ASSUME NEW t \in Transactions, NEW oids \in SUBSET ObjectIds,
         NEW pids \in SUBSET PublishIds
  PROVE  Missed(t, oids, pids) \in Transactions
BY NoTxTyped DEF Missed, Transactions

\* What a transaction that missed a write keeps.
LEMMA MissedKeeps ==
  ASSUME NEW t \in Transactions, NEW oids, NEW pids
  PROVE  LET m == Missed(t, oids, pids)
         IN  /\ m.req = t.req
             /\ m.objects = t.objects
             /\ m.publishes = t.publishes
             /\ t = NoTx => m = NoTx
             /\ t # NoTx =>
                  /\ m.dirtyObjects = t.dirtyObjects \cup oids
                  /\ m.dirtyPublishes = t.dirtyPublishes \cup pids
BY DEF Missed, Transactions

--------------------------------------------------------------------------------
(* The inductive invariant, step by step *)

LEMMA InitInv == Init => IInv
<1> SUFFICES ASSUME Init PROVE IInv
  OBVIOUS
<1>1. TypeOK
  BY MaxPublishesAssumption, NoTxTyped DEF Init, TypeOK
<1>2. /\ UniqueIds /\ SnapshotFresh /\ ActiveWasFinalized
      /\ FinalizedSeen /\ NeverCreatedAgain
  BY DEF Init, UniqueIds, SnapshotFresh, ActiveWasFinalized, FinalizedSeen,
         NeverCreatedAgain
<1>3. IdsHandedOut
  BY DEF Init, IdsHandedOut, InTx, NoTx, NoRequest
<1> QED BY <1>1, <1>2, <1>3 DEF IInv

LEMMA BeginInv ==
  ASSUME IInv, NEW c \in Callers, NEW req \in Requests, Begin(c, req),
         req.op = "FinalizePublish" => req.id <= lastId
  PROVE  IInv'
<1> DEFINE t == [req |-> req, objects |-> objects, publishes |-> publishes,
                 dirtyObjects |-> {}, dirtyPublishes |-> {}]
<1> USE DEF IInv
<1>1. /\ tx' = [tx EXCEPT ![c] = t]
      /\ UNCHANGED <<objects, publishes, lastId>>
  BY DEF Begin
<1>2. t \in Transactions
  BY DEF TypeOK, Transactions
<1>3. /\ tx'[c] = t
      /\ \A o \in Callers \ {c} : tx'[o] = tx[o]
  BY <1>1 DEF TypeOK
<1>4. TypeOK'
  BY <1>1, <1>2 DEF TypeOK
<1>5. UniqueIds' /\ ActiveWasFinalized'
  BY <1>1 DEF UniqueIds, ActiveWasFinalized
<1>6. IdsHandedOut'
  BY <1>1, <1>3 DEF IdsHandedOut, InTx
<1>7. SnapshotFresh'
  BY <1>1, <1>3 DEF SnapshotFresh
<1>8. FinalizedSeen'
  BY <1>1, <1>3 DEF FinalizedSeen, InTx
<1>9. NeverCreatedAgain'
  <2> SUFFICES ASSUME NEW o \in Callers, NEW s \in tx'[o].publishes,
                      NEW p \in publishes, s.id = p.id, s.status # "Created"
               PROVE  p.status # "Created"
    BY <1>1 DEF NeverCreatedAgain
  <2>1. CASE o = c
    BY <2>1, <1>3 DEF UniqueIds
  <2>2. CASE o # c
    BY <2>2, <1>3 DEF NeverCreatedAgain
  <2> QED BY <2>1, <2>2
<1> QED BY <1>4, <1>5, <1>6, <1>7, <1>8, <1>9

\* Every commit of a transaction preserves the invariant if what it writes is
\* consistent in itself and with the publishes there will be.
LEMMA CommitInv ==
  ASSUME IInv, NEW c \in Callers, NEW removed \in SUBSET ObjectDocs,
         NEW objs \in SUBSET ObjectDocs, NEW pubs \in SUBSET PublishDocs,
         Commit(c, removed, objs, pubs),
         lastId' \in lastId..MaxPublishes,
         \A d, e \in objs : d.id = e.id => d = e,
         \A p, q \in pubs : p.id = q.id => p = q,
         \A d \in objs : d.active <= lastId',
         \A p \in pubs : p.id <= lastId',
         \A p \in pubs : p.status = "Created" => p.id > lastId,
         \A p \in pubs : p.id <= lastId => \E q \in publishes : q.id = p.id,
         \A d \in objs, p \in publishes' : d.active = p.id => p.status # "Created"
  PROVE  IInv'
<1> USE DEF IInv
<1> DEFINE oids == Ids(removed \cup objs)
           pids == Ids(pubs)
<1>1. /\ objects' = Replace(objects, oids, objs)
      /\ publishes' = Replace(publishes, pids, pubs)
      /\ tx' = [o \in Callers |-> IF o = c THEN NoTx ELSE Missed(tx[o], oids, pids)]
  BY DEF Commit
<1>2. /\ oids \subseteq ObjectIds
      /\ pids \subseteq PublishIds
  BY IdsTyped
<1>3. \A d \in objs : d.id \in oids
  BY DEF Ids
<1>4. \A p \in pubs : p.id \in pids
  BY DEF Ids
<1> HIDE DEF oids, pids
<1>5. \A d : d \in objects' <=> (d \in objects /\ d.id \notin oids) \/ d \in objs
  BY <1>1, ReplaceElements
<1>6. \A p : p \in publishes' <=> (p \in publishes /\ p.id \notin pids) \/ p \in pubs
  BY <1>1, ReplaceElements
<1>7. /\ objects \subseteq ObjectDocs
      /\ publishes \subseteq PublishDocs
      /\ lastId \in 0..MaxPublishes
      /\ \A o \in Callers : tx[o] \in Transactions
  BY DEF TypeOK
<1>8. /\ tx'[c] = NoTx
      /\ \A o \in Callers \ {c} : tx'[o] = Missed(tx[o], oids, pids)
  BY <1>1
<1>9. \A o \in Callers \ {c} :
        /\ tx'[o].req = tx[o].req
        /\ tx'[o].publishes = tx[o].publishes
  BY <1>7, <1>8, MissedKeeps
<1>10. /\ tx'[c].publishes = {}
       /\ ~InTx(c, "FinalizePublish")'
  BY <1>8 DEF NoTx, NoRequest, InTx
<1>11. TypeOK'
  <2>1. objects' \subseteq ObjectDocs /\ publishes' \subseteq PublishDocs
    BY <1>5, <1>6, <1>7
  <2>2. lastId' \in 0..MaxPublishes
    BY <1>7, MaxPublishesAssumption
  <2>3. tx' \in [Callers -> Transactions]
    BY <1>1, <1>2, <1>7, MissedTyped, NoTxTyped
  <2> QED BY <2>1, <2>2, <2>3 DEF TypeOK
<1>12. UniqueIds'
  <2>1. \A d, e \in objects' : d.id = e.id => d = e
    BY <1>3, <1>5 DEF UniqueIds
  <2>2. \A p, q \in publishes' : p.id = q.id => p = q
    BY <1>4, <1>6 DEF UniqueIds
  <2> QED BY <2>1, <2>2 DEF UniqueIds
<1>13. IdsHandedOut'
  <2>1. \A p \in publishes' : p.id <= lastId'
    <3> SUFFICES ASSUME NEW p \in publishes, p.id \notin pids PROVE p.id <= lastId'
      BY <1>6
    <3>1. p.id \in Nat /\ p.id <= lastId
      BY <1>7 DEF IdsHandedOut, PublishDocs, PublishIds
    <3> QED BY <3>1, <1>7, MaxPublishesAssumption
  <2>2. \A d \in objects' : d.active <= lastId'
    <3> SUFFICES ASSUME NEW d \in objects, d.id \notin oids PROVE d.active <= lastId'
      BY <1>5
    <3>1. d.active \in Nat /\ d.active <= lastId
      BY <1>7 DEF IdsHandedOut, ObjectDocs, PublishIds, NoPublish
    <3> QED BY <3>1, <1>7, MaxPublishesAssumption
  <2>3. ASSUME NEW o \in Callers, NEW s \in tx'[o].publishes
        PROVE  s.id <= lastId'
    <3>1. o # c /\ s \in tx[o].publishes
      BY <2>3, <1>9, <1>10
    <3>2. s.id \in Nat /\ s.id <= lastId
      BY <3>1, <1>7 DEF IdsHandedOut, Transactions, PublishDocs, PublishIds
    <3> QED BY <3>2, <1>7, MaxPublishesAssumption
  <2>4. ASSUME NEW o \in Callers, InTx(o, "FinalizePublish")'
        PROVE  tx'[o].req.id <= lastId'
    <3>1. o # c /\ tx'[o].req = tx[o].req
      BY <2>4, <1>9, <1>10
    <3>2. InTx(o, "FinalizePublish")
      BY <2>4, <3>1 DEF InTx
    <3>3. tx[o].req.id \in Nat /\ tx[o].req.id <= lastId
      BY <3>2, <1>7 DEF IdsHandedOut, InTx, Transactions, Requests, NoRequest,
                        CreateRequests, DeleteRequests, FinalizeRequests, PublishIds
    <3> QED BY <3>1, <3>3, <1>7, MaxPublishesAssumption
  <2> QED BY <2>1, <2>2, <2>3, <2>4 DEF IdsHandedOut
<1>14. SnapshotFresh'
  <2> SUFFICES ASSUME NEW o \in Callers, tx'[o] # NoTx
               PROVE  /\ \A d \in ObjectDocs :
                           d.id \notin tx'[o].dirtyObjects =>
                             (d \in tx'[o].objects <=> d \in objects')
                      /\ \A p \in PublishDocs :
                           p.id \notin tx'[o].dirtyPublishes =>
                             (p \in tx'[o].publishes <=> p \in publishes')
    BY DEF SnapshotFresh
  <2>1. o # c /\ tx[o] # NoTx
    BY <1>7, <1>8, MissedKeeps
  <2>2. /\ tx'[o].objects = tx[o].objects
        /\ tx'[o].publishes = tx[o].publishes
        /\ tx'[o].dirtyObjects = tx[o].dirtyObjects \cup oids
        /\ tx'[o].dirtyPublishes = tx[o].dirtyPublishes \cup pids
    BY <2>1, <1>7, <1>8, MissedKeeps
  <2>3. ASSUME NEW d \in ObjectDocs, d.id \notin tx'[o].dirtyObjects
        PROVE  d \in tx'[o].objects <=> d \in objects'
    BY <2>1, <2>2, <2>3, <1>3, <1>5 DEF SnapshotFresh
  <2>4. ASSUME NEW p \in PublishDocs, p.id \notin tx'[o].dirtyPublishes
        PROVE  p \in tx'[o].publishes <=> p \in publishes'
    BY <2>1, <2>2, <2>4, <1>4, <1>6 DEF SnapshotFresh
  <2> QED BY <2>3, <2>4
<1>15. FinalizedSeen'
  <2> SUFFICES ASSUME NEW o \in Callers, InTx(o, "FinalizePublish")',
                      NEW p \in publishes', p.id = tx'[o].req.id
               PROVE  \E s \in tx'[o].publishes : s.id = p.id
    BY DEF FinalizedSeen
  <2>1. /\ o # c
        /\ tx'[o].req = tx[o].req
        /\ tx'[o].publishes = tx[o].publishes
        /\ InTx(o, "FinalizePublish")
    BY <1>9, <1>10 DEF InTx
  <2>2. p.id <= lastId
    BY <2>1 DEF IdsHandedOut
  <2>3. \E q \in publishes : q.id = p.id
    BY <2>2, <1>6
  <2> QED BY <2>1, <2>3 DEF FinalizedSeen
<1>16. NeverCreatedAgain'
  <2> SUFFICES ASSUME NEW o \in Callers, NEW s \in tx'[o].publishes,
                      NEW p \in publishes', s.id = p.id, s.status # "Created"
               PROVE  p.status # "Created"
    BY DEF NeverCreatedAgain
  <2>1. o # c /\ s \in tx[o].publishes
    BY <1>9, <1>10
  <2>2. CASE p \in publishes
    BY <2>1, <2>2 DEF NeverCreatedAgain
  <2>3. CASE p \in pubs
    <3>1. s.id \in Nat /\ s.id <= lastId
      BY <2>1, <1>7 DEF IdsHandedOut, Transactions, PublishDocs, PublishIds
    <3> QED BY <2>3, <3>1, <1>7
  <2> QED BY <2>2, <2>3, <1>6
<1>17. ActiveWasFinalized'
  <2> SUFFICES ASSUME NEW d \in objects', NEW p \in publishes', d.active = p.id
               PROVE  p.status # "Created"
    BY DEF ActiveWasFinalized
  <2>1. CASE d \in objs
    BY <2>1
  <2>2. CASE d \in objects
    <3>1. d.active <= lastId /\ d.active \in Nat
      BY <2>2, <1>7 DEF IdsHandedOut, ObjectDocs, PublishIds, NoPublish
    <3>2. CASE p \in publishes
      BY <3>2, <2>2 DEF ActiveWasFinalized
    <3>3. CASE p \in pubs
      BY <3>1, <3>3, <1>7
    <3> QED BY <3>2, <3>3, <1>6
  <2> QED BY <2>1, <2>2, <1>5
<1> QED BY <1>11, <1>12, <1>13, <1>14, <1>15, <1>16, <1>17

\* A document of the snapshot that nobody else wrote is still there.
LEMMA CommitFresh ==
  ASSUME IInv, NEW c \in Callers, tx[c] # NoTx, NEW removed, NEW objs, NEW pubs,
         Commit(c, removed, objs, pubs)
  PROVE  /\ \A d \in ObjectDocs :
              d.id \in Ids(removed \cup objs) =>
                (d \in tx[c].objects <=> d \in objects)
         /\ \A p \in PublishDocs :
              p.id \in Ids(pubs) => (p \in tx[c].publishes <=> p \in publishes)
BY DEF Commit, NoConflict, IInv, SnapshotFresh

LEMMA TxTyped ==
  ASSUME TypeOK, NEW c \in Callers
  PROVE  /\ tx[c].objects \subseteq ObjectDocs
         /\ tx[c].publishes \subseteq PublishDocs
         /\ InTx(c, "ObjectCreate") => tx[c].req \in CreateRequests
         /\ InTx(c, "FinalizePublish") => tx[c].req \in FinalizeRequests
BY DEF TypeOK, Transactions, InTx, Requests, NoRequest, CreateRequests,
       DeleteRequests, FinalizeRequests

LEMMA markPublishToDeleteTyped ==
  ASSUME NEW t, t.publishes \subseteq PublishDocs, NEW id
  PROVE  \A p \in markPublishToDelete(t, id) :
           /\ p \in PublishDocs
           /\ p.id = id
           /\ p.status = "ReadyToDelete"
           /\ \E q \in t.publishes : q.id = id /\ p = [q EXCEPT !.status = "ReadyToDelete"]
BY DEF markPublishToDelete, PublishDocs, Statuses

LEMMA ObjectCreateInv ==
  ASSUME IInv, NEW c \in Callers, ObjectCreate(c)
  PROVE  IInv'
<1> DEFINE t == tx[c]
           wanted == ObjectId(t.req.sharing, t.req.uri)
           id == lastId + 1
<1>1. /\ TypeOK
      /\ lastId < MaxPublishes
      /\ lastId' = id
      /\ lastId \in Nat
      /\ id \in PublishIds
      /\ id \in lastId..MaxPublishes
  BY MaxPublishesAssumption DEF IInv, TypeOK, ObjectCreate, NewPublishId, PublishIds
<1>2. t # NoTx /\ t.req \in CreateRequests
  BY <1>1, OpenInTx, TxTyped DEF ObjectCreate
<1>3. wanted \in ObjectIds /\ t.req.sharing \in Sharings
  BY <1>2 DEF CreateRequests, Sharings, ObjectId, ObjectIds
<1>4. \A d \in ObjectDocs :
        LET p == createPublish(d, id)
        IN  /\ p \in PublishDocs
            /\ p.id = id
            /\ p.id > lastId
            /\ ~(p.id <= lastId)
  BY <1>1 DEF createPublish, PublishDocs, ObjectDocs, Statuses
\* Nothing that is there points to the new publish.
<1>5. \A d \in objects : d \in ObjectDocs /\ d.active <= lastId /\ d.active # id
  BY <1>1 DEF IInv, TypeOK, IdsHandedOut, ObjectDocs, PublishIds, NoPublish
<1>6. ASSUME NEW d \in ObjectDocs, d.active <= lastId,
             \/ d.active = NoPublish
             \/ \E e \in objects : e.active = d.active,
             NEW p \in publishes',
             publishes' = Replace(publishes, Ids({createPublish(d, id)}),
                                  {createPublish(d, id)}),
             d.active = p.id
      PROVE  p.status # "Created"
  <2>1. p.id # id
    BY <1>1, <1>6 DEF ObjectDocs, PublishIds, NoPublish
  <2>2. p \in publishes /\ p.id \in PublishIds
    BY <1>1, <1>4, <1>6, <2>1 DEF Replace, TypeOK, PublishDocs
  <2>3. p.id # NoPublish
    BY <2>2 DEF PublishIds, NoPublish
  <2> QED BY <1>6, <2>2, <2>3 DEF IInv, ActiveWasFinalized
<1>7. CASE /\ Found(t) = {}
           /\ wanted \notin Ids(t.objects)
           /\ LET d == NewObject(t.req.sharing, t.req.uri, id)
              IN  Commit(c, {}, {d}, {createPublish(d, id)})
  <2> DEFINE d == NewObject(t.req.sharing, t.req.uri, id)
  <2>1. d \in ObjectDocs /\ d.active = NoPublish
    BY <1>1, <1>3 DEF NewObject, ObjectDocs
  <2>2. NoPublish <= lastId /\ NoPublish <= id
    BY <1>1 DEF NoPublish
  <2>3. Commit(c, {}, {d}, {createPublish(d, id)})
    BY <1>7
  <2>4. publishes' = Replace(publishes, Ids({createPublish(d, id)}), {createPublish(d, id)})
    BY <2>3 DEF Commit
  <2> HIDE DEF d
  <2>5. \A p \in publishes' : d.active = p.id => p.status # "Created"
    BY <1>6, <2>1, <2>2, <2>4
  <2> QED BY <1>1, <1>4, <2>1, <2>2, <2>3, <2>5, CommitInv
<1>8. CASE \E d \in Found(t) :
             /\ d.id = wanted
             /\ Commit(c, {}, {}, {createPublish(d, id)})
  <2>1. PICK d \in Found(t) : Commit(c, {}, {}, {createPublish(d, id)})
    BY <1>8
  <2>2. d \in ObjectDocs
    BY <1>1, TxTyped DEF Found
  <2> QED BY <1>1, <1>4, <2>1, <2>2, CommitInv
<1>9. CASE \E d \in Found(t) :
             /\ d.id # wanted
             /\ wanted \notin Ids(t.objects)
             /\ Commit(c, {d}, {Moved(d, wanted)}, {createPublish(Moved(d, wanted), id)})
  <2>1. PICK d \in Found(t) :
               Commit(c, {d}, {Moved(d, wanted)}, {createPublish(Moved(d, wanted), id)})
    BY <1>9
  <2> DEFINE moved == Moved(d, wanted)
  <2>2. d \in ObjectDocs /\ d \in t.objects
    BY <1>1, TxTyped DEF Found
  <2>3. moved \in ObjectDocs /\ moved.active = d.active
    BY <1>3, <2>2 DEF Moved, ObjectDocs
  <2>4. d \in objects
    BY <1>2, <2>1, <2>2, CommitFresh, InIds
  <2>5. moved.active <= lastId /\ moved.active <= id
    BY <1>1, <1>5, <2>2, <2>3, <2>4 DEF ObjectDocs, PublishIds, NoPublish
  <2>6. publishes' = Replace(publishes, Ids({createPublish(moved, id)}),
                             {createPublish(moved, id)})
    BY <2>1 DEF Commit
  <2>7. Commit(c, {d}, {moved}, {createPublish(moved, id)})
    BY <2>1
  <2> HIDE DEF moved
  <2>8. \A p \in publishes' : moved.active = p.id => p.status # "Created"
    BY <1>6, <2>3, <2>4, <2>5, <2>6
  <2> QED BY <1>1, <1>4, <2>2, <2>3, <2>5, <2>7, <2>8, CommitInv
<1> QED BY <1>7, <1>8, <1>9 DEF ObjectCreate, NewPublishId

LEMMA ObjectDeleteInv ==
  ASSUME IInv, NEW c \in Callers, ObjectDelete(c)
  PROVE  IInv'
<1> DEFINE t == tx[c]
<1>1. PICK d \in Found(t) : Commit(c, {d}, {}, markPublishToDelete(t, d.active))
  BY DEF ObjectDelete
<1> DEFINE pubs == markPublishToDelete(t, d.active)
<1>2. /\ TypeOK
      /\ t # NoTx
      /\ t.publishes \subseteq PublishDocs
      /\ d \in ObjectDocs
  BY OpenInTx, TxTyped DEF IInv, ObjectDelete, Found
<1>3. \A p \in pubs : p \in PublishDocs /\ p.id = d.active /\ p.status = "ReadyToDelete"
  BY <1>2, markPublishToDeleteTyped
<1>4. \A p, q \in pubs : p.id = q.id => p = q
  <2> SUFFICES ASSUME NEW p \in pubs, NEW q \in pubs PROVE p = q
    OBVIOUS
  <2>1. PICK p0 \in t.publishes : /\ p0.id = d.active
                                 /\ p = [p0 EXCEPT !.status = "ReadyToDelete"]
    BY <1>2, markPublishToDeleteTyped
  <2>2. PICK q0 \in t.publishes : /\ q0.id = d.active
                                 /\ q = [q0 EXCEPT !.status = "ReadyToDelete"]
    BY <1>2, markPublishToDeleteTyped
  <2>3. d.active \in Ids(pubs)
    BY <1>3, InIds
  <2>4. p0 \in publishes /\ q0 \in publishes
    BY <1>1, <1>2, <2>1, <2>2, <2>3, CommitFresh
  <2> QED BY <2>1, <2>2, <2>4 DEF IInv, UniqueIds
<1>5. \A p \in pubs : \E q \in publishes : q.id = p.id
  <2> SUFFICES ASSUME NEW p \in pubs PROVE \E q \in publishes : q.id = p.id
    OBVIOUS
  <2>1. PICK q \in t.publishes : q.id = p.id
    BY <1>2, <1>3, markPublishToDeleteTyped
  <2>2. q.id \in Ids(pubs)
    BY <2>1, InIds
  <2> QED BY <1>1, <1>2, <2>1, <2>2, CommitFresh
<1>6. \A p \in pubs : p.id <= lastId
  BY <1>5 DEF IInv, IdsHandedOut
<1>7. lastId' = lastId /\ lastId \in lastId..MaxPublishes
  BY <1>2, MaxPublishesAssumption DEF ObjectDelete, TypeOK
<1> HIDE DEF pubs
<1> QED BY <1>1, <1>2, <1>3, <1>4, <1>5, <1>6, <1>7, CommitInv DEF pubs

\* What FinalizePublish writes, and the documents of its snapshot this replaces.
LEMMA MarkedWrites ==
  ASSUME NEW t, t.publishes \subseteq PublishDocs, NEW p \in Marked(t)
  PROVE  /\ p \in PublishDocs
         /\ p.id # t.req.id
         /\ p.status = "ReadyToDelete"
         /\ \E q \in t.publishes :
              q.id = p.id /\ p = [q EXCEPT !.status = "ReadyToDelete"]
BY markPublishToDeleteTyped DEF Marked

LEMMA FinalizedWrites ==
  ASSUME NEW t, t.publishes \subseteq PublishDocs, t.req \in FinalizeRequests,
         NEW p \in Finalized(t)
  PROVE  /\ p \in PublishDocs
         /\ p.id = t.req.id
         /\ p.status = "Published"
         /\ \E q \in t.publishes :
              /\ q.id = p.id
              /\ p = [q EXCEPT !.status = "Published", !.entries = t.req.entries]
<1>1. PICK q \in t.publishes :
             /\ q.id = t.req.id
             /\ p = [q EXCEPT !.status = "Published", !.entries = t.req.entries]
  BY DEF Finalized
<1>2. q \in PublishDocs /\ t.req.entries \in SUBSET Files
  BY DEF FinalizeRequests
<1> QED BY <1>1, <1>2 DEF PublishDocs, Statuses

LEMMA UpdatedWrites ==
  ASSUME NEW t, t.objects \subseteq ObjectDocs, t.req \in FinalizeRequests,
         NEW d \in Updated(t)
  PROVE  /\ d \in ObjectDocs
         /\ d.active = t.req.id
         /\ \E e \in t.objects : e.id = d.id /\ d = [e EXCEPT !.active = t.req.id]
<1>1. PICK e \in t.objects : d = [e EXCEPT !.active = t.req.id]
  BY DEF Updated
<1>2. e \in ObjectDocs /\ t.req.id \in PublishIds
  BY DEF FinalizeRequests
<1> QED BY <1>1, <1>2 DEF ObjectDocs

\* A publish of the snapshot that FinalizePublish does not write has in it what
\* FinalizePublish would have written.
LEMMA FinalizedAlready ==
  ASSUME NEW t, t.publishes \subseteq PublishDocs, NEW s \in t.publishes,
         s.id = t.req.id, t.req.id \notin Ids(Finalized(t))
  PROVE  \E f \in t.publishes : f.id = t.req.id /\ f.status = "Published"
<1> DEFINE f == [s EXCEPT !.status = "Published", !.entries = t.req.entries]
<1>1. f.id = t.req.id /\ f.status = "Published"
  BY DEF PublishDocs
<1>2. f \notin Finalized(t)
  BY <1>1 DEF Ids
<1>3. f \in t.publishes
  BY <1>2 DEF Finalized
<1> QED BY <1>1, <1>3

LEMMA FinalizePublishInv ==
  ASSUME IInv, NEW c \in Callers, FinalizePublish(c)
  PROVE  IInv'
<1> DEFINE t == tx[c]
           pubs == Marked(t) \cup Finalized(t)
<1>1. /\ TypeOK
      /\ InTx(c, "FinalizePublish")
      /\ t # NoTx
      /\ lastId' = lastId
      /\ lastId \in lastId..MaxPublishes
  BY OpenInTx, MaxPublishesAssumption DEF IInv, TypeOK, FinalizePublish
<1>2. /\ t.req \in FinalizeRequests
      /\ t.objects \subseteq ObjectDocs
      /\ t.publishes \subseteq PublishDocs
  BY <1>1, TxTyped
<1>3. Commit(c, {}, Updated(t), pubs)
  BY DEF FinalizePublish
<1>4. t.req.id <= lastId
  BY <1>1 DEF IInv, IdsHandedOut
<1>5. \A p \in pubs : p \in PublishDocs /\ p.status # "Created"
  BY <1>2, MarkedWrites, FinalizedWrites
<1>6. \A d \in Updated(t) : d \in ObjectDocs /\ d.active = t.req.id
  BY <1>2, UpdatedWrites
<1>7. \A q \in t.publishes : q.id \in Ids(pubs) => q \in publishes
  BY <1>1, <1>2, <1>3, CommitFresh
<1>8. \A e \in t.objects : e.id \in Ids(Updated(t)) => e \in objects
  <2>1. Ids({} \cup Updated(t)) = Ids(Updated(t))
    BY DEF Ids
  <2> QED BY <1>1, <1>2, <1>3, <2>1, CommitFresh
<1>9. ASSUME NEW p \in pubs, NEW q \in pubs, p.id = q.id
      PROVE  p = q
  <2>1. p.id \in Ids(pubs)
    BY InIds
  <2>2. CASE p.id = t.req.id
    <3>1. p \in Finalized(t) /\ q \in Finalized(t)
      <4>1. p \notin Marked(t)
        BY <2>2 DEF Marked
      <4>2. q \notin Marked(t)
        BY <1>9, <2>2 DEF Marked
      <4> QED BY <4>1, <4>2, <1>9
    <3>2. PICK p0 \in t.publishes :
                 /\ p0.id = p.id
                 /\ p = [p0 EXCEPT !.status = "Published", !.entries = t.req.entries]
      BY <1>2, <3>1, FinalizedWrites
    <3>3. PICK q0 \in t.publishes :
                 /\ q0.id = q.id
                 /\ q = [q0 EXCEPT !.status = "Published", !.entries = t.req.entries]
      BY <1>2, <3>1, FinalizedWrites
    <3>4. p0 = q0
      BY <1>7, <1>9, <2>1, <3>2, <3>3 DEF IInv, UniqueIds
    <3> QED BY <3>2, <3>3, <3>4
  <2>3. CASE p.id # t.req.id
    <3>1. p \in Marked(t) /\ q \in Marked(t)
      BY <1>2, <1>9, <2>3, FinalizedWrites
    <3>2. PICK p0 \in t.publishes :
                 p0.id = p.id /\ p = [p0 EXCEPT !.status = "ReadyToDelete"]
      BY <1>2, <3>1, MarkedWrites
    <3>3. PICK q0 \in t.publishes :
                 q0.id = q.id /\ q = [q0 EXCEPT !.status = "ReadyToDelete"]
      BY <1>2, <3>1, MarkedWrites
    <3>4. p0 = q0
      BY <1>7, <1>9, <2>1, <3>2, <3>3 DEF IInv, UniqueIds
    <3> QED BY <3>2, <3>3, <3>4
  <2> QED BY <2>2, <2>3
<1>10. ASSUME NEW d \in Updated(t), NEW e \in Updated(t), d.id = e.id
       PROVE  d = e
  <2>1. d.id \in Ids(Updated(t))
    BY InIds
  <2> QED BY <1>2, <1>8, <1>10, <2>1, UpdatedWrites DEF IInv, UniqueIds
<1>11. \A p \in pubs : \E q \in publishes : q.id = p.id
  <2> SUFFICES ASSUME NEW p \in pubs PROVE \E q \in publishes : q.id = p.id
    OBVIOUS
  <2>1. PICK q \in t.publishes : q.id = p.id
    <3>1. CASE p \in Marked(t)
      BY <1>2, <3>1, MarkedWrites
    <3>2. CASE p \in Finalized(t)
      <4>1. PICK q \in t.publishes :
                   /\ q.id = p.id
                   /\ p = [q EXCEPT !.status = "Published", !.entries = t.req.entries]
        BY <1>2, <3>2, FinalizedWrites
      <4> QED BY <4>1
    <3> QED BY <3>1, <3>2
  <2>2. p.id \in Ids(pubs)
    BY InIds
  <2> QED BY <1>7, <2>1, <2>2
<1>12. \A p \in pubs : p.id <= lastId
  BY <1>11 DEF IInv, IdsHandedOut
\* The publish the object now points to: written by this commit, or seen in the
\* snapshot as this commit would have written it.
<1>13. ASSUME NEW p \in publishes', p.id = t.req.id
       PROVE  p.status # "Created"
  <2>1. \/ p \in pubs
        \/ p \in publishes /\ p.id \notin Ids(pubs)
    BY <1>3 DEF Commit, Replace
  <2>2. CASE p \in publishes /\ p.id \notin Ids(pubs)
    <3>1. \E s \in t.publishes : s.id = t.req.id
      BY <1>1, <1>13, <2>2 DEF IInv, FinalizedSeen
    <3>2. t.req.id \notin Ids(Finalized(t))
      BY <1>13, <2>2 DEF Ids
    <3>3. \E f \in t.publishes : f.id = t.req.id /\ f.status = "Published"
      BY <1>2, <3>1, <3>2, FinalizedAlready
    <3> QED BY <1>13, <2>2, <3>3 DEF IInv, NeverCreatedAgain
  <2> QED BY <1>5, <2>1, <2>2
<1>14. \A d \in Updated(t) : d.active <= lastId
  BY <1>4, <1>6
<1>15. \A d \in Updated(t), p \in publishes' : d.active = p.id => p.status # "Created"
  BY <1>6, <1>13
<1> HIDE DEF pubs
<1>16. Updated(t) \subseteq ObjectDocs /\ pubs \subseteq PublishDocs
  BY <1>5, <1>6
<1> QED BY <1>1, <1>3, <1>5, <1>9, <1>10, <1>11, <1>12, <1>14, <1>15, <1>16, CommitInv

LEMMA AbortInv ==
  ASSUME IInv, NEW callers \in SUBSET Callers, Abort(callers)
  PROVE  IInv'
<1> USE DEF IInv
<1>1. /\ UNCHANGED <<objects, publishes, lastId>>
      /\ \A c \in Callers : tx'[c] = NoTx \/ tx'[c] = tx[c]
      /\ tx' \in [Callers -> Transactions]
  BY NoTxTyped DEF Abort, TypeOK
<1>2. NoTx.publishes = {} /\ NoTx.req.op = "none"
  BY DEF NoTx, NoRequest
<1>3. TypeOK' /\ UniqueIds' /\ ActiveWasFinalized'
  BY <1>1 DEF TypeOK, UniqueIds, ActiveWasFinalized
<1>4. IdsHandedOut'
  BY <1>1, <1>2 DEF IdsHandedOut, InTx
<1>5. SnapshotFresh'
  BY <1>1 DEF SnapshotFresh
<1>6. FinalizedSeen'
  BY <1>1, <1>2 DEF FinalizedSeen, InTx
<1>7. NeverCreatedAgain'
  BY <1>1, <1>2 DEF NeverCreatedAgain
<1> QED BY <1>3, <1>4, <1>5, <1>6, <1>7

LEMMA RemovePublishesInv ==
  ASSUME IInv, NEW ids \in SUBSET PublishIds, RemovePublishes(ids)
  PROVE  IInv'
<1> USE DEF IInv
<1>1. /\ UNCHANGED <<objects, lastId>>
      /\ \A p : p \in publishes' <=> p \in publishes /\ p.id \notin ids
  BY DEF RemovePublishes, Replace
<1>2. \A c \in Callers : tx[c] \in Transactions
  BY DEF TypeOK
<1>3. tx' = [c \in Callers |-> Missed(tx[c], {}, ids)]
  BY DEF RemovePublishes
<1>4. tx' \in [Callers -> Transactions]
  BY <1>2, <1>3, MissedTyped
<1>5. \A c \in Callers :
           /\ tx'[c].req = tx[c].req
           /\ tx'[c].objects = tx[c].objects
           /\ tx'[c].publishes = tx[c].publishes
           /\ tx[c] = NoTx => tx'[c] = NoTx
           /\ tx[c] # NoTx =>
                /\ tx'[c].dirtyObjects = tx[c].dirtyObjects \cup {}
                /\ tx'[c].dirtyPublishes = tx[c].dirtyPublishes \cup ids
  <2> SUFFICES ASSUME NEW c \in Callers
               PROVE  /\ tx'[c].req = tx[c].req
                      /\ tx'[c].objects = tx[c].objects
                      /\ tx'[c].publishes = tx[c].publishes
                      /\ tx[c] = NoTx => tx'[c] = NoTx
                      /\ tx[c] # NoTx =>
                           /\ tx'[c].dirtyObjects = tx[c].dirtyObjects \cup {}
                           /\ tx'[c].dirtyPublishes = tx[c].dirtyPublishes \cup ids
    OBVIOUS
  <2> DEFINE none == {}
  <2>1. tx[c] \in Transactions /\ tx'[c] = Missed(tx[c], none, ids)
    BY <1>2, <1>3
  <2> HIDE DEF IInv, none
  <2>2. tx[c] # NoTx =>
          /\ tx'[c].dirtyObjects = tx[c].dirtyObjects \cup none
          /\ tx'[c].dirtyPublishes = tx[c].dirtyPublishes \cup ids
    BY <2>1, MissedKeeps
  <2>3. /\ tx'[c].req = tx[c].req
        /\ tx'[c].objects = tx[c].objects
        /\ tx'[c].publishes = tx[c].publishes
        /\ tx[c] = NoTx => tx'[c] = NoTx
    BY <2>1, MissedKeeps
  <2> QED BY <2>2, <2>3 DEF none
<1>6. TypeOK' /\ UniqueIds' /\ ActiveWasFinalized'
  BY <1>1, <1>4 DEF TypeOK, UniqueIds, ActiveWasFinalized
<1>7. IdsHandedOut'
  BY <1>1, <1>5 DEF IdsHandedOut, InTx
<1>8. SnapshotFresh'
  BY <1>1, <1>5 DEF SnapshotFresh
<1>9. FinalizedSeen'
  BY <1>1, <1>5 DEF FinalizedSeen, InTx
<1>10. NeverCreatedAgain'
  BY <1>1, <1>5 DEF NeverCreatedAgain
<1> QED BY <1>6, <1>7, <1>8, <1>9, <1>10

LEMMA CleanupInv ==
  ASSUME IInv, CleanupStep
  PROVE  IInv'
<1>1. publishes \subseteq PublishDocs
  BY DEF IInv, TypeOK
<1>2. \A docs \in SUBSET publishes : Ids(docs) \in SUBSET PublishIds
  BY <1>1, IdsTyped
<1>3. PICK ids \in SUBSET PublishIds : RemovePublishes(ids)
  <2>1. CASE \E id \in 1..lastId : DeletePublish(id)
    BY <2>1, <1>2 DEF DeletePublish
  <2>2. CASE \E cutoff \in 0..lastId : DeleteOutdatedPublish(cutoff)
    BY <2>2, <1>2 DEF DeleteOutdatedPublish, Outdated
  <2>3. CASE \E cutoff \in 0..lastId : DeleteOutdatedObjects(cutoff)
    BY <2>3, <1>2 DEF DeleteOutdatedObjects
  <2> QED BY <2>1, <2>2, <2>3 DEF CleanupStep
<1> QED BY <1>3, RemovePublishesInv

LEMMA NextInv ==
  ASSUME IInv, [Next]_vars
  PROVE  IInv'
<1>1. CASE \E c \in Callers : CallerStep(c)
  <2>1. PICK c \in Callers : CallerStep(c)
    BY <1>1
  <2>2. CASE BeginCreate(c)
    <3>1. PICK s \in Sharings, u \in Uris :
                 Begin(c, [op |-> "ObjectCreate", sharing |-> s, uri |-> u])
      BY <2>2 DEF BeginCreate
    <3>2. [op |-> "ObjectCreate", sharing |-> s, uri |-> u] \in Requests
      BY DEF Requests, CreateRequests
    <3> QED BY <3>1, <3>2, BeginInv
  <2>3. CASE BeginDelete(c)
    <3>1. PICK s \in Sharings : Begin(c, [op |-> "ObjectDelete", sharing |-> s])
      BY <2>3 DEF BeginDelete
    <3>2. [op |-> "ObjectDelete", sharing |-> s] \in Requests
      BY DEF Requests, DeleteRequests
    <3> QED BY <3>1, <3>2, BeginInv
  <2>4. CASE BeginFinalize(c)
    <3>1. PICK o \in ObjectIds, prev \in 0..lastId, id \in 1..lastId, f \in SUBSET Files :
                 Begin(c, [op |-> "FinalizePublish", objectId |-> o, prev |-> prev,
                           id |-> id, entries |-> f])
      BY <2>4 DEF BeginFinalize
    <3> DEFINE req == [op |-> "FinalizePublish", objectId |-> o, prev |-> prev,
                       id |-> id, entries |-> f]
    <3>2. lastId \in 0..MaxPublishes
      BY DEF IInv, TypeOK
    <3>3. prev \in PublishIds \cup {NoPublish} /\ id \in PublishIds /\ id <= lastId
      BY <3>2, MaxPublishesAssumption DEF PublishIds, NoPublish
    <3>4. req \in Requests /\ req.id <= lastId
      BY <3>3 DEF Requests, FinalizeRequests
    <3> QED BY <3>1, <3>4, BeginInv
  <2> QED BY <2>1, <2>2, <2>3, <2>4, ObjectCreateInv, ObjectDeleteInv,
             FinalizePublishInv DEF CallerStep
<1>2. CASE \E callers \in SUBSET Callers : Abort(callers)
  BY <1>2, AbortInv
<1>3. CASE CleanupStep
  BY <1>3, CleanupInv
<1>4. CASE UNCHANGED vars
  BY <1>4 DEF vars, IInv, TypeOK, UniqueIds, IdsHandedOut, SnapshotFresh,
              FinalizedSeen, NeverCreatedAgain, ActiveWasFinalized, InTx
<1> QED BY <1>1, <1>2, <1>3, <1>4 DEF Next

--------------------------------------------------------------------------------
(* What a step may do to the pages *)

\* A commit keeps both action properties if each object document it writes is a
\* change of one of the same id that is there, or comes under a free id and is
\* the one it removes, moved, or has nothing to remove.
LEMMA CommitMoves ==
  ASSUME IInv, NEW c \in Callers, NEW removed \in SUBSET objects, NEW objs, NEW pubs,
         Commit(c, removed, objs, pubs),
         \A e \in objs :
           \/ \E d \in objects : d.id = e.id /\ d.sharing = e.sharing
           \/ /\ e.id \notin Ids(objects)
              /\ \A d \in removed : e = [d EXCEPT !.id = e.id]
  PROVE  MovesWhole /\ KeepsItsPage
<1> DEFINE oids == Ids(removed \cup objs)
<1>1. \A d : d \in objects' <=> (d \in objects /\ d.id \notin oids) \/ d \in objs
  BY ReplaceElements DEF Commit
<1>2. KeepsItsPage
  <2> SUFFICES ASSUME NEW d \in objects, NEW e \in objects', d.id = e.id
               PROVE  d.sharing = e.sharing
    BY DEF KeepsItsPage
  <2>1. d.id \in Ids(objects)
    BY InIds
  <2> QED BY <1>1, <2>1 DEF IInv, UniqueIds
<1>3. MovesWhole
  <2> SUFFICES ASSUME NEW d \in objects, NEW e \in objects', Removed(d), Added(e)
               PROVE  e = [d EXCEPT !.id = e.id]
    BY DEF MovesWhole
  <2>1. d.id \notin Ids(objects') /\ e.id \notin Ids(objects)
    BY DEF Removed, Added
  <2>2. e \in objs
    BY <1>1, <2>1, InIds
  <2>3. d.id \in oids
    BY <1>1, <2>1, InIds
  <2>4. PICK r \in removed \cup objs : r.id = d.id
    BY <2>3 DEF Ids
  <2>5. r \notin objs
    BY <1>1, <2>1, <2>4, InIds
  <2>6. r = d
    BY <2>4, <2>5 DEF IInv, UniqueIds
  <2>7. \A f \in objects : f.id # e.id
    BY <2>1, InIds
  <2> QED BY <2>2, <2>4, <2>5, <2>6, <2>7
<1> QED BY <1>2, <1>3

LEMMA NextMoves ==
  ASSUME IInv, [Next]_vars
  PROVE  [MovesWhole]_vars /\ [KeepsItsPage]_vars
<1> SUFFICES ASSUME Next PROVE MovesWhole /\ KeepsItsPage
  OBVIOUS
<1>0. TypeOK
  BY DEF IInv
<1>1. CASE UNCHANGED objects
  <2>1. KeepsItsPage
    BY <1>1 DEF KeepsItsPage, IInv, UniqueIds
  <2>2. MovesWhole
    <3>1. \A d \in objects : ~Removed(d)
      BY <1>1, InIds DEF Removed
    <3> QED BY <3>1 DEF MovesWhole
  <2> QED BY <2>1, <2>2
<1>2. ASSUME NEW c \in Callers, ObjectCreate(c)
      PROVE  MovesWhole /\ KeepsItsPage
  <2> DEFINE t == tx[c]
             wanted == ObjectId(t.req.sharing, t.req.uri)
             id == NewPublishId
  <2>1. t # NoTx /\ t.objects \subseteq ObjectDocs /\ t.req \in CreateRequests
    BY <1>0, <1>2, OpenInTx, TxTyped DEF ObjectCreate
  <2>2. wanted \in ObjectIds /\ t.req.sharing \in Sharings
    BY <2>1 DEF CreateRequests, Sharings, ObjectId, ObjectIds
  \* An id that is free in the snapshot and written without a conflict is free.
  <2>3. ASSUME NEW removed, NEW objs, NEW pubs, Commit(c, removed, objs, pubs),
               wanted \notin Ids(t.objects), wanted \in Ids(removed \cup objs)
        PROVE  wanted \notin Ids(objects)
    <3> SUFFICES ASSUME NEW d \in objects, d.id = wanted PROVE FALSE
      BY DEF Ids
    <3>1. d \in ObjectDocs
      BY <1>0 DEF TypeOK
    <3>2. d.id \in Ids(removed \cup objs)
      BY <2>3
    <3> HIDE DEF wanted
    <3>3. d \in t.objects
      BY <2>1, <2>3, <3>1, <3>2, CommitFresh
    <3> QED BY <2>3, <3>3, InIds
  <2>4. CASE /\ Found(t) = {}
             /\ wanted \notin Ids(t.objects)
             /\ LET d == NewObject(t.req.sharing, t.req.uri, id)
                IN  Commit(c, {}, {d}, {createPublish(d, id)})
    <3> DEFINE d == NewObject(t.req.sharing, t.req.uri, id)
    <3>1. d.id = wanted
      BY DEF NewObject
    <3>2. wanted \in Ids({} \cup {d})
      BY <3>1 DEF Ids
    <3>3. Commit(c, {}, {d}, {createPublish(d, id)})
      BY <2>4
    <3> HIDE DEF d
    <3>4. d.id \notin Ids(objects)
      BY <2>3, <2>4, <3>1, <3>2, <3>3
    <3> QED BY <3>3, <3>4, CommitMoves
  <2>5. CASE \E d \in Found(t) :
               /\ d.id = wanted
               /\ Commit(c, {}, {}, {createPublish(d, id)})
    BY <2>5, CommitMoves
  <2>6. CASE \E d \in Found(t) :
               /\ d.id # wanted
               /\ wanted \notin Ids(t.objects)
               /\ Commit(c, {d}, {Moved(d, wanted)}, {createPublish(Moved(d, wanted), id)})
    <3>1. PICK d \in Found(t) :
                 Commit(c, {d}, {Moved(d, wanted)}, {createPublish(Moved(d, wanted), id)})
      BY <2>6
    <3>2. d \in ObjectDocs /\ d \in t.objects
      BY <2>1 DEF Found
    <3>3. Moved(d, wanted).id = wanted /\ Moved(d, wanted) = [d EXCEPT !.id = wanted]
      BY <3>2 DEF Moved, ObjectDocs
    <3>4. d \in objects
      BY <2>1, <3>1, <3>2, CommitFresh, InIds
    <3>5. wanted \in Ids({d} \cup {Moved(d, wanted)})
      BY <3>3 DEF Ids
    <3>6. wanted \notin Ids(t.objects)
      BY <2>6
    <3> HIDE DEF wanted
    <3>7. wanted \notin Ids(objects)
      BY <2>3, <3>1, <3>5, <3>6
    <3> DEFINE moved == Moved(d, wanted)
    <3>8. moved.id \notin Ids(objects) /\ moved = [d EXCEPT !.id = moved.id]
      BY <3>3, <3>7
    <3>9. Commit(c, {d}, {moved}, {createPublish(moved, id)})
      BY <3>1
    <3> HIDE DEF moved
    <3> QED BY <3>4, <3>8, <3>9, CommitMoves
  <2> QED BY <1>2, <2>4, <2>5, <2>6 DEF ObjectCreate
<1>3. ASSUME NEW c \in Callers, ObjectDelete(c)
      PROVE  MovesWhole /\ KeepsItsPage
  <2>1. PICK d \in Found(tx[c]) : Commit(c, {d}, {}, markPublishToDelete(tx[c], d.active))
    BY <1>3 DEF ObjectDelete
  <2>2. tx[c] # NoTx /\ d \in tx[c].objects /\ d \in ObjectDocs
    BY <1>0, <1>3, OpenInTx, TxTyped DEF ObjectDelete, Found
  <2>3. d \in objects
    BY <2>1, <2>2, CommitFresh, InIds
  <2> QED BY <2>1, <2>3, CommitMoves
<1>4. ASSUME NEW c \in Callers, FinalizePublish(c)
      PROVE  MovesWhole /\ KeepsItsPage
  <2> DEFINE t == tx[c]
             pubs == Marked(t) \cup Finalized(t)
  <2>1. /\ t # NoTx
        /\ t.req \in FinalizeRequests
        /\ t.objects \subseteq ObjectDocs
    BY <1>0, <1>4, OpenInTx, TxTyped DEF FinalizePublish
  <2>2. Commit(c, {}, Updated(t), pubs)
    BY <1>4 DEF FinalizePublish
  <2>3. ASSUME NEW e \in Updated(t)
        PROVE  \E d \in objects : d.id = e.id /\ d.sharing = e.sharing
    <3>1. PICK d \in t.objects : d.id = e.id /\ e = [d EXCEPT !.active = t.req.id]
      BY <2>1, UpdatedWrites
    <3>2. d \in ObjectDocs /\ d.sharing = e.sharing
      BY <2>1, <3>1 DEF ObjectDocs
    <3>3. e.id \in Ids({} \cup Updated(t))
      BY DEF Ids
    <3>4. d \in objects
      BY <2>1, <2>2, <3>1, <3>2, <3>3, CommitFresh
    <3> QED BY <3>1, <3>2, <3>4
  <2> QED BY <2>2, <2>3, CommitMoves
<1>5. CASE \E c \in Callers : BeginCreate(c) \/ BeginDelete(c) \/ BeginFinalize(c)
  BY <1>1, <1>5 DEF BeginCreate, BeginDelete, BeginFinalize, Begin
<1>6. CASE \E callers \in SUBSET Callers : Abort(callers)
  BY <1>1, <1>6 DEF Abort
<1>7. CASE CleanupStep
  BY <1>1, <1>7 DEF CleanupStep, DeletePublish, DeleteOutdatedPublish,
                    DeleteOutdatedObjects, RemovePublishes
<1> QED BY <1>2, <1>3, <1>4, <1>5, <1>6, <1>7 DEF Next, CallerStep

--------------------------------------------------------------------------------
(* What a step may do to the publishes *)

LEMMA CommitPublishes ==
  ASSUME NEW c, NEW removed, NEW objs, NEW pubs, Commit(c, removed, objs, pubs)
  PROVE  \A q \in publishes' : q \in publishes \/ q \in pubs
BY ReplaceElements DEF Commit

\* Is q what became of a publish that is there?
Continues(q) ==
  \E p \in publishes :
    /\ p.id = q.id
    /\ p.objectId = q.objectId
    /\ p.status # "Created" => q.status # "Created"

LEMMA CreatePublishes ==
  ASSUME IInv, NEW c \in Callers, ObjectCreate(c)
  PROVE  /\ lastId' = lastId + 1
         /\ \A q \in publishes' :
              q \in publishes \/ (q.id = lastId' /\ q.status = "Created")
<1>1. PICK removed, objs, d : Commit(c, removed, objs, {createPublish(d, NewPublishId)})
  BY DEF ObjectCreate
<1>2. lastId' = lastId + 1 /\ NewPublishId = lastId + 1
  BY DEF ObjectCreate, NewPublishId
<1>3. \A q \in publishes' : q \in publishes \/ q = createPublish(d, NewPublishId)
  BY <1>1, CommitPublishes
<1> QED BY <1>2, <1>3 DEF createPublish

\* The publish a page shows when it is unpublished has left the status Created.
LEMMA DeletePublishes ==
  ASSUME IInv, NEW c \in Callers, ObjectDelete(c)
  PROVE  /\ lastId' = lastId
         /\ \A q \in publishes' :
              \/ q \in publishes
              \/ /\ q.status = "ReadyToDelete"
                 /\ \E p \in publishes : /\ p.id = q.id
                                         /\ p.objectId = q.objectId
                                         /\ p.status # "Created"
<1> DEFINE t == tx[c]
<1>1. PICK d \in Found(t) : Commit(c, {d}, {}, markPublishToDelete(t, d.active))
  BY DEF ObjectDelete
<1>2. /\ TypeOK
      /\ t # NoTx
      /\ t.publishes \subseteq PublishDocs
      /\ d \in ObjectDocs /\ d \in t.objects
  BY OpenInTx, TxTyped DEF IInv, ObjectDelete, Found
<1>3. d \in objects
  <2>1. d.id \in Ids({d} \cup {})
    BY InIds
  <2> QED BY <1>1, <1>2, <2>1, CommitFresh
<1> DEFINE pubs == markPublishToDelete(t, d.active)
<1>4. ASSUME NEW q \in pubs
      PROVE  /\ q.status = "ReadyToDelete"
             /\ \E p \in publishes : /\ p.id = q.id
                                     /\ p.objectId = q.objectId
                                     /\ p.status # "Created"
  <2>1. q.status = "ReadyToDelete" /\ q.id = d.active
    BY <1>2, markPublishToDeleteTyped
  <2>2. PICK p \in t.publishes : p.id = d.active /\ q = [p EXCEPT !.status = "ReadyToDelete"]
    BY <1>2, markPublishToDeleteTyped
  <2>3. p \in PublishDocs /\ p.objectId = q.objectId
    BY <1>2, <2>2 DEF PublishDocs
  <2>4. p \in publishes
    BY <1>1, <1>2, <2>1, <2>2, <2>3, CommitFresh, InIds
  <2>5. p.status # "Created"
    BY <1>3, <2>2, <2>4 DEF IInv, ActiveWasFinalized
  <2> QED BY <2>1, <2>2, <2>3, <2>4, <2>5
<1>5. \A q \in publishes' : q \in publishes \/ q \in pubs
  BY <1>1, CommitPublishes
<1> HIDE DEF pubs
<1> QED BY <1>4, <1>5 DEF ObjectDelete

\* FinalizePublish writes the publish it is about, and the one it takes for the
\* previous one.
LEMMA FinalizePublishes ==
  ASSUME IInv, NEW c \in Callers, FinalizePublish(c)
  PROVE  /\ lastId' = lastId
         /\ \A q \in publishes' :
              \/ q \in publishes
              \/ /\ \/ q.status = "ReadyToDelete" /\ q.id = tx[c].req.prev
                    \/ q.status = "Published" /\ q.id = tx[c].req.id
                 /\ \E p \in publishes : p.id = q.id /\ p.objectId = q.objectId
<1> DEFINE t == tx[c]
           pubs == Marked(t) \cup Finalized(t)
<1>1. /\ TypeOK
      /\ t # NoTx
      /\ t.publishes \subseteq PublishDocs
      /\ t.req \in FinalizeRequests
  BY OpenInTx, TxTyped DEF IInv, FinalizePublish
<1>2. Commit(c, {}, Updated(t), pubs)
  BY DEF FinalizePublish
<1>3. ASSUME NEW q \in pubs
      PROVE  /\ \/ q.status = "ReadyToDelete" /\ q.id = t.req.prev
                \/ q.status = "Published" /\ q.id = t.req.id
             /\ \E p \in t.publishes : p.id = q.id /\ p.objectId = q.objectId
  <2>1. CASE q \in Marked(t)
    <3>1. q.status = "ReadyToDelete" /\ q.id = t.req.prev
      BY <1>1, <2>1, markPublishToDeleteTyped DEF Marked
    <3>2. PICK p \in t.publishes :
                 p.id = q.id /\ q = [p EXCEPT !.status = "ReadyToDelete"]
      BY <1>1, <2>1, MarkedWrites
    <3>3. p.objectId = q.objectId
      BY <1>1, <3>2 DEF PublishDocs
    <3> QED BY <3>1, <3>2, <3>3
  <2>2. CASE q \in Finalized(t)
    <3>1. q.status = "Published" /\ q.id = t.req.id
      BY <1>1, <2>2, FinalizedWrites
    <3>2. PICK p \in t.publishes :
                 /\ p.id = q.id
                 /\ q = [p EXCEPT !.status = "Published", !.entries = t.req.entries]
      BY <1>1, <2>2, FinalizedWrites
    <3>3. p.objectId = q.objectId
      BY <1>1, <3>2 DEF PublishDocs
    <3> QED BY <3>1, <3>2, <3>3
  <2> QED BY <2>1, <2>2
<1>4. \A q \in publishes' : q \in publishes \/ q \in pubs
  BY <1>2, CommitPublishes
<1>5. ASSUME NEW q \in pubs, NEW p \in t.publishes, p.id = q.id
      PROVE  p \in publishes
  <2>1. p \in PublishDocs /\ p.id \in Ids(pubs)
    BY <1>1, <1>5, InIds
  <2> QED BY <1>1, <1>2, <2>1, CommitFresh
<1> HIDE DEF pubs
<1> QED BY <1>3, <1>4, <1>5 DEF FinalizePublish

LEMMA OtherPublishes ==
  /\ \A c, req : Begin(c, req) => UNCHANGED <<objects, publishes, lastId>>
  /\ \A callers : Abort(callers) => UNCHANGED <<objects, publishes, lastId>>
  /\ \A ids : RemovePublishes(ids) =>
       publishes' \subseteq publishes /\ UNCHANGED <<objects, lastId>>
BY DEF Begin, Abort, RemovePublishes, Replace

\* A publish keeps its object and is never Created again, and its id is not given to
\* another.
LEMMA NextPublishes ==
  ASSUME IInv, [Next]_vars
  PROVE  /\ lastId' \in {lastId, lastId + 1}
         /\ \A q \in publishes' : Continues(q) \/ q.id = lastId + 1
<1>1. \A q \in publishes : Continues(q)
  BY DEF Continues
<1>2. ASSUME NEW c \in Callers, ObjectCreate(c)
      PROVE  /\ lastId' \in {lastId, lastId + 1}
             /\ \A q \in publishes' : Continues(q) \/ q.id = lastId + 1
  BY <1>1, <1>2, CreatePublishes
<1>3. ASSUME NEW c \in Callers, ObjectDelete(c)
      PROVE  lastId' = lastId /\ \A q \in publishes' : Continues(q)
  BY <1>1, <1>3, DeletePublishes DEF Continues
<1>4. ASSUME NEW c \in Callers, FinalizePublish(c)
      PROVE  lastId' = lastId /\ \A q \in publishes' : Continues(q)
  BY <1>1, <1>4, FinalizePublishes DEF Continues
<1>5. CASE \/ UNCHANGED vars
           \/ \E c \in Callers : BeginCreate(c) \/ BeginDelete(c) \/ BeginFinalize(c)
           \/ \E callers \in SUBSET Callers : Abort(callers)
           \/ CleanupStep
  <2>1. publishes' \subseteq publishes /\ lastId' = lastId
    BY <1>5, OtherPublishes DEF vars, BeginCreate, BeginDelete, BeginFinalize,
         CleanupStep, DeletePublish, DeleteOutdatedPublish, DeleteOutdatedObjects
  <2> QED BY <1>1, <2>1
<1> QED BY <1>2, <1>3, <1>4, <1>5 DEF Next, CallerStep

\* Does a transaction keep what it asks for and what it saw until it ends?
Kept(g) ==
  \/ tx'[g] = NoTx
  \/ /\ tx'[g].req = tx[g].req
     /\ tx'[g].objects = tx[g].objects
     /\ tx'[g].publishes = tx[g].publishes

LEMMA TransactionsStay ==
  ASSUME TypeOK
  PROVE  /\ \A c \in Callers : \A req : Begin(c, req) =>
              /\ tx'[c].req = req
              /\ tx'[c].objects = objects
              /\ tx'[c].publishes = publishes
              /\ \A g \in Callers \ {c} : tx'[g] = tx[g]
         /\ \A c, removed, objs, pubs : Commit(c, removed, objs, pubs) =>
              \A g \in Callers : Kept(g)
         /\ \A callers : Abort(callers) => \A g \in Callers : Kept(g)
         /\ \A ids : RemovePublishes(ids) => \A g \in Callers : Kept(g)
<1>1. \A g \in Callers : tx[g] \in Transactions
  BY DEF TypeOK
<1>2. ASSUME NEW g \in Callers, NEW oids, NEW pids, tx'[g] = Missed(tx[g], oids, pids)
      PROVE  Kept(g)
  BY <1>1, <1>2, MissedKeeps DEF Kept
<1>3. ASSUME NEW c \in Callers, NEW req, Begin(c, req)
      PROVE  /\ tx'[c].req = req
             /\ tx'[c].objects = objects
             /\ tx'[c].publishes = publishes
             /\ \A g \in Callers \ {c} : tx'[g] = tx[g]
  BY <1>3 DEF Begin, TypeOK
<1>4. ASSUME NEW c, NEW removed, NEW objs, NEW pubs, Commit(c, removed, objs, pubs),
             NEW g \in Callers
      PROVE  Kept(g)
  <2>1. tx'[g] = IF g = c THEN NoTx
                 ELSE Missed(tx[g], Ids(removed \cup objs), Ids(pubs))
    BY <1>4 DEF Commit
  <2> QED BY <1>2, <2>1 DEF Kept
<1>5. ASSUME NEW callers, Abort(callers), NEW g \in Callers
      PROVE  Kept(g)
  BY <1>5 DEF Abort, Kept
<1>6. ASSUME NEW ids, RemovePublishes(ids), NEW g \in Callers
      PROVE  Kept(g)
  BY <1>2, <1>6 DEF RemovePublishes
<1> QED BY <1>3, <1>4, <1>5, <1>6

\* The same of what its callers do.
LEMMA CommitsKeep ==
  ASSUME TypeOK, NEW c,
         ObjectCreate(c) \/ ObjectDelete(c) \/ FinalizePublish(c)
  PROVE  \A g \in Callers : Kept(g)
BY TransactionsStay DEF ObjectCreate, ObjectDelete, FinalizePublish

--------------------------------------------------------------------------------
(* What a transaction does to the objects *)

LEMMA CommitObjects ==
  ASSUME IInv, NEW c \in Callers, tx[c] # NoTx,
         NEW removed, NEW objs, NEW pubs, Commit(c, removed, objs, pubs),
         \A d \in removed : d \in tx[c].objects
  PROVE  /\ removed \subseteq objects
         /\ \A e \in tx[c].objects : e.id \in Ids(objs) => e \in objects
         /\ \A d : d \in objects' <=>
              (d \in objects /\ d \notin removed /\ d.id \notin Ids(objs)) \/ d \in objs
<1>1. Ids(removed \cup objs) = Ids(removed) \cup Ids(objs)
  BY DEF Ids
<1>2. \A d \in ObjectDocs : d.id \in Ids(removed) \cup Ids(objs) =>
        (d \in tx[c].objects <=> d \in objects)
  BY <1>1, CommitFresh
<1>3. /\ tx[c].objects \subseteq ObjectDocs
      /\ objects \subseteq ObjectDocs
      /\ \A d, e \in objects : d.id = e.id => d = e
  BY TxTyped DEF IInv, TypeOK, UniqueIds
<1>4. removed \subseteq objects
  BY <1>2, <1>3, InIds
<1>5. \A e \in tx[c].objects : e.id \in Ids(objs) => e \in objects
  BY <1>2, <1>3
<1>6. \A d \in objects : d.id \in Ids(removed) <=> d \in removed
  BY <1>3, <1>4 DEF Ids
<1>7. \A d : d \in objects' <=>
        (d \in objects /\ d.id \notin Ids(removed \cup objs)) \/ d \in objs
  BY ReplaceElements DEF Commit
<1> QED BY <1>1, <1>4, <1>5, <1>6, <1>7

\* A new object comes, nothing changes, or one object moves to an address that is free.
LEMMA CreateObjects ==
  ASSUME IInv, NEW c \in Callers, ObjectCreate(c)
  PROVE  LET req == tx[c].req
             wanted == ObjectId(req.sharing, req.uri)
         IN  \/ objects' = objects
             \/ /\ wanted \notin Ids(objects)
                /\ objects' = objects \cup {NewObject(req.sharing, req.uri, lastId + 1)}
             \/ /\ wanted \notin Ids(objects)
                /\ \E d \in objects :
                     /\ d.sharing = req.sharing /\ d.id # wanted
                     /\ objects' = (objects \ {d}) \cup {Moved(d, wanted)}
<1> DEFINE t == tx[c]
           wanted == ObjectId(t.req.sharing, t.req.uri)
<1>1. /\ t # NoTx
      /\ t.objects \subseteq ObjectDocs
      /\ t.req \in CreateRequests
  BY OpenInTx, TxTyped DEF ObjectCreate, IInv
<1>2. ASSUME NEW removed \in SUBSET ObjectDocs, NEW objs, NEW pubs,
             Commit(c, removed, objs, pubs), wanted \in Ids(objs),
             wanted \notin Ids(t.objects)
      PROVE  wanted \notin Ids(objects)
  <2>1. Ids(removed \cup objs) = Ids(removed) \cup Ids(objs)
    BY DEF Ids
  <2>2. \A d \in ObjectDocs : d.id = wanted => (d \in t.objects <=> d \in objects)
    BY <1>1, <1>2, <2>1, CommitFresh
  <2> QED BY <1>2, <2>2 DEF Ids, IInv, TypeOK
<1>3. CASE \E pubs : /\ wanted \notin Ids(t.objects)
                     /\ Commit(c, {}, {NewObject(t.req.sharing, t.req.uri, lastId + 1)}, pubs)
  <2> DEFINE d == NewObject(t.req.sharing, t.req.uri, lastId + 1)
  <2>1. PICK pubs : wanted \notin Ids(t.objects) /\ Commit(c, {}, {d}, pubs)
    BY <1>3
  <2>2. Ids({d}) = {wanted}
    BY DEF Ids, NewObject
  <2> HIDE DEF d, wanted, t
  <2>3. wanted \notin Ids(objects)
    BY <1>2, <2>1, <2>2
  <2>4. \A e \in objects : e.id \notin Ids({d})
    BY <2>2, <2>3, InIds
  <2>5. \A e : e \in objects' <=> (e \in objects /\ e.id \notin Ids({d})) \/ e = d
    BY <1>1, <2>1, CommitObjects DEF t
  <2>6. objects' = objects \cup {d}
    BY <2>4, <2>5
  <2> QED BY <2>3, <2>6 DEF d, wanted, t
<1>4. CASE \E pubs : Commit(c, {}, {}, pubs)
  <2>1. \A e : e \in objects' <=> e \in objects /\ e.id \notin Ids({})
    BY <1>1, <1>4, CommitObjects
  <2>2. Ids({}) = {}
    BY DEF Ids
  <2> QED BY <2>1, <2>2
<1>5. CASE \E d \in Found(t) : \E pubs :
             /\ d.id # wanted
             /\ wanted \notin Ids(t.objects)
             /\ Commit(c, {d}, {Moved(d, wanted)}, pubs)
  <2>0. PICK d \in Found(t) : \E pubs :
               /\ d.id # wanted
               /\ wanted \notin Ids(t.objects)
               /\ Commit(c, {d}, {Moved(d, wanted)}, pubs)
    BY <1>5
  <2>1. PICK pubs : /\ d.id # wanted
                    /\ wanted \notin Ids(t.objects)
                    /\ Commit(c, {d}, {Moved(d, wanted)}, pubs)
    BY <2>0
  <2>2. d \in t.objects /\ d \in ObjectDocs /\ d.sharing = t.req.sharing
    BY <1>1 DEF Found
  <2>3. Ids({Moved(d, wanted)}) = {wanted}
    BY <2>2 DEF Ids, Moved, ObjectDocs
  <2> HIDE DEF wanted, t
  <2>4. wanted \notin Ids(objects)
    BY <1>2, <2>1, <2>2, <2>3
  <2>5. /\ {d} \subseteq objects
        /\ \A e : e \in objects' <=>
             \/ e \in objects /\ e # d /\ e.id \notin Ids({Moved(d, wanted)})
             \/ e = Moved(d, wanted)
    BY <1>1, <2>1, <2>2, CommitObjects DEF t
  <2>6. \A e \in objects : e.id \notin Ids({Moved(d, wanted)})
    BY <2>3, <2>4, InIds
  <2>7. objects' = (objects \ {d}) \cup {Moved(d, wanted)}
    BY <2>5, <2>6
  <2> QED BY <2>1, <2>2, <2>4, <2>5, <2>7 DEF wanted, t
<1>6. \/ \E pubs : /\ wanted \notin Ids(t.objects)
                   /\ Commit(c, {}, {NewObject(t.req.sharing, t.req.uri, lastId + 1)}, pubs)
      \/ \E pubs : Commit(c, {}, {}, pubs)
      \/ \E d \in Found(t) : \E pubs :
           /\ d.id # wanted
           /\ wanted \notin Ids(t.objects)
           /\ Commit(c, {d}, {Moved(d, wanted)}, pubs)
  BY DEF ObjectCreate, NewPublishId
<1> QED BY <1>3, <1>4, <1>5, <1>6

\* The object that is found is removed, as it is now.
LEMMA DeleteObjects ==
  ASSUME IInv, NEW c \in Callers, ObjectDelete(c)
  PROVE  \E d \in objects :
           /\ d \in tx[c].objects
           /\ d.sharing = tx[c].req.sharing
           /\ Commit(c, {d}, {}, markPublishToDelete(tx[c], d.active))
           /\ objects' = objects \ {d}
<1>1. PICK d \in Found(tx[c]) : Commit(c, {d}, {}, markPublishToDelete(tx[c], d.active))
  BY DEF ObjectDelete
<1>2. /\ tx[c] # NoTx /\ d \in tx[c].objects /\ d \in ObjectDocs
      /\ d.sharing = tx[c].req.sharing
  BY OpenInTx, TxTyped DEF ObjectDelete, IInv, Found
<1>3. /\ {d} \subseteq objects
      /\ \A e : e \in objects' <=> e \in objects /\ e # d /\ e.id \notin Ids({})
  BY <1>1, <1>2, CommitObjects
<1>4. Ids({}) = {}
  BY DEF Ids
<1>5. objects' = objects \ {d}
  BY <1>3, <1>4
<1> QED BY <1>1, <1>2, <1>3, <1>5

\* The object, if the transaction saw it, shows the publish; nothing else changes.
LEMMA FinalizeObjects ==
  ASSUME IInv, NEW c \in Callers, FinalizePublish(c)
  PROVE  LET req == tx[c].req
         IN  \/ req.objectId \notin Ids(tx[c].objects) /\ objects' = objects
             \/ \E d \in objects :
                  /\ d \in tx[c].objects
                  /\ d.id = req.objectId
                  /\ objects' = (objects \ {d}) \cup {[d EXCEPT !.active = req.id]}
<1> DEFINE t == tx[c]
<1>1. /\ t # NoTx
      /\ t.objects \subseteq ObjectDocs
      /\ t.req \in FinalizeRequests
      /\ \A d, e \in objects : d.id = e.id => d = e
  BY OpenInTx, TxTyped DEF FinalizePublish, IInv, UniqueIds
<1>2. PICK pubs : Commit(c, {}, Updated(t), pubs)
  BY DEF FinalizePublish
<1>3. /\ \A e \in t.objects : e.id \in Ids(Updated(t)) => e \in objects
      /\ \A d : d \in objects' <=>
           (d \in objects /\ d.id \notin Ids(Updated(t))) \/ d \in Updated(t)
  BY <1>1, <1>2, CommitObjects
<1>4. \A e \in t.objects : [e EXCEPT !.active = t.req.id].id = e.id
  BY <1>1 DEF ObjectDocs
<1>5. CASE t.req.objectId \notin Ids(t.objects)
  <2>1. Updated(t) = {} /\ Ids({}) = {}
    BY <1>5 DEF Updated, Ids
  <2>2. objects' = objects
    BY <1>3, <2>1
  <2> QED BY <1>5, <2>2
<1>6. CASE t.req.objectId \in Ids(t.objects)
  <2>1. PICK d \in t.objects : d.id = t.req.objectId
    BY <1>6 DEF Ids
  <2>2. Ids(Updated(t)) = {d.id}
    BY <1>4, <2>1 DEF Ids, Updated
  <2>3. \A e \in t.objects : e.id = d.id => e \in objects
    BY <1>3, <2>2
  <2>4. d \in objects /\ {e \in t.objects : e.id = t.req.objectId} = {d}
    BY <1>1, <2>1, <2>3
  <2>5. Updated(t) = {[d EXCEPT !.active = t.req.id]}
    BY <2>4 DEF Updated
  <2>6. \A e \in objects : e.id \notin Ids(Updated(t)) <=> e # d
    BY <1>1, <2>2, <2>4
  <2>7. objects' = (objects \ {d}) \cup {[d EXCEPT !.active = t.req.id]}
    BY <1>3, <2>5, <2>6
  <2> QED BY <2>1, <2>4, <2>7
<1> QED BY <1>5, <1>6

--------------------------------------------------------------------------------
(* What becomes of the publishes that are there *)

LEMMA CommitKeeps ==
  ASSUME NEW c, NEW removed, NEW objs, NEW pubs, Commit(c, removed, objs, pubs)
  PROVE  /\ \A p \in publishes : p \in publishes' \/ p.id \in Ids(pubs)
         /\ \A q \in pubs : q \in publishes'
BY ReplaceElements DEF Commit

LEMMA CreateKeeps ==
  ASSUME IInv, NEW c \in Callers, ObjectCreate(c), NEW p \in publishes
  PROVE  p \in publishes'
<1>1. PICK removed, objs, d : Commit(c, removed, objs, {createPublish(d, lastId + 1)})
  BY DEF ObjectCreate, NewPublishId
<1>2. Ids({createPublish(d, lastId + 1)}) = {lastId + 1}
  BY DEF Ids, createPublish
<1>3. p.id <= lastId /\ lastId \in Nat /\ p.id \in Nat
  BY MaxPublishesAssumption DEF IInv, IdsHandedOut, TypeOK, PublishDocs, PublishIds
<1>4. p.id # lastId + 1
  BY <1>3
<1> QED BY <1>1, <1>2, <1>4, CommitKeeps

\* A publish that a transaction marks is ReadyToDelete once it has committed, unless
\* the transaction saw it so before.
LEMMA CommitRetires ==
  ASSUME IInv, NEW c \in Callers, tx[c] # NoTx, NEW removed, NEW objs, NEW pubs,
         Commit(c, removed, objs, pubs), NEW id, markPublishToDelete(tx[c], id) \subseteq pubs,
         \A q \in pubs : q.id = id => q.status = "ReadyToDelete",
         NEW p \in publishes', p.id = id, p.status # "ReadyToDelete"
  PROVE  /\ p \in publishes
         /\ \A s \in tx[c].publishes : s.id = p.id =>
              \E r \in tx[c].publishes : r.id = p.id /\ r.status = "ReadyToDelete"
<1> DEFINE t == tx[c]
<1>1. t.publishes \subseteq PublishDocs
  BY TxTyped DEF IInv
<1>2. p \in publishes /\ p \notin pubs
  BY CommitPublishes
<1>3. p.id \notin Ids(pubs)
  BY <1>2, ReplaceElements DEF Commit
<1>4. ASSUME NEW s \in t.publishes, s.id = p.id
      PROVE  \E r \in t.publishes : r.id = p.id /\ r.status = "ReadyToDelete"
  <2> DEFINE r == [s EXCEPT !.status = "ReadyToDelete"]
  <2>1. r.id = p.id /\ r.status = "ReadyToDelete"
    BY <1>1, <1>4 DEF PublishDocs
  <2>2. r \notin pubs
    BY <1>3, <2>1, InIds
  <2>3. r \in t.publishes
    BY <1>4, <2>2 DEF markPublishToDelete
  <2> QED BY <2>1, <2>3
<1> QED BY <1>2, <1>4

\* What unpublishing takes from the publishes is what the page shows.
LEMMA DeleteRetires ==
  ASSUME IInv, NEW c \in Callers, ObjectDelete(c)
  PROVE  \E d \in objects :
           /\ d \in tx[c].objects
           /\ objects' = objects \ {d}
           /\ \A p \in publishes :
                \/ p \in publishes'
                \/ p.id = d.active /\ [p EXCEPT !.status = "ReadyToDelete"] \in publishes'
           /\ \A p \in publishes' : p.id = d.active =>
                \/ p.status = "ReadyToDelete"
                \/ /\ p \in publishes
                   /\ \A s \in tx[c].publishes : s.id = p.id =>
                        \E r \in tx[c].publishes : r.id = p.id /\ r.status = "ReadyToDelete"
<1> DEFINE t == tx[c]
<1>1. PICK d \in objects :
             /\ d \in t.objects
             /\ Commit(c, {d}, {}, markPublishToDelete(t, d.active))
             /\ objects' = objects \ {d}
  BY DeleteObjects
<1> DEFINE pubs == markPublishToDelete(t, d.active)
<1>2. t # NoTx /\ t.publishes \subseteq PublishDocs
  BY OpenInTx, TxTyped DEF ObjectDelete, IInv
<1>3. \A q \in pubs : /\ q.id = d.active
                      /\ q.status = "ReadyToDelete"
                      /\ \E p \in t.publishes :
                           p.id = d.active /\ q = [p EXCEPT !.status = "ReadyToDelete"]
  BY <1>2, markPublishToDeleteTyped
<1>4. \A p \in PublishDocs : p.id \in Ids(pubs) => (p \in t.publishes <=> p \in publishes)
  BY <1>1, <1>2, CommitFresh
<1>5. ASSUME NEW p \in publishes, p \notin publishes'
      PROVE  p.id = d.active /\ [p EXCEPT !.status = "ReadyToDelete"] \in publishes'
  <2>1. p.id \in Ids(pubs)
    BY <1>1, <1>5, CommitKeeps
  <2>2. PICK q \in pubs : q.id = p.id
    BY <2>1 DEF Ids
  <2>3. PICK r \in t.publishes :
               r.id = d.active /\ q = [r EXCEPT !.status = "ReadyToDelete"]
    BY <1>3
  <2>4. r \in publishes
    BY <1>2, <1>3, <1>4, <2>1, <2>2, <2>3
  <2>5. r = p
    BY <1>3, <2>2, <2>3, <2>4 DEF IInv, UniqueIds
  <2>6. q \in publishes'
    BY <1>1, CommitKeeps
  <2> QED BY <2>3, <2>5, <2>6
<1>6. ASSUME NEW p \in publishes', p.id = d.active, p.status # "ReadyToDelete"
      PROVE  /\ p \in publishes
             /\ \A s \in t.publishes : s.id = p.id =>
                  \E r \in t.publishes : r.id = p.id /\ r.status = "ReadyToDelete"
  BY <1>1, <1>2, <1>3, <1>6, CommitRetires
<1> QED BY <1>1, <1>5, <1>6

\* FinalizePublish changes the publish it is about and the one it replaces.
LEMMA FinalizeKeeps ==
  ASSUME IInv, NEW c \in Callers, FinalizePublish(c), NEW p \in publishes,
         p \notin publishes'
  PROVE  LET req == tx[c].req
         IN  \/ /\ p.id = req.id
                /\ [p EXCEPT !.status = "Published", !.entries = req.entries] \in publishes'
             \/ /\ p.id = req.prev
                /\ [p EXCEPT !.status = "ReadyToDelete"] \in publishes'
<1> DEFINE t == tx[c]
           pubs == Marked(t) \cup Finalized(t)
<1>1. /\ t # NoTx
      /\ t.publishes \subseteq PublishDocs
      /\ t.req \in FinalizeRequests
  BY OpenInTx, TxTyped DEF IInv, FinalizePublish
<1>2. Commit(c, {}, Updated(t), pubs)
  BY DEF FinalizePublish
<1>3. p.id \in Ids(pubs) /\ \A q \in pubs : q \in publishes'
  BY <1>2, CommitKeeps
<1>4. \A q \in PublishDocs : q.id = p.id => (q \in t.publishes <=> q \in publishes)
  BY <1>1, <1>2, <1>3, CommitFresh
<1>5. PICK q \in pubs : q.id = p.id
  BY <1>3 DEF Ids
<1>6. \A r \in t.publishes : r.id = p.id => r = p
  BY <1>1, <1>4 DEF IInv, UniqueIds
<1>7. CASE q \in Marked(t)
  <2>1. q.id = t.req.prev
    BY <1>1, <1>7, markPublishToDeleteTyped DEF Marked
  <2>2. PICK r \in t.publishes : q.id = r.id /\ q = [r EXCEPT !.status = "ReadyToDelete"]
    BY <1>1, <1>7, MarkedWrites
  <2> QED BY <1>3, <1>5, <1>6, <2>1, <2>2
<1>8. CASE q \in Finalized(t)
  <2>1. q.id = t.req.id
    BY <1>1, <1>8, FinalizedWrites
  <2>2. PICK r \in t.publishes :
               /\ r.id = q.id
               /\ q = [r EXCEPT !.status = "Published", !.entries = t.req.entries]
    BY <1>1, <1>8, FinalizedWrites
  <2> QED BY <1>3, <1>5, <1>6, <2>1, <2>2
<1> QED BY <1>5, <1>7, <1>8

\* What it replaces is ReadyToDelete afterwards, unless its transaction saw it so before.
LEMMA FinalizeRetires ==
  ASSUME IInv, NEW c \in Callers, FinalizePublish(c), tx[c].req.prev # tx[c].req.id,
         NEW p \in publishes', p.id = tx[c].req.prev, p.status # "ReadyToDelete"
  PROVE  /\ p \in publishes
         /\ \A s \in tx[c].publishes : s.id = p.id =>
              \E r \in tx[c].publishes : r.id = p.id /\ r.status = "ReadyToDelete"
<1> DEFINE t == tx[c]
           pubs == Marked(t) \cup Finalized(t)
<1>1. /\ t # NoTx
      /\ t.publishes \subseteq PublishDocs
      /\ t.req \in FinalizeRequests
  BY OpenInTx, TxTyped DEF IInv, FinalizePublish
<1>2. Commit(c, {}, Updated(t), pubs)
  BY DEF FinalizePublish
<1>3. markPublishToDelete(t, t.req.prev) \subseteq pubs
  BY <1>1, markPublishToDeleteTyped DEF Marked
<1>4. \A q \in pubs : q.id = t.req.prev => q.status = "ReadyToDelete"
  BY <1>1, MarkedWrites, FinalizedWrites
<1> HIDE DEF pubs
<1> QED BY <1>1, <1>2, <1>3, <1>4, CommitRetires

\* A publish that is still Created is Published by it.
LEMMA FinalizeShows ==
  ASSUME IInv, NEW c \in Callers, FinalizePublish(c), NEW p \in publishes,
         p.id = tx[c].req.id, p.status = "Created"
  PROVE  [p EXCEPT !.status = "Published", !.entries = tx[c].req.entries] \in publishes'
<1> DEFINE t == tx[c]
           q == [p EXCEPT !.status = "Published", !.entries = t.req.entries]
<1>1. /\ t # NoTx
      /\ t.publishes \subseteq PublishDocs
      /\ p \in PublishDocs
  BY OpenInTx, TxTyped DEF IInv, TypeOK, FinalizePublish
<1>2. Commit(c, {}, Updated(t), Marked(t) \cup Finalized(t))
  BY DEF FinalizePublish
<1>3. PICK s \in t.publishes : s.id = p.id
  BY DEF IInv, FinalizedSeen, FinalizePublish
<1>4. \A r \in t.publishes : r.id = p.id => r.status = "Created"
  BY DEF IInv, NeverCreatedAgain
<1> DEFINE f == [s EXCEPT !.status = "Published", !.entries = t.req.entries]
<1>5. f.id = p.id /\ f.status = "Published"
  BY <1>1, <1>3 DEF PublishDocs
<1>6. f \in Finalized(t)
  BY <1>3, <1>4, <1>5 DEF Finalized
<1>7. s.id \in Ids(Marked(t) \cup Finalized(t))
  BY <1>3, <1>5, <1>6, InIds
<1>8. s \in publishes
  BY <1>1, <1>2, <1>7, CommitFresh
<1>9. s = p
  BY <1>3, <1>8 DEF IInv, UniqueIds
<1> QED BY <1>2, <1>6, <1>9, CommitKeeps

--------------------------------------------------------------------------------
(* The theorems *)

\* The inductive invariant holds of every behaviour.
THEOREM Invariant == Spec => []IInv
<1>1. Init => IInv
  BY InitInv
<1>2. IInv /\ [Next]_vars => IInv'
  BY NextInv
<1> QED BY <1>1, <1>2, PTL DEF Spec

\* The collections hold documents of their schema, and the transactions the
\* requests and snapshots they are made of (publishrepo.go, db.go).
THEOREM TypeCorrect == Spec => []TypeOK
<1>1. IInv => TypeOK
  BY DEF IInv
<1> QED BY <1>1, Invariant, PTL

\* Whatever the callers read and however their transactions interleave, no page
\* shows a publish that DeleteOutdatedPublishes could take for one that was
\* never uploaded (publishrepo.go:287-320, 350-362).
THEOREM ActiveIsSafe == Spec => []ActiveWasFinalized
<1>1. IInv => ActiveWasFinalized
  BY DEF IInv
<1> QED BY <1>1, Invariant, PTL

\* A page that is renamed takes along whatever it shows, including what was
\* finalized while its transaction was open (publishrepo.go:147-160).
THEOREM RenameIsWhole == Spec => RenameKeepsPage
<1>1. IInv /\ [Next]_vars => [MovesWhole]_vars
  BY NextMoves
<1> QED BY <1>1, Invariant, PTL DEF Spec, RenameKeepsPage

\* No two concurrent requests give one address to two pages, or a page the
\* address another still has (publishrepo.go:127-133, 153-156).
THEOREM UriIsSafe == Spec => NoUriTheft
<1>1. IInv /\ [Next]_vars => [KeepsItsPage]_vars
  BY NextMoves
<1> QED BY <1>1, Invariant, PTL DEF Spec, NoUriTheft

================================================================================
