-------------------------- MODULE PublishSystemProofs --------------------------
(***************************************************************************)
(* The whole server, for any number of handlers, readers, pages, files and *)
(* publishes: it is the service, its cache is one that Gateway describes,  *)
(* and the pages in its cache can load their files.                        *)
(***************************************************************************)
EXTENDS PublishSystem, PublishPagesProofs

SiteProofs == INSTANCE GatewayProofs
          WITH Callers <- Handlers, Addresses <- Repo!ObjectIds,
               Publishes <- Repo!PublishIds, NoPublish <- Repo!NoPublish,
               Faults <- SiteFaults, active <- Shown, invalidations <- Invalidations

--------------------------------------------------------------------------------
(* The server is the service *)

\* What the gateway and the cache do leaves the service alone, and what the service does
\* it does as PublishService says.
LEMMA SystemInService == SystemNext => [Next]_vars
<1>1. ASSUME NEW h \in Handlers, RequestStep(h) \/ InvalidateStep(h)
      PROVE  [Next]_vars
  BY <1>1 DEF RequestStep, InvalidateStep, InvalidateWithName, InvalidateWithoutName,
              NoCallback, Next, HandlerStep
<1>2. ASSUME NEW r \in Readers, PageStep(r)
      PROVE  [Next]_vars
  BY <1>2 DEF PageStep
<1>3. CASE BackgroundStep \/ CacheTick \/ GatewayRun \/ Restart
  BY <1>3 DEF BackgroundStep, CacheTick, GatewayRun, Restart, Next
<1> QED BY <1>1, <1>2, <1>3 DEF SystemNext

\* The server is the service: what PublishServiceProofs, PublishPagesProofs and
\* PublishFilesProofs show of the service holds of the server with its gateway
\* (service.go:99-118; server.go:109-130).
THEOREM SystemIsService == SystemSpec => Spec
<1>1. SystemInit => Init
  BY DEF SystemInit
<1>2. [SystemNext]_systemVars => [Next]_vars
  BY SystemInService DEF systemVars
<1> QED BY <1>1, <1>2, PTL DEF SystemSpec, Spec

--------------------------------------------------------------------------------
(* What the addresses show *)

\* The same as Shown, of any documents.
ShowingIn(docs, a) == {d \in docs : d.id = a /\ d.active # Repo!NoPublish}

ShownIn(docs) ==
  [a \in Repo!ObjectIds |->
     IF ShowingIn(docs, a) = {} THEN Repo!NoPublish
     ELSE (CHOOSE d \in ShowingIn(docs, a) : TRUE).active]

LEMMA ShownIs ==
  ASSUME NEW docs, docs \subseteq Repo!ObjectDocs,
         \A d, e \in docs : d.id = e.id => d = e
  PROVE  /\ ShownIn(docs) \in [Repo!ObjectIds -> Repo!PublishIds \cup {Repo!NoPublish}]
         /\ \A d \in docs : ShownIn(docs)[d.id] = d.active
         /\ \A a \in Repo!ObjectIds : a \notin Repo!Ids(docs) =>
              ShownIn(docs)[a] = Repo!NoPublish
         /\ \A a \in Repo!ObjectIds : ShownIn(docs)[a] # Repo!NoPublish =>
              \E d \in docs : d.id = a /\ d.active = ShownIn(docs)[a]
<1>1. ASSUME NEW a \in Repo!ObjectIds, ShowingIn(docs, a) # {}
      PROVE  \E d \in docs : d.id = a /\ d.active = ShownIn(docs)[a]
  <2>1. (CHOOSE d \in ShowingIn(docs, a) : TRUE) \in ShowingIn(docs, a)
    BY <1>1
  <2> QED BY <1>1, <2>1 DEF ShownIn, ShowingIn
<1>2. \A a \in Repo!ObjectIds : ShowingIn(docs, a) = {} => ShownIn(docs)[a] = Repo!NoPublish
  BY DEF ShownIn
<1>3. \A d \in docs : d.id \in Repo!ObjectIds
                      /\ d.active \in Repo!PublishIds \cup {Repo!NoPublish}
  BY DEF Repo!ObjectDocs
<1>4. \A d \in docs : ShownIn(docs)[d.id] = d.active
  <2> SUFFICES ASSUME NEW d \in docs PROVE ShownIn(docs)[d.id] = d.active
    OBVIOUS
  <2>1. CASE ShowingIn(docs, d.id) = {}
    BY <1>2, <1>3, <2>1 DEF ShowingIn
  <2>2. CASE ShowingIn(docs, d.id) # {}
    BY <1>1, <1>3, <2>2
  <2> QED BY <2>1, <2>2
<1>5. \A a \in Repo!ObjectIds : a \notin Repo!Ids(docs) => ShownIn(docs)[a] = Repo!NoPublish
  BY <1>2 DEF ShowingIn, Repo!Ids
<1>6. ShownIn(docs) \in [Repo!ObjectIds -> Repo!PublishIds \cup {Repo!NoPublish}]
  <2>1. \A a \in Repo!ObjectIds :
          ShownIn(docs)[a] \in Repo!PublishIds \cup {Repo!NoPublish}
    BY <1>1, <1>2, <1>3
  <2>2. ShownIn(docs) = [a \in Repo!ObjectIds |-> ShownIn(docs)[a]]
    BY DEF ShownIn
  <2> QED BY <2>1, <2>2
<1> QED BY <1>1, <1>2, <1>4, <1>5, <1>6

LEMMA ShownAre ==
  /\ Shown = ShownIn(objects)
  /\ Shown' = ShownIn(objects')
BY DEF Shown, Showing, ShownIn, ShowingIn

--------------------------------------------------------------------------------
(* The system invariant *)

\* A handler is halfway in invalidateCache, which is reached only through the callback;
\* and before there is a callback, only a restart explains that there is anything at all.
CallbackFirst ==
  /\ halfway \subseteq {h \in Handlers : At(h, "invalidate")}
  /\ ~callback => halfway = {}
  /\ ~callback /\ "crash" \notin Faults =>
       publishes = {} /\ \A h \in Handlers : handler[h] = Idle

ReaderIsFunction == reader = [r \in Readers |-> reader[r]]

SystemInv ==
  /\ ReaderIsFunction
  /\ IInv
  /\ TxMatches
  /\ TxWhole
  /\ UrisOwn
  /\ CallbackFirst

\* A request that is under way is not yet, or no longer, in invalidateCache.
LEMMA RequestGoes ==
  ASSUME IInv, NEW h \in Handlers, RequestStep(h)
  PROVE  /\ ~At(h, "invalidate")
         /\ \A g \in Handlers \ {h} : handler'[g] = handler[g]
         /\ HandlerStep(h)
         /\ UNCHANGED <<siteVars, callback, halfway>>
<1>1. HandlerStep(h) /\ UNCHANGED <<siteVars, callback, halfway>>
  BY DEF RequestStep, HandlerStep
<1>2. ~At(h, "invalidate")
  <2>1. CASE RpcRequest(h) \/ RequestFails(h) \/ CommitStep(h)
    BY <2>1 DEF RpcRequest, Publish, UnPublish, RequestFails, CommitStep, PublishEnd,
                UnPublishEnd, FinalizeEnd, At, Idle
  <2>2. CASE UploadStep(h)
    BY <2>2 DEF UploadStep, GetPublish, GetObject, PutFile, UploadFails, Finalize,
                FinalizeFails, ListFiles, DeleteFiles, At, Idle
  <2> QED BY <2>1, <2>2 DEF RequestStep
<1>3. \A s : Goto(h, s) => \A g \in Handlers \ {h} : handler'[g] = handler[g]
  BY DEF IInv, HandlersSound, Goto
<1>4. \E s : Goto(h, s)
  BY <1>1 DEF HandlerStep, RpcRequest, Publish, UnPublish, CommitStep, PublishEnd,
              UnPublishEnd, FinalizeEnd, RequestFails, Invalidate, UploadStep,
              GetPublish, GetObject, PutFile, UploadFails, Finalize, FinalizeFails,
              ListFiles, DeleteFiles
<1> QED BY <1>1, <1>2, <1>3, <1>4

\* Without a callback no request arrives, and what is not there cannot be uploaded to.
LEMMA NothingToDo ==
  ASSUME NEW h \in Handlers, RequestStep(h), ~callback, publishes = {}
  PROVE  handler[h] # Idle
BY DEF RequestStep, RequestFails, CommitStep, PublishEnd, UnPublishEnd, FinalizeEnd,
       UploadStep, GetPublish, GetObject, PutFile, UploadFails, Finalize, FinalizeFails,
       ListFiles, DeleteFiles, At, Idle

LEMMA BackgroundKeeps ==
  ASSUME IInv, BackgroundStep
  PROVE  /\ handler' = handler /\ objects' = objects /\ publishes' \subseteq publishes
         /\ UNCHANGED <<siteVars, callback, halfway>>
<1>1. CASE CleanerStep
  <2>1. handler' = handler
    BY <1>1 DEF CleanerStep, CleanupStart, DeleteOutdatedPublishes, DeleteOutdatedObjects,
                FindReadyToDelete, CleanerListFiles, CleanerDeleteFiles, DeletePublish,
                CleanupEnd, CleanerStatementFails
  <2>2. objects' = objects /\ publishes' \subseteq publishes
    BY <1>1 DEF CleanerStep, CleanupStart, DeleteOutdatedPublishes, DeleteOutdatedObjects,
                FindReadyToDelete, CleanerListFiles, CleanerDeleteFiles, DeletePublish,
                CleanupEnd, CleanerStatementFails, Repo!DeletePublish,
                Repo!DeleteOutdatedPublish, Repo!DeleteOutdatedObjects,
                Repo!RemovePublishes, Repo!Replace, repoVars
  <2> QED BY <2>1, <2>2 DEF BackgroundStep
<1>2. CASE Age
  BY <1>2 DEF Age, BackgroundStep, repoVars
<1> QED BY <1>1, <1>2 DEF BackgroundStep

LEMMA CallbackStaysFirst ==
  ASSUME IInv, CallbackFirst, [SystemNext]_systemVars
  PROVE  CallbackFirst'
<1>1. ASSUME NEW h \in Handlers, RequestStep(h) PROVE CallbackFirst'
  <2>1. halfway' = halfway /\ callback' = callback
    BY <1>1, RequestGoes
  <2>2. callback \/ "crash" \in Faults
    BY <1>1, NothingToDo DEF CallbackFirst
  <2>3. ASSUME NEW g \in halfway PROVE At(g, "invalidate")'
    <3>1. At(g, "invalidate") /\ g \in Handlers \ {h}
      BY <1>1, RequestGoes DEF CallbackFirst
    <3> QED BY <1>1, <3>1, RequestGoes DEF At
  <2>4. halfway' \subseteq {g \in Handlers : At(g, "invalidate")'}
    BY <2>1, <2>3 DEF CallbackFirst
  <2> QED BY <2>1, <2>2, <2>4 DEF CallbackFirst, At
<1>2. ASSUME NEW h \in Handlers, InvalidateWithName(h) PROVE CallbackFirst'
  BY <1>2 DEF CallbackFirst, InvalidateWithName, At, vars
<1>3. ASSUME NEW h \in Handlers, InvalidateWithoutName(h) \/ NoCallback(h)
      PROVE  CallbackFirst'
  <2>1. /\ At(h, "invalidate") /\ halfway' \subseteq halfway \ {h}
        /\ callback' = callback
    BY <1>3 DEF CallbackFirst, InvalidateWithoutName, NoCallback, Invalidate
  <2>2. \A g \in Handlers \ {h} : handler'[g] = handler[g]
    BY <1>3 DEF IInv, HandlersSound, InvalidateWithoutName, NoCallback, Invalidate, Goto
  <2>3. callback \/ "crash" \in Faults
    BY <2>1 DEF CallbackFirst, At, Idle
  <2>4. \A g \in halfway' : g \in Handlers /\ At(g, "invalidate")'
    BY <2>1, <2>2 DEF CallbackFirst, At
  <2> QED BY <2>1, <2>3, <2>4 DEF CallbackFirst, At
<1>4. CASE BackgroundStep
  BY <1>4, BackgroundKeeps DEF CallbackFirst, At
<1>5. CASE CacheTick \/ (\E r \in Readers : PageStep(r)) \/ UNCHANGED systemVars
  BY <1>5 DEF CallbackFirst, At, CacheTick, PageStep, systemVars, vars, repoVars
<1>6. CASE GatewayRun
  BY <1>6 DEF CallbackFirst, At, GatewayRun, vars
<1>7. CASE Restart
  BY <1>7 DEF CallbackFirst, Restart, Crash
<1> QED BY <1>1, <1>2, <1>3, <1>4, <1>5, <1>6, <1>7 DEF SystemNext, InvalidateStep

LEMMA ReaderStaysFunction ==
  ASSUME ReaderIsFunction, IInv, [SystemNext]_systemVars
  PROVE  ReaderIsFunction'
<1>1. ASSUME NEW r \in Readers, PageStep(r) PROVE ReaderIsFunction'
  <2>1. \E s : Site!Goto(r, s)
    BY <1>1 DEF PageStep, Site!ReaderStep, Site!Request, Site!cacheGet, Site!cacheGetFails,
                Site!ServeCached, Site!ResolveNothing, Site!Resolve, Site!Render,
                Site!renderPageFails, Site!cacheSet, Site!cacheSetFails, Site!SetPage
  <2>2. PICK s : reader' = [reader EXCEPT ![r] = s]
    BY <2>1 DEF Site!Goto
  <2> QED BY <2>2 DEF ReaderIsFunction
<1>2. CASE Restart
  BY <1>2 DEF Restart, ReaderIsFunction
<1>3. ASSUME NEW h \in Handlers, RequestStep(h) \/ InvalidateStep(h)
      PROVE  reader' = reader
  BY <1>3 DEF RequestStep, InvalidateStep, InvalidateWithName, InvalidateWithoutName,
              NoCallback, SecondDelete, DeleteEntry, siteVars
<1>4. CASE BackgroundStep \/ CacheTick \/ GatewayRun \/ UNCHANGED systemVars
  BY <1>4 DEF BackgroundStep, CacheTick, Site!Tick, GatewayRun, systemVars, siteVars,
              ReaderIsFunction
<1> QED BY <1>1, <1>2, <1>3, <1>4 DEF SystemNext, ReaderIsFunction

LEMMA SystemInvStays ==
  ASSUME SystemInv, [SystemNext]_systemVars
  PROVE  SystemInv'
<1>1. [Next]_vars
  BY SystemInService DEF systemVars
<1> QED BY <1>1, NextInv, TxMatchesStays, TxStaysWhole, UrisStayOwn, CallbackStaysFirst,
           ReaderStaysFunction
        DEF SystemInv

LEMMA SystemInvInit == SystemInit => SystemInv
<1> SUFFICES ASSUME SystemInit PROVE SystemInv
  OBVIOUS
<1>1. Init /\ CallbackFirst /\ ReaderIsFunction
  BY DEF SystemInit, Init, Repo!Init, CallbackFirst, ReaderIsFunction
<1> QED BY <1>1, InitInv, InitUploads, PagesInit
        DEF SystemInv, UploadInv, PagesInv

--------------------------------------------------------------------------------
(* The invalidations under way *)

\* The same as Invalidations, of any handlers of which those in half are halfway.
Call(h, objectId, withName) == [caller |-> h, id |-> <<objectId, withName>>]

InvalidationOf(hs, half, h) == Call(h, hs[h].objectId, h \notin half)

InvalidationsOf(hs, half) ==
  {InvalidationOf(hs, half, h) : h \in {g \in Handlers : hs[g].pc = "invalidate"}}

LEMMA InvalidationsAre ==
  /\ Invalidations = InvalidationsOf(handler, halfway)
  /\ Invalidations' = InvalidationsOf(handler', halfway')
BY DEF Invalidations, InvalidationsOf, InvalidationOf, Call, NextEntry, At

LEMMA InvalidationsStay ==
  ASSUME UNCHANGED halfway,
         \A g \in Handlers : \/ handler'[g] = handler[g]
                             \/ handler'[g].pc # "invalidate" /\ handler[g].pc # "invalidate"
  PROVE  UNCHANGED Invalidations
<1>1. \A g \in Handlers : handler'[g].pc = "invalidate" <=> handler[g].pc = "invalidate"
  OBVIOUS
<1>2. \A g \in Handlers : handler'[g].pc = "invalidate" =>
        InvalidationOf(handler', halfway', g) = InvalidationOf(handler, halfway, g)
  BY DEF InvalidationOf
<1> QED BY <1>1, <1>2, InvalidationsAre DEF InvalidationsOf

\* The invalidations of a step of h differ in that of h only.
LEMMA InvalidationChanges ==
  ASSUME NEW h \in Handlers,
         \A g \in Handlers \ {h} : /\ handler'[g] = handler[g]
                                   /\ g \in halfway' <=> g \in halfway
  PROVE  /\ (handler[h].pc # "invalidate" /\ handler'[h].pc = "invalidate") =>
              /\ Invalidations' =
                   Invalidations \cup {InvalidationOf(handler', halfway', h)}
              /\ \A i \in Invalidations : i.caller # h
         /\ (handler[h].pc = "invalidate" /\ handler'[h].pc = "invalidate") =>
              Invalidations' = (Invalidations \ {InvalidationOf(handler, halfway, h)})
                                 \cup {InvalidationOf(handler', halfway', h)}
         /\ (handler[h].pc = "invalidate" /\ handler'[h].pc # "invalidate") =>
              Invalidations' = Invalidations \ {InvalidationOf(handler, halfway, h)}
         /\ handler[h].pc = "invalidate" =>
              InvalidationOf(handler, halfway, h) \in Invalidations
<1>1. \A g \in Handlers \ {h} :
        InvalidationOf(handler', halfway', g) = InvalidationOf(handler, halfway, g)
  BY DEF InvalidationOf
<1>2. \A g : InvalidationOf(handler, halfway, g).caller = g
  BY DEF InvalidationOf, Call
<1> DEFINE of == {g \in Handlers : handler[g].pc = "invalidate"}
           new == {g \in Handlers : handler'[g].pc = "invalidate"}
<1>3. of \ {h} = new \ {h}
  OBVIOUS
<1>4. /\ Invalidations = {InvalidationOf(handler, halfway, g) : g \in of}
      /\ Invalidations' = {InvalidationOf(handler', halfway', g) : g \in new}
  BY InvalidationsAre DEF InvalidationsOf
<1>5. {InvalidationOf(handler', halfway', g) : g \in new \ {h}}
        = {InvalidationOf(handler, halfway, g) : g \in of \ {h}}
  BY <1>1, <1>3
<1>6. {InvalidationOf(handler, halfway, g) : g \in of \ {h}}
        = Invalidations \ {InvalidationOf(handler, halfway, h)}
  BY <1>2, <1>4
<1>7. Invalidations' \ {InvalidationOf(handler', halfway', h)}
        \subseteq {InvalidationOf(handler', halfway', g) : g \in new \ {h}}
  BY <1>4
<1>8. {InvalidationOf(handler', halfway', g) : g \in new \ {h}} \subseteq Invalidations'
  BY <1>4
<1>9. h \in new <=> handler'[h].pc = "invalidate"
  OBVIOUS
<1>10. h \in new => InvalidationOf(handler', halfway', h) \in Invalidations'
  BY <1>4
<1>11. h \notin new =>
         Invalidations' = {InvalidationOf(handler', halfway', g) : g \in new \ {h}}
  BY <1>4
<1>12. h \notin of => \A i \in Invalidations : i.caller # h
  BY <1>2, <1>4
<1>13. h \in of => InvalidationOf(handler, halfway, h) \in Invalidations
  BY <1>4
<1>14. h \in of <=> handler[h].pc = "invalidate"
  OBVIOUS
<1>15. h \notin of => InvalidationOf(handler, halfway, h) \notin Invalidations
  BY <1>2, <1>12
<1> HIDE DEF of, new
<1> QED BY <1>5, <1>6, <1>7, <1>8, <1>9, <1>10, <1>11, <1>12, <1>13, <1>14, <1>15

--------------------------------------------------------------------------------
(* What a commit shows *)

LEMMA ShownNow ==
  ASSUME IInv
  PROVE  /\ Shown \in [Repo!ObjectIds -> Site!Shows]
         /\ \A d \in objects : d.id \in Repo!ObjectIds /\ Shown[d.id] = d.active
         /\ \A a \in Repo!ObjectIds : a \notin Repo!Ids(objects) =>
              Shown[a] = Repo!NoPublish
         /\ \A a \in Repo!ObjectIds : Shown[a] # Repo!NoPublish =>
              \E d \in objects : d.id = a /\ d.active = Shown[a]
<1>1. /\ objects \subseteq Repo!ObjectDocs
      /\ \A d, e \in objects : d.id = e.id => d = e
  BY RepoTyped DEF IInv, RepoProofs!IInv, RepoProofs!UniqueIds
<1>2. \A d \in objects : d.id \in Repo!ObjectIds
  BY <1>1 DEF Repo!ObjectDocs
<1> QED BY <1>1, <1>2, ShownIs, ShownAre DEF Site!Shows

LEMMA ShownNext ==
  ASSUME IInv, [Next]_vars
  PROVE  /\ Shown' \in [Repo!ObjectIds -> Site!Shows]
         /\ \A e \in objects' : e.id \in Repo!ObjectIds /\ Shown'[e.id] = e.active
         /\ \A a \in Repo!ObjectIds : a \notin Repo!Ids(objects') =>
              Shown'[a] = Repo!NoPublish
         /\ objects' = objects => Shown' = Shown
<1>1. objects' \subseteq Repo!ObjectDocs
  BY TypedNext
<1>2. \A d, e \in objects' : d.id = e.id => d = e
  BY NextInv DEF IInv, RepoProofs!IInv, RepoProofs!UniqueIds
<1>3. \A d \in objects' : d.id \in Repo!ObjectIds
  BY <1>1 DEF Repo!ObjectDocs
<1> QED BY <1>1, <1>2, <1>3, ShownIs, ShownAre DEF Site!Shows

LEMMA FaultsOfSite ==
  /\ "rename" \in SiteFaults <=> CanRename
  /\ "lostInvalidate" \in SiteFaults <=> CanLose
  /\ SiteFaults \subseteq {"chunks", "lostInvalidate", "rename"}
BY CacheFaultsAssumption DEF SiteFaults

\* What the service commits, the gateway sees as a commit.
LEMMA CommitsToSite ==
  ASSUME UNCHANGED siteVars
  PROVE  \A new : Shown' = new => Site!Commit(new)
BY DEF Site!Commit, Site!cacheVars, siteVars

\* What a handler that goes on to invalidateCache, or does not, makes of the
\* invalidations.
LEMMA GoesOn ==
  ASSUME SystemInv, NEW h \in Handlers, ~At(h, "invalidate"), UNCHANGED halfway,
         \A g \in Handlers \ {h} : handler'[g] = handler[g]
  PROVE  /\ \A o \in Repo!ObjectIds :
              Goto(h, [pc |-> "invalidate", objectId |-> o]) => Site!Invalidates(h, o)
         /\ \A s : Goto(h, s) /\ s.pc # "invalidate" => UNCHANGED Invalidations
<1>1. h \notin halfway /\ handler[h].pc # "invalidate"
  BY DEF SystemInv, CallbackFirst, At
<1>2. \A s : Goto(h, s) => handler'[h] = s
  BY DEF SystemInv, IInv, HandlersSound, Goto
<1>3. ASSUME NEW o \in Repo!ObjectIds, Goto(h, [pc |-> "invalidate", objectId |-> o])
      PROVE  Site!Invalidates(h, o)
  <2>1. handler'[h] = [pc |-> "invalidate", objectId |-> o]
    BY <1>2, <1>3
  <2>2. /\ Invalidations' =
             Invalidations \cup {InvalidationOf(handler', halfway', h)}
        /\ \A i \in Invalidations : i.caller # h
    BY <1>1, <2>1, InvalidationChanges
  <2>3. (h \notin halfway') = TRUE /\ handler'[h].objectId = o
    BY <1>1, <2>1
  <2> QED BY <2>2, <2>3 DEF Site!Invalidates, Site!newCacheId, InvalidationOf, Call
<1>4. ASSUME NEW s, Goto(h, s), s.pc # "invalidate"
      PROVE  UNCHANGED Invalidations
  BY <1>1, <1>2, <1>4, InvalidationsStay
<1> QED BY <1>3, <1>4

--------------------------------------------------------------------------------
(* Each step of the server is one of Gateway *)

LEMMA PublishToSite ==
  ASSUME SystemInv, [Next]_vars, NEW h \in Handlers, RequestStep(h), PublishEnd(h)
  PROVE  [Site!Next]_(Site!vars)
<1> DEFINE req == tx[h].req
           wanted == Repo!ObjectId(req.sharing, req.uri)
<1>0. IInv /\ RepoProofs!IInv
  BY DEF SystemInv, IInv
<1>1. /\ ~At(h, "invalidate") /\ UNCHANGED <<siteVars, callback, halfway>>
      /\ \A g \in Handlers \ {h} : handler'[g] = handler[g]
  BY <1>0, RequestGoes
<1>2. /\ \A o \in Repo!ObjectIds :
           Goto(h, [pc |-> "invalidate", objectId |-> o]) => Site!Invalidates(h, o)
      /\ \A s : Goto(h, s) /\ s.pc # "invalidate" => UNCHANGED Invalidations
  BY <1>1, GoesOn
<1>3. \A new : Shown' = new => Site!Commit(new)
  BY <1>1, CommitsToSite
<1>4. RepoProofs!ObjectCreate(h) /\ Repo!InTx(h, "ObjectCreate")
  BY SameTransactions DEF PublishEnd, Repo!ObjectCreate
<1>5. \/ objects' = objects
      \/ /\ wanted \notin Repo!Ids(objects)
         /\ objects' = objects \cup {RepoProofs!NewObject(req.sharing, req.uri, lastId + 1)}
      \/ /\ wanted \notin Repo!Ids(objects)
         /\ \E d \in objects :
              /\ d.sharing = req.sharing /\ d.id # wanted
              /\ objects' = (objects \ {d}) \cup {RepoProofs!Moved(d, wanted)}
  BY <1>0, <1>4, SameIds, MaxPublishesAssumption, RepoProofs!CreateObjects
<1>6. \/ \E d \in objects :
           HasPrevUri(d) /\ Goto(h, [pc |-> "invalidate", objectId |-> d.id])
      \/ /\ ~(\E d \in objects : HasPrevUri(d)) \/ "lostReply" \in Faults
         /\ UNCHANGED Invalidations
  <2>1. Idle.pc # "invalidate"
    BY DEF Idle
  <2> QED BY <1>2, <2>1 DEF PublishEnd
\* Nothing moves: a page that is new shows nothing yet.
<1>7. ASSUME Shown' = Shown, \A d \in objects : ~HasPrevUri(d)
      PROVE  UNCHANGED Site!vars
  BY <1>1, <1>6, <1>7 DEF Site!vars, siteVars
<1>8. CASE objects' = objects
  <2>1. \A d \in objects : ~HasPrevUri(d)
    BY <1>8 DEF HasPrevUri, Repo!Removed, Repo!Ids
  <2> QED BY <1>0, <1>7, <1>8, <2>1, ShownNext
<1>9. CASE /\ wanted \notin Repo!Ids(objects)
           /\ objects' = objects \cup {RepoProofs!NewObject(req.sharing, req.uri, lastId + 1)}
  <2> DEFINE new == RepoProofs!NewObject(req.sharing, req.uri, lastId + 1)
  <2>1. new.id = wanted /\ new.active = Repo!NoPublish
    BY SameIds DEF RepoProofs!NewObject
  <2>2. \A d \in objects : ~HasPrevUri(d)
    BY <1>9 DEF HasPrevUri, Repo!Removed, Repo!Ids
  <2>3. \A a \in Repo!ObjectIds : Shown'[a] = Shown[a]
    <3> SUFFICES ASSUME NEW a \in Repo!ObjectIds PROVE Shown'[a] = Shown[a]
      OBVIOUS
    <3>1. CASE \E d \in objects : d.id = a
      BY <1>0, <1>9, <3>1, ShownNow, ShownNext
    <3>2. CASE a = wanted
      BY <1>0, <1>9, <2>1, <3>2, ShownNow, ShownNext
    <3>3. CASE a # wanted /\ ~ \E d \in objects : d.id = a
      <4>1. a \notin Repo!Ids(objects) /\ a \notin Repo!Ids(objects')
        BY <1>9, <2>1, <3>3 DEF Repo!Ids
      <4> QED BY <1>0, <4>1, ShownNow, ShownNext
    <3> QED BY <3>1, <3>2, <3>3
  <2>4. Shown' = Shown
    BY <1>0, <2>3, ShownNow, ShownNext
  <2> QED BY <1>7, <2>2, <2>4
<1>10. ASSUME wanted \notin Repo!Ids(objects), NEW d \in objects, d.sharing = req.sharing,
              d.id # wanted, objects' = (objects \ {d}) \cup {RepoProofs!Moved(d, wanted)}
       PROVE  [Site!Next]_(Site!vars)
  <2> DEFINE moved == RepoProofs!Moved(d, wanted)
  <2>1. moved.id = wanted /\ moved.active = d.active /\ d.id \in Repo!ObjectIds
    BY <1>0, RepoTyped DEF RepoProofs!Moved, Repo!ObjectDocs
  <2>2. wanted \in Repo!ObjectIds
    BY <1>0, <1>10, <2>1, ShownNext
  <2>3. \A c \in objects : c.id = d.id => c = d
    BY <1>0 DEF RepoProofs!IInv, RepoProofs!UniqueIds
  <2>4. d.id \notin Repo!Ids(objects')
    BY <1>10, <2>1, <2>3 DEF Repo!Ids
  <2>5. \A a \in Repo!ObjectIds :
          Shown'[a] = IF a = wanted THEN Shown[d.id]
                      ELSE IF a = d.id THEN Repo!NoPublish ELSE Shown[a]
    <3> SUFFICES ASSUME NEW a \in Repo!ObjectIds
                 PROVE  Shown'[a] = IF a = wanted THEN Shown[d.id]
                                    ELSE IF a = d.id THEN Repo!NoPublish ELSE Shown[a]
      OBVIOUS
    <3>1. CASE a = wanted
      BY <1>0, <1>10, <2>1, <3>1, ShownNow, ShownNext
    <3>2. CASE a = d.id
      BY <1>0, <1>10, <2>4, <3>2, ShownNext
    <3>3. CASE a # wanted /\ a # d.id /\ \E c \in objects : c.id = a
      BY <1>0, <1>10, <3>3, ShownNow, ShownNext
    <3>4. CASE a # wanted /\ a # d.id /\ ~ \E c \in objects : c.id = a
      <4>1. a \notin Repo!Ids(objects) /\ a \notin Repo!Ids(objects')
        BY <1>10, <2>1, <3>4 DEF Repo!Ids
      <4> QED BY <1>0, <3>4, <4>1, ShownNow, ShownNext
    <3> QED BY <3>1, <3>2, <3>3, <3>4
  <2>6. Shown' = [Shown EXCEPT ![d.id] = Repo!NoPublish, ![wanted] = Shown[d.id]]
    BY <1>0, <1>10, <2>1, <2>2, <2>5, ShownNow, ShownNext
  <2>7. CanRename /\ d.id[2] \in Uris
    <3>1. /\ d.id[1] = d.sharing[1] /\ d.id[2] \in UrisOf[d.sharing[2]]
          /\ req.uri \in UrisOf[d.sharing[2]]
      BY <1>4, <1>10 DEF SystemInv, UrisOwn
    <3>2. d.id \in Identities \X Uris /\ d.sharing \in Identities \X Pages
      BY <1>0, RepoTyped DEF Repo!ObjectDocs, Repo!ObjectIds, Repo!Sharings
    <3>3. d.id = <<d.id[1], d.id[2]>>
      BY <3>2
    <3>4. d.id[2] # req.uri
      BY <1>10, <3>1, <3>3 DEF Repo!ObjectId
    <3> QED BY <3>1, <3>2, <3>4 DEF CanRename
  <2>8. CASE \E c \in objects :
               HasPrevUri(c) /\ Goto(h, [pc |-> "invalidate", objectId |-> c.id])
    <3>1. PICK c \in objects :
                 HasPrevUri(c) /\ Goto(h, [pc |-> "invalidate", objectId |-> c.id])
      BY <2>8
    <3>2. c = d
      BY <1>10, <3>1 DEF HasPrevUri, Repo!Removed, Repo!Ids
    <3>3. Site!Rename(h, d.id, wanted)
      <4>1. Shown[wanted] = Repo!NoPublish
        BY <1>0, <1>10, <2>2, ShownNow
      <4>2. Site!Commit([Shown EXCEPT ![d.id] = Repo!NoPublish, ![wanted] = Shown[d.id]])
        BY <1>3, <2>6
      <4> QED BY <1>2, <2>1, <2>7, <3>1, <3>2, <4>1, <4>2, FaultsOfSite DEF Site!Rename
    <3> QED BY <1>10, <2>1, <2>2, <3>3 DEF Site!Next, Site!ServiceStep, Site!CallerStep
  <2>9. CASE /\ ~(\E c \in objects : HasPrevUri(c)) \/ "lostReply" \in Faults
             /\ UNCHANGED Invalidations
    <3>1. CanLose
      <4>1. CASE "lostReply" \in Faults
        BY <4>1 DEF CanLose
      <4>2. CASE ~ \E c \in objects : HasPrevUri(c)
        BY <2>4, <2>7, <4>2 DEF CanLose, HasPrevUri, Repo!Removed
      <4> QED BY <2>9, <4>1, <4>2
    <3>2. Site!UnknownCommit
      <4>1. \E new \in [Repo!ObjectIds -> Site!Shows] : Shown' = new
        BY <1>0, ShownNext
      <4> QED BY <1>3, <2>9, <3>1, <4>1, FaultsOfSite DEF Site!UnknownCommit
    <3> QED BY <3>2 DEF Site!Next, Site!ServiceStep
  <2> QED BY <1>6, <2>8, <2>9
<1> QED BY <1>5, <1>8, <1>9, <1>10

\* A commit that changes what one address shows.
LEMMA OneChanges ==
  ASSUME IInv, [Next]_vars, NEW a \in Repo!ObjectIds,
         \A b \in Repo!ObjectIds \ {a} : Shown'[b] = Shown[b]
  PROVE  /\ Shown'[a] \in Site!Shows
         /\ Shown' = [Shown EXCEPT ![a] = Shown'[a]]
BY ShownNow, ShownNext

LEMMA UnPublishToSite ==
  ASSUME SystemInv, [Next]_vars, NEW h \in Handlers, RequestStep(h), UnPublishEnd(h)
  PROVE  Site!Next
<1>0. IInv /\ RepoProofs!IInv
  BY DEF SystemInv, IInv
<1>1. /\ ~At(h, "invalidate") /\ UNCHANGED <<siteVars, callback, halfway>>
      /\ \A g \in Handlers \ {h} : handler'[g] = handler[g]
  BY <1>0, RequestGoes
<1>2. /\ \A o \in Repo!ObjectIds :
           Goto(h, [pc |-> "invalidate", objectId |-> o]) => Site!Invalidates(h, o)
      /\ \A s : Goto(h, s) /\ s.pc # "invalidate" => UNCHANGED Invalidations
  BY <1>1, GoesOn
<1>3. \A new : Shown' = new => Site!Commit(new)
  BY <1>1, CommitsToSite
<1>4. PICK d \in objects : objects' = objects \ {d}
  <2>1. RepoProofs!ObjectDelete(h)
    BY SameTransactions DEF UnPublishEnd
  <2> QED BY <1>0, <2>1, MaxPublishesAssumption, RepoProofs!DeleteObjects
<1>5. d.id \in Repo!ObjectIds /\ \A c \in objects : c.id = d.id => c = d
  BY <1>0, ShownNow DEF RepoProofs!IInv, RepoProofs!UniqueIds
<1>6. ASSUME NEW a \in Repo!ObjectIds \ {d.id} PROVE Shown'[a] = Shown[a]
  <2>1. CASE \E c \in objects : c.id = a
    BY <1>0, <1>4, <2>1, ShownNow, ShownNext
  <2>2. CASE ~ \E c \in objects : c.id = a
    <3>1. a \notin Repo!Ids(objects) /\ a \notin Repo!Ids(objects')
      BY <1>4, <2>2 DEF Repo!Ids
    <3> QED BY <1>0, <3>1, ShownNow, ShownNext
  <2> QED BY <2>1, <2>2
<1>7. \/ \E c \in objects :
           Repo!Removed(c) /\ Goto(h, [pc |-> "invalidate", objectId |-> c.id])
      \/ "lostReply" \in Faults /\ Goto(h, Idle)
  BY DEF UnPublishEnd
<1>8. CASE \E c \in objects :
             Repo!Removed(c) /\ Goto(h, [pc |-> "invalidate", objectId |-> c.id])
  <2>1. PICK c \in objects :
             Repo!Removed(c) /\ Goto(h, [pc |-> "invalidate", objectId |-> c.id])
    BY <1>8
  <2>2. c = d
    BY <1>4, <2>1 DEF Repo!Removed, Repo!Ids
  <2>3. Site!Change(h, d.id)
    <3>1. \E p \in Site!Shows : Shown' = [Shown EXCEPT ![d.id] = p]
      BY <1>0, <1>5, <1>6, OneChanges
    <3> QED BY <1>2, <1>3, <1>5, <2>1, <2>2, <3>1 DEF Site!Change
  <2> QED BY <1>5, <2>3 DEF Site!Next, Site!ServiceStep, Site!CallerStep
<1>9. CASE "lostReply" \in Faults /\ Goto(h, Idle)
  <2>1. CanLose /\ UNCHANGED Invalidations
    BY <1>2, <1>9 DEF CanLose, Idle
  <2>2. \E new \in [Repo!ObjectIds -> Site!Shows] : Shown' = new
    BY <1>0, ShownNext
  <2>3. Site!UnknownCommit
    BY <1>3, <2>1, <2>2, FaultsOfSite DEF Site!UnknownCommit
  <2> QED BY <2>3 DEF Site!Next, Site!ServiceStep
<1> QED BY <1>7, <1>8, <1>9

LEMMA FinalizeToSite ==
  ASSUME SystemInv, [Next]_vars, NEW h \in Handlers, RequestStep(h), FinalizeEnd(h)
  PROVE  Site!Next
<1> DEFINE o == handler[h].objectId
<1>0. IInv /\ RepoProofs!IInv /\ TxMatches
  BY DEF SystemInv, IInv
<1>1. /\ ~At(h, "invalidate") /\ UNCHANGED <<siteVars, callback, halfway>>
      /\ \A g \in Handlers \ {h} : handler'[g] = handler[g]
  BY <1>0, RequestGoes
<1>2. /\ \A a \in Repo!ObjectIds :
           Goto(h, [pc |-> "invalidate", objectId |-> a]) => Site!Invalidates(h, a)
      /\ \A s : Goto(h, s) /\ s.pc # "invalidate" => UNCHANGED Invalidations
  BY <1>1, GoesOn
<1>3. \A new : Shown' = new => Site!Commit(new)
  BY <1>1, CommitsToSite
<1>4. /\ RepoProofs!FinalizePublish(h)
      /\ tx[h].req.objectId = o /\ o \in Repo!ObjectIds
  <2>1. At(h, "finalize") /\ Repo!InTx(h, "FinalizePublish") /\ RepoProofs!FinalizePublish(h)
    BY <1>0, Finalizing
  <2> QED BY <1>0, <2>1, StatesOf DEF SystemInv, TxWhole, IInv
<1>5. \/ objects' = objects
      \/ \E d \in objects : /\ d.id = o
                            /\ objects' = (objects \ {d}) \cup {[d EXCEPT !.active = tx[h].req.id]}
  BY <1>0, <1>4, MaxPublishesAssumption, RepoProofs!FinalizeObjects
<1>6. ASSUME NEW a \in Repo!ObjectIds \ {o} PROVE Shown'[a] = Shown[a]
  <2>1. CASE objects' = objects
    BY <1>0, <2>1, ShownNext
  <2>2. ASSUME NEW d \in objects, d.id = o,
               objects' = (objects \ {d}) \cup {[d EXCEPT !.active = tx[h].req.id]}
        PROVE  Shown'[a] = Shown[a]
    <3>1. [d EXCEPT !.active = tx[h].req.id].id = o
      BY <1>0, <2>2, RepoTyped DEF Repo!ObjectDocs
    <3>2. CASE \E c \in objects : c.id = a
      BY <1>0, <2>2, <3>2, ShownNow, ShownNext
    <3>3. CASE ~ \E c \in objects : c.id = a
      <4>1. a \notin Repo!Ids(objects) /\ a \notin Repo!Ids(objects')
        BY <2>2, <3>1, <3>3 DEF Repo!Ids
      <4> QED BY <1>0, <4>1, ShownNow, ShownNext
    <3> QED BY <3>2, <3>3
  <2> QED BY <1>5, <2>1, <2>2
<1>7. CASE Goto(h, [pc |-> "invalidate", objectId |-> o])
  <2>1. Site!Change(h, o)
    <3>1. \E p \in Site!Shows : Shown' = [Shown EXCEPT ![o] = p]
      BY <1>0, <1>4, <1>6, OneChanges
    <3> QED BY <1>2, <1>3, <1>4, <1>7, <3>1 DEF Site!Change
  <2> QED BY <1>4, <2>1 DEF Site!Next, Site!ServiceStep, Site!CallerStep
<1>8. CASE "lostReply" \in Faults /\ Goto(h, Failed(h))
  <2>1. CanLose /\ UNCHANGED Invalidations
    BY <1>2, <1>8 DEF CanLose, Failed
  <2>2. \E new \in [Repo!ObjectIds -> Site!Shows] : Shown' = new
    BY <1>0, ShownNext
  <2>3. Site!UnknownCommit
    BY <1>3, <2>1, <2>2, FaultsOfSite DEF Site!UnknownCommit
  <2> QED BY <2>3 DEF Site!Next, Site!ServiceStep
<1> QED BY <1>7, <1>8 DEF FinalizeEnd

\* After the entry with a name comes the one without.
LEMMA RestOf ==
  ASSUME NEW h, NEW o
  PROVE  /\ Site!Rest(Call(h, o, TRUE)) = {Call(h, o, FALSE)}
         /\ Site!Rest(Call(h, o, FALSE)) = {}
<1> DEFINE i == [caller |-> h, id |-> <<o, TRUE>>]
<1>1. i.id = <<o, TRUE>>
  OBVIOUS
<1>2. i.id[1] = o /\ i.id[2] = TRUE
  BY <1>1
<1>3. \A c, v, w : [[caller |-> c, id |-> v] EXCEPT !.id = w] = [caller |-> c, id |-> w]
  OBVIOUS
<1>4. Site!Rest(i) = {[i EXCEPT !.id = <<o, FALSE>>]}
  BY <1>2 DEF Site!Rest, Site!WithName, Site!Address, Site!newCacheId
<1>5. Site!Rest(Call(h, o, FALSE)) = {}
  BY DEF Site!Rest, Site!WithName, Call
<1> QED BY <1>3, <1>4, <1>5 DEF Call

\* The deletes of invalidateCache, of which each may fail.
LEMMA InvalidateToSite ==
  ASSUME SystemInv, [Next]_vars, NEW h \in Handlers,
         InvalidateWithName(h) \/ InvalidateWithoutName(h)
  PROVE  \E i \in Invalidations : Site!InvalidationStep(i)
<1> DEFINE i == InvalidationOf(handler, halfway, h)
<1>0. IInv /\ CallbackFirst
  BY DEF SystemInv
<1>1. /\ handler[h].pc = "invalidate" /\ DeleteEntry(h) /\ objects' = objects
      /\ \A g \in Handlers \ {h} : /\ handler'[g] = handler[g]
                                   /\ g \in halfway' <=> g \in halfway
  BY <1>0 DEF At, CallbackFirst, IInv, HandlersSound, InvalidateWithName, InvalidateWithoutName,
              SecondDelete, Invalidate, Goto, vars, repoVars
<1>2. i \in Invalidations /\ i.id = NextEntry(h)
  <2>1. i \in Invalidations
    BY <1>1, InvalidationChanges
  <2>2. i.id = NextEntry(h)
    BY DEF InvalidationOf, Call, NextEntry
  <2> QED BY <2>1, <2>2
<1>3. Invalidations' = (Invalidations \ {i}) \cup Site!Rest(i)
  <2>1. CASE InvalidateWithName(h)
    <3>1. /\ handler' = handler /\ h \in halfway' /\ (h \notin halfway) = TRUE
          /\ handler'[h].pc = "invalidate"
      BY <1>1, <2>1 DEF InvalidateWithName, vars, At
    <3>2. Invalidations' = (Invalidations \ {i}) \cup {InvalidationOf(handler', halfway', h)}
      BY <1>1, <3>1, InvalidationChanges
    <3>3. InvalidationOf(handler', halfway', h) = Call(h, handler[h].objectId, FALSE)
      <4>1. (h \notin halfway') = FALSE
        BY <3>1
      <4> QED BY <3>1, <4>1 DEF InvalidationOf
    <3>4. i = Call(h, handler[h].objectId, TRUE)
      BY <3>1 DEF InvalidationOf
    <3>5. Site!Rest(i) = {Call(h, handler[h].objectId, FALSE)}
      BY <3>4, RestOf
    <3> QED BY <3>2, <3>3, <3>5
  <2>2. CASE InvalidateWithoutName(h)
    <3>1. handler'[h].pc # "invalidate" /\ (h \notin halfway) = FALSE
      BY <1>0, <1>1, <2>2 DEF InvalidateWithoutName, Invalidate, Idle, Goto, IInv, HandlersSound
    <3>2. Invalidations' = Invalidations \ {i}
      BY <1>1, <3>1, InvalidationChanges
    <3>3. Site!Rest(i) = {}
      BY <3>1 DEF InvalidationOf, Call, Site!Rest, Site!WithName
    <3> QED BY <3>2, <3>3
  <2> QED BY <2>1, <2>2
<1>4. UNCHANGED <<Shown, reader>>
  BY <1>0, <1>1, ShownNext DEF DeleteEntry
<1> HIDE DEF i
<1>5. CASE Site!Del(NextEntry(h))
  <2>1. Site!invalidateCache(i)
    BY <1>2, <1>3, <1>4, <1>5 DEF Site!invalidateCache
  <2> QED BY <1>2, <2>1 DEF Site!InvalidationStep
<1>6. CASE "redis" \in CacheFaults /\ UNCHANGED <<entries, ttl>>
  <2>1. Site!invalidateFails(i)
    BY <1>2, <1>3, <1>4, <1>6, FaultsOfSite DEF Site!invalidateFails, CanLose, Site!cacheVars
  <2> QED BY <1>2, <2>1 DEF Site!InvalidationStep
<1> QED BY <1>1, <1>5, <1>6 DEF DeleteEntry

\* Before there is a callback, what should be invalidated is not.
LEMMA NoCallbackToSite ==
  ASSUME SystemInv, [Next]_vars, NEW h \in Handlers, NoCallback(h)
  PROVE  Site!Next
<1>0. IInv /\ CallbackFirst
  BY DEF SystemInv
<1>1. /\ handler[h].pc = "invalidate" /\ handler'[h].pc # "invalidate"
      /\ objects' = objects /\ UNCHANGED siteVars
      /\ \A g \in Handlers \ {h} : /\ handler'[g] = handler[g]
                                   /\ g \in halfway' <=> g \in halfway
  BY <1>0 DEF NoCallback, Invalidate, At, Goto, Idle, IInv, HandlersSound, repoVars
<1>2. Invalidations' \subseteq Invalidations
  BY <1>1, InvalidationChanges
<1>3. CanLose
  BY <1>1 DEF NoCallback, CallbackFirst, SystemInv, Idle, CanLose
<1>4. reader' = [r \in Readers |-> IF r \in {} THEN Site!Idle ELSE reader[r]]
  BY <1>1 DEF SystemInv, ReaderIsFunction, siteVars
<1>5. {} \in SUBSET Readers /\ Shown' = Shown
  BY <1>0, <1>1, ShownNext
<1>6. Site!ServerStops
  BY <1>1, <1>2, <1>3, <1>4, <1>5, FaultsOfSite DEF Site!ServerStops, Site!cacheVars, siteVars
<1> QED BY <1>6 DEF Site!Next, Site!ServiceStep

\* A restart takes the requests for pages with it, too.
LEMMA RestartToSite ==
  ASSUME SystemInv, [Next]_vars, Restart
  PROVE  Site!Next
<1>1. objects' = objects /\ "crash" \in Faults /\ UNCHANGED <<entries, ttl>>
  BY DEF Restart, Crash, Repo!Abort, repoVars
<1>2. Shown' = Shown /\ CanLose
  BY <1>1, ShownNext DEF SystemInv, CanLose
<1>3. Invalidations' = {}
  BY InvalidationsAre DEF InvalidationsOf, Restart, Crash, Idle
<1>4. Readers \in SUBSET Readers
      /\ reader' = [r \in Readers |-> IF r \in Readers THEN Site!Idle ELSE reader[r]]
  BY DEF Restart
<1>5. Site!ServerStops
  BY <1>1, <1>2, <1>3, <1>4, FaultsOfSite DEF Site!ServerStops, Site!cacheVars
<1> QED BY <1>5 DEF Site!Next, Site!ServiceStep

\* What is neither a commit nor an invalidation does not concern the gateway.
LEMMA OthersToSite ==
  ASSUME SystemInv, [Next]_vars
  PROVE  /\ \A h \in Handlers :
              RequestStep(h) /\ (RpcRequest(h) \/ RequestFails(h) \/ UploadStep(h))
                => UNCHANGED Site!vars
         /\ BackgroundStep \/ GatewayRun \/ UNCHANGED systemVars => UNCHANGED Site!vars
         /\ CacheTick => Site!Next
         /\ \A r \in Readers : PageStep(r) => Site!Next
<1>0. IInv
  BY DEF SystemInv
<1>1. ASSUME NEW h \in Handlers, RequestStep(h),
             RpcRequest(h) \/ RequestFails(h) \/ UploadStep(h)
      PROVE  UNCHANGED Site!vars
  <2>1. /\ ~At(h, "invalidate") /\ UNCHANGED <<siteVars, callback, halfway>>
        /\ \A g \in Handlers \ {h} : handler'[g] = handler[g]
    BY <1>0, <1>1, RequestGoes
  <2>2. objects' = objects
    BY <1>1 DEF RpcRequest, Publish, UnPublish, RequestFails, UploadStep, GetPublish,
                GetObject, PutFile, UploadFails, Finalize, FinalizeFails, ListFiles,
                DeleteFiles, Repo!Begin, Repo!Abort, repoVars
  <2>3. \E s : Goto(h, s) /\ s.pc # "invalidate"
    <3> DEFINE Other(s) == s.pc # "invalidate"
    <3>1. /\ Other(Idle) /\ Other([pc |-> "create"]) /\ Other([pc |-> "unpublish"])
          /\ \A v, w : Other([pc |-> "getObject", id |-> v, objectId |-> w])
          /\ \A v : Other([pc |-> "list", id |-> v])
          /\ \A v, w : Other([pc |-> "delete", id |-> v, keys |-> w])
          /\ \A v, w, n : Other([pc |-> "put", id |-> v, objectId |-> w, prev |-> n,
                                done |-> {}])
      BY DEF Idle
    <3>2. ASSUME PutFile(h) \/ Finalize(h)
          PROVE  /\ Other([handler[h] EXCEPT !.pc = "finalize"])
                 /\ \A f : Other([handler[h] EXCEPT !.done = @ \cup {f}])
      <4>1. At(h, "put") /\ handler[h] \in [pc : {"put", "finalize"}, id : Repo!PublishIds,
                                            objectId : Repo!ObjectIds, prev : 0..MaxPublishes,
                                            done : SUBSET Files]
        BY <1>0, <3>2, StatesOf DEF PutFile, Finalize, IInv
      <4> QED BY <4>1 DEF At
    <3> HIDE DEF Other
    <3>3. \E s : Goto(h, s) /\ Other(s)
      <4>1. CASE PutFile(h) \/ Finalize(h)
        BY <3>2, <4>1 DEF PutFile, Finalize
      <4>2. CASE GetObject(h)
        <5>1. \/ Goto(h, Idle)
              \/ \E d : Goto(h, [pc |-> "put", id |-> handler[h].id, objectId |-> d.id,
                                 prev |-> d.active, done |-> {}])
          BY <4>2 DEF GetObject
        <5> QED BY <3>1, <5>1
      <4>3. CASE \/ RpcRequest(h) \/ RequestFails(h) \/ GetPublish(h) \/ UploadFails(h)
                 \/ FinalizeFails(h) \/ ListFiles(h) \/ DeleteFiles(h)
        <5>1. \/ Goto(h, Idle) \/ Goto(h, [pc |-> "create"]) \/ Goto(h, [pc |-> "unpublish"])
              \/ \E p : Goto(h, [pc |-> "getObject", id |-> p.id, objectId |-> p.objectId])
              \/ Goto(h, [pc |-> "list", id |-> handler[h].id])
              \/ \E keys : Goto(h, [pc |-> "delete", id |-> handler[h].id, keys |-> keys])
          BY <4>3 DEF RpcRequest, Publish, UnPublish, RequestFails, GetPublish, UploadFails,
                      FinalizeFails, ListFiles, DeleteFiles, Failed
        <5> QED BY <3>1, <5>1
      <4> QED BY <1>1, <4>1, <4>2, <4>3 DEF UploadStep
    <3> QED BY <3>3 DEF Other
  <2>4. UNCHANGED Invalidations
    BY <2>1, <2>3, GoesOn
  <2> QED BY <1>0, <2>1, <2>2, <2>4, ShownNext DEF Site!vars, siteVars
<1>2. ASSUME UNCHANGED <<handler, objects, siteVars, halfway>>
      PROVE  UNCHANGED Site!vars
  BY <1>0, <1>2, InvalidationsStay, ShownNext DEF Site!vars, siteVars
<1>3. BackgroundStep \/ GatewayRun \/ UNCHANGED systemVars => UNCHANGED Site!vars
  BY <1>0, <1>2, BackgroundKeeps DEF GatewayRun, systemVars, vars, repoVars
<1>4. CacheTick => Site!Next
  BY DEF CacheTick, Site!Next
<1>5. \A r \in Readers : PageStep(r) => Site!Next
  BY DEF PageStep, Site!Next
<1> QED BY <1>1, <1>3, <1>4, <1>5

LEMMA SystemToSite ==
  ASSUME SystemInv, [SystemNext]_systemVars
  PROVE  [Site!Next]_(Site!vars)
<1>0. [Next]_vars
  BY SystemInService DEF systemVars
<1>1. ASSUME NEW h \in Handlers, RequestStep(h)
      PROVE  [Site!Next]_(Site!vars)
  <2>1. CASE CommitStep(h)
    BY <1>0, <1>1, <2>1, PublishToSite, UnPublishToSite, FinalizeToSite DEF CommitStep
  <2>2. CASE RpcRequest(h) \/ RequestFails(h) \/ UploadStep(h)
    BY <1>0, <1>1, <2>2, OthersToSite
  <2> QED BY <1>1, <2>1, <2>2 DEF RequestStep
<1>2. ASSUME NEW h \in Handlers, InvalidateStep(h)
      PROVE  [Site!Next]_(Site!vars)
  <2>1. CASE InvalidateWithName(h) \/ InvalidateWithoutName(h)
    BY <1>0, <2>1, InvalidateToSite DEF Site!Next, Site!ServiceStep
  <2>2. CASE NoCallback(h)
    BY <1>0, <2>2, NoCallbackToSite
  <2> QED BY <1>2, <2>1, <2>2 DEF InvalidateStep
<1>3. CASE Restart
  BY <1>0, <1>3, RestartToSite
<1>4. CASE \/ BackgroundStep \/ CacheTick \/ GatewayRun \/ UNCHANGED systemVars
           \/ \E r \in Readers : PageStep(r)
  BY <1>0, <1>4, OthersToSite
<1> QED BY <1>1, <1>2, <1>3, <1>4 DEF SystemNext

LEMMA InitToSite == SystemInit => Site!Init
<1> SUFFICES ASSUME SystemInit PROVE Site!Init
  OBVIOUS
<1>1. Init /\ objects = {} /\ handler = [h \in Handlers |-> Idle]
  BY DEF SystemInit, Init, Repo!Init
<1>2. Shown = [a \in Repo!ObjectIds |-> Repo!NoPublish]
  BY <1>1 DEF Shown, Showing
<1>3. Invalidations = {}
  BY <1>1 DEF Invalidations, At, Idle
<1> QED BY <1>2, <1>3 DEF SystemInit, Site!Init

--------------------------------------------------------------------------------
(* The theorems *)

\* What service and gateway do together, with commits whose outcome is not known, callbacks
\* that are not there yet and restarts among it, is what Gateway says may happen: what
\* GatewayProofs shows of a cache under these faults holds of the server
\* (service.go:99-118, 151-164 and 199-205; gateway.go:293-307; server.go:109-130).
THEOREM ImplementsGateway == SystemSpec => SiteSpec
<1>1. SystemInv /\ [SystemNext]_systemVars => SystemInv'
  BY SystemInvStays
<1>2. SystemInv /\ [SystemNext]_systemVars => [Site!Next]_(Site!vars)
  BY SystemToSite
<1> QED BY <1>1, <1>2, SystemInvInit, InitToSite, PTL DEF SystemSpec, SiteSpec, Site!Spec

--------------------------------------------------------------------------------
(* What is shown of Gateway holds of the site *)

LEMMA SameTick == Site!Tick <=> SiteProofs!Tick
BY DEF Site!CacheIds, SiteProofs!CacheIds, Site!Older, SiteProofs!Older, Site!Expired,
       SiteProofs!Expired, Site!Nothing, SiteProofs!Nothing, Site!Blank, SiteProofs!Blank,
       Site!Merge, SiteProofs!Merge, Site!FieldNames, SiteProofs!FieldNames, Site!Fields,
       SiteProofs!Fields, Site!Tick, SiteProofs!Tick

LEMMA SameReaderStep == \A r : Site!ReaderStep(r) <=> SiteProofs!ReaderStep(r)
BY DEF Site!Shows, SiteProofs!Shows, Site!CacheIds, SiteProofs!CacheIds, Site!newCacheId,
       SiteProofs!newCacheId, Site!Address, SiteProofs!Address, Site!WithName,
       SiteProofs!WithName, Site!Blank, SiteProofs!Blank, Site!NotFoundPage,
       SiteProofs!NotFoundPage, Site!RenderedPage, SiteProofs!RenderedPage, Site!Fields,
       SiteProofs!Fields, Site!FieldNames, SiteProofs!FieldNames, Site!Part,
       SiteProofs!Part, Site!PartEnds, SiteProofs!PartEnds, Site!Merge, SiteProofs!Merge,
       Site!All, SiteProofs!All, Site!Nothing, SiteProofs!Nothing, Site!Absent,
       SiteProofs!Absent, Site!Idle, SiteProofs!Idle, Site!At, SiteProofs!At, Site!Goto,
       SiteProofs!Goto, Site!cacheVars, SiteProofs!cacheVars, Site!Request,
       SiteProofs!Request, Site!cacheGet, SiteProofs!cacheGet, Site!cacheGetFails,
       SiteProofs!cacheGetFails, Site!Usable, SiteProofs!Usable, Site!Looked,
       SiteProofs!Looked, Site!Missed, SiteProofs!Missed, Site!ServeCached,
       SiteProofs!ServeCached, Site!SetPage, SiteProofs!SetPage, Site!ResolveNothing,
       SiteProofs!ResolveNothing, Site!Resolve, SiteProofs!Resolve, Site!Render,
       SiteProofs!Render, Site!renderPageFails, SiteProofs!renderPageFails, Site!cacheSet,
       SiteProofs!cacheSet, Site!cacheSetFails, SiteProofs!cacheSetFails, Site!ReaderStep,
       SiteProofs!ReaderStep, Site!Hit, SiteProofs!Hit

LEMMA SameServiceStep == Site!ServiceStep <=> SiteProofs!ServiceStep
BY DEF Site!Shows, SiteProofs!Shows, Site!Address,
       SiteProofs!Address, Site!WithName, SiteProofs!WithName, Site!newCacheId,
       SiteProofs!newCacheId, Site!cacheVars, SiteProofs!cacheVars, Site!Commit,
       SiteProofs!Commit, Site!Invalidates, SiteProofs!Invalidates, Site!Change,
       SiteProofs!Change, Site!Rename, SiteProofs!Rename, Site!UnknownCommit,
       SiteProofs!UnknownCommit, Site!Rest, SiteProofs!Rest, Site!Del, SiteProofs!Del,
       Site!Nothing, SiteProofs!Nothing, Site!Blank, SiteProofs!Blank, Site!All,
       SiteProofs!All, Site!invalidateCache, SiteProofs!invalidateCache,
       Site!invalidateFails, SiteProofs!invalidateFails, Site!Idle, SiteProofs!Idle,
       Site!ServerStops, SiteProofs!ServerStops, Site!CallerStep, SiteProofs!CallerStep,
       Site!InvalidationStep, SiteProofs!InvalidationStep, Site!ServiceStep,
       SiteProofs!ServiceStep

LEMMA SameInit == (Site!Init <=> SiteProofs!Init) /\ Site!vars = SiteProofs!vars
BY DEF Site!CacheIds, SiteProofs!CacheIds, Site!Nothing, SiteProofs!Nothing, Site!Blank,
       SiteProofs!Blank, Site!All, SiteProofs!All, Site!Idle, SiteProofs!Idle, Site!Init,
       SiteProofs!Init, Site!vars, SiteProofs!vars, Site!cacheVars, SiteProofs!cacheVars

LEMMA SameIdsOfSite ==
  /\ Site!CacheIds = SiteProofs!CacheIds
  /\ \A id : /\ Site!Address(id) = SiteProofs!Address(id)
             /\ Site!WithName(id) = SiteProofs!WithName(id)
             /\ Site!Due(id) <=> SiteProofs!Due(id)
             /\ Site!Due(id)' <=> SiteProofs!Due(id)'
BY DEF Site!CacheIds, SiteProofs!CacheIds, Site!Address, SiteProofs!Address, Site!WithName,
       SiteProofs!WithName, Site!Due, SiteProofs!Due

LEMMA SameOvertaken ==
  /\ \A r : /\ Site!Overtaken(r) <=> SiteProofs!Overtaken(r)
            /\ Site!Overtaken(r)' <=> SiteProofs!Overtaken(r)'
  /\ \A id : Site!WritesOvertaken(id) <=> SiteProofs!WritesOvertaken(id)
  /\ Site!OnlyCommitsOvertake <=> SiteProofs!OnlyCommitsOvertake
<1>1. \A r : /\ Site!Overtaken(r) <=> SiteProofs!Overtaken(r)
             /\ Site!Overtaken(r)' <=> SiteProofs!Overtaken(r)'
  BY DEF Site!Overtaken, SiteProofs!Overtaken, Site!At, SiteProofs!At, Site!CurrentPage,
         SiteProofs!CurrentPage, Site!CurrentStatus, SiteProofs!CurrentStatus, Site!Address,
         SiteProofs!Address
<1>2. \A r : Site!cacheSet(r) <=> SiteProofs!cacheSet(r)
  BY DEF Site!cacheSet, SiteProofs!cacheSet, Site!At, SiteProofs!At, Site!PartEnds,
         SiteProofs!PartEnds, Site!Part, SiteProofs!Part, Site!Fields, SiteProofs!Fields,
         Site!Merge, SiteProofs!Merge, Site!All, SiteProofs!All, Site!Goto, SiteProofs!Goto,
         Site!Idle, SiteProofs!Idle
<1>3. Site!OnlyCommitsOvertake <=> SiteProofs!OnlyCommitsOvertake
  BY <1>1, SameIdsOfSite DEF Site!OnlyCommitsOvertake, SiteProofs!OnlyCommitsOvertake
<1> QED BY <1>1, <1>2, <1>3 DEF Site!WritesOvertaken, SiteProofs!WritesOvertaken

LEMMA SameFresh ==
  [Site!StaysFresh]_(Site!vars) <=> [SiteProofs!StaysFresh]_(SiteProofs!vars)
<1>1. \A id : /\ Site!BodyFresh(id) <=> SiteProofs!BodyFresh(id)
              /\ Site!BodyFresh(id)' <=> SiteProofs!BodyFresh(id)'
              /\ Site!MarkFresh(id) <=> SiteProofs!MarkFresh(id)
              /\ Site!MarkFresh(id)' <=> SiteProofs!MarkFresh(id)'
  BY SameIdsOfSite
     DEF Site!BodyFresh, SiteProofs!BodyFresh, Site!MarkFresh, SiteProofs!MarkFresh,
         Site!CurrentPage, SiteProofs!CurrentPage, Site!CurrentStatus,
         SiteProofs!CurrentStatus
<1>2. Site!StaysFresh <=> SiteProofs!StaysFresh
  BY <1>1, SameIdsOfSite, SameOvertaken DEF Site!StaysFresh, SiteProofs!StaysFresh
<1> QED BY <1>2 DEF Site!vars, SiteProofs!vars, Site!cacheVars, SiteProofs!cacheVars

LEMMA SameNothingGone ==
  [Site!LeavesNothingGone]_(Site!vars) <=> [SiteProofs!LeavesNothingGone]_(SiteProofs!vars)
<1>1. \A id : /\ Site!BodyNotGone(id) <=> SiteProofs!BodyNotGone(id)
              /\ Site!BodyNotGone(id)' <=> SiteProofs!BodyNotGone(id)'
              /\ Site!MarkNotGone(id) <=> SiteProofs!MarkNotGone(id)
              /\ Site!MarkNotGone(id)' <=> SiteProofs!MarkNotGone(id)'
  BY SameIdsOfSite
     DEF Site!BodyNotGone, SiteProofs!BodyNotGone, Site!MarkNotGone,
         SiteProofs!MarkNotGone, Site!CurrentPage, SiteProofs!CurrentPage
<1>2. Site!LeavesNothingGone <=> SiteProofs!LeavesNothingGone
  BY <1>1, SameIdsOfSite, SameOvertaken
     DEF Site!LeavesNothingGone, SiteProofs!LeavesNothingGone
<1> QED BY <1>2 DEF Site!vars, SiteProofs!vars, Site!cacheVars, SiteProofs!cacheVars

LEMMA SameNextOfSite == [Site!Next]_(Site!vars) <=> [SiteProofs!Next]_(SiteProofs!vars)
BY SameTick, SameReaderStep, SameServiceStep
   DEF Site!Next, SiteProofs!Next, Site!vars, SiteProofs!vars

LEMMA SameServing == Site!ServesOwnRender <=> SiteProofs!ServesOwnRender
BY DEF Site!ServesOwnRender, SiteProofs!ServesOwnRender, Site!Hit, SiteProofs!Hit,
       Site!Looked, SiteProofs!Looked, Site!Usable, SiteProofs!Usable, Site!At,
       SiteProofs!At, Site!WithName, SiteProofs!WithName

LEMMA NothingIsNoPublish == Repo!NoPublish \notin Repo!PublishIds
BY MaxPublishesAssumption DEF Repo!NoPublish, Repo!PublishIds

LEMMA ChunksOfSite == "chunks" \in SiteFaults <=> "chunks" \in CacheFaults
BY DEF SiteFaults

\* If no server stops, every commit is answered, Redis does what it is told and no page
\* moves, the cache stays what the addresses show, but for the entries an invalidation is
\* still to delete, of which there is none too few and none too soon.  The one step that
\* may undo it is the write of a reader whose page changed after it was looked up
\* (service.go:199-205; gateway.go:151, 293-307).
THEOREM SiteIsFresh ==
  ASSUME "redis" \notin CacheFaults, {"crash", "lostReply"} \cap Faults = {}, NoRename
  PROVE  SystemSpec => Site!Fresh
<1>1. "lostInvalidate" \notin SiteFaults /\ "rename" \notin SiteFaults
  <2>1. ~CanRename
    BY DEF CanRename, NoRename
  <2> QED BY <2>1, FaultsOfSite DEF CanLose
<1>2. SiteProofs!Spec => SiteProofs!Fresh
  BY <1>1, NothingIsNoPublish, FaultsOfSite, NoVersionAssumption, TTLAssumption,
     SiteProofs!CacheIsFresh
<1>3. SiteSpec => Site!Fresh
  BY <1>2, SameInit, SameNextOfSite, SameFresh, PTL
     DEF SiteSpec, Site!Spec, SiteProofs!Spec, Site!Fresh, SiteProofs!Fresh
<1> QED BY <1>3, ImplementsGateway

\* The same where pages do move to other uris, none of them the empty one, whose
\* invalidation Publish leaves out (service.go:141-143): no step but such a write leaves
\* in the cache a page that was unpublished, replaced or moved away, but for the entries
\* an invalidation is still to delete (service.go:132-164, 199-205; gateway.go:293-307).
THEOREM SiteHoldsNothingGone ==
  ASSUME "redis" \notin CacheFaults, {"crash", "lostReply"} \cap Faults = {},
         ~(CanRename /\ EmptyUri \in Uris)
  PROVE  SystemSpec => Site!NothingGone
<1>1. "lostInvalidate" \notin SiteFaults
  BY FaultsOfSite DEF CanLose
<1>2. SiteProofs!Spec => SiteProofs!NothingGone
  BY <1>1, NothingIsNoPublish, FaultsOfSite, NoVersionAssumption, TTLAssumption,
     SiteProofs!CacheHoldsNothingGone
<1>3. SiteSpec => Site!NothingGone
  BY <1>2, SameInit, SameNextOfSite, SameNothingGone, PTL
     DEF SiteSpec, Site!Spec, SiteProofs!Spec, Site!NothingGone, SiteProofs!NothingGone
<1> QED BY <1>3, ImplementsGateway

\* If Redis executes each pipeline at once, a cached page that is served was rendered by
\* the version that serves it, for this kind of address, whatever the service does and
\* whatever fails (gateway.go:126-141, 151-165, 199-226).
THEOREM SitePagesAreOwn ==
  ASSUME "chunks" \notin CacheFaults
  PROVE  SystemSpec => []Site!ServesOwnRender
<1>1. SiteProofs!Spec => []SiteProofs!ServesOwnRender
  BY ChunksOfSite, NothingIsNoPublish, FaultsOfSite, NoVersionAssumption, TTLAssumption,
     SiteProofs!CachedPagesAreOwn
<1>2. SiteSpec => []Site!ServesOwnRender
  BY <1>1, SameInit, SameNextOfSite, SameServing, PTL
     DEF SiteSpec, Site!Spec, SiteProofs!Spec
<1> QED BY <1>2, ImplementsGateway, PTL

--------------------------------------------------------------------------------
(* The files of the pages in the cache *)

\* Was the publish with this id, if there is any, made for the address of id?
FromPage(docs, last, id, b) ==
  b \in 0..last /\ \A p \in docs : p.id = b => p.objectId = Site!Address(id)

\* An entry of the cache, and the reader that is to write it, have pages of its address.
CachedOwn ==
  \A id \in Site!CacheIds : \A b :
    SiteProofs!Holds(id, b) => FromPage(publishes, lastId, id, b)

\* What a failed upload takes away was never shown.
FailedUnpublished ==
  \A h \in Handlers : handler[h].pc \in {"list", "delete"} =>
    \A p \in publishes : p.id = handler[h].id => p.status # "Published"

CachedInv ==
  /\ SiteProofs!TypeOK
  /\ SystemInv
  /\ PagesInv
  /\ CachedOwn
  /\ FailedUnpublished

LEMMA CachedStaysOwn ==
  ASSUME CachedInv, [SystemNext]_systemVars
  PROVE  CachedOwn'
<1> SUFFICES ASSUME NEW id \in Site!CacheIds, NEW b, SiteProofs!Holds(id, b)'
             PROVE  FromPage(publishes', lastId', id, b)
  BY DEF CachedOwn, FromPage, Site!CacheIds, Site!Address
<1>0. /\ IInv /\ SystemInv /\ ShownOwn /\ CachedOwn /\ SiteProofs!TypeOK
      /\ [Next]_vars
  BY SystemInService DEF CachedInv, SystemInv, PagesInv, systemVars
<1>1. [SiteProofs!Next]_(SiteProofs!vars)
  BY <1>0, SystemToSite, SameNextOfSite
<1>2. id \in SiteProofs!CacheIds /\ Site!Address(id) = SiteProofs!Address(id)
  BY SameIdsOfSite
<1>3. \/ SiteProofs!Holds(id, b) \/ b = Repo!NoPublish \/ b = Shown[Site!Address(id)]
  BY <1>0, <1>1, <1>2, NothingIsNoPublish, FaultsOfSite, NoVersionAssumption,
     TTLAssumption, SiteProofs!HoldsFrom
<1>4. lastId \in Nat /\ lastId' \in Nat /\ lastId <= lastId'
  <2>1. RepoProofs!TypeOK'
    BY <1>0, NextInv DEF IInv, RepoProofs!IInv
  <2>2. lastId' \in Nat
    BY <2>1, MaxPublishesAssumption DEF RepoProofs!TypeOK
  <2>3. lastId' = lastId \/ lastId' = lastId + 1
    BY <1>0, NextInRepo, SameSteps, MaxPublishesAssumption, RepoProofs!NextPublishes
       DEF IInv
  <2> QED BY <1>0, <2>2, <2>3, RepoTyped, MaxPublishesAssumption
<1>5. FromPage(publishes, lastId, id, b)
  <2>1. CASE SiteProofs!Holds(id, b)
    BY <1>0, <2>1 DEF CachedOwn
  <2>2. CASE b = Repo!NoPublish
    <3>1. b = 0 /\ \A p \in publishes : p.id # 0
      BY <1>0, <2>2, SameIds, RepoTyped, MaxPublishesAssumption
    <3> QED BY <1>4, <3>1 DEF FromPage
  <2>3. CASE b = Shown[Site!Address(id)] /\ b # Repo!NoPublish
    <3>1. Site!Address(id) \in Repo!ObjectIds
      BY DEF Site!CacheIds, Site!Address
    <3>2. PICK d \in objects : d.id = Site!Address(id) /\ d.active = b
      BY <1>0, <2>3, <3>1, ShownNow
    <3>3. b \in 0..lastId
      BY <1>0, <1>4, <3>2, RepoTyped, MaxPublishesAssumption
    <3> QED BY <1>0, <3>2, <3>3 DEF FromPage, ShownOwn
  <2> QED BY <1>3, <2>1, <2>2, <2>3
<1>6. ASSUME NEW q \in publishes', q.id = b PROVE q.objectId = Site!Address(id)
  <2>1. q.id <= lastId
    BY <1>4, <1>5, <1>6 DEF FromPage
  <2>2. PICK p \in publishes : p.id = q.id /\ p.objectId = q.objectId
    BY <1>0, <2>1, Goes
  <2> QED BY <1>5, <1>6, <2>2 DEF FromPage
<1> QED BY <1>4, <1>5, <1>6 DEF FromPage

LEMMA FailedStaysUnpublished ==
  ASSUME PagesInv, FailedUnpublished, [Next]_vars, "lostReply" \notin Faults
  PROVE  FailedUnpublished'
<1> SUFFICES ASSUME NEW h \in Handlers, handler'[h].pc \in {"list", "delete"},
                    NEW q \in publishes', q.id = handler'[h].id, q.status = "Published"
             PROVE  FALSE
  BY DEF FailedUnpublished
<1>0. IInv /\ UploadInv /\ UsersApart /\ UploadsThere
  BY DEF PagesInv, ApartInv
<1>1. /\ Uses(handler[h]) /\ handler'[h].id = handler[h].id
      /\ handler'[h] = handler[h] \/ HandlerStep(h)
  <2>1. Uses(handler'[h]) /\ handler'[h] # Idle
    BY UsesNothing DEF Uses
  <2>2. CASE handler'[h] = handler[h]
    BY <2>1, <2>2
  <2>3. CASE HandlerStep(h)
    BY <1>0, <2>1, <2>3, UseMoves
  <2> QED BY <1>0, <2>1, <2>2, <2>3, Moves
<1>2. CASE q \in publishes
  <2>1. CASE Started(handler[h])
    BY <1>0, <1>1, <1>2, <2>1
       DEF UploadsThere, IInv, RepoProofs!IInv, RepoProofs!UniqueIds
  <2>2. CASE handler[h].pc \in {"list", "delete"}
    BY <1>1, <1>2, <2>2 DEF FailedUnpublished
  <2> QED BY <1>1, <2>1, <2>2 DEF Uses, Started
<1>3. CASE q \notin publishes
  <2>1. PICK g \in Handlers : FinalizeEnd(g) /\ handler[g].id = q.id
    BY <1>0, <1>3, Written
  <2>2. g = h /\ At(h, "finalize")
    BY <1>0, <1>1, <2>1 DEF UsersApart, Uses, FinalizeEnd, At
  <2>3. handler'[h] = [pc |-> "invalidate", objectId |-> handler[h].objectId]
    <3>1. \A s : Goto(h, s) => handler'[h] = s
      BY <1>0 DEF IInv, HandlersSound, Goto
    <3> QED BY <2>1, <2>2, <3>1 DEF FinalizeEnd
  <2> QED BY <2>3
<1> QED BY <1>2, <1>3

\* A publish that can be loaded stays so, unless the entries of its address are to be
\* deleted: it is retired only by a transaction that goes on to invalidateCache, and its
\* files are taken away only after that.
LEMMA StaysLoadable ==
  ASSUME CachedInv, [Next]_vars, UNCHANGED halfway, "lostReply" \notin Faults,
         NEW id \in Site!CacheIds, ~Site!Due(id)',
         NEW p \in publishes, p.status = "Published", p.objectId = Site!Address(id),
         {p.id} \X p.entries \subseteq bucket
  PROVE  p \in publishes' /\ {p.id} \X p.entries \subseteq bucket'
<1>0. /\ IInv /\ TxMatches /\ SystemInv /\ SiteProofs!TypeOK
      /\ UploadsThere /\ KeysOwn /\ CleansRetired /\ ShownOwn /\ PrevOwn
  BY DEF CachedInv, SystemInv, PagesInv, ApartInv
<1>1. ASSUME NEW h \in Handlers, NEW o \in Repo!ObjectIds,
             ~At(h, "invalidate"), Goto(h, [pc |-> "invalidate", objectId |-> o])
      PROVE  o # p.objectId
  <2>1. \A g \in Handlers \ {h} : handler'[g] = handler[g]
    BY <1>0, <1>1 DEF IInv, HandlersSound, Goto
  <2>2. Site!Invalidates(h, o)
    BY <1>0, <1>1, <2>1, GoesOn
  <2>3. SiteProofs!Invalidates(h, o)
    BY <2>2 DEF Site!Invalidates, SiteProofs!Invalidates, Site!newCacheId,
                SiteProofs!newCacheId
  <2>4. /\ id \in SiteProofs!CacheIds /\ ~SiteProofs!Due(id)'
        /\ Site!Address(id) = SiteProofs!Address(id)
    BY SameIdsOfSite
  <2> QED BY <1>0, <2>3, <2>4, NothingIsNoPublish, FaultsOfSite, NoVersionAssumption,
             TTLAssumption, SiteProofs!InvalidatesLeaves
<1>2. ASSUME NEW h \in Handlers, FinalizeEnd(h), p.id \in {handler[h].id, handler[h].prev}
      PROVE  FALSE
  <2>1. At(h, "finalize") /\ handler[h].objectId \in Repo!ObjectIds
    BY <1>0, <1>2, StatesOf DEF FinalizeEnd, IInv
  <2>2. p.id # handler[h].id
    BY <1>0, <2>1 DEF UploadsThere, Started, At, IInv, RepoProofs!IInv,
                      RepoProofs!UniqueIds
  <2>3. handler[h].objectId = p.objectId
    BY <1>0, <1>2, <2>1, <2>2 DEF PrevOwn, At
  <2>4. Goto(h, [pc |-> "invalidate", objectId |-> handler[h].objectId])
    BY <1>2 DEF FinalizeEnd
  <2> QED BY <1>1, <2>1, <2>3, <2>4 DEF At
<1>3. ASSUME NEW h \in Handlers, UnPublishEnd(h), NEW d \in objects, p.id = d.active,
             objects' = objects \ {d}
      PROVE  FALSE
  <2>1. PICK c \in objects :
           Repo!Removed(c) /\ Goto(h, [pc |-> "invalidate", objectId |-> c.id])
    BY <1>3 DEF UnPublishEnd
  <2>2. c = d /\ d.id \in Repo!ObjectIds
    BY <1>0, <1>3, <2>1, ShownNow DEF Repo!Removed, Repo!Ids
  <2>3. p.objectId = d.id
    BY <1>0, <1>3 DEF ShownOwn
  <2> QED BY <1>1, <1>3, <2>1, <2>2, <2>3 DEF UnPublishEnd, At
<1>4. ASSUME DeletePublish, p.id = cleaner.id PROVE FALSE
  BY <1>0, <1>4 DEF CleansRetired, Cleans, DeletePublish, CleanerAt
<1>5. p \in publishes'
  BY <1>0, <1>2, <1>3, <1>4, Fate
<1>6. ASSUME NEW f \in p.entries, <<p.id, f>> \notin bucket' PROVE FALSE
  <2> DEFINE k == <<p.id, f>>
  <2>1. k \in bucket
    OBVIOUS
  <2>2. ASSUME NEW h \in Handlers, DeleteFiles(h), k[1] = handler[h].id
        PROVE  FALSE
    BY <2>2 DEF CachedInv, FailedUnpublished, DeleteFiles, At
  <2>3. ASSUME CleanerDeleteFiles, k[1] = cleaner.id
        PROVE  FALSE
    BY <1>0, <2>3 DEF CleansRetired, Cleans, CleanerDeleteFiles, CleanerAt
  <2> QED BY <1>0, <1>6, <2>1, <2>2, <2>3, BucketFate
<1> QED BY <1>5, <1>6

\* Only invalidateCache ends an invalidation, or a restart.
LEMMA DueStays ==
  ASSUME SystemInv, [Next]_vars,
         \/ \E h \in Handlers : RequestStep(h)
         \/ BackgroundStep \/ GatewayRun \/ UNCHANGED systemVars,
         NEW id, Site!Due(id)
  PROVE  Site!Due(id)'
<1>0. IInv
  BY DEF SystemInv
<1>1. ASSUME NEW h \in Handlers, RequestStep(h)
      PROVE  Invalidations \subseteq Invalidations'
  <2>1. /\ handler[h].pc # "invalidate" /\ UNCHANGED halfway
        /\ \A g \in Handlers \ {h} : /\ handler'[g] = handler[g]
                                     /\ g \in halfway' <=> g \in halfway
    BY <1>0, <1>1, RequestGoes DEF At
  <2>2. CASE handler'[h].pc = "invalidate"
    BY <2>1, <2>2, InvalidationChanges
  <2>3. CASE handler'[h].pc # "invalidate"
    <3>1. \A g \in Handlers : \/ handler'[g] = handler[g]
                              \/ /\ handler'[g].pc # "invalidate"
                                 /\ handler[g].pc # "invalidate"
      BY <2>1, <2>3
    <3> QED BY <2>1, <3>1, InvalidationsStay
  <2> QED BY <2>2, <2>3
<1>2. ASSUME BackgroundStep \/ GatewayRun \/ UNCHANGED systemVars
      PROVE  Invalidations \subseteq Invalidations'
  <2>1. UNCHANGED <<handler, halfway>>
    BY <1>0, <1>2, BackgroundKeeps DEF GatewayRun, systemVars, vars
  <2> QED BY <2>1, InvalidationsStay
<1>3. Invalidations \subseteq Invalidations'
  BY <1>1, <1>2
<1> QED BY <1>3 DEF Site!Due

LEMMA StaysWithFiles ==
  ASSUME CachedInv, [SystemNext]_systemVars, "redis" \notin CacheFaults,
         {"crash", "lostReply"} \cap Faults = {}, NoRename,
         NEW id \in Site!CacheIds, HasItsFiles(id), ~Site!WritesOvertaken(id)
  PROVE  HasItsFiles(id)'
<1> DEFINE b == entries'[id].body.publish
<1> SUFFICES ASSUME ~Site!Due(id)', ttl'[id].body # 0, b # Repo!NoPublish
             PROVE  \E q \in publishes' : /\ q.id = b /\ q.status = "Published"
                                          /\ {q.id} \X q.entries \subseteq bucket'
  BY DEF HasItsFiles, Loads
<1>0. /\ IInv /\ SystemInv /\ CachedOwn /\ SiteProofs!TypeOK /\ PageComplete
      /\ CallbackFirst /\ [Next]_vars
  BY SystemInService DEF CachedInv, SystemInv, PagesInv, systemVars
<1>1. "crash" \notin Faults /\ "lostReply" \notin Faults
  OBVIOUS
<1>2. /\ "lostInvalidate" \notin SiteFaults /\ "rename" \notin SiteFaults
      /\ Repo!NoPublish \notin Repo!PublishIds
  <2>1. ~CanRename
    BY DEF CanRename, NoRename
  <2> QED BY <1>1, <2>1, FaultsOfSite, NothingIsNoPublish DEF CanLose
<1>3. /\ id \in SiteProofs!CacheIds /\ ~SiteProofs!Due(id)'
      /\ ~SiteProofs!WritesOvertaken(id)
      /\ Site!Due(id) <=> SiteProofs!Due(id)
      /\ Site!Address(id) = SiteProofs!Address(id)
  BY SameIdsOfSite, SameOvertaken
\* The entry was there, and not due: its publish could be loaded.
<1>4. ASSUME ~Site!Due(id), UNCHANGED <<entries, ttl>>
      PROVE  \E p \in publishes : /\ p.id = b /\ p.status = "Published"
                                  /\ {p.id} \X p.entries \subseteq bucket
                                  /\ p.objectId = Site!Address(id)
  <2>1. PICK p \in publishes : /\ p.id = b /\ p.status = "Published"
                               /\ {p.id} \X p.entries \subseteq bucket
    BY <1>4 DEF HasItsFiles, Loads
  <2>2. SiteProofs!Holds(id, b)
    BY <1>4 DEF SiteProofs!Holds
  <2> QED BY <1>0, <2>1, <2>2 DEF CachedOwn, FromPage
<1>5. CASE \/ \E h \in Handlers : RequestStep(h)
           \/ BackgroundStep \/ GatewayRun \/ UNCHANGED systemVars
  <2>1. UNCHANGED <<siteVars, halfway>>
    BY <1>0, <1>5, RequestGoes, BackgroundKeeps DEF GatewayRun, systemVars
  <2>2. ~Site!Due(id)
    BY <1>0, <1>5, DueStays
  <2>3. PICK p \in publishes : /\ p.id = b /\ p.status = "Published"
                               /\ {p.id} \X p.entries \subseteq bucket
                               /\ p.objectId = Site!Address(id)
    BY <1>4, <2>1, <2>2 DEF siteVars
  <2>4. p \in publishes' /\ {p.id} \X p.entries \subseteq bucket'
    BY <1>0, <1>1, <2>1, <2>3, StaysLoadable
  <2> QED BY <2>3, <2>4
<1>6. ASSUME NEW h \in Handlers, InvalidateStep(h)
      PROVE  \E q \in publishes' : /\ q.id = b /\ q.status = "Published"
                                   /\ {q.id} \X q.entries \subseteq bucket'
  <2>1. ~NoCallback(h)
    BY <1>0, <1>1 DEF NoCallback, CallbackFirst, Invalidate, At, Idle
  <2>2. SiteProofs!ServiceStep
    <3>1. \E i \in Invalidations : Site!InvalidationStep(i)
      BY <1>0, <1>6, <2>1, InvalidateToSite DEF InvalidateStep
    <3> QED BY <3>1, SameServiceStep DEF Site!ServiceStep
  <2>3. SiteProofs!ServiceLeaves(id)
    BY <1>0, <1>2, <1>3, <2>2, FaultsOfSite, NoVersionAssumption, TTLAssumption,
       SiteProofs!ServiceStepLeaves
  <2>4. ~Site!Due(id) /\ UNCHANGED <<entries[id], ttl[id]>>
    BY <1>3, <2>3 DEF SiteProofs!ServiceLeaves, SiteProofs!All
  <2>5. Loads(b)
    BY <2>4 DEF HasItsFiles
  <2>6. publishes' = publishes /\ bucket' = bucket
    BY <1>6 DEF InvalidateStep, InvalidateWithName, InvalidateWithoutName, NoCallback,
                Invalidate, vars, repoVars
  <2> QED BY <2>5, <2>6 DEF Loads
<1>7. CASE CacheTick \/ \E r \in Readers : PageStep(r)
  <2>1. /\ publishes' = publishes /\ bucket' = bucket
        /\ SiteProofs!Tick \/ \E r \in Readers : SiteProofs!ReaderStep(r)
    BY <1>7, SameTick, SameReaderStep DEF CacheTick, PageStep, vars, repoVars
  <2>2. /\ SiteProofs!Due(id)' = SiteProofs!Due(id)
        /\ \/ ttl[id].body # 0 /\ entries'[id].body = entries[id].body
           \/ SiteProofs!CurrentPage(id, entries'[id]) \/ SiteProofs!WritesOvertaken(id)
    BY <1>0, <1>2, <1>3, <2>1, FaultsOfSite, NoVersionAssumption, TTLAssumption,
       SiteProofs!KeptOrCurrent
  <2>3. CASE ttl[id].body # 0 /\ entries'[id].body = entries[id].body
    <3>1. Loads(b)
      BY <1>3, <2>2, <2>3 DEF HasItsFiles
    <3> QED BY <2>1, <3>1 DEF Loads
  <2>4. CASE SiteProofs!CurrentPage(id, entries'[id])
    <3>1. b = Shown[Site!Address(id)] /\ Site!Address(id) \in Repo!ObjectIds
      BY <1>3, <2>4 DEF SiteProofs!CurrentPage, Site!CacheIds, Site!Address
    <3>2. PICK d \in objects : d.active = b
      BY <1>0, <3>1, ShownNow
    <3> QED BY <1>0, <2>1, <3>2 DEF PageComplete
  <2> QED BY <1>3, <2>2, <2>3, <2>4
<1>8. ~Restart
  BY <1>1 DEF Restart, Crash
<1> QED BY <1>5, <1>6, <1>7, <1>8 DEF SystemNext

\* A page in the cache, unless its invalidation is under way, can load its files, for any
\* number of readers, handlers and pages, and however commits, the two deletes of each
\* invalidation, the pipelines of the readers, failing statements, failing calls to S3
\* and the cleanup interleave.  The one step that may undo it is the write of a reader
\* whose page changed after it was looked up.  Assumed are a Redis that does what it is
\* told, pages that keep their uris, a server that does not restart, commits that are
\* answered, and uploads that have their url to themselves and end within the hour
\* (service.go:99-118, 199-204, 260-290; gateway.go:151, 293-307).
THEOREM CachedPagesLoad ==
  ASSUME "redis" \notin CacheFaults, NoRename,
         {"crash", "lostReply", "sharedUrl", "slowUpload"} \cap Faults = {}
  PROVE  SystemSpec => CachedPagesHaveFiles
<1>1. "lostReply" \notin Faults /\ {"crash", "lostReply"} \cap Faults = {}
      /\ {"sharedUrl", "slowUpload", "lostReply"} \cap Faults = {}
  OBVIOUS
<1>2. ASSUME SystemInit PROVE SystemInv /\ PagesInv /\ CachedOwn /\ FailedUnpublished
  <2>1. Init /\ SystemInv /\ PagesInv
    BY <1>2, SystemInvInit, PagesInit DEF SystemInit
  <2>2. publishes = {} /\ lastId = 0 /\ \A h \in Handlers : handler[h] = Idle
    BY <2>1 DEF Init, Repo!Init
  <2>3. \A id \in Site!CacheIds : \A b : SiteProofs!Holds(id, b) => b = 0
    <3>1. \A r \in Readers : \A id, b : ~SiteProofs!Carries(reader[r], id, b)
      BY <1>2 DEF SystemInit, SiteProofs!Carries, Site!Idle
    <3>2. \A id \in Site!CacheIds : entries[id].body.publish = 0
      BY <1>2, SameIds DEF SystemInit, Site!Nothing, Site!Blank
    <3> QED BY <3>1, <3>2 DEF SiteProofs!Holds
  <2>4. CachedOwn
    BY <2>2, <2>3 DEF CachedOwn, FromPage
  <2>5. FailedUnpublished
    BY <2>2 DEF FailedUnpublished, Idle
  <2> QED BY <2>1, <2>4, <2>5
<1>3. ASSUME CachedInv, [SystemNext]_systemVars
      PROVE  (SystemInv /\ PagesInv /\ CachedOwn /\ FailedUnpublished)'
  <2>1. [Next]_vars /\ SystemInv /\ PagesInv /\ FailedUnpublished
    BY <1>3, SystemInService DEF CachedInv, systemVars
  <2> QED BY <1>1, <1>3, <2>1, SystemInvStays, PagesStep, CachedStaysOwn,
             FailedStaysUnpublished
<1>4. CachedInv /\ [SystemNext]_systemVars => [KeepsFiles]_systemVars
  BY <1>1, StaysWithFiles DEF KeepsFiles
<1>5. SystemSpec => []SiteProofs!TypeOK
  <2>1. SiteProofs!Spec => []SiteProofs!TypeOK
    BY NothingIsNoPublish, FaultsOfSite, NoVersionAssumption, TTLAssumption,
       SiteProofs!TypeCorrect
  <2>2. SiteSpec => []SiteProofs!TypeOK
    BY <2>1, SameInit, SameNextOfSite, PTL DEF SiteSpec, Site!Spec, SiteProofs!Spec
  <2> QED BY <2>2, ImplementsGateway
<1>6. CachedInv <=> /\ SiteProofs!TypeOK
                    /\ SystemInv /\ PagesInv /\ CachedOwn /\ FailedUnpublished
  BY DEF CachedInv
<1> QED BY <1>2, <1>3, <1>4, <1>5, <1>6, PTL DEF SystemSpec, CachedPagesHaveFiles

================================================================================
