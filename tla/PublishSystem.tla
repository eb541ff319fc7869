----------------------------- MODULE PublishSystem -----------------------------
(***************************************************************************)
(* One server: the publish service (PublishService) and the gateway        *)
(* (Gateway) over the Redis cache, joined by the callback that             *)
(* gateway.Run gives the service.                                          *)
(*                                                                         *)
(* invalidateCache runs in the goroutine of the request that committed,    *)
(* and deletes two entries one after the other.  Until the gateway runs    *)
(* there is no callback and nothing is invalidated; RPC requests arrive    *)
(* only later still (server.go:109-130), but the upload API is up before.  *)
(*                                                                         *)
(* CacheFaults: chunks is that of Gateway; redis: a DEL fails.  The other  *)
(* faults of Gateway follow from those of the service.                     *)
(***************************************************************************)
EXTENDS PublishService

CONSTANTS Readers, Versions, NoVersion, TTL, CacheFaults

ASSUME NoVersionAssumption == NoVersion \notin Versions
ASSUME TTLAssumption == TTL \in Nat \ {0}
ASSUME CacheFaultsAssumption == CacheFaults \subseteq {"chunks", "redis"}

VARIABLES
  entries, ttl, reader,   \* of the gateway
  callback,               \* has the service a callback?
  halfway                 \* handlers whose invalidateCache deleted one entry so far

siteVars == <<entries, ttl, reader>>
systemVars == <<vars, siteVars, callback, halfway>>

--------------------------------------------------------------------------------
(* What the gateway sees of the service *)

Showing(a) == {d \in objects : d.id = a /\ d.active # Repo!NoPublish}

\* ResolvePublishUri: the publish that the object of an address points to.
Shown ==
  [a \in Repo!ObjectIds |->
     IF Showing(a) = {} THEN Repo!NoPublish ELSE (CHOOSE d \in Showing(a) : TRUE).active]

\* Mutant: both deletes name the entry without a name.
SameEntryTwice(h) == <<handler[h].objectId, FALSE>>

\* The entry that the invalidateCache of h deletes next.
NextEntry(h) == <<handler[h].objectId, h \notin halfway>>

Invalidations ==
  {[caller |-> h, id |-> NextEntry(h)] : h \in {g \in Handlers : At(g, "invalidate")}}

CanRename == \E p \in Pages : \E u, v \in UrisOf[p] : u # v

\* Is there a change whose invalidation is lost?
CanLose ==
  \/ "redis" \in CacheFaults \/ {"crash", "lostReply"} \cap Faults # {}
  \/ CanRename /\ EmptyUri \in Uris

SiteFaults ==
  (CacheFaults \ {"redis"})
    \cup {f \in {"rename"} : CanRename} \cup {f \in {"lostInvalidate"} : CanLose}

Site == INSTANCE Gateway
          WITH Callers <- Handlers, Addresses <- Repo!ObjectIds,
               Publishes <- Repo!PublishIds, NoPublish <- Repo!NoPublish,
               Faults <- SiteFaults, active <- Shown, invalidations <- Invalidations

--------------------------------------------------------------------------------
(* Steps *)

RequestStep(h) ==
  /\ \/ callback /\ RpcRequest(h)
     \/ RequestFails(h)
     \/ UploadStep(h)
     \/ CommitStep(h)
  /\ UNCHANGED <<siteVars, callback, halfway>>

\* One DEL of invalidateCache, whose error is only logged.
DeleteEntry(h) ==
  /\ UNCHANGED reader
  /\ \/ Site!Del(NextEntry(h))
     \/ "redis" \in CacheFaults /\ UNCHANGED <<entries, ttl>>

InvalidateWithName(h) ==
  /\ callback
  /\ At(h, "invalidate") /\ h \notin halfway
  /\ DeleteEntry(h)
  /\ halfway' = halfway \cup {h}
  /\ UNCHANGED <<vars, callback>>

\* Mutant: the goroutine goes on without the second DEL.
NoSecondDelete(h) == UNCHANGED siteVars

SecondDelete(h) == DeleteEntry(h)

InvalidateWithoutName(h) ==
  /\ h \in halfway
  /\ SecondDelete(h)
  /\ halfway' = halfway \ {h}
  /\ Invalidate(h)
  /\ UNCHANGED callback

\* invalidateFunc is nil.
NoCallback(h) ==
  /\ ~callback
  /\ Invalidate(h)
  /\ UNCHANGED <<siteVars, callback, halfway>>

InvalidateStep(h) ==
  InvalidateWithName(h) \/ InvalidateWithoutName(h) \/ NoCallback(h)

\* Run of the gateway.
GatewayRun ==
  /\ ~callback
  /\ callback' = TRUE
  /\ UNCHANGED <<vars, siteVars, halfway>>

\* The gateway serves only when it runs.
PageStep(r) ==
  /\ callback
  /\ UNCHANGED <<vars, callback, halfway>>
  /\ Site!ReaderStep(r)

BackgroundStep ==
  /\ CleanerStep \/ Age
  /\ UNCHANGED <<siteVars, callback, halfway>>

CacheTick ==
  /\ UNCHANGED <<vars, callback, halfway>>
  /\ Site!Tick

\* The server stops and starts again; Redis keeps what it holds.
Restart ==
  /\ Crash
  /\ callback' = FALSE
  /\ halfway' = {}
  /\ reader' = [r \in Readers |-> Site!Idle]
  /\ UNCHANGED <<entries, ttl>>

SystemInit ==
  /\ Init
  /\ entries = [id \in Site!CacheIds |-> Site!Nothing]
  /\ ttl = [id \in Site!CacheIds |-> Site!All(0)]
  /\ reader = [r \in Readers |-> Site!Idle]
  /\ callback = FALSE
  /\ halfway = {}

SystemNext ==
  \/ \E h \in Handlers : RequestStep(h) \/ InvalidateStep(h)
  \/ \E r \in Readers : PageStep(r)
  \/ BackgroundStep \/ CacheTick \/ GatewayRun \/ Restart

SystemSpec == SystemInit /\ [][SystemNext]_systemVars

--------------------------------------------------------------------------------
(* Properties *)

\* What service and gateway do together is what Gateway says of the service and of
\* itself: what is shown of Gateway, under the faults that follow from those of the
\* service, holds of the server (service.go:106-110 and gateway.go:293-307, with the
\* restart and the callback that is not yet set among them).
SiteSpec == Site!Spec

\* Is the publish that a page was rendered from Published, with all its files there?
Loads(id) ==
  \E p \in publishes :
    p.id = id /\ p.status = "Published" /\ {p.id} \X p.entries \subseteq bucket

\* Can a page in the cache load its files, unless it is about to be deleted?
HasItsFiles(id) ==
  ~Site!Due(id) /\ ttl[id].body # 0 /\ entries[id].body.publish # Repo!NoPublish =>
    Loads(entries[id].body.publish)

\* What every step leaves of them.
KeepsFiles ==
  \A id \in Site!CacheIds :
    HasItsFiles(id) => HasItsFiles(id)' \/ Site!WritesOvertaken(id)

\* A page in the cache, unless its invalidation is under way, can load its files, and no
\* step ends that: the database, the bucket and the cache change one after the other,
\* while pages are rendered and the cleanup deletes what was replaced
\* (service.go:199-204, 277-281; gateway.go:151, 293-307).  The one step that may put a
\* page there whose files go is the write of a reader whose page changed after it was
\* looked up (gateway.go:151).
CachedPagesHaveFiles == [][KeepsFiles]_systemVars

================================================================================
