-------------------------------- MODULE Gateway --------------------------------
(***************************************************************************)
(* The gateway (gateway/gateway.go): requests for pages at any number of   *)
(* servers, the cache in Redis they share, and the invalidations of the    *)
(* publish service.                                                        *)
(*                                                                         *)
(* An entry of the cache is three Redis keys, each with a time to live of  *)
(* its own.  They are written, and read, by a pipeline: three commands     *)
(* sent together, which Redis executes as they arrive and which it does    *)
(* not keep apart from the commands of others.                             *)
(*                                                                         *)
(* Faults names what may happen besides requests and changes:              *)
(*   chunks          a pipeline arrives in several parts                   *)
(*   lostInvalidate  a change is not followed by an invalidation, or by    *)
(*                   part of one: Redis fails, the service stops, gets an  *)
(*                   error of a commit, or has no callback yet             *)
(*   rename          a page moves: only its old address is invalidated     *)
(***************************************************************************)
EXTENDS Naturals

CONSTANTS
  Readers,       \* goroutines that serve a request
  Callers,       \* goroutines of the publish service that change pages
  Addresses,     \* (identity, uri) pairs
  Publishes,     \* what an address may show
  NoPublish,     \* what it shows if it shows nothing
  Versions,      \* versions of the renderer among the running gateways
  NoVersion,     \* the RenderVer of a page that was not found
  TTL,           \* the hour an entry lives, in ticks
  Faults

ASSUME NoPublishAssumption == NoPublish \notin Publishes
ASSUME NoVersionAssumption == NoVersion \notin Versions
ASSUME TTLAssumption == TTL \in Nat \ {0}
ASSUME FaultsAssumption ==
  Faults \subseteq {"chunks", "lostInvalidate", "rename"}

VARIABLES
  active,          \* active[a]: the publish that address a shows, or NoPublish
  invalidations,   \* calls of invalidateCache under way, and the entry each deletes next
  entries,         \* what Redis holds for each cache id
  ttl,             \* how long each of its three keys has to live; 0: it is absent
  reader           \* reader[r]: where handlePage is in goroutine r, and its locals

cacheVars == <<entries, ttl>>
vars == <<active, invalidations, entries, ttl, reader>>

--------------------------------------------------------------------------------
(* Pages and cache ids *)

Shows == Publishes \cup {NoPublish}
CacheIds == Addresses \X BOOLEAN

newCacheId(address, withName) == <<address, withName>>
Address(id) == id[1]
WithName(id) == id[2]

\* What a body depends on: the publish, the renderer, and the analytics code.
Bodies == [publish : Shows, ver : Versions \cup {NoVersion}, withName : BOOLEAN]
Blank == [publish |-> NoPublish, ver |-> NoVersion, withName |-> FALSE]

pageObjects == [rver : Versions \cup {NoVersion}, notfound : BOOLEAN, body : Bodies]

NotFoundPage == [rver |-> NoVersion, notfound |-> TRUE, body |-> Blank]

RenderedPage(id, publish, ver) ==
  [rver |-> ver, notfound |-> FALSE,
   body |-> [publish |-> publish, ver |-> ver, withName |-> WithName(id)]]

--------------------------------------------------------------------------------
(* Redis *)

\* The three keys of an entry, in the order of the pipelines.
Fields == <<"rver", "notfound", "body">>
FieldNames == {Fields[i] : i \in 1..3}
Part(from, to) == {Fields[i] : i \in from..to}

\* Where a pipeline may have got to when the commands of others come in between.
PartEnds(from) == IF "chunks" \in Faults THEN from..3 ELSE {3}

\* old with the given fields taken from new.
Merge(old, new, fields) ==
  [rver |-> IF "rver" \in fields THEN new.rver ELSE old.rver,
   notfound |-> IF "notfound" \in fields THEN new.notfound ELSE old.notfound,
   body |-> IF "body" \in fields THEN new.body ELSE old.body]

All(t) == [rver |-> t, notfound |-> t, body |-> t]

\* What stands for the values of absent keys.
Nothing == [rver |-> NoVersion, notfound |-> FALSE, body |-> Blank]

Absent(id, fields) == {f \in fields : ttl[id][f] = 0}

\* Mutant: the keys are stored without a time to live.
KeptForEver(t) == t

Older(t) == IF t = 0 THEN 0 ELSE t - 1

Expired(id) == {f \in FieldNames : Older(ttl[id][f]) = 0}

\* A tick of time.
Tick ==
  /\ ttl' = [id \in CacheIds |->
               [rver |-> Older(ttl[id].rver), notfound |-> Older(ttl[id].notfound),
                body |-> Older(ttl[id].body)]]
  /\ entries' = [id \in CacheIds |-> Merge(entries[id], Nothing, Expired(id))]
  /\ UNCHANGED <<active, invalidations, reader>>

--------------------------------------------------------------------------------
(* handlePage *)

Idle == [pc |-> "idle"]
At(r, pc) == reader[r].pc = pc
Goto(r, state) == reader' = [reader EXCEPT ![r] = state]

\* A request at a gateway whose renderer is of version ver.
Request(r) ==
  /\ reader[r] = Idle
  /\ \E a \in Addresses, withName \in BOOLEAN, ver \in Versions :
       Goto(r, [pc |-> "get", id |-> newCacheId(a, withName), ver |-> ver,
                next |-> 1, page |-> Nothing, miss |-> FALSE])
  /\ UNCHANGED <<active, invalidations, cacheVars>>

\* The next commands of cacheGet.  GETEX gives a key that is there its hour back; if
\* one is absent, what was read of the others is dropped.
cacheGet(r) ==
  LET id == reader[r].id
      from == reader[r].next
  IN  /\ At(r, "get")
      /\ from <= 3
      /\ \E to \in PartEnds(from) :
           LET read == Part(from, to)
               absent == Absent(id, read)
               miss == reader[r].miss \/ absent # {}
           IN  /\ Goto(r, [reader[r] EXCEPT
                             !.next = to + 1,
                             !.page = IF miss THEN Nothing ELSE Merge(@, entries[id], read),
                             !.miss = miss])
               /\ ttl' = [ttl EXCEPT ![id] = Merge(@, All(TTL), read \ absent)]
      /\ UNCHANGED <<active, invalidations, entries>>

\* The pipeline fails, before or after Redis executed some of it.
cacheGetFails(r) ==
  /\ At(r, "get")
  /\ Goto(r, [reader[r] EXCEPT !.next = 4, !.page = Nothing, !.miss = TRUE])
  /\ UNCHANGED <<active, invalidations, cacheVars>>

\* Mutant: a page of another version of the renderer is good enough.
AnyRender(state) == ~state.miss

Usable(state) == ~state.miss /\ (state.page.notfound \/ state.page.rver = state.ver)

\* cacheGet is over: its outcome is used at once.
Looked(r) == At(r, "get") /\ reader[r].next = 4
Hit(r) == Looked(r) /\ Usable(reader[r])
Missed(r) == Looked(r) /\ ~Usable(reader[r])

ServeCached(r) ==
  /\ Hit(r)
  /\ Goto(r, Idle)
  /\ UNCHANGED <<active, invalidations, cacheVars>>

SetPage(r, page) ==
  Goto(r, [pc |-> "set", id |-> reader[r].id, next |-> 1, page |-> page])

\* The query of renderPage: an unknown address, and one that shows nothing, is
\* answered with a 404 and cached as such.
ResolveNothing(r) ==
  /\ Missed(r)
  /\ active[Address(reader[r].id)] = NoPublish
  /\ SetPage(r, NotFoundPage)
  /\ UNCHANGED <<active, invalidations, cacheVars>>

\* Mutant: the object is found, and is not asked whether it shows anything.
ResolveUnchecked(r) ==
  /\ Missed(r)
  /\ Goto(r, [pc |-> "render", id |-> reader[r].id, ver |-> reader[r].ver,
              publish |-> active[Address(reader[r].id)]])
  /\ UNCHANGED <<active, invalidations, cacheVars>>

Resolve(r) ==
  /\ Missed(r)
  /\ active[Address(reader[r].id)] # NoPublish
  /\ Goto(r, [pc |-> "render", id |-> reader[r].id, ver |-> reader[r].ver,
              publish |-> active[Address(reader[r].id)]])
  /\ UNCHANGED <<active, invalidations, cacheVars>>

\* The page is rendered from the files of the publish, and sent.
Render(r) ==
  /\ At(r, "render")
  /\ SetPage(r, RenderedPage(reader[r].id, reader[r].publish, reader[r].ver))
  /\ UNCHANGED <<active, invalidations, cacheVars>>

\* The query or the renderer fails: an internal error, and nothing is cached.
renderPageFails(r) ==
  /\ Missed(r) \/ At(r, "render")
  /\ Goto(r, Idle)
  /\ UNCHANGED <<active, invalidations, cacheVars>>

\* The next commands of cacheSet.
cacheSet(r) ==
  LET id == reader[r].id
      from == reader[r].next
  IN  /\ At(r, "set")
      /\ \E to \in PartEnds(from) :
           LET written == Part(from, to)
           IN  /\ entries' = [entries EXCEPT ![id] = Merge(@, reader[r].page, written)]
               /\ ttl' = [ttl EXCEPT ![id] = Merge(@, All(TTL), written)]
               /\ \/ to = 3 /\ Goto(r, Idle)
                  \/ to < 3 /\ Goto(r, [reader[r] EXCEPT !.next = to + 1])
      /\ UNCHANGED <<active, invalidations>>

\* The rest of the pipeline is lost; this is only logged.
cacheSetFails(r) ==
  /\ At(r, "set")
  /\ Goto(r, Idle)
  /\ UNCHANGED <<active, invalidations, cacheVars>>

ReaderStep(r) ==
  \/ Request(r) \/ cacheGet(r) \/ cacheGetFails(r) \/ ServeCached(r)
  \/ ResolveNothing(r) \/ Resolve(r) \/ Render(r) \/ renderPageFails(r)
  \/ cacheSet(r) \/ cacheSetFails(r)

--------------------------------------------------------------------------------
(* The publish service, as far as the gateway meets it *)

\* A transaction of the service commits, and addresses show what they show in new.
\* Nothing keeps it from meeting a render of one of them.
Commit(new) ==
  /\ active' = new
  /\ UNCHANGED <<cacheVars, reader>>

\* The caller goes on to invalidateCache: the entry of pages with a name comes first.
Invalidates(c, a) ==
  /\ \A i \in invalidations : i.caller # c
  /\ invalidations' = invalidations \cup {[caller |-> c, id |-> newCacheId(a, TRUE)]}

\* FinalizePublish and ObjectDelete; both may also change nothing.
Change(c, a) ==
  /\ \E p \in Shows : Commit([active EXCEPT ![a] = p])
  /\ Invalidates(c, a)

\* ObjectCreate under another uri: a page moves from a to b.
Rename(c, a, b) ==
  /\ "rename" \in Faults
  /\ active[b] = NoPublish
  /\ Commit([active EXCEPT ![a] = NoPublish, ![b] = active[a]])
  /\ Invalidates(c, a)

\* A commit whose caller sees an error, and does not go on.
UnknownCommit ==
  /\ "lostInvalidate" \in Faults
  /\ \E new \in [Addresses -> Shows] : Commit(new)
  /\ UNCHANGED invalidations

\* Mutant: only the entry with a name is deleted.
NoMore(i) == {}

\* What is left to do when the entry of invalidation i is dealt with.
Rest(i) ==
  IF WithName(i.id) THEN {[i EXCEPT !.id = newCacheId(Address(@), FALSE)]} ELSE {}

\* One DEL of all three keys.
Del(id) ==
  /\ entries' = [entries EXCEPT ![id] = Nothing]
  /\ ttl' = [ttl EXCEPT ![id] = All(0)]

invalidateCache(i) ==
  /\ invalidations' = (invalidations \ {i}) \cup Rest(i)
  /\ Del(i.id)
  /\ UNCHANGED <<active, reader>>

\* The DEL fails, and the next one is tried.
invalidateFails(i) ==
  /\ "lostInvalidate" \in Faults
  /\ invalidations' = (invalidations \ {i}) \cup Rest(i)
  /\ UNCHANGED <<active, cacheVars, reader>>

\* A server stops, and with it its requests; or it has no callback yet.  Either way
\* the rest of its invalidations never comes.
ServerStops ==
  /\ "lostInvalidate" \in Faults
  /\ \E kept \in SUBSET invalidations : invalidations' = kept
  /\ \E stopped \in SUBSET Readers :
       reader' = [r \in Readers |-> IF r \in stopped THEN Idle ELSE reader[r]]
  /\ UNCHANGED <<active, cacheVars>>

CallerStep(c) ==
  \E a \in Addresses : Change(c, a) \/ \E b \in Addresses \ {a} : Rename(c, a, b)

InvalidationStep(i) == invalidateCache(i) \/ invalidateFails(i)

ServiceStep ==
  \/ \E c \in Callers : CallerStep(c)
  \/ \E i \in invalidations : InvalidationStep(i)
  \/ UnknownCommit
  \/ ServerStops

--------------------------------------------------------------------------------

Init ==
  /\ active = [a \in Addresses |-> NoPublish]
  /\ invalidations = {}
  /\ entries = [id \in CacheIds |-> Nothing]
  /\ ttl = [id \in CacheIds |-> All(0)]
  /\ reader = [r \in Readers |-> Idle]

Next == Tick \/ (\E r \in Readers : ReaderStep(r)) \/ ServiceStep

Spec == Init /\ [][Next]_vars

\* Time passes; nothing is assumed of readers or of the service.
FairSpec == Spec /\ WF_vars(Tick)

--------------------------------------------------------------------------------
(* Properties *)

ReaderStates ==
  [pc : {"idle"}]
    \cup [pc : {"get"}, id : CacheIds, ver : Versions, next : 1..4,
          page : pageObjects, miss : BOOLEAN]
    \cup [pc : {"render"}, id : CacheIds, ver : Versions, publish : Publishes]
    \cup [pc : {"set"}, id : CacheIds, next : 1..3, page : pageObjects]

TypeOK ==
  /\ active \in [Addresses -> Shows]
  /\ invalidations \subseteq [caller : Callers, id : CacheIds]
  /\ entries \in [CacheIds -> pageObjects]
  /\ ttl \in [CacheIds -> [rver : 0..TTL, notfound : 0..TTL, body : 0..TTL]]
  /\ reader \in [Readers -> ReaderStates]

\* Will an invalidation under way still delete the entry of id?
Due(id) ==
  \E i \in invalidations :
    Address(i.id) = Address(id) /\ (i.id = id \/ (WithName(i.id) /\ ~WithName(id)))

\* Is this what the address of id shows now?
CurrentPage(id, page) == page.body.publish = active[Address(id)]
CurrentStatus(id, page) == page.notfound <=> (active[Address(id)] = NoPublish)

\* Is what Redis holds of a body, or of the mark of a 404, what the address shows
\* now, unless it is absent or about to be deleted?
BodyFresh(id) ==
  ~Due(id) /\ ttl[id].body # 0 => CurrentPage(id, entries[id])
MarkFresh(id) ==
  ~Due(id) /\ ttl[id].notfound # 0 => CurrentStatus(id, entries[id])

\* Has the address changed since reader r asked the database what it shows?
Overtaken(r) ==
  \/ At(r, "render") /\ reader[r].publish # active[Address(reader[r].id)]
  \/ At(r, "set") /\ ~ (/\ CurrentPage(reader[r].id, reader[r].page)
                        /\ CurrentStatus(reader[r].id, reader[r].page))

\* A step in which an overtaken render reaches the cache (gateway.go:151).
WritesOvertaken(id) ==
  \E r \in Readers : Overtaken(r) /\ cacheSet(r) /\ reader[r].id = id

\* No step but a commit overtakes a reader: what it renders and writes is what the
\* query answered (gateway.go:173-200).
OnlyCommitsOvertake ==
  \A r \in Readers : Overtaken(r)' /\ ~Overtaken(r) =>
    active'[Address(reader'[r].id)] # active[Address(reader'[r].id)]

\* What every step leaves fresh.
StaysFresh ==
  /\ OnlyCommitsOvertake
  /\ \A id \in CacheIds :
       /\ BodyFresh(id) => BodyFresh(id)' \/ WritesOvertaken(id)
       /\ MarkFresh(id) => MarkFresh(id)' \/ WritesOvertaken(id)

\* Whatever the cache holds for an address, with and without a name and in all its
\* parts, stays what the address shows, however changes, their invalidations, renders
\* and the pipelines of several requests mix (service.go:204 and gateway.go:293-307,
\* against gateway.go:151, 159-165 and 206-220).  The one step that may put anything
\* else there is the write of a reader whose page changed after it was looked up.
Fresh == [][StaysFresh]_vars

\* Does Redis hold a page of id, or "found", only if the address shows it, or shows
\* something?
BodyNotGone(id) ==
  ~Due(id) /\ ttl[id].body # 0 /\ entries[id].body.publish # NoPublish =>
    CurrentPage(id, entries[id])
MarkNotGone(id) ==
  ~Due(id) /\ ttl[id].notfound # 0 /\ ~entries[id].notfound =>
    active[Address(id)] # NoPublish

\* What no step leaves there.
LeavesNothingGone ==
  \A id \in CacheIds :
    /\ BodyNotGone(id) => BodyNotGone(id)' \/ WritesOvertaken(id)
    /\ MarkNotGone(id) => MarkNotGone(id)' \/ WritesOvertaken(id)

\* Even where a page moves, which leaves the 404s of its new address in the cache, the
\* cache never holds on to what is gone: no step but the write of an overtaken reader
\* leaves in it a page that its address does not show, or "found" for an address that
\* shows nothing (service.go:78-83 and 204, gateway.go:293-307).
NothingGone == [][LeavesNothingGone]_vars

\* A cached page that is served was rendered by this version of the renderer, for
\* this kind of address: neither blank nor left over from another version
\* ("we ignore cache if render version mismatch", gateway.go:126).
ServesOwnRender ==
  \A r \in Readers : Hit(r) /\ ~reader[r].page.notfound =>
    /\ reader[r].page.body.ver = reader[r].ver
    /\ reader[r].page.body.withName = WithName(reader[r].id)

\* Does the cache answer for id with what the address does not show?
Stale(id) ==
  /\ Absent(id, FieldNames) = {}
  /\ ~ (CurrentPage(id, entries[id]) /\ CurrentStatus(id, entries[id]))

Reading(id) == \E r \in Readers : At(r, "get") /\ reader[r].id = id

\* Whatever went wrong, an entry stays stale only while it is asked for again and
\* again (the hour of gateway.go:161-163 and 212-218).
Heals == \A id \in CacheIds : []<>~Stale(id) \/ []<>Reading(id)

================================================================================
