----------------------------- MODULE GatewayProofs -----------------------------
(***************************************************************************)
(* What holds of the cache for any number of readers, callers, addresses,  *)
(* publishes and versions of the renderer, and any time to live.           *)
(***************************************************************************)
EXTENDS Gateway, TLAPS

--------------------------------------------------------------------------------
(* Cache ids, entries and pipelines *)

LEMMA CacheIdParts ==
  /\ \A id \in CacheIds : Address(id) \in Addresses /\ WithName(id) \in BOOLEAN
  /\ \A a \in Addresses, w \in BOOLEAN :
       /\ newCacheId(a, w) \in CacheIds
       /\ Address(newCacheId(a, w)) = a
       /\ WithName(newCacheId(a, w)) = w
  /\ \A id \in CacheIds : id = newCacheId(Address(id), WithName(id))
BY DEF CacheIds, newCacheId, Address, WithName

LEMMA PagesTyped ==
  /\ Nothing \in pageObjects
  /\ NotFoundPage \in pageObjects
  /\ \A id \in CacheIds, p \in Publishes, v \in Versions :
       RenderedPage(id, p, v) \in pageObjects
BY CacheIdParts
   DEF pageObjects, Nothing, NotFoundPage, Blank, Bodies, Shows, RenderedPage

LEMMA FieldNamesAre == FieldNames = {"rver", "notfound", "body"}
<1>1. 1..3 = {1, 2, 3}
  OBVIOUS
<1> QED BY <1>1 DEF FieldNames, Fields

LEMMA MergeTyped ==
  ASSUME NEW fields
  PROVE  /\ \A old, new \in pageObjects : Merge(old, new, fields) \in pageObjects
         /\ \A old, new \in [rver : 0..TTL, notfound : 0..TTL, body : 0..TTL] :
              Merge(old, new, fields)
                \in [rver : 0..TTL, notfound : 0..TTL, body : 0..TTL]
BY DEF Merge, pageObjects

LEMMA MergeFields ==
  ASSUME NEW old, NEW new, NEW fields
  PROVE  LET m == Merge(old, new, fields)
         IN  /\ "body" \in fields => m.body = new.body
             /\ "body" \notin fields => m.body = old.body
             /\ "notfound" \in fields => m.notfound = new.notfound
             /\ "notfound" \notin fields => m.notfound = old.notfound
             /\ "rver" \in fields => m.rver = new.rver
             /\ "rver" \notin fields => m.rver = old.rver
BY DEF Merge

LEMMA AllTyped ==
  \A t \in 0..TTL : All(t) \in [rver : 0..TTL, notfound : 0..TTL, body : 0..TTL]
BY DEF All

LEMMA PartEndsTyped == \A from \in 1..3 : PartEnds(from) \subseteq from..3
BY DEF PartEnds

--------------------------------------------------------------------------------
(* Type correctness *)

LEMMA InitTyped == Init => TypeOK
<1> SUFFICES ASSUME Init PROVE TypeOK
  OBVIOUS
<1>1. All(0) \in [rver : 0..TTL, notfound : 0..TTL, body : 0..TTL]
  BY AllTyped, TTLAssumption
<1> QED
  BY <1>1, PagesTyped DEF Init, TypeOK, Shows, Idle, ReaderStates

LEMMA OlderTyped ==
  ASSUME NEW t \in 0..TTL
  PROVE  Older(t) \in 0..TTL
<1>1. t = 0 \/ t - 1 \in 0..TTL
  BY TTLAssumption
<1> QED BY <1>1 DEF Older

LEMMA TickTyped == ASSUME TypeOK, Tick PROVE TypeOK'
<1>1. ASSUME NEW id \in CacheIds
      PROVE  [rver |-> Older(ttl[id].rver), notfound |-> Older(ttl[id].notfound),
              body |-> Older(ttl[id].body)]
                \in [rver : 0..TTL, notfound : 0..TTL, body : 0..TTL]
  <2>1. ttl[id] \in [rver : 0..TTL, notfound : 0..TTL, body : 0..TTL]
    BY DEF TypeOK
  <2> QED BY <2>1, OlderTyped
<1>2. ttl' \in [CacheIds -> [rver : 0..TTL, notfound : 0..TTL, body : 0..TTL]]
  BY <1>1 DEF Tick
<1>3. ASSUME NEW id \in CacheIds
      PROVE  Merge(entries[id], Nothing, Expired(id)) \in pageObjects
  <2>1. entries[id] \in pageObjects
    BY DEF TypeOK
  <2> QED BY <2>1, MergeTyped, PagesTyped
<1>4. entries' \in [CacheIds -> pageObjects]
  BY <1>3 DEF Tick
<1> QED BY <1>2, <1>4 DEF TypeOK, Tick

\* What a reader moves to.
LEMMA GotoTyped ==
  ASSUME reader \in [Readers -> ReaderStates], NEW r \in Readers,
         NEW s \in ReaderStates, Goto(r, s)
  PROVE  reader' \in [Readers -> ReaderStates]
BY DEF Goto

LEMMA StatesOf ==
  ASSUME TypeOK, NEW r \in Readers
  PROVE  /\ At(r, "get") =>
              reader[r] \in [pc : {"get"}, id : CacheIds, ver : Versions, next : 1..4,
                             page : pageObjects, miss : BOOLEAN]
         /\ At(r, "render") =>
              reader[r] \in [pc : {"render"}, id : CacheIds, ver : Versions,
                             publish : Publishes]
         /\ At(r, "set") =>
              reader[r] \in [pc : {"set"}, id : CacheIds, next : 1..3, page : pageObjects]
BY DEF TypeOK, ReaderStates, At

LEMMA cacheGetTyped == ASSUME TypeOK, NEW r \in Readers, cacheGet(r) PROVE TypeOK'
<1> DEFINE id == reader[r].id
           from == reader[r].next
           miss(to) == reader[r].miss \/ Absent(id, Part(from, to)) # {}
<1>1. /\ At(r, "get") /\ id \in CacheIds /\ from \in 1..3
      /\ reader[r] \in [pc : {"get"}, id : CacheIds, ver : Versions, next : 1..4,
                        page : pageObjects, miss : BOOLEAN]
  BY StatesOf DEF cacheGet
<1>2. PICK to \in PartEnds(from) :
        /\ Goto(r, [reader[r] EXCEPT
                      !.next = to + 1,
                      !.page = IF miss(to) THEN Nothing
                               ELSE Merge(@, entries[id], Part(from, to)),
                      !.miss = miss(to)])
        /\ ttl' = [ttl EXCEPT ![id] =
                     Merge(@, All(TTL), Part(from, to) \ Absent(id, Part(from, to)))]
  BY DEF cacheGet
<1>3. to + 1 \in 1..4
  BY <1>1, PartEndsTyped
<1>4. Merge(reader[r].page, entries[id], Part(from, to)) \in pageObjects
  BY <1>1, MergeTyped DEF TypeOK
<1>5. [reader[r] EXCEPT !.next = to + 1,
                        !.page = IF miss(to) THEN Nothing
                                 ELSE Merge(@, entries[id], Part(from, to)),
                        !.miss = miss(to)] \in ReaderStates
  BY <1>1, <1>3, <1>4, PagesTyped DEF ReaderStates
<1>6. reader' \in [Readers -> ReaderStates]
  BY <1>2, <1>5, GotoTyped DEF TypeOK
<1>7. ttl' \in [CacheIds -> [rver : 0..TTL, notfound : 0..TTL, body : 0..TTL]]
  BY <1>1, <1>2, MergeTyped, AllTyped, TTLAssumption DEF TypeOK
<1> QED BY <1>6, <1>7 DEF TypeOK, cacheGet

LEMMA cacheSetTyped == ASSUME TypeOK, NEW r \in Readers, cacheSet(r) PROVE TypeOK'
<1> DEFINE id == reader[r].id
           from == reader[r].next
<1>1. /\ id \in CacheIds /\ from \in 1..3 /\ reader[r].page \in pageObjects
      /\ reader[r] \in [pc : {"set"}, id : CacheIds, next : 1..3, page : pageObjects]
  BY StatesOf DEF cacheSet
<1>2. PICK to \in PartEnds(from) :
        /\ entries' = [entries EXCEPT ![id] = Merge(@, reader[r].page, Part(from, to))]
        /\ ttl' = [ttl EXCEPT ![id] = Merge(@, All(TTL), Part(from, to))]
        /\ \/ to = 3 /\ Goto(r, Idle)
           \/ to < 3 /\ Goto(r, [reader[r] EXCEPT !.next = to + 1])
  BY DEF cacheSet
<1>3. to \in 1..3
  BY <1>1, PartEndsTyped
<1>4. entries' \in [CacheIds -> pageObjects]
  BY <1>1, <1>2, MergeTyped DEF TypeOK
<1>5. ttl' \in [CacheIds -> [rver : 0..TTL, notfound : 0..TTL, body : 0..TTL]]
  BY <1>1, <1>2, MergeTyped, AllTyped, TTLAssumption DEF TypeOK
<1>6. Idle \in ReaderStates
  BY DEF Idle, ReaderStates
<1>7. ASSUME to < 3 PROVE [reader[r] EXCEPT !.next = to + 1] \in ReaderStates
  BY <1>1, <1>3, <1>7 DEF ReaderStates
<1>8. reader' \in [Readers -> ReaderStates]
  BY <1>2, <1>6, <1>7, GotoTyped DEF TypeOK
<1> QED BY <1>4, <1>5, <1>8 DEF TypeOK, cacheSet

\* The steps of a reader that change nothing but its own state.
LEMMA ReaderTyped == ASSUME TypeOK, NEW r \in Readers, ReaderStep(r) PROVE TypeOK'
<1> DEFINE cacheUnchanged == UNCHANGED <<active, invalidations, cacheVars>>
<1>1. ASSUME NEW s \in ReaderStates, Goto(r, s), cacheUnchanged PROVE TypeOK'
  BY <1>1, GotoTyped DEF TypeOK, cacheVars
<1>2. Idle \in ReaderStates
  BY DEF Idle, ReaderStates
<1>3. CASE Request(r)
  <2>1. PICK a \in Addresses, withName \in BOOLEAN, ver \in Versions :
          Goto(r, [pc |-> "get", id |-> newCacheId(a, withName), ver |-> ver,
                   next |-> 1, page |-> Nothing, miss |-> FALSE])
    BY <1>3 DEF Request
  <2>2. [pc |-> "get", id |-> newCacheId(a, withName), ver |-> ver,
         next |-> 1, page |-> Nothing, miss |-> FALSE] \in ReaderStates
    BY CacheIdParts, PagesTyped DEF ReaderStates
  <2> QED BY <1>1, <1>3, <2>1, <2>2 DEF Request
<1>4. CASE cacheGetFails(r)
  <2>1. reader[r] \in [pc : {"get"}, id : CacheIds, ver : Versions, next : 1..4,
                       page : pageObjects, miss : BOOLEAN]
    BY <1>4, StatesOf DEF cacheGetFails
  <2>2. ASSUME NEW s \in [pc : {"get"}, id : CacheIds, ver : Versions, next : 1..4,
                          page : pageObjects, miss : BOOLEAN],
               NEW n \in 1..4, NEW p \in pageObjects, NEW m \in BOOLEAN
        PROVE  [s EXCEPT !.next = n, !.page = p, !.miss = m]
                 \in [pc : {"get"}, id : CacheIds, ver : Versions, next : 1..4,
                     page : pageObjects, miss : BOOLEAN]
    BY Zenon
  <2>3. 4 \in 1..4 /\ Nothing \in pageObjects /\ TRUE \in BOOLEAN
    BY PagesTyped
  <2>4. [reader[r] EXCEPT !.next = 4, !.page = Nothing, !.miss = TRUE]
          \in [pc : {"get"}, id : CacheIds, ver : Versions, next : 1..4,
              page : pageObjects, miss : BOOLEAN]
    BY <2>1, <2>2, <2>3, Zenon
  <2>5. [reader[r] EXCEPT !.next = 4, !.page = Nothing, !.miss = TRUE] \in ReaderStates
    BY <2>4, Zenon DEF ReaderStates
  <2> QED BY <1>1, <1>4, <2>5 DEF cacheGetFails
<1>5. CASE ServeCached(r)
  BY <1>1, <1>2, <1>5 DEF ServeCached
<1>6. CASE ResolveNothing(r)
  <2>1. reader[r].id \in CacheIds
    BY <1>6, StatesOf DEF ResolveNothing, Missed, Looked
  <2>2. [pc |-> "set", id |-> reader[r].id, next |-> 1, page |-> NotFoundPage]
          \in ReaderStates
    BY <2>1, PagesTyped DEF ReaderStates
  <2> QED BY <1>1, <1>6, <2>2 DEF ResolveNothing, SetPage
<1>7. CASE Resolve(r)
  <2>1. reader[r].id \in CacheIds /\ reader[r].ver \in Versions
    BY <1>7, StatesOf DEF Resolve, Missed, Looked
  <2>2. active[Address(reader[r].id)] \in Publishes
    BY <1>7, <2>1, CacheIdParts DEF Resolve, TypeOK, Shows
  <2>3. [pc |-> "render", id |-> reader[r].id, ver |-> reader[r].ver,
         publish |-> active[Address(reader[r].id)]] \in ReaderStates
    BY <2>1, <2>2 DEF ReaderStates
  <2> QED BY <1>1, <1>7, <2>3 DEF Resolve
<1>8. CASE Render(r)
  <2>1. reader[r] \in [pc : {"render"}, id : CacheIds, ver : Versions,
                       publish : Publishes]
    BY <1>8, StatesOf DEF Render
  <2>2. RenderedPage(reader[r].id, reader[r].publish, reader[r].ver) \in pageObjects
    BY <2>1, PagesTyped
  <2>3. [pc |-> "set", id |-> reader[r].id, next |-> 1,
         page |-> RenderedPage(reader[r].id, reader[r].publish, reader[r].ver)]
          \in ReaderStates
    BY <2>1, <2>2 DEF ReaderStates
  <2> QED BY <1>1, <1>8, <2>3 DEF Render, SetPage
<1>9. CASE renderPageFails(r)
  BY <1>1, <1>2, <1>9 DEF renderPageFails
<1>10. CASE cacheSetFails(r)
  BY <1>1, <1>2, <1>10 DEF cacheSetFails
<1> QED
  BY <1>3, <1>4, <1>5, <1>6, <1>7, <1>8, <1>9, <1>10, cacheGetTyped, cacheSetTyped
     DEF ReaderStep

LEMMA RestTyped ==
  ASSUME NEW i \in [caller : Callers, id : CacheIds]
  PROVE  Rest(i) \subseteq [caller : Callers, id : CacheIds]
BY CacheIdParts DEF Rest

\* A step of the service changes what addresses show, or deletes one entry, or
\* neither.
LEMMA ServiceTyped == ASSUME TypeOK, ServiceStep PROVE TypeOK'
<1>1. ASSUME NEW new \in [Addresses -> Shows], Commit(new),
             \/ UNCHANGED invalidations
             \/ \E c \in Callers, a \in Addresses : Invalidates(c, a)
      PROVE  TypeOK'
  <2>1. ASSUME NEW c \in Callers, NEW a \in Addresses, Invalidates(c, a)
        PROVE  invalidations' \subseteq [caller : Callers, id : CacheIds]
    <3>1. newCacheId(a, TRUE) \in CacheIds
      BY CacheIdParts
    <3>2. [caller |-> c, id |-> newCacheId(a, TRUE)] \in [caller : Callers, id : CacheIds]
      BY <3>1
    <3> QED BY <2>1, <3>2 DEF Invalidates, TypeOK
  <2>2. invalidations' \subseteq [caller : Callers, id : CacheIds]
    BY <1>1, <2>1 DEF TypeOK
  <2> QED BY <1>1, <2>2 DEF Commit, TypeOK, cacheVars
<1>2. ASSUME NEW c \in Callers, NEW a \in Addresses, Change(c, a) PROVE TypeOK'
  <2>1. PICK p \in Shows : Commit([active EXCEPT ![a] = p])
    BY <1>2 DEF Change
  <2>2. [active EXCEPT ![a] = p] \in [Addresses -> Shows]
    BY DEF TypeOK
  <2> QED BY <1>1, <1>2, <2>1, <2>2 DEF Change
<1>3. ASSUME NEW c \in Callers, NEW a \in Addresses, NEW b \in Addresses, Rename(c, a, b)
      PROVE  TypeOK'
  <2>1. [active EXCEPT ![a] = NoPublish, ![b] = active[a]] \in [Addresses -> Shows]
    BY DEF TypeOK, Shows
  <2> QED BY <1>1, <1>3, <2>1 DEF Rename
<1>4. CASE UnknownCommit
  BY <1>1, <1>4 DEF UnknownCommit
<1>5. ASSUME NEW i \in invalidations, invalidateCache(i) PROVE TypeOK'
  <2> USE <1>5 DEF invalidateCache, Del
  <2>1. i \in [caller : Callers, id : CacheIds]
    BY DEF TypeOK
  <2>2. All(0) \in [rver : 0..TTL, notfound : 0..TTL, body : 0..TTL]
    BY AllTyped, TTLAssumption
  <2> QED BY <2>1, <2>2, RestTyped, PagesTyped DEF TypeOK
<1>6. ASSUME NEW i \in invalidations, invalidateFails(i) PROVE TypeOK'
  BY <1>6, RestTyped DEF invalidateFails, TypeOK, cacheVars
<1>7. CASE ServerStops
  <2>1. Idle \in ReaderStates
    BY DEF Idle, ReaderStates
  <2> QED BY <1>7, <2>1 DEF ServerStops, TypeOK, cacheVars
<1> QED
  BY <1>2, <1>3, <1>4, <1>5, <1>6, <1>7 DEF ServiceStep, CallerStep, InvalidationStep

\* Readers, the cache and what the addresses show are well formed.
THEOREM TypeCorrect == Spec => []TypeOK
<1>1. TypeOK /\ [Next]_vars => TypeOK'
  <2> SUFFICES ASSUME TypeOK, [Next]_vars PROVE TypeOK'
    OBVIOUS
  <2>1. CASE UNCHANGED vars
    BY <2>1 DEF vars, cacheVars, TypeOK
  <2> QED BY <2>1, TickTyped, ReaderTyped, ServiceTyped DEF Next
<1> QED BY InitTyped, <1>1, PTL DEF Spec

--------------------------------------------------------------------------------
(* What overtakes a reader.  It renders and writes what the query answered,   *)
(* so only a commit makes that outdated.                                      *)

LEMMA ReaderNotOvertaken ==
  ASSUME TypeOK, NEW r \in Readers, ReaderStep(r), NEW q \in Readers, Overtaken(q)'
  PROVE  Overtaken(q)
<1>1. active' = active
  BY DEF ReaderStep, Request, cacheGet, cacheGetFails, ServeCached, ResolveNothing,
         Resolve, Render, renderPageFails, cacheSet, cacheSetFails
<1>2. reader \in [Readers -> ReaderStates]
  BY DEF TypeOK
<1> DEFINE Outdated(s) ==
      \/ s.pc = "render" /\ s.publish # active[Address(s.id)]
      \/ s.pc = "set" /\ ~ (CurrentPage(s.id, s.page) /\ CurrentStatus(s.id, s.page))
<1>3. \A p \in Readers : Outdated(reader[p]) <=> Overtaken(p)
  BY DEF Overtaken, At
<1>4. Outdated(reader'[q])
  BY <1>1 DEF Overtaken, At, CurrentPage, CurrentStatus
<1> HIDE DEF Outdated
<1>5. ASSUME NEW s, Goto(r, s), Outdated(s) => Outdated(reader[r]) PROVE Overtaken(q)
  <2>1. CASE q = r
    BY <1>2, <1>3, <1>4, <1>5, <2>1 DEF Goto
  <2>2. CASE q # r
    BY <1>2, <1>3, <1>4, <1>5, <2>2 DEF Goto
  <2> QED BY <2>1, <2>2
<1> USE DEF Outdated
<1>6. CASE Request(r)
  BY <1>5, <1>6 DEF Request
<1>7. CASE cacheGet(r)
  <2>1. PICK n, p, m : Goto(r, [reader[r] EXCEPT !.next = n, !.page = p, !.miss = m])
    BY <1>7 DEF cacheGet
  <2>2. [reader[r] EXCEPT !.next = n, !.page = p, !.miss = m].pc = "get"
    BY <1>7, StatesOf DEF cacheGet
  <2> QED BY <1>5, <2>1, <2>2
<1>8. CASE cacheGetFails(r)
  <2>1. [reader[r] EXCEPT !.next = 4, !.page = Nothing, !.miss = TRUE].pc = "get"
    BY <1>8, StatesOf DEF cacheGetFails
  <2> QED BY <1>5, <1>8, <2>1 DEF cacheGetFails
<1>9. CASE ServeCached(r) \/ renderPageFails(r) \/ cacheSetFails(r)
  BY <1>5, <1>9 DEF ServeCached, renderPageFails, cacheSetFails, Idle
<1>10. CASE ResolveNothing(r)
  <2>1. CurrentPage(reader[r].id, NotFoundPage) /\ CurrentStatus(reader[r].id, NotFoundPage)
    BY <1>10 DEF ResolveNothing, CurrentPage, CurrentStatus, NotFoundPage, Blank
  <2> QED BY <1>5, <1>10, <2>1 DEF ResolveNothing, SetPage
<1>11. CASE Resolve(r)
  BY <1>5, <1>11 DEF Resolve
<1>12. CASE Render(r)
  <2>1. At(r, "render") /\ reader[r].publish \in Publishes
    BY <1>12, StatesOf DEF Render
  <2> DEFINE page == RenderedPage(reader[r].id, reader[r].publish, reader[r].ver)
             s == [pc |-> "set", id |-> reader[r].id, next |-> 1, page |-> page]
  <2>2. page.body.publish = reader[r].publish /\ page.notfound = FALSE
    BY DEF RenderedPage
  <2>3. ASSUME reader[r].publish = active[Address(reader[r].id)]
        PROVE  CurrentPage(reader[r].id, page) /\ CurrentStatus(reader[r].id, page)
    BY <2>1, <2>2, <2>3, NoPublishAssumption DEF CurrentPage, CurrentStatus
  <2>4. s.pc = "set" /\ s.id = reader[r].id /\ s.page = page
    OBVIOUS
  <2> HIDE DEF page
  <2>5. Outdated(s) => Outdated(reader[r])
    BY <2>1, <2>3, <2>4 DEF At
  <2> QED BY <1>5, <1>12, <2>5 DEF Render, SetPage, page
<1>13. CASE cacheSet(r)
  <2>1. reader[r] \in [pc : {"set"}, id : CacheIds, next : 1..3, page : pageObjects]
    BY <1>13, StatesOf DEF cacheSet
  <2>2. PICK n : Goto(r, Idle) \/ Goto(r, [reader[r] EXCEPT !.next = n])
    BY <1>13 DEF cacheSet
  <2> DEFINE s == [reader[r] EXCEPT !.next = n]
  <2>3. s.pc = "set" /\ s.id = reader[r].id /\ s.page = reader[r].page
    BY <2>1
  <2> HIDE DEF s
  <2>4. Outdated(s) => Outdated(reader[r])
    BY <2>1, <2>3
  <2>5. ~Outdated(Idle)
    BY DEF Idle
  <2> QED BY <1>5, <2>2, <2>4, <2>5 DEF s
<1> QED
  BY <1>6, <1>7, <1>8, <1>9, <1>10, <1>11, <1>12, <1>13 DEF ReaderStep

LEMMA CommitsOvertake ==
  ASSUME TypeOK, [Next]_vars
  PROVE  OnlyCommitsOvertake
<1> SUFFICES ASSUME NEW q \in Readers, Overtaken(q)', ~Overtaken(q),
                    active'[Address(reader'[q].id)] = active[Address(reader'[q].id)]
             PROVE  FALSE
  BY DEF OnlyCommitsOvertake
<1>1. ASSUME reader'[q] = reader[q] PROVE FALSE
  BY <1>1 DEF Overtaken, At, CurrentPage, CurrentStatus
<1>2. ASSUME reader'[q] = Idle PROVE FALSE
  BY <1>2 DEF Overtaken, At, Idle
<1>3. CASE \E r \in Readers : ReaderStep(r)
  BY <1>3, ReaderNotOvertaken
<1>4. CASE ServerStops
  BY <1>1, <1>2, <1>4 DEF ServerStops
<1>5. CASE reader' = reader
  BY <1>1, <1>5
<1> QED
  BY <1>3, <1>4, <1>5
     DEF Next, Tick, ServiceStep, CallerStep, InvalidationStep, Change, Rename,
         UnknownCommit, Commit, invalidateCache, invalidateFails, vars

\* A part of an entry that lives after a step of a reader, or after a tick, lived
\* before with the same value, or is what the address shows, or was just written by an
\* overtaken reader.
LEMMA KeptOrCurrent ==
  ASSUME TypeOK, Tick \/ \E r \in Readers : ReaderStep(r), NEW id \in CacheIds
  PROVE  /\ Due(id)' = Due(id) /\ active' = active
         /\ ttl'[id].body # 0 =>
              \/ ttl[id].body # 0 /\ entries'[id].body = entries[id].body
              \/ CurrentPage(id, entries'[id]) \/ WritesOvertaken(id)
         /\ ttl'[id].notfound # 0 =>
              \/ ttl[id].notfound # 0 /\ entries'[id].notfound = entries[id].notfound
              \/ CurrentStatus(id, entries'[id]) \/ WritesOvertaken(id)
<1> DEFINE Kept ==
      /\ ttl'[id].body # 0 => ttl[id].body # 0 /\ entries'[id].body = entries[id].body
      /\ ttl'[id].notfound # 0 =>
           ttl[id].notfound # 0 /\ entries'[id].notfound = entries[id].notfound
<1>1. UNCHANGED <<active, invalidations>>
  BY DEF Tick, ReaderStep, Request, cacheGet, cacheGetFails, ServeCached, ResolveNothing,
         Resolve, Render, renderPageFails, cacheSet, cacheSetFails
<1>2. Due(id)' = Due(id)
  BY <1>1 DEF Due
<1>3. CASE Tick
  <2>1. /\ ttl'[id].body = Older(ttl[id].body)
        /\ ttl'[id].notfound = Older(ttl[id].notfound)
        /\ entries'[id] = Merge(entries[id], Nothing, Expired(id))
    BY <1>3 DEF Tick
  <2>2. /\ "body" \in Expired(id) => Older(ttl[id].body) = 0
        /\ "notfound" \in Expired(id) => Older(ttl[id].notfound) = 0
    BY DEF Expired
  <2>3. \A t : Older(t) # 0 => t # 0
    BY DEF Older
  <2>4. Kept
    BY <2>1, <2>2, <2>3, MergeFields
  <2> QED BY <1>1, <1>2, <2>4
<1>4. ASSUME NEW r \in Readers, cacheGet(r)
      PROVE  Kept
  <2> DEFINE key == reader[r].id
             from == reader[r].next
  <2>1. key \in CacheIds
    BY <1>4, StatesOf DEF cacheGet
  <2>2. PICK to \in PartEnds(from) :
          ttl' = [ttl EXCEPT ![key] =
                    Merge(@, All(TTL), Part(from, to) \ Absent(key, Part(from, to)))]
    BY <1>4 DEF cacheGet
  <2> DEFINE kept == Part(from, to) \ Absent(key, Part(from, to))
  <2>3. /\ "body" \in kept => ttl[key].body # 0
        /\ "notfound" \in kept => ttl[key].notfound # 0
    BY DEF Absent
  <2>4. ttl'[key] = Merge(ttl[key], All(TTL), kept)
    BY <2>1, <2>2 DEF TypeOK
  <2>5. key # id => ttl'[id] = ttl[id]
    BY <2>2 DEF TypeOK
  <2>6. entries' = entries
    BY <1>4 DEF cacheGet
  <2>7. CASE key # id
    BY <2>5, <2>6, <2>7
  <2>8. CASE key = id
    BY <2>3, <2>4, <2>6, <2>8, MergeFields
  <2> QED BY <2>7, <2>8
<1>5. ASSUME NEW r \in Readers, cacheSet(r)
      PROVE  /\ ttl'[id].body # 0 =>
                  \/ ttl[id].body # 0 /\ entries'[id].body = entries[id].body
                  \/ CurrentPage(id, entries'[id]) \/ WritesOvertaken(id)
             /\ ttl'[id].notfound # 0 =>
                  \/ ttl[id].notfound # 0 /\ entries'[id].notfound = entries[id].notfound
                  \/ CurrentStatus(id, entries'[id]) \/ WritesOvertaken(id)
  <2> DEFINE key == reader[r].id
             from == reader[r].next
  <2>1. key \in CacheIds
    BY <1>5, StatesOf DEF cacheSet
  <2>2. \/ WritesOvertaken(key)
        \/ CurrentPage(key, reader[r].page) /\ CurrentStatus(key, reader[r].page)
    BY <1>5 DEF WritesOvertaken, Overtaken, cacheSet
  <2>3. PICK to \in PartEnds(from) :
          /\ entries' = [entries EXCEPT ![key] = Merge(@, reader[r].page, Part(from, to))]
          /\ ttl' = [ttl EXCEPT ![key] = Merge(@, All(TTL), Part(from, to))]
    BY <1>5 DEF cacheSet
  <2>4. /\ entries'[key] = Merge(entries[key], reader[r].page, Part(from, to))
        /\ ttl'[key] = Merge(ttl[key], All(TTL), Part(from, to))
    BY <2>1, <2>3 DEF TypeOK
  <2>5. key # id => ttl'[id] = ttl[id] /\ entries'[id] = entries[id]
    BY <2>3 DEF TypeOK
  <2>6. CASE key # id
    BY <2>5, <2>6
  <2>7. CASE key = id
    <3>1. ttl'[id].body # 0 =>
            \/ ttl[id].body # 0 /\ entries'[id].body = entries[id].body
            \/ CurrentPage(id, entries'[id]) \/ WritesOvertaken(id)
      BY <2>2, <2>4, <2>7, MergeFields DEF CurrentPage
    <3>2. ttl'[id].notfound # 0 =>
            \/ ttl[id].notfound # 0 /\ entries'[id].notfound = entries[id].notfound
            \/ CurrentStatus(id, entries'[id]) \/ WritesOvertaken(id)
      BY <2>2, <2>4, <2>7, MergeFields DEF CurrentStatus
    <3> QED BY <3>1, <3>2
  <2> QED BY <2>6, <2>7
<1>6. ASSUME UNCHANGED cacheVars PROVE Kept
  BY <1>6 DEF cacheVars
<1>7. \/ Tick \/ UNCHANGED cacheVars
      \/ \E r \in Readers : cacheGet(r) \/ cacheSet(r)
  BY DEF ReaderStep, Request, cacheGetFails, ServeCached, ResolveNothing, Resolve,
         Render, renderPageFails, cacheSetFails
<1> QED BY <1>1, <1>2, <1>3, <1>4, <1>5, <1>6, <1>7

--------------------------------------------------------------------------------
(* Where the pages in the cache come from *)

\* Is a page of publish b on its way to the cache of id, or there?
Carries(s, id, b) ==
  \/ s.pc = "render" /\ s.id = id /\ s.publish = b
  \/ s.pc = "set" /\ s.id = id /\ s.page.body.publish = b

Holds(id, b) ==
  entries[id].body.publish = b \/ \E r \in Readers : Carries(reader[r], id, b)

\* It was there before, or the address shows it.
LEMMA HoldsFrom ==
  ASSUME TypeOK, [Next]_vars, NEW id \in CacheIds, NEW b, Holds(id, b)'
  PROVE  Holds(id, b) \/ b = NoPublish \/ b = active[Address(id)]
<1> DEFINE Goal == Holds(id, b) \/ b = NoPublish \/ b = active[Address(id)]
<1>0. PICK q \in Readers \cup {id} :
        \/ entries'[id].body.publish = b
        \/ q \in Readers /\ Carries(reader'[q], id, b)
  BY DEF Holds, Carries
<1>1. reader \in [Readers -> ReaderStates]
  BY DEF TypeOK
<1>2. Nothing.body.publish = NoPublish
  BY DEF Nothing, Blank
<1>3. ~Carries(Idle, id, b)
  BY DEF Carries, Idle
<1>4. CASE Tick
  <2>1. entries'[id] = Merge(entries[id], Nothing, Expired(id)) /\ reader' = reader
    BY <1>4 DEF Tick
  <2>2. entries'[id].body \in {entries[id].body, Nothing.body}
    BY <2>1, MergeFields
  <2> QED BY <1>0, <1>2, <2>1, <2>2 DEF Holds
<1>5. ASSUME NEW r \in Readers, NEW s, Goto(r, s), entries' = entries,
             Carries(s, id, b) =>
               Carries(reader[r], id, b) \/ b = NoPublish \/ b = active[Address(id)]
      PROVE  Goal
  <2>1. \A p \in Readers : reader'[p] = IF p = r THEN s ELSE reader[p]
    BY <1>1, <1>5 DEF Goto
  <2> QED BY <1>0, <1>5, <2>1 DEF Holds
<1>6. ASSUME NEW r \in Readers, cacheSet(r) PROVE Goal
  <2> DEFINE key == reader[r].id
             from == reader[r].next
  <2>1. /\ key \in CacheIds
        /\ reader[r] \in [pc : {"set"}, id : CacheIds, next : 1..3, page : pageObjects]
    BY <1>6, StatesOf DEF cacheSet
  <2>2. PICK to \in PartEnds(from) :
          /\ entries' = [entries EXCEPT ![key] = Merge(@, reader[r].page, Part(from, to))]
          /\ \/ Goto(r, Idle)
             \/ Goto(r, [reader[r] EXCEPT !.next = to + 1])
    BY <1>6 DEF cacheSet
  <2>3. entries'[key] = Merge(entries[key], reader[r].page, Part(from, to))
    BY <2>1, <2>2 DEF TypeOK
  <2>4. key # id => entries'[id] = entries[id]
    BY <2>2 DEF TypeOK
  <2>5. entries'[id].body.publish = b => entries[id].body.publish = b \/ Carries(reader[r], id, b)
    BY <2>1, <2>3, <2>4, MergeFields DEF Carries
  <2> DEFINE s == [reader[r] EXCEPT !.next = to + 1]
  <2>6. s.pc = "set" /\ s.id = key /\ s.page = reader[r].page
    BY <2>1
  <2> HIDE DEF s
  <2>7. Carries(s, id, b) => Carries(reader[r], id, b)
    BY <2>1, <2>6 DEF Carries
  <2>8. \A p \in Readers : \/ reader'[p] = reader[p]
                           \/ p = r /\ reader'[p] \in {Idle, s}
    BY <1>1, <2>2 DEF Goto, s
  <2> QED BY <1>0, <1>3, <2>5, <2>7, <2>8 DEF Holds
<1>7. ASSUME NEW r \in Readers, ReaderStep(r), ~cacheSet(r) PROVE Goal
  <2>1. entries' = entries
    BY <1>7 DEF ReaderStep, Request, cacheGet, cacheGetFails, ServeCached, ResolveNothing,
                Resolve, Render, renderPageFails, cacheSetFails, cacheVars
  <2>2. CASE Request(r)
    <3>1. PICK a, w, v : Goto(r, [pc |-> "get", id |-> newCacheId(a, w), ver |-> v,
                                  next |-> 1, page |-> Nothing, miss |-> FALSE])
      BY <2>2 DEF Request
    <3> QED BY <1>5, <2>1, <3>1 DEF Carries
  <2>3. CASE cacheGet(r) \/ cacheGetFails(r)
    <3>1. PICK n, p, m : Goto(r, [reader[r] EXCEPT !.next = n, !.page = p, !.miss = m])
      BY <2>3 DEF cacheGet, cacheGetFails
    <3>2. [reader[r] EXCEPT !.next = n, !.page = p, !.miss = m].pc = "get"
      BY <2>3, StatesOf DEF cacheGet, cacheGetFails
    <3> QED BY <1>5, <2>1, <3>1, <3>2 DEF Carries
  <2>4. CASE ServeCached(r) \/ renderPageFails(r) \/ cacheSetFails(r)
    BY <1>3, <1>5, <2>1, <2>4 DEF ServeCached, renderPageFails, cacheSetFails
  <2>5. CASE ResolveNothing(r)
    <3>1. NotFoundPage.body.publish = NoPublish
      BY DEF NotFoundPage, Blank
    <3> QED BY <1>5, <2>1, <2>5, <3>1 DEF ResolveNothing, SetPage, Carries
  <2>6. CASE Resolve(r)
    BY <1>5, <2>1, <2>6 DEF Resolve, Carries
  <2>7. CASE Render(r)
    <3>1. RenderedPage(reader[r].id, reader[r].publish, reader[r].ver).body.publish
            = reader[r].publish
      BY DEF RenderedPage
    <3> QED BY <1>5, <2>1, <2>7, <3>1 DEF Render, SetPage, Carries, At
  <2> QED BY <1>7, <2>2, <2>3, <2>4, <2>5, <2>6, <2>7 DEF ReaderStep
<1>8. CASE ServiceStep
  <2>1. \A r \in Readers : reader'[r] = reader[r] \/ reader'[r] = Idle
    BY <1>8 DEF ServiceStep, CallerStep, InvalidationStep, Change, Rename, UnknownCommit,
                Commit, invalidateCache, invalidateFails, ServerStops
  <2>2. entries'[id] = entries[id] \/ entries'[id] = Nothing
    BY <1>8 DEF ServiceStep, CallerStep, InvalidationStep, Change, Rename, UnknownCommit,
                Commit, invalidateCache, invalidateFails, ServerStops, Del, cacheVars, TypeOK
  <2> QED BY <1>0, <1>2, <1>3, <2>1, <2>2 DEF Holds
<1>9. CASE UNCHANGED vars
  BY <1>0, <1>9 DEF vars, cacheVars, Holds
<1> QED BY <1>4, <1>6, <1>7, <1>8, <1>9 DEF Next

--------------------------------------------------------------------------------
(* What the service leaves behind.  Where every change is followed by its     *)
(* invalidation, an entry that is not due after a step of the service has     *)
(* just been deleted, or was not due and is left alone, and so is the page of *)
(* its address, unless one moved there where none was.                        *)

ServiceLeaves(id) ==
  \/ ttl'[id] = All(0)
  \/ /\ ~Due(id) /\ ttl'[id] = ttl[id] /\ entries'[id] = entries[id]
     /\ \/ active'[Address(id)] = active[Address(id)]
        \/ "rename" \in Faults /\ active[Address(id)] = NoPublish

LEMMA InvalidatesLeaves ==
  ASSUME TypeOK, NEW c \in Callers, NEW a \in Addresses, Invalidates(c, a),
         NEW id \in CacheIds, ~Due(id)'
  PROVE  Address(id) # a /\ ~Due(id)
<1> DEFINE new == [caller |-> c, id |-> newCacheId(a, TRUE)]
<1>1. invalidations' = invalidations \cup {new}
  BY DEF Invalidates
<1>2. ~Due(id)
  BY <1>1 DEF Due
<1>3. new.id = newCacheId(a, TRUE) /\ Address(new.id) = a /\ WithName(new.id)
  BY CacheIdParts
<1>4. Address(id) = a /\ WithName(id) => id = new.id
  BY <1>3, CacheIdParts
<1> QED BY <1>1, <1>2, <1>3, <1>4 DEF Due

LEMMA invalidateLeaves ==
  ASSUME TypeOK, NEW i \in invalidations, invalidateCache(i),
         NEW id \in CacheIds, ~Due(id)'
  PROVE  ServiceLeaves(id)
<1>1. i.id \in CacheIds /\ Address(i.id) \in Addresses
  BY CacheIdParts DEF TypeOK
<1>2. /\ ttl'[i.id] = All(0)
      /\ id # i.id => ttl'[id] = ttl[id] /\ entries'[id] = entries[id]
      /\ active' = active
      /\ invalidations' = (invalidations \ {i}) \cup Rest(i)
  BY <1>1 DEF invalidateCache, Del, TypeOK
<1>3. ASSUME id # i.id PROVE ~Due(id)
  <2> SUFFICES ASSUME Due(id) PROVE FALSE
    OBVIOUS
  <2>1. PICK k \in invalidations :
          Address(k.id) = Address(id) /\ (k.id = id \/ (WithName(k.id) /\ ~WithName(id)))
    BY DEF Due
  <2>2. k = i
    BY <1>2, <2>1 DEF Due
  <2>3. Address(i.id) = Address(id) /\ WithName(i.id) /\ ~WithName(id)
    BY <1>3, <2>1, <2>2
  <2> DEFINE next == [i EXCEPT !.id = newCacheId(Address(@), FALSE)]
  <2>4. next \in invalidations'
    BY <1>2, <2>3 DEF Rest
  <2>5. next.id = id
    <3>1. next.id = newCacheId(Address(i.id), FALSE)
      BY DEF TypeOK
    <3> QED BY <2>3, <3>1, CacheIdParts
  <2> QED BY <2>4, <2>5 DEF Due
<1> QED BY <1>2, <1>3 DEF ServiceLeaves

LEMMA ServiceStepLeaves ==
  ASSUME TypeOK, "lostInvalidate" \notin Faults, ServiceStep,
         NEW id \in CacheIds, ~Due(id)'
  PROVE  ServiceLeaves(id)
<1>1. Address(id) \in Addresses
  BY CacheIdParts
<1>2. ASSUME NEW c \in Callers, NEW a \in Addresses, Change(c, a)
      PROVE  ServiceLeaves(id)
  <2>1. Address(id) # a /\ ~Due(id)
    BY <1>2, InvalidatesLeaves DEF Change
  <2>2. active'[Address(id)] = active[Address(id)]
    BY <1>1, <1>2, <2>1 DEF Change, Commit, TypeOK
  <2>3. entries' = entries /\ ttl' = ttl
    BY <1>2 DEF Change, Commit, cacheVars
  <2> QED BY <2>1, <2>2, <2>3 DEF ServiceLeaves
<1>3. ASSUME NEW c \in Callers, NEW a \in Addresses, NEW b \in Addresses, Rename(c, a, b)
      PROVE  ServiceLeaves(id)
  <2>1. Address(id) # a /\ ~Due(id)
    BY <1>3, InvalidatesLeaves DEF Rename
  <2>2. active' = [active EXCEPT ![a] = NoPublish, ![b] = active[a]]
    BY <1>3 DEF Rename, Commit
  <2>3. Address(id) # b => active'[Address(id)] = active[Address(id)]
    BY <1>1, <2>1, <2>2 DEF TypeOK
  <2>4. "rename" \in Faults /\ active[b] = NoPublish
    BY <1>3 DEF Rename
  <2>5. entries' = entries /\ ttl' = ttl
    BY <1>3 DEF Rename, Commit, cacheVars
  <2> QED BY <2>1, <2>3, <2>4, <2>5 DEF ServiceLeaves
<1>4. /\ ~UnknownCommit /\ ~ServerStops
      /\ \A i : ~invalidateFails(i)
  BY DEF UnknownCommit, ServerStops, invalidateFails
<1> QED
  BY <1>2, <1>3, <1>4, invalidateLeaves DEF ServiceStep, CallerStep, InvalidationStep

--------------------------------------------------------------------------------
(* Freshness *)

\* If every change is followed by its invalidation and no page is renamed, no step makes
\* the cache outdated where no invalidation is due, however the pipelines of any number
\* of readers, changes and renders mix, but the write of a reader whose page changed
\* after it was looked up.
THEOREM CacheIsFresh ==
  ASSUME "lostInvalidate" \notin Faults, "rename" \notin Faults
  PROVE  Spec => Fresh
<1>1. TypeOK /\ [Next]_vars => [StaysFresh]_vars
  <2> SUFFICES ASSUME TypeOK, [Next]_vars, NEW id \in CacheIds
               PROVE  \/ UNCHANGED vars
                      \/ /\ BodyFresh(id) => BodyFresh(id)' \/ WritesOvertaken(id)
                         /\ MarkFresh(id) => MarkFresh(id)' \/ WritesOvertaken(id)
    BY CommitsOvertake DEF StaysFresh
  <2>1. CASE Tick \/ \E r \in Readers : ReaderStep(r)
    BY <2>1, KeptOrCurrent DEF BodyFresh, MarkFresh, CurrentPage, CurrentStatus
  <2>2. CASE ServiceStep
    <3>1. ~Due(id)' => ServiceLeaves(id)
      BY <2>2, ServiceStepLeaves
    <3>2. All(0).body = 0 /\ All(0).notfound = 0
      BY DEF All
    <3> QED BY <3>1, <3>2 DEF ServiceLeaves, BodyFresh, MarkFresh, CurrentPage, CurrentStatus
  <2> QED BY <2>1, <2>2 DEF Next
<1> QED BY TypeCorrect, <1>1, PTL DEF Spec, Fresh

\* If every change is followed by its invalidation, no step but the write of a reader
\* whose page changed after it was looked up puts or leaves in the cache a page that is
\* gone or has moved away, even if pages are renamed: what a rename leaves behind is a
\* 404 at the new address.
THEOREM CacheHoldsNothingGone ==
  ASSUME "lostInvalidate" \notin Faults
  PROVE  Spec => NothingGone
<1>1. TypeOK /\ [Next]_vars => [LeavesNothingGone]_vars
  <2> SUFFICES ASSUME TypeOK, [Next]_vars, NEW id \in CacheIds
               PROVE  \/ UNCHANGED vars
                      \/ /\ BodyNotGone(id) => BodyNotGone(id)' \/ WritesOvertaken(id)
                         /\ MarkNotGone(id) => MarkNotGone(id)' \/ WritesOvertaken(id)
    BY DEF LeavesNothingGone
  <2>1. CASE Tick \/ \E r \in Readers : ReaderStep(r)
    BY <2>1, KeptOrCurrent DEF BodyNotGone, MarkNotGone, CurrentPage, CurrentStatus
  <2>2. CASE ServiceStep
    <3>1. ~Due(id)' => ServiceLeaves(id)
      BY <2>2, ServiceStepLeaves
    <3>2. All(0).body = 0 /\ All(0).notfound = 0
      BY DEF All
    <3> QED BY <3>1, <3>2 DEF ServiceLeaves, BodyNotGone, MarkNotGone, CurrentPage
  <2> QED BY <2>1, <2>2 DEF Next
<1> QED BY TypeCorrect, <1>1, PTL DEF Spec, NothingGone

--------------------------------------------------------------------------------
(* Whole pages.  Where Redis executes a pipeline at once, the three keys of   *)
(* an entry live and die together, and hold the fields of one page.           *)

\* Is a page that is not a 404 one that this version rendered for this cache id?
OwnPage(id, page) ==
  page.notfound \/ (page.body.ver = page.rver /\ page.body.withName = WithName(id))

Whole ==
  \A id \in CacheIds :
    /\ ttl[id].rver = ttl[id].body /\ ttl[id].notfound = ttl[id].body
    /\ ttl[id].body # 0 => OwnPage(id, entries[id])

OwnPages ==
  \A r \in Readers :
    /\ At(r, "get") =>
         /\ reader[r].next \in {1, 4}
         /\ reader[r].next = 4 /\ ~reader[r].miss => OwnPage(reader[r].id, reader[r].page)
    /\ At(r, "set") => reader[r].next = 1 /\ OwnPage(reader[r].id, reader[r].page)

WInv == TypeOK /\ Whole /\ OwnPages

LEMMA PipelineAtOnce ==
  ASSUME "chunks" \notin Faults
  PROVE  PartEnds(1) = {3} /\ Part(1, 3) = {"rver", "notfound", "body"}
BY FieldNamesAre DEF PartEnds, Part, FieldNames

LEMMA OwnPageFields ==
  ASSUME NEW id, NEW p, NEW q,
         p.notfound = q.notfound, p.rver = q.rver, p.body = q.body, OwnPage(id, p)
  PROVE  OwnPage(id, q)
BY DEF OwnPage

LEMMA TickWhole == ASSUME WInv, Tick PROVE Whole'
<1> SUFFICES ASSUME NEW id \in CacheIds
             PROVE  /\ ttl'[id].rver = ttl'[id].body /\ ttl'[id].notfound = ttl'[id].body
                    /\ ttl'[id].body # 0 => OwnPage(id, entries'[id])
  BY DEF Whole, OwnPage
<1>1. /\ ttl[id].rver = ttl[id].body /\ ttl[id].notfound = ttl[id].body
      /\ ttl[id].body # 0 => OwnPage(id, entries[id])
  BY DEF WInv, Whole
<1>2. /\ ttl'[id].rver = Older(ttl[id].rver)
      /\ ttl'[id].notfound = Older(ttl[id].notfound)
      /\ ttl'[id].body = Older(ttl[id].body)
      /\ entries'[id] = Merge(entries[id], Nothing, Expired(id))
  BY DEF Tick
<1>3. ASSUME ttl'[id].body # 0 PROVE OwnPage(id, entries'[id])
  <2>1. "rver" \notin Expired(id) /\ "notfound" \notin Expired(id) /\ "body" \notin Expired(id)
    BY <1>1, <1>2, <1>3 DEF Expired
  <2>2. ttl[id].body # 0
    BY <1>2, <1>3 DEF Older
  <2> QED BY <1>1, <1>2, <2>1, <2>2, MergeFields, OwnPageFields
<1> QED BY <1>1, <1>2, <1>3

\* All three keys are read, and refreshed if they are there.
LEMMA cacheGetWhole ==
  ASSUME WInv, "chunks" \notin Faults, NEW r \in Readers, cacheGet(r)
  PROVE  Whole' /\ OwnPages'
<1> DEFINE id == reader[r].id
           all == {"rver", "notfound", "body"}
           absent == Absent(id, all)
           miss == reader[r].miss \/ absent # {}
<1>1. /\ id \in CacheIds
      /\ reader[r] \in [pc : {"get"}, id : CacheIds, ver : Versions, next : 1..4,
                        page : pageObjects, miss : BOOLEAN]
  BY StatesOf DEF WInv, cacheGet
<1>2. reader[r].next = 1
  BY DEF WInv, OwnPages, cacheGet
<1>3. /\ Goto(r, [reader[r] EXCEPT
                    !.next = 3 + 1,
                    !.page = IF miss THEN Nothing ELSE Merge(@, entries[id], all),
                    !.miss = miss])
      /\ ttl' = [ttl EXCEPT ![id] = Merge(@, All(TTL), all \ absent)]
      /\ entries' = entries
  BY <1>2, PipelineAtOnce DEF cacheGet
<1>4. /\ ttl[id].rver = ttl[id].body /\ ttl[id].notfound = ttl[id].body
      /\ ttl[id].body # 0 => OwnPage(id, entries[id])
  BY <1>1 DEF WInv, Whole
<1>5. IF ttl[id].body = 0 THEN absent = all ELSE absent = {}
  BY <1>4 DEF Absent
<1>6. Whole'
  <2>1. ttl'[id] = Merge(ttl[id], All(TTL), all \ absent)
    BY <1>1, <1>3 DEF WInv, TypeOK
  <2>2. /\ ttl'[id].rver = ttl'[id].body /\ ttl'[id].notfound = ttl'[id].body
        /\ ttl'[id].body # 0 => ttl[id].body # 0
    BY <1>4, <1>5, <2>1, MergeFields DEF All
  <2>3. \A j \in CacheIds : j # id => ttl'[j] = ttl[j]
    BY <1>3 DEF WInv, TypeOK
  <2> QED BY <1>3, <1>4, <2>2, <2>3 DEF WInv, Whole, OwnPage
<1>7. OwnPages'
  <2> DEFINE s == reader'[r]
  <2>1. /\ s.pc = "get" /\ s.id = id /\ s.next = 4
        /\ ~miss => s.page = Merge(reader[r].page, entries[id], all)
        /\ s.miss = miss
    BY <1>1, <1>3 DEF Goto, WInv, TypeOK
  <2>2. ASSUME ~s.miss PROVE OwnPage(id, s.page)
    <3>1. ttl[id].body # 0
      BY <1>5, <2>1, <2>2
    <3>2. s.page = Merge(reader[r].page, entries[id], all)
      BY <2>1, <2>2
    <3> QED BY <1>4, <3>1, <3>2, MergeFields, OwnPageFields
  <2>3. \A q \in Readers : q # r => reader'[q] = reader[q]
    BY <1>3 DEF Goto, WInv, TypeOK
  <2> QED BY <2>1, <2>2, <2>3 DEF WInv, OwnPages, At, OwnPage
<1> QED BY <1>6, <1>7

\* All three keys are written, with the fields of one page.
LEMMA cacheSetWhole ==
  ASSUME WInv, "chunks" \notin Faults, NEW r \in Readers, cacheSet(r)
  PROVE  Whole' /\ OwnPages'
<1> DEFINE id == reader[r].id
           all == {"rver", "notfound", "body"}
<1>1. id \in CacheIds /\ reader[r].next = 1 /\ OwnPage(id, reader[r].page)
  BY StatesOf DEF WInv, OwnPages, cacheSet
<1>2. /\ entries' = [entries EXCEPT ![id] = Merge(@, reader[r].page, all)]
      /\ ttl' = [ttl EXCEPT ![id] = Merge(@, All(TTL), all)]
      /\ Goto(r, Idle)
  <2>1. PICK to \in PartEnds(1) :
          /\ entries' = [entries EXCEPT ![id] = Merge(@, reader[r].page, Part(1, to))]
          /\ ttl' = [ttl EXCEPT ![id] = Merge(@, All(TTL), Part(1, to))]
          /\ to = 3 \/ to < 3
          /\ to < 3 \/ Goto(r, Idle)
    BY <1>1 DEF cacheSet
  <2>2. to = 3
    BY PipelineAtOnce
  <2>3. Part(1, to) = all /\ ~(to < 3)
    BY <2>2, PipelineAtOnce
  <2> QED BY <2>1, <2>3
<1>3. Whole'
  <2>1. /\ ttl'[id] = Merge(ttl[id], All(TTL), all)
        /\ entries'[id] = Merge(entries[id], reader[r].page, all)
    BY <1>1, <1>2 DEF WInv, TypeOK
  <2>2. ttl'[id].rver = ttl'[id].body /\ ttl'[id].notfound = ttl'[id].body
    BY <2>1, MergeFields DEF All
  <2>3. OwnPage(id, entries'[id])
    BY <1>1, <2>1, MergeFields, OwnPageFields
  <2>4. \A j \in CacheIds : j # id => ttl'[j] = ttl[j] /\ entries'[j] = entries[j]
    BY <1>2 DEF WInv, TypeOK
  <2> QED BY <2>2, <2>3, <2>4 DEF WInv, Whole, OwnPage
<1>4. OwnPages'
  <2>1. /\ reader'[r].pc = "idle"
        /\ \A q \in Readers : q # r => reader'[q] = reader[q]
    BY <1>2 DEF Goto, Idle, WInv, TypeOK
  <2> QED BY <2>1 DEF WInv, OwnPages, At, OwnPage
<1> QED BY <1>3, <1>4

LEMMA ReaderWhole ==
  ASSUME WInv, "chunks" \notin Faults, NEW r \in Readers, ReaderStep(r)
  PROVE  Whole' /\ OwnPages'
<1> DEFINE Good(s) ==
      /\ s.pc = "get" => /\ s.next \in {1, 4}
                         /\ s.next = 4 /\ ~s.miss => OwnPage(s.id, s.page)
      /\ s.pc = "set" => s.next = 1 /\ OwnPage(s.id, s.page)
<1>1. ASSUME NEW s, Goto(r, s), Good(s), UNCHANGED cacheVars PROVE Whole' /\ OwnPages'
  <2>1. \A q \in Readers : Good(reader[q])
    BY DEF WInv, OwnPages, At
  <2>2. \A q \in Readers : Good(reader'[q])
    BY <1>1, <2>1 DEF Goto, WInv, TypeOK
  <2>3. OwnPages'
    BY <2>2 DEF OwnPages, At, OwnPage
  <2>4. Whole'
    BY <1>1 DEF WInv, Whole, cacheVars
  <2> QED BY <2>3, <2>4
<1>2. CASE Request(r)
  BY <1>1, <1>2 DEF Request
<1>3. CASE cacheGetFails(r)
  <2>1. reader[r] \in [pc : {"get"}, id : CacheIds, ver : Versions, next : 1..4,
                       page : pageObjects, miss : BOOLEAN]
    BY <1>3, StatesOf DEF WInv, cacheGetFails
  <2> DEFINE s == [reader[r] EXCEPT !.next = 4, !.page = Nothing, !.miss = TRUE]
  <2>2. s.pc = "get" /\ s.next = 4 /\ s.miss = TRUE
    BY <2>1, Zenon
  <2>3. Good(s)
    BY <2>2
  <2> QED BY <1>1, <1>3, <2>3 DEF cacheGetFails
<1>4. CASE ServeCached(r) \/ renderPageFails(r) \/ cacheSetFails(r)
  BY <1>1, <1>4 DEF ServeCached, renderPageFails, cacheSetFails, Idle
<1>5. CASE ResolveNothing(r)
  <2>1. OwnPage(reader[r].id, NotFoundPage)
    BY DEF OwnPage, NotFoundPage
  <2> QED BY <1>1, <1>5, <2>1 DEF ResolveNothing, SetPage
<1>6. CASE Resolve(r)
  BY <1>1, <1>6 DEF Resolve
<1>7. CASE Render(r)
  <2>1. OwnPage(reader[r].id, RenderedPage(reader[r].id, reader[r].publish, reader[r].ver))
    BY DEF OwnPage, RenderedPage
  <2> QED BY <1>1, <1>7, <2>1 DEF Render, SetPage
<1> QED
  BY <1>2, <1>3, <1>4, <1>5, <1>6, <1>7, cacheGetWhole, cacheSetWhole DEF ReaderStep

LEMMA ServiceWhole == ASSUME WInv, ServiceStep PROVE Whole' /\ OwnPages'
<1>1. \A r \in Readers : reader'[r] = reader[r] \/ reader'[r] = Idle
  <2>1. CASE ServerStops
    BY <2>1 DEF ServerStops
  <2>2. CASE reader' = reader
    BY <2>2
  <2> QED
    BY <2>1, <2>2
       DEF ServiceStep, CallerStep, InvalidationStep, Change, Rename, UnknownCommit, Commit,
           invalidateCache, invalidateFails
<1>2. OwnPages'
  BY <1>1 DEF WInv, OwnPages, At, OwnPage, Idle
<1>3. ASSUME UNCHANGED cacheVars PROVE Whole'
  BY <1>3 DEF WInv, Whole, cacheVars
<1>4. ASSUME NEW i \in invalidations, invalidateCache(i) PROVE Whole'
  <2>1. i.id \in CacheIds
    BY DEF WInv, TypeOK
  <2>2. /\ ttl'[i.id] = All(0)
        /\ \A j \in CacheIds : j # i.id => ttl'[j] = ttl[j] /\ entries'[j] = entries[j]
    BY <1>4, <2>1 DEF invalidateCache, Del, WInv, TypeOK
  <2> QED BY <2>2 DEF WInv, Whole, All, OwnPage
<1>5. \/ UNCHANGED cacheVars
      \/ \E i \in invalidations : invalidateCache(i)
  BY DEF ServiceStep, CallerStep, InvalidationStep, Change, Rename, UnknownCommit, Commit,
         invalidateFails, ServerStops, cacheVars
<1> QED BY <1>2, <1>3, <1>4, <1>5

\* If Redis executes each pipeline at once, a cached page that is served was rendered
\* by this version of the renderer for this kind of address, whatever changes, fails
\* or expires meanwhile.
THEOREM CachedPagesAreOwn ==
  ASSUME "chunks" \notin Faults
  PROVE  Spec => []ServesOwnRender
<1>1. Init => WInv
  <2> SUFFICES ASSUME Init PROVE WInv
    OBVIOUS
  <2>1. Whole
    BY DEF Init, Whole, All
  <2>2. OwnPages
    BY DEF Init, OwnPages, At, Idle
  <2> QED BY <2>1, <2>2, InitTyped DEF WInv
<1>2. WInv /\ [Next]_vars => WInv'
  <2> SUFFICES ASSUME WInv, [Next]_vars PROVE WInv'
    OBVIOUS
  <2>1. TypeOK
    BY DEF WInv
  <2>2. CASE UNCHANGED vars
    BY <2>2 DEF WInv, TypeOK, Whole, OwnPages, OwnPage, At, vars, cacheVars
  <2>3. CASE Tick
    <3>1. OwnPages'
      BY <2>3 DEF WInv, Tick, OwnPages, At, OwnPage
    <3> QED BY <2>1, <2>3, <3>1, TickTyped, TickWhole DEF WInv
  <2>4. ASSUME NEW r \in Readers, ReaderStep(r) PROVE WInv'
    BY <2>1, <2>4, ReaderTyped, ReaderWhole DEF WInv
  <2>5. CASE ServiceStep
    BY <2>1, <2>5, ServiceTyped, ServiceWhole DEF WInv
  <2> QED BY <2>2, <2>3, <2>4, <2>5 DEF Next
<1>3. WInv => ServesOwnRender
  BY DEF WInv, OwnPages, OwnPage, ServesOwnRender, Hit, Looked, Usable
<1> QED BY <1>1, <1>2, <1>3, PTL DEF Spec

================================================================================
