# Verification of anytype-publish-server

TLA+ specifications of the publish server, the TLC runs that check them on small
instances, and theorems about them that TLAPS checks for every instance.
`tlc -config X.cfg M` checks a run (the table below gives `X` and `M`),
`tlapm M.tla` checks the proofs of each module named `...Proofs`. `PROJECT.json` lists
the runs, the mutants that each property catches, the source lines each definition stands for, the
hazards of the code and the findings.

## The system

An account publishes a page of one of its spaces under a uri. The client asks the
server for an upload url over RPC (`Publish`), and posts a tar archive to it over HTTP
(`UploadTar`). The server puts the files into S3, records the publish as the active one
of the page in MongoDB, and drops the page from the Redis cache of the gateway. The
gateway renders pages for readers. Every 300 seconds a cleanup deletes publishes that
were replaced or unpublished, and those that were never uploaded within an hour.

| Component | State | Operations | Interacts with |
|---|---|---|---|
| `publish/publishrepo` | collections `object` (one document per shared page, `_id` = Identity/Uri, `activePublishId`) and `publish` (one per requested upload: Created, Published, ReadyToDelete) | ObjectCreate (with changeObjectUri), ObjectDelete, GetPublish, FinalizePublish, IterateReadyToDeleteIds, DeletePublish, DeleteOutdatedPublishes, DeleteOutdatedObjects, reads | `db` |
| `db` | MongoDB sessions | Tx | MongoDB |
| `publish` service | goroutine per request, ticker, invalidation callback | Publish, UnPublish, UploadTar, Cleanup, ResolveUri, GetPublishStatus, ListPublishes | repository, store, name service, gateway (callback) |
| `publish/handler.go` | none | RPC methods, `POST /api/upload/{publishId}/{uploadKey}` | service |
| `store` | S3 bucket, keys `publishId/file` | Put, Get, DeletePath | S3 |
| `gateway` | three Redis keys per page and kind of address, one hour TTL refreshed by reads | handlePage, cacheGet, cacheSet, renderPage, invalidateCache | service, name service, Redis |
| `nameservice` | name cache, 10 minutes TTL | ResolveName, ResolveIdentity | naming node |
| `redisprovider` | Redis client | Redis | gateway |
| `publishclient` | RPC pool, a pipe per upload | Publish, UploadDir, UnPublish, ... | server |
| `cmd/server`, `config`, `account` | component list | start in order, stop | all |
| `publishapi` | none (generated) | encodings | client, handlers |

What is hard here: requests for one page run concurrently and carry what they read
earlier (`GetPublish` reads the active publish minutes before `FinalizePublish` uses
it); transactions isolate by snapshot, so that writes of different documents do not
exclude each other; the bucket, the database and the cache are changed one after the
other, with a crash possible between any two; the cleanup runs against all of it; and
errors of S3, Redis and unmatched updates are dropped.

What makes each component correct:

- repository: an address belongs to one page and does not change hands under a page;
  a rename loses nothing; what a page shows is never taken for an abandoned upload;
- service: a page shows a whole upload or nothing; what is to be deleted stays so and is
  deleted in the end; no step but a late finalization leaves a file without somebody to
  delete it;
- store: after a successful DeletePath nothing is left under the path;
- gateway: once an invalidation is over, a cached page is the one a render would give, its
  parts come from one render, and its files are there; no step but the write of a render
  that a change overtook puts anything else there, and what it puts there expires;
- client: a call returns what the service found, or the error it had; UploadDir reports
  success only of a whole archive and leaves no goroutine behind;
- wire format: what one end marshals the other end reads as the same message, whichever
  version it is, and no bytes make either end read outside of a buffer.

## Modules

| Module | Stands for |
|---|---|
| `PublishRepo` | the two collections and the transactions over them, under the most general callers |
| `Store` | the bucket: Put, one page of a listing, DeleteObjects |
| `PublishService` | request handlers, upload, cleanup, time and restarts, over `Repo == INSTANCE PublishRepo` and `S3 == INSTANCE Store` |
| `PublishRepoProofs` | the inductive invariant of `PublishRepo`, five theorems, and what a step may do to the publishes |
| `PublishServiceProofs` | the service implements `PublishRepo`; its type correctness; nothing comes back from deletion |
| `PublishPagesProofs` | what a page shows is whole; unpublishing and replacing retire what was shown |
| `PublishFilesProofs` | no step but a late finalization leaves a file without somebody to delete it |
| `Gateway` | requests for pages, the cache entries in Redis, invalidation |
| `GatewayProofs` | type correctness of the gateway, freshness and wholeness of its cache, also where pages move |
| `PublishSystem` | one server: `PublishService` and `Gateway` joined by the callback, and the order in which they start |
| `PublishSystemProofs` | the server implements `PublishService` and `Gateway`; its cache is kept fresh, and the pages in it can load their files |
| `UploadClient` | UploadDir: the goroutine that walks, the one that sends, the pipe and the shared error |
| `PublishApi` | the generated code that marshals and unmarshals the messages of the API |
| `Rpc` | one call: the client's method, the stubs, the handler, the answer or the error's code |
| `PublishApiProofs` | what the codec does with messages and bytes of any length |
| `PublishClient` | the client: calls, and the upload that follows a Publish |
| `PublishClientProofs` | a request and its answer arrive as they were sent, and no bytes make an end panic; type correctness of an upload, that success means a whole archive, and that no goroutine is left waiting |
| `MCPublishRepo`, `MCPublishService`, `MCGateway`, `MCPublishSystem`, `MCPublishClient` | symmetry, the values of `UrisOf`, and the strings, documents and bytes of calls, for TLC |

`PublishService` composes `PublishRepo` and `Store` by INSTANCE; `PublishSystem` extends
`PublishService` and has `Site == INSTANCE Gateway` over its own state; `PublishClient`
extends `UploadClient` and `Rpc`, which extends `PublishApi`.

### PublishRepo

`objects` and `publishes` are the sets of documents of the two collections. Publish ids
are numbers handed out in order by `lastId`, and double as time: the timestamp of an
object is the publish it was created with, and "before" an hour ago is a publish id
(`cutoff`). `tx[c]` is the transaction caller `c` has open: its request, the snapshot of
both collections, and which ids others have written since. `Commit` takes effect only
without a write conflict; an update that changes nothing is not a write and conflicts
with nothing. `Abort` stands for every failure: duplicate key, nothing found, conflict,
connection. `size` is a sum of file sizes and is represented by the set of files
(`entries`). Versions, upload keys and identities' keys are left out: a request with a
wrong id or key changes nothing.

A caller may finalize any publish with any previous publish; only the object id is that
of the publish, which never changes. This is more than the service does, and what is
proved of it therefore holds however late and stale a request is.

`DeleteOutdatedObjects` is modelled as it is written: its filter is evaluated on publish
documents.

### PublishService

A step of a handler or of the cleanup is what its goroutine does between two calls that
leave the process: one statement outside a transaction, the begin or the end of a
transaction, one call to S3. `handler[h]` is the position of a request and its local
variables; `handler[h].pc` is

    idle -> create -> (invalidate) -> idle                         Publish
    idle -> unpublish -> invalidate -> idle                        UnPublish
    idle -> getObject -> put* -> finalize -> invalidate -> idle    UploadTar
                           \________\-> list -> delete -> idle     its deferred DeletePath

`cleaner` runs publishes -> objects -> find -> iterate (-> delete -> deletePublish)* and
starts again. `Age` lets the next publish become an hour old (`horizon`). `Crash` aborts
every transaction and forgets every local variable. The set `Faults` says what else the
environment may do; a run whose property needs an assumption leaves the fault out:

- `crash`: the server restarts at any point, any number of times;
- `s3`: a list or delete fails, or deletes some of the keys and reports success;
- `lostReply`: a commit takes effect and its caller sees an error;
- `sharedUrl`: two requests use one upload url at the same time;
- `slowUpload`: an upload ends more than an hour after its publish was created;
- `emptyTar`: an archive without files;
- `mongo`: a statement outside a transaction fails: the second query of GetPublish, or one
  of Cleanup, which logs the error and goes on with the next (`CleanerAfterError`).

Nothing limits when a fault strikes, except `FairSpec` (below).

Here `invalidateCache` is a step of the handler that changes nothing: the cache is in
`PublishSystem`. `Publish` goes on to it if the page had another uri, but not if that was
the empty one (`EmptyUri`), which the code cannot tell from none. The upload limit is one
of the reasons for `UploadFails`.

### Gateway

`entries[id]` and `ttl[id]` are the three Redis keys of a cache id: what they hold and
how many ticks they have to live. `active[a]` is what the database shows at an address;
a publish is named by the change that made it visible, and a body is the triple of what
it was rendered from (publish, version of the renderer, analytics code). A request is

    idle -> get* -> (ServeCached) -> idle
                \-> (ResolveNothing) -> set* -> idle
                \-> (Resolve) -> render -> set* -> idle

where `get*` and `set*` run the commands of a pipeline. Redis keeps the commands of one
connection in order and does not keep those of others out; it executes at once what
arrives at once. With the fault `chunks` a pipeline is executed in up to three parts,
which a large body makes likely; without it, as a whole. A failed pipeline was executed
up to any of these points; a `cacheGet` that misses a key gives up what it read of the
others. The response is sent between `render` and `set` and changes
nothing.

A commit may meet a render of the same address at any point: nothing in the code prevents
it. The reader goes on to write what it resolved before (`Overtaken`), which is the one way
the cache gets what its address does not show while every invalidation is done; the
properties of the cache name that write as their exception (`WritesOvertaken`).

A caller is a goroutine of the service. `Change` is a commit that changes what an address
shows (FinalizePublish, UnPublish), and puts an invalidation under way; `invalidateCache`
deletes one entry, first the one of addresses with a name. With the fault `rename` a page
moves from one address to another, and only the former is invalidated. `lostInvalidate` stands for a DEL that fails,
a commit whose caller sees an error (`UnknownCommit`), and a server that stops between
commit and invalidation or has no callback yet (`ServerStops`).

### PublishSystem

The server: every step of `PublishService`, and every reader of `Gateway`, where `active` is
what `ResolvePublishUri` finds in `objects` (`Shown`) and the invalidations are the handlers
at `invalidate`. `invalidateCache` is two steps, one DEL each; `halfway` says which handlers
have done the first. `callback` becomes TRUE when the gateway runs: the upload API is up
before it, RPC and pages are served after it (the order of `Bootstrap`), and a restart makes
it FALSE again. Until then an invalidation does nothing (`NoCallback`). `CacheFaults` has
`chunks` of `Gateway`, and `redis`: a DEL fails. Commits and renders meet here as they do in
`Gateway`. The other faults of `Gateway`
are not assumed but derived (`SiteFaults`): `rename` if a page may have two uris,
`lostInvalidate` if Redis may fail, the server may stop, a reply may be lost, or a page may
leave the empty uri. `SiteSpec` is the refinement: the server implements `Gateway` with
these faults, so what is shown of `Gateway` under them holds of the server.

### UploadClient

`err` is one variable for both goroutines: `req, err :=` and `resp, err :=` stand in the
outermost block of UploadDir and assign its named result. Every access is a step, the last
of which is what UploadDir returns (`ReturnErr`): a `return` with a value assigns err, and
the result is read after the deferred `resp.Body.Close`, so the end of the walk may come in
between. A step is taken to be atomic; the accesses are a data race, and a torn interface value would only
mix two errors. What is written to the pipe is counted in entries of the archive; that the
archive lacks its trailer, because `tw.Close` comes after `CloseWithError`, changes nothing
for a reader that takes the end of its input for the end of the archive.

### PublishApi

A message is a record of its fields and of the bytes of its unknown fields, a string the
sequence of its bytes, a pointer to a `Publish` a sequence of none or one. `MarshalX` is what
`MarshalToSizedBufferVT` writes, `SizeX` what `SizeVT` counts; `MarshalVT` puts the two
together as the code does, in a buffer of that size which is filled from its end, so that a
size that is too small is a panic. `DecodeField` is one round of the loop of an `UnmarshalVT`,
with the switch over field numbers as a table of the message's fields; its errors and early
returns are those of the code, and an index out of range is a panic. The generated code
repeats the loop for each message; the model has it twice: `UnmarshalPublish` for a
`Publish`, which has only numbers and strings (`PlainField`), and `UnmarshalVT` for the
messages that may hold a `Publish` (`AnyField`). Each loop, also those of `ReadVarint` and
`Skip`, is a recursive function of the place it has got to. Integers keep their
width as a constant: `IntBits` for 64 bits, `SmallBits` for the 32 of a field number and an
enum. A varint still has seven bits in a byte, and overflows after as many bytes as its
integer needs. `EncodeVarint`, `SizeOfVarint` and `Skip` belong to vtprotobuf.

### Rpc

`call` is one call under way: called -> requested -> handling -> replied -> returned, with the
bytes on the wire. The client marshals and names a path (`ClientStub`); the server finds the
handler registered for that path (`Description`), unmarshals the request type of that
handler, and sends an answer or the code of an error (`Code`), which the client turns into an
error again (`Unwrap`). What the handlers find is any of `Documents` the request asks for, or
that object without its publish, since the two are read one after the other. Either end may
be a program of another version, with `Extensions` in its messages (fields of numbers that
this version does not use, one after the other: `LaterFields`), or a program that sends any
of `ForeignBytes`. A connection may break at every point.

### PublishClient

An application that calls the methods one after the other, and passes the url that
`Publish` returned to `UploadDir`.

## Runs

| Run | Question | Instance |
|---|---|---|
| `repository` (`MCPublishRepo.cfg`) | are the collections consistent under any two concurrent callers? | 2 callers, 2 pages, 2 uris, 2 publishes |
| `pages` | is a page that shows something whole, does a file lose who deletes it to nothing but a late finalization, and do unpublishing and replacing retire what was shown? | 2 handlers, 1 page, 3 publishes |
| `restarts` | is the page whole with restarts, failing S3 calls and statements, empty archives and short listings, and does nothing come back from deletion? | 2 publishes of 2 files, listings of 1 |
| `environment` (refinement) | does the server stay within the callers of `PublishRepo` and within `Gateway` under renames, restarts, lost replies and a failing Redis, and does nothing come back? | 2 handlers, 2 uris, one of them empty, 2 publishes, no files, no readers |
| `site` (refinement) | does every step but the write of an overtaken render leave cached pages that can load their files, and does the server implement `Gateway`, while the cleanup runs and statements fail? | 1 handler, 1 reader, 2 publishes |
| `cleanup` (liveness) | is everything ReadyToDelete deleted in the end, and does every Created publish expire? | 2 publishes, restarts, failing statements, uploads of any length |
| `freshness` | does every step keep the cache up to date once an invalidation is over, but for the write of an overtaken render? | 2 readers, 1 caller, 1 address (2 entries), 2 publishes, pipelines in parts |
| `shared_cache` (liveness) | is a cached page that is served a whole page of the own version, and does a stale entry go away? | 1 reader, 1 caller, 2 addresses, 2 versions, every fault but `chunks` |
| `client` (liveness) | do requests, answers and errors arrive as what was sent, is every byte sequence decoded without a panic and to what can be sent on unchanged, does success mean a whole archive, does no goroutine wait for one that is gone, and does an upload end? | 3 entries; 15 and 6 bits; strings of 0 and 130 bytes |

Violations, each a disagreement between the code and what it says (PROJECT.json has the
quotations):

| Run | What TLC shows |
|---|---|
| `lost_page` | a rename during an upload: the finalization retires the publish the renamed page still shows, and its files are deleted |
| `outdated_objects` | objects never uploaded are never deleted |
| `empty_upload` | UploadDir of a missing directory uploads an empty archive and returns nil |

### Bounds

Two handlers are enough for every race between two requests, and the cleanup is
a third process. Three publishes give a page a first, a present and a next upload, which
is what a stale `activePublishId` needs (`lost_page` needs all three); where the faults
multiply the states, two publishes still give an upload that replaces another. One page
is enough where pages do not meet; they meet only in an address, which `repository`
covers with two pages and two uris. One file distinguishes present from deleted; `restarts`
has two, and a listing returns one. In `environment` the properties are about the database
and the invalidations, which see no files and no readers; `site` has both, and one handler:
what meets there is a request, the cleanup and a reader. Handlers, files, readers, and in
`repository` pages and uris, are interchangeable; the runs with a liveness property use no
symmetry.

Two readers are enough for two renders that mix, and for a request that meets one
(`freshness`); one address is enough because entries of different addresses share nothing
but a rename, for which `shared_cache` has two. Two publishes let the cache be filled,
invalidated, filled and invalidated again; a page that appears while a request is answering
404 is enough for a stale entry. A time to live of one tick makes keys expire at any point.

Three entries let an upload fail at the first, in the middle and after the last. 15 bits
keep what matters of 64: a varint takes a whole number of bytes and one bit more
(15 = 2*7 + 1, 64 = 9*7 + 1), so the last byte of a varint may overflow, and a length may be
negative; 6 bits make field numbers and enums narrower than a varint, as 32 bits are. A
string of 130 bytes needs two bytes for its length. The bytes of other programs are all
sequences of up to four of eight bytes, among them tags of every wire type for known and
unknown fields, and a few longer ones that nest a message. Two listed pages make an
order, and a page that is listed once.

Deadlock is checked in `repository` only: once the publishes are used up a blocked request
may be all there is, a server without requests does nothing, and an upload ends.

### Fairness

`FairSpec` of the service: the periodic sync keeps calling Cleanup, which has no early
return, so its next step is eventually taken (`WF_vars(CleanerStep)`); time passes
(`WF_vars(Age)`); restarts come to an end, and so do failures of the cleanup's statements
that leave something undone (`CleanerLeavesUndone`: a statement that fails when there is
nothing to do for it is the same step as one that succeeds). So everything one cycle leaves
undone, at whatever statement it fails, is left to a later one, and `Reclaimed` says that the
later one does it. Nothing is assumed of clients or handlers: a
client may stall for ever, which is why `cleanup` allows `slowUpload`. `Reclaimed` is
checked for a provider that accepts a DeleteObjects without keys: with one that refuses
it (`EmptyDeleteFails`) a restart between DeletePath and DeletePublish leaves the publish
ReadyToDelete for ever.

`shared_cache` assumes only that time passes (`WF_vars(Tick)`): readers may stop anywhere.
`ClientSpec` assumes that the Go scheduler runs both goroutines, that the server answers once
the body has ended, and that the transport closes the body when there is an answer; no
failure is assumed to happen, and no call has to return. The http client has no timeout, so
without an answer an upload may last for ever.

### Assumptions that matter

- `PageComplete` fails under `sharedUrl`, `lostReply`, `slowUpload` and renames.
- `FilesAccounted` makes an exception of a finalization that comes too late, which is known
  not to hold (below); it fails with restarts, with partial deletes, with short listings and
  with slow uploads.
- `Reclaimed` is not checked with `s3`: a delete that reports success and leaves keys makes
  the cleanup forget them.
- `NoResurrection` fails under `sharedUrl`.
- `CachedPagesHaveFiles`, `Fresh` and `NothingGone` make an exception of the write of a reader
  that was overtaken: its page changed after it was looked up. How long what it wrote can
  stay is `Heals`.
- `CachedPagesHaveFiles` fails wherever an invalidation may be lost or late, or a page lose
  its files: under `crash`, `lostReply`, `redis`, `slowUpload`, `sharedUrl` and renames.
- `Fresh` fails under `lostInvalidate`, and at the new address under `rename`, where a 404
  stays. `NothingGone` is what is left of it under `rename`; `lostInvalidate` breaks it too.
- `ReplacementRetires` makes an exception of an upload that read of another publish than the
  one it replaces; it fails under `sharedUrl`.
- `ServesOwnRender` fails under `chunks`.
- `UploadEnds` makes an exception of a url no request can be made of: nobody reads the pipe,
  and the walker stays; so does `NeitherWaitsAlone`. `SuccessMeansComplete` fails with `missingDir` (`empty_upload`).

## Proofs

`PublishRepoProofs` proves, for any sets of callers, accounts, pages, uris and files and
any bound on publishes (the only assumption is `MaxPublishes \in Nat`):

- `TypeCorrect`: `Spec => []TypeOK`;
- `ActiveIsSafe`: `Spec => []ActiveWasFinalized`, what a page shows was finalized;
- `RenameIsWhole`: `Spec => RenameKeepsPage`, a rename moves the document as it is;
- `UriIsSafe`: `Spec => NoUriTheft`, an address does not change hands;
- `Invariant`: `Spec => []IInv`, from which the others follow.

None of these is inductive. A commit writes what it computed from a snapshot, so the
invariant must say what a snapshot still tells about the present: `SnapshotFresh` (where
nobody else wrote, snapshot and collection agree), so a commit without a conflict acts on
the present documents; `UniqueIds`; `IdsHandedOut` (a new publish id is new to every
collection, snapshot and request); `FinalizedSeen` (a publish about to be finalized is in
the snapshot if it exists at all, as none appears later with an old id); and
`NeverCreatedAgain`, which covers the case in which FinalizePublish changes nothing,
because it wrote the same status before, and so meets no conflict. `CommitInv` proves
once that a commit preserves `IInv` if what it writes is consistent in itself;
`ObjectCreateInv`, `ObjectDeleteInv` and `FinalizePublishInv` show this of the three
transactions. `CommitMoves` does the same for the two action properties. TLC checked
`IInv` on a small instance before it was proved.

`PublishServiceProofs` proves, for any sets of handlers, pages, uris and files, under every
fault unless it says otherwise, and from `MaxPublishes \in Nat` alone:

- `ImplementsRepo`: `Spec => RepoSpec`, so that the theorems above hold of the service;
- `TypeCorrect`: `Spec => []TypeOK`;
- `NothingComesBack`: `Spec => NoResurrection`, where `Faults` lacks `sharedUrl`;
- `Invariant`: `Spec => []IInv`, from which the first two follow.

That a step of the service is one of `PublishRepo` needs an invariant, because a handler
finalizes with what it read long ago: `Sound` says that the object a handler holds is the one
its publish was made for, if that is still there, and that every id it holds was handed out;
`CleanerKnows` says the same of the cleanup. Both survive the steps of everybody else because
a publish keeps its object and ids only grow (`NextPublishes` of `PublishRepoProofs`, whose
theorems are used through an instance of that module; the lemmas `Same...` identify its
operators with those the service uses).

`NothingComesBack` needs more (`UploadInv`): an upload under way has its publish to itself
(`OneUploader`), that publish is still Created (`UploadsCreated`) and the one it will replace
is not (`ReplacesShown`), and the open transaction of a finalization is about that upload
(`TxMatches`). Then no finalization can meet a publish that is ReadyToDelete: it was not
Created when the upload began, nothing returns to Created, and nobody else finalizes it.
Without the check of the status (service.go:180) or with two uploads to one url each of
these breaks.

`PublishClientProofs` proves of a call, for strings, extensions, documents and integer widths
of any size

- `EveryRequestArrives`: `ClientSpec => []RequestArrives`. The inductive invariant `Requesting` adds what is on its way
  (`RequestSent`: the wire holds what the client's stub marshalled of one of the `Requests` of
  the method). The step that matters is `ServerReceives`: the path the stub names is
  registered for the same method (`MethodsAre`), with a request type whose `UnmarshalVT` gives
  back what `MarshalVT` wrote (`RequestRead`);
- `EveryAnswerArrives`: `ClientSpec => []AnswerArrives`. `Answering` adds to `Requesting` what is
  on its way back (`AnswerSent`: the wire holds what was marshalled of one of the handler's
  answers with an extension, or the code of its error), and that a call another program
  answered stays `foreign` (`ForeignReplied`). What a handler answers shows the objects it
  found (`AnswersAre`); the client's `UnmarshalVT` gives it back (`AnswerRead`); and no two
  errors share a code, nor has one the code of an error without a name (`CodesTell`);
- `NothingPanics`: `ClientSpec => []NeverPanics`, for any `ForeignBytes`, from the same
  invariant: `Harmless` of each message type says that bytes of any kind are decoded to a
  value or refused, and of what is sent `SizeVT` counts every byte that `MarshalVT` writes.

The round trips are in `PublishApiProofs`. The codec's loops are recursive functions, and the
library's theorems about recursion take an operator as a parameter, so the module proves its
own over sets: `RankInduction` and `Recursion` (a function that is defined by recursion along
a rank, here the bytes that are left, exists). With them `ReadVarintTyped`, `SkipTyped` and
`UnmarshalDecodes` say that bytes of any kind are decoded to a value of the type, at a place
further on, or refused, and never indexed out of range: `BoundedIs` is the lemma about the
three comparisons before a slice, where `SkipBounded` keeps the sum of two ints from
overflowing. `VarintIsRead`, `StringStep` and `LaterRead` say that what was written is read
back where it stands; `VarintMoves` and `SkipMoves`, that this does not depend on what stands
before it. A message is read field by field (`Covered`): after field n it has the first n
values that were written. The answers have numbers and nested messages too: a number of any
sign is the varint of its two's complement (`Numbers`, for every width), a `Publish` in an
answer is read by a loop of its own between its first byte and its last, and a list is read
one `Publish` at a time, each appended to those before. For all of them the size that is
counted is that of what is written, so the buffer is filled to its first byte and no further.

The assumptions, which TLC evaluates in `client`, are about what a program can hold in memory,
what the database holds, and what a later version may send: strings, foreign bytes and
whatever is marshalled are shorter than the largest int (`StringsAssumption`,
`ForeignBytesAssumption`, `RequestsAssumption`, `AnswersAssumption`); a document has the
fields of an object, with numbers of 64 bits and at most one publish
(`DocumentsAssumption`); and extensions are `LaterFields` (`ExtensionsAssumption`).

Of an upload the module proves, for archives of any length (`Entries \in Nat \ {0}`):

- `TypeCorrect`: `Spec => []TypeOK`;
- `UploadIsWhole`: `Spec => []SuccessMeansComplete`, where `Faults` lacks `missingDir`. The
  invariant `Complete` says where the two goroutines may be relative to each other: before
  the request is made nothing of the walk has happened (`NotBegun`, which `missingDir`
  breaks), during client.Do an err that is nil at the end of the walk means all entries were
  sent (`EndsHonestly`), an accepted archive is whole (`AcceptedIsComplete`), and so is one
  for which UploadDir is about to return nil (`ReturnsHonestly`), though the server need not
  have accepted that one (below);
- `NobodyIsLeftWaiting`: `Spec => []NeitherWaitsAlone`, under every fault: the safety half of
  `UploadEnds`, that neither goroutine waits for one that is gone. The invariant (`Waits`)
  needs that, before client.Do, an err which is not nil can only come from a walk that is
  over (`OnlyTheWalkFailed`): then UploadDir returns, and there is nobody it leaves behind;
- `ClientIsUpload` and `ClientUploadsWell`: a client's calls and uploads implement `Spec`, so
  that the three hold of `ClientSpec`, which is what the run checks.

`GatewayProofs` proves, for any readers, addresses, versions, time to live and bound on
changes:

- `TypeCorrect`: `Spec => []TypeOK`, under every fault;
- `CacheIsFresh`: `Spec => Fresh`, where `Faults` has neither `lostInvalidate` nor `rename`;
  `chunks` is allowed, and commits meet renders at any point. The lemmas
  behind it: `CommitsOvertake`, that a reader renders and writes what the query answered, so
  that only a commit overtakes it; `KeptOrCurrent`, that a part
  of an entry after a step is the one of before or current, unless an overtaken reader wrote
  it; `ServiceStepLeaves`, that a step of the service either deletes an entry, or makes it
  due, or leaves it and its address alone, except that a page may move in where nothing was
  shown;
- `CacheHoldsNothingGone`: `Spec => NothingGone`, where `Faults` lacks `lostInvalidate`; pages
  may move. It has no run of its own: TLC found it to hold with two readers and two
  addresses before it was proved, and with pipelines in parts that is beyond TLC. It rests
  on the same lemmas;
- `CachedPagesAreOwn`: `Spec => []ServesOwnRender`, where `Faults` lacks `chunks`; the
  other faults are allowed. The invariant is `Whole` (the three keys of an entry live and
  die together and hold the fields of one page, which is a 404 or was rendered for this
  cache id) with `OwnPages`, the same of what readers have read and are about to write.

`PublishPagesProofs` goes on from `UploadInv`:

- `PagesWhole`: `Spec => []PageComplete`, where no page has two uris (`NoRename`) and `Faults`
  has none of `sharedUrl`, `slowUpload` and `lostReply`: the assumptions without which TLC
  finds counterexamples (`lost_page` is the one with a rename). Restarts, failing S3 calls and
  statements, and empty archives are allowed;
- `UnPublishIsWhole` and `ReplacementIsWhole`: `Spec => UnPublishRetires` and
  `Spec => ReplacementRetires`, where `Faults` lacks `sharedUrl`; renames, lost replies, slow
  uploads and restarts are allowed.

`PageComplete` breaks when somebody takes away what a page shows, so its invariant says who
works on a publish and how long that excludes the others. `ApartInv` is about time and
ownership: a publish is in the hands of one request (`UsersApart`); it stays there as long as
the upload lasts (`UploadsThere`), since every upload is younger than what the cleanup
takes (`InTime`); and the cleanup deletes only what is ReadyToDelete (`CleansRetired`,
`KeysOwn`). `PagesInv` adds what ties a publish to its page: a page shows publishes created
for its own address (`ShownOwn`), and so does the one an upload replaces (`PrevOwn`); the
files stored so far are there (`FilesThere`); what a failed upload takes away is not shown
(`FailedNotShown`); and the transaction of a finalization carries what the upload read
(`TxWhole`) and sees the page if that still shows what it is going to replace
(`ShownSeen`). So a publish is retired by the transaction that makes its page show another
one, or that transaction meets a write conflict. The other two need another strengthening
(`SnapshotWhole`): a snapshot that has the object has its publish too, and what it has as
ReadyToDelete is so still. So ObjectDelete retires what it removes, and FinalizePublish the
previous publish it was given: either it finds and marks it, or that was marked before
(`FinalizeRetires` of `PublishRepoProofs`).

`PublishFilesProofs`:

- `AllFilesAccounted`: `Spec /\ []UploadsFit => FilesAccounted`, where `Faults` has none of
  `sharedUrl`, `slowUpload`, `crash` and `s3`. `UploadsFit` says that no publish ever has more
  files than one page of a listing returns, which the code needs and does not enforce
  (store.go:140), so that it is a hypothesis about behaviours and not about a constant. A
  file is accounted for if a request is at work on its publish, or the publish is
  ReadyToDelete, or a page shows it. The proof follows these three: `ReadyStaysAccounted`
  (what is ReadyToDelete stays so until its files are gone), `ShownStaysAccounted` (what a
  page stops showing is retired, unless the upload that replaces it had read of another
  publish), and `UsedStaysAccounted` (a request is done with a publish when a page shows
  it, or its files are gone, unless the page was not there any more);
- `SmallUploadsAccounted`: `Spec => FilesAccounted` of an instance where it cannot fail,
  `Cardinality(Files) <= ListMax`.

`FilesInv` adds to `ApartInv` that whoever deletes the files of a publish has listed all of
them (`ListedAll`), which holds only because nobody else stores any under its id; that none is
left when the cleanup deletes the document (`NoneLeft`); and that an upload starts with none
(`StartsEmpty`), so that a publish that expires had none.

`PublishSystemProofs` proves of the whole server, for any handlers, readers, pages, files and
versions and any time to live:

- `SystemIsService`: `SystemSpec => Spec`, so that all of the above holds of the server;
- `ImplementsGateway`: `SystemSpec => SiteSpec`, under every fault. The cache does not
  see transactions, uploads and pages; it sees `Shown` and `Invalidations`, which the proof
  recomputes for each step of the service. The invariant (`SystemInv`) has what makes this
  possible: an address is one object's (`IInv`); a finalization changes what its own
  object shows (`TxMatches`, `TxWhole`), and a Publish is for a uri the page may have
  (`UrisOwn`); and there is an invalidation before there is a callback only after a restart
  (`CallbackFirst`), as the upload API is up before the gateway. Everything else is a step of
  `Gateway` as it stands. `SiteFaults` says which faults of `Gateway` this needs: a
  rename, and a lost invalidation, are allowed only if the service can produce them;
- `SiteIsFresh`, `SiteHoldsNothingGone` and `SitePagesAreOwn`: `CacheIsFresh`,
  `CacheHoldsNothingGone` and `CachedPagesAreOwn` carried over by that refinement (the lemmas
  `Same...` identify the operators of the two instances). `SiteHoldsNothingGone` lets pages
  be renamed, if none has the empty uri: leaving that one, a page is not invalidated;
- `CachedPagesLoad`: `SystemSpec => CachedPagesHaveFiles`, where `CacheFaults` lacks `redis`,
  `Faults` lacks `sharedUrl`, `slowUpload`, `lostReply` and `crash`, and `NoRename`. Commits
  meet renders at any point: the statement's exception is the write of a reader that one
  overtook. A page that was put in the cache by such a write is no concern of the property
  until it is replaced; of any other, whose files are there before a step, the proof shows
  that they are there after it. Either the step writes the entry, with what the address shows
  now (`KeptOrCurrent` carried over), which is whole by `PagesWhole`; or it leaves the entry,
  and `StaysLoadable` says what could take the files of a Published publish away: only a
  deletion by a request that failed, whose publish was never shown (`FailedUnpublished`),
  or by the cleanup, of what is ReadyToDelete. A publish becomes that only in the commit that
  makes the page show another (`CachedOwn`: a cached publish was made for the address it is
  cached for, because every page in the cache or on its way there comes from a query for that
  address, `HoldsFrom`), and then the entry is due (`DueStays`).

`PublishSystem` assumes of its constants what `Gateway` does (`NoVersion` is no version,
the time to live is not 0).

Only model-checked: liveness (`Reclaimed`, `Expires`, `Heals`, `UploadEnds`), which is out of
the prover's reach, as is ENABLED; and `SendsOnUnchanged`. The proofs show that a message
this version or a later one made survives; a message decoded from bytes of any kind may hold
unknown fields that no version would write (a known number with another wire type, a varint
longer than it need be), and that these too are read back as they are is not proved.

## Known not to hold

Seen with the models, but no run is spent on them:

- two concurrent ObjectCreate for one page under two uris both insert a document, as
  neither writes what the other reads and no index is unique (publishrepo.go:105);
- a publish finalized after its page was unpublished or renamed is Published and shown by
  nothing, and one replaced by an upload that had not read of it likewise; nothing marks
  them ReadyToDelete, so their files stay (publishrepo.go:291, 308). `FilesAccounted` names
  these steps as its exception (`FinalizedLate`);
- a page rendered before a change is written to the cache after its invalidation, and
  served for an hour from its last read (gateway.go:151);
- DeletePath deletes the first page of the listing and forgets the rest (store.go:140);
- a request between two parts of a `cacheSet` finds the new version next to the old body,
  or the 404's empty body next to a page's mark, and serves it (gateway.go:206);
- a publish document does not record the page it was made for: an address that passes to
  another page during an upload shows the upload of the former (publishrepo.go:278);
- the answer to GetPublishStatus says Created of a page that is published, if its publish
  was replaced and cleaned up between the two queries (publishrepo.go:205);
- a listener that ends later than 200 ms after the start blocks on a channel nobody receives
  from, and the server goes on without it (service.go:87, gateway.go:84);
- a complete walk that ends while client.Do fails overwrites its error with nil. Before the
  error is checked, UploadDir then uses the nil response; between the check and the return
  (client.go:203-204), or after the server refused the archive (client.go:210), UploadDir
  returns nil though nothing was accepted. What was sent was the whole archive, which is all
  that `SuccessMeansComplete` says.

## Not modelled, and the plan

Not modelled: the name service, whose cache is a library's (its ten minutes count from the
last use, so a name in use may keep resolving to its former owner) and whose answers only
choose a size limit or an address; the Redis provider, which opens a client; the string form
of a cache id, which is taken for the pair it encodes; descriptors, getters and reflection in
`publisher.pb.go`, and the unused stream types and unimplemented server of
`publisher_drpc.pb.go`; request signing, metrics, flags, configuration and keys; the renderer,
static files and `store.Get`; the shutdown of the HTTP servers, which a restart stands for.

Next:

1. An abstract site that knows which page each upload was made for: it would state what
   holds, and what does not, when an address passes to another page during an upload.
2. A weaker `Fresh` for `lostInvalidate`, as `NothingGone` is for `rename`: an entry is fresh,
   or an hour from being gone, which today is only the liveness property `Heals`.
