---------------------------------- MODULE Rpc ----------------------------------
(***************************************************************************)
(* A call of the publish API: publishclient/client.go, the generated stubs *)
(* of publishapi/publisher_drpc.pb.go, and the handlers of                 *)
(* publish/handler.go with the methods of the service they call.           *)
(*                                                                         *)
(* The client marshals a request and names a path; the server looks the    *)
(* path up, unmarshals what that method takes, and calls its handler; the  *)
(* answer, or the code of the error, comes back the same way.  The         *)
(* connection may be lost at any time.  Either end may be another program, *)
(* which sends what it likes, or one built later, whose messages have      *)
(* fields this version does not know.                                      *)
(*                                                                         *)
(* What the service finds is any of Documents that the request asks for,   *)
(* or that object without its publish, which may be deleted between the    *)
(* two queries; what Publish and UnPublish do is in PublishService.        *)
(***************************************************************************)
EXTENDS PublishApi

CONSTANTS
  Strings,       \* what an id, an address or a version may be
  Documents,     \* objects the database may hold, with their active publish
  ListLength,    \* bound on the objects listed
  Extensions,    \* fields of a message that only a later version knows
  ForeignBytes   \* what another program may send

VARIABLE call    \* the call under way

ASSUME StringsAssumption == \A s \in Strings : s \in Bytes /\ Fits(s)

ASSUME ExtensionsAssumption == \A ext \in Extensions : ext \in Bytes /\ LaterFields(ext)

ASSUME ForeignBytesAssumption == \A b \in ForeignBytes : b \in Bytes /\ Fits(b)

\* A document holds what a Publish message can say of it, and at most one publish.
ASSUME DocumentsAssumption ==
  /\ ListLength \in Nat
  /\ \A d \in Documents :
       /\ d \in [spaceId : Bytes, objectId : Bytes, uri : Bytes, timestamp : Int64,
                publish : Seq([status : STRING, version : Bytes, size : Int64])]
       /\ Fits(d.spaceId) /\ Fits(d.objectId) /\ Fits(d.uri)
       /\ Len(d.publish) <= 1
       /\ d.publish # <<>> => Fits(d.publish[1].version)

--------------------------------------------------------------------------------
(* Errors (errors.go) *)

ErrorOffset == 1100

ErrCodes == [Unexpected |-> 0, NotFound |-> 1, AccessDenied |-> 2, UriNotUnique |-> 3]

\* Mutant: the codes are not moved away from those of other errors.
CodeWithoutOffset(e) == IF e \in DOMAIN ErrCodes THEN ErrCodes[e] ELSE 0

\* The code an error travels with: an error nobody registered has none.
Code(e) == IF e \in DOMAIN ErrCodes THEN ErrorOffset + ErrCodes[e] ELSE 0

\* rpcerr.Unwrap
Unwrap(code) ==
  IF \E e \in DOMAIN ErrCodes : Code(e) = code
  THEN CHOOSE e \in DOMAIN ErrCodes : Code(e) = code
  ELSE "other"

--------------------------------------------------------------------------------
(* The stubs: what the client invokes, and what the server registers *)

Methods == {"ResolveUri", "GetPublishStatus", "Publish", "UnPublish", "ListPublishes"}

ClientStub ==
  [ResolveUri |-> [path |-> "/client.WebPublisher/ResolveUri",
                   in |-> "ResolveUriRequest", out |-> "ResolveUriResponse"],
   GetPublishStatus |-> [path |-> "/client.WebPublisher/GetPublishStatus",
                   in |-> "GetPublishStatusRequest", out |-> "GetPublishStatusResponse"],
   Publish |-> [path |-> "/client.WebPublisher/Publish",
                   in |-> "PublishRequest", out |-> "PublishResponse"],
   UnPublish |-> [path |-> "/client.WebPublisher/UnPublish",
                   in |-> "UnPublishRequest", out |-> "Ok"],
   ListPublishes |-> [path |-> "/client.WebPublisher/ListPublishes",
                   in |-> "ListPublishesRequest", out |-> "ListPublishesResponse"]]

Description ==
  <<[path |-> "/client.WebPublisher/ResolveUri",
     handler |-> "ResolveUri", in |-> "ResolveUriRequest"],
    [path |-> "/client.WebPublisher/GetPublishStatus",
     handler |-> "GetPublishStatus", in |-> "GetPublishStatusRequest"],
    [path |-> "/client.WebPublisher/Publish",
     handler |-> "Publish", in |-> "PublishRequest"],
    [path |-> "/client.WebPublisher/UnPublish",
     handler |-> "UnPublish", in |-> "UnPublishRequest"],
    [path |-> "/client.WebPublisher/ListPublishes",
     handler |-> "ListPublishes", in |-> "ListPublishesRequest"]>>

\* Mutant: two methods whose requests look alike change places.
Misregistered(path) ==
  LET rpc == CHOOSE r \in ToSet(Description) : r.path = path
  IN  [rpc EXCEPT !.handler = IF @ = "UnPublish" THEN "GetPublishStatus"
                              ELSE IF @ = "GetPublishStatus" THEN "UnPublish" ELSE @]

\* DRPCRegisterWebPublisher
Registered(path) == CHOOSE r \in ToSet(Description) : r.path = path

--------------------------------------------------------------------------------
(* The handlers: what they may answer to a request *)

IsPublished(o) == o.publish # <<>> /\ o.publish[1].status = "Published"

\* PublishStatusCreated is 0, PublishStatusPublished is 1.
toPublish(o) ==
  [spaceId |-> o.spaceId, objectId |-> o.objectId, uri |-> o.uri,
   timestamp |-> o.timestamp,
   status |-> IF IsPublished(o) THEN 1 ELSE 0,
   version |-> IF IsPublished(o) THEN o.publish[1].version ELSE <<>>,
   size |-> IF IsPublished(o) THEN o.publish[1].size ELSE 0,
   unknownFields |-> <<>>]

NoMessage == [unknownFields |-> <<>>]

\* An answer, and the objects it is made of.
Answers(message, found) == [err |-> "nil", message |-> message, found |-> found]
Fails(e) == [err |-> e, message |-> NoMessage, found |-> <<>>]

\* The message as a later version sends it.
Extended(message, ext) == [message EXCEPT !.unknownFields = ext]

\* The caller's identity is not known, or a statement fails.
Unavailable == Fails("other")

\* What reading an object, and then its active publish, may find: the publish may be
\* gone by then.
Seen(objects) == objects \cup {[o EXCEPT !.publish = <<>>] : o \in objects}

\* The answer of getPublishByQuery, as the handlers pass it on.
getPublishByQuery(objects) ==
  {Unavailable, Fails("NotFound")}
    \cup {Answers([publish |-> <<toPublish(o)>>, unknownFields |-> <<>>], <<o>>) :
            o \in Seen(objects)}

ResolveUri(req) == getPublishByQuery({d \in Documents : d.uri = req.uri})

GetPublishStatus(req) ==
  getPublishByQuery({d \in Documents :
                       d.spaceId = req.spaceId /\ d.objectId = req.objectId})

Publish(req) ==
  {Unavailable, Fails("UriNotUnique")}
    \cup {Answers([uploadUrl |-> url, unknownFields |-> <<>>], <<>>) : url \in Strings}

\* That there is no such page is not an error of the API here.
UnPublish(req) == {Unavailable, Answers([unknownFields |-> <<>>], <<>>)}

\* All of the identity's pages, or those of one space, in no particular order but each
\* uri once; a publish that cannot be read is taken for none.
ListPublishes(req) ==
  LET matching == {d \in Documents : req.spaceId = <<>> \/ d.spaceId = req.spaceId}
      lists == {l \in SeqOf(Seen(matching), ListLength) :
                  Cardinality({o.uri : o \in ToSet(l)}) = Len(l)}
  IN  {Unavailable}
        \cup {Answers([publishes |-> [i \in DOMAIN l |-> toPublish(l[i])],
                        unknownFields |-> <<>>], l) : l \in lists}

Handle(handler, req) ==
  CASE handler = "ResolveUri" -> ResolveUri(req)
    [] handler = "GetPublishStatus" -> GetPublishStatus(req)
    [] handler = "Publish" -> Publish(req)
    [] handler = "UnPublish" -> UnPublish(req)
    [] handler = "ListPublishes" -> ListPublishes(req)

--------------------------------------------------------------------------------
(* A call, step by step *)

NoCall ==
  [at |-> "idle", method |-> "none", foreign |-> FALSE, request |-> NoMessage,
   code |-> 0, wire |-> <<>>, handler |-> "none", received |-> NoMessage,
   outcome |-> Fails("none"), got |-> NoMessage, err |-> "nil", value |-> <<>>]

Requests(method) ==
  LET ext == Extensions
  IN  CASE method = "ResolveUri" -> [uri : Strings, unknownFields : ext]
        [] method \in {"GetPublishStatus", "UnPublish"} ->
             [spaceId : Strings, objectId : Strings, unknownFields : ext]
        [] method = "Publish" ->
             [spaceId : Strings, objectId : Strings, uri : Strings, version : Strings,
              unknownFields : ext]
        [] method = "ListPublishes" -> [spaceId : Strings, unknownFields : ext]

\* What is sent was made in memory.
ASSUME RequestsAssumption ==
  \A m \in Methods : \A r \in Requests(m) : Fits(Marshal(ClientStub[m].in, r).value)

\* What the handler of a method may answer, whatever it is asked for.
AnswersOf(method) ==
  IF method \in {"ResolveUri", "GetPublishStatus"} THEN getPublishByQuery(Documents)
  ELSE Handle(method, [spaceId |-> <<>>])

ASSUME AnswersAssumption ==
  /\ \A o \in Seen(Documents) : Fits(MarshalPublish(toPublish(o)))
  /\ \A m \in Methods : \A o \in AnswersOf(m) : \A ext \in Extensions :
       LET bytes == Marshal(ClientStub[m].out, Extended(o.message, ext))
       IN  o.err = "nil" /\ bytes.err = "nil" => Fits(bytes.value)

\* An application calls a method of the client.
Calls ==
  /\ call = NoCall
  /\ \E m \in Methods : \E r \in Requests(m) :
       call' = [NoCall EXCEPT !.at = "called", !.method = m, !.request = r]

ReturnsError(e) ==
  call' = [call EXCEPT !.at = "returned", !.err = e, !.code = 0, !.wire = <<>>,
                       !.got = NoMessage, !.value = <<>>]

\* doClient: no peer can be reached.
NoPeer == call.at = "called" /\ ReturnsError("other")

\* doClient and the stub: the request goes out.
Invoke ==
  /\ call.at = "called"
  /\ \E bytes \in {Marshal(ClientStub[call.method].in, call.request)} :
       call' = IF bytes.err = "panic" THEN [call EXCEPT !.at = "panicked"]
               ELSE [call EXCEPT !.at = "requested", !.wire = bytes.value]

\* Another program asks.
ForeignRequest ==
  /\ call = NoCall
  /\ \E m \in Methods, b \in ForeignBytes :
       call' = [NoCall EXCEPT !.at = "requested", !.method = m, !.foreign = TRUE,
                              !.wire = b]

\* The server unmarshals the request; an error of that has no code.
ServerReceives ==
  LET rpc == Registered(ClientStub[call.method].path)
  IN  /\ call.at = "requested"
      /\ \E in \in {Unmarshal(rpc.in, call.wire)} :
           call' = CASE in.err = "nil" ->
                          [call EXCEPT !.at = "handling", !.wire = <<>>,
                                       !.handler = rpc.handler, !.received = in.value]
                     [] in.err = "panic" -> [call EXCEPT !.at = "panicked"]
                     [] OTHER -> [call EXCEPT !.at = "replied", !.wire = <<>>,
                                              !.outcome = Fails("other")]

\* The answer to what the handler returned goes out; ext is of a later version.
Reply(o, ext) ==
  \E bytes \in {Marshal(ClientStub[call.handler].out, Extended(o.message, ext))} :
    call' = IF bytes.err = "panic" THEN [call EXCEPT !.at = "panicked"]
            ELSE [call EXCEPT !.at = "replied", !.outcome = o, !.wire = bytes.value]

ReplyError(o) ==
  call' = [call EXCEPT !.at = "replied", !.outcome = o, !.code = Code(o.err)]

ServerAnswers ==
  /\ call.at = "handling"
  /\ \E o \in Handle(call.handler, call.received) :
       \/ o.err = "nil" /\ \E ext \in Extensions : Reply(o, ext)
       \/ o.err # "nil" /\ ReplyError(o)

\* Another program answers.
ForeignReply ==
  /\ call.at = "requested" /\ ~call.foreign
  /\ \E b \in ForeignBytes :
       call' = [NoCall EXCEPT !.at = "replied", !.method = call.method,
                              !.foreign = TRUE, !.wire = b,
                              !.outcome = Answers(NoMessage, <<>>)]

\* What the client's methods return of a response.
Returned(method, resp) ==
  CASE method \in {"ResolveUri", "GetPublishStatus"} -> resp.publish
    [] method = "Publish" -> resp.uploadUrl
    [] method = "UnPublish" -> <<>>
    [] method = "ListPublishes" -> resp.publishes

ReturnsMessage(out) ==
  CASE out.err = "nil" ->
         call' = [call EXCEPT !.at = "returned", !.wire = <<>>, !.got = out.value,
                              !.value = Returned(call.method, out.value)]
    [] out.err = "panic" -> call' = [call EXCEPT !.at = "panicked"]
    [] OTHER -> ReturnsError("other")

ClientReceives ==
  /\ call.at = "replied"
  /\ \/ call.outcome.err # "nil" /\ ReturnsError(Unwrap(call.code))
     \/ /\ call.outcome.err = "nil"
        /\ ReturnsMessage(Unmarshal(ClientStub[call.method].out, call.wire))

\* The connection breaks, or the caller's context ends.
ConnectionLost ==
  call.at \in {"requested", "handling", "replied"} /\ ReturnsError("other")

CallStep ==
  \/ Calls \/ NoPeer \/ Invoke \/ ForeignRequest \/ ServerReceives
  \/ ServerAnswers \/ ForeignReply \/ ClientReceives \/ ConnectionLost

--------------------------------------------------------------------------------
(* Properties *)

\* The handler that runs is that of the method the client called, and it is asked
\* what the client asked, even where two methods have requests that look alike
\* (UnPublish and GetPublishStatus) and for fields it does not know
\* (publisher_drpc.pb.go:53-96 against 132-182; publisher_vtproto.pb.go).
RequestArrives ==
  call.at = "handling" /\ ~call.foreign =>
    call.handler = call.method /\ call.received = call.request

\* Does a message show the object o?
ShowsObject(p, o) ==
  /\ p.spaceId = o.spaceId /\ p.objectId = o.objectId
  /\ p.uri = o.uri /\ p.timestamp = o.timestamp
  /\ IF \E q \in ToSet(o.publish) : q.status = "Published"
     THEN p.status = 1 /\ p.version = o.publish[1].version
                       /\ p.size = o.publish[1].size
     ELSE p.status = 0 /\ p.version = <<>> /\ p.size = 0

\* What a method of the client returns is what the service found: each object once,
\* the version and size of its active publish only if that is published, the url
\* it was given; an error the API names arrives as that error, and no other error
\* is taken for one of those (handler.go:24-139, errors.go, client.go:59-127).
AnswerArrives ==
  call.at = "returned" /\ ~call.foreign =>
    /\ call.err = "nil" =>
         /\ call.outcome.err = "nil"
         /\ call.method = "Publish" => call.value = call.outcome.message.uploadUrl
         /\ call.method # "Publish" =>
              /\ DOMAIN call.value = DOMAIN call.outcome.found
              /\ \A i \in DOMAIN call.value :
                   ShowsObject(call.value[i], call.outcome.found[i])
    /\ call.err # "nil" => call.err \in {call.outcome.err, "other"}

\* Marshalling again what was unmarshalled is possible, and changes nothing.
Stable(type, m) ==
  Then(Marshal(type, m), LAMBDA bytes, n :
    Then(Unmarshal(type, bytes), LAMBDA back, next : Read(back = m, 0))) = Read(TRUE, 0)

\* Whatever bytes come in, neither end reads outside of a buffer or writes before the
\* start of one (publisher_vtproto.pb.go:21-534 against 536-727, and 729-1932).
NeverPanics == call.at # "panicked"

\* Whatever bytes come in, what an end makes of them is a message it can send on as it
\* is: SizeVT is the size of what MarshalVT writes, and unknown fields and numbers of
\* any sign survive (publisher_vtproto.pb.go).
SendsOnUnchanged ==
  /\ call.at = "handling" => Stable(Registered(ClientStub[call.method].path).in, call.received)
  /\ call.at = "returned" /\ call.err = "nil" => Stable(ClientStub[call.method].out, call.got)

================================================================================
