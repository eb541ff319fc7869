-------------------------- MODULE PublishClientProofs --------------------------
(***************************************************************************)
(* What holds of a call of the API and of an upload, for strings,          *)
(* documents and directories of any size, and for bytes of any kind.       *)
(*                                                                         *)
(* The handler that runs is the one asked for and gets what the client     *)
(* asked; what the client returns is what the service found; no bytes of   *)
(* another program make either end panic.  The shared err of UploadDir     *)
(* neither makes half an archive a success, under a condition, nor leaves  *)
(* one of its goroutines waiting.                                          *)
(***************************************************************************)
EXTENDS PublishClient, PublishApiProofs

--------------------------------------------------------------------------------
(* A request arrives *)

\* What is registered under the paths the client uses.
LEMMA MethodsAre ==
  /\ Registered(ClientStub["ResolveUri"].path) =
       [path |-> "/client.WebPublisher/ResolveUri", handler |-> "ResolveUri",
        in |-> "ResolveUriRequest"]
  /\ Registered(ClientStub["GetPublishStatus"].path) =
       [path |-> "/client.WebPublisher/GetPublishStatus", handler |-> "GetPublishStatus",
        in |-> "GetPublishStatusRequest"]
  /\ Registered(ClientStub["Publish"].path) =
       [path |-> "/client.WebPublisher/Publish", handler |-> "Publish",
        in |-> "PublishRequest"]
  /\ Registered(ClientStub["UnPublish"].path) =
       [path |-> "/client.WebPublisher/UnPublish", handler |-> "UnPublish",
        in |-> "UnPublishRequest"]
  /\ Registered(ClientStub["ListPublishes"].path) =
       [path |-> "/client.WebPublisher/ListPublishes", handler |-> "ListPublishes",
        in |-> "ListPublishesRequest"]
<1>1. DOMAIN Description = 1..5
  BY DEF Description
<1>2. ToSet(Description) = {Description[1], Description[2], Description[3], Description[4],
                            Description[5]}
  <2>1. \A n \in 1..5 : n = 1 \/ n = 2 \/ n = 3 \/ n = 4 \/ n = 5
    OBVIOUS
  <2> QED BY <1>1, <2>1 DEF ToSet
<1>3. ToSet(Description) =
       {[path |-> "/client.WebPublisher/ResolveUri", handler |-> "ResolveUri",
         in |-> "ResolveUriRequest"],
        [path |-> "/client.WebPublisher/GetPublishStatus", handler |-> "GetPublishStatus",
         in |-> "GetPublishStatusRequest"],
        [path |-> "/client.WebPublisher/Publish", handler |-> "Publish",
         in |-> "PublishRequest"],
        [path |-> "/client.WebPublisher/UnPublish", handler |-> "UnPublish",
         in |-> "UnPublishRequest"],
        [path |-> "/client.WebPublisher/ListPublishes", handler |-> "ListPublishes",
         in |-> "ListPublishesRequest"]}
  BY <1>2 DEF Description
<1>4. ASSUME NEW r \in ToSet(Description),
             \A q \in ToSet(Description) : q.path = r.path => q = r
      PROVE  Registered(r.path) = r
  BY <1>4 DEF Registered
<1>5. \A r, q \in ToSet(Description) : q.path = r.path => q = r
  BY <1>3
<1>6. \A r \in ToSet(Description) : Registered(r.path) = r
  BY <1>4, <1>5
<1>7. ClientStub["ResolveUri"].path = "/client.WebPublisher/ResolveUri"
      /\ ClientStub["GetPublishStatus"].path = "/client.WebPublisher/GetPublishStatus"
      /\ ClientStub["Publish"].path = "/client.WebPublisher/Publish"
      /\ ClientStub["UnPublish"].path = "/client.WebPublisher/UnPublish"
      /\ ClientStub["ListPublishes"].path = "/client.WebPublisher/ListPublishes"
  BY DEF ClientStub
<1> QED BY <1>3, <1>6, <1>7

\* What the client's stubs take.
LEMMA StubsAre ==
  /\ ClientStub["ResolveUri"].in = "ResolveUriRequest"
  /\ ClientStub["GetPublishStatus"].in = "GetPublishStatusRequest"
  /\ ClientStub["Publish"].in = "PublishRequest"
  /\ ClientStub["UnPublish"].in = "UnPublishRequest"
  /\ ClientStub["ListPublishes"].in = "ListPublishesRequest"
BY DEF ClientStub

\* The handler of a method reads what its client wrote.
LEMMA RequestRead ==
  ASSUME NEW m \in Methods, NEW r \in Requests(m), NEW bytes,
         bytes = Marshal(ClientStub[m].in, r)
  PROVE  /\ bytes.err = "nil"
         /\ Registered(ClientStub[m].path).handler = m
         /\ \E n : Unmarshal(Registered(ClientStub[m].path).in, bytes.value) = Read(r, n)
<1>1. Fits(bytes.value)
  BY RequestsAssumption
<1>2. /\ \A s \in Strings : s \in Bytes /\ Fits(s)
      /\ \A ext \in Extensions : ext \in Bytes /\ LaterFields(ext)
  BY StringsAssumption, ExtensionsAssumption
<1>3. CASE m = "ResolveUri"
  <2>1. r \in ResolveUriRequest /\ Fits(r.uri) /\ LaterFields(r.unknownFields)
    BY <1>2, <1>3 DEF Requests, ResolveUriRequest
  <2>2. bytes = MarshalVT(SizeResolveUriRequest(r), MarshalResolveUriRequest(r))
    BY <1>3, StubsAre DEF Marshal
  <2>3. bytes.err = "nil" /\ bytes.value = MarshalResolveUriRequest(r)
    BY <2>1, <2>2, ResolveUriRequestIs, StepIs
  <2>4. UnmarshalResolveUriRequest(bytes.value) = Read(r, Len(bytes.value) + 1)
    BY <1>1, <2>1, <2>3, ResolveUriRequestIs
  <2>5. Registered(ClientStub[m].path).handler = m
        /\ Registered(ClientStub[m].path).in = "ResolveUriRequest"
    BY <1>3, MethodsAre
  <2> QED BY <2>3, <2>4, <2>5 DEF Unmarshal
<1>4. CASE m = "GetPublishStatus"
  <2>1. r \in GetPublishStatusRequest /\ Fits(r.spaceId) /\ Fits(r.objectId)
        /\ LaterFields(r.unknownFields)
    BY <1>2, <1>4 DEF Requests, GetPublishStatusRequest
  <2>2. bytes = MarshalVT(SizeGetPublishStatusRequest(r), MarshalGetPublishStatusRequest(r))
    BY <1>4, StubsAre DEF Marshal
  <2>3. bytes.err = "nil" /\ bytes.value = MarshalGetPublishStatusRequest(r)
    BY <2>1, <2>2, GetPublishStatusRequestIs, StepIs
  <2>4. UnmarshalGetPublishStatusRequest(bytes.value) = Read(r, Len(bytes.value) + 1)
    BY <1>1, <2>1, <2>3, GetPublishStatusRequestIs
  <2>5. Registered(ClientStub[m].path).handler = m
        /\ Registered(ClientStub[m].path).in = "GetPublishStatusRequest"
    BY <1>4, MethodsAre
  <2> QED BY <2>3, <2>4, <2>5 DEF Unmarshal
<1>5. CASE m = "Publish"
  <2>1. r \in PublishRequest /\ Fits(r.spaceId) /\ Fits(r.objectId) /\ Fits(r.uri)
        /\ Fits(r.version) /\ LaterFields(r.unknownFields)
    BY <1>2, <1>5 DEF Requests, PublishRequest
  <2>2. bytes = MarshalVT(SizePublishRequest(r), MarshalPublishRequest(r))
    BY <1>5, StubsAre DEF Marshal
  <2>3. bytes.err = "nil" /\ bytes.value = MarshalPublishRequest(r)
    BY <2>1, <2>2, PublishRequestIs, StepIs
  <2>4. UnmarshalPublishRequest(bytes.value) = Read(r, Len(bytes.value) + 1)
    BY <1>1, <2>1, <2>3, PublishRequestIs
  <2>5. Registered(ClientStub[m].path).handler = m
        /\ Registered(ClientStub[m].path).in = "PublishRequest"
    BY <1>5, MethodsAre
  <2> QED BY <2>3, <2>4, <2>5 DEF Unmarshal
<1>6. CASE m = "UnPublish"
  <2>1. r \in UnPublishRequest /\ Fits(r.spaceId) /\ Fits(r.objectId)
        /\ LaterFields(r.unknownFields)
    BY <1>2, <1>6 DEF Requests, UnPublishRequest
  <2>2. bytes = MarshalVT(SizeUnPublishRequest(r), MarshalUnPublishRequest(r))
    BY <1>6, StubsAre DEF Marshal
  <2>3. bytes.err = "nil" /\ bytes.value = MarshalUnPublishRequest(r)
    BY <2>1, <2>2, UnPublishRequestIs, StepIs
  <2>4. UnmarshalUnPublishRequest(bytes.value) = Read(r, Len(bytes.value) + 1)
    BY <1>1, <2>1, <2>3, UnPublishRequestIs
  <2>5. Registered(ClientStub[m].path).handler = m
        /\ Registered(ClientStub[m].path).in = "UnPublishRequest"
    BY <1>6, MethodsAre
  <2> QED BY <2>3, <2>4, <2>5 DEF Unmarshal
<1>7. CASE m = "ListPublishes"
  <2>1. r \in ListPublishesRequest /\ Fits(r.spaceId) /\ LaterFields(r.unknownFields)
    BY <1>2, <1>7 DEF Requests, ListPublishesRequest
  <2>2. bytes = MarshalVT(SizeListPublishesRequest(r), MarshalListPublishesRequest(r))
    BY <1>7, StubsAre DEF Marshal
  <2>3. bytes.err = "nil" /\ bytes.value = MarshalListPublishesRequest(r)
    BY <2>1, <2>2, ListPublishesRequestIs, StepIs
  <2>4. UnmarshalListPublishesRequest(bytes.value) = Read(r, Len(bytes.value) + 1)
    BY <1>1, <2>1, <2>3, ListPublishesRequestIs
  <2>5. Registered(ClientStub[m].path).handler = m
        /\ Registered(ClientStub[m].path).in = "ListPublishesRequest"
    BY <1>7, MethodsAre
  <2> QED BY <2>3, <2>4, <2>5 DEF Unmarshal
<1> QED BY <1>3, <1>4, <1>5, <1>6, <1>7 DEF Methods

IsCall == call = [field \in DOMAIN NoCall |-> call[field]]

\* What was asked is what goes out.
Asked ==
  \/ call.at = "called"
  \/ call.at = "requested" /\ ~call.foreign

RequestSent ==
  /\ Asked => call.method \in Methods /\ call.request \in Requests(call.method)
  /\ call.at = "called" => ~call.foreign
  /\ call.at = "requested" /\ ~call.foreign =>
       call.wire = Marshal(ClientStub[call.method].in, call.request).value

Requesting == IsCall /\ RequestSent /\ RequestArrives

\* The fields of a call.
LEMMA CallFields ==
  DOMAIN NoCall = {"at", "method", "foreign", "request", "code", "wire", "handler", "received",
                   "outcome", "got", "err", "value"}
BY DEF NoCall

\* A step after which nothing is asked and nothing is handled.
LEMMA RequestIdle ==
  ASSUME IsCall', call'.at \notin {"called", "requested", "handling"}
  PROVE  Requesting'
BY DEF Requesting, RequestSent, RequestArrives, Asked

\* A method is called with one of its requests.
LEMMA CallsRequest ==
  ASSUME Requesting, Calls
  PROVE  Requesting'
<1>1. PICK m \in Methods : \E r \in Requests(m) :
        call' = [NoCall EXCEPT !.at = "called", !.method = m, !.request = r]
  BY DEF Calls
<1>2. PICK r \in Requests(m) :
        call' = [NoCall EXCEPT !.at = "called", !.method = m, !.request = r]
  BY <1>1
<1>3. IsCall' /\ call'.at = "called" /\ call'.method = m /\ call'.request = r /\ ~call'.foreign
  BY <1>2 DEF IsCall, NoCall
<1> QED BY <1>3 DEF Requesting, RequestSent, RequestArrives, Asked

\* The request goes out as it was marshalled.
LEMMA InvokeRequest ==
  ASSUME Requesting, Invoke
  PROVE  Requesting'
<1>1. PICK bytes : /\ bytes = Marshal(ClientStub[call.method].in, call.request)
                   /\ call' = IF bytes.err = "panic" THEN [call EXCEPT !.at = "panicked"]
                              ELSE [call EXCEPT !.at = "requested", !.wire = bytes.value]
  BY DEF Invoke
<1>2. IsCall /\ call.at = "called" /\ ~call.foreign /\ call.method \in Methods
      /\ call.request \in Requests(call.method)
  BY DEF Invoke, Requesting, RequestSent, Asked
<1>3. bytes.err = "nil"
  BY <1>1, <1>2, RequestRead
<1>4. call' = [call EXCEPT !.at = "requested", !.wire = bytes.value]
  BY <1>1, <1>3
<1>5. IsCall' /\ call'.at = "requested" /\ call'.wire = bytes.value /\ ~call'.foreign
      /\ call'.method = call.method /\ call'.request = call.request
  BY <1>2, <1>4, CallFields DEF IsCall
<1> QED BY <1>1, <1>2, <1>5 DEF Requesting, RequestSent, RequestArrives, Asked

\* Nothing is said of what another program sends.
LEMMA ForeignRequests ==
  ASSUME Requesting, ForeignRequest \/ ForeignReply
  PROVE  Requesting'
<1>1. CASE ForeignRequest
  <2>1. PICK m, b : call' = [NoCall EXCEPT !.at = "requested", !.method = m, !.foreign = TRUE,
                                           !.wire = b]
    BY <1>1 DEF ForeignRequest
  <2>2. IsCall' /\ call'.at = "requested" /\ call'.foreign
    BY <2>1 DEF IsCall, NoCall
  <2> QED BY <2>2 DEF Requesting, RequestSent, RequestArrives, Asked
<1>2. CASE ForeignReply
  <2>1. PICK b : call' = [NoCall EXCEPT !.at = "replied", !.method = call.method,
                              !.foreign = TRUE, !.wire = b,
                              !.outcome = Answers(NoMessage, <<>>)]
    BY <1>2 DEF ForeignReply
  <2>2. IsCall' /\ call'.at = "replied"
    BY <2>1 DEF IsCall, NoCall
  <2> QED BY <2>2, RequestIdle
<1> QED BY <1>1, <1>2

\* The handler gets what the client asked: the round trip of the request.
LEMMA ServerReceivesRequest ==
  ASSUME Requesting, ServerReceives
  PROVE  Requesting'
<1> DEFINE rpc == Registered(ClientStub[call.method].path)
<1>1. PICK in : /\ in = Unmarshal(rpc.in, call.wire)
                /\ call' = CASE in.err = "nil" ->
                                 [call EXCEPT !.at = "handling", !.wire = <<>>,
                                       !.handler = rpc.handler, !.received = in.value]
                     [] in.err = "panic" -> [call EXCEPT !.at = "panicked"]
                     [] OTHER -> [call EXCEPT !.at = "replied", !.wire = <<>>,
                                              !.outcome = Fails("other")]
  BY DEF ServerReceives
<1>2. IsCall /\ call.at = "requested"
  BY DEF ServerReceives, Requesting
<1>3. CASE in.err = "nil"
  <2>1. call' = [call EXCEPT !.at = "handling", !.wire = <<>>,
                             !.handler = rpc.handler, !.received = in.value]
    BY <1>1, <1>3
  <2> HIDE DEF rpc
  <2>2. IsCall' /\ call'.at = "handling" /\ call'.handler = rpc.handler
        /\ call'.received = in.value /\ call'.foreign = call.foreign
        /\ call'.method = call.method /\ call'.request = call.request
    BY <1>2, <2>1, CallFields DEF IsCall
  <2>3. ASSUME ~call.foreign PROVE rpc.handler = call.method /\ in.value = call.request
    <3> DEFINE bytes == Marshal(ClientStub[call.method].in, call.request)
    <3>1. call.method \in Methods /\ call.request \in Requests(call.method)
          /\ call.wire = bytes.value
      BY <1>2, <2>3 DEF Requesting, RequestSent, Asked
    <3>2. Registered(ClientStub[call.method].path).handler = call.method
          /\ \E n : Unmarshal(Registered(ClientStub[call.method].path).in, bytes.value)
                      = Read(call.request, n)
      BY <3>1, RequestRead
    <3> HIDE DEF bytes
    <3>3. rpc.handler = call.method /\ \E n : in = Read(call.request, n)
      BY <1>1, <3>1, <3>2 DEF rpc
    <3> QED BY <3>3, StepIs
  <2> QED BY <2>2, <2>3 DEF Requesting, RequestSent, RequestArrives, Asked
<1>4. CASE in.err # "nil"
  <2>1. \/ call' = [call EXCEPT !.at = "panicked"]
        \/ call' = [call EXCEPT !.at = "replied", !.wire = <<>>, !.outcome = Fails("other")]
    BY <1>1, <1>4
  <2>2. IsCall' /\ call'.at \in {"panicked", "replied"}
    BY <1>2, <2>1, CallFields DEF IsCall
  <2> QED BY <2>2, RequestIdle
<1> QED BY <1>3, <1>4

\* A call that fails has returned.
LEMMA ErrorReturned ==
  ASSUME IsCall, NEW e, ReturnsError(e)
  PROVE  IsCall' /\ call'.at = "returned"
BY CallFields DEF ReturnsError, IsCall

\* The server's answer leaves the request behind.
LEMMA ServerAnswersRequest ==
  ASSUME Requesting, ServerAnswers
  PROVE  Requesting'
<1>1. IsCall
  BY DEF Requesting
<1>2. PICK o : \/ \E ext \in Extensions : Reply(o, ext)
               \/ ReplyError(o)
  BY DEF ServerAnswers
<1>3. CASE \E ext \in Extensions : Reply(o, ext)
  <2>1. PICK bytes : call' = IF bytes.err = "panic" THEN [call EXCEPT !.at = "panicked"]
            ELSE [call EXCEPT !.at = "replied", !.outcome = o, !.wire = bytes.value]
    BY <1>3 DEF Reply
  <2>2. IsCall' /\ call'.at \in {"panicked", "replied"}
    BY <1>1, <2>1, CallFields DEF IsCall
  <2> QED BY <2>2, RequestIdle
<1>4. CASE ReplyError(o)
  <2>1. IsCall' /\ call'.at = "replied"
    BY <1>1, <1>4, CallFields DEF ReplyError, IsCall
  <2> QED BY <2>1, RequestIdle
<1> QED BY <1>2, <1>3, <1>4

\* So does the client that gets it.
LEMMA ClientReceivesAnswer ==
  ASSUME Requesting, ClientReceives
  PROVE  Requesting'
<1>1. IsCall
  BY DEF Requesting
<1>2. CASE \E e : ReturnsError(e)
  BY <1>1, <1>2, ErrorReturned, RequestIdle
<1>3. ASSUME NEW out, ReturnsMessage(out) PROVE Requesting'
  <2>1. CASE out.err = "nil"
    <3>1. call' = [call EXCEPT !.at = "returned", !.wire = <<>>, !.got = out.value,
                              !.value = Returned(call.method, out.value)]
      BY <1>3, <2>1 DEF ReturnsMessage
    <3>2. IsCall' /\ call'.at = "returned"
      BY <1>1, <3>1, CallFields DEF IsCall
    <3> QED BY <3>2, RequestIdle
  <2>2. CASE out.err # "nil"
    <3>1. call' = [call EXCEPT !.at = "panicked"] \/ \E e : ReturnsError(e)
      BY <1>3, <2>2 DEF ReturnsMessage
    <3>2. CASE call' = [call EXCEPT !.at = "panicked"]
      <4>1. IsCall' /\ call'.at = "panicked"
        BY <1>1, <3>2, CallFields DEF IsCall
      <4> QED BY <4>1, RequestIdle
    <3> QED BY <1>2, <3>1, <3>2
  <2> QED BY <2>1, <2>2
<1> QED BY <1>2, <1>3 DEF ClientReceives

\* Requesting is inductive.
LEMMA NextRequest ==
  Requesting /\ [ClientNext]_clientVars => Requesting'
<1> SUFFICES ASSUME Requesting, [ClientNext]_clientVars PROVE Requesting'
  OBVIOUS
<1>1. ASSUME \E e : ReturnsError(e) PROVE Requesting'
  BY <1>1, ErrorReturned, RequestIdle DEF Requesting
<1>2. CASE NoPeer \/ ConnectionLost
  BY <1>1, <1>2 DEF NoPeer, ConnectionLost
<1>3. CASE StartUpload
  <2>1. IsCall' /\ call'.at = "uploading"
    BY <1>3 DEF StartUpload, IsCall, NoCall
  <2> QED BY <2>1, RequestIdle
<1>4. CASE UNCHANGED call
  BY <1>4 DEF Requesting, IsCall, RequestSent, RequestArrives, Asked
<1> QED
  BY <1>2, <1>3, <1>4, CallsRequest, InvokeRequest, ForeignRequests, ServerReceivesRequest,
     ServerAnswersRequest, ClientReceivesAnswer
  DEF ClientNext, CallStep, Uploads, clientVars

\* Whatever strings a client sends and whatever fields of a later version come with them,
\* the handler of the method it called runs, and is given the request it was called with
\* (publisher_drpc.pb.go:53-96 against 132-182; publisher_vtproto.pb.go).
THEOREM EveryRequestArrives == ClientSpec => []RequestArrives
<1>1. ClientInit => Requesting
  BY DEF ClientInit, NoCall, Requesting, IsCall, RequestSent, RequestArrives, Asked
<1>2. Requesting => RequestArrives
  BY DEF Requesting
<1> QED BY <1>1, <1>2, NextRequest, PTL DEF ClientSpec

--------------------------------------------------------------------------------
(* An answer arrives *)

Object ==
  [spaceId : Bytes, objectId : Bytes, uri : Bytes, timestamp : Int64,
   publish : Seq([status : STRING, version : Bytes, size : Int64])]

\* What reading a document finds is such an object.
LEMMA SeenIs ==
  ASSUME NEW o \in Seen(Documents)
  PROVE  /\ o \in Object /\ Fits(o.spaceId) /\ Fits(o.objectId) /\ Fits(o.uri)
         /\ Len(o.publish) <= 1
         /\ o.publish # <<>> => Fits(o.publish[1].version)
<1>1. \A d \in Documents :
        /\ d \in Object /\ Fits(d.spaceId) /\ Fits(d.objectId) /\ Fits(d.uri)
        /\ Len(d.publish) <= 1
        /\ d.publish # <<>> => Fits(d.publish[1].version)
  BY DocumentsAssumption DEF Object
<1>2. CASE o \in Documents
  BY <1>1, <1>2
<1>3. ASSUME NEW d \in Documents, o = [d EXCEPT !.publish = <<>>]
      PROVE  /\ o \in Object /\ Fits(o.spaceId) /\ Fits(o.objectId) /\ Fits(o.uri)
             /\ o.publish = <<>>
  <2>1. d \in Object /\ Fits(d.spaceId) /\ Fits(d.objectId) /\ Fits(d.uri)
    BY <1>1
  <2>2. o.spaceId = d.spaceId /\ o.objectId = d.objectId /\ o.uri = d.uri /\ o.publish = <<>>
    BY <1>3, <2>1 DEF Object
  <2>3. o \in Object
    <3> DEFINE Publishes == Seq([status : STRING, version : Bytes, size : Int64])
    <3>1. <<>> \in Publishes
      OBVIOUS
    <3>2. d \in [spaceId : Bytes, objectId : Bytes, uri : Bytes, timestamp : Int64,
                 publish : Publishes]
      BY <2>1 DEF Object
    <3> HIDE DEF Publishes
    <3>3. o \in [spaceId : Bytes, objectId : Bytes, uri : Bytes, timestamp : Int64,
                 publish : Publishes]
      BY <1>3, <3>1, <3>2
    <3> QED BY <3>3 DEF Object, Publishes
  <2> QED BY <2>1, <2>2, <2>3
<1>4. Len(<<>>) <= 1
  OBVIOUS
<1> QED BY <1>2, <1>3, <1>4 DEF Seen

\* The message made of an object can be sent, and shows the object.
LEMMA PublishShows ==
  ASSUME NEW o \in Seen(Documents)
  PROVE  Sendable(toPublish(o)) /\ Fits(MarshalPublish(toPublish(o)))
         /\ ShowsObject(toPublish(o), o)
<1> DEFINE p == toPublish(o)
           active == o.publish[1]
<1>1. /\ o \in Object /\ Fits(o.spaceId) /\ Fits(o.objectId) /\ Fits(o.uri)
      /\ Len(o.publish) <= 1 /\ (o.publish # <<>> => Fits(active.version))
  BY SeenIs
<1>2. /\ o.spaceId \in Bytes /\ o.objectId \in Bytes /\ o.uri \in Bytes /\ o.timestamp \in Int64
      /\ o.publish \in Seq([status : STRING, version : Bytes, size : Int64])
  BY <1>1 DEF Object
<1>3. o.publish # <<>> => active.version \in Bytes /\ active.size \in Int64
  <2> DEFINE P == [status : STRING, version : Bytes, size : Int64]
             list == o.publish
  <2>1. list \in Seq(P)
    BY <1>2
  <2>2. list # <<>> => list[1] \in P
    <3> HIDE DEF P, list
    <3> QED BY <2>1
  <2>3. \A q \in P : q.version \in Bytes /\ q.size \in Int64
    OBVIOUS
  <2> QED BY <2>2, <2>3
<1>4. (\E q \in ToSet(o.publish) : q.status = "Published") <=> IsPublished(o)
  <2> DEFINE P == [status : STRING, version : Bytes, size : Int64]
             list == o.publish
  <2>1. list \in Seq(P) /\ Len(list) <= 1
    BY <1>1, <1>2
  <2>2. (\E q \in ToSet(list) : q.status = "Published")
          <=> list # <<>> /\ list[1].status = "Published"
    <3> HIDE DEF P, list
    <3>1. DOMAIN list = 1..Len(list) /\ (list # <<>> => Len(list) = 1)
      <4>1. DOMAIN list = 1..Len(list) /\ Len(list) \in Nat
        BY <2>1
      <4>2. list # <<>> => Len(list) # 0
        BY <2>1
      <4> QED BY <2>1, <4>1, <4>2
    <3>2. CASE list = <<>>
      <4>1. DOMAIN list = {}
        BY <3>2
      <4> QED BY <3>2, <4>1 DEF ToSet
    <3>3. CASE list # <<>>
      <4>1. DOMAIN list = {1}
        BY <3>1, <3>3
      <4>2. ToSet(list) = {list[1]}
        BY <4>1 DEF ToSet
      <4> QED BY <3>3, <4>2
    <3> QED BY <3>2, <3>3
  <2> QED BY <2>2 DEF IsPublished
<1>5. 0 \in Enum /\ 1 \in Enum /\ 0 \in Int64 /\ <<>> \in Bytes /\ Fits(<<>>)
  <2>1. 1 \in 0..(Pow2[SmallBits - 1] - 1)
    BY PowerSplits
  <2>2. Pow2[SmallBits - 1] \in Int
    BY PowerSplits
  <2>3. 1 \in Enum
    BY <2>1, <2>2 DEF Enum
  <2>4. Fits(<<>>)
    <3>1. Len(<<>>) = 0
      OBVIOUS
    <3> QED BY <3>1, PowerSplits DEF Fits
  <2> QED BY <2>3, <2>4, ZeroFits
<1>6. p = [spaceId |-> o.spaceId, objectId |-> o.objectId, uri |-> o.uri,
           timestamp |-> o.timestamp, status |-> p.status, version |-> p.version,
           size |-> p.size, unknownFields |-> <<>>]
  BY DEF toPublish
<1>7. IF IsPublished(o)
      THEN p.status = 1 /\ p.version = active.version /\ p.size = active.size
      ELSE p.status = 0 /\ p.version = <<>> /\ p.size = 0
  BY DEF toPublish
<1>8. IsPublished(o) => o.publish # <<>>
  BY DEF IsPublished
<1> HIDE DEF p, active
<1>9. p.status \in Enum /\ p.version \in Bytes /\ p.size \in Int64 /\ Fits(p.version)
  BY <1>1, <1>3, <1>5, <1>7, <1>8
<1>10. p \in PublishMessage
  <2>1. [spaceId |-> o.spaceId, objectId |-> o.objectId, uri |-> o.uri,
           timestamp |-> o.timestamp, status |-> p.status, version |-> p.version,
           size |-> p.size, unknownFields |-> <<>>] \in PublishMessage
    BY <1>2, <1>5, <1>9 DEF PublishMessage
  <2> QED BY <1>6, <2>1
<1>11. /\ p.spaceId = o.spaceId /\ p.objectId = o.objectId /\ p.uri = o.uri
       /\ p.timestamp = o.timestamp /\ p.unknownFields = <<>>
  BY <1>6
<1>12. Sendable(p)
  BY <1>1, <1>9, <1>10, <1>11, NothingLater DEF Sendable
<1>13. Fits(MarshalPublish(p))
  BY AnswersAssumption DEF p
<1>14. ShowsObject(p, o)
  BY <1>4, <1>7, <1>11 DEF ShowsObject, active
<1> QED BY <1>12, <1>13, <1>14 DEF p

\* The messages that show a list of objects.
Shown(list) == [i \in DOMAIN list |-> toPublish(list[i])]

\* The messages made of a list of objects can be sent, and show the objects one by one.
LEMMA ShownIs ==
  ASSUME NEW list \in Seq(Seen(Documents))
  PROVE  /\ SendableList(Shown(list)) /\ Len(Shown(list)) = Len(list)
         /\ DOMAIN Shown(list) = DOMAIN list
         /\ \A i \in DOMAIN list : ShowsObject(Shown(list)[i], list[i])
<1> DEFINE p == Shown(list)
           S == Seen(Documents)
<1>1. Len(list) \in Nat /\ DOMAIN list = 1..Len(list) /\ \A i \in 1..Len(list) : list[i] \in S
  <2>1. list \in Seq(S)
    OBVIOUS
  <2> HIDE DEF S
  <2> QED BY <2>1
<1>2. DOMAIN p = 1..Len(list) /\ \A i \in 1..Len(list) : p[i] = toPublish(list[i])
  BY <1>1 DEF Shown
<1>3. \A i \in 1..Len(list) : Sendable(p[i]) /\ Fits(MarshalPublish(p[i]))
                              /\ ShowsObject(p[i], list[i])
  <2> HIDE DEF p
  <2> QED BY <1>1, <1>2, PublishShows
<1>4. p \in Seq(PublishMessage) /\ Len(p) = Len(list)
  <2>1. \A i \in 1..Len(list) : p[i] \in PublishMessage
    <3> HIDE DEF p
    <3> QED BY <1>3 DEF Sendable
  <2>2. p = [i \in 1..Len(list) |-> p[i]]
    BY <1>1 DEF Shown
  <2> HIDE DEF p
  <2>3. p \in [1..Len(list) -> PublishMessage]
    BY <2>1, <2>2
  <2> QED BY <1>1, <2>3
<1> HIDE DEF p
<1>5. SendableList(p)
  BY <1>3, <1>4 DEF SendableList
<1> QED BY <1>1, <1>2, <1>3, <1>4, <1>5 DEF p

\* What reading some of the documents finds, reading all of them may find.
LEMMA SeenGrows ==
  ASSUME NEW objects \in SUBSET Documents
  PROVE  Seen(objects) \subseteq Seen(Documents)
BY DEF Seen

\* The answer of the two methods that find one object.
ShowsOne(o) ==
  \E x \in Seen(Documents) :
    o.message = [publish |-> <<toPublish(x)>>, unknownFields |-> <<>>] /\ o.found = <<x>>

ShowsList(o) ==
  \E list \in Seq(Seen(Documents)) :
    o.message = [publishes |-> Shown(list), unknownFields |-> <<>>] /\ o.found = list

NamesUrl(o) ==
  \E url \in Strings :
    o.message = [uploadUrl |-> url, unknownFields |-> <<>>]

SaysOk(o) == o.message = [unknownFields |-> <<>>] /\ o.found = <<>>

\* A failure is no answer.
LEMMA FailureFails ==
  ASSUME NEW e, e # "nil"
  PROVE  Fails(e).err # "nil"
BY DEF Fails

\* The answers of a handler do not depend on who asks for what, but for which of the
\* documents they are made of.
LEMMA HandlersAnswer ==
  ASSUME NEW h \in Methods, NEW asked, NEW o \in Handle(h, asked)
  PROVE  o \in AnswersOf(h)
<1>1. ASSUME NEW objects \in SUBSET Documents
      PROVE  getPublishByQuery(objects) \subseteq getPublishByQuery(Documents)
  BY SeenGrows DEF getPublishByQuery
<1>2. CASE h = "ResolveUri"
  <2>1. o \in getPublishByQuery({d \in Documents : d.uri = asked.uri})
    BY <1>2 DEF Handle, ResolveUri
  <2> QED BY <1>1, <1>2, <2>1 DEF AnswersOf
<1>3. CASE h = "GetPublishStatus"
  <2>1. o \in getPublishByQuery({d \in Documents :
                       d.spaceId = asked.spaceId /\ d.objectId = asked.objectId})
    BY <1>3 DEF Handle, GetPublishStatus
  <2> QED BY <1>1, <1>3, <2>1 DEF AnswersOf
<1>4. CASE h = "Publish"
  BY <1>4 DEF Handle, AnswersOf, Publish
<1>5. CASE h = "UnPublish"
  BY <1>5 DEF Handle, AnswersOf, UnPublish
<1>6. CASE h = "ListPublishes"
  <2> DEFINE matching == {d \in Documents : asked.spaceId = <<>> \/ d.spaceId = asked.spaceId}
             all == {d \in Documents : <<>> = <<>> \/ d.spaceId = <<>>}
             once(l) == Cardinality({x.uri : x \in ToSet(l)}) = Len(l)
             shows(l) == Answers([publishes |-> [i \in DOMAIN l |-> toPublish(l[i])],
                                  unknownFields |-> <<>>], l)
  <2>1. o = Unavailable \/ \E l \in SeqOf(Seen(matching), ListLength) : once(l) /\ o = shows(l)
    BY <1>6 DEF Handle, ListPublishes
  <2>2. ASSUME o = Unavailable \/ \E l \in SeqOf(Seen(all), ListLength) : once(l) /\ o = shows(l)
        PROVE  o \in ListPublishes([spaceId |-> <<>>])
    BY <2>2 DEF ListPublishes
  <2>3. Seen(matching) \subseteq Seen(all)
    BY DEF Seen
  <2> DEFINE S == Seen(matching)
             T == Seen(all)
  <2>4. SeqOf(S, ListLength) \subseteq SeqOf(T, ListLength)
    <3>1. S \subseteq T
      BY <2>3
    <3> HIDE DEF S, T
    <3>2. \A n \in 0..ListLength : [1..n -> S] \subseteq [1..n -> T]
      BY <3>1
    <3> QED BY <3>2 DEF SeqOf
  <2> HIDE DEF once, shows, matching, all
  <2>5. o \in ListPublishes([spaceId |-> <<>>])
    BY <2>1, <2>2, <2>4
  <2> QED BY <1>6, <2>5 DEF AnswersOf, Handle
<1> QED BY <1>2, <1>3, <1>4, <1>5, <1>6 DEF Methods

\* What a handler may answer.
LEMMA AnswersAre ==
  ASSUME NEW h \in Methods, NEW o \in AnswersOf(h), o.err = "nil"
  PROVE  /\ h \in {"ResolveUri", "GetPublishStatus"} => ShowsOne(o)
         /\ h = "Publish" => NamesUrl(o)
         /\ h = "UnPublish" => SaysOk(o)
         /\ h = "ListPublishes" => ShowsList(o)
<1> DEFINE all == [spaceId |-> <<>>]
<1>1. CASE h \in {"ResolveUri", "GetPublishStatus"}
  <2>1. o \in getPublishByQuery(Documents)
    BY <1>1 DEF AnswersOf
  <2>2. o # Unavailable /\ o # Fails("NotFound")
    BY FailureFails DEF Unavailable
  <2>3. PICK x \in Seen(Documents) :
          o = Answers([publish |-> <<toPublish(x)>>, unknownFields |-> <<>>], <<x>>)
    BY <2>1, <2>2 DEF getPublishByQuery
  <2>4. o.message = [publish |-> <<toPublish(x)>>, unknownFields |-> <<>>] /\ o.found = <<x>>
    BY <2>3 DEF Answers
  <2> QED BY <1>1, <2>4 DEF ShowsOne
<1>3. CASE h = "Publish"
  <2>1. o \in Publish(all)
    BY <1>3 DEF Handle, AnswersOf
  <2>2. o # Unavailable /\ o # Fails("UriNotUnique")
    BY FailureFails DEF Unavailable
  <2>3. PICK url \in Strings : o = Answers([uploadUrl |-> url, unknownFields |-> <<>>], <<>>)
    BY <2>1, <2>2 DEF Publish
  <2>4. o.message = [uploadUrl |-> url, unknownFields |-> <<>>]
    BY <2>3 DEF Answers
  <2> QED BY <1>3, <2>4 DEF NamesUrl
<1>4. CASE h = "UnPublish"
  <2>1. o \in UnPublish(all)
    BY <1>4 DEF Handle, AnswersOf
  <2>2. o # Unavailable
    BY FailureFails DEF Unavailable
  <2>3. o = Answers([unknownFields |-> <<>>], <<>>)
    BY <2>1, <2>2 DEF UnPublish
  <2> QED BY <1>4, <2>3 DEF SaysOk, Answers
<1>5. CASE h = "ListPublishes"
  <2> DEFINE matching == {d \in Documents : all.spaceId = <<>> \/ d.spaceId = all.spaceId}
             S == Seen(matching)
  <2>1. o \in ListPublishes(all)
    BY <1>5 DEF Handle, AnswersOf
  <2>2. o # Unavailable
    BY FailureFails DEF Unavailable
  <2>3. PICK list \in SeqOf(S, ListLength) :
          o = Answers([publishes |-> [i \in DOMAIN list |-> toPublish(list[i])],
                       unknownFields |-> <<>>], list)
    BY <2>1, <2>2 DEF ListPublishes
  <2>4. S \subseteq Seen(Documents)
    BY SeenGrows
  <2> HIDE DEF S
  <2>5. PICK n \in 0..ListLength : list \in [1..n -> S]
    BY <2>3 DEF SeqOf
  <2>6. list \in Seq(S)
    BY <2>5, DocumentsAssumption
  <2>7. list \in Seq(Seen(Documents))
    BY <2>4, <2>6
  <2>8. o.message = [publishes |-> Shown(list), unknownFields |-> <<>>] /\ o.found = list
    BY <2>3 DEF Answers, Shown
  <2> QED BY <1>5, <2>7, <2>8 DEF ShowsList
<1> QED BY <1>1, <1>3, <1>4, <1>5 DEF Methods

\* The types of the answers.
LEMMA AnswerTypes ==
  /\ ClientStub["ResolveUri"].out = "ResolveUriResponse"
  /\ ClientStub["GetPublishStatus"].out = "GetPublishStatusResponse"
  /\ ClientStub["Publish"].out = "PublishResponse"
  /\ ClientStub["UnPublish"].out = "Ok"
  /\ ClientStub["ListPublishes"].out = "ListPublishesResponse"
BY DEF ClientStub

\* What the method h of the client returns of the message m shows what o was made of.
ShowsAnswer(h, m, o) ==
  /\ h = "Publish" => Returned(h, m) = o.message.uploadUrl
  /\ h # "Publish" =>
       /\ DOMAIN Returned(h, m) = DOMAIN o.found
       /\ \A i \in DOMAIN Returned(h, m) : ShowsObject(Returned(h, m)[i], o.found[i])

\* The message m is written, and read back.
Survives(type, m) ==
  /\ Marshal(type, m).err = "nil"
  /\ Fits(Marshal(type, m).value) => \E n : Unmarshal(type, Marshal(type, m).value) = Read(m, n)

\* A message that fills its buffer and is read back survives.
LEMMA SurvivesIs ==
  ASSUME NEW type, NEW m, NEW bytes, Marshal(type, m) = Read(bytes, 0),
         Fits(bytes) => Unmarshal(type, bytes) = Read(m, Len(bytes) + 1)
  PROVE  Survives(type, m)
<1>1. Marshal(type, m).err = "nil" /\ Marshal(type, m).value = bytes
  BY StepIs
<1> QED BY <1>1 DEF Survives

\* What a later version adds is bytes, of fields this version does not know.
LEMMA ExtensionIs ==
  ASSUME NEW ext \in Extensions
  PROVE  ext \in Bytes /\ LaterFields(ext)
BY ExtensionsAssumption

\* What ResolveUri answers survives, and shows the object.
LEMMA ResolveUriAnswer ==
  ASSUME NEW o, ShowsOne(o), NEW ext \in Extensions, NEW m, m = Extended(o.message, ext)
  PROVE  Survives("ResolveUriResponse", m) /\ ShowsAnswer("ResolveUri", m, o)
<1>1. PICK x \in Seen(Documents) :
        o.message = [publish |-> <<toPublish(x)>>, unknownFields |-> <<>>] /\ o.found = <<x>>
  BY DEF ShowsOne
<1> DEFINE list == Shown(<<x>>)
<1>2. <<x>> \in Seq(Seen(Documents)) /\ DOMAIN <<x>> = 1..1 /\ Len(<<x>>) = 1
  OBVIOUS
<1>3. list = <<toPublish(x)>>
  BY <1>2 DEF Shown
<1>4. SendableList(list) /\ Len(list) <= 1 /\ DOMAIN list = DOMAIN <<x>>
      /\ \A i \in DOMAIN <<x>> : ShowsObject(list[i], <<x>>[i])
  <2>1. SendableList(list) /\ Len(list) = 1 /\ DOMAIN list = DOMAIN <<x>>
        /\ \A i \in DOMAIN <<x>> : ShowsObject(list[i], <<x>>[i])
    BY <1>2, ShownIs
  <2> HIDE DEF list
  <2>2. Len(list) <= 1
    BY <2>1
  <2> QED BY <2>1, <2>2
<1> HIDE DEF list
<1>5. m = [publish |-> list, unknownFields |-> ext]
  BY <1>1, <1>3 DEF Extended
<1>6. m.publish = list /\ m.unknownFields = ext
  BY <1>5
<1>7. ext \in Bytes /\ LaterFields(ext) /\ list \in Seq(PublishMessage)
  BY <1>4, ExtensionIs DEF SendableList
<1>8. m \in ResolveUriResponse
  BY <1>5, <1>7 DEF ResolveUriResponse
<1>9. Survives("ResolveUriResponse", m)
  <2> DEFINE bytes == MarshalResolveUriResponse(m)
  <2>1. SendableList(m.publish) /\ Len(m.publish) <= 1 /\ LaterFields(m.unknownFields)
    BY <1>4, <1>6, <1>7
  <2>2. /\ MarshalVT(SizeResolveUriResponse(m), bytes) = Read(bytes, 0)
        /\ Fits(bytes) => UnmarshalResolveUriResponse(bytes) = Read(m, Len(bytes) + 1)
    BY <1>8, <2>1, ResolveUriResponseIs
  <2>3. Marshal("ResolveUriResponse", m) = MarshalVT(SizeResolveUriResponse(m), bytes)
        /\ Unmarshal("ResolveUriResponse", bytes) = UnmarshalResolveUriResponse(bytes)
    BY DEF Marshal, Unmarshal
  <2> HIDE DEF bytes
  <2> QED BY <2>2, <2>3, SurvivesIs
<1>10. Returned("ResolveUri", m) = list
  BY <1>6 DEF Returned
<1>11. ShowsAnswer("ResolveUri", m, o)
  BY <1>1, <1>4, <1>10 DEF ShowsAnswer
<1> QED BY <1>9, <1>11

\* What GetPublishStatus answers survives, and shows the object.
LEMMA GetPublishStatusAnswer ==
  ASSUME NEW o, ShowsOne(o), NEW ext \in Extensions, NEW m, m = Extended(o.message, ext)
  PROVE  Survives("GetPublishStatusResponse", m) /\ ShowsAnswer("GetPublishStatus", m, o)
<1>1. PICK x \in Seen(Documents) :
        o.message = [publish |-> <<toPublish(x)>>, unknownFields |-> <<>>] /\ o.found = <<x>>
  BY DEF ShowsOne
<1> DEFINE list == Shown(<<x>>)
<1>2. <<x>> \in Seq(Seen(Documents)) /\ DOMAIN <<x>> = 1..1 /\ Len(<<x>>) = 1
  OBVIOUS
<1>3. list = <<toPublish(x)>>
  BY <1>2 DEF Shown
<1>4. SendableList(list) /\ Len(list) <= 1 /\ DOMAIN list = DOMAIN <<x>>
      /\ \A i \in DOMAIN <<x>> : ShowsObject(list[i], <<x>>[i])
  <2>1. SendableList(list) /\ Len(list) = 1 /\ DOMAIN list = DOMAIN <<x>>
        /\ \A i \in DOMAIN <<x>> : ShowsObject(list[i], <<x>>[i])
    BY <1>2, ShownIs
  <2> HIDE DEF list
  <2>2. Len(list) <= 1
    BY <2>1
  <2> QED BY <2>1, <2>2
<1> HIDE DEF list
<1>5. m = [publish |-> list, unknownFields |-> ext]
  BY <1>1, <1>3 DEF Extended
<1>6. m.publish = list /\ m.unknownFields = ext
  BY <1>5
<1>7. ext \in Bytes /\ LaterFields(ext) /\ list \in Seq(PublishMessage)
  BY <1>4, ExtensionIs DEF SendableList
<1>8. m \in GetPublishStatusResponse
  BY <1>5, <1>7 DEF GetPublishStatusResponse
<1>9. Survives("GetPublishStatusResponse", m)
  <2> DEFINE bytes == MarshalGetPublishStatusResponse(m)
  <2>1. SendableList(m.publish) /\ Len(m.publish) <= 1 /\ LaterFields(m.unknownFields)
    BY <1>4, <1>6, <1>7
  <2>2. /\ MarshalVT(SizeGetPublishStatusResponse(m), bytes) = Read(bytes, 0)
        /\ Fits(bytes) => UnmarshalGetPublishStatusResponse(bytes) = Read(m, Len(bytes) + 1)
    BY <1>8, <2>1, GetPublishStatusResponseIs
  <2>3. Marshal("GetPublishStatusResponse", m) = MarshalVT(SizeGetPublishStatusResponse(m), bytes)
        /\ Unmarshal("GetPublishStatusResponse", bytes) = UnmarshalGetPublishStatusResponse(bytes)
    BY DEF Marshal, Unmarshal
  <2> HIDE DEF bytes
  <2> QED BY <2>2, <2>3, SurvivesIs
<1>10. Returned("GetPublishStatus", m) = list
  BY <1>6 DEF Returned
<1>11. ShowsAnswer("GetPublishStatus", m, o)
  BY <1>1, <1>4, <1>10 DEF ShowsAnswer
<1> QED BY <1>9, <1>11

\* What ListPublishes answers survives, and shows the objects.
LEMMA ListPublishesAnswer ==
  ASSUME NEW o, ShowsList(o), NEW ext \in Extensions, NEW m, m = Extended(o.message, ext)
  PROVE  Survives("ListPublishesResponse", m) /\ ShowsAnswer("ListPublishes", m, o)
<1>1. PICK found \in Seq(Seen(Documents)) :
        o.message = [publishes |-> Shown(found), unknownFields |-> <<>>] /\ o.found = found
  BY DEF ShowsList
<1> DEFINE list == Shown(found)
<1>4. SendableList(list) /\ DOMAIN list = DOMAIN found
      /\ \A i \in DOMAIN found : ShowsObject(list[i], found[i])
  BY ShownIs
<1>5. m = [publishes |-> list, unknownFields |-> ext]
  BY <1>1 DEF Extended
<1> HIDE DEF list
<1>6. m.publishes = list /\ m.unknownFields = ext
  BY <1>5
<1>7. ext \in Bytes /\ LaterFields(ext) /\ list \in Seq(PublishMessage)
  BY <1>4, ExtensionIs DEF SendableList
<1>8. m \in ListPublishesResponse
  BY <1>5, <1>7 DEF ListPublishesResponse
<1>9. Survives("ListPublishesResponse", m)
  <2> DEFINE bytes == MarshalListPublishesResponse(m)
  <2>1. SendableList(m.publishes) /\ LaterFields(m.unknownFields)
    BY <1>4, <1>6, <1>7
  <2>2. /\ MarshalVT(SizeListPublishesResponse(m), bytes) = Read(bytes, 0)
        /\ Fits(bytes) => UnmarshalListPublishesResponse(bytes) = Read(m, Len(bytes) + 1)
    BY <1>8, <2>1, ListPublishesResponseIs
  <2>3. Marshal("ListPublishesResponse", m) = MarshalVT(SizeListPublishesResponse(m), bytes)
        /\ Unmarshal("ListPublishesResponse", bytes) = UnmarshalListPublishesResponse(bytes)
    BY DEF Marshal, Unmarshal
  <2> HIDE DEF bytes
  <2> QED BY <2>2, <2>3, SurvivesIs
<1>10. Returned("ListPublishes", m) = list
  BY <1>6 DEF Returned
<1>11. ShowsAnswer("ListPublishes", m, o)
  BY <1>1, <1>4, <1>10 DEF ShowsAnswer
<1> QED BY <1>9, <1>11

\* What Publish answers survives, and is the url.
LEMMA PublishAnswer ==
  ASSUME NEW o, NamesUrl(o), NEW ext \in Extensions, NEW m, m = Extended(o.message, ext)
  PROVE  Survives("PublishResponse", m) /\ ShowsAnswer("Publish", m, o)
<1>1. PICK url \in Strings : o.message = [uploadUrl |-> url, unknownFields |-> <<>>]
  BY DEF NamesUrl
<1>2. m = [uploadUrl |-> url, unknownFields |-> ext]
  BY <1>1 DEF Extended
<1>3. m.uploadUrl = url /\ m.unknownFields = ext
  BY <1>2
<1>4. ext \in Bytes /\ LaterFields(ext) /\ url \in Bytes /\ Fits(url)
  BY ExtensionIs, StringsAssumption
<1>5. m \in PublishResponse
  BY <1>2, <1>4 DEF PublishResponse
<1>6. Survives("PublishResponse", m)
  <2> DEFINE bytes == MarshalPublishResponse(m)
  <2>1. Fits(m.uploadUrl) /\ LaterFields(m.unknownFields)
    BY <1>3, <1>4
  <2>2. /\ MarshalVT(SizePublishResponse(m), bytes) = Read(bytes, 0)
        /\ Fits(bytes) => UnmarshalPublishResponse(bytes) = Read(m, Len(bytes) + 1)
    BY <1>5, <2>1, PublishResponseIs
  <2>3. Marshal("PublishResponse", m) = MarshalVT(SizePublishResponse(m), bytes)
        /\ Unmarshal("PublishResponse", bytes) = UnmarshalPublishResponse(bytes)
    BY DEF Marshal, Unmarshal
  <2> HIDE DEF bytes
  <2> QED BY <2>2, <2>3, SurvivesIs
<1>7. Returned("Publish", m) = url /\ o.message.uploadUrl = url
  BY <1>1, <1>3 DEF Returned
<1> QED BY <1>6, <1>7 DEF ShowsAnswer

\* What UnPublish answers survives.
LEMMA UnPublishAnswer ==
  ASSUME NEW o, SaysOk(o), NEW ext \in Extensions, NEW m, m = Extended(o.message, ext)
  PROVE  Survives("Ok", m) /\ ShowsAnswer("UnPublish", m, o)
<1>1. o.message = [unknownFields |-> <<>>] /\ o.found = <<>>
  BY DEF SaysOk
<1>2. m = [unknownFields |-> ext]
  BY <1>1 DEF Extended
<1>3. m.unknownFields = ext
  BY <1>2
<1>4. ext \in Bytes /\ LaterFields(ext)
  BY ExtensionIs
<1>5. m \in Ok
  BY <1>2, <1>4 DEF Ok
<1>6. Survives("Ok", m)
  <2> DEFINE bytes == MarshalOk(m)
  <2>1. LaterFields(m.unknownFields)
    BY <1>3, <1>4
  <2>2. /\ MarshalVT(SizeOk(m), bytes) = Read(bytes, 0)
        /\ Fits(bytes) => UnmarshalOk(bytes) = Read(m, Len(bytes) + 1)
    BY <1>5, <2>1, OkIs
  <2>3. Marshal("Ok", m) = MarshalVT(SizeOk(m), bytes) /\ Unmarshal("Ok", bytes) = UnmarshalOk(bytes)
    BY DEF Marshal, Unmarshal
  <2> HIDE DEF bytes
  <2> QED BY <2>2, <2>3, SurvivesIs
<1>7. Returned("UnPublish", m) = <<>> /\ DOMAIN <<>> = {}
  BY DEF Returned
<1> QED BY <1>1, <1>6, <1>7 DEF ShowsAnswer

\* What a handler answers can be written and read back, and shows what was found.
LEMMA AnswerRead ==
  ASSUME NEW h \in Methods, NEW o \in AnswersOf(h), o.err = "nil",
         NEW ext \in Extensions, NEW m, m = Extended(o.message, ext)
  PROVE  Survives(ClientStub[h].out, m) /\ ShowsAnswer(h, m, o)
<1>1. CASE h = "ResolveUri"
  BY <1>1, AnswersAre, AnswerTypes, ResolveUriAnswer
<1>2. CASE h = "GetPublishStatus"
  BY <1>2, AnswersAre, AnswerTypes, GetPublishStatusAnswer
<1>3. CASE h = "Publish"
  BY <1>3, AnswersAre, AnswerTypes, PublishAnswer
<1>4. CASE h = "UnPublish"
  BY <1>4, AnswersAre, AnswerTypes, UnPublishAnswer
<1>5. CASE h = "ListPublishes"
  BY <1>5, AnswersAre, AnswerTypes, ListPublishesAnswer
<1> QED BY <1>1, <1>2, <1>3, <1>4, <1>5 DEF Methods

\* No bytes make UnmarshalVT read outside of them.
Harmless(type) ==
  \A bytes \in Bytes : Fits(bytes) => Unmarshal(type, bytes).err # "panic"

\* A decoder that keeps its messages well formed does not read outside of its bytes.
LEMMA DecodesHarmlessly ==
  ASSUME NEW Message, NEW fields, Codec(Message, fields), NEW bytes \in Bytes, Fits(bytes)
  PROVE  UnmarshalVT(Message, fields, bytes).err # "panic"
<1>1. Decodes(UnmarshalVT(Message, fields, bytes), Message, Len(bytes) + 1)
  BY UnmarshalDecodes
<1>2. "panic" \notin Refusals /\ "panic" # "nil"
  BY DEF Refusals
<1> QED BY <1>1, <1>2 DEF Decodes

\* No bytes harm the decoder of a ResolveUriRequest.
LEMMA ResolveUriRequestHarmless == Harmless("ResolveUriRequest")
<1> DEFINE F == <<StringOf("uri")>>
<1>1. /\ DOMAIN F = 1..1
      /\ F[1].name = "uri" /\ F[1].kind = "string"
  BY DEF StringOf
<1>2. \A bytes : Unmarshal("ResolveUriRequest", bytes) = UnmarshalVT(ResolveUriRequest, F, bytes)
  BY DEF Unmarshal, UnmarshalResolveUriRequest
<1> HIDE DEF F
<1>3. \A n \in 1..1 : n = 1
  OBVIOUS
<1>4. Names(F) = {"uri", "unknownFields"}
  BY <1>1, <1>3 DEF Names
<1>5. AllBytes(F) = ResolveUriRequest
  BY <1>4 DEF AllBytes, ResolveUriRequest
<1>6. StringFields(F)
  BY <1>1, <1>3 DEF StringFields
<1>7. Codec(ResolveUriRequest, F)
  BY <1>5, <1>6, StringCodec
<1> QED BY <1>2, <1>7, DecodesHarmlessly DEF Harmless

\* No bytes harm the decoder of a ResolveUriResponse.
LEMMA ResolveUriResponseHarmless == Harmless("ResolveUriResponse")
<1> DEFINE F == <<PublishOf("publish")>>
<1>1. DOMAIN F = 1..1 /\ F[1].name = "publish" /\ F[1].kind = "publish"
  BY DEF PublishOf
<1>2. \A bytes : Unmarshal("ResolveUriResponse", bytes) = UnmarshalVT(ResolveUriResponse, F, bytes)
  BY DEF Unmarshal, UnmarshalResolveUriResponse
<1> HIDE DEF F
<1>3. Codec(ResolveUriResponse, F)
  BY <1>1, OnePublishCodec DEF ResolveUriResponse
<1> QED BY <1>2, <1>3, DecodesHarmlessly DEF Harmless

\* No bytes harm the decoder of an Ok.
LEMMA OkHarmless == Harmless("Ok")
<1> DEFINE F == <<>>
<1>1. /\ DOMAIN F = {}
  OBVIOUS
<1>2. \A bytes : Unmarshal("Ok", bytes) = UnmarshalVT(Ok, F, bytes)
  BY DEF Unmarshal, UnmarshalOk
<1> HIDE DEF F
<1>3. \A n \in {} : FALSE
  OBVIOUS
<1>4. Names(F) = {"unknownFields"}
  BY <1>1, <1>3 DEF Names
<1>5. AllBytes(F) = Ok
  BY <1>4 DEF AllBytes, Ok
<1>6. StringFields(F)
  BY <1>1, <1>3 DEF StringFields
<1>7. Codec(Ok, F)
  BY <1>5, <1>6, StringCodec
<1> QED BY <1>2, <1>7, DecodesHarmlessly DEF Harmless

\* No bytes harm the decoder of a GetPublishStatusRequest.
LEMMA GetPublishStatusRequestHarmless == Harmless("GetPublishStatusRequest")
<1> DEFINE F == <<StringOf("spaceId"), StringOf("objectId")>>
<1>1. /\ DOMAIN F = 1..2
      /\ F[1].name = "spaceId" /\ F[1].kind = "string"
      /\ F[2].name = "objectId" /\ F[2].kind = "string"
  BY DEF StringOf
<1>2. \A bytes : Unmarshal("GetPublishStatusRequest", bytes) = UnmarshalVT(GetPublishStatusRequest, F, bytes)
  BY DEF Unmarshal, UnmarshalGetPublishStatusRequest
<1> HIDE DEF F
<1>3. \A n \in 1..2 : n = 1 \/ n = 2
  OBVIOUS
<1>4. Names(F) = {"spaceId", "objectId", "unknownFields"}
  BY <1>1, <1>3 DEF Names
<1>5. AllBytes(F) = GetPublishStatusRequest
  BY <1>4 DEF AllBytes, GetPublishStatusRequest
<1>6. StringFields(F)
  BY <1>1, <1>3 DEF StringFields
<1>7. Codec(GetPublishStatusRequest, F)
  BY <1>5, <1>6, StringCodec
<1> QED BY <1>2, <1>7, DecodesHarmlessly DEF Harmless

\* No bytes harm the decoder of a GetPublishStatusResponse.
LEMMA GetPublishStatusResponseHarmless == Harmless("GetPublishStatusResponse")
<1> DEFINE F == <<PublishOf("publish")>>
<1>1. DOMAIN F = 1..1 /\ F[1].name = "publish" /\ F[1].kind = "publish"
  BY DEF PublishOf
<1>2. \A bytes : Unmarshal("GetPublishStatusResponse", bytes) = UnmarshalVT(GetPublishStatusResponse, F, bytes)
  BY DEF Unmarshal, UnmarshalGetPublishStatusResponse
<1> HIDE DEF F
<1>3. Codec(GetPublishStatusResponse, F)
  BY <1>1, OnePublishCodec DEF GetPublishStatusResponse
<1> QED BY <1>2, <1>3, DecodesHarmlessly DEF Harmless

\* No bytes harm the decoder of a PublishRequest.
LEMMA PublishRequestHarmless == Harmless("PublishRequest")
<1> DEFINE F == <<StringOf("spaceId"), StringOf("objectId"), StringOf("uri"), StringOf("version")>>
<1>1. /\ DOMAIN F = 1..4
      /\ F[1].name = "spaceId" /\ F[1].kind = "string"
      /\ F[2].name = "objectId" /\ F[2].kind = "string"
      /\ F[3].name = "uri" /\ F[3].kind = "string"
      /\ F[4].name = "version" /\ F[4].kind = "string"
  BY DEF StringOf
<1>2. \A bytes : Unmarshal("PublishRequest", bytes) = UnmarshalVT(PublishRequest, F, bytes)
  BY DEF Unmarshal, UnmarshalPublishRequest
<1> HIDE DEF F
<1>3. \A n \in 1..4 : n = 1 \/ n = 2 \/ n = 3 \/ n = 4
  OBVIOUS
<1>4. Names(F) = {"spaceId", "objectId", "uri", "version", "unknownFields"}
  BY <1>1, <1>3 DEF Names
<1>5. AllBytes(F) = PublishRequest
  BY <1>4 DEF AllBytes, PublishRequest
<1>6. StringFields(F)
  BY <1>1, <1>3 DEF StringFields
<1>7. Codec(PublishRequest, F)
  BY <1>5, <1>6, StringCodec
<1> QED BY <1>2, <1>7, DecodesHarmlessly DEF Harmless

\* No bytes harm the decoder of a PublishResponse.
LEMMA PublishResponseHarmless == Harmless("PublishResponse")
<1> DEFINE F == <<StringOf("uploadUrl")>>
<1>1. /\ DOMAIN F = 1..1
      /\ F[1].name = "uploadUrl" /\ F[1].kind = "string"
  BY DEF StringOf
<1>2. \A bytes : Unmarshal("PublishResponse", bytes) = UnmarshalVT(PublishResponse, F, bytes)
  BY DEF Unmarshal, UnmarshalPublishResponse
<1> HIDE DEF F
<1>3. \A n \in 1..1 : n = 1
  OBVIOUS
<1>4. Names(F) = {"uploadUrl", "unknownFields"}
  BY <1>1, <1>3 DEF Names
<1>5. AllBytes(F) = PublishResponse
  BY <1>4 DEF AllBytes, PublishResponse
<1>6. StringFields(F)
  BY <1>1, <1>3 DEF StringFields
<1>7. Codec(PublishResponse, F)
  BY <1>5, <1>6, StringCodec
<1> QED BY <1>2, <1>7, DecodesHarmlessly DEF Harmless

\* No bytes harm the decoder of an UnPublishRequest.
LEMMA UnPublishRequestHarmless == Harmless("UnPublishRequest")
<1> DEFINE F == <<StringOf("spaceId"), StringOf("objectId")>>
<1>1. /\ DOMAIN F = 1..2
      /\ F[1].name = "spaceId" /\ F[1].kind = "string"
      /\ F[2].name = "objectId" /\ F[2].kind = "string"
  BY DEF StringOf
<1>2. \A bytes : Unmarshal("UnPublishRequest", bytes) = UnmarshalVT(UnPublishRequest, F, bytes)
  BY DEF Unmarshal, UnmarshalUnPublishRequest
<1> HIDE DEF F
<1>3. \A n \in 1..2 : n = 1 \/ n = 2
  OBVIOUS
<1>4. Names(F) = {"spaceId", "objectId", "unknownFields"}
  BY <1>1, <1>3 DEF Names
<1>5. AllBytes(F) = UnPublishRequest
  BY <1>4 DEF AllBytes, UnPublishRequest
<1>6. StringFields(F)
  BY <1>1, <1>3 DEF StringFields
<1>7. Codec(UnPublishRequest, F)
  BY <1>5, <1>6, StringCodec
<1> QED BY <1>2, <1>7, DecodesHarmlessly DEF Harmless

\* No bytes harm the decoder of a ListPublishesRequest.
LEMMA ListPublishesRequestHarmless == Harmless("ListPublishesRequest")
<1> DEFINE F == <<StringOf("spaceId")>>
<1>1. /\ DOMAIN F = 1..1
      /\ F[1].name = "spaceId" /\ F[1].kind = "string"
  BY DEF StringOf
<1>2. \A bytes : Unmarshal("ListPublishesRequest", bytes) = UnmarshalVT(ListPublishesRequest, F, bytes)
  BY DEF Unmarshal, UnmarshalListPublishesRequest
<1> HIDE DEF F
<1>3. \A n \in 1..1 : n = 1
  OBVIOUS
<1>4. Names(F) = {"spaceId", "unknownFields"}
  BY <1>1, <1>3 DEF Names
<1>5. AllBytes(F) = ListPublishesRequest
  BY <1>4 DEF AllBytes, ListPublishesRequest
<1>6. StringFields(F)
  BY <1>1, <1>3 DEF StringFields
<1>7. Codec(ListPublishesRequest, F)
  BY <1>5, <1>6, StringCodec
<1> QED BY <1>2, <1>7, DecodesHarmlessly DEF Harmless

\* No bytes harm the decoder of a ListPublishesResponse.
LEMMA ListPublishesResponseHarmless == Harmless("ListPublishesResponse")
<1> DEFINE F == <<PublishesOf("publishes")>>
<1>1. DOMAIN F = 1..1 /\ F[1].name = "publishes" /\ F[1].kind = "publishes"
  BY DEF PublishesOf
<1>2. \A bytes : Unmarshal("ListPublishesResponse", bytes) = UnmarshalVT(ListPublishesResponse, F, bytes)
  BY DEF Unmarshal, UnmarshalListPublishesResponse
<1> HIDE DEF F
<1>3. Codec(ListPublishesResponse, F)
  BY <1>1, ManyPublishesCodec DEF ListPublishesResponse
<1> QED BY <1>2, <1>3, DecodesHarmlessly DEF Harmless

\* No bytes harm either end of a method, and its handler is the one of its name.
LEMMA StubsHarmless ==
  ASSUME NEW m \in Methods
  PROVE  Harmless(Registered(ClientStub[m].path).in) /\ Harmless(ClientStub[m].out)
         /\ Registered(ClientStub[m].path).handler = m
<1>1. CASE m = "ResolveUri"
  BY <1>1, MethodsAre, AnswerTypes, ResolveUriRequestHarmless, ResolveUriResponseHarmless
<1>2. CASE m = "GetPublishStatus"
  BY <1>2, MethodsAre, AnswerTypes, GetPublishStatusRequestHarmless,
     GetPublishStatusResponseHarmless
<1>3. CASE m = "Publish"
  BY <1>3, MethodsAre, AnswerTypes, PublishRequestHarmless, PublishResponseHarmless
<1>4. CASE m = "UnPublish"
  BY <1>4, MethodsAre, AnswerTypes, UnPublishRequestHarmless, OkHarmless
<1>5. CASE m = "ListPublishes"
  BY <1>5, MethodsAre, AnswerTypes, ListPublishesRequestHarmless, ListPublishesResponseHarmless
<1> QED BY <1>1, <1>2, <1>3, <1>4, <1>5 DEF Methods

\* An error the API names is told from the others by its code; other errors have none.
LEMMA CodesTell ==
  ASSUME NEW e, e # "nil"
  PROVE  Unwrap(Code(e)) \in {e, "other"} /\ Unwrap(Code(e)) # "nil"
<1> DEFINE Named == {"Unexpected", "NotFound", "AccessDenied", "UriNotUnique"}
<1>1. DOMAIN ErrCodes = Named
  BY DEF ErrCodes
<1>2. /\ ErrCodes["Unexpected"] = 0 /\ ErrCodes["NotFound"] = 1
      /\ ErrCodes["AccessDenied"] = 2 /\ ErrCodes["UriNotUnique"] = 3
  BY DEF ErrCodes
<1>3. /\ Code("Unexpected") = 1100 /\ Code("NotFound") = 1101
      /\ Code("AccessDenied") = 1102 /\ Code("UriNotUnique") = 1103
      /\ \A x : x \notin Named => Code(x) = 0
  BY <1>1, <1>2 DEF Code, ErrorOffset
<1>4. \A x \in Named : Code(x) # 0 /\ \A y \in Named : Code(y) = Code(x) => y = x
  BY <1>3
<1>5. Unwrap(Code(e)) = IF \E x \in Named : Code(x) = Code(e)
                        THEN CHOOSE x \in Named : Code(x) = Code(e) ELSE "other"
  BY <1>1 DEF Unwrap
<1>6. CASE e \in Named
  <2> HIDE DEF Named
  <2>1. (CHOOSE x \in Named : Code(x) = Code(e)) = e
    BY <1>4, <1>6
  <2> QED BY <1>5, <1>6, <2>1
<1>7. CASE e \notin Named
  <2>1. \A x \in Named : Code(x) # Code(e)
    <3>1. Code(e) = 0
      BY <1>3, <1>7
    <3> QED BY <1>4, <3>1
  <2>2. Unwrap(Code(e)) = "other"
    BY <1>5, <2>1
  <2> QED BY <2>2
<1> QED BY <1>6, <1>7

\* The reply on its way is what a handler answered.
AnswerSent ==
  /\ call.outcome \in AnswersOf(call.method)
  /\ call.outcome.err = "nil" =>
       \E ext \in Extensions :
         call.wire = Marshal(ClientStub[call.method].out, Extended(call.outcome.message, ext)).value
  /\ call.outcome.err # "nil" => call.code = Code(call.outcome.err)

\* A reply to another program, or of one.
ForeignReplied ==
  call.foreign /\ (call.outcome.err = "nil" => call.wire \in ForeignBytes)

\* What is under way is a call of a method: a request is the client's or another
\* program's, and so is a reply; the handler that runs is that of the method.
UnderWay ==
  /\ call.at \in {"requested", "handling", "replied"} => call.method \in Methods
  /\ call.at = "requested" /\ call.foreign => call.wire \in ForeignBytes
  /\ call.at = "handling" => call.handler = call.method
  /\ call.at = "replied" => AnswerSent \/ ForeignReplied

Answering == Requesting /\ UnderWay /\ NeverPanics /\ AnswerArrives

\* A step after which nothing is under way, and nothing has arrived.
LEMMA AnswerIdle ==
  ASSUME Requesting',
         call'.at \notin {"requested", "handling", "replied", "returned", "panicked"}
  PROVE  Answering'
BY DEF Answering, UnderWay, NeverPanics, AnswerArrives

\* An error that the client returns is that of the service, or one of no name.
LEMMA AnswerLost ==
  ASSUME IsCall, Requesting', NEW e, e \in {call.outcome.err, "other"} \/ call.foreign,
         e # "nil", ReturnsError(e)
  PROVE  Answering'
<1>1. call'.at = "returned" /\ call'.err = e /\ call'.outcome = call.outcome
      /\ call'.foreign = call.foreign
  BY CallFields DEF ReturnsError, IsCall
<1> QED BY <1>1 DEF Answering, UnderWay, NeverPanics, AnswerArrives

\* The request of the client is written without a panic.
LEMMA InvokeAnswer ==
  ASSUME Answering, Requesting', Invoke
  PROVE  Answering'
<1>1. PICK bytes : /\ bytes = Marshal(ClientStub[call.method].in, call.request)
                   /\ call' = IF bytes.err = "panic" THEN [call EXCEPT !.at = "panicked"]
                              ELSE [call EXCEPT !.at = "requested", !.wire = bytes.value]
  BY DEF Invoke
<1>2. IsCall /\ call.at = "called" /\ ~call.foreign /\ call.method \in Methods
      /\ call.request \in Requests(call.method)
  BY DEF Invoke, Answering, Requesting, RequestSent, Asked
<1>3. bytes.err = "nil"
  BY <1>1, <1>2, RequestRead
<1>4. call' = [call EXCEPT !.at = "requested", !.wire = bytes.value]
  BY <1>1, <1>3
<1>5. call'.at = "requested" /\ ~call'.foreign /\ call'.method = call.method
  BY <1>2, <1>4, CallFields DEF IsCall
<1> QED BY <1>2, <1>5 DEF Answering, UnderWay, NeverPanics, AnswerArrives

\* Another program asks for a method, or answers to one.
LEMMA ForeignAnswer ==
  ASSUME Answering, Requesting', ForeignRequest \/ ForeignReply
  PROVE  Answering'
<1>1. CASE ForeignRequest
  <2>1. PICK m \in Methods, b \in ForeignBytes :
          call' = [NoCall EXCEPT !.at = "requested", !.method = m, !.foreign = TRUE, !.wire = b]
    BY <1>1 DEF ForeignRequest
  <2>2. call'.at = "requested" /\ call'.method = m /\ call'.wire = b
    BY <2>1 DEF NoCall
  <2> QED BY <2>2 DEF Answering, UnderWay, NeverPanics, AnswerArrives
<1>2. CASE ForeignReply
  <2>1. PICK b \in ForeignBytes :
          call' = [NoCall EXCEPT !.at = "replied", !.method = call.method,
                                 !.foreign = TRUE, !.wire = b,
                                 !.outcome = Answers(NoMessage, <<>>)]
    BY <1>2 DEF ForeignReply
  <2>2. call'.at = "replied" /\ call'.method = call.method /\ call'.wire = b /\ call'.foreign
    BY <2>1 DEF NoCall
  <2>3. call.method \in Methods
    BY <1>2 DEF ForeignReply, Answering, UnderWay
  <2> QED BY <2>2, <2>3 DEF Answering, UnderWay, ForeignReplied, NeverPanics, AnswerArrives
<1> QED BY <1>1, <1>2

\* The server reads the client's request, and refuses what it cannot read of another's.
LEMMA ServerReceivesAnswer ==
  ASSUME Answering, Requesting', ServerReceives
  PROVE  Answering'
<1> DEFINE rpc == Registered(ClientStub[call.method].path)
<1>1. PICK in : /\ in = Unmarshal(rpc.in, call.wire)
                /\ call' = CASE in.err = "nil" ->
                                 [call EXCEPT !.at = "handling", !.wire = <<>>,
                                       !.handler = rpc.handler, !.received = in.value]
                     [] in.err = "panic" -> [call EXCEPT !.at = "panicked"]
                     [] OTHER -> [call EXCEPT !.at = "replied", !.wire = <<>>,
                                              !.outcome = Fails("other")]
  BY DEF ServerReceives
<1>2. IsCall /\ call.at = "requested" /\ call.method \in Methods
  BY DEF ServerReceives, Answering, Requesting, UnderWay
<1>3. rpc.handler = call.method /\ Harmless(rpc.in)
  BY <1>2, StubsHarmless
<1>4. in.err # "panic" /\ (~call.foreign => in.err = "nil")
  <2>1. CASE call.foreign
    <3>1. call.wire \in Bytes /\ Fits(call.wire)
      BY <1>2, <2>1, ForeignBytesAssumption DEF Answering, UnderWay
    <3> HIDE DEF rpc
    <3> QED BY <1>1, <1>3, <2>1, <3>1 DEF Harmless
  <2>2. CASE ~call.foreign
    <3> DEFINE bytes == Marshal(ClientStub[call.method].in, call.request)
    <3>1. call.request \in Requests(call.method) /\ call.wire = bytes.value
      BY <1>2, <2>2 DEF Answering, Requesting, RequestSent, Asked
    <3>2. \E n : Unmarshal(rpc.in, bytes.value) = Read(call.request, n)
      BY <1>2, <3>1, RequestRead
    <3> HIDE DEF bytes, rpc
    <3> QED BY <1>1, <3>1, <3>2, StepIs
  <2> QED BY <2>1, <2>2
<1> HIDE DEF rpc
<1>5. CASE in.err = "nil"
  <2>1. call' = [call EXCEPT !.at = "handling", !.wire = <<>>,
                             !.handler = rpc.handler, !.received = in.value]
    BY <1>1, <1>5
  <2>2. call'.at = "handling" /\ call'.handler = call.method /\ call'.method = call.method
    BY <1>2, <1>3, <2>1, CallFields DEF IsCall
  <2> QED BY <1>2, <2>2 DEF Answering, UnderWay, NeverPanics, AnswerArrives
<1>6. CASE in.err # "nil"
  <2>1. call' = [call EXCEPT !.at = "replied", !.wire = <<>>, !.outcome = Fails("other")]
    BY <1>1, <1>4, <1>6
  <2>2. call'.at = "replied" /\ call'.outcome = Fails("other") /\ call'.method = call.method
        /\ call'.foreign = call.foreign
    BY <1>2, <2>1, CallFields DEF IsCall
  <2>3. call.foreign /\ Fails("other").err # "nil"
    BY <1>4, <1>6, FailureFails
  <2> QED BY <1>2, <2>2, <2>3 DEF Answering, UnderWay, ForeignReplied, NeverPanics, AnswerArrives
<1> QED BY <1>5, <1>6

\* The server writes what the handler answered without a panic.
LEMMA ServerAnswersAnswer ==
  ASSUME Answering, Requesting', ServerAnswers
  PROVE  Answering'
<1>1. IsCall /\ call.at = "handling" /\ call.method \in Methods /\ call.handler = call.method
  BY DEF Answering, Requesting, ServerAnswers, UnderWay
<1>2. PICK o \in Handle(call.handler, call.received) :
           \/ o.err = "nil" /\ \E ext \in Extensions : Reply(o, ext)
           \/ o.err # "nil" /\ ReplyError(o)
  BY DEF ServerAnswers
<1>3. o \in AnswersOf(call.method)
  BY <1>1, <1>2, HandlersAnswer
<1>4. ASSUME o.err = "nil", NEW ext \in Extensions, Reply(o, ext) PROVE Answering'
  <2> DEFINE m == Extended(o.message, ext)
  <2>1. PICK bytes : /\ bytes = Marshal(ClientStub[call.method].out, m)
                     /\ call' = IF bytes.err = "panic" THEN [call EXCEPT !.at = "panicked"]
                                ELSE [call EXCEPT !.at = "replied", !.outcome = o,
                                                  !.wire = bytes.value]
    BY <1>1, <1>4 DEF Reply
  <2>2. bytes.err = "nil"
    <3>1. m = Extended(o.message, ext)
      OBVIOUS
    <3> HIDE DEF m
    <3>2. Survives(ClientStub[call.method].out, m)
      BY <1>1, <1>3, <1>4, <3>1, AnswerRead
    <3> QED BY <2>1, <3>2 DEF Survives
  <2>3. call' = [call EXCEPT !.at = "replied", !.outcome = o, !.wire = bytes.value]
    BY <2>1, <2>2
  <2>4. call'.at = "replied" /\ call'.outcome = o /\ call'.wire = bytes.value
        /\ call'.method = call.method
    BY <1>1, <2>3, CallFields DEF IsCall
  <2>5. AnswerSent'
    BY <1>3, <1>4, <2>1, <2>4 DEF AnswerSent
  <2> QED BY <1>1, <2>4, <2>5 DEF Answering, UnderWay, NeverPanics, AnswerArrives
<1>5. ASSUME o.err # "nil", ReplyError(o) PROVE Answering'
  <2>1. call'.at = "replied" /\ call'.outcome = o /\ call'.code = Code(o.err)
        /\ call'.method = call.method
    BY <1>1, <1>5, CallFields DEF ReplyError, IsCall
  <2>2. AnswerSent'
    BY <1>3, <1>5, <2>1 DEF AnswerSent
  <2> QED BY <1>1, <2>1, <2>2 DEF Answering, UnderWay, NeverPanics, AnswerArrives
<1> QED BY <1>2, <1>4, <1>5

\* The answer is read as it was written, and shows what the service found.
LEMMA AnswerComes ==
  ASSUME call.method \in Methods, AnswerSent, call.outcome.err = "nil", NEW out,
         out = Unmarshal(ClientStub[call.method].out, call.wire)
  PROVE  out.err = "nil" /\ ShowsAnswer(call.method, out.value, call.outcome)
<1>2. PICK ext \in Extensions :
        call.wire = Marshal(ClientStub[call.method].out, Extended(call.outcome.message, ext)).value
  BY DEF AnswerSent
<1> DEFINE h == call.method
           o == call.outcome
           m == Extended(o.message, ext)
           type == ClientStub[h].out
           bytes == Marshal(type, m)
<1>3. h \in Methods /\ o \in AnswersOf(h) /\ o.err = "nil"
  BY DEF AnswerSent
<1>5. Survives(type, m) /\ ShowsAnswer(h, m, o)
  <2>1. m = Extended(o.message, ext)
    OBVIOUS
  <2> HIDE DEF m, h, o
  <2> QED BY <1>3, <2>1, AnswerRead
<1>6. out = Unmarshal(type, bytes.value)
  BY <1>2
<1>4. Fits(bytes.value)
  BY <1>3, <1>5, AnswersAssumption DEF Survives
<1> HIDE DEF m, type, h, o
<1>7. PICK n : out = Read(m, n)
  BY <1>4, <1>5, <1>6 DEF Survives
<1>8. out.err = "nil" /\ out.value = m
  BY <1>7, StepIs
<1> QED BY <1>5, <1>8 DEF h, o

\* There is no error before the call returns.
ErrorLast == call.err # "nil" => call.at = "returned"

\* Only the step with which a call returns gives it an error.
LEMMA NextErrorLast ==
  ASSUME IsCall, ErrorLast, [ClientNext]_clientVars
  PROVE  ErrorLast'
<1>1. ASSUME call' = NoCall \/ call'.err = "nil" PROVE ErrorLast'
  BY <1>1 DEF NoCall, ErrorLast
<1>2. ASSUME NEW e, ReturnsError(e) PROVE ErrorLast'
  <2>1. call'.at = "returned"
    BY <1>2, CallFields DEF ReturnsError, IsCall
  <2> QED BY <2>1 DEF ErrorLast
<1>3. CASE Calls \/ ForeignRequest \/ ForeignReply \/ StartUpload
  <2>1. call'.err = "nil"
    BY <1>3 DEF Calls, ForeignRequest, ForeignReply, StartUpload, NoCall
  <2> QED BY <1>1, <2>1
<1>4. CASE NoPeer \/ ConnectionLost
  BY <1>2, <1>4 DEF NoPeer, ConnectionLost
<1>5. ASSUME call.at # "returned", call'.err = call.err PROVE ErrorLast'
  BY <1>5 DEF ErrorLast
<1>6. CASE Invoke
  <2>1. call.at # "returned" /\ call'.err = call.err
    BY <1>6, CallFields DEF Invoke, IsCall
  <2> QED BY <1>5, <2>1
<1>7. CASE ServerReceives
  <2>1. PICK rpc, in :
          call' = CASE in.err = "nil" ->
                          [call EXCEPT !.at = "handling", !.wire = <<>>,
                                       !.handler = rpc.handler, !.received = in.value]
                     [] in.err = "panic" -> [call EXCEPT !.at = "panicked"]
                     [] OTHER -> [call EXCEPT !.at = "replied", !.wire = <<>>,
                                              !.outcome = Fails("other")]
    BY <1>7 DEF ServerReceives
  <2>2. call.at # "returned" /\ call'.err = call.err
    BY <1>7, <2>1, CallFields DEF ServerReceives, IsCall
  <2> QED BY <1>5, <2>2
<1>8. CASE ServerAnswers
  <2>1. PICK o, value : \/ call' = [call EXCEPT !.at = "panicked"]
                        \/ call' = [call EXCEPT !.at = "replied", !.outcome = o, !.wire = value]
                        \/ call' = [call EXCEPT !.at = "replied", !.outcome = o, !.code = value]
    BY <1>8 DEF ServerAnswers, Reply, ReplyError
  <2>2. call.at # "returned" /\ call'.err = call.err
    BY <1>8, <2>1, CallFields DEF ServerAnswers, IsCall
  <2> QED BY <1>5, <2>2
<1>9. CASE ClientReceives
  <2>1. ASSUME NEW out, ReturnsMessage(out) PROVE ErrorLast'
    <3>1. \/ call' = [call EXCEPT !.at = "returned", !.wire = <<>>, !.got = out.value,
                              !.value = Returned(call.method, out.value)]
          \/ call' = [call EXCEPT !.at = "panicked"]
          \/ ReturnsError("other")
      BY <2>1 DEF ReturnsMessage
    <3>2. ASSUME ~ReturnsError("other") PROVE call'.err = call.err
      BY <3>1, <3>2, CallFields DEF IsCall
    <3>3. call.at # "returned"
      BY <1>9 DEF ClientReceives
    <3> QED BY <1>2, <1>5, <3>2, <3>3
  <2> QED BY <1>2, <1>9, <2>1 DEF ClientReceives
<1>10. CASE UNCHANGED call
  BY <1>10 DEF ErrorLast
<1> QED
  BY <1>3, <1>4, <1>6, <1>7, <1>8, <1>9, <1>10 DEF ClientNext, CallStep, Uploads, clientVars

\* The client reads what the server wrote, and refuses what it cannot read of
\* another's.
LEMMA ClientReceivesShown ==
  ASSUME Answering, ErrorLast, Requesting', ClientReceives
  PROVE  Answering'
<1>1. IsCall /\ call.at = "replied" /\ call.method \in Methods
      /\ (AnswerSent \/ ForeignReplied)
  BY DEF Answering, Requesting, ClientReceives, UnderWay
<1>2. CASE call.outcome.err # "nil" /\ ReturnsError(Unwrap(call.code))
  <2>1. CASE call.foreign
    <3>1. Unwrap(call.code) # "nil"
      <4>1. "nil" \notin DOMAIN ErrCodes
        BY DEF ErrCodes
      <4> QED BY <4>1 DEF Unwrap
    <3> QED BY <1>1, <1>2, <2>1, <3>1, AnswerLost
  <2>2. CASE ~call.foreign
    <3>1. call.code = Code(call.outcome.err)
      BY <1>1, <1>2, <2>2 DEF AnswerSent, ForeignReplied
    <3>2. Unwrap(call.code) \in {call.outcome.err, "other"} /\ Unwrap(call.code) # "nil"
      BY <1>2, <3>1, CodesTell
    <3> QED BY <1>1, <1>2, <3>2, AnswerLost
  <2> QED BY <2>1, <2>2
<1>3. CASE call.outcome.err = "nil"
           /\ ReturnsMessage(Unmarshal(ClientStub[call.method].out, call.wire))
  <2> DEFINE out == Unmarshal(ClientStub[call.method].out, call.wire)
  <2>1. AnswerSent => out.err = "nil" /\ ShowsAnswer(call.method, out.value, call.outcome)
    BY <1>1, <1>3, AnswerComes
  <2>2. ~AnswerSent => out.err # "panic" /\ call.foreign
    <3> SUFFICES ASSUME ~AnswerSent PROVE out.err # "panic" /\ call.foreign
      OBVIOUS
    <3>1. call.foreign /\ call.wire \in Bytes /\ Fits(call.wire)
      BY <1>1, <1>3, ForeignBytesAssumption DEF ForeignReplied
    <3>2. Harmless(ClientStub[call.method].out)
      BY <1>1, StubsHarmless
    <3> QED BY <3>1, <3>2 DEF Harmless
  <2>3. ReturnsMessage(out)
    BY <1>3
  <2> HIDE DEF out
  <2>4. CASE out.err = "nil"
    <3>1. call' = [call EXCEPT !.at = "returned", !.wire = <<>>, !.got = out.value,
                              !.value = Returned(call.method, out.value)]
      BY <2>3, <2>4 DEF ReturnsMessage
    <3>2. call'.at = "returned" /\ call'.value = Returned(call.method, out.value)
          /\ call'.method = call.method /\ call'.outcome = call.outcome /\ call'.err = call.err
          /\ call'.foreign = call.foreign
      BY <1>1, <3>1, CallFields DEF IsCall
    <3>3. call'.err = "nil"
      BY <1>1, <3>2 DEF ErrorLast
    <3>4. AnswerArrives'
      BY <1>3, <2>1, <2>2, <3>2, <3>3 DEF AnswerArrives, ShowsAnswer
    <3> QED BY <3>2, <3>4 DEF Answering, UnderWay, NeverPanics
  <2>5. CASE out.err # "nil"
    <3>1. call.foreign /\ ReturnsError("other")
      BY <2>1, <2>2, <2>3, <2>5 DEF ReturnsMessage
    <3> QED BY <1>1, <3>1, AnswerLost
  <2> QED BY <2>4, <2>5
<1> QED BY <1>2, <1>3 DEF ClientReceives

\* Every step of the client preserves what the answers need.
LEMMA NextAnswer ==
  Answering /\ ErrorLast /\ [ClientNext]_clientVars => Answering' /\ ErrorLast'
<1> SUFFICES ASSUME Answering, ErrorLast, [ClientNext]_clientVars
             PROVE  Answering' /\ ErrorLast'
  OBVIOUS
<1>1. Requesting' /\ IsCall
  BY NextRequest DEF Answering, Requesting
<1>2. ErrorLast'
  BY <1>1, NextErrorLast
<1>3. CASE NoPeer \/ ConnectionLost
  <2>1. ReturnsError("other")
    BY <1>3 DEF NoPeer, ConnectionLost
  <2> QED BY <1>1, <1>2, <2>1, AnswerLost
<1>4. CASE Calls \/ StartUpload
  <2>1. call'.at \in {"called", "uploading"}
    BY <1>4 DEF Calls, StartUpload, NoCall
  <2> QED BY <1>1, <1>2, <2>1, AnswerIdle
<1>5. CASE UNCHANGED call
  BY <1>1, <1>2, <1>5 DEF Answering, UnderWay, AnswerSent, ForeignReplied, NeverPanics,
                          AnswerArrives
<1> QED
  BY <1>1, <1>2, <1>3, <1>4, <1>5, InvokeAnswer, ForeignAnswer, ServerReceivesAnswer,
     ServerAnswersAnswer, ClientReceivesShown
  DEF ClientNext, CallStep, Uploads, clientVars

\* What the answers need always holds.
LEMMA AnsweringAlways == ClientSpec => []Answering
<1>1. ClientInit => Answering /\ ErrorLast
  BY DEF ClientInit, NoCall, Answering, UnderWay, NeverPanics, ErrorLast, Requesting, IsCall,
         RequestSent, RequestArrives, AnswerArrives, Asked
<1> QED BY <1>1, NextAnswer, PTL DEF ClientSpec

\* What a method of the client returns is what the service found: a url, or each object
\* once with the version and size of its active publish only if that is published; and
\* an error of the API arrives as that error (handler.go:24-139, errors.go,
\* client.go:59-127).
THEOREM EveryAnswerArrives == ClientSpec => []AnswerArrives
<1>1. Answering => AnswerArrives
  BY DEF Answering
<1> QED BY <1>1, AnsweringAlways, PTL

\* Whatever bytes come in, from either end, and whatever the documents hold, no decoder
\* reads outside of its buffer and no marshaller writes before the start of one
\* (publisher_vtproto.pb.go:21-534 against 536-727, and 729-1932).
THEOREM NothingPanics == ClientSpec => []NeverPanics
<1>1. Answering => NeverPanics
  BY DEF Answering
<1> QED BY <1>1, AnsweringAlways, PTL

--------------------------------------------------------------------------------
(* An upload: types *)

\* Before an upload begins every variable has its type (client.go:129).
LEMMA InitTypes == Init => TypeOK
<1>1. 0 \in 0..Entries
  BY EntriesAssumption
<1> QED BY <1>1, Zenon DEF Init, TypeOK, Errors

\* The steps of the walk keep the types (client.go:133-188).
LEMMA WalkerTypes ==
  ASSUME TypeOK, WalkerGoesOn \/ WalkFails
  PROVE  TypeOK'
<1>1. CASE WriteEntry
  BY <1>1, EntriesAssumption DEF TypeOK, Errors, WriteEntry, More
<1>2. CASE WriteFails
  BY <1>2 DEF TypeOK, Errors, WriteFails, WalkEnds
<1>3. CASE WalkFails
  BY <1>3 DEF TypeOK, Errors, WalkFails, WalkEnds
<1>4. CASE WalkDone
  BY <1>4 DEF TypeOK, Errors, WalkDone, WalkEnds
<1>5. CASE CloseWriter
  BY <1>5 DEF TypeOK, Errors, CloseWriter, ClosedWith
<1> QED BY <1>1, <1>2, <1>3, <1>4, <1>5 DEF WalkerGoesOn

\* So do those of client.Do and of the caller (client.go:190-214).
LEMMA SenderTypes ==
  ASSUME TypeOK,
         SenderGoesOn \/ NewRequestFails \/ DoFails \/ DoRefused \/ TransportCloses
  PROVE  TypeOK'
<1>1. CASE NewRequest \/ NewRequestFails
  BY <1>1 DEF TypeOK, Errors, NewRequest, NewRequestFails
<1>2. CASE CheckRequest
  BY <1>2 DEF TypeOK, Errors, CheckRequest
<1>3. CASE DoAccepted \/ DoBroken \/ DoFails \/ DoRefused
  BY <1>3 DEF TypeOK, Errors, DoAccepted, DoBroken, DoFails, DoRefused, DoReturns
<1>4. CASE CheckDo
  BY <1>4 DEF TypeOK, Errors, CheckDo
<1>5. CASE CheckStatus
  BY <1>5 DEF TypeOK, Errors, CheckStatus
<1>6. CASE ReturnErr
  BY <1>6 DEF TypeOK, Errors, ReturnErr
<1>7. CASE TransportCloses
  BY <1>7 DEF TypeOK, Errors, TransportCloses
<1> QED BY <1>1, <1>2, <1>3, <1>4, <1>5, <1>6, <1>7 DEF SenderGoesOn

\* So every step of an upload does (client.go:129-214).
LEMMA NextTypes == TypeOK /\ [Next]_vars => TypeOK'
<1> SUFFICES ASSUME TypeOK, [Next]_vars PROVE TypeOK'
  OBVIOUS
<1>1. CASE Next
  BY <1>1, WalkerTypes, SenderTypes DEF Next
<1>2. CASE UNCHANGED vars
  BY <1>2 DEF vars, TypeOK
<1> QED BY <1>1, <1>2

\* Goroutines, pipe and errors are always in one of the states they are meant to be
\* in, whatever fails (client.go:129-214).
THEOREM TypeCorrect == Spec => []TypeOK
  BY InitTypes, NextTypes, PTL DEF Spec

--------------------------------------------------------------------------------
(* An upload that succeeds is complete *)

\* Until the request is made nobody reads the pipe, and the walk is where it began.
NotBegun ==
  sender \in {"request", "checkRequest"} =>
    walker = "walk" /\ reader = "waiting" /\ sent = 0 /\ pipe = "open" /\ resp = "none"

\* While client.Do runs, no err and no end of the archive come from a walk that is
\* not over.
EndsHonestly ==
  sender = "do" /\ ((walker = "close" /\ err = "nil") \/ pipe = "eof") => sent = Entries

AcceptedIsComplete == resp = "ok" => sent = Entries

\* The last assignment to err may be that of a walk that has ended: then it is nil
\* whatever the server said, but of a whole archive.
ReturnsHonestly == sender = "returning" /\ err = "nil" => sent = Entries

Complete ==
  NotBegun /\ EndsHonestly /\ AcceptedIsComplete /\ ReturnsHonestly
    /\ SuccessMeansComplete

\* An upload that has not begun has sent nothing and reported nothing (client.go:129).
LEMMA InitComplete == Init => Complete
  BY DEF Init, Complete, NotBegun, EndsHonestly, AcceptedIsComplete,
         ReturnsHonestly, SuccessMeansComplete

\* An entry is written, which only a begun upload does, and only to an archive that
\* lacks it.
LEMMA WalkerComplete ==
  ASSUME TypeOK, Complete, "missingDir" \notin Faults, WalkerGoesOn \/ WalkFails
  PROVE  Complete'
<1> USE EntriesAssumption DEF TypeOK, Complete, NotBegun, EndsHonestly,
                              AcceptedIsComplete, ReturnsHonestly,
                              SuccessMeansComplete
<1>1. CASE WriteEntry
  BY <1>1 DEF WriteEntry, More
<1>2. CASE WriteFails
  BY <1>2 DEF WriteFails, WalkEnds
<1>3. CASE WalkFails
  BY <1>3 DEF WalkFails, WalkEnds
<1>4. CASE WalkDone
  BY <1>4 DEF WalkDone, WalkEnds, More
<1>5. CASE CloseWriter
  BY <1>5 DEF CloseWriter, ClosedWith
<1> QED BY <1>1, <1>2, <1>3, <1>4, <1>5 DEF WalkerGoesOn

\* The sender overwrites err before the walk can have failed, and what it assigns to
\* err on its way out is nil only of an archive the server accepted.
LEMMA SenderComplete ==
  ASSUME TypeOK, Complete,
         SenderGoesOn \/ NewRequestFails \/ DoFails \/ DoRefused \/ TransportCloses
  PROVE  Complete'
<1> USE DEF TypeOK, Complete, NotBegun, EndsHonestly, AcceptedIsComplete,
            ReturnsHonestly, SuccessMeansComplete
<1>1. CASE NewRequest \/ NewRequestFails
  BY <1>1 DEF NewRequest, NewRequestFails
<1>2. CASE CheckRequest
  BY <1>2 DEF CheckRequest
<1>3. CASE DoAccepted \/ DoBroken \/ DoFails \/ DoRefused
  BY <1>3 DEF DoAccepted, DoBroken, DoFails, DoRefused, DoReturns
<1>4. CASE CheckDo
  BY <1>4 DEF CheckDo
<1>5. CASE CheckStatus
  BY <1>5 DEF CheckStatus
<1>6. CASE ReturnErr
  BY <1>6 DEF ReturnErr
<1>7. CASE TransportCloses
  BY <1>7 DEF TransportCloses
<1> QED BY <1>1, <1>2, <1>3, <1>4, <1>5, <1>6, <1>7 DEF SenderGoesOn

\* No step of either goroutine makes a success of an incomplete archive (client.go:129-214).
LEMMA NextComplete ==
  TypeOK /\ Complete /\ "missingDir" \notin Faults /\ [Next]_vars => Complete'
<1> SUFFICES ASSUME TypeOK, Complete, "missingDir" \notin Faults, [Next]_vars
             PROVE  Complete'
  OBVIOUS
<1>1. CASE Next
  BY <1>1, WalkerComplete, SenderComplete DEF Next
<1>2. CASE UNCHANGED vars
  BY <1>2 DEF vars, Complete, NotBegun, EndsHonestly, AcceptedIsComplete,
              ReturnsHonestly, SuccessMeansComplete
<1> QED BY <1>1, <1>2

\* A success is that of a whole archive (client.go:190-214).
LEMMA CompleteSuffices == Complete => SuccessMeansComplete
  BY DEF Complete

\* If the walk does not fail before it wrote anything, UploadDir reports success only
\* of a directory that was sent whole, however its goroutines interleave and whatever
\* else fails (client.go:190).
THEOREM UploadIsWhole ==
  ASSUME "missingDir" \notin Faults
  PROVE  Spec => []SuccessMeansComplete
<1>1. TypeOK /\ Complete /\ [Next]_vars => Complete'
  BY NextComplete
<1>2. Spec => []TypeOK
  BY TypeCorrect
<1> QED BY InitComplete, <1>1, <1>2, CompleteSuffices, PTL DEF Spec

--------------------------------------------------------------------------------
(* Neither goroutine waits for one that is gone *)

\* Only the walk can have failed between the request and the look at err; and then it is
\* over.
OnlyTheWalkFailed ==
  sender = "checkRequest" /\ req /\ err # "nil" => walker # "walk"

Waits ==
  /\ sender = "request" => ~req
  /\ OnlyTheWalkFailed
  /\ sender \in {"do", "checkDo", "status", "panicked"} => reader # "waiting"
  /\ walker = "done" => pipe # "open"
  /\ NeitherWaitsAlone

\* Before an upload begins nobody waits (client.go:129).
LEMMA InitWaits == Init => Waits
  BY DEF Init, Waits, OnlyTheWalkFailed, NeitherWaitsAlone

\* No step of the walk leaves client.Do waiting for a walk that is gone (client.go:133-188).
LEMMA WalkerWaits ==
  ASSUME TypeOK, Waits, WalkerGoesOn \/ WalkFails
  PROVE  Waits'
<1> USE DEF TypeOK, Waits, OnlyTheWalkFailed, NeitherWaitsAlone
<1>1. CASE WriteEntry
  BY <1>1 DEF WriteEntry
<1>2. CASE WriteFails \/ WalkFails \/ WalkDone
  BY <1>2 DEF WriteFails, WalkFails, WalkDone, WalkEnds
<1>3. CASE CloseWriter
  BY <1>3 DEF CloseWriter, ClosedWith
<1> QED BY <1>1, <1>2, <1>3 DEF WalkerGoesOn

\* No step of client.Do leaves the walk waiting for a reader that is gone (client.go:190-214).
LEMMA SenderWaits ==
  ASSUME TypeOK, Waits,
         SenderGoesOn \/ NewRequestFails \/ DoFails \/ DoRefused \/ TransportCloses
  PROVE  Waits'
<1> USE DEF TypeOK, Waits, OnlyTheWalkFailed, NeitherWaitsAlone
<1>1. CASE NewRequest \/ NewRequestFails
  BY <1>1 DEF NewRequest, NewRequestFails
<1>2. CASE CheckRequest
  BY <1>2 DEF CheckRequest
<1>3. CASE DoAccepted \/ DoBroken \/ DoFails \/ DoRefused
  BY <1>3 DEF DoAccepted, DoBroken, DoFails, DoRefused, DoReturns
<1>4. CASE CheckDo \/ CheckStatus \/ ReturnErr
  BY <1>4 DEF CheckDo, CheckStatus, ReturnErr
<1>5. CASE TransportCloses
  BY <1>5 DEF TransportCloses
<1> QED BY <1>1, <1>2, <1>3, <1>4, <1>5 DEF SenderGoesOn

\* Under every fault, and for archives of any length, no upload that could be sent comes
\* to a standstill because one of its goroutines has gone (client.go:131-203).
THEOREM NobodyIsLeftWaiting == Spec => []NeitherWaitsAlone
<1>1. TypeOK /\ Waits /\ [Next]_vars => Waits'
  <2> SUFFICES ASSUME TypeOK, Waits, [Next]_vars PROVE Waits'
    OBVIOUS
  <2>1. CASE Next
    BY <2>1, WalkerWaits, SenderWaits DEF Next
  <2>2. CASE UNCHANGED vars
    BY <2>2 DEF vars, Waits, OnlyTheWalkFailed, NeitherWaitsAlone
  <2> QED BY <2>1, <2>2
<1>2. Waits => NeitherWaitsAlone
  BY DEF Waits
<1> QED BY <1>1, <1>2, InitWaits, TypeCorrect, PTL DEF Spec

--------------------------------------------------------------------------------
(* The client's uploads *)

\* What the client does is uploads, and calls between them, which do not touch an
\* upload's goroutines, pipe or errors (client.go:59-127 against 129-214).
THEOREM ClientIsUpload == ClientSpec => Spec
<1>1. ClientInit => Init
  BY DEF ClientInit
<1>2. [ClientNext]_clientVars => [Next]_vars
  BY DEF ClientNext, clientVars, StartUpload, Uploads
<1> QED BY <1>1, <1>2, PTL DEF ClientSpec, Spec

\* So an upload of the client is well formed, complete if it is reported as done, and
\* has no goroutine that waits for one that is gone (client.go:129-214).
THEOREM ClientUploadsWell ==
  ASSUME "missingDir" \notin Faults
  PROVE  ClientSpec => [](TypeOK /\ SuccessMeansComplete /\ NeitherWaitsAlone)
<1>1. Spec => []SuccessMeansComplete
  BY UploadIsWhole
<1> QED BY <1>1, TypeCorrect, NobodyIsLeftWaiting, ClientIsUpload, PTL

================================================================================
