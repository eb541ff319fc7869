----------------------------- MODULE PublishClient -----------------------------
(***************************************************************************)
(* The client: a call of the API, and after Publish the upload of a        *)
(* directory to the url that came back (publishclient/client.go).          *)
(***************************************************************************)
EXTENDS UploadClient, Rpc

clientVars == <<vars, call>>

\* The application passes the url that Publish returned to UploadDir.
StartUpload ==
  /\ call.at = "returned" /\ call.method = "Publish" /\ call.err = "nil"
  /\ call' = [NoCall EXCEPT !.at = "uploading"]
  /\ UNCHANGED vars

Uploading == call.at = "uploading"

Uploads(step) == Uploading /\ step /\ UNCHANGED call

ClientInit == Init /\ call = NoCall

ClientNext == (CallStep /\ UNCHANGED vars) \/ StartUpload \/ Uploads(Next)

\* The goroutines are scheduled, the server answers a body that has ended, and the
\* transport closes the body once there is an answer.  Nothing has to fail, and no
\* call has to return.
ClientSpec ==
  /\ ClientInit /\ [][ClientNext]_clientVars
  /\ WF_clientVars(Uploads(WalkerGoesOn))
  /\ WF_clientVars(Uploads(SenderGoesOn))
  /\ WF_clientVars(Uploads(TransportCloses))

--------------------------------------------------------------------------------
(* Properties *)

\* An upload comes to an end once there is an url for it, and its goroutine with it:
\* neither waits for the other for ever, whichever fails first (client.go:131-192
\* against 202).  The exception is a request that cannot be made: then nobody reads
\* the pipe.
UploadEnds ==
  Uploading ~> (sender \in {"returned", "panicked"} /\ (req => walker = "done"))

================================================================================
