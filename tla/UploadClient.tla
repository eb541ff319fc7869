----------------------------- MODULE UploadClient ------------------------------
(***************************************************************************)
(* UploadDir of the client (publishclient/client.go:129-214): a goroutine  *)
(* walks the directory and writes a tar archive into a pipe, and the       *)
(* caller's goroutine sends what comes out of the pipe.                    *)
(*                                                                         *)
(* Both assign the variable err: it is the named result of UploadDir, and  *)
(* the two := in its body declare no other.  Every access to it is a step  *)
(* of its own, and takes the value of one assignment; so is what UploadDir *)
(* returns, which is err as it is when the function ends.                  *)
(*                                                                         *)
(* Faults: badUrl (the request cannot be made), missingDir (the walk fails *)
(* before it wrote anything), fileFails (it fails later, or the context is *)
(* cancelled), network (the exchange fails), refused (the server answers   *)
(* with an error, at any time).                                            *)
(***************************************************************************)
EXTENDS Naturals

CONSTANTS
  Entries,    \* entries of the directory, itself included
  Faults

ASSUME EntriesAssumption == Entries \in Nat \ {0}
ASSUME FaultsAssumption ==
  Faults \subseteq {"badUrl", "missingDir", "fileFails", "network", "refused"}

VARIABLES
  err,       \* the shared variable
  walker,    \* where the goroutine that writes the archive is
  sender,    \* where UploadDir is
  req,       \* was the request made?
  sent,      \* entries that went through the pipe
  pipe,      \* what the reader of the pipe meets after them
  reader,    \* what the http transport does with the other end
  resp,      \* the response
  result     \* what UploadDir returned

vars == <<err, walker, sender, req, sent, pipe, reader, resp, result>>

Errors == {"nil", "url", "walk", "closedPipe", "http", "status"}

--------------------------------------------------------------------------------
(* The goroutine that walks the directory *)

WalkEnds(e) ==
  /\ err' = e
  /\ walker' = "close"
  /\ UNCHANGED <<sender, req, sent, pipe, reader, resp, result>>

\* Mutant: one entry too many.
OneMore(n) == n <= Entries

More(n) == n < Entries

\* A write meets a read: it waits until the transport asks for the body.
WriteEntry ==
  /\ walker = "walk" /\ More(sent)
  /\ reader = "reading"
  /\ sent' = sent + 1
  /\ UNCHANGED <<err, walker, sender, req, pipe, reader, resp, result>>

WriteFails ==
  /\ walker = "walk" /\ More(sent)
  /\ reader = "closed"
  /\ WalkEnds("closedPipe")

WalkFails ==
  /\ walker = "walk" /\ More(sent)
  /\ IF sent = 0 THEN "missingDir" \in Faults ELSE "fileFails" \in Faults
  /\ WalkEnds("walk")

WalkDone ==
  /\ walker = "walk" /\ ~More(sent)
  /\ WalkEnds("nil")

\* Mutant: the error is not passed on.
AlwaysEOF(e) == "eof"

\* Mutant: the pipe stays open after an error.
OpenAfterError(e) == IF e = "nil" THEN "eof" ELSE "open"

\* What the reader meets after a CloseWithError.
ClosedWith(e) == IF e = "nil" THEN "eof" ELSE "broken"

\* CloseWithError(err).  The deferred Close calls come too late to do anything.
CloseWriter ==
  /\ walker = "close"
  /\ pipe' = ClosedWith(err)
  /\ walker' = "done"
  /\ UNCHANGED <<err, sender, req, sent, reader, resp, result>>

--------------------------------------------------------------------------------
(* UploadDir *)

\* The result is read once more, after the check and after resp.Body.Close.
ReturnErr ==
  /\ sender = "returning"
  /\ result' = err
  /\ sender' = "returned"
  /\ UNCHANGED <<err, walker, req, sent, pipe, reader, resp>>

NewRequest ==
  /\ sender = "request"
  /\ err' = "nil"
  /\ req' = TRUE
  /\ sender' = "checkRequest"
  /\ UNCHANGED <<walker, sent, pipe, reader, resp, result>>

NewRequestFails ==
  /\ "badUrl" \in Faults
  /\ sender = "request"
  /\ err' = "url"
  /\ sender' = "checkRequest"
  /\ UNCHANGED <<walker, req, sent, pipe, reader, resp, result>>

\* Here the transport starts to read the body.
CheckRequest ==
  /\ sender = "checkRequest"
  /\ \/ /\ err # "nil"
        /\ sender' = "returning"
        /\ UNCHANGED reader
     \/ /\ err = "nil"
        /\ sender' = "do"
        /\ reader' = "reading"
  /\ UNCHANGED <<err, walker, req, sent, pipe, resp, result>>

\* client.Do returns: its error goes to err, its response to resp.
DoReturns(e, response) ==
  /\ sender = "do"
  /\ err' = e
  /\ resp' = response
  /\ sender' = "checkDo"
  /\ UNCHANGED <<walker, req, sent, pipe, result>>

\* The server read the body to its end and took what it got for the archive.
DoAccepted ==
  /\ pipe = "eof"
  /\ DoReturns("nil", "ok")
  /\ reader' = "closed"

\* The body ended with an error.
DoBroken ==
  /\ pipe = "broken"
  /\ DoReturns("http", "none")
  /\ reader' = "closed"

DoFails ==
  /\ "network" \in Faults
  /\ DoReturns("http", "none")
  /\ reader' = "closed"

\* The transport may go on sending the body after an early answer.
DoRefused ==
  /\ "refused" \in Faults
  /\ DoReturns("nil", "error")
  /\ UNCHANGED reader

TransportCloses ==
  /\ resp = "error"
  /\ reader' = "closed"
  /\ UNCHANGED <<err, walker, sender, req, sent, pipe, resp, result>>

\* err is read again, and then resp.Body is used.
CheckDo ==
  /\ sender = "checkDo"
  /\ sender' = IF err # "nil" THEN "returning" ELSE
               IF resp = "none" THEN "panicked" ELSE "status"
  /\ UNCHANGED <<err, walker, req, sent, pipe, reader, resp, result>>

\* A return with a value assigns it to err first.
CheckStatus ==
  /\ sender = "status"
  /\ err' = IF resp = "ok" THEN "nil" ELSE "status"
  /\ sender' = "returning"
  /\ UNCHANGED <<walker, req, sent, pipe, reader, resp, result>>

--------------------------------------------------------------------------------

Init ==
  /\ err = "nil"
  /\ walker = "walk"
  /\ sender = "request"
  /\ req = FALSE
  /\ sent = 0
  /\ pipe = "open"
  /\ reader = "waiting"
  /\ resp = "none"
  /\ result = "nil"

\* What the goroutines do by themselves, apart from what may fail.
WalkerGoesOn == WriteEntry \/ WriteFails \/ WalkDone \/ CloseWriter

SenderGoesOn ==
  NewRequest \/ CheckRequest \/ DoAccepted \/ DoBroken \/ CheckDo \/ CheckStatus
    \/ ReturnErr

Next ==
  \/ WalkerGoesOn \/ WalkFails
  \/ SenderGoesOn \/ NewRequestFails \/ DoFails \/ DoRefused
  \/ TransportCloses

Spec == Init /\ [][Next]_vars

--------------------------------------------------------------------------------
(* Properties *)

TypeOK ==
  /\ err \in Errors
  /\ walker \in {"walk", "close", "done"}
  /\ sender \in {"request", "checkRequest", "do", "checkDo", "status", "returning",
                 "returned", "panicked"}
  /\ req \in BOOLEAN
  /\ sent \in 0..Entries
  /\ pipe \in {"open", "eof", "broken"}
  /\ reader \in {"waiting", "reading", "closed"}
  /\ resp \in {"none", "ok", "error"}
  /\ result \in Errors

\* An upload that UploadDir reports as done is the whole directory: an error of the
\* walk reaches the server as a broken body, not as the end of the archive ("Close
\* the writer with the resulting error", client.go:190).
SuccessMeansComplete ==
  sender = "returned" /\ result = "nil" => sent = Entries

\* Neither goroutine waits for one that is gone: a write is met by a read, or by the end
\* of the reader, as soon as there is a request that could be sent; and client.Do does not
\* read from a pipe that nobody writes to any more and nobody closed (client.go:131-192
\* against 195-203).  A url no request can be made of is the exception.
NeitherWaitsAlone ==
  /\ req /\ sender # "checkRequest" /\ walker = "walk" => reader # "waiting"
  /\ sender = "do" /\ walker = "done" => pipe # "open"

================================================================================
