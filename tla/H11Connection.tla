---------------------------- MODULE H11Connection ----------------------------
(***************************************************************************)
(* One HTTP/1.1 connection: protocol/h11.py H11Protocol around the h11     *)
(* library, with the HTTPStream of the request in hand, the application's  *)
(* bounded receive queue (task_group.py) and the reader task.  Requests    *)
(* may be pipelined; a writer runs until it suspends in a socket send, in  *)
(* a put on a full queue, or in the application.                           *)
(*                                                                         *)
(* Abstracted: a token of input is a request head, a piece of its body, its*)
(* end, or something h11 rejects; both sides are HTTP/1.1 without upgrades.*)
(***************************************************************************)
EXTENDS Naturals, Sequences, EventWrapper

CONSTANTS MaxInput,      \* most requests a client sends, pieces of body of each
          MaxQueue,      \* config.max_app_queue_size
          KeepAlive,     \* config.keep_alive_max_requests
          MayRefuse,     \* a request may be one the server answers 404 itself
          MayQuit,       \* the application may return without a whole response
          MayLeave,      \* the client may go, or send what h11 rejects
          MayTerminate   \* the worker may shut down

ASSUME H11Assumption ==
    /\ MaxInput \in Nat /\ MaxQueue \in Nat \ {0} /\ KeepAlive \in Nat
    /\ {MayRefuse, MayQuit, MayLeave, MayTerminate} \subseteq BOOLEAN

Tokens == {"request", "refused", "body", "end", "bad"}

VARIABLES
    client,      \* what the client has sent: requests, pieces of the current body
    pipe,        \* input in the socket
    inbox,       \* input in h11's receive buffer
    their, our,  \* h11's states of the client and of the server
    reuse,       \* h11's keep-alive: neither side has asked to close
    stream,      \* self.stream is not None
    ended,       \* HTTPStream.closed of the latest stream
    queue,       \* the application's receive queue
    listening,   \* the application has not returned: its channel is open
    informed,    \* the application has received http.disconnect
    app,         \* where the writer of the response is
    losing,      \* it is in protocol_send's handle(Closed), its send having failed
    reader,      \* where the reader is
    canRead,     \* self.can_read
    requests,    \* self.keep_alive_requests
    idle,        \* the last Updated(idle) sent
    up,          \* the socket is open
    terminated   \* context.terminated

input == <<client, pipe, inbox>>
lib   == <<their, our, reuse>>
http  == <<stream, ended, queue, listening, informed>>
conn  == <<canRead, requests, idle, up, terminated>>
vars  == <<input, lib, http, app, losing, reader, conn>>

(* The stream, the application, h11's states and the connection keep their types. *)
TypeOK ==
    /\ client \in [requests : 0..MaxInput, pieces : 0..MaxInput, open : BOOLEAN]
    /\ pipe \in Seq(Tokens) /\ inbox \in Seq(Tokens)
    /\ their \in {"IDLE", "SEND_BODY", "DONE", "MUST_CLOSE", "ERROR"}
    /\ our \in {"IDLE", "SEND_RESPONSE", "SEND_BODY", "DONE", "MUST_CLOSE", "ERROR"}
    /\ reuse \in BOOLEAN /\ stream \in BOOLEAN /\ ended \in BOOLEAN
    /\ queue \in Seq({"body", "end", "disconnect"}) /\ Len(queue) <= MaxQueue
    /\ listening \in BOOLEAN /\ informed \in BOOLEAN
    /\ app \in {"none", "run", "head", "respond", "body", "errhead", "error", "end",
                "closing", "stuck", "gone", "broken"}
    /\ losing \in BOOLEAN
    /\ reader \in {"receive", "loop", "putbody", "putend", "paused", "rejecting",
                   "refusing", "putclosed", "gone"}
    /\ canRead \in Event({"reader"})
    /\ requests \in Nat
    /\ idle \in BOOLEAN /\ up \in BOOLEAN /\ terminated \in BOOLEAN

Init ==
    /\ client = [requests |-> 0, pieces |-> 0, open |-> FALSE]
    /\ pipe = <<>> /\ inbox = <<>>
    /\ their = "IDLE" /\ our = "IDLE" /\ reuse = TRUE
    /\ stream = FALSE /\ ended = FALSE /\ queue = <<>> /\ listening = FALSE /\ informed = FALSE
    /\ app = "none" /\ losing = FALSE /\ reader = "receive"
    /\ canRead = NewEvent /\ requests = 0 /\ idle = TRUE /\ up = TRUE /\ terminated = FALSE
-----------------------------------------------------------------------------
(* The client *)

SendRequest(t) ==
    /\ up /\ ~client.open /\ client.requests < MaxInput
    /\ t = "refused" => MayRefuse
    /\ client' = [requests |-> client.requests + 1, pieces |-> 0, open |-> TRUE]
    /\ pipe' = Append(pipe, t)
    /\ UNCHANGED <<inbox, lib, http, app, losing, reader, conn>>

SendPiece ==
    /\ up /\ client.open /\ client.pieces < MaxInput
    /\ client' = [client EXCEPT !.pieces = @ + 1]
    /\ pipe' = Append(pipe, "body")
    /\ UNCHANGED <<inbox, lib, http, app, losing, reader, conn>>

SendEnd ==
    /\ up /\ client.open
    /\ client' = [client EXCEPT !.open = FALSE]
    /\ pipe' = Append(pipe, "end")
    /\ UNCHANGED <<inbox, lib, http, app, losing, reader, conn>>

SendBad ==
    /\ MayLeave /\ up /\ client.requests < MaxInput
    /\ client' = [client EXCEPT !.requests = MaxInput, !.pieces = MaxInput]
    /\ pipe' = Append(pipe, "bad")
    /\ UNCHANGED <<inbox, lib, http, app, losing, reader, conn>>

Leave ==
    /\ MayLeave /\ up
    /\ up' = FALSE
    /\ UNCHANGED <<input, lib, http, app, losing, reader, canRead, requests, idle, terminated>>
-----------------------------------------------------------------------------
(* h11 enters these states: its rules for a connection that is not to be
   reused, and for one whose other side has failed, come on top. *)
States(ours, theirs, again) ==
    /\ our' = IF ours = "DONE" /\ (~again \/ theirs = "ERROR") THEN "MUST_CLOSE" ELSE ours
    /\ their' = IF theirs = "DONE" /\ (~again \/ ours = "ERROR") THEN "MUST_CLOSE" ELSE theirs
    /\ reuse' = again
-----------------------------------------------------------------------------
(* The reader: TCPServer._read_data and H11Protocol._handle_events *)

Received ==
    /\ reader = "receive" /\ up /\ pipe # <<>>
    /\ inbox' = inbox \o pipe
    /\ pipe' = <<>>
    /\ reader' = "loop"
    /\ UNCHANGED <<client, lib, http, app, losing, conn>>

(* Mutants of HasRoom: an unbounded channel; one whose closing is not noticed. *)
RoomAlways == TRUE
RoomWhenRead == Len(queue) < MaxQueue

(* put: a message for the application; nothing once its channel is closed. *)
HasRoom == ~listening \/ Len(queue) < MaxQueue
PutMessage(m) == queue' = IF listening THEN Append(queue, m) ELSE queue

(* h11 has the next request already and the current cycle is not over. *)
NextPaused ==
    /\ reader = "loop" /\ their = "DONE" /\ inbox # <<>>
    /\ canRead' = WaitEvent(ClearEvent(canRead), "reader")
    /\ reader' = "paused"
    /\ UNCHANGED <<input, lib, http, app, losing, requests, idle, up, terminated>>

ReadResumes ==
    /\ reader = "paused" /\ "reader" \in canRead.woken
    /\ canRead' = ResumeEvent(canRead, "reader")
    /\ reader' = "loop"
    /\ UNCHANGED <<input, lib, http, app, losing, requests, idle, up, terminated>>

NeedData ==
    /\ reader = "loop" /\ inbox = <<>> /\ their # "ERROR"
    /\ reader' = "receive"
    /\ UNCHANGED <<input, lib, http, app, losing, conn>>

(* RemoteProtocolError: answered if no response has begun; then Closed. *)
NextRejected ==
    /\ reader = "loop"
    /\ \/ their = "ERROR"
       \/ their = "MUST_CLOSE" /\ inbox # <<>>
       \/ their \in {"IDLE", "SEND_BODY"} /\ inbox # <<>> /\ Head(inbox) = "bad"
    /\ IF our \in {"IDLE", "SEND_RESPONSE"}
       THEN /\ States("SEND_BODY", "ERROR", FALSE)
            /\ reader' = "rejecting"
            /\ UNCHANGED up
       ELSE /\ States(our, "ERROR", reuse)
            /\ reader' = "receive"
            /\ up' = FALSE
    /\ UNCHANGED <<input, http, app, losing, canRead, requests, idle, terminated>>

(* The head of the 4xx is out (or failed): EndOfMessage, then Closed. *)
RejectionSent ==
    /\ reader = "rejecting" /\ ~losing
    /\ States(IF our = "SEND_BODY" THEN "DONE" ELSE "ERROR", their, reuse)
    /\ up' = FALSE
    /\ reader' = "receive"
    /\ UNCHANGED <<input, http, app, losing, canRead, requests, idle, terminated>>

(* Updated(idle=False), _create_stream: the request goes to an application, or
   the HTTPStream answers it from here. *)
NextRequest ==
    /\ reader = "loop" /\ their = "IDLE"
    /\ inbox # <<>> /\ Head(inbox) \in {"request", "refused"}
    /\ inbox' = Tail(inbox)
    /\ idle' = FALSE
    /\ stream' = TRUE /\ ended' = FALSE /\ queue' = <<>> /\ informed' = FALSE
    /\ IF Head(inbox) = "refused"
       THEN /\ States("SEND_BODY", "SEND_BODY", FALSE)
            /\ app' = "errhead" /\ listening' = FALSE
            /\ reader' = "refusing"
            /\ UNCHANGED requests
       ELSE /\ States("SEND_RESPONSE", "SEND_BODY", reuse)
            /\ app' = "run" /\ listening' = TRUE
            /\ requests' = requests + 1
            /\ UNCHANGED reader
    /\ UNCHANGED <<client, pipe, losing, canRead, up, terminated>>

RefusalReturns ==
    /\ reader = "refusing" /\ app = "gone"
    /\ requests' = requests + 1
    /\ reader' = "loop"
    /\ UNCHANGED <<input, lib, http, app, losing, canRead, idle, up, terminated>>

(* Data and EndOfMessage, for a stream that is open, closed, or gone. *)
NextOfBody(m, after) ==
    /\ reader = "loop" /\ their = "SEND_BODY"
    /\ inbox # <<>> /\ Head(inbox) = m
    /\ inbox' = Tail(inbox)
    /\ States(our, after, reuse)
    /\ IF ~stream THEN
           reader' = "receive" /\ UNCHANGED queue
       ELSE IF ended THEN
           UNCHANGED <<reader, queue>>
       ELSE IF HasRoom THEN
           PutMessage(m) /\ UNCHANGED reader
       ELSE
           reader' = (IF m = "end" THEN "putend" ELSE "putbody") /\ UNCHANGED queue
    /\ UNCHANGED <<client, pipe, stream, ended, listening, informed, app, losing, conn>>

NextData == NextOfBody("body", "SEND_BODY")
NextEnd  == NextOfBody("end", "DONE")

(* The put that found the queue full. *)
PutResumes(place, m) ==
    /\ reader = place /\ HasRoom
    /\ PutMessage(m)
    /\ reader' = "loop"
    /\ UNCHANGED <<input, lib, stream, ended, listening, informed, app, losing, conn>>

(* The socket is closed: handle(Closed()) closes the stream there is. *)
ReaderCloses ==
    /\ reader = "receive" /\ ~up
    /\ IF stream /\ ~ended
       THEN /\ ended' = TRUE
            /\ IF HasRoom
               THEN PutMessage("disconnect") /\ stream' = FALSE /\ reader' = "gone"
               ELSE reader' = "putclosed" /\ UNCHANGED <<queue, stream>>
       ELSE stream' = FALSE /\ reader' = "gone" /\ UNCHANGED <<ended, queue>>
    /\ UNCHANGED <<input, lib, listening, informed, app, losing, conn>>

DisconnectPut ==
    /\ reader = "putclosed" /\ HasRoom
    /\ PutMessage("disconnect")
    /\ stream' = FALSE
    /\ reader' = "gone"
    /\ UNCHANGED <<input, lib, ended, listening, informed, app, losing, conn>>

(* _idle_timeout, after keep_alive_timeout or at shutdown.  An idle connection
   has no stream to close: IdleMeansNoStream. *)
IdleTimeout ==
    /\ idle /\ up
    /\ up' = FALSE
    /\ UNCHANGED <<input, lib, http, app, losing, reader, canRead, requests, idle, terminated>>

Terminate ==
    /\ MayTerminate /\ ~terminated
    /\ terminated' = TRUE
    /\ UNCHANGED <<input, lib, http, app, losing, reader, canRead, requests, idle, up>>
-----------------------------------------------------------------------------
(* The application, and what HTTPStream.app_send does for it *)

(* receive(): by a task of the application's own, or between two sends. *)
AppReads ==
    /\ listening /\ queue # <<>>
    /\ queue' = Tail(queue)
    /\ informed' = (informed \/ Head(queue) = "disconnect")
    /\ UNCHANGED <<input, lib, stream, ended, listening, app, losing, reader, conn>>

(* Mutant of Sends: what h11 refuses always raises. *)
SendsOrRaises(allowed, ours, again, flush, after) ==
    /\ IF our \in allowed
       THEN States(ours, their, again) /\ app' = flush
       ELSE States("ERROR", their, reuse) /\ app' = "broken"
    /\ UNCHANGED <<input, stream, ended, queue, informed, losing, reader, conn>>

(* _send_h11_event: what h11 refuses raises, unless the client is in error. *)
Sends(allowed, ours, again, flush, after) ==
    /\ IF our \in allowed
       THEN States(ours, their, again) /\ app' = flush
       ELSE States("ERROR", their, reuse) /\ app' = IF their = "ERROR" THEN after ELSE "broken"
    /\ UNCHANGED <<input, stream, ended, queue, informed, losing, reader, conn>>

(* http.response.start; at the request limit the head says connection: close. *)
StartResponse ==
    /\ app = "run"
    /\ Sends({"SEND_RESPONSE"}, "SEND_BODY", reuse /\ requests < KeepAlive, "head", "respond")
    /\ UNCHANGED listening

(* http.response.body and zerocopysend. *)
Body ==
    /\ app = "respond"
    /\ Sends({"SEND_BODY"}, "SEND_BODY", reuse, "body", "respond")
    /\ UNCHANGED listening

(* _send_closed, or the same of an error response. *)
EndResponse ==
    /\ app \in {"respond", "error"}
    /\ Sends({"SEND_BODY"}, "DONE", reuse, "end", "closing")
    /\ UNCHANGED listening

(* The application returns having sent nothing: its channels are closed, then
   app_send(None) answers 500. *)
GiveUp ==
    /\ MayQuit /\ app = "run"
    /\ listening' = FALSE
    /\ IF ended THEN app' = "gone" /\ UNCHANGED <<input, lib, stream, ended, queue, informed, losing, reader, conn>>
       ELSE Sends({"SEND_RESPONSE"}, "SEND_BODY", FALSE, "errhead", "error")

(* ... or in the middle of its response. *)
Quit ==
    /\ MayQuit /\ app = "respond"
    /\ listening' = FALSE
    /\ app' = IF ended THEN "gone" ELSE "closing"
    /\ UNCHANGED <<input, lib, stream, ended, queue, informed, losing, reader, conn>>

(* ... or after it: app_send(None) finds the stream closed. *)
AppReturns ==
    /\ app = "gone" /\ listening
    /\ listening' = FALSE
    /\ UNCHANGED <<input, lib, stream, ended, queue, informed, app, losing, reader, conn>>

(* protocol_send(RawData) completes; if the socket is gone it fails, and
   handle(Closed()) closes the stream from here, under the send lock. *)
Flush(place, after) ==
    /\ app = place
    /\ IF losing THEN
           /\ HasRoom /\ PutMessage("disconnect")
           /\ losing' = FALSE /\ stream' = FALSE /\ app' = after /\ UNCHANGED ended
       ELSE IF up \/ ~stream THEN
           app' = after /\ UNCHANGED <<stream, ended, queue, losing>>
       ELSE IF ended THEN
           stream' = FALSE /\ app' = after /\ UNCHANGED <<ended, queue, losing>>
       ELSE
           /\ ended' = TRUE
           /\ IF HasRoom THEN PutMessage("disconnect") /\ stream' = FALSE /\ app' = after
                             /\ UNCHANGED losing
              ELSE losing' = TRUE /\ UNCHANGED <<stream, queue, app>>
    /\ UNCHANGED <<input, lib, listening, informed, reader, conn>>

Flushed == \/ Flush("head", "respond") \/ Flush("body", "respond")
           \/ Flush("errhead", "error") \/ Flush("end", "closing")
-----------------------------------------------------------------------------
(* StreamClosed: _maybe_recycle *)

(* start_next_cycle if both sides are done; otherwise Closed. *)
Cycle ==
    IF ~terminated /\ our = "DONE" /\ their = "DONE" /\ requests <= KeepAlive
    THEN our' = "IDLE" /\ their' = "IDLE" /\ idle' = TRUE /\ UNCHANGED up
    ELSE up' = FALSE /\ UNCHANGED <<our, their, idle>>

Recycled == UNCHANGED <<input, reuse, listening, informed, losing, reader, requests, terminated>>

(* Mutants of Recycle: the stream stays; the reader is not told. *)
RecycleInUse == UNCHANGED stream /\ canRead' = SetEvent(canRead) /\ app' = "gone" /\ Cycle /\ Recycled
RecycleSilently == stream' = FALSE /\ UNCHANGED canRead /\ app' = "gone" /\ Cycle /\ Recycled
(* After _close_stream: the connection takes its next request, or closes. *)
Recycle ==
    /\ stream' = FALSE
    /\ canRead' = SetEvent(canRead)
    /\ app' = "gone"
    /\ Cycle /\ Recycled

(* Mutant of Closing: the stream is closed again, whoever closed it. *)
ClosingAgain ==
    /\ app = "closing" /\ HasRoom
    /\ ended' = TRUE /\ PutMessage("disconnect") /\ Recycle

(* The disconnect goes to the application first, and waits for room. *)
Closing ==
    /\ app = "closing"
    /\ IF stream /\ ~ended
       THEN /\ ended' = TRUE
            /\ IF HasRoom THEN PutMessage("disconnect") /\ Recycle
               ELSE /\ app' = "stuck"
                    /\ UNCHANGED <<input, lib, stream, queue, listening, informed, losing, reader, conn>>
       ELSE Recycle /\ UNCHANGED <<ended, queue>>

Unstuck ==
    /\ app = "stuck" /\ HasRoom
    /\ PutMessage("disconnect")
    /\ Recycle
    /\ UNCHANGED ended
-----------------------------------------------------------------------------
Client == \/ SendRequest("request") \/ SendRequest("refused")
          \/ SendPiece \/ SendEnd \/ SendBad \/ Leave

Events == \/ NextPaused \/ NeedData \/ NextRejected \/ NextRequest \/ NextData \/ NextEnd

Reader == \/ Received \/ Events \/ ReadResumes \/ RejectionSent \/ RefusalReturns
          \/ PutResumes("putbody", "body") \/ PutResumes("putend", "end")
          \/ ReaderCloses \/ DisconnectPut

Writer == Flushed \/ Closing \/ Unstuck

Next == \/ Client \/ Reader \/ Writer
        \/ AppReads \/ StartResponse \/ Body \/ EndResponse \/ GiveUp \/ Quit \/ AppReturns
        \/ IdleTimeout \/ Terminate

Spec == Init /\ [][Next]_vars

(* The event loop runs every task that is ready; an application starts and, in
   the end, completes its response, has a task that receives what there is, and
   returns once it has answered; a socket send completes. *)
Fairness ==
    /\ WF_vars(Reader) /\ WF_vars(Writer)
    /\ WF_vars(AppReads) /\ WF_vars(StartResponse) /\ WF_vars(AppReturns)
    /\ SF_vars(EndResponse)

FairSpec == Spec /\ Fairness
-----------------------------------------------------------------------------
(* An application that sends its response in order never sees h11's
   LocalProtocolError, whatever the client, the reader and a pipelined request
   do to the connection meanwhile. *)
AppNeverBroken == app # "broken"

(* "The idle timeout must not fire whilst the app is still working": neither it
   nor h11, reading the next request, ever meets a stream that is still served. *)
FreshMeansNoStream == idle \/ their = "IDLE" => ~stream

(* However its stream ends - the reader's loss of the socket, a send that
   fails, the end of the response - an application that is still there when the
   connection is over has been told so, once. *)
ToldOnce ==
    reader = "gone" /\ listening /\ ~losing /\ app # "stuck"
        => informed # (\E i \in DOMAIN queue : queue[i] = "disconnect")

(* The worker is shutting down, or the application quit in mid-response: then
   h11 stays paused, and so does the reader once it has been woken. *)
NoNextCycle == terminated \/ (app = "gone" /\ our \in {"SEND_BODY", "ERROR"})

(* A reader paused behind a response goes on when the response is over. *)
PausedResumes == reader = "paused" ~> reader # "paused" \/ NoNextCycle

(* The connection that lost its socket ends: no task of it is left behind. *)
ReaderEnds == ~up ~> reader = "gone" \/ (reader = "paused" /\ NoNextCycle)
=============================================================================
