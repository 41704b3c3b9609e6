---------------------------- MODULE H2Connection ----------------------------
(***************************************************************************)
(* One HTTP/2 connection (protocol/h2.py H2Protocol) with the tasks that   *)
(* share it: the reader (TCPServer._read_data), the send task, and for     *)
(* every stream its writer, the task that calls stream_send for it (the    *)
(* application's task running HTTPStream.app_send, or the reader itself    *)
(* when it answers a request it refuses).  A task runs until it suspends:  *)
(* in a flush (the socket send), in an event's wait, or in the application.*)
(*                                                                         *)
(* Abstracted: a chunk of body is one unit; only per-stream windows are    *)
(* kept; any unblocked stream may be the next in priority order; the       *)
(* application's receive queue always has room.                            *)
(***************************************************************************)
EXTENDS StreamBuffer, FiniteSets

CONSTANTS Streams,       \* the streams the client may open
          NoStream,      \* no stream
          Promised,      \* those that a push may open as well
          Entries,       \* how the connection came to HTTP/2: see Init
          Upgraded,      \* the stream of the request that an h2c upgrade carries
          Refused,       \* those whose request is answered 400 or 404
          Quitters,      \* those whose application may return mid-response
          MaxBody,       \* most chunks of a response
          MaxWindow,     \* most units of window the client grants
          MaxRequests,   \* config.keep_alive_max_requests
          MayAdjust,     \* the client may set priorities and connection windows
          MayClose,      \* the connection may be lost, or be closed when idle
          MayTerminate   \* the worker may shut down

ASSUME ConnectionAssumption ==
    /\ NoStream \notin Streams /\ IsFiniteSet(Streams)
    /\ Refused \subseteq Streams /\ Quitters \subseteq Streams
    /\ Promised \subseteq Streams /\ Upgraded \in Streams
    /\ Entries \subseteq {"direct", "prior", "upgrade"}
    /\ MaxBody \in Nat /\ MaxWindow \in Nat \ {0} /\ MaxRequests \in Nat
    /\ MayAdjust \in BOOLEAN /\ MayClose \in BOOLEAN /\ MayTerminate \in BOOLEAN

VARIABLES
    streams,       \* keys of self.streams
    held,          \* keys of self.stream_buffers
    buf,           \* the StreamBuffer of a stream, also once it is not held
    tree, active,  \* streams in the priority tree; those of them not blocked
    hasData,       \* self.has_data
    closed,        \* self.closed
    requests,      \* self.keep_alive_requests
    idle,          \* the last Updated(idle) sent: the idle timer is armed
    terminated,    \* context.terminated
    conn,          \* state of the h2 connection: "open", or "closed" by a GOAWAY
    lib,           \* state of each h2 stream
    window,        \* flow-control window of each stream
    writer,        \* where each stream's writer is
    promise,       \* the stream each writer is pushing, if it is
    sender,        \* where the send task is, and the stream it is sending
    reader,        \* where the reader is, and the stream it is refusing
    pushed, sent   \* chunks a writer pushed; chunks put on the wire

keys   == <<streams, held, tree, active>>
h2     == <<conn, lib, window, sent>>
flags  == <<closed, requests, idle, terminated>>
pushes == <<pushed, promise>>
tasks  == <<writer, promise, sender, reader>>
vars   == <<keys, buf, hasData, flags, h2, tasks, pushed>>

(* The per-stream tables, the library's view and the tasks keep their types. *)
TypeOK ==
    /\ streams \subseteq Streams /\ held \subseteq Streams
    /\ tree \subseteq Streams /\ active \subseteq tree
    /\ buf \in [Streams -> Buffer(Streams)]
    /\ hasData \in Event({"sender"})
    /\ closed \in BOOLEAN /\ idle \in BOOLEAN /\ terminated \in BOOLEAN
    /\ requests \in 0..Cardinality(Streams)
    /\ conn \in {"open", "closed"}
    /\ lib \in [Streams -> {"idle", "open", "headers", "ended", "reset"}]
    /\ window \in [Streams -> 0..MaxWindow]
    /\ promise \in [Streams -> Promised \cup {NoStream}]
    /\ writer \in [Streams -> {"none", "start", "promising", "pushrefusing", "head",
                               "errhead", "respond", "pushing", "trailers", "tail",
                               "draining", "closing", "bye", "gone"}]
    /\ sender \in [at : {"unborn", "next", "waiting", "sent", "ended", "exited"},
                   on : Streams \cup {NoStream}]
    /\ reader \in [at : {"initiating", "ready", "refusing", "counting", "gone"},
                   on : Streams \cup {NoStream}]
    /\ pushed \in [Streams -> 0..MaxBody] /\ sent \in [Streams -> 0..MaxBody]

(* "direct" is ALPN.  "prior" is a preface and "upgrade" an h2c request that h11
   met: H11Protocol has stopped the idle timer for it. *)
Init ==
    /\ streams = {} /\ held = {} /\ tree = {} /\ active = {}
    /\ buf = [s \in Streams |-> NewBuffer]
    /\ hasData = NewEvent
    /\ closed = FALSE /\ requests = 0 /\ terminated = FALSE
    /\ conn = "open"
    /\ lib = [s \in Streams |-> "idle"]
    /\ window = [s \in Streams |-> MaxWindow]
    /\ writer = [s \in Streams |-> "none"]
    /\ promise = [s \in Streams |-> NoStream]
    /\ \E entry \in Entries :
          /\ idle = (entry = "direct")
          /\ sender = [at |-> IF entry = "upgrade" THEN "unborn" ELSE "next", on |-> NoStream]
          /\ reader = [at |-> IF entry = "upgrade" THEN "initiating" ELSE "ready",
                       on |-> NoStream]
    /\ pushed = [s \in Streams |-> 0] /\ sent = [s \in Streams |-> 0]

WriterGoes(s, place) == writer' = [writer EXCEPT ![s] = place]
SenderGoes(place, s) == sender' = [at |-> place, on |-> s]
ReaderGoes(place, s) == reader' = [at |-> place, on |-> s]
-----------------------------------------------------------------------------
(* Helpers of H2Protocol *)

(* The h2 library raises ProtocolError on anything else. *)
MaySendHeaders(s) == conn = "open" /\ lib[s] = "open"
MaySendData(s)    == conn = "open" /\ lib[s] = "headers"

(* _create_stream up to the hand-over of the request to the HTTPStream. *)
CreateStream(s) ==
    /\ streams' = streams \cup {s}
    /\ held' = held \cup {s}
    /\ buf' = [buf EXCEPT ![s] = NewBuffer]
    /\ tree' = tree \cup {s}
    /\ UNCHANGED active

(* _close_stream: the stream is forgotten and its HTTPStream told. *)
CloseStream(s) ==
    /\ streams' = streams \ {s}
    /\ hasData' = IF s \in streams THEN SetEvent(hasData) ELSE hasData

(* Mutants of DiscardSendState: the buffer is emptied, or dropped, and not closed;
   nothing is dropped. *)
EmptySendState(s) ==
    /\ held' = held \ {s}
    /\ buf' = [buf EXCEPT ![s].len = 0]
    /\ tree' = tree \ {s} /\ active' = active \ {s}

DropSendState(s) ==
    /\ held' = held \ {s}
    /\ UNCHANGED buf
    /\ tree' = tree \ {s} /\ active' = active \ {s}

KeepSendState(s) == UNCHANGED <<held, buf, tree, active>>

(* _discard_send_state: whoever waits on the buffer is released. *)
DiscardSendState(s) ==
    /\ held' = held \ {s}
    /\ buf' = IF s \in held THEN [buf EXCEPT ![s] = CloseBuffer(@)] ELSE buf
    /\ tree' = tree \ {s} /\ active' = active \ {s}

(* Mutant of WindowUnblocks: the stream stays blocked. *)
WindowNoted(s) == active

(* _window_updated for one stream. *)
WindowUnblocks(s) == IF s \in held THEN active \cup {s} ELSE active

(* Mutants of IdleAfter: computed before the stream is forgotten; not at all. *)
IdleBefore(s) == streams = {}
IdleAlways(s) == TRUE

(* No stream is left once s is forgotten. *)
IdleAfter(s) == streams \ {s} = {}

(* handle(Closed()): every stream is closed; the buffers are not. *)
HandleClosed ==
    /\ closed' = TRUE
    /\ streams' = {}
    /\ hasData' = SetEvent(hasData)
    /\ UNCHANGED <<held, tree, active, buf, requests, idle, terminated, h2, pushed, writer, promise,
                   sender>>
-----------------------------------------------------------------------------
(* The reader: one h2 event per step, be it of the same batch as the one before,
   whose events are handled even if a flush meanwhile has closed the connection. *)

Reading == reader.at = "ready"

(* HTTPStream answers the request itself: its headers are flushed first. *)
Refuses(s) ==
    /\ WriterGoes(s, "errhead") /\ ReaderGoes("refusing", s)
    /\ lib' = [lib EXCEPT ![s] = "headers"]
    /\ UNCHANGED requests

(* spawn_app, and mark_request. *)
Serves(s) ==
    /\ WriterGoes(s, "start")
    /\ lib' = [lib EXCEPT ![s] = "open"]
    /\ requests' = requests + 1

(* For a request that is served Updated(idle=False) follows at once. *)
RequestReceived(s) ==
    /\ Reading /\ conn = "open" /\ ~terminated
    /\ lib[s] = "idle"
    /\ CreateStream(s)
    /\ IF s \in Refused
       THEN Refuses(s) /\ UNCHANGED idle
       ELSE Serves(s) /\ idle' = FALSE /\ ReaderGoes("counting", s)
    /\ UNCHANGED <<hasData, closed, terminated, conn, window, sent, pushes, sender>>

(* initiate with the request of an h2c upgrade.  The send task is spawned once
   the request has been handed over: nothing is sent of a refusal but its
   headers, and what would follow it is never reached. *)
Upgrade(s) ==
    /\ reader.at = "initiating"
    /\ CreateStream(s)
    /\ IF s \in Refused
       THEN Refuses(s) /\ UNCHANGED sender
       ELSE Serves(s) /\ ReaderGoes("ready", NoStream) /\ SenderGoes("next", NoStream)
    /\ UNCHANGED <<hasData, closed, idle, terminated, conn, window, sent, pushes>>

(* _create_stream returns from the refusal; then Updated(idle=False) as for
   any other request. *)
RefusalReturns ==
    /\ reader.at = "refusing" /\ sender.at # "unborn" /\ writer[reader.on] = "gone"
    /\ requests' = requests + 1
    /\ idle' = FALSE
    /\ ReaderGoes("counting", reader.on)
    /\ UNCHANGED <<keys, buf, hasData, closed, terminated, h2, pushes, writer, sender>>

(* A request that comes once the worker is terminated is reset. *)
RequestTurnedAway(s) ==
    /\ Reading /\ conn = "open" /\ terminated
    /\ lib[s] = "idle"
    /\ lib' = [lib EXCEPT ![s] = "reset"]
    /\ ReaderGoes("counting", s)
    /\ UNCHANGED <<keys, buf, hasData, flags, conn, window, sent, pushes, writer, sender>>

(* The end of a RequestReceived: too many requests close the connection. *)
RequestCounted ==
    /\ reader.at = "counting"
    /\ conn' = IF requests > MaxRequests THEN "closed" ELSE conn
    /\ ReaderGoes("ready", NoStream)
    /\ UNCHANGED <<keys, buf, hasData, flags, lib, window, sent, pushes, writer, sender>>

WindowUpdated(s) ==
    /\ Reading /\ conn = "open"
    /\ lib[s] \in {"open", "headers"} /\ window[s] < MaxWindow
    /\ window' = [window EXCEPT ![s] = @ + 1]
    /\ active' = WindowUnblocks(s)
    /\ hasData' = SetEvent(hasData)
    /\ UNCHANGED <<streams, held, tree, buf, flags, conn, lib, sent, pushed, tasks>>

(* A window of the connection, or a new initial window: every stream that has a
   buffer is unblocked; one without a place in the tree would be an error. *)
AllUnblocked ==
    /\ MayAdjust /\ Reading /\ conn = "open"
    /\ active' = active \cup held
    /\ hasData' = SetEvent(hasData)
    /\ UNCHANGED <<streams, held, tree, buf, flags, h2, pushed, tasks>>

(* PRIORITY for a stream the tree does not know gives it a place, blocked. *)
PriorityUpdated(s) ==
    /\ MayAdjust /\ Reading /\ conn = "open"
    /\ tree' = tree \cup {s}
    /\ hasData' = SetEvent(hasData)
    /\ UNCHANGED <<streams, held, active, buf, flags, h2, pushed, tasks>>

StreamReset(s) ==
    /\ Reading /\ conn = "open"
    /\ lib[s] \in {"open", "headers", "ended"}
    /\ lib' = [lib EXCEPT ![s] = "reset"]
    /\ streams' = streams \ {s}
    /\ DiscardSendState(s)
    /\ hasData' = SetEvent(hasData)
    /\ UNCHANGED <<flags, conn, window, sent, pushed, tasks>>

(* After a GOAWAY of its own the library refuses every frame but GOAWAY:
   handle answers with send(Closed()). *)
FrameAfterGoaway ==
    /\ Reading /\ conn = "closed" /\ ~closed
    /\ HandleClosed
    /\ UNCHANGED reader

(* The transport is gone (end of file, a failed send, the client's GOAWAY). *)
ConnectionLost ==
    /\ MayClose /\ ~closed
    /\ HandleClosed
    /\ UNCHANGED reader

(* TCPServer._idle_timeout: armed by Updated(idle=True). *)
IdleTimeout ==
    /\ MayClose /\ idle /\ ~closed
    /\ HandleClosed
    /\ UNCHANGED reader

ReaderEnds ==
    /\ reader.at = "ready" /\ closed
    /\ ReaderGoes("gone", NoStream)
    /\ UNCHANGED <<keys, buf, hasData, flags, h2, pushes, writer, sender>>

Terminate ==
    /\ MayTerminate /\ ~terminated
    /\ terminated' = TRUE
    /\ UNCHANGED <<keys, buf, hasData, closed, requests, idle, h2, pushed, tasks>>
-----------------------------------------------------------------------------
(* The writer of a stream: the messages an application sends, as app_send and
   stream_send carry them out. *)

StartResponse(s) ==
    /\ writer[s] = "start"
    /\ lib' = IF MaySendHeaders(s) THEN [lib EXCEPT ![s] = "headers"] ELSE lib
    /\ WriterGoes(s, "head")
    /\ UNCHANGED <<keys, buf, hasData, flags, conn, window, sent, pushes, sender, reader>>

(* The application returns, or raises, before it starts a response: app_send(None)
   answers 500, unless the stream has been closed meanwhile. *)
GiveUp(s) ==
    /\ writer[s] = "start"
    /\ IF s \in streams
       THEN /\ lib' = IF MaySendHeaders(s) THEN [lib EXCEPT ![s] = "headers"] ELSE lib
            /\ WriterGoes(s, "errhead")
       ELSE /\ WriterGoes(s, "gone")
            /\ UNCHANGED lib
    /\ UNCHANGED <<keys, buf, hasData, flags, conn, window, sent, pushes, sender, reader>>

(* _create_server_push, by an application that has not started its response
   (one that has goes on in the same way): first the promise is flushed.  The
   library refuses one on a stream that is over or is itself a push. *)
ServerPush(s, p) ==
    /\ writer[s] = "start" /\ s \notin Promised
    /\ MaySendHeaders(s)
    /\ lib[p] = "idle"
    /\ promise' = [promise EXCEPT ![s] = p]
    /\ lib' = [lib EXCEPT ![p] = "open"]
    /\ WriterGoes(s, "promising")
    /\ UNCHANGED <<keys, buf, hasData, flags, conn, window, sent, pushed, sender, reader>>

(* The promised request goes the way of any other. *)
PushCreated(s) ==
    /\ writer[s] = "promising"
    /\ LET p == promise[s]
       IN  /\ CreateStream(p)
           /\ IF p \in Refused
              THEN /\ lib' = IF MaySendHeaders(p) THEN [lib EXCEPT ![p] = "headers"] ELSE lib
                   /\ writer' = [writer EXCEPT ![s] = "pushrefusing", ![p] = "errhead"]
                   /\ UNCHANGED <<requests, promise>>
              ELSE /\ writer' = [writer EXCEPT ![s] = "start", ![p] = "start"]
                   /\ requests' = requests + 1
                   /\ promise' = [promise EXCEPT ![s] = NoStream]
                   /\ UNCHANGED lib
    /\ UNCHANGED <<hasData, closed, idle, terminated, conn, window, sent, pushed, sender, reader>>

(* It is refused: its stream is no longer there for the end of its body, which
   raises a KeyError that stream_send swallows. *)
PushRefused(s) ==
    /\ writer[s] = "pushrefusing" /\ writer[promise[s]] = "gone"
    /\ requests' = requests + 1
    /\ promise' = [promise EXCEPT ![s] = NoStream]
    /\ WriterGoes(s, "start")
    /\ UNCHANGED <<keys, buf, hasData, closed, idle, terminated, h2, pushed, sender, reader>>

HeadersFlushed(s) ==
    /\ writer[s] = "head"
    /\ WriterGoes(s, "respond")
    /\ UNCHANGED <<keys, buf, hasData, flags, h2, pushes, sender, reader>>

(* unblock and has_data.set(), which a stream out of the tree does not get to. *)
Unblock(s) ==
    /\ active' = active \cup {s}
    /\ hasData' = SetEvent(hasData)

Body(s) ==
    /\ writer[s] = "respond" /\ pushed[s] < MaxBody
    /\ s \in tree /\ s \in held
    /\ Unblock(s)
    /\ buf' = [buf EXCEPT ![s] = PushBuffer(@, s, 1)]
    /\ pushed' = [pushed EXCEPT ![s] = @ + 1]
    /\ WriterGoes(s, IF buf'[s].len >= High THEN "pushing" ELSE "respond")
    /\ UNCHANGED <<streams, held, tree, flags, h2, promise, sender, reader>>

(* Body or Trailers with the send state discarded: the error is swallowed, but a
   place that a PRIORITY frame gave back is unblocked first. *)
BodyDiscarded(s) ==
    /\ writer[s] = "respond"
    /\ s \in tree /\ s \notin held
    /\ Unblock(s)
    /\ UNCHANGED <<streams, held, tree, buf, flags, h2, pushed, tasks>>

BodyAccepted(s) ==
    /\ writer[s] = "pushing" /\ s \in buf[s].paused.woken
    /\ buf' = [buf EXCEPT ![s] = EndPush(@, s)]
    /\ WriterGoes(s, "respond")
    /\ UNCHANGED <<keys, hasData, flags, h2, pushes, sender, reader>>

(* Trailers: wait until the body has left the buffer, then end the stream with them. *)
Trailers(s) ==
    /\ writer[s] = "respond"
    /\ s \in tree /\ s \in held
    /\ Unblock(s)
    /\ buf' = [buf EXCEPT ![s] = DrainBuffer(@, s)]
    /\ WriterGoes(s, "trailers")
    /\ UNCHANGED <<streams, held, tree, flags, h2, pushes, sender, reader>>

TrailersSent(s) ==
    /\ writer[s] = "trailers" /\ s \in buf[s].empty.woken
    /\ buf' = [buf EXCEPT ![s] = EndDrain(@, s)]
    /\ lib' = IF MaySendData(s) THEN [lib EXCEPT ![s] = "ended"] ELSE lib
    /\ WriterGoes(s, "tail")
    /\ UNCHANGED <<keys, hasData, flags, conn, window, sent, pushes, sender, reader>>

(* _send_closed, and the rest of _send_error_response: the final EndBody.  With
   the send state gone stream_send returns at once (KeyError). *)
EndBody(s) ==
    /\ writer[s] \in {"respond", "errhead", "tail"}
    /\ IF s \in held
       THEN /\ buf' = [buf EXCEPT ![s] = DrainBuffer(CompleteBuffer(@), s)]
            /\ Unblock(s)
            /\ WriterGoes(s, "draining")
       ELSE /\ WriterGoes(s, "closing")
            /\ UNCHANGED <<buf, active, hasData>>
    /\ UNCHANGED <<streams, held, tree, flags, h2, pushes, sender, reader>>

BodyDrained(s) ==
    /\ writer[s] = "draining" /\ s \in buf[s].empty.woken
    /\ buf' = [buf EXCEPT ![s] = EndDrain(@, s)]
    /\ WriterGoes(s, "closing")
    /\ UNCHANGED <<keys, hasData, flags, h2, pushes, sender, reader>>

(* The application returns with its response unfinished: app_send(None). *)
QuitResponse(s) ==
    /\ s \in Quitters /\ writer[s] = "respond"
    /\ WriterGoes(s, IF s \in streams THEN "closing" ELSE "gone")
    /\ UNCHANGED <<keys, buf, hasData, flags, h2, pushes, sender, reader>>

(* StreamClosed: the connection that falls idle is closed if the worker is
   terminated, once its GOAWAY is flushed; then Updated(idle) goes out. *)
StreamClosed(s) ==
    /\ writer[s] = "closing"
    /\ CloseStream(s)
    /\ IF IdleAfter(s) /\ terminated
       THEN /\ conn' = "closed"
            /\ WriterGoes(s, "bye")
            /\ UNCHANGED idle
       ELSE /\ idle' = IdleAfter(s)
            /\ WriterGoes(s, "gone")
            /\ UNCHANGED conn
    /\ UNCHANGED <<held, tree, active, buf, closed, requests, terminated, lib, window, sent,
                   pushes, sender, reader>>

GoawayFlushed(s) ==
    /\ writer[s] = "bye"
    /\ idle' = TRUE
    /\ WriterGoes(s, "gone")
    /\ UNCHANGED <<keys, buf, hasData, closed, requests, terminated, h2, pushes, sender, reader>>
-----------------------------------------------------------------------------
(* The send task *)

SenderExits ==
    /\ sender.at = "next" /\ closed
    /\ SenderGoes("exited", NoStream)
    /\ UNCHANGED <<keys, buf, hasData, flags, h2, pushes, writer, reader>>

(* No stream to send: DeadlockError from the priority tree. *)
SenderWaits ==
    /\ sender.at = "next" /\ ~closed /\ active = {}
    /\ hasData' = WaitEvent(hasData, "sender")
    /\ SenderGoes("waiting", NoStream)
    /\ UNCHANGED <<keys, buf, flags, h2, pushes, writer, reader>>

SenderWoken ==
    /\ sender.at = "waiting" /\ "sender" \in hasData.woken
    /\ hasData' = ClearEvent(ResumeEvent(hasData, "sender"))
    /\ SenderGoes("next", NoStream)
    /\ UNCHANGED <<keys, buf, flags, h2, pushes, writer, reader>>

(* _send_data from its test of complete: END_STREAM once nothing is left. *)
EndStreamOrNext(s, b, a) ==
    IF ~Finished(b) THEN
        /\ buf' = [buf EXCEPT ![s] = b]
        /\ active' = a
        /\ SenderGoes("next", NoStream)
        /\ UNCHANGED <<held, tree, lib>>
    ELSE IF MaySendData(s) THEN
        /\ buf' = [buf EXCEPT ![s] = b]
        /\ active' = a
        /\ lib' = [lib EXCEPT ![s] = "ended"]
        /\ SenderGoes("ended", s)
        /\ UNCHANGED <<held, tree>>
    ELSE
        /\ buf' = [buf EXCEPT ![s] = CloseBuffer(b)]
        /\ held' = held \ {s} /\ tree' = tree \ {s} /\ active' = active \ {s}
        /\ SenderGoes("next", NoStream)
        /\ UNCHANGED lib

(* _send_data(s): one unit if the window allows and there is one.  A stream
   that cannot be sent on any more is discarded, with what was popped. *)
SendData(s) ==
    /\ sender.at = "next" /\ ~closed /\ s \in active
    /\ LET n == IF window[s] > 0 THEN 1 ELSE 0
           b == PopBuffer(buf[s], n)
       IN  IF lib[s] = "reset" \/ s \notin held THEN
               /\ DiscardSendState(s)
               /\ SenderGoes("next", NoStream)
               /\ UNCHANGED <<lib, sent, window>>
           ELSE IF n = 0 \/ buf[s].len = 0 THEN
               /\ EndStreamOrNext(s, b, active \ {s})
               /\ UNCHANGED <<sent, window>>
           ELSE IF MaySendData(s) THEN
               /\ buf' = [buf EXCEPT ![s] = b]
               /\ sent' = [sent EXCEPT ![s] = @ + 1]
               /\ window' = [window EXCEPT ![s] = @ - 1]
               /\ SenderGoes("sent", s)
               /\ UNCHANGED <<held, tree, active, lib>>
           ELSE
               /\ buf' = [buf EXCEPT ![s] = CloseBuffer(b)]
               /\ held' = held \ {s} /\ tree' = tree \ {s} /\ active' = active \ {s}
               /\ SenderGoes("next", NoStream)
               /\ UNCHANGED <<lib, sent, window>>
    /\ UNCHANGED <<streams, hasData, flags, conn, pushes, writer, reader>>

(* The data is flushed: _send_data goes on to its test of complete. *)
DataFlushed ==
    /\ sender.at = "sent"
    /\ LET s == sender.on
       IN  IF s \in held
           THEN EndStreamOrNext(s, buf[s], active)
           ELSE /\ DiscardSendState(s)
                /\ SenderGoes("next", NoStream)
                /\ UNCHANGED lib
    /\ UNCHANGED <<streams, hasData, flags, conn, window, sent, pushes, writer, reader>>

(* END_STREAM is flushed: the send state goes (it may have gone already). *)
EndFlushed ==
    /\ sender.at = "ended"
    /\ held' = held \ {sender.on}
    /\ tree' = tree \ {sender.on} /\ active' = active \ {sender.on}
    /\ SenderGoes("next", NoStream)
    /\ UNCHANGED <<streams, buf, hasData, flags, h2, pushes, writer, reader>>
-----------------------------------------------------------------------------
Client(s) == \/ RequestReceived(s) \/ RequestTurnedAway(s) \/ StreamReset(s)
             \/ WindowUpdated(s) \/ PriorityUpdated(s)

Application(s) == \/ StartResponse(s) \/ GiveUp(s) \/ Body(s) \/ BodyDiscarded(s)
                  \/ Trailers(s) \/ EndBody(s) \/ QuitResponse(s)
                  \/ \E p \in Promised : ServerPush(s, p)

Resumed(s) == \/ HeadersFlushed(s) \/ BodyAccepted(s) \/ TrailersSent(s) \/ BodyDrained(s)
              \/ StreamClosed(s) \/ GoawayFlushed(s) \/ PushCreated(s) \/ PushRefused(s)

SenderStep == SenderExits \/ SenderWaits \/ SenderWoken \/ DataFlushed \/ EndFlushed

ReaderStep == RefusalReturns \/ RequestCounted \/ FrameAfterGoaway \/ ReaderEnds

Next == \/ \E s \in Streams : Client(s) \/ Application(s) \/ Resumed(s) \/ SendData(s)
        \/ Upgrade(Upgraded)
        \/ AllUnblocked
        \/ SenderStep \/ ReaderStep
        \/ ConnectionLost \/ IdleTimeout \/ Terminate

Spec == Init /\ [][Next]_vars

(* The event loop runs every task that is ready; an application that is not
   waiting goes on to start and to end its response; the client keeps granting
   window; the priority tree's weighted turns reach every unblocked stream. *)
Fairness ==
    /\ WF_vars(SenderStep) /\ WF_vars(RefusalReturns \/ RequestCounted \/ Upgrade(Upgraded))
    /\ \A s \in Streams :
          /\ WF_vars(Resumed(s))
          /\ WF_vars(StartResponse(s) \/ GiveUp(s))
          /\ WF_vars(EndBody(s))
          /\ SF_vars(WindowUpdated(s))
          /\ SF_vars(SendData(s))

FairSpec == Spec /\ Fairness
-----------------------------------------------------------------------------
(* END_STREAM is sent only after every chunk the application pushed, however
   the window, the resets and the other streams interleave. *)
EndStreamAfterBody == \A s \in Streams : lib[s] = "ended" => sent[s] = pushed[s]

(* Each stream's buffer under its writer, as BufferWriters has one. *)
Buffers(s) == INSTANCE BufferWriters WITH
    Writers <- {s}, MaxPush <- 1, MaxPop <- 1, buf <- buf[s],
    pc <- [w \in {s} |-> CASE writer[s] = "pushing" -> "pushing"
                         [] writer[s] \in {"trailers", "draining"} -> "draining"
                         [] OTHER -> "ready"]

(* A connection uses each of its buffers as StreamBuffer is meant to be used:
   by one writer, which pushes nothing once the buffer is complete, through the
   resets, the failed sends and the streams that are pushed. *)
BuffersUsed ==
    /\ \A s \in Streams : Buffers(s)!Init
    /\ [][\A s \in Streams : [Buffers(s)!Next]_(Buffers(s)!vars)]_vars

(* A stream with a send buffer has its place in the priority tree, so that a
   window for the whole connection, which unblocks every buffer's stream, never
   meets one it cannot; and what the client reset has no buffer that outlives it. *)
SendStateConsistent ==
    /\ held \subseteq tree
    /\ \A s \in Streams \ Promised : lib[s] = "reset" => s \notin held

(* A stream with data, or with its end, still to send is never left blocked in
   the priority tree while the client's window would let it go. *)
NeverLeftBlocked ==
    \A s \in held : buf[s].len > 0 /\ window[s] > 0 /\ sender.on # s => s \in active

(* The priority tree and the send buffers agree, whatever PRIORITY frames,
   windows, resets and lost sends do to them between two flushes. *)
TreeAgrees == SendStateConsistent /\ NeverLeftBlocked

(* The stream of a push whose own was reset while the promise was being sent. *)
Orphaned == streams \subseteq Promised /\ \E s \in Streams : lib[s] = "reset"

(* The idle timer is not armed while a request is in hand: it would close the
   connection under a working application.  The exception is a push that
   outlives the stream it was made on, which nothing announces. *)
NotIdleWhileServing == reader.at = "ready" /\ ~closed /\ streams # {} => ~idle \/ Orphaned

(* Between two events, with no writer at work. *)
Quiet == /\ reader.at = "ready" /\ ~closed
         /\ \A s \in Streams : writer[s] \in {"none", "gone"}

(* A connection that has answered everything it was asked is idle: its timer runs.
   The exception is a request the reader has refused, which it announces only
   once it has been answered. *)
IdleOnceAnswered ==
    /\ Quiet /\ requests > 0
    /\ \A s \in Streams : lib[s] = "idle" \/ (lib[s] = "ended" /\ s \notin Refused)
    => idle

(* The GOAWAY of a connection that is closed as its last stream ends follows
   the END_STREAM of every response the application has completed. *)
GoawayAfterResponses ==
    [][\A s \in Streams : writer[s] = "closing" /\ writer'[s] = "bye" /\ s \in streams
          => lib[s] \in {"ended", "reset"}]_vars

(* No writer is left waiting: what blocks it is released by window, by the end
   of the body, or by the end of the stream. *)
PushReleased == \A s \in Streams : writer[s] = "pushing" ~> writer[s] # "pushing"

(* A response the application has completed is ended on the wire. *)
ResponseEnds == \A s \in Streams : writer[s] = "draining" ~> lib[s] \in {"ended", "reset"}

(* "the client sees the error response and then simply waits": what a refused
   request is answered is ended, and so the refusal comes to its own end. *)
RefusalEnds == \A s \in Streams : writer[s] = "errhead" ~> lib[s] \in {"ended", "reset"}

(* A stream that is over leaves nothing behind on the connection. *)
SendStateTidied == \A s \in Streams : writer[s] = "gone" ~> s \notin held
=============================================================================
