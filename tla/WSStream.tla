------------------------------- MODULE WSStream -------------------------------
(***************************************************************************)
(* A WebSocket over HTTP/1.1: protocol/ws_stream.py WSStream, carried by   *)
(* H11Protocol through its H11WSConnection, with the wsproto connection    *)
(* and the application's receive queue (task_group.py).  Three tasks use   *)
(* the stream: the reader, the application and the ping loop; each step    *)
(* is one of them running until it suspends in a socket send or in a put   *)
(* on a full queue.                                                        *)
(*                                                                         *)
(* Abstracted: a frame is its index in what the client sent, and its kind; *)
(* the handshake request is a record of what its validation looks at.      *)
(***************************************************************************)
EXTENDS Naturals, Sequences

CONSTANTS MaxFrames,     \* frames a client sends
          MaxHeld,       \* frames pre_accept_data has room for
          MaxQueue,      \* config.max_app_queue_size
          Pings,         \* config.websocket_ping_interval is set
          ReadsAlong,    \* the application has a task that always receives
          MayDrop        \* the socket may be lost

ASSUME WSAssumption ==
    /\ MaxFrames \in Nat /\ MaxHeld \in Nat /\ MaxQueue \in Nat \ {0}
    /\ {Pings, ReadsAlong, MayDrop} \subseteq BOOLEAN

Tasks == {"reader", "app", "pinger"}

(* A message is the frames "part" ... "part" "last"; "big" is one that takes it
   over websocket_max_message_size. *)
Kinds == {"part", "last", "big", "ping", "close"}

VARIABLES
    sent,        \* the kinds of the frames the client has sent
    inbound,     \* frames in the socket
    held,        \* self.pre_accept_data
    frames,      \* received by wsproto, not yet taken from it
    ws,          \* wsproto's state; "none": not accepted, no self.connection
    buffer,      \* self.buffer, its frames
    state,       \* self.state
    response,    \* a denial response has started
    closed,      \* self.closed
    closeCode,   \* self.close_code is not None
    stream,      \* the connection's stream is not None
    http,        \* h11's state of the server
    up, dropped, \* the server has the socket open; the client is gone
    pc,          \* where each task is
    losing,      \* tasks whose failed send is in handle(Closed)
    listening,   \* the application has not returned: its channel is open
    queued,      \* messages in the receive queue
    putters,     \* tasks waiting to put one, in order
    got,         \* the messages put for the application, as their frames
    told,        \* the disconnects put for it, as the origin of their code
    logged,      \* lines of the access log
    early        \* what became of bytes ahead of the acceptance: none, held, cut off

wire  == <<sent, inbound>>
proto == <<held, frames, ws, buffer>>
life  == <<state, response, closed, closeCode, stream>>
conn  == <<http, up, dropped>>
chan  == <<listening, queued, putters, got, told>>
vars  == <<wire, proto, life, conn, pc, losing, chan, logged, early>>

Kind(f) == sent[f]

(* What a task that is in a socket send was doing. *)
Writing == {"accept", "pong", "toobig", "reply", "errhead", "errend", "message",
            "abort", "rejmore", "rejlast", "rejend", "ping", "badhead", "badend"}
Places == Writing \cup {"request", "receive", "run", "accepted", "asleep", "events", "putting",
                        "closing", "ending", "failing", "gone", "crashed", "none"}

(* The frames, the stream's state, the queue and the tasks keep their types. *)
TypeOK ==
    /\ sent \in Seq(Kinds) /\ Len(sent) <= MaxFrames
    /\ \A s \in {inbound, held, frames, buffer} : s \in Seq(DOMAIN sent)
    /\ Len(held) <= MaxHeld
    /\ ws \in {"none", "OPEN", "LOCAL_CLOSING", "CLOSED"}
    /\ state \in {"HANDSHAKE", "CONNECTED", "RESPONSE", "CLOSED", "HTTPCLOSED"}
    /\ {response, closed, closeCode, stream, up, dropped, listening} \subseteq BOOLEAN
    /\ http \in {"IDLE", "SEND_BODY", "DONE", "SWITCHED_PROTOCOL", "ERROR"}
    /\ pc \in [Tasks -> Places] /\ losing \subseteq Tasks
    /\ queued \in 0..MaxQueue /\ putters \in Seq(Tasks)
    /\ told \in Seq({"peer", "normal", "abnormal"})
    /\ logged \in Nat /\ early \in {"none", "held", "cut"}

Init ==
    /\ sent = <<>> /\ inbound = <<>>
    /\ held = <<>> /\ frames = <<>> /\ ws = "none" /\ buffer = <<>>
    /\ state = "HANDSHAKE" /\ response = FALSE /\ closed = FALSE /\ closeCode = FALSE
    /\ stream = TRUE /\ http = "IDLE" /\ up = TRUE /\ dropped = FALSE
    /\ pc = [reader |-> "request", app |-> "none", pinger |-> "none"] /\ losing = {}
    /\ listening = FALSE /\ queued = 0 /\ putters = <<>> /\ got = <<>> /\ told = <<>>
    /\ logged = 0 /\ early = "none"

Go(t, place) == pc' = [pc EXCEPT ![t] = place]
-----------------------------------------------------------------------------
(* The client *)

(* What comes once the stream is closed is ignored: nothing more is sent then. *)
SendFrame(k) ==
    /\ up /\ ~dropped /\ ~closed /\ Len(sent) < MaxFrames /\ "close" \notin {sent[i] : i \in DOMAIN sent}
    /\ sent' = Append(sent, k)
    /\ inbound' = Append(inbound, Len(sent) + 1)
    /\ UNCHANGED <<proto, life, conn, pc, losing, chan, logged, early>>

Drop ==
    /\ MayDrop /\ ~dropped /\ up
    /\ dropped' = TRUE
    /\ UNCHANGED <<wire, proto, life, http, up, pc, losing, chan, logged, early>>
-----------------------------------------------------------------------------
(* The application's channel *)

Waits(t) == \E i \in DOMAIN putters : putters[i] = t

(* Mutant of Enqueue: an unbounded channel. *)
EnqueueAlways(t) == queued' = queued + 1 /\ UNCHANGED putters

(* app_put: queued if there is room; else its task waits its turn. *)
Enqueue(t) ==
    IF ~listening THEN UNCHANGED <<queued, putters>>
    ELSE IF queued < MaxQueue THEN queued' = queued + 1 /\ UNCHANGED putters
    ELSE putters' = Append(putters, t) /\ UNCHANGED queued

(* receive(), by a task of its own or between two sends: the first that waits
   takes the place. *)
AppReads ==
    /\ listening /\ queued > 0
    /\ ReadsAlong \/ pc["app"] = "run"
    /\ IF putters = <<>> THEN queued' = queued - 1 /\ UNCHANGED putters
       ELSE putters' = Tail(putters) /\ UNCHANGED queued
    /\ UNCHANGED <<wire, proto, life, conn, pc, losing, listening, got, told, logged, early>>

(* Mutant of CloseCode: the peer's code is forgotten. *)
CloseCodeForgotten == IF state \in {"HTTPCLOSED", "CLOSED"} THEN "normal" ELSE "abnormal"

CloseCode ==
    IF closeCode THEN "peer"
    ELSE IF state \in {"HTTPCLOSED", "CLOSED"} THEN "normal" ELSE "abnormal"

(* handle(StreamClosed): the first one tells the application. *)
HandleClosed(t) ==
    /\ closed' = TRUE
    /\ IF closed \/ pc["app"] = "none" THEN UNCHANGED <<told, queued, putters>>
       ELSE told' = Append(told, CloseCode) /\ Enqueue(t)

(* HandleClosed does not have to wait for room. *)
AtOnce == closed \/ ~listening \/ queued < MaxQueue
-----------------------------------------------------------------------------
(* Sending: TCPServer.protocol_send.  A send completes, or fails when the socket
   is gone, and then handle(Closed) closes the stream from within the sender. *)

Done(t) == IF t = "reader" THEN "receive"
           ELSE IF t = "pinger" THEN "asleep"
           ELSE IF listening THEN "run" ELSE "gone"

(* What a task does after the send it was in. *)
AfterWrite(t) ==
    LET p == pc[t] IN
    CASE p = "accept"  -> "accepted"
      [] p = "pong"    -> "events"
      [] p = "reply"   -> "closing"
      [] p = "badhead" -> "badend"
      [] p = "errhead" -> IF http = "SEND_BODY" THEN "errend" ELSE "crashed"
      [] p \in {"badend", "errend", "abort"} -> "ending"
      [] p = "rejlast" -> "rejend"
      [] OTHER -> Done(t)

(* Mutant of Wrote: the caller of _send_error_response logs as well. *)
WroteLogged(t) ==
    /\ Go(t, AfterWrite(t))
    /\ http' = IF pc[t] \in {"rejlast", "errhead", "badhead"} THEN "DONE" ELSE http
    /\ logged' = IF pc[t] \in {"errhead", "errend", "rejend", "accept"} THEN logged + 1 ELSE logged
    /\ UNCHANGED state

(* And what that changes besides: the state and the log of a denial, of an
   error, of an acceptance. *)
Wrote(t) ==
    LET p == pc[t] IN
    /\ Go(t, AfterWrite(t))
    /\ state' = (IF p = "rejmore" THEN "RESPONSE" ELSE IF p = "rejlast" THEN "HTTPCLOSED" ELSE state)
    /\ http' = (IF p \in {"rejlast", "errhead", "badhead"}
                THEN IF http = "SEND_BODY" THEN "DONE" ELSE "ERROR" ELSE http)
    /\ logged' = IF p \in {"errend", "rejend", "accept"} THEN logged + 1 ELSE logged

Sent(t) ==
    /\ pc[t] \in Writing /\ t \notin losing
    /\ up \/ ~stream
    /\ Wrote(t)
    /\ UNCHANGED <<wire, proto, response, closed, closeCode, stream, up, dropped, losing, chan, early>>

SendFailed(t) ==
    /\ pc[t] \in Writing /\ t \notin losing
    /\ stream /\ (~up \/ dropped)
    /\ HandleClosed(t)
    /\ IF AtOnce THEN Wrote(t) /\ stream' = FALSE /\ UNCHANGED losing
       ELSE losing' = losing \cup {t} /\ UNCHANGED <<stream, pc, state, http, logged>>
    /\ UNCHANGED <<wire, proto, response, closeCode, up, dropped, listening, got, early>>

SendFailedPut(t) ==
    /\ pc[t] \in Writing /\ t \in losing /\ ~Waits(t)
    /\ losing' = losing \ {t}
    /\ stream' = FALSE
    /\ Wrote(t)
    /\ UNCHANGED <<wire, proto, response, closed, closeCode, up, dropped, chan, early>>

(* StreamClosed: _maybe_recycle; h11's states are None here, so the connection
   closes.  The disconnect waits for room first. *)
CloseStream(t, place, after) ==
    /\ pc[t] = place
    /\ IF t \in losing THEN ~Waits(t) /\ UNCHANGED <<closed, told, queued, putters>>
       ELSE IF stream THEN HandleClosed(t) ELSE UNCHANGED <<closed, told, queued, putters>>
    /\ IF t \in losing \/ ~stream \/ AtOnce
       THEN /\ stream' = FALSE /\ up' = FALSE /\ losing' = losing \ {t}
            /\ Go(t, after)
       ELSE losing' = losing \cup {t} /\ UNCHANGED <<stream, up, pc>>
    /\ UNCHANGED <<wire, proto, state, response, closeCode, http, dropped, listening, got, logged, early>>

Closing(t) == CloseStream(t, "closing", "events") \/ CloseStream(t, "ending", Done(t))

(* _send_error_response: h11 takes the head of one response only. *)
SendError(t) ==
    IF http = "IDLE" THEN http' = "SEND_BODY" /\ Go(t, "errhead")
    ELSE http' = "ERROR" /\ Go(t, "crashed")
-----------------------------------------------------------------------------
(* _handle_events, run by the reader, and by the application when it accepts *)

Take(t, kinds) ==
    /\ pc[t] = "events" /\ frames # <<>> /\ Kind(Head(frames)) \in kinds
    /\ frames' = Tail(frames)

(* WebsocketBuffer: a message holds what it was extended with, up to its limit. *)
TooLarge(message) == \E i \in DOMAIN message : Kind(message[i]) = "big"

(* A piece of a message, or what is too much of one.  The loop ends there: what
   wsproto still has waits for more to come. *)
TakePiece(t) ==
    /\ Take(t, {"part", "big"})
    /\ buffer' = Append(buffer, Head(frames))
    /\ IF ~TooLarge(buffer') THEN UNCHANGED <<ws, pc>>
       ELSE IF ws = "OPEN" THEN ws' = "LOCAL_CLOSING" /\ Go(t, "toobig")
       ELSE Go(t, Done(t)) /\ UNCHANGED ws
    /\ UNCHANGED <<wire, held, life, conn, losing, chan, logged, early>>

(* Mutant of TakeLast: the buffer is not cleared for the next message. *)
TakeLastUncleared(t) ==
    /\ Take(t, {"last"})
    /\ buffer' = Append(buffer, Head(frames))
    /\ got' = Append(got, buffer') /\ Enqueue(t)
    /\ UNCHANGED <<wire, held, ws, life, conn, pc, losing, listening, told, logged, early>>

(* What was too large stays in the buffer, and a message of the other type does
   not go into it: where one may begin, writing it raises. *)
TakeOther(t) ==
    /\ Take(t, {"part", "last", "big"})
    /\ TooLarge(buffer) /\ Kind(buffer[Len(buffer)]) # "part"
    /\ Go(t, IF t = "reader" THEN "crashed" ELSE "failing")
    /\ UNCHANGED <<wire, held, ws, buffer, life, conn, losing, chan, logged, early>>

(* The end of a message: put, and the buffer cleared once that is done. *)
TakeLast(t) ==
    LET message == Append(buffer, Head(frames)) IN
    /\ Take(t, {"last"})
    /\ IF TooLarge(message)
       THEN /\ Go(t, Done(t)) /\ buffer' = message
            /\ UNCHANGED <<got, queued, putters>>
       ELSE /\ got' = Append(got, message) /\ Enqueue(t)
            /\ IF ~listening \/ queued < MaxQueue THEN buffer' = <<>> /\ UNCHANGED pc
               ELSE buffer' = message /\ Go(t, "putting")
    /\ UNCHANGED <<wire, held, ws, life, conn, losing, listening, told, logged, early>>

PutDone(t) ==
    /\ pc[t] = "putting" /\ ~Waits(t)
    /\ buffer' = <<>>
    /\ Go(t, "events")
    /\ UNCHANGED <<wire, held, frames, ws, life, conn, losing, chan, logged, early>>

TakePing(t) ==
    /\ Take(t, {"ping"})
    /\ IF ws = "OPEN" THEN Go(t, "pong") ELSE UNCHANGED pc
    /\ UNCHANGED <<wire, held, ws, buffer, life, conn, losing, chan, logged, early>>

(* The peer's close frame: answered unless it is itself the answer.  One that is
   malformed wsproto reports as a close too, but stays as it is. *)
TakeClose(t) ==
    /\ Take(t, {"close"})
    /\ closeCode' = TRUE
    /\ \/ ws' = "CLOSED" /\ Go(t, IF ws = "OPEN" THEN "reply" ELSE "closing")
       \/ UNCHANGED ws /\ Go(t, "closing")
    /\ UNCHANGED <<wire, held, buffer, state, response, closed, stream, conn, losing, chan, logged, early>>

NoEvents(t) ==
    /\ pc[t] = "events" /\ frames = <<>>
    /\ Go(t, Done(t))
    /\ UNCHANGED <<wire, proto, life, conn, losing, chan, logged, early>>
-----------------------------------------------------------------------------
(* The reader: handle *)

(* What handle(Request) looks at: the path decodes, the target and the server
   name are valid, and the headers of the handshake. *)
Offers == [path : BOOLEAN, target : BOOLEAN, http11 : BOOLEAN,
           key : BOOLEAN, upgrade : BOOLEAN, version : BOOLEAN]

(* Handshake.is_valid *)
IsValid(offer) == offer.http11 /\ offer.key /\ offer.upgrade /\ offer.version

(* The application starts and is told to connect; or the request is refused,
   with nothing to log against when its path does not decode. *)
Request(offer) ==
    /\ pc["reader"] = "request"
    /\ IF offer.path /\ offer.target /\ IsValid(offer)
       THEN /\ pc' = [pc EXCEPT !["reader"] = "receive", !["app"] = "run"]
            /\ listening' = TRUE /\ queued' = 1 /\ UNCHANGED http
       ELSE /\ Go("reader", IF offer.path THEN "errhead" ELSE "badhead")
            /\ http' = "SEND_BODY" /\ UNCHANGED <<listening, queued>>
    /\ UNCHANGED <<wire, proto, life, up, dropped, losing, putters, got, told, logged, early>>

(* wsproto takes data unless it is closed, when it raises. *)
ReceiveData(t, data) ==
    IF ws = "CLOSED" THEN Go(t, IF t = "reader" THEN "crashed" ELSE "failing") /\ UNCHANGED frames
    ELSE frames' = frames \o data /\ Go(t, "events")

(* Data before the handshake is accepted is held, as far as there is room. *)
Receive ==
    /\ pc["reader"] = "receive" /\ up /\ inbound # <<>>
    /\ inbound' = <<>>
    /\ IF ~stream \/ closed THEN UNCHANGED <<held, frames, http, pc>>
       ELSE IF ws # "none" THEN ReceiveData("reader", inbound) /\ UNCHANGED <<held, http>>
       ELSE IF Len(held) + Len(inbound) <= MaxHeld
            THEN held' = held \o inbound /\ UNCHANGED <<frames, http, pc>>
       ELSE SendError("reader") /\ UNCHANGED <<held, frames>>
    /\ early' = IF pc' # pc /\ ws = "none" THEN "cut" ELSE early
    /\ UNCHANGED <<sent, ws, buffer, life, up, dropped, losing, chan, logged>>

(* The socket is closed, by either side: handle(Closed). *)
ReaderCloses ==
    /\ ~up \/ (dropped /\ inbound = <<>>)
    /\ CloseStream("reader", "receive", "gone")
-----------------------------------------------------------------------------
(* The application and its ping loop: app_send, while the stream is not closed *)

Running == pc["app"] = "run" /\ listening /\ ~closed

(* websocket.accept *)
Accept ==
    /\ Running /\ state = "HANDSHAKE"
    /\ state' = "CONNECTED" /\ ws' = "OPEN"
    /\ IF http = "IDLE" THEN http' = "SWITCHED_PROTOCOL" /\ Go("app", "accept")
       ELSE http' = "ERROR" /\ Go("app", "failing")
    /\ UNCHANGED <<wire, held, frames, buffer, response, closed, closeCode, stream, up, dropped,
                   losing, chan, logged, early>>

(* An acceptance that Handshake.accept refuses: its subprotocol, a header. *)
AcceptInvalid ==
    /\ Running /\ state = "HANDSHAKE"
    /\ state' = "CONNECTED"
    /\ Go("app", "failing")
    /\ UNCHANGED <<wire, proto, response, closed, closeCode, stream, conn, losing, chan, logged, early>>

(* The rest of _accept: the ping loop starts, what was held is handled. *)
Accepted ==
    /\ pc["app"] = "accepted"
    /\ held' = <<>>
    /\ LET spawned == IF Pings THEN [pc EXCEPT !["pinger"] = "asleep"] ELSE pc
           next == IF held = <<>> THEN "run" ELSE IF ws = "CLOSED" THEN "failing" ELSE "events"
       IN  pc' = [spawned EXCEPT !["app"] = next]
    /\ frames' = IF ws = "CLOSED" THEN frames ELSE frames \o held
    /\ early' = IF held = <<>> THEN early ELSE "held"
    /\ UNCHANGED <<wire, ws, buffer, life, conn, losing, chan, logged>>

(* websocket.http.response.start *)
DenialStart ==
    /\ Running /\ state = "HANDSHAKE" /\ ~response
    /\ response' = TRUE
    /\ UNCHANGED <<wire, proto, state, closed, closeCode, stream, conn, pc, losing, chan, logged, early>>

(* websocket.http.response.body: _send_rejection *)
DenialBody(more) ==
    /\ Running /\ state \in {"HANDSHAKE", "RESPONSE"} /\ response
    /\ IF http = (IF state = "HANDSHAKE" THEN "IDLE" ELSE "SEND_BODY")
       THEN http' = "SEND_BODY" /\ Go("app", IF more THEN "rejmore" ELSE "rejlast")
       ELSE http' = "ERROR" /\ Go("app", "failing")
    /\ UNCHANGED <<wire, proto, life, up, dropped, losing, chan, logged, early>>

(* websocket.send *)
SendMessage ==
    /\ Running /\ state = "CONNECTED" /\ ws = "OPEN"
    /\ Go("app", "message")
    /\ UNCHANGED <<wire, proto, life, conn, losing, chan, logged, early>>

(* websocket.close: a 403 before the acceptance, a close frame after it; one in
   a denial, or after it, finds no wsproto connection and raises. *)
Close ==
    /\ Running
    /\ IF state = "HANDSHAKE"
       THEN /\ state' = "HTTPCLOSED" /\ UNCHANGED ws
            /\ IF http = "IDLE" THEN http' = "SEND_BODY" /\ Go("app", "errhead")
               ELSE http' = "ERROR" /\ Go("app", "failing")
       ELSE /\ state' = "CLOSED" /\ UNCHANGED http
            /\ IF ws = "OPEN" THEN ws' = "LOCAL_CLOSING" /\ Go("app", "message")
               ELSE UNCHANGED ws /\ (IF ws = "none" THEN Go("app", "failing") ELSE UNCHANGED pc)
    /\ UNCHANGED <<wire, held, frames, buffer, response, closed, closeCode, stream, up, dropped,
                   losing, chan, logged, early>>

(* The application returns, or raises: its channel is closed, and app_send(None)
   answers 500, or 1011, or only closes the stream. *)
Return ==
    /\ pc["app"] \in {"run", "failing"} /\ listening
    /\ listening' = FALSE /\ queued' = 0 /\ putters' = <<>>
    /\ IF closed THEN Go("app", "gone") /\ UNCHANGED <<http, ws>>
       ELSE IF state = "HANDSHAKE" THEN SendError("app") /\ UNCHANGED ws
       ELSE /\ UNCHANGED http
            /\ IF state = "CONNECTED" /\ ws = "none" THEN Go("app", "crashed") /\ UNCHANGED ws
               ELSE IF state = "CONNECTED" /\ ws = "OPEN"
                    THEN ws' = "LOCAL_CLOSING" /\ Go("app", "abort")
               ELSE Go("app", "ending") /\ UNCHANGED ws
    /\ UNCHANGED <<wire, held, frames, buffer, life, up, dropped, losing, got, told, logged, early>>

(* Mutant of Ping: the loop does not look whether the stream is closed. *)
PingForEver ==
    /\ pc["pinger"] = "asleep" /\ ws = "OPEN"
    /\ Go("pinger", "ping")
    /\ UNCHANGED <<wire, proto, life, conn, losing, chan, logged, early>>

(* _send_pings: one turn of the loop, and the sleep. *)
Ping ==
    /\ pc["pinger"] = "asleep"
    /\ Go("pinger", IF closed THEN "gone" ELSE IF ws = "OPEN" THEN "ping" ELSE "asleep")
    /\ UNCHANGED <<wire, proto, life, conn, losing, chan, logged, early>>
-----------------------------------------------------------------------------
Crashed == \E t \in Tasks : pc[t] = "crashed"

Events(t) == \/ TakePiece(t) \/ TakeOther(t) \/ TakeLast(t) \/ PutDone(t)
             \/ TakePing(t) \/ TakeClose(t) \/ NoEvents(t)

Io(t) == Sent(t) \/ SendFailed(t) \/ SendFailedPut(t) \/ Closing(t)

(* A task's own steps. *)
Run(t) == Io(t) \/ (t # "pinger" /\ Events(t))

Reader == Run("reader") \/ (\E offer \in Offers : Request(offer)) \/ Receive \/ ReaderCloses

App == \/ Accept \/ AcceptInvalid \/ DenialStart \/ DenialBody(TRUE) \/ DenialBody(FALSE)
       \/ SendMessage \/ Close \/ Return

(* An error that leaves a task cancels the others. *)
Next == ~Crashed /\ \/ \E k \in Kinds : SendFrame(k)
                    \/ Drop \/ AppReads \/ App \/ Accepted \/ Ping
                    \/ Reader \/ Run("app") \/ Run("pinger")

Spec == Init /\ [][Next]_vars

(* Ready tasks run, sends complete or fail, and the application receives. *)
Fairness == /\ WF_vars(~Crashed /\ Reader)
            /\ WF_vars(~Crashed /\ Run("app")) /\ WF_vars(~Crashed /\ Run("pinger"))
            /\ WF_vars(~Crashed /\ Accepted) /\ WF_vars(~Crashed /\ Ping)
            /\ WF_vars(~Crashed /\ AppReads)

FairSpec == Spec /\ Fairness
-----------------------------------------------------------------------------
(* However the stream ends - the peer's close, the application's, a lost socket
   met by the reader or by any task's send - an application that is still there
   is told of it once; and, unless the socket was lost or the handshake was cut
   off, not as an abnormal closure. *)
ToldOnce ==
    /\ Len(told) <= 1
    /\ pc["reader"] = "gone" /\ listening => Len(told) = 1
    /\ told = <<"abnormal">> /\ listening => dropped \/ early = "cut"

(* "logging again here put the same line in the access log twice": a request is
   answered and logged once, and no task meets h11's refusal of a second answer
   or an absent wsproto connection; what can lead there is an acceptance that is
   itself invalid, or bytes that came ahead of it.  Otherwise a task fails only
   on a message that follows one too large for the buffer. *)
AnsweredOnce ==
    /\ logged <= 1
    /\ Crashed => early # "none" \/ (state = "CONNECTED" /\ ws = "none") \/ TooLarge(buffer)

(* The frame f is in a message put for the application. *)
Delivered(f) == \E i \in DOMAIN got : \E j \in DOMAIN got[i] : got[i][j] = f

Whole(message) ==
    message # <<>> /\ \A j \in DOMAIN message :
                          Kind(message[j]) = (IF j = Len(message) THEN "last" ELSE "part")

(* The messages put for the application are those the client completed, each
   whole, in the order it sent them, with nothing of a message left out. *)
InOrder ==
    /\ \A i \in DOMAIN got : Whole(got[i])
    /\ \A i, k \in DOMAIN got : \A j \in DOMAIN got[i], l \in DOMAIN got[k] :
          i < k \/ (i = k /\ j < l) => got[i][j] < got[k][l]
    /\ \A i \in DOMAIN got : \A j \in DOMAIN got[i] : \A f \in 1..got[i][j] :
          Kind(f) \in {"part", "last"} => Delivered(f)

(* Messages are whole and in order whatever pings, closes, full queues and
   failing sends come between their pieces, when nothing was held. *)
MessagesWhole == (early = "none" /\ (held = <<>> \/ ws = "none")) => InOrder

(* The peer's close frame, or the loss of its socket, ends the connection, its
   reader and its ping loop, in whatever state of the handshake it comes. *)
PeerEnds ==
    closeCode \/ dropped
        ~> Crashed \/ (~stream /\ pc["reader"] = "gone" /\ pc["pinger"] \in {"none", "gone"})
=============================================================================
