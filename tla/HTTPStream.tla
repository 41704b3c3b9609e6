------------------------------- MODULE HTTPStream -------------------------------
(***************************************************************************)
(* One HTTP request: http_stream.py HTTPStream, with the application that  *)
(* task_group.py _handle runs for it, either any ASGI application or the   *)
(* WSGIWrapper of app_wrappers.py around any WSGI application.             *)
(*                                                                         *)
(* An awaited send hands an event to the connection and suspends, so that  *)
(* the reader, or the send itself, may have the client gone before the     *)
(* next: todo is what the call in progress is still to do.  A send over    *)
(* HTTP/1.1 may raise instead, which ends the call.  Contents, headers and *)
(* status codes are left out, and so are messages the state machine        *)
(* refuses: they raise in the application and change nothing.              *)
(***************************************************************************)
EXTENDS Integers, Sequences

CONSTANTS MaxParts,      \* bound on the pieces of a request's body
          Limit          \* WSGIWrapper.max_body_size, in pieces

ASSUME StreamAssumption == MaxParts \in Nat /\ Limit \in Nat

VARIABLES
    version,     \* the request's: "1.1", "2" or "3"
    kind,        \* of the application: "asgi" or "wsgi"
    te,          \* the request has te: trailers
    state,       \* ASGIHTTPState
    closed,      \* HTTPStream.closed
    declared,    \* response.trailers
    broken,      \* HTTP/1.1: h11 has refused an event, and takes no more
    stage,       \* where the application is: see Stages
    todo,        \* what the call in progress will still do, in order
    queue,       \* the receive channel of the application
    parts,       \* pieces of the body that came; MaxParts + 1 once it ended
    size,        \* pieces the WSGI wrapper has collected
    status,      \* WSGI: start_response has been called
    sent,        \* WSGI: headers_sent
    wire,        \* history: what the connection has been handed (HTTPResponse)
    said,        \* history: what the application has said of its response
    entries      \* the access log

requestVars == <<version, kind, te>>
streamVars  == <<state, closed, declared>>
wsgiVars    == <<size, status, sent>>
promiseVars == <<wire, said, entries>>
vars == <<requestVars, streamVars, broken, stage, todo, queue, parts, wsgiVars, promiseVars>>

(* "left" is an application that is over and whose channels are closed,    *)
(* "again" one whose exceptions were a group: it is reported twice.        *)
Stages == {"none", "undecoded", "refused", "body", "app", "last", "left", "again", "over"}
Steps  == {"response", "respond", "send", "trailing", "trailers", "seal", "error", "end",
           "log", "close", "shut", "return"}

(* No run of steps, and no queue, is longer than it should be. *)
TypeOK ==
    /\ version \in {"1.1", "2", "3"} /\ kind \in {"asgi", "wsgi"} /\ te \in BOOLEAN
    /\ state \in {"REQUEST", "RESPONSE", "TRAILERS", "CLOSED"}
    /\ {closed, declared, broken, status, sent} \subseteq BOOLEAN
    /\ stage \in Stages
    /\ todo \in Seq(Steps) /\ Len(todo) <= 4
    /\ queue \in Seq({"part", "end", "disconnect"}) /\ Len(queue) <= MaxParts + 2
    /\ parts \in 0..(MaxParts + 1) /\ size \in 0..(Limit + 1)
    /\ (sent => status) /\ (status => kind = "wsgi")

Init ==
    /\ version \in {"1.1", "2", "3"} /\ kind \in {"asgi", "wsgi"} /\ te \in BOOLEAN
    /\ state = "REQUEST" /\ closed = FALSE /\ declared = FALSE /\ broken = FALSE
    /\ stage = "none" /\ todo = <<>> /\ queue = <<>> /\ parts = 0
    /\ size = 0 /\ status = FALSE /\ sent = FALSE
    /\ wire = "none" /\ said = "open" /\ entries = <<>>

(* app_put is None until the application is spawned, and its channel is    *)
(* closed once that is over.                                               *)
Put(m) == IF stage \in {"body", "app", "last"} THEN Append(queue, m) ELSE queue


(* handle(StreamClosed), which does nothing the second time. *)
Gone == /\ closed' = TRUE
        /\ queue' = IF closed THEN queue ELSE Put("disconnect")
        /\ entries' = IF closed \/ state = "CLOSED" THEN entries ELSE Append(entries, "gone")

--------------------------------------------------------------------------------
(* The steps of a call, each up to where it suspends or returns.           *)

Response == /\ wire' = "started" /\ UNCHANGED <<state, closed, queue, entries>>
Respond  == /\ state' = "RESPONSE" /\ UNCHANGED <<wire, closed, queue, entries>>
Trailing == /\ state' = "TRAILERS" /\ UNCHANGED <<wire, closed, queue, entries>>
Trailers == /\ wire' = "trailed" /\ UNCHANGED <<state, closed, queue, entries>>

(* Mutant of Seal: the state is still RESPONSE while EndBody is in flight. *)
SealLate == /\ wire' = "ended" /\ UNCHANGED <<state, closed, queue, entries>>

(* _send_closed marks CLOSED before its first await, so that the client    *)
(* leaving meanwhile is not logged as well.                                *)
Seal  == /\ state' = "CLOSED" /\ wire' = "ended" /\ UNCHANGED <<closed, queue, entries>>

Error == /\ state' = "CLOSED" /\ wire' = "started" /\ UNCHANGED <<closed, queue, entries>>
End   == /\ wire' = "ended" /\ UNCHANGED <<state, closed, queue, entries>>
Log   == /\ entries' = Append(entries, "finished") /\ UNCHANGED <<state, closed, queue, wire>>

(* StreamClosed: HTTP/1.1 and HTTP/2 hand it back to the stream, HTTP/3    *)
(* only forgets the stream.                                                *)
Close == /\ wire' = IF wire \in {"ended", "closed"} THEN "closed" ELSE "aborted"
         /\ IF version = "3" THEN UNCHANGED <<closed, queue, entries>> ELSE Gone
         /\ UNCHANGED state

Shut  == /\ closed' = TRUE /\ UNCHANGED <<state, wire, queue, entries>>

Perform(step) ==
    \/ step = "response" /\ Response
    \/ step = "respond" /\ Respond
    \/ step = "trailing" /\ Trailing
    \/ step = "trailers" /\ Trailers
    \/ step = "seal" /\ Seal
    \/ step = "error" /\ Error
    \/ step = "end" /\ End
    \/ step = "log" /\ Log
    \/ step = "close" /\ Close
    \/ step = "shut" /\ Shut
    \/ step \in {"send", "return"} /\ UNCHANGED <<state, closed, wire, queue, entries>>

(* h11 takes the headers of the response for invalid, and goes on; or it   *)
(* is handed more content than they declare, or the end of the body before *)
(* all of it, and refuses whatever comes after.  What the wrapper answers  *)
(* for an application declares no length.                                  *)
Refusable(step) ==
    /\ version = "1.1"
    /\ \/ step \in {"response", "send"}
       \/ step = "seal" /\ (kind = "asgi" \/ sent)

(* The LocalProtocolError leaves the call where it is: _send_closed has    *)
(* already set CLOSED.  (Had the client made an error as well, it would be *)
(* swallowed, and the step performed for all the stream can tell.)         *)
Refused(step) ==
    /\ Refusable(step)
    /\ state' = IF step = "seal" THEN "CLOSED" ELSE state
    /\ broken' = (broken \/ step \in {"send", "seal"})
    /\ UNCHANGED <<closed, wire, queue, entries>>

(* A call: its first step now, the others as its sends return.  A refusal  *)
(* ends it by an exception: an ASGI application may go on after it, what   *)
(* the WSGI wrapper runs may not.                                          *)
Do(steps, at) ==
    \/ /\ Perform(Head(steps)) /\ UNCHANGED broken
       /\ todo' = Tail(steps) /\ stage' = at
    \/ /\ Refused(Head(steps))
       /\ todo' = <<>>
       /\ stage' = IF kind = "wsgi" /\ at \in {"app", "last"} THEN "left" ELSE at

SendClosed == <<"seal", "log", "close">>
Ending     == IF declared THEN <<"trailing">> ELSE SendClosed
ErrorResponse == <<"error", "end", "log", "close">>

Continue == /\ todo # <<>>
            /\ Do(todo, stage)
            /\ UNCHANGED <<requestVars, declared, parts, wsgiVars, said>>

--------------------------------------------------------------------------------
(* The reader.                                                             *)

(* handle(Request): the application is spawned, or the request is refused, *)
(* before its scope exists (the path cannot be decoded) or after (its      *)
(* target or its server name is not valid).                                *)
Request ==
    /\ stage = "none"
    /\ \/ /\ stage' = IF kind = "wsgi" THEN "body" ELSE "app"
          /\ UNCHANGED <<state, closed, broken, todo, queue, promiseVars>>
       \/ Do(<<"error", "end", "close", "shut">>, "undecoded") /\ said' = "failed"
       \/ Do(ErrorResponse \o <<"shut">>, "refused") /\ said' = "failed"
    /\ UNCHANGED <<requestVars, declared, parts, wsgiVars>>

Spawned == stage \notin {"none", "undecoded", "refused"}

(* handle(Body) and handle(EndBody). *)
BodyEvent ==
    /\ Spawned /\ ~closed /\ parts <= MaxParts
    /\ \/ parts < MaxParts /\ parts' = parts + 1 /\ queue' = Put("part")
       \/ parts' = MaxParts + 1 /\ queue' = Put("end")
    /\ UNCHANGED <<requestVars, streamVars, broken, stage, todo, wsgiVars, promiseVars>>

(* The client resets the stream or leaves: while a send is in flight too,  *)
(* and as long as the connection knows the stream.                         *)
ClientGone ==
    /\ stage # "none" /\ ~closed /\ wire \notin {"closed", "aborted"}
    /\ Gone
    /\ UNCHANGED <<requestVars, state, declared, broken, stage, todo, parts, wsgiVars,
                   wire, said>>

--------------------------------------------------------------------------------
(* An ASGI application.                                                    *)

App == kind = "asgi" /\ stage = "app" /\ todo = <<>>

appUnchanged == UNCHANGED <<requestVars, parts, wsgiVars>>

Receive == /\ App /\ queue # <<>>
           /\ queue' = Tail(queue)
           /\ UNCHANGED <<requestVars, streamVars, broken, stage, todo, parts, wsgiVars,
                          promiseVars>>

AppStart == /\ App /\ state = "REQUEST"
            /\ declared' \in BOOLEAN
            /\ Do(<<"response", "respond">>, "app")
            /\ appUnchanged /\ UNCHANGED said

(* Early hints before the response and pushes at any time. *)
AppAside == /\ App /\ version # "1.1"
            /\ todo' = <<"return">>
            /\ appUnchanged /\ UNCHANGED <<streamVars, broken, stage, queue, promiseVars>>

BodyMessage(chunks, last) ==
    LET steps == [i \in 1..chunks |-> "send"] \o (IF last THEN Ending ELSE <<>>)
    IN  /\ steps # <<>>
        /\ Do(steps, "app")
        /\ said' = IF last /\ ~declared THEN "finished" ELSE said

(* A body message with some content, or none (empty, or suppressed). *)
AppBody == /\ App /\ state = "RESPONSE"
           /\ \E chunks \in 0..1, last \in BOOLEAN : BodyMessage(chunks, last)
           /\ appUnchanged /\ UNCHANGED declared

(* A file: left to the TCP server on HTTP/1.1, read in chunks otherwise. *)
AppFile == /\ App /\ state = "RESPONSE"
           /\ \E chunks \in 0..2, last \in BOOLEAN :
                 /\ version = "1.1" => chunks < 2
                 /\ BodyMessage(chunks, last)
           /\ appUnchanged /\ UNCHANGED declared

(* Trailers as the first message answer 200, but only for a client that    *)
(* takes them: for another nothing is sent and nothing changes.            *)
AppTrailersFirst ==
    /\ App /\ state = "REQUEST" /\ version # "1.1" /\ te
    /\ \E last \in BOOLEAN :
          /\ Do(<<"response", "trailing">> \o (IF last THEN SendClosed ELSE <<>>), "app")
          /\ said' = IF last THEN "finished" ELSE said
    /\ declared' = FALSE
    /\ appUnchanged

AppTrailers ==
    /\ App /\ state = "TRAILERS" /\ version # "1.1"
    /\ \E last \in BOOLEAN :
          LET steps == (IF te THEN <<"trailers">> ELSE <<>>) \o (IF last THEN SendClosed ELSE <<>>)
          IN  /\ steps # <<>>
              /\ Do(steps, "app")
              /\ said' = IF last THEN "finished" ELSE said
    /\ appUnchanged /\ UNCHANGED declared

(* The application returns or raises, at any time; its channels close. *)
AppReturns == /\ App
              /\ stage' = "left"
              /\ UNCHANGED <<requestVars, streamVars, broken, todo, queue, parts, wsgiVars,
                             promiseVars>>

--------------------------------------------------------------------------------
(* The WSGI wrapper.                                                       *)

Wrapper(at) == kind = "wsgi" /\ stage = at /\ todo = <<>>

wrapperUnchanged == UNCHANGED <<requestVars, declared, parts>>

(* The loop that collects the body: an answer 400 once it is over the      *)
(* limit, and whatever is not another piece, http.disconnect included,     *)
(* ends it.  The path may turn out not to be below the root path: 404.     *)
Collect ==
    /\ Wrapper("body") /\ queue # <<>>
    /\ LET m == Head(queue) IN
          /\ size' = IF m = "part" THEN size + 1 ELSE size
          /\ \/ /\ size' > Limit \/ m # "part"
                /\ stage' = "last" /\ wire' = "started" /\ todo' = <<"respond">>
             \/ /\ size' <= Limit /\ m # "part"
                /\ stage' = "app" /\ UNCHANGED <<wire, todo>>
             \/ /\ size' <= Limit /\ m = "part" /\ UNCHANGED <<stage, wire, todo>>
    /\ queue' = Tail(queue)
    /\ wrapperUnchanged /\ UNCHANGED <<state, closed, broken, status, sent, said, entries>>

(* start_response, again only with exc_info and before the headers. *)
StartResponse ==
    /\ Wrapper("app") /\ ~sent
    /\ status' = TRUE
    /\ UNCHANGED <<requestVars, streamVars, broken, stage, todo, queue, parts, size, sent,
                   promiseVars>>

(* Mutant of Output: start_response need not have been called. *)
OutputUnstarted ==
    /\ Wrapper("app")
    /\ sent' = TRUE
    /\ Do(IF sent THEN <<"send", "return">> ELSE <<"response", "respond", "send">>, "app")
    /\ wrapperUnchanged /\ UNCHANGED <<size, status, said>>

(* run_app sends a non-empty output, after the headers if it is the first. *)
Output ==
    /\ Wrapper("app") /\ status
    /\ sent' = TRUE
    /\ Do(IF sent THEN <<"send", "return">> ELSE <<"response", "respond", "send">>, "app")
    /\ wrapperUnchanged /\ UNCHANGED <<size, status, said>>

(* Mutant of Exhausted: an iterable without output sends no headers. *)
ExhaustedSilent ==
    /\ Wrapper("app") /\ status
    /\ stage' = "last"
    /\ wrapperUnchanged
    /\ UNCHANGED <<state, closed, broken, todo, queue, wsgiVars, promiseVars>>

(* The iterable is exhausted: the headers go out even so. *)
Exhausted ==
    /\ Wrapper("app") /\ status
    /\ sent' = TRUE
    /\ IF sent
       THEN stage' = "last" /\ UNCHANGED <<state, closed, broken, wire, queue, entries, todo>>
       ELSE Do(<<"response", "respond">>, "last")
    /\ wrapperUnchanged /\ UNCHANGED <<size, status, said>>

(* The application raises, or start_response or run_app do, or, once the   *)
(* iterable is exhausted, its close.                                       *)
Raises == /\ Wrapper("app") \/ (Wrapper("last") /\ sent)
          /\ stage' = "left"
          /\ UNCHANGED <<requestVars, streamVars, broken, todo, queue, parts, wsgiVars,
                         promiseVars>>

(* The last, empty, body message. *)
LastBody ==
    /\ Wrapper("last")
    /\ IF state = "RESPONSE"
       THEN Do(SendClosed, "left") /\ said' = "finished"
       ELSE stage' = "left" /\ UNCHANGED <<state, closed, broken, todo, queue, promiseVars>>
    /\ wrapperUnchanged /\ UNCHANGED wsgiVars

--------------------------------------------------------------------------------
(* app_send(None): 500 for an application that sent nothing, and the end   *)
(* of the stream, without the end of the body, for one that had begun.     *)
AppSendsNone ==
    /\ stage \in {"left", "again"} /\ todo = <<>>
    /\ \E at \in IF stage = "left" /\ kind = "asgi" THEN {"again", "over"} ELSE {"over"} :
       \/ /\ closed /\ stage' = at
          /\ UNCHANGED <<state, closed, broken, todo, queue, promiseVars>>
       \/ ~closed /\ state = "REQUEST" /\ Do(ErrorResponse, at) /\ said' = "failed"
       \/ ~closed /\ state # "REQUEST" /\ Do(<<"close">>, at) /\ UNCHANGED said
    /\ UNCHANGED <<requestVars, declared, parts, wsgiVars>>

Asgi == \/ Receive \/ AppStart \/ AppAside \/ AppBody \/ AppFile
        \/ AppTrailersFirst \/ AppTrailers \/ AppReturns
Wsgi == Collect \/ StartResponse \/ Output \/ Exhausted \/ Raises \/ LastBody

Next == Request \/ BodyEvent \/ ClientGone \/ Continue \/ Asgi \/ Wsgi \/ AppSendsNone

Spec == Init /\ [][Next]_vars

(* A send returns in the end, and so does an application that has left:    *)
(* nothing else is assumed of it, nor of the client.                       *)
FairSpec == Spec /\ WF_vars(Continue) /\ WF_vars(AppSendsNone)

--------------------------------------------------------------------------------
(* The stream keeps the promise of HTTPResponse: whatever the application  *)
(* does, wherever the client leaves and however the request ends, the end  *)
(* of the body is sent only for a complete response, each response is      *)
(* logged at most once, and never as one its client did not wait for once  *)
(* its end has been sent (http_stream.py:374-383).                         *)
Promise == INSTANCE HTTPResponse WITH wire <- wire, said <- said, entries <- entries
KeepsPromise == Promise!Spec

(* The wrapper's last body message always finds a response begun: an       *)
(* application that produces nothing, a body over the limit and a bad path *)
(* are answered (app_wrappers.py:112-125, 179-182).                        *)
WrapperAnswers == Wrapper("last") => state = "RESPONSE"

(* An HTTP/3 response the application cut short: H3Protocol does not tell  *)
(* the stream that it is closed, so that nothing logs it.                  *)
CutShort == version = "3" /\ wire = "aborted"

(* The end of the response has been refused with the state CLOSED already: *)
(* the log of http_stream.py:382 is skipped, and from then on the stream   *)
(* takes its request for one that has been logged.                         *)
EndRefused == broken /\ state = "CLOSED" /\ wire \notin {"ended", "closed"}


================================================================================
