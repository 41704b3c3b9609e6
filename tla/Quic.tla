--------------------------------- MODULE Quic ---------------------------------
(***************************************************************************)
(* One HTTP/3 connection: quic.py QuicProtocol for one _Connection, h3.py  *)
(* H3Protocol on it, and the AnyioSingleTask that holds its timer.         *)
(*                                                                         *)
(* The events the library has ready are handled by whoever asks for them:  *)
(* the reader of the socket and every timer task run the same loop, and    *)
(* they and the applications end what they do by sending and by restarting *)
(* the timer.  One task has the turn until it suspends; place is where it  *)
(* is.  The library is reduced to its queue of events, to whether it wants *)
(* a timer, and to the streams whose reset it has seen.                    *)
(***************************************************************************)
EXTENDS Integers, Sequences, FiniteSets

CONSTANTS Streams,       \* requests, and the tasks of their applications
          Timers,        \* a pool of timer tasks
          Cids,          \* connection ids
          Original,      \* the one of the first datagram, which is never retired
          Reader, None,
          MaxEvents      \* bound on the events of a behaviour

ASSUME QuicAssumption ==
    /\ MaxEvents \in Nat /\ Original \in Cids
    /\ Reader \notin Streams /\ Reader \notin Timers /\ Streams \cap Timers = {}
    /\ None \notin {Reader} \cup Streams \cup Timers

Tasks == {Reader} \cup Streams \cup Timers

VARIABLES
    quic,        \* the library: "open", "closing", "terminated"
    queue,       \* the events it has ready
    received,    \* how many there have been
    gone,        \* streams whose reset it has seen
    cids,        \* connection.cids
    table,       \* the ids of the connection in self.connections
    streams,     \* h3.streams
    resets,      \* h3._reset_streams
    told,        \* streams whose application has been put http.disconnect
    place,       \* where each task is
    doing,       \* the event a task is handling
    turn,        \* the task that runs, or None
    lock,        \* the owner of the SingleTask's lock, then those that wait
    handle,      \* its task, or None once that is over
    fresh,       \* the task that restart is starting, or None
    doomed,      \* the timer that runs has been cancelled: it ends as it suspends
    cut          \* history: an event was being handled by a timer that was

libVars   == <<quic, queue, received, gone>>
h3Vars    == <<streams, resets, told>>
taskVars  == <<place, doing, turn>>
timerVars == <<lock, handle, fresh>>
endVars   == <<doomed, cut>>
vars      == <<libVars, cids, table, h3Vars, taskVars, timerVars, endVars>>

Nothing == [kind |-> "none", id |-> None]
Events  == {[kind |-> "terminated", id |-> None]}
           \cup [kind : {"issued", "retired"}, id : Cids]
           \cup [kind : {"request", "refused", "body", "reset"}, id : Streams]

Places == {"none", "idle", "asleep", "events", "handling", "stopping", "flushing", "sending",
           "sent", "restarting", "starting", "over"}

TypeOK ==
    /\ quic \in {"open", "closing", "terminated"}
    /\ queue \in Seq(Events) /\ received \in 0..MaxEvents
    /\ gone \subseteq Streams /\ resets \subseteq Streams /\ told \subseteq Streams
    /\ cids \subseteq Cids /\ table = cids /\ streams \subseteq Streams
    /\ place \in [Tasks -> Places]
    /\ doing \in [Tasks -> Events \cup {Nothing}]
    /\ turn \in Tasks \cup {None}
    /\ lock \in Seq(Tasks)
    /\ {handle, fresh, doomed} \subseteq Timers \cup {None}
    /\ cut \in BOOLEAN

(* The first datagram has created the connection and its H3Protocol. *)
Init ==
    /\ quic = "open" /\ queue = <<>> /\ received = 0 /\ gone = {}
    /\ cids = {Original} /\ table = {Original} /\ streams = {} /\ resets = {} /\ told = {}
    /\ place = [k \in Tasks |-> IF k = Reader THEN "events" ELSE "none"]
    /\ doing = [k \in Tasks |-> Nothing]
    /\ turn = Reader /\ lock = <<>> /\ handle = None /\ fresh = None
    /\ doomed = None /\ cut = FALSE

(* Where a task is back once it has sent: a refusal in its loop. *)
Back(k) == IF doing[k].kind = "refused" THEN "events"
           ELSE IF k \in Timers THEN "none" ELSE "idle"

(* Task k, that runs, goes on. *)
GoesOn(k, from, to) ==
    /\ turn = k /\ place[k] = from /\ place' = [place EXCEPT ![k] = to]
    /\ UNCHANGED <<turn, doing, endVars>>

(* Task k, that runs, suspends with e in hand; the timer that has been cancelled
   unwinds instead. *)
Suspends(k, to, e) ==
    /\ turn = k /\ turn' = None
    /\ place' = [place EXCEPT ![k] = IF k = doomed THEN "none" ELSE to]
    /\ doing' = [doing EXCEPT ![k] = IF k = doomed THEN Nothing ELSE e]
    /\ cut' = (cut \/ (k = doomed /\ e # Nothing))
    /\ doomed' = None

(* A suspended task gets the turn. *)
Resumes(k, from, to) ==
    /\ turn = None /\ place[k] = from
    /\ turn' = k /\ place' = [place EXCEPT ![k] = to]

(* The tasks that wait for the lock without t, which waits once, if it does. *)
Unqueued(tasks, t) ==
    IF \E i \in DOMAIN tasks : tasks[i] = t
    THEN LET i == CHOOSE i \in DOMAIN tasks : tasks[i] = t
         IN  SubSeq(tasks, 1, i - 1) \o SubSeq(tasks, i + 1, Len(tasks))
    ELSE tasks

(* k, the owner of the lock, cancels the timer t, if there is one, releases the
   lock and goes on to another place.  Where t is suspended it unwinds. *)
Cancels(t, k, to) ==
    LET others == {t} \ {k, None} IN
    /\ place' = [u \in Tasks |-> IF u = k THEN to ELSE IF u \in others THEN "none" ELSE place[u]]
    /\ doing' = [u \in Tasks |-> IF u = k \/ u \in others THEN Nothing ELSE doing[u]]
    /\ lock' = Unqueued(Tail(lock), t)
    /\ cut' = (cut \/ \E u \in others : doing[u] # Nothing)
    /\ doomed' = IF t = k /\ to # "none" THEN k ELSE doomed
-----------------------------------------------------------------------------
(* The library, and the datagrams the reader hands it *)

Queued(kinds, id, es) == \E i \in 1..Len(es) : es[i].kind \in kinds /\ es[i].id = id

(* What may follow the events es that have still to be handled. *)
Possible(e, es) ==
    \/ e.kind = "issued" /\ e.id \notin cids /\ ~Queued({"issued"}, e.id, es)
    \/ e.kind = "retired" /\ e.id \in cids \ {Original} /\ ~Queued({"retired"}, e.id, es)
    \/ /\ e.kind \in {"request", "refused"} /\ place[e.id] = "none"
       /\ ~Queued({"request", "refused"}, e.id, es)
    \/ /\ e.kind \in {"body", "reset"} /\ e.id \notin gone /\ ~Queued({"reset"}, e.id, es)
       /\ e.id \in streams \/ Queued({"request", "refused"}, e.id, es)

(* receive_datagram: nothing, a CONNECTION_CLOSE, or up to two events. *)
Datagram ==
    /\ Resumes(Reader, "idle", "events")
    /\ \/ UNCHANGED <<quic, queue, received, gone>>
       \/ quic = "open" /\ quic' = "closing" /\ UNCHANGED <<queue, received, gone>>
       \/ \E d, e \in Events, n \in 1..2 :
              /\ quic = "open" /\ received + n <= MaxEvents /\ UNCHANGED quic
              /\ Possible(d, queue)
              /\ IF n = 1 THEN e = d ELSE Possible(e, Append(queue, d))
              /\ queue' = IF n = 1 THEN Append(queue, d) ELSE Append(Append(queue, d), e)
              /\ received' = received + n
              /\ gone' = gone \cup {x.id : x \in {y \in {d, e} : y.kind = "reset"}}
    /\ UNCHANGED <<cids, table, h3Vars, doing, timerVars, endVars>>
-----------------------------------------------------------------------------
(* _handle_events, by the reader or by a timer *)

First(kinds) == queue # <<>> /\ Head(queue).kind \in kinds

Popped == queue' = Tail(queue) /\ UNCHANGED <<quic, received, gone>>

Handling(k, kinds) == place[k] = "events" /\ First(kinds) /\ Popped

(* Mutant of CidEvent: a retired id still leads to the connection. *)
CidEventKeeping(k) ==
    /\ GoesOn(k, "events", "events") /\ Handling(k, {"issued", "retired"})
    /\ LET id == Head(queue).id IN
       IF Head(queue).kind = "issued" THEN cids' = cids \cup {id} /\ table' = table \cup {id}
       ELSE cids' = cids \ {id} /\ table' = table
    /\ UNCHANGED <<h3Vars, timerVars>>

(* The connection ids, which nothing awaits. *)
CidEvent(k) ==
    /\ GoesOn(k, "events", "events") /\ Handling(k, {"issued", "retired"})
    /\ LET id == Head(queue).id IN
       IF Head(queue).kind = "issued" THEN cids' = cids \cup {id} /\ table' = table \cup {id}
       ELSE cids' = cids \ {id} /\ table' = table \ {id}
    /\ UNCHANGED <<h3Vars, timerVars>>

(* ConnectionTerminated: stop waits for the lock. *)
Terminated(k) ==
    /\ Handling(k, {"terminated"}) /\ Suspends(k, "stopping", Head(queue))
    /\ lock' = IF k = doomed THEN lock ELSE Append(lock, k)
    /\ UNCHANGED <<cids, table, h3Vars, handle, fresh>>

(* Mutant of Stop: the connection stays in the table. *)
StopKeeping(k) ==
    /\ turn = None /\ place[k] = "stopping" /\ Head(lock) = k
    /\ turn' = k /\ Cancels(handle, k, "events")
    /\ handle' = None
    /\ UNCHANGED <<fresh, cids, table, libVars, h3Vars>>

(* stop, and the connection leaves the table. *)
Stop(k) ==
    /\ turn = None /\ place[k] = "stopping" /\ lock # <<>> /\ Head(lock) = k
    /\ turn' = k /\ Cancels(handle, k, "events")
    /\ handle' = None /\ UNCHANGED fresh
    /\ table' = table \ cids /\ cids' = {}
    /\ UNCHANGED <<libVars, h3Vars>>

(* _create_stream: the application runs. *)
Request(k) ==
    /\ turn = k /\ Handling(k, {"request"})
    /\ LET s == Head(queue).id IN
       /\ streams' = streams \cup {s}
       /\ place' = [place EXCEPT ![s] = "idle"]
    /\ UNCHANGED <<cids, table, resets, told, doing, turn, timerVars, endVars>>

(* The worker is terminating, which is asked nowhere else, so that it may be at
   any time: the request is dropped. *)
Dropped(k) ==
    /\ turn = k /\ Handling(k, {"request", "refused"})
    /\ place' = [place EXCEPT ![Head(queue).id] = "over"]
    /\ UNCHANGED <<cids, table, h3Vars, doing, turn, timerVars, endVars>>

(* A request is refused as it arrives: the response is sent from within. *)
Refused(k) ==
    /\ turn = k /\ Handling(k, {"refused"})
    /\ place' = [place EXCEPT ![k] = "flushing", ![Head(queue).id] = "over"]
    /\ doing' = [doing EXCEPT ![k] = Head(queue)]
    /\ UNCHANGED <<cids, table, h3Vars, turn, timerVars, endVars>>

(* A body is put to its application: at once, or when its queue has room. *)
BodyEvent(k) ==
    /\ Handling(k, {"body"})
    /\ \/ GoesOn(k, "events", "events")
       \/ Head(queue).id \in streams /\ Suspends(k, "handling", Head(queue))
    /\ UNCHANGED <<cids, table, h3Vars, timerVars>>

(* Mutant of ResetEvent: the application is not told. *)
ResetEventSilent(k) ==
    /\ turn = k /\ Handling(k, {"reset"})
    /\ resets' = resets \cup {Head(queue).id} /\ streams' = streams \ {Head(queue).id}
    /\ UNCHANGED <<cids, table, told, taskVars, timerVars, endVars>>

(* _reset_stream: the application is told, when its queue has room. *)
ResetEvent(k) ==
    /\ turn = k /\ Handling(k, {"reset"})
    /\ LET s == Head(queue).id IN
       /\ resets' = resets \cup {s} /\ streams' = streams \ {s}
       /\ \/ s \in streams /\ told' = told \cup {s} /\ UNCHANGED <<taskVars, endVars>>
          \/ s \in streams /\ Suspends(k, "handling", Head(queue)) /\ UNCHANGED told
          \/ s \notin streams /\ UNCHANGED <<told, taskVars, endVars>>
    /\ UNCHANGED <<cids, table, timerVars>>

(* The queue of the application has room, or the application is over. *)
Put(k) ==
    /\ k \notin Streams /\ Resumes(k, "handling", "events")
    /\ told' = told \cup (IF doing[k].kind = "reset" THEN {doing[k].id} ELSE {})
    /\ doing' = [doing EXCEPT ![k] = Nothing]
    /\ UNCHANGED <<libVars, cids, table, streams, resets, timerVars, endVars>>

NoEvent(k) ==
    /\ GoesOn(k, "events", "flushing") /\ queue = <<>>
    /\ UNCHANGED <<libVars, cids, table, h3Vars, timerVars>>
-----------------------------------------------------------------------------
(* send_all *)

(* _flush_datagrams, which suspends to send what there is. *)
Flush(k) ==
    /\ place[k] = "flushing" /\ quic # "terminated"
    /\ Suspends(k, "sending", doing[k])
    /\ UNCHANGED <<libVars, cids, table, h3Vars, timerVars>>

Sent(k) ==
    /\ Resumes(k, "sending", "sent")
    /\ UNCHANGED <<libVars, cids, table, h3Vars, doing, timerVars, endVars>>

(* The timer the library wants is what restart waits to arm ... *)
Flushed(k) ==
    /\ place[k] \in {"flushing", "sent"} /\ quic # "terminated"
    /\ Suspends(k, "restarting", doing[k])
    /\ lock' = IF k = doomed THEN lock ELSE Append(lock, k)
    /\ UNCHANGED <<libVars, cids, table, h3Vars, handle, fresh>>

(* ... and once it has terminated it wants none. *)
FlushedLast(k) ==
    /\ turn = k /\ place[k] \in {"flushing", "sent"} /\ quic = "terminated"
    /\ place' = [place EXCEPT ![k] = Back(k)]
    /\ turn' = IF Back(k) = "events" THEN k ELSE None
    /\ doing' = [doing EXCEPT ![k] = Nothing]
    /\ doomed' = IF Back(k) = "none" THEN None ELSE doomed
    /\ handle' = IF Back(k) = "none" /\ handle = k THEN None ELSE handle
    /\ UNCHANGED <<libVars, cids, table, h3Vars, lock, fresh, cut>>

Locked(k) == turn = None /\ place[k] = "restarting" /\ lock # <<>> /\ Head(lock) = k

Free == {t \in Timers : place[t] = "none"}

(* Mutant of Restart: the task that runs is cancelled first, be it its own. *)
RestartCancelling(k) ==
    /\ Locked(k) /\ Free # {}
    /\ IF k = handle
       THEN /\ place' = [place EXCEPT ![k] = "none"] /\ handle' = None /\ fresh' = None
            /\ lock' = Tail(lock)
       ELSE /\ fresh' = CHOOSE t \in Free : TRUE
            /\ place' = [place EXCEPT ![k] = "starting", ![fresh'] = "asleep"]
            /\ UNCHANGED <<lock, handle>>
    /\ UNCHANGED <<libVars, cids, table, h3Vars, doing, turn, endVars>>

(* restart: with the lock, the new task is started ... *)
Restart(k) ==
    /\ Locked(k) /\ Free # {}
    /\ fresh' = CHOOSE t \in Free : TRUE
    /\ place' = [place EXCEPT ![k] = "starting", ![fresh'] = "asleep"]
    /\ UNCHANGED <<libVars, cids, table, h3Vars, doing, turn, lock, handle, endVars>>

(* ... and then the previous one is cancelled, which may be the one that runs. *)
Restarted(k) ==
    /\ turn = None /\ place[k] = "starting"
    /\ Cancels(handle, k, Back(k))
    /\ turn' = IF Back(k) = "events" THEN k ELSE None
    /\ handle' = (IF place[fresh] = "none" THEN None ELSE fresh) /\ fresh' = None
    /\ UNCHANGED <<libVars, cids, table, h3Vars>>
-----------------------------------------------------------------------------
(* _handle_timer: the library retransmits, or the connection ends. *)
Wakes(t) ==
    /\ quic # "terminated"
    /\ Resumes(t, "asleep", "events")
    /\ \/ UNCHANGED <<quic, queue>>
       \/ /\ quic' = "terminated"
          /\ queue' = Append(queue, [kind |-> "terminated", id |-> None])
    /\ UNCHANGED <<received, gone, cids, table, h3Vars, doing, timerVars, endVars>>

(* The library has dropped its timer meanwhile. *)
WakesLate(t) ==
    /\ quic = "terminated" /\ turn = None /\ place[t] = "asleep"
    /\ place' = [place EXCEPT ![t] = "none"]
    /\ handle' = IF handle = t THEN None ELSE handle
    /\ UNCHANGED <<libVars, cids, table, h3Vars, doing, turn, lock, fresh, endVars>>
-----------------------------------------------------------------------------
(* Applications: stream_send *)

AppSends(s) ==
    /\ s \in streams \ gone /\ Resumes(s, "idle", "flushing")
    /\ UNCHANGED <<libVars, cids, table, h3Vars, doing, timerVars, endVars>>

(* A stream that has been reset refuses what is sent: _reset_stream, within the
   application, which waits for good if there is no room in its queue. *)
AppRefused(s) ==
    /\ turn = None /\ place[s] = "idle" /\ s \in streams \cap gone
    /\ resets' = resets \cup {s} /\ streams' = streams \ {s}
    /\ \/ told' = told \cup {s} /\ UNCHANGED place
       \/ place' = [place EXCEPT ![s] = "handling"] /\ UNCHANGED told
    /\ UNCHANGED <<libVars, cids, table, doing, turn, timerVars, endVars>>

(* StreamClosed, unless the stream has been closed. *)
AppEnds(s) ==
    /\ turn = None /\ place[s] = "idle"
    /\ place' = [place EXCEPT ![s] = "over"]
    /\ streams' = streams \ {s}
    /\ UNCHANGED <<libVars, cids, table, resets, told, doing, turn, timerVars, endVars>>
-----------------------------------------------------------------------------
Handles(k) ==
    \/ CidEvent(k) \/ Terminated(k) \/ Stop(k) \/ Request(k) \/ Dropped(k)
    \/ Refused(k) \/ BodyEvent(k) \/ ResetEvent(k) \/ NoEvent(k)

Sends(k) == Flush(k) \/ Sent(k) \/ Flushed(k) \/ FlushedLast(k) \/ Restart(k) \/ Restarted(k)

Next == \/ Datagram
        \/ \E k \in {Reader} \cup Timers : Handles(k) \/ Put(k)
        \/ \E k \in Tasks : Sends(k)
        \/ \E t \in Timers : Wakes(t) \/ WakesLate(t)
        \/ \E s \in Streams : AppSends(s) \/ AppRefused(s) \/ AppEnds(s)

Spec == Init /\ [][Next]_vars

(* The event loop runs every task that is ready in its turn, and a sleep ends.
   The applications receive, one that waits for room in its own queue excepted,
   but need not send or end. *)
Fairness ==
    /\ SF_vars(Handles(Reader) \/ Sends(Reader) \/ Put(Reader))
    /\ \A s \in Streams : SF_vars(Sends(s))
    /\ SF_vars(\E t \in Timers : Handles(t) \/ Sends(t) \/ Put(t) \/ Wakes(t) \/ WakesLate(t))

FairSpec == Spec /\ Fairness
-----------------------------------------------------------------------------
(* A task that is on its way to restart the timer, or is the timer at work. *)
Rearming(k) ==
    \/ place[k] \in {"events", "flushing", "sending", "sent", "restarting", "starting", "stopping"}
    \/ k \in Timers /\ place[k] = "handling"

(* "Starting the replacement first means the reschedule survives the self-cancel,
   which is what keeps QUIC retransmitting": as long as the connection lasts its
   timer sleeps, or a task is about to restart it, whichever tasks restart it and
   cancel each other; and it has no second one but while one is being started. *)
TimerArmed ==
    /\ \/ quic = "terminated" \/ \E k \in Tasks : Rearming(k)
       \/ handle # None /\ place[handle] = "asleep"
    /\ fresh = None => Cardinality({t \in Timers \ {doomed} : place[t] # "none"}) <= 1

(* A connection that has ended leaves the table, unless the timer that was about
   to see to it is cancelled. *)
Forgotten == quic = "terminated" ~> table = {} \/ cut

(* The application of a stream the client has reset is told or has ended, unless
   a timer was cancelled with the event, or it waits in its own queue. *)
ResetTold ==
    \A s \in Streams :
        s \in gone ~> s \in told \/ place[s] \in {"over", "handling"} \/ cut
=============================================================================
