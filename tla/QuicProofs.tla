-------------------------------- MODULE QuicProofs --------------------------------
(***************************************************************************)
(* Proofs about Quic, for any number of requests, of timer tasks, of       *)
(* connection ids and of events.                                           *)
(***************************************************************************)
EXTENDS Quic, FiniteSetTheorems, TLAPS

(* A timer that has cancelled itself has the turn, and nothing is being started. *)
TurnInv == doomed # None => turn = doomed /\ doomed # handle /\ fresh = None

(* A timer that is not over is the one that is held, being started or unwinding; and
   the one that is held is not over. *)
LiveInv ==
    /\ \A t \in Timers : place[t] # "none" => t \in {handle, fresh, doomed}
    /\ \A t \in Timers : place[t] \notin {"idle", "over"}
    /\ handle # None => place[handle] # "none"

(* A timer is being started by the owner of the lock, in place of another. *)
StartInv ==
    /\ \A k \in Tasks : place[k] = "starting" => lock # <<>> /\ Head(lock) = k /\ k # fresh
    /\ fresh # None <=> \E k \in Tasks : place[k] = "starting"
    /\ fresh # None => fresh # handle
    /\ fresh # None /\ quic # "terminated" => place[fresh] # "none"

(* Nothing ends the connection before the library does. *)
EndInv ==
    quic # "terminated" =>
        /\ \A i \in 1..Len(queue) : queue[i].kind # "terminated"
        /\ \A k \in Tasks : place[k] # "stopping"

Opening == {"request", "refused"}

(* A stream is opened once, and its application does not run before. *)
Opened(es) ==
    \A i, j \in 1..Len(es) :
        es[i].kind \in Opening =>
            /\ place[es[i].id] = "none"
            /\ es[j].kind \in Opening /\ es[j].id = es[i].id => i = j

QueueInv == Opened(queue)

(* The reader is about to start the first timer. *)
Beginning ==
    /\ place[Reader] \in {"events", "flushing", "sending", "sent", "restarting", "starting"}
    /\ queue = <<>>

ArmedInv == quic # "terminated" => handle # None \/ Beginning

IInv == TypeOK /\ TurnInv /\ LiveInv /\ StartInv /\ EndInv /\ QueueInv /\ ArmedInv
-----------------------------------------------------------------------------
(* What an event is about. *)
LEMMA EventIds ==
    ASSUME NEW e \in Events
    PROVE  /\ e.kind \in {"issued", "retired"} => e.id \in Cids
           /\ e.kind \in {"request", "refused", "body", "reset"} => e.id \in Streams
BY DEF Events

(* The first event is taken from the library. *)
LEMMA PoppedEvent ==
    ASSUME TypeOK, EndInv, queue # <<>>, Popped
    PROVE  /\ queue' \in Seq(Events) /\ Head(queue) \in Events
           /\ UNCHANGED <<quic, received, gone>>
           /\ quic # "terminated" => /\ Head(queue).kind # "terminated"
                                     /\ \A i \in 1..Len(queue') : queue'[i].kind # "terminated"
<1>1. queue \in Seq(Events) /\ queue' = Tail(queue) /\ UNCHANGED <<quic, received, gone>>
  BY DEF TypeOK, Popped
<1>2. queue' \in Seq(Events) /\ Head(queue) \in Events
  BY <1>1
<1>3. Len(queue) \in Nat /\ 1 \in 1..Len(queue) /\ Head(queue) = queue[1]
  BY <1>1
<1>4. Len(queue') = Len(queue) - 1 /\ \A i \in 1..Len(queue') : queue'[i] = queue[i + 1]
  BY <1>1
<1>5. \A i \in 1..Len(queue') : i + 1 \in 1..Len(queue)
  BY <1>3, <1>4
<1>6. QED  BY <1>1, <1>2, <1>3, <1>4, <1>5 DEF EndInv

(* A task that goes on changes its place and no other's. *)
LEMMA GoneOn ==
    ASSUME TypeOK, NEW k \in Tasks, NEW from, NEW to \in Places, GoesOn(k, from, to)
    PROVE  /\ place' \in [Tasks -> Places] /\ place[k] = from /\ place'[k] = to
           /\ \A j \in Tasks : j # k => place'[j] = place[j]
           /\ turn = k /\ UNCHANGED <<turn, doing, doomed, cut>>
BY DEF GoesOn, TypeOK, endVars

(* And so does one that suspends, or unwinds as it does. *)
LEMMA Suspended ==
    ASSUME TypeOK, TurnInv, NEW k \in Tasks, NEW to \in Places, NEW e \in Events \cup {Nothing},
           Suspends(k, to, e)
    PROVE  /\ place' \in [Tasks -> Places] /\ doing' \in [Tasks -> Events \cup {Nothing}]
           /\ \A j \in Tasks : j # k => place'[j] = place[j]
           /\ place'[k] = (IF k = doomed THEN "none" ELSE to)
           /\ turn = k /\ turn' = None /\ doomed' = None /\ cut' \in BOOLEAN
           /\ doomed # None => k = doomed
<1>1. /\ turn = k /\ turn' = None /\ doomed' = None
      /\ place' = [place EXCEPT ![k] = IF k = doomed THEN "none" ELSE to]
      /\ doing' = [doing EXCEPT ![k] = IF k = doomed THEN Nothing ELSE e]
  BY DEF Suspends
<1>2. cut' \in BOOLEAN
  BY DEF Suspends, TypeOK
<1>3. "none" \in Places
  BY DEF Places
<1>4. QED  BY <1>1, <1>2, <1>3 DEF TypeOK, TurnInv

(* A suspended task that gets the turn. *)
LEMMA Resumed ==
    ASSUME QuicAssumption, TypeOK, TurnInv, NEW k \in Tasks, NEW from, NEW to \in Places,
           Resumes(k, from, to)
    PROVE  /\ place' \in [Tasks -> Places] /\ place[k] = from /\ place'[k] = to
           /\ \A j \in Tasks : j # k => place'[j] = place[j]
           /\ turn = None /\ turn' = k /\ doomed = None
<1>1. doomed # None => doomed \in Timers
  BY DEF TypeOK
<1>2. QED  BY <1>1, QuicAssumption DEF Resumes, TypeOK, TurnInv, Tasks

(* A step that neither starts a timer nor ends the start of one, and after which a
   timer is over only if it had cancelled itself, keeps the timers in order. *)
LEMMA NothingStarts ==
    ASSUME QuicAssumption, IInv, UNCHANGED <<handle, fresh>>,
           lock # <<>> => lock' # <<>> /\ Head(lock') = Head(lock),
           quic' # "terminated" => quic # "terminated",
           \A j \in Tasks :
              place'[j] = place[j] \/ (place[j] # "starting" /\ place'[j] # "starting"),
           \A t \in Timers : /\ place'[t] \notin {"idle", "over"}
                             /\ place[t] = "none" => place'[t] = "none"
                             /\ place'[t] = "none" => place[t] = "none" \/ t = doomed,
           \/ doomed' = doomed /\ turn' = turn
           \/ doomed' = None /\ (doomed # None => place'[doomed] = "none")
    PROVE  TurnInv' /\ LiveInv' /\ StartInv'
<1> USE DEF IInv
<1>1. /\ handle \in Timers \cup {None} /\ fresh \in Timers \cup {None}
      /\ doomed \in Timers \cup {None} /\ None \notin Timers /\ Timers \subseteq Tasks
  BY QuicAssumption DEF TypeOK, Tasks
<1>2. TurnInv'
  BY DEF TurnInv
<1>3. LiveInv'
  <2>1. \A t \in Timers : place'[t] # "none" => t \in {handle', fresh', doomed'}
    BY <1>1 DEF LiveInv
  <2>2. handle # None => place'[handle] # "none"
    BY <1>1 DEF LiveInv, TurnInv
  <2>3. QED  BY <2>1, <2>2 DEF LiveInv
<1>4. StartInv'
  <2>1. \A j \in Tasks : place'[j] = "starting" <=> place[j] = "starting"
    OBVIOUS
  <2>2. fresh # None /\ quic' # "terminated" => place'[fresh] # "none"
    BY <1>1 DEF StartInv, TurnInv
  <2>3. QED  BY <2>1, <2>2 DEF StartInv
<1>5. QED  BY <1>2, <1>3, <1>4

(* The events that are ready stay as they are. *)
LEMMA QueueStays ==
    ASSUME TypeOK, QueueInv, queue' = queue,
           \A s \in Streams : place[s] = "none" => place'[s] = "none"
    PROVE  QueueInv'
<1>1. \A i \in 1..Len(queue) : queue[i] \in Events
  BY DEF TypeOK
<1>2. \A i \in 1..Len(queue) : queue[i].kind \in Opening => queue[i].id \in Streams
  BY <1>1, EventIds DEF Opening
<1>3. QED  BY <1>2 DEF QueueInv, Opened

(* The first is taken, and the application of its stream may run from now on. *)
LEMMA QueuePopped ==
    ASSUME TypeOK, QueueInv, queue # <<>>, Popped,
           \A s \in Streams : place[s] = "none" =>
              place'[s] = "none" \/ (Head(queue).kind \in Opening /\ s = Head(queue).id)
    PROVE  QueueInv'
<1>1. queue \in Seq(Events) /\ queue' = Tail(queue)
  BY DEF TypeOK, Popped
<1>2. Len(queue) \in Nat /\ 1 \in 1..Len(queue) /\ Head(queue) = queue[1]
  BY <1>1
<1>3. Len(queue') = Len(queue) - 1 /\ \A i \in 1..Len(queue') : queue'[i] = queue[i + 1]
  BY <1>1
<1>4. \A i \in 1..Len(queue') : i + 1 \in 1..Len(queue) /\ i + 1 # 1 /\ i \in Nat
  BY <1>2, <1>3
<1>5. \A i \in 1..Len(queue') : queue'[i] \in Events
  BY <1>1, <1>3, <1>4
<1>6. \A i \in 1..Len(queue') : queue'[i].kind \in Opening => queue'[i].id \in Streams
  BY <1>5, EventIds DEF Opening
<1>7. ASSUME NEW i \in 1..Len(queue'), queue'[i].kind \in Opening
      PROVE  place'[queue'[i].id] = "none"
  <2>1. place[queue'[i].id] = "none"
    BY <1>3, <1>4, <1>7 DEF QueueInv, Opened
  <2>2. ~(Head(queue).kind \in Opening /\ queue'[i].id = Head(queue).id)
    BY <1>2, <1>3, <1>4, <1>7 DEF QueueInv, Opened
  <2>3. QED  BY <1>6, <1>7, <2>1, <2>2
<1>8. ASSUME NEW i \in 1..Len(queue'), NEW j \in 1..Len(queue'), queue'[i].kind \in Opening,
             queue'[j].kind \in Opening, queue'[j].id = queue'[i].id
      PROVE  i = j
  <2>1. i + 1 = j + 1
    BY <1>3, <1>4, <1>8 DEF QueueInv, Opened
  <2>2. QED  BY <1>4, <2>1
<1>9. QED  BY <1>7, <1>8 DEF QueueInv, Opened

(* A task that waits for the lock does not take it from its owner. *)
LEMMA Appended ==
    ASSUME TypeOK, NEW k \in Tasks
    PROVE  /\ Append(lock, k) \in Seq(Tasks)
           /\ lock # <<>> => Append(lock, k) # <<>> /\ Head(Append(lock, k)) = Head(lock)
<1>1. lock \in Seq(Tasks)
  BY DEF TypeOK
<1>2. Append(lock, k) \in Seq(Tasks)
  BY <1>1
<1>3. Len(Append(lock, k)) = Len(lock) + 1 /\ Len(lock) \in Nat
  BY <1>1
<1>4. Append(lock, k) # <<>>
  BY <1>2, <1>3
<1>5. ASSUME lock # <<>>
      PROVE  Head(Append(lock, k)) = Head(lock)
  <2>1. 1 \in 1..Len(lock)
    BY <1>1, <1>5
  <2>2. Append(lock, k)[1] = lock[1]
    BY <1>1, <2>1
  <2>3. QED  BY <1>1, <1>2, <1>4, <1>5, <2>2
<1>6. QED  BY <1>2, <1>4, <1>5
-----------------------------------------------------------------------------
(* _handle_events *)

(* A connection id enters the table, or leaves it, and the connection with it. *)
LEMMA CidEventKeeps ==
    ASSUME QuicAssumption, IInv, NEW k \in {Reader} \cup Timers, CidEvent(k)
    PROVE  IInv'
<1> USE DEF IInv
<1>1. k \in Tasks /\ "events" \in Places
  BY DEF Tasks, Places
<1>2. /\ queue # <<>> /\ Popped /\ GoesOn(k, "events", "events")
      /\ Head(queue).kind \in {"issued", "retired"}
      /\ UNCHANGED <<streams, resets, told, lock, handle, fresh>>
  BY DEF CidEvent, Handling, First, h3Vars, timerVars
<1>3. /\ place' \in [Tasks -> Places] /\ \A j \in Tasks : place'[j] = place[j]
      /\ UNCHANGED <<turn, doing, doomed, cut>>
  BY <1>1, <1>2, GoneOn
<1>4. /\ queue' \in Seq(Events) /\ Head(queue) \in Events
      /\ UNCHANGED <<quic, received, gone>>
      /\ quic # "terminated" => \A i \in 1..Len(queue') : queue'[i].kind # "terminated"
  BY <1>2, PoppedEvent
<1>5. Head(queue).id \in Cids
  BY <1>2, <1>4, EventIds
<1>6. cids' \subseteq Cids /\ table' = cids'
  BY <1>5 DEF CidEvent, TypeOK
<1>7. TypeOK'
  BY <1>2, <1>3, <1>4, <1>6 DEF TypeOK
<1>8. TurnInv' /\ LiveInv' /\ StartInv'
  <2>1. Timers \subseteq Tasks
    BY DEF Tasks
  <2>2. \A t \in Timers : place'[t] = place[t] /\ place[t] \notin {"idle", "over"}
    BY <1>3, <2>1 DEF LiveInv
  <2>3. QED  BY <1>2, <1>3, <1>4, <2>2, NothingStarts, QuicAssumption
<1>9. EndInv' /\ ArmedInv'
  BY <1>2, <1>3, <1>4 DEF EndInv, ArmedInv, Beginning
<1>10. QueueInv'
  BY <1>2, <1>3, QueuePopped DEF Tasks
<1>11. QED  BY <1>7, <1>8, <1>9, <1>10

(* The end of the connection is taken: its task waits to stop the timer. *)
LEMMA TerminatedKeeps ==
    ASSUME QuicAssumption, IInv, NEW k \in {Reader} \cup Timers, Terminated(k)
    PROVE  IInv'
<1> USE DEF IInv
<1>1. k \in Tasks /\ "stopping" \in Places
  BY DEF Tasks, Places
<1>2. /\ queue # <<>> /\ Popped /\ place[k] = "events" /\ Suspends(k, "stopping", Head(queue))
      /\ Head(queue).kind = "terminated"
      /\ UNCHANGED <<cids, table, streams, resets, told, handle, fresh>>
      /\ lock' = lock \/ lock' = Append(lock, k)
  BY DEF Terminated, Handling, First, h3Vars
<1>3. /\ queue' \in Seq(Events) /\ Head(queue) \in Events
      /\ UNCHANGED <<quic, received, gone>> /\ quic = "terminated"
  BY <1>2, PoppedEvent
<1>4. /\ place' \in [Tasks -> Places] /\ doing' \in [Tasks -> Events \cup {Nothing}]
      /\ \A j \in Tasks : j # k => place'[j] = place[j]
      /\ place'[k] = (IF k = doomed THEN "none" ELSE "stopping")
      /\ turn' = None /\ doomed' = None /\ cut' \in BOOLEAN /\ (doomed # None => k = doomed)
  BY <1>1, <1>2, <1>3, Suspended
<1>5. lock' \in Seq(Tasks) /\ (lock # <<>> => lock' # <<>> /\ Head(lock') = Head(lock))
  <2>1. lock \in Seq(Tasks)
    BY DEF TypeOK
  <2>2. /\ Append(lock, k) \in Seq(Tasks)
        /\ lock # <<>> => Append(lock, k) # <<>> /\ Head(Append(lock, k)) = Head(lock)
    BY <1>1, Appended
  <2>3. QED  BY <1>2, <2>1, <2>2
<1>6. TypeOK'
  BY <1>2, <1>3, <1>4, <1>5 DEF TypeOK
<1>7. TurnInv' /\ LiveInv' /\ StartInv'
  <2>1. Timers \subseteq Tasks
    BY DEF Tasks
  <2>2. \A t \in Timers : /\ place'[t] \notin {"idle", "over"}
                          /\ place[t] = "none" => place'[t] = "none"
                          /\ place'[t] = "none" => place[t] = "none" \/ t = doomed
    BY <1>2, <1>4, <2>1 DEF LiveInv
  <2>3. \A j \in Tasks :
           place'[j] = place[j] \/ (place[j] # "starting" /\ place'[j] # "starting")
    BY <1>2, <1>4
  <2>4. QED  BY <1>2, <1>3, <1>4, <1>5, <2>2, <2>3, NothingStarts, QuicAssumption
<1>8. EndInv' /\ ArmedInv'
  BY <1>3 DEF EndInv, ArmedInv
<1>9. QueueInv'
  <2>1. \A s \in Streams : s \in Tasks /\ s # k
    BY QuicAssumption DEF Tasks
  <2>2. QED  BY <1>2, <1>4, <2>1, QueuePopped
<1>10. QED  BY <1>6, <1>7, <1>8, <1>9

(* A request runs its application, or is dropped, or refused. *)
LEMMA RequestKeeps ==
    ASSUME QuicAssumption, IInv, NEW k \in {Reader} \cup Timers,
           Request(k) \/ Dropped(k) \/ Refused(k)
    PROVE  IInv'
<1> USE DEF IInv
<1> DEFINE s == Head(queue).id
<1>1. /\ queue # <<>> /\ Popped /\ place[k] = "events" /\ turn = k
      /\ Head(queue).kind \in {"request", "refused"}
      /\ UNCHANGED <<cids, table, resets, told, turn, lock, handle, fresh, doomed, cut>>
  BY DEF Request, Dropped, Refused, Handling, First, h3Vars, timerVars, endVars
<1>2. /\ queue' \in Seq(Events) /\ Head(queue) \in Events
      /\ UNCHANGED <<quic, received, gone>>
      /\ quic # "terminated" => \A i \in 1..Len(queue') : queue'[i].kind # "terminated"
  BY <1>1, PoppedEvent
<1>3. s \in Streams
  BY <1>1, <1>2, EventIds
<1>4. k \in Tasks /\ s \in Tasks /\ s \notin Timers /\ s # k /\ Timers \subseteq Tasks
  BY <1>3, QuicAssumption DEF Tasks
<1>5. streams' \subseteq Streams
  BY <1>1, <1>3 DEF Request, Dropped, Refused, TypeOK, h3Vars
<1>6. doing' \in [Tasks -> Events \cup {Nothing}]
  <2>1. doing' = doing \/ doing' = [doing EXCEPT ![k] = Head(queue)]
    BY DEF Request, Dropped, Refused
  <2>2. QED  BY <1>2, <2>1 DEF TypeOK
<1>7. /\ place' \in [Tasks -> Places] /\ place'[s] \in {"idle", "over"}
      /\ place'[k] \in {"events", "flushing"}
      /\ \A j \in Tasks : j \notin {k, s} => place'[j] = place[j]
  <2>1. CASE Request(k)
    BY <1>1, <1>4, <2>1 DEF Request, TypeOK, Places
  <2>2. CASE Dropped(k)
    BY <1>1, <1>4, <2>2 DEF Dropped, TypeOK, Places
  <2>3. CASE Refused(k)
    BY <1>4, <2>3 DEF Refused, TypeOK, Places
  <2>4. QED  BY <2>1, <2>2, <2>3
<1>8. TypeOK'
  BY <1>1, <1>2, <1>5, <1>6, <1>7 DEF TypeOK
<1>9. TurnInv' /\ LiveInv' /\ StartInv'
  <2>1. queue \in Seq(Events) /\ 1 \in 1..Len(queue) /\ Head(queue) = queue[1]
    BY <1>1 DEF TypeOK
  <2>2. place[s] = "none"
    BY <1>1, <2>1 DEF QueueInv, Opened, Opening
  <2>3. \A j \in Tasks :
           place'[j] = place[j] \/ (place[j] # "starting" /\ place'[j] # "starting")
    BY <1>1, <1>4, <1>7, <2>2
  <2>4. \A t \in Timers : /\ place'[t] \notin {"idle", "over"}
                          /\ place[t] = "none" => place'[t] = "none"
                          /\ place'[t] = "none" => place[t] = "none"
    BY <1>1, <1>4, <1>7 DEF LiveInv
  <2>5. QED  BY <1>1, <1>2, <2>3, <2>4, NothingStarts, QuicAssumption
<1>10. EndInv' /\ ArmedInv'
  <2>1. quic # "terminated" => \A j \in Tasks : place'[j] # "stopping"
    BY <1>4, <1>7 DEF EndInv
  <2>2. QED  BY <1>1, <1>2, <2>1 DEF EndInv, ArmedInv, Beginning
<1>11. QueueInv'
  <2>1. \A u \in Streams : u \in Tasks /\ u # k
    BY QuicAssumption DEF Tasks
  <2>2. QED  BY <1>1, <1>7, <2>1, QueuePopped DEF Opening
<1>12. QED  BY <1>8, <1>9, <1>10, <1>11

(* A body, or a reset, is put to its application: at once or after a suspension. *)
LEMMA EventPut ==
    ASSUME QuicAssumption, IInv, NEW k \in {Reader} \cup Timers,
           queue # <<>>, Popped, place[k] = "events",
           UNCHANGED <<cids, table, lock, handle, fresh>>,
           streams' \subseteq Streams, resets' \subseteq Streams, told' \subseteq Streams,
           \/ UNCHANGED <<place, doing, turn, doomed, cut>>
           \/ Suspends(k, "handling", Head(queue))
    PROVE  IInv'
<1> USE DEF IInv
<1>1. k \in Tasks /\ "handling" \in Places /\ Timers \subseteq Tasks
  BY DEF Tasks, Places
<1>2. /\ queue' \in Seq(Events) /\ Head(queue) \in Events
      /\ UNCHANGED <<quic, received, gone>>
      /\ quic # "terminated" => \A i \in 1..Len(queue') : queue'[i].kind # "terminated"
  BY PoppedEvent
<1>3. CASE UNCHANGED <<place, doing, turn, doomed, cut>>
  <2>1. TypeOK'
    BY <1>2, <1>3 DEF TypeOK
  <2>2. \A t \in Timers : place[t] \notin {"idle", "over"}
    BY DEF LiveInv
  <2>3. TurnInv' /\ LiveInv' /\ StartInv'
    BY <1>2, <1>3, <2>2, NothingStarts
  <2>4. EndInv' /\ ArmedInv'
    BY <1>2, <1>3 DEF EndInv, ArmedInv, Beginning
  <2>5. QueueInv'
    BY <1>3, QueuePopped
  <2>6. QED  BY <2>1, <2>3, <2>4, <2>5
<1>4. CASE Suspends(k, "handling", Head(queue))
  <2>1. /\ place' \in [Tasks -> Places] /\ doing' \in [Tasks -> Events \cup {Nothing}]
        /\ \A j \in Tasks : j # k => place'[j] = place[j]
        /\ place'[k] = (IF k = doomed THEN "none" ELSE "handling")
        /\ turn' = None /\ doomed' = None /\ cut' \in BOOLEAN
        /\ doomed # None => k = doomed
    BY <1>1, <1>2, <1>4, Suspended
  <2>2. TypeOK'
    BY <1>2, <2>1 DEF TypeOK
  <2>3. \A t \in Timers : /\ place'[t] \notin {"idle", "over"}
                          /\ place[t] = "none" => place'[t] = "none"
                          /\ place'[t] = "none" => place[t] = "none" \/ t = doomed
    BY <1>1, <2>1 DEF LiveInv
  <2>4. \A j \in Tasks :
           place'[j] = place[j] \/ (place[j] # "starting" /\ place'[j] # "starting")
    BY <2>1
  <2>5. TurnInv' /\ LiveInv' /\ StartInv'
    BY <1>2, <2>1, <2>3, <2>4, NothingStarts
  <2>6. EndInv'
    BY <1>2, <2>1 DEF EndInv
  <2>7. ArmedInv'
    BY <1>2 DEF ArmedInv, Beginning
  <2>8. \A s \in Streams : s \in Tasks /\ s # k
    BY QuicAssumption DEF Tasks
  <2>9. QueueInv'
    BY <2>1, <2>8, QueuePopped
  <2>10. QED  BY <2>2, <2>5, <2>6, <2>7, <2>9
<1>5. QED  BY <1>3, <1>4

(* So a body and a reset keep the invariant. *)
LEMMA BodyEventKeeps ==
    ASSUME QuicAssumption, IInv, NEW k \in {Reader} \cup Timers, BodyEvent(k) \/ ResetEvent(k)
    PROVE  IInv'
<1> USE DEF IInv
<1>1. /\ queue # <<>> /\ Popped /\ place[k] = "events" /\ Head(queue).kind \in {"body",
                   "reset"}
      /\ UNCHANGED <<cids, table, lock, handle, fresh>>
  BY DEF BodyEvent, ResetEvent, Handling, First, h3Vars, timerVars
<1>2. Head(queue).id \in Streams
  BY <1>1, PoppedEvent, EventIds
<1>3. streams' \subseteq Streams /\ resets' \subseteq Streams /\ told' \subseteq Streams
  BY <1>2 DEF BodyEvent, ResetEvent, TypeOK, h3Vars
<1>4. \/ UNCHANGED <<place, doing, turn, doomed, cut>>
      \/ Suspends(k, "handling", Head(queue))
  <2>1. ASSUME GoesOn(k, "events", "events")
        PROVE  UNCHANGED <<place, doing, turn, doomed, cut>>
    BY <1>1, <2>1 DEF GoesOn, TypeOK, endVars
  <2>2. QED  BY <2>1 DEF BodyEvent, ResetEvent, taskVars, endVars
<1>5. QED  BY <1>1, <1>3, <1>4, EventPut

(* No event is left: the task goes on to send. *)
LEMMA NoEventKeeps ==
    ASSUME QuicAssumption, IInv, NEW k \in {Reader} \cup Timers, NoEvent(k)
    PROVE  IInv'
<1> USE DEF IInv
<1>1. k \in Tasks /\ "flushing" \in Places /\ Timers \subseteq Tasks
  BY DEF Tasks, Places
<1>2. /\ queue = <<>> /\ GoesOn(k, "events", "flushing")
      /\ UNCHANGED <<quic, queue, received, gone, cids, table, streams, resets, told, lock,
                     handle, fresh>>
  BY DEF NoEvent, libVars, h3Vars, timerVars
<1>3. /\ place' \in [Tasks -> Places] /\ place[k] = "events" /\ place'[k] = "flushing"
      /\ \A j \in Tasks : j # k => place'[j] = place[j]
      /\ UNCHANGED <<turn, doing, doomed, cut>>
  BY <1>1, <1>2, GoneOn
<1>4. TypeOK'
  BY <1>2, <1>3 DEF TypeOK
<1>5. TurnInv' /\ LiveInv' /\ StartInv'
  <2>1. \A t \in Timers : /\ place'[t] \notin {"idle", "over"}
                          /\ place[t] = "none" => place'[t] = "none"
                          /\ place'[t] = "none" => place[t] = "none"
    BY <1>1, <1>3 DEF LiveInv
  <2>2. \A j \in Tasks :
           place'[j] = place[j] \/ (place[j] # "starting" /\ place'[j] # "starting")
    BY <1>3
  <2>3. QED  BY <1>2, <1>3, <2>1, <2>2, NothingStarts
<1>6. EndInv' /\ ArmedInv'
  <2>1. Reader \in Tasks
    BY DEF Tasks
  <2>2. QED  BY <1>2, <1>3, <2>1 DEF EndInv, ArmedInv, Beginning
<1>7. QueueInv'
  BY <1>2, <1>3, QueueStays DEF Tasks
<1>8. QED  BY <1>4, <1>5, <1>6, <1>7

(* A task that gets the turn where it was suspended, the library's queue and the
   timer staying as they are. *)
LEMMA ResumedKeeps ==
    ASSUME QuicAssumption, IInv, NEW k \in Tasks, NEW from \in Places, NEW to \in Places,
           Resumes(k, from, to), from \notin {"none", "starting"},
           to \notin {"none", "idle", "over", "starting", "stopping"},
           k = Reader => handle # None \/ quic = "terminated" \/ to = "sent",
           UNCHANGED <<quic, queue, received, gone, cids, table, lock, handle, fresh,
                       doomed, cut>>,
           streams' \subseteq Streams, resets' \subseteq Streams, told' \subseteq Streams,
           doing' \in [Tasks -> Events \cup {Nothing}]
    PROVE  IInv'
<1> USE DEF IInv
<1>1. /\ place' \in [Tasks -> Places] /\ place[k] = from /\ place'[k] = to
      /\ \A j \in Tasks : j # k => place'[j] = place[j]
      /\ turn = None /\ turn' = k /\ doomed = None
  BY Resumed
<1>2. TypeOK'
  BY <1>1 DEF TypeOK
<1>3. TurnInv' /\ LiveInv' /\ StartInv'
  <2>1. Timers \subseteq Tasks
    BY DEF Tasks
  <2>2. \A t \in Timers : /\ place'[t] \notin {"idle", "over"}
                          /\ place[t] = "none" => place'[t] = "none"
                          /\ place'[t] = "none" => place[t] = "none"
    BY <1>1, <2>1 DEF LiveInv
  <2>3. \A j \in Tasks :
           place'[j] = place[j] \/ (place[j] # "starting" /\ place'[j] # "starting")
    BY <1>1
  <2>4. QED  BY <1>1, <2>2, <2>3, NothingStarts
<1>4. EndInv' /\ ArmedInv'
  <2>1. Reader \in Tasks
    BY DEF Tasks
  <2>2. QED  BY <1>1, <2>1 DEF EndInv, ArmedInv, Beginning
<1>5. QueueInv'
  <2>1. \A s \in Streams : s \in Tasks
    BY DEF Tasks
  <2>2. QED  BY <1>1, <2>1, QueueStays
<1>6. QED  BY <1>2, <1>3, <1>4, <1>5

(* The application's queue has had room for the event. *)
LEMMA PutKeeps ==
    ASSUME QuicAssumption, IInv, NEW k \in {Reader} \cup Timers, Put(k)
    PROVE  IInv'
<1> USE DEF IInv
<1>1. k \in Tasks /\ {"handling", "events"} \subseteq Places
  BY DEF Tasks, Places
<1>2. /\ Resumes(k, "handling", "events")
      /\ UNCHANGED <<quic, queue, received, gone, cids, table, lock, handle, fresh,
                     doomed, cut>>
      /\ UNCHANGED <<streams, resets>> /\ doing' = [doing EXCEPT ![k] = Nothing]
      /\ told' = told \cup (IF doing[k].kind = "reset" THEN {doing[k].id} ELSE {})
  BY DEF Put, libVars, timerVars, endVars
<1>3. doing[k] \in Events \cup {Nothing}
  BY <1>1 DEF TypeOK
<1>4. doing[k].kind = "reset" => doing[k].id \in Streams
  BY <1>3, EventIds DEF Nothing
<1>5. streams' \subseteq Streams /\ resets' \subseteq Streams /\ told' \subseteq Streams
  BY <1>2, <1>4 DEF TypeOK
<1>6. doing' \in [Tasks -> Events \cup {Nothing}]
  BY <1>2 DEF TypeOK
<1>7. quic # "terminated" /\ k = Reader => handle # None
  BY <1>2 DEF ArmedInv, Beginning, Resumes
<1>8. QED  BY <1>1, <1>2, <1>5, <1>6, <1>7, ResumedKeeps
-----------------------------------------------------------------------------
(* The library *)

(* What may follow does not open a stream again, nor end the connection. *)
LEMMA OpenedAppend ==
    ASSUME TypeOK, NEW es \in Seq(Events), Opened(es), NEW d \in Events, Possible(d, es)
    PROVE  Opened(Append(es, d))
<1>1. /\ Len(es) \in Nat /\ Append(es, d) \in Seq(Events)
      /\ Len(Append(es, d)) = Len(es) + 1 /\ Append(es, d)[Len(es) + 1] = d
      /\ \A i \in 1..Len(es) : Append(es, d)[i] = es[i]
  OBVIOUS
<1>2. d.kind \in Opening =>
        place[d.id] = "none" /\ \A i \in 1..Len(es) : es[i].kind \in Opening => es[i].id # d.id
  BY DEF Possible, Queued, Opening
<1>3. \A i \in 1..(Len(es) + 1) : i \in 1..Len(es) \/ i = Len(es) + 1
  BY <1>1
<1>4. QED  BY <1>1, <1>2, <1>3 DEF Opened

(* The reader hands a datagram to the library. *)
LEMMA DatagramKeeps ==
    ASSUME QuicAssumption, IInv, Datagram
    PROVE  IInv'
<1> USE DEF IInv
<1>1. Reader \in Tasks /\ "events" \in Places /\ Timers \subseteq Tasks /\ Streams \subseteq Tasks
  BY DEF Tasks, Places
<1>2. /\ Resumes(Reader, "idle", "events")
      /\ UNCHANGED <<cids, table, streams, resets, told, doing, lock, handle, fresh,
                     doomed, cut>>
  BY DEF Datagram, h3Vars, timerVars, endVars
<1>3. /\ place' \in [Tasks -> Places] /\ place[Reader] = "idle" /\ place'[Reader] = "events"
      /\ \A j \in Tasks : j # Reader => place'[j] = place[j]
      /\ turn = None /\ turn' = Reader /\ doomed = None
  BY <1>1, <1>2, Resumed
<1>4. /\ quic' \in {"open", "closing", "terminated"} /\ received' \in 0..MaxEvents
      /\ quic' = "terminated" <=> quic = "terminated"
      /\ gone' \subseteq Streams
      /\ queue' \in Seq(Events) /\ Opened(queue')
      /\ quic # "terminated" => \A i \in 1..Len(queue') : queue'[i].kind # "terminated"
  <2>1. CASE UNCHANGED <<quic, queue, received, gone>>
    BY <2>1 DEF TypeOK, QueueInv, EndInv
  <2>2. CASE quic = "open" /\ quic' = "closing" /\ UNCHANGED <<queue, received, gone>>
    BY <2>2 DEF TypeOK, QueueInv, EndInv
  <2>3. CASE ~UNCHANGED <<quic, queue, received, gone>>
             /\ ~(quic = "open" /\ quic' = "closing" /\ UNCHANGED <<queue, received, gone>>)
    <3>1. PICK d \in Events, e \in Events, n \in 1..2 :
             /\ quic = "open" /\ received + n <= MaxEvents /\ UNCHANGED quic
             /\ Possible(d, queue)
             /\ IF n = 1 THEN e = d ELSE Possible(e, Append(queue, d))
             /\ queue' = IF n = 1 THEN Append(queue, d) ELSE Append(Append(queue, d), e)
             /\ received' = received + n
             /\ gone' = gone \cup {x.id : x \in {y \in {d, e} : y.kind = "reset"}}
      BY <2>3 DEF Datagram
    <3>2. received' \in 0..MaxEvents
      BY <3>1, QuicAssumption DEF TypeOK
    <3>3. gone' \subseteq Streams
      <4>1. \A x \in {y \in {d, e} : y.kind = "reset"} : x.id \in Streams
        BY EventIds
      <4>2. QED  BY <3>1, <4>1 DEF TypeOK
    <3>4. queue \in Seq(Events) /\ Append(queue, d) \in Seq(Events)
      BY DEF TypeOK
    <3>5. Opened(Append(queue, d))
      BY <3>1, <3>4, OpenedAppend DEF QueueInv
    <3>6. d.kind # "terminated"
      BY <3>1 DEF Possible
    <3>7. \A i \in 1..Len(Append(queue, d)) : Append(queue, d)[i].kind # "terminated"
      BY <3>1, <3>4, <3>6 DEF EndInv
    <3>8. CASE n = 1
      <4>1. queue' = Append(queue, d)
        BY <3>1, <3>8
      <4>2. QED  BY <3>1, <3>2, <3>3, <3>4, <3>5, <3>7, <4>1
    <3>9. CASE n = 2
      <4>1. queue' = Append(Append(queue, d), e)
        BY <3>1, <3>9
      <4>2. Possible(e, Append(queue, d))
        BY <3>1, <3>9
      <4>3. e.kind # "terminated"
        BY <4>2 DEF Possible
      <4>4. queue' \in Seq(Events)
        BY <3>4, <4>1
      <4>5. Opened(Append(Append(queue, d), e))
        BY <3>4, <3>5, <4>2, OpenedAppend
      <4>6. \A i \in 1..Len(queue') : queue'[i].kind # "terminated"
        BY <3>4, <3>7, <4>1, <4>3
      <4>7. QED  BY <3>1, <3>2, <3>3, <4>1, <4>4, <4>5, <4>6
    <3>10. QED  BY <3>8, <3>9
  <2>4. QED  BY <2>1, <2>2, <2>3
<1>5. TypeOK'
  BY <1>2, <1>3, <1>4 DEF TypeOK
<1>6. TurnInv' /\ LiveInv' /\ StartInv'
  <2>1. \A t \in Timers : place'[t] = place[t] /\ place[t] \notin {"idle", "over"}
    BY <1>1, <1>3, QuicAssumption DEF LiveInv
  <2>2. \A j \in Tasks :
           place'[j] = place[j] \/ (place[j] # "starting" /\ place'[j] # "starting")
    BY <1>3
  <2>3. QED  BY <1>2, <1>3, <1>4, <2>1, <2>2, NothingStarts
<1>7. EndInv'
  BY <1>3, <1>4 DEF EndInv
<1>8. ArmedInv'
  BY <1>2, <1>3, <1>4 DEF ArmedInv, Beginning
<1>9. QueueInv'
  <2>1. \A i \in 1..Len(queue') : queue'[i] \in Events
    BY <1>4
  <2>2. \A i \in 1..Len(queue') : queue'[i].kind \in Opening => queue'[i].id \in Streams
    BY <2>1, EventIds DEF Opening
  <2>3. \A s \in Streams : place'[s] = place[s]
    BY <1>1, <1>3, QuicAssumption
  <2>4. QED  BY <1>4, <2>2, <2>3 DEF QueueInv, Opened
<1>10. QED  BY <1>5, <1>6, <1>7, <1>8, <1>9

(* The timer fires: the library retransmits, or ends the connection. *)
LEMMA WakesKeeps ==
    ASSUME QuicAssumption, IInv, NEW t \in Timers, Wakes(t)
    PROVE  IInv'
<1> USE DEF IInv
<1>1. t \in Tasks /\ "events" \in Places /\ "asleep" \in Places /\ t # Reader
  BY QuicAssumption DEF Tasks, Places
<1>2. /\ Resumes(t, "asleep", "events") /\ quic # "terminated"
      /\ UNCHANGED <<received, gone, cids, table, streams, resets, told, doing, lock,
                     handle, fresh,
                     doomed, cut>>
  BY DEF Wakes, h3Vars, timerVars, endVars
<1>3. streams' \subseteq Streams /\ resets' \subseteq Streams /\ told' \subseteq Streams
      /\ doing' \in [Tasks -> Events \cup {Nothing}]
  BY <1>2 DEF TypeOK
<1>4. CASE UNCHANGED <<quic, queue>>
  BY <1>1, <1>2, <1>3, <1>4, ResumedKeeps
<1> DEFINE end == [kind |-> "terminated", id |-> None]
<1>5. CASE quic' = "terminated" /\ queue' = Append(queue, end)
  <2>1. /\ place' \in [Tasks -> Places] /\ place[t] = "asleep" /\ place'[t] = "events"
        /\ \A j \in Tasks : j # t => place'[j] = place[j]
        /\ turn = None /\ turn' = t /\ doomed = None
    BY <1>1, <1>2, Resumed
  <2>2. end \in Events /\ end.kind \notin Opening
    BY DEF Events, Opening
  <2>3. queue \in Seq(Events) /\ queue' \in Seq(Events)
    BY <1>5, <2>2 DEF TypeOK
  <2>4. TypeOK'
    BY <1>2, <1>5, <2>1, <2>3 DEF TypeOK
  <2>5. TurnInv' /\ LiveInv' /\ StartInv'
    <3>1. Timers \subseteq Tasks
      BY DEF Tasks
    <3>2. \A u \in Timers : /\ place'[u] \notin {"idle", "over"}
                            /\ place[u] = "none" => place'[u] = "none"
                            /\ place'[u] = "none" => place[u] = "none"
      BY <2>1, <3>1 DEF LiveInv
    <3>3. \A j \in Tasks :
             place'[j] = place[j] \/ (place[j] # "starting" /\ place'[j] # "starting")
      BY <2>1
    <3>4. QED  BY <1>2, <1>5, <2>1, <3>2, <3>3, NothingStarts
  <2>6. EndInv' /\ ArmedInv'
    BY <1>5 DEF EndInv, ArmedInv
  <2>7. QueueInv'
    <3>1. /\ Len(queue) \in Nat /\ Len(queue') = Len(queue) + 1 /\ queue'[Len(queue) + 1] = end
          /\ \A i \in 1..Len(queue) : queue'[i] = queue[i]
      BY <1>5, <2>3
    <3>2. \A i \in 1..Len(queue') : queue'[i].kind \in Opening => i \in 1..Len(queue)
      BY <2>2, <3>1
    <3>3. \A i \in 1..Len(queue') : queue'[i] \in Events
      BY <2>3
    <3>4. \A i \in 1..Len(queue') : queue'[i].kind \in Opening => queue'[i].id \in Streams
      BY <3>3, EventIds DEF Opening
    <3>5. \A s \in Streams : place'[s] = place[s]
      BY <2>1, QuicAssumption DEF Tasks
    <3>6. QED  BY <3>1, <3>2, <3>4, <3>5 DEF QueueInv, Opened
  <2>8. QED  BY <2>4, <2>5, <2>6, <2>7
<1>6. QED  BY <1>4, <1>5 DEF Wakes

(* The timer fires for a connection that has ended: the task is over. *)
LEMMA WakesLateKeeps ==
    ASSUME QuicAssumption, IInv, NEW t \in Timers, WakesLate(t)
    PROVE  IInv'
<1> USE DEF IInv
<1>1. t \in Tasks /\ "none" \in Places /\ Timers \subseteq Tasks /\ Streams \subseteq Tasks
  BY DEF Tasks, Places
<1>2. /\ quic = "terminated" /\ turn = None /\ place[t] = "asleep"
      /\ place' = [place EXCEPT ![t] = "none"]
      /\ handle' = IF handle = t THEN None ELSE handle
      /\ UNCHANGED <<quic, queue, received, gone, cids, table, streams, resets, told,
                     doing, turn,
                     lock, fresh, doomed, cut>>
  BY DEF WakesLate, libVars, h3Vars, endVars
<1>3. /\ place' \in [Tasks -> Places] /\ place'[t] = "none"
      /\ \A j \in Tasks : j # t => place'[j] = place[j]
  BY <1>1, <1>2 DEF TypeOK
<1>4. doomed = None /\ None \notin Timers
  BY <1>2, QuicAssumption DEF TypeOK, TurnInv
<1>5. TypeOK'
  BY <1>2, <1>3 DEF TypeOK
<1>6. TurnInv' /\ LiveInv'
  <2>1. TurnInv'
    BY <1>2, <1>4 DEF TurnInv
  <2>2. \A u \in Timers : place'[u] # "none" => u # t /\ place[u] # "none"
    BY <1>1, <1>3
  <2>3. \A u \in Timers : place'[u] # "none" => u \in {handle', fresh', doomed'}
    BY <1>2, <2>2 DEF LiveInv
  <2>4. \A u \in Timers : place'[u] \notin {"idle", "over"}
    BY <1>1, <1>3 DEF LiveInv
  <2>5. handle \in Timers \cup {None}
    BY DEF TypeOK
  <2>6. handle' # None => place'[handle'] # "none"
    BY <1>1, <1>2, <1>3, <2>5 DEF LiveInv
  <2>7. QED  BY <2>1, <2>3, <2>4, <2>6 DEF LiveInv
<1>7. StartInv'
  <2>1. \A j \in Tasks : place'[j] = "starting" <=> place[j] = "starting"
    BY <1>2, <1>3
  <2>2. handle' \in {handle, None}
    BY <1>2
  <2>3. QED  BY <1>2, <2>1, <2>2 DEF StartInv
<1>8. EndInv' /\ ArmedInv'
  BY <1>2 DEF EndInv, ArmedInv
<1>9. QueueInv'
  BY <1>1, <1>2, <1>3, QueueStays
<1>10. QED  BY <1>5, <1>6, <1>7, <1>8, <1>9
-----------------------------------------------------------------------------
(* AnyioSingleTask *)

(* What is left of a queue is one. *)
LEMMA UnqueuedType ==
    ASSUME NEW tasks \in Seq(Tasks), NEW t
    PROVE  Unqueued(tasks, t) \in Seq(Tasks)
<1>1. CASE \E i \in DOMAIN tasks : tasks[i] = t
  <2> DEFINE i == CHOOSE i \in DOMAIN tasks : tasks[i] = t
  <2>1. i \in 1..Len(tasks)
    BY <1>1
  <2> HIDE DEF i
  <2>2. SubSeq(tasks, 1, i - 1) \in Seq(Tasks) /\ SubSeq(tasks, i + 1, Len(tasks)) \in Seq(Tasks)
    BY <2>1
  <2>3. SubSeq(tasks, 1, i - 1) \o SubSeq(tasks, i + 1, Len(tasks)) \in Seq(Tasks)
    BY <2>2
  <2>4. QED  BY <1>1, <2>3 DEF Unqueued, i
<1>2. CASE ~\E i \in DOMAIN tasks : tasks[i] = t
  BY <1>2 DEF Unqueued
<1>3. QED  BY <1>1, <1>2

(* The owner of the lock cancels the timer that is held, and nobody else. *)
LEMMA Cancelled ==
    ASSUME QuicAssumption, TypeOK, TurnInv, NEW k \in Tasks, NEW to \in Places,
           turn = None, lock # <<>>, Cancels(handle, k, to)
    PROVE  /\ place' \in [Tasks -> Places] /\ place'[k] = to
           /\ \A u \in Tasks : u # k => place'[u] = IF u = handle THEN "none" ELSE place[u]
           /\ doing' \in [Tasks -> Events \cup {Nothing}]
           /\ lock' \in Seq(Tasks) /\ cut' \in BOOLEAN /\ doomed = None
           /\ doomed' = IF handle = k /\ to # "none" THEN k ELSE None
<1> DEFINE others == {handle} \ {k, None}
<1>1. /\ place' = [u \in Tasks |->
                    IF u = k THEN to ELSE IF u \in others THEN "none" ELSE place[u]]
      /\ doing' = [u \in Tasks |-> IF u = k \/ u \in others THEN Nothing ELSE doing[u]]
      /\ lock' = Unqueued(Tail(lock), handle)
      /\ doomed' = IF handle = k /\ to # "none" THEN k ELSE doomed
  BY DEF Cancels
<1>2. cut' \in BOOLEAN
  BY DEF Cancels, TypeOK
<1>3. None \notin Tasks /\ "none" \in Places
  BY QuicAssumption DEF Tasks, Places
<1>4. place' \in [Tasks -> Places] /\ doing' \in [Tasks -> Events \cup {Nothing}]
  BY <1>1, <1>3 DEF TypeOK
<1>5. doomed = None
  BY <1>3 DEF TurnInv, TypeOK, Tasks
<1>6. Tail(lock) \in Seq(Tasks)
  BY DEF TypeOK
<1>7. lock' \in Seq(Tasks)
  BY <1>1, <1>6, UnqueuedType
<1>8. \A u \in Tasks : u # k => place'[u] = IF u = handle THEN "none" ELSE place[u]
  BY <1>1, <1>3
<1>9. QED  BY <1>1, <1>2, <1>4, <1>5, <1>7, <1>8

(* stop: the timer is cancelled, and the connection is over. *)
LEMMA StopKeeps ==
    ASSUME QuicAssumption, IInv, NEW k \in {Reader} \cup Timers, Stop(k)
    PROVE  IInv'
<1> USE DEF IInv
<1>1. k \in Tasks /\ "events" \in Places /\ Timers \subseteq Tasks /\ Streams \subseteq Tasks
  BY DEF Tasks, Places
<1>2. /\ turn = None /\ place[k] = "stopping" /\ lock # <<>> /\ Head(lock) = k /\ turn' = k
      /\ Cancels(handle, k, "events") /\ handle' = None /\ table' = table \ cids /\ cids' = {}
      /\ UNCHANGED <<fresh, quic, queue, received, gone, streams, resets, told>>
  BY DEF Stop, libVars, h3Vars
<1>3. /\ place' \in [Tasks -> Places] /\ place'[k] = "events"
      /\ \A u \in Tasks : u # k => place'[u] = IF u = handle THEN "none" ELSE place[u]
      /\ doing' \in [Tasks -> Events \cup {Nothing}]
      /\ lock' \in Seq(Tasks) /\ cut' \in BOOLEAN /\ doomed = None
      /\ doomed' = IF handle = k THEN k ELSE None
  BY <1>1, <1>2, Cancelled
<1>4. quic = "terminated"
  BY <1>1, <1>2 DEF EndInv
<1>5. fresh = None /\ \A j \in Tasks : place[j] # "starting"
  BY <1>2 DEF StartInv
<1>6. handle \in Timers \cup {None} /\ None \notin Tasks
  BY QuicAssumption DEF TypeOK, Tasks
<1>7. TypeOK'
  <2>1. table' = {} /\ doomed' \in Timers \cup {None}
    BY <1>2, <1>3, <1>6 DEF TypeOK
  <2>2. QED  BY <1>1, <1>2, <1>3, <2>1 DEF TypeOK
<1>8. TurnInv' /\ StartInv'
  <2>1. \A j \in Tasks : place'[j] # "starting"
    BY <1>3, <1>5
  <2>2. QED  BY <1>1, <1>2, <1>3, <1>4, <1>5, <1>6, <2>1 DEF TurnInv, StartInv
<1>9. LiveInv'
  BY <1>1, <1>2, <1>3, <1>5, <1>6 DEF LiveInv
<1>10. EndInv' /\ ArmedInv'
  BY <1>2, <1>4 DEF EndInv, ArmedInv
<1>11. QueueInv'
  <2>1. \A s \in Streams : s # k
    BY QuicAssumption
  <2>2. \A s \in Streams : place[s] = "none" => place'[s] = "none"
    BY <1>1, <1>3, <2>1
  <2>3. QED  BY <1>2, <2>2, QueueStays
<1>12. QED  BY <1>7, <1>8, <1>9, <1>10, <1>11

(* restart, once it has the lock: the new timer sleeps, the old one is still there. *)
LEMMA RestartKeeps ==
    ASSUME QuicAssumption, IInv, NEW k \in Tasks, Restart(k)
    PROVE  IInv'
<1> USE DEF IInv
<1>1. Timers \subseteq Tasks /\ Streams \subseteq Tasks /\ Reader \in Tasks /\ None \notin Tasks
  BY QuicAssumption DEF Tasks
<1>2. /\ turn = None /\ place[k] = "restarting" /\ lock # <<>> /\ Head(lock) = k
      /\ fresh' \in Timers /\ place[fresh'] = "none"
      /\ place' = [place EXCEPT ![k] = "starting", ![fresh'] = "asleep"]
      /\ UNCHANGED <<quic, queue, received, gone, cids, table, streams, resets, told,
                     doing, turn,
                     lock, handle, doomed, cut>>
  BY DEF Restart, Locked, Free, libVars, h3Vars, endVars
<1>3. k # fresh'
  BY <1>2
<1>4. /\ place' \in [Tasks -> Places] /\ place'[k] = "starting" /\ place'[fresh'] = "asleep"
      /\ \A j \in Tasks : j \notin {k, fresh'} => place'[j] = place[j]
  BY <1>1, <1>2, <1>3 DEF TypeOK, Places
<1>5. fresh = None /\ \A j \in Tasks : place[j] # "starting"
  BY <1>2 DEF StartInv
<1>6. doomed = None /\ fresh' # handle
  BY <1>1, <1>2 DEF TurnInv, LiveInv, TypeOK
<1>7. TypeOK'
  BY <1>2, <1>4 DEF TypeOK
<1>8. TurnInv'
  BY <1>2, <1>6 DEF TurnInv
<1>9. LiveInv'
  <2>1. \A t \in Timers : place'[t] # "none" => t \in {handle, fresh'}
    BY <1>1, <1>2, <1>4, <1>5, <1>6 DEF LiveInv
  <2>2. \A t \in Timers : place'[t] \notin {"idle", "over"}
    BY <1>1, <1>4 DEF LiveInv
  <2>3. handle # None => place'[handle] # "none"
    BY <1>1, <1>4 DEF LiveInv, TypeOK
  <2>4. QED  BY <1>2, <2>1, <2>2, <2>3 DEF LiveInv
<1>10. StartInv'
  <2>1. \A j \in Tasks : place'[j] = "starting" <=> j = k
    BY <1>3, <1>4, <1>5
  <2>2. QED  BY <1>1, <1>2, <1>3, <1>4, <1>6, <2>1 DEF StartInv
<1>11. EndInv' /\ ArmedInv'
  <2>1. fresh' # Reader
    BY <1>2, QuicAssumption
  <2>2. \A j \in Tasks : place'[j] = "stopping" => place[j] = "stopping"
    BY <1>4
  <2>3. QED  BY <1>1, <1>2, <1>4, <2>1, <2>2 DEF EndInv, ArmedInv, Beginning
<1>12. QueueInv'
  <2>1. \A s \in Streams : s # fresh' /\ (place[s] = "none" => s # k)
    BY <1>2, QuicAssumption
  <2>2. \A s \in Streams : place[s] = "none" => place'[s] = "none"
    BY <1>1, <1>4, <2>1
  <2>3. QED  BY <1>2, <2>2, QueueStays
<1>13. QED  BY <1>7, <1>8, <1>9, <1>10, <1>11, <1>12

(* The rest of restart: the old timer is cancelled, were it the one that runs. *)
LEMMA RestartedKeeps ==
    ASSUME QuicAssumption, IInv, NEW k \in Tasks, Restarted(k)
    PROVE  IInv'
<1> USE DEF IInv
<1>1. Timers \subseteq Tasks /\ Streams \subseteq Tasks /\ None \notin Tasks
  BY QuicAssumption DEF Tasks
<1> DEFINE to == Back(k)
<1>2. to \in {"events", "none", "idle"} /\ (k \in Timers => to # "idle")
      /\ (k \notin Timers => to # "none") /\ to \in Places
  BY DEF Back, Places
<1> HIDE DEF to
<1>3. /\ turn = None /\ place[k] = "starting" /\ Cancels(handle, k, to)
      /\ turn' = (IF to = "events" THEN k ELSE None)
      /\ handle' = (IF place[fresh] = "none" THEN None ELSE fresh) /\ fresh' = None
      /\ UNCHANGED <<quic, queue, received, gone, cids, table, streams, resets, told>>
  BY DEF Restarted, to, libVars, h3Vars
<1>4. /\ lock # <<>> /\ Head(lock) = k /\ k # fresh /\ fresh # None /\ fresh # handle
      /\ \A j \in Tasks : place[j] = "starting" => j = k
  BY <1>3 DEF StartInv
<1>5. /\ place' \in [Tasks -> Places] /\ place'[k] = to
      /\ \A u \in Tasks : u # k => place'[u] = IF u = handle THEN "none" ELSE place[u]
      /\ doing' \in [Tasks -> Events \cup {Nothing}]
      /\ lock' \in Seq(Tasks) /\ cut' \in BOOLEAN /\ doomed = None
      /\ doomed' = IF handle = k /\ to # "none" THEN k ELSE None
  BY <1>2, <1>3, <1>4, Cancelled
<1>6. /\ handle \in Timers \cup {None} /\ fresh \in Timers /\ handle' \in {None, fresh}
      /\ place'[fresh] = place[fresh] /\ (handle' = None <=> place[fresh] = "none")
  BY <1>1, <1>3, <1>4, <1>5 DEF TypeOK
<1>7. TypeOK'
  <2>1. turn' \in Tasks \cup {None} /\ doomed' \in Timers \cup {None}
        /\ handle' \in Timers \cup {None} /\ fresh' \in Timers \cup {None}
    BY <1>3, <1>5, <1>6
  <2>2. QED  BY <1>3, <1>5, <2>1 DEF TypeOK
<1>8. TurnInv'
  BY <1>1, <1>2, <1>3, <1>4, <1>5, <1>6 DEF TurnInv
<1>9. LiveInv'
  <2>1. ASSUME NEW t \in Timers, place'[t] # "none"
        PROVE  t \in {handle', fresh', doomed'}
    <3>1. CASE t = k
      <4>1. t = handle
        BY <1>3, <1>4, <1>5, <3>1 DEF LiveInv
      <4>2. QED  BY <1>1, <1>5, <2>1, <3>1, <4>1
    <3>2. CASE t # k
      <4>1. t # handle /\ place[t] # "none"
        BY <1>1, <1>5, <2>1, <3>2
      <4>2. t = fresh
        BY <1>1, <1>5, <4>1 DEF LiveInv
      <4>3. QED  BY <1>6, <4>1, <4>2
    <3>3. QED  BY <3>1, <3>2
  <2>2. \A t \in Timers : place'[t] \notin {"idle", "over"}
    BY <1>1, <1>2, <1>5 DEF LiveInv
  <2>3. handle' # None => place'[handle'] # "none"
    BY <1>6
  <2>4. QED  BY <2>1, <2>2, <2>3 DEF LiveInv
<1>10. StartInv'
  <2>1. \A j \in Tasks : place'[j] # "starting"
    BY <1>2, <1>4, <1>5
  <2>2. QED  BY <1>3, <2>1 DEF StartInv
<1>11. EndInv'
  <2>1. \A j \in Tasks : place'[j] = "stopping" => place[j] = "stopping"
    BY <1>2, <1>5
  <2>2. QED  BY <1>3, <2>1 DEF EndInv
<1>12. ArmedInv'
  BY <1>3, <1>4, <1>6 DEF ArmedInv, StartInv
<1>13. QueueInv'
  <2>1. \A s \in Streams : place[s] = "none" => s # k
    BY <1>3
  <2>2. \A s \in Streams : place[s] = "none" => place'[s] = "none"
    BY <1>1, <1>5, <2>1
  <2>3. QED  BY <1>3, <2>2, QueueStays
<1>14. QED  BY <1>7, <1>8, <1>9, <1>10, <1>11, <1>12, <1>13
-----------------------------------------------------------------------------
(* send_all *)

(* A task suspends to send, or to wait for the lock. *)
LEMMA FlushKeeps ==
    ASSUME QuicAssumption, IInv, NEW k \in Tasks, Flush(k) \/ Flushed(k)
    PROVE  IInv'
<1> USE DEF IInv
<1>1. Timers \subseteq Tasks /\ Streams \subseteq Tasks /\ Reader \in Tasks
  BY DEF Tasks
<1>2. PICK to \in {"sending", "restarting"} : Suspends(k, to, doing[k])
  BY DEF Flush, Flushed
<1>3. /\ place[k] \in {"flushing", "sent"} /\ quic # "terminated"
      /\ UNCHANGED <<quic, queue, received, gone, cids, table, streams, resets, told,
                     handle, fresh>>
      /\ lock' = lock \/ lock' = Append(lock, k)
  BY DEF Flush, Flushed, libVars, h3Vars, timerVars
<1>4. to \in Places /\ doing[k] \in Events \cup {Nothing}
  BY DEF Places, TypeOK
<1>5. /\ place' \in [Tasks -> Places] /\ doing' \in [Tasks -> Events \cup {Nothing}]
      /\ \A j \in Tasks : j # k => place'[j] = place[j]
      /\ place'[k] = (IF k = doomed THEN "none" ELSE to)
      /\ turn' = None /\ doomed' = None /\ cut' \in BOOLEAN /\ (doomed # None => k = doomed)
  BY <1>2, <1>4, Suspended
<1>6. lock' \in Seq(Tasks) /\ (lock # <<>> => lock' # <<>> /\ Head(lock') = Head(lock))
  <2>1. lock \in Seq(Tasks)
    BY DEF TypeOK
  <2>2. /\ Append(lock, k) \in Seq(Tasks)
        /\ lock # <<>> => Append(lock, k) # <<>> /\ Head(Append(lock, k)) = Head(lock)
    BY Appended
  <2>3. QED  BY <1>3, <2>1, <2>2
<1>7. TypeOK'
  BY <1>3, <1>5, <1>6 DEF TypeOK
<1>8. TurnInv' /\ LiveInv' /\ StartInv'
  <2>1. \A t \in Timers : /\ place'[t] \notin {"idle", "over"}
                          /\ place[t] = "none" => place'[t] = "none"
                          /\ place'[t] = "none" => place[t] = "none" \/ t = doomed
    BY <1>1, <1>3, <1>5 DEF LiveInv
  <2>2. \A j \in Tasks :
           place'[j] = place[j] \/ (place[j] # "starting" /\ place'[j] # "starting")
    BY <1>3, <1>5
  <2>3. QED  BY <1>3, <1>5, <1>6, <2>1, <2>2, NothingStarts
<1>9. EndInv' /\ ArmedInv'
  <2>1. \A j \in Tasks : place'[j] = "stopping" => place[j] = "stopping"
    BY <1>5
  <2>2. Reader # doomed
    BY QuicAssumption DEF TypeOK
  <2>3. QED  BY <1>1, <1>3, <1>5, <2>1, <2>2 DEF EndInv, ArmedInv, Beginning
<1>10. QueueInv'
  <2>1. \A s \in Streams : place[s] = "none" => s # k
    BY <1>3
  <2>2. QED  BY <1>1, <1>3, <1>5, <2>1, QueueStays
<1>11. QED  BY <1>7, <1>8, <1>9, <1>10

(* The datagrams are sent. *)
LEMMA SentKeeps ==
    ASSUME QuicAssumption, IInv, NEW k \in Tasks, Sent(k)
    PROVE  IInv'
<1> USE DEF IInv
<1>1. {"sending", "sent"} \subseteq Places
  BY DEF Places
<1>2. /\ Resumes(k, "sending", "sent")
      /\ UNCHANGED <<quic, queue, received, gone, cids, table, lock, handle, fresh,
                     doomed, cut>>
      /\ UNCHANGED <<streams, resets, told, doing>>
  BY DEF Sent, libVars, h3Vars, timerVars, endVars
<1>3. streams' \subseteq Streams /\ resets' \subseteq Streams /\ told' \subseteq Streams
      /\ doing' \in [Tasks -> Events \cup {Nothing}]
  BY <1>2 DEF TypeOK
<1>4. QED  BY <1>1, <1>2, <1>3, ResumedKeeps

(* The connection has ended: no timer is wanted, and the one that sends is over. *)
LEMMA FlushedLastKeeps ==
    ASSUME QuicAssumption, IInv, NEW k \in Tasks, FlushedLast(k)
    PROVE  IInv'
<1> USE DEF IInv
<1>1. Timers \subseteq Tasks /\ Streams \subseteq Tasks /\ None \notin Tasks
  BY QuicAssumption DEF Tasks
<1> DEFINE to == Back(k)
<1>2. to \in {"events", "none", "idle"} /\ (k \in Timers => to # "idle")
      /\ (k \notin Timers => to # "none") /\ to \in Places
  BY DEF Back, Places
<1> HIDE DEF to
<1>3. /\ turn = k /\ place[k] \in {"flushing", "sent"} /\ quic = "terminated"
      /\ place' = [place EXCEPT ![k] = to]
      /\ turn' = (IF to = "events" THEN k ELSE None)
      /\ doing' = [doing EXCEPT ![k] = Nothing]
      /\ doomed' = (IF to = "none" THEN None ELSE doomed)
      /\ handle' = (IF to = "none" /\ handle = k THEN None ELSE handle)
      /\ UNCHANGED <<quic, queue, received, gone, cids, table, streams, resets, told,
                     lock, fresh, cut>>
  BY DEF FlushedLast, to, libVars, h3Vars
<1>4. /\ place' \in [Tasks -> Places] /\ doing' \in [Tasks -> Events \cup {Nothing}]
      /\ place'[k] = to /\ \A j \in Tasks : j # k => place'[j] = place[j]
  BY <1>2, <1>3 DEF TypeOK
<1>5. TypeOK'
  BY <1>3, <1>4 DEF TypeOK
<1>6. doomed # None => doomed = k
  BY <1>3 DEF TurnInv
<1>7. doomed \in Timers \cup {None} /\ handle \in Timers \cup {None}
  BY DEF TypeOK
<1>8. TurnInv'
  BY <1>1, <1>2, <1>3, <1>6, <1>7 DEF TurnInv
<1>9. LiveInv'
  <2>1. ASSUME NEW t \in Timers, place'[t] # "none"
        PROVE  t \in {handle', fresh', doomed'}
    <3>1. CASE t = k
      <4>1. to # "none" /\ place[t] # "none"
        BY <1>1, <1>3, <1>4, <2>1, <3>1
      <4>2. QED  BY <1>3, <4>1 DEF LiveInv
    <3>2. CASE t # k
      <4>1. t \in {handle, fresh, doomed} /\ t # doomed
        BY <1>1, <1>4, <1>6, <2>1, <3>2 DEF LiveInv
      <4>2. QED  BY <1>3, <3>2, <4>1
    <3>3. QED  BY <3>1, <3>2
  <2>2. \A t \in Timers : place'[t] \notin {"idle", "over"}
    BY <1>1, <1>2, <1>4 DEF LiveInv
  <2>3. handle' # None => place'[handle'] # "none"
    BY <1>1, <1>3, <1>4, <1>7 DEF LiveInv
  <2>4. QED  BY <2>1, <2>2, <2>3 DEF LiveInv
<1>10. StartInv'
  <2>1. \A j \in Tasks : place'[j] = "starting" <=> place[j] = "starting"
    BY <1>2, <1>3, <1>4
  <2>2. handle' \in {handle, None}
    BY <1>3
  <2>3. QED  BY <1>3, <2>1, <2>2 DEF StartInv
<1>11. EndInv' /\ ArmedInv'
  BY <1>3 DEF EndInv, ArmedInv
<1>12. QueueInv'
  <2>1. \A s \in Streams : place[s] = "none" => s # k
    BY <1>3
  <2>2. QED  BY <1>1, <1>3, <1>4, <2>1, QueueStays
<1>13. QED  BY <1>5, <1>8, <1>9, <1>10, <1>11, <1>12
-----------------------------------------------------------------------------
(* Applications *)

(* An application sends. *)
LEMMA AppSendsKeeps ==
    ASSUME QuicAssumption, IInv, NEW s \in Streams, AppSends(s)
    PROVE  IInv'
<1> USE DEF IInv
<1>1. s \in Tasks /\ s # Reader /\ {"idle", "flushing"} \subseteq Places
  BY QuicAssumption DEF Tasks, Places
<1>2. /\ Resumes(s, "idle", "flushing")
      /\ UNCHANGED <<quic, queue, received, gone, cids, table, lock, handle, fresh,
                     doomed, cut>>
      /\ UNCHANGED <<streams, resets, told, doing>>
  BY DEF AppSends, libVars, h3Vars, timerVars, endVars
<1>3. streams' \subseteq Streams /\ resets' \subseteq Streams /\ told' \subseteq Streams
      /\ doing' \in [Tasks -> Events \cup {Nothing}]
  BY <1>2 DEF TypeOK
<1>4. QED  BY <1>1, <1>2, <1>3, ResumedKeeps

(* An application meets the reset of its stream, or ends. *)
LEMMA AppEndsKeeps ==
    ASSUME QuicAssumption, IInv, NEW s \in Streams, AppRefused(s) \/ AppEnds(s)
    PROVE  IInv'
<1> USE DEF IInv
<1>1. /\ Timers \subseteq Tasks /\ Streams \subseteq Tasks /\ s \notin Timers /\ s # Reader
      /\ Reader \in Tasks
  BY QuicAssumption DEF Tasks
<1>2. /\ turn = None /\ place[s] = "idle"
      /\ streams' = streams \ {s} /\ resets' \subseteq resets \cup {s}
      /\ told' \subseteq told \cup {s}
      /\ UNCHANGED <<quic, queue, received, gone, cids, table, doing, turn, lock, handle,
                     fresh,
                     doomed, cut>>
  BY DEF AppRefused, AppEnds, libVars, timerVars, endVars
<1>3. /\ place' \in [Tasks -> Places] /\ place'[s] \in {"idle", "handling", "over"}
      /\ \A j \in Tasks : j # s => place'[j] = place[j]
  BY <1>2 DEF AppRefused, AppEnds, TypeOK, Places
<1>4. TypeOK'
  BY <1>2, <1>3 DEF TypeOK
<1>5. TurnInv' /\ LiveInv' /\ StartInv'
  <2>1. \A t \in Timers : place'[t] = place[t] /\ place[t] \notin {"idle", "over"}
    BY <1>1, <1>3 DEF LiveInv
  <2>2. \A j \in Tasks :
           place'[j] = place[j] \/ (place[j] # "starting" /\ place'[j] # "starting")
    BY <1>2, <1>3
  <2>3. QED  BY <1>2, <2>1, <2>2, NothingStarts
<1>6. EndInv' /\ ArmedInv'
  <2>1. \A j \in Tasks : place'[j] = "stopping" => place[j] = "stopping"
    BY <1>3
  <2>2. QED  BY <1>1, <1>2, <1>3, <2>1 DEF EndInv, ArmedInv, Beginning
<1>7. QueueInv'
  <2>1. \A u \in Streams : place[u] = "none" => u # s
    BY <1>2
  <2>2. QED  BY <1>1, <1>2, <1>3, <2>1, QueueStays
<1>8. QED  BY <1>4, <1>5, <1>6, <1>7
-----------------------------------------------------------------------------
(* The invariant holds of every connection. *)
THEOREM Invariant == Spec => []IInv
<1>1. Init => IInv
  <2> SUFFICES ASSUME Init PROVE IInv
    OBVIOUS
  <2>1. /\ quic = "open" /\ queue = <<>> /\ received = 0 /\ gone = {}
        /\ cids = {Original} /\ table = {Original} /\ streams = {} /\ resets = {} /\ told = {}
        /\ turn = Reader /\ lock = <<>> /\ handle = None /\ fresh = None /\ doomed = None
        /\ cut = FALSE
    BY DEF Init
  <2>2. /\ place \in [Tasks -> Places] /\ doing \in [Tasks -> Events \cup {Nothing}]
        /\ \A k \in Tasks : place[k] = IF k = Reader THEN "events" ELSE "none"
    BY DEF Init, Places
  <2>3. Reader \in Tasks /\ Timers \subseteq Tasks
    BY DEF Tasks
  <2>4. TypeOK
    <3>1. queue \in Seq(Events) /\ lock \in Seq(Tasks)
      BY <2>1
    <3>2. received \in 0..MaxEvents /\ cids \subseteq Cids
      BY <2>1, QuicAssumption
    <3>3. cut \in BOOLEAN
      BY <2>1
    <3>4. QED  BY <2>1, <2>2, <2>3, <3>1, <3>2, <3>3 DEF TypeOK
  <2>5. TurnInv /\ StartInv
    BY <2>1, <2>2 DEF TurnInv, StartInv
  <2>6. LiveInv
    BY <2>1, <2>2, <2>3, QuicAssumption DEF LiveInv
  <2>7. EndInv /\ ArmedInv
    BY <2>1, <2>2, <2>3 DEF EndInv, ArmedInv, Beginning
  <2>8. QueueInv
    BY <2>1 DEF QueueInv, Opened
  <2>9. QED  BY <2>4, <2>5, <2>6, <2>7, <2>8 DEF IInv
<1>2. IInv /\ [Next]_vars => IInv'
  <2> SUFFICES ASSUME IInv, [Next]_vars PROVE IInv'
    OBVIOUS
  <2>1. CASE Datagram
    BY <2>1, DatagramKeeps, QuicAssumption
  <2>2. ASSUME NEW k \in {Reader} \cup Timers, Handles(k) \/ Put(k)
        PROVE  IInv'
    BY <2>2, QuicAssumption, CidEventKeeps, TerminatedKeeps, StopKeeps, RequestKeeps,
       BodyEventKeeps, NoEventKeeps, PutKeeps DEF Handles
  <2>3. ASSUME NEW k \in Tasks, Sends(k)
        PROVE  IInv'
    BY <2>3, QuicAssumption, FlushKeeps, SentKeeps, FlushedLastKeeps, RestartKeeps,
       RestartedKeeps
       DEF Sends
  <2>4. ASSUME NEW t \in Timers, Wakes(t) \/ WakesLate(t)
        PROVE  IInv'
    BY <2>4, QuicAssumption, WakesKeeps, WakesLateKeeps
  <2>5. ASSUME NEW s \in Streams, AppSends(s) \/ AppRefused(s) \/ AppEnds(s)
        PROVE  IInv'
    BY <2>5, QuicAssumption, AppSendsKeeps, AppEndsKeeps
  <2>6. CASE UNCHANGED vars
    <3>1. UNCHANGED <<quic, queue, received, gone, cids, table, streams, resets, told,
                      place, doing,
                      turn, lock, handle, fresh, doomed, cut>>
      BY <2>6 DEF vars, libVars, h3Vars, taskVars, timerVars, endVars
    <3>2. TypeOK' /\ TurnInv' /\ LiveInv' /\ StartInv'
      BY <3>1 DEF IInv, TypeOK, TurnInv, LiveInv, StartInv
    <3>3. EndInv' /\ QueueInv' /\ ArmedInv'
      BY <3>1 DEF IInv, EndInv, QueueInv, Opened, ArmedInv, Beginning
    <3>4. QED  BY <3>2, <3>3 DEF IInv
  <2>7. QED  BY <2>1, <2>2, <2>3, <2>4, <2>5, <2>6 DEF Next
<1>3. QED  BY <1>1, <1>2, PTL DEF Spec

(* The table holds the ids of the connection, the tasks are where a task of theirs can
   be, and what they handle are events. *)
THEOREM TypeCorrect == Spec => []TypeOK
<1>1. IInv => TypeOK
  BY DEF IInv
<1>2. QED  BY <1>1, Invariant, PTL

(* As long as the connection lasts, its timer sleeps or a task is about to restart it,
   and it has no second one. *)
THEOREM NeverUnarmed == Spec => []TimerArmed
<1>1. IInv => TimerArmed
  <2> SUFFICES ASSUME IInv PROVE TimerArmed
    OBVIOUS
  <2>1. \/ quic = "terminated" \/ \E k \in Tasks : Rearming(k)
        \/ handle # None /\ place[handle] = "asleep"
    <3>1. CASE handle # None
      <4>1. handle \in Timers /\ handle \in Tasks /\ place[handle] \in Places
        BY <3>1 DEF IInv, TypeOK, Tasks
      <4>2. place[handle] \notin {"none", "idle", "over"}
        BY <3>1, <4>1 DEF IInv, LiveInv
      <4>3. QED  BY <3>1, <4>1, <4>2 DEF Rearming, Places
    <3>2. CASE handle = None /\ quic # "terminated"
      BY <3>2 DEF IInv, ArmedInv, Beginning, Rearming, Tasks
    <3>3. QED  BY <3>1, <3>2
  <2>2. ASSUME fresh = None
        PROVE  Cardinality({t \in Timers \ {doomed} : place[t] # "none"}) <= 1
    <3>1. {t \in Timers \ {doomed} : place[t] # "none"} \subseteq {handle}
      BY <2>2, QuicAssumption DEF IInv, LiveInv
    <3>2. Cardinality({handle}) = 1 /\ IsFiniteSet({handle})
      BY FS_Singleton
    <3>3. Cardinality({t \in Timers \ {doomed} : place[t] # "none"}) <= Cardinality({handle})
      BY <3>1, <3>2, FS_Subset
    <3>4. QED  BY <3>2, <3>3
  <2>3. QED  BY <2>1, <2>2 DEF TimerArmed
<1>2. QED  BY <1>1, Invariant, PTL
=============================================================================
