------------------------------ MODULE WSStreamProofs ------------------------------
(***************************************************************************)
(* Proofs about WSStream, for any number of frames, any room ahead of the  *)
(* acceptance and in the application's queue, with or without pings.       *)
(***************************************************************************)
EXTENDS WSStream, TLAPS

(* Where each task may be. *)
Handling == {"events", "putting", "pong", "toobig", "reply", "closing"}
Erring   == {"errhead", "errend"}
Denying  == {"rejmore", "rejlast", "rejend"}

PlaceInv ==
    /\ pc["reader"] \in Handling \cup Erring
           \cup {"request", "receive", "badhead", "badend", "ending", "gone", "crashed"}
    /\ pc["app"] \in Handling \cup Erring \cup Denying
           \cup {"none", "run", "accept", "accepted", "failing", "message", "abort", "ending",
                 "gone", "crashed"}
    /\ pc["pinger"] \in {"none", "asleep", "ping", "gone"}

(* Before the request nothing has happened, and without one that is accepted there
   is no application. *)
FreshInv ==
    /\ pc["reader"] = "request" => /\ http = "IDLE" /\ stream /\ ~closed /\ pc["app"] = "none"
                                   /\ told = <<>>
    /\ pc["reader"] \in {"badhead", "badend"} => pc["app"] = "none"
    /\ pc["app"] = "none" => ~listening /\ state = "HANDSHAKE" /\ pc["pinger"] = "none"

(* Once the stream is closed the application, if there is one, has been told. *)
ClosedInv ==
    /\ Len(told) <= 1 /\ (told # <<>> => closed)
    /\ closed /\ pc["app"] # "none" => Len(told) = 1
    /\ (~up => ~stream) /\ (~stream => closed) /\ (losing # {} => closed)
    /\ pc["reader"] = "gone" => closed

(* Why the stream may end. *)
CodeInv ==
    /\ \A t \in Tasks : pc[t] \in {"reply", "closing"} => closeCode
    /\ pc["reader"] \in Erring \cup {"ending"} /\ pc["app"] # "none" => early = "cut"
    /\ pc["app"] \in Erring \cup {"ending", "abort"} /\ listening =>
           state \in {"HTTPCLOSED", "CLOSED"}
    /\ told = <<"abnormal">> /\ listening => dropped \/ early = "cut"

(* The state follows what the application does. *)
StateInv ==
    /\ pc["app"] \in Handling \cup {"message", "accept", "accepted"} =>
           state \in {"CONNECTED", "CLOSED"}
    /\ pc["app"] \in {"rejmore", "rejlast"} => state \in {"HANDSHAKE", "RESPONSE"}
    /\ pc["app"] = "rejend" => state = "HTTPCLOSED"
    /\ pc["app"] \in Erring => state \in {"HANDSHAKE", "HTTPCLOSED"}
    /\ pc["app"] \in {"run", "failing"} /\ state = "HANDSHAKE" => http = "IDLE" \/ early = "cut"

(* What came ahead of the acceptance is handled by the application, or cut off
   without one. *)
EarlyInv ==
    /\ pc["app"] \in Handling => early # "none"
    /\ pc["app"] \in {"accept", "accepted"} => early # "cut" /\ ws # "none"
    /\ early = "cut" => http # "IDLE"
    /\ ws = "CLOSED" => early # "none" \/ closed \/ pc["reader"] \in {"reply", "closing"}

(* A task that is to log an answer. *)
ReaderAnswers == pc["reader"] \in Erring
AppAnswers    == pc["app"] \in Erring \cup Denying \cup {"accept"} \/ state = "RESPONSE"

(* One of them answers, and logs once. *)
LogInv ==
    /\ logged <= 1
    /\ http = "IDLE" \/ ReaderAnswers \/ AppAnswers => logged = 0
    /\ http = "IDLE" => ~ReaderAnswers /\ ~AppAnswers
    /\ ~(ReaderAnswers /\ AppAnswers)

(* h11 takes the head and the end of one response, or a task has failed. *)
CrashInv ==
    /\ pc["reader"] = "errhead" => http = "SEND_BODY" \/ early = "cut"
    /\ pc["app"] = "errhead" => http = "SEND_BODY" \/ Crashed
    /\ Crashed => early # "none" \/ (state = "CONNECTED" /\ ws = "none") \/ TooLarge(buffer)

IInv == /\ TypeOK /\ PlaceInv /\ FreshInv /\ ClosedInv /\ CodeInv /\ StateInv /\ EarlyInv
        /\ LogInv /\ CrashInv
-----------------------------------------------------------------------------
(* The frames that are in one place or another, of those that were sent. *)
LEMMA Frames ==
    ASSUME TypeOK
    PROVE  /\ inbound \in Seq(DOMAIN sent) /\ held \in Seq(DOMAIN sent)
           /\ frames \in Seq(DOMAIN sent) /\ buffer \in Seq(DOMAIN sent)
BY DEF TypeOK

(* They stay so when one more is sent. *)
LEMMA MoreFrames ==
    ASSUME NEW ks \in Seq(Kinds), NEW k \in Kinds, NEW s \in Seq(DOMAIN ks)
    PROVE  s \in Seq(DOMAIN Append(ks, k))
<1>1. DOMAIN ks = 1..Len(ks) /\ Len(ks) \in Nat
  OBVIOUS
<1>2. DOMAIN Append(ks, k) = 1..(Len(ks) + 1)
  OBVIOUS
<1>3. DOMAIN ks \subseteq DOMAIN Append(ks, k)
  BY <1>1, <1>2
<1>4. QED  BY <1>3

(* A put finds room, or its task waits; nothing is put for an application that is over. *)
LEMMA Enqueued ==
    ASSUME WSAssumption, TypeOK, NEW t \in Tasks, Enqueue(t)
    PROVE  queued' \in 0..MaxQueue /\ putters' \in Seq(Tasks)
<1>1. queued \in 0..MaxQueue /\ putters \in Seq(Tasks) /\ MaxQueue \in Nat \ {0}
  BY WSAssumption DEF TypeOK
<1>2. Append(putters, t) \in Seq(Tasks)
  BY <1>1
<1>3. CASE ~listening
  BY <1>1, <1>3 DEF Enqueue
<1>4. CASE listening /\ queued < MaxQueue
  BY <1>1, <1>4 DEF Enqueue
<1>5. CASE listening /\ ~(queued < MaxQueue)
  BY <1>1, <1>2, <1>5 DEF Enqueue
<1>6. QED  BY <1>3, <1>4, <1>5

(* The application is told by the first that closes the stream, for a reason. *)
LEMMA Told ==
    ASSUME WSAssumption, TypeOK, ClosedInv, CodeInv, NEW t \in Tasks, HandleClosed(t),
           listening /\ pc["app"] # "none" /\ ~closed =>
              closeCode \/ state \in {"HTTPCLOSED", "CLOSED"} \/ dropped \/ early = "cut"
    PROVE  /\ closed' = TRUE /\ queued' \in 0..MaxQueue /\ putters' \in Seq(Tasks)
           /\ told' \in Seq({"peer", "normal", "abnormal"})
           /\ Len(told') <= 1 /\ (pc["app"] # "none" => Len(told') = 1)
           /\ told' = <<"abnormal">> /\ listening => dropped \/ early = "cut"
<1>1. closed' = TRUE
  BY DEF HandleClosed
<1>2. CASE closed \/ pc["app"] = "none"
  <2>1. UNCHANGED <<told, queued, putters>>
    BY <1>2 DEF HandleClosed
  <2>2. QED  BY <1>1, <1>2, <2>1 DEF TypeOK, ClosedInv, CodeInv
<1>3. CASE ~(closed \/ pc["app"] = "none")
  <2>1. told' = Append(told, CloseCode) /\ Enqueue(t)
    BY <1>3 DEF HandleClosed
  <2>2. told = <<>>
    BY <1>3 DEF ClosedInv
  <2>3. CloseCode \in {"peer", "normal", "abnormal"}
    BY DEF CloseCode
  <2>4. told' = <<CloseCode>> /\ Len(told') = 1
    BY <2>1, <2>2
  <2>5. told' \in Seq({"peer", "normal", "abnormal"})
    BY <2>3, <2>4
  <2>6. told' = <<"abnormal">> => CloseCode = "abnormal"
    BY <2>4
  <2>7. CloseCode = "abnormal" => ~closeCode /\ state \notin {"HTTPCLOSED", "CLOSED"}
    BY DEF CloseCode
  <2>8. queued' \in 0..MaxQueue /\ putters' \in Seq(Tasks)
    BY <2>1, Enqueued
  <2>9. QED  BY <1>1, <1>3, <2>4, <2>5, <2>6, <2>7, <2>8
<1>4. QED  BY <1>2, <1>3

(* A task that goes on with the events, or is done with them, keeps the rest. *)
LEMMA Handled ==
    ASSUME TypeOK, PlaceInv, FreshInv, ClosedInv, CodeInv, StateInv, EarlyInv, LogInv, CrashInv,
           ~Crashed, NEW t \in {"reader", "app"}, pc[t] \in {"events", "putting"},
           NEW place \in {"events", "putting", "pong", "toobig", Done(t)}, Go(t, place),
           ws' = ws \/ (ws = "OPEN" /\ ws' = "LOCAL_CLOSING"),
           UNCHANGED <<life, conn, losing, listening, told, logged, early>>
    PROVE  /\ pc' \in [Tasks -> Places]
           /\ PlaceInv' /\ FreshInv' /\ ClosedInv' /\ CodeInv' /\ StateInv' /\ EarlyInv'
           /\ LogInv' /\ CrashInv'
<1> USE DEF life, conn
<1>1. /\ pc \in [Tasks -> Places] /\ pc' = [pc EXCEPT ![t] = place]
      /\ place \in Handling \cup {"receive", "run", "gone"}
      /\ (place \in {"receive", "run", "gone"} => place = Done(t))
      /\ t \in Tasks /\ place \in Places
  BY DEF TypeOK, Go, Done, Handling, Tasks, Places, Writing
<1>2. pc' \in [Tasks -> Places]
  BY <1>1
<1>3. /\ t = "reader" => pc'["reader"] = place /\ place # "run" /\ place # "gone"
                         /\ pc'["app"] = pc["app"]
      /\ t = "app" => /\ pc'["app"] = place /\ place # "receive"
                      /\ place = "run" <=> place = Done(t) /\ listening
                      /\ pc'["reader"] = pc["reader"]
      /\ pc'["pinger"] = pc["pinger"] /\ place # "none"
  BY <1>1 DEF Tasks, Done, Handling
<1>4. pc[t] \in Handling /\ place \notin {"reply", "closing"}
  BY DEF Handling, Done
<1>5. PlaceInv'
  BY <1>1, <1>3 DEF PlaceInv
<1>6. FreshInv'
  BY <1>1, <1>3, <1>4 DEF FreshInv, Handling
<1>7. ClosedInv'
  BY <1>1, <1>3, <1>4 DEF ClosedInv, Handling
<1>8. CodeInv'
  BY <1>1, <1>3, <1>4 DEF CodeInv, Handling, Tasks, Erring
<1>9. StateInv'
  BY <1>1, <1>3, <1>4 DEF StateInv, Handling, Erring
<1>10. EarlyInv'
  BY <1>1, <1>3, <1>4 DEF EarlyInv, Handling
<1>11. LogInv'
  BY <1>1, <1>3, <1>4 DEF LogInv, ReaderAnswers, AppAnswers, Handling, Erring, Denying
<1>12. CrashInv'
  <2>1. ~Crashed'
    BY <1>1, <1>3 DEF Crashed, Tasks, Handling
  <2>2. QED  BY <1>1, <1>3, <2>1 DEF CrashInv, Handling
<1>13. QED
  BY <1>2, <1>5, <1>6, <1>7, <1>8, <1>9, <1>10, <1>11, <1>12

(* The next event is taken from those received. *)
LEMMA Taken ==
    ASSUME TypeOK, NEW t, NEW kinds, Take(t, kinds), UNCHANGED sent
    PROVE  /\ pc[t] = "events" /\ frames' \in Seq(DOMAIN sent')
           /\ Append(buffer, Head(frames)) \in Seq(DOMAIN sent')
<1>1. frames \in Seq(DOMAIN sent) /\ buffer \in Seq(DOMAIN sent)
  BY Frames
<1>2. frames # <<>> /\ frames' = Tail(frames) /\ pc[t] = "events" /\ sent' = sent
  BY DEF Take
<1>3. Head(frames) \in DOMAIN sent /\ Tail(frames) \in Seq(DOMAIN sent)
  BY <1>1, <1>2
<1>4. Append(buffer, Head(frames)) \in Seq(DOMAIN sent)
  BY <1>1, <1>3
<1>5. QED  BY <1>2, <1>3, <1>4

LEMMA TakePieceKeeps ==
    ASSUME IInv, ~Crashed, NEW t \in {"reader", "app"}, TakePiece(t)
    PROVE  IInv'
<1> USE DEF IInv
<1>1. Take(t, {"part", "big"}) /\ buffer' = Append(buffer, Head(frames))
      /\ UNCHANGED <<wire, held, life, conn, losing, chan, logged, early>>
  BY DEF TakePiece
<1>2. /\ ws' = ws \/ (ws = "OPEN" /\ ws' = "LOCAL_CLOSING")
      /\ pc' = pc \/ Go(t, "toobig") \/ Go(t, Done(t))
  BY DEF TakePiece
<1>3. /\ pc[t] = "events" /\ frames' \in Seq(DOMAIN sent') /\ buffer' \in Seq(DOMAIN sent')
  BY <1>1, Taken DEF wire
<1>4. pc' = pc => Go(t, "events")
  BY <1>3 DEF Go, TypeOK
<1>5. \E place \in {"events", "putting", "pong", "toobig", Done(t)} : Go(t, place)
  BY <1>2, <1>4
<1>6. /\ pc' \in [Tasks -> Places]
      /\ PlaceInv' /\ FreshInv' /\ ClosedInv' /\ CodeInv' /\ StateInv' /\ EarlyInv'
      /\ LogInv' /\ CrashInv'
  BY <1>1, <1>2, <1>3, <1>5, Handled DEF chan
<1>7. ws' \in {"none", "OPEN", "LOCAL_CLOSING", "CLOSED"}
  BY <1>2 DEF TypeOK
<1>8. UNCHANGED <<sent, inbound, held, life, conn, losing, chan, logged, early>>
  BY <1>1 DEF wire
<1>9. TypeOK'
  BY <1>3, <1>6, <1>7, <1>8 DEF TypeOK, life, conn, chan
<1>10. QED  BY <1>6, <1>9

LEMMA TakeLastKeeps ==
    ASSUME WSAssumption, IInv, ~Crashed, NEW t \in {"reader", "app"}, TakeLast(t)
    PROVE  IInv'
<1> USE DEF IInv
<1> DEFINE message == Append(buffer, Head(frames))
<1>1. /\ Take(t, {"last"})
      /\ UNCHANGED <<wire, held, ws, life, conn, losing, listening, told, logged, early>>
  BY DEF TakeLast
<1>2. /\ pc[t] = "events" /\ frames' \in Seq(DOMAIN sent') /\ message \in Seq(DOMAIN sent')
  BY <1>1, Taken DEF wire
<1>3. /\ pc' = pc \/ Go(t, "putting") \/ Go(t, Done(t))
      /\ buffer' = message \/ buffer' = <<>>
      /\ UNCHANGED <<queued, putters>> \/ Enqueue(t)
  BY DEF TakeLast
<1>4. pc' = pc => Go(t, "events")
  BY <1>2 DEF Go, TypeOK
<1>5. \E place \in {"events", "putting", "pong", "toobig", Done(t)} : Go(t, place)
  BY <1>3, <1>4
<1>6. /\ pc' \in [Tasks -> Places]
      /\ PlaceInv' /\ FreshInv' /\ ClosedInv' /\ CodeInv' /\ StateInv' /\ EarlyInv'
      /\ LogInv' /\ CrashInv'
  BY <1>1, <1>2, <1>5, Handled
<1>7. t \in Tasks
  BY DEF Tasks
<1>8. queued' \in 0..MaxQueue /\ putters' \in Seq(Tasks)
  BY <1>3, <1>7, Enqueued DEF TypeOK
<1>9. buffer' \in Seq(DOMAIN sent')
  <2>1. <<>> \in Seq(DOMAIN sent')
    OBVIOUS
  <2>2. QED  BY <1>2, <1>3, <2>1
<1>10. UNCHANGED <<sent, inbound, held, ws, life, conn, losing, listening, told, logged, early>>
  BY <1>1 DEF wire
<1>11. TypeOK'
  <2> HIDE DEF message
  <2>1. QED  BY <1>2, <1>6, <1>8, <1>9, <1>10 DEF TypeOK, life, conn
<1>12. QED  BY <1>6, <1>11

LEMMA PutDoneKeeps ==
    ASSUME IInv, ~Crashed, NEW t \in {"reader", "app"}, PutDone(t)
    PROVE  IInv'
<1> USE DEF IInv
<1>1. /\ pc[t] = "putting" /\ buffer' = <<>> /\ Go(t, "events")
      /\ UNCHANGED <<sent, inbound, held, frames, ws, life, conn, losing, chan, logged, early>>
  BY DEF PutDone, wire
<1>2. /\ pc' \in [Tasks -> Places]
      /\ PlaceInv' /\ FreshInv' /\ ClosedInv' /\ CodeInv' /\ StateInv' /\ EarlyInv'
      /\ LogInv' /\ CrashInv'
  BY <1>1, Handled DEF chan
<1>3. TypeOK'
  BY <1>1, <1>2 DEF TypeOK, life, conn, chan
<1>4. QED  BY <1>2, <1>3

LEMMA TakePingKeeps ==
    ASSUME IInv, ~Crashed, NEW t \in {"reader", "app"}, TakePing(t)
    PROVE  IInv'
<1> USE DEF IInv
<1>1. /\ Take(t, {"ping"})
      /\ pc' = pc \/ Go(t, "pong")
      /\ UNCHANGED <<wire, held, ws, buffer, life, conn, losing, chan, logged, early>>
  BY DEF TakePing
<1>2. pc[t] = "events" /\ frames' \in Seq(DOMAIN sent')
  BY <1>1, Taken DEF wire
<1>3. pc' = pc => Go(t, "events")
  BY <1>2 DEF Go, TypeOK
<1>4. \E place \in {"events", "putting", "pong", "toobig", Done(t)} : Go(t, place)
  BY <1>1, <1>3
<1>5. /\ pc' \in [Tasks -> Places]
      /\ PlaceInv' /\ FreshInv' /\ ClosedInv' /\ CodeInv' /\ StateInv' /\ EarlyInv'
      /\ LogInv' /\ CrashInv'
  BY <1>1, <1>2, <1>4, Handled DEF chan
<1>6. UNCHANGED <<sent, inbound, held, ws, buffer, life, conn, losing, chan, logged, early>>
  BY <1>1 DEF wire
<1>7. TypeOK'
  BY <1>2, <1>5, <1>6 DEF TypeOK, life, conn, chan
<1>8. QED  BY <1>5, <1>7

LEMMA NoEventsKeeps ==
    ASSUME IInv, ~Crashed, NEW t \in {"reader", "app"}, NoEvents(t)
    PROVE  IInv'
<1> USE DEF IInv
<1>1. /\ pc[t] = "events" /\ Go(t, Done(t))
      /\ UNCHANGED <<wire, proto, life, conn, losing, chan, logged, early>>
  BY DEF NoEvents
<1>2. /\ pc' \in [Tasks -> Places]
      /\ PlaceInv' /\ FreshInv' /\ ClosedInv' /\ CodeInv' /\ StateInv' /\ EarlyInv'
      /\ LogInv' /\ CrashInv'
  BY <1>1, Handled DEF chan, proto
<1>3. TypeOK'
  BY <1>1, <1>2 DEF TypeOK, wire, proto, life, conn, chan
<1>4. QED  BY <1>2, <1>3

(* The peer's close frame gives the code, and whoever took it goes on to close. *)
LEMMA TakeCloseKeeps ==
    ASSUME IInv, ~Crashed, NEW t \in {"reader", "app"}, TakeClose(t)
    PROVE  IInv'
<1> USE DEF IInv
<1>1. /\ Take(t, {"close"}) /\ closeCode' = TRUE
      /\ UNCHANGED <<wire, held, buffer, state, response, closed, stream, conn, losing, chan,
                     logged, early>>
  BY DEF TakeClose
<1>2. pc[t] = "events" /\ frames' \in Seq(DOMAIN sent')
  BY <1>1, Taken DEF wire
<1>3. PICK place \in {"reply", "closing"} : Go(t, place)
  BY DEF TakeClose
<1>4. ws' \in {ws, "CLOSED"}
  BY DEF TakeClose
<1>5. /\ pc \in [Tasks -> Places] /\ pc' = [pc EXCEPT ![t] = place]
      /\ place \in {"reply", "closing"} /\ t \in Tasks /\ place \in Places
  BY <1>3 DEF TypeOK, Go, Tasks, Places, Writing
<1>6. /\ t = "reader" => pc'["reader"] \in {"reply", "closing"} /\ pc'["app"] = pc["app"]
      /\ t = "app" => pc'["app"] \in {"reply", "closing"} /\ pc'["reader"] = pc["reader"]
      /\ pc'["pinger"] = pc["pinger"] /\ pc' \in [Tasks -> Places]
  BY <1>5 DEF Tasks
<1>7. UNCHANGED <<sent, inbound, held, buffer, state, response, closed, stream, http, up, dropped,
                  losing, listening, queued, putters, told, logged, early>>
  BY <1>1 DEF wire, conn, chan
<1>8. TypeOK'
  BY <1>1, <1>2, <1>6, <1>7, <1>4 DEF TypeOK
<1>9. PlaceInv'
  BY <1>6 DEF PlaceInv, Handling
<1>10. FreshInv' /\ ClosedInv'
  BY <1>2, <1>6, <1>7 DEF FreshInv, ClosedInv
<1>11. CodeInv' /\ StateInv'
  BY <1>1, <1>2, <1>6, <1>7, <1>4 DEF CodeInv, StateInv, Handling, Erring
<1>12. EarlyInv'
  BY <1>1, <1>2, <1>6, <1>7, <1>4 DEF EarlyInv, Handling
<1>13. LogInv'
  BY <1>2, <1>6, <1>7 DEF LogInv, ReaderAnswers, AppAnswers, Erring, Denying
<1>14. CrashInv'
  <2>1. ~Crashed'
    BY <1>6 DEF Crashed, Tasks
  <2>2. QED  BY <1>6, <1>7, <2>1 DEF CrashInv
<1>15. QED  BY <1>8, <1>9, <1>10, <1>11, <1>12, <1>13, <1>14

(* A message that cannot follow what the buffer holds fails its task. *)
LEMMA TakeOtherKeeps ==
    ASSUME IInv, ~Crashed, NEW t \in {"reader", "app"}, TakeOther(t)
    PROVE  IInv'
<1> USE DEF IInv
<1> DEFINE place == IF t = "reader" THEN "crashed" ELSE "failing"
<1>1. /\ Take(t, {"part", "last", "big"}) /\ Go(t, place) /\ TooLarge(buffer)
      /\ UNCHANGED <<wire, held, ws, buffer, life, conn, losing, chan, logged, early>>
  BY DEF TakeOther
<1>2. pc[t] = "events" /\ frames' \in Seq(DOMAIN sent')
  BY <1>1, Taken DEF wire
<1>3. pc \in [Tasks -> Places] /\ pc' = [pc EXCEPT ![t] = place] /\ t \in Tasks
      /\ place \in Places
  BY <1>1 DEF TypeOK, Go, Tasks, Places, Writing
<1>4. /\ t = "reader" => pc'["reader"] = "crashed" /\ pc'["app"] = pc["app"]
      /\ t = "app" => pc'["app"] = "failing" /\ pc'["reader"] = pc["reader"]
      /\ pc'["pinger"] = pc["pinger"] /\ pc' \in [Tasks -> Places]
  BY <1>3 DEF Tasks
<1>5. UNCHANGED <<sent, inbound, held, ws, buffer, state, response, closed, closeCode, stream,
                  http, up, dropped, losing, listening, queued, putters, told, logged, early>>
  BY <1>1 DEF wire, life, conn, chan
<1> HIDE DEF place
<1>6. TypeOK'
  BY <1>1, <1>2, <1>4, <1>5 DEF TypeOK
<1>7. PlaceInv'
  BY <1>4 DEF PlaceInv
<1>8. FreshInv' /\ ClosedInv'
  BY <1>2, <1>4, <1>5 DEF FreshInv, ClosedInv
<1>9. CodeInv' /\ StateInv'
  BY <1>2, <1>4, <1>5 DEF CodeInv, StateInv, Handling, Erring, Tasks
<1>10. EarlyInv'
  BY <1>2, <1>4, <1>5 DEF EarlyInv, Handling
<1>11. LogInv'
  BY <1>2, <1>4, <1>5 DEF LogInv, ReaderAnswers, AppAnswers, Erring, Denying
<1>12. CrashInv'
  <2>1. TooLarge(buffer)'
    BY <1>1, <1>5 DEF TooLarge, Kind
  <2>2. QED  BY <1>2, <1>4, <1>5, <2>1 DEF CrashInv, Crashed, Tasks
<1>13. QED  BY <1>6, <1>7, <1>8, <1>9, <1>10, <1>11, <1>12

(* A send that is over, one way or the other: where its task goes, and what is
   written of a response; the stream may be closed by then. *)
LEMMA WroteKeeps ==
    ASSUME TypeOK, PlaceInv, FreshInv, ClosedInv, CodeInv, StateInv, EarlyInv, LogInv, CrashInv,
           ~Crashed, NEW t \in Tasks, pc[t] \in Writing, Wrote(t),
           closed => closed',
           told' = <<"abnormal">> /\ listening => dropped \/ early = "cut",
           UNCHANGED <<ws, closeCode, dropped, listening, early>>
    PROVE  /\ pc' \in [Tasks -> Places] /\ logged' \in Nat
           /\ state' \in {"HANDSHAKE", "CONNECTED", "RESPONSE", "CLOSED", "HTTPCLOSED"}
           /\ http' \in {"IDLE", "SEND_BODY", "DONE", "SWITCHED_PROTOCOL", "ERROR"}
           /\ pc["reader"] # "request" /\ pc'["reader"] # "request"
           /\ pc'["reader"] = "gone" => pc["reader"] = "gone"
           /\ pc'["app"] = "none" <=> pc["app"] = "none"
           /\ PlaceInv' /\ FreshInv' /\ CodeInv' /\ StateInv' /\ EarlyInv' /\ LogInv'
           /\ CrashInv'
<1> USE DEF Writing
<1>1. /\ pc \in [Tasks -> Places] /\ pc' = [pc EXCEPT ![t] = AfterWrite(t)]
      /\ AfterWrite(t) \in Places
  BY DEF TypeOK, Wrote, Go, AfterWrite, Done, Places
<1>2. pc' \in [Tasks -> Places]
  BY <1>1
<1>3. pc["reader"] # "request"
  BY DEF FreshInv, PlaceInv, Tasks
<1>4. /\ logged \in Nat /\ logged' \in Nat
      /\ state' \in {"HANDSHAKE", "CONNECTED", "RESPONSE", "CLOSED", "HTTPCLOSED"}
      /\ http' \in {"IDLE", "SEND_BODY", "DONE", "SWITCHED_PROTOCOL", "ERROR"}
      /\ http' = http \/ http' \in {"DONE", "ERROR"}
  BY DEF TypeOK, Wrote
<1>5. CASE t = "reader"
  <2>1. /\ pc["reader"] \in {"pong", "toobig", "reply", "errhead", "errend", "badhead", "badend"}
        /\ pc'["reader"] = AfterWrite("reader") /\ pc'["app"] = pc["app"]
        /\ pc'["pinger"] = pc["pinger"] /\ state' = state
    BY <1>1, <1>5 DEF PlaceInv, Handling, Erring, Tasks, Wrote
  <2>2. CASE pc["reader"] = "errhead"
    <3>1. /\ pc'["reader"] = (IF http = "SEND_BODY" THEN "errend" ELSE "crashed")
          /\ logged' = logged /\ http' \in {"DONE", "ERROR"}
      BY <1>5, <2>1, <2>2 DEF AfterWrite, Wrote
    <3>2. PlaceInv'
      BY <2>1, <3>1 DEF PlaceInv, Erring
    <3>3. StateInv' /\ EarlyInv'
      BY <2>1, <2>2, <3>1 DEF CodeInv, FreshInv, StateInv, EarlyInv, Handling, Erring
    <3>4. FreshInv' /\ CodeInv'
      BY <2>1, <2>2, <3>1 DEF CodeInv, FreshInv, Erring, Tasks
    <3>5. LogInv'
      BY <2>1, <2>2, <3>1 DEF LogInv, ReaderAnswers, AppAnswers, Erring
    <3>6. Crashed' => early # "none"
      BY <2>1, <2>2, <3>1 DEF PlaceInv, Crashed, CrashInv, Tasks
    <3>7. CrashInv'
      BY <2>1, <2>2, <3>1, <3>6 DEF CrashInv, LogInv, ReaderAnswers, AppAnswers, Erring
    <3>8. QED  BY <1>2, <1>3, <1>4, <2>1, <3>1, <3>2, <3>3, <3>5, <3>7, <3>4
  <2>3. CASE pc["reader"] # "errhead"
    <3>1. /\ pc'["reader"] \in {"events", "receive", "closing", "badend", "ending"}
          /\ pc["reader"] = "errend" => logged' = logged + 1
          /\ pc["reader"] # "errend" => logged' = logged
          /\ pc["reader"] = "reply" => pc'["reader"] = "closing"
          /\ pc["reader"] # "badhead" => http' = http
          /\ pc'["reader"] = "badend" => pc["reader"] = "badhead"
          /\ pc'["reader"] = "closing" => pc["reader"] = "reply"
          /\ pc'["reader"] = "ending" => pc["reader"] \in {"badend", "errend"}
      BY <1>5, <2>1, <2>3 DEF AfterWrite, Wrote, Done
    <3>2. PlaceInv'
      BY <2>1, <3>1 DEF PlaceInv, Handling
    <3>3. StateInv' /\ EarlyInv'
      BY <1>4, <2>1, <3>1 DEF FreshInv, StateInv, EarlyInv, Handling, Erring
    <3>4. FreshInv' /\ CodeInv'
      BY <1>4, <2>1, <3>1 DEF CodeInv, FreshInv, Erring, Tasks
    <3>5. LogInv'
      BY <1>4, <2>1, <2>3, <3>1 DEF LogInv, ReaderAnswers, AppAnswers, Erring
    <3>6. ~Crashed'
      BY <2>1, <3>1 DEF Crashed, Tasks
    <3>7. CrashInv'
      BY <1>4, <2>1, <2>3, <3>1, <3>6 DEF CrashInv, FreshInv
    <3>8. QED  BY <1>2, <1>3, <1>4, <2>1, <3>1, <3>2, <3>3, <3>5, <3>7, <3>4
  <2>4. QED  BY <2>2, <2>3
<1>6. CASE t = "app"
  <2>1. /\ pc["app"] \in Writing \ {"ping", "badhead", "badend"}
        /\ pc'["app"] = AfterWrite("app") /\ pc'["reader"] = pc["reader"]
        /\ pc'["pinger"] = pc["pinger"]
    BY <1>1, <1>6 DEF PlaceInv, Handling, Erring, Denying, Tasks
  <2>2. CASE pc["app"] \in {"errhead", "rejlast"}
    <3>1. /\ pc["app"] = "errhead" =>
                 /\ pc'["app"] = (IF http = "SEND_BODY" THEN "errend" ELSE "crashed")
                 /\ state' = state
          /\ pc["app"] = "rejlast" => pc'["app"] = "rejend" /\ state' = "HTTPCLOSED"
          /\ logged' = logged /\ http' \in {"DONE", "ERROR"}
      BY <1>6, <2>1, <2>2 DEF AfterWrite, Wrote
    <3>2. PlaceInv'
      BY <2>1, <2>2, <3>1 DEF PlaceInv, Erring, Denying
    <3>3. StateInv' /\ EarlyInv'
      BY <2>1, <2>2, <3>1 DEF StateInv, EarlyInv, Handling, Erring
    <3>4. FreshInv' /\ CodeInv'
      BY <2>1, <2>2, <3>1 DEF CodeInv, FreshInv, Erring, Tasks
    <3>5. LogInv'
      BY <2>1, <2>2, <3>1 DEF LogInv, ReaderAnswers, AppAnswers, Erring, Denying
    <3>6. ~Crashed'
      BY <2>1, <2>2, <3>1 DEF PlaceInv, Crashed, CrashInv, Tasks
    <3>7. CrashInv'
      BY <2>1, <2>2, <3>1, <3>6
      DEF CrashInv, LogInv, ReaderAnswers, AppAnswers, Erring, Denying
    <3>8. QED  BY <1>2, <1>3, <1>4, <2>1, <2>2, <3>1, <3>2, <3>3, <3>5, <3>7, <3>4
  <2>3. CASE pc["app"] \notin {"errhead", "rejlast"}
    <3>1. /\ pc'["app"] \in {"accepted", "events", "closing", "ending", "run", "gone"}
          /\ pc["app"] \in {"errend", "rejend", "accept"} => logged' = logged + 1
          /\ pc["app"] \notin {"errend", "rejend", "accept"} => logged' = logged
          /\ pc["app"] = "accept" <=> pc'["app"] = "accepted"
          /\ pc'["app"] \in {"events", "closing"} => pc["app"] \in Handling
          /\ pc["app"] = "reply" <=> pc'["app"] = "closing"
          /\ pc'["app"] = "ending" <=> pc["app"] \in {"errend", "abort"}
          /\ http' = http
          /\ state' = (IF pc["app"] = "rejmore" THEN "RESPONSE" ELSE state)
      BY <1>6, <2>1, <2>3 DEF AfterWrite, Wrote, Done, Handling
    <3>2. PlaceInv'
      BY <2>1, <3>1 DEF PlaceInv, Handling
    <3>3. StateInv'
      BY <2>1, <2>3, <3>1 DEF StateInv, LogInv, AppAnswers, Handling, Erring, Denying
    <3>4. EarlyInv'
      BY <2>1, <2>3, <3>1 DEF EarlyInv, Handling
    <3>5. LogInv'
      BY <1>4, <2>1, <2>3, <3>1
      DEF LogInv, StateInv, ReaderAnswers, AppAnswers, Erring, Denying
    <3>6. FreshInv' /\ CodeInv'
      BY <2>1, <2>3, <3>1 DEF CodeInv, FreshInv, Erring, Tasks
    <3>7. ~Crashed'
      BY <2>1, <3>1 DEF Crashed, Tasks, PlaceInv
    <3>8. CrashInv'
      BY <2>1, <2>3, <3>1, <3>7 DEF CrashInv
    <3>9. QED  BY <1>2, <1>3, <1>4, <2>1, <3>1, <3>2, <3>3, <3>4, <3>5, <3>8, <3>6
  <2>4. QED  BY <2>2, <2>3
<1>7. CASE t = "pinger"
  <2>1. /\ pc["pinger"] = "ping" /\ pc'["pinger"] = "asleep" /\ pc'["reader"] = pc["reader"]
        /\ pc'["app"] = pc["app"] /\ UNCHANGED <<state, http, logged>>
    BY <1>1, <1>7 DEF PlaceInv, Tasks, AfterWrite, Done, Wrote
  <2>2. PlaceInv' /\ StateInv' /\ EarlyInv'
    BY <2>1 DEF PlaceInv, StateInv, EarlyInv
  <2>3. LogInv'
    BY <2>1 DEF LogInv, ReaderAnswers, AppAnswers
  <2>4. ~Crashed'
    BY <2>1 DEF Crashed, Tasks
  <2>5. CrashInv'
    BY <2>1, <2>4 DEF CrashInv
  <2>6. FreshInv' /\ CodeInv'
    BY <2>1 DEF CodeInv, FreshInv, Tasks
  <2>7. QED  BY <1>2, <1>3, <1>4, <2>1, <2>2, <2>3, <2>5, <2>6
<1>8. QED  BY <1>5, <1>6, <1>7 DEF Tasks

LEMMA SentKeeps ==
    ASSUME IInv, ~Crashed, NEW t \in Tasks, Sent(t)
    PROVE  IInv'
<1> USE DEF IInv
<1>1. /\ pc[t] \in Writing /\ Wrote(t)
      /\ UNCHANGED <<wire, proto, response, closed, closeCode, stream, up, dropped, losing, chan,
                     early>>
  BY DEF Sent
<1>2. told' = <<"abnormal">> /\ listening => dropped \/ early = "cut"
  BY <1>1 DEF CodeInv, chan
<1>3. /\ pc' \in [Tasks -> Places] /\ logged' \in Nat
      /\ state' \in {"HANDSHAKE", "CONNECTED", "RESPONSE", "CLOSED", "HTTPCLOSED"}
      /\ http' \in {"IDLE", "SEND_BODY", "DONE", "SWITCHED_PROTOCOL", "ERROR"}
      /\ pc'["reader"] = "gone" => pc["reader"] = "gone"
      /\ pc'["app"] = "none" <=> pc["app"] = "none"
      /\ PlaceInv' /\ FreshInv' /\ CodeInv' /\ StateInv' /\ EarlyInv' /\ LogInv'
      /\ CrashInv'
  BY <1>1, <1>2, WroteKeeps DEF proto, chan
<1>4. TypeOK'
  BY <1>1, <1>3 DEF TypeOK, wire, proto, chan
<1>5. ClosedInv'
  BY <1>1, <1>3 DEF ClosedInv, chan
<1>6. QED  BY <1>3, <1>4, <1>5

LEMMA SendFailedPutKeeps ==
    ASSUME IInv, ~Crashed, NEW t \in Tasks, SendFailedPut(t)
    PROVE  IInv'
<1> USE DEF IInv
<1>1. /\ pc[t] \in Writing /\ t \in losing /\ losing' = losing \ {t} /\ stream' = FALSE /\ Wrote(t)
      /\ UNCHANGED <<wire, proto, response, closed, closeCode, up, dropped, chan, early>>
  BY DEF SendFailedPut
<1>2. told' = <<"abnormal">> /\ listening => dropped \/ early = "cut"
  BY <1>1 DEF CodeInv, chan
<1>3. /\ pc' \in [Tasks -> Places] /\ logged' \in Nat
      /\ state' \in {"HANDSHAKE", "CONNECTED", "RESPONSE", "CLOSED", "HTTPCLOSED"}
      /\ http' \in {"IDLE", "SEND_BODY", "DONE", "SWITCHED_PROTOCOL", "ERROR"}
      /\ pc'["reader"] = "gone" => pc["reader"] = "gone"
      /\ pc'["app"] = "none" <=> pc["app"] = "none"
      /\ PlaceInv' /\ FreshInv' /\ CodeInv' /\ StateInv' /\ EarlyInv' /\ LogInv'
      /\ CrashInv'
  BY <1>1, <1>2, WroteKeeps DEF proto, chan
<1>4. losing' \subseteq Tasks
  BY <1>1 DEF TypeOK
<1>5. TypeOK'
  BY <1>1, <1>3, <1>4 DEF TypeOK, wire, proto, chan
<1>6. ClosedInv'
  BY <1>1, <1>3 DEF ClosedInv, chan
<1>7. QED  BY <1>3, <1>5, <1>6

(* A send fails: handle(Closed), at once or once there is room to tell the application. *)
LEMMA SendFailedKeeps ==
    ASSUME WSAssumption, IInv, ~Crashed, NEW t \in Tasks, SendFailed(t)
    PROVE  IInv'
<1> USE DEF IInv
<1>1. /\ pc[t] \in Writing /\ stream /\ (~up \/ dropped) /\ HandleClosed(t)
      /\ UNCHANGED <<wire, proto, response, closeCode, up, dropped, listening, got, early>>
  BY DEF SendFailed
<1>2. dropped /\ pc["reader"] # "request"
  BY <1>1 DEF ClosedInv, FreshInv, PlaceInv, Tasks, Writing
<1>3. /\ closed' = TRUE /\ queued' \in 0..MaxQueue /\ putters' \in Seq(Tasks)
      /\ told' \in Seq({"peer", "normal", "abnormal"})
      /\ Len(told') <= 1 /\ (pc["app"] # "none" => Len(told') = 1)
      /\ told' = <<"abnormal">> /\ listening => dropped \/ early = "cut"
  BY <1>1, <1>2, Told
<1>4. CASE AtOnce
  <2>1. Wrote(t) /\ stream' = FALSE /\ losing' = losing
    BY <1>4 DEF SendFailed
  <2>2. /\ pc' \in [Tasks -> Places] /\ logged' \in Nat
        /\ state' \in {"HANDSHAKE", "CONNECTED", "RESPONSE", "CLOSED", "HTTPCLOSED"}
        /\ http' \in {"IDLE", "SEND_BODY", "DONE", "SWITCHED_PROTOCOL", "ERROR"}
        /\ pc'["reader"] = "gone" => pc["reader"] = "gone"
        /\ pc'["app"] = "none" <=> pc["app"] = "none"
        /\ PlaceInv' /\ FreshInv' /\ CodeInv' /\ StateInv' /\ EarlyInv' /\ LogInv'
        /\ CrashInv'
    BY <1>1, <1>3, <2>1, WroteKeeps DEF proto
  <2>3. TypeOK'
    BY <1>1, <1>3, <2>1, <2>2 DEF TypeOK, wire, proto
  <2>4. ClosedInv'
    BY <1>1, <1>3, <2>1, <2>2 DEF ClosedInv
  <2>5. QED  BY <2>2, <2>3, <2>4
<1>5. CASE ~AtOnce
  <2>1. losing' = losing \cup {t} /\ UNCHANGED <<stream, pc, state, http, logged>>
    BY <1>5 DEF SendFailed
  <2>2. losing' \subseteq Tasks
    BY <2>1 DEF TypeOK
  <2>3. TypeOK'
    BY <1>1, <1>3, <2>1, <2>2 DEF TypeOK, wire, proto
  <2>4. PlaceInv' /\ FreshInv'
    BY <1>1, <1>2, <2>1 DEF PlaceInv, FreshInv
  <2>5. ClosedInv'
    BY <1>1, <1>3, <2>1 DEF ClosedInv
  <2>6. CodeInv' /\ StateInv'
    BY <1>1, <1>3, <2>1 DEF CodeInv, StateInv
  <2>7. EarlyInv' /\ LogInv' /\ CrashInv'
    BY <1>1, <1>3, <2>1
    DEF EarlyInv, LogInv, CrashInv, Crashed, ReaderAnswers, AppAnswers, proto
  <2>8. QED  BY <2>3, <2>4, <2>5, <2>6, <2>7
<1>6. QED  BY <1>4, <1>5

(* Whoever closes the stream, it is closed; if the application has to be told and
   its queue is full, the task stays where it is. *)
LEMMA Closes ==
    ASSUME WSAssumption, TypeOK, ClosedInv, CodeInv, NEW t \in Tasks, NEW place, NEW after,
           CloseStream(t, place, after),
           stream /\ listening /\ pc["app"] # "none" /\ ~closed =>
              closeCode \/ state \in {"HTTPCLOSED", "CLOSED"} \/ dropped \/ early = "cut"
    PROVE  /\ closed' = TRUE /\ queued' \in 0..MaxQueue /\ putters' \in Seq(Tasks)
           /\ told' \in Seq({"peer", "normal", "abnormal"})
           /\ Len(told') <= 1 /\ (pc["app"] # "none" => Len(told') = 1)
           /\ told' = <<"abnormal">> /\ listening => dropped \/ early = "cut"
           /\ losing' \subseteq Tasks
           /\ {stream', up'} \subseteq BOOLEAN /\ (~up' => ~stream')
           /\ pc' = pc \/ Go(t, after)
<1>1. CASE stream /\ t \notin losing
  <2>1. HandleClosed(t)
    BY <1>1 DEF CloseStream
  <2>2. /\ closed' = TRUE /\ queued' \in 0..MaxQueue /\ putters' \in Seq(Tasks)
        /\ told' \in Seq({"peer", "normal", "abnormal"})
        /\ Len(told') <= 1 /\ (pc["app"] # "none" => Len(told') = 1)
        /\ told' = <<"abnormal">> /\ listening => dropped \/ early = "cut"
    BY <1>1, <2>1, Told
  <2>3. \/ stream' = FALSE /\ up' = FALSE /\ losing' = losing \ {t} /\ Go(t, after)
        \/ losing' = losing \cup {t} /\ UNCHANGED <<stream, up, pc>>
    BY DEF CloseStream
  <2>4. losing \subseteq Tasks /\ {stream, up} \subseteq BOOLEAN /\ (~up => ~stream)
    BY DEF TypeOK, ClosedInv
  <2>5. losing' \subseteq Tasks
    BY <2>3, <2>4
  <2>6. {stream', up'} \subseteq BOOLEAN
    BY <2>3, <2>4
  <2>7. ~up' => ~stream'
    BY <2>3, <2>4
  <2>8. pc' = pc \/ Go(t, after)
    BY <2>3
  <2>9. QED  BY <2>2, <2>5, <2>6, <2>7, <2>8
<1>2. CASE ~(stream /\ t \notin losing)
  <2>1. /\ UNCHANGED <<closed, told, queued, putters>> /\ stream' = FALSE /\ up' = FALSE
        /\ losing' = losing \ {t} /\ Go(t, after)
    BY <1>2 DEF CloseStream
  <2>2. closed /\ losing \subseteq Tasks
    BY <1>2 DEF ClosedInv, TypeOK
  <2>3. losing' \subseteq Tasks
    BY <2>1, <2>2
  <2>4. /\ closed' = TRUE /\ queued' \in 0..MaxQueue /\ putters' \in Seq(Tasks)
        /\ told' \in Seq({"peer", "normal", "abnormal"})
        /\ Len(told') <= 1 /\ (pc["app"] # "none" => Len(told') = 1)
        /\ told' = <<"abnormal">> /\ listening => dropped \/ early = "cut"
    BY <2>1, <2>2 DEF TypeOK, ClosedInv, CodeInv
  <2>5. QED  BY <2>1, <2>3, <2>4
<1>3. QED  BY <1>1, <1>2

(* The stream closed, the task goes on: with the events it was handling, to where it
   was before, or, the reader, to its end. *)
LEMMA CloseStreamKeeps ==
    ASSUME WSAssumption, IInv, ~Crashed, NEW t \in Tasks, NEW place, NEW after,
           CloseStream(t, place, after),
           \/ place = "closing" /\ after = "events"
           \/ place = "ending" /\ after = Done(t)
           \/ place = "receive" /\ after = "gone" /\ t = "reader" /\ (~up \/ dropped)
    PROVE  IInv'
<1> USE DEF IInv
<1>1. /\ pc[t] = place /\ pc \in [Tasks -> Places] /\ t \in {"reader", "app"}
      /\ UNCHANGED <<sent, inbound, held, frames, ws, buffer, state, response, closeCode, http,
                     dropped, listening, logged, early>>
  BY DEF CloseStream, wire, proto, TypeOK, PlaceInv, Tasks
<1>2. stream /\ listening /\ pc["app"] # "none" /\ ~closed =>
        closeCode \/ state \in {"HTTPCLOSED", "CLOSED"} \/ dropped \/ early = "cut"
  BY <1>1 DEF ClosedInv, CodeInv, Erring, Tasks
<1>3. /\ closed' = TRUE /\ queued' \in 0..MaxQueue /\ putters' \in Seq(Tasks)
      /\ told' \in Seq({"peer", "normal", "abnormal"})
      /\ Len(told') <= 1 /\ (pc["app"] # "none" => Len(told') = 1)
      /\ told' = <<"abnormal">> /\ listening => dropped \/ early = "cut"
      /\ losing' \subseteq Tasks
      /\ {stream', up'} \subseteq BOOLEAN /\ (~up' => ~stream')
      /\ pc' = pc \/ Go(t, after)
  BY <1>2, Closes
<1>4. /\ pc' \in [Tasks -> Places] /\ pc'["pinger"] = pc["pinger"]
      /\ t = "reader" => /\ pc'["app"] = pc["app"]
                         /\ pc'["reader"] \in {pc["reader"], "events", "receive", "gone"}
      /\ t = "app" => /\ pc'["reader"] = pc["reader"]
                      /\ pc'["app"] \in {pc["app"], "events", "run", "gone"}
                      /\ pc'["app"] = "run" => listening
                      /\ pc'["app"] = "events" => pc["app"] = "closing"
      /\ pc[t] \in {"closing", "ending", "receive"}
  BY <1>1, <1>3 DEF Go, Done, Tasks, Places
<1>5. pc["reader"] # "request" /\ (t = "app" => pc["app"] \in {"closing", "ending"})
  BY <1>1, <1>4 DEF FreshInv, PlaceInv, Handling, Erring, Denying
<1>6. TypeOK'
  BY <1>1, <1>3, <1>4 DEF TypeOK
<1>7. PlaceInv'
  BY <1>1, <1>4 DEF PlaceInv, Handling
<1>8. FreshInv'
  BY <1>1, <1>4, <1>5 DEF FreshInv
<1>9. ClosedInv'
  BY <1>1, <1>3, <1>4, <1>5 DEF ClosedInv
<1>10. CodeInv'
  BY <1>1, <1>3, <1>4, <1>5 DEF CodeInv, Erring, Tasks
<1>11. StateInv'
  BY <1>1, <1>4, <1>5 DEF StateInv, CodeInv, Handling, Erring
<1>12. EarlyInv'
  BY <1>1, <1>3, <1>4, <1>5 DEF EarlyInv, Handling
<1>13. LogInv'
  BY <1>1, <1>4, <1>5 DEF LogInv, ReaderAnswers, AppAnswers, Erring, Denying
<1>14. CrashInv'
  <2>1. ~Crashed'
    BY <1>1, <1>4 DEF Crashed, Tasks
  <2>2. QED  BY <1>1, <1>4, <1>5, <2>1 DEF CrashInv
<1>15. QED  BY <1>6, <1>7, <1>8, <1>9, <1>10, <1>11, <1>12, <1>13, <1>14

(* The client sends a frame. *)
LEMMA SendFrameKeeps ==
    ASSUME WSAssumption, IInv, ~Crashed, NEW k \in Kinds, SendFrame(k)
    PROVE  IInv'
<1> USE DEF IInv
<1>1. /\ Len(sent) < MaxFrames /\ sent' = Append(sent, k) /\ inbound' = Append(inbound, Len(sent) + 1)
      /\ UNCHANGED <<proto, life, conn, pc, losing, chan, logged, early>>
  BY DEF SendFrame
<1>2. sent \in Seq(Kinds) /\ Len(sent) \in Nat
  BY DEF TypeOK
<1>3. sent' \in Seq(Kinds) /\ Len(sent') = Len(sent) + 1
  BY <1>1, <1>2
<1>4. /\ inbound \in Seq(DOMAIN sent') /\ held \in Seq(DOMAIN sent')
      /\ frames \in Seq(DOMAIN sent') /\ buffer \in Seq(DOMAIN sent')
  BY <1>1, <1>2, Frames, MoreFrames
<1>5. Len(sent) + 1 \in DOMAIN sent'
  BY <1>1, <1>2
<1>6. inbound' \in Seq(DOMAIN sent')
  BY <1>1, <1>4, <1>5
<1>7. Len(sent') <= MaxFrames
  BY <1>1, <1>2, <1>3 DEF TypeOK, WSAssumption
<1>8. TypeOK'
  BY <1>1, <1>3, <1>4, <1>6, <1>7 DEF TypeOK, proto, life, conn, chan
<1>9. PlaceInv' /\ FreshInv' /\ ClosedInv' /\ CodeInv' /\ StateInv'
  BY <1>1 DEF PlaceInv, FreshInv, ClosedInv, CodeInv, StateInv, proto, life, conn, chan
<1>10. EarlyInv' /\ LogInv' /\ CrashInv'
  BY <1>1
  DEF EarlyInv, LogInv, CrashInv, ReaderAnswers, AppAnswers, Crashed, proto, life, conn,
      chan
<1>11. QED  BY <1>8, <1>9, <1>10

(* The client is gone. *)
LEMMA DropKeeps ==
    ASSUME IInv, ~Crashed, Drop
    PROVE  IInv'
<1> USE DEF IInv, Drop, wire, proto, life, chan
<1>1. TypeOK' /\ PlaceInv' /\ FreshInv' /\ ClosedInv' /\ CodeInv' /\ StateInv'
  BY DEF TypeOK, PlaceInv, FreshInv, ClosedInv, CodeInv, StateInv
<1>2. EarlyInv' /\ LogInv' /\ CrashInv'
  BY DEF EarlyInv, LogInv, CrashInv, ReaderAnswers, AppAnswers, Crashed
<1>3. QED  BY <1>1, <1>2

(* The application receives, which may let a task that waits put. *)
LEMMA AppReadsKeeps ==
    ASSUME WSAssumption, IInv, ~Crashed, AppReads
    PROVE  IInv'
<1> USE DEF IInv
<1>1. /\ queued > 0
      /\ UNCHANGED <<wire, proto, life, conn, pc, losing, listening, got, told, logged, early>>
  BY DEF AppReads
<1>2. queued' \in 0..MaxQueue /\ putters' \in Seq(Tasks)
  <2>1. MaxQueue \in Nat /\ queued \in 0..MaxQueue /\ putters \in Seq(Tasks)
    BY DEF WSAssumption, TypeOK
  <2>2. CASE putters = <<>>
    BY <1>1, <2>1, <2>2 DEF AppReads
  <2>3. CASE putters # <<>>
    BY <2>1, <2>3 DEF AppReads
  <2>4. QED  BY <2>2, <2>3
<1>3. TypeOK'
  BY <1>1, <1>2 DEF TypeOK, wire, proto, life, conn
<1>4. PlaceInv' /\ FreshInv' /\ ClosedInv' /\ CodeInv' /\ StateInv'
  BY <1>1 DEF PlaceInv, FreshInv, ClosedInv, CodeInv, StateInv, proto, life, conn
<1>5. EarlyInv' /\ LogInv' /\ CrashInv'
  BY <1>1
  DEF EarlyInv, LogInv, CrashInv, ReaderAnswers, AppAnswers, Crashed, proto, life, conn
<1>6. QED  BY <1>3, <1>4, <1>5

(* The request: an application, or an error. *)
LEMMA RequestKeeps ==
    ASSUME WSAssumption, IInv, ~Crashed, NEW offer \in Offers, Request(offer)
    PROVE  IInv'
<1> USE DEF IInv
<1>1. /\ pc["reader"] = "request" /\ pc \in [Tasks -> Places]
      /\ http = "IDLE" /\ stream /\ ~closed /\ pc["app"] = "none" /\ told = <<>> /\ ~listening
      /\ state = "HANDSHAKE" /\ pc["pinger"] = "none"
      /\ UNCHANGED <<wire, proto, life, up, dropped, losing, putters, got, told, logged, early>>
  BY DEF Request, FreshInv, TypeOK
<1>2. CASE offer.path /\ offer.target /\ IsValid(offer)
  <2>1. /\ pc' = [pc EXCEPT !["reader"] = "receive", !["app"] = "run"]
        /\ listening' = TRUE /\ queued' = 1 /\ http' = http
    BY <1>2 DEF Request
  <2>2. /\ pc'["reader"] = "receive" /\ pc'["app"] = "run" /\ pc'["pinger"] = pc["pinger"]
        /\ pc' \in [Tasks -> Places]
    BY <1>1, <2>1 DEF Tasks, Places
  <2>3. queued' \in 0..MaxQueue /\ listening' \in BOOLEAN
    BY <2>1 DEF WSAssumption
  <2>4. TypeOK'
    BY <1>1, <2>1, <2>2, <2>3 DEF TypeOK, wire, proto, life
  <2>5. PlaceInv' /\ FreshInv'
    BY <1>1, <2>2 DEF PlaceInv, FreshInv
  <2>6. ClosedInv' /\ CodeInv'
    BY <1>1, <2>2 DEF ClosedInv, CodeInv, life, Tasks, Erring
  <2>7. StateInv' /\ EarlyInv'
    BY <1>1, <2>1, <2>2 DEF StateInv, EarlyInv, life, proto, Handling, Erring
  <2>8. LogInv'
    BY <1>1, <2>1, <2>2 DEF LogInv, ReaderAnswers, AppAnswers, life, Erring, Denying
  <2>9. ~Crashed'
    BY <1>1, <2>2 DEF Crashed, Tasks
  <2>10. CrashInv'
    BY <2>2, <2>9 DEF CrashInv
  <2>11. QED  BY <2>4, <2>5, <2>6, <2>7, <2>8, <2>10
<1>3. CASE ~(offer.path /\ offer.target /\ IsValid(offer))
  <2>1. /\ Go("reader", IF offer.path THEN "errhead" ELSE "badhead")
        /\ http' = "SEND_BODY" /\ UNCHANGED <<listening, queued>>
    BY <1>3 DEF Request
  <2>2. /\ pc'["reader"] \in {"errhead", "badhead"} /\ pc'["app"] = "none"
        /\ pc'["pinger"] = "none" /\ pc' \in [Tasks -> Places]
    BY <1>1, <2>1 DEF Tasks, Places, Writing, Go
  <2>3. TypeOK'
    BY <1>1, <2>1, <2>2 DEF TypeOK, wire, proto, life
  <2>4. PlaceInv' /\ FreshInv'
    BY <1>1, <2>1, <2>2 DEF PlaceInv, FreshInv, Erring, life
  <2>5. ClosedInv' /\ CodeInv'
    BY <1>1, <2>1, <2>2 DEF ClosedInv, CodeInv, life, Tasks, Erring
  <2>6. StateInv' /\ EarlyInv'
    BY <1>1, <2>1, <2>2 DEF StateInv, EarlyInv, life, proto, Handling, Erring
  <2>7. LogInv'
    BY <1>1, <2>1, <2>2 DEF LogInv, ReaderAnswers, AppAnswers, life, Erring, Denying
  <2>8. ~Crashed'
    BY <1>1, <2>2 DEF Crashed, Tasks
  <2>9. CrashInv'
    BY <2>1, <2>2, <2>8 DEF CrashInv
  <2>10. QED  BY <2>3, <2>4, <2>5, <2>6, <2>7, <2>9
<1>4. QED  BY <1>2, <1>3

(* The reader receives: frames for wsproto, or to be held, or too much of them. *)
LEMMA ReceiveKeeps ==
    ASSUME WSAssumption, IInv, ~Crashed, Receive
    PROVE  IInv'
<1> USE DEF IInv
<1>1. /\ pc["reader"] = "receive" /\ pc \in [Tasks -> Places] /\ inbound' = <<>>
      /\ UNCHANGED <<sent, ws, buffer, life, up, dropped, losing, chan, logged>>
      /\ early' = IF pc' # pc /\ ws = "none" THEN "cut" ELSE early
  BY DEF Receive, TypeOK
<1>2. <<>> \in Seq(DOMAIN sent') /\ early' \in {"none", "held", "cut"}
  BY <1>1 DEF TypeOK
<1>3. CASE /\ UNCHANGED <<frames, http, pc>>
           /\ \/ held' = held
              \/ Len(held) + Len(inbound) <= MaxHeld /\ held' = held \o inbound
  <2>1. held' \in Seq(DOMAIN sent') /\ Len(held') <= MaxHeld
    <3>1. held \in Seq(DOMAIN sent) /\ inbound \in Seq(DOMAIN sent) /\ Len(held) <= MaxHeld
      BY Frames DEF TypeOK
    <3>2. CASE held' = held
      BY <1>1, <3>1, <3>2
    <3>3. CASE Len(held) + Len(inbound) <= MaxHeld /\ held' = held \o inbound
      <4>1. held' \in Seq(DOMAIN sent) /\ Len(held') = Len(held) + Len(inbound)
        BY <3>1, <3>3
      <4>2. QED  BY <1>1, <3>3, <4>1
    <3>4. QED  BY <1>3, <3>2, <3>3
  <2>2. TypeOK'
    BY <1>1, <1>2, <1>3, <2>1 DEF TypeOK, life, chan
  <2>3. PlaceInv' /\ FreshInv' /\ ClosedInv' /\ CodeInv' /\ StateInv'
    BY <1>1, <1>3 DEF PlaceInv, FreshInv, ClosedInv, CodeInv, StateInv, life, chan
  <2>4. EarlyInv' /\ LogInv' /\ CrashInv'
    BY <1>1, <1>3
    DEF EarlyInv, LogInv, CrashInv, ReaderAnswers, AppAnswers, Crashed, life, chan
  <2>5. QED  BY <2>2, <2>3, <2>4
<1>4. CASE /\ stream /\ ~closed /\ ws # "none" /\ ReceiveData("reader", inbound)
           /\ UNCHANGED <<held, http>>
  <2>1. CASE ws = "CLOSED"
    <3>1. pc' = [pc EXCEPT !["reader"] = "crashed"] /\ frames' = frames /\ early' = early
      BY <1>1, <1>4, <2>1 DEF ReceiveData, Go
    <3>2. /\ pc'["reader"] = "crashed" /\ pc'["app"] = pc["app"] /\ pc'["pinger"] = pc["pinger"]
          /\ pc' \in [Tasks -> Places] /\ Crashed'
      BY <1>1, <3>1 DEF Tasks, Places, Crashed
    <3>3. early # "none"
      BY <1>1, <1>4, <2>1 DEF EarlyInv
    <3>4. TypeOK'
      BY <1>1, <1>2, <1>4, <3>1, <3>2 DEF TypeOK, life, chan
    <3>5. PlaceInv' /\ FreshInv' /\ ClosedInv' /\ CodeInv' /\ StateInv'
      BY <1>1, <1>4, <3>1, <3>2
      DEF PlaceInv, FreshInv, ClosedInv, CodeInv, StateInv, life, chan, Erring, Tasks
    <3>6. EarlyInv' /\ LogInv' /\ CrashInv'
      BY <1>1, <1>4, <3>1, <3>2, <3>3
      DEF EarlyInv, LogInv, CrashInv, ReaderAnswers, AppAnswers, life, Erring
    <3>7. QED  BY <3>4, <3>5, <3>6
  <2>2. CASE ws # "CLOSED"
    <3>1. pc' = [pc EXCEPT !["reader"] = "events"] /\ frames' = frames \o inbound /\ early' = early
      BY <1>1, <1>4, <2>2 DEF ReceiveData, Go
    <3>2. /\ pc'["reader"] = "events" /\ pc'["app"] = pc["app"] /\ pc'["pinger"] = pc["pinger"]
          /\ pc' \in [Tasks -> Places]
      BY <1>1, <3>1 DEF Tasks, Places
    <3>3. frames' \in Seq(DOMAIN sent')
      BY <1>1, <3>1, Frames
    <3>4. TypeOK'
      BY <1>1, <1>2, <1>4, <3>1, <3>2, <3>3 DEF TypeOK, life, chan
    <3>5. PlaceInv' /\ FreshInv' /\ ClosedInv' /\ CodeInv' /\ StateInv'
      BY <1>1, <1>4, <3>1, <3>2
      DEF PlaceInv, FreshInv, ClosedInv, CodeInv, StateInv, life, chan, Erring, Handling,
          Tasks
    <3>6. EarlyInv' /\ LogInv'
      BY <1>1, <1>4, <2>2, <3>1, <3>2
      DEF EarlyInv, LogInv, ReaderAnswers, AppAnswers, life, Erring
    <3>7. ~Crashed'
      BY <1>1, <3>2 DEF Crashed, Tasks
    <3>8. CrashInv'
      BY <1>1, <1>4, <3>1, <3>2, <3>7 DEF CrashInv, life
    <3>9. QED  BY <3>4, <3>5, <3>6, <3>8
  <2>3. QED  BY <2>1, <2>2
<1>5. CASE stream /\ ~closed /\ ws = "none" /\ SendError("reader") /\ UNCHANGED <<held, frames>>
  <2>1. /\ pc'["reader"] = (IF http = "IDLE" THEN "errhead" ELSE "crashed")
        /\ http' = (IF http = "IDLE" THEN "SEND_BODY" ELSE "ERROR")
        /\ pc'["app"] = pc["app"] /\ pc'["pinger"] = pc["pinger"] /\ pc' \in [Tasks -> Places]
    BY <1>1, <1>5 DEF SendError, Go, Tasks, Places, Writing
  <2>2. early' = "cut"
    BY <1>1, <1>5, <2>1
  <2>3. TypeOK'
    BY <1>1, <1>2, <1>5, <2>1 DEF TypeOK, life, chan
  <2>4. PlaceInv' /\ FreshInv'
    BY <1>1, <1>5, <2>1 DEF PlaceInv, FreshInv, life, chan, Erring
  <2>5. ClosedInv' /\ CodeInv' /\ StateInv'
    BY <1>1, <1>5, <2>1, <2>2 DEF ClosedInv, CodeInv, StateInv, life, chan, Erring, Tasks
  <2>6. EarlyInv'
    BY <1>1, <1>5, <2>1, <2>2 DEF EarlyInv, Handling, life
  <2>7. LogInv'
    BY <1>1, <1>5, <2>1 DEF LogInv, ReaderAnswers, AppAnswers, Erring, life
  <2>8. http # "IDLE" => Crashed'
    BY <2>1 DEF Crashed, Tasks
  <2>9. CrashInv'
    BY <1>1, <1>5, <2>1, <2>2, <2>8 DEF CrashInv, LogInv, AppAnswers, Erring
  <2>10. QED  BY <2>3, <2>4, <2>5, <2>6, <2>7, <2>9
<1>6. QED
  BY <1>3, <1>4, <1>5 DEF Receive

(* websocket.accept *)
LEMMA AcceptKeeps ==
    ASSUME IInv, ~Crashed, Accept
    PROVE  IInv'
<1> USE DEF IInv
<1>1. /\ pc["app"] = "run" /\ listening /\ ~closed /\ state = "HANDSHAKE"
      /\ pc \in [Tasks -> Places]
      /\ state' = "CONNECTED" /\ ws' = "OPEN"
      /\ UNCHANGED <<wire, held, frames, buffer, response, closed, closeCode, stream, up, dropped,
                     losing, chan, logged, early>>
  BY DEF Accept, Running, TypeOK
<1>2. /\ http = "IDLE" => pc' = [pc EXCEPT !["app"] = "accept"] /\ http' = "SWITCHED_PROTOCOL"
      /\ http # "IDLE" => pc' = [pc EXCEPT !["app"] = "failing"] /\ http' = "ERROR"
  BY DEF Accept, Go
<1>3. /\ pc' \in [Tasks -> Places] /\ pc'["reader"] = pc["reader"] /\ pc'["pinger"] = pc["pinger"]
      /\ pc'["app"] = (IF http = "IDLE" THEN "accept" ELSE "failing")
  BY <1>1, <1>2 DEF Tasks, Places, Writing
<1>4. TypeOK'
  BY <1>1, <1>2, <1>3 DEF TypeOK, wire, chan
<1>5. PlaceInv' /\ FreshInv' /\ ClosedInv'
  BY <1>1, <1>3 DEF PlaceInv, FreshInv, ClosedInv, chan
<1>6. CodeInv' /\ StateInv'
  BY <1>1, <1>3 DEF CodeInv, StateInv, chan, Tasks, Erring, Handling
<1>7. EarlyInv'
  BY <1>1, <1>2, <1>3 DEF EarlyInv, Handling
<1>8. LogInv'
  BY <1>1, <1>2, <1>3 DEF LogInv, ReaderAnswers, AppAnswers, Erring, Denying
<1>9. ~Crashed'
  BY <1>3 DEF Crashed, Tasks
<1>10. CrashInv'
  BY <1>1, <1>2, <1>3, <1>9 DEF CrashInv, LogInv, StateInv, ReaderAnswers, Erring
<1>11. QED  BY <1>4, <1>5, <1>6, <1>7, <1>8, <1>10

LEMMA AcceptInvalidKeeps ==
    ASSUME IInv, ~Crashed, AcceptInvalid
    PROVE  IInv'
<1> USE DEF IInv
<1>1. /\ pc["app"] = "run" /\ listening /\ ~closed /\ state = "HANDSHAKE"
      /\ pc \in [Tasks -> Places]
      /\ state' = "CONNECTED" /\ pc' = [pc EXCEPT !["app"] = "failing"]
      /\ UNCHANGED <<wire, proto, response, closed, closeCode, stream, conn, losing, chan, logged,
                     early>>
  BY DEF AcceptInvalid, Running, TypeOK, Go
<1>2. /\ pc' \in [Tasks -> Places] /\ pc'["reader"] = pc["reader"] /\ pc'["pinger"] = pc["pinger"]
      /\ pc'["app"] = "failing"
  BY <1>1 DEF Tasks, Places
<1>3. TypeOK'
  BY <1>1, <1>2 DEF TypeOK, wire, proto, conn, chan
<1>4. PlaceInv' /\ FreshInv' /\ ClosedInv'
  BY <1>1, <1>2 DEF PlaceInv, FreshInv, ClosedInv, conn, chan
<1>5. CodeInv' /\ StateInv'
  BY <1>1, <1>2 DEF CodeInv, StateInv, conn, chan, Tasks, Erring, Handling
<1>6. EarlyInv' /\ LogInv'
  BY <1>1, <1>2
  DEF EarlyInv, LogInv, ReaderAnswers, AppAnswers, conn, proto, Handling, Erring, Denying
<1>7. ~Crashed'
  BY <1>2 DEF Crashed, Tasks
<1>8. CrashInv'
  BY <1>1, <1>2, <1>7 DEF CrashInv, conn
<1>9. QED  BY <1>3, <1>4, <1>5, <1>6, <1>8

(* The acceptance is sent: the ping loop, and what was held. *)
LEMMA AcceptedKeeps ==
    ASSUME WSAssumption, IInv, ~Crashed, Accepted
    PROVE  IInv'
<1> USE DEF IInv
<1>1. /\ pc["app"] = "accepted" /\ pc \in [Tasks -> Places] /\ held' = <<>>
      /\ early' = (IF held = <<>> THEN early ELSE "held")
      /\ frames' = (IF ws = "CLOSED" THEN frames ELSE frames \o held)
      /\ UNCHANGED <<wire, ws, buffer, life, conn, losing, chan, logged>>
  BY DEF Accepted, TypeOK
<1>2. /\ pc' \in [Tasks -> Places] /\ pc'["reader"] = pc["reader"]
      /\ pc'["pinger"] \in {pc["pinger"], "asleep"}
      /\ pc'["app"] = (IF held = <<>> THEN "run" ELSE IF ws = "CLOSED" THEN "failing" ELSE "events")
  BY <1>1 DEF Accepted, Tasks, Places
<1>3. frames' \in Seq(DOMAIN sent') /\ held' \in Seq(DOMAIN sent') /\ Len(held') <= MaxHeld
  <2>1. /\ frames \in Seq(DOMAIN sent) /\ held \in Seq(DOMAIN sent) /\ sent' = sent
        /\ MaxHeld \in Nat
    BY <1>1, Frames DEF wire, WSAssumption
  <2>2. frames \o held \in Seq(DOMAIN sent) /\ <<>> \in Seq(DOMAIN sent) /\ Len(<<>>) <= MaxHeld
    BY <2>1
  <2>3. QED  BY <1>1, <2>1, <2>2
<1>4. TypeOK'
  BY <1>1, <1>2, <1>3 DEF TypeOK, wire, life, conn, chan
<1>5. PlaceInv' /\ FreshInv' /\ ClosedInv'
  BY <1>1, <1>2 DEF PlaceInv, FreshInv, ClosedInv, life, conn, chan, Handling
<1>6. CodeInv' /\ StateInv'
  BY <1>1, <1>2 DEF CodeInv, StateInv, EarlyInv, life, conn, chan, Tasks, Erring, Handling
<1>7. EarlyInv'
  BY <1>1, <1>2 DEF EarlyInv, life, conn, Handling
<1>8. LogInv'
  BY <1>1, <1>2 DEF LogInv, ReaderAnswers, AppAnswers, life, conn, Erring, Denying
<1>9. ~Crashed'
  BY <1>1, <1>2 DEF PlaceInv, Crashed, Tasks
<1>10. CrashInv'
  BY <1>1, <1>2, <1>9 DEF CrashInv, EarlyInv, conn
<1>11. QED  BY <1>4, <1>5, <1>6, <1>7, <1>8, <1>10

(* A denial starts: the state does not change yet. *)
LEMMA DenialStartKeeps ==
    ASSUME IInv, ~Crashed, DenialStart
    PROVE  IInv'
<1> USE DEF IInv, DenialStart, wire, proto, conn, chan
<1>1. TypeOK' /\ PlaceInv' /\ FreshInv' /\ ClosedInv' /\ CodeInv' /\ StateInv'
  BY DEF TypeOK, PlaceInv, FreshInv, ClosedInv, CodeInv, StateInv
<1>2. EarlyInv' /\ LogInv' /\ CrashInv'
  BY DEF EarlyInv, LogInv, CrashInv, ReaderAnswers, AppAnswers, Crashed
<1>3. QED  BY <1>1, <1>2

LEMMA DenialBodyKeeps ==
    ASSUME IInv, ~Crashed, NEW more \in BOOLEAN, DenialBody(more)
    PROVE  IInv'
<1> USE DEF IInv
<1>1. /\ pc["app"] = "run" /\ listening /\ ~closed /\ state \in {"HANDSHAKE", "RESPONSE"}
      /\ pc \in [Tasks -> Places] /\ http' # "IDLE" /\ http' \in {"SEND_BODY", "ERROR"}
      /\ UNCHANGED <<wire, proto, life, up, dropped, losing, chan, logged, early>>
  BY DEF DenialBody, Running, TypeOK
<1>2. \/ /\ http = (IF state = "HANDSHAKE" THEN "IDLE" ELSE "SEND_BODY")
         /\ \/ pc' = [pc EXCEPT !["app"] = "rejmore"]
            \/ pc' = [pc EXCEPT !["app"] = "rejlast"]
      \/ /\ http # (IF state = "HANDSHAKE" THEN "IDLE" ELSE "SEND_BODY")
         /\ pc' = [pc EXCEPT !["app"] = "failing"]
  BY DEF DenialBody, Go
<1>3. /\ pc' \in [Tasks -> Places] /\ pc'["reader"] = pc["reader"] /\ pc'["pinger"] = pc["pinger"]
      /\ pc'["app"] \in {"rejmore", "rejlast", "failing"}
      /\ pc'["app"] = "failing" => http # (IF state = "HANDSHAKE" THEN "IDLE" ELSE "SEND_BODY")
      /\ pc'["app"] # "failing" => http = (IF state = "HANDSHAKE" THEN "IDLE" ELSE "SEND_BODY")
  BY <1>1, <1>2 DEF Tasks, Places, Writing
<1>4. TypeOK'
  BY <1>1, <1>3 DEF TypeOK, wire, proto, life, chan
<1>5. PlaceInv' /\ FreshInv' /\ ClosedInv'
  BY <1>1, <1>3 DEF PlaceInv, FreshInv, ClosedInv, life, chan, Denying
<1>6. CodeInv' /\ StateInv'
  BY <1>1, <1>3 DEF CodeInv, StateInv, life, chan, Tasks, Erring, Handling
<1>7. EarlyInv'
  BY <1>1, <1>3 DEF EarlyInv, proto, life, Handling
<1>8. LogInv'
  BY <1>1, <1>3 DEF LogInv, ReaderAnswers, AppAnswers, life, Erring, Denying
<1>9. ~Crashed'
  BY <1>3 DEF Crashed, Tasks
<1>10. CrashInv'
  BY <1>1, <1>3, <1>9 DEF CrashInv, LogInv, StateInv, ReaderAnswers, AppAnswers, Erring
<1>11. QED  BY <1>4, <1>5, <1>6, <1>7, <1>8, <1>10

LEMMA SendMessageKeeps ==
    ASSUME IInv, ~Crashed, SendMessage
    PROVE  IInv'
<1> USE DEF IInv
<1>1. /\ pc["app"] = "run" /\ listening /\ ~closed /\ state = "CONNECTED"
      /\ pc \in [Tasks -> Places]
      /\ pc' = [pc EXCEPT !["app"] = "message"]
      /\ UNCHANGED <<wire, proto, life, conn, losing, chan, logged, early>>
  BY DEF SendMessage, Running, TypeOK, Go
<1>2. /\ pc' \in [Tasks -> Places] /\ pc'["reader"] = pc["reader"] /\ pc'["pinger"] = pc["pinger"]
      /\ pc'["app"] = "message"
  BY <1>1 DEF Tasks, Places, Writing
<1>3. TypeOK'
  BY <1>1, <1>2 DEF TypeOK, wire, proto, life, conn, chan
<1>4. PlaceInv' /\ FreshInv' /\ ClosedInv'
  BY <1>1, <1>2 DEF PlaceInv, FreshInv, ClosedInv, life, conn, chan
<1>5. CodeInv' /\ StateInv'
  BY <1>1, <1>2 DEF CodeInv, StateInv, life, conn, chan, Tasks, Erring, Handling
<1>6. EarlyInv' /\ LogInv'
  BY <1>1, <1>2
  DEF EarlyInv, LogInv, ReaderAnswers, AppAnswers, life, conn, proto, Handling, Erring, 
     Denying
<1>7. ~Crashed'
  BY <1>2 DEF Crashed, Tasks
<1>8. CrashInv'
  BY <1>1, <1>2, <1>7 DEF CrashInv, conn
<1>9. QED  BY <1>3, <1>4, <1>5, <1>6, <1>8

(* websocket.close: a 403, a close frame, or nothing left to send. *)
LEMMA CloseKeeps ==
    ASSUME IInv, ~Crashed, Close
    PROVE  IInv'
<1> USE DEF IInv
<1>1. /\ pc["app"] = "run" /\ listening /\ ~closed /\ pc \in [Tasks -> Places]
      /\ UNCHANGED <<wire, held, frames, buffer, response, closed, closeCode, stream, up, dropped,
                     losing, chan, logged, early>>
  BY DEF Close, Running, TypeOK
<1>2. CASE state = "HANDSHAKE"
  <2>1. /\ state' = "HTTPCLOSED" /\ ws' = ws
        /\ IF http = "IDLE" THEN http' = "SEND_BODY" /\ Go("app", "errhead")
           ELSE http' = "ERROR" /\ Go("app", "failing")
    BY <1>2 DEF Close
  <2>2. /\ pc' \in [Tasks -> Places] /\ pc'["reader"] = pc["reader"] /\ pc'["pinger"] = pc["pinger"]
        /\ pc'["app"] = (IF http = "IDLE" THEN "errhead" ELSE "failing")
        /\ http' = (IF http = "IDLE" THEN "SEND_BODY" ELSE "ERROR")
    BY <1>1, <2>1 DEF Go, Tasks, Places, Writing
  <2>3. TypeOK'
    BY <1>1, <2>1, <2>2 DEF TypeOK, wire, chan
  <2>4. PlaceInv' /\ FreshInv' /\ ClosedInv'
    BY <1>1, <2>2 DEF PlaceInv, FreshInv, ClosedInv, chan, Erring
  <2>5. CodeInv' /\ StateInv'
    BY <1>1, <2>1, <2>2 DEF CodeInv, StateInv, chan, Tasks, Erring, Handling
  <2>6. EarlyInv'
    BY <1>1, <2>1, <2>2 DEF EarlyInv, Handling
  <2>7. LogInv'
    BY <1>1, <1>2, <2>1, <2>2 DEF LogInv, ReaderAnswers, AppAnswers, Erring, Denying
  <2>8. http = "IDLE" \/ early = "cut"
    BY <1>1, <1>2 DEF StateInv
  <2>9. ~Crashed'
    BY <2>2 DEF Crashed, Tasks
  <2>10. CrashInv'
    BY <1>1, <2>1, <2>2, <2>8, <2>9 DEF CrashInv, LogInv, ReaderAnswers, Erring
  <2>11. QED  BY <2>3, <2>4, <2>5, <2>6, <2>7, <2>10
<1>3. CASE state # "HANDSHAKE"
  <2>1. /\ state' = "CLOSED" /\ http' = http
        /\ ws' \in {ws, "LOCAL_CLOSING"} /\ (ws' # ws => ws = "OPEN")
        /\ pc' = pc \/ \E place \in {"message", "failing"} : pc' = [pc EXCEPT !["app"] = place]
    BY <1>3 DEF Close, Go
  <2>2. /\ pc' \in [Tasks -> Places] /\ pc'["reader"] = pc["reader"] /\ pc'["pinger"] = pc["pinger"]
        /\ pc'["app"] \in {"run", "message", "failing"}
    BY <1>1, <2>1 DEF Tasks, Places, Writing
  <2>3. TypeOK'
    BY <1>1, <2>1, <2>2 DEF TypeOK, wire, chan
  <2>4. PlaceInv' /\ FreshInv' /\ ClosedInv'
    BY <1>1, <2>2 DEF PlaceInv, FreshInv, ClosedInv, chan
  <2>5. CodeInv' /\ StateInv'
    BY <1>1, <2>1, <2>2 DEF CodeInv, StateInv, chan, Tasks, Erring, Handling
  <2>6. EarlyInv' /\ LogInv'
    BY <1>1, <2>1, <2>2
    DEF EarlyInv, LogInv, ReaderAnswers, AppAnswers, Handling, Erring, Denying
  <2>7. ~Crashed'
    BY <2>2 DEF Crashed, Tasks
  <2>8. CrashInv'
    BY <1>1, <2>1, <2>2, <2>7 DEF CrashInv
  <2>9. QED  BY <2>3, <2>4, <2>5, <2>6, <2>8
<1>4. QED  BY <1>2, <1>3

(* The application is over: its channel closes, and what it left open is ended. *)
LEMMA ReturnKeeps ==
    ASSUME WSAssumption, IInv, ~Crashed, Return
    PROVE  IInv'
<1> USE DEF IInv
<1>1. /\ pc["app"] \in {"run", "failing"} /\ listening /\ pc \in [Tasks -> Places]
      /\ listening' = FALSE /\ queued' = 0 /\ putters' = <<>>
      /\ UNCHANGED <<wire, held, frames, buffer, life, up, dropped, losing, got, told, logged, early>>
  BY DEF Return, TypeOK
<1>2. queued' \in 0..MaxQueue /\ putters' \in Seq(Tasks)
  BY <1>1 DEF WSAssumption
<1>3. CASE ~closed /\ state = "HANDSHAKE"
  <2>1. SendError("app") /\ ws' = ws
    BY <1>3 DEF Return
  <2>2. /\ pc' \in [Tasks -> Places] /\ pc'["reader"] = pc["reader"] /\ pc'["pinger"] = pc["pinger"]
        /\ pc'["app"] = (IF http = "IDLE" THEN "errhead" ELSE "crashed")
        /\ http' = (IF http = "IDLE" THEN "SEND_BODY" ELSE "ERROR")
    BY <1>1, <2>1 DEF SendError, Go, Tasks, Places, Writing
  <2>3. TypeOK'
    BY <1>1, <1>2, <2>1, <2>2 DEF TypeOK, wire, life
  <2>4. PlaceInv' /\ FreshInv' /\ ClosedInv'
    BY <1>1, <2>2 DEF PlaceInv, FreshInv, ClosedInv, life, Erring
  <2>5. CodeInv' /\ StateInv'
    BY <1>1, <1>3, <2>1, <2>2 DEF CodeInv, StateInv, life, Tasks, Erring, Handling
  <2>6. EarlyInv'
    BY <1>1, <2>1, <2>2 DEF EarlyInv, life, Handling
  <2>7. LogInv'
    BY <1>1, <1>3, <2>2 DEF LogInv, ReaderAnswers, AppAnswers, life, Erring, Denying
  <2>8. http = "IDLE" \/ early = "cut"
    BY <1>1, <1>3 DEF StateInv
  <2>9. /\ http = "IDLE" => ~Crashed'
        /\ http # "IDLE" => Crashed'
    BY <2>2 DEF Crashed, Tasks
  <2>10. CrashInv'
    BY <1>1, <2>1, <2>2, <2>8, <2>9 DEF CrashInv, LogInv, ReaderAnswers, Erring
  <2>11. QED  BY <2>3, <2>4, <2>5, <2>6, <2>7, <2>10
<1>4. CASE ~(~closed /\ state = "HANDSHAKE")
  <2>1. /\ http' = http /\ ws' \in {ws, "LOCAL_CLOSING"} /\ (ws' # ws => ws = "OPEN")
        /\ \/ pc' = [pc EXCEPT !["app"] = "gone"]
           \/ pc' = [pc EXCEPT !["app"] = "abort"]
           \/ pc' = [pc EXCEPT !["app"] = "ending"]
           \/ /\ pc' = [pc EXCEPT !["app"] = "crashed"]
              /\ state = "CONNECTED" /\ ws = "none" /\ ws' = ws
    BY <1>4 DEF Return, Go
  <2>2. /\ pc' \in [Tasks -> Places] /\ pc'["reader"] = pc["reader"] /\ pc'["pinger"] = pc["pinger"]
        /\ pc'["app"] \in {"gone", "abort", "ending", "crashed"}
        /\ pc'["app"] = "crashed" => state = "CONNECTED" /\ ws = "none" /\ ws' = ws
    BY <1>1, <2>1 DEF Tasks, Places, Writing
  <2>3. TypeOK'
    BY <1>1, <1>2, <2>1, <2>2 DEF TypeOK, wire, life
  <2>4. PlaceInv' /\ FreshInv' /\ ClosedInv'
    BY <1>1, <2>2 DEF PlaceInv, FreshInv, ClosedInv, life
  <2>5. CodeInv' /\ StateInv'
    BY <1>1, <2>1, <2>2 DEF CodeInv, StateInv, life, Tasks, Erring, Handling
  <2>6. EarlyInv' /\ LogInv'
    BY <1>1, <2>1, <2>2
    DEF EarlyInv, LogInv, ReaderAnswers, AppAnswers, life, Handling, Erring, Denying
  <2>7. Crashed' => pc'["app"] = "crashed"
    BY <2>2 DEF Crashed, Tasks
  <2>8. CrashInv'
    BY <1>1, <2>1, <2>2, <2>7 DEF CrashInv, life
  <2>9. QED  BY <2>3, <2>4, <2>5, <2>6, <2>8
<1>5. QED  BY <1>3, <1>4

LEMMA PingKeeps ==
    ASSUME IInv, ~Crashed, Ping
    PROVE  IInv'
<1> USE DEF IInv
<1>1. /\ pc["pinger"] = "asleep" /\ pc \in [Tasks -> Places]
      /\ \E place \in {"gone", "ping", "asleep"} : pc' = [pc EXCEPT !["pinger"] = place]
      /\ UNCHANGED <<wire, proto, life, conn, losing, chan, logged, early>>
  BY DEF Ping, TypeOK, Go
<1>2. /\ pc' \in [Tasks -> Places] /\ pc'["reader"] = pc["reader"] /\ pc'["app"] = pc["app"]
      /\ pc'["pinger"] \in {"gone", "ping", "asleep"}
  BY <1>1 DEF Tasks, Places, Writing
<1>3. TypeOK'
  BY <1>1, <1>2 DEF TypeOK, wire, proto, life, conn, chan
<1>4. PlaceInv' /\ FreshInv' /\ ClosedInv'
  BY <1>1, <1>2 DEF PlaceInv, FreshInv, ClosedInv, life, conn, chan
<1>5. CodeInv' /\ StateInv'
  BY <1>1, <1>2 DEF CodeInv, StateInv, life, conn, chan, Tasks
<1>6. EarlyInv' /\ LogInv'
  BY <1>1, <1>2 DEF EarlyInv, LogInv, ReaderAnswers, AppAnswers, life, conn, proto
<1>7. ~Crashed'
  BY <1>2 DEF Crashed, Tasks
<1>8. CrashInv'
  BY <1>1, <1>2, <1>7 DEF CrashInv, conn
<1>9. QED  BY <1>3, <1>4, <1>5, <1>6, <1>8
-----------------------------------------------------------------------------
LEMMA InitInv == ASSUME WSAssumption, Init PROVE IInv
<1> USE DEF Init
<1>1. TypeOK
  <2>1. /\ sent \in Seq(Kinds) /\ Len(sent) <= MaxFrames /\ Len(held) <= MaxHeld
        /\ \A s \in {inbound, held, frames, buffer} : s \in Seq(DOMAIN sent)
    BY DEF WSAssumption
  <2>2. pc \in [Tasks -> Places]
    BY DEF Tasks, Places
  <2>3. /\ queued \in 0..MaxQueue /\ putters \in Seq(Tasks)
        /\ told \in Seq({"peer", "normal", "abnormal"})
    BY DEF WSAssumption
  <2>4. QED  BY <2>1, <2>2, <2>3 DEF TypeOK
<1>2. PlaceInv /\ FreshInv /\ ClosedInv /\ CodeInv
  BY DEF PlaceInv, FreshInv, ClosedInv, CodeInv, Tasks, Erring
<1>3. StateInv /\ EarlyInv /\ LogInv /\ CrashInv
  BY DEF StateInv, EarlyInv, LogInv, CrashInv, ReaderAnswers, AppAnswers, Crashed, Tasks,
         Handling, 
     Erring, Denying
<1>4. QED  BY <1>1, <1>2, <1>3 DEF IInv

LEMMA IoKeeps ==
    ASSUME WSAssumption, IInv, ~Crashed, NEW t \in Tasks, Io(t)
    PROVE  IInv'
<1>1. CASE Sent(t)
  BY <1>1, SentKeeps
<1>2. CASE SendFailed(t)
  BY <1>2, SendFailedKeeps
<1>3. CASE SendFailedPut(t)
  BY <1>3, SendFailedPutKeeps
<1>4. CASE Closing(t)
  BY <1>4, CloseStreamKeeps DEF Closing
<1>5. QED  BY <1>1, <1>2, <1>3, <1>4 DEF Io

LEMMA EventsKeep ==
    ASSUME WSAssumption, IInv, ~Crashed, NEW t \in {"reader", "app"}, Events(t)
    PROVE  IInv'
BY TakePieceKeeps, TakeOtherKeeps, TakeLastKeeps, PutDoneKeeps, TakePingKeeps, TakeCloseKeeps, NoEventsKeeps
   DEF Events

LEMMA AppKeeps ==
    ASSUME WSAssumption, IInv, ~Crashed, App
    PROVE  IInv'
BY AcceptKeeps, AcceptInvalidKeeps, DenialStartKeeps, DenialBodyKeeps, SendMessageKeeps,
   CloseKeeps, 
   ReturnKeeps DEF App

LEMMA NextInv == ASSUME WSAssumption, IInv, [Next]_vars PROVE IInv'
<1>1. CASE UNCHANGED vars
  <2> USE <1>1 DEF vars, wire, proto, life, conn, chan, IInv
  <2>1. TypeOK' /\ PlaceInv' /\ FreshInv' /\ ClosedInv' /\ CodeInv' /\ StateInv'
    BY DEF TypeOK, PlaceInv, FreshInv, ClosedInv, CodeInv, StateInv
  <2>2. EarlyInv' /\ LogInv' /\ CrashInv'
    BY DEF EarlyInv, LogInv, CrashInv, ReaderAnswers, AppAnswers, Crashed, TooLarge, Kind
  <2>3. QED  BY <2>1, <2>2
<1>2. CASE Next
  <2>1. ~Crashed
    BY <1>2 DEF Next
  <2>2. CASE \E k \in Kinds : SendFrame(k)
    BY <2>1, <2>2, SendFrameKeeps
  <2>3. CASE Drop \/ AppReads
    BY <2>1, <2>3, DropKeeps, AppReadsKeeps
  <2>4. CASE App
    BY <2>1, <2>4, AppKeeps
  <2>5. CASE Accepted \/ Ping
    BY <2>1, <2>5, AcceptedKeeps, PingKeeps
  <2>6. CASE Run("reader") \/ Run("app") \/ Run("pinger")
    BY <2>1, <2>6, IoKeeps, EventsKeep DEF Run, Tasks
  <2>7. CASE \E offer \in Offers : Request(offer)
    BY <2>1, <2>7, RequestKeeps
  <2>8. CASE Receive
    BY <2>1, <2>8, ReceiveKeeps
  <2>9. CASE ReaderCloses
    BY <2>1, <2>9, CloseStreamKeeps DEF ReaderCloses, Tasks
  <2>10. QED
    BY <1>2, <2>2, <2>3, <2>4, <2>5, <2>6, <2>7, <2>8, <2>9 DEF Next, Reader
<1>3. QED  BY <1>1, <1>2

(* The strengthened invariant holds of every reachable state. *)
THEOREM Invariant == Spec => []IInv
<1>1. Init => IInv
  BY InitInv, WSAssumption
<1>2. IInv /\ [Next]_vars => IInv'
  BY NextInv, WSAssumption
<1>3. QED  BY <1>1, <1>2, PTL DEF Spec

(* The frames, the stream's state, the queue and the tasks keep their types. *)
THEOREM TypeCorrect == Spec => []TypeOK
<1>1. IInv => TypeOK
  BY DEF IInv
<1>2. QED  BY <1>1, Invariant, PTL

(* However the stream ends, an application that is still there is told of it once,
   and not as an abnormal closure unless the socket was lost or the handshake cut off:
   WSStream.handle and its close code. *)
THEOREM ToldOnceCorrect == Spec => []ToldOnce
<1>1. IInv => ToldOnce
  BY DEF IInv, FreshInv, ClosedInv, CodeInv, ToldOnce
<1>2. QED  BY <1>1, Invariant, PTL

(* A handshake is answered and logged once, and no task meets h11's refusal of a second
   answer or an absent connection, but for an invalid acceptance or bytes ahead of it. *)
THEOREM AnsweredOnceCorrect == Spec => []AnsweredOnce
<1>1. IInv => AnsweredOnce
  BY DEF IInv, LogInv, CrashInv, AnsweredOnce
<1>2. QED  BY <1>1, Invariant, PTL
-----------------------------------------------------------------------------
(* The first k frames have been taken from wsproto; those that follow are there,
   and then in the socket, as they were sent. *)
FramesAt(k) ==
    /\ k + Len(frames) <= Len(sent)
    /\ \A i \in DOMAIN frames : frames[i] = k + i
    /\ ~closed => /\ Len(sent) = k + Len(frames) + Len(inbound)
                  /\ \A i \in DOMAIN inbound : inbound[i] = k + Len(frames) + i

Data(f) == Kind(f) \in {"part", "last", "big"}

InBuffer(f) == \E i \in DOMAIN buffer : buffer[i] = f

(* What was put came whole and in order from the first k frames. *)
PutAt(k) ==
    /\ \A i \in DOMAIN got : Whole(got[i]) /\ \A j \in DOMAIN got[i] : got[i][j] \in 1..k
    /\ \A i, m \in DOMAIN got : \A j \in DOMAIN got[i], l \in DOMAIN got[m] :
          i < m \/ (i = m /\ j < l) => got[i][j] < got[m][l]

(* The rest of their data is in the buffer, which holds the message that is being
   put, or the pieces of the next. *)
BufferAt(k) ==
    /\ \A f \in 1..k : Data(f) => Delivered(f) \/ InBuffer(f)
    /\ \A i \in DOMAIN buffer : buffer[i] \in 1..k
    /\ \A i, j \in DOMAIN buffer : i < j => buffer[i] < buffer[j]
    /\ IF pc["reader"] = "putting" THEN \A i \in DOMAIN buffer : Delivered(buffer[i])
       ELSE /\ \A i \in DOMAIN buffer : \A f \in 1..k : Delivered(f) => f < buffer[i]
            /\ TooLarge(buffer) \/ \A i \in DOMAIN buffer : Kind(buffer[i]) = "part"

(* The reader takes no more. *)
ReaderFailed == pc["reader"] = "crashed"

OrderInv ==
    /\ got \in Seq(Seq(Nat))
    /\ early = "none" /\ ws = "none" => frames = <<>> /\ buffer = <<>> /\ got = <<>>
    /\ early = "none" /\ held = <<>> =>
           \E k \in Nat : (FramesAt(k) \/ ReaderFailed) /\ PutAt(k) /\ BufferAt(k)

(* What most steps leave as it is. *)
Untouched ==
    /\ UNCHANGED <<sent, inbound, held, frames, buffer, got, early>>
    /\ closed => closed'
    /\ ws' = "none" => ws = "none"
    /\ pc'["reader"] = "putting" <=> pc["reader"] = "putting"

LEMMA UntouchedKeeps ==
    ASSUME OrderInv, Untouched, ~ReaderFailed \/ pc' = pc
    PROVE  OrderInv'
<1> USE DEF Untouched
<1>1. /\ got' \in Seq(Seq(Nat))
      /\ early' = "none" /\ ws' = "none" => frames' = <<>> /\ buffer' = <<>> /\ got' = <<>>
  BY DEF OrderInv
<1>2. ASSUME early' = "none", held' = <<>>
      PROVE  \E k \in Nat : (FramesAt(k) \/ ReaderFailed)' /\ PutAt(k)' /\ BufferAt(k)'
  <2>1. PICK k \in Nat : (FramesAt(k) \/ ReaderFailed) /\ PutAt(k) /\ BufferAt(k)
    BY <1>2 DEF OrderInv
  <2>2. (FramesAt(k) \/ ReaderFailed)'
    BY <2>1 DEF FramesAt, ReaderFailed
  <2>3. PutAt(k)'
    BY <2>1 DEF PutAt, Whole, Kind
  <2>4. BufferAt(k)'
    BY <2>1 DEF BufferAt, Data, Delivered, InBuffer, TooLarge, Kind
  <2>5. QED  BY <2>2, <2>3, <2>4
<1>3. QED  BY <1>1, <1>2 DEF OrderInv

(* A task that neither puts a message nor begins to does not move the reader there. *)
LEMMA Elsewhere ==
    ASSUME TypeOK, NEW t \in Tasks, pc[t] # "putting", NEW place, place # "putting",
           Go(t, place)
    PROVE  pc'["reader"] = "putting" <=> pc["reader"] = "putting"
BY DEF TypeOK, Go, Tasks

(* Sends and their failures touch none of it. *)
LEMMA IoUntouched ==
    ASSUME TypeOK, NEW t \in Tasks, Io(t)
    PROVE  Untouched
<1>1. ASSUME pc[t] \in Writing, Wrote(t)
      PROVE  pc'["reader"] = "putting" <=> pc["reader"] = "putting"
  <2>1. Go(t, AfterWrite(t)) /\ AfterWrite(t) # "putting"
    BY <1>1 DEF Wrote, AfterWrite, Done, Writing
  <2>2. pc[t] # "putting"
    BY <1>1 DEF Writing
  <2>3. QED  BY <2>1, <2>2, Elsewhere
<1>2. CASE Sent(t)
  BY <1>1, <1>2 DEF Sent, Untouched, wire, proto, chan
<1>3. CASE SendFailed(t)
  BY <1>1, <1>3 DEF SendFailed, HandleClosed, Untouched, wire, proto
<1>4. CASE SendFailedPut(t)
  BY <1>1, <1>4 DEF SendFailedPut, Untouched, wire, proto, chan
<1>5. ASSUME NEW place \in {"closing", "ending"}, NEW after \in {"events", Done(t)},
             CloseStream(t, place, after)
      PROVE  Untouched
  <2>1. after # "putting" /\ pc[t] # "putting"
    BY <1>5 DEF CloseStream, Done
  <2>2. pc' = pc \/ Go(t, after)
    BY <1>5 DEF CloseStream
  <2>3. pc'["reader"] = "putting" <=> pc["reader"] = "putting"
    BY <2>1, <2>2, Elsewhere
  <2>4. QED  BY <1>5, <2>3 DEF CloseStream, HandleClosed, Untouched, wire, proto
<1>6. CASE Closing(t)
  BY <1>5, <1>6 DEF Closing
<1>7. QED  BY <1>2, <1>3, <1>4, <1>6 DEF Io

(* Nor does what the application sends, nor its return. *)
LEMMA AppUntouched ==
    ASSUME TypeOK, App
    PROVE  Untouched
<1>1. "app" \in Tasks
  BY DEF Tasks
<1>2. \A place : Go("app", place) => pc'["reader"] = pc["reader"]
  BY DEF TypeOK, Go, Tasks
<1>3. CASE Accept
  BY <1>2, <1>3 DEF Accept, Untouched, wire, chan
<1>4. CASE AcceptInvalid
  BY <1>2, <1>4 DEF AcceptInvalid, Untouched, wire, proto, chan
<1>5. CASE DenialStart
  BY <1>5 DEF DenialStart, Untouched, wire, proto, chan
<1>6. ASSUME NEW more \in BOOLEAN, DenialBody(more)
      PROVE  Untouched
  BY <1>2, <1>6 DEF DenialBody, Untouched, wire, proto, life, chan
<1>7. CASE SendMessage
  BY <1>2, <1>7 DEF SendMessage, Untouched, wire, proto, life, chan
<1>8. CASE Close
  BY <1>2, <1>8 DEF Close, SendError, Untouched, wire, chan
<1>9. CASE Return
  BY <1>2, <1>9 DEF Return, SendError, Untouched, wire, life
<1>10. QED
  BY <1>3, <1>4, <1>5, <1>6, <1>7, <1>8, <1>9 DEF App

(* One more frame comes after those that wait. *)
LEMMA SendFrameOrder ==
    ASSUME IInv, OrderInv, ~ReaderFailed, NEW kind \in Kinds, SendFrame(kind)
    PROVE  OrderInv'
<1>1. /\ ~closed /\ sent' = Append(sent, kind) /\ inbound' = Append(inbound, Len(sent) + 1)
      /\ UNCHANGED <<held, frames, ws, buffer, closed, pc, got, early>>
  BY DEF SendFrame, proto, life, chan
<1>2. /\ got' \in Seq(Seq(Nat))
      /\ early' = "none" /\ ws' = "none" => frames' = <<>> /\ buffer' = <<>> /\ got' = <<>>
  BY <1>1 DEF OrderInv
<1>3. sent \in Seq(Kinds) /\ inbound \in Seq(DOMAIN sent) /\ frames \in Seq(DOMAIN sent)
  BY DEF IInv, TypeOK
<1>4. Len(sent') = Len(sent) + 1 /\ \A f \in 1..Len(sent) : sent'[f] = sent[f]
  BY <1>1, <1>3
<1>5. ASSUME early' = "none", held' = <<>>
      PROVE  \E k \in Nat : FramesAt(k)' /\ PutAt(k)' /\ BufferAt(k)'
  <2>1. PICK k \in Nat : FramesAt(k) /\ PutAt(k) /\ BufferAt(k)
    BY <1>1, <1>5 DEF OrderInv
  <2>2. k <= Len(sent)
    BY <1>3, <2>1 DEF FramesAt
  <2>3. \A f \in 1..k : sent'[f] = sent[f]
    BY <1>3, <1>4, <2>2
  <2>4. FramesAt(k)'
    <3>1. Len(inbound') = Len(inbound) + 1
      BY <1>1, <1>3
    <3>2. Len(sent) = k + Len(frames) + Len(inbound)
      BY <1>1, <2>1 DEF FramesAt
    <3>3. \A i \in DOMAIN inbound' : inbound'[i] = k + Len(frames) + i
      <4>1. TAKE i \in DOMAIN inbound'
      <4>2. CASE i = Len(inbound) + 1
        BY <1>1, <1>3, <3>2, <4>2
      <4>3. CASE i # Len(inbound) + 1
        <5>1. i \in DOMAIN inbound /\ inbound'[i] = inbound[i]
          BY <1>1, <1>3, <4>3
        <5>2. QED  BY <1>1, <2>1, <5>1 DEF FramesAt
      <4>4. QED  BY <4>2, <4>3
    <3>4. QED  BY <1>1, <1>3, <1>4, <2>1, <3>1, <3>2, <3>3 DEF FramesAt
  <2>5. PutAt(k)'
    <3>1. \A i \in DOMAIN got : Whole(got[i])'
      BY <1>1, <2>1, <2>3 DEF PutAt, Whole, Kind
    <3>2. QED  BY <1>1, <2>1, <3>1 DEF PutAt
  <2>6. BufferAt(k)'
    <3>1. \A f \in 1..k : Data(f)' => Delivered(f)' \/ InBuffer(f)'
      <4>1. TAKE f \in 1..k
      <4>2. Data(f)' => Data(f)
        BY <2>3 DEF Data, Kind
      <4>3. Delivered(f) => Delivered(f)'
        BY <1>1 DEF Delivered
      <4>4. InBuffer(f) => InBuffer(f)'
        BY <1>1 DEF InBuffer
      <4>5. QED  BY <2>1, <4>2, <4>3, <4>4 DEF BufferAt
    <3>2. /\ \A i \in DOMAIN buffer : buffer[i] \in 1..k
          /\ \A i, j \in DOMAIN buffer : i < j => buffer[i] < buffer[j]
      BY <2>1 DEF BufferAt
    <3>3. pc["reader"] = "putting" => \A i \in DOMAIN buffer : Delivered(buffer[i])'
      BY <1>1, <2>1 DEF BufferAt, Delivered
    <3>4. pc["reader"] # "putting" =>
             \A i \in DOMAIN buffer : \A f \in 1..k : Delivered(f)' => f < buffer[i]
      BY <1>1, <2>1 DEF BufferAt, Delivered
    <3>5. TooLarge(buffer) => TooLarge(buffer)'
      BY <1>1, <2>3, <3>2 DEF TooLarge, Kind
    <3>6. \A i \in DOMAIN buffer : Kind(buffer[i]) = "part" => Kind(buffer[i])' = "part"
      BY <1>1, <2>3, <3>2 DEF Kind
    <3>7. pc["reader"] # "putting" =>
             TooLarge(buffer)' \/ \A i \in DOMAIN buffer : Kind(buffer[i])' = "part"
      BY <2>1, <3>5, <3>6 DEF BufferAt
    <3>8. QED  BY <1>1, <3>1, <3>2, <3>3, <3>4, <3>7 DEF BufferAt
  <2>7. QED  BY <2>4, <2>5, <2>6
<1>6. QED  BY <1>2, <1>5 DEF OrderInv

(* What the reader receives goes to wsproto; ahead of the acceptance it is held. *)
LEMMA ReceiveOrder ==
    ASSUME IInv, OrderInv, Receive
    PROVE  OrderInv'
<1>1. /\ pc["reader"] = "receive" /\ inbound # <<>> /\ inbound' = <<>>
      /\ UNCHANGED <<sent, ws, buffer, closed, got>>
  BY DEF Receive, life, chan
<1>10. ~ReaderFailed
  BY <1>1 DEF ReaderFailed
<1>2. inbound \in Seq(DOMAIN sent) /\ held \in Seq(DOMAIN sent) /\ frames \in Seq(DOMAIN sent)
      /\ sent \in Seq(Kinds)
  BY DEF IInv, TypeOK
<1>3. got' \in Seq(Seq(Nat))
  BY <1>1 DEF OrderInv
<1>4. pc'["reader"] # "putting" /\ (early' = "none" => early = "none")
  <2>1. pc' = pc \/ \E place \in {"events", "crashed", "errhead"} : Go("reader", place)
    BY DEF Receive, ReceiveData, SendError
  <2>2. pc'["reader"] # "putting"
    BY <1>1, <2>1 DEF Go, IInv, TypeOK, Tasks
  <2>3. QED  BY <2>2 DEF Receive
<1>5. CASE ws = "none"
  <2>1. frames' = frames
    BY <1>5 DEF Receive
  <2>2. early' = "none" /\ held' = <<>> => ~stream \/ closed
    <3>1. ASSUME stream, ~closed, early' = "none"
          PROVE  held' # <<>>
      <4>1. pc' = pc
        BY <1>5, <3>1 DEF Receive
      <4>2. ~SendError("reader")
        BY <1>1, <4>1 DEF SendError, Go, IInv, TypeOK, Tasks
      <4>3. held' = held \o inbound
        BY <1>5, <3>1, <4>2 DEF Receive
      <4>4. QED  BY <1>1, <1>2, <4>3
    <3>2. QED  BY <3>1
  <2>3. early' = "none" /\ held' = <<>> => closed /\ held = <<>>
    <3>1. ~stream => closed
      BY DEF IInv, ClosedInv
    <3>2. ~stream \/ closed => held' = held
      BY DEF Receive
    <3>3. QED  BY <2>2, <3>1, <3>2
  <2>4. ASSUME early' = "none", held' = <<>>
        PROVE  \E k \in Nat : FramesAt(k)' /\ PutAt(k)' /\ BufferAt(k)'
    <3>1. PICK k \in Nat : FramesAt(k) /\ PutAt(k) /\ BufferAt(k)
      BY <1>4, <1>10, <2>3, <2>4 DEF OrderInv
    <3>2. FramesAt(k)'
      BY <1>1, <2>1, <2>3, <2>4, <3>1 DEF FramesAt
    <3>3. PutAt(k)'
      BY <1>1, <3>1 DEF PutAt, Whole, Kind
    <3>4. BufferAt(k)'
      BY <1>1, <1>4, <3>1 DEF BufferAt, Data, Delivered, InBuffer, TooLarge, Kind
    <3>5. QED  BY <3>2, <3>3, <3>4
  <2>5. early' = "none" => frames' = <<>> /\ buffer' = <<>> /\ got' = <<>>
    BY <1>1, <1>4, <1>5, <2>1 DEF OrderInv
  <2>6. QED  BY <1>3, <2>4, <2>5 DEF OrderInv
<1>6. CASE ws # "none"
  <2>1. held' = held /\ early' = early
    BY <1>6 DEF Receive
  <2>2. ASSUME early' = "none", held' = <<>>
        PROVE  \E k \in Nat : FramesAt(k)' /\ PutAt(k)' /\ BufferAt(k)'
    <3>1. PICK k \in Nat : FramesAt(k) /\ PutAt(k) /\ BufferAt(k)
      BY <1>10, <2>1, <2>2 DEF OrderInv
    <3>2. CASE ~stream \/ closed
      <4>1. frames' = frames /\ closed
        <5>1. frames' = frames
          BY <3>2 DEF Receive
        <5>2. QED  BY <3>2, <5>1 DEF IInv, ClosedInv
      <4>2. FramesAt(k)'
        BY <1>1, <3>1, <4>1 DEF FramesAt
      <4>3. PutAt(k)'
        BY <1>1, <3>1 DEF PutAt, Whole, Kind
      <4>4. BufferAt(k)'
        BY <1>1, <1>4, <3>1 DEF BufferAt, Data, Delivered, InBuffer, TooLarge, Kind
      <4>5. QED  BY <4>2, <4>3, <4>4
    <3>3. CASE stream /\ ~closed
      <4>1. ws # "CLOSED"
        BY <1>1, <2>1, <2>2, <3>3 DEF IInv, EarlyInv
      <4>2. frames' = frames \o inbound
        BY <1>6, <3>3, <4>1 DEF Receive, ReceiveData
      <4>3. Len(frames') = Len(frames) + Len(inbound)
        BY <1>2, <4>2
      <4>4. \A i \in DOMAIN frames' : frames'[i] = k + i
        <5>1. TAKE i \in DOMAIN frames'
        <5>2. CASE i <= Len(frames)
          <6>1. i \in DOMAIN frames /\ frames'[i] = frames[i]
            BY <1>2, <4>2, <4>3, <5>2
          <6>2. QED  BY <3>1, <6>1 DEF FramesAt
        <5>3. CASE i > Len(frames)
          <6>1. /\ i - Len(frames) \in DOMAIN inbound
                /\ frames'[i] = inbound[i - Len(frames)]
            BY <1>2, <4>2, <4>3, <5>3
          <6>2. inbound[i - Len(frames)] = k + Len(frames) + (i - Len(frames))
            BY <3>1, <3>3, <6>1 DEF FramesAt
          <6>3. i \in Nat /\ Len(frames) \in Nat
            BY <1>2, <4>2, <4>3
          <6>4. QED  BY <6>1, <6>2, <6>3
        <5>4. i \in Nat /\ Len(frames) \in Nat
          BY <1>2, <4>2, <4>3
        <5>5. QED  BY <5>2, <5>3, <5>4
      <4>5. FramesAt(k)'
        BY <1>1, <1>2, <3>1, <3>3, <4>3, <4>4 DEF FramesAt
      <4>6. PutAt(k)'
        BY <1>1, <3>1 DEF PutAt, Whole, Kind
      <4>7. BufferAt(k)'
        BY <1>1, <1>4, <3>1 DEF BufferAt, Data, Delivered, InBuffer, TooLarge, Kind
      <4>8. QED  BY <4>5, <4>6, <4>7
    <3>4. QED  BY <3>2, <3>3
  <2>3. QED  BY <1>1, <1>3, <1>6, <2>2 DEF OrderInv
<1>7. QED  BY <1>5, <1>6

(* The frame that is taken is the next one. *)
LEMMA Advanced ==
    ASSUME TypeOK, NEW k \in Nat, FramesAt(k), PutAt(k), NEW kinds, Take("reader", kinds),
           UNCHANGED <<sent, inbound, closed>>
    PROVE  /\ FramesAt(k + 1)' /\ Head(frames) = k + 1
           /\ Kind(k + 1) \in kinds /\ ~Delivered(k + 1)
<1>1. frames \in Seq(DOMAIN sent) /\ sent \in Seq(Kinds) /\ inbound \in Seq(DOMAIN sent)
  BY DEF TypeOK
<1>2. frames # <<>> /\ frames' = Tail(frames) /\ Kind(Head(frames)) \in kinds
  BY DEF Take
<1>3. Len(frames) \in Nat \ {0} /\ DOMAIN frames = 1..Len(frames) /\ Head(frames) = frames[1]
  BY <1>1, <1>2
<1>4. Head(frames) = k + 1
  BY <1>3 DEF FramesAt
<1>5. Len(frames') = Len(frames) - 1 /\ DOMAIN frames' = 1..(Len(frames) - 1)
      /\ \A i \in 1..(Len(frames) - 1) : frames'[i] = frames[i + 1]
  BY <1>1, <1>2
<1>6. \A i \in DOMAIN frames' : frames'[i] = (k + 1) + i
  <2>1. TAKE i \in DOMAIN frames'
  <2>2. i \in Nat /\ i + 1 \in DOMAIN frames /\ frames'[i] = frames[i + 1]
    BY <1>3, <1>5
  <2>3. frames[i + 1] = k + (i + 1)
    BY <2>2 DEF FramesAt
  <2>4. QED  BY <2>2, <2>3
<1>7. FramesAt(k + 1)'
  <2>1. (k + 1) + Len(frames') = k + Len(frames)
    BY <1>3, <1>5
  <2>2. \A i \in DOMAIN inbound : (k + 1) + Len(frames') + i = k + Len(frames) + i
    BY <2>1
  <2>3. QED  BY <1>6, <2>1, <2>2 DEF FramesAt
<1>8. ~Delivered(k + 1)
  BY DEF PutAt, Delivered
<1>9. QED  BY <1>2, <1>4, <1>7, <1>8

(* What the application takes came ahead of the acceptance. *)
LEMMA EarlyOrder ==
    ASSUME IInv, OrderInv, pc["app"] \in Handling, early' = early, got' \in Seq(Seq(Nat))
    PROVE  OrderInv'
BY DEF OrderInv, IInv, EarlyInv

(* A frame that is no piece of a message is passed over. *)
LEMMA SkipOrder ==
    ASSUME IInv, OrderInv, Take("reader", {"ping", "close"}),
           UNCHANGED <<sent, inbound, held, buffer, closed, got, early>>,
           pc'["reader"] # "putting", ws' = "none" => ws = "none"
    PROVE  OrderInv'
<1>1. /\ got' \in Seq(Seq(Nat)) /\ pc["reader"] = "events"
      /\ ~(early' = "none" /\ ws' = "none")
  BY DEF OrderInv, Take
<1>2. ASSUME early' = "none", held' = <<>>
      PROVE  \E k \in Nat : FramesAt(k)' /\ PutAt(k)' /\ BufferAt(k)'
  <2>1. PICK k \in Nat : FramesAt(k) /\ PutAt(k) /\ BufferAt(k)
    BY <1>1, <1>2 DEF OrderInv, ReaderFailed
  <2>2. FramesAt(k + 1)' /\ Kind(k + 1) \in {"ping", "close"} /\ ~Delivered(k + 1)
    BY <2>1, Advanced DEF IInv
  <2>3. PutAt(k + 1)'
    BY <2>1 DEF PutAt, Whole, Kind
  <2>4. BufferAt(k + 1)'
    <3>1. \A f \in 1..(k + 1) : f \in 1..k \/ f = k + 1
      OBVIOUS
    <3>2. ~Data(k + 1)
      BY <2>2 DEF Data
    <3>3. \A f \in 1..(k + 1) : Data(f) => Delivered(f) \/ InBuffer(f)
      BY <2>1, <3>1, <3>2 DEF BufferAt
    <3>4. \A i \in DOMAIN buffer : \A f \in 1..(k + 1) : Delivered(f) => f < buffer[i]
      BY <1>1, <2>1, <2>2, <3>1 DEF BufferAt
    <3>5. \A i \in DOMAIN buffer : buffer[i] \in 1..(k + 1)
      BY <2>1 DEF BufferAt
    <3>6. /\ \A i, j \in DOMAIN buffer : i < j => buffer[i] < buffer[j]
          /\ TooLarge(buffer) \/ \A i \in DOMAIN buffer : Kind(buffer[i]) = "part"
      BY <1>1, <2>1 DEF BufferAt
    <3>7. QED
      BY <3>3, <3>4, <3>5, <3>6 DEF BufferAt, Data, Delivered, InBuffer, TooLarge, Kind
  <2>5. k + 1 \in Nat
    OBVIOUS
  <2>6. QED  BY <2>2, <2>3, <2>4, <2>5
<1>3. QED  BY <1>1, <1>2 DEF OrderInv

(* A message is the buffer and the frame k + 1 that is taken, which comes after all
   that was put and all that the buffer holds. *)
Extends(message, k) ==
    /\ message \in Seq(Nat) /\ Len(message) = Len(buffer) + 1
    /\ DOMAIN message = 1..(Len(buffer) + 1) /\ message[Len(buffer) + 1] = k + 1
    /\ \A i \in DOMAIN buffer : i \in DOMAIN message /\ message[i] = buffer[i]
    /\ \A i \in DOMAIN message : i \in DOMAIN buffer \/ i = Len(buffer) + 1
    /\ \A i \in DOMAIN message : message[i] \in 1..(k + 1)
    /\ \A i, j \in DOMAIN message : i < j => message[i] < message[j]
    /\ \A f \in 1..(k + 1) : Data(f) => Delivered(f) \/ \E i \in DOMAIN message : message[i] = f
    /\ \A i \in DOMAIN message : \A f \in 1..k : Delivered(f) => f < message[i]
    /\ TooLarge(message) \/ \A i \in DOMAIN buffer : Kind(buffer[i]) = "part"

LEMMA Extended ==
    ASSUME TypeOK, NEW k \in Nat, PutAt(k), BufferAt(k), pc["reader"] # "putting",
           Kind(k + 1) \in {"part", "last", "big"}, k + 1 \in DOMAIN sent,
           NEW message, message = Append(buffer, k + 1)
    PROVE  Extends(message, k)
<1>1. buffer \in Seq(DOMAIN sent) /\ sent \in Seq(Kinds)
  BY DEF TypeOK
<1>2. message \in Seq(DOMAIN sent) /\ DOMAIN sent = 1..Len(sent) /\ Len(sent) \in Nat
  BY <1>1
<1>3. message \in Seq(Nat)
  BY <1>2
<1>4. /\ Len(message) = Len(buffer) + 1 /\ DOMAIN message = 1..(Len(buffer) + 1)
      /\ message[Len(buffer) + 1] = k + 1 /\ Len(buffer) \in Nat
      /\ DOMAIN buffer = 1..Len(buffer)
      /\ \A i \in DOMAIN buffer : message[i] = buffer[i]
  BY <1>1
<1>5. /\ \A i \in DOMAIN buffer : i \in DOMAIN message /\ message[i] = buffer[i]
      /\ \A i \in DOMAIN message : i \in DOMAIN buffer \/ i = Len(buffer) + 1
  BY <1>4
<1>6. \A i \in DOMAIN buffer : buffer[i] \in 1..k
  BY DEF BufferAt
<1>7. \A i \in DOMAIN message : message[i] \in 1..(k + 1)
  BY <1>4, <1>5, <1>6
<1>8. \A i, j \in DOMAIN message : i < j => message[i] < message[j]
  <2>1. TAKE i, j \in DOMAIN message
  <2>2. HAVE i < j
  <2>3. i \in DOMAIN buffer
    BY <1>4, <2>2
  <2>4. CASE j \in DOMAIN buffer
    BY <1>5, <2>2, <2>3, <2>4 DEF BufferAt
  <2>5. CASE j = Len(buffer) + 1
    BY <1>4, <1>5, <1>6, <2>3, <2>5
  <2>6. QED  BY <1>5, <2>4, <2>5
<1>9. \A f \in 1..(k + 1) : Data(f) => Delivered(f) \/ \E i \in DOMAIN message : message[i] = f
  <2>1. TAKE f \in 1..(k + 1)
  <2>2. CASE f \in 1..k
    BY <1>5, <2>2 DEF BufferAt, InBuffer
  <2>3. CASE f = k + 1
    BY <1>4, <2>3
  <2>4. QED  BY <2>2, <2>3
<1>10. \A i \in DOMAIN message : \A f \in 1..k : Delivered(f) => f < message[i]
  <2>1. TAKE i \in DOMAIN message
  <2>2. CASE i \in DOMAIN buffer
    BY <1>5, <2>2 DEF BufferAt
  <2>3. CASE i = Len(buffer) + 1
    BY <1>4, <2>3
  <2>4. QED  BY <1>5, <2>2, <2>3
<1>11. TooLarge(buffer) => TooLarge(message)
  BY <1>5 DEF TooLarge
<1>12. ~TooLarge(message) => \A i \in DOMAIN buffer : Kind(buffer[i]) = "part"
  BY <1>11 DEF BufferAt
<1>13. QED
  BY <1>3, <1>4, <1>5, <1>7, <1>8, <1>9, <1>10, <1>12 DEF Extends

(* A piece goes to the buffer. *)
LEMMA PieceOrder ==
    ASSUME IInv, OrderInv, TakePiece("reader")
    PROVE  OrderInv'
<1> DEFINE message == Append(buffer, Head(frames))
<1>1. /\ Take("reader", {"part", "big"}) /\ buffer' = message
      /\ UNCHANGED <<sent, inbound, held, closed, got, early>>
  BY DEF TakePiece, wire, life, chan
<1>2. pc["reader"] = "events" /\ pc'["reader"] # "putting" /\ (ws' = "none" => ws = "none")
  <2>1. pc["reader"] = "events"
    BY <1>1 DEF Take
  <2>2. pc' = pc \/ Go("reader", "toobig") \/ Go("reader", Done("reader"))
    BY DEF TakePiece
  <2>3. ws' = "none" => ws = "none"
    BY DEF TakePiece
  <2>4. QED  BY <2>1, <2>2, <2>3 DEF Go, Done, IInv, TypeOK, Tasks
<1>3. got' \in Seq(Seq(Nat)) /\ ~(early' = "none" /\ ws' = "none")
  BY <1>1, <1>2 DEF OrderInv, Take
<1>4. ASSUME early' = "none", held' = <<>>
      PROVE  \E k \in Nat : FramesAt(k)' /\ PutAt(k)' /\ BufferAt(k)'
  <2>1. PICK k \in Nat : FramesAt(k) /\ PutAt(k) /\ BufferAt(k)
    BY <1>1, <1>2, <1>4 DEF OrderInv, ReaderFailed
  <2>2. FramesAt(k + 1)' /\ Head(frames) = k + 1 /\ Kind(k + 1) \in {"part", "big"}
        /\ ~Delivered(k + 1)
    BY <1>1, <2>1, Advanced DEF IInv
  <2>3. k + 1 \in DOMAIN sent
    BY <1>1, <2>2 DEF Take, IInv, TypeOK
  <2>4. PutAt(k + 1)'
    BY <1>1, <2>1 DEF PutAt, Whole, Kind
  <2>5. BufferAt(k + 1)'
    <3>1. Extends(message, k)
      BY <1>2, <2>1, <2>2, <2>3, Extended DEF IInv
    <3> HIDE DEF message
    <3> USE DEF Extends
    <3>2. \A f \in 1..(k + 1) : Delivered(f) => f \in 1..k
      BY <2>2
    <3>3. \A i \in DOMAIN message : \A f \in 1..(k + 1) : Delivered(f) => f < message[i]
      BY <3>1, <3>2
    <3>4. ~TooLarge(message) => \A i \in DOMAIN message : Kind(message[i]) = "part"
      <4>1. SUFFICES ASSUME ~TooLarge(message), NEW i \in DOMAIN message
                     PROVE  Kind(message[i]) = "part"
        OBVIOUS
      <4>2. CASE i \in DOMAIN buffer
        BY <3>1, <4>1, <4>2
      <4>3. CASE i = Len(buffer) + 1
        BY <2>2, <3>1, <4>1, <4>3 DEF TooLarge
      <4>4. QED  BY <3>1, <4>2, <4>3
    <3>5. \A f \in 1..(k + 1) : Data(f)' => Delivered(f)' \/ InBuffer(f)'
      BY <1>1, <3>1 DEF Data, Kind, Delivered, InBuffer
    <3>6. \A i \in DOMAIN buffer' : \A f \in 1..(k + 1) : Delivered(f)' => f < buffer'[i]
      BY <1>1, <3>3 DEF Delivered
    <3>7. TooLarge(buffer)' \/ \A i \in DOMAIN buffer' : Kind(buffer[i])' = "part"
      BY <1>1, <3>4 DEF TooLarge, Kind
    <3>8. QED  BY <1>1, <1>2, <3>1, <3>5, <3>6, <3>7 DEF BufferAt
  <2>6. k + 1 \in Nat
    OBVIOUS
  <2>7. QED  BY <2>2, <2>4, <2>5, <2>6
<1>5. QED  BY <1>3, <1>4 DEF OrderInv

(* A message is put once it is whole, after those before it. *)
LEMMA LastOrder ==
    ASSUME IInv, OrderInv, TakeLast("reader")
    PROVE  OrderInv'
<1> DEFINE message == Append(buffer, Head(frames))
<1>1. /\ Take("reader", {"last"})
      /\ UNCHANGED <<sent, inbound, held, ws, closed, early>>
  BY DEF TakeLast, wire, life
<1>2. pc["reader"] = "events"
  BY <1>1 DEF Take
<1>3. got \in Seq(Seq(Nat)) /\ frames # <<>> /\ ~(early' = "none" /\ ws' = "none")
  BY <1>1 DEF OrderInv, Take
<1>4. /\ buffer \in Seq(DOMAIN sent) /\ frames \in Seq(DOMAIN sent)
      /\ sent \in Seq(Kinds)
  BY DEF IInv, TypeOK
<1>5. Head(frames) \in Nat /\ buffer \in Seq(Nat) /\ Head(frames) \in DOMAIN sent
  BY <1>3, <1>4
<1>6. message \in Seq(Nat)
  BY <1>5
<1>7. CASE TooLarge(message)
  <2>1. buffer' = message /\ got' = got /\ pc'["reader"] # "putting"
    <3>1. buffer' = message /\ got' = got /\ Go("reader", Done("reader"))
      BY <1>7 DEF TakeLast
    <3>2. QED  BY <3>1 DEF Go, Done, IInv, TypeOK, Tasks
  <2>2. ASSUME early' = "none", held' = <<>>
        PROVE  \E k \in Nat : FramesAt(k)' /\ PutAt(k)' /\ BufferAt(k)'
    <3>1. PICK k \in Nat : FramesAt(k) /\ PutAt(k) /\ BufferAt(k)
      BY <1>1, <1>2, <2>2 DEF OrderInv, ReaderFailed
    <3>2. FramesAt(k + 1)' /\ Head(frames) = k + 1 /\ Kind(k + 1) = "last"
          /\ ~Delivered(k + 1)
      BY <1>1, <3>1, Advanced DEF IInv
    <3>3. PutAt(k + 1)'
      BY <1>1, <2>1, <3>1 DEF PutAt, Whole, Kind
    <3>4. BufferAt(k + 1)'
      <4>1. Extends(message, k)
        BY <1>2, <1>5, <3>1, <3>2, Extended DEF IInv
      <4> HIDE DEF message
      <4> USE DEF Extends
      <4>2. \A f \in 1..(k + 1) : Delivered(f) => f \in 1..k
        BY <3>2
      <4>3. \A f \in 1..(k + 1) : Data(f)' => Delivered(f)' \/ InBuffer(f)'
        BY <1>1, <2>1, <4>1 DEF Data, Kind, Delivered, InBuffer
      <4>4. \A i \in DOMAIN buffer' : \A f \in 1..(k + 1) : Delivered(f)' => f < buffer'[i]
        BY <2>1, <4>1, <4>2 DEF Delivered
      <4>5. TooLarge(buffer)'
        BY <1>1, <1>7, <2>1 DEF TooLarge, Kind
      <4>6. QED  BY <2>1, <4>1, <4>3, <4>4, <4>5 DEF BufferAt
    <3>5. k + 1 \in Nat
      OBVIOUS
    <3>6. QED  BY <3>2, <3>3, <3>4, <3>5
  <2>3. QED  BY <1>3, <2>1, <2>2 DEF OrderInv
<1>8. CASE ~TooLarge(message)
  <2>1. /\ got' = Append(got, message)
        /\ (buffer' = <<>> /\ pc' = pc) \/ (buffer' = message /\ Go("reader", "putting"))
    BY <1>8 DEF TakeLast
  <2>2. \/ buffer' = <<>> /\ pc'["reader"] # "putting"
        \/ buffer' = message /\ pc'["reader"] = "putting"
    BY <1>2, <2>1 DEF Go, IInv, TypeOK, Tasks
  <2>3. /\ got' \in Seq(Seq(Nat)) /\ DOMAIN got = 1..Len(got) /\ Len(got) \in Nat
        /\ DOMAIN got' = 1..(Len(got) + 1) /\ got'[Len(got) + 1] = message
        /\ \A m \in DOMAIN got : m \in DOMAIN got' /\ got'[m] = got[m]
        /\ \A m \in DOMAIN got' : m \in DOMAIN got \/ m = Len(got) + 1
    <3> HIDE DEF message
    <3>1. got' \in Seq(Seq(Nat)) /\ DOMAIN got = 1..Len(got) /\ Len(got) \in Nat
      BY <1>3, <1>6, <2>1
    <3>2. /\ DOMAIN got' = 1..(Len(got) + 1) /\ got'[Len(got) + 1] = message
          /\ \A m \in DOMAIN got : got'[m] = got[m]
      BY <1>3, <1>6, <2>1
    <3>3. QED  BY <3>1, <3>2
  <2>4. ASSUME early' = "none", held' = <<>>
        PROVE  \E k \in Nat : FramesAt(k)' /\ PutAt(k)' /\ BufferAt(k)'
    <3>1. PICK k \in Nat : FramesAt(k) /\ PutAt(k) /\ BufferAt(k)
      BY <1>1, <1>2, <2>4 DEF OrderInv, ReaderFailed
    <3>2. FramesAt(k + 1)' /\ Head(frames) = k + 1 /\ Kind(k + 1) = "last"
          /\ ~Delivered(k + 1)
      BY <1>1, <3>1, Advanced DEF IInv
    <3>3. Extends(message, k)
      BY <1>2, <1>5, <3>1, <3>2, Extended DEF IInv
    <3> HIDE DEF message
    <3> USE DEF Extends
    <3>4. Whole(message)
      <4>1. Len(buffer) \in Nat /\ DOMAIN buffer = 1..Len(buffer)
        BY <1>4
      <4>2. message # <<>>
        BY <3>3, <4>1
      <4>3. \A j \in DOMAIN message :
               Kind(message[j]) = (IF j = Len(message) THEN "last" ELSE "part")
        BY <1>8, <3>2, <3>3, <4>1
      <4>4. QED  BY <4>2, <4>3 DEF Whole
    <3>5. PutAt(k + 1)'
      <4>1. \A m \in DOMAIN got' :
               Whole(got'[m]) /\ \A j \in DOMAIN got'[m] : got'[m][j] \in 1..(k + 1)
        <5>1. TAKE m \in DOMAIN got'
        <5>2. CASE m \in DOMAIN got
          BY <2>3, <3>1, <5>2 DEF PutAt
        <5>3. CASE m = Len(got) + 1
          BY <2>3, <3>3, <3>4, <5>3
        <5>4. QED  BY <2>3, <5>2, <5>3
      <4>2. \A i, m \in DOMAIN got' : \A j \in DOMAIN got'[i], l \in DOMAIN got'[m] :
               i < m \/ (i = m /\ j < l) => got'[i][j] < got'[m][l]
        <5>1. TAKE i, m \in DOMAIN got'
        <5>2. TAKE j \in DOMAIN got'[i], l \in DOMAIN got'[m]
        <5>3. HAVE i < m \/ (i = m /\ j < l)
        <5>4. CASE m \in DOMAIN got
          <6>1. i \in DOMAIN got
            BY <2>3, <5>3, <5>4
          <6>2. got'[i] = got[i] /\ got'[m] = got[m]
            BY <2>3, <5>4, <6>1
          <6>3. j \in DOMAIN got[i] /\ l \in DOMAIN got[m]
            BY <6>2
          <6>4. got[i][j] < got[m][l]
            BY <3>1, <5>3, <5>4, <6>1, <6>3 DEF PutAt
          <6>5. QED  BY <6>2, <6>4
        <5>5. CASE m = Len(got) + 1 /\ i \in DOMAIN got
          <6>1. got'[i] = got[i] /\ got'[m] = message
            BY <2>3, <5>5
          <6>2. j \in DOMAIN got[i] /\ l \in DOMAIN message
            BY <6>1
          <6>3. Delivered(got[i][j]) /\ got[i][j] \in 1..k
            BY <3>1, <5>5, <6>2 DEF Delivered, PutAt
          <6>4. got[i][j] < message[l]
            BY <3>3, <6>2, <6>3
          <6>5. QED  BY <6>1, <6>4
        <5>6. CASE m = Len(got) + 1 /\ i = Len(got) + 1
          <6>1. got'[i] = message /\ got'[m] = message /\ j < l
            BY <2>3, <5>3, <5>6
          <6>2. QED  BY <3>3, <6>1
        <5>7. QED  BY <2>3, <5>4, <5>5, <5>6
      <4>3. \A m \in DOMAIN got' : Whole(got[m])'
        BY <1>1, <4>1 DEF Whole, Kind
      <4>4. QED  BY <4>1, <4>2, <4>3 DEF PutAt
    <3>6. BufferAt(k + 1)'
      <4>1. \A f : Delivered(f) => Delivered(f)'
        BY <2>3 DEF Delivered
      <4>2. \A f : (\E i \in DOMAIN message : message[i] = f) => Delivered(f)'
        <5>1. Len(got) + 1 \in DOMAIN got' /\ got'[Len(got) + 1] = message
          BY <2>3
        <5>2. QED  BY <5>1 DEF Delivered
      <4>3. \A f \in 1..(k + 1) : Data(f)' => Delivered(f)'
        <5>1. TAKE f \in 1..(k + 1)
        <5>2. Data(f)' => Data(f)
          BY <1>1 DEF Data, Kind
        <5>3. Data(f) => Delivered(f)'
          BY <3>3, <4>1, <4>2
        <5>4. QED  BY <5>2, <5>3
      <4>4. CASE buffer' = <<>> /\ pc'["reader"] # "putting"
        BY <4>3, <4>4 DEF BufferAt
      <4>5. CASE buffer' = message /\ pc'["reader"] = "putting"
        <5>1. \A i \in DOMAIN buffer' : Delivered(buffer[i])'
          BY <4>2, <4>5
        <5>2. QED  BY <3>3, <4>3, <4>5, <5>1 DEF BufferAt
      <4>6. QED  BY <2>2, <4>4, <4>5
    <3>7. k + 1 \in Nat
      OBVIOUS
    <3>8. QED  BY <3>2, <3>5, <3>6, <3>7
  <2>5. QED  BY <1>3, <2>3, <2>4 DEF OrderInv
<1>9. QED  BY <1>7, <1>8

(* The message is put: the buffer is for the next. *)
LEMMA PutDoneOrder ==
    ASSUME IInv, OrderInv, PutDone("reader")
    PROVE  OrderInv'
<1>1. /\ pc["reader"] = "putting" /\ buffer' = <<>> /\ Go("reader", "events")
      /\ UNCHANGED <<sent, inbound, held, frames, ws, closed, got, early>>
  BY DEF PutDone, wire, life, chan
<1>2. pc'["reader"] # "putting"
  BY <1>1 DEF Go, IInv, TypeOK, Tasks
<1>3. ASSUME early' = "none", held' = <<>>
      PROVE  \E k \in Nat : FramesAt(k)' /\ PutAt(k)' /\ BufferAt(k)'
  <2>1. PICK k \in Nat : FramesAt(k) /\ PutAt(k) /\ BufferAt(k)
    BY <1>1, <1>3 DEF OrderInv, ReaderFailed
  <2>2. FramesAt(k)'
    BY <1>1, <2>1 DEF FramesAt
  <2>3. PutAt(k)'
    BY <1>1, <2>1 DEF PutAt, Whole, Kind
  <2>4. BufferAt(k)'
    <3>1. \A f \in 1..k : Data(f)' => Delivered(f)'
      <4>1. TAKE f \in 1..k
      <4>2. Data(f) => Delivered(f)
        BY <1>1, <2>1 DEF BufferAt, InBuffer
      <4>3. QED  BY <1>1, <4>2 DEF Data, Delivered, Kind
    <3>2. QED  BY <1>1, <1>2, <3>1 DEF BufferAt
  <2>5. QED  BY <2>2, <2>3, <2>4
<1>4. QED  BY <1>1, <1>3 DEF OrderInv

(* A message that the buffer does not take is the last thing the reader does. *)
LEMMA FailedOrder ==
    ASSUME IInv, OrderInv, TakeOther("reader")
    PROVE  OrderInv'
<1>1. /\ Take("reader", {"part", "last", "big"}) /\ Go("reader", "crashed")
      /\ UNCHANGED <<sent, inbound, held, ws, buffer, closed, got, early>>
  BY DEF TakeOther, wire, life, chan
<1>2. pc["reader"] = "events" /\ pc'["reader"] = "crashed"
  BY <1>1 DEF Take, Go, IInv, TypeOK, Tasks
<1>3. got' \in Seq(Seq(Nat)) /\ ~(early' = "none" /\ ws' = "none")
  BY <1>1 DEF OrderInv, Take
<1>4. ASSUME early' = "none", held' = <<>>
      PROVE  \E k \in Nat : ReaderFailed' /\ PutAt(k)' /\ BufferAt(k)'
  <2>1. PICK k \in Nat : PutAt(k) /\ BufferAt(k)
    BY <1>1, <1>4 DEF OrderInv
  <2>2. PutAt(k)'
    BY <1>1, <2>1 DEF PutAt, Whole, Kind
  <2>3. BufferAt(k)'
    BY <1>1, <1>2, <2>1 DEF BufferAt, Data, Delivered, InBuffer, TooLarge, Kind
  <2>4. QED  BY <1>2, <2>2, <2>3 DEF ReaderFailed
<1>5. QED  BY <1>3, <1>4 DEF OrderInv

(* The reader handles one event, or is done with them. *)
LEMMA ReaderOrder ==
    ASSUME IInv, OrderInv, Events("reader")
    PROVE  OrderInv'
<1>1. "reader" \in Tasks
  BY DEF Tasks
<1>2. ASSUME NEW place, place # "putting", pc["reader"] = "events", Go("reader", place)
      PROVE  pc'["reader"] # "putting"
  BY <1>2 DEF Go, IInv, TypeOK, Tasks
<1>3. CASE TakePing("reader")
  <2>1. /\ Take("reader", {"ping"}) /\ (pc' = pc \/ Go("reader", "pong"))
        /\ UNCHANGED <<sent, inbound, held, ws, buffer, closed, got, early>>
    BY <1>3 DEF TakePing, wire, life, chan
  <2>2. Take("reader", {"ping", "close"}) /\ pc["reader"] = "events"
    BY <2>1 DEF Take
  <2>3. pc'["reader"] # "putting"
    BY <1>2, <2>1, <2>2
  <2>4. QED  BY <2>1, <2>2, <2>3, SkipOrder
<1>4. CASE TakeClose("reader")
  <2>1. /\ Take("reader", {"close"}) /\ ws' \in {ws, "CLOSED"}
        /\ \E place \in {"reply", "closing"} : Go("reader", place)
        /\ UNCHANGED <<sent, inbound, held, buffer, closed, got, early>>
    BY <1>4 DEF TakeClose, wire, chan
  <2>2. Take("reader", {"ping", "close"}) /\ pc["reader"] = "events"
    BY <2>1 DEF Take
  <2>3. pc'["reader"] # "putting"
    BY <1>2, <2>1, <2>2
  <2>4. QED  BY <2>1, <2>2, <2>3, SkipOrder
<1>5. CASE NoEvents("reader")
  <2>1. pc["reader"] = "events" /\ Go("reader", "receive")
    BY <1>5 DEF NoEvents, Done
  <2>2. pc'["reader"] # "putting"
    BY <1>2, <2>1
  <2>3. Untouched
    BY <1>5, <2>1, <2>2 DEF NoEvents, Untouched, wire, proto, life, chan
  <2>4. QED  BY <2>1, <2>3, UntouchedKeeps DEF ReaderFailed
<1>6. CASE TakeOther("reader")
  BY <1>6, FailedOrder
<1>7. QED
  BY <1>3, <1>4, <1>5, <1>6, PieceOrder, LastOrder, PutDoneOrder DEF Events

(* The application handles what was held, which is not in question. *)
LEMMA HeldOrder ==
    ASSUME IInv, OrderInv, Events("app")
    PROVE  OrderInv'
<1>1. pc["app"] \in Handling
  BY DEF Events, TakePiece, TakeOther, TakeLast, PutDone, TakePing, TakeClose, NoEvents, Take,
         Handling
<1>2. early' = early
  BY DEF Events, TakePiece, TakeOther, TakeLast, PutDone, TakePing, TakeClose, NoEvents
<1>3. got' = got \/ (frames # <<>> /\ got' = Append(got, Append(buffer, Head(frames))))
  <2>1. CASE TakeLast("app")
    BY <2>1 DEF TakeLast, Take
  <2>2. CASE TakePiece("app") \/ TakeOther("app") \/ PutDone("app") \/ TakePing("app")
    BY <2>2 DEF TakePiece, TakeOther, PutDone, TakePing, chan
  <2>3. CASE TakeClose("app") \/ NoEvents("app")
    BY <2>3 DEF TakeClose, NoEvents, chan
  <2>4. QED  BY <2>1, <2>2, <2>3 DEF Events
<1>4. got' \in Seq(Seq(Nat))
  <2>1. got \in Seq(Seq(Nat))
    BY DEF OrderInv
  <2>2. ASSUME frames # <<>>
        PROVE  Append(got, Append(buffer, Head(frames))) \in Seq(Seq(Nat))
    <3>1. frames \in Seq(DOMAIN sent) /\ buffer \in Seq(DOMAIN sent) /\ sent \in Seq(Kinds)
      BY DEF IInv, TypeOK
    <3>2. Head(frames) \in Nat /\ buffer \in Seq(Nat)
      BY <2>2, <3>1
    <3>3. Append(buffer, Head(frames)) \in Seq(Nat)
      BY <3>2
    <3>4. QED  BY <2>1, <3>3
  <2>3. QED  BY <1>3, <2>1, <2>2
<1>5. QED  BY <1>1, <1>2, <1>4, EarlyOrder

(* Once it has accepted, what was held is to be handled. *)
LEMMA AcceptedOrder ==
    ASSUME IInv, OrderInv, ~ReaderFailed, Accepted
    PROVE  OrderInv'
<1>1. /\ held' = <<>> /\ (held # <<>> => early' = "held") /\ (held = <<>> => early' = early)
      /\ UNCHANGED <<sent, inbound, ws, buffer, closed, got>>
      /\ pc["app"] = "accepted"
  BY DEF Accepted, wire, life, chan
<1>2. CASE held # <<>>
  BY <1>1, <1>2 DEF OrderInv
<1>3. CASE held = <<>>
  <2>1. frames \in Seq(DOMAIN sent)
    BY DEF IInv, TypeOK
  <2>2. frames' = frames
    BY <1>3, <2>1 DEF Accepted
  <2>3. pc'["reader"] = pc["reader"]
    BY DEF Accepted, IInv, TypeOK, Tasks
  <2>4. Untouched
    BY <1>1, <1>3, <2>2, <2>3 DEF Untouched
  <2>5. QED  BY <2>4, UntouchedKeeps
<1>4. QED  BY <1>2, <1>3

(* Every step keeps the messages in order. *)
LEMMA NextOrder ==
    ASSUME IInv, OrderInv, [Next]_vars
    PROVE  OrderInv'
<1>1. TypeOK
  BY DEF IInv
<1>2. CASE UNCHANGED vars
  <2>1. Untouched
    BY <1>2 DEF vars, wire, proto, life, chan, Untouched
  <2>2. QED  BY <1>2, <2>1, UntouchedKeeps DEF vars
<1> SUFFICES ASSUME Next, ~ReaderFailed
             PROVE  OrderInv'
  BY <1>2 DEF Next, Crashed, ReaderFailed, Tasks
<1>3. CASE Drop \/ AppReads
  <2>1. Untouched
    BY <1>3 DEF Drop, AppReads, wire, proto, life, chan, Untouched
  <2>2. QED  BY <2>1, UntouchedKeeps
<1>4. CASE Ping
  <2>1. pc'["reader"] = pc["reader"]
    BY <1>1, <1>4 DEF Ping, Go, TypeOK, Tasks
  <2>2. Untouched
    BY <1>4, <2>1 DEF Ping, wire, proto, life, chan, Untouched
  <2>3. QED  BY <2>2, UntouchedKeeps
<1>5. ASSUME NEW offer \in Offers, Request(offer)
      PROVE  OrderInv'
  <2>1. pc["reader"] = "request" /\ pc'["reader"] # "putting"
    BY <1>1, <1>5 DEF Request, Go, TypeOK, Tasks
  <2>2. Untouched
    BY <1>5, <2>1 DEF Request, wire, proto, life, Untouched
  <2>3. QED  BY <2>2, UntouchedKeeps
<1>6. CASE ReaderCloses
  <2>1. pc["reader"] = "receive" /\ pc'["reader"] # "putting"
    BY <1>1, <1>6 DEF ReaderCloses, CloseStream, Go, TypeOK, Tasks
  <2>2. Untouched
    BY <1>6, <2>1 DEF ReaderCloses, CloseStream, HandleClosed, wire, proto, Untouched
  <2>3. QED  BY <2>2, UntouchedKeeps
<1>7. CASE App
  BY <1>1, <1>7, AppUntouched, UntouchedKeeps
<1>8. ASSUME NEW t \in Tasks, Run(t)
      PROVE  OrderInv'
  <2>1. CASE Io(t)
    BY <1>1, <2>1, IoUntouched, UntouchedKeeps
  <2>2. CASE t # "pinger" /\ Events(t)
    BY <2>2, ReaderOrder, HeldOrder DEF Tasks
  <2>3. QED  BY <1>8, <2>1, <2>2 DEF Run
<1>9. ASSUME NEW kind \in Kinds, SendFrame(kind)
      PROVE  OrderInv'
  BY <1>9, SendFrameOrder
<1>10. \/ \E kind \in Kinds : SendFrame(kind)
       \/ Drop \/ AppReads \/ App \/ Accepted \/ Ping
       \/ (\E offer \in Offers : Request(offer)) \/ Receive \/ ReaderCloses
       \/ \E t \in Tasks : Run(t)
  BY DEF Next, Reader, Tasks
<1>11. QED
  BY <1>3, <1>4, <1>5, <1>6, <1>7, <1>8, <1>9, <1>10, AcceptedOrder, ReceiveOrder

(* Of what is in order, every piece up to the last one delivered is delivered. *)
LEMMA OrderDelivers ==
    ASSUME TypeOK, OrderInv, NEW k \in Nat, PutAt(k), BufferAt(k)
    PROVE  InOrder
<1>1. ASSUME NEW i \in DOMAIN got, NEW j \in DOMAIN got[i], NEW f \in 1..got[i][j],
             Kind(f) \in {"part", "last"}
      PROVE  Delivered(f)
  <2>1. got[i][j] \in 1..k /\ Delivered(got[i][j])
    BY DEF PutAt, Delivered
  <2>2. f \in 1..k /\ f <= got[i][j]
    BY <2>1
  <2>3. Delivered(f) \/ InBuffer(f)
    BY <1>1, <2>2 DEF BufferAt, Data
  <2>4. ASSUME NEW m \in DOMAIN buffer, buffer[m] = f
        PROVE  Delivered(f)
    <3>1. CASE pc["reader"] = "putting"
      BY <2>4, <3>1 DEF BufferAt
    <3>2. CASE pc["reader"] # "putting"
      <4>1. got[i][j] < f
        BY <2>1, <2>4, <3>2 DEF BufferAt
      <4>2. QED  BY <2>1, <2>2, <4>1
    <3>3. QED  BY <3>1, <3>2
  <2>5. QED  BY <2>3, <2>4 DEF InBuffer
<1>2. QED  BY <1>1 DEF InOrder, PutAt

(* Messages reach the application whole, in the order their frames were sent and with none
   left out, whatever pings, closes, full queues and failing sends come between their
   pieces, unless bytes came ahead of the acceptance: WSStream._handle_events. *)
THEOREM MessagesWholeCorrect == Spec => []MessagesWhole
<1>1. Init => OrderInv
  <2>1. SUFFICES ASSUME Init
                 PROVE  OrderInv
    OBVIOUS
  <2>2. /\ sent = <<>> /\ inbound = <<>> /\ frames = <<>> /\ buffer = <<>> /\ got = <<>>
        /\ pc["reader"] = "request"
    BY <2>1 DEF Init
  <2>3. FramesAt(0) /\ PutAt(0) /\ BufferAt(0)
    BY <2>2 DEF FramesAt, PutAt, BufferAt, TooLarge
  <2>4. QED  BY <2>2, <2>3 DEF OrderInv
<1>2. IInv /\ OrderInv /\ [Next]_vars => OrderInv'
  BY NextOrder
<1>3. IInv /\ OrderInv => MessagesWhole
  <2>1. SUFFICES ASSUME IInv, OrderInv, early = "none", held = <<>> \/ ws = "none"
                 PROVE  InOrder
    BY DEF MessagesWhole
  <2>2. CASE held = <<>>
    BY <2>1, <2>2, OrderDelivers DEF OrderInv, IInv
  <2>3. CASE ws = "none"
    BY <2>1, <2>3 DEF OrderInv, InOrder
  <2>4. QED  BY <2>1, <2>2, <2>3
<1>4. QED  BY <1>1, <1>2, <1>3, Invariant, PTL DEF Spec
=============================================================================
