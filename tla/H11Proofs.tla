------------------------------- MODULE H11Proofs -------------------------------
(***************************************************************************)
(* Proofs about H11Connection, for any amount of input, any capacity of    *)
(* the application's queue, and whatever the client, the application and   *)
(* the worker may do.                                                      *)
(***************************************************************************)
EXTENDS H11Connection, TLAPS

Messages == {"body", "end", "disconnect"}

(* The queue q holds a disconnect; it holds no two. *)
Told(q) == \E i \in DOMAIN q : q[i] = "disconnect"
Once(q) == \A i, j \in DOMAIN q : q[i] = "disconnect" /\ q[j] = "disconnect" => i = j

(* Between two cycles nobody writes; a writer finds h11 where it left it, unless
   the client is in error, which it stays for good. *)
RoleInv ==
    /\ their = "IDLE" => our = "IDLE" /\ app \in {"none", "gone"}
    /\ reader = "rejecting" => their = "ERROR"
    /\ app = "run" => their = "ERROR" \/ our = "SEND_RESPONSE"
    /\ app \in {"head", "respond", "body", "errhead", "error"} =>
          their = "ERROR" \/ our = "SEND_BODY"
    /\ app # "broken"
    /\ losing => app \in {"head", "body", "errhead", "end"}

(* Whoever has closed the stream and waits for room to say so. *)
Telling == losing \/ app = "stuck" \/ reader = "putclosed"

(* A stream is closed by one of those who may, who tells the application, which
   has one disconnect to receive in all. *)
TellInv ==
    /\ Once(queue) /\ (informed => ~Told(queue))
    /\ Telling => ended /\ ~informed /\ ~Told(queue)
    /\ ~(losing /\ reader = "putclosed") /\ ~(app = "stuck" /\ reader = "putclosed")
    /\ ~ended => ~informed /\ ~Told(queue)
    /\ listening /\ ended => Telling \/ informed \/ Told(queue)
    /\ listening /\ ~stream => ended
    /\ reader = "gone" => ~stream

IInv == TypeOK /\ FreshMeansNoStream /\ RoleInv /\ TellInv
-----------------------------------------------------------------------------
(* What a put and a get make of the disconnects in a queue. *)
LEMMA Queues ==
    ASSUME NEW q \in Seq(Messages)
    PROVE  /\ ~Told(<<>>) /\ Once(<<>>)
           /\ \A m \in Messages : /\ Append(q, m) \in Seq(Messages)
                                  /\ Len(Append(q, m)) = Len(q) + 1
                                  /\ Told(Append(q, m)) <=> Told(q) \/ m = "disconnect"
                                  /\ Once(q) /\ (Told(q) => m # "disconnect") => Once(Append(q, m))
           /\ q # <<>> => /\ Tail(q) \in Seq(Messages) /\ Head(q) \in Messages
                          /\ Len(Tail(q)) = Len(q) - 1 /\ Len(q) \in Nat
                          /\ Told(q) <=> Told(Tail(q)) \/ Head(q) = "disconnect"
                          /\ Once(q) => Once(Tail(q))
                          /\ Once(q) /\ Head(q) = "disconnect" => ~Told(Tail(q))
<1>1. ~Told(<<>>) /\ Once(<<>>)
  BY DEF Told, Once
<1>2. ASSUME NEW m \in Messages
      PROVE  /\ Append(q, m) \in Seq(Messages)
             /\ Len(Append(q, m)) = Len(q) + 1
             /\ Told(Append(q, m)) <=> Told(q) \/ m = "disconnect"
             /\ Once(q) /\ (Told(q) => m # "disconnect") => Once(Append(q, m))
  <2>1. /\ Append(q, m) \in Seq(Messages) /\ Len(Append(q, m)) = Len(q) + 1 /\ Len(q) \in Nat
        /\ Append(q, m)[Len(q) + 1] = m
        /\ \A i \in 1..Len(q) : Append(q, m)[i] = q[i]
    OBVIOUS
  <2>2. DOMAIN q = 1..Len(q) /\ DOMAIN Append(q, m) = 1..(Len(q) + 1)
    OBVIOUS
  <2>3. Told(Append(q, m)) <=> Told(q) \/ m = "disconnect"
    BY <2>1, <2>2 DEF Told
  <2>4. Once(q) /\ (Told(q) => m # "disconnect") => Once(Append(q, m))
    BY <2>1, <2>2 DEF Told, Once
  <2>5. QED  BY <2>1, <2>3, <2>4
<1>3. ASSUME q # <<>>
      PROVE  /\ Tail(q) \in Seq(Messages) /\ Head(q) \in Messages
             /\ Len(Tail(q)) = Len(q) - 1 /\ Len(q) \in Nat
             /\ Told(q) <=> Told(Tail(q)) \/ Head(q) = "disconnect"
             /\ Once(q) => Once(Tail(q))
             /\ Once(q) /\ Head(q) = "disconnect" => ~Told(Tail(q))
  <2>1. /\ Tail(q) \in Seq(Messages) /\ Head(q) \in Messages /\ Head(q) = q[1]
        /\ Len(Tail(q)) = Len(q) - 1 /\ Len(q) \in Nat /\ Len(q) > 0
        /\ \A i \in 1..(Len(q) - 1) : Tail(q)[i] = q[i + 1]
    BY <1>3
  <2>2. DOMAIN q = 1..Len(q) /\ DOMAIN Tail(q) = 1..(Len(q) - 1)
    BY <2>1
  <2>3. Told(q) => Told(Tail(q)) \/ Head(q) = "disconnect"
    <3>1. ASSUME NEW i \in 1..Len(q), q[i] = "disconnect", i # 1
          PROVE  i - 1 \in 1..(Len(q) - 1) /\ Tail(q)[i - 1] = "disconnect"
      <4>1. i - 1 \in 1..(Len(q) - 1) /\ (i - 1) + 1 = i
        BY <2>1, <3>1
      <4>2. QED  BY <2>1, <3>1, <4>1
    <3>2. QED  BY <2>1, <2>2, <3>1 DEF Told
  <2>4. \A i \in DOMAIN Tail(q) : i + 1 \in DOMAIN q /\ Tail(q)[i] = q[i + 1]
    BY <2>1, <2>2
  <2>5. Told(Tail(q)) \/ Head(q) = "disconnect" => Told(q)
    BY <2>1, <2>2, <2>4 DEF Told
  <2>6. Once(q) => Once(Tail(q))
    <3>1. SUFFICES ASSUME Once(q), NEW i \in DOMAIN Tail(q), NEW j \in DOMAIN Tail(q),
                          Tail(q)[i] = "disconnect", Tail(q)[j] = "disconnect"
                   PROVE  i = j
      BY DEF Once
    <3>2. i + 1 = j + 1
      BY <2>4, <3>1 DEF Once
    <3>3. QED  BY <2>1, <2>2, <3>2
  <2>7. Once(q) /\ Head(q) = "disconnect" => ~Told(Tail(q))
    <3>1. SUFFICES ASSUME Once(q), Head(q) = "disconnect",
                          NEW i \in DOMAIN Tail(q), Tail(q)[i] = "disconnect"
                   PROVE  FALSE
      BY DEF Told
    <3>2. i + 1 = 1
      BY <2>1, <2>2, <2>4, <3>1 DEF Once
    <3>3. QED  BY <2>1, <2>2, <3>2
  <2>8. QED  BY <2>1, <2>3, <2>5, <2>6, <2>7
<1>4. QED  BY <1>1, <1>2, <1>3

(* A put that finds room. *)
LEMMA Puts ==
    ASSUME H11Assumption, TypeOK, HasRoom, NEW m \in Messages, PutMessage(m)
    PROVE  /\ queue' \in Seq(Messages) /\ Len(queue') <= MaxQueue
           /\ Told(queue') <=> Told(queue) \/ (listening /\ m = "disconnect")
           /\ Once(queue) /\ (Told(queue) => m # "disconnect") => Once(queue')
<1>1. queue \in Seq(Messages) /\ Len(queue) \in Nat /\ Len(queue) <= MaxQueue
  BY DEF TypeOK, Messages
<1>2. QED  BY <1>1, Queues, H11Assumption DEF HasRoom, PutMessage

-----------------------------------------------------------------------------
(* Every event operator returns an event. *)
LEMMA EventOperators ==
    ASSUME NEW T, NEW e \in Event(T), NEW t \in T
    PROVE  /\ NewEvent \in Event(T)
           /\ ClearEvent(e) \in Event(T)
           /\ SetEvent(e) \in Event(T)
           /\ WaitEvent(e, t) \in Event(T)
           /\ ResumeEvent(e, t) \in Event(T)
BY DEF Event, NewEvent, ClearEvent, SetEvent, WaitEvent, ResumeEvent

(* Every step keeps the types. *)
LEMMA TypeKept ==
    ASSUME H11Assumption, TypeOK, Next
    PROVE  TypeOK'
<1> USE DEF input, lib, http, conn
<1>a. queue \in Seq(Messages) /\ Len(queue) \in Nat
  BY DEF TypeOK, Messages
<1>b. \A m \in Messages : HasRoom /\ PutMessage(m) =>
         queue' \in Seq(Messages) /\ Len(queue') <= MaxQueue
  BY H11Assumption, Puts
<1>c. /\ "body" \in Messages /\ "end" \in Messages /\ "disconnect" \in Messages
      /\ Messages = {"body", "end", "disconnect"}
  BY DEF Messages
<1>e. /\ SetEvent(canRead) \in Event({"reader"})
      /\ ResumeEvent(canRead, "reader") \in Event({"reader"})
      /\ WaitEvent(ClearEvent(canRead), "reader") \in Event({"reader"})
  <2>1. canRead \in Event({"reader"}) /\ "reader" \in {"reader"}
    BY DEF TypeOK
  <2>2. ClearEvent(canRead) \in Event({"reader"})
    BY <2>1, EventOperators
  <2>3. QED  BY <2>1, <2>2, EventOperators
<1>1. CASE \E t \in {"request", "refused"} : SendRequest(t)
  <2>1. client' \in [requests : 0..MaxInput, pieces : 0..MaxInput, open : BOOLEAN]
    BY <1>1, H11Assumption DEF TypeOK, SendRequest, Tokens
  <2>2. pipe' \in Seq(Tokens)
    BY <1>1, H11Assumption DEF TypeOK, SendRequest, Tokens
  <2>3. UNCHANGED <<inbox, their, our, queue, app, reader, canRead, requests, reuse,
                    stream, ended, listening, informed, losing, idle, up, terminated>>
    BY <1>1 DEF SendRequest, Tokens
  <2>4. QED  BY <2>1, <2>2, <2>3 DEF TypeOK
<1>2. CASE SendPiece
  <2>1. client' \in [requests : 0..MaxInput, pieces : 0..MaxInput, open : BOOLEAN]
    <3>1. client' = [requests |-> client.requests, pieces |-> client.pieces + 1,
                     open |-> client.open]
          /\ client.requests \in 0..MaxInput /\ client.pieces \in 0..MaxInput
          /\ client.open \in BOOLEAN /\ client.pieces < MaxInput
      BY <1>2 DEF TypeOK, SendPiece
    <3>2. QED  BY <3>1, H11Assumption
  <2>2. pipe' \in Seq(Tokens)
    BY <1>2, H11Assumption DEF TypeOK, SendPiece, Tokens
  <2>3. UNCHANGED <<inbox, their, our, queue, app, reader, canRead, requests, reuse,
                    stream, ended, listening, informed, losing, idle, up, terminated>>
    BY <1>2 DEF SendPiece, Tokens
  <2>4. QED  BY <2>1, <2>2, <2>3 DEF TypeOK
<1>3. CASE SendEnd
  <2>1. client' \in [requests : 0..MaxInput, pieces : 0..MaxInput, open : BOOLEAN]
    BY <1>3 DEF TypeOK, SendEnd, Tokens
  <2>2. pipe' \in Seq(Tokens)
    BY <1>3 DEF TypeOK, SendEnd, Tokens
  <2>3. UNCHANGED <<inbox, their, our, queue, app, reader, canRead, requests, reuse,
                    stream, ended, listening, informed, losing, idle, up, terminated>>
    BY <1>3 DEF SendEnd, Tokens
  <2>4. QED  BY <2>1, <2>2, <2>3 DEF TypeOK
<1>4. CASE SendBad
  <2>1. client' \in [requests : 0..MaxInput, pieces : 0..MaxInput, open : BOOLEAN]
    <3>1. client' = [requests |-> MaxInput, pieces |-> MaxInput, open |-> client.open]
          /\ client.open \in BOOLEAN
      BY <1>4 DEF TypeOK, SendBad
    <3>2. QED  BY <3>1, H11Assumption
  <2>2. pipe' \in Seq(Tokens)
    BY <1>4, H11Assumption DEF TypeOK, SendBad, Tokens
  <2>3. UNCHANGED <<inbox, their, our, queue, app, reader, canRead, requests, reuse,
                    stream, ended, listening, informed, losing, idle, up, terminated>>
    BY <1>4 DEF SendBad, Tokens
  <2>4. QED  BY <2>1, <2>2, <2>3 DEF TypeOK
<1>5. CASE Leave
  <2>1. up' \in BOOLEAN
    BY <1>5 DEF TypeOK, Leave
  <2>2. UNCHANGED <<client, pipe, inbox, their, our, queue, app, reader, canRead, requests,
                    reuse, stream, ended, listening, informed, losing, idle, terminated>>
    BY <1>5 DEF Leave
  <2>3. QED  BY <2>1, <2>2 DEF TypeOK
<1>6. CASE Received
  <2>1. inbox' \in Seq(Tokens)
    BY <1>6 DEF TypeOK, Received
  <2>2. pipe' \in Seq(Tokens)
    BY <1>6 DEF TypeOK, Received
  <2>3. reader' \in {"receive", "loop", "putbody", "putend", "paused", "rejecting",
                      "refusing", "putclosed", "gone"}
    BY <1>6 DEF TypeOK, Received
  <2>4. UNCHANGED <<client, their, our, queue, app, canRead, requests, reuse, stream,
                    ended, listening, informed, losing, idle, up, terminated>>
    BY <1>6 DEF Received
  <2>5. QED  BY <2>1, <2>2, <2>3, <2>4 DEF TypeOK
<1>7. CASE NextPaused
  <2>1. canRead' \in Event({"reader"})
    BY <1>7, <1>e DEF TypeOK, NextPaused
  <2>2. reader' \in {"receive", "loop", "putbody", "putend", "paused", "rejecting",
                      "refusing", "putclosed", "gone"}
    BY <1>7 DEF TypeOK, NextPaused
  <2>3. UNCHANGED <<client, pipe, inbox, their, our, queue, app, requests, reuse, stream,
                    ended, listening, informed, losing, idle, up, terminated>>
    BY <1>7 DEF NextPaused
  <2>4. QED  BY <2>1, <2>2, <2>3 DEF TypeOK
<1>8. CASE NeedData
  <2>1. reader' \in {"receive", "loop", "putbody", "putend", "paused", "rejecting",
                      "refusing", "putclosed", "gone"}
    BY <1>8 DEF TypeOK, NeedData
  <2>2. UNCHANGED <<client, pipe, inbox, their, our, queue, app, canRead, requests, reuse,
                    stream, ended, listening, informed, losing, idle, up, terminated>>
    BY <1>8 DEF NeedData
  <2>3. QED  BY <2>1, <2>2 DEF TypeOK
<1>9. CASE NextRejected
  <2>1. reuse' \in BOOLEAN /\ up' \in BOOLEAN
    BY <1>9 DEF TypeOK, NextRejected, States
  <2>2. our' \in {"IDLE", "SEND_RESPONSE", "SEND_BODY", "DONE", "MUST_CLOSE", "ERROR"}
    BY <1>9 DEF TypeOK, NextRejected, States
  <2>3. their' \in {"IDLE", "SEND_BODY", "DONE", "MUST_CLOSE", "ERROR"}
    BY <1>9 DEF TypeOK, NextRejected, States
  <2>4. reader' \in {"receive", "loop", "putbody", "putend", "paused", "rejecting",
                      "refusing", "putclosed", "gone"}
    BY <1>9 DEF TypeOK, NextRejected, States
  <2>5. UNCHANGED <<client, pipe, inbox, queue, app, canRead, requests, stream, ended,
                    listening, informed, losing, idle, terminated>>
    BY <1>9 DEF NextRejected, States
  <2>6. QED  BY <2>1, <2>2, <2>3, <2>4, <2>5 DEF TypeOK
<1>10. CASE NextRequest
  <2>1. /\ idle' \in BOOLEAN /\ stream' \in BOOLEAN /\ ended' \in BOOLEAN
        /\ informed' \in BOOLEAN /\ listening' \in BOOLEAN /\ reuse' \in BOOLEAN
    BY <1>10, H11Assumption DEF TypeOK, NextRequest, States, Tokens
  <2>2. inbox' \in Seq(Tokens)
    BY <1>10, H11Assumption DEF TypeOK, NextRequest, States, Tokens
  <2>3. queue' \in Seq(Messages) /\ Len(queue') <= MaxQueue
    BY <1>10, H11Assumption DEF TypeOK, NextRequest, States, Tokens
  <2>4. app' \in {"none", "run", "head", "respond", "body", "errhead", "error", "end",
                   "closing", "stuck", "gone", "broken"}
    BY <1>10, H11Assumption DEF TypeOK, NextRequest, States, Tokens
  <2>5. reader' \in {"receive", "loop", "putbody", "putend", "paused", "rejecting",
                      "refusing", "putclosed", "gone"}
    BY <1>10, H11Assumption DEF TypeOK, NextRequest, States, Tokens
  <2>6. requests' \in Nat
    BY <1>10, H11Assumption DEF TypeOK, NextRequest, States, Tokens
  <2>7. our' \in {"IDLE", "SEND_RESPONSE", "SEND_BODY", "DONE", "MUST_CLOSE", "ERROR"}
    BY <1>10, H11Assumption DEF TypeOK, NextRequest, States, Tokens
  <2>8. their' \in {"IDLE", "SEND_BODY", "DONE", "MUST_CLOSE", "ERROR"}
    BY <1>10, H11Assumption DEF TypeOK, NextRequest, States, Tokens
  <2>9. UNCHANGED <<client, pipe, canRead, losing, up, terminated>>
    BY <1>10 DEF NextRequest, States, Tokens
  <2>10. QED  BY <2>1, <2>2, <2>3, <2>4, <2>5, <2>6, <2>7, <2>8, <2>9, <1>c DEF TypeOK
<1>11. CASE \E m \in {"body", "end"}, after \in {"SEND_BODY", "DONE"} : NextOfBody(m, after)
  <2>1. reuse' \in BOOLEAN
    BY <1>11 DEF TypeOK, NextOfBody, States
  <2>2. inbox' \in Seq(Tokens)
    BY <1>11 DEF TypeOK, NextOfBody, States
  <2>3. our' \in {"IDLE", "SEND_RESPONSE", "SEND_BODY", "DONE", "MUST_CLOSE", "ERROR"}
    BY <1>11 DEF TypeOK, NextOfBody, States
  <2>4. their' \in {"IDLE", "SEND_BODY", "DONE", "MUST_CLOSE", "ERROR"}
    BY <1>11 DEF TypeOK, NextOfBody, States
  <2>5. reader' \in {"receive", "loop", "putbody", "putend", "paused", "rejecting",
                      "refusing", "putclosed", "gone"}
    BY <1>11 DEF TypeOK, NextOfBody, States
  <2>6. queue' \in Seq(Messages) /\ Len(queue') <= MaxQueue
    BY <1>11, <1>a, <1>b, <1>c DEF TypeOK, NextOfBody, States
  <2>7. UNCHANGED <<client, pipe, app, canRead, requests, stream, ended, listening,
                    informed, losing, idle, up, terminated>>
    BY <1>11 DEF NextOfBody, States
  <2>8. QED  BY <2>1, <2>2, <2>3, <2>4, <2>5, <2>6, <2>7, <1>c DEF TypeOK
<1>12. CASE ReadResumes
  <2>1. canRead' \in Event({"reader"})
    BY <1>12, <1>e DEF TypeOK, ReadResumes
  <2>2. reader' \in {"receive", "loop", "putbody", "putend", "paused", "rejecting",
                      "refusing", "putclosed", "gone"}
    BY <1>12 DEF TypeOK, ReadResumes
  <2>3. UNCHANGED <<client, pipe, inbox, their, our, queue, app, requests, reuse, stream,
                    ended, listening, informed, losing, idle, up, terminated>>
    BY <1>12 DEF ReadResumes
  <2>4. QED  BY <2>1, <2>2, <2>3 DEF TypeOK
<1>13. CASE RejectionSent
  <2>1. reuse' \in BOOLEAN /\ up' \in BOOLEAN
    BY <1>13 DEF TypeOK, RejectionSent, States
  <2>2. our' \in {"IDLE", "SEND_RESPONSE", "SEND_BODY", "DONE", "MUST_CLOSE", "ERROR"}
    BY <1>13 DEF TypeOK, RejectionSent, States
  <2>3. their' \in {"IDLE", "SEND_BODY", "DONE", "MUST_CLOSE", "ERROR"}
    BY <1>13 DEF TypeOK, RejectionSent, States
  <2>4. reader' \in {"receive", "loop", "putbody", "putend", "paused", "rejecting",
                      "refusing", "putclosed", "gone"}
    BY <1>13 DEF TypeOK, RejectionSent, States
  <2>5. UNCHANGED <<client, pipe, inbox, queue, app, canRead, requests, stream, ended,
                    listening, informed, losing, idle, terminated>>
    BY <1>13 DEF RejectionSent, States
  <2>6. QED  BY <2>1, <2>2, <2>3, <2>4, <2>5 DEF TypeOK
<1>14. CASE RefusalReturns
  <2>1. requests' \in Nat
    BY <1>14 DEF TypeOK, RefusalReturns
  <2>2. reader' \in {"receive", "loop", "putbody", "putend", "paused", "rejecting",
                      "refusing", "putclosed", "gone"}
    BY <1>14 DEF TypeOK, RefusalReturns
  <2>3. UNCHANGED <<client, pipe, inbox, their, our, queue, app, canRead, reuse, stream,
                    ended, listening, informed, losing, idle, up, terminated>>
    BY <1>14 DEF RefusalReturns
  <2>4. QED  BY <2>1, <2>2, <2>3 DEF TypeOK
<1>15. CASE \E place \in {"putbody", "putend"}, m \in {"body", "end"} : PutResumes(place, m)
  <2>1. queue' \in Seq(Messages) /\ Len(queue') <= MaxQueue
    BY <1>15, <1>a, <1>b, <1>c DEF TypeOK, PutResumes
  <2>2. reader' \in {"receive", "loop", "putbody", "putend", "paused", "rejecting",
                      "refusing", "putclosed", "gone"}
    BY <1>15 DEF TypeOK, PutResumes
  <2>3. UNCHANGED <<client, pipe, inbox, their, our, app, canRead, requests, reuse, stream,
                    ended, listening, informed, losing, idle, up, terminated>>
    BY <1>15 DEF PutResumes
  <2>4. QED  BY <2>1, <2>2, <2>3, <1>c DEF TypeOK
<1>16. CASE ReaderCloses
  <2>1. ended' \in BOOLEAN /\ stream' \in BOOLEAN
    BY <1>16 DEF TypeOK, ReaderCloses
  <2>2. reader' \in {"receive", "loop", "putbody", "putend", "paused", "rejecting",
                      "refusing", "putclosed", "gone"}
    BY <1>16 DEF TypeOK, ReaderCloses
  <2>3. queue' \in Seq(Messages) /\ Len(queue') <= MaxQueue
    BY <1>16, <1>a, <1>b, <1>c DEF TypeOK, ReaderCloses
  <2>4. UNCHANGED <<client, pipe, inbox, their, our, app, canRead, requests, reuse,
                    listening, informed, losing, idle, up, terminated>>
    BY <1>16 DEF ReaderCloses
  <2>5. QED  BY <2>1, <2>2, <2>3, <2>4, <1>c DEF TypeOK
<1>17. CASE DisconnectPut
  <2>1. stream' \in BOOLEAN
    BY <1>17 DEF TypeOK, DisconnectPut
  <2>2. queue' \in Seq(Messages) /\ Len(queue') <= MaxQueue
    BY <1>17, <1>a, <1>b, <1>c DEF TypeOK, DisconnectPut
  <2>3. reader' \in {"receive", "loop", "putbody", "putend", "paused", "rejecting",
                      "refusing", "putclosed", "gone"}
    BY <1>17 DEF TypeOK, DisconnectPut
  <2>4. UNCHANGED <<client, pipe, inbox, their, our, app, canRead, requests, reuse, ended,
                    listening, informed, losing, idle, up, terminated>>
    BY <1>17 DEF DisconnectPut
  <2>5. QED  BY <2>1, <2>2, <2>3, <2>4, <1>c DEF TypeOK
<1>18. CASE Flushed
  <2>1. losing' \in BOOLEAN /\ stream' \in BOOLEAN /\ ended' \in BOOLEAN
    BY <1>18 DEF TypeOK, Flushed, Flush
  <2>2. queue' \in Seq(Messages) /\ Len(queue') <= MaxQueue
    BY <1>18, <1>a, <1>b, <1>c DEF TypeOK, Flushed, Flush
  <2>3. app' \in {"none", "run", "head", "respond", "body", "errhead", "error", "end",
                   "closing", "stuck", "gone", "broken"}
    BY <1>18 DEF TypeOK, Flushed, Flush
  <2>4. UNCHANGED <<client, pipe, inbox, their, our, reader, canRead, requests, reuse,
                    listening, informed, idle, up, terminated>>
    BY <1>18 DEF Flushed, Flush
  <2>5. QED  BY <2>1, <2>2, <2>3, <2>4, <1>c DEF TypeOK
<1>19. CASE Closing
  <2>1. ended' \in BOOLEAN /\ stream' \in BOOLEAN /\ idle' \in BOOLEAN /\ up' \in BOOLEAN
    BY <1>19 DEF TypeOK, Closing, Recycle, Cycle, Recycled
  <2>2. queue' \in Seq(Messages) /\ Len(queue') <= MaxQueue
    BY <1>19, <1>a, <1>b, <1>c DEF TypeOK, Closing, Recycle, Cycle, Recycled
  <2>3. app' \in {"none", "run", "head", "respond", "body", "errhead", "error", "end",
                   "closing", "stuck", "gone", "broken"}
    BY <1>19 DEF TypeOK, Closing, Recycle, Cycle, Recycled
  <2>4. canRead' \in Event({"reader"})
    BY <1>19, <1>e DEF TypeOK, Closing, Recycle, Cycle, Recycled
  <2>5. our' \in {"IDLE", "SEND_RESPONSE", "SEND_BODY", "DONE", "MUST_CLOSE", "ERROR"}
    BY <1>19 DEF TypeOK, Closing, Recycle, Cycle, Recycled
  <2>6. their' \in {"IDLE", "SEND_BODY", "DONE", "MUST_CLOSE", "ERROR"}
    BY <1>19 DEF TypeOK, Closing, Recycle, Cycle, Recycled
  <2>7. UNCHANGED <<client, pipe, inbox, reader, requests, reuse, listening, informed,
                    losing, terminated>>
    BY <1>19 DEF Closing, Recycle, Cycle, Recycled
  <2>8. QED  BY <2>1, <2>2, <2>3, <2>4, <2>5, <2>6, <2>7, <1>c DEF TypeOK
<1>20. CASE Unstuck
  <2>1. stream' \in BOOLEAN /\ idle' \in BOOLEAN /\ up' \in BOOLEAN
    BY <1>20 DEF TypeOK, Unstuck, Recycle, Cycle, Recycled
  <2>2. queue' \in Seq(Messages) /\ Len(queue') <= MaxQueue
    BY <1>20, <1>a, <1>b, <1>c DEF TypeOK, Unstuck, Recycle, Cycle, Recycled
  <2>3. app' \in {"none", "run", "head", "respond", "body", "errhead", "error", "end",
                   "closing", "stuck", "gone", "broken"}
    BY <1>20 DEF TypeOK, Unstuck, Recycle, Cycle, Recycled
  <2>4. canRead' \in Event({"reader"})
    BY <1>20, <1>e DEF TypeOK, Unstuck, Recycle, Cycle, Recycled
  <2>5. our' \in {"IDLE", "SEND_RESPONSE", "SEND_BODY", "DONE", "MUST_CLOSE", "ERROR"}
    BY <1>20 DEF TypeOK, Unstuck, Recycle, Cycle, Recycled
  <2>6. their' \in {"IDLE", "SEND_BODY", "DONE", "MUST_CLOSE", "ERROR"}
    BY <1>20 DEF TypeOK, Unstuck, Recycle, Cycle, Recycled
  <2>7. UNCHANGED <<client, pipe, inbox, reader, requests, reuse, ended, listening,
                    informed, losing, terminated>>
    BY <1>20 DEF Unstuck, Recycle, Cycle, Recycled
  <2>8. QED  BY <2>1, <2>2, <2>3, <2>4, <2>5, <2>6, <2>7, <1>c DEF TypeOK
<1>21. CASE AppReads
  <2>1. informed' \in BOOLEAN
    BY <1>21 DEF TypeOK, AppReads
  <2>2. queue' \in Seq(Messages) /\ Len(queue') <= MaxQueue
    BY <1>21, <1>a, Queues DEF TypeOK, AppReads
  <2>3. UNCHANGED <<client, pipe, inbox, their, our, app, reader, canRead, requests, reuse,
                    stream, ended, listening, losing, idle, up, terminated>>
    BY <1>21 DEF AppReads
  <2>4. QED  BY <2>1, <2>2, <2>3, <1>c DEF TypeOK
<1>22. CASE StartResponse
  <2>1. reuse' \in BOOLEAN
    BY <1>22, H11Assumption DEF TypeOK, StartResponse, Sends, States
  <2>2. our' \in {"IDLE", "SEND_RESPONSE", "SEND_BODY", "DONE", "MUST_CLOSE", "ERROR"}
    BY <1>22, H11Assumption DEF TypeOK, StartResponse, Sends, States
  <2>3. their' \in {"IDLE", "SEND_BODY", "DONE", "MUST_CLOSE", "ERROR"}
    BY <1>22, H11Assumption DEF TypeOK, StartResponse, Sends, States
  <2>4. app' \in {"none", "run", "head", "respond", "body", "errhead", "error", "end",
                   "closing", "stuck", "gone", "broken"}
    BY <1>22, H11Assumption DEF TypeOK, StartResponse, Sends, States
  <2>5. UNCHANGED <<client, pipe, inbox, queue, reader, canRead, requests, stream, ended,
                    listening, informed, losing, idle, up, terminated>>
    BY <1>22 DEF StartResponse, Sends, States
  <2>6. QED  BY <2>1, <2>2, <2>3, <2>4, <2>5 DEF TypeOK
<1>23. CASE Body
  <2>1. reuse' \in BOOLEAN
    BY <1>23 DEF TypeOK, Body, Sends, States
  <2>2. our' \in {"IDLE", "SEND_RESPONSE", "SEND_BODY", "DONE", "MUST_CLOSE", "ERROR"}
    BY <1>23 DEF TypeOK, Body, Sends, States
  <2>3. their' \in {"IDLE", "SEND_BODY", "DONE", "MUST_CLOSE", "ERROR"}
    BY <1>23 DEF TypeOK, Body, Sends, States
  <2>4. app' \in {"none", "run", "head", "respond", "body", "errhead", "error", "end",
                   "closing", "stuck", "gone", "broken"}
    BY <1>23 DEF TypeOK, Body, Sends, States
  <2>5. UNCHANGED <<client, pipe, inbox, queue, reader, canRead, requests, stream, ended,
                    listening, informed, losing, idle, up, terminated>>
    BY <1>23 DEF Body, Sends, States
  <2>6. QED  BY <2>1, <2>2, <2>3, <2>4, <2>5 DEF TypeOK
<1>24. CASE EndResponse
  <2>1. reuse' \in BOOLEAN
    BY <1>24 DEF TypeOK, EndResponse, Sends, States
  <2>2. our' \in {"IDLE", "SEND_RESPONSE", "SEND_BODY", "DONE", "MUST_CLOSE", "ERROR"}
    BY <1>24 DEF TypeOK, EndResponse, Sends, States
  <2>3. their' \in {"IDLE", "SEND_BODY", "DONE", "MUST_CLOSE", "ERROR"}
    BY <1>24 DEF TypeOK, EndResponse, Sends, States
  <2>4. app' \in {"none", "run", "head", "respond", "body", "errhead", "error", "end",
                   "closing", "stuck", "gone", "broken"}
    BY <1>24 DEF TypeOK, EndResponse, Sends, States
  <2>5. UNCHANGED <<client, pipe, inbox, queue, reader, canRead, requests, stream, ended,
                    listening, informed, losing, idle, up, terminated>>
    BY <1>24 DEF EndResponse, Sends, States
  <2>6. QED  BY <2>1, <2>2, <2>3, <2>4, <2>5 DEF TypeOK
<1>25. CASE GiveUp
  <2>1. listening' \in BOOLEAN /\ reuse' \in BOOLEAN
    BY <1>25 DEF TypeOK, GiveUp, Sends, States
  <2>2. our' \in {"IDLE", "SEND_RESPONSE", "SEND_BODY", "DONE", "MUST_CLOSE", "ERROR"}
    BY <1>25 DEF TypeOK, GiveUp, Sends, States
  <2>3. their' \in {"IDLE", "SEND_BODY", "DONE", "MUST_CLOSE", "ERROR"}
    BY <1>25 DEF TypeOK, GiveUp, Sends, States
  <2>4. app' \in {"none", "run", "head", "respond", "body", "errhead", "error", "end",
                   "closing", "stuck", "gone", "broken"}
    BY <1>25 DEF TypeOK, GiveUp, Sends, States
  <2>5. UNCHANGED <<client, pipe, inbox, queue, reader, canRead, requests, stream, ended,
                    informed, losing, idle, up, terminated>>
    BY <1>25 DEF GiveUp, Sends, States
  <2>6. QED  BY <2>1, <2>2, <2>3, <2>4, <2>5 DEF TypeOK
<1>26. CASE Quit
  <2>1. listening' \in BOOLEAN
    BY <1>26 DEF TypeOK, Quit
  <2>2. app' \in {"none", "run", "head", "respond", "body", "errhead", "error", "end",
                   "closing", "stuck", "gone", "broken"}
    BY <1>26 DEF TypeOK, Quit
  <2>3. UNCHANGED <<client, pipe, inbox, their, our, queue, reader, canRead, requests,
                    reuse, stream, ended, informed, losing, idle, up, terminated>>
    BY <1>26 DEF Quit
  <2>4. QED  BY <2>1, <2>2, <2>3 DEF TypeOK
<1>27. CASE AppReturns
  <2>1. listening' \in BOOLEAN
    BY <1>27 DEF TypeOK, AppReturns
  <2>2. UNCHANGED <<client, pipe, inbox, their, our, queue, app, reader, canRead, requests,
                    reuse, stream, ended, informed, losing, idle, up, terminated>>
    BY <1>27 DEF AppReturns
  <2>3. QED  BY <2>1, <2>2 DEF TypeOK
<1>28. CASE IdleTimeout
  <2>1. up' \in BOOLEAN
    BY <1>28 DEF TypeOK, IdleTimeout
  <2>2. UNCHANGED <<client, pipe, inbox, their, our, queue, app, reader, canRead, requests,
                    reuse, stream, ended, listening, informed, losing, idle, terminated>>
    BY <1>28 DEF IdleTimeout
  <2>3. QED  BY <2>1, <2>2 DEF TypeOK
<1>29. CASE Terminate
  <2>1. terminated' \in BOOLEAN
    BY <1>29 DEF TypeOK, Terminate
  <2>2. UNCHANGED <<client, pipe, inbox, their, our, queue, app, reader, canRead, requests,
                    reuse, stream, ended, listening, informed, losing, idle, up>>
    BY <1>29 DEF Terminate
  <2>3. QED  BY <2>1, <2>2 DEF TypeOK
<1>30. QED  BY <1>1, <1>2, <1>3, <1>4, <1>5, <1>6, <1>7, <1>8, <1>9, <1>10, <1>11, <1>12,
               <1>13, <1>14, <1>15, <1>16, <1>17, <1>18, <1>19, <1>20, <1>21, <1>22, <1>23,
               <1>24, <1>25, <1>26, <1>27, <1>28, <1>29
  DEF Next, Client, Reader, Events, NextData, NextEnd, Writer

(* Every step leaves the sides of h11 where the reader and the writer expect them. *)
LEMMA RoleKept ==
    ASSUME H11Assumption, IInv, Next
    PROVE  RoleInv' /\ FreshMeansNoStream'
<1> USE DEF IInv, input, lib, http, conn
<1>1. CASE Received
  BY <1>1 DEF RoleInv, FreshMeansNoStream, Received
<1>2. CASE NextPaused
  BY <1>2 DEF RoleInv, FreshMeansNoStream, NextPaused
<1>3. CASE NeedData
  BY <1>3 DEF RoleInv, FreshMeansNoStream, NeedData
<1>4. CASE NextRejected
  BY <1>4 DEF RoleInv, FreshMeansNoStream, NextRejected, States
<1>5. CASE NextRequest
  BY <1>5 DEF RoleInv, FreshMeansNoStream, NextRequest, States, Tokens
<1>6. CASE \E m \in {"body", "end"}, after \in {"SEND_BODY", "DONE"} : NextOfBody(m, after)
  BY <1>6 DEF RoleInv, FreshMeansNoStream, NextOfBody, States
<1>7. CASE ReadResumes
  BY <1>7 DEF RoleInv, FreshMeansNoStream, ReadResumes
<1>8. CASE RejectionSent
  BY <1>8 DEF RoleInv, FreshMeansNoStream, RejectionSent, States
<1>9. CASE RefusalReturns
  BY <1>9 DEF RoleInv, FreshMeansNoStream, RefusalReturns
<1>10. CASE \E place \in {"putbody", "putend"}, m \in {"body", "end"} : PutResumes(place, m)
  BY <1>10 DEF RoleInv, FreshMeansNoStream, PutResumes
<1>11. CASE ReaderCloses
  BY <1>11 DEF RoleInv, FreshMeansNoStream, ReaderCloses
<1>12. CASE DisconnectPut
  BY <1>12 DEF RoleInv, FreshMeansNoStream, DisconnectPut
<1>13. CASE Flushed
  BY <1>13 DEF RoleInv, FreshMeansNoStream, Flushed, Flush
<1>14. CASE Closing
  BY <1>14 DEF RoleInv, FreshMeansNoStream, Closing, Recycle, Cycle, Recycled
<1>15. CASE Unstuck
  BY <1>15 DEF RoleInv, FreshMeansNoStream, Unstuck, Recycle, Cycle, Recycled
<1>16. CASE StartResponse
  BY <1>16 DEF RoleInv, FreshMeansNoStream, StartResponse, Sends, States
<1>17. CASE Body
  BY <1>17 DEF RoleInv, FreshMeansNoStream, Body, Sends, States
<1>18. CASE EndResponse
  BY <1>18 DEF RoleInv, FreshMeansNoStream, EndResponse, Sends, States
<1>19. CASE GiveUp
  BY <1>19 DEF RoleInv, FreshMeansNoStream, GiveUp, Sends, States
<1>20. CASE Quit
  BY <1>20 DEF RoleInv, FreshMeansNoStream, Quit
<1>21. CASE \/ \E t \in {"request", "refused"} : SendRequest(t)
         \/ SendPiece
         \/ SendEnd
         \/ SendBad
         \/ Leave
         \/ AppReads
         \/ AppReturns
         \/ IdleTimeout
         \/ Terminate
  BY <1>21
  DEF RoleInv, FreshMeansNoStream, SendRequest, Tokens, SendPiece, SendEnd, SendBad, Leave,
      AppReads, AppReturns, IdleTimeout, Terminate
<1>22. QED  BY <1>1, <1>2, <1>3, <1>4, <1>5, <1>6, <1>7, <1>8, <1>9, <1>10, <1>11, <1>12,
               <1>13, <1>14, <1>15, <1>16, <1>17, <1>18, <1>19, <1>20, <1>21
  DEF Next, Client, Reader, Events, NextData, NextEnd, Writer

(* Every step keeps one disconnect for an application whose stream is closed. *)
LEMMA TellKept ==
    ASSUME H11Assumption, IInv, Next
    PROVE  TellInv'
<1> USE DEF IInv, input, lib, http, conn
<1>a. queue \in Seq(Messages) /\ TypeOK
  BY DEF TypeOK, Messages
<1>b. \A m \in Messages : HasRoom /\ PutMessage(m) =>
         /\ Told(queue') <=> Told(queue) \/ (listening /\ m = "disconnect")
         /\ Once(queue) /\ (Told(queue) => m # "disconnect") => Once(queue')
  BY <1>a, H11Assumption, Puts
<1>c. "body" \in Messages /\ "end" \in Messages /\ "disconnect" \in Messages
  BY DEF Messages
<1>d. ~Told(<<>>) /\ Once(<<>>)
  BY <1>a, Queues
<1>e. HasRoom \/ listening
  BY DEF HasRoom
<1>1. CASE Received
  BY <1>1 DEF TellInv, Telling, Received
<1>2. CASE NextPaused
  BY <1>2 DEF TellInv, Telling, NextPaused
<1>3. CASE NeedData
  BY <1>3 DEF TellInv, Telling, NeedData
<1>4. CASE NextRejected
  BY <1>4 DEF TellInv, Telling, NextRejected, States
<1>5. CASE NextRequest
  BY <1>5, <1>d DEF TellInv, Telling, RoleInv, NextRequest, States, Tokens
<1>6. CASE \E m \in {"body", "end"}, after \in {"SEND_BODY", "DONE"} : NextOfBody(m, after)
  BY <1>6, <1>a, <1>b, <1>c, <1>d DEF TellInv, Telling, NextOfBody, States
<1>7. CASE ReadResumes
  BY <1>7 DEF TellInv, Telling, ReadResumes
<1>8. CASE RejectionSent
  BY <1>8 DEF TellInv, Telling, RejectionSent, States
<1>9. CASE RefusalReturns
  BY <1>9 DEF TellInv, Telling, RefusalReturns
<1>10. CASE \E place \in {"putbody", "putend"}, m \in {"body", "end"} : PutResumes(place, m)
  BY <1>10, <1>a, <1>b, <1>c, <1>d DEF TellInv, Telling, PutResumes
<1>11. CASE ReaderCloses
  BY <1>11, <1>a, <1>b, <1>c, <1>d, <1>e DEF TellInv, Telling, ReaderCloses
<1>12. CASE DisconnectPut
  BY <1>12, <1>a, <1>b, <1>c, <1>d DEF TellInv, Telling, DisconnectPut
<1>13. CASE Flushed
  BY <1>13, <1>a, <1>b, <1>c, <1>d, <1>e DEF TellInv, Telling, Flushed, Flush
<1>14. CASE Closing
  BY <1>14, <1>a, <1>b, <1>c, <1>d, <1>e
  DEF TellInv, Telling, Closing, Recycle, Cycle, Recycled
<1>15. CASE Unstuck
  BY <1>15, <1>a, <1>b, <1>c, <1>d
  DEF TellInv, Telling, RoleInv, Unstuck, Recycle, Cycle, Recycled
<1>16. CASE AppReads
  BY <1>16, <1>a, Queues DEF TellInv, Telling, AppReads
<1>17. CASE StartResponse
  BY <1>17 DEF TellInv, Telling, StartResponse, Sends, States
<1>18. CASE Body
  BY <1>18 DEF TellInv, Telling, Body, Sends, States
<1>19. CASE EndResponse
  BY <1>19 DEF TellInv, Telling, EndResponse, Sends, States
<1>20. CASE GiveUp
  BY <1>20 DEF TellInv, Telling, GiveUp, Sends, States
<1>21. CASE Quit
  BY <1>21 DEF TellInv, Telling, Quit
<1>22. CASE AppReturns
  BY <1>22 DEF TellInv, Telling, AppReturns
<1>23. CASE \/ \E t \in {"request", "refused"} : SendRequest(t)
         \/ SendPiece
         \/ SendEnd
         \/ SendBad
         \/ Leave
         \/ IdleTimeout
         \/ Terminate
  BY <1>23
  DEF TellInv, Telling, SendRequest, Tokens, SendPiece, SendEnd, SendBad, Leave,
      IdleTimeout, Terminate
<1>24. QED  BY <1>1, <1>2, <1>3, <1>4, <1>5, <1>6, <1>7, <1>8, <1>9, <1>10, <1>11, <1>12,
               <1>13, <1>14, <1>15, <1>16, <1>17, <1>18, <1>19, <1>20, <1>21, <1>22, <1>23
  DEF Next, Client, Reader, Events, NextData, NextEnd, Writer

(* A step that changes nothing. *)
LEMMA StutterKept ==
    ASSUME IInv, UNCHANGED vars
    PROVE  IInv'
<1> USE DEF IInv, vars, input, lib, http, conn
<1>1. TypeOK'
  BY DEF TypeOK
<1>2. RoleInv' /\ FreshMeansNoStream'
  BY DEF RoleInv, FreshMeansNoStream
<1>3. TellInv'
  BY DEF TellInv, Telling
<1>4. QED  BY <1>1, <1>2, <1>3
-----------------------------------------------------------------------------
(* The invariant holds of every connection. *)
THEOREM Invariant == Spec => []IInv
<1>1. Init => IInv
  <2> SUFFICES ASSUME Init PROVE IInv
    OBVIOUS
  <2>1. TypeOK
    <3>1. NewEvent \in Event({"reader"})
      BY DEF NewEvent, Event
    <3>2. client \in [requests : 0..MaxInput, pieces : 0..MaxInput, open : BOOLEAN]
      BY H11Assumption DEF Init
    <3>3. queue \in Seq({"body", "end", "disconnect"}) /\ Len(queue) <= MaxQueue
      BY H11Assumption DEF Init
    <3>4. pipe \in Seq(Tokens) /\ inbox \in Seq(Tokens) /\ requests \in Nat
      BY DEF Init
    <3>5. /\ reuse \in BOOLEAN /\ stream \in BOOLEAN /\ ended \in BOOLEAN /\ listening \in BOOLEAN
          /\ informed \in BOOLEAN /\ losing \in BOOLEAN
          /\ idle \in BOOLEAN /\ up \in BOOLEAN /\ terminated \in BOOLEAN
      BY DEF Init
    <3>6. their = "IDLE" /\ our = "IDLE" /\ app = "none" /\ reader = "receive" /\ canRead = NewEvent
      BY DEF Init
    <3>7. QED  BY <3>1, <3>2, <3>3, <3>4, <3>5, <3>6 DEF TypeOK
  <2>2. RoleInv /\ FreshMeansNoStream
    BY DEF Init, RoleInv, FreshMeansNoStream
  <2>3. ~Told(queue) /\ Once(queue)
    BY DEF Init, Told, Once
  <2>4. TellInv
    BY <2>3 DEF Init, TellInv, Telling
  <2>5. QED  BY <2>1, <2>2, <2>4 DEF IInv
<1>2. IInv /\ [Next]_vars => IInv'
  <2> SUFFICES ASSUME IInv, [Next]_vars PROVE IInv'
    OBVIOUS
  <2>1. CASE Next
    <3>1. TypeOK'
      BY <2>1, H11Assumption, TypeKept DEF IInv
    <3>2. QED  BY <2>1, <3>1, H11Assumption, RoleKept, TellKept DEF IInv
  <2>2. CASE UNCHANGED vars
    BY <2>2, StutterKept
  <2>3. QED  BY <2>1, <2>2
<1>3. QED  BY <1>1, <1>2, PTL DEF Spec

(* The stream, the application, h11's states and the connection keep their types,
   and the application's queue never holds more than it may. *)
THEOREM TypeCorrect == Spec => []TypeOK
<1>1. IInv => TypeOK
  BY DEF IInv
<1>2. QED  BY <1>1, Invariant, PTL

(* h11 never refuses what an application sends in order, but behind the error of a
   client. *)
THEOREM NeverBroken == Spec => []AppNeverBroken
<1>1. IInv => AppNeverBroken
  BY DEF IInv, RoleInv, AppNeverBroken
<1>2. QED  BY <1>1, Invariant, PTL

(* The idle timer and the next request never meet a stream that is still served. *)
THEOREM FreshCorrect == Spec => []FreshMeansNoStream
<1>1. IInv => FreshMeansNoStream
  BY DEF IInv
<1>2. QED  BY <1>1, Invariant, PTL

(* An application that is still there when the connection is over has one
   disconnect to receive, or has received it. *)
THEOREM ToldOnceCorrect == Spec => []ToldOnce
<1>1. IInv => ToldOnce
  BY DEF IInv, TellInv, Telling, ToldOnce, Told
<1>2. QED  BY <1>1, Invariant, PTL
=============================================================================
