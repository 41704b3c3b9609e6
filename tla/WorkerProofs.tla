------------------------------ MODULE WorkerProofs ------------------------------
(***************************************************************************)
(* Proofs about Worker and the Lifespan it runs, for any applications, any *)
(* number of connections and any max_requests: the two messages of the     *)
(* lifespan are followed from worker_serve through the dispatcher to each  *)
(* mount, and its acknowledgement back.                                    *)
(***************************************************************************)
EXTENDS Worker, TLAPS

Active == \E c \in Conns : conn[c] \in {"idle", "busy", "sending", "stalled"}

(* One message has been sent at the first wait, and two at the second: neither the channel nor a dispatcher's queue ever blocks its sender. *)
Asked == IF host = "new" THEN 0
         ELSE IF host \in {"startup", "serving", "draining"} THEN 1 ELSE 2

MessageInv == \A m \in Mounts : Len(channel) + Len(inbox[m]) <= Asked

(* While the lifespan runs it is supported, and startup is set by the last mount. *)
StartedInv == handler = "run" => supported /\ (startup => started = mounts)

(* A worker serves, and a connection runs, only once every mount has started;
   connections outlast the serving only while it drains or is aborted. *)
ServingInv ==
    /\ handler = "run" /\ (Active \/ host \in {"serving", "draining"}) => started = mounts
    /\ Active => host \in {"serving", "draining", "aborting"}

Messages == {"startup", "shutdown"}

Has(queue, message) == \E i \in DOMAIN queue : queue[i] = message

ShutdownAsked ==
    \/ Has(channel, "shutdown")
    \/ \E m \in Mounts : Has(inbox[m], "shutdown") \/ app[m] \in {"stopping", "stopped"}

(* Wherever the shutdown message has got to, no connection is left. *)
AskedInv == ShutdownAsked => ~Active /\ host \in {"shutdown", "aborting", "over"}

IInv == TypeOK /\ MessageInv /\ StartedInv /\ ServingInv /\ AskedInv
-----------------------------------------------------------------------------
(* What is left when the first message is taken. *)
LEMMA Taken ==
    ASSUME NEW queue \in Seq(Messages), queue # <<>>
    PROVE  /\ Head(queue) \in Messages /\ Tail(queue) \in Seq(Messages)
           /\ Len(queue) \in Nat /\ Len(Tail(queue)) = Len(queue) - 1
           /\ Has(queue, Head(queue))
           /\ Has(Tail(queue), "shutdown") => Has(queue, "shutdown")
<1>1. Len(queue) \in Nat /\ Len(queue) >= 1 /\ DOMAIN queue = 1..Len(queue)
  OBVIOUS
<1>2. Head(queue) = queue[1] /\ queue[1] \in Messages
  BY <1>1
<1>3. Tail(queue) \in Seq(Messages) /\ Len(Tail(queue)) = Len(queue) - 1
  OBVIOUS
<1>4. ASSUME NEW i \in DOMAIN Tail(queue)
      PROVE  i + 1 \in DOMAIN queue /\ Tail(queue)[i] = queue[i + 1]
  BY <1>1
<1>5. QED  BY <1>1, <1>2, <1>3, <1>4 DEF Has

(* ... and when one is added. *)
LEMMA Added ==
    ASSUME NEW queue \in Seq(Messages), NEW message \in Messages
    PROVE  /\ Append(queue, message) \in Seq(Messages)
           /\ Len(queue) \in Nat /\ Len(Append(queue, message)) = Len(queue) + 1
           /\ Has(Append(queue, message), "shutdown") => Has(queue, "shutdown") \/ message = "shutdown"
<1>1. /\ Len(queue) \in Nat /\ Len(Append(queue, message)) = Len(queue) + 1
      /\ Append(queue, message) \in Seq(Messages)
  OBVIOUS
<1>2. ASSUME NEW i \in DOMAIN Append(queue, message)
      PROVE  Append(queue, message)[i] = message
             \/ (i \in DOMAIN queue /\ Append(queue, message)[i] = queue[i])
  BY <1>1
<1>3. QED  BY <1>1, <1>2 DEF Has

(* The types of the lifespan's variables, but for the bounds of the queues. *)
Shape ==
    /\ direct \in BOOLEAN /\ mounts \subseteq Mounts
    /\ channel \in Seq(Messages) /\ open \in BOOLEAN
    /\ inbox \in [Mounts -> Seq(Messages)]
    /\ app \in [Mounts -> {"new", "starting", "serving", "stopping", "stopped", "gone"}]
    /\ {started, stopped, failed} \subseteq SUBSET mounts
    /\ {startup, shutdown, supported, failing} \subseteq BOOLEAN
    /\ handler \in {"run", "finally", "over"}

(* ... which MessageInv adds. *)
LEMMA Bounded ==
    ASSUME Shape', MessageInv'
    PROVE  LifespanTypeOK'
<1>1. Len(channel') \in Nat /\ \A m \in Mounts : Len(inbox'[m]) \in Nat
  BY DEF Shape
<1>2. Asked' \in 0..2
  BY DEF Asked
<1>3. Len(channel') <= 2 /\ \A m \in Mounts : Len(inbox'[m]) <= 2
  BY <1>1, <1>2, MountsAssumption DEF MessageInv
<1>4. QED  BY <1>3 DEF Shape, Messages, LifespanTypeOK

LEMMA Typed ==
    ASSUME LifespanTypeOK
    PROVE  Shape
BY DEF LifespanTypeOK, Shape, Messages

(* The steps of the lifespan leave the worker alone: what they must keep. *)
LEMMA LifespanStep ==
    ASSUME IInv, UNCHANGED workerVars, Shape', MessageInv', StartedInv',
           mounts' = mounts,
           handler' = "run" => handler = "run" /\ started \subseteq started',
           ShutdownAsked' => ShutdownAsked
    PROVE  IInv'
<1>1. UNCHANGED <<host, outcome, requests, triggered, terminate, terminated, expired, conn>>
  BY DEF workerVars
<1>2. Active' = Active
  BY <1>1 DEF Active
<1>3. LifespanTypeOK'
  BY Bounded
<1>4. TypeOK'
  BY <1>1, <1>3 DEF IInv, TypeOK
<1>5. started' \subseteq mounts'
  BY DEF Shape
<1>6. ServingInv'
  BY <1>1, <1>2, <1>5 DEF IInv, ServingInv
<1>7. AskedInv'
  BY <1>1, <1>2 DEF IInv, AskedInv
<1>8. QED  BY <1>4, <1>6, <1>7 DEF IInv
-----------------------------------------------------------------------------
LEMMA ForwardKeeps ==
    ASSUME IInv, UNCHANGED workerVars, Forward
    PROVE  IInv'
<1>1. Shape /\ Asked' = Asked
  BY Typed DEF IInv, TypeOK, workerVars, Asked
<1>2. /\ channel # <<>> /\ channel' = Tail(channel)
      /\ inbox' = [m \in Mounts |-> IF m \in mounts THEN Append(inbox[m], Head(channel)) ELSE <<>>]
      /\ UNCHANGED <<open, direct, mounts, app, started, stopped, failed,
                     startup, shutdown, supported, handler, failing>>
  BY DEF Forward, events
<1>3. channel \in Seq(Messages) /\ inbox \in [Mounts -> Seq(Messages)]
  BY <1>1 DEF Shape
<1>4. /\ Head(channel) \in Messages /\ channel' \in Seq(Messages)
      /\ Len(channel) \in Nat /\ Len(channel') = Len(channel) - 1
      /\ Has(channel, Head(channel))
      /\ Has(channel', "shutdown") => Has(channel, "shutdown")
  BY <1>2, <1>3, Taken
<1>5. ASSUME NEW m \in Mounts
      PROVE  /\ inbox'[m] \in Seq(Messages)
             /\ Len(inbox[m]) \in Nat /\ Len(inbox'[m]) <= Len(inbox[m]) + 1
             /\ Len(inbox'[m]) \in Nat
             /\ Has(inbox'[m], "shutdown") => Has(inbox[m], "shutdown") \/ Has(channel, "shutdown")
  <2>1. /\ Append(inbox[m], Head(channel)) \in Seq(Messages)
        /\ Len(inbox[m]) \in Nat /\ Len(Append(inbox[m], Head(channel))) = Len(inbox[m]) + 1
        /\ Has(Append(inbox[m], Head(channel)), "shutdown") =>
               Has(inbox[m], "shutdown") \/ Head(channel) = "shutdown"
    BY <1>3, <1>4, Added
  <2>2. <<>> \in Seq(Messages) /\ Len(<<>>) = 0 /\ ~Has(<<>>, "shutdown")
    BY DEF Has
  <2>3. CASE m \in mounts
    BY <1>2, <1>4, <2>1, <2>3
  <2>4. CASE m \notin mounts
    BY <1>2, <2>1, <2>2, <2>4
  <2>5. QED  BY <2>3, <2>4
<1>6. inbox' \in [Mounts -> Seq(Messages)]
  BY <1>2, <1>5
<1>7. Shape'
  BY <1>1, <1>2, <1>4, <1>6 DEF Shape
<1>8. MessageInv'
  <2>1. ASSUME NEW m \in Mounts PROVE Len(channel') + Len(inbox'[m]) <= Asked'
    <3>1. Len(channel) + Len(inbox[m]) <= Asked /\ Asked \in Nat
      BY DEF IInv, MessageInv, Asked
    <3>2. QED  BY <1>1, <1>4, <1>5, <3>1
  <2>2. QED  BY <2>1 DEF MessageInv
<1>9. ShutdownAsked' => ShutdownAsked
  BY <1>2, <1>4, <1>5 DEF ShutdownAsked
<1>10. StartedInv'
  BY <1>2 DEF IInv, StartedInv
<1>11. QED  BY <1>2, <1>7, <1>8, <1>9, <1>10, LifespanStep

(* A mount receives the message from the channel, or from its queue. *)
LEMMA ReceivesKeeps ==
    ASSUME IInv, UNCHANGED workerVars, NEW m \in mounts, Receives(m)
    PROVE  IInv'
<1>1. Shape /\ Asked' = Asked
  BY Typed DEF IInv, TypeOK, workerVars, Asked
<1>2. PICK message \in Messages, to \in {"starting", "stopping"} :
          /\ to = "stopping" => message = "shutdown"
          /\ \/ channel # <<>> /\ Head(channel) = message /\ channel' = Tail(channel)
             \/ Has(inbox[m], message) /\ channel' = channel
          /\ app' = [app EXCEPT ![m] = to]
          /\ UNCHANGED <<open, direct, mounts, inbox, started, stopped, failed,
                         startup, shutdown, supported, handler, failing>>
  BY DEF Receives, MountReceives, Moves, events, Messages, Has
<1>3. channel \in Seq(Messages) /\ inbox \in [Mounts -> Seq(Messages)] /\ m \in Mounts
  BY <1>1 DEF Shape
<1>4. /\ channel' \in Seq(Messages) /\ Len(channel) \in Nat /\ Len(channel') \in Nat
      /\ Len(channel') <= Len(channel)
      /\ Has(channel', "shutdown") => Has(channel, "shutdown")
      /\ Has(channel, message) \/ Has(inbox[m], message)
  <2>1. CASE channel # <<>> /\ Head(channel) = message /\ channel' = Tail(channel)
    BY <1>3, <2>1, Taken
  <2>2. CASE Has(inbox[m], message) /\ channel' = channel
    BY <1>3, <2>2
  <2>3. QED  BY <1>2, <2>1, <2>2
<1>5. Shape'
  BY <1>1, <1>2, <1>4 DEF Shape
<1>6. MessageInv'
  <2>1. ASSUME NEW n \in Mounts PROVE Len(channel') + Len(inbox'[n]) <= Asked'
    <3>1. Len(channel) + Len(inbox[n]) <= Asked /\ Asked \in Nat /\ Len(inbox[n]) \in Nat
      BY <1>3 DEF IInv, MessageInv, Asked
    <3>2. QED  BY <1>1, <1>2, <1>4, <3>1
  <2>2. QED  BY <2>1 DEF MessageInv
<1>7. ShutdownAsked' => ShutdownAsked
  <2>1. \A n \in Mounts : app'[n] = app[n] \/ (n = m /\ app'[n] = to)
    BY <1>1, <1>2 DEF Shape
  <2>2. to = "stopping" => ShutdownAsked
    BY <1>2, <1>3, <1>4 DEF ShutdownAsked
  <2>3. QED  BY <1>2, <1>4, <2>1, <2>2 DEF ShutdownAsked
<1>8. StartedInv'
  BY <1>2 DEF IInv, StartedInv
<1>9. QED  BY <1>2, <1>5, <1>6, <1>7, <1>8, LifespanStep

(* A mount that acknowledges, fails, returns or raises moves no message: it
   completes its part of the lifespan, or ends the handler. *)
LEMMA AnswersKeep ==
    ASSUME IInv, UNCHANGED workerVars, NEW m \in mounts,
           Acknowledges(m) \/ Fails(m) \/ Returns(m) \/ Raises(m)
    PROVE  IInv'
<1>1. Shape /\ Asked' = Asked
  BY Typed DEF IInv, TypeOK, workerVars, Asked
<1>2. UNCHANGED <<channel, direct, mounts, inbox>> /\ handler = "run"
  BY DEF Acknowledges, Fails, Returns, Raises, Moves, HandlerFinally, Completed, OptsOut
<1>3. PICK place \in {"serving", "stopped", "gone"} :
          app' = [app EXCEPT ![m] = place] /\ (place = "stopped" => app[m] = "stopping")
  BY DEF Acknowledges, Fails, Returns, Raises, Moves
<1>4. \/ /\ \E starts \in {started, started \cup {m}}, stops \in {stopped, stopped \cup {m}} :
                Completed(starts, stops)
          /\ UNCHANGED <<supported, handler, failing, open, failed>>
      \/ /\ \E s, f \in BOOLEAN : HandlerFinally(s, f)
          /\ failed' \in {failed, failed \cup {m}}
          /\ UNCHANGED <<started, stopped>>
  BY <1>1 DEF Acknowledges, Fails, Returns, Raises, OptsOut, Shape
<1>5. app' \in [Mounts -> {"new", "starting", "serving", "stopping", "stopped", "gone"}]
  BY <1>1, <1>3 DEF Shape
<1>6. /\ {started', stopped', failed'} \subseteq SUBSET mounts
      /\ started \subseteq started'
      /\ {startup', shutdown', supported', failing', open'} \subseteq BOOLEAN
      /\ handler' \in {"run", "finally"}
      /\ StartedInv'
  <2>1. ASSUME NEW starts \in {started, started \cup {m}},
               NEW stops \in {stopped, stopped \cup {m}}, Completed(starts, stops),
               UNCHANGED <<supported, handler, failing, open, failed>>
        PROVE  <1>6!1 /\ <1>6!2 /\ <1>6!3 /\ <1>6!4 /\ <1>6!5
    <3>1. started' = starts /\ stopped' = stops /\ starts \subseteq mounts /\ stops \subseteq mounts
      BY <1>1, <2>1 DEF Completed, Shape
    <3>2. startup' = (startup \/ starts = mounts) /\ shutdown' = (shutdown \/ stops = mounts)
      BY <2>1 DEF Completed
    <3>3. {startup', shutdown', supported', failing', open'} \subseteq BOOLEAN
      BY <1>1, <2>1, <3>2 DEF Shape
    <3>4. startup => starts = mounts
      BY <1>2, <2>1, <3>1 DEF IInv, StartedInv
    <3>5. StartedInv'
      BY <1>2, <2>1, <3>1, <3>2, <3>4 DEF IInv, StartedInv
    <3>6. QED  BY <1>1, <1>2, <2>1, <3>1, <3>3, <3>5 DEF Shape
  <2>2. ASSUME NEW s \in BOOLEAN, NEW f \in BOOLEAN, HandlerFinally(s, f),
               failed' \in {failed, failed \cup {m}}, UNCHANGED <<started, stopped>>
        PROVE  <1>6!1 /\ <1>6!2 /\ <1>6!3 /\ <1>6!4 /\ <1>6!5
    BY <1>1, <2>2 DEF HandlerFinally, Shape, StartedInv
  <2>3. QED  BY <1>4, <2>1, <2>2
<1>7. Shape'
  BY <1>1, <1>2, <1>5, <1>6 DEF Shape
<1>8. MessageInv'
  BY <1>1, <1>2 DEF IInv, MessageInv
<1>9. ShutdownAsked' => ShutdownAsked
  BY <1>1, <1>2, <1>3 DEF ShutdownAsked, Shape
<1>10. QED  BY <1>2, <1>6, <1>7, <1>8, <1>9, LifespanStep

(* The handler's last steps: the dispatcher returns, the finally is over. *)
LEMMA HandlerKeeps ==
    ASSUME IInv, UNCHANGED workerVars, HandlerOver \/ DispatcherReturns
    PROVE  IInv'
<1>1. Shape /\ Asked' = Asked
  BY Typed DEF IInv, TypeOK, workerVars, Asked
<1>2. UNCHANGED <<mountVars, channel>> /\ handler' \in {"finally", "over"}
  BY DEF HandlerOver, DispatcherReturns, HandlerFinally
<1>3. {startup', shutdown', supported', failing', open'} \subseteq BOOLEAN
  BY <1>1 DEF HandlerOver, DispatcherReturns, HandlerFinally, Shape
<1>4. Shape'
  BY <1>1, <1>2, <1>3 DEF Shape, mountVars
<1>5. MessageInv' /\ StartedInv'
  BY <1>1, <1>2 DEF IInv, MessageInv, StartedInv, mountVars
<1>6. ShutdownAsked' => ShutdownAsked
  BY <1>2 DEF ShutdownAsked, mountVars
<1>7. QED  BY <1>2, <1>4, <1>5, <1>6, LifespanStep DEF mountVars
-----------------------------------------------------------------------------
(* The waits of worker_serve that add a message to the channel. *)
LEMMA AsksKeeps ==
    ASSUME WorkerAssumption, IInv, AsksStartup \/ AsksShutdown
    PROVE  IInv'
<1>1. Shape
  BY Typed DEF IInv, TypeOK
<1>2. UNCHANGED <<mountVars, open, events, requests, triggered, terminate, terminated, expired, conn>>
  BY DEF AsksStartup, AsksShutdown, Asks
<1>3. ~Active /\ Active' = Active
  BY <1>2 DEF AsksStartup, AsksShutdown, Asks, Drained, Active, IInv, ServingInv
<1>4. /\ \/ host = "new" /\ host' \in {"startup", "serving", "over"}
         \/ host = "draining" /\ host' \in {"shutdown", "over"}
      /\ outcome' \in {outcome, "closed", "clean"}
      /\ host' = "serving" => ~supported
      /\ \/ channel' = channel
         \/ \E message \in Messages :
                /\ channel' = Append(channel, message)
                /\ host' \in {"startup", "shutdown"}
                /\ message = "shutdown" => host' = "shutdown"
  <2>1. CASE AsksStartup
    BY <2>1 DEF AsksStartup, Asks, Over, Messages
  <2>2. CASE AsksShutdown
    BY <2>2 DEF AsksShutdown, Asks, Over, Messages
  <2>3. QED  BY <2>1, <2>2
<1>5. channel \in Seq(Messages) /\ inbox \in [Mounts -> Seq(Messages)]
  BY <1>1 DEF Shape
<1>6. /\ channel' \in Seq(Messages) /\ Len(channel) \in Nat /\ Len(channel') \in Nat
      /\ \/ Len(channel') = Len(channel)
         \/ Len(channel') = Len(channel) + 1 /\ host' \in {"startup", "shutdown"}
      /\ Has(channel', "shutdown") => Has(channel, "shutdown") \/ host' = "shutdown"
  <2>1. CASE channel' = channel
    BY <1>5, <2>1
  <2>2. ASSUME NEW message \in Messages, channel' = Append(channel, message),
               host' \in {"startup", "shutdown"}, message = "shutdown" => host' = "shutdown"
        PROVE  <1>6!1 /\ <1>6!2 /\ <1>6!3
    BY <1>5, <2>2, Added
  <2>3. QED  BY <1>4, <2>1, <2>2
<1>7. Shape'
  BY <1>1, <1>2, <1>6 DEF Shape, mountVars, events
<1>8. MessageInv'
  <2>1. ASSUME NEW m \in Mounts PROVE Len(channel') + Len(inbox'[m]) <= Asked'
    <3>1. Len(channel) + Len(inbox[m]) <= Asked /\ Len(inbox[m]) \in Nat /\ inbox' = inbox
      BY <1>2, <1>5 DEF IInv, MessageInv, mountVars
    <3>2. /\ Asked \in Nat /\ Asked' \in Nat /\ Asked <= Asked'
          /\ host' \in {"startup", "shutdown"} => Asked' = Asked + 1
      BY <1>4 DEF Asked
    <3>3. QED  BY <1>6, <3>1, <3>2
  <2>2. QED  BY <2>1 DEF MessageInv
<1>9. TypeOK'
  <2>1. LifespanTypeOK'
    BY <1>7, <1>8, Bounded
  <2>2. QED  BY <1>2, <1>4, <2>1 DEF IInv, TypeOK
<1>10. StartedInv'
  BY <1>2 DEF IInv, StartedInv, mountVars, events
<1>11. ServingInv'
  BY <1>2, <1>3, <1>4 DEF IInv, ServingInv, StartedInv, mountVars, events
<1>12. AskedInv'
  <2>1. ShutdownAsked' => ShutdownAsked \/ host' = "shutdown"
    BY <1>2, <1>6 DEF ShutdownAsked, mountVars
  <2>2. ~ShutdownAsked
    BY <1>4 DEF IInv, AskedInv
  <2>3. QED  BY <1>3, <2>1, <2>2 DEF AskedInv
<1>13. QED  BY <1>8, <1>9, <1>10, <1>11, <1>12 DEF IInv

(* The worker's other steps leave its lifespan alone. *)
LEMMA WorkerStep ==
    ASSUME IInv, UNCHANGED lifespanVars, TypeOK',
           Asked <= Asked',
           ServingInv',
           ShutdownAsked => ~Active' /\ host' \in {"shutdown", "aborting", "over"}
    PROVE  IInv'
<1>1. UNCHANGED <<channel, inbox, app, mounts, started, startup, supported, handler>>
  BY DEF lifespanVars, mountVars, events
<1>2. Asked \in Nat /\ Asked' \in Nat
  BY DEF Asked
<1>3. \A m \in Mounts : Len(channel) + Len(inbox[m]) \in Nat
  BY DEF IInv, TypeOK, LifespanTypeOK
<1>4. MessageInv'
  BY <1>1, <1>2, <1>3 DEF IInv, MessageInv
<1>5. StartedInv'
  BY <1>1 DEF IInv, StartedInv
<1>6. AskedInv'
  BY <1>1 DEF AskedInv, ShutdownAsked
<1>7. QED  BY <1>4, <1>5, <1>6 DEF IInv

LEMMA HostKeeps ==
    ASSUME WorkerAssumption, IInv,
           Starts \/ StartupTimeout \/ ShutsDown \/ ShutdownTimeout \/ LifespanFailed
           \/ Aborted \/ Trigger \/ StopsAccepting \/ GracefulTimeout
    PROVE  IInv'
<1> DEFINE Acts == Starts \/ StartupTimeout \/ ShutsDown \/ ShutdownTimeout \/ LifespanFailed
                   \/ Aborted \/ Trigger \/ StopsAccepting \/ GracefulTimeout
<1> USE DEF Starts, StartupTimeout, ShutsDown, ShutdownTimeout, LifespanFailed,
            Aborted, Trigger, StopsAccepting, GracefulTimeout
<1>1. UNCHANGED <<lifespanVars, requests, terminate, conn>>
  OBVIOUS
<1>2. /\ host' \in {"serving", "draining", "aborting", "over", host}
      /\ outcome' \in {outcome, "clean", "failed", "timeout"}
      /\ {triggered', terminated', expired'} \subseteq BOOLEAN
  BY DEF Over, IInv, TypeOK
<1>3. LifespanTypeOK'
  BY <1>1 DEF IInv, TypeOK, LifespanTypeOK, lifespanVars, mountVars, events
<1>4. TypeOK'
  BY <1>1, <1>2, <1>3 DEF IInv, TypeOK
<1>5. Asked <= Asked'
  BY DEF Asked, Over
<1>6. /\ host' = "serving" /\ host # "serving" => host = "startup" /\ startup
      /\ host' = "draining" => host \in {"serving", "draining"}
      /\ host' = "over" => host = "over" \/ ~Active
      /\ host' = "aborting" => host = "aborting" \/ handler # "run"
      /\ host' \in {"serving", "draining", "aborting", "over", host}
      /\ host \in {"shutdown", "over"} => host' \in {"shutdown", "aborting", "over"}
      /\ host = "aborting" => host' \in {"aborting", "over"}
  BY DEF Over, IInv, ServingInv, Active
<1>7. Active' = Active /\ UNCHANGED <<handler, started, mounts>>
  BY <1>1 DEF Active, lifespanVars, mountVars, events
<1>8. ServingInv'
  BY <1>6, <1>7 DEF IInv, ServingInv, StartedInv
<1>9. ShutdownAsked => ~Active' /\ host' \in {"shutdown", "aborting", "over"}
  BY <1>6, <1>7 DEF IInv, AskedInv
<1>10. QED  BY <1>1, <1>4, <1>5, <1>8, <1>9, WorkerStep

(* A connection becomes active only while the worker serves. *)
LEMMA ConnectionKeeps ==
    ASSUME WorkerAssumption, IInv, NEW c \in Conns, Connection(c)
    PROVE  IInv'
<1> USE DEF Connection, Accept, Request, Respond, Sent, Stall, HangUp, IdleTimeout, Cancel,
            ConnectionError, Turns, OnlyConn
<1>1. UNCHANGED <<lifespanVars, triggered, expired>>
  OBVIOUS
<1>2. /\ \/ host' = host /\ outcome' = outcome
         \/ host \in {"serving", "draining"} /\ host' = "aborting" /\ outcome' = "error"
      /\ requests' \in 0..Served
      /\ {terminate', terminated'} \subseteq BOOLEAN
  <2>1. CASE Request(c)
    <3>1. terminate' \in BOOLEAN /\ UNCHANGED <<host, outcome, terminated>>
      BY <2>1 DEF Request
    <3>2. requests' \in 0..Served
      BY <2>1, WorkerAssumption DEF Request, IInv, TypeOK
    <3>3. QED  BY <3>1, <3>2 DEF IInv, TypeOK
  <2>2. CASE ConnectionError(c)
    BY <2>2 DEF ConnectionError, IInv, TypeOK
  <2>3. CASE OnlyConn
    BY <2>3 DEF OnlyConn, IInv, TypeOK
  <2>4. QED  BY <2>1, <2>2, <2>3
<1>3. PICK place \in {"idle", "busy", "sending", "stalled", "over", "cancelled"} :
          /\ conn' = [conn EXCEPT ![c] = place]
          /\ conn[c] = "new" => place = "idle" /\ host = "serving"
          /\ conn[c] \notin {"over", "cancelled"}
  OBVIOUS
<1>4. conn' \in [Conns -> {"new", "idle", "busy", "sending", "stalled", "over", "cancelled"}]
  BY <1>3 DEF IInv, TypeOK
<1>5. LifespanTypeOK'
  BY <1>1 DEF IInv, TypeOK, LifespanTypeOK, lifespanVars, mountVars, events
<1>6. TypeOK'
  BY <1>1, <1>2, <1>4, <1>5 DEF IInv, TypeOK
<1>7. Asked <= Asked'
  BY <1>2 DEF Asked
<1>8. Active' => Active \/ host = "serving"
  <2>1. \A d \in Conns \ {c} : conn'[d] = conn[d]
    BY <1>3, <1>4 DEF IInv, TypeOK
  <2>2. conn[c] # "new" => Active
    BY <1>3 DEF Active, IInv, TypeOK
  <2>3. QED  BY <1>3, <2>1, <2>2 DEF Active
<1>9. Active \/ host = "serving"
  BY <1>3 DEF Active, IInv, TypeOK
<1>10. UNCHANGED <<handler, started, mounts>>
  BY <1>1 DEF lifespanVars, mountVars, events
<1>11. ServingInv'
  BY <1>2, <1>8, <1>10 DEF IInv, ServingInv
<1>12. ~ShutdownAsked
  BY <1>9 DEF IInv, AskedInv
<1>13. QED  BY <1>1, <1>6, <1>7, <1>11, <1>12, WorkerStep
-----------------------------------------------------------------------------
THEOREM Invariant == Spec => []IInv
<1>1. Init => IInv
  <2> SUFFICES ASSUME Init PROVE IInv
    OBVIOUS
  <2>1. /\ channel = <<>> /\ Len(<<>>) = 0 /\ ~Has(<<>>, "shutdown")
        /\ \A m \in Mounts : inbox[m] = <<>>
    BY DEF Init, LifespanInit, Has
  <2>2. MessageInv
    <3>1. Asked = 0
      BY DEF Init, Asked
    <3>2. ASSUME NEW m \in Mounts PROVE Len(channel) + Len(inbox[m]) <= Asked
      <4>1. Len(channel) = 0 /\ Len(inbox[m]) = 0
        BY <2>1
      <4>2. QED  BY <3>1, <4>1
    <3>3. QED  BY <3>2 DEF MessageInv
  <2>3. LifespanTypeOK
    <3>1. <<>> \in Seq({"startup", "shutdown"})
      OBVIOUS
    <3>2. inbox \in [Mounts -> Seq({"startup", "shutdown"})]
      BY <3>1 DEF Init, LifespanInit
    <3>3. /\ {started, stopped, failed} \subseteq SUBSET mounts /\ mounts \subseteq Mounts
          /\ {direct, open, startup, shutdown, supported, failing} \subseteq BOOLEAN
          /\ app \in [Mounts -> {"new", "starting", "serving", "stopping", "stopped", "gone"}]
          /\ handler = "run"
      BY DEF Init, LifespanInit
    <3>4. QED  BY <2>1, <3>1, <3>2, <3>3 DEF LifespanTypeOK
  <2>4. TypeOK
    <3>1. /\ {triggered, terminate, terminated, expired} \subseteq BOOLEAN
          /\ host = "new" /\ outcome = "none" /\ conn = [c \in Conns |-> "new"]
      BY DEF Init
    <3>2. requests \in 0..Served
      BY WorkerAssumption DEF Init
    <3>3. QED  BY <2>3, <3>1, <3>2 DEF TypeOK
  <2>5. ~Active /\ ~ShutdownAsked
    BY <2>1 DEF Init, LifespanInit, Active, ShutdownAsked
  <2>6. StartedInv /\ ServingInv /\ AskedInv
    BY <2>5 DEF Init, LifespanInit, StartedInv, ServingInv, AskedInv
  <2>7. QED  BY <2>2, <2>4, <2>6 DEF IInv
<1>2. IInv /\ [Next]_vars => IInv'
  <2>1. SUFFICES ASSUME IInv, [Next]_vars PROVE IInv'
    OBVIOUS
  <2>2. CASE Host \/ StartupTimeout \/ ShutdownTimeout \/ Trigger \/ GracefulTimeout
    BY <2>1, <2>2, AsksKeeps, HostKeeps, WorkerAssumption DEF Host
  <2>3. CASE \E c \in Conns : Connection(c)
    BY <2>1, <2>3, ConnectionKeeps, WorkerAssumption
  <2>4. CASE LifespanNext /\ UNCHANGED workerVars
    BY <2>1, <2>4, ForwardKeeps, ReceivesKeeps, AnswersKeep, HandlerKeeps
       DEF LifespanNext, Mount
  <2>5. CASE UNCHANGED vars
    BY <2>1, <2>5 DEF vars, lifespanVars, mountVars, events, workerVars, IInv, TypeOK,
       LifespanTypeOK, MessageInv, Asked, StartedInv, ServingInv, Active, AskedInv, ShutdownAsked
  <2>6. QED  BY <2>1, <2>2, <2>3, <2>4, <2>5 DEF Next
<1>3. QED  BY <1>1, <1>2, PTL DEF Spec

(* worker_serve, the lifespan and the connections keep their types: neither the
   lifespan's channel nor the queue of a mount ever holds more than the two
   messages of a lifespan. *)
THEOREM TypeCorrect == Spec => []TypeOK
<1>1. IInv => TypeOK
  BY DEF IInv
<1>2. QED  BY <1>1, Invariant, PTL

(* Requests are served within the lifespan of every mount, however many there
   are and in whatever order they acknowledge, return, raise or fail. *)
THEOREM LifespanCorrect == Spec => []ServedWithinLifespan
<1>1. IInv => ServedWithinLifespan
  <2>1. ASSUME IInv, NEW c \in Conns, conn[c] \in {"idle", "busy", "sending", "stalled"},
               handler = "run"
        PROVE  started = mounts /\ \A m \in mounts : app[m] \notin {"stopping", "stopped"}
    <3>1. Active
      BY <2>1 DEF Active
    <3>2. started = mounts /\ ~ShutdownAsked
      BY <2>1, <3>1 DEF IInv, ServingInv, AskedInv
    <3>3. mounts \subseteq Mounts
      BY <2>1 DEF IInv, TypeOK, LifespanTypeOK
    <3>4. QED  BY <3>2, <3>3 DEF ShutdownAsked
  <2>2. QED  BY <2>1 DEF ServedWithinLifespan
<1>2. QED  BY <1>1, Invariant, PTL
=============================================================================
