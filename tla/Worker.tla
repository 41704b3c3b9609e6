-------------------------------- MODULE Worker --------------------------------
(***************************************************************************)
(* One worker process: run.py worker_serve with the WorkerContext, the     *)
(* Lifespan of its application and its TCP connections, from the wait for  *)
(* startup, through the drain of the requests in flight up to              *)
(* graceful_timeout, to the wait for shutdown.                             *)
(*                                                                         *)
(* A connection is the place of its tasks: idle behind its timer, in the   *)
(* application, or in a socket send, which is shielded from cancellation.  *)
(* Time is the order of events: a timeout may fire at any moment it is set.*)
(***************************************************************************)
EXTENDS Lifespan, FiniteSets

CONSTANTS Conns,         \* connections
          MaxRequests,   \* context.max_requests
          Served,        \* bound on the requests of a behaviour
          MayStall       \* a client may stop reading for good

ASSUME WorkerAssumption ==
    /\ MaxRequests \in Nat /\ Served \in Nat /\ MayStall \in BOOLEAN

VARIABLES
    host,        \* where worker_serve is
    outcome,     \* how it ended
    requests,    \* context.requests
    triggered,   \* shutdown_trigger has returned
    terminate,   \* context.terminate
    terminated,  \* context.terminated
    expired,     \* server_tg's deadline, the graceful timeout, has passed
    conn         \* the connections

workerVars == <<host, outcome, requests, triggered, terminate, terminated, expired, conn>>
vars       == <<lifespanVars, workerVars>>

TypeOK ==
    /\ LifespanTypeOK
    /\ host \in {"new", "startup", "serving", "draining", "shutdown", "aborting", "over"}
    /\ outcome \in {"none", "clean", "failed", "timeout", "closed", "error"}
    /\ requests \in 0..Served
    /\ {triggered, terminate, terminated, expired} \subseteq BOOLEAN
    /\ conn \in [Conns -> {"new", "idle", "busy", "sending", "stalled", "over", "cancelled"}]

Init ==
    /\ LifespanInit
    /\ host = "new" /\ outcome = "none" /\ requests = 0
    /\ triggered = FALSE /\ terminate = FALSE /\ terminated = FALSE /\ expired = FALSE
    /\ conn = [c \in Conns |-> "new"]

Over(result) == host' = "over" /\ outcome' = result
-----------------------------------------------------------------------------
(* wait_for_startup and wait_for_shutdown *)

(* The message is sent unless there is no support; a closed channel raises. *)
Asks(place, message, waiting, skipped) ==
    /\ host = place
    /\ IF ~supported THEN skipped /\ UNCHANGED channel
       ELSE IF ~open THEN Over("closed") /\ UNCHANGED channel
       ELSE host' = waiting /\ channel' = Append(channel, message) /\ UNCHANGED outcome
    /\ UNCHANGED <<mountVars, open, events, requests, triggered, terminate, terminated, expired, conn>>

AsksStartup == Asks("new", "startup", "startup", host' = "serving" /\ UNCHANGED outcome)

(* Startup is over, one way or another: the sockets are bound and it serves. *)
Starts ==
    /\ host = "startup" /\ startup
    /\ host' = "serving"
    /\ UNCHANGED <<lifespanVars, outcome, requests, triggered, terminate, terminated, expired, conn>>

StartupTimeout ==
    /\ host = "startup" /\ ~startup
    /\ Over("timeout")
    /\ UNCHANGED <<lifespanVars, requests, triggered, terminate, terminated, expired, conn>>

(* Mutant of Drained: the application is shut down when the deadline is set. *)
DrainedAtOnce == host = "draining"

(* server_tg is empty: every connection it ran is over. *)
Drained == host = "draining" /\ \A c \in Conns : conn[c] \in {"new", "over", "cancelled"}

AsksShutdown == Drained /\ Asks("draining", "shutdown", "shutdown", Over("clean"))

ShutsDown ==
    /\ host = "shutdown" /\ shutdown
    /\ Over("clean")
    /\ UNCHANGED <<lifespanVars, requests, triggered, terminate, terminated, expired, conn>>

ShutdownTimeout ==
    /\ host = "shutdown" /\ ~shutdown
    /\ Over("timeout")
    /\ UNCHANGED <<lifespanVars, requests, triggered, terminate, terminated, expired, conn>>

(* lifespan_tg is cancelled by the failure its child ended with. *)
LifespanFailed ==
    /\ handler = "over" /\ failing /\ host \notin {"aborting", "over"}
    /\ host' = "aborting" /\ outcome' = "failed"
    /\ terminated' = (terminated \/ host = "serving")
    /\ UNCHANGED <<lifespanVars, requests, triggered, terminate, expired, conn>>

(* A connection's error is not caught before server_tg, whose body it cancels. *)
ConnectionError(c) ==
    /\ conn[c] = "busy" /\ host \in {"serving", "draining"}
    /\ conn' = [conn EXCEPT ![c] = "over"]
    /\ host' = "aborting" /\ outcome' = "error"
    /\ terminated' = TRUE
    /\ UNCHANGED <<lifespanVars, requests, triggered, terminate, expired>>

(* What was cancelled has unwound, and the lifespan with it. *)
Aborted ==
    /\ host = "aborting"
    /\ \A c \in Conns : conn[c] \in {"new", "over", "cancelled"}
    /\ host' = "over"
    /\ UNCHANGED <<lifespanVars, outcome, requests, triggered, terminate, terminated, expired, conn>>
-----------------------------------------------------------------------------
(* Shutdown: raise_shutdown waits for the trigger and for context.terminate *)

Trigger ==
    /\ host # "over" /\ ~triggered
    /\ triggered' = TRUE
    /\ UNCHANGED <<lifespanVars, host, outcome, requests, terminate, terminated, expired, conn>>

(* Accepting stops, and the deadline for what is in flight is set. *)
StopsAccepting ==
    /\ host = "serving" /\ (triggered \/ terminate)
    /\ terminated' = TRUE
    /\ host' = "draining"
    /\ UNCHANGED <<lifespanVars, outcome, requests, triggered, terminate, expired, conn>>

GracefulTimeout ==
    /\ host = "draining" /\ ~expired
    /\ expired' = TRUE
    /\ UNCHANGED <<lifespanVars, host, outcome, requests, triggered, terminate, terminated, conn>>
-----------------------------------------------------------------------------
(* Connections: TCPServer.run and its protocol *)

Turns(c, from, to) == conn[c] = from /\ conn' = [conn EXCEPT ![c] = to]

OnlyConn == UNCHANGED <<lifespanVars, host, outcome, requests, triggered, terminate, terminated, expired>>

Accept(c) == host = "serving" /\ Turns(c, "new", "idle") /\ OnlyConn

(* mark_request: the worker terminates after more than max_requests. *)
Request(c) ==
    /\ Turns(c, "idle", "busy")
    /\ requests < Served
    /\ requests' = requests + 1
    /\ terminate' = (terminate \/ requests' > MaxRequests)
    /\ UNCHANGED <<lifespanVars, host, outcome, triggered, terminated, expired>>

Respond(c) == Turns(c, "busy", "sending") /\ OnlyConn

(* The response is out: _maybe_recycle, which closes once terminated. *)
Sent(c) == Turns(c, "sending", IF terminated THEN "over" ELSE "idle") /\ OnlyConn

Stall(c) == MayStall /\ Turns(c, "sending", "stalled") /\ OnlyConn

HangUp(c) == \E from \in {"idle", "busy", "stalled"} : Turns(c, from, "over") /\ OnlyConn

(* _idle_timeout: keep_alive_timeout is over, or the worker is terminated. *)
IdleTimeout(c) == Turns(c, "idle", "over") /\ OnlyConn

(* Mutant of Cancel: server_tg has no deadline. *)
CancelOnAbort(c) ==
    /\ host = "aborting"
    /\ Turns(c, "idle", "cancelled") \/ Turns(c, "busy", "cancelled")
    /\ OnlyConn

(* server_tg is cancelled: only what is shielded goes on. *)
Cancel(c) ==
    /\ expired \/ host = "aborting"
    /\ Turns(c, "idle", "cancelled") \/ Turns(c, "busy", "cancelled")
    /\ OnlyConn

Connection(c) == \/ Accept(c) \/ Request(c) \/ Respond(c) \/ Sent(c) \/ Stall(c) \/ HangUp(c)
                 \/ IdleTimeout(c) \/ Cancel(c) \/ ConnectionError(c)
-----------------------------------------------------------------------------
Host == \/ AsksStartup \/ Starts \/ AsksShutdown \/ ShutsDown \/ LifespanFailed
        \/ Aborted \/ StopsAccepting

Next == \/ Host \/ StartupTimeout \/ ShutdownTimeout \/ Trigger \/ GracefulTimeout
        \/ \E c \in Conns : Connection(c)
        \/ host # "over" /\ LifespanNext /\ UNCHANGED workerVars

Spec == Init /\ [][Next]_vars

(* The event loop runs what is ready and the timeouts fire, but that of startup
   is left out, for an application that neither hangs nor is waited for in
   vain.  Clients read what is sent unless they stall; no response is promised. *)
Fairness ==
    /\ WF_vars(Host) /\ WF_vars(GracefulTimeout) /\ WF_vars(ShutdownTimeout)
    /\ WF_vars(host # "over" /\ (HandlerOver \/ Forward \/ DispatcherReturns) /\ UNCHANGED workerVars)
    /\ \A m \in Mounts :
           WF_vars(host # "over" /\ m \in mounts /\ app[m] \in {"new", "starting"} /\ Mount(m)
                   /\ UNCHANGED workerVars)
    /\ \A c \in Conns : WF_vars(Sent(c)) /\ WF_vars(Cancel(c)) /\ WF_vars(terminated /\ IdleTimeout(c))

FairSpec == Spec /\ Fairness
-----------------------------------------------------------------------------
(* Requests are served within the lifespan of every mount: not before each has
   completed its startup or opted out of it, nor once any has been sent its
   shutdown; unless the lifespan has ended in an error or is about to. *)
ServedWithinLifespan ==
    \A c \in Conns : conn[c] \in {"idle", "busy", "sending", "stalled"} /\ handler = "run" =>
        /\ started = mounts
        /\ \A m \in mounts : app[m] \notin {"stopping", "stopped"}

(* "Draining in-flight requests must end at graceful_timeout": a worker told to
   stop does, whatever the applications in flight do, unless a client that has
   stopped reading holds a send, which is shielded. *)
WorkerEnds ==
    triggered \/ terminate
        ~> host = "over" \/ \E c \in Conns : conn[c] = "stalled"

(* The wait for startup ends by itself: whichever mounts acknowledge, fail,
   decline by raising or return without a word, in whatever order. *)
StartupEnds == host = "startup" ~> host # "startup"
=============================================================================
