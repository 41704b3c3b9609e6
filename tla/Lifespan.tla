------------------------------- MODULE Lifespan -------------------------------
(***************************************************************************)
(* The ASGI lifespan of a worker: lifespan.py Lifespan, and the            *)
(* application it runs, which is either one application or the             *)
(* middleware/dispatcher.py DispatcherMiddleware over several mounts.      *)
(*                                                                         *)
(* An application may acknowledge startup and shutdown, report that one of *)
(* them failed, or return or raise at any point; the module says what the  *)
(* server makes of it.  Worker adds the worker that waits for both.        *)
(***************************************************************************)
EXTENDS Naturals, Sequences

CONSTANT Mounts     \* the applications

ASSUME MountsAssumption == Mounts # {}

VARIABLES
    direct,      \* the worker's application is a mount itself, not a dispatcher
    mounts,      \* the applications it has
    channel,     \* messages in app_send_channel; it may be closed
    open,
    inbox,       \* the dispatcher's queue for each mount
    app,         \* where each mount is in its lifespan
    started,     \* mounts for which startup is complete
    stopped,     \* ... and shutdown
    failed,      \* mounts that reported a failure
    startup,     \* self.startup is set
    shutdown,    \* self.shutdown is set
    supported,   \* self.supported
    handler,     \* handle_lifespan: running, in its finally, over
    failing      \* it ends with LifespanFailureError

mountVars == <<direct, mounts, inbox, app, started, stopped, failed>>
events    == <<startup, shutdown, supported, handler, failing>>
lifespanVars == <<mountVars, channel, open, events>>

LifespanTypeOK ==
    /\ direct \in BOOLEAN /\ mounts \subseteq Mounts
    /\ channel \in Seq({"startup", "shutdown"}) /\ Len(channel) <= 2
    /\ open \in BOOLEAN
    /\ inbox \in [Mounts -> Seq({"startup", "shutdown"})]
    /\ \A m \in Mounts : Len(inbox[m]) <= 2
    /\ app \in [Mounts -> {"new", "starting", "serving", "stopping", "stopped", "gone"}]
    /\ {started, stopped, failed} \subseteq SUBSET mounts
    /\ {startup, shutdown, supported, failing} \subseteq BOOLEAN
    /\ handler \in {"run", "finally", "over"}

LifespanInit ==
    /\ mounts \in (SUBSET Mounts) \ {{}}
    /\ direct \in BOOLEAN /\ (direct => \A m, n \in mounts : m = n)
    /\ channel = <<>> /\ open = TRUE
    /\ inbox = [m \in Mounts |-> <<>>] /\ app = [m \in Mounts |-> "new"]
    /\ started = {} /\ stopped = {} /\ failed = {}
    /\ startup = FALSE /\ shutdown = FALSE /\ supported = TRUE
    /\ handler = "run" /\ failing = FALSE
-----------------------------------------------------------------------------
(* handle_lifespan *)

(* The application returned, or raised: both events are set and the channel is
   closed before the exception, if any, gets any further. *)
HandlerFinally(isSupported, isFailing) ==
    /\ handler' = "finally"
    /\ startup' = TRUE /\ shutdown' = TRUE /\ open' = FALSE
    /\ supported' = isSupported /\ failing' = isFailing

(* The last awaits of the finally: then the exception is the task group's. *)
HandlerOver ==
    /\ handler = "finally"
    /\ handler' = "over"
    /\ UNCHANGED <<mountVars, channel, open, startup, shutdown, supported, failing>>
-----------------------------------------------------------------------------
(* DispatcherMiddleware *)

(* Mutant of Forward: the message stays in the channel. *)
ForwardAgain ==
    /\ handler = "run" /\ ~direct /\ channel # <<>>
    /\ inbox' = [m \in Mounts |-> IF m \in mounts THEN Append(inbox[m], Head(channel)) ELSE <<>>]
    /\ UNCHANGED <<channel, open, direct, mounts, app, started, stopped, failed, events>>

(* _handle_lifespan: every mount gets each message. *)
Forward ==
    /\ handler = "run" /\ ~direct /\ channel # <<>>
    /\ channel' = Tail(channel)
    /\ inbox' = [m \in Mounts |-> IF m \in mounts THEN Append(inbox[m], Head(channel)) ELSE <<>>]
    /\ UNCHANGED <<open, direct, mounts, app, started, stopped, failed, events>>

(* send: complete once all are. *)
Completed(starts, stops) ==
    /\ started' = starts /\ stopped' = stops
    /\ startup' = (startup \/ starts = mounts)
    /\ shutdown' = (shutdown \/ stops = mounts)

(* All the mounts have returned, the shutdown being forwarded: so does it. *)
DispatcherReturns ==
    /\ handler = "run" /\ ~direct
    /\ \A m \in mounts : app[m] = "gone"
    /\ \E m \in mounts : inbox[m] # <<>> /\ inbox[m][Len(inbox[m])] = "shutdown"
    /\ HandlerFinally(supported, FALSE)
    /\ UNCHANGED <<mountVars, channel>>
-----------------------------------------------------------------------------
(* A mount: any ASGI application *)

Moves(m, place) == app' = [app EXCEPT ![m] = place]

(* The message a mount that waits for it receives.  The dispatcher's queues keep
   their last message, for DispatcherReturns to look at. *)
MountReceives(m, from, message, to) ==
    /\ handler = "run" /\ app[m] = from
    /\ IF direct
       THEN channel # <<>> /\ Head(channel) = message /\ channel' = Tail(channel)
       ELSE (\E i \in DOMAIN inbox[m] : inbox[m][i] = message) /\ UNCHANGED channel
    /\ Moves(m, to)
    /\ UNCHANGED <<open, direct, mounts, inbox, started, stopped, failed, events>>

Receives(m) == \/ MountReceives(m, "new", "startup", "starting")
               \/ MountReceives(m, "serving", "shutdown", "stopping")

(* lifespan.startup.complete, lifespan.shutdown.complete *)
Acknowledges(m) ==
    /\ handler = "run"
    /\ \/ app[m] = "starting" /\ Moves(m, "serving") /\ Completed(started \cup {m}, stopped)
       \/ app[m] = "stopping" /\ Moves(m, "stopped") /\ Completed(started, stopped \cup {m})
    /\ UNCHANGED <<channel, open, direct, mounts, inbox, failed, supported, handler, failing>>

(* lifespan.startup.failed, lifespan.shutdown.failed: LifespanFailureError goes
   through the mount, the dispatcher and the handler. *)
Fails(m) ==
    /\ handler = "run" /\ app[m] \in {"starting", "stopping"}
    /\ failed' = failed \cup {m}
    /\ Moves(m, "gone")
    /\ HandlerFinally(supported, TRUE)
    /\ UNCHANGED <<channel, direct, mounts, inbox, started, stopped>>

(* Mutant of OptsOut: a mount that leaves early is not completed for. *)
OptsOutSilently(m) ==
    UNCHANGED <<started, stopped, startup, shutdown, supported, handler, failing, open>>

(* _run_mount: a mount that leaves has what it did not acknowledge done for it. *)
OptsOut(m) ==
    /\ Completed(started \cup {m}, stopped \cup {m})
    /\ UNCHANGED <<supported, handler, failing, open>>

(* A mount returns, whatever it has acknowledged. *)
Returns(m) ==
    /\ handler = "run" /\ app[m] # "gone"
    /\ Moves(m, "gone")
    /\ IF direct THEN HandlerFinally(supported, FALSE) /\ UNCHANGED <<started, stopped>>
       ELSE OptsOut(m)
    /\ UNCHANGED <<channel, direct, mounts, inbox, failed>>

(* A mount raises: declining the lifespan before startup, an error after it,
   which ends the other mounts and the lifespan's support. *)
Raises(m) ==
    /\ handler = "run" /\ app[m] # "gone"
    /\ Moves(m, "gone")
    /\ IF direct \/ m \in started THEN HandlerFinally(FALSE, FALSE) /\ UNCHANGED <<started, stopped>>
       ELSE OptsOut(m)
    /\ UNCHANGED <<channel, direct, mounts, inbox, failed>>

Mount(m) == Receives(m) \/ Acknowledges(m) \/ Fails(m) \/ Returns(m) \/ Raises(m)

LifespanNext == HandlerOver \/ Forward \/ DispatcherReturns \/ \E m \in mounts : Mount(m)
=============================================================================
