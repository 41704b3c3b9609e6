-------------------------------- MODULE Master --------------------------------
(***************************************************************************)
(* The master process: run.py run with config.workers > 0, its signal      *)
(* handlers shutdown and reload, _populate, _join_exited and _terminate,   *)
(* over worker processes that poll the shutdown event they share with it.  *)
(*                                                                         *)
(* A handler runs between any two steps of the master, and within another  *)
(* handler: reload stays on a stack while it joins.  A worker is reduced   *)
(* to its place and its exit code, 0 or 1 for every other; what happens in *)
(* it is module Worker.                                                    *)
(***************************************************************************)
EXTENDS Integers, Sequences, SequencesExt

CONSTANTS Workers,       \* config.workers
          Signals,       \* bound on its signals and file changes
          UseReloader,   \* config.use_reloader
          MayRefuse,     \* a process may fail to start
          MayFail        \* a worker may end with a non-zero exit code

ASSUME MasterAssumption ==
    /\ Workers \in Nat \ {0} /\ Signals \in Nat
    /\ {UseReloader, MayRefuse, MayFail} \subseteq BOOLEAN

(* A process that has been reaped makes room for another. *)
Ids == 1..Workers

VARIABLES
    at,          \* where run is
    active,      \* its flag
    event,       \* shutdown_event
    exitcode,    \* its result
    installed,   \* shutdown and reload handle SIGTERM and SIGHUP
    processes,   \* the list of its workers
    joining,     \* the reloads under way, the innermost last: the next to join
    signals,     \* signals so far
    worker,      \* the worker processes
    code,        \* their exit codes
    failed,      \* history: a worker that has been reaped had failed
    erased       \* history: a reload within _populate has taken back a shutdown

masterVars == <<at, active, event, exitcode, installed, processes, joining>>
workerVars == <<worker, code>>
history    == <<failed, erased>>
vars       == <<masterVars, signals, workerVars, history>>

Alive == {"starting", "running", "draining"}

Listed == Range(processes)

Lists == UNION {[1..n -> Ids] : n \in 0..Workers}

TypeOK ==
    /\ at \in {"populating", "appending", "waiting", "reaping", "leaving", "terminating",
               "over", "killed"}
    /\ {active, event, installed, failed, erased} \subseteq BOOLEAN
    /\ exitcode \in 0..1 /\ signals \in 0..Signals
    /\ processes \in Seq(Ids) /\ IsInjective(processes)
    /\ \A w \in Listed : worker[w] # "none"
    /\ joining \in Seq(1..Workers + 1)
    /\ worker \in [Ids -> Alive \cup {"none", "exited", "killed"}]
    /\ code \in [Ids -> 0..1]

Init ==
    /\ at = "populating" /\ active = TRUE /\ event = FALSE /\ exitcode = 0
    /\ installed = FALSE /\ processes = <<>> /\ joining = <<>> /\ signals = 0
    /\ worker = [w \in Ids |-> "none"] /\ code = [w \in Ids |-> 0]
    /\ failed = FALSE /\ erased = FALSE

(* The master's own code, when no handler has interrupted it. *)
Main(from, to) == joining = <<>> /\ at = from /\ at' = to
-----------------------------------------------------------------------------
(* _populate *)

Spawn ==
    /\ Main("populating", "appending")
    /\ Len(processes) < Workers
    /\ worker' = [worker EXCEPT ![CHOOSE w \in Ids : worker[w] = "none"] = "starting"]
    /\ UNCHANGED <<active, event, exitcode, installed, processes, joining, signals, code, history>>

(* processes.append, of the process just started. *)
Listing ==
    /\ Main("appending", "populating")
    /\ \E w \in Ids \ Listed : worker[w] # "none" /\ processes' = Append(processes, w)
    /\ UNCHANGED <<active, event, exitcode, installed, joining, signals, workerVars, history>>

(* Mutant of SpawnRefused: no callback was registered on the exit stack. *)
SpawnRefusedLeaving ==
    /\ MayRefuse /\ Main("populating", "over")
    /\ Len(processes) < Workers
    /\ exitcode' = 1
    /\ UNCHANGED <<active, event, installed, processes, joining, signals, workerVars, history>>

(* start raises: the exit stack terminates the workers already running. *)
SpawnRefused ==
    /\ MayRefuse /\ Main("populating", "terminating")
    /\ Len(processes) < Workers
    /\ exitcode' = 1
    /\ UNCHANGED <<active, event, installed, processes, joining, signals, workerVars, history>>

Install ==
    /\ Main("populating", "waiting")
    /\ Len(processes) = Workers
    /\ installed' = TRUE
    /\ UNCHANGED <<active, event, exitcode, processes, joining, signals, workerVars, history>>
-----------------------------------------------------------------------------
(* The loop: wait, _join_exited, and the way out *)

(* wait returns with the first sentinel that is ready. *)
Wakes ==
    /\ Main("waiting", "reaping")
    /\ \E w \in Listed : worker[w] \notin Alive
    /\ UNCHANGED <<active, event, exitcode, installed, processes, joining, signals, workerVars, history>>

(* Mutant of JoinExited: the workers that have exited stay in the list. *)
JoinExitedListed ==
    LET gone == {w \in Listed : worker[w] \notin Alive} IN
    /\ exitcode' = (IF \E w \in gone : code[w] # 0 THEN 1 ELSE 0)
    /\ failed' = (failed \/ exitcode' # 0)
    /\ worker' = [w \in Ids |-> IF w \in gone THEN "none" ELSE worker[w]]
    /\ code' = [w \in Ids |-> IF w \in gone THEN 0 ELSE code[w]]
    /\ processes' = processes

(* The list of those workers ws that are still there, in the order in which they were. *)
Left(list, ws) ==
    /\ Range(list) = ws
    /\ \A i, j \in DOMAIN list, k, l \in DOMAIN processes :
          i < j /\ processes[k] = list[i] /\ processes[l] = list[j] => k < l

(* _join_exited: those that have exited leave the list, and a code of theirs is
   the result. *)
JoinExited ==
    LET gone == {w \in Listed : worker[w] \notin Alive} IN
    /\ exitcode' = (IF \E w \in gone : code[w] # 0 THEN 1 ELSE 0)
    /\ failed' = (failed \/ exitcode' # 0)
    /\ worker' = [w \in Ids |-> IF w \in gone THEN "none" ELSE worker[w]]
    /\ code' = [w \in Ids |-> IF w \in gone THEN 0 ELSE code[w]]
    /\ \E list \in Lists : Left(list, Listed \ gone) /\ processes' = list

(* A worker that failed stops the master; otherwise it is replaced. *)
Reap ==
    /\ joining = <<>> /\ at = "reaping"
    /\ JoinExited
    /\ event' = (event \/ exitcode' # 0) /\ active' = (active /\ exitcode' = 0)
    /\ at' = IF active' THEN "populating" ELSE "leaving"
    /\ UNCHANGED <<installed, joining, signals, erased>>

(* Mutant of Leave: the workers are reaped again whatever the exit code is. *)
LeaveForgetting ==
    /\ Main("leaving", "terminating")
    /\ JoinExited
    /\ UNCHANGED <<active, event, installed, joining, signals, erased>>

(* Reap again, unless a failure has already been captured. *)
Leave ==
    /\ Main("leaving", "terminating")
    /\ IF exitcode = 0 THEN JoinExited ELSE UNCHANGED <<processes, exitcode, worker, code, failed>>
    /\ UNCHANGED <<active, event, installed, joining, signals, erased>>

(* _terminate: SIGTERM, whose handling is the default in a worker. *)
Terminate ==
    /\ Main("terminating", "over")
    /\ worker' = [w \in Ids |-> IF w \in Listed /\ worker[w] \in Alive THEN "killed"
                                ELSE worker[w]]
    /\ UNCHANGED <<active, event, exitcode, installed, processes, joining, signals, code, history>>
-----------------------------------------------------------------------------
(* Signals *)

Signalled == signals < Signals /\ at \notin {"over", "killed"} /\ signals' = signals + 1

(* Mutant of Shutdown: the workers are not told. *)
ShutdownFlagOnly ==
    /\ Signalled /\ installed
    /\ active' = FALSE
    /\ UNCHANGED <<at, event, exitcode, installed, processes, joining, workerVars, history>>

(* SIGTERM, or SIGINT where it is not ignored, which it is while populating. *)
Shutdown ==
    /\ Signalled /\ installed
    /\ event' = TRUE /\ active' = FALSE
    /\ UNCHANGED <<at, exitcode, installed, processes, joining, workerVars, history>>

(* SIGTERM or SIGHUP before the handlers are installed: the default action. *)
DefaultSignal ==
    /\ Signalled /\ ~installed
    /\ at' = "killed"
    /\ UNCHANGED <<active, event, exitcode, installed, processes, joining, workerVars, history>>

(* reload, up to the first process it joins. *)
Reload ==
    /\ event' = TRUE /\ joining' = Append(joining, 1)
    /\ UNCHANGED <<active, exitcode, installed, processes, workerVars, history>>

Sighup == Signalled /\ installed /\ Reload /\ UNCHANGED at

(* check_for_updates: reload is a call, after which the loop reaps. *)
FileUpdated ==
    /\ UseReloader /\ Signalled /\ Main("waiting", "reaping") /\ Reload

(* process.join returns; after the last, the event is cleared. *)
Join ==
    /\ joining # <<>> /\ at # "killed"
    /\ LET next == Last(joining) IN
       IF next > Len(processes)
       THEN /\ joining' = Front(joining) /\ event' = FALSE
            /\ erased' = (erased \/ (~active /\ at \in {"populating", "appending"}))
       ELSE /\ worker[processes[next]] \notin Alive
            /\ joining' = [joining EXCEPT ![Len(joining)] = next + 1]
            /\ UNCHANGED <<event, erased>>
    /\ UNCHANGED <<at, active, exitcode, installed, processes, signals, workerVars, failed>>
-----------------------------------------------------------------------------
(* A worker process: anyio_worker *)

Moves(w, from, to) == worker[w] \in from /\ worker' = [worker EXCEPT ![w] = to]

Loaded(w) == Moves(w, {"starting"}, "running") /\ UNCHANGED <<masterVars, signals, code, history>>

(* check_multiprocess_shutdown_event: the event is polled. *)
Told(w) == event /\ Moves(w, {"running"}, "draining") /\ UNCHANGED <<masterVars, signals, code, history>>

(* Its max_requests have been served. *)
Recycled(w) == Moves(w, {"running"}, "draining") /\ UNCHANGED <<masterVars, signals, code, history>>

Exits(w) == Moves(w, {"draining"}, "exited") /\ UNCHANGED <<masterVars, signals, code, history>>

Fails(w) ==
    /\ MayFail /\ Moves(w, Alive, "exited")
    /\ code' = [code EXCEPT ![w] = 1]
    /\ UNCHANGED <<masterVars, signals, history>>
-----------------------------------------------------------------------------
Run == Spawn \/ Listing \/ Install \/ Wakes \/ Reap \/ Leave \/ Terminate \/ Join

Next == \/ Run \/ SpawnRefused
        \/ Shutdown \/ DefaultSignal \/ Sighup \/ FileUpdated
        \/ \E w \in Ids : Loaded(w) \/ Told(w) \/ Recycled(w) \/ Exits(w) \/ Fails(w)

Spec == Init /\ [][Next]_vars

(* The processes run; a worker told to stop does, by its graceful timeout. *)
Fairness == WF_vars(Run) /\ \A w \in Ids : WF_vars(Loaded(w) \/ Told(w) \/ Exits(w))

FairSpec == Spec /\ Fairness
-----------------------------------------------------------------------------
(* "a non-zero exitcode has already been captured from a worker the loop reaped
   and removed": a worker that failed and was reaped shows in the exit code, in
   whatever order the others end. *)
ExitCodeKept == at = "over" /\ failed => exitcode # 0

(* "A worker that fails to spawn would otherwise leave its siblings running":
   once run has returned or raised, no worker is left. *)
NoneLeftBehind == at = "over" => \A w \in Ids : worker[w] \notin Alive

(* Asked to shut down, or stopped by a worker's failure, the master ends, unless
   a reload that has interrupted _populate has cleared the event since: the
   workers started from then on are not told. *)
ShutdownEnds == ~active ~> at = "over" \/ erased

(* "A request already being served when shutdown starts must get its response.
   graceful_timeout exists so that the worker waits for in-flight work": a worker
   that is draining is left to end by itself. *)
DrainsInFull == [][\A w \in Ids : worker[w] = "draining" => worker'[w] # "killed"]_vars
=============================================================================
