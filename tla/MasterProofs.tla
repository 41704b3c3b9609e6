------------------------------- MODULE MasterProofs -------------------------------
(***************************************************************************)
(* Proofs about Master, for any number of workers and of signals, with or  *)
(* without a reloader, and whichever processes refuse to start or fail.    *)
(***************************************************************************)
EXTENDS Master, TLAPS

(* Every process that has not been reaped is in the list, but for the one that
   has been started and is about to be appended. *)
ListInv ==
    /\ at = "appending" => Len(processes) < Workers
    /\ at \notin {"appending", "killed"} => \A w \in Ids : worker[w] # "none" => w \in Listed
    /\ at = "appending" => \A v, w \in Ids \ Listed :
          worker[v] # "none" /\ worker[w] # "none" => v = w

(* A failure that has been reaped is the result, and run is on its way out. *)
CodeInv == failed => exitcode = 1 /\ at \in {"leaving", "terminating", "over", "killed"}

(* The list has room for every worker that run wants. *)
RoomInv == Len(processes) <= Workers

IInv == TypeOK /\ RoomInv /\ ListInv /\ CodeInv /\ NoneLeftBehind
-----------------------------------------------------------------------------
(* What is left of the list is a list of the same kind. *)
LEMMA LeftOf ==
    ASSUME MasterAssumption, TypeOK,
           NEW ws \in SUBSET Listed, NEW list \in Lists, Left(list, ws)
    PROVE  list \in Seq(Ids) /\ Len(list) <= Workers /\ IsInjective(list) /\ Range(list) = ws
<1>1. PICK n \in 0..Workers : list \in [1..n -> Ids]
  BY DEF Lists
<1>2. list \in Seq(Ids) /\ Len(list) = n /\ DOMAIN list = 1..n /\ n \in Nat
  BY <1>1, MasterAssumption
<1>3. Range(list) = ws
  BY DEF Left
<1>4. ASSUME NEW i \in DOMAIN list, NEW j \in DOMAIN list, list[i] = list[j], i < j
      PROVE  FALSE
  <2>1. list[i] \in ws
    BY <1>3, <1>4 DEF Range
  <2>2. PICK k \in DOMAIN processes : processes[k] = list[i]
    BY <2>1 DEF Listed, Range
  <2>3. DOMAIN processes = 1..Len(processes) /\ Len(processes) \in Nat
    BY DEF TypeOK
  <2>4. k < k
    BY <1>4, <2>2 DEF Left
  <2>5. QED  BY <2>3, <2>4
<1>5. IsInjective(list)
  <2>1. SUFFICES ASSUME NEW i \in DOMAIN list, NEW j \in DOMAIN list, list[i] = list[j]
                 PROVE  i = j
    BY DEF IsInjective
  <2>2. i \in Nat /\ j \in Nat
    BY <1>2
  <2>3. QED  BY <1>4, <2>1, <2>2
<1>6. QED  BY <1>1, <1>2, <1>3, <1>5, MasterAssumption

(* _join_exited keeps the types, takes from the list those that have exited, and
   nobody else. *)
LEMMA Joined ==
    ASSUME MasterAssumption, TypeOK, JoinExited
    PROVE  /\ processes' \in Seq(Ids) /\ IsInjective(processes') /\ Len(processes') <= Workers
           /\ worker' \in [Ids -> Alive \cup {"none", "exited", "killed"}]
           /\ code' \in [Ids -> 0..1]
           /\ exitcode' \in 0..1 /\ failed' \in BOOLEAN
           /\ failed' = (failed \/ exitcode' = 1)
           /\ \A w \in Listed' : w \in Listed /\ worker'[w] # "none"
           /\ \A w \in Ids : worker'[w] # "none" =>
                 worker'[w] = worker[w] /\ (w \in Listed => w \in Listed')
<1> DEFINE gone == {w \in Listed : worker[w] \notin Alive}
<1>1. PICK list \in Lists : Left(list, Listed \ gone) /\ processes' = list
  BY DEF JoinExited
<1>2. Listed \ gone \in SUBSET Listed
  OBVIOUS
<1>3. /\ processes' \in Seq(Ids) /\ IsInjective(processes') /\ Len(processes') <= Workers
      /\ Listed' = Listed \ gone
  BY <1>1, <1>2, LeftOf, MasterAssumption DEF Listed
<1>4. exitcode' \in 0..1 /\ (exitcode' # 0 <=> exitcode' = 1)
  BY DEF JoinExited
<1>5. failed' = (failed \/ exitcode' = 1) /\ failed' \in BOOLEAN
  BY <1>4 DEF JoinExited, TypeOK
<1>6. Listed \subseteq Ids
  BY DEF Listed, Range, TypeOK
<1>7. worker' = [w \in Ids |-> IF w \in gone THEN "none" ELSE worker[w]]
  BY DEF JoinExited
<1>8. code' \in [Ids -> 0..1]
  BY DEF JoinExited, TypeOK
<1>9. worker' \in [Ids -> Alive \cup {"none", "exited", "killed"}]
  BY <1>7 DEF TypeOK
<1>10. \A w \in Listed' : w \in Listed /\ worker'[w] # "none"
  BY <1>3, <1>6, <1>7 DEF TypeOK
<1>11. \A w \in Ids : worker'[w] # "none" =>
          worker'[w] = worker[w] /\ (w \in Listed => w \in Listed')
  BY <1>3, <1>7
<1>12. QED  BY <1>3, <1>4, <1>5, <1>8, <1>9, <1>10, <1>11
-----------------------------------------------------------------------------
(* A process is started, and is not listed yet. *)
LEMMA SpawnKeeps ==
    ASSUME MasterAssumption, IInv, Spawn
    PROVE  IInv'
<1> USE DEF IInv, Main
<1> DEFINE c == CHOOSE w \in Ids : worker[w] = "none"
<1> HIDE DEF c
<1>1. /\ joining = <<>> /\ at = "populating" /\ at' = "appending" /\ Len(processes) < Workers
      /\ UNCHANGED <<active, event, exitcode, installed, processes, joining, signals,
                     code, failed, erased>>
  BY DEF Spawn, history
<1>2. worker' = [worker EXCEPT ![c] = "starting"]
  BY DEF Spawn, c
<1>3. Listed' = Listed /\ Listed \subseteq Ids
  BY <1>1 DEF Listed, Range, TypeOK
<1>4. worker' \in [Ids -> Alive \cup {"none", "exited", "killed"}]
  BY <1>2 DEF TypeOK, Alive
<1>5. \A w \in Ids : worker'[w] = worker[w] \/ (w = c /\ worker'[w] = "starting")
  BY <1>2 DEF TypeOK
<1>6. TypeOK'
  <2>1. \A w \in Listed' : worker'[w] # "none"
    BY <1>3, <1>5 DEF TypeOK
  <2>2. QED  BY <1>1, <1>3, <1>4, <2>1 DEF TypeOK
<1>7. ListInv'
  BY <1>1, <1>3, <1>5 DEF ListInv
<1>8. RoomInv' /\ CodeInv' /\ NoneLeftBehind'
  BY <1>1 DEF RoomInv, CodeInv, NoneLeftBehind
<1>9. QED  BY <1>6, <1>7, <1>8

(* The process that has been started is listed. *)
LEMMA ListingKeeps ==
    ASSUME MasterAssumption, IInv, Listing
    PROVE  IInv'
<1> USE DEF IInv, Main
<1>1. /\ at = "appending" /\ at' = "populating"
      /\ UNCHANGED <<active, event, exitcode, installed, joining, signals, worker,
                     code, failed, erased>>
  BY DEF Listing, workerVars, history
<1>2. PICK v \in Ids \ Listed : worker[v] # "none" /\ processes' = Append(processes, v)
  BY DEF Listing
<1>3. /\ processes' \in Seq(Ids) /\ Len(processes) \in Nat
      /\ Len(processes') = Len(processes) + 1
      /\ DOMAIN processes = 1..Len(processes) /\ DOMAIN processes' = 1..(Len(processes) + 1)
      /\ processes'[Len(processes) + 1] = v
      /\ \A i \in 1..Len(processes) : processes'[i] = processes[i]
  BY <1>2 DEF TypeOK
<1>4. Listed' = Listed \cup {v}
  BY <1>3 DEF Listed, Range
<1>5. IsInjective(processes')
  <2>1. \A i \in 1..Len(processes) : processes[i] # v
    BY <1>2, <1>3 DEF Listed, Range
  <2>2. QED  BY <1>3, <2>1 DEF IsInjective, TypeOK
<1>6. TypeOK'
  <2>1. \A w \in Listed' : worker'[w] # "none"
    BY <1>1, <1>2, <1>4 DEF TypeOK
  <2>2. QED  BY <1>1, <1>3, <1>5, <2>1 DEF TypeOK
<1>7. RoomInv'
  BY <1>1, <1>3, MasterAssumption DEF RoomInv, ListInv
<1>8. ListInv' /\ CodeInv' /\ NoneLeftBehind'
  BY <1>1, <1>2, <1>4 DEF ListInv, CodeInv, NoneLeftBehind
<1>9. QED  BY <1>6, <1>7, <1>8

(* Those that have exited are reaped, the first time or on the way out. *)
LEMMA ReapKeeps ==
    ASSUME MasterAssumption, IInv, Reap \/ (Leave /\ exitcode = 0)
    PROVE  IInv'
<1> USE DEF IInv, Main
<1>1. /\ at \in {"reaping", "leaving"} /\ at' \in {"populating", "leaving", "terminating"}
      /\ active' \in BOOLEAN /\ event' \in BOOLEAN
      /\ UNCHANGED <<installed, joining, signals, erased>>
  BY DEF Reap, Leave, TypeOK
<1>2. JoinExited
  BY DEF Reap, Leave
<1>3. /\ processes' \in Seq(Ids) /\ IsInjective(processes') /\ Len(processes') <= Workers
      /\ worker' \in [Ids -> Alive \cup {"none", "exited", "killed"}]
      /\ code' \in [Ids -> 0..1]
      /\ exitcode' \in 0..1 /\ failed' \in BOOLEAN
      /\ \A w \in Listed' : w \in Listed /\ worker'[w] # "none"
  BY <1>2, Joined, MasterAssumption
<1>4. \A w \in Ids : worker'[w] # "none" =>
         worker'[w] = worker[w] /\ (w \in Listed => w \in Listed')
  BY <1>2, Joined, MasterAssumption
<1>5. failed' = (failed \/ exitcode' = 1)
  BY <1>2, Joined, MasterAssumption
<1>6. TypeOK'
  BY <1>1, <1>3 DEF TypeOK
<1>7. RoomInv' /\ ListInv' /\ NoneLeftBehind'
  BY <1>1, <1>3, <1>4 DEF RoomInv, ListInv, NoneLeftBehind
<1>8. CodeInv'
  <2>1. ~failed
    <3>1. CASE Reap
      BY <3>1 DEF Reap, CodeInv
    <3>2. CASE Leave /\ exitcode = 0
      BY <3>2 DEF CodeInv
    <3>3. QED  BY <3>1, <3>2
  <2>2. exitcode' = 1 => at' # "populating"
    <3>1. CASE Reap
      <4>1. active' => exitcode' = 0
        BY <3>1 DEF Reap
      <4>2. at' = IF active' THEN "populating" ELSE "leaving"
        BY <3>1 DEF Reap
      <4>3. exitcode' = 1 => ~active'
        BY <4>1
      <4>4. ~active' => at' = "leaving"
        BY <4>2
      <4>5. QED  BY <4>3, <4>4
    <3>2. CASE Leave /\ exitcode = 0
      BY <3>2 DEF Leave
    <3>3. QED  BY <3>1, <3>2
  <2>3. QED  BY <1>1, <1>5, <2>1, <2>2 DEF CodeInv
<1>9. QED  BY <1>6, <1>7, <1>8

(* The workers that are left are killed. *)
LEMMA TerminateKeeps ==
    ASSUME MasterAssumption, IInv, Terminate
    PROVE  IInv'
<1> USE DEF IInv, Main
<1>1. /\ at = "terminating" /\ at' = "over"
      /\ UNCHANGED <<active, event, exitcode, installed, processes, joining, signals,
                     code, failed, erased>>
  BY DEF Terminate, history
<1>2. worker' = [w \in Ids |->
                  IF w \in Listed /\ worker[w] \in Alive THEN "killed" ELSE worker[w]]
  BY DEF Terminate
<1>3. Listed' = Listed /\ Listed \subseteq Ids
  BY <1>1 DEF Listed, Range, TypeOK
<1>4. \A w \in Ids : worker'[w] \notin Alive
  BY <1>1, <1>2 DEF ListInv, TypeOK, Alive
<1>5. TypeOK'
  <2>1. worker' \in [Ids -> Alive \cup {"none", "exited", "killed"}]
    BY <1>2 DEF TypeOK
  <2>2. \A w \in Listed' : worker'[w] # "none"
    BY <1>2, <1>3 DEF TypeOK
  <2>3. QED  BY <1>1, <2>1, <2>2 DEF TypeOK
<1>6. RoomInv' /\ ListInv' /\ CodeInv' /\ NoneLeftBehind'
  BY <1>1, <1>2, <1>3, <1>4 DEF RoomInv, ListInv, CodeInv, NoneLeftBehind
<1>7. QED  BY <1>5, <1>6

(* A reload joins the next process, or is through. *)
LEMMA JoinKeeps ==
    ASSUME MasterAssumption, IInv, Join
    PROVE  IInv'
<1> USE DEF IInv
<1>1. /\ joining # <<>> /\ at # "killed"
      /\ UNCHANGED <<at, active, exitcode, installed, processes, signals, worker, code, failed>>
  BY DEF Join, workerVars
<1>2. /\ joining \in Seq(1..(Workers + 1)) /\ Len(joining) \in Nat \ {0}
      /\ Last(joining) \in 1..(Workers + 1)
  BY <1>1 DEF TypeOK, Last
<1>3. event' \in BOOLEAN /\ erased' \in BOOLEAN
  BY <1>1 DEF Join, TypeOK
<1>4. joining' \in Seq(1..(Workers + 1))
  <2>1. CASE Last(joining) > Len(processes)
    <3>1. joining' = SubSeq(joining, 1, Len(joining) - 1)
      BY <2>1 DEF Join, Front
    <3>2. QED  BY <1>2, <3>1
  <2>2. CASE ~(Last(joining) > Len(processes))
    <3>1. joining' = [joining EXCEPT ![Len(joining)] = Last(joining) + 1]
      BY <2>2 DEF Join
    <3>2. Last(joining) + 1 \in 1..(Workers + 1)
      BY <1>2, <2>2, MasterAssumption DEF RoomInv, TypeOK
    <3>3. QED  BY <1>2, <3>1, <3>2
  <2>3. QED  BY <2>1, <2>2
<1>5. Listed' = Listed
  BY <1>1 DEF Listed
<1>6. TypeOK'
  BY <1>1, <1>3, <1>4, <1>5 DEF TypeOK
<1>7. RoomInv' /\ ListInv' /\ CodeInv' /\ NoneLeftBehind'
  BY <1>1, <1>5 DEF RoomInv, ListInv, CodeInv, NoneLeftBehind
<1>8. QED  BY <1>6, <1>7

(* A signal, or a changed file: reload joins the first process. *)
LEMMA SignalKeeps ==
    ASSUME MasterAssumption, IInv, Shutdown \/ DefaultSignal \/ Sighup \/ FileUpdated
    PROVE  IInv'
<1> USE DEF IInv, Main, Reload, Signalled
<1>1. /\ at' \in {at, "killed", "reaping"} /\ (at' = "reaping" => at \in {"waiting", "reaping"})
      /\ at \notin {"over", "killed"}
      /\ UNCHANGED <<exitcode, installed, processes, worker, code, failed, erased>>
  BY DEF Shutdown, DefaultSignal, Sighup, FileUpdated, workerVars, history
<1>2. signals' \in 0..Signals
  BY MasterAssumption DEF Shutdown, DefaultSignal, Sighup, FileUpdated, TypeOK
<1>3. active' \in BOOLEAN /\ event' \in BOOLEAN
  BY DEF Shutdown, DefaultSignal, Sighup, FileUpdated, TypeOK
<1>4. joining' \in Seq(1..(Workers + 1))
  <2>1. joining' = joining \/ joining' = Append(joining, 1)
    BY DEF Shutdown, DefaultSignal, Sighup, FileUpdated
  <2>2. 1 \in 1..(Workers + 1) /\ joining \in Seq(1..(Workers + 1))
    BY MasterAssumption DEF TypeOK
  <2>3. Append(joining, 1) \in Seq(1..(Workers + 1))
    BY <2>2
  <2>4. QED  BY <2>1, <2>2, <2>3
<1>5. Listed' = Listed
  BY <1>1 DEF Listed
<1>6. TypeOK'
  BY <1>1, <1>2, <1>3, <1>4, <1>5 DEF TypeOK
<1>7. RoomInv' /\ ListInv' /\ CodeInv' /\ NoneLeftBehind'
  BY <1>1, <1>5 DEF RoomInv, ListInv, CodeInv, NoneLeftBehind
<1>8. QED  BY <1>6, <1>7

(* A worker moves on by itself, between two states that are not "none". *)
LEMMA WorkerKeeps ==
    ASSUME MasterAssumption, IInv, NEW w \in Ids,
           Loaded(w) \/ Told(w) \/ Recycled(w) \/ Exits(w) \/ Fails(w)
    PROVE  IInv'
<1> USE DEF IInv, Moves, Alive
<1>1. UNCHANGED <<at, active, event, exitcode, installed, processes, joining, signals,
                  failed, erased>>
  BY DEF Loaded, Told, Recycled, Exits, Fails, masterVars, history
<1>2. /\ worker[w] \in Alive /\ worker' = [worker EXCEPT ![w] = worker'[w]]
      /\ worker'[w] \in {"running", "draining", "exited"}
  BY DEF Loaded, Told, Recycled, Exits, Fails, TypeOK
<1>3. code' \in [Ids -> 0..1]
  BY DEF Loaded, Told, Recycled, Exits, Fails, TypeOK
<1>4. Listed' = Listed /\ Listed \subseteq Ids
  BY <1>1 DEF Listed, Range, TypeOK
<1>5. worker' \in [Ids -> Alive \cup {"none", "exited", "killed"}]
  BY <1>2 DEF TypeOK
<1>6. \A v \in Ids : worker'[v] # worker[v] => v = w
  BY <1>2 DEF TypeOK
<1>7. TypeOK'
  <2>1. \A v \in Listed' : worker'[v] # "none"
    BY <1>2, <1>4, <1>6 DEF TypeOK
  <2>2. QED  BY <1>1, <1>3, <1>5, <2>1 DEF TypeOK
<1>8. ListInv' /\ NoneLeftBehind'
  BY <1>1, <1>2, <1>4, <1>6 DEF ListInv, NoneLeftBehind
<1>9. RoomInv' /\ CodeInv'
  BY <1>1 DEF RoomInv, CodeInv
<1>10. QED  BY <1>7, <1>8, <1>9

(* Steps that move run on, and none. *)
LEMMA OnwardKeeps ==
    ASSUME MasterAssumption, IInv,
           SpawnRefused \/ Install \/ Wakes \/ (Leave /\ exitcode # 0) \/ UNCHANGED vars
    PROVE  IInv'
<1> USE DEF IInv, Main
<1>1. /\ UNCHANGED <<active, event, processes, joining, signals, worker, code, failed, erased>>
      /\ installed' \in BOOLEAN /\ exitcode' \in {exitcode, 1}
      /\ \/ at' = at
         \/ at = "populating" /\ at' \in {"terminating", "waiting"}
         \/ at = "waiting" /\ at' = "reaping"
         \/ at = "leaving" /\ at' = "terminating" /\ exitcode' = exitcode
  BY DEF SpawnRefused, Install, Wakes, Leave, vars, masterVars, workerVars, history, TypeOK
<1>2. Listed' = Listed
  BY <1>1 DEF Listed
<1>3. TypeOK'
  BY <1>1, <1>2 DEF TypeOK
<1>4. RoomInv' /\ ListInv' /\ CodeInv' /\ NoneLeftBehind'
  BY <1>1, <1>2 DEF RoomInv, ListInv, CodeInv, NoneLeftBehind
<1>5. QED  BY <1>3, <1>4
-----------------------------------------------------------------------------
(* The invariant holds of every master. *)
THEOREM Invariant == Spec => []IInv
<1>1. Init => IInv
  <2> SUFFICES ASSUME Init PROVE IInv
    OBVIOUS
  <2>1. Listed = {} /\ Len(processes) = 0 /\ IsInjective(processes)
    BY DEF Init, Listed, Range, IsInjective
  <2>2. TypeOK
    <3>1. processes \in Seq(Ids) /\ joining \in Seq(1..(Workers + 1))
      BY DEF Init
    <3>2. /\ worker \in [Ids -> Alive \cup {"none", "exited", "killed"}]
          /\ code \in [Ids -> 0..1]
      BY DEF Init
    <3>3. {active, event, installed, failed, erased} \subseteq BOOLEAN
      BY DEF Init
    <3>4. signals \in 0..Signals
      BY MasterAssumption DEF Init
    <3>5. exitcode \in 0..1 /\ at = "populating"
      BY DEF Init
    <3>6. QED  BY <2>1, <3>1, <3>2, <3>3, <3>4, <3>5 DEF TypeOK
  <2>3. QED  BY <2>1, <2>2, MasterAssumption
             DEF Init, IInv, RoomInv, ListInv, CodeInv, NoneLeftBehind
<1>2. IInv /\ [Next]_vars => IInv'
  BY MasterAssumption, SpawnKeeps, ListingKeeps, ReapKeeps, TerminateKeeps, JoinKeeps,
     SignalKeeps, WorkerKeeps, OnwardKeeps
  DEF Next, Run
<1>3. QED  BY <1>1, <1>2, PTL DEF Spec

(* The list of the workers, the reloads under way and the processes keep their
   types: no worker is listed twice, and a listed one has not been reaped. *)
THEOREM TypeCorrect == Spec => []TypeOK
<1>1. IInv => TypeOK
  BY DEF IInv
<1>2. QED  BY <1>1, Invariant, PTL

(* A worker that failed and was reaped shows in the exit code of run. *)
THEOREM ExitCodeCorrect == Spec => []ExitCodeKept
<1>1. IInv => ExitCodeKept
  BY DEF IInv, CodeInv, ExitCodeKept
<1>2. QED  BY <1>1, Invariant, PTL

(* Once run has returned or raised, no worker of it is left. *)
THEOREM NoneLeft == Spec => []NoneLeftBehind
<1>1. IInv => NoneLeftBehind
  BY DEF IInv
<1>2. QED  BY <1>1, Invariant, PTL
=============================================================================
