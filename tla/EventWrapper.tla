---------------------------- MODULE EventWrapper ----------------------------
(***************************************************************************)
(* worker_context.EventWrapper: an anyio.Event with a clear() operation.   *)
(* clear() REPLACES the anyio.Event, so a task that is already waiting     *)
(* keeps waiting on the old object, which nobody can set any more.  An     *)
(* event is a record                                                       *)
(*   set     - the current anyio.Event is set                              *)
(*   waiting - tasks suspended on the current anyio.Event                  *)
(*   woken   - tasks whose anyio.Event was set, not yet resumed            *)
(*   lost    - tasks suspended on an anyio.Event replaced while unset      *)
(***************************************************************************)

Event(Tasks) == [set : BOOLEAN, waiting : SUBSET Tasks,
                 woken : SUBSET Tasks, lost : SUBSET Tasks]

NewEvent == [set |-> FALSE, waiting |-> {}, woken |-> {}, lost |-> {}]

(* Mutant of ClearEvent: a clear() that keeps the anyio.Event set. *)
ClearNothing(e) == e

ClearEvent(e) == [e EXCEPT !.set = FALSE, !.waiting = {}, !.lost = @ \cup e.waiting]

SetEvent(e) == [e EXCEPT !.set = TRUE, !.waiting = {}, !.woken = @ \cup e.waiting]

(* Event.wait() on a set event still yields once: the task is woken, not running. *)
WaitEvent(e, t) == IF e.set THEN [e EXCEPT !.woken = @ \cup {t}]
                            ELSE [e EXCEPT !.waiting = @ \cup {t}]

(* wait() returns to the caller t, which was in e.woken. *)
ResumeEvent(e, t) == [e EXCEPT !.woken = @ \ {t}]
=============================================================================
