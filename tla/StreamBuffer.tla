---------------------------- MODULE StreamBuffer ----------------------------
(***************************************************************************)
(* protocol/h2.py StreamBuffer: the flow-controlled buffer between the     *)
(* tasks that write one HTTP/2 stream and the task that sends it.  Bytes   *)
(* are abstracted to their number.  Every method up to its first real      *)
(* suspension is one operator: EventWrapper.set and .clear are coroutines  *)
(* that never suspend, so only wait() splits a method.                     *)
(***************************************************************************)
EXTENDS Naturals, EventWrapper

CONSTANT High           \* BUFFER_HIGH_WATER

ASSUME HighAssumption == High \in Nat \ {0}

BelowLow(n) == 2 * n < High      \* len < BUFFER_LOW_WATER = High / 2

Buffer(Tasks) == [len : Nat, complete : BOOLEAN,
                  empty : Event(Tasks), paused : Event(Tasks)]

NewBuffer == [len |-> 0, complete |-> FALSE, empty |-> NewEvent, paused |-> NewEvent]

(* push() up to its return or to its wait on _paused; the caller has tested complete. *)
PushBuffer(b, t, n) ==
    LET grown == [b EXCEPT !.len = @ + n, !.empty = ClearEvent(@)]
    IN  IF grown.len >= High THEN [grown EXCEPT !.paused = WaitEvent(@, t)] ELSE grown

(* push() from the end of its wait: _paused.clear(). *)
EndPush(b, t) == [b EXCEPT !.paused = ClearEvent(ResumeEvent(@, t))]

DrainBuffer(b, t) == [b EXCEPT !.empty = WaitEvent(@, t)]

EndDrain(b, t) == [b EXCEPT !.empty = ResumeEvent(@, t)]

(* Mutant of CompleteBuffer: the flag is not set. *)
CompleteNothing(b) == b

CompleteBuffer(b) == [b EXCEPT !.complete = TRUE]

(* Mutant of Rest: the length to pop is not cut to what there is. *)
RestUnclamped(b, n) == b.len - n

(* What a pop of at most n leaves. *)
Rest(b, n) == IF n < b.len THEN b.len - n ELSE 0

(* Mutant of PausedAfterPop: every pop releases. *)
ReleaseAlways(b, left) == SetEvent(b.paused)

(* The release of the writer depends on what is left, not on what was taken. *)
PausedAfterPop(b, left) == IF BelowLow(left) THEN SetEvent(b.paused) ELSE b.paused

EmptyAfterPop(b, left) == IF left = 0 THEN SetEvent(b.empty) ELSE b.empty

PopBuffer(b, n) ==
    [b EXCEPT !.len = Rest(b, n),
              !.paused = PausedAfterPop(b, Rest(b, n)),
              !.empty  = EmptyAfterPop(b, Rest(b, n))]

CloseBuffer(b) ==
    [b EXCEPT !.len = 0, !.complete = TRUE, !.empty = SetEvent(@), !.paused = SetEvent(@)]

(* Mutant of Finished: what is left in the buffer is overlooked. *)
FinishedEarly(b) == b.complete

(* The complete property: nothing left and nothing to come. *)
Finished(b) == b.complete /\ b.len = 0
=============================================================================
