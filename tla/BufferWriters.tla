---------------------------- MODULE BufferWriters ----------------------------
(***************************************************************************)
(* One StreamBuffer with the tasks that use it: writers (an application    *)
(* task; on a WebSocket also the ping task and the reader answering a      *)
(* ping), and the send task that pops what the peer's window allows, or    *)
(* closes the buffer.  A writer is the body of H2Protocol.stream_send for  *)
(* Body/Data, EndBody/EndData and Trailers.                                *)
(***************************************************************************)
EXTENDS StreamBuffer, FiniteSets

CONSTANTS Writers,      \* tasks that call stream_send for this stream
          MaxPush,      \* longest data of one Body event
          MaxPop        \* largest chunk_size: min(window, max frame size)

ASSUME WritersAssumption == IsFiniteSet(Writers) /\ Writers # {}
ASSUME SizesAssumption == MaxPush \in Nat \ {0} /\ MaxPop \in Nat \ {0}

VARIABLES buf,          \* the StreamBuffer
          pc            \* where each writer is

vars == <<buf, pc>>

(* ready: between events; pushing: in push's wait; draining: in drain.  The
   stream of an HTTP response has one writer and that of a WebSocket several:
   an absent task does not write this stream. *)
Places == {"absent", "ready", "pushing", "draining"}

Present == {w \in Writers : pc[w] # "absent"}

(* The state is a stream's buffer and the place of each stream_send call. *)
TypeOK == /\ buf \in Buffer(Writers)
          /\ pc \in [Writers -> Places]

Init == /\ buf = NewBuffer
        /\ \E ws \in (SUBSET Writers) \ {{}} :
               pc = [w \in Writers |-> IF w \in ws THEN "ready" ELSE "absent"]
-----------------------------------------------------------------------------
(* Mutant of Push: data is taken after set_complete. *)
PushAlways(w, n) ==
    /\ pc[w] = "ready"
    /\ buf' = PushBuffer(buf, w, n)
    /\ pc' = [pc EXCEPT ![w] = IF buf.len + n >= High THEN "pushing" ELSE "ready"]

(* stream_send(Body).  A complete buffer raises BufferCompleteError, which
   stream_send swallows: nothing changes. *)
Push(w, n) ==
    /\ pc[w] = "ready"
    /\ ~buf.complete
    /\ buf' = PushBuffer(buf, w, n)
    /\ pc' = [pc EXCEPT ![w] = IF buf.len + n >= High THEN "pushing" ELSE "ready"]

PushReturns(w) ==
    /\ pc[w] = "pushing"
    /\ w \in buf.paused.woken
    /\ buf' = EndPush(buf, w)
    /\ pc' = [pc EXCEPT ![w] = "ready"]

(* stream_send(EndBody): set_complete, then drain. *)
EndBody(w) ==
    /\ pc[w] = "ready"
    /\ buf' = DrainBuffer(CompleteBuffer(buf), w)
    /\ pc' = [pc EXCEPT ![w] = "draining"]

(* stream_send(Trailers): drain without completing.  Only the sole writer of
   an HTTP response sends any. *)
Trailers(w) ==
    /\ pc[w] = "ready"
    /\ Present = {w}
    /\ buf' = DrainBuffer(buf, w)
    /\ pc' = [pc EXCEPT ![w] = "draining"]

DrainReturns(w) ==
    /\ pc[w] = "draining"
    /\ w \in buf.empty.woken
    /\ buf' = EndDrain(buf, w)
    /\ pc' = [pc EXCEPT ![w] = "ready"]

(* _send_data: n = 0 is a pop with the peer's window exhausted. *)
Pop(n) == /\ buf' = PopBuffer(buf, n)
          /\ UNCHANGED pc

(* _discard_send_state: the stream was reset or sending on it failed. *)
Close == /\ buf' = CloseBuffer(buf)
         /\ UNCHANGED pc

Next == \/ \E w \in Writers : \/ \E n \in 0..MaxPush : Push(w, n)
                              \/ PushReturns(w)
                              \/ EndBody(w)
                              \/ Trailers(w)
                              \/ DrainReturns(w)
        \/ \E n \in 0..MaxPop : Pop(n)
        \/ Close

Spec == Init /\ [][Next]_vars
-----------------------------------------------------------------------------
(* Back-pressure: however the writers and the send task interleave, a stream
   holds less than the high-water mark plus two pushes per writer.  The second
   push is the price of a _paused event left set by a pop with nobody waiting. *)
BackPressure == buf.len <= High - 1 + 2 * Cardinality(Writers) * MaxPush

(* Although clear() replaces the anyio.Event under whoever waits on it
   (worker_context.py:70), push's clear() of _is_empty never does so to a task
   in drain: whoever drains has completed the buffer, so that a push raises
   before it clears, or is alone.  The clear() of _paused may strand a writer,
   when one resumed by the same set() has pushed again and waits first, but
   never the last: somebody still reacts to the next pop, and the one writer
   of an HTTP response is never stranded. *)
NeverStranded == buf.empty.lost = {} /\ buf.paused.lost # Present

(* drain() returns only when everything pushed has been popped (or thrown
   away by close): trailers and END_STREAM never overtake the body. *)
DrainedMeansEmpty ==
    [][\A w \in Writers : pc[w] = "draining" /\ pc'[w] = "ready" => buf.len = 0]_vars
=============================================================================
