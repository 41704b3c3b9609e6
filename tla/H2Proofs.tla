------------------------------- MODULE H2Proofs -------------------------------
(***************************************************************************)
(* Proofs about H2Connection for every finite set of streams and every     *)
(* value of its other parameters.                                          *)
(***************************************************************************)
EXTENDS H2Connection, FiniteSetTheorems, TLAPS

(* Where a writer stands before its response, and while it makes one. *)
Unanswered == {"start", "promising", "pushrefusing"}
Answering  == {"head", "errhead", "respond", "pushing", "trailers", "tail", "draining"}
Finishing  == {"draining", "closing", "bye", "gone"}
Idling     == {"none", "bye", "gone"}

(* A stream nobody has asked for has no writer; one without a writer has left
   nothing on the connection but, it may be, a place in the tree. *)
LifeInv == \A s \in Streams :
    /\ lib[s] = "idle" => writer[s] = "none"
    /\ writer[s] = "none" =>
          /\ lib[s] \in {"idle", "open", "reset"}
          /\ s \notin streams /\ s \notin held /\ s \notin active /\ sender.on # s
          /\ buf[s].len = 0 /\ ~buf[s].complete /\ pushed[s] = 0 /\ sent[s] = 0

(* A writer that is pushing has promised one stream, and no other has. *)
PromiseInv == \A s \in Streams :
    /\ promise[s] # NoStream <=> writer[s] \in {"promising", "pushrefusing"}
    /\ promise[s] # NoStream => lib[promise[s]] # "idle"
    /\ writer[s] = "promising" => writer[promise[s]] = "none"
    /\ \A t \in Streams : promise[s] # NoStream /\ promise[t] = promise[s] => t = s

(* How far the library has followed the writer. *)
LibInv == \A s \in Streams :
    /\ writer[s] \in Unanswered => lib[s] \in {"open", "reset"}
    /\ writer[s] \in Answering => conn = "closed" \/ lib[s] \in {"headers", "ended", "reset"}
    /\ lib[s] = "ended" => writer[s] \in {"tail"} \cup Finishing

(* What was pushed is on the wire or in the buffer as long as there is one, and
   on an open connection a stream that is not over has one. *)
HeldInv ==
    /\ \A s \in held :
          /\ sent[s] + buf[s].len = pushed[s]
          /\ buf[s].complete => writer[s] \in Finishing
          /\ buf[s].complete \/ buf[s].len > 0 =>
                conn = "closed" \/ lib[s] \in {"headers", "ended", "reset"}
    /\ \A s \in Streams :
          /\ sent[s] <= pushed[s]
          /\ s \notin held /\ lib[s] \in {"open", "headers"} => conn = "closed" \/ writer[s] = "none"

(* Nobody but its writer, at w, waits for the buffer b of s to empty, and when it
   is told so the buffer is empty. *)
EmptyOf(s, b, w) ==
    /\ b.empty.set \/ s \in b.empty.woken => b.len = 0
    /\ s \in b.empty.waiting \cup b.empty.woken => w \in {"trailers", "draining"}
    /\ s \notin b.empty.waiting \cap b.empty.woken

EmptyInv == \A s \in Streams : EmptyOf(s, buf[s], writer[s])

(* The send task, while it flushes for a stream. *)
SenderInv ==
    /\ sender.at \in {"sent", "ended"} <=> sender.on # NoStream
    /\ sender.at = "sent" /\ sender.on \in held => sender.on \in active
    /\ sender.at = "ended" => lib[sender.on] \in {"ended", "reset"}

(* The reader, before its first request and while it refuses one. *)
ReaderInv ==
    /\ reader.at = "initiating" =>
          ~idle /\ sender.at = "unborn" /\ \A s \in Streams : writer[s] = "none" /\ lib[s] = "idle"
    /\ reader.at = "refusing" =>
          /\ reader.on \in Refused /\ lib[reader.on] # "idle"
          /\ \A s \in Streams : promise[s] # reader.on

(* A stream is in self.streams from its request to the end of its writer, unless
   it has been reset or the connection closed. *)
OpenInv == \A s \in Streams :
    /\ s \in streams => writer[s] \notin Idling
    /\ writer[s] \notin Idling /\ s \notin streams => closed \/ lib[s] = "reset"

(* A connection on its way to say that it is idle is. *)
ByeInv == (\E s \in Streams : writer[s] = "bye") =>
              conn = "closed" /\ (closed \/ streams = {} \/ Orphaned)

(* The timer is armed only without streams, and is armed once all is answered. *)
IdleInv ==
    /\ idle /\ reader.at # "refusing" => closed \/ streams = {} \/ Orphaned
    /\ requests > 0 /\ ~idle => closed \/ \E s \in Streams :
          \/ writer[s] \notin {"none", "gone"} \/ lib[s] = "reset"
          \/ s \in Refused /\ lib[s] # "idle"

(* The requests that are counted, or will never be: not those that are still
   being refused or promised. *)
Counted == {s \in Streams : /\ lib[s] # "idle"
                            /\ \A t \in Streams : promise[t] # s
                            /\ ~(reader.at = "refusing" /\ reader.on = s)}

CountInv == requests <= Cardinality(Counted)

IInv == /\ TypeOK /\ LifeInv /\ PromiseInv /\ LibInv /\ HeldInv /\ EmptyInv /\ SenderInv
        /\ ReaderInv /\ OpenInv /\ ByeInv /\ IdleInv /\ NeverLeftBlocked /\ CountInv
        /\ SendStateConsistent /\ EndStreamAfterBody

-----------------------------------------------------------------------------
(* Every event operator returns an event. *)
LEMMA EventOperators ==
    ASSUME NEW T, NEW e \in Event(T), NEW t \in T
    PROVE  /\ NewEvent \in Event(T)
           /\ ClearEvent(e) \in Event(T)
           /\ SetEvent(e) \in Event(T)
           /\ WaitEvent(e, t) \in Event(T)
           /\ ResumeEvent(e, t) \in Event(T)
BY DEF Event, NewEvent, ClearEvent, SetEvent, WaitEvent, ResumeEvent

(* What a pop leaves is a length, and no longer than what there was. *)
LEMMA RestBounds ==
    ASSUME NEW b, b.len \in Nat, NEW n \in Nat
    PROVE  Rest(b, n) \in 0 .. b.len
BY DEF Rest

(* Every method of StreamBuffer returns a buffer to a buffer. *)
LEMMA BufferOperators ==
    ASSUME NEW T, NEW b \in Buffer(T), NEW t \in T
    PROVE  /\ NewBuffer \in Buffer(T)
           /\ \A n \in Nat : PushBuffer(b, t, n) \in Buffer(T)
           /\ EndPush(b, t) \in Buffer(T)
           /\ DrainBuffer(b, t) \in Buffer(T)
           /\ EndDrain(b, t) \in Buffer(T)
           /\ CompleteBuffer(b) \in Buffer(T)
           /\ \A n \in Nat : PopBuffer(b, n) \in Buffer(T)
           /\ CloseBuffer(b) \in Buffer(T)
<1>1. b.empty \in Event(T) /\ b.paused \in Event(T) /\ b.len \in Nat
  BY DEF Buffer
<1>2. NewBuffer \in Buffer(T)
  BY <1>1, EventOperators DEF NewBuffer, Buffer
<1>3. ASSUME NEW n \in Nat PROVE PushBuffer(b, t, n) \in Buffer(T)
  <2>1. /\ ClearEvent(b.empty) \in Event(T)
        /\ WaitEvent(b.paused, t) \in Event(T)
    BY <1>1, EventOperators
  <2> DEFINE grown == [b EXCEPT !.len = @ + n, !.empty = ClearEvent(@)]
  <2>5. b.len + n \in Nat
    BY <1>1
  <2>2. grown \in Buffer(T) /\ grown.paused = b.paused
    BY <2>5, <2>1 DEF Buffer
  <2>3. [grown EXCEPT !.paused = WaitEvent(@, t)] \in Buffer(T)
    BY <2>1, <2>2 DEF Buffer
  <2>4. QED  BY <2>2, <2>3 DEF PushBuffer
<1>4. EndPush(b, t) \in Buffer(T)
  <2>1. ClearEvent(ResumeEvent(b.paused, t)) \in Event(T)
    BY <1>1, EventOperators
  <2>2. QED  BY <2>1 DEF EndPush, Buffer
<1>5. DrainBuffer(b, t) \in Buffer(T) /\ EndDrain(b, t) \in Buffer(T)
  <2>1. WaitEvent(b.empty, t) \in Event(T) /\ ResumeEvent(b.empty, t) \in Event(T)
    BY <1>1, EventOperators
  <2>2. QED  BY <2>1 DEF DrainBuffer, EndDrain, Buffer
<1>6. CompleteBuffer(b) \in Buffer(T)
  BY DEF CompleteBuffer, Buffer
<1>7. ASSUME NEW n \in Nat PROVE PopBuffer(b, n) \in Buffer(T)
  <2>1. Rest(b, n) \in Nat
    BY <1>1, RestBounds
  <2>2. PausedAfterPop(b, Rest(b, n)) \in Event(T)
    BY <1>1, EventOperators DEF PausedAfterPop
  <2>3. EmptyAfterPop(b, Rest(b, n)) \in Event(T)
    BY <1>1, EventOperators DEF EmptyAfterPop
  <2>4. QED  BY <2>1, <2>2, <2>3 DEF PopBuffer, Buffer
<1>8. CloseBuffer(b) \in Buffer(T)
  <2>1. SetEvent(b.empty) \in Event(T) /\ SetEvent(b.paused) \in Event(T)
    BY <1>1, EventOperators
  <2>2. QED  BY <2>1 DEF CloseBuffer, Buffer
<1>9. QED  BY <1>2, <1>3, <1>4, <1>5, <1>6, <1>7, <1>8

(* What each method does to the content. *)
LEMMA BufferLengths ==
    ASSUME NEW T, NEW b \in Buffer(T), NEW t \in T
    PROVE  /\ NewBuffer.len = 0
           /\ \A n \in Nat : PushBuffer(b, t, n).len = b.len + n
           /\ EndPush(b, t).len = b.len
           /\ DrainBuffer(b, t).len = b.len
           /\ EndDrain(b, t).len = b.len
           /\ CompleteBuffer(b).len = b.len
           /\ \A n \in Nat : PopBuffer(b, n).len = Rest(b, n)
           /\ CloseBuffer(b).len = 0
<1>1. NewBuffer.len = 0
  BY DEF NewBuffer
<1>2. ASSUME NEW n \in Nat
      PROVE  PushBuffer(b, t, n).len = b.len + n
  <2> DEFINE grown == [b EXCEPT !.len = @ + n, !.empty = ClearEvent(@)]
  <2>1. /\ grown.len = b.len + n /\ grown.complete = b.complete
        /\ grown.empty = ClearEvent(b.empty)
        /\ DOMAIN grown = {"len", "complete", "empty", "paused"}
    BY DEF Buffer
  <2>2. PushBuffer(b, t, n) = grown
        \/ PushBuffer(b, t, n) = [grown EXCEPT !.paused = WaitEvent(@, t)]
    BY DEF PushBuffer
  <2> HIDE DEF grown
  <2>3. QED  BY <2>1, <2>2
<1>3. /\ EndPush(b, t).len = b.len
      /\ DrainBuffer(b, t).len = b.len
      /\ EndDrain(b, t).len = b.len
      /\ CompleteBuffer(b).len = b.len
  BY DEF EndPush, DrainBuffer, EndDrain, CompleteBuffer, Buffer
<1>4. ASSUME NEW n \in Nat
      PROVE  PopBuffer(b, n).len = Rest(b, n)
  BY DEF PopBuffer, Buffer
<1>5. CloseBuffer(b).len = 0
  BY DEF CloseBuffer, Buffer
<1>6. QED  BY <1>1, <1>2, <1>3, <1>4, <1>5

(* ... and to complete. *)
LEMMA BufferCompleteness ==
    ASSUME NEW T, NEW b \in Buffer(T), NEW t \in T
    PROVE  /\ ~NewBuffer.complete
           /\ \A n \in Nat : PushBuffer(b, t, n).complete = b.complete
           /\ EndPush(b, t).complete = b.complete
           /\ DrainBuffer(b, t).complete = b.complete
           /\ EndDrain(b, t).complete = b.complete
           /\ CompleteBuffer(b).complete
           /\ \A n \in Nat : PopBuffer(b, n).complete = b.complete
           /\ CloseBuffer(b).complete
<1>1. ~NewBuffer.complete
  BY DEF NewBuffer
<1>2. ASSUME NEW n \in Nat
      PROVE  PushBuffer(b, t, n).complete = b.complete
  <2> DEFINE grown == [b EXCEPT !.len = @ + n, !.empty = ClearEvent(@)]
  <2>1. /\ grown.len = b.len + n /\ grown.complete = b.complete
        /\ grown.empty = ClearEvent(b.empty)
        /\ DOMAIN grown = {"len", "complete", "empty", "paused"}
    BY DEF Buffer
  <2>2. PushBuffer(b, t, n) = grown
        \/ PushBuffer(b, t, n) = [grown EXCEPT !.paused = WaitEvent(@, t)]
    BY DEF PushBuffer
  <2> HIDE DEF grown
  <2>3. QED  BY <2>1, <2>2
<1>3. /\ EndPush(b, t).complete = b.complete
      /\ DrainBuffer(b, t).complete = b.complete
      /\ EndDrain(b, t).complete = b.complete
      /\ CompleteBuffer(b).complete
  BY DEF EndPush, DrainBuffer, EndDrain, CompleteBuffer, Buffer
<1>4. ASSUME NEW n \in Nat
      PROVE  PopBuffer(b, n).complete = b.complete
  BY DEF PopBuffer, Buffer
<1>5. CloseBuffer(b).complete
  BY DEF CloseBuffer, Buffer
<1>6. QED  BY <1>1, <1>2, <1>3, <1>4, <1>5

(* ... and to _is_empty. *)
LEMMA BufferEmptiness ==
    ASSUME NEW T, NEW b \in Buffer(T), NEW t \in T
    PROVE  /\ NewBuffer.empty = NewEvent
           /\ \A n \in Nat : PushBuffer(b, t, n).empty = ClearEvent(b.empty)
           /\ EndPush(b, t).empty = b.empty
           /\ DrainBuffer(b, t).empty = WaitEvent(b.empty, t)
           /\ EndDrain(b, t).empty = ResumeEvent(b.empty, t)
           /\ CompleteBuffer(b).empty = b.empty
           /\ \A n \in Nat : PopBuffer(b, n).empty = EmptyAfterPop(b, Rest(b, n))
           /\ CloseBuffer(b).empty = SetEvent(b.empty)
<1>1. NewBuffer.empty = NewEvent
  BY DEF NewBuffer
<1>2. ASSUME NEW n \in Nat
      PROVE  PushBuffer(b, t, n).empty = ClearEvent(b.empty)
  <2> DEFINE grown == [b EXCEPT !.len = @ + n, !.empty = ClearEvent(@)]
  <2>1. /\ grown.len = b.len + n /\ grown.complete = b.complete
        /\ grown.empty = ClearEvent(b.empty)
        /\ DOMAIN grown = {"len", "complete", "empty", "paused"}
    BY DEF Buffer
  <2>2. PushBuffer(b, t, n) = grown
        \/ PushBuffer(b, t, n) = [grown EXCEPT !.paused = WaitEvent(@, t)]
    BY DEF PushBuffer
  <2> HIDE DEF grown
  <2>3. QED  BY <2>1, <2>2
<1>3. /\ EndPush(b, t).empty = b.empty
      /\ DrainBuffer(b, t).empty = WaitEvent(b.empty, t)
      /\ EndDrain(b, t).empty = ResumeEvent(b.empty, t)
      /\ CompleteBuffer(b).empty = b.empty
  BY DEF EndPush, DrainBuffer, EndDrain, CompleteBuffer, Buffer
<1>4. ASSUME NEW n \in Nat
      PROVE  PopBuffer(b, n).empty = EmptyAfterPop(b, Rest(b, n))
  BY DEF PopBuffer, Buffer
<1>5. CloseBuffer(b).empty = SetEvent(b.empty)
  BY DEF CloseBuffer, Buffer
<1>6. QED  BY <1>1, <1>2, <1>3, <1>4, <1>5

(* The buffer of a stream before a step, and what its methods make of it. *)
LEMMA BufferOf ==
    ASSUME TypeOK, NEW s \in Streams
    PROVE  /\ buf[s] \in Buffer(Streams) /\ buf[s].len \in Nat /\ buf[s].complete \in BOOLEAN
           /\ NewBuffer \in Buffer(Streams)
           /\ PushBuffer(buf[s], s, 1) \in Buffer(Streams)
           /\ EndPush(buf[s], s) \in Buffer(Streams)
           /\ DrainBuffer(buf[s], s) \in Buffer(Streams)
           /\ EndDrain(buf[s], s) \in Buffer(Streams)
           /\ CompleteBuffer(buf[s]) \in Buffer(Streams)
           /\ DrainBuffer(CompleteBuffer(buf[s]), s) \in Buffer(Streams)
           /\ CloseBuffer(buf[s]) \in Buffer(Streams)
           /\ NewBuffer.len = 0 /\ NewBuffer.complete = FALSE
           /\ PushBuffer(buf[s], s, 1).len = buf[s].len + 1
           /\ PushBuffer(buf[s], s, 1).complete = buf[s].complete
           /\ EndPush(buf[s], s).len = buf[s].len
           /\ EndPush(buf[s], s).complete = buf[s].complete
           /\ DrainBuffer(buf[s], s).len = buf[s].len
           /\ DrainBuffer(buf[s], s).complete = buf[s].complete
           /\ EndDrain(buf[s], s).len = buf[s].len
           /\ EndDrain(buf[s], s).complete = buf[s].complete
           /\ DrainBuffer(CompleteBuffer(buf[s]), s).len = buf[s].len
           /\ DrainBuffer(CompleteBuffer(buf[s]), s).complete = TRUE
           /\ CloseBuffer(buf[s]).len = 0
           /\ CloseBuffer(buf[s]).complete = TRUE
<1>1. buf[s] \in Buffer(Streams)
  BY DEF TypeOK
<1>2. CompleteBuffer(buf[s]) \in Buffer(Streams) /\ 1 \in Nat
  BY <1>1, BufferOperators
<1>3. DrainBuffer(CompleteBuffer(buf[s]), s) \in Buffer(Streams)
  BY <1>2, BufferOperators
<1>4. /\ DrainBuffer(CompleteBuffer(buf[s]), s).len = buf[s].len
      /\ DrainBuffer(CompleteBuffer(buf[s]), s).complete = TRUE
  BY <1>1, <1>2, BufferLengths, BufferCompleteness, BufferEmptiness
<1>5. buf[s].len \in Nat /\ buf[s].complete \in BOOLEAN
  BY <1>1 DEF Buffer
<1>6. PushBuffer(buf[s], s, 1) \in Buffer(Streams)
  BY <1>1, <1>2, BufferOperators
<1>7. /\ PushBuffer(buf[s], s, 1).len = buf[s].len + 1
      /\ PushBuffer(buf[s], s, 1).complete = buf[s].complete
  BY <1>1, <1>2, BufferLengths, BufferCompleteness, BufferEmptiness
<1>8. QED  BY <1>1, <1>3, <1>4, <1>5, <1>6, <1>7, BufferOperators, BufferLengths,
              BufferCompleteness, BufferEmptiness

(* What a pop of at most one chunk leaves. *)
LEMMA PopOf ==
    ASSUME TypeOK, NEW s \in Streams, NEW n \in {0, 1}
    PROVE  /\ PopBuffer(buf[s], n) \in Buffer(Streams)
           /\ CloseBuffer(PopBuffer(buf[s], n)) \in Buffer(Streams)
           /\ PopBuffer(buf[s], n).len = (IF buf[s].len = 0 THEN 0 ELSE buf[s].len - n)
           /\ PopBuffer(buf[s], n).complete = buf[s].complete
           /\ CloseBuffer(PopBuffer(buf[s], n)).len = 0
           /\ CloseBuffer(PopBuffer(buf[s], n)).complete = TRUE
<1>1. buf[s] \in Buffer(Streams) /\ buf[s].len \in Nat
  BY DEF TypeOK, Buffer
<1>7. n \in Nat
  OBVIOUS
<1>2. PopBuffer(buf[s], n) \in Buffer(Streams)
  BY <1>1, <1>7, BufferOperators
<1>3. /\ PopBuffer(buf[s], n).len = Rest(buf[s], n)
      /\ PopBuffer(buf[s], n).complete = buf[s].complete
  BY <1>1, <1>7, BufferLengths, BufferCompleteness, BufferEmptiness
<1>4. Rest(buf[s], n) = IF buf[s].len = 0 THEN 0 ELSE buf[s].len - n
  BY <1>1 DEF Rest
<1>5. /\ CloseBuffer(PopBuffer(buf[s], n)) \in Buffer(Streams)
      /\ CloseBuffer(PopBuffer(buf[s], n)).len = 0
      /\ CloseBuffer(PopBuffer(buf[s], n)).complete = TRUE
  BY <1>2, BufferOperators, BufferLengths, BufferCompleteness, BufferEmptiness
<1>6. QED  BY <1>2, <1>3, <1>4, <1>5

(* What each method does to the wait for an empty buffer. *)
LEMMA EmptyKept ==
    ASSUME NEW s \in Streams, NEW b \in Buffer(Streams), NEW w, EmptyOf(s, b, w), NEW n \in {0, 1}
    PROVE  /\ \A v : EmptyOf(s, NewBuffer, v)
           /\ \A v : w = "respond" => EmptyOf(s, PushBuffer(b, s, 1), v)
           /\ EmptyOf(s, EndPush(b, s), "respond") \/ w # "pushing"
           /\ w \notin {"trailers", "draining"} => EmptyOf(s, DrainBuffer(b, s), "trailers")
           /\ w \notin {"trailers", "draining"} =>
                 EmptyOf(s, DrainBuffer(CompleteBuffer(b), s), "draining")
           /\ \A v : s \in b.empty.woken => EmptyOf(s, EndDrain(b, s), v)
           /\ EmptyOf(s, CloseBuffer(b), w)
           /\ EmptyOf(s, PopBuffer(b, n), w)
           /\ EmptyOf(s, CloseBuffer(PopBuffer(b, n)), w)
           /\ \A v : w \notin {"trailers", "draining"} => EmptyOf(s, b, v)
<1> USE DEF EmptyOf
<1>1. b.empty \in Event(Streams) /\ b.len \in Nat /\ b.complete \in BOOLEAN
  BY DEF Buffer
<1>2. \A v : EmptyOf(s, NewBuffer, v)
  BY DEF NewBuffer, NewEvent
<1>3. \A v : w = "respond" => EmptyOf(s, PushBuffer(b, s, 1), v)
  <2>1. PushBuffer(b, s, 1).empty = ClearEvent(b.empty)
    BY BufferLengths, BufferCompleteness, BufferEmptiness
  <2>2. QED  BY <1>1, <2>1 DEF ClearEvent, Event
<1>4. EmptyOf(s, EndPush(b, s), "respond") \/ w # "pushing"
  BY BufferLengths, BufferCompleteness, BufferEmptiness
<1>5. w \notin {"trailers", "draining"} => EmptyOf(s, DrainBuffer(b, s), "trailers")
  <2>1. DrainBuffer(b, s).empty = WaitEvent(b.empty, s) /\ DrainBuffer(b, s).len = b.len
    BY BufferLengths, BufferEmptiness
  <2>2. QED  BY <1>1, <2>1 DEF WaitEvent, Event
<1>6. w \notin {"trailers", "draining"} => EmptyOf(s, DrainBuffer(CompleteBuffer(b), s), "draining")
  <2>1. CompleteBuffer(b) \in Buffer(Streams) /\ CompleteBuffer(b).empty = b.empty
        /\ CompleteBuffer(b).len = b.len
    BY BufferOperators, BufferLengths, BufferCompleteness, BufferEmptiness
  <2>2. /\ DrainBuffer(CompleteBuffer(b), s).empty = WaitEvent(b.empty, s)
        /\ DrainBuffer(CompleteBuffer(b), s).len = b.len
    BY <2>1, BufferLengths, BufferCompleteness, BufferEmptiness
  <2>3. QED  BY <1>1, <2>2 DEF WaitEvent, Event
<1>7. \A v : s \in b.empty.woken => EmptyOf(s, EndDrain(b, s), v)
  <2>1. EndDrain(b, s).empty = ResumeEvent(b.empty, s) /\ EndDrain(b, s).len = b.len
    BY BufferLengths, BufferEmptiness
  <2>2. QED  BY <1>1, <2>1 DEF ResumeEvent, Event
<1>8. ASSUME NEW c \in Buffer(Streams), EmptyOf(s, c, w)
      PROVE  EmptyOf(s, CloseBuffer(c), w)
  <2>1. c.empty \in Event(Streams)
    BY DEF Buffer
  <2>2. CloseBuffer(c).len = 0 /\ CloseBuffer(c).empty = SetEvent(c.empty)
    BY BufferLengths, BufferCompleteness, BufferEmptiness
  <2>3. QED  BY <1>8, <2>1, <2>2 DEF SetEvent, Event
<1>9. PopBuffer(b, n) \in Buffer(Streams) /\ EmptyOf(s, PopBuffer(b, n), w)
  <2>1. n \in Nat
    OBVIOUS
  <2>2. /\ PopBuffer(b, n).len = Rest(b, n)
        /\ PopBuffer(b, n).empty = EmptyAfterPop(b, Rest(b, n))
        /\ PopBuffer(b, n) \in Buffer(Streams)
    BY <2>1, BufferLengths, BufferCompleteness, BufferEmptiness, BufferOperators
  <2>3. Rest(b, n) \in Nat /\ (b.len = 0 => Rest(b, n) = 0)
    BY <1>1, <2>1 DEF Rest
  <2>4. QED  BY <1>1, <2>2, <2>3 DEF EmptyAfterPop, SetEvent, Event
<1>10. \A v : w \notin {"trailers", "draining"} => EmptyOf(s, b, v)
  OBVIOUS
<1>11. QED  BY <1>2, <1>3, <1>4, <1>5, <1>6, <1>7, <1>8, <1>9, <1>10

(* The event of the send task stays one. *)
LEMMA HasDataOf ==
    ASSUME TypeOK
    PROVE  /\ SetEvent(hasData) \in Event({"sender"})
           /\ WaitEvent(hasData, "sender") \in Event({"sender"})
           /\ ClearEvent(ResumeEvent(hasData, "sender")) \in Event({"sender"})
<1>1. hasData \in Event({"sender"}) /\ "sender" \in {"sender"}
  BY DEF TypeOK
<1>2. ResumeEvent(hasData, "sender") \in Event({"sender"})
  BY <1>1, EventOperators
<1>3. QED  BY <1>1, <1>2, EventOperators

(* A step that neither makes nor keeps a promise, and that gives no writer to a
   promised stream, leaves the promises standing. *)
LEMMA PromisesStand ==
    ASSUME ConnectionAssumption, TypeOK, PromiseInv, promise' = promise,
           \A s \in Streams :
              /\ writer'[s] \in {"promising", "pushrefusing"}
                    <=> writer[s] \in {"promising", "pushrefusing"}
              /\ writer'[s] = "promising" => writer[s] = "promising"
              /\ lib[s] # "idle" => lib'[s] # "idle"
              /\ writer[s] = "none" => writer'[s] = "none" \/ \A t \in Streams : promise[t] # s
    PROVE  PromiseInv'
<1> SUFFICES ASSUME NEW s \in Streams
             PROVE  /\ promise[s] # NoStream <=> writer'[s] \in {"promising", "pushrefusing"}
                    /\ promise[s] # NoStream => lib'[promise[s]] # "idle"
                    /\ writer'[s] = "promising" => writer'[promise[s]] = "none"
                    /\ \A t \in Streams : promise[s] # NoStream /\ promise[t] = promise[s] => t = s
  BY DEF PromiseInv
<1>1. promise[s] # NoStream => promise[s] \in Streams
  BY ConnectionAssumption DEF TypeOK
<1>2. QED  BY <1>1 DEF PromiseInv

(* The streams that are counted are as many as there are at most. *)
LEMMA CountedBounds ==
    ASSUME ConnectionAssumption, CountInv, TypeOK
    PROVE  /\ IsFiniteSet(Counted) /\ Cardinality(Counted) \in Nat
           /\ Cardinality(Streams) \in Nat
           /\ Cardinality(Counted) <= Cardinality(Streams)
<1>1. Counted \subseteq Streams
  BY DEF Counted
<1>2. QED  BY <1>1, ConnectionAssumption, FS_Subset, FS_CardinalityType

(* A step that counts one more request keeps the count. *)
LEMMA CountUp ==
    ASSUME TypeOK, CountInv, NEW s \in Streams, s \notin Counted,
           Counted' = Counted \cup {s}, requests' = requests + 1
    PROVE  CountInv' /\ requests' \in 0..Cardinality(Streams)
<1>1. /\ IsFiniteSet(Counted) /\ Cardinality(Counted) \in Nat /\ Cardinality(Streams) \in Nat
  BY CountedBounds, ConnectionAssumption
<1>2. Counted' \subseteq Streams
  BY DEF Counted
<1>3. Cardinality(Counted') = Cardinality(Counted) + 1
  BY <1>1, FS_AddElement
<1>4. Cardinality(Counted') <= Cardinality(Streams)
  BY <1>2, ConnectionAssumption, FS_Subset
<1>5. requests \in Nat
  BY <1>1 DEF TypeOK
<1>6. QED  BY <1>1, <1>3, <1>4, <1>5 DEF CountInv

(* A step that counts none but may give up a stream for counted keeps it as well. *)
LEMMA CountSame ==
    ASSUME TypeOK, CountInv, Counted \subseteq Counted', requests' = requests
    PROVE  CountInv'
<1>1. /\ IsFiniteSet(Counted) /\ Cardinality(Counted) \in Nat /\ Cardinality(Streams) \in Nat
  BY CountedBounds, ConnectionAssumption
<1>2. Counted' \subseteq Streams
  BY DEF Counted
<1>3. IsFiniteSet(Counted') /\ Cardinality(Counted') \in Nat
  BY <1>2, ConnectionAssumption, FS_Subset, FS_CardinalityType
<1>4. Cardinality(Counted) <= Cardinality(Counted')
  BY <1>3, FS_Subset
<1>5. requests \in Nat
  BY <1>1 DEF TypeOK
<1>6. QED  BY <1>1, <1>3, <1>4, <1>5 DEF CountInv

(* The headers are out. *)
LEMMA HeadersFlushedKeeps ==
    ASSUME IInv, NEW s \in Streams, HeadersFlushed(s)
    PROVE  IInv'
<1> USE DEF IInv, keys, flags, h2, pushes, tasks, WriterGoes, SenderGoes, ReaderGoes
<1>1. TypeOK'
  BY DEF TypeOK, HeadersFlushed
<1>2. LifeInv'
  BY DEF LifeInv, TypeOK, HeadersFlushed
<1>3. PromiseInv'
  BY DEF PromiseInv, TypeOK, HeadersFlushed
<1>4. LibInv'
  BY DEF LibInv, TypeOK, HeadersFlushed, Unanswered, Answering, Finishing
<1>5. HeldInv'
  BY DEF HeldInv, TypeOK, HeadersFlushed, Finishing
<1>6. EmptyInv'
  BY DEF EmptyInv, TypeOK, HeadersFlushed, EmptyOf
<1>7. ReaderInv'
  BY DEF ReaderInv, TypeOK, HeadersFlushed
<1>8. OpenInv'
  BY DEF OpenInv, TypeOK, HeadersFlushed, Idling
<1>9. ByeInv'
  BY DEF ByeInv, TypeOK, HeadersFlushed, Orphaned
<1>10. IdleInv'
  BY DEF IdleInv, TypeOK, HeadersFlushed, Orphaned, Idling
<1>11. SenderInv' /\ NeverLeftBlocked' /\ CountInv' /\ SendStateConsistent' /\ EndStreamAfterBody'
  BY DEF SenderInv, NeverLeftBlocked, CountInv, Counted, SendStateConsistent, EndStreamAfterBody,
         HeadersFlushed
<1>12. QED  BY <1>1, <1>2, <1>3, <1>4, <1>5, <1>6, <1>7, <1>8, <1>9, <1>10, <1>11

(* The GOAWAY is out, and Updated(idle) follows. *)
LEMMA GoawayFlushedKeeps ==
    ASSUME IInv, NEW s \in Streams, GoawayFlushed(s)
    PROVE  IInv'
<1> USE DEF IInv, keys, flags, h2, pushes, tasks, WriterGoes, SenderGoes, ReaderGoes
<1>1. TypeOK'
  BY DEF TypeOK, GoawayFlushed
<1>2. LifeInv'
  BY DEF LifeInv, TypeOK, GoawayFlushed
<1>3. PromiseInv'
  BY DEF PromiseInv, TypeOK, GoawayFlushed
<1>4. LibInv'
  BY DEF LibInv, TypeOK, GoawayFlushed, Unanswered, Answering, Finishing
<1>5. HeldInv'
  BY DEF HeldInv, TypeOK, GoawayFlushed, Finishing
<1>6. EmptyInv'
  BY DEF EmptyInv, TypeOK, GoawayFlushed, EmptyOf
<1>7. ReaderInv'
  BY DEF ReaderInv, TypeOK, GoawayFlushed
<1>8. OpenInv'
  BY DEF OpenInv, TypeOK, GoawayFlushed, Idling
<1>9. ByeInv'
  BY DEF ByeInv, TypeOK, GoawayFlushed, Orphaned
<1>10. IdleInv'
  BY DEF IdleInv, TypeOK, GoawayFlushed, Orphaned, Idling, ByeInv
<1>11. SenderInv' /\ NeverLeftBlocked' /\ CountInv' /\ SendStateConsistent' /\ EndStreamAfterBody'
  BY DEF SenderInv, NeverLeftBlocked, CountInv, Counted, SendStateConsistent, EndStreamAfterBody,
         GoawayFlushed
<1>12. QED  BY <1>1, <1>2, <1>3, <1>4, <1>5, <1>6, <1>7, <1>8, <1>9, <1>10, <1>11

(* The application leaves its response unfinished. *)
LEMMA QuitResponseKeeps ==
    ASSUME IInv, NEW s \in Streams, QuitResponse(s)
    PROVE  IInv'
<1> USE DEF IInv, keys, flags, h2, pushes, tasks, WriterGoes, SenderGoes, ReaderGoes
<1>w. writer' = [writer EXCEPT ![s] = writer'[s]] /\ writer'[s] \in {"closing", "gone"}
  BY DEF QuitResponse, TypeOK
<1>1. TypeOK'
  BY <1>w DEF TypeOK, QuitResponse
<1>2. LifeInv'
  BY <1>w DEF LifeInv, TypeOK, QuitResponse
<1>3. PromiseInv'
  BY <1>w DEF PromiseInv, TypeOK, QuitResponse
<1>4. LibInv'
  BY <1>w DEF LibInv, TypeOK, QuitResponse, Unanswered, Answering, Finishing
<1>5. HeldInv'
  BY <1>w DEF HeldInv, TypeOK, QuitResponse, Finishing
<1>6. EmptyInv'
  BY <1>w DEF EmptyInv, TypeOK, QuitResponse, EmptyOf
<1>7. ReaderInv'
  BY <1>w DEF ReaderInv, TypeOK, QuitResponse
<1>8. OpenInv'
  BY <1>w DEF OpenInv, TypeOK, QuitResponse, Idling
<1>9. ByeInv'
  BY <1>w DEF ByeInv, TypeOK, QuitResponse, Orphaned
<1>10. IdleInv'
  BY <1>w DEF IdleInv, TypeOK, QuitResponse, Orphaned, Idling, OpenInv
<1>11. SenderInv' /\ NeverLeftBlocked' /\ CountInv' /\ SendStateConsistent' /\ EndStreamAfterBody'
  BY DEF SenderInv, NeverLeftBlocked, CountInv, Counted, SendStateConsistent, EndStreamAfterBody,
         QuitResponse
<1>12. QED  BY <1>1, <1>2, <1>3, <1>4, <1>5, <1>6, <1>7, <1>8, <1>9, <1>10, <1>11

(* The application starts its response. *)
LEMMA StartResponseKeeps ==
    ASSUME IInv, NEW s \in Streams, StartResponse(s)
    PROVE  IInv'
<1> USE DEF IInv, keys, flags, h2, pushes, tasks, WriterGoes, SenderGoes, ReaderGoes
<1>1. CountInv'
  <2>1. Counted' = Counted
    BY DEF Counted, TypeOK, StartResponse, MaySendHeaders
  <2>2. QED  BY <2>1, CountSame DEF StartResponse
<1>2. TypeOK'
  BY DEF TypeOK, StartResponse, MaySendHeaders
<1>3. LifeInv'
  BY DEF LifeInv, TypeOK, StartResponse, MaySendHeaders
<1>4. PromiseInv'
  BY DEF PromiseInv, TypeOK, StartResponse, MaySendHeaders
<1>5. LibInv'
  BY DEF LibInv, TypeOK, StartResponse, MaySendHeaders, Unanswered, Answering, Finishing
<1>6. HeldInv'
  BY DEF HeldInv, TypeOK, StartResponse, MaySendHeaders, Finishing
<1>7. EmptyInv'
  BY DEF EmptyInv, TypeOK, StartResponse, MaySendHeaders, EmptyOf
<1>8. SenderInv'
  BY DEF SenderInv, TypeOK, StartResponse, MaySendHeaders
<1>9. ReaderInv'
  BY DEF ReaderInv, TypeOK, StartResponse, MaySendHeaders
<1>10. OpenInv'
  BY DEF OpenInv, TypeOK, StartResponse, MaySendHeaders, Idling
<1>11. ByeInv'
  BY DEF ByeInv, TypeOK, StartResponse, MaySendHeaders, Orphaned
<1>12. IdleInv'
  BY DEF IdleInv, TypeOK, StartResponse, MaySendHeaders, Orphaned, Idling
<1>13. SendStateConsistent'
  BY DEF SendStateConsistent, TypeOK, StartResponse, MaySendHeaders
<1>14. EndStreamAfterBody'
  BY DEF EndStreamAfterBody, TypeOK, StartResponse, MaySendHeaders
<1>15. NeverLeftBlocked'
  BY DEF NeverLeftBlocked, StartResponse, MaySendHeaders
<1>16. QED  BY <1>1, <1>2, <1>3, <1>4, <1>5, <1>6, <1>7, <1>8, <1>9, <1>10, <1>11, <1>12,
               <1>13, <1>14, <1>15

(* The application returns with nothing sent. *)
LEMMA GiveUpKeeps ==
    ASSUME IInv, NEW s \in Streams, GiveUp(s)
    PROVE  IInv'
<1> USE DEF IInv, keys, flags, h2, pushes, tasks, WriterGoes, SenderGoes, ReaderGoes
<1>w. writer' = [writer EXCEPT ![s] = writer'[s]] /\ writer'[s] \in {"errhead", "gone"}
  BY DEF GiveUp, TypeOK
<1>l. /\ lib' = [lib EXCEPT ![s] = lib'[s]] /\ lib'[s] \in {lib[s], "headers"}
      /\ lib'[s] # lib[s] => lib[s] = "open"
  BY DEF GiveUp, TypeOK, MaySendHeaders
<1>u. writer[s] = "start" /\ UNCHANGED <<promise, reader, idle, sender, requests, conn>>
  BY DEF GiveUp
<1>1. CountInv'
  <2>1. Counted' = Counted
    BY <1>l, <1>u DEF Counted, TypeOK
  <2>2. QED  BY <1>u, <2>1, CountSame
<1>2. TypeOK'
  BY <1>w, <1>l, <1>u DEF TypeOK, GiveUp, MaySendHeaders
<1>3. LifeInv'
  BY <1>w, <1>l, <1>u DEF LifeInv, TypeOK, GiveUp, MaySendHeaders
<1>4. PromiseInv'
  BY <1>w, <1>l, <1>u, PromisesStand, ConnectionAssumption DEF TypeOK
<1>5. LibInv'
  BY <1>w, <1>l, <1>u
  DEF LibInv, TypeOK, GiveUp, MaySendHeaders, Unanswered, Answering, Finishing
<1>6. HeldInv'
  BY <1>w, <1>l, <1>u DEF HeldInv, TypeOK, GiveUp, MaySendHeaders, Finishing
<1>7. EmptyInv'
  BY <1>w, <1>l, <1>u DEF EmptyInv, TypeOK, GiveUp, MaySendHeaders, EmptyOf
<1>8. SenderInv'
  BY <1>w, <1>l, <1>u DEF SenderInv, TypeOK, GiveUp, MaySendHeaders
<1>9. ReaderInv'
  BY <1>w, <1>l, <1>u, ConnectionAssumption DEF ReaderInv, TypeOK
<1>10. OpenInv'
  BY <1>w, <1>l, <1>u DEF OpenInv, TypeOK, GiveUp, MaySendHeaders, Idling
<1>11. ByeInv'
  BY <1>w, <1>l, <1>u DEF ByeInv, TypeOK, GiveUp, MaySendHeaders, Orphaned
<1>12. IdleInv'
  BY <1>w, <1>l, <1>u DEF IdleInv, TypeOK, GiveUp, MaySendHeaders, Orphaned, Idling, OpenInv
<1>13. SendStateConsistent'
  BY <1>w, <1>l, <1>u DEF SendStateConsistent, TypeOK, GiveUp, MaySendHeaders
<1>14. EndStreamAfterBody'
  BY <1>w, <1>l, <1>u DEF EndStreamAfterBody, TypeOK, GiveUp, MaySendHeaders
<1>15. NeverLeftBlocked'
  BY DEF NeverLeftBlocked, GiveUp, MaySendHeaders
<1>16. QED  BY <1>1, <1>2, <1>3, <1>4, <1>5, <1>6, <1>7, <1>8, <1>9, <1>10, <1>11, <1>12,
               <1>13, <1>14, <1>15

(* A chunk is pushed. *)
LEMMA BodyKeeps ==
    ASSUME IInv, NEW s \in Streams, Body(s)
    PROVE  IInv'
<1> USE DEF IInv, keys, flags, h2, pushes, tasks, WriterGoes, SenderGoes, ReaderGoes
<1>a. /\ buf' = [buf EXCEPT ![s] = PushBuffer(buf[s], s, 1)]
      /\ PushBuffer(buf[s], s, 1) \in Buffer(Streams)
      /\ PushBuffer(buf[s], s, 1).len = buf[s].len + 1
      /\ PushBuffer(buf[s], s, 1).complete = buf[s].complete
  BY BufferOf DEF Body
<1>b. buf[s].len \in Nat /\ buf[s].complete \in BOOLEAN
  BY BufferOf
<1>c. EmptyOf(s, PushBuffer(buf[s], s, 1), writer'[s])
  <2>1. EmptyOf(s, buf[s], writer[s]) /\ buf[s] \in Buffer(Streams) /\ 1 \in {0, 1}
    BY BufferOf DEF EmptyInv
  <2>2. QED  BY <2>1, EmptyKept DEF TypeOK, Body
<1> DEFINE c == PushBuffer(buf[s], s, 1)
<1> HIDE DEF c
<1>d. writer' = [writer EXCEPT ![s] = writer'[s]] /\ writer'[s] \in {"pushing", "respond"}
  BY DEF Body, TypeOK
<1>1. TypeOK'
  BY <1>a, <1>b, <1>c, <1>d, HasDataOf, ConnectionAssumption DEF TypeOK, Body, Unblock
<1>2. LifeInv'
  BY <1>a, <1>b, <1>c, <1>d DEF LifeInv, TypeOK, Body, Unblock
<1>3. PromiseInv'
  BY <1>a, <1>b, <1>c, <1>d DEF PromiseInv, TypeOK, Body, Unblock
<1>4. LibInv'
  BY <1>a, <1>b, <1>c, <1>d
  DEF LibInv, TypeOK, Body, Unblock, Unanswered, Answering, Finishing
<1>5. HeldInv'
  BY <1>a, <1>b, <1>c, <1>d DEF HeldInv, TypeOK, Body, Unblock, Finishing, LibInv, Answering
<1>6. EmptyInv'
  BY <1>a, <1>b, <1>c, <1>d DEF EmptyInv, TypeOK, Body, Unblock
<1>7. SenderInv'
  BY <1>a, <1>b, <1>c, <1>d DEF SenderInv, TypeOK, Body, Unblock
<1>8. ReaderInv'
  BY <1>a, <1>b, <1>c, <1>d DEF ReaderInv, TypeOK, Body, Unblock
<1>9. OpenInv'
  BY <1>a, <1>b, <1>c, <1>d DEF OpenInv, TypeOK, Body, Unblock, Idling
<1>10. ByeInv'
  BY <1>a, <1>b, <1>c, <1>d DEF ByeInv, TypeOK, Body, Unblock, Orphaned
<1>11. IdleInv'
  BY <1>a, <1>b, <1>c, <1>d DEF IdleInv, TypeOK, Body, Unblock, Orphaned, Idling
<1>12. NeverLeftBlocked'
  BY <1>a, <1>b, <1>c, <1>d DEF NeverLeftBlocked, TypeOK, Body, Unblock
<1>13. EndStreamAfterBody'
  BY <1>a, <1>b, <1>c, <1>d DEF EndStreamAfterBody, TypeOK, Body, Unblock, LibInv, Finishing
<1>14. CountInv' /\ SendStateConsistent'
  BY DEF CountInv, Counted, SendStateConsistent, Body, Unblock
<1>15. QED  BY <1>1, <1>2, <1>3, <1>4, <1>5, <1>6, <1>7, <1>8, <1>9, <1>10, <1>11, <1>12,
               <1>13, <1>14

(* A chunk for a stream whose send state is gone. *)
LEMMA BodyDiscardedKeeps ==
    ASSUME IInv, NEW s \in Streams, BodyDiscarded(s)
    PROVE  IInv'
<1> USE DEF IInv, keys, flags, h2, pushes, tasks, WriterGoes, SenderGoes, ReaderGoes
<1>1. TypeOK'
  BY HasDataOf DEF TypeOK, BodyDiscarded, Unblock
<1>2. LifeInv'
  BY DEF LifeInv, TypeOK, BodyDiscarded, Unblock
<1>3. SenderInv'
  BY DEF SenderInv, TypeOK, BodyDiscarded, Unblock
<1>4. NeverLeftBlocked'
  BY DEF NeverLeftBlocked, TypeOK, BodyDiscarded, Unblock
<1>5. PromiseInv' /\ LibInv' /\ HeldInv' /\ EmptyInv' /\ ReaderInv' /\ OpenInv'
  BY DEF PromiseInv, LibInv, Unanswered, Answering, Finishing, HeldInv, EmptyInv, ReaderInv,
         OpenInv, Idling, BodyDiscarded, Unblock
<1>6. ByeInv' /\ IdleInv' /\ CountInv' /\ SendStateConsistent' /\ EndStreamAfterBody'
  BY DEF ByeInv, Orphaned, IdleInv, Idling, CountInv, Counted, SendStateConsistent,
         EndStreamAfterBody, BodyDiscarded, Unblock
<1>7. QED  BY <1>1, <1>2, <1>3, <1>4, <1>5, <1>6

(* The writer is let on. *)
LEMMA BodyAcceptedKeeps ==
    ASSUME IInv, NEW s \in Streams, BodyAccepted(s)
    PROVE  IInv'
<1> USE DEF IInv, keys, flags, h2, pushes, tasks, WriterGoes, SenderGoes, ReaderGoes
<1>a. /\ buf' = [buf EXCEPT ![s] = EndPush(buf[s], s)]
      /\ EndPush(buf[s], s) \in Buffer(Streams)
      /\ EndPush(buf[s], s).len = buf[s].len
      /\ EndPush(buf[s], s).complete = buf[s].complete
  BY BufferOf DEF BodyAccepted
<1>b. buf[s].len \in Nat /\ buf[s].complete \in BOOLEAN
  BY BufferOf
<1>c. EmptyOf(s, EndPush(buf[s], s), writer'[s])
  <2>1. EmptyOf(s, buf[s], writer[s]) /\ buf[s] \in Buffer(Streams) /\ 1 \in {0, 1}
    BY BufferOf DEF EmptyInv
  <2>2. QED  BY <2>1, EmptyKept DEF TypeOK, BodyAccepted
<1> DEFINE c == EndPush(buf[s], s)
<1> HIDE DEF c
<1>1. TypeOK'
  BY <1>a, <1>b, <1>c DEF TypeOK, BodyAccepted
<1>2. LifeInv'
  BY <1>a, <1>b, <1>c DEF LifeInv, TypeOK, BodyAccepted
<1>3. PromiseInv'
  BY <1>a, <1>b, <1>c DEF PromiseInv, TypeOK, BodyAccepted
<1>4. LibInv'
  BY <1>a, <1>b, <1>c DEF LibInv, TypeOK, BodyAccepted, Unanswered, Answering, Finishing
<1>5. HeldInv'
  BY <1>a, <1>b, <1>c DEF HeldInv, TypeOK, BodyAccepted, Finishing
<1>6. EmptyInv'
  BY <1>a, <1>b, <1>c DEF EmptyInv, TypeOK, BodyAccepted
<1>7. ReaderInv'
  BY <1>a, <1>b, <1>c DEF ReaderInv, TypeOK, BodyAccepted
<1>8. OpenInv'
  BY <1>a, <1>b, <1>c DEF OpenInv, TypeOK, BodyAccepted, Idling
<1>9. ByeInv'
  BY <1>a, <1>b, <1>c DEF ByeInv, TypeOK, BodyAccepted, Orphaned
<1>10. IdleInv'
  BY <1>a, <1>b, <1>c DEF IdleInv, TypeOK, BodyAccepted, Orphaned, Idling
<1>11. NeverLeftBlocked'
  BY <1>a, <1>b, <1>c DEF NeverLeftBlocked, TypeOK, BodyAccepted
<1>12. SenderInv' /\ CountInv' /\ SendStateConsistent' /\ EndStreamAfterBody'
  BY DEF SenderInv, CountInv, Counted, SendStateConsistent, EndStreamAfterBody, BodyAccepted
<1>13. QED  BY <1>1, <1>2, <1>3, <1>4, <1>5, <1>6, <1>7, <1>8, <1>9, <1>10, <1>11, <1>12

(* Trailers wait for the body to leave. *)
LEMMA TrailersKeeps ==
    ASSUME IInv, NEW s \in Streams, Trailers(s)
    PROVE  IInv'
<1> USE DEF IInv, keys, flags, h2, pushes, tasks, WriterGoes, SenderGoes, ReaderGoes
<1>a. /\ buf' = [buf EXCEPT ![s] = DrainBuffer(buf[s], s)]
      /\ DrainBuffer(buf[s], s) \in Buffer(Streams)
      /\ DrainBuffer(buf[s], s).len = buf[s].len
      /\ DrainBuffer(buf[s], s).complete = buf[s].complete
  BY BufferOf DEF Trailers
<1>b. buf[s].len \in Nat /\ buf[s].complete \in BOOLEAN
  BY BufferOf
<1>c. EmptyOf(s, DrainBuffer(buf[s], s), writer'[s])
  <2>1. EmptyOf(s, buf[s], writer[s]) /\ buf[s] \in Buffer(Streams) /\ 1 \in {0, 1}
    BY BufferOf DEF EmptyInv
  <2>2. QED  BY <2>1, EmptyKept DEF TypeOK, Trailers
<1> DEFINE c == DrainBuffer(buf[s], s)
<1> HIDE DEF c
<1>1. TypeOK'
  BY <1>a, <1>b, <1>c, HasDataOf DEF TypeOK, Trailers, Unblock
<1>2. LifeInv'
  BY <1>a, <1>b, <1>c DEF LifeInv, TypeOK, Trailers, Unblock
<1>3. PromiseInv'
  BY <1>a, <1>b, <1>c DEF PromiseInv, TypeOK, Trailers, Unblock
<1>4. LibInv'
  BY <1>a, <1>b, <1>c
  DEF LibInv, TypeOK, Trailers, Unblock, Unanswered, Answering, Finishing
<1>5. HeldInv'
  BY <1>a, <1>b, <1>c DEF HeldInv, TypeOK, Trailers, Unblock, Finishing
<1>6. EmptyInv'
  BY <1>a, <1>b, <1>c DEF EmptyInv, TypeOK, Trailers, Unblock
<1>7. SenderInv'
  BY <1>a, <1>b, <1>c DEF SenderInv, TypeOK, Trailers, Unblock
<1>8. ReaderInv'
  BY <1>a, <1>b, <1>c DEF ReaderInv, TypeOK, Trailers, Unblock
<1>9. OpenInv'
  BY <1>a, <1>b, <1>c DEF OpenInv, TypeOK, Trailers, Unblock, Idling
<1>10. ByeInv'
  BY <1>a, <1>b, <1>c DEF ByeInv, TypeOK, Trailers, Unblock, Orphaned
<1>11. IdleInv'
  BY <1>a, <1>b, <1>c DEF IdleInv, TypeOK, Trailers, Unblock, Orphaned, Idling
<1>12. NeverLeftBlocked'
  BY <1>a, <1>b, <1>c DEF NeverLeftBlocked, TypeOK, Trailers, Unblock
<1>13. CountInv' /\ SendStateConsistent' /\ EndStreamAfterBody'
  BY DEF CountInv, Counted, SendStateConsistent, EndStreamAfterBody, Trailers, Unblock
<1>14. QED  BY <1>1, <1>2, <1>3, <1>4, <1>5, <1>6, <1>7, <1>8, <1>9, <1>10, <1>11, <1>12,
               <1>13

(* The body is out and the trailers end the stream. *)
LEMMA TrailersSentKeeps ==
    ASSUME IInv, NEW s \in Streams, TrailersSent(s)
    PROVE  IInv'
<1> USE DEF IInv, keys, flags, h2, pushes, tasks, WriterGoes, SenderGoes, ReaderGoes
<1>a. /\ buf' = [buf EXCEPT ![s] = EndDrain(buf[s], s)]
      /\ EndDrain(buf[s], s) \in Buffer(Streams)
      /\ EndDrain(buf[s], s).len = buf[s].len
      /\ EndDrain(buf[s], s).complete = buf[s].complete
  BY BufferOf DEF TrailersSent
<1>b. buf[s].len \in Nat /\ buf[s].complete \in BOOLEAN
  BY BufferOf
<1>c. EmptyOf(s, EndDrain(buf[s], s), writer'[s])
  <2>1. EmptyOf(s, buf[s], writer[s]) /\ buf[s] \in Buffer(Streams) /\ 1 \in {0, 1}
    BY BufferOf DEF EmptyInv
  <2>2. QED  BY <2>1, EmptyKept DEF TypeOK, TrailersSent
<1> DEFINE c == EndDrain(buf[s], s)
<1> HIDE DEF c
<1>d. buf[s].len = 0
  BY DEF TrailersSent, EmptyInv, EmptyOf
<1>1. CountInv'
  <2>1. Counted' = Counted
    BY DEF Counted, TypeOK, TrailersSent, MaySendData
  <2>2. QED  BY <2>1, CountSame DEF TrailersSent
<1>2. TypeOK'
  BY <1>a, <1>b, <1>c, <1>d DEF TypeOK, TrailersSent, MaySendData
<1>3. LifeInv'
  BY <1>a, <1>b, <1>c, <1>d DEF LifeInv, TypeOK, TrailersSent, MaySendData
<1>4. PromiseInv'
  BY <1>a, <1>b, <1>c, <1>d DEF PromiseInv, TypeOK, TrailersSent, MaySendData
<1>5. LibInv'
  BY <1>a, <1>b, <1>c, <1>d
  DEF LibInv, TypeOK, TrailersSent, MaySendData, Unanswered, Answering, Finishing
<1>6. HeldInv'
  BY <1>a, <1>b, <1>c, <1>d DEF HeldInv, TypeOK, TrailersSent, MaySendData, Finishing
<1>7. EmptyInv'
  BY <1>a, <1>b, <1>c, <1>d DEF EmptyInv, TypeOK, TrailersSent, MaySendData
<1>8. SenderInv'
  BY <1>a, <1>b, <1>c, <1>d DEF SenderInv, TypeOK, TrailersSent, MaySendData
<1>9. ReaderInv'
  BY <1>a, <1>b, <1>c, <1>d DEF ReaderInv, TypeOK, TrailersSent, MaySendData
<1>10. OpenInv'
  BY <1>a, <1>b, <1>c, <1>d DEF OpenInv, TypeOK, TrailersSent, MaySendData, Idling
<1>11. ByeInv'
  BY <1>a, <1>b, <1>c, <1>d DEF ByeInv, TypeOK, TrailersSent, MaySendData, Orphaned
<1>12. IdleInv'
  BY <1>a, <1>b, <1>c, <1>d DEF IdleInv, TypeOK, TrailersSent, MaySendData, Orphaned, Idling
<1>13. NeverLeftBlocked'
  BY <1>a, <1>b, <1>c, <1>d DEF NeverLeftBlocked, TypeOK, TrailersSent, MaySendData
<1>14. SendStateConsistent'
  BY <1>a, <1>b, <1>c, <1>d DEF SendStateConsistent, TypeOK, TrailersSent, MaySendData
<1>15. EndStreamAfterBody'
  BY <1>a, <1>b, <1>c, <1>d
  DEF EndStreamAfterBody, TypeOK, TrailersSent, MaySendData, HeldInv, SendStateConsistent
<1>16. QED  BY <1>1, <1>2, <1>3, <1>4, <1>5, <1>6, <1>7, <1>8, <1>9, <1>10, <1>11, <1>12,
               <1>13, <1>14, <1>15

(* The body is out. *)
LEMMA BodyDrainedKeeps ==
    ASSUME IInv, NEW s \in Streams, BodyDrained(s)
    PROVE  IInv'
<1> USE DEF IInv, keys, flags, h2, pushes, tasks, WriterGoes, SenderGoes, ReaderGoes
<1>a. /\ buf' = [buf EXCEPT ![s] = EndDrain(buf[s], s)]
      /\ EndDrain(buf[s], s) \in Buffer(Streams)
      /\ EndDrain(buf[s], s).len = buf[s].len
      /\ EndDrain(buf[s], s).complete = buf[s].complete
  BY BufferOf DEF BodyDrained
<1>b. buf[s].len \in Nat /\ buf[s].complete \in BOOLEAN
  BY BufferOf
<1>c. EmptyOf(s, EndDrain(buf[s], s), writer'[s])
  <2>1. EmptyOf(s, buf[s], writer[s]) /\ buf[s] \in Buffer(Streams) /\ 1 \in {0, 1}
    BY BufferOf DEF EmptyInv
  <2>2. QED  BY <2>1, EmptyKept DEF TypeOK, BodyDrained
<1> DEFINE c == EndDrain(buf[s], s)
<1> HIDE DEF c
<1>1. TypeOK'
  BY <1>a, <1>b, <1>c DEF TypeOK, BodyDrained
<1>2. LifeInv'
  BY <1>a, <1>b, <1>c DEF LifeInv, TypeOK, BodyDrained
<1>3. PromiseInv'
  BY <1>a, <1>b, <1>c DEF PromiseInv, TypeOK, BodyDrained
<1>4. LibInv'
  BY <1>a, <1>b, <1>c DEF LibInv, TypeOK, BodyDrained, Unanswered, Answering, Finishing
<1>5. HeldInv'
  BY <1>a, <1>b, <1>c DEF HeldInv, TypeOK, BodyDrained, Finishing
<1>6. EmptyInv'
  BY <1>a, <1>b, <1>c DEF EmptyInv, TypeOK, BodyDrained
<1>7. ReaderInv'
  BY <1>a, <1>b, <1>c DEF ReaderInv, TypeOK, BodyDrained
<1>8. OpenInv'
  BY <1>a, <1>b, <1>c DEF OpenInv, TypeOK, BodyDrained, Idling
<1>9. ByeInv'
  BY <1>a, <1>b, <1>c DEF ByeInv, TypeOK, BodyDrained, Orphaned
<1>10. IdleInv'
  BY <1>a, <1>b, <1>c DEF IdleInv, TypeOK, BodyDrained, Orphaned, Idling
<1>11. NeverLeftBlocked'
  BY <1>a, <1>b, <1>c DEF NeverLeftBlocked, TypeOK, BodyDrained
<1>12. SenderInv' /\ CountInv' /\ SendStateConsistent' /\ EndStreamAfterBody'
  BY DEF SenderInv, CountInv, Counted, SendStateConsistent, EndStreamAfterBody, BodyDrained
<1>13. QED  BY <1>1, <1>2, <1>3, <1>4, <1>5, <1>6, <1>7, <1>8, <1>9, <1>10, <1>11, <1>12

(* The response is complete. *)
LEMMA EndBodyKeeps ==
    ASSUME IInv, NEW s \in Streams, EndBody(s)
    PROVE  IInv'
<1> USE DEF IInv, keys, flags, h2, pushes, tasks, WriterGoes, SenderGoes, ReaderGoes
<1>a. /\ DrainBuffer(CompleteBuffer(buf[s]), s) \in Buffer(Streams)
      /\ DrainBuffer(CompleteBuffer(buf[s]), s).len = buf[s].len
      /\ DrainBuffer(CompleteBuffer(buf[s]), s).complete = TRUE
  BY BufferOf
<1>b. buf[s].len \in Nat /\ buf[s].complete \in BOOLEAN
  BY BufferOf
<1>c. /\ s \in held => EmptyOf(s, DrainBuffer(CompleteBuffer(buf[s]), s), "draining")
      /\ s \notin held => EmptyOf(s, buf[s], "closing")
  <2>1. EmptyOf(s, buf[s], writer[s]) /\ buf[s] \in Buffer(Streams) /\ 1 \in {0, 1}
    BY BufferOf DEF EmptyInv
  <2>2. QED  BY <2>1, EmptyKept DEF EndBody
<1>w. writer' = [writer EXCEPT ![s] = writer'[s]] /\ writer'[s] \in {"draining", "closing"}
  BY DEF EndBody, TypeOK
<1>x. buf' = [buf EXCEPT ![s] = buf'[s]] /\ buf'[s] \in Buffer(Streams)
  BY <1>a DEF EndBody, TypeOK
<1>y. active' \in {active, active \cup {s}} /\ (s \notin held => active' = active)
  BY DEF EndBody, Unblock
<1>z. hasData' \in Event({"sender"})
  BY HasDataOf DEF EndBody, Unblock, TypeOK
<1>u. /\ writer[s] \in {"respond", "errhead", "tail"}
      /\ UNCHANGED <<promise, lib, tree, streams, held, flags>>
      /\ UNCHANGED <<conn, window, sent, pushed, sender, reader>>
  BY DEF EndBody
<1>v. held \subseteq tree
  BY DEF SendStateConsistent
<1>1. TypeOK'
  BY <1>a, <1>b, <1>c, <1>w, <1>x, <1>y, <1>z, <1>u, <1>v DEF TypeOK
<1>2. LifeInv'
  BY <1>a, <1>b, <1>c, <1>w, <1>x, <1>y, <1>z, <1>u, <1>v
  DEF LifeInv, TypeOK, EndBody, Unblock
<1>3. PromiseInv'
  BY <1>w, <1>u, PromisesStand, ConnectionAssumption DEF TypeOK
<1>4. LibInv'
  BY <1>a, <1>b, <1>c, <1>w, <1>x, <1>y, <1>z, <1>u, <1>v
  DEF LibInv, TypeOK, EndBody, Unblock, Unanswered, Answering, Finishing
<1>5. HeldInv'
  BY <1>a, <1>b, <1>c, <1>w, <1>x, <1>y, <1>z, <1>u, <1>v
  DEF HeldInv, TypeOK, EndBody, Unblock, Finishing, LibInv, Answering
<1>6. EmptyInv'
  BY <1>a, <1>b, <1>c, <1>w, <1>x, <1>y, <1>z, <1>u, <1>v
  DEF EmptyInv, TypeOK, EndBody, Unblock
<1>7. SenderInv'
  BY <1>a, <1>b, <1>c, <1>w, <1>x, <1>y, <1>z, <1>u, <1>v
  DEF SenderInv, TypeOK, EndBody, Unblock
<1>8. ReaderInv'
  BY <1>a, <1>b, <1>c, <1>w, <1>x, <1>y, <1>z, <1>u, <1>v
  DEF ReaderInv, TypeOK, EndBody, Unblock
<1>9. OpenInv'
  BY <1>a, <1>b, <1>c, <1>w, <1>x, <1>y, <1>z, <1>u, <1>v
  DEF OpenInv, TypeOK, EndBody, Unblock, Idling
<1>10. ByeInv'
  BY <1>a, <1>b, <1>c, <1>w, <1>x, <1>y, <1>z, <1>u, <1>v
  DEF ByeInv, TypeOK, EndBody, Unblock, Orphaned
<1>11. IdleInv'
  BY <1>a, <1>b, <1>c, <1>w, <1>x, <1>y, <1>z, <1>u, <1>v
  DEF IdleInv, TypeOK, EndBody, Unblock, Orphaned, Idling
<1>12. NeverLeftBlocked'
  BY <1>a, <1>b, <1>c, <1>w, <1>x, <1>y, <1>z, <1>u, <1>v
  DEF NeverLeftBlocked, TypeOK, EndBody, Unblock
<1>13. CountInv' /\ SendStateConsistent' /\ EndStreamAfterBody'
  BY DEF CountInv, Counted, SendStateConsistent, EndStreamAfterBody, EndBody, Unblock
<1>14. QED  BY <1>1, <1>2, <1>3, <1>4, <1>5, <1>6, <1>7, <1>8, <1>9, <1>10, <1>11, <1>12,
               <1>13

(* The stream is forgotten. *)
LEMMA StreamClosedKeeps ==
    ASSUME IInv, NEW s \in Streams, StreamClosed(s)
    PROVE  IInv'
<1> USE DEF IInv, keys, flags, h2, pushes, tasks, WriterGoes, SenderGoes, ReaderGoes
<1>w. writer' = [writer EXCEPT ![s] = writer'[s]] /\ writer'[s] \in {"bye", "gone"}
  BY DEF StreamClosed, TypeOK
<1>h. hasData' \in Event({"sender"})
  BY HasDataOf DEF StreamClosed, CloseStream, TypeOK
<1>u. writer[s] = "closing" /\ streams' = streams \ {s}
  BY DEF StreamClosed, CloseStream
<1>v. /\ UNCHANGED <<held, tree, active, buf, closed, requests, terminated, lib>>
      /\ UNCHANGED <<window, sent, pushed, promise, sender, reader>>
  BY DEF StreamClosed
<1>x. /\ conn' \in {conn, "closed"} /\ idle' \in BOOLEAN
      /\ writer'[s] = "gone" => idle' = (streams \ {s} = {})
      /\ writer'[s] = "bye" => idle' = idle /\ conn' = "closed" /\ streams \ {s} = {}
  <2>1. CASE IdleAfter(s) /\ terminated
    <3>1. conn' = "closed" /\ idle' = idle /\ writer'[s] = "bye"
      BY <2>1 DEF StreamClosed, TypeOK
    <3>2. QED  BY <2>1, <3>1 DEF IdleAfter, TypeOK
  <2>2. CASE ~(IdleAfter(s) /\ terminated)
    <3>1. conn' = conn /\ idle' = IdleAfter(s) /\ writer'[s] = "gone"
      BY <2>2 DEF StreamClosed, TypeOK
    <3>2. QED  BY <3>1 DEF IdleAfter
  <2>3. QED  BY <2>1, <2>2
<1>1. TypeOK'
  BY <1>w, <1>h, <1>u, <1>v, <1>x DEF TypeOK
<1>2. LifeInv'
  BY <1>w, <1>h, <1>u, <1>v, <1>x DEF LifeInv, TypeOK, StreamClosed, CloseStream, IdleAfter
<1>3. PromiseInv'
  BY <1>w, <1>u, <1>v, PromisesStand, ConnectionAssumption DEF TypeOK
<1>4. LibInv'
  BY <1>w, <1>h, <1>u, <1>v, <1>x
  DEF LibInv, TypeOK, StreamClosed, CloseStream, IdleAfter, Unanswered, Answering, Finishing
<1>5. HeldInv'
  BY <1>w, <1>h, <1>u, <1>v, <1>x
  DEF HeldInv, TypeOK, StreamClosed, CloseStream, IdleAfter, Finishing
<1>6. EmptyInv'
  BY <1>w, <1>h, <1>u, <1>v, <1>x
  DEF EmptyInv, TypeOK, StreamClosed, CloseStream, IdleAfter, EmptyOf
<1>7. ReaderInv'
  BY <1>w, <1>h, <1>u, <1>v, <1>x
  DEF ReaderInv, TypeOK, StreamClosed, CloseStream, IdleAfter
<1>8. OpenInv'
  BY <1>w, <1>h, <1>u, <1>v, <1>x
  DEF OpenInv, TypeOK, StreamClosed, CloseStream, IdleAfter, Idling
<1>9. ByeInv'
  BY <1>w, <1>h, <1>u, <1>v, <1>x
  DEF ByeInv, TypeOK, StreamClosed, CloseStream, IdleAfter, Orphaned
<1>10. IdleInv'
  <2>1. closed' = closed /\ reader' = reader /\ requests' = requests /\ lib' = lib
    BY <1>v
  <2>2. ASSUME idle', reader'.at # "refusing"
        PROVE  closed' \/ streams' = {} \/ Orphaned'
    <3>1. CASE writer'[s] = "gone"
      BY <1>u, <1>x, <2>2, <3>1
    <3>2. CASE writer'[s] = "bye"
      BY <1>u, <1>x, <2>1, <2>2, <3>2 DEF Orphaned
    <3>3. QED  BY <1>w, <3>1, <3>2
  <2>3. ASSUME requests' > 0, ~idle'
        PROVE  closed' \/ \E t \in Streams : (writer'[t] \notin {"none", "gone"} \/ lib'[t] = "reset"
                                                \/ (t \in Refused /\ lib'[t] # "idle"))
    <3>1. CASE writer'[s] = "gone"
      <4>1. PICK t \in streams \ {s} : TRUE
        BY <1>x, <2>3, <3>1
      <4>2. t \in Streams /\ writer[t] \notin Idling
        BY <4>1 DEF OpenInv, TypeOK
      <4>3. writer'[t] = writer[t]
        BY <1>w, <4>1, <4>2 DEF TypeOK
      <4>4. QED  BY <4>2, <4>3 DEF Idling
    <3>2. CASE writer'[s] = "bye"
      <4>1. writer'[s] \notin {"none", "gone"}
        BY <3>2
      <4>2. QED  BY <4>1
    <3>3. QED  BY <1>w, <3>1, <3>2
  <2>4. QED  BY <2>2, <2>3 DEF IdleInv
<1>11. SenderInv' /\ NeverLeftBlocked' /\ CountInv' /\ SendStateConsistent' /\ EndStreamAfterBody'
  BY DEF SenderInv, NeverLeftBlocked, CountInv, Counted, SendStateConsistent, EndStreamAfterBody,
         StreamClosed, CloseStream, IdleAfter
<1>12. QED  BY <1>1, <1>2, <1>3, <1>4, <1>5, <1>6, <1>7, <1>8, <1>9, <1>10, <1>11

(* A push is promised. *)
LEMMA ServerPushKeeps ==
    ASSUME IInv, NEW s \in Streams, NEW p \in Promised, ServerPush(s, p)
    PROVE  IInv'
<1> USE DEF IInv, keys, flags, h2, pushes, tasks, WriterGoes, SenderGoes, ReaderGoes
<1>a. p \in Streams /\ p # NoStream
  BY ConnectionAssumption
<1>b. lib[p] = "idle" /\ lib[s] = "open" /\ writer[s] = "start"
  BY DEF ServerPush, MaySendHeaders
<1>c. /\ writer[p] = "none" /\ promise[s] = NoStream /\ p # s
      /\ \A t \in Streams : promise[t] # p
  BY <1>a, <1>b DEF LifeInv, PromiseInv
<1>1. CountInv'
  <2>1. Counted \subseteq Counted'
    BY <1>a, <1>b, <1>c DEF Counted, TypeOK, ServerPush
  <2>2. QED  BY <2>1, CountSame DEF ServerPush
<1>2. TypeOK'
  BY <1>a, <1>b, <1>c DEF TypeOK, ServerPush, MaySendHeaders
<1>3. LifeInv'
  BY <1>a, <1>b, <1>c DEF LifeInv, TypeOK, ServerPush, MaySendHeaders
<1>4. PromiseInv'
  BY <1>a, <1>b, <1>c DEF PromiseInv, TypeOK, ServerPush, MaySendHeaders
<1>5. LibInv'
  BY <1>a, <1>b, <1>c
  DEF LibInv, TypeOK, ServerPush, MaySendHeaders, Unanswered, Answering, Finishing
<1>6. HeldInv'
  BY <1>a, <1>b, <1>c DEF HeldInv, TypeOK, ServerPush, MaySendHeaders, Finishing, LifeInv
<1>7. EmptyInv'
  BY <1>a, <1>b, <1>c DEF EmptyInv, TypeOK, ServerPush, MaySendHeaders, EmptyOf
<1>8. SenderInv'
  BY <1>a, <1>b, <1>c DEF SenderInv, TypeOK, ServerPush, MaySendHeaders
<1>9. ReaderInv'
  BY <1>a, <1>b, <1>c DEF ReaderInv, TypeOK, ServerPush, MaySendHeaders
<1>10. OpenInv'
  BY <1>a, <1>b, <1>c DEF OpenInv, TypeOK, ServerPush, MaySendHeaders, Idling
<1>11. ByeInv'
  BY <1>a, <1>b, <1>c DEF ByeInv, TypeOK, ServerPush, MaySendHeaders, Orphaned
<1>12. IdleInv'
  BY <1>a, <1>b, <1>c DEF IdleInv, TypeOK, ServerPush, MaySendHeaders, Orphaned, Idling
<1>13. SendStateConsistent'
  BY <1>a, <1>b, <1>c DEF SendStateConsistent, TypeOK, ServerPush, MaySendHeaders
<1>14. EndStreamAfterBody'
  BY <1>a, <1>b, <1>c DEF EndStreamAfterBody, TypeOK, ServerPush, MaySendHeaders
<1>15. NeverLeftBlocked'
  BY DEF NeverLeftBlocked, ServerPush, MaySendHeaders
<1>16. QED  BY <1>1, <1>2, <1>3, <1>4, <1>5, <1>6, <1>7, <1>8, <1>9, <1>10, <1>11, <1>12,
               <1>13, <1>14, <1>15

(* A request arrives. *)
LEMMA RequestReceivedKeeps ==
    ASSUME IInv, NEW s \in Streams, RequestReceived(s)
    PROVE  IInv'
<1> USE DEF IInv, keys, flags, h2, pushes, tasks, WriterGoes, SenderGoes, ReaderGoes
<1>a. NewBuffer \in Buffer(Streams) /\ NewBuffer.len = 0 /\ ~NewBuffer.complete
  BY BufferOf
<1>b. \A v : EmptyOf(s, NewBuffer, v)
  <2>1. EmptyOf(s, buf[s], writer[s]) /\ buf[s] \in Buffer(Streams) /\ 1 \in {0, 1}
    BY BufferOf DEF EmptyInv
  <2>2. QED  BY <2>1, EmptyKept
<1>c. /\ lib[s] = "idle" /\ writer[s] = "none" /\ reader.at = "ready" /\ conn = "open"
      /\ \A t \in Streams : promise[t] # s
  <2>1. lib[s] = "idle" /\ reader.at = "ready" /\ conn = "open"
    BY DEF RequestReceived, CreateStream, Refuses, Serves, Reading, ReaderInv
  <2>2. writer[s] = "none"
    BY <2>1 DEF LifeInv
  <2>3. \A t \in Streams : promise[t] # s
    BY <2>1, ConnectionAssumption DEF PromiseInv
  <2>4. QED  BY <2>1, <2>2, <2>3
<1>d. /\ lib' = [lib EXCEPT ![s] = lib'[s]] /\ writer' = [writer EXCEPT ![s] = writer'[s]]
      /\ \/ s \in Refused /\ lib'[s] = "headers" /\ writer'[s] = "errhead"
         \/ s \notin Refused /\ lib'[s] = "open" /\ writer'[s] = "start"
  BY DEF RequestReceived, CreateStream, Refuses, Serves, Reading, TypeOK
<1>e. CountInv' /\ requests' \in 0..Cardinality(Streams)
  <2>1. CASE s \in Refused
    <3>1. Counted' = Counted /\ requests' = requests
      BY <2>1, <1>c, <1>d
      DEF Counted, TypeOK, RequestReceived, CreateStream, Refuses, Serves, Reading
    <3>2. QED  BY <3>1, CountSame DEF TypeOK
  <2>2. CASE s \notin Refused
    <3>1. s \notin Counted /\ Counted' = Counted \cup {s} /\ requests' = requests + 1
      BY <2>2, <1>c, <1>d, ConnectionAssumption
      DEF Counted, TypeOK, RequestReceived, CreateStream, Refuses, Serves, Reading
    <3>2. QED  BY <3>1, CountUp
  <2>3. QED  BY <2>1, <2>2
<1>f. promise' = promise
  BY DEF RequestReceived
<1>1. CountInv'
  BY <1>e
<1>2. TypeOK'
  <2>1. /\ streams' \subseteq Streams /\ held' \subseteq Streams
        /\ tree' \subseteq Streams /\ active' \subseteq tree'
        /\ buf' \in [Streams -> Buffer(Streams)]
    BY <1>a DEF TypeOK, RequestReceived, CreateStream
  <2>2. /\ idle' \in BOOLEAN
        /\ \/ reader' = [at |-> "refusing", on |-> s]
           \/ reader' = [at |-> "counting", on |-> s]
    BY DEF TypeOK, RequestReceived, Refuses, Serves
  <2>3. reader' \in [at : {"initiating", "ready", "refusing", "counting", "gone"},
                     on : Streams \cup {NoStream}]
    BY <2>2
  <2>4. UNCHANGED <<hasData, closed, terminated, conn, window, sent, pushed, promise, sender>>
    BY DEF RequestReceived
  <2>5. lib' \in [Streams -> {"idle", "open", "headers", "ended", "reset"}]
    BY <1>d DEF TypeOK
  <2>6. writer' \in [Streams -> {"none", "start", "promising", "pushrefusing", "head",
                                 "errhead", "respond", "pushing", "trailers", "tail",
                                 "draining", "closing", "bye", "gone"}]
    BY <1>d DEF TypeOK
  <2>7. QED  BY <1>e, <2>1, <2>2, <2>3, <2>4, <2>5, <2>6 DEF TypeOK
<1>3. LifeInv'
  BY <1>a, <1>b, <1>c, <1>d, <1>e, <1>f, ConnectionAssumption
  DEF LifeInv, TypeOK, RequestReceived, CreateStream, Refuses, Serves, Reading
<1>4. PromiseInv'
  BY <1>c, <1>d, <1>f, PromisesStand, ConnectionAssumption DEF TypeOK
<1>5. LibInv'
  BY <1>a, <1>b, <1>c, <1>d, <1>e, <1>f
  DEF LibInv, TypeOK, RequestReceived, CreateStream, Refuses, Serves, Reading, Unanswered,
      Answering, Finishing
<1>6. HeldInv'
  BY <1>a, <1>b, <1>c, <1>d, <1>e, <1>f
  DEF HeldInv, TypeOK, RequestReceived, CreateStream, Refuses, Serves, Reading, Finishing,
      LifeInv
<1>7. EmptyInv'
  BY <1>a, <1>b, <1>c, <1>d, <1>e, <1>f
  DEF EmptyInv, TypeOK, RequestReceived, CreateStream, Refuses, Serves, Reading
<1>8. SenderInv'
  BY <1>a, <1>b, <1>c, <1>d, <1>e, <1>f
  DEF SenderInv, TypeOK, RequestReceived, CreateStream, Refuses, Serves, Reading, LifeInv
<1>9. ReaderInv'
  BY <1>a, <1>b, <1>c, <1>d, <1>e, <1>f, ConnectionAssumption
  DEF ReaderInv, TypeOK, RequestReceived, CreateStream, Refuses, Serves, Reading
<1>10. OpenInv'
  BY <1>a, <1>b, <1>c, <1>d, <1>e, <1>f
  DEF OpenInv, TypeOK, RequestReceived, CreateStream, Refuses, Serves, Reading, Idling
<1>11. ByeInv'
  BY <1>a, <1>b, <1>c, <1>d, <1>e, <1>f
  DEF ByeInv, TypeOK, RequestReceived, CreateStream, Refuses, Serves, Reading, Orphaned
<1>12. IdleInv'
  BY <1>a, <1>b, <1>c, <1>d, <1>e, <1>f
  DEF IdleInv, TypeOK, RequestReceived, CreateStream, Refuses, Serves, Reading, Orphaned,
      Idling, OpenInv
<1>13. NeverLeftBlocked'
  BY <1>a, <1>b, <1>c, <1>d, <1>e, <1>f
  DEF NeverLeftBlocked, TypeOK, RequestReceived, CreateStream, Refuses, Serves, Reading, LifeInv
<1>14. SendStateConsistent'
  BY <1>a, <1>b, <1>c, <1>d, <1>e, <1>f
  DEF SendStateConsistent, TypeOK, RequestReceived, CreateStream, Refuses, Serves, Reading
<1>15. EndStreamAfterBody'
  BY <1>a, <1>b, <1>c, <1>d, <1>e, <1>f
  DEF EndStreamAfterBody, TypeOK, RequestReceived, CreateStream, Refuses, Serves, Reading
<1>16. QED  BY <1>1, <1>2, <1>3, <1>4, <1>5, <1>6, <1>7, <1>8, <1>9, <1>10, <1>11, <1>12,
               <1>13, <1>14, <1>15

(* The request of an upgrade is handed over. *)
LEMMA UpgradeKeeps ==
    ASSUME IInv, NEW s \in Streams, Upgrade(s)
    PROVE  IInv'
<1> USE DEF IInv, keys, flags, h2, pushes, tasks, WriterGoes, SenderGoes, ReaderGoes
<1>a. NewBuffer \in Buffer(Streams) /\ NewBuffer.len = 0 /\ ~NewBuffer.complete
  BY BufferOf
<1>b. \A v : EmptyOf(s, NewBuffer, v)
  <2>1. EmptyOf(s, buf[s], writer[s]) /\ buf[s] \in Buffer(Streams) /\ 1 \in {0, 1}
    BY BufferOf DEF EmptyInv
  <2>2. QED  BY <2>1, EmptyKept
<1>c. /\ lib[s] = "idle" /\ writer[s] = "none" /\ reader.at = "initiating" /\ ~idle
      /\ \A t \in Streams : promise[t] # s
  <2>1. lib[s] = "idle" /\ reader.at = "initiating" /\ ~idle
    BY DEF Upgrade, CreateStream, Refuses, Serves, ReaderInv
  <2>2. writer[s] = "none"
    BY <2>1 DEF LifeInv
  <2>3. \A t \in Streams : promise[t] # s
    BY <2>1, ConnectionAssumption DEF PromiseInv
  <2>4. QED  BY <2>1, <2>2, <2>3
<1>d. /\ lib' = [lib EXCEPT ![s] = lib'[s]] /\ writer' = [writer EXCEPT ![s] = writer'[s]]
      /\ \/ s \in Refused /\ lib'[s] = "headers" /\ writer'[s] = "errhead"
         \/ s \notin Refused /\ lib'[s] = "open" /\ writer'[s] = "start"
  BY DEF Upgrade, CreateStream, Refuses, Serves, TypeOK
<1>e. CountInv' /\ requests' \in 0..Cardinality(Streams)
  <2>1. CASE s \in Refused
    <3>1. Counted' = Counted /\ requests' = requests
      BY <2>1, <1>c, <1>d DEF Counted, TypeOK, Upgrade, CreateStream, Refuses, Serves
    <3>2. QED  BY <3>1, CountSame DEF TypeOK
  <2>2. CASE s \notin Refused
    <3>1. s \notin Counted /\ Counted' = Counted \cup {s} /\ requests' = requests + 1
      BY <2>2, <1>c, <1>d, ConnectionAssumption
      DEF Counted, TypeOK, Upgrade, CreateStream, Refuses, Serves
    <3>2. QED  BY <3>1, CountUp
  <2>3. QED  BY <2>1, <2>2
<1>f. /\ \A t \in Streams : writer[t] = "none" /\ lib[t] = "idle"
      /\ sender.at = "unborn" /\ sender.on = NoStream
  BY <1>c DEF ReaderInv, SenderInv, TypeOK
<1>g. sender'.on = NoStream /\ sender'.at \in {"unborn", "next"} /\ streams = {} /\ held = {}
  BY <1>f DEF Upgrade, Refuses, Serves, LifeInv, TypeOK
<1>1. CountInv'
  BY <1>e
<1>2. TypeOK'
  BY <1>a, <1>b, <1>c, <1>d, <1>e, <1>f, <1>g, ConnectionAssumption
  DEF TypeOK, Upgrade, CreateStream, Refuses, Serves
<1>3. LifeInv'
  BY <1>a, <1>b, <1>c, <1>d, <1>e, <1>f, <1>g, ConnectionAssumption
  DEF LifeInv, TypeOK, Upgrade, CreateStream, Refuses, Serves
<1>4. PromiseInv'
  BY <1>a, <1>b, <1>c, <1>d, <1>e, <1>f, <1>g
  DEF PromiseInv, TypeOK, Upgrade, CreateStream, Refuses, Serves
<1>5. LibInv'
  BY <1>a, <1>b, <1>c, <1>d, <1>e, <1>f, <1>g
  DEF LibInv, TypeOK, Upgrade, CreateStream, Refuses, Serves, Unanswered, Answering,
      Finishing
<1>6. HeldInv'
  BY <1>a, <1>b, <1>c, <1>d, <1>e, <1>f, <1>g
  DEF HeldInv, TypeOK, Upgrade, CreateStream, Refuses, Serves, Finishing, LifeInv
<1>7. EmptyInv'
  BY <1>a, <1>b, <1>c, <1>d, <1>e, <1>f, <1>g
  DEF EmptyInv, TypeOK, Upgrade, CreateStream, Refuses, Serves
<1>8. SenderInv'
  BY <1>a, <1>b, <1>c, <1>d, <1>e, <1>f, <1>g
  DEF SenderInv, TypeOK, Upgrade, CreateStream, Refuses, Serves
<1>9. ReaderInv'
  BY <1>a, <1>b, <1>c, <1>d, <1>e, <1>f, <1>g, ConnectionAssumption
  DEF ReaderInv, TypeOK, Upgrade, CreateStream, Refuses, Serves
<1>10. OpenInv'
  BY <1>a, <1>b, <1>c, <1>d, <1>e, <1>f, <1>g
  DEF OpenInv, TypeOK, Upgrade, CreateStream, Refuses, Serves, Idling
<1>11. ByeInv'
  BY <1>a, <1>b, <1>c, <1>d, <1>e, <1>f, <1>g
  DEF ByeInv, TypeOK, Upgrade, CreateStream, Refuses, Serves, Orphaned
<1>12. IdleInv'
  BY <1>a, <1>b, <1>c, <1>d, <1>e, <1>f, <1>g
  DEF IdleInv, TypeOK, Upgrade, CreateStream, Refuses, Serves, Orphaned, Idling
<1>13. NeverLeftBlocked'
  BY <1>a, <1>b, <1>c, <1>d, <1>e, <1>f, <1>g
  DEF NeverLeftBlocked, TypeOK, Upgrade, CreateStream, Refuses, Serves
<1>14. SendStateConsistent'
  BY <1>a, <1>b, <1>c, <1>d, <1>e, <1>f, <1>g
  DEF SendStateConsistent, TypeOK, Upgrade, CreateStream, Refuses, Serves
<1>15. EndStreamAfterBody'
  BY <1>a, <1>b, <1>c, <1>d, <1>e, <1>f, <1>g
  DEF EndStreamAfterBody, TypeOK, Upgrade, CreateStream, Refuses, Serves
<1>16. QED  BY <1>1, <1>2, <1>3, <1>4, <1>5, <1>6, <1>7, <1>8, <1>9, <1>10, <1>11, <1>12,
               <1>13, <1>14, <1>15

(* A promised request is handed over. *)
LEMMA PushCreatedKeeps ==
    ASSUME IInv, NEW s \in Streams, PushCreated(s)
    PROVE  IInv'
<1> USE DEF IInv, keys, flags, h2, pushes, tasks, WriterGoes, SenderGoes, ReaderGoes
<1>p. PICK p \in Promised : p = promise[s]
  BY DEF PushCreated, TypeOK, PromiseInv
<1>q. /\ p \in Streams /\ p # NoStream /\ s # p
      /\ lib[p] # "idle" /\ writer[p] = "none" /\ writer[s] = "promising"
      /\ \A t \in Streams : promise[t] = p => t = s
  BY <1>p, ConnectionAssumption DEF PushCreated, PromiseInv
<1>a. NewBuffer \in Buffer(Streams) /\ NewBuffer.len = 0 /\ ~NewBuffer.complete
  BY <1>q, BufferOf
<1>b. \A v : EmptyOf(p, NewBuffer, v)
  <2>1. EmptyOf(p, buf[p], writer[p]) /\ buf[p] \in Buffer(Streams) /\ 1 \in {0, 1}
    BY <1>q, BufferOf DEF EmptyInv
  <2>2. QED  BY <1>q, <2>1, EmptyKept
<1>c. lib[p] \in {"open", "reset"}
  BY <1>q DEF LifeInv
<1>d. /\ lib' = [lib EXCEPT ![p] = lib'[p]] /\ lib'[p] \in {lib[p], "headers"}
      /\ p \in Refused => conn = "closed" \/ lib'[p] \in {"headers", "reset"}
      /\ p \notin Refused => lib'[p] = lib[p]
      /\ lib[p] = "reset" => lib'[p] = "reset"
  BY <1>p, <1>q, <1>c DEF PushCreated, MaySendHeaders, TypeOK
<1>e. /\ writer' \in [Streams -> {"none", "start", "promising", "pushrefusing", "head",
                               "errhead", "respond", "pushing", "trailers", "tail",
                               "draining", "closing", "bye", "gone"}]
      /\ \A t \in Streams \ {s, p} : writer'[t] = writer[t]
      /\ p \in Refused => writer'[s] = "pushrefusing" /\ writer'[p] = "errhead"
      /\ p \notin Refused => writer'[s] = "start" /\ writer'[p] = "start"
  BY <1>p, <1>q DEF PushCreated, TypeOK
<1>f. /\ promise' = [promise EXCEPT ![s] = promise'[s]]
      /\ promise'[s] = IF p \in Refused THEN p ELSE NoStream
  BY <1>p, <1>q DEF PushCreated, TypeOK
<1>g. /\ streams' = streams \cup {p} /\ held' = held \cup {p} /\ tree' = tree \cup {p}
      /\ active' = active /\ buf' = [buf EXCEPT ![p] = NewBuffer]
  BY <1>p DEF PushCreated, CreateStream
<1>h. CountInv' /\ requests' \in 0..Cardinality(Streams)
  <2>1. CASE p \in Refused
    <3>1. Counted' = Counted /\ requests' = requests
      BY <2>1, <1>p, <1>q, <1>c, <1>d, <1>f DEF Counted, TypeOK, PushCreated
    <3>2. QED  BY <3>1, CountSame DEF TypeOK
  <2>2. CASE p \notin Refused
    <3>1. p \notin Counted /\ requests' = requests + 1
      BY <2>2, <1>p, <1>q DEF Counted, PushCreated
    <3>2. Counted' = Counted \cup {p}
      BY <2>2, <1>p, <1>q, <1>c, <1>d, <1>f, ConnectionAssumption
      DEF Counted, TypeOK, PushCreated, ReaderInv
    <3>3. QED  BY <1>q, <3>1, <3>2, CountUp
  <2>3. QED  BY <2>1, <2>2
<1>1. CountInv'
  BY <1>h
<1>2. TypeOK'
  BY <1>p, <1>q, <1>a, <1>b, <1>c, <1>d, <1>e, <1>f, <1>g, <1>h, ConnectionAssumption
  DEF TypeOK, PushCreated, CreateStream
<1>3. LifeInv'
  BY <1>p, <1>q, <1>a, <1>b, <1>c, <1>d, <1>e, <1>f, <1>g, <1>h
  DEF LifeInv, TypeOK, PushCreated, CreateStream
<1>4. PromiseInv'
  <2>1. p # s /\ writer'[p] \in {"start", "errhead"} /\ writer'[s] \in {"start", "pushrefusing"}
    BY <1>q, <1>e DEF LifeInv
  <2>2. \A t \in Streams : lib[t] # "idle" => lib'[t] # "idle"
    BY <1>d DEF TypeOK
  <2>3. promise[s] = p /\ writer[s] = "promising" /\ promise[p] = NoStream
    BY <1>p, <1>q DEF PromiseInv
  <2> SUFFICES ASSUME NEW t \in Streams
               PROVE  /\ promise'[t] # NoStream <=> writer'[t] \in {"promising", "pushrefusing"}
                      /\ promise'[t] # NoStream => lib'[promise'[t]] # "idle"
                      /\ writer'[t] = "promising" => writer'[promise'[t]] = "none"
                      /\ \A u \in Streams :
                            promise'[t] # NoStream /\ promise'[u] = promise'[t] => u = t
    BY DEF PromiseInv
  <2>4. CASE t \notin {s, p}
    <3>1. writer'[t] = writer[t] /\ promise'[t] = promise[t] /\ promise[t] # p
      BY <2>3, <2>4, <1>e, <1>f, <1>q DEF TypeOK
    <3>2. promise[t] # NoStream => promise[t] \in Streams
      BY ConnectionAssumption DEF TypeOK
    <3>3. writer[t] = "promising" => promise[t] # s
      BY <2>3 DEF PromiseInv
    <3>4. writer'[t] = "promising" => writer'[promise'[t]] = "none"
      BY <3>1, <3>2, <3>3, <1>e DEF PromiseInv
    <3>5. \A u \in Streams : promise'[t] # NoStream /\ promise'[u] = promise'[t] => u = t
      BY <3>1, <1>f DEF PromiseInv, TypeOK
    <3>6. QED  BY <2>2, <3>1, <3>2, <3>4, <3>5 DEF PromiseInv
  <2>5. CASE t = p
    BY <2>1, <2>3, <2>5, <1>f DEF TypeOK
  <2>6. CASE t = s
    <3>1. promise'[s] \in {p, NoStream} /\ (promise'[s] = p <=> p \in Refused)
      BY <1>f, <1>q
    <3>2. promise'[s] # NoStream <=> writer'[s] \in {"promising", "pushrefusing"}
      BY <3>1, <1>e, <1>q
    <3>3. \A u \in Streams : promise'[u] = p => u = s
      BY <1>f, <1>q DEF TypeOK
    <3>4. QED  BY <2>1, <2>2, <2>6, <3>1, <3>2, <3>3, <1>q
  <2>7. QED  BY <2>4, <2>5, <2>6
<1>5. LibInv'
  BY <1>p, <1>q, <1>a, <1>b, <1>c, <1>d, <1>e, <1>f, <1>g, <1>h
  DEF LibInv, TypeOK, PushCreated, CreateStream, Unanswered, Answering, Finishing, LifeInv
<1>6. HeldInv'
  BY <1>p, <1>q, <1>a, <1>b, <1>c, <1>d, <1>e, <1>f, <1>g, <1>h
  DEF HeldInv, TypeOK, PushCreated, CreateStream, Finishing, LifeInv
<1>7. EmptyInv'
  <2> SUFFICES ASSUME NEW t \in Streams PROVE EmptyOf(t, buf'[t], writer'[t])
    BY DEF EmptyInv
  <2>1. EmptyOf(t, buf[t], writer[t]) /\ buf[t] \in Buffer(Streams)
    BY DEF EmptyInv, TypeOK
  <2>2. CASE t = p
    BY <2>2, <1>b, <1>g DEF TypeOK
  <2>3. CASE t # p /\ t # s
    BY <2>1, <2>3, <1>e, <1>g DEF TypeOK
  <2>4. CASE t # p /\ t = s
    <3>1. buf'[t] = buf[t] /\ writer[t] = "promising"
      BY <2>4, <1>g, <1>q DEF TypeOK
    <3>2. QED  BY <2>1, <3>1, EmptyKept
  <2>5. QED  BY <2>2, <2>3, <2>4
<1>8. SenderInv'
  BY <1>p, <1>q, <1>a, <1>b, <1>c, <1>d, <1>e, <1>f, <1>g, <1>h
  DEF SenderInv, TypeOK, PushCreated, CreateStream, LifeInv
<1>9. ReaderInv'
  BY <1>p, <1>q, <1>a, <1>b, <1>c, <1>d, <1>e, <1>f, <1>g, <1>h, ConnectionAssumption
  DEF ReaderInv, TypeOK, PushCreated, CreateStream
<1>10. OpenInv'
  BY <1>p, <1>q, <1>a, <1>b, <1>c, <1>d, <1>e, <1>f, <1>g, <1>h
  DEF OpenInv, TypeOK, PushCreated, CreateStream, Idling
<1>11. ByeInv'
  BY <1>p, <1>q, <1>a, <1>b, <1>c, <1>d, <1>e, <1>f, <1>g, <1>h
  DEF ByeInv, TypeOK, PushCreated, CreateStream, Orphaned, OpenInv, Idling
<1>12. IdleInv'
  BY <1>p, <1>q, <1>a, <1>b, <1>c, <1>d, <1>e, <1>f, <1>g, <1>h
  DEF IdleInv, TypeOK, PushCreated, CreateStream, Orphaned, Idling, OpenInv
<1>13. NeverLeftBlocked'
  BY <1>p, <1>q, <1>a, <1>b, <1>c, <1>d, <1>e, <1>f, <1>g, <1>h
  DEF NeverLeftBlocked, TypeOK, PushCreated, CreateStream, LifeInv
<1>14. SendStateConsistent'
  BY <1>p, <1>q, <1>a, <1>b, <1>c, <1>d, <1>e, <1>f, <1>g, <1>h
  DEF SendStateConsistent, TypeOK, PushCreated, CreateStream
<1>15. EndStreamAfterBody'
  BY <1>p, <1>q, <1>a, <1>b, <1>c, <1>d, <1>e, <1>f, <1>g, <1>h
  DEF EndStreamAfterBody, TypeOK, PushCreated, CreateStream
<1>16. QED  BY <1>1, <1>2, <1>3, <1>4, <1>5, <1>6, <1>7, <1>8, <1>9, <1>10, <1>11, <1>12,
               <1>13, <1>14, <1>15

(* A push that was refused returns. *)
LEMMA PushRefusedKeeps ==
    ASSUME IInv, NEW s \in Streams, PushRefused(s)
    PROVE  IInv'
<1> USE DEF IInv, keys, flags, h2, pushes, tasks, WriterGoes, SenderGoes, ReaderGoes
<1>p. PICK p \in Promised : p = promise[s]
  BY DEF PushRefused, TypeOK, PromiseInv
<1>q. /\ p \in Streams /\ p # NoStream /\ lib[p] # "idle" /\ writer[s] = "pushrefusing"
      /\ \A t \in Streams : promise[t] = p => t = s
  BY <1>p, ConnectionAssumption DEF PushRefused, PromiseInv
<1>h. CountInv' /\ requests' \in 0..Cardinality(Streams)
  <2>1. p \notin Counted /\ requests' = requests + 1
    BY <1>p, <1>q DEF Counted, PushRefused
  <2>2. Counted' = Counted \cup {p}
    BY <1>p, <1>q, ConnectionAssumption DEF Counted, TypeOK, PushRefused, ReaderInv
  <2>3. QED  BY <1>q, <2>1, <2>2, CountUp
<1>1. CountInv'
  BY <1>h
<1>2. TypeOK'
  BY <1>p, <1>q, <1>h, ConnectionAssumption DEF TypeOK, PushRefused
<1>3. LifeInv'
  BY <1>p, <1>q, <1>h DEF LifeInv, TypeOK, PushRefused
<1>4. PromiseInv'
  BY <1>p, <1>q, <1>h DEF PromiseInv, TypeOK, PushRefused
<1>5. LibInv'
  BY <1>p, <1>q, <1>h DEF LibInv, TypeOK, PushRefused, Unanswered, Answering, Finishing
<1>6. HeldInv'
  BY <1>p, <1>q, <1>h DEF HeldInv, TypeOK, PushRefused, Finishing
<1>7. EmptyInv'
  BY <1>p, <1>q, <1>h DEF EmptyInv, TypeOK, PushRefused, EmptyOf
<1>8. ReaderInv'
  BY <1>p, <1>q, <1>h, ConnectionAssumption DEF ReaderInv, TypeOK, PushRefused
<1>9. OpenInv'
  BY <1>p, <1>q, <1>h DEF OpenInv, TypeOK, PushRefused, Idling
<1>10. ByeInv'
  BY <1>p, <1>q, <1>h DEF ByeInv, TypeOK, PushRefused, Orphaned
<1>11. IdleInv'
  BY <1>p, <1>q, <1>h DEF IdleInv, TypeOK, PushRefused, Orphaned, Idling
<1>12. SenderInv' /\ NeverLeftBlocked' /\ SendStateConsistent' /\ EndStreamAfterBody'
  BY DEF SenderInv, NeverLeftBlocked, SendStateConsistent, EndStreamAfterBody, PushRefused
<1>13. QED  BY <1>1, <1>2, <1>3, <1>4, <1>5, <1>6, <1>7, <1>8, <1>9, <1>10, <1>11, <1>12

(* A refusal returns. *)
LEMMA RefusalReturnsKeeps ==
    ASSUME IInv, RefusalReturns
    PROVE  IInv'
<1> USE DEF IInv, keys, flags, h2, pushes, tasks, WriterGoes, SenderGoes, ReaderGoes
<1>a. reader.at = "refusing" /\ reader.on \in Streams /\ reader.on \in Refused
  BY ConnectionAssumption DEF RefusalReturns, ReaderInv
<1>h. CountInv' /\ requests' \in 0..Cardinality(Streams)
  <2>1. reader.on \notin Counted /\ requests' = requests + 1
    BY <1>a DEF Counted, RefusalReturns
  <2>2. Counted' = Counted \cup {reader.on}
    BY <1>a DEF Counted, RefusalReturns, ReaderInv
  <2>3. QED  BY <1>a, <2>1, <2>2, CountUp
<1>1. CountInv'
  BY <1>h
<1>2. TypeOK'
  BY <1>a, <1>h DEF TypeOK, RefusalReturns
<1>3. ReaderInv'
  BY <1>a, <1>h DEF ReaderInv, TypeOK, RefusalReturns
<1>4. IdleInv'
  BY <1>a, <1>h DEF IdleInv, TypeOK, RefusalReturns, Orphaned, Idling, ReaderInv
<1>5. LifeInv' /\ PromiseInv' /\ LibInv' /\ HeldInv' /\ EmptyInv' /\ SenderInv'
  BY DEF LifeInv, PromiseInv, LibInv, Unanswered, Answering, Finishing, HeldInv, EmptyInv,
         SenderInv, RefusalReturns
<1>6. OpenInv' /\ ByeInv' /\ NeverLeftBlocked' /\ SendStateConsistent' /\ EndStreamAfterBody'
  BY DEF OpenInv, Idling, ByeInv, Orphaned, NeverLeftBlocked, SendStateConsistent,
         EndStreamAfterBody, RefusalReturns
<1>7. QED  BY <1>1, <1>2, <1>3, <1>4, <1>5, <1>6

(* A request is reset by a terminated worker. *)
LEMMA RequestTurnedAwayKeeps ==
    ASSUME IInv, NEW s \in Streams, RequestTurnedAway(s)
    PROVE  IInv'
<1> USE DEF IInv, keys, flags, h2, pushes, tasks, WriterGoes, SenderGoes, ReaderGoes
<1>1. CountInv'
  <2>1. Counted \subseteq Counted'
    BY DEF Counted, TypeOK, RequestTurnedAway, Reading
  <2>2. QED  BY <2>1, CountSame DEF RequestTurnedAway
<1>2. TypeOK'
  BY DEF TypeOK, RequestTurnedAway, Reading
<1>3. LifeInv'
  BY DEF LifeInv, TypeOK, RequestTurnedAway, Reading
<1>4. PromiseInv'
  BY DEF PromiseInv, TypeOK, RequestTurnedAway, Reading
<1>5. LibInv'
  BY DEF LibInv, TypeOK, RequestTurnedAway, Reading, Unanswered, Answering, Finishing
<1>6. HeldInv'
  BY DEF HeldInv, TypeOK, RequestTurnedAway, Reading, Finishing
<1>7. SenderInv'
  BY DEF SenderInv, TypeOK, RequestTurnedAway, Reading
<1>8. ReaderInv'
  BY DEF ReaderInv, TypeOK, RequestTurnedAway, Reading
<1>9. OpenInv'
  BY DEF OpenInv, TypeOK, RequestTurnedAway, Reading, Idling
<1>10. ByeInv'
  BY DEF ByeInv, TypeOK, RequestTurnedAway, Reading, Orphaned
<1>11. IdleInv'
  BY DEF IdleInv, TypeOK, RequestTurnedAway, Reading, Orphaned, Idling
<1>12. SendStateConsistent'
  BY DEF SendStateConsistent, TypeOK, RequestTurnedAway, Reading, LifeInv
<1>13. EndStreamAfterBody'
  BY DEF EndStreamAfterBody, TypeOK, RequestTurnedAway, Reading
<1>14. EmptyInv' /\ NeverLeftBlocked'
  BY DEF EmptyInv, NeverLeftBlocked, RequestTurnedAway, Reading
<1>15. QED  BY <1>1, <1>2, <1>3, <1>4, <1>5, <1>6, <1>7, <1>8, <1>9, <1>10, <1>11, <1>12,
               <1>13, <1>14

(* The end of a request. *)
LEMMA RequestCountedKeeps ==
    ASSUME IInv, RequestCounted
    PROVE  IInv'
<1> USE DEF IInv, keys, flags, h2, pushes, tasks, WriterGoes, SenderGoes, ReaderGoes
<1>1. CountInv'
  BY DEF CountInv, TypeOK, RequestCounted, Counted
<1>2. TypeOK'
  BY DEF TypeOK, RequestCounted
<1>3. LibInv'
  BY DEF LibInv, TypeOK, RequestCounted, Unanswered, Answering, Finishing
<1>4. HeldInv'
  BY DEF HeldInv, TypeOK, RequestCounted, Finishing
<1>5. ReaderInv'
  BY DEF ReaderInv, TypeOK, RequestCounted
<1>6. ByeInv'
  BY DEF ByeInv, TypeOK, RequestCounted, Orphaned
<1>7. IdleInv'
  BY DEF IdleInv, TypeOK, RequestCounted, Orphaned, Idling
<1>8. LifeInv' /\ PromiseInv' /\ EmptyInv' /\ SenderInv' /\ OpenInv' /\ NeverLeftBlocked'
  BY DEF LifeInv, PromiseInv, EmptyInv, SenderInv, OpenInv, Idling, NeverLeftBlocked,
         RequestCounted
<1>9. SendStateConsistent' /\ EndStreamAfterBody'
  BY DEF SendStateConsistent, EndStreamAfterBody, RequestCounted
<1>10. QED  BY <1>1, <1>2, <1>3, <1>4, <1>5, <1>6, <1>7, <1>8, <1>9

(* Window for a stream. *)
LEMMA WindowUpdatedKeeps ==
    ASSUME IInv, NEW s \in Streams, WindowUpdated(s)
    PROVE  IInv'
<1> USE DEF IInv, keys, flags, h2, pushes, tasks, WriterGoes, SenderGoes, ReaderGoes
<1>1. TypeOK'
  BY HasDataOf, ConnectionAssumption
  DEF TypeOK, WindowUpdated, Reading, WindowUnblocks, SendStateConsistent
<1>2. LifeInv'
  BY DEF LifeInv, TypeOK, WindowUpdated, Reading, WindowUnblocks
<1>3. SenderInv'
  BY DEF SenderInv, TypeOK, WindowUpdated, Reading, WindowUnblocks
<1>4. NeverLeftBlocked'
  BY DEF NeverLeftBlocked, TypeOK, WindowUpdated, Reading, WindowUnblocks
<1>5. PromiseInv' /\ LibInv' /\ HeldInv' /\ EmptyInv' /\ ReaderInv' /\ OpenInv'
  BY DEF PromiseInv, LibInv, Unanswered, Answering, Finishing, HeldInv, EmptyInv, ReaderInv,
         OpenInv, Idling, WindowUpdated, Reading, WindowUnblocks
<1>6. ByeInv' /\ IdleInv' /\ CountInv' /\ SendStateConsistent' /\ EndStreamAfterBody'
  BY DEF ByeInv, Orphaned, IdleInv, Idling, CountInv, Counted, SendStateConsistent,
         EndStreamAfterBody, WindowUpdated, Reading, WindowUnblocks
<1>7. QED  BY <1>1, <1>2, <1>3, <1>4, <1>5, <1>6

(* Window for the connection. *)
LEMMA AllUnblockedKeeps ==
    ASSUME IInv, AllUnblocked
    PROVE  IInv'
<1> USE DEF IInv, keys, flags, h2, pushes, tasks, WriterGoes, SenderGoes, ReaderGoes
<1>1. TypeOK'
  BY HasDataOf DEF TypeOK, AllUnblocked, SendStateConsistent
<1>2. LifeInv'
  BY DEF LifeInv, TypeOK, AllUnblocked
<1>3. SenderInv'
  BY DEF SenderInv, TypeOK, AllUnblocked
<1>4. NeverLeftBlocked'
  BY DEF NeverLeftBlocked, TypeOK, AllUnblocked
<1>5. PromiseInv' /\ LibInv' /\ HeldInv' /\ EmptyInv' /\ ReaderInv' /\ OpenInv'
  BY DEF PromiseInv, LibInv, Unanswered, Answering, Finishing, HeldInv, EmptyInv, ReaderInv,
         OpenInv, Idling, AllUnblocked
<1>6. ByeInv' /\ IdleInv' /\ CountInv' /\ SendStateConsistent' /\ EndStreamAfterBody'
  BY DEF ByeInv, Orphaned, IdleInv, Idling, CountInv, Counted, SendStateConsistent,
         EndStreamAfterBody, AllUnblocked
<1>7. QED  BY <1>1, <1>2, <1>3, <1>4, <1>5, <1>6

(* A place in the priority tree. *)
LEMMA PriorityUpdatedKeeps ==
    ASSUME IInv, NEW s \in Streams, PriorityUpdated(s)
    PROVE  IInv'
<1> USE DEF IInv, keys, flags, h2, pushes, tasks, WriterGoes, SenderGoes, ReaderGoes
<1>1. TypeOK'
  BY HasDataOf DEF TypeOK, PriorityUpdated
<1>2. SendStateConsistent'
  BY DEF SendStateConsistent, TypeOK, PriorityUpdated
<1>3. LifeInv' /\ PromiseInv' /\ LibInv' /\ HeldInv' /\ EmptyInv' /\ SenderInv'
  BY DEF LifeInv, PromiseInv, LibInv, Unanswered, Answering, Finishing, HeldInv, EmptyInv,
         SenderInv, PriorityUpdated
<1>4. ReaderInv' /\ OpenInv' /\ ByeInv' /\ IdleInv' /\ NeverLeftBlocked' /\ CountInv'
  BY DEF ReaderInv, OpenInv, Idling, ByeInv, Orphaned, IdleInv, NeverLeftBlocked, CountInv,
         Counted, PriorityUpdated
<1>5. EndStreamAfterBody'
  BY DEF EndStreamAfterBody, PriorityUpdated
<1>6. QED  BY <1>1, <1>2, <1>3, <1>4, <1>5

(* The client resets a stream. *)
LEMMA StreamResetKeeps ==
    ASSUME IInv, NEW s \in Streams, StreamReset(s)
    PROVE  IInv'
<1> USE DEF IInv, keys, flags, h2, pushes, tasks, WriterGoes, SenderGoes, ReaderGoes
<1>a. CloseBuffer(buf[s]) \in Buffer(Streams) /\ CloseBuffer(buf[s]).len = 0
  BY BufferOf
<1>b. EmptyOf(s, CloseBuffer(buf[s]), writer[s])
  <2>1. EmptyOf(s, buf[s], writer[s]) /\ buf[s] \in Buffer(Streams) /\ 1 \in {0, 1}
    BY BufferOf DEF EmptyInv
  <2>2. QED  BY <2>1, EmptyKept
<1>1. CountInv'
  BY <1>a, <1>b DEF CountInv, TypeOK, StreamReset, DiscardSendState, Reading, Counted
<1>2. TypeOK'
  BY <1>a, <1>b, HasDataOf DEF TypeOK, StreamReset, DiscardSendState, Reading
<1>3. LifeInv'
  BY <1>a, <1>b DEF LifeInv, TypeOK, StreamReset, DiscardSendState, Reading
<1>4. PromiseInv'
  BY <1>a, <1>b DEF PromiseInv, TypeOK, StreamReset, DiscardSendState, Reading
<1>5. LibInv'
  BY <1>a, <1>b
  DEF LibInv, TypeOK, StreamReset, DiscardSendState, Reading, Unanswered, Answering,
      Finishing
<1>6. HeldInv'
  BY <1>a, <1>b DEF HeldInv, TypeOK, StreamReset, DiscardSendState, Reading, Finishing
<1>7. EmptyInv'
  BY <1>a, <1>b DEF EmptyInv, TypeOK, StreamReset, DiscardSendState, Reading
<1>8. SenderInv'
  BY <1>a, <1>b DEF SenderInv, TypeOK, StreamReset, DiscardSendState, Reading
<1>9. ReaderInv'
  BY <1>a, <1>b DEF ReaderInv, TypeOK, StreamReset, DiscardSendState, Reading
<1>10. OpenInv'
  BY <1>a, <1>b DEF OpenInv, TypeOK, StreamReset, DiscardSendState, Reading, Idling
<1>11. ByeInv'
  BY <1>a, <1>b DEF ByeInv, TypeOK, StreamReset, DiscardSendState, Reading, Orphaned
<1>12. IdleInv'
  BY <1>a, <1>b
  DEF IdleInv, TypeOK, StreamReset, DiscardSendState, Reading, Orphaned, Idling
<1>13. NeverLeftBlocked'
  BY <1>a, <1>b DEF NeverLeftBlocked, TypeOK, StreamReset, DiscardSendState, Reading
<1>14. SendStateConsistent'
  BY <1>a, <1>b DEF SendStateConsistent, TypeOK, StreamReset, DiscardSendState, Reading
<1>15. EndStreamAfterBody'
  BY <1>a, <1>b DEF EndStreamAfterBody, TypeOK, StreamReset, DiscardSendState, Reading
<1>16. QED  BY <1>1, <1>2, <1>3, <1>4, <1>5, <1>6, <1>7, <1>8, <1>9, <1>10, <1>11, <1>12,
               <1>13, <1>14, <1>15

(* Every stream is closed. *)
LEMMA HandleClosedKeeps ==
    ASSUME IInv, HandleClosed, UNCHANGED reader
    PROVE  IInv'
<1> USE DEF IInv, keys, flags, h2, pushes, tasks, WriterGoes, SenderGoes, ReaderGoes
<1>1. TypeOK'
  BY HasDataOf DEF TypeOK, HandleClosed
<1>2. LifeInv'
  BY DEF LifeInv, TypeOK, HandleClosed
<1>3. OpenInv'
  BY DEF OpenInv, TypeOK, HandleClosed, Idling
<1>4. ByeInv'
  BY DEF ByeInv, TypeOK, HandleClosed, Orphaned
<1>5. IdleInv'
  BY DEF IdleInv, TypeOK, HandleClosed, Orphaned, Idling
<1>6. PromiseInv' /\ LibInv' /\ HeldInv' /\ EmptyInv' /\ SenderInv' /\ ReaderInv'
  BY DEF PromiseInv, LibInv, Unanswered, Answering, Finishing, HeldInv, EmptyInv, SenderInv,
         ReaderInv, HandleClosed
<1>7. NeverLeftBlocked' /\ CountInv' /\ SendStateConsistent' /\ EndStreamAfterBody'
  BY DEF NeverLeftBlocked, CountInv, Counted, SendStateConsistent, EndStreamAfterBody,
         HandleClosed
<1>8. QED  BY <1>1, <1>2, <1>3, <1>4, <1>5, <1>6, <1>7

(* The reader ends. *)
LEMMA ReaderEndsKeeps ==
    ASSUME IInv, ReaderEnds
    PROVE  IInv'
<1> USE DEF IInv, keys, flags, h2, pushes, tasks, WriterGoes, SenderGoes, ReaderGoes
<1>1. CountInv'
  BY DEF CountInv, TypeOK, ReaderEnds, Counted
<1>2. TypeOK'
  BY DEF TypeOK, ReaderEnds
<1>3. ReaderInv'
  BY DEF ReaderInv, TypeOK, ReaderEnds
<1>4. IdleInv'
  BY DEF IdleInv, TypeOK, ReaderEnds, Orphaned, Idling
<1>5. LifeInv' /\ PromiseInv' /\ LibInv' /\ HeldInv' /\ EmptyInv' /\ SenderInv'
  BY DEF LifeInv, PromiseInv, LibInv, Unanswered, Answering, Finishing, HeldInv, EmptyInv,
         SenderInv, ReaderEnds
<1>6. OpenInv' /\ ByeInv' /\ NeverLeftBlocked' /\ SendStateConsistent' /\ EndStreamAfterBody'
  BY DEF OpenInv, Idling, ByeInv, Orphaned, NeverLeftBlocked, SendStateConsistent,
         EndStreamAfterBody, ReaderEnds
<1>7. QED  BY <1>1, <1>2, <1>3, <1>4, <1>5, <1>6

(* The worker is terminated. *)
LEMMA TerminateKeeps ==
    ASSUME IInv, Terminate
    PROVE  IInv'
<1> USE DEF IInv, keys, flags, h2, pushes, tasks, WriterGoes, SenderGoes, ReaderGoes
<1>1. TypeOK'
  BY DEF TypeOK, Terminate
<1>2. LifeInv' /\ PromiseInv' /\ LibInv' /\ HeldInv' /\ EmptyInv' /\ SenderInv'
  BY DEF LifeInv, PromiseInv, LibInv, Unanswered, Answering, Finishing, HeldInv, EmptyInv,
         SenderInv, Terminate
<1>3. ReaderInv' /\ OpenInv' /\ ByeInv' /\ IdleInv' /\ NeverLeftBlocked' /\ CountInv'
  BY DEF ReaderInv, OpenInv, Idling, ByeInv, Orphaned, IdleInv, NeverLeftBlocked, CountInv,
         Counted, Terminate
<1>4. SendStateConsistent' /\ EndStreamAfterBody'
  BY DEF SendStateConsistent, EndStreamAfterBody, Terminate
<1>5. QED  BY <1>1, <1>2, <1>3, <1>4

(* The send task ends. *)
LEMMA SenderExitsKeeps ==
    ASSUME IInv, SenderExits
    PROVE  IInv'
<1> USE DEF IInv, keys, flags, h2, pushes, tasks, WriterGoes, SenderGoes, ReaderGoes
<1>1. TypeOK'
  BY DEF TypeOK, SenderExits
<1>2. LifeInv'
  BY ConnectionAssumption DEF LifeInv, TypeOK, SenderExits
<1>3. SenderInv'
  BY DEF SenderInv, TypeOK, SenderExits
<1>4. ReaderInv'
  BY DEF ReaderInv, TypeOK, SenderExits
<1>5. NeverLeftBlocked'
  BY DEF NeverLeftBlocked, TypeOK, SenderExits, SenderInv
<1>6. PromiseInv' /\ LibInv' /\ HeldInv' /\ EmptyInv' /\ OpenInv' /\ ByeInv'
  BY DEF PromiseInv, LibInv, Unanswered, Answering, Finishing, HeldInv, EmptyInv, OpenInv,
         Idling, ByeInv, Orphaned, SenderExits
<1>7. IdleInv' /\ CountInv' /\ SendStateConsistent' /\ EndStreamAfterBody'
  BY DEF IdleInv, Orphaned, Idling, CountInv, Counted, SendStateConsistent,
         EndStreamAfterBody, SenderExits
<1>8. QED  BY <1>1, <1>2, <1>3, <1>4, <1>5, <1>6, <1>7

(* The send task waits. *)
LEMMA SenderWaitsKeeps ==
    ASSUME IInv, SenderWaits
    PROVE  IInv'
<1> USE DEF IInv, keys, flags, h2, pushes, tasks, WriterGoes, SenderGoes, ReaderGoes
<1>1. TypeOK'
  BY HasDataOf DEF TypeOK, SenderWaits
<1>2. LifeInv'
  BY ConnectionAssumption DEF LifeInv, TypeOK, SenderWaits
<1>3. SenderInv'
  BY DEF SenderInv, TypeOK, SenderWaits
<1>4. ReaderInv'
  BY DEF ReaderInv, TypeOK, SenderWaits
<1>5. NeverLeftBlocked'
  BY DEF NeverLeftBlocked, TypeOK, SenderWaits, SenderInv
<1>6. PromiseInv' /\ LibInv' /\ HeldInv' /\ EmptyInv' /\ OpenInv' /\ ByeInv'
  BY DEF PromiseInv, LibInv, Unanswered, Answering, Finishing, HeldInv, EmptyInv, OpenInv,
         Idling, ByeInv, Orphaned, SenderWaits
<1>7. IdleInv' /\ CountInv' /\ SendStateConsistent' /\ EndStreamAfterBody'
  BY DEF IdleInv, Orphaned, Idling, CountInv, Counted, SendStateConsistent,
         EndStreamAfterBody, SenderWaits
<1>8. QED  BY <1>1, <1>2, <1>3, <1>4, <1>5, <1>6, <1>7

(* The send task is woken. *)
LEMMA SenderWokenKeeps ==
    ASSUME IInv, SenderWoken
    PROVE  IInv'
<1> USE DEF IInv, keys, flags, h2, pushes, tasks, WriterGoes, SenderGoes, ReaderGoes
<1>1. TypeOK'
  BY HasDataOf DEF TypeOK, SenderWoken
<1>2. LifeInv'
  BY ConnectionAssumption DEF LifeInv, TypeOK, SenderWoken
<1>3. SenderInv'
  BY DEF SenderInv, TypeOK, SenderWoken
<1>4. ReaderInv'
  BY DEF ReaderInv, TypeOK, SenderWoken
<1>5. NeverLeftBlocked'
  BY DEF NeverLeftBlocked, TypeOK, SenderWoken, SenderInv
<1>6. PromiseInv' /\ LibInv' /\ HeldInv' /\ EmptyInv' /\ OpenInv' /\ ByeInv'
  BY DEF PromiseInv, LibInv, Unanswered, Answering, Finishing, HeldInv, EmptyInv, OpenInv,
         Idling, ByeInv, Orphaned, SenderWoken
<1>7. IdleInv' /\ CountInv' /\ SendStateConsistent' /\ EndStreamAfterBody'
  BY DEF IdleInv, Orphaned, Idling, CountInv, Counted, SendStateConsistent,
         EndStreamAfterBody, SenderWoken
<1>8. QED  BY <1>1, <1>2, <1>3, <1>4, <1>5, <1>6, <1>7

(* END_STREAM is out. *)
LEMMA EndFlushedKeeps ==
    ASSUME IInv, EndFlushed
    PROVE  IInv'
<1> USE DEF IInv, keys, flags, h2, pushes, tasks, WriterGoes, SenderGoes, ReaderGoes
<1>1. TypeOK'
  BY DEF TypeOK, EndFlushed
<1>2. LifeInv'
  BY ConnectionAssumption DEF LifeInv, TypeOK, EndFlushed
<1>3. HeldInv'
  BY DEF HeldInv, TypeOK, EndFlushed, Finishing, SenderInv
<1>4. SenderInv'
  BY DEF SenderInv, TypeOK, EndFlushed
<1>5. ReaderInv'
  BY DEF ReaderInv, TypeOK, EndFlushed
<1>6. NeverLeftBlocked'
  BY DEF NeverLeftBlocked, TypeOK, EndFlushed
<1>7. SendStateConsistent'
  BY DEF SendStateConsistent, TypeOK, EndFlushed
<1>8. PromiseInv' /\ LibInv' /\ EmptyInv' /\ OpenInv' /\ ByeInv' /\ IdleInv'
  BY DEF PromiseInv, LibInv, Unanswered, Answering, Finishing, EmptyInv, OpenInv, Idling,
         ByeInv, Orphaned, IdleInv, EndFlushed
<1>9. CountInv' /\ EndStreamAfterBody'
  BY DEF CountInv, Counted, EndStreamAfterBody, EndFlushed
<1>10. QED  BY <1>1, <1>2, <1>3, <1>4, <1>5, <1>6, <1>7, <1>8, <1>9

-----------------------------------------------------------------------------
(* The branches that the send task's steps come down to.  b is the buffer of s as
   the step has popped it, and it tells its waiters what it should. *)
Popped(s, b) == b \in Buffer(Streams) /\ EmptyOf(s, b, writer[s]) /\ sender.on \in {NoStream, s}

Discards(s) ==
    /\ lib[s] = "reset" \/ s \notin held
    /\ sender.at # "unborn" /\ sender.on \in {NoStream, s}
    /\ DiscardSendState(s)
    /\ SenderGoes("next", NoStream)
    /\ UNCHANGED <<streams, hasData, flags, h2, pushes, writer, reader>>

Drops(s, b) ==
    /\ Popped(s, b)
    /\ s \in held /\ ~MaySendData(s) /\ (buf[s].complete \/ buf[s].len > 0)
    /\ buf' = [buf EXCEPT ![s] = CloseBuffer(b)]
    /\ held' = held \ {s} /\ tree' = tree \ {s} /\ active' = active \ {s}
    /\ SenderGoes("next", NoStream)
    /\ UNCHANGED <<streams, hasData, flags, h2, pushes, writer, reader>>

GoesOn(s, b, a) ==
    /\ Popped(s, b)
    /\ s \in held /\ b.len = buf[s].len /\ b.complete = buf[s].complete
    /\ a \subseteq active /\ active \ {s} \subseteq a
    /\ b.len > 0 /\ window[s] > 0 => s \in a
    /\ buf' = [buf EXCEPT ![s] = b]
    /\ active' = a
    /\ SenderGoes("next", NoStream)
    /\ UNCHANGED <<streams, held, tree, hasData, flags, h2, pushes, writer, reader>>

Ends(s, b, a) ==
    /\ Popped(s, b)
    /\ s \in held /\ b.len = buf[s].len /\ b.complete = buf[s].complete
    /\ Finished(b) /\ MaySendData(s)
    /\ a \subseteq active /\ active \ {s} \subseteq a
    /\ buf' = [buf EXCEPT ![s] = b]
    /\ active' = a
    /\ lib' = [lib EXCEPT ![s] = "ended"]
    /\ SenderGoes("ended", s)
    /\ UNCHANGED <<streams, held, tree, hasData, flags, conn, window, sent, pushes, writer, reader>>

Sends(s, b) ==
    /\ Popped(s, b)
    /\ s \in held /\ s \in active /\ MaySendData(s) /\ window[s] > 0
    /\ buf[s].len > 0 /\ b.len = buf[s].len - 1 /\ b.complete = buf[s].complete
    /\ buf' = [buf EXCEPT ![s] = b]
    /\ sent' = [sent EXCEPT ![s] = @ + 1]
    /\ window' = [window EXCEPT ![s] = @ - 1]
    /\ SenderGoes("sent", s)
    /\ UNCHANGED <<streams, held, tree, active, hasData, flags, conn, lib, pushes, writer, reader>>

(* A stream that cannot be sent on is discarded. *)
LEMMA DiscardKeeps ==
    ASSUME IInv, NEW s \in Streams, Discards(s)
    PROVE  IInv'
<1> USE DEF IInv, keys, flags, h2, pushes, tasks, WriterGoes, SenderGoes, ReaderGoes
<1>a. CloseBuffer(buf[s]) \in Buffer(Streams) /\ CloseBuffer(buf[s]).len = 0
  BY BufferOf
<1>b. EmptyOf(s, CloseBuffer(buf[s]), writer[s])
  <2>1. EmptyOf(s, buf[s], writer[s]) /\ buf[s] \in Buffer(Streams) /\ 1 \in {0, 1}
    BY BufferOf DEF EmptyInv
  <2>2. QED  BY <2>1, EmptyKept
<1>1. TypeOK'
  BY <1>a, <1>b, ConnectionAssumption DEF TypeOK, Discards, DiscardSendState
<1>2. LifeInv'
  BY <1>a, <1>b, ConnectionAssumption DEF LifeInv, TypeOK, Discards, DiscardSendState
<1>3. HeldInv'
  BY <1>a, <1>b DEF HeldInv, TypeOK, Discards, DiscardSendState, Finishing
<1>4. EmptyInv'
  BY <1>a, <1>b DEF EmptyInv, TypeOK, Discards, DiscardSendState
<1>5. SenderInv'
  BY <1>a, <1>b DEF SenderInv, TypeOK, Discards, DiscardSendState
<1>6. ReaderInv'
  BY <1>a, <1>b DEF ReaderInv, TypeOK, Discards, DiscardSendState
<1>7. NeverLeftBlocked'
  BY <1>a, <1>b DEF NeverLeftBlocked, TypeOK, Discards, DiscardSendState
<1>8. SendStateConsistent'
  BY <1>a, <1>b DEF SendStateConsistent, TypeOK, Discards, DiscardSendState
<1>9. PromiseInv' /\ LibInv' /\ OpenInv' /\ ByeInv' /\ IdleInv' /\ CountInv'
  BY DEF PromiseInv, LibInv, Unanswered, Answering, Finishing, OpenInv, Idling, ByeInv,
         Orphaned, IdleInv, CountInv, Counted, Discards, DiscardSendState
<1>10. EndStreamAfterBody'
  BY DEF EndStreamAfterBody, Discards, DiscardSendState
<1>11. QED  BY <1>1, <1>2, <1>3, <1>4, <1>5, <1>6, <1>7, <1>8, <1>9, <1>10

(* A stream that the library refuses to send on is dropped. *)
LEMMA DropKeeps ==
    ASSUME IInv, NEW s \in Streams, NEW b, Drops(s, b)
    PROVE  IInv'
<1> USE DEF IInv, keys, flags, h2, pushes, tasks, WriterGoes, SenderGoes, ReaderGoes
<1>a. b \in Buffer(Streams) /\ EmptyOf(s, b, writer[s]) /\ b.len \in Nat /\ b.complete \in BOOLEAN
  BY DEF Drops, Popped, Buffer
<1>b. buf[s].len \in Nat /\ buf[s].complete \in BOOLEAN /\ writer[s] # "none"
  BY BufferOf DEF Drops, LifeInv
<1>c. /\ CloseBuffer(b) \in Buffer(Streams) /\ CloseBuffer(b).len = 0
      /\ EmptyOf(s, CloseBuffer(b), writer[s])
  <2>1. 1 \in {0, 1}
    OBVIOUS
  <2>2. QED  BY <1>a, <2>1, EmptyKept, BufferOperators, BufferLengths
<1>1. TypeOK'
  BY <1>a, <1>b, <1>c, ConnectionAssumption DEF TypeOK, Drops, MaySendData
<1>2. LifeInv'
  BY <1>a, <1>b, <1>c, ConnectionAssumption DEF LifeInv, TypeOK, Drops, MaySendData
<1>3. HeldInv'
  BY <1>a, <1>b, <1>c DEF HeldInv, TypeOK, Drops, MaySendData, Finishing
<1>4. EmptyInv'
  BY <1>a, <1>b, <1>c DEF EmptyInv, TypeOK, Drops, MaySendData
<1>5. SenderInv'
  BY <1>a, <1>b, <1>c DEF SenderInv, TypeOK, Drops, MaySendData
<1>6. ReaderInv'
  BY <1>a, <1>b, <1>c DEF ReaderInv, TypeOK, Drops, MaySendData
<1>7. NeverLeftBlocked'
  BY <1>a, <1>b, <1>c, ConnectionAssumption
  DEF NeverLeftBlocked, TypeOK, Drops, MaySendData, Popped
<1>8. SendStateConsistent'
  BY <1>a, <1>b, <1>c DEF SendStateConsistent, TypeOK, Drops, MaySendData
<1>9. PromiseInv' /\ LibInv' /\ OpenInv' /\ ByeInv' /\ IdleInv' /\ CountInv'
  BY DEF PromiseInv, LibInv, Unanswered, Answering, Finishing, OpenInv, Idling, ByeInv,
         Orphaned, IdleInv, CountInv, Counted, Drops, MaySendData
<1>10. EndStreamAfterBody'
  BY DEF EndStreamAfterBody, Drops, MaySendData
<1>11. QED  BY <1>1, <1>2, <1>3, <1>4, <1>5, <1>6, <1>7, <1>8, <1>9, <1>10

(* Something is left to send, or has yet to come. *)
LEMMA GoOnKeeps ==
    ASSUME IInv, NEW s \in Streams, NEW b, NEW a, GoesOn(s, b, a)
    PROVE  IInv'
<1> USE DEF IInv, keys, flags, h2, pushes, tasks, WriterGoes, SenderGoes, ReaderGoes
<1>a. b \in Buffer(Streams) /\ EmptyOf(s, b, writer[s]) /\ b.len \in Nat /\ b.complete \in BOOLEAN
  BY DEF GoesOn, Popped, Buffer
<1>b. buf[s].len \in Nat /\ buf[s].complete \in BOOLEAN /\ writer[s] # "none"
  BY BufferOf DEF GoesOn, LifeInv
<1>1. TypeOK'
  BY <1>a, <1>b, ConnectionAssumption DEF TypeOK, GoesOn
<1>2. LifeInv'
  BY <1>a, <1>b, ConnectionAssumption DEF LifeInv, TypeOK, GoesOn
<1>3. HeldInv'
  BY <1>a, <1>b DEF HeldInv, TypeOK, GoesOn, Finishing
<1>4. EmptyInv'
  BY <1>a, <1>b DEF EmptyInv, TypeOK, GoesOn
<1>5. SenderInv'
  BY <1>a, <1>b DEF SenderInv, TypeOK, GoesOn
<1>6. ReaderInv'
  BY <1>a, <1>b DEF ReaderInv, TypeOK, GoesOn
<1>7. NeverLeftBlocked'
  BY <1>a, <1>b DEF NeverLeftBlocked, TypeOK, GoesOn, Popped
<1>8. PromiseInv' /\ LibInv' /\ OpenInv' /\ ByeInv' /\ IdleInv' /\ CountInv'
  BY DEF PromiseInv, LibInv, Unanswered, Answering, Finishing, OpenInv, Idling, ByeInv,
         Orphaned, IdleInv, CountInv, Counted, GoesOn
<1>9. SendStateConsistent' /\ EndStreamAfterBody'
  BY DEF SendStateConsistent, EndStreamAfterBody, GoesOn
<1>10. QED  BY <1>1, <1>2, <1>3, <1>4, <1>5, <1>6, <1>7, <1>8, <1>9

(* The stream is ended. *)
LEMMA EndKeeps ==
    ASSUME IInv, NEW s \in Streams, NEW b, NEW a, Ends(s, b, a)
    PROVE  IInv'
<1> USE DEF IInv, keys, flags, h2, pushes, tasks, WriterGoes, SenderGoes, ReaderGoes
<1>a. b \in Buffer(Streams) /\ EmptyOf(s, b, writer[s]) /\ b.len \in Nat /\ b.complete \in BOOLEAN
  BY DEF Ends, Popped, Buffer
<1>b. buf[s].len \in Nat /\ buf[s].complete \in BOOLEAN /\ writer[s] # "none"
  BY BufferOf DEF Ends, LifeInv
<1>c. b.complete /\ buf[s].len = 0 /\ lib[s] = "headers" /\ writer[s] \in Finishing
  BY <1>a, <1>b DEF Ends, Finished, MaySendData, HeldInv
<1>1. CountInv'
  BY <1>a, <1>b, <1>c DEF CountInv, TypeOK, Ends, Finished, MaySendData, Counted
<1>2. TypeOK'
  BY <1>a, <1>b, <1>c DEF TypeOK, Ends, Finished, MaySendData
<1>3. LifeInv'
  BY <1>a, <1>b, <1>c, ConnectionAssumption DEF LifeInv, TypeOK, Ends, Finished, MaySendData
<1>4. PromiseInv'
  BY <1>a, <1>b, <1>c DEF PromiseInv, TypeOK, Ends, Finished, MaySendData
<1>5. LibInv'
  BY <1>a, <1>b, <1>c
  DEF LibInv, TypeOK, Ends, Finished, MaySendData, Unanswered, Answering, Finishing
<1>6. HeldInv'
  BY <1>a, <1>b, <1>c DEF HeldInv, TypeOK, Ends, Finished, MaySendData, Finishing
<1>7. EmptyInv'
  BY <1>a, <1>b, <1>c DEF EmptyInv, TypeOK, Ends, Finished, MaySendData
<1>8. SenderInv'
  BY <1>a, <1>b, <1>c, ConnectionAssumption
  DEF SenderInv, TypeOK, Ends, Finished, MaySendData
<1>9. ReaderInv'
  BY <1>a, <1>b, <1>c DEF ReaderInv, TypeOK, Ends, Finished, MaySendData
<1>10. OpenInv'
  BY <1>a, <1>b, <1>c DEF OpenInv, TypeOK, Ends, Finished, MaySendData, Idling
<1>11. ByeInv'
  BY <1>a, <1>b, <1>c DEF ByeInv, TypeOK, Ends, Finished, MaySendData, Orphaned
<1>12. IdleInv'
  BY <1>a, <1>b, <1>c DEF IdleInv, TypeOK, Ends, Finished, MaySendData, Orphaned, Idling
<1>13. NeverLeftBlocked'
  BY <1>a, <1>b, <1>c, ConnectionAssumption
  DEF NeverLeftBlocked, TypeOK, Ends, Finished, MaySendData, Popped
<1>14. SendStateConsistent'
  BY <1>a, <1>b, <1>c DEF SendStateConsistent, TypeOK, Ends, Finished, MaySendData
<1>15. EndStreamAfterBody'
  BY <1>a, <1>b, <1>c DEF EndStreamAfterBody, TypeOK, Ends, Finished, MaySendData, HeldInv
<1>16. QED  BY <1>1, <1>2, <1>3, <1>4, <1>5, <1>6, <1>7, <1>8, <1>9, <1>10, <1>11, <1>12,
               <1>13, <1>14, <1>15

(* A chunk is sent. *)
LEMMA SendKeeps ==
    ASSUME IInv, NEW s \in Streams, NEW b, Sends(s, b)
    PROVE  IInv'
<1> USE DEF IInv, keys, flags, h2, pushes, tasks, WriterGoes, SenderGoes, ReaderGoes
<1>a. b \in Buffer(Streams) /\ EmptyOf(s, b, writer[s]) /\ b.len \in Nat /\ b.complete \in BOOLEAN
  BY DEF Sends, Popped, Buffer
<1>b. buf[s].len \in Nat /\ buf[s].complete \in BOOLEAN /\ writer[s] # "none"
  BY BufferOf DEF Sends, LifeInv
<1>c. /\ lib[s] = "headers" /\ window[s] \in 0..MaxWindow
      /\ sent[s] \in Nat /\ pushed[s] \in 0..MaxBody
  BY ConnectionAssumption DEF Sends, MaySendData, TypeOK
<1>d. sent[s] + buf[s].len = pushed[s]
  BY DEF Sends, HeldInv
<1>1. TypeOK'
  BY <1>a, <1>b, <1>c, <1>d, ConnectionAssumption DEF TypeOK, Sends, MaySendData
<1>2. LifeInv'
  BY <1>a, <1>b, <1>c, <1>d, ConnectionAssumption DEF LifeInv, TypeOK, Sends, MaySendData
<1>3. HeldInv'
  BY <1>a, <1>b, <1>c, <1>d DEF HeldInv, TypeOK, Sends, MaySendData, Finishing
<1>4. EmptyInv'
  BY <1>a, <1>b, <1>c, <1>d DEF EmptyInv, TypeOK, Sends, MaySendData
<1>5. SenderInv'
  BY <1>a, <1>b, <1>c, <1>d, ConnectionAssumption DEF SenderInv, TypeOK, Sends, MaySendData
<1>6. ReaderInv'
  BY <1>a, <1>b, <1>c, <1>d DEF ReaderInv, TypeOK, Sends, MaySendData
<1>7. NeverLeftBlocked'
  BY <1>a, <1>b, <1>c, <1>d, ConnectionAssumption
  DEF NeverLeftBlocked, TypeOK, Sends, MaySendData, Popped
<1>8. EndStreamAfterBody'
  BY <1>a, <1>b, <1>c, <1>d DEF EndStreamAfterBody, TypeOK, Sends, MaySendData
<1>9. PromiseInv' /\ LibInv' /\ OpenInv' /\ ByeInv' /\ IdleInv' /\ CountInv'
  BY DEF PromiseInv, LibInv, Unanswered, Answering, Finishing, OpenInv, Idling, ByeInv,
         Orphaned, IdleInv, CountInv, Counted, Sends, MaySendData
<1>10. SendStateConsistent'
  BY DEF SendStateConsistent, Sends, MaySendData
<1>11. QED  BY <1>1, <1>2, <1>3, <1>4, <1>5, <1>6, <1>7, <1>8, <1>9, <1>10

(* _send_data from its test of complete is one of the branches. *)
LEMMA EndOrNextKeeps ==
    ASSUME IInv, NEW s \in Streams, NEW b, NEW a, Popped(s, b), s \in held,
           b.len = buf[s].len, b.complete = buf[s].complete,
           a \subseteq active, active \ {s} \subseteq a,
           b.len > 0 /\ window[s] > 0 => s \in a,
           EndStreamOrNext(s, b, a),
           UNCHANGED <<streams, hasData, flags, conn, window, sent, pushes, writer, reader>>
    PROVE  IInv'
<1>1. CASE ~Finished(b)
  <2>1. GoesOn(s, b, a)
    BY <1>1 DEF EndStreamOrNext, GoesOn, h2
  <2>2. QED  BY <2>1, GoOnKeeps
<1>2. CASE Finished(b) /\ MaySendData(s)
  <2>1. Ends(s, b, a)
    BY <1>2 DEF EndStreamOrNext, Ends
  <2>2. QED  BY <2>1, EndKeeps
<1>3. CASE Finished(b) /\ ~MaySendData(s)
  <2>1. buf[s].complete
    BY <1>3 DEF Finished
  <2>2. Drops(s, b)
    BY <1>3, <2>1 DEF EndStreamOrNext, Drops, h2
  <2>3. QED  BY <2>2, DropKeeps
<1>4. QED  BY <1>1, <1>2, <1>3

(* A turn of the send task. *)
LEMMA SendDataKeeps ==
    ASSUME IInv, NEW s \in Streams, SendData(s)
    PROVE  IInv'
<1> DEFINE n == IF window[s] > 0 THEN 1 ELSE 0
           b == PopBuffer(buf[s], n)
<1>1. sender.at = "next" /\ s \in active /\ sender.on = NoStream
  BY DEF SendData, IInv, SenderInv
<1>2. UNCHANGED <<streams, hasData, flags, conn, pushes, writer, reader>>
  BY DEF SendData
<1>3. /\ buf[s] \in Buffer(Streams) /\ buf[s].len \in Nat
      /\ window[s] \in Nat /\ n \in {0, 1} /\ n \in Nat
  <2>1. TypeOK
    BY DEF IInv
  <2>2. window[s] \in Nat
    BY <2>1, ConnectionAssumption DEF TypeOK
  <2>3. QED  BY <2>1, <2>2, BufferOf
<1>4. b \in Buffer(Streams) /\ b.complete = buf[s].complete /\ b.len = Rest(buf[s], n)
  <2>1. \A m \in Nat : /\ PopBuffer(buf[s], m) \in Buffer(Streams)
                       /\ PopBuffer(buf[s], m).complete = buf[s].complete
                       /\ PopBuffer(buf[s], m).len = Rest(buf[s], m)
    <3>1. \A m \in Nat : PopBuffer(buf[s], m) \in Buffer(Streams)
      BY <1>3, BufferOperators
    <3>2. \A m \in Nat : PopBuffer(buf[s], m).complete = buf[s].complete
      BY <1>3, BufferCompleteness
    <3>3. \A m \in Nat : PopBuffer(buf[s], m).len = Rest(buf[s], m)
      BY <1>3, BufferLengths
    <3>4. QED  BY <3>1, <3>2, <3>3
  <2>2. QED  BY <1>3, <2>1
<1>5. Popped(s, b)
  <2>1. EmptyOf(s, buf[s], writer[s])
    BY DEF IInv, EmptyInv
  <2>2. EmptyOf(s, b, writer[s])
    BY <1>3, <2>1, EmptyKept
  <2>3. QED  BY <1>1, <1>4, <2>2 DEF Popped
<1>6. CASE lib[s] = "reset" \/ s \notin held
  <2>1. Discards(s)
    BY <1>1, <1>2, <1>6 DEF SendData, Discards, h2
  <2>2. QED  BY <2>1, DiscardKeeps
<1>7. CASE ~(lib[s] = "reset" \/ s \notin held) /\ (n = 0 \/ buf[s].len = 0)
  <2>1. EndStreamOrNext(s, b, active \ {s}) /\ UNCHANGED <<sent, window>>
    BY <1>7 DEF SendData
  <2>2. b.len = buf[s].len /\ ~(b.len > 0 /\ window[s] > 0)
    BY <1>3, <1>4, <1>7 DEF Rest
  <2>3. QED  BY <1>2, <1>4, <1>5, <1>7, <2>1, <2>2, EndOrNextKeeps
<1>8. CASE ~(lib[s] = "reset" \/ s \notin held) /\ ~(n = 0 \/ buf[s].len = 0)
  <2>1. b.len = buf[s].len - 1 /\ buf[s].len > 0 /\ window[s] > 0
    BY <1>3, <1>4, <1>8 DEF Rest
  <2>2. CASE MaySendData(s)
    <3>1. Sends(s, b)
      BY <1>1, <1>2, <1>4, <1>5, <1>8, <2>1, <2>2 DEF SendData, Sends
    <3>2. QED  BY <3>1, SendKeeps
  <2>3. CASE ~MaySendData(s)
    <3>1. Drops(s, b)
      BY <1>2, <1>5, <1>8, <2>1, <2>3 DEF SendData, Drops, h2
    <3>2. QED  BY <3>1, DropKeeps
  <2>4. QED  BY <2>2, <2>3
<1>9. QED  BY <1>6, <1>7, <1>8

(* Its data is flushed. *)
LEMMA DataFlushedKeeps ==
    ASSUME IInv, DataFlushed
    PROVE  IInv'
<1> DEFINE s == sender.on
<1>1. sender.at = "sent" /\ s \in Streams
  BY DEF DataFlushed, IInv, SenderInv, TypeOK
<1>2. UNCHANGED <<streams, hasData, flags, conn, window, sent, pushes, writer, reader>>
  BY DEF DataFlushed
<1>3. CASE s \in held
  <2>1. EndStreamOrNext(s, buf[s], active)
    BY <1>3 DEF DataFlushed
  <2>2. s \in active
    BY <1>1, <1>3 DEF IInv, SenderInv
  <2>3. Popped(s, buf[s])
    BY <1>1 DEF Popped, IInv, EmptyInv, TypeOK
  <2>4. QED  BY <1>1, <1>2, <1>3, <2>1, <2>2, <2>3, EndOrNextKeeps
<1>4. CASE s \notin held
  <2>1. Discards(s)
    BY <1>1, <1>2, <1>4 DEF DataFlushed, Discards, h2
  <2>2. QED  BY <1>1, <2>1, DiscardKeeps
<1>5. QED  BY <1>3, <1>4

-----------------------------------------------------------------------------
(* At the start nobody has asked for anything. *)
LEMMA InitIInv ==
    ASSUME ConnectionAssumption, Init
    PROVE  IInv
<1> USE DEF Init
<1>1. NewBuffer \in Buffer(Streams) /\ NewBuffer.len = 0 /\ ~NewBuffer.complete
  BY DEF NewBuffer, NewEvent, Buffer, Event
<1>2. \A s \in Streams : EmptyOf(s, NewBuffer, "none")
  <2>1. \A s \in Streams : NewBuffer.len = 0
    BY <1>1
  <2>2. QED  BY DEF EmptyOf, NewBuffer, NewEvent
<1>3. NewEvent \in Event({"sender"})
  BY DEF NewEvent, Event
<1>4. 0 \in 0..Cardinality(Streams) /\ Counted = {}
  BY ConnectionAssumption, FS_CardinalityType DEF Counted
<1>s. /\ idle \in BOOLEAN /\ sender.on = NoStream /\ reader.on = NoStream
      /\ sender.at \in {"unborn", "next"} /\ reader.at \in {"initiating", "ready"}
      /\ reader.at = "initiating" => ~idle /\ sender.at = "unborn"
      /\ sender = [at |-> sender.at, on |-> NoStream]
      /\ reader = [at |-> reader.at, on |-> NoStream]
  <2>1. CASE idle = FALSE /\ sender = [at |-> "unborn", on |-> NoStream]
             /\ reader = [at |-> "initiating", on |-> NoStream]
    BY <2>1
  <2>2. CASE idle \in BOOLEAN /\ sender = [at |-> "next", on |-> NoStream]
             /\ reader = [at |-> "ready", on |-> NoStream]
    BY <2>2
  <2>3. QED  BY <2>1, <2>2
<1>5. TypeOK
  <2>1. /\ sender \in [at : {"unborn", "next", "waiting", "sent", "ended", "exited"},
                       on : Streams \cup {NoStream}]
        /\ reader \in [at : {"initiating", "ready", "refusing", "counting", "gone"},
                       on : Streams \cup {NoStream}]
    BY <1>s
  <2>2. /\ MaxWindow \in 0..MaxWindow /\ 0 \in 0..MaxBody
    BY ConnectionAssumption
  <2>3. QED  BY <1>1, <1>3, <1>4, <1>s, <2>1, <2>2 DEF TypeOK
<1>6. LifeInv /\ EmptyInv
  BY <1>1, <1>2, ConnectionAssumption DEF LifeInv, EmptyInv
<1>7. PromiseInv /\ LibInv /\ OpenInv /\ ByeInv
  BY DEF PromiseInv, LibInv, OpenInv, ByeInv, Unanswered, Answering, Finishing, Idling
<1>8. HeldInv /\ NeverLeftBlocked /\ SendStateConsistent /\ EndStreamAfterBody
  BY ConnectionAssumption DEF HeldInv, NeverLeftBlocked, SendStateConsistent, EndStreamAfterBody
<1>9. SenderInv /\ ReaderInv /\ IdleInv
  BY <1>s DEF SenderInv, ReaderInv, IdleInv
<1>10. CountInv
  BY <1>4, FS_EmptySet DEF CountInv
<1>11. QED  BY <1>5, <1>6, <1>7, <1>8, <1>9, <1>10 DEF IInv

(* A step that changes nothing keeps everything. *)
LEMMA StutterKeeps ==
    ASSUME IInv, UNCHANGED vars
    PROVE  IInv'
<1> USE DEF IInv, vars, keys, flags, h2, pushes, tasks
<1>1. TypeOK' /\ LifeInv' /\ PromiseInv' /\ LibInv'
  BY DEF TypeOK, LifeInv, PromiseInv, LibInv
<1>2. HeldInv' /\ EmptyInv' /\ SenderInv' /\ ReaderInv'
  BY DEF HeldInv, EmptyInv, SenderInv, ReaderInv
<1>3. OpenInv' /\ ByeInv' /\ IdleInv'
  BY DEF OpenInv, ByeInv, Orphaned, IdleInv
<1>4. NeverLeftBlocked' /\ CountInv' /\ SendStateConsistent' /\ EndStreamAfterBody'
  BY DEF NeverLeftBlocked, CountInv, Counted, SendStateConsistent, EndStreamAfterBody
<1>5. QED  BY <1>1, <1>2, <1>3, <1>4

(* Every step of the connection keeps the invariant. *)
LEMMA Preserved ==
    ASSUME IInv, [Next]_vars
    PROVE  IInv'
<1>1. ASSUME NEW s \in Streams, Client(s)
      PROVE  IInv'
  BY <1>1, RequestReceivedKeeps, RequestTurnedAwayKeeps, StreamResetKeeps,
     WindowUpdatedKeeps, 
     PriorityUpdatedKeeps DEF Client
<1>2. ASSUME NEW s \in Streams, Application(s)
      PROVE  IInv'
  BY <1>2, StartResponseKeeps, GiveUpKeeps, BodyKeeps, BodyDiscardedKeeps, TrailersKeeps,
     EndBodyKeeps, QuitResponseKeeps, ServerPushKeeps DEF Application
<1>3. ASSUME NEW s \in Streams, Resumed(s)
      PROVE  IInv'
  BY <1>3, HeadersFlushedKeeps, BodyAcceptedKeeps, TrailersSentKeeps, BodyDrainedKeeps,
     StreamClosedKeeps, GoawayFlushedKeeps, PushCreatedKeeps, PushRefusedKeeps DEF Resumed
<1>4. SenderStep => IInv'
  BY SenderExitsKeeps, SenderWaitsKeeps, SenderWokenKeeps, DataFlushedKeeps, EndFlushedKeeps
  DEF SenderStep
<1>5. ReaderStep => IInv'
  BY RefusalReturnsKeeps, RequestCountedKeeps, HandleClosedKeeps, ReaderEndsKeeps
  DEF ReaderStep, FrameAfterGoaway
<1>6. ConnectionLost \/ IdleTimeout => IInv'
  BY HandleClosedKeeps DEF ConnectionLost, IdleTimeout
<1>7. Upgrade(Upgraded) => IInv'
  BY UpgradeKeeps, ConnectionAssumption
<1>8. QED  BY <1>1, <1>2, <1>3, <1>4, <1>5, <1>6, <1>7, SendDataKeeps, AllUnblockedKeeps,
              TerminateKeeps, StutterKeeps DEF Next

-----------------------------------------------------------------------------
(* The invariant holds of every connection, however many streams it has. *)
THEOREM Invariant == Spec => []IInv
<1>1. Init => IInv
  BY InitIInv, ConnectionAssumption
<1>2. IInv /\ [Next]_vars => IInv'
  BY Preserved
<1>3. QED  BY <1>1, <1>2, PTL DEF Spec

(* The tables, the view of the library and the tasks keep their types. *)
THEOREM TypeCorrect == Spec => []TypeOK
<1>1. IInv => TypeOK
  BY DEF IInv
<1>2. QED  BY <1>1, Invariant, PTL

(* END_STREAM never leaves before a chunk the application pushed. *)
THEOREM EndStreamAfterBodyHolds == Spec => []EndStreamAfterBody
<1>1. IInv => EndStreamAfterBody
  BY DEF IInv
<1>2. QED  BY <1>1, Invariant, PTL

(* The priority tree and the send buffers agree: a buffer has its place, what the
   client reset has no buffer, and a chunk that the window would let go is never
   left blocked. *)
THEOREM TreeCorrect == Spec => []TreeAgrees
<1>1. IInv => TreeAgrees
  BY DEF IInv, TreeAgrees
<1>2. QED  BY <1>1, Invariant, PTL

(* The idle timer is not armed while a request is in hand. *)
THEOREM TimerStopped == Spec => []NotIdleWhileServing
<1>1. IInv => NotIdleWhileServing
  BY DEF IInv, IdleInv, NotIdleWhileServing
<1>2. QED  BY <1>1, Invariant, PTL

(* The timer of a connection that has answered everything runs. *)
THEOREM TimerRuns == Spec => []IdleOnceAnswered
<1>1. IInv => IdleOnceAnswered
  BY DEF IInv, IdleInv, IdleOnceAnswered, Quiet
<1>2. QED  BY <1>1, Invariant, PTL
-----------------------------------------------------------------------------
(* A stream nobody has written to has the buffer it was given. *)
FreshInv == \A s \in Streams : writer[s] = "none" => buf[s] = NewBuffer

(* Where BufferWriters has a writer that is at a place of this module. *)
PlaceOf(at) == CASE at = "pushing" -> "pushing"
                 [] at \in {"trailers", "draining"} -> "draining"
                 [] OTHER -> "ready"

(* What may become of the buffer b of the stream s, and of its writer. *)
Uses(s, b, c, from, to) ==
    \/ c = b /\ to = from
    \/ /\ from = "ready" /\ ~b.complete
       /\ c = PushBuffer(b, s, 1)
       /\ to = IF b.len + 1 >= High THEN "pushing" ELSE "ready"
    \/ from = "pushing" /\ s \in b.paused.woken /\ c = EndPush(b, s) /\ to = "ready"
    \/ from = "ready" /\ c = DrainBuffer(CompleteBuffer(b), s) /\ to = "draining"
    \/ from = "ready" /\ c = DrainBuffer(b, s) /\ to = "draining"
    \/ from = "draining" /\ s \in b.empty.woken /\ c = EndDrain(b, s) /\ to = "ready"
    \/ (\E n \in 0..1 : c = PopBuffer(b, n)) /\ to = from
    \/ c = CloseBuffer(b) /\ to = from

Used == \A s \in Streams :
    /\ Uses(s, buf[s], buf'[s], PlaceOf(writer[s]), PlaceOf(writer'[s]))
    /\ writer'[s] = "none" => writer[s] = "none" /\ buf'[s] = buf[s]

(* One writer moves, between two calls or into the next: the buffers stay. *)
LEMMA WriterUses ==
    ASSUME IInv, NEW s \in Streams, NEW place, WriterGoes(s, place), place # "none",
           PlaceOf(place) = PlaceOf(writer[s]), buf' = buf
    PROVE  Used
<1>1. \A t \in Streams : t # s => writer'[t] = writer[t]
  BY DEF WriterGoes, IInv, TypeOK
<1>2. writer'[s] = place
  BY DEF WriterGoes, IInv, TypeOK
<1>3. QED  BY <1>1, <1>2 DEF Used, Uses

(* ... or one buffer does with its writer. *)
LEMMA BufferUses ==
    ASSUME IInv, NEW s \in Streams, NEW place, WriterGoes(s, place), place # "none",
           NEW b, buf' = [buf EXCEPT ![s] = b],
           Uses(s, buf[s], b, PlaceOf(writer[s]), PlaceOf(place))
    PROVE  Used
<1>1. \A t \in Streams : t # s => writer'[t] = writer[t] /\ buf'[t] = buf[t]
  BY DEF WriterGoes, IInv, TypeOK
<1>2. writer'[s] = place /\ buf'[s] = b
  BY DEF WriterGoes, IInv, TypeOK
<1>3. QED  BY <1>1, <1>2 DEF Used, Uses

(* The send task and the reader pop from a buffer or close it. *)
LEMMA SenderUses ==
    ASSUME IInv, NEW s \in Streams, writer[s] # "none", writer' = writer,
           NEW b, buf' = [buf EXCEPT ![s] = b],
           b = buf[s] \/ b = CloseBuffer(buf[s]) \/ \E n \in 0..1 : b = PopBuffer(buf[s], n)
    PROVE  Used
<1>1. \A t \in Streams : t # s => buf'[t] = buf[t]
  BY DEF IInv, TypeOK
<1>2. buf'[s] = b
  BY DEF IInv, TypeOK
<1>3. QED  BY <1>1, <1>2 DEF Used, Uses

(* A buffer that is given anew was new. *)
LEMMA CreateUses ==
    ASSUME IInv, FreshInv, NEW s \in Streams, writer[s] = "none", CreateStream(s),
           \A t \in Streams : \/ writer'[t] = writer[t]
                              \/ PlaceOf(writer'[t]) = PlaceOf(writer[t]) /\ writer'[t] # "none"
    PROVE  Used
<1>1. \A t \in Streams : buf'[t] = buf[t]
  BY DEF CreateStream, FreshInv, IInv, TypeOK
<1>2. QED  BY <1>1 DEF Used, Uses

(* What an application sends, and what its writer goes on to. *)
LEMMA ApplicationUses ==
    ASSUME IInv, NEW s \in Streams, Application(s)
    PROVE  Used
<1>1. CASE \/ StartResponse(s) \/ GiveUp(s) \/ QuitResponse(s)
           \/ \E p \in Promised : ServerPush(s, p)
  <2>1. PICK place \in {"head", "errhead", "gone", "closing", "promising"} : WriterGoes(s, place)
    BY <1>1 DEF StartResponse, GiveUp, QuitResponse, ServerPush
  <2>2. buf' = buf /\ writer[s] \in {"start", "respond"}
    BY <1>1 DEF StartResponse, GiveUp, QuitResponse, ServerPush
  <2>3. PlaceOf(place) = "ready" /\ PlaceOf(writer[s]) = "ready" /\ place # "none"
    BY <2>1, <2>2 DEF PlaceOf
  <2>4. QED  BY <2>1, <2>2, <2>3, WriterUses
<1>2. CASE Body(s)
  <2>1. /\ writer[s] = "respond" /\ s \in held
        /\ buf' = [buf EXCEPT ![s] = PushBuffer(@, s, 1)]
        /\ WriterGoes(s, IF buf'[s].len >= High THEN "pushing" ELSE "respond")
    BY <1>2 DEF Body
  <2>2. ~buf[s].complete
    BY <2>1 DEF IInv, HeldInv, Finishing
  <2>3. buf'[s] = PushBuffer(buf[s], s, 1) /\ buf'[s].len = buf[s].len + 1
    BY <2>1, BufferOf, BufferLengths DEF IInv, TypeOK
  <2>4. PICK place \in {"pushing", "respond"} :
            /\ WriterGoes(s, place)
            /\ place = IF buf[s].len + 1 >= High THEN "pushing" ELSE "respond"
    BY <2>1, <2>3
  <2>5. /\ PlaceOf(writer[s]) = "ready" /\ place # "none"
        /\ PlaceOf(place) = IF buf[s].len + 1 >= High THEN "pushing" ELSE "ready"
    BY <2>1, <2>4 DEF PlaceOf
  <2>6. QED  BY <2>1, <2>2, <2>4, <2>5, BufferUses DEF Uses
<1>3. CASE BodyDiscarded(s)
  BY <1>3 DEF BodyDiscarded, tasks, Used, Uses
<1>4. CASE Trailers(s)
  <2>1. PlaceOf("respond") = "ready" /\ PlaceOf("trailers") = "draining"
    BY DEF PlaceOf
  <2>2. QED  BY <1>4, <2>1, BufferUses DEF Trailers, Uses
<1>5. CASE EndBody(s)
  <2>1. PlaceOf(writer[s]) = "ready" /\ PlaceOf("draining") = "draining"
        /\ PlaceOf("closing") = "ready"
    BY <1>5 DEF EndBody, PlaceOf
  <2>2. CASE s \in held
    BY <1>5, <2>1, <2>2, BufferUses DEF EndBody, Uses
  <2>3. CASE s \notin held
    BY <1>5, <2>1, <2>3, WriterUses DEF EndBody
  <2>4. QED  BY <2>2, <2>3
<1>6. QED  BY <1>1, <1>2, <1>3, <1>4, <1>5 DEF Application

(* What a writer does when it is woken. *)
LEMMA ResumedUses ==
    ASSUME IInv, FreshInv, NEW s \in Streams, Resumed(s)
    PROVE  Used
<1>1. CASE HeadersFlushed(s) \/ StreamClosed(s) \/ GoawayFlushed(s) \/ PushRefused(s)
  <2>1. PICK place \in {"respond", "bye", "gone", "start"} : WriterGoes(s, place)
    BY <1>1 DEF HeadersFlushed, StreamClosed, GoawayFlushed, PushRefused
  <2>2. buf' = buf /\ writer[s] \in {"head", "closing", "bye", "pushrefusing"}
    BY <1>1 DEF HeadersFlushed, StreamClosed, GoawayFlushed, PushRefused
  <2>3. PlaceOf(place) = "ready" /\ PlaceOf(writer[s]) = "ready" /\ place # "none"
    BY <2>1, <2>2 DEF PlaceOf
  <2>4. QED  BY <2>1, <2>2, <2>3, WriterUses
<1>2. CASE BodyAccepted(s)
  <2>1. PlaceOf("pushing") = "pushing" /\ PlaceOf("respond") = "ready"
    BY DEF PlaceOf
  <2>2. QED  BY <1>2, <2>1, BufferUses DEF BodyAccepted, Uses
<1>3. CASE TrailersSent(s) \/ BodyDrained(s)
  <2>1. /\ PlaceOf("trailers") = "draining" /\ PlaceOf("tail") = "ready"
        /\ PlaceOf("draining") = "draining" /\ PlaceOf("closing") = "ready"
    BY DEF PlaceOf
  <2>2. QED  BY <1>3, <2>1, BufferUses DEF TrailersSent, BodyDrained, Uses
<1>4. CASE PushCreated(s)
  <2>1. writer[s] = "promising" /\ promise[s] \in Streams /\ writer[promise[s]] = "none"
    BY <1>4, ConnectionAssumption DEF PushCreated, IInv, PromiseInv, TypeOK
  <2>2. /\ CreateStream(promise[s])
        /\ \/ writer' = [writer EXCEPT ![s] = "pushrefusing", ![promise[s]] = "errhead"]
           \/ writer' = [writer EXCEPT ![s] = "start", ![promise[s]] = "start"]
    BY <1>4 DEF PushCreated
  <2>3. ASSUME NEW t \in Streams
        PROVE  \/ writer'[t] = writer[t]
               \/ PlaceOf(writer'[t]) = PlaceOf(writer[t]) /\ writer'[t] # "none"
    BY <2>1, <2>2 DEF PlaceOf, IInv, TypeOK
  <2>4. QED  BY <2>1, <2>2, <2>3, CreateUses
<1>5. QED  BY <1>1, <1>2, <1>3, <1>4 DEF Resumed

(* A request that is given its buffer. *)
LEMMA RequestUses ==
    ASSUME IInv, FreshInv, NEW s \in Streams, writer[s] = "none", CreateStream(s),
           WriterGoes(s, "start") \/ WriterGoes(s, "errhead")
    PROVE  Used
<1>1. ASSUME NEW t \in Streams
      PROVE  \/ writer'[t] = writer[t]
             \/ PlaceOf(writer'[t]) = PlaceOf(writer[t]) /\ writer'[t] # "none"
  BY DEF WriterGoes, PlaceOf, IInv, TypeOK
<1>2. QED  BY <1>1, CreateUses

(* The send task discards, or sends, or ends. *)
LEMMA DiscardUses ==
    ASSUME IInv, NEW s \in Streams, DiscardSendState(s), writer' = writer
    PROVE  Used
<1>1. CASE s \in held
  BY <1>1, SenderUses DEF DiscardSendState, IInv, LifeInv
<1>2. CASE s \notin held
  BY <1>2 DEF DiscardSendState, Used, Uses
<1>3. QED  BY <1>1, <1>2

(* A buffer that is closed is as it would be had nothing been popped before. *)
LEMMA ClosedAnyway ==
    ASSUME NEW T, NEW t \in T, NEW b \in Buffer(T), NEW n \in Nat
    PROVE  CloseBuffer(PopBuffer(b, n)) = CloseBuffer(b)
<1>1. ASSUME NEW e \in Event(T) PROVE SetEvent(SetEvent(e)) = SetEvent(e)
  BY DEF Event, SetEvent
<1>2. PopBuffer(b, n) \in Buffer(T)
  BY BufferOperators
<1>3. \A c \in Buffer(T) : CloseBuffer(c) \in Buffer(T) /\ CloseBuffer(c).len = 0
          /\ CloseBuffer(c).complete /\ CloseBuffer(c).empty = SetEvent(c.empty)
  BY BufferOperators, BufferLengths, BufferCompleteness, BufferEmptiness
<1>4. \A c \in Buffer(T) : CloseBuffer(c).paused = SetEvent(c.paused)
  BY DEF CloseBuffer, Buffer
<1>5. PopBuffer(b, n).paused = PausedAfterPop(b, Rest(b, n))
  BY DEF PopBuffer, Buffer
<1>6. PopBuffer(b, n).empty = EmptyAfterPop(b, Rest(b, n))
  BY BufferEmptiness
<1>7. b.empty \in Event(T) /\ b.paused \in Event(T)
  BY DEF Buffer
<1>8. /\ SetEvent(PopBuffer(b, n).empty) = SetEvent(b.empty)
      /\ SetEvent(PopBuffer(b, n).paused) = SetEvent(b.paused)
  BY <1>1, <1>5, <1>6, <1>7 DEF PausedAfterPop, EmptyAfterPop
<1>9. ASSUME NEW c \in Buffer(T), NEW d \in Buffer(T),
             c.len = d.len, c.complete = d.complete, c.empty = d.empty, c.paused = d.paused
      PROVE  c = d
  BY <1>9 DEF Buffer
<1>10. CloseBuffer(PopBuffer(b, n)).complete = CloseBuffer(b).complete
  BY <1>2, <1>3 DEF Buffer
<1>11. QED  BY <1>2, <1>3, <1>4, <1>8, <1>9, <1>10

LEMMA EndOrNextUses ==
    ASSUME IInv, NEW s \in Streams, writer[s] # "none", writer' = writer,
           NEW n \in 0..1, NEW b \in {buf[s], PopBuffer(buf[s], n)}, NEW a, EndStreamOrNext(s, b, a)
    PROVE  Used
<1>1. buf[s] \in Buffer(Streams) /\ n \in Nat
  BY DEF IInv, TypeOK
<1>2. CloseBuffer(PopBuffer(buf[s], n)) = CloseBuffer(buf[s])
  BY <1>1, ClosedAnyway
<1>3. QED  BY <1>1, <1>2, SenderUses DEF EndStreamOrNext

LEMMA SenderStepUses ==
    ASSUME IInv, SenderStep \/ \E s \in Streams : SendData(s)
    PROVE  Used
<1>1. CASE SenderExits \/ SenderWaits \/ SenderWoken \/ EndFlushed
  BY <1>1 DEF SenderExits, SenderWaits, SenderWoken, EndFlushed, Used, Uses
<1>2. CASE DataFlushed
  <2>1. /\ sender.at = "sent" /\ writer' = writer
        /\ \/ sender.on \in held /\ EndStreamOrNext(sender.on, buf[sender.on], active)
           \/ DiscardSendState(sender.on)
    BY <1>2 DEF DataFlushed
  <2>2. sender.on \in Streams
    BY <2>1 DEF IInv, SenderInv, TypeOK
  <2>3. sender.on \in held => writer[sender.on] # "none"
    BY <2>2 DEF IInv, LifeInv
  <2>4. QED  BY <2>1, <2>2, <2>3, DiscardUses, EndOrNextUses
<1>3. ASSUME NEW s \in Streams, SendData(s)
      PROVE  Used
  <2>1. writer' = writer /\ s \in active /\ writer[s] # "none"
    BY <1>3 DEF SendData, IInv, LifeInv
  <2>2. PICK n \in 0..1 :
            \/ DiscardSendState(s)
            \/ EndStreamOrNext(s, PopBuffer(buf[s], n), active \ {s})
            \/ buf' = [buf EXCEPT ![s] = PopBuffer(buf[s], n)]
            \/ buf' = [buf EXCEPT ![s] = CloseBuffer(PopBuffer(buf[s], n))]
    BY <1>3 DEF SendData
  <2>3. CloseBuffer(PopBuffer(buf[s], n)) = CloseBuffer(buf[s])
    BY ClosedAnyway DEF IInv, TypeOK
  <2>4. QED  BY <2>1, <2>2, <2>3, DiscardUses, EndOrNextUses, SenderUses
<1>4. QED  BY <1>1, <1>2, <1>3 DEF SenderStep

(* Every step uses each buffer as a writer and the send task may. *)
LEMMA StepUses ==
    ASSUME IInv, FreshInv, [Next]_vars
    PROVE  Used
<1>1. ASSUME NEW s \in Streams, Client(s)
      PROVE  Used
  <2>1. CASE RequestReceived(s)
    <3>1. writer[s] = "none"
      BY <2>1 DEF RequestReceived, IInv, LifeInv
    <3>2. QED  BY <2>1, <3>1, RequestUses DEF RequestReceived, Refuses, Serves
  <2>2. CASE StreamReset(s)
    BY <2>2, DiscardUses DEF StreamReset, tasks
  <2>3. CASE RequestTurnedAway(s) \/ WindowUpdated(s) \/ PriorityUpdated(s)
    BY <2>3 DEF RequestTurnedAway, WindowUpdated, PriorityUpdated, tasks, Used, Uses
  <2>4. QED  BY <1>1, <2>1, <2>2, <2>3 DEF Client
<1>2. Upgrade(Upgraded) => Used
  <2>1. SUFFICES ASSUME Upgrade(Upgraded) PROVE Used
    OBVIOUS
  <2>2. Upgraded \in Streams /\ writer[Upgraded] = "none"
    BY <2>1, ConnectionAssumption DEF Upgrade, IInv, ReaderInv
  <2>3. QED  BY <2>1, <2>2, RequestUses DEF Upgrade, Refuses, Serves
<1>3. AllUnblocked \/ ReaderStep \/ ConnectionLost \/ IdleTimeout \/ Terminate => Used
  BY DEF AllUnblocked, ReaderStep, RefusalReturns, RequestCounted, FrameAfterGoaway, ReaderEnds,
         ConnectionLost, IdleTimeout, HandleClosed, Terminate, tasks, Used, Uses
<1>4. UNCHANGED vars => Used
  BY DEF vars, tasks, Used, Uses
<1>5. QED  BY <1>1, <1>2, <1>3, <1>4, ApplicationUses, ResumedUses, SenderStepUses DEF Next

LEMMA Fresh == Spec => []FreshInv
<1>1. Init => FreshInv
  BY DEF Init, FreshInv
<1>2. IInv /\ FreshInv /\ [Next]_vars => FreshInv'
  <2>1. Used /\ FreshInv => FreshInv'
    BY DEF Used, FreshInv
  <2>2. QED  BY <2>1, StepUses
<1>3. QED  BY <1>1, <1>2, Invariant, PTL DEF Spec

(* What BufferWriters calls the methods of a buffer are those of this module. *)
LEMMA SameMethods ==
    ASSUME NEW s \in Streams, NEW b, NEW n
    PROVE  /\ Buffers(s)!NewBuffer = NewBuffer
           /\ Buffers(s)!PushBuffer(b, s, n) = PushBuffer(b, s, n)
           /\ Buffers(s)!EndPush(b, s) = EndPush(b, s)
           /\ Buffers(s)!DrainBuffer(b, s) = DrainBuffer(b, s)
           /\ Buffers(s)!EndDrain(b, s) = EndDrain(b, s)
           /\ Buffers(s)!CompleteBuffer(b) = CompleteBuffer(b)
           /\ Buffers(s)!PopBuffer(b, n) = PopBuffer(b, n)
           /\ Buffers(s)!CloseBuffer(b) = CloseBuffer(b)
<1>1. /\ Buffers(s)!NewBuffer = NewBuffer
      /\ Buffers(s)!PushBuffer(b, s, n) = PushBuffer(b, s, n)
  BY DEF Buffers!NewBuffer, Buffers!NewEvent, NewBuffer, NewEvent,
         Buffers!PushBuffer, Buffers!ClearEvent, Buffers!WaitEvent, PushBuffer, ClearEvent, WaitEvent
<1>2. /\ Buffers(s)!EndPush(b, s) = EndPush(b, s)
      /\ Buffers(s)!DrainBuffer(b, s) = DrainBuffer(b, s)
      /\ Buffers(s)!EndDrain(b, s) = EndDrain(b, s)
      /\ Buffers(s)!CompleteBuffer(b) = CompleteBuffer(b)
      /\ Buffers(s)!CloseBuffer(b) = CloseBuffer(b)
  BY DEF Buffers!EndPush, Buffers!DrainBuffer, Buffers!EndDrain, Buffers!CompleteBuffer,
         Buffers!CloseBuffer, Buffers!ClearEvent, Buffers!WaitEvent, Buffers!ResumeEvent,
         Buffers!SetEvent, EndPush, DrainBuffer, EndDrain, CompleteBuffer, CloseBuffer,
         ClearEvent, WaitEvent, ResumeEvent, SetEvent
<1>3. Buffers(s)!PopBuffer(b, n) = PopBuffer(b, n)
  BY DEF Buffers!PopBuffer, Buffers!Rest, Buffers!PausedAfterPop, Buffers!BelowLow,
         Buffers!EmptyAfterPop, Buffers!SetEvent, PopBuffer, Rest, PausedAfterPop, BelowLow,
         EmptyAfterPop, SetEvent
<1>4. QED  BY <1>1, <1>2, <1>3

(* ... and so are its steps. *)
LEMMA UsesSteps ==
    ASSUME NEW s \in Streams, Uses(s, buf[s], buf'[s], PlaceOf(writer[s]), PlaceOf(writer'[s]))
    PROVE  [Buffers(s)!Next]_(Buffers(s)!vars)
<1> DEFINE b == buf[s]
           c == buf'[s]
           from == PlaceOf(writer[s])
           to == PlaceOf(writer'[s])
<1>1. CASE c = b /\ to = from
  BY <1>1 DEF Buffers!vars, PlaceOf
<1>2. ASSUME from = "ready", ~b.complete, c = PushBuffer(b, s, 1),
             to = IF b.len + 1 >= High THEN "pushing" ELSE "ready"
      PROVE  Buffers(s)!Push(s, 1)
  BY <1>2, SameMethods DEF Buffers!Push, PlaceOf
<1>3. ASSUME from = "pushing", s \in b.paused.woken, c = EndPush(b, s), to = "ready"
      PROVE  Buffers(s)!PushReturns(s)
  BY <1>3, SameMethods DEF Buffers!PushReturns, PlaceOf
<1>4. ASSUME from = "ready", c = DrainBuffer(CompleteBuffer(b), s), to = "draining"
      PROVE  Buffers(s)!EndBody(s)
  BY <1>4, SameMethods DEF Buffers!EndBody, PlaceOf
<1>5. ASSUME from = "ready", c = DrainBuffer(b, s), to = "draining"
      PROVE  Buffers(s)!Trailers(s)
  <2>1. Buffers(s)!Present = {s}
    BY DEF Buffers!Present
  <2>2. QED  BY <1>5, <2>1, SameMethods DEF Buffers!Trailers, PlaceOf
<1>6. ASSUME from = "draining", s \in b.empty.woken, c = EndDrain(b, s), to = "ready"
      PROVE  Buffers(s)!DrainReturns(s)
  BY <1>6, SameMethods DEF Buffers!DrainReturns, PlaceOf
<1>7. ASSUME NEW n \in 0..1, c = PopBuffer(b, n), to = from
      PROVE  Buffers(s)!Pop(n)
  BY <1>7, SameMethods DEF Buffers!Pop, PlaceOf
<1>8. ASSUME c = CloseBuffer(b), to = from
      PROVE  Buffers(s)!Close
  BY <1>8, SameMethods DEF Buffers!Close, PlaceOf
<1>9. (\E n \in 0..1 : Buffers(s)!Push(s, n)) \/ Buffers(s)!PushReturns(s)
      \/ Buffers(s)!EndBody(s) \/ Buffers(s)!Trailers(s) \/ Buffers(s)!DrainReturns(s)
      \/ (\E n \in 0..1 : Buffers(s)!Pop(n)) \/ Buffers(s)!Close
      => Buffers(s)!Next
  BY DEF Buffers!Next
<1>10. 1 \in 0..1
  OBVIOUS
<1>11. QED  BY <1>1, <1>2, <1>3, <1>4, <1>5, <1>6, <1>7, <1>8, <1>9, <1>10 DEF Uses

(* Every connection uses the buffer of every stream as BufferWriters has it used:
   one writer, nothing pushed once it is complete, and no other change. *)
THEOREM BuffersUsedWell == Spec => BuffersUsed
<1>1. Init => \A s \in Streams : Buffers(s)!Init
  BY SameMethods DEF Init, Buffers!Init
<1>2. IInv /\ FreshInv /\ [Next]_vars => [\A s \in Streams : [Buffers(s)!Next]_(Buffers(s)!vars)]_vars
  BY StepUses, UsesSteps DEF Used
<1>3. QED  BY <1>1, <1>2, Invariant, Fresh, PTL DEF Spec, BuffersUsed
-----------------------------------------------------------------------------
(* Only the writer s waits on the event e, and only while it is in that wait. *)
Waits(s, e, waiting) ==
    /\ e.lost = {} /\ e.waiting \cap e.woken = {}
    /\ e.waiting \cup e.woken = IF waiting THEN {s} ELSE {}
    /\ e.set => e.waiting = {}

(* ... and it finds its buffer below the mark, or one chunk above it if nothing
   has been popped since it was last told that the buffer was below the low one. *)
WaitsOf(s, b, at) ==
    /\ Waits(s, b.paused, at = "pushing") /\ Waits(s, b.empty, at = "draining")
    /\ b.len <= IF s \in b.paused.waiting THEN High + 1
                ELSE IF b.paused.set /\ at # "pushing" THEN High - 1 ELSE High

WaitInv == \A s \in Streams : WaitsOf(s, buf[s], PlaceOf(writer[s]))

(* The event methods keep to that. *)
LEMMA EventWaits ==
    ASSUME NEW s \in Streams, NEW e \in Event(Streams)
    PROVE  /\ Waits(s, NewEvent, FALSE)
           /\ Waits(s, e, FALSE) => Waits(s, WaitEvent(e, s), TRUE)
           /\ Waits(s, e, FALSE) => Waits(s, ClearEvent(e), FALSE)
           /\ Waits(s, e, TRUE) /\ s \in e.woken => Waits(s, ResumeEvent(e, s), FALSE)
           /\ Waits(s, e, TRUE) => Waits(s, SetEvent(e), TRUE)
           /\ Waits(s, e, FALSE) => Waits(s, SetEvent(e), FALSE)
<1> USE DEF Event, Waits
<1>1. Waits(s, NewEvent, FALSE)
  BY DEF NewEvent
<1>2. Waits(s, e, FALSE) => Waits(s, WaitEvent(e, s), TRUE)
  BY DEF WaitEvent
<1>3. Waits(s, e, FALSE) => Waits(s, ClearEvent(e), FALSE)
  BY DEF ClearEvent
<1>4. Waits(s, e, TRUE) /\ s \in e.woken => Waits(s, ResumeEvent(e, s), FALSE)
  BY DEF ResumeEvent
<1>5. Waits(s, e, TRUE) => Waits(s, SetEvent(e), TRUE)
  BY DEF SetEvent
<1>6. Waits(s, e, FALSE) => Waits(s, SetEvent(e), FALSE)
  BY DEF SetEvent
<1>7. QED  BY <1>1, <1>2, <1>3, <1>4, <1>5, <1>6

(* What the methods of a buffer do to _paused. *)
LEMMA BufferPauses ==
    ASSUME NEW s \in Streams, NEW b \in Buffer(Streams)
    PROVE  /\ NewBuffer.paused = NewEvent
           /\ PushBuffer(b, s, 1).paused =
                 IF b.len + 1 >= High THEN WaitEvent(b.paused, s) ELSE b.paused
           /\ EndPush(b, s).paused = ClearEvent(ResumeEvent(b.paused, s))
           /\ DrainBuffer(b, s).paused = b.paused
           /\ EndDrain(b, s).paused = b.paused
           /\ CompleteBuffer(b).paused = b.paused
           /\ \A n \in Nat : PopBuffer(b, n).paused = PausedAfterPop(b, Rest(b, n))
           /\ CloseBuffer(b).paused = SetEvent(b.paused)
<1>1. PushBuffer(b, s, 1).paused =
          IF b.len + 1 >= High THEN WaitEvent(b.paused, s) ELSE b.paused
  <2> DEFINE grown == [b EXCEPT !.len = @ + 1, !.empty = ClearEvent(@)]
  <2>1. /\ grown.len = b.len + 1 /\ grown.paused = b.paused
        /\ DOMAIN grown = {"len", "complete", "empty", "paused"}
    BY DEF Buffer
  <2>2. PushBuffer(b, s, 1) =
            IF grown.len >= High THEN [grown EXCEPT !.paused = WaitEvent(@, s)] ELSE grown
    BY DEF PushBuffer
  <2> HIDE DEF grown
  <2>3. QED  BY <2>1, <2>2
<1>2. QED
  BY <1>1 DEF NewBuffer, EndPush, DrainBuffer, EndDrain, CompleteBuffer, PopBuffer, CloseBuffer, Buffer

(* A buffer that is used as it may be is waited for as it may be. *)
LEMMA WaitsKept ==
    ASSUME NEW s \in Streams, NEW b \in Buffer(Streams), NEW c, NEW at, NEW to,
           WaitsOf(s, b, at), Uses(s, b, c, at, to)
    PROVE  WaitsOf(s, c, to)
<1>1. b.len \in Nat /\ b.paused \in Event(Streams) /\ b.empty \in Event(Streams) /\ High \in Nat
  BY HighAssumption DEF Buffer
<1>2. /\ Waits(s, b.paused, at = "pushing") /\ Waits(s, b.empty, at = "draining")
  BY DEF WaitsOf
<1>3. ASSUME at = "ready", c = PushBuffer(b, s, 1),
             to = IF b.len + 1 >= High THEN "pushing" ELSE "ready"
      PROVE  WaitsOf(s, c, to)
  <2>1. c.len = b.len + 1 /\ c.empty = ClearEvent(b.empty)
        /\ c.paused = IF b.len + 1 >= High THEN WaitEvent(b.paused, s) ELSE b.paused
    BY <1>3, BufferLengths, BufferEmptiness, BufferPauses
  <2>2. Waits(s, b.paused, FALSE) /\ Waits(s, b.empty, FALSE)
    BY <1>2, <1>3
  <2>3. Waits(s, c.empty, FALSE)
    BY <1>1, <2>1, <2>2, EventWaits
  <2>4. b.len <= IF b.paused.set THEN High - 1 ELSE High
    BY <1>1, <1>3, <2>2 DEF WaitsOf, Waits
  <2>5. CASE b.len + 1 >= High
    <3>1. Waits(s, c.paused, TRUE)
      BY <1>1, <2>1, <2>2, <2>5, EventWaits
    <3>2. c.len <= IF s \in c.paused.waiting THEN High + 1 ELSE High
      BY <1>1, <2>1, <2>2, <2>4, <2>5 DEF WaitEvent, Event, Waits
    <3>3. QED  BY <1>3, <2>3, <2>5, <3>1, <3>2 DEF WaitsOf
  <2>6. CASE ~(b.len + 1 >= High)
    <3>1. c.len <= High - 1 /\ c.paused = b.paused
      BY <1>1, <2>1, <2>6
    <3>2. c.len <= IF s \in c.paused.waiting THEN High + 1
                   ELSE IF c.paused.set /\ to # "pushing" THEN High - 1 ELSE High
      BY <1>1, <2>1, <3>1
    <3>3. QED  BY <1>3, <2>2, <2>3, <2>6, <3>1, <3>2 DEF WaitsOf
  <2>7. QED  BY <2>5, <2>6
<1>4. ASSUME at = "pushing", s \in b.paused.woken, c = EndPush(b, s), to = "ready"
      PROVE  WaitsOf(s, c, to)
  <2>1. c.len = b.len /\ c.empty = b.empty /\ c.paused = ClearEvent(ResumeEvent(b.paused, s))
    BY <1>4, BufferLengths, BufferEmptiness, BufferPauses
  <2>2. Waits(s, c.paused, FALSE) /\ Waits(s, c.empty, FALSE)
    <3>1. ResumeEvent(b.paused, s) \in Event(Streams)
      BY <1>1, EventOperators
    <3>2. Waits(s, b.paused, TRUE) /\ Waits(s, b.empty, FALSE)
      BY <1>2, <1>4
    <3>3. QED  BY <1>1, <1>4, <2>1, <3>1, <3>2, EventWaits
  <2>3. b.len <= High
    BY <1>1, <1>2, <1>4 DEF WaitsOf, Waits
  <2>4. ~c.paused.set
    BY <1>1, <2>1 DEF ClearEvent, ResumeEvent, Event
  <2>5. s \notin c.paused.waiting
    BY <2>2 DEF Waits
  <2>6. QED  BY <1>4, <2>1, <2>2, <2>3, <2>4, <2>5 DEF WaitsOf
<1>5. ASSUME at = "ready", to = "draining",
             c = DrainBuffer(CompleteBuffer(b), s) \/ c = DrainBuffer(b, s)
      PROVE  WaitsOf(s, c, to)
  <2>1. CompleteBuffer(b) \in Buffer(Streams)
    BY BufferOperators
  <2>2. c.len = b.len /\ c.empty = WaitEvent(b.empty, s) /\ c.paused = b.paused
    BY <1>5, <2>1, BufferLengths, BufferEmptiness, BufferPauses
  <2>3. Waits(s, c.paused, FALSE) /\ Waits(s, c.empty, TRUE)
    BY <1>1, <1>2, <1>5, <2>2, EventWaits
  <2>4. QED  BY <1>5, <2>2, <2>3 DEF WaitsOf
<1>6. ASSUME at = "draining", s \in b.empty.woken, c = EndDrain(b, s), to = "ready"
      PROVE  WaitsOf(s, c, to)
  <2>1. c.len = b.len /\ c.empty = ResumeEvent(b.empty, s) /\ c.paused = b.paused
    BY <1>6, BufferLengths, BufferEmptiness, BufferPauses
  <2>2. Waits(s, c.paused, FALSE) /\ Waits(s, c.empty, FALSE)
    BY <1>1, <1>2, <1>6, <2>1, EventWaits
  <2>3. QED  BY <1>6, <2>1, <2>2 DEF WaitsOf
<1>7. ASSUME to = at, c.len \in Nat, c.len <= b.len,
             c.paused = b.paused \/ (c.paused = SetEvent(b.paused) /\ c.len <= High - 1),
             c.empty = b.empty \/ c.empty = SetEvent(b.empty)
      PROVE  WaitsOf(s, c, to)
  <2>1. Waits(s, c.paused, at = "pushing") /\ Waits(s, c.empty, at = "draining")
    BY <1>1, <1>2, <1>7, EventWaits
  <2>2. c.len <= IF s \in c.paused.waiting THEN High + 1
                 ELSE IF c.paused.set /\ to # "pushing" THEN High - 1 ELSE High
    BY <1>1, <1>7 DEF WaitsOf
  <2>3. QED  BY <1>7, <2>1, <2>2 DEF WaitsOf
<1>8. ASSUME NEW n \in 0..1, c = PopBuffer(b, n), to = at
      PROVE  WaitsOf(s, c, to)
  <2>1. /\ c.len = Rest(b, n) /\ c.empty = EmptyAfterPop(b, Rest(b, n))
        /\ c.paused = PausedAfterPop(b, Rest(b, n))
    BY <1>8, BufferLengths, BufferEmptiness, BufferPauses
  <2>2. Rest(b, n) \in 0..b.len
    BY <1>1, RestBounds
  <2>3. BelowLow(c.len) => c.len <= High - 1
    BY <1>1, <2>1, <2>2 DEF BelowLow
  <2>4. QED  BY <1>1, <1>7, <1>8, <2>1, <2>2, <2>3 DEF EmptyAfterPop, PausedAfterPop
<1>9. ASSUME c = CloseBuffer(b), to = at
      PROVE  WaitsOf(s, c, to)
  <2>1. c.len = 0 /\ c.empty = SetEvent(b.empty) /\ c.paused = SetEvent(b.paused)
    BY <1>9, BufferLengths, BufferEmptiness, BufferPauses
  <2>2. QED  BY <1>1, <1>7, <1>9, <2>1, HighAssumption
<1>10. QED  BY <1>3, <1>4, <1>5, <1>6, <1>8, <1>9 DEF Uses

LEMMA Waited == Spec => []WaitInv
<1>1. Init => WaitInv
  <2>1. SUFFICES ASSUME Init, NEW s \in Streams
                 PROVE  WaitsOf(s, buf[s], PlaceOf(writer[s]))
    BY DEF WaitInv
  <2>2. buf[s] = NewBuffer /\ PlaceOf(writer[s]) = "ready"
    BY <2>1 DEF Init, PlaceOf
  <2>3. NewEvent \in Event(Streams)
    BY DEF NewEvent, Event
  <2>4. Waits(s, NewEvent, FALSE)
    BY <2>3, EventWaits
  <2>5. NewBuffer.len = 0 /\ NewBuffer.paused = NewEvent /\ NewBuffer.empty = NewEvent
        /\ ~NewEvent.set /\ s \notin NewEvent.waiting /\ 0 <= High
    BY HighAssumption DEF NewBuffer, NewEvent
  <2>6. QED  BY <2>2, <2>4, <2>5 DEF WaitsOf
<1>2. IInv /\ FreshInv /\ WaitInv /\ [Next]_vars => WaitInv'
  <2>1. SUFFICES ASSUME IInv, WaitInv, Used, NEW s \in Streams
                 PROVE  WaitsOf(s, buf'[s], PlaceOf(writer'[s]))
    BY StepUses DEF WaitInv
  <2>2. buf[s] \in Buffer(Streams) /\ WaitsOf(s, buf[s], PlaceOf(writer[s]))
        /\ Uses(s, buf[s], buf'[s], PlaceOf(writer[s]), PlaceOf(writer'[s]))
    BY <2>1 DEF IInv, TypeOK, WaitInv, Used
  <2>3. QED  BY <2>2, WaitsKept
<1>3. QED  BY <1>1, <1>2, Invariant, Fresh, PTL DEF Spec

(* The back-pressure of a buffer bounds what any connection holds for a stream,
   and no clear() leaves its writer on an event that nobody can set: it is the
   only one. *)
THEOREM BuffersBounded ==
    Spec => [](\A s \in Streams : Buffers(s)!BackPressure /\ Buffers(s)!NeverStranded)
<1>1. ASSUME IInv, WaitInv, NEW s \in Streams
      PROVE  Buffers(s)!BackPressure /\ Buffers(s)!NeverStranded
  <2>1. buf[s].len \in Nat /\ High \in Nat
    BY <1>1, HighAssumption DEF IInv, TypeOK, Buffer
  <2>2. buf[s].len <= High + 1 /\ buf[s].paused.lost = {} /\ buf[s].empty.lost = {}
    BY <1>1, <2>1 DEF WaitInv, WaitsOf, Waits
  <2>3. Cardinality({s}) = 1
    BY FS_Singleton
  <2>4. Buffers(s)!Cardinality({s}) = Cardinality({s})
    BY DEF Buffers!Cardinality, Cardinality
  <2>5. Buffers(s)!Present = {s}
    BY DEF Buffers!Present
  <2>6. QED
    BY <2>1, <2>2, <2>3, <2>4, <2>5 DEF Buffers!BackPressure, Buffers!NeverStranded
<1>2. IInv /\ WaitInv => \A s \in Streams : Buffers(s)!BackPressure /\ Buffers(s)!NeverStranded
  BY <1>1
<1>3. QED  BY <1>2, Invariant, Waited, PTL

(* Trailers, and the end of a stream, follow all that was pushed on it. *)
THEOREM BuffersDrained == Spec => \A s \in Streams : Buffers(s)!DrainedMeansEmpty
<1>1. ASSUME NEW s \in Streams
      PROVE  Spec => Buffers(s)!DrainedMeansEmpty
  <2> DEFINE at == [w \in {s} |-> CASE writer[s] = "pushing" -> "pushing"
                                    [] writer[s] \in {"trailers", "draining"} -> "draining"
                                    [] OTHER -> "ready"]
             Empty == \A w \in {s} : at[w] = "draining" /\ at'[w] = "ready" => buf[s].len = 0
  <2>1. IInv /\ FreshInv /\ [Next]_vars => Empty
    <3>1. SUFFICES ASSUME IInv, Used, at[s] = "draining", at'[s] = "ready"
                   PROVE  buf[s].len = 0
      BY StepUses
    <3>2. PlaceOf(writer[s]) = "draining" /\ PlaceOf(writer'[s]) = "ready"
      BY <3>1 DEF PlaceOf
    <3>3. s \in buf[s].empty.woken
      BY <3>1, <3>2 DEF Used, Uses
    <3>4. QED  BY <3>1, <3>3 DEF IInv, EmptyInv, EmptyOf
  <2>2. QED  BY <2>1, Invariant, Fresh, PTL DEF Spec, Buffers!DrainedMeansEmpty
<1>2. QED  BY <1>1
=============================================================================
