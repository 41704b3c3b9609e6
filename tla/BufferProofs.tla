---------------------------- MODULE BufferProofs ----------------------------
(***************************************************************************)
(* Proofs about BufferWriters for every finite set of writers, every       *)
(* high-water mark and every size of push and pop.                         *)
(***************************************************************************)
EXTENDS BufferWriters, FiniteSetTheorems, TLAPS

(* Every event operator returns an event. *)
LEMMA EventOperators ==
    ASSUME NEW T, NEW e \in Event(T), NEW t \in T
    PROVE  /\ NewEvent \in Event(T)
           /\ ClearEvent(e) \in Event(T)
           /\ SetEvent(e) \in Event(T)
           /\ WaitEvent(e, t) \in Event(T)
           /\ ResumeEvent(e, t) \in Event(T)
BY DEF Event, NewEvent, ClearEvent, SetEvent, WaitEvent, ResumeEvent

(* What a pop leaves is a length, and no longer than what there was. *)
LEMMA RestBounds ==
    ASSUME NEW b, b.len \in Nat, NEW n \in Nat
    PROVE  Rest(b, n) \in 0 .. b.len
BY DEF Rest

(* Every method of StreamBuffer returns a buffer to a buffer. *)
LEMMA BufferOperators ==
    ASSUME NEW T, NEW b \in Buffer(T), NEW t \in T
    PROVE  /\ NewBuffer \in Buffer(T)
           /\ \A n \in Nat : PushBuffer(b, t, n) \in Buffer(T)
           /\ EndPush(b, t) \in Buffer(T)
           /\ DrainBuffer(b, t) \in Buffer(T)
           /\ EndDrain(b, t) \in Buffer(T)
           /\ CompleteBuffer(b) \in Buffer(T)
           /\ \A n \in Nat : PopBuffer(b, n) \in Buffer(T)
           /\ CloseBuffer(b) \in Buffer(T)
<1>1. b.empty \in Event(T) /\ b.paused \in Event(T) /\ b.len \in Nat
  BY DEF Buffer
<1>2. NewBuffer \in Buffer(T)
  BY <1>1, EventOperators DEF NewBuffer, Buffer
<1>3. ASSUME NEW n \in Nat PROVE PushBuffer(b, t, n) \in Buffer(T)
  <2>1. /\ ClearEvent(b.empty) \in Event(T)
        /\ WaitEvent(b.paused, t) \in Event(T)
    BY <1>1, EventOperators
  <2> DEFINE grown == [b EXCEPT !.len = @ + n, !.empty = ClearEvent(@)]
  <2>5. b.len + n \in Nat
    BY <1>1
  <2>2. grown \in Buffer(T) /\ grown.paused = b.paused
    BY <2>5, <2>1 DEF Buffer
  <2>3. [grown EXCEPT !.paused = WaitEvent(@, t)] \in Buffer(T)
    BY <2>1, <2>2 DEF Buffer
  <2>4. QED  BY <2>2, <2>3 DEF PushBuffer
<1>4. EndPush(b, t) \in Buffer(T)
  <2>1. ClearEvent(ResumeEvent(b.paused, t)) \in Event(T)
    BY <1>1, EventOperators
  <2>2. QED  BY <2>1 DEF EndPush, Buffer
<1>5. DrainBuffer(b, t) \in Buffer(T) /\ EndDrain(b, t) \in Buffer(T)
  <2>1. WaitEvent(b.empty, t) \in Event(T) /\ ResumeEvent(b.empty, t) \in Event(T)
    BY <1>1, EventOperators
  <2>2. QED  BY <2>1 DEF DrainBuffer, EndDrain, Buffer
<1>6. CompleteBuffer(b) \in Buffer(T)
  BY DEF CompleteBuffer, Buffer
<1>7. ASSUME NEW n \in Nat PROVE PopBuffer(b, n) \in Buffer(T)
  <2>1. Rest(b, n) \in Nat
    BY <1>1, RestBounds
  <2>2. PausedAfterPop(b, Rest(b, n)) \in Event(T)
    BY <1>1, EventOperators DEF PausedAfterPop
  <2>3. EmptyAfterPop(b, Rest(b, n)) \in Event(T)
    BY <1>1, EventOperators DEF EmptyAfterPop
  <2>4. QED  BY <2>1, <2>2, <2>3 DEF PopBuffer, Buffer
<1>8. CloseBuffer(b) \in Buffer(T)
  <2>1. SetEvent(b.empty) \in Event(T) /\ SetEvent(b.paused) \in Event(T)
    BY <1>1, EventOperators
  <2>2. QED  BY <2>1 DEF CloseBuffer, Buffer
<1>9. QED  BY <1>2, <1>3, <1>4, <1>5, <1>6, <1>7, <1>8

(* One step keeps the variables in their types. *)
LEMMA TypeStep == TypeOK /\ [Next]_vars => TypeOK'
<1> SUFFICES ASSUME TypeOK, [Next]_vars PROVE TypeOK'
  OBVIOUS
<1> USE DEF TypeOK, Places
<1>1. ASSUME NEW w \in Writers, NEW n \in 0..MaxPush, Push(w, n) PROVE TypeOK'
  <2>1. n \in Nat
    BY SizesAssumption
  <2>2. QED  BY <1>1, <2>1, BufferOperators DEF Push
<1>2. ASSUME NEW w \in Writers, PushReturns(w) PROVE TypeOK'
  BY <1>2, BufferOperators DEF PushReturns
<1>3. ASSUME NEW w \in Writers, EndBody(w) PROVE TypeOK'
  BY <1>3, BufferOperators DEF EndBody
<1>4. ASSUME NEW w \in Writers, Trailers(w) PROVE TypeOK'
  BY <1>4, BufferOperators DEF Trailers
<1>5. ASSUME NEW w \in Writers, DrainReturns(w) PROVE TypeOK'
  BY <1>5, BufferOperators DEF DrainReturns
<1>6. ASSUME NEW n \in 0..MaxPop, Pop(n) PROVE TypeOK'
  <2>1. n \in Nat
    BY SizesAssumption
  <2>2. PICK w \in Writers : TRUE
    BY WritersAssumption
  <2>3. QED  BY <1>6, <2>1, <2>2, BufferOperators DEF Pop
<1>7. ASSUME Close PROVE TypeOK'
  <2>1. PICK w \in Writers : TRUE
    BY WritersAssumption
  <2>2. QED  BY <1>7, <2>1, BufferOperators DEF Close
<1>8. CASE UNCHANGED vars
  BY <1>8 DEF vars
<1>9. QED  BY <1>1, <1>2, <1>3, <1>4, <1>5, <1>6, <1>7, <1>8 DEF Next

(* The buffer and the writers' places are always of their types. *)
THEOREM TypeCorrect == Spec => []TypeOK
<1>1. Init => TypeOK
  <2>1. PICK w \in Writers : TRUE
    BY WritersAssumption
  <2>2. NewBuffer \in Buffer(Writers)
    BY DEF NewBuffer, Buffer, NewEvent, Event
  <2>3. QED  BY <2>2 DEF Init, TypeOK, Places
<1>2. QED  BY <1>1, TypeStep, PTL DEF Spec
-----------------------------------------------------------------------------
(* The tasks asleep on event e, on its current anyio.Event or on one that was
   replaced under them. *)
Asleep(e) == e.waiting \cup e.lost

(* The tasks an event holds: asleep or woken. *)
Held(e) == Asleep(e) \cup e.woken

(* How many pushes may have landed above the high-water mark since the buffer
   was last below the low one: a writer asleep has spent both of its own, one
   that was woken has spent one; once a writer has cleared _paused, every
   other writer may already have spent one. *)
Spent(e) == IF e.set THEN 2 * Cardinality(Asleep(e)) + Cardinality(e.woken)
                     ELSE Cardinality(Writers) + Cardinality(Asleep(e))

(* A task is held in one way only, and nobody is asleep on a set event. *)
Coherent(e) == /\ Asleep(e) \cap e.woken = {}
               /\ e.waiting \cap e.lost = {}
               /\ e.set => e.waiting = {}

(* A writer is in push's wait exactly when _paused holds it. *)
PausedInv ==
    /\ Coherent(buf.paused)
    /\ \A w \in Writers :
           pc[w] = "pushing" <=> w \in Held(buf.paused)

IInv == /\ TypeOK
        /\ PausedInv
        /\ buf.len <= High - 1 + MaxPush * Spent(buf.paused)

(* Subsets of the writers are finite, of at most Cardinality(Writers) members. *)
LEMMA Sizes ==
    ASSUME NEW S \in SUBSET Writers
    PROVE  /\ IsFiniteSet(S)
           /\ Cardinality(S) \in Nat
           /\ Cardinality(Writers) \in Nat
           /\ Cardinality(S) <= Cardinality(Writers)
BY WritersAssumption, FS_Subset, FS_CardinalityType

(* Two disjoint sets of writers are together at most all the writers. *)
LEMMA DisjointSizes ==
    ASSUME NEW S \in SUBSET Writers, NEW R \in SUBSET Writers, S \cap R = {}
    PROVE  Cardinality(S) + Cardinality(R) <= Cardinality(Writers)
<1>1. IsFiniteSet(S) /\ IsFiniteSet(R)
  BY Sizes
<1>2. Cardinality(S \cup R) = Cardinality(S) + Cardinality(R) - Cardinality(S \cap R)
  BY <1>1, FS_Union
<1>3. Cardinality(S \cap R) = 0
  BY FS_EmptySet
<1>4. Cardinality(S \cup R) <= Cardinality(Writers)
  BY Sizes
<1>5. QED  BY <1>2, <1>3, <1>4, Sizes

(* The parts of a writers' event. *)
LEMMA EventParts ==
    ASSUME NEW e \in Event(Writers)
    PROVE  /\ Asleep(e) \in SUBSET Writers
           /\ e.woken \in SUBSET Writers
           /\ e.set \in BOOLEAN
BY DEF Event, Asleep

(* Spent is a number, of two pushes for every writer at most. *)
LEMMA SpentBounds ==
    ASSUME NEW e \in Event(Writers), Coherent(e)
    PROVE  Spent(e) \in 0 .. 2 * Cardinality(Writers)
<1>1. Cardinality(Asleep(e)) + Cardinality(e.woken) <= Cardinality(Writers)
  BY EventParts, DisjointSizes DEF Coherent
<1>2. /\ Cardinality(Asleep(e)) \in Nat
      /\ Cardinality(e.woken) \in Nat
      /\ Cardinality(Writers) \in Nat
      /\ Cardinality(Asleep(e)) <= Cardinality(Writers)
  BY EventParts, Sizes
<1>3. QED  BY <1>1, <1>2, EventParts DEF Spent

(* Multiplication by the size of a push is monotonic, and one more push adds
   at most one more such size. *)
LEMMA Products ==
    ASSUME NEW a \in Nat, NEW b \in Nat, a <= b
    PROVE  /\ MaxPush * a \in Nat
           /\ MaxPush * a <= MaxPush * b
           /\ MaxPush * (a + 1) = MaxPush * a + MaxPush
<1>1. MaxPush \in Nat
  BY SizesAssumption
<1>2. QED  BY <1>1

(* The parts of the buffer the bound is about. *)
LEMMA BufferParts ==
    ASSUME NEW b \in Buffer(Writers)
    PROVE  b.len \in Nat /\ b.paused \in Event(Writers)
BY DEF Buffer

(* A step that leaves the writers' places and _paused alone and does not make
   the buffer longer keeps the invariant. *)
LEMMA PausedUntouched ==
    ASSUME IInv, TypeOK', buf'.paused = buf.paused, buf'.len <= buf.len,
           \A w \in Writers : pc'[w] = "pushing" <=> pc[w] = "pushing"
    PROVE  IInv'
<1>1. PausedInv'
  BY DEF IInv, PausedInv
<1>2. Spent(buf.paused) \in Nat
  BY SpentBounds, BufferParts, Sizes DEF IInv, TypeOK, PausedInv
<1>3. MaxPush * Spent(buf.paused) \in Nat
  BY <1>2, Products
<1>4. buf.len \in Nat /\ buf'.len \in Nat
  BY BufferParts DEF IInv, TypeOK
<1>5. buf'.len <= High - 1 + MaxPush * Spent(buf.paused)
  BY <1>3, <1>4, HighAssumption DEF IInv
<1>6. QED  BY <1>1, <1>5 DEF IInv

(* A step that leaves less than the high-water mark needs no count of pushes. *)
LEMMA BelowHigh ==
    ASSUME TypeOK', PausedInv', buf'.len < High
    PROVE  IInv'
<1>1. Spent(buf'.paused) \in Nat
  BY SpentBounds, BufferParts, Sizes DEF TypeOK, PausedInv
<1>2. MaxPush * Spent(buf'.paused) \in Nat
  BY <1>1, Products
<1>3. buf'.len \in Nat
  BY BufferParts DEF TypeOK
<1>4. buf'.len <= High - 1 + MaxPush * Spent(buf'.paused)
  BY <1>2, <1>3, HighAssumption
<1>5. QED  BY <1>4 DEF IInv

(* wait() adds the task to the event and spends exactly one push. *)
LEMMA WaitSpendsOne ==
    ASSUME NEW e \in Event(Writers), Coherent(e),
           NEW t \in Writers, t \notin Held(e)
    PROVE  /\ Coherent(WaitEvent(e, t))
           /\ Held(WaitEvent(e, t)) = Held(e) \cup {t}
           /\ Spent(WaitEvent(e, t)) = Spent(e) + 1
<1> USE EventParts DEF Held
<1>1. CASE e.set
  <2> DEFINE v == [e EXCEPT !.woken = @ \cup {t}]
  <2>1. /\ WaitEvent(e, t) = v
        /\ v.set /\ v.waiting = e.waiting /\ v.lost = e.lost
        /\ v.woken = e.woken \cup {t}
    BY <1>1 DEF WaitEvent, Event
  <2> HIDE DEF v
  <2>2. Asleep(v) = Asleep(e)
    BY <2>1 DEF Asleep
  <2>3. Cardinality(v.woken) = Cardinality(e.woken) + 1
    BY <2>1, Sizes, FS_AddElement
  <2>4. Cardinality(Asleep(e)) \in Nat /\ Cardinality(e.woken) \in Nat
    BY Sizes
  <2>5. Spent(v) = Spent(e) + 1
    BY <1>1, <2>1, <2>2, <2>3, <2>4 DEF Spent
  <2>6. QED  BY <1>1, <2>1, <2>2, <2>5 DEF Coherent
<1>2. CASE ~e.set
  <2> DEFINE v == [e EXCEPT !.waiting = @ \cup {t}]
  <2>1. /\ WaitEvent(e, t) = v
        /\ ~v.set /\ v.waiting = e.waiting \cup {t} /\ v.lost = e.lost
        /\ v.woken = e.woken
    BY <1>2 DEF WaitEvent, Event
  <2> HIDE DEF v
  <2>2. Asleep(v) = Asleep(e) \cup {t}
    BY <2>1 DEF Asleep
  <2>3. Cardinality(Asleep(v)) = Cardinality(Asleep(e)) + 1
    BY <2>2, Sizes, FS_AddElement
  <2>4. Cardinality(Asleep(e)) \in Nat /\ Cardinality(Writers) \in Nat
    BY Sizes
  <2>5. Spent(v) = Spent(e) + 1
    BY <1>2, <2>1, <2>3, <2>4 DEF Spent
  <2>6. t \notin e.lost
    BY DEF Asleep
  <2>7. QED  BY <1>2, <2>1, <2>2, <2>5, <2>6 DEF Coherent
<1>3. QED  BY <1>1, <1>2

(* A woken task that clears the event leaves it, and no credit is gained. *)
LEMMA ClearSpends ==
    ASSUME NEW e \in Event(Writers), Coherent(e), NEW t \in e.woken
    PROVE  /\ Coherent(ClearEvent(ResumeEvent(e, t)))
           /\ Held(ClearEvent(ResumeEvent(e, t))) = Held(e) \ {t}
           /\ Spent(e) <= Spent(ClearEvent(ResumeEvent(e, t)))
<1> DEFINE v == ClearEvent(ResumeEvent(e, t))
<1>1. /\ ~v.set /\ v.waiting = {} /\ v.lost = e.lost \cup e.waiting
      /\ v.woken = e.woken \ {t}
  BY DEF ClearEvent, ResumeEvent, Event
<1> HIDE DEF v
<1>2. Asleep(v) = Asleep(e)
  BY <1>1 DEF Asleep
<1>3. Coherent(v) /\ Held(v) = Held(e) \ {t}
  BY <1>1, <1>2 DEF Coherent, Held
<1>4. Cardinality(Asleep(e)) + Cardinality(e.woken) <= Cardinality(Writers)
  BY EventParts, DisjointSizes DEF Coherent
<1>5. /\ Cardinality(Asleep(e)) \in Nat
      /\ Cardinality(e.woken) \in Nat
      /\ Cardinality(Writers) \in Nat
  BY EventParts, Sizes
<1>6. Spent(e) <= Spent(v)
  BY <1>1, <1>2, <1>4, <1>5, EventParts DEF Spent
<1>7. QED  BY <1>3, <1>6 DEF v

(* set() wakes whom the event holds; it holds the same tasks. *)
LEMMA SetHolds ==
    ASSUME NEW e \in Event(Writers), Coherent(e)
    PROVE  Coherent(SetEvent(e)) /\ Held(SetEvent(e)) = Held(e)
<1> DEFINE v == SetEvent(e)
<1>1. /\ v.set /\ v.waiting = {} /\ v.lost = e.lost
      /\ v.woken = e.woken \cup e.waiting
  BY DEF SetEvent, Event
<1> HIDE DEF v
<1>2. Asleep(v) \cap v.woken = {}
  <2>1. e.lost \cap e.woken = {} /\ e.lost \cap e.waiting = {}
    BY DEF Coherent, Asleep
  <2>2. QED  BY <1>1, <2>1 DEF Asleep
<1>3. Held(v) = Held(e)
  BY <1>1 DEF Held, Asleep
<1>4. QED  BY <1>1, <1>2, <1>3 DEF Coherent, v

(* The bound is inductive. *)
LEMMA BoundStep == IInv /\ [Next]_vars => IInv'
<1> SUFFICES ASSUME IInv, [Next]_vars PROVE IInv'
  OBVIOUS
<1>1. TypeOK /\ TypeOK'
  BY TypeStep DEF IInv
<1>2. /\ buf.len \in Nat /\ buf.paused \in Event(Writers)
      /\ buf'.len \in Nat /\ buf'.paused \in Event(Writers)
  BY <1>1, BufferParts DEF TypeOK
<1>3. /\ Coherent(buf.paused)
      /\ \A w \in Writers : pc[w] = "pushing" <=> w \in Held(buf.paused)
  BY DEF IInv, PausedInv
<1>4. ASSUME NEW w \in Writers, NEW n \in 0..MaxPush, Push(w, n) PROVE IInv'
  <2>1. n \in Nat /\ n <= MaxPush /\ MaxPush \in Nat
    BY SizesAssumption
  <2>2. buf'.len = buf.len + n
    BY <1>1, <1>4 DEF Push, PushBuffer, TypeOK, Buffer
  <2>3. CASE buf.len + n < High
    <3>1. buf'.paused = buf.paused
      BY <1>1, <1>2, <1>4, <2>1, <2>3, HighAssumption DEF Push, PushBuffer, TypeOK, Buffer
    <3>2. \A v \in Writers : pc'[v] = "pushing" <=> pc[v] = "pushing"
      BY <1>1, <1>2, <1>4, <2>1, <2>3, HighAssumption DEF Push, TypeOK
    <3>3. PausedInv'
      BY <1>3, <3>1, <3>2 DEF PausedInv
    <3>4. QED  BY <1>1, <2>2, <2>3, <3>3, BelowHigh
  <2>4. CASE buf.len + n >= High
    <3>1. buf'.paused = WaitEvent(buf.paused, w)
      BY <1>1, <1>2, <1>4, <2>1, <2>4 DEF Push, PushBuffer, TypeOK, Buffer
    <3>2. w \notin Held(buf.paused)
      BY <1>3, <1>4 DEF Push
    <3>3. /\ Coherent(buf'.paused)
          /\ Held(buf'.paused) = Held(buf.paused) \cup {w}
          /\ Spent(buf'.paused) = Spent(buf.paused) + 1
      BY <1>2, <1>3, <3>1, <3>2, WaitSpendsOne
    <3>4. pc' = [pc EXCEPT ![w] = "pushing"]
      BY <1>4, <2>4 DEF Push
    <3>5. PausedInv'
      BY <1>1, <1>3, <3>3, <3>4 DEF PausedInv, TypeOK
    <3>6. Spent(buf.paused) \in Nat
      BY <1>2, <1>3, SpentBounds, Sizes
    <3>7. /\ MaxPush * Spent(buf'.paused) = MaxPush * Spent(buf.paused) + MaxPush
          /\ MaxPush * Spent(buf.paused) \in Nat
      BY <3>3, <3>6, Products
    <3>8. buf'.len <= High - 1 + MaxPush * Spent(buf'.paused)
      BY <1>2, <2>1, <2>2, <3>7, HighAssumption DEF IInv
    <3>9. QED  BY <1>1, <3>5, <3>8 DEF IInv
  <2>5. QED  BY <1>2, <2>1, <2>3, <2>4, HighAssumption
<1>5. ASSUME NEW w \in Writers, PushReturns(w) PROVE IInv'
  <2>1. buf'.len = buf.len /\ buf'.paused = ClearEvent(ResumeEvent(buf.paused, w))
    BY <1>1, <1>5 DEF PushReturns, EndPush, TypeOK, Buffer
  <2>2. w \in buf.paused.woken
    BY <1>5 DEF PushReturns
  <2>3. /\ Coherent(buf'.paused)
        /\ Held(buf'.paused) = Held(buf.paused) \ {w}
        /\ Spent(buf.paused) <= Spent(buf'.paused)
    BY <1>2, <1>3, <2>1, <2>2, ClearSpends
  <2>4. PausedInv'
    BY <1>1, <1>3, <1>5, <2>3 DEF PausedInv, PushReturns, TypeOK
  <2>5. Spent(buf.paused) \in Nat /\ Spent(buf'.paused) \in Nat
    BY <1>2, <1>3, <2>3, SpentBounds, Sizes
  <2>6. /\ MaxPush * Spent(buf.paused) \in Nat
        /\ MaxPush * Spent(buf'.paused) \in Nat
        /\ MaxPush * Spent(buf.paused) <= MaxPush * Spent(buf'.paused)
    BY <2>3, <2>5, Products
  <2>7. buf'.len <= High - 1 + MaxPush * Spent(buf'.paused)
    BY <1>2, <2>1, <2>6, HighAssumption DEF IInv
  <2>8. QED  BY <1>1, <2>4, <2>7 DEF IInv
<1>6. ASSUME NEW w \in Writers, EndBody(w) PROVE IInv'
  <2>1. buf'.len = buf.len /\ buf'.paused = buf.paused
    BY <1>1, <1>6 DEF EndBody, DrainBuffer, CompleteBuffer, TypeOK, Buffer
  <2>2. \A v \in Writers : pc'[v] = "pushing" <=> pc[v] = "pushing"
    BY <1>1, <1>6 DEF EndBody, TypeOK
  <2>3. QED  BY <1>1, <1>2, <2>1, <2>2, PausedUntouched
<1>7. ASSUME NEW w \in Writers, Trailers(w) PROVE IInv'
  <2>1. buf'.len = buf.len /\ buf'.paused = buf.paused
    BY <1>1, <1>7 DEF Trailers, DrainBuffer, TypeOK, Buffer
  <2>2. \A v \in Writers : pc'[v] = "pushing" <=> pc[v] = "pushing"
    BY <1>1, <1>7 DEF Trailers, TypeOK
  <2>3. QED  BY <1>1, <1>2, <2>1, <2>2, PausedUntouched
<1>8. ASSUME NEW w \in Writers, DrainReturns(w) PROVE IInv'
  <2>1. buf'.len = buf.len /\ buf'.paused = buf.paused
    BY <1>1, <1>8 DEF DrainReturns, EndDrain, TypeOK, Buffer
  <2>2. \A v \in Writers : pc'[v] = "pushing" <=> pc[v] = "pushing"
    BY <1>1, <1>8 DEF DrainReturns, TypeOK
  <2>3. QED  BY <1>1, <1>2, <2>1, <2>2, PausedUntouched
<1>9. ASSUME NEW n \in 0..MaxPop, Pop(n) PROVE IInv'
  <2> DEFINE left == Rest(buf, n)
  <2>1. left \in Nat /\ left <= buf.len
    BY <1>2, SizesAssumption, RestBounds
  <2>2. /\ buf'.len = left
        /\ buf'.paused = PausedAfterPop(buf, left)
        /\ pc' = pc
    BY <1>1, <1>9 DEF Pop, PopBuffer, TypeOK, Buffer
  <2> HIDE DEF left
  <2>3. CASE BelowLow(left)
    <3>1. buf'.paused = SetEvent(buf.paused)
      BY <2>2, <2>3 DEF PausedAfterPop
    <3>2. Coherent(buf'.paused) /\ Held(buf'.paused) = Held(buf.paused)
      BY <1>2, <1>3, <3>1, SetHolds
    <3>3. PausedInv'
      BY <1>3, <2>2, <3>2 DEF PausedInv
    <3>4. buf'.len < High
      BY <2>1, <2>2, <2>3, HighAssumption DEF BelowLow
    <3>5. QED  BY <1>1, <3>3, <3>4, BelowHigh
  <2>4. CASE ~BelowLow(left)
    <3>1. buf'.paused = buf.paused
      BY <2>2, <2>4 DEF PausedAfterPop
    <3>2. QED  BY <1>1, <2>1, <2>2, <3>1, PausedUntouched
  <2>5. QED  BY <2>3, <2>4
<1>10. ASSUME Close PROVE IInv'
  <2>1. buf'.len = 0 /\ buf'.paused = SetEvent(buf.paused) /\ pc' = pc
    BY <1>1, <1>10 DEF Close, CloseBuffer, TypeOK, Buffer
  <2>2. Coherent(buf'.paused) /\ Held(buf'.paused) = Held(buf.paused)
    BY <1>2, <1>3, <2>1, SetHolds
  <2>3. PausedInv'
    BY <1>3, <2>1, <2>2 DEF PausedInv
  <2>4. QED  BY <1>1, <2>1, <2>3, HighAssumption, BelowHigh
<1>11. CASE UNCHANGED vars
  BY <1>11, <1>1, <1>2, PausedUntouched DEF vars
<1>12. QED  BY <1>4, <1>5, <1>6, <1>7, <1>8, <1>9, <1>10, <1>11 DEF Next

(* A fresh buffer satisfies the bound. *)
LEMMA BoundInit == Init => IInv
<1> SUFFICES ASSUME Init PROVE IInv
  OBVIOUS
<1>1. NewEvent \in Event(Writers) /\ Coherent(NewEvent) /\ Held(NewEvent) = {}
  BY DEF NewEvent, Event, Coherent, Held, Asleep
<1>2. TypeOK
  BY <1>1 DEF Init, TypeOK, NewBuffer, Buffer, Places
<1>3. buf.paused = NewEvent /\ buf.len = 0
  BY DEF Init, NewBuffer
<1>4. PausedInv
  BY <1>1, <1>3 DEF PausedInv, Init
<1>5. MaxPush * Spent(buf.paused) \in Nat
  BY <1>1, <1>3, SpentBounds, Sizes, Products
<1>6. QED  BY <1>2, <1>3, <1>4, <1>5, HighAssumption DEF IInv

(* Back-pressure holds for every set of writers and every size: the buffer of
   a stream stays below the high-water mark plus two pushes per writer. *)
THEOREM BackPressureCorrect == Spec => []BackPressure
<1>1. IInv => BackPressure
  <2> SUFFICES ASSUME IInv PROVE BackPressure
    OBVIOUS
  <2>1. buf.len \in Nat /\ buf.paused \in Event(Writers)
    BY BufferParts DEF IInv, TypeOK
  <2>2. Cardinality(Writers) \in Nat
    BY Sizes
  <2>3. Spent(buf.paused) \in 0 .. 2 * Cardinality(Writers)
    BY <2>1, SpentBounds DEF IInv, PausedInv
  <2> DEFINE c == 2 * Cardinality(Writers)
  <2>4. c \in Nat /\ Spent(buf.paused) \in Nat /\ Spent(buf.paused) <= c
    BY <2>2, <2>3
  <2>5. MaxPush * Spent(buf.paused) <= MaxPush * c /\ MaxPush * Spent(buf.paused) \in Nat
    BY <2>4, Products
  <2>6. MaxPush * c = c * MaxPush /\ MaxPush * c \in Nat
    BY <2>4, SizesAssumption
  <2>7. buf.len <= High - 1 + c * MaxPush
    BY <2>1, <2>5, <2>6, HighAssumption DEF IInv
  <2>8. QED  BY <2>7 DEF BackPressure
<1>2. QED  BY <1>1, BoundInit, BoundStep, PTL DEF Spec
-----------------------------------------------------------------------------
(* A writer is in drain exactly when _is_empty holds it. *)
EmptyInv ==
    /\ Coherent(buf.empty)
    /\ \A w \in Writers : pc[w] = "draining" <=> w \in Held(buf.empty)

(* What is set as empty, or has woken a writer as such, is empty: nothing is
   pushed between the wake-up and the return of drain. *)
EmptyMeansEmpty == buf.empty.set \/ buf.empty.woken # {} => buf.len = 0

(* Who drains has completed the buffer, or is the only writer there is. *)
DrainInv == \A w \in Writers : pc[w] = "draining" => buf.complete \/ Present = {w}

WaitInv == EmptyInv /\ EmptyMeansEmpty /\ DrainInv /\ NeverStranded

SInv == IInv /\ WaitInv

(* set() replaces no anyio.Event, and neither does wait(). *)
LEMMA SetLosesNobody ==
    ASSUME NEW e \in Event(Writers)
    PROVE  SetEvent(e).lost = e.lost /\ SetEvent(e).set
BY DEF SetEvent, Event

LEMMA WaitLosesNobody ==
    ASSUME NEW e \in Event(Writers), NEW t \in Writers
    PROVE  WaitEvent(e, t).lost = e.lost
BY DEF WaitEvent, Event

(* A clear() of an event that holds nobody strands nobody. *)
LEMMA ClearHoldsNobody ==
    ASSUME NEW e \in Event(Writers), Held(e) = {}
    PROVE  /\ Coherent(ClearEvent(e)) /\ Held(ClearEvent(e)) = {}
           /\ ClearEvent(e).lost = {} /\ ClearEvent(e).woken = {} /\ ~ClearEvent(e).set
<1>1. e.waiting = {} /\ e.lost = {} /\ e.woken = {}
  BY DEF Held, Asleep
<1>2. /\ ClearEvent(e).waiting = {} /\ ClearEvent(e).lost = {}
      /\ ClearEvent(e).woken = {} /\ ~ClearEvent(e).set
  BY <1>1 DEF ClearEvent, Event
<1>3. QED  BY <1>2 DEF Held, Asleep, Coherent

(* A woken task that goes on leaves the event, which holds the others. *)
LEMMA ResumeHolds ==
    ASSUME NEW e \in Event(Writers), Coherent(e), NEW t \in e.woken
    PROVE  /\ Coherent(ResumeEvent(e, t))
           /\ Held(ResumeEvent(e, t)) = Held(e) \ {t}
           /\ ResumeEvent(e, t).lost = e.lost
<1> DEFINE v == ResumeEvent(e, t)
<1>1. v.set = e.set /\ v.waiting = e.waiting /\ v.lost = e.lost /\ v.woken = e.woken \ {t}
  BY DEF ResumeEvent, Event
<1> HIDE DEF v
<1>2. Coherent(v) /\ Held(v) = Held(e) \ {t}
  BY <1>1 DEF Coherent, Held, Asleep
<1>3. QED  BY <1>1, <1>2 DEF v

(* The writers there are stay the same, wherever one of them goes. *)
LEMMA SamePresent ==
    ASSUME TypeOK, NEW w \in Writers, NEW place \in Places \ {"absent"},
           pc[w] # "absent", pc' = [pc EXCEPT ![w] = place]
    PROVE  Present' = Present
BY DEF TypeOK, Present

(* A step in which a writer moves, but neither to nor from a drain, and that
   touches neither the buffer's length nor _is_empty. *)
LEMMA EmptyUntouched ==
    ASSUME SInv, buf'.empty = buf.empty, buf'.len = buf.len, buf'.complete = buf.complete,
           Present' = Present,
           \A v \in Writers : pc'[v] = "draining" <=> pc[v] = "draining"
    PROVE  EmptyInv' /\ EmptyMeansEmpty' /\ DrainInv' /\ buf'.empty.lost = {}
BY DEF SInv, WaitInv, EmptyInv, EmptyMeansEmpty, DrainInv, NeverStranded

(* A writer that begins to drain. *)
LEMMA DrainBegins ==
    ASSUME SInv, NEW w \in Writers, pc[w] = "ready",
           buf'.len = buf.len, buf'.paused = buf.paused,
           buf'.empty = WaitEvent(buf.empty, w),
           pc' = [pc EXCEPT ![w] = "draining"],
           buf'.complete \/ (Present = {w} /\ buf'.complete = buf.complete)
    PROVE  WaitInv'
<1>1. TypeOK /\ buf.empty \in Event(Writers)
  BY DEF SInv, IInv, TypeOK, Buffer
<1>2. /\ Coherent(buf.empty) /\ w \notin Held(buf.empty)
      /\ \A v \in Writers : pc[v] = "draining" <=> v \in Held(buf.empty)
      /\ buf.empty.lost = {} /\ buf.paused.lost # Present
  BY DEF SInv, WaitInv, EmptyInv, NeverStranded
<1>3. Present' = Present
  BY <1>1, SamePresent DEF Places
<1>4. Coherent(buf'.empty) /\ Held(buf'.empty) = Held(buf.empty) \cup {w}
  BY <1>1, <1>2, WaitSpendsOne
<1>5. buf'.empty.lost = {} /\ buf'.paused.lost # Present'
  BY <1>1, <1>2, <1>3, WaitLosesNobody
<1>6. EmptyInv'
  BY <1>1, <1>2, <1>4 DEF EmptyInv, TypeOK
<1>7. buf'.empty.set \/ buf'.empty.woken # {} => buf.empty.set \/ buf.empty.woken # {}
  BY <1>1 DEF WaitEvent, Event
<1>8. EmptyMeansEmpty'
  BY <1>7 DEF SInv, WaitInv, EmptyMeansEmpty
<1>9. DrainInv'
  <2> SUFFICES ASSUME NEW v \in Writers, pc'[v] = "draining", ~buf'.complete
               PROVE  Present = {v}
    BY <1>3 DEF DrainInv
  <2>1. Present = {w} /\ v \in Present
    BY <1>1, <1>3 DEF TypeOK, Present
  <2>2. QED  BY <2>1
<1>10. QED  BY <1>5, <1>6, <1>8, <1>9 DEF WaitInv, NeverStranded

(* No step of any writer or of the send task strands a task in drain, nor the
   last one in push. *)
LEMMA WaitStep == SInv /\ [Next]_vars => WaitInv'
<1> SUFFICES ASSUME SInv, [Next]_vars PROVE WaitInv'
  OBVIOUS
<1>1. /\ TypeOK /\ buf.len \in Nat
      /\ buf.paused \in Event(Writers) /\ buf.empty \in Event(Writers)
  BY DEF SInv, IInv, TypeOK, Buffer
<1>2. /\ Coherent(buf.paused) /\ Coherent(buf.empty)
      /\ \A w \in Writers : pc[w] = "draining" <=> w \in Held(buf.empty)
      /\ buf.empty.lost = {} /\ buf.paused.lost # Present
  BY DEF SInv, IInv, PausedInv, WaitInv, EmptyInv, NeverStranded
<1>3. buf.empty.set \/ buf.empty.woken # {} => buf.len = 0
  BY DEF SInv, WaitInv, EmptyMeansEmpty
<1>4. ASSUME NEW w \in Writers, NEW n \in 0..MaxPush, Push(w, n) PROVE WaitInv'
  <2>1. Present' = Present
    BY <1>1, <1>4, SamePresent DEF Push, Places
  <2>2. /\ buf'.empty = ClearEvent(buf.empty) /\ buf'.complete = buf.complete
        /\ buf'.paused \in {buf.paused, WaitEvent(buf.paused, w)}
    BY <1>1, <1>4 DEF Push, PushBuffer, TypeOK, Buffer
  <2>3. ASSUME NEW v \in Writers PROVE pc[v] # "draining"
    <3>1. w \in Present /\ pc[w] # "draining" /\ ~buf.complete
      BY <1>4 DEF Push, Present
    <3>2. QED  BY <3>1 DEF SInv, WaitInv, DrainInv
  <2>4. Held(buf.empty) = {}
    BY <1>1, <1>2, <2>3, EventParts DEF Held
  <2>5. /\ Coherent(buf'.empty) /\ Held(buf'.empty) = {} /\ buf'.empty.lost = {}
        /\ ~buf'.empty.set /\ buf'.empty.woken = {}
    BY <1>1, <2>2, <2>4, ClearHoldsNobody
  <2>6. \A v \in Writers : pc'[v] # "draining"
    BY <1>1, <1>4, <2>3 DEF Push, TypeOK
  <2>7. buf'.paused.lost # Present'
    BY <1>1, <1>2, <2>1, <2>2, WaitLosesNobody
  <2>8. QED
    BY <2>5, <2>6, <2>7 DEF WaitInv, EmptyInv, EmptyMeansEmpty, DrainInv, NeverStranded
<1>5. ASSUME NEW w \in Writers, PushReturns(w) PROVE WaitInv'
  <2>1. /\ buf'.empty = buf.empty /\ buf'.len = buf.len /\ buf'.complete = buf.complete
        /\ buf'.paused = ClearEvent(ResumeEvent(buf.paused, w))
        /\ w \in buf.paused.woken
    BY <1>1, <1>5 DEF PushReturns, EndPush, TypeOK, Buffer
  <2>2. Present' = Present /\ w \in Present
    BY <1>1, <1>5, SamePresent DEF PushReturns, Places, Present
  <2>3. \A v \in Writers : pc'[v] = "draining" <=> pc[v] = "draining"
    BY <1>1, <1>5 DEF PushReturns, TypeOK
  <2>4. EmptyInv' /\ EmptyMeansEmpty' /\ DrainInv' /\ buf'.empty.lost = {}
    BY <2>1, <2>2, <2>3, EmptyUntouched
  <2>5. Held(buf'.paused) = Held(buf.paused) \ {w}
    BY <1>1, <1>2, <2>1, ClearSpends
  <2>6. w \notin buf'.paused.lost
    BY <2>5 DEF Held, Asleep
  <2>7. QED  BY <2>2, <2>4, <2>6 DEF WaitInv, NeverStranded
<1>6. ASSUME NEW w \in Writers, EndBody(w) PROVE WaitInv'
  <2>1. /\ buf'.len = buf.len /\ buf'.paused = buf.paused /\ buf'.complete
        /\ buf'.empty = WaitEvent(buf.empty, w)
    BY <1>1, <1>6 DEF EndBody, DrainBuffer, CompleteBuffer, TypeOK, Buffer
  <2>2. QED  BY <1>6, <2>1, DrainBegins DEF EndBody
<1>7. ASSUME NEW w \in Writers, Trailers(w) PROVE WaitInv'
  <2>1. /\ buf'.len = buf.len /\ buf'.paused = buf.paused /\ buf'.complete = buf.complete
        /\ buf'.empty = WaitEvent(buf.empty, w)
    BY <1>1, <1>7 DEF Trailers, DrainBuffer, TypeOK, Buffer
  <2>2. QED  BY <1>7, <2>1, DrainBegins DEF Trailers
<1>8. ASSUME NEW w \in Writers, DrainReturns(w) PROVE WaitInv'
  <2>1. /\ buf'.len = buf.len /\ buf'.paused = buf.paused /\ buf'.complete = buf.complete
        /\ buf'.empty = ResumeEvent(buf.empty, w) /\ w \in buf.empty.woken
    BY <1>1, <1>8 DEF DrainReturns, EndDrain, TypeOK, Buffer
  <2>2. Present' = Present
    BY <1>1, <1>8, SamePresent DEF DrainReturns, Places
  <2>3. /\ Coherent(buf'.empty) /\ Held(buf'.empty) = Held(buf.empty) \ {w}
        /\ buf'.empty.lost = {}
    BY <1>1, <1>2, <2>1, ResumeHolds
  <2>4. \A v \in Writers : pc'[v] = "draining" <=> pc[v] = "draining" /\ v # w
    BY <1>1, <1>8 DEF DrainReturns, TypeOK
  <2>5. buf.len = 0
    BY <1>3, <2>1
  <2>6. EmptyInv' /\ EmptyMeansEmpty'
    BY <1>2, <2>1, <2>3, <2>4, <2>5 DEF EmptyInv, EmptyMeansEmpty
  <2>7. DrainInv'
    BY <2>1, <2>2, <2>4 DEF SInv, WaitInv, DrainInv
  <2>8. QED  BY <1>2, <2>1, <2>2, <2>3, <2>6, <2>7 DEF WaitInv, NeverStranded
<1>9. ASSUME NEW n \in 0..MaxPop, Pop(n) PROVE WaitInv'
  <2> DEFINE left == Rest(buf, n)
  <2>1. left \in Nat /\ left <= buf.len
    BY <1>1, SizesAssumption, RestBounds
  <2>2. /\ buf'.len = left /\ buf'.complete = buf.complete /\ pc' = pc
        /\ buf'.paused = PausedAfterPop(buf, left)
        /\ buf'.empty = EmptyAfterPop(buf, left)
    BY <1>1, <1>9 DEF Pop, PopBuffer, TypeOK, Buffer
  <2> HIDE DEF left
  <2>3. buf'.paused.lost = buf.paused.lost
    BY <1>1, <2>2, SetLosesNobody DEF PausedAfterPop
  <2>4. /\ Coherent(buf'.empty) /\ Held(buf'.empty) = Held(buf.empty)
        /\ buf'.empty.lost = {}
    BY <1>1, <1>2, <2>2, SetHolds, SetLosesNobody DEF EmptyAfterPop
  <2>5. left # 0 => buf'.empty = buf.empty /\ buf.len # 0
    BY <1>1, <2>1, <2>2 DEF EmptyAfterPop
  <2>6. EmptyMeansEmpty'
    BY <1>3, <2>2, <2>5 DEF EmptyMeansEmpty
  <2>7. DrainInv' /\ Present' = Present
    BY <2>2 DEF SInv, WaitInv, DrainInv, Present
  <2>8. QED
    BY <1>2, <2>2, <2>3, <2>4, <2>6, <2>7 DEF WaitInv, EmptyInv, NeverStranded
<1>10. ASSUME Close PROVE WaitInv'
  <2>1. /\ buf'.len = 0 /\ buf'.complete /\ pc' = pc
        /\ buf'.paused = SetEvent(buf.paused) /\ buf'.empty = SetEvent(buf.empty)
    BY <1>1, <1>10 DEF Close, CloseBuffer, TypeOK, Buffer
  <2>2. /\ Coherent(buf'.empty) /\ Held(buf'.empty) = Held(buf.empty)
        /\ buf'.empty.lost = {} /\ buf'.paused.lost = buf.paused.lost
    BY <1>1, <1>2, <2>1, SetHolds, SetLosesNobody
  <2>3. DrainInv' /\ Present' = Present
    BY <2>1 DEF DrainInv, Present
  <2>4. QED
    BY <1>2, <2>1, <2>2, <2>3 DEF WaitInv, EmptyInv, EmptyMeansEmpty, NeverStranded
<1>11. CASE UNCHANGED vars
  BY <1>11 DEF vars, SInv, WaitInv, EmptyInv, EmptyMeansEmpty, DrainInv, NeverStranded, Present
<1>12. QED  BY <1>4, <1>5, <1>6, <1>7, <1>8, <1>9, <1>10, <1>11 DEF Next

(* A fresh buffer has stranded nobody and holds nothing. *)
LEMMA WaitInit == Init => SInv
<1> SUFFICES ASSUME Init PROVE SInv
  OBVIOUS
<1>1. NewEvent \in Event(Writers) /\ Coherent(NewEvent) /\ Held(NewEvent) = {}
      /\ ~NewEvent.set /\ NewEvent.woken = {} /\ NewEvent.lost = {}
  BY DEF NewEvent, Event, Coherent, Held, Asleep
<1>2. PICK ws \in (SUBSET Writers) \ {{}} :
          pc = [w \in Writers |-> IF w \in ws THEN "ready" ELSE "absent"]
  BY DEF Init
<1>3. buf.empty = NewEvent /\ buf.paused = NewEvent
  BY DEF Init, NewBuffer
<1>4. Present # {} /\ \A w \in Writers : pc[w] # "draining"
  BY <1>2 DEF Present
<1>5. WaitInv
  BY <1>1, <1>3, <1>4 DEF WaitInv, EmptyInv, EmptyMeansEmpty, DrainInv, NeverStranded
<1>6. QED  BY <1>5, BoundInit DEF SInv

(* However many tasks write a stream, a task in drain is woken by the next
   set() of _is_empty, and the clear() of _paused never strands them all. *)
THEOREM NeverStrandedCorrect == Spec => []NeverStranded
<1>1. SInv => NeverStranded
  BY DEF SInv, WaitInv
<1>2. SInv /\ [Next]_vars => SInv'
  BY BoundStep, WaitStep DEF SInv
<1>3. QED  BY <1>1, <1>2, WaitInit, PTL DEF Spec

(* Whoever writes a stream, drain() returns on an empty buffer: trailers and
   END_STREAM never overtake a byte of the body. *)
THEOREM DrainedMeansEmptyCorrect == Spec => DrainedMeansEmpty
<1> DEFINE A == \A w \in Writers : pc[w] = "draining" /\ pc'[w] = "ready" => buf.len = 0
<1>1. SInv /\ [Next]_vars => A
  <2> SUFFICES ASSUME SInv, [Next]_vars, NEW w \in Writers,
                      pc[w] = "draining", pc'[w] = "ready"
               PROVE  buf.len = 0
    OBVIOUS
  <2>1. pc \in [Writers -> Places]
    BY DEF SInv, IInv, TypeOK
  <2>2. DrainReturns(w)
    BY <2>1 DEF Next, vars, Push, PushReturns, EndBody, Trailers, DrainReturns, Pop, Close
  <2>3. QED  BY <2>2 DEF DrainReturns, SInv, WaitInv, EmptyMeansEmpty
<1>2. SInv /\ [Next]_vars => SInv'
  BY BoundStep, WaitStep DEF SInv
<1>3. Spec => [][A]_vars
  BY <1>1, <1>2, WaitInit, PTL DEF Spec
<1>4. QED  BY <1>3 DEF DrainedMeansEmpty
=============================================================================
