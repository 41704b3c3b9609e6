---------------------------- MODULE HTTPStreamProofs ----------------------------
(***************************************************************************)
(* That HTTPStream implements HTTPResponse, whatever the bounds on the     *)
(* body and the limit of the wrapper: every step is one of the promise or  *)
(* leaves what it is about unchanged.                                      *)
(***************************************************************************)
EXTENDS HTTPStream, TLAPS

Unlogged == entries \in {<<>>, <<"gone">>}

Begun == wire \in {"started", "trailed"}

(* What is still to do, by what must be so for the promise to be kept.     *)

(* Nothing that ends the response: it is open, or it is over.              *)
PlanOpen == todo \in {<<>>, <<"return">>, <<"send">>}

PlanBegins ==
    /\ todo \in {<<"respond">>, <<"respond", "send">>}
    /\ state = "REQUEST" /\ wire = "started" /\ said = "open"

PlanTrailing == /\ todo \in {<<"trailing">>, <<"send", "trailing">>}
                /\ state \in {"REQUEST", "RESPONSE"} /\ Begun /\ (said = "open" \/ broken)

(* The application has said its last.                                      *)
PlanSeals ==
    /\ todo \in {SendClosed, <<"send", "seal", "log", "close">>,
                 <<"trailing", "seal", "log", "close">>}
    /\ state # "CLOSED" /\ Begun /\ said = "finished"

(* The server answers for it, the response being sealed from the start.    *)
PlanEnds ==
    /\ todo \in {<<"end", "log", "close">>, <<"end", "log", "close", "shut">>,
                 <<"end", "close", "shut">>}
    /\ state = "CLOSED" /\ wire = "started" /\ said = "failed" /\ Unlogged

PlanLogs == /\ todo \in {<<"log", "close">>, <<"log", "close", "shut">>}
            /\ state = "CLOSED" /\ wire = "ended" /\ Unlogged

PlanCloses == /\ todo \in {<<"close">>, <<"close", "shut">>}
              /\ state = "CLOSED" /\ wire = "ended"

PlanShuts == todo = <<"shut">> /\ state = "CLOSED" /\ wire = "closed"

PlanInv == \/ PlanOpen \/ PlanBegins \/ PlanTrailing \/ PlanSeals
           \/ PlanEnds \/ PlanLogs \/ PlanCloses \/ PlanShuts

Sealing == todo \in {SendClosed, <<"send", "seal", "log", "close">>,
                     <<"trailing", "seal", "log", "close">>}

(* What h11 may refuse for good comes next: the response has begun.        *)
Sending == todo \in {<<"send">>, <<"send", "trailing">>, SendClosed,
                     <<"send", "seal", "log", "close">>}

(* The state of the stream, what has been handed on, and the log, between  *)
(* two calls and within one.  Once h11 has refused content or the end, the *)
(* application may have said its last in vain, and a sealed response has   *)
(* not ended.                                                              *)
StateInv ==
    /\ state \in {"REQUEST", "RESPONSE", "TRAILERS", "CLOSED"}
    /\ closed \in BOOLEAN /\ declared \in BOOLEAN /\ sent \in BOOLEAN /\ broken \in BOOLEAN
    /\ wire \in {"none", "started", "trailed", "ended", "closed", "aborted"}
    /\ state = "REQUEST" => wire \in {"none", "started"}
    /\ state = "REQUEST" /\ PlanOpen => wire = "none"
    /\ state \in {"RESPONSE", "TRAILERS"} => wire \in {"started", "trailed", "aborted"}
    /\ state = "REQUEST" => ~broken
    /\ Sending => state \in {"RESPONSE", "TRAILERS"}
    /\ state # "CLOSED" => said \in {"open", "finished"}
    /\ state # "CLOSED" /\ ~Sealing => said = "open" \/ broken
    /\ state = "CLOSED" /\ PlanOpen =>
          \/ wire = "closed"
          \/ broken /\ wire \in {"started", "trailed", "aborted"}

(* The log names the response only once it is sealed, and its client's     *)
(* leaving only if it left.                                                *)
LogInv == /\ state # "CLOSED" => Unlogged
          /\ state # "CLOSED" /\ ~closed => entries = <<>>

(* Where the application is.                                               *)
StageInv ==
    /\ stage = "none" => todo = <<>> /\ state = "REQUEST" /\ ~sent
    /\ stage \in {"undecoded", "refused"} => state = "CLOSED"
    /\ stage \in {"body", "app", "last"} => wire # "aborted"
    /\ kind = "wsgi" /\ stage = "body" => state = "REQUEST" /\ PlanOpen /\ ~sent
    /\ kind = "wsgi" /\ stage = "app" =>
          /\ ~sent => state = "REQUEST" /\ PlanOpen
          /\ sent => \/ state = "RESPONSE" /\ PlanOpen
                     \/ state = "REQUEST" /\ PlanBegins
    /\ kind = "wsgi" /\ stage = "last" => \/ state = "RESPONSE" /\ PlanOpen
                                          \/ state = "REQUEST" /\ PlanBegins

IInv == PlanInv /\ StateInv /\ LogInv /\ StageInv

(* A step as the promise sees it. *)
Kept == [Promise!Next]_promiseVars

--------------------------------------------------------------------------------
(* Runs of steps. *)

(* What makes a run the concatenation of two. *)
LEMMA Joined ==
    ASSUME NEW a \in Seq(Steps), NEW b \in Seq(Steps), NEW c \in Seq(Steps),
           Len(c) = Len(a) + Len(b),
           \A i \in 1..Len(a) : c[i] = a[i],
           \A i \in 1..Len(b) : c[Len(a) + i] = b[i]
    PROVE  a \o b = c
OBVIOUS

(* Runs of the lengths that calls have. *)
LEMMA OneAndOne ==
    ASSUME NEW p \in Steps, NEW x \in Steps
    PROVE  <<p>> \o <<x>> = <<p, x>>
<1> DEFINE a == <<p>>
           b == <<x>>
           c == <<p, x>>
<1>1. a \in Seq(Steps) /\ b \in Seq(Steps) /\ c \in Seq(Steps) /\ Len(c) = Len(a) + Len(b)
  OBVIOUS
<1>2. \A i \in 1..Len(a) : c[i] = a[i]
  OBVIOUS
<1>3. \A i \in 1..Len(b) : c[Len(a) + i] = b[i]
  OBVIOUS
<1> HIDE DEF a, b, c
<1>4. a \o b = c
  BY <1>1, <1>2, <1>3, Joined
<1>5. QED
  BY <1>4 DEF a, b, c

(* One step, then the three that end a body. *)
LEMMA OneAndThree ==
    ASSUME NEW p \in Steps, NEW x \in Steps, NEW y \in Steps, NEW z \in Steps
    PROVE  <<p>> \o <<x, y, z>> = <<p, x, y, z>>
<1> DEFINE a == <<p>>
           b == <<x, y, z>>
           c == <<p, x, y, z>>
<1>1. a \in Seq(Steps) /\ b \in Seq(Steps) /\ c \in Seq(Steps) /\ Len(c) = Len(a) + Len(b)
  OBVIOUS
<1>2. \A i \in 1..Len(a) : c[i] = a[i]
  OBVIOUS
<1>3. \A i \in 1..Len(b) : c[Len(a) + i] = b[i]
  OBVIOUS
<1> HIDE DEF a, b, c
<1>4. a \o b = c
  BY <1>1, <1>2, <1>3, Joined
<1>5. QED
  BY <1>4 DEF a, b, c

(* Two steps, then one. *)
LEMMA TwoAndOne ==
    ASSUME NEW p \in Steps, NEW q \in Steps, NEW x \in Steps
    PROVE  <<p, q>> \o <<x>> = <<p, q, x>>
<1> DEFINE a == <<p, q>>
           b == <<x>>
           c == <<p, q, x>>
<1>1. a \in Seq(Steps) /\ b \in Seq(Steps) /\ c \in Seq(Steps) /\ Len(c) = Len(a) + Len(b)
  OBVIOUS
<1>2. \A i \in 1..Len(a) : c[i] = a[i]
  OBVIOUS
<1>3. \A i \in 1..Len(b) : c[Len(a) + i] = b[i]
  OBVIOUS
<1> HIDE DEF a, b, c
<1>4. a \o b = c
  BY <1>1, <1>2, <1>3, Joined
<1>5. QED
  BY <1>4 DEF a, b, c

(* Two steps, then the three that end a body. *)
LEMMA TwoAndThree ==
    ASSUME NEW p \in Steps, NEW q \in Steps, NEW x \in Steps, NEW y \in Steps, NEW z \in Steps
    PROVE  <<p, q>> \o <<x, y, z>> = <<p, q, x, y, z>>
<1> DEFINE a == <<p, q>>
           b == <<x, y, z>>
           c == <<p, q, x, y, z>>
<1>1. a \in Seq(Steps) /\ b \in Seq(Steps) /\ c \in Seq(Steps) /\ Len(c) = Len(a) + Len(b)
  OBVIOUS
<1>2. \A i \in 1..Len(a) : c[i] = a[i]
  OBVIOUS
<1>3. \A i \in 1..Len(b) : c[Len(a) + i] = b[i]
  OBVIOUS
<1> HIDE DEF a, b, c
<1>4. a \o b = c
  BY <1>1, <1>2, <1>3, Joined
<1>5. QED
  BY <1>4 DEF a, b, c

(* Four steps, then one. *)
LEMMA FourAndOne ==
    ASSUME NEW p \in Steps, NEW q \in Steps, NEW r \in Steps, NEW s \in Steps, NEW x \in Steps
    PROVE  <<p, q, r, s>> \o <<x>> = <<p, q, r, s, x>>
<1> DEFINE a == <<p, q, r, s>>
           b == <<x>>
           c == <<p, q, r, s, x>>
<1>1. a \in Seq(Steps) /\ b \in Seq(Steps) /\ c \in Seq(Steps) /\ Len(c) = Len(a) + Len(b)
  OBVIOUS
<1>2. \A i \in 1..Len(a) : c[i] = a[i]
  OBVIOUS
<1>3. \A i \in 1..Len(b) : c[Len(a) + i] = b[i]
  OBVIOUS
<1> HIDE DEF a, b, c
<1>4. a \o b = c
  BY <1>1, <1>2, <1>3, Joined
<1>5. QED
  BY <1>4 DEF a, b, c

(* The names of the steps. *)
LEMMA StepsFact ==
    /\ "send" \in Steps /\ "trailing" \in Steps /\ "seal" \in Steps /\ "log" \in Steps
    /\ "close" \in Steps /\ "shut" \in Steps /\ "error" \in Steps /\ "end" \in Steps
    /\ "response" \in Steps /\ "trailers" \in Steps /\ "respond" \in Steps
    /\ "return" \in Steps
BY DEF Steps

(* The run of the trailers sent first, of trailers, and of a refusal. *)
LEMMA OtherRuns ==
    /\ <<"response", "trailing">> \o SendClosed
          = <<"response", "trailing", "seal", "log", "close">>
    /\ <<"response", "trailing">> \o <<>> = <<"response", "trailing">>
    /\ <<"trailers">> \o SendClosed = <<"trailers", "seal", "log", "close">>
    /\ <<"trailers">> \o <<>> = <<"trailers">>
    /\ <<>> \o SendClosed = SendClosed
    /\ ErrorResponse \o <<"shut">> = <<"error", "end", "log", "close", "shut">>
<1>1. <<"response", "trailing">> \o SendClosed
          = <<"response", "trailing", "seal", "log", "close">>
  BY TwoAndThree, StepsFact DEF SendClosed
<1>2. <<"trailers">> \o SendClosed = <<"trailers", "seal", "log", "close">>
  BY OneAndThree, StepsFact DEF SendClosed
<1>3. ErrorResponse \o <<"shut">> = <<"error", "end", "log", "close", "shut">>
  BY FourAndOne, StepsFact DEF ErrorResponse
<1>4. /\ <<"response", "trailing">> \o <<>> = <<"response", "trailing">>
      /\ <<"trailers">> \o <<>> = <<"trailers">>
  BY StepsFact
<1>5. <<>> \o SendClosed = SendClosed
  BY StepsFact DEF SendClosed
<1>6. QED
  BY <1>1, <1>2, <1>3, <1>4, <1>5

(* The run of a body message: its pieces, and what ends the body. *)
LEMMA BodyRuns ==
    ASSUME NEW n \in 0..2
    PROVE  LET run(b) == [i \in 1..n |-> "send"] \o b
           IN  /\ run(<<>>) \in {<<>>, <<"send">>, <<"send", "send">>}
               /\ run(<<"trailing">>) \in {<<"trailing">>, <<"send", "trailing">>,
                                            <<"send", "send", "trailing">>}
               /\ run(SendClosed) \in {SendClosed, <<"send", "seal", "log", "close">>,
                                        <<"send", "send", "seal", "log", "close">>}
<1> DEFINE sends == [i \in 1..n |-> "send"]
<1>1. sends \in {<<>>, <<"send">>, <<"send", "send">>}
  BY StepsFact
<1>2. \A b \in {<<"trailing">>, SendClosed} : <<>> \o b = b
  BY StepsFact DEF SendClosed
<1>3. \A a \in {<<>>, <<"send">>, <<"send", "send">>} : a \o <<>> = a
  BY StepsFact
<1>4. /\ <<"send">> \o <<"trailing">> = <<"send", "trailing">>
      /\ <<"send", "send">> \o <<"trailing">> = <<"send", "send", "trailing">>
  BY OneAndOne, TwoAndOne, StepsFact
<1>5. <<"send">> \o SendClosed = <<"send", "seal", "log", "close">>
  BY OneAndThree, StepsFact DEF SendClosed
<1>6. <<"send", "send">> \o SendClosed = <<"send", "send", "seal", "log", "close">>
  BY TwoAndThree, StepsFact DEF SendClosed
<1> HIDE DEF sends
<1>7. /\ sends \o <<>> \in {<<>>, <<"send">>, <<"send", "send">>}
      /\ sends \o <<"trailing">> \in {<<"trailing">>, <<"send", "trailing">>,
                                       <<"send", "send", "trailing">>}
      /\ sends \o SendClosed \in {SendClosed, <<"send", "seal", "log", "close">>,
                                   <<"send", "send", "seal", "log", "close">>}
  BY <1>1, <1>2, <1>3, <1>4, <1>5, <1>6
<1>8. QED
  BY <1>7 DEF sends

(* What a run does first, and what is then left. *)
First(run, step, rest) == Head(run) = step /\ Tail(run) = rest

(* The runs that a call in progress may have left. *)
LEMMA Firsts ==
    /\ First(<<"return">>, "return", <<>>)
    /\ First(<<"send">>, "send", <<>>)
    /\ First(<<"respond">>, "respond", <<>>)
    /\ First(<<"trailing">>, "trailing", <<>>)
    /\ First(<<"close">>, "close", <<>>)
    /\ First(<<"shut">>, "shut", <<>>)
    /\ First(<<"respond", "send">>, "respond", <<"send">>)
    /\ First(<<"send", "trailing">>, "send", <<"trailing">>)
    /\ First(<<"close", "shut">>, "close", <<"shut">>)
    /\ First(<<"log", "close">>, "log", <<"close">>)
    /\ First(<<"log", "close", "shut">>, "log", <<"close", "shut">>)
    /\ First(<<"end", "log", "close">>, "end", <<"log", "close">>)
    /\ First(<<"end", "close", "shut">>, "end", <<"close", "shut">>)
    /\ First(<<"seal", "log", "close">>, "seal", <<"log", "close">>)
    /\ First(<<"end", "log", "close", "shut">>, "end", <<"log", "close", "shut">>)
    /\ First(<<"send", "seal", "log", "close">>, "send", <<"seal", "log", "close">>)
    /\ First(<<"trailing", "seal", "log", "close">>, "trailing", <<"seal", "log", "close">>)
BY StepsFact DEF First

(* A call goes on: its first step is done, rest is left, the application is at at. *)
Goes(step, rest, at) == /\ Perform(step) /\ UNCHANGED broken
                        /\ todo' = rest /\ stage' = at

(* A call stops: h11 has refused its first step. *)
Stops(step, at) ==
    /\ version = "1.1" /\ step \in {"response", "send", "seal"}
    /\ state' = IF step = "seal" THEN "CLOSED" ELSE state
    /\ broken' = (broken \/ step \in {"send", "seal"})
    /\ UNCHANGED <<closed, wire, entries>>
    /\ todo' = <<>>
    /\ stage' = IF kind = "wsgi" /\ at \in {"app", "last"} THEN "left" ELSE at

(* Whatever a call is, it goes on or it stops. *)
LEMMA Calls ==
    ASSUME NEW run, NEW step, NEW rest, NEW at, First(run, step, rest), Do(run, at)
    PROVE  Goes(step, rest, at) \/ Stops(step, at)
BY DEF First, Do, Goes, Stops, Refused, Refusable

(* The steps that calls start with, each with what it leaves alone. *)
LEMMA FirstSteps ==
    ASSUME NEW step, NEW rest, NEW at, Goes(step, rest, at)
    PROVE  /\ todo' = rest /\ stage' = at /\ broken' = broken
           /\ step = "response" => wire' = "started" /\ UNCHANGED <<state, closed, entries>>
           /\ step = "error" => wire' = "started" /\ state' = "CLOSED"
                                /\ UNCHANGED <<closed, entries>>
           /\ step = "seal" => wire' = "ended" /\ state' = "CLOSED"
                               /\ UNCHANGED <<closed, entries>>
           /\ step = "trailing" => state' = "TRAILERS" /\ UNCHANGED <<wire, closed, entries>>
           /\ step = "trailers" => wire' = "trailed" /\ UNCHANGED <<state, closed, entries>>
           /\ step = "send" => UNCHANGED <<state, closed, wire, entries>>
           /\ step = "close" => Close
BY DEF Goes, Perform, Response, Error, Seal, Trailing, Trailers

--------------------------------------------------------------------------------
(* The invariant. *)

(* The invariant holds at the start. *)
LEMMA Initially == Init => IInv
<1>1. ASSUME Init PROVE PlanOpen /\ ~Sealing /\ ~Sending
  BY <1>1 DEF Init, PlanOpen, Sealing, Sending, SendClosed
<1>2. QED
  BY <1>1 DEF Init, IInv, PlanInv, StateInv, LogInv, StageInv, Unlogged

(* Content, or the end of it, that h11 refuses for good. *)
LEMMA BodyRefused ==
    ASSUME IInv, state \in {"RESPONSE", "TRAILERS"}, todo' = <<>>, broken',
           state' \in {state, "CLOSED"},
           stage' \in {stage, "left"}, kind = "wsgi" => stage' \notin {"app", "last"},
           UNCHANGED <<kind, closed, declared, sent, wire, entries>>,
           said' = said \/ said' = "finished"
    PROVE  IInv' /\ Kept
<1>1. /\ wire \in {"started", "trailed", "aborted"} /\ said \in {"open", "finished"}
      /\ broken' = TRUE
  BY DEF IInv, StateInv
<1>2. PlanOpen' /\ ~Sealing' /\ ~Sending'
  BY DEF PlanOpen, Sealing, Sending, SendClosed
<1>3. IInv'
  BY <1>1, <1>2 DEF IInv, PlanInv, StateInv, LogInv, StageInv, Unlogged
<1>4. Promise!Finish \/ UNCHANGED promiseVars
  BY <1>1 DEF Promise!Finish, promiseVars
<1>5. QED
  BY <1>3, <1>4 DEF Kept, Promise!Next

(* A call that goes on. *)
LEMMA GoesOn ==
    ASSUME IInv, Continue, Goes(Head(todo), Tail(todo), stage)
    PROVE  IInv' /\ Kept
<1>1. /\ UNCHANGED <<version, kind, declared, broken, stage, sent, said>>
      /\ todo # <<>> /\ Perform(Head(todo)) /\ todo' = Tail(todo)
  BY DEF Continue, Goes, requestVars, wsgiVars
<1>2. CASE PlanOpen
  <2>1. Head(todo) \in {"return", "send"} /\ todo' = <<>>
    BY <1>1, <1>2 DEF PlanOpen
  <2>2. UNCHANGED <<state, closed, wire, entries>>
    BY <1>1, <2>1 DEF Perform
  <2>3. PlanOpen' /\ ~PlanBegins /\ ~Sealing /\ ~Sealing' /\ ~Sending'
    BY <1>2, <2>1 DEF PlanOpen, PlanBegins, Sealing, Sending, SendClosed
  <2>4. IInv'
    BY <1>1, <1>2, <2>1, <2>2, <2>3 DEF IInv, PlanInv, StateInv, LogInv, StageInv, Unlogged
  <2>5. QED
    BY <1>1, <2>2, <2>4 DEF Kept, promiseVars
<1>3. CASE PlanBegins
  <2>1. Head(todo) = "respond" /\ todo' \in {<<>>, <<"send">>}
    BY <1>1, <1>3, Firsts DEF First, PlanBegins
  <2>2. state' = "RESPONSE" /\ UNCHANGED <<closed, wire, entries>>
    BY <1>1, <2>1 DEF Perform, Respond
  <2>3. PlanOpen' /\ ~Sealing /\ ~Sealing' /\ ~PlanOpen
    BY <1>3, <2>1 DEF PlanOpen, PlanBegins, Sealing, SendClosed
  <2>4. IInv'
    BY <1>1, <1>3, <2>1, <2>2, <2>3
       DEF IInv, PlanInv, PlanBegins, StateInv, LogInv, StageInv, Unlogged
  <2>5. QED
    BY <1>1, <2>2, <2>4 DEF Kept, promiseVars
<1>4. CASE PlanTrailing
  <2>1. \/ Head(todo) = "trailing" /\ todo' = <<>>
        \/ Head(todo) = "send" /\ todo' = <<"trailing">>
    BY <1>1, <1>4, Firsts DEF First, PlanTrailing
  <2>2. state' \in {state, "TRAILERS"} /\ UNCHANGED <<closed, wire, entries>>
    BY <1>1, <2>1 DEF Perform, Trailing
  <2>3. ~Sealing /\ ~Sealing' /\ ~Sending' /\ ~PlanOpen /\ ~PlanBegins
    BY <1>4, <2>1 DEF PlanOpen, PlanBegins, PlanTrailing, Sealing, Sending, SendClosed
  <2>4. \/ PlanOpen' /\ state' = "TRAILERS"
        \/ PlanTrailing' /\ ~PlanOpen' /\ state' = state
    BY <1>1, <1>4, <2>1, <2>2 DEF PlanOpen, PlanTrailing, Begun, Perform, Trailing
  <2>5. IInv'
    BY <1>1, <1>4, <2>2, <2>3, <2>4
       DEF IInv, PlanInv, PlanTrailing, StateInv, LogInv, StageInv, Unlogged, Begun
  <2>6. QED
    BY <1>1, <2>2, <2>5 DEF Kept, promiseVars
<1>5. CASE PlanSeals
  <2>1. \/ Head(todo) = "seal" /\ todo' = <<"log", "close">>
        \/ Head(todo) = "send" /\ todo' = SendClosed /\ Sending
        \/ Head(todo) = "trailing" /\ todo' = SendClosed
    BY <1>1, <1>5, Firsts DEF First, PlanSeals, Sending, SendClosed
  <2>2. ~PlanOpen /\ ~PlanOpen' /\ ~PlanBegins
    BY <1>5, <2>1 DEF PlanOpen, PlanBegins, PlanSeals, SendClosed
  <2>3. CASE Head(todo) = "seal"
    <3>1. /\ todo' = <<"log", "close">>
          /\ state' = "CLOSED" /\ wire' = "ended" /\ UNCHANGED <<closed, entries>>
      BY <1>1, <2>1, <2>3 DEF Perform, Seal
    <3>2. PlanLogs' /\ ~Sending'
      BY <1>5, <3>1 DEF PlanLogs, PlanSeals, IInv, LogInv, Unlogged, Sending, SendClosed
    <3>3. IInv'
      BY <1>1, <1>5, <2>2, <3>1, <3>2
         DEF IInv, PlanInv, PlanSeals, StateInv, LogInv, StageInv, Unlogged
    <3>4. Promise!End
      BY <1>1, <1>5, <3>1 DEF Promise!End, Promise!Says, PlanSeals, Begun
    <3>5. QED
      BY <3>3, <3>4 DEF Kept, Promise!Next
  <2>4. CASE Head(todo) \in {"send", "trailing"}
    <3>1. /\ todo' = SendClosed /\ state' \in {"RESPONSE", "TRAILERS"}
          /\ state' \in {state, "TRAILERS"} /\ UNCHANGED <<closed, wire, entries>>
      BY <1>1, <2>1, <2>4 DEF Perform, Trailing, IInv, StateInv
    <3>2. PlanSeals' /\ Sealing /\ Sealing'
      BY <1>1, <1>5, <3>1 DEF PlanSeals, Sealing, Begun
    <3>3. IInv'
      BY <1>1, <1>5, <2>2, <3>1, <3>2
         DEF IInv, PlanInv, PlanSeals, StateInv, LogInv, StageInv, Unlogged, Begun
    <3>4. QED
      BY <1>1, <3>1, <3>3 DEF Kept, promiseVars
  <2>5. QED
    BY <2>1, <2>3, <2>4
<1>6. CASE PlanEnds
  <2>1. /\ Head(todo) = "end"
        /\ todo' \in {<<"log", "close">>, <<"log", "close", "shut">>, <<"close", "shut">>}
    BY <1>1, <1>6, Firsts DEF First, PlanEnds
  <2>2. wire' = "ended" /\ UNCHANGED <<state, closed, entries>>
    BY <1>1, <2>1 DEF Perform, End
  <2>3. ~PlanOpen /\ ~PlanOpen' /\ ~Sending'
    BY <1>6, <2>1 DEF PlanOpen, PlanEnds, Sending, SendClosed
  <2>4. PlanLogs' \/ PlanCloses'
    BY <1>6, <2>1, <2>2 DEF PlanLogs, PlanCloses, PlanEnds, Unlogged
  <2>5. IInv'
    BY <1>1, <1>6, <2>2, <2>3, <2>4
       DEF IInv, PlanInv, PlanEnds, StateInv, LogInv, StageInv
  <2>6. Promise!End
    BY <1>1, <1>6, <2>2 DEF Promise!End, Promise!Says, PlanEnds
  <2>7. QED
    BY <2>5, <2>6 DEF Kept, Promise!Next
<1>7. CASE PlanLogs
  <2>1. Head(todo) = "log" /\ todo' \in {<<"close">>, <<"close", "shut">>}
    BY <1>1, <1>7, Firsts DEF First, PlanLogs
  <2>2. entries' = Append(entries, "finished") /\ UNCHANGED <<state, closed, wire>>
    BY <1>1, <2>1 DEF Perform, Log
  <2>3. ~PlanOpen /\ ~PlanOpen' /\ ~Sending'
    <3>1. ~PlanOpen
      BY <1>7 DEF PlanOpen, PlanLogs
    <3>2. ~PlanOpen' /\ ~Sending'
      BY <2>1 DEF PlanOpen, Sending, SendClosed
    <3>3. QED
      BY <3>1, <3>2
  <2>4. PlanCloses'
    BY <1>7, <2>1, <2>2 DEF PlanLogs, PlanCloses
  <2>5. IInv'
    BY <1>1, <1>7, <2>2, <2>3, <2>4
       DEF IInv, PlanInv, PlanLogs, StateInv, LogInv, StageInv
  <2>6. Promise!LogFinished
    BY <1>1, <1>7, <2>2 DEF Promise!LogFinished, PlanLogs, Unlogged
  <2>7. QED
    BY <2>5, <2>6 DEF Kept, Promise!Next
<1>8. CASE PlanCloses
  <2>1. Head(todo) = "close" /\ todo' \in {<<>>, <<"shut">>}
    BY <1>1, <1>8, Firsts DEF First, PlanCloses
  <2>2. /\ wire' = "closed" /\ UNCHANGED <<state, entries>>
        /\ closed' \in BOOLEAN
    BY <1>1, <1>8, <2>1 DEF Perform, Close, Gone, PlanCloses, IInv, StateInv
  <2>3. ~PlanOpen /\ ~Sending'
    BY <1>8, <2>1 DEF PlanOpen, PlanCloses, Sending, SendClosed
  <2>4. PlanOpen' \/ PlanShuts'
    BY <1>8, <2>1, <2>2 DEF PlanOpen, PlanShuts, PlanCloses
  <2>5. IInv'
    BY <1>1, <1>8, <2>2, <2>3, <2>4
       DEF IInv, PlanInv, PlanCloses, StateInv, LogInv, StageInv
  <2>6. Promise!Close
    BY <1>1, <1>8, <2>2 DEF Promise!Close, PlanCloses
  <2>7. QED
    BY <2>5, <2>6 DEF Kept, Promise!Next
<1>9. CASE PlanShuts
  <2>1. Head(todo) = "shut" /\ todo' = <<>>
    BY <1>1, <1>9, Firsts DEF First, PlanShuts
  <2>2. closed' = TRUE /\ UNCHANGED <<state, wire, entries>>
    BY <1>1, <2>1 DEF Perform, Shut
  <2>3. PlanOpen' /\ ~Sending'
    BY <2>1 DEF PlanOpen, Sending, SendClosed
  <2>4. IInv'
    BY <1>1, <1>9, <2>2, <2>3 DEF IInv, PlanInv, PlanShuts, StateInv, LogInv, StageInv
  <2>5. QED
    BY <1>1, <2>2, <2>4 DEF Kept, promiseVars
<1>10. QED
  BY <1>2, <1>3, <1>4, <1>5, <1>6, <1>7, <1>8, <1>9 DEF IInv, PlanInv

(* A call that goes on, or that h11 stops. *)
LEMMA Continues ==
    ASSUME IInv, Continue
    PROVE  IInv' /\ Kept
<1>1. UNCHANGED <<kind, declared, sent, said>> /\ todo # <<>> /\ Do(todo, stage)
  BY DEF Continue, requestVars, wsgiVars
<1>2. Goes(Head(todo), Tail(todo), stage) \/ Stops(Head(todo), stage)
  BY <1>1, Calls DEF First
<1>3. CASE Stops(Head(todo), stage)
  <2>1. Head(todo) \in {"response", "send", "seal"}
    BY <1>3 DEF Stops
  <2>2. Sending /\ Head(todo) # "response"
    <3>1. CASE PlanOpen
      BY <1>1, <2>1, <3>1, Firsts DEF First, PlanOpen, Sending
    <3>2. CASE PlanTrailing \/ PlanSeals
      BY <2>1, <3>2, Firsts DEF First, PlanTrailing, PlanSeals, Sending, SendClosed
    <3>3. CASE PlanBegins \/ PlanEnds \/ PlanLogs \/ PlanCloses \/ PlanShuts
      BY <2>1, <3>3, Firsts
         DEF First, PlanBegins, PlanEnds, PlanLogs, PlanCloses, PlanShuts
    <3>4. QED
      BY <3>1, <3>2, <3>3 DEF IInv, PlanInv
  <2>3. state \in {"RESPONSE", "TRAILERS"}
    BY <2>2 DEF IInv, StateInv
  <2>4. /\ todo' = <<>> /\ broken' /\ state' \in {state, "CLOSED"}
        /\ UNCHANGED <<closed, wire, entries>>
        /\ stage' \in {stage, "left"} /\ (kind = "wsgi" => stage' \notin {"app", "last"})
    BY <1>3, <2>1, <2>2 DEF Stops
  <2>5. QED
    BY <1>1, <2>3, <2>4, BodyRefused
<1>4. QED
  BY <1>2, <1>3, GoesOn

(* A step that changes nothing the invariant or the promise is about. *)
LEMMA Stutters ==
    ASSUME IInv,
           UNCHANGED <<kind, state, closed, declared, broken, stage, todo, sent, wire, said,
                       entries>>
    PROVE  IInv' /\ Kept
BY DEF IInv, PlanInv, PlanOpen, PlanBegins, PlanTrailing, PlanSeals, PlanEnds, PlanLogs,
       PlanCloses, PlanShuts, Sealing, Sending, Begun, Unlogged, StateInv, LogInv, StageInv, Kept,
       promiseVars

(* Between two calls. *)
LEMMA AtRest ==
    ASSUME IInv, todo = <<>>
    PROVE  /\ PlanOpen /\ ~PlanBegins /\ ~Sealing /\ ~Sending
           /\ state = "REQUEST" => wire = "none" /\ said = "open" /\ ~broken
           /\ state # "CLOSED" => Unlogged /\ said \in {"open", "finished"}
           /\ state # "CLOSED" => said = "open" \/ broken
           /\ state # "CLOSED" /\ ~closed => entries = <<>>
           /\ state = "CLOSED" => \/ wire = "closed"
                                  \/ broken /\ wire \in {"started", "trailed", "aborted"}
<1>1. PlanOpen /\ ~PlanBegins /\ ~Sealing /\ ~Sending
  BY DEF PlanOpen, PlanBegins, Sealing, Sending, SendClosed
<1>2. QED
  BY <1>1 DEF IInv, StateInv, LogInv

(* A call whose first step hands nothing on and that has only sends left. *)
LEMMA OpenCall ==
    ASSUME IInv, todo = <<>>, PlanOpen', stage # "none",
           todo' = <<"send">> => state = "RESPONSE",
           UNCHANGED <<kind, state, closed, declared, broken, stage, sent, wire, said, entries>>
    PROVE  IInv' /\ Kept
<1>1. ~Sealing' /\ ~PlanBegins' /\ (Sending' => state = "RESPONSE")
  BY DEF PlanOpen, PlanBegins, Sealing, Sending, SendClosed
<1>2. IInv'
  BY AtRest, <1>1 DEF IInv, PlanInv, StateInv, LogInv, StageInv, Unlogged
<1>3. QED
  BY <1>2 DEF Kept, promiseVars

(* A response that begins. *)
LEMMA BeginCall ==
    ASSUME IInv, todo = <<>>, state = "REQUEST",
           todo' \in {<<"respond">>, <<"respond", "send">>},
           wire' = "started", UNCHANGED <<kind, state, closed, broken, said, entries>>,
           declared' \in BOOLEAN, sent' \in BOOLEAN,
           stage' \in {"app", "last"}, kind = "wsgi" /\ stage' = "app" => sent'
    PROVE  IInv' /\ Kept
<1>1. PlanBegins' /\ ~PlanOpen' /\ ~Sealing' /\ ~Sending'
  BY AtRest DEF PlanOpen, PlanBegins, Sealing, Sending, SendClosed
<1>2. IInv'
  BY AtRest, <1>1 DEF IInv, PlanInv, StateInv, LogInv, StageInv, Unlogged
<1>3. Promise!Start
  BY AtRest DEF Promise!Start, Promise!Says
<1>4. QED
  BY <1>2, <1>3 DEF Kept, Promise!Next

(* A response whose headers h11 refuses does not begin. *)
LEMMA HeadersRefused ==
    ASSUME IInv, todo = <<>>, state = "REQUEST", todo' = <<>>,
           UNCHANGED <<kind, state, closed, broken, wire, said, entries>>,
           declared' \in BOOLEAN, sent' \in BOOLEAN,
           stage' \in {"app", "left"}, kind = "wsgi" => stage' # "app"
    PROVE  IInv' /\ Kept
<1>1. PlanOpen' /\ ~Sealing' /\ ~Sending'
  BY DEF PlanOpen, Sealing, Sending, SendClosed
<1>2. IInv'
  BY AtRest, <1>1 DEF IInv, PlanInv, StateInv, LogInv, StageInv, Unlogged
<1>3. QED
  BY <1>2 DEF Kept, promiseVars

(* The server answers for the application. *)
LEMMA ErrorCall ==
    ASSUME IInv, todo = <<>>, state = "REQUEST",
           todo' \in {<<"end", "log", "close">>, <<"end", "log", "close", "shut">>,
                      <<"end", "close", "shut">>},
           state' = "CLOSED", wire' = "started", said' = "failed",
           UNCHANGED <<kind, closed, declared, broken, sent, entries>>,
           stage' \notin {"none", "body", "app", "last"}
    PROVE  IInv' /\ Kept
<1>1. PlanEnds' /\ ~PlanOpen' /\ ~Sending'
  BY AtRest DEF PlanOpen, PlanEnds, Unlogged, Sending, SendClosed
<1>2. IInv'
  BY AtRest, <1>1 DEF IInv, PlanInv, StateInv, LogInv, StageInv, Unlogged
<1>3. Promise!Fail
  BY AtRest DEF Promise!Fail
<1>4. QED
  BY <1>2, <1>3 DEF Kept, Promise!Next

(* The end of a complete response, whose first step seals it. *)
LEMMA SealCall ==
    ASSUME IInv, todo = <<>>, state \in {"RESPONSE", "TRAILERS"}, stage \in {"app", "last"},
           todo' = <<"log", "close">>, state' = "CLOSED", wire' = "ended", said' = "finished",
           UNCHANGED <<kind, closed, declared, broken, sent, entries>>,
           stage' \notin {"none", "body"}, kind = "wsgi" => stage' \notin {"app", "last"}
    PROVE  IInv' /\ Kept
<1>1. PlanLogs' /\ ~PlanOpen' /\ ~Sending'
  BY AtRest DEF PlanOpen, PlanLogs, Unlogged, Sending, SendClosed
<1>2. IInv'
  BY AtRest, <1>1 DEF IInv, PlanInv, StateInv, LogInv, StageInv, Unlogged
<1>3. Promise!End
  BY AtRest DEF Promise!End, Promise!Says, IInv, StateInv, StageInv
<1>4. QED
  BY <1>2, <1>3 DEF Kept, Promise!Next

--------------------------------------------------------------------------------
(* The reader. *)

(* A request: the application is spawned, or it is refused. *)
LEMMA Requested ==
    ASSUME IInv, Request
    PROVE  IInv' /\ Kept
<1>1. /\ todo = <<>> /\ state = "REQUEST" /\ ~sent
      /\ UNCHANGED <<kind, declared, sent>>
  BY DEF Request, IInv, StageInv, requestVars, wsgiVars
<1>2. CASE /\ stage' = IF kind = "wsgi" THEN "body" ELSE "app"
           /\ UNCHANGED <<state, closed, broken, todo, queue, promiseVars>>
  <2>1. /\ PlanOpen' /\ ~PlanBegins' /\ ~Sealing' /\ ~Sending' /\ stage' \in {"body", "app"}
        /\ kind = "wsgi" => stage' = "body"
        /\ UNCHANGED <<state, closed, broken, wire, said, entries>>
    BY <1>1, <1>2 DEF PlanOpen, PlanBegins, Sealing, Sending, SendClosed, promiseVars
  <2>2. IInv'
    BY <1>1, <1>2, <2>1, AtRest DEF IInv, PlanInv, StateInv, LogInv, StageInv, Unlogged
  <2>3. QED
    BY <1>2, <2>2 DEF Kept
<1>3. CASE Do(<<"error", "end", "close", "shut">>, "undecoded") /\ said' = "failed"
  <2>1. First(<<"error", "end", "close", "shut">>, "error", <<"end", "close", "shut">>)
    BY StepsFact DEF First
  <2>2. Goes("error", <<"end", "close", "shut">>, "undecoded")
    BY <1>3, <2>1, Calls DEF Stops
  <2>3. /\ todo' = <<"end", "close", "shut">> /\ stage' = "undecoded"
        /\ wire' = "started" /\ state' = "CLOSED" /\ UNCHANGED <<closed, broken, entries>>
    BY <2>2, FirstSteps
  <2>4. QED
    BY <1>1, <1>3, <2>3, ErrorCall
<1>4. CASE Do(ErrorResponse \o <<"shut">>, "refused") /\ said' = "failed"
  <2>1. First(<<"error", "end", "log", "close", "shut">>, "error",
              <<"end", "log", "close", "shut">>)
    BY StepsFact DEF First
  <2>2. Goes("error", <<"end", "log", "close", "shut">>, "refused")
    BY <1>4, <2>1, Calls, OtherRuns DEF Stops
  <2>3. /\ todo' = <<"end", "log", "close", "shut">> /\ stage' = "refused"
        /\ wire' = "started" /\ state' = "CLOSED" /\ UNCHANGED <<closed, broken, entries>>
    BY <2>2, FirstSteps
  <2>4. QED
    BY <1>1, <1>4, <2>3, ErrorCall
<1>5. QED
  BY <1>2, <1>3, <1>4 DEF Request

(* A piece of the request's body, or its end. *)
LEMMA Bodied ==
    ASSUME IInv, BodyEvent
    PROVE  IInv' /\ Kept
BY Stutters DEF BodyEvent, requestVars, streamVars, wsgiVars, promiseVars

(* The line for a client that leaves comes before the response is sealed. *)
LEMMA Left ==
    ASSUME IInv, ClientGone
    PROVE  IInv' /\ Kept
<1>1. /\ ~closed /\ closed' = TRUE /\ wire \notin {"closed", "aborted"} /\ stage # "none"
      /\ UNCHANGED <<kind, state, declared, broken, stage, todo, sent, wire, said>>
      /\ entries' = IF state = "CLOSED" THEN entries ELSE Append(entries, "gone")
  BY DEF ClientGone, Gone, requestVars, wsgiVars
<1>2. CASE state = "CLOSED"
  <2>1. UNCHANGED entries
    BY <1>1, <1>2
  <2>2. IInv'
    BY <1>1, <1>2, <2>1
       DEF IInv, PlanInv, PlanOpen, PlanBegins, PlanTrailing, PlanSeals, PlanEnds, PlanLogs,
           PlanCloses, PlanShuts, Sealing, Sending, Begun, Unlogged, StateInv, LogInv, StageInv
  <2>3. QED
    BY <1>1, <2>1, <2>2 DEF Kept, promiseVars
<1>3. CASE state # "CLOSED"
  <2>1. entries = <<>> /\ entries' = <<"gone">>
    BY <1>1, <1>3 DEF IInv, LogInv
  <2>2. ~PlanEnds /\ ~PlanLogs /\ ~PlanCloses /\ ~PlanShuts
    BY <1>3 DEF PlanEnds, PlanLogs, PlanCloses, PlanShuts
  <2>3. IInv'
    BY <1>1, <1>3, <2>1, <2>2
       DEF IInv, PlanInv, PlanOpen, PlanBegins, PlanTrailing, PlanSeals, Sealing, Sending,
           Begun, Unlogged, StateInv, LogInv, StageInv
  <2>4. wire \notin {"ended", "closed"}
    BY <1>1, <1>3 DEF IInv, StateInv
  <2>5. Promise!LogGone
    BY <1>1, <2>1, <2>4 DEF Promise!LogGone
  <2>6. QED
    BY <2>3, <2>5 DEF Kept, Promise!Next
<1>4. QED
  BY <1>2, <1>3

--------------------------------------------------------------------------------
(* An ASGI application. *)

(* The application's response start. *)
LEMMA Started ==
    ASSUME IInv, AppStart
    PROVE  IInv' /\ Kept
<1>1. /\ todo = <<>> /\ state = "REQUEST" /\ declared' \in BOOLEAN
      /\ kind = "asgi" /\ UNCHANGED <<kind, sent, said>>
      /\ Do(<<"response", "respond">>, "app")
  BY DEF AppStart, App, appUnchanged, requestVars, wsgiVars
<1>2. First(<<"response", "respond">>, "response", <<"respond">>)
  BY StepsFact DEF First
<1>3. Goes("response", <<"respond">>, "app") \/ Stops("response", "app")
  BY <1>1, <1>2, Calls
<1>4. sent' \in BOOLEAN /\ broken \in BOOLEAN
  BY <1>1 DEF IInv, StateInv
<1>5. CASE Goes("response", <<"respond">>, "app")
  <2>1. /\ todo' = <<"respond">> /\ wire' = "started" /\ stage' = "app"
        /\ UNCHANGED <<state, closed, broken, entries>>
    BY <1>5, FirstSteps
  <2>2. QED
    BY <1>1, <1>4, <2>1, BeginCall
<1>6. CASE Stops("response", "app")
  <2>1. /\ todo' = <<>> /\ stage' = "app"
        /\ UNCHANGED <<state, closed, broken, wire, entries>>
    BY <1>1, <1>4, <1>6 DEF Stops
  <2>2. QED
    BY <1>1, <1>4, <2>1, HeadersRefused
<1>7. QED
  BY <1>3, <1>5, <1>6

(* Early hints and pushes. *)
LEMMA Aside ==
    ASSUME IInv, AppAside
    PROVE  IInv' /\ Kept
<1>1. /\ todo = <<>> /\ stage = "app" /\ PlanOpen'
      /\ todo' = <<"return">>
      /\ UNCHANGED <<kind, state, closed, declared, broken, stage, sent, wire, said, entries>>
  BY DEF AppAside, App, appUnchanged, requestVars, streamVars, wsgiVars, promiseVars, PlanOpen
<1>2. QED
  BY <1>1, OpenCall

(* What a body message does first: nothing is known of the rest. *)
LEMMA BodyCall ==
    ASSUME IInv, todo = <<>>, stage = "app", kind = "asgi", state = "RESPONSE",
           NEW run, NEW step \in {"send", "trailing", "seal"}, NEW rest,
           First(run, step, rest), Do(run, "app"),
           UNCHANGED <<kind, sent, declared>>, said' = said \/ said' = "finished"
    PROVE  \/ Goes(step, rest, "app")
           \/ IInv' /\ Kept
<1>1. CASE Stops(step, "app")
  <2>1. /\ todo' = <<>> /\ broken' /\ state' \in {state, "CLOSED"} /\ stage' = "app"
        /\ UNCHANGED <<closed, wire, entries>>
    BY <1>1 DEF Stops
  <2>2. QED
    BY <2>1, BodyRefused
<1>2. QED
  BY <1>1, Calls

(* A message of the body, and a file, of which the last may end the body. *)
LEMMA BodySent ==
    ASSUME IInv, todo = <<>>, stage = "app", kind = "asgi", state = "RESPONSE",
           NEW chunks \in 0..2, NEW last \in BOOLEAN, BodyMessage(chunks, last),
           UNCHANGED <<kind, sent, declared>>
    PROVE  IInv' /\ Kept
<1> DEFINE run(b) == [i \in 1..chunks |-> "send"] \o b
<1>1. /\ Begun /\ said \in {"open", "finished"} /\ (said = "open" \/ broken)
      /\ declared \in BOOLEAN
  BY AtRest DEF IInv, StateInv, StageInv, Begun
<1>2. /\ First(<<"send">>, "send", <<>>) /\ First(<<"send", "send">>, "send", <<"send">>)
      /\ First(<<"trailing">>, "trailing", <<>>)
      /\ First(<<"send", "trailing">>, "send", <<"trailing">>)
  BY Firsts DEF First
<1>3. /\ First(SendClosed, "seal", <<"log", "close">>)
      /\ First(<<"send", "seal", "log", "close">>, "send", SendClosed)
  BY Firsts DEF SendClosed
<1>4. First(<<"send", "send", "trailing">>, "send", <<"send", "trailing">>)
  BY StepsFact DEF First
<1>5. First(<<"send", "send", "seal", "log", "close">>, "send",
            <<"send", "seal", "log", "close">>)
  BY StepsFact DEF First
<1>6. CASE ~last
  <2>1. run(<<>>) \in {<<"send">>, <<"send", "send">>} /\ Do(run(<<>>), "app") /\ said' = said
    BY <1>6, BodyRuns DEF BodyMessage
  <2>2. \/ IInv' /\ Kept
        \/ \E rest \in {<<>>, <<"send">>} : Goes("send", rest, "app")
    BY <2>1, <1>2, BodyCall
  <2>3. ASSUME NEW rest \in {<<>>, <<"send">>}, Goes("send", rest, "app")
        PROVE  IInv' /\ Kept
    <3>1. /\ todo' \in {<<>>, <<"send">>} /\ stage' = stage
          /\ UNCHANGED <<state, closed, broken, wire, entries>>
      BY <2>3, FirstSteps
    <3>2. PlanOpen' /\ stage # "none"
      BY <3>1 DEF PlanOpen
    <3>3. QED
      BY <2>1, <3>1, <3>2, OpenCall
  <2>4. QED
    BY <2>2, <2>3
<1>7. CASE last /\ declared
  <2>1. /\ run(<<"trailing">>) \in {<<"trailing">>, <<"send", "trailing">>,
                                    <<"send", "send", "trailing">>}
        /\ Do(run(<<"trailing">>), "app") /\ said' = said
    BY <1>7, BodyRuns DEF BodyMessage, Ending
  <2>2. \/ IInv' /\ Kept
        \/ Goes("trailing", <<>>, "app")
        \/ \E rest \in {<<"trailing">>, <<"send", "trailing">>} : Goes("send", rest, "app")
    BY <2>1, <1>2, <1>4, BodyCall
  <2>3. ASSUME \/ Goes("trailing", <<>>, "app")
               \/ \E rest \in {<<"trailing">>, <<"send", "trailing">>} :
                     Goes("send", rest, "app")
        PROVE  IInv' /\ Kept
    <3>1. /\ \/ todo' = <<>> /\ state' = "TRAILERS"
             \/ todo' \in {<<"trailing">>, <<"send", "trailing">>} /\ state' = state
          /\ stage' = stage /\ UNCHANGED <<closed, broken, wire, entries>>
      BY <2>3, FirstSteps
    <3>2. ASSUME todo' = <<>> PROVE PlanOpen' /\ ~Sending'
      BY <3>2 DEF PlanOpen, Sending, SendClosed
    <3>3. ASSUME todo' \in {<<"trailing">>, <<"send", "trailing">>}, state' = state
          PROVE  PlanTrailing' /\ ~PlanOpen'
      <4>1. PlanTrailing'
        BY <1>1, <2>1, <3>1, <3>3 DEF PlanTrailing, Begun
      <4>2. ~PlanOpen'
        BY <3>3 DEF PlanOpen
      <4>3. QED
        BY <4>1, <4>2
    <3>4. \/ PlanOpen' /\ state' = "TRAILERS"
          \/ PlanTrailing' /\ ~PlanOpen' /\ state' = "RESPONSE"
      BY <3>1, <3>2, <3>3
    <3>5. ~Sealing'
      BY <3>1 DEF Sealing, SendClosed
    <3>6. IInv'
      BY <1>1, <2>1, <3>1, <3>4, <3>5, AtRest
         DEF IInv, PlanInv, StateInv, LogInv, StageInv, Unlogged, Begun
    <3>7. QED
      BY <2>1, <3>1, <3>6 DEF Kept, promiseVars
  <2>4. QED
    BY <2>2, <2>3
<1>8. CASE last /\ ~declared
  <2>1. /\ run(SendClosed) \in {SendClosed, <<"send", "seal", "log", "close">>,
                                <<"send", "send", "seal", "log", "close">>}
        /\ Do(run(SendClosed), "app") /\ said' = "finished"
    BY <1>8, BodyRuns DEF BodyMessage, Ending
  <2>2. \/ IInv' /\ Kept
        \/ Goes("seal", <<"log", "close">>, "app")
        \/ \E rest \in {SendClosed, <<"send", "seal", "log", "close">>} :
              Goes("send", rest, "app")
    BY <2>1, <1>3, <1>5, BodyCall
  <2>3. CASE Goes("seal", <<"log", "close">>, "app")
    <3>1. /\ todo' = <<"log", "close">> /\ wire' = "ended" /\ state' = "CLOSED"
          /\ stage' = "app" /\ UNCHANGED <<closed, broken, entries>>
      BY <2>3, FirstSteps
    <3>2. QED
      BY <2>1, <3>1, SealCall
  <2>4. ASSUME \E rest \in {SendClosed, <<"send", "seal", "log", "close">>} :
                 Goes("send", rest, "app")
        PROVE  IInv' /\ Kept
    <3>1. /\ todo' \in {SendClosed, <<"send", "seal", "log", "close">>}
          /\ stage' = stage /\ UNCHANGED <<state, closed, broken, wire, entries>>
      BY <2>4, FirstSteps
    <3>2. PlanSeals'
      BY <1>1, <2>1, <3>1 DEF PlanSeals, Begun
    <3>3. Sealing' /\ ~PlanOpen'
      BY <3>1 DEF PlanOpen, Sealing, SendClosed
    <3>4. IInv'
      BY <1>1, <2>1, <3>1, <3>2, <3>3, AtRest
         DEF IInv, PlanInv, StateInv, LogInv, StageInv, Unlogged
    <3>5. Promise!Finish \/ UNCHANGED promiseVars
      BY <1>1, <2>1, <3>1 DEF Promise!Finish, promiseVars
    <3>6. QED
      BY <3>4, <3>5 DEF Kept, Promise!Next
  <2>5. QED
    BY <2>2, <2>3, <2>4
<1>9. QED
  BY <1>1, <1>6, <1>7, <1>8

(* A message of the body or a file. *)
LEMMA Bodies ==
    ASSUME IInv, AppBody \/ AppFile
    PROVE  IInv' /\ Kept
<1>1. /\ todo = <<>> /\ stage = "app" /\ kind = "asgi" /\ state = "RESPONSE"
      /\ UNCHANGED <<kind, sent, declared>>
  BY DEF AppBody, AppFile, App, appUnchanged, requestVars, wsgiVars
<1>2. PICK chunks \in 0..2, last \in BOOLEAN : BodyMessage(chunks, last)
  BY DEF AppBody, AppFile
<1>3. QED
  BY <1>1, <1>2, BodySent

(* Trailers as the first message. *)
LEMMA TrailersFirst ==
    ASSUME IInv, AppTrailersFirst
    PROVE  IInv' /\ Kept
<1>1. /\ todo = <<>> /\ state = "REQUEST" /\ kind = "asgi" /\ stage = "app"
      /\ version # "1.1" /\ UNCHANGED <<kind, sent>> /\ declared' = FALSE
  BY DEF AppTrailersFirst, App, appUnchanged, requestVars, wsgiVars
<1>2. PICK last \in BOOLEAN :
        /\ Do(<<"response", "trailing">> \o (IF last THEN SendClosed ELSE <<>>), "app")
        /\ said' = IF last THEN "finished" ELSE said
  BY DEF AppTrailersFirst
<1>3. /\ First(<<"response", "trailing">>, "response", <<"trailing">>)
      /\ First(<<"response", "trailing", "seal", "log", "close">>, "response",
               <<"trailing", "seal", "log", "close">>)
  BY StepsFact DEF First
<1>4. \/ last /\ Goes("response", <<"trailing", "seal", "log", "close">>, "app")
      \/ ~last /\ Goes("response", <<"trailing">>, "app")
  BY <1>1, <1>2, <1>3, Calls, OtherRuns DEF Stops
<1>5. /\ wire' = "started" /\ stage' = stage /\ UNCHANGED <<state, closed, broken, entries>>
      /\ \/ last /\ todo' = <<"trailing", "seal", "log", "close">>
         \/ ~last /\ todo' = <<"trailing">>
  BY <1>1, <1>4, FirstSteps
<1>6. Promise!Start
  BY <1>1, <1>2, <1>5, AtRest DEF Promise!Start, Promise!Says
<1>7. CASE last /\ todo' = <<"trailing", "seal", "log", "close">>
  <2>1. Sealing' /\ ~PlanOpen' /\ ~Sending'
    BY <1>7 DEF Sealing, Sending, SendClosed, PlanOpen
  <2>2. PlanSeals'
    BY <1>1, <1>2, <1>5, <1>7 DEF PlanSeals, Begun
  <2>3. IInv'
    BY <1>1, <1>2, <1>5, <2>1, <2>2, AtRest
       DEF IInv, PlanInv, StateInv, LogInv, StageInv, Unlogged
  <2>4. QED
    BY <1>6, <2>3 DEF Kept, Promise!Next
<1>8. CASE ~last /\ todo' = <<"trailing">>
  <2>1. ~Sealing' /\ ~PlanOpen' /\ ~Sending'
    BY <1>8 DEF Sealing, Sending, PlanOpen, SendClosed
  <2>2. PlanTrailing'
    BY <1>1, <1>2, <1>5, <1>8, AtRest DEF PlanTrailing, Begun
  <2>3. IInv'
    BY <1>1, <1>2, <1>5, <1>8, <2>1, <2>2, AtRest
       DEF IInv, PlanInv, StateInv, LogInv, StageInv, Unlogged
  <2>4. QED
    BY <1>6, <2>3 DEF Kept, Promise!Next
<1>9. QED
  BY <1>5, <1>7, <1>8

(* Trailers, of which the last seal the response. *)
LEMMA Trailed ==
    ASSUME IInv, AppTrailers
    PROVE  IInv' /\ Kept
<1>1. /\ todo = <<>> /\ state = "TRAILERS" /\ kind = "asgi" /\ stage = "app"
      /\ version # "1.1" /\ UNCHANGED <<kind, sent, declared>>
  BY DEF AppTrailers, App, appUnchanged, requestVars, wsgiVars
<1>2. Begun /\ said \in {"open", "finished"} /\ (said = "open" \/ broken)
  BY <1>1, AtRest DEF Begun, IInv, StateInv, StageInv
<1>3. PICK last \in BOOLEAN :
        LET steps == (IF te THEN <<"trailers">> ELSE <<>>) \o (IF last THEN SendClosed ELSE <<>>)
        IN  /\ steps # <<>>
            /\ Do(steps, "app")
            /\ said' = IF last THEN "finished" ELSE said
  BY DEF AppTrailers
<1>4. /\ First(<<"trailers">>, "trailers", <<>>)
      /\ First(<<"trailers", "seal", "log", "close">>, "trailers", <<"seal", "log", "close">>)
      /\ First(<<"seal", "log", "close">>, "seal", <<"log", "close">>)
  BY StepsFact DEF First
<1>5. <<>> \o <<>> = <<>>
  OBVIOUS
<1>6. ASSUME NEW run, NEW step, NEW rest, First(run, step, rest), Do(run, "app")
      PROVE  Goes(step, rest, "app")
  BY <1>1, <1>6, Calls DEF Stops
<1>7. CASE te /\ last
  <2>1. Do(<<"trailers", "seal", "log", "close">>, "app") /\ said' = "finished"
    BY <1>3, <1>7, OtherRuns
  <2>2. /\ todo' = SendClosed /\ wire' = "trailed" /\ stage' = stage
        /\ UNCHANGED <<state, closed, broken, entries>>
    BY <1>1, <1>4, <1>6, <2>1, FirstSteps DEF SendClosed
  <2>3. Sealing' /\ ~PlanOpen'
    BY <2>2 DEF Sealing, PlanOpen, SendClosed
  <2>4. PlanSeals'
    BY <1>1, <2>1, <2>2 DEF PlanSeals, Begun
  <2>5. IInv'
    BY <1>1, <1>2, <2>1, <2>2, <2>3, <2>4, AtRest
       DEF IInv, PlanInv, StateInv, LogInv, StageInv, Unlogged
  <2>6. Promise!Trailers
    BY <1>2, <2>1, <2>2 DEF Promise!Trailers, Promise!Says, Begun
  <2>7. QED
    BY <2>5, <2>6 DEF Kept, Promise!Next
<1>8. CASE te /\ ~last
  <2>1. Do(<<"trailers">>, "app") /\ said' = said
    BY <1>3, <1>8, OtherRuns
  <2>2. /\ todo' = <<>> /\ wire' = "trailed" /\ stage' = stage
        /\ UNCHANGED <<state, closed, broken, entries>>
    BY <1>1, <1>4, <1>6, <2>1, FirstSteps
  <2>3. ~Sealing' /\ ~Sending' /\ PlanOpen'
    BY <2>2 DEF Sealing, Sending, PlanOpen, SendClosed
  <2>4. IInv'
    BY <1>1, <1>2, <2>1, <2>2, <2>3, AtRest
       DEF IInv, PlanInv, StateInv, LogInv, StageInv, Unlogged
  <2>5. Promise!Trailers
    BY <1>2, <2>1, <2>2 DEF Promise!Trailers, Promise!Says, Begun
  <2>6. QED
    BY <2>4, <2>5 DEF Kept, Promise!Next
<1>9. CASE ~te /\ last
  <2>1. Do(SendClosed, "app") /\ said' = "finished"
    BY <1>3, <1>9, OtherRuns
  <2>2. /\ todo' = <<"log", "close">> /\ wire' = "ended" /\ state' = "CLOSED"
        /\ stage' = "app" /\ UNCHANGED <<closed, broken, entries>>
    BY <1>4, <1>6, <2>1, FirstSteps DEF SendClosed
  <2>3. QED
    BY <1>1, <2>1, <2>2, SealCall
<1>10. ~(~te /\ ~last)
  BY <1>3, <1>5
<1>11. QED
  BY <1>7, <1>8, <1>9, <1>10

(* An application that is over, having raised or not. *)
LEMMA Over ==
    ASSUME IInv, todo = <<>>, stage' \in {"left", "again", "over"},
           UNCHANGED <<kind, state, closed, declared, broken, todo, sent, wire, said, entries>>
    PROVE  IInv' /\ Kept
<1>1. PlanOpen' /\ ~Sealing' /\ ~Sending'
  BY DEF PlanOpen, Sealing, Sending, SendClosed
<1>2. IInv'
  BY AtRest, <1>1 DEF IInv, PlanInv, StateInv, LogInv, StageInv, Unlogged
<1>3. QED
  BY <1>2 DEF Kept, promiseVars

(* Whatever an ASGI application does. *)
LEMMA Asgied ==
    ASSUME IInv, Asgi
    PROVE  IInv' /\ Kept
<1>1. CASE Receive
  BY <1>1, Stutters DEF Receive, requestVars, streamVars, wsgiVars, promiseVars
<1>2. CASE AppReturns
  BY <1>2, Over DEF AppReturns, App, requestVars, streamVars, wsgiVars, promiseVars
<1>3. QED
  BY <1>1, <1>2, Started, Aside, Bodies, TrailersFirst, Trailed DEF Asgi

--------------------------------------------------------------------------------
(* The WSGI wrapper. *)

(* The wrapper's loop over the request's body. *)
LEMMA Collected ==
    ASSUME IInv, Collect
    PROVE  IInv' /\ Kept
<1>1. /\ kind = "wsgi" /\ stage = "body" /\ todo = <<>> /\ state = "REQUEST" /\ ~sent
      /\ UNCHANGED <<kind, declared, state, closed, broken, sent, said, entries>>
  BY DEF Collect, Wrapper, wrapperUnchanged, requestVars, IInv, StageInv
<1>2. \/ stage' = "last" /\ wire' = "started" /\ todo' = <<"respond">>
      \/ stage' = "app" /\ UNCHANGED <<wire, todo>>
      \/ UNCHANGED <<stage, wire, todo>>
  BY DEF Collect
<1>3. CASE stage' = "last" /\ wire' = "started" /\ todo' = <<"respond">>
  <2>1. declared' \in BOOLEAN /\ sent' \in BOOLEAN
    BY <1>1 DEF IInv, StateInv
  <2>2. QED
    BY <1>1, <1>3, <2>1, BeginCall
<1>4. CASE stage' = "app" /\ UNCHANGED <<wire, todo>>
  <2>1. PlanOpen' /\ ~Sealing' /\ ~Sending'
    BY <1>1, <1>4 DEF PlanOpen, Sealing, Sending, SendClosed
  <2>2. IInv'
    BY <1>1, <1>4, <2>1, AtRest DEF IInv, PlanInv, StateInv, LogInv, StageInv, Unlogged
  <2>3. QED
    BY <1>1, <1>4, <2>2 DEF Kept, promiseVars
<1>5. CASE UNCHANGED <<stage, wire, todo>>
  BY <1>1, <1>5, Stutters
<1>6. QED
  BY <1>2, <1>3, <1>4, <1>5

(* A response that the wrapper begins, or whose headers h11 refuses. *)
LEMMA WrapperBegins ==
    ASSUME IInv, todo = <<>>, kind = "wsgi", stage = "app", sent = FALSE, sent' = TRUE,
           NEW run, NEW rest \in {<<"respond">>, <<"respond", "send">>},
           NEW at \in {"app", "last"},
           First(run, "response", rest), Do(run, at), UNCHANGED <<kind, declared, said>>
    PROVE  IInv' /\ Kept
<1>1. state = "REQUEST" /\ declared \in BOOLEAN /\ broken \in BOOLEAN
  BY DEF IInv, StateInv, StageInv
<1>2. Goes("response", rest, at) \/ Stops("response", at)
  BY Calls
<1>3. CASE Goes("response", rest, at)
  <2>1. /\ todo' = rest /\ wire' = "started" /\ stage' = at
        /\ UNCHANGED <<state, closed, broken, entries>>
    BY <1>3, FirstSteps
  <2>2. QED
    BY <1>1, <2>1, BeginCall
<1>4. CASE Stops("response", at)
  <2>1. /\ todo' = <<>> /\ stage' = "left"
        /\ UNCHANGED <<state, closed, broken, wire, entries>>
    BY <1>1, <1>4 DEF Stops
  <2>2. QED
    BY <1>1, <2>1, HeadersRefused
<1>5. QED
  BY <1>2, <1>3, <1>4

(* A non-empty output of the WSGI application. *)
LEMMA Outputs ==
    ASSUME IInv, Output
    PROVE  IInv' /\ Kept
<1>1. /\ kind = "wsgi" /\ stage = "app" /\ todo = <<>> /\ sent' = TRUE
      /\ UNCHANGED <<kind, declared, said>>
      /\ Do(IF sent THEN <<"send", "return">> ELSE <<"response", "respond", "send">>, "app")
  BY DEF Output, Wrapper, wrapperUnchanged, requestVars
<1>2. /\ First(<<"send", "return">>, "send", <<"return">>)
      /\ First(<<"response", "respond", "send">>, "response", <<"respond", "send">>)
  BY StepsFact DEF First
<1>3. sent \in BOOLEAN
  BY DEF IInv, StateInv
<1>4. CASE sent
  <2>1. Goes("send", <<"return">>, "app") \/ Stops("send", "app")
    BY <1>1, <1>2, <1>4, Calls
  <2>2. sent' = sent /\ state \in {"REQUEST", "RESPONSE"}
    BY <1>1, <1>3, <1>4 DEF IInv, StageInv
  <2>3. CASE Goes("send", <<"return">>, "app")
    <3>1. /\ todo' = <<"return">> /\ stage' = stage
          /\ UNCHANGED <<state, closed, broken, wire, entries>>
      BY <1>1, <2>3, FirstSteps
    <3>2. PlanOpen'
      BY <3>1 DEF PlanOpen
    <3>3. QED
      BY <1>1, <2>2, <3>1, <3>2, OpenCall
  <2>4. CASE Stops("send", "app")
    <3>1. /\ todo' = <<>> /\ broken' /\ state' = state /\ stage' = "left"
          /\ UNCHANGED <<closed, wire, entries>>
      BY <1>1, <2>4 DEF Stops
    <3>2. state = "RESPONSE"
      BY <1>1, <1>4, AtRest DEF IInv, StageInv
    <3>3. QED
      BY <1>1, <2>2, <3>1, <3>2, BodyRefused
  <2>5. QED
    BY <2>1, <2>3, <2>4
<1>5. CASE ~sent
  BY <1>1, <1>2, <1>3, <1>5, WrapperBegins
<1>6. QED
  BY <1>4, <1>5

(* The end of what the WSGI application produces. *)
LEMMA Exhausts ==
    ASSUME IInv, Exhausted
    PROVE  IInv' /\ Kept
<1>1. /\ kind = "wsgi" /\ stage = "app" /\ todo = <<>> /\ sent' = TRUE
      /\ UNCHANGED <<kind, declared, said>>
      /\ IF sent
         THEN stage' = "last" /\ UNCHANGED <<state, closed, broken, wire, entries, todo>>
         ELSE Do(<<"response", "respond">>, "last")
  BY DEF Exhausted, Wrapper, wrapperUnchanged, requestVars
<1>2. First(<<"response", "respond">>, "response", <<"respond">>)
  BY StepsFact DEF First
<1>3. sent \in BOOLEAN
  BY DEF IInv, StateInv
<1>4. CASE sent
  <2>1. /\ PlanOpen' /\ ~Sealing' /\ ~Sending' /\ stage' = "last"
        /\ UNCHANGED <<state, closed, broken, wire, todo, entries, sent>>
    BY <1>1, <1>3, <1>4 DEF PlanOpen, Sealing, Sending, SendClosed
  <2>2. IInv'
    BY <1>1, <1>4, <2>1, AtRest DEF IInv, PlanInv, StateInv, LogInv, StageInv, Unlogged
  <2>3. QED
    BY <1>1, <2>1, <2>2 DEF Kept, promiseVars
<1>5. CASE ~sent
  BY <1>1, <1>2, <1>3, <1>5, WrapperBegins
<1>6. QED
  BY <1>4, <1>5

(* The wrapper's last body message. *)
LEMMA LastSent ==
    ASSUME IInv, LastBody
    PROVE  IInv' /\ Kept
<1>1. /\ kind = "wsgi" /\ stage = "last" /\ todo = <<>>
      /\ UNCHANGED <<kind, declared, sent>>
      /\ IF state = "RESPONSE"
         THEN Do(SendClosed, "left") /\ said' = "finished"
         ELSE stage' = "left" /\ UNCHANGED <<state, closed, broken, todo, queue, promiseVars>>
  BY DEF LastBody, Wrapper, wrapperUnchanged, requestVars, wsgiVars
<1>2. CASE state = "RESPONSE"
  <2>1. First(SendClosed, "seal", <<"log", "close">>)
    BY Firsts DEF SendClosed
  <2>2. Goes("seal", <<"log", "close">>, "left") \/ Stops("seal", "left")
    BY <1>1, <1>2, <2>1, Calls
  <2>3. CASE Goes("seal", <<"log", "close">>, "left")
    <3>1. /\ todo' = <<"log", "close">> /\ wire' = "ended" /\ state' = "CLOSED"
          /\ stage' = "left" /\ UNCHANGED <<closed, broken, entries>>
      BY <2>3, FirstSteps
    <3>2. QED
      BY <1>1, <1>2, <3>1, SealCall
  <2>4. CASE Stops("seal", "left")
    <3>1. /\ todo' = <<>> /\ broken' /\ state' = "CLOSED" /\ stage' = "left"
          /\ UNCHANGED <<closed, wire, entries>>
      BY <2>4 DEF Stops
    <3>2. QED
      BY <1>1, <1>2, <3>1, BodyRefused
  <2>5. QED
    BY <2>2, <2>3, <2>4
<1>3. CASE state # "RESPONSE"
  BY <1>1, <1>3, Over DEF promiseVars
<1>4. QED
  BY <1>2, <1>3

(* Whatever the wrapper and its application do. *)
LEMMA Wsgied ==
    ASSUME IInv, Wsgi
    PROVE  IInv' /\ Kept
<1>1. CASE StartResponse
  BY <1>1, Stutters DEF StartResponse, requestVars, streamVars, promiseVars
<1>2. CASE Raises
  BY <1>2, Over DEF Raises, Wrapper, requestVars, streamVars, wsgiVars, promiseVars
<1>3. QED
  BY <1>1, <1>2, Collected, Outputs, Exhausts, LastSent DEF Wsgi

--------------------------------------------------------------------------------
(* The end of the application, and of the proof. *)

(* app_send(None), once the application is over. *)
LEMMA Ends ==
    ASSUME IInv, AppSendsNone
    PROVE  IInv' /\ Kept
<1>1. todo = <<>> /\ UNCHANGED <<kind, declared, sent>>
  BY DEF AppSendsNone, requestVars, wsgiVars
<1>2. PICK at \in {"again", "over"} :
        \/ /\ closed /\ stage' = at
           /\ UNCHANGED <<state, closed, broken, todo, queue, promiseVars>>
        \/ ~closed /\ state = "REQUEST" /\ Do(ErrorResponse, at) /\ said' = "failed"
        \/ ~closed /\ state # "REQUEST" /\ Do(<<"close">>, at) /\ UNCHANGED said
  BY DEF AppSendsNone
<1>3. CASE closed /\ stage' = at /\ UNCHANGED <<state, closed, broken, todo, queue, promiseVars>>
  BY <1>1, <1>3, Over DEF promiseVars
<1>4. CASE ~closed /\ state = "REQUEST" /\ Do(ErrorResponse, at) /\ said' = "failed"
  <2>1. First(<<"error", "end", "log", "close">>, "error", <<"end", "log", "close">>)
    BY StepsFact DEF First
  <2>2. Goes("error", <<"end", "log", "close">>, at)
    BY <1>4, <2>1, Calls DEF ErrorResponse, Stops
  <2>3. /\ todo' = <<"end", "log", "close">> /\ stage' = at
        /\ wire' = "started" /\ state' = "CLOSED" /\ UNCHANGED <<closed, broken, entries>>
    BY <2>2, FirstSteps
  <2>4. QED
    BY <1>1, <1>4, <2>3, ErrorCall
<1>5. CASE ~closed /\ state # "REQUEST" /\ Do(<<"close">>, at) /\ UNCHANGED said
  <2>1. First(<<"close">>, "close", <<>>)
    BY Firsts DEF First
  <2>2. Goes("close", <<>>, at)
    BY <1>5, <2>1, Calls DEF Stops
  <2>3. /\ todo' = <<>> /\ stage' \in {"again", "over"} /\ Close /\ UNCHANGED broken
    BY <2>2, FirstSteps
  <2>4. /\ PlanOpen' /\ ~Sealing' /\ ~Sending' /\ state' = state /\ closed' \in BOOLEAN
        /\ wire' = IF wire \in {"ended", "closed"} THEN "closed" ELSE "aborted"
        /\ \/ entries' = entries
           \/ entries' = Append(entries, "gone") /\ state # "CLOSED" /\ closed'
    BY <1>5, <2>3 DEF PlanOpen, Sealing, Sending, SendClosed, Close, Gone, IInv, StateInv
  <2>5. CASE state = "CLOSED"
    <3>1. /\ entries' = entries
          /\ \/ wire = "closed" /\ wire' = wire
             \/ broken /\ wire \in {"started", "trailed", "aborted"} /\ wire' = "aborted"
      BY <1>1, <2>4, <2>5, AtRest
    <3>2. IInv'
      BY <1>1, <1>5, <2>3, <2>4, <2>5, <3>1, AtRest
         DEF IInv, PlanInv, StateInv, LogInv, StageInv, Unlogged
    <3>3. Promise!Abort \/ UNCHANGED promiseVars
      BY <1>5, <3>1 DEF Promise!Abort, promiseVars
    <3>4. QED
      BY <3>2, <3>3 DEF Kept, Promise!Next
  <2>6. CASE state # "CLOSED"
    <3>1. wire \in {"started", "trailed", "aborted"} /\ wire' = "aborted"
      BY <1>5, <2>4, <2>6 DEF IInv, StateInv
    <3>2. entries = <<>>
      BY <1>1, <1>5, <2>6, AtRest
    <3>3. entries' = entries \/ (entries' = <<"gone">> /\ closed')
      BY <2>4, <3>2
    <3>4. IInv'
      BY <1>1, <1>5, <2>3, <2>4, <2>6, <3>1, <3>2, <3>3, AtRest
         DEF IInv, PlanInv, StateInv, LogInv, StageInv, Unlogged
    <3>5. Promise!Abort \/ Promise!LogGone \/ UNCHANGED promiseVars
      BY <1>5, <3>1, <3>2, <3>3 DEF Promise!Abort, Promise!LogGone, promiseVars
    <3>6. QED
      BY <3>4, <3>5 DEF Kept, Promise!Next
  <2>7. QED
    BY <2>5, <2>6
<1>6. QED
  BY <1>2, <1>3, <1>4, <1>5

(* Every step keeps the invariant, and is one of the promise or a stutter. *)
LEMMA Preserved == IInv /\ [Next]_vars => IInv' /\ Kept
<1>1. CASE UNCHANGED vars
  BY <1>1, Stutters DEF vars, requestVars, streamVars, wsgiVars, promiseVars
<1>2. QED
  BY <1>1, Continues, Requested, Bodied, Left, Asgied, Wsgied, Ends DEF Next

(* The stream implements the promise of HTTPResponse, however long the     *)
(* body and whatever the wrapper's limit: http_stream.py HTTPStream never  *)
(* ends the body of a response cut short, and logs each response once.     *)
THEOREM KeepsPromiseCorrect == Spec => KeepsPromise
<1>1. Init => Promise!Init
  BY DEF Init, Promise!Init
<1>2. QED
  BY <1>1, Initially, Preserved, PTL DEF Spec, KeepsPromise, Promise!Spec, Kept, promiseVars

(* The wrapper's last body message finds a response begun, whatever the    *)
(* application has produced and however large the body                     *)
(* (app_wrappers.py:112-125, 179-182).                                     *)
THEOREM WrapperAnswersCorrect == Spec => []WrapperAnswers
<1>1. IInv => WrapperAnswers
  BY DEF IInv, StageInv, WrapperAnswers, Wrapper, PlanBegins
<1>2. QED
  BY <1>1, Initially, Preserved, PTL DEF Spec

--------------------------------------------------------------------------------
(* Types. *)

Messages == {"part", "end", "disconnect"}

(* A message in the channel for each piece of the body, and one for the    *)
(* client's leaving; at most one piece over the limit is collected.        *)
QueueInv == /\ queue \in Seq(Messages)
            /\ parts \in 0..(MaxParts + 1)
            /\ Len(queue) <= parts + (IF closed THEN 1 ELSE 0)

SizeInv == /\ size \in 0..(Limit + 1)
           /\ stage \in {"none", "body"} => size <= Limit

StartedInv == status \in BOOLEAN /\ (sent => status) /\ (status => kind = "wsgi")

RequestInv == version \in {"1.1", "2", "3"} /\ kind \in {"asgi", "wsgi"} /\ te \in BOOLEAN

TypeInv == RequestInv /\ stage \in Stages /\ QueueInv /\ SizeInv /\ StartedInv

(* What a step may do to the channel and to closed. *)
Tells == \/ UNCHANGED <<closed, queue>>
         \/ closed' = TRUE /\ UNCHANGED queue
         \/ Gone

(* A step of a call tells the application at most of the disconnect. *)
LEMMA StepTells ==
    ASSUME NEW step, Perform(step)
    PROVE  Tells
BY DEF Perform, Response, Respond, Trailing, Trailers, Seal, Error, End, Log, Close, Shut, Tells

(* And so does a call's first step. *)
LEMMA CallTells ==
    ASSUME NEW run, NEW at, Do(run, at)
    PROVE  Tells
BY StepTells DEF Do, Refused, Tells

(* And leaves the application where it says, or over. *)
LEMMA CallStage ==
    ASSUME NEW run, NEW at, Do(run, at)
    PROVE  stage' \in {at, "left"}
BY DEF Do

(* A message posted is at most one more in the channel. *)
LEMMA Puts ==
    ASSUME NEW m \in Messages, QueueInv
    PROVE  Put(m) \in Seq(Messages) /\ Len(Put(m)) <= Len(queue) + 1 /\ Len(queue) \in Nat
BY DEF Put, QueueInv

(* The disconnect has its place in the channel, kept by closed. *)
LEMMA Tellings ==
    ASSUME QueueInv, closed \in BOOLEAN, Tells, UNCHANGED parts
    PROVE  QueueInv'
<1>1. parts \in Nat /\ Len(queue) \in Nat /\ MaxParts \in Nat
  BY StreamAssumption DEF QueueInv
<1>2. CASE UNCHANGED <<closed, queue>>
  BY <1>2 DEF QueueInv
<1>3. CASE closed' = TRUE /\ UNCHANGED queue
  BY <1>1, <1>3 DEF QueueInv
<1>4. CASE Gone
  <2>1. closed' = TRUE /\ queue' = IF closed THEN queue ELSE Put("disconnect")
    BY <1>4 DEF Gone
  <2>2. CASE closed
    BY <2>1, <2>2 DEF QueueInv
  <2>3. CASE ~closed
    BY <1>1, <2>1, <2>3, Puts DEF QueueInv, Messages
  <2>4. QED
    BY <2>2, <2>3
<1>5. QED
  BY <1>2, <1>3, <1>4 DEF Tells

(* Every step keeps the bound on the channel. *)
LEMMA QueueStep ==
    ASSUME QueueInv, closed \in BOOLEAN, Next
    PROVE  QueueInv'
<1>1. parts \in Nat /\ Len(queue) \in Nat /\ MaxParts \in Nat
  BY StreamAssumption DEF QueueInv
<1>2. CASE BodyEvent
  <2>1. PICK m \in {"part", "end"} : queue' = Put(m) /\ parts' \in {parts + 1, MaxParts + 1}
    BY <1>2 DEF BodyEvent
  <2>2. /\ parts <= MaxParts /\ closed' = closed
        /\ parts' \in 0..(MaxParts + 1) /\ parts' >= parts + 1
    BY <1>1, <1>2 DEF BodyEvent, streamVars
  <2>3. Put(m) \in Seq(Messages) /\ Len(Put(m)) <= Len(queue) + 1
    BY Puts DEF Messages
  <2>4. Len(Put(m)) \in Nat
    BY <2>3
  <2>5. QED
    BY <1>1, <2>1, <2>2, <2>3, <2>4 DEF QueueInv
<1>3. CASE Receive \/ Collect
  <2>1. queue # <<>> /\ queue' = Tail(queue) /\ UNCHANGED <<parts, closed>>
    BY <1>3 DEF Receive, Collect, streamVars, wrapperUnchanged
  <2>2. Tail(queue) \in Seq(Messages) /\ Len(Tail(queue)) = Len(queue) - 1
    BY <2>1 DEF QueueInv
  <2>3. QED
    BY <1>1, <2>1, <2>2 DEF QueueInv
<1>4. ASSUME ~BodyEvent, ~Receive, ~Collect
      PROVE  Tells /\ UNCHANGED parts
  <2>1. CASE Request
    BY <2>1, CallTells DEF Request, Tells
  <2>2. CASE ClientGone
    BY <2>2 DEF ClientGone, Tells
  <2>3. CASE Continue
    BY <2>3, CallTells DEF Continue
  <2>4. CASE Asgi
    <3>1. CASE AppStart
      BY <3>1, CallTells DEF AppStart, appUnchanged
    <3>2. CASE AppAside
      BY <3>2 DEF AppAside, appUnchanged, streamVars, Tells
    <3>3. CASE AppBody
      BY <3>3, CallTells DEF AppBody, BodyMessage, appUnchanged
    <3>4. CASE AppFile
      BY <3>4, CallTells DEF AppFile, BodyMessage, appUnchanged
    <3>5. CASE AppTrailersFirst
      BY <3>5, CallTells DEF AppTrailersFirst, appUnchanged
    <3>6. CASE AppTrailers
      BY <3>6, CallTells DEF AppTrailers, appUnchanged
    <3>7. CASE AppReturns
      BY <3>7 DEF AppReturns, streamVars, Tells
    <3>8. QED
      BY <1>4, <2>4, <3>1, <3>2, <3>3, <3>4, <3>5, <3>6, <3>7 DEF Asgi
  <2>5. CASE Wsgi
    <3>1. CASE StartResponse \/ Raises
      BY <3>1 DEF StartResponse, Raises, streamVars, Tells
    <3>2. CASE Output
      BY <3>2, CallTells DEF Output, wrapperUnchanged
    <3>3. CASE Exhausted
      BY <3>3, CallTells DEF Exhausted, wrapperUnchanged, Tells
    <3>4. CASE LastBody
      BY <3>4, CallTells DEF LastBody, wrapperUnchanged, Tells
    <3>5. QED
      BY <1>4, <2>5, <3>1, <3>2, <3>3, <3>4 DEF Wsgi
  <2>6. CASE AppSendsNone
    BY <2>6, CallTells DEF AppSendsNone, Tells
  <2>7. QED
    BY <1>4, <2>1, <2>2, <2>3, <2>4, <2>5, <2>6 DEF Next
<1>5. QED
  BY <1>2, <1>3, <1>4, Tellings

(* Where the application is, and what the wrapper has of it, by action. *)
LEMMA OtherStep ==
    ASSUME TypeInv, StateInv, StageInv, Next
    PROVE  (RequestInv /\ stage \in Stages /\ SizeInv /\ StartedInv)'
<1>1. UNCHANGED requestVars
  BY DEF Next, Request, BodyEvent, ClientGone, Continue, Asgi, Wsgi, AppSendsNone, Receive,
         AppStart, AppAside, AppBody, AppFile, AppTrailersFirst, AppTrailers, AppReturns,
         Collect, StartResponse, Output, Exhausted, Raises, LastBody, appUnchanged,
         wrapperUnchanged
<1>2. RequestInv'
  BY <1>1 DEF RequestInv, TypeInv, requestVars
<1>3. size \in Int /\ Limit \in Nat /\ sent \in BOOLEAN /\ kind' = kind
  BY <1>1, StreamAssumption DEF TypeInv, SizeInv, StateInv, requestVars
<1>4. CASE Request
  <2>1. /\ stage' \in {"body", "app", "undecoded", "refused", "left"} /\ UNCHANGED wsgiVars
        /\ stage = "none"
    BY <1>4, CallStage DEF Request
  <2>2. QED
    BY <1>2, <1>3, <2>1 DEF TypeInv, SizeInv, StartedInv, Stages, wsgiVars
<1>5. CASE Collect
  <2>1. /\ stage = "body" /\ stage' \in {"body", "app", "last"} /\ UNCHANGED <<status, sent>>
        /\ size' \in {size, size + 1} /\ (stage' = "body" => size' <= Limit)
    BY <1>5 DEF Collect, Wrapper
  <2>2. size' \in 0..(Limit + 1)
    BY <1>3, <2>1 DEF TypeInv, SizeInv
  <2>3. QED
    BY <1>2, <1>3, <2>1, <2>2 DEF TypeInv, SizeInv, StartedInv, Stages
<1>6. CASE AppSendsNone \/ AppReturns \/ Raises \/ LastBody
  <2>1. UNCHANGED wsgiVars
    BY <1>6 DEF AppSendsNone, AppReturns, Raises, LastBody
  <2>2. stage' \in {"left", "again", "over"}
    BY <1>6, CallStage DEF AppSendsNone, AppReturns, Raises, LastBody
  <2>3. QED
    BY <1>2, <1>3, <2>1, <2>2 DEF TypeInv, SizeInv, StartedInv, Stages, wsgiVars
<1>7. CASE StartResponse \/ Output \/ Exhausted
  <2>1. /\ kind = "wsgi" /\ stage = "app" /\ UNCHANGED size
        /\ status' = TRUE /\ sent' \in BOOLEAN
    BY <1>3, <1>7 DEF StartResponse, Output, Exhausted, Wrapper, TypeInv, StartedInv
  <2>2. stage' \in {"app", "last", "left"}
    BY <1>7, <2>1, CallStage DEF StartResponse, Output, Exhausted
  <2>3. QED
    BY <1>2, <1>3, <2>1, <2>2 DEF TypeInv, SizeInv, StartedInv, Stages
<1>8. ASSUME ~Request, ~Collect, ~AppSendsNone, ~AppReturns, ~Raises, ~LastBody,
             ~StartResponse, ~Output, ~Exhausted
      PROVE  stage' \in {stage, "left"} /\ UNCHANGED wsgiVars
  <2>1. CASE BodyEvent \/ ClientGone \/ Receive \/ AppAside
    BY <2>1 DEF BodyEvent, ClientGone, Receive, AppAside, appUnchanged
  <2>2. CASE Continue
    BY <2>2, CallStage DEF Continue
  <2>3. CASE AppStart \/ AppBody \/ AppFile \/ AppTrailersFirst \/ AppTrailers
    <3>1. stage = "app" /\ UNCHANGED wsgiVars
      BY <2>3 DEF AppStart, AppBody, AppFile, AppTrailersFirst, AppTrailers, App, appUnchanged
    <3>2. \E run : Do(run, "app")
      BY <2>3 DEF AppStart, AppBody, AppFile, AppTrailersFirst, AppTrailers, BodyMessage
    <3>3. QED
      BY <3>1, <3>2, CallStage
  <2>4. QED
    BY <1>8, <2>1, <2>2, <2>3 DEF Next, Asgi, Wsgi
<1>9. QED
  BY <1>2, <1>3, <1>4, <1>5, <1>6, <1>7, <1>8 DEF TypeInv, SizeInv, StartedInv, wsgiVars, Stages

(* The runs of steps are of steps, and short. *)
Short(run) == run \in Seq(Steps) /\ Len(run) <= 4

(* Each run that a call may have left is of steps, and short. *)
LEMMA Shorts ==
    /\ Short(<<>>)
    /\ Short(<<"return">>)
    /\ Short(<<"send">>)
    /\ Short(<<"respond">>)
    /\ Short(<<"trailing">>)
    /\ Short(<<"close">>)
    /\ Short(<<"shut">>)
    /\ Short(<<"respond", "send">>)
    /\ Short(<<"send", "trailing">>)
    /\ Short(<<"close", "shut">>)
    /\ Short(<<"log", "close">>)
    /\ Short(<<"log", "close", "shut">>)
    /\ Short(<<"end", "log", "close">>)
    /\ Short(<<"end", "close", "shut">>)
    /\ Short(<<"seal", "log", "close">>)
    /\ Short(<<"end", "log", "close", "shut">>)
    /\ Short(<<"send", "seal", "log", "close">>)
    /\ Short(<<"trailing", "seal", "log", "close">>)
BY StepsFact DEF Short

(* And so is what a call has left. *)
LEMMA PlansAreShort ==
    ASSUME PlanInv
    PROVE  Short(todo)
<1>1. CASE PlanOpen
  BY <1>1, Shorts DEF Short, PlanOpen
<1>2. CASE PlanBegins
  BY <1>2, Shorts DEF Short, PlanBegins
<1>3. CASE PlanTrailing
  BY <1>3, Shorts DEF Short, PlanTrailing
<1>4. CASE PlanSeals
  BY <1>4, Shorts DEF Short, PlanSeals, SendClosed
<1>5. CASE PlanEnds
  BY <1>5, Shorts DEF Short, PlanEnds
<1>6. CASE PlanLogs
  BY <1>6, Shorts DEF Short, PlanLogs
<1>7. CASE PlanCloses
  BY <1>7, Shorts DEF Short, PlanCloses
<1>8. CASE PlanShuts
  BY <1>8, Shorts DEF Short, PlanShuts
<1>9. QED
  BY <1>1, <1>2, <1>3, <1>4, <1>5, <1>6, <1>7, <1>8 DEF PlanInv

(* Every variable is always of its type; the receive channel never holds   *)
(* more than the pieces of the body, its end and the disconnect, and the   *)
(* wrapper never collects more than one piece over its limit.              *)
THEOREM TypeCorrect == Spec => []TypeOK
<1>1. Init => TypeInv
  <2>1. Init => RequestInv
    BY DEF Init, RequestInv
  <2>2. Init => QueueInv
    BY StreamAssumption DEF Init, QueueInv, Messages
  <2>3. Init => SizeInv /\ stage \in Stages
    BY StreamAssumption DEF Init, SizeInv, Stages
  <2>4. Init => StartedInv
    BY DEF Init, StartedInv
  <2>5. QED
    BY <2>1, <2>2, <2>3, <2>4 DEF TypeInv
<1>2. TypeInv /\ IInv /\ [Next]_vars => TypeInv'
  <2>1. ASSUME TypeInv, IInv, Next PROVE TypeInv'
    BY <2>1, QueueStep, OtherStep DEF TypeInv, IInv, StateInv
  <2>2. ASSUME TypeInv, UNCHANGED vars PROVE TypeInv'
    BY <2>2 DEF TypeInv, RequestInv, QueueInv, SizeInv, StartedInv, vars, requestVars,
                streamVars, wsgiVars
  <2>3. QED
    BY <2>1, <2>2
<1>3. TypeInv /\ IInv => TypeOK
  <2>1. ASSUME TypeInv, IInv PROVE Len(queue) <= MaxParts + 2
    BY <2>1, StreamAssumption DEF TypeInv, QueueInv
  <2>2. ASSUME TypeInv, IInv PROVE todo \in Seq(Steps) /\ Len(todo) <= 4
    BY <2>2, PlansAreShort DEF IInv, Short
  <2>3. QED
    BY <2>1, <2>2 DEF TypeOK, TypeInv, RequestInv, QueueInv, SizeInv, StartedInv, IInv,
                      StateInv, Messages
<1>4. QED
  BY <1>1, <1>2, <1>3, Initially, Preserved, PTL DEF Spec
================================================================================
