------------------------------ MODULE HTTPResponse ------------------------------
(***************************************************************************)
(* What an HTTP stream promises the connection, the client and the access  *)
(* log about one response, whatever the application does: an abstraction   *)
(* that HTTPStream is shown to implement.                                  *)
(*                                                                         *)
(* wire is how far the events handed to the connection have got, said is   *)
(* whether the response has been given all it will ever have, and entries  *)
(* are the lines of the access log: "finished" names the response's        *)
(* status, "gone" says the client had left before there was one.           *)
(***************************************************************************)
EXTENDS Sequences

VARIABLES wire, said, entries

Wires   == {"none", "started", "trailed", "ended", "closed", "aborted"}
Intents == {"open", "finished", "failed"}
Logs    == {<<>>, <<"gone">>, <<"finished">>, <<"gone", "finished">>}

TypeOK == wire \in Wires /\ said \in Intents /\ entries \in Logs

Init == wire = "none" /\ said = "open" /\ entries = <<>>

(* The application finishes its response, or not yet. *)
Says == said' = said \/ (said = "open" /\ said' = "finished")

Finish == said = "open" /\ said' = "finished" /\ UNCHANGED <<wire, entries>>

Start == wire = "none" /\ wire' = "started" /\ Says /\ UNCHANGED entries

(* The server answers for an application that has not. *)
Fail == wire = "none" /\ said = "open" /\ wire' = "started" /\ said' = "failed"
        /\ UNCHANGED entries

Trailers == wire \in {"started", "trailed"} /\ wire' = "trailed" /\ Says /\ UNCHANGED entries

(* The end of the body tells the client that it has all of the response:   *)
(* it is never sent for a response that was cut short.                     *)
End == wire \in {"started", "trailed"} /\ wire' = "ended" /\ Says /\ said' # "open"
       /\ UNCHANGED entries

(* A log line names the response once it is complete, and only once; there *)
(* is one for a client that left only if it did so before the end.         *)
LogFinished == wire = "ended" /\ entries \in {<<>>, <<"gone">>}
               /\ entries' = Append(entries, "finished") /\ UNCHANGED <<wire, said>>

LogGone == wire \notin {"ended", "closed"} /\ entries = <<>>
           /\ entries' = <<"gone">> /\ UNCHANGED <<wire, said>>

(* The connection may move on once the response is complete, logged or     *)
(* not: what is answered before a scope exists has no line.                *)
Close == wire = "ended" /\ wire' = "closed" /\ UNCHANGED <<said, entries>>

Abort == wire \notin {"ended", "closed", "aborted"} /\ wire' = "aborted"
         /\ entries' \in {entries, <<"gone">>} /\ UNCHANGED said

Next == Finish \/ Start \/ Fail \/ Trailers \/ End \/ LogFinished \/ LogGone \/ Close \/ Abort

Spec == Init /\ [][Next]_<<wire, said, entries>>

================================================================================
