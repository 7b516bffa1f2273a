----------------------------- MODULE Connection -----------------------------
(***************************************************************************)
(* What the event loop and the callbacks of one connection of echoServer   *)
(* owe each other.  The loop keeps several of these (EchoServer); what     *)
(* happens inside a callback is EchoSession.                               *)
(***************************************************************************)

VARIABLES
  phase,            \* "away", "queued" in the backlog, "open" and watched,
                    \* "unwatched": open, but epoll refused it;
                    \* "gone": closed; "dead": the process is gone
  hung,             \* the client closed or reset it
  armed,            \* it is on epoll's ready list
  handling          \* its event is taken and its callback has not returned

vars == <<phase, hung, armed, handling>>

Init ==
  /\ phase \in {"away", "queued"}
  /\ hung = FALSE /\ armed = FALSE /\ handling = FALSE

Come ==
  /\ phase = "away" /\ phase' = "queued"
  /\ UNCHANGED <<hung, armed, handling>>

HangUp ==
  /\ phase \in {"queued", "open", "unwatched"} /\ ~hung
  /\ hung' = TRUE
  /\ armed' = (armed \/ phase = "open")
  /\ UNCHANGED <<phase, handling>>

(* Data, or space to send.                                                 *)
Act ==
  /\ phase = "open" /\ armed' = TRUE
  /\ UNCHANGED <<phase, hung, handling>>

(* A watched connection is ready at once: it has space to send.            *)
Accept ==
  /\ phase = "queued"
  /\ \/ phase' = "open" /\ armed' = TRUE
     \/ phase' = "unwatched" /\ armed' = armed
  /\ UNCHANGED <<hung, handling>>

(* Closed without having been served: accept failed, or the loop ended.    *)
Abandon ==
  /\ phase \in {"queued", "unwatched"} /\ phase' = "gone"
  /\ hung' = FALSE
  /\ UNCHANGED <<armed, handling>>

Take ==
  /\ phase = "open" /\ armed /\ ~handling
  /\ armed' = FALSE /\ handling' = TRUE
  /\ UNCHANGED <<phase, hung>>

(* What armed it is over, and epoll has nothing to report.                 *)
Idle ==
  /\ phase = "open" /\ armed /\ ~handling /\ ~hung
  /\ armed' = FALSE
  /\ UNCHANGED <<phase, hung, handling>>

(* The callback returns with the connection open: a hang-up it has not     *)
(* seen is going to be reported again.                                     *)
Serve ==
  /\ phase = "open" /\ handling
  /\ hung => armed
  /\ handling' = FALSE
  /\ UNCHANGED <<phase, hung, armed>>

(* A watched connection is closed only in its own callback, and only when  *)
(* its client has gone.                                                    *)
End ==
  /\ phase = "open" /\ hung
  /\ armed \/ handling
  /\ phase' = "gone"
  /\ hung' = FALSE /\ armed' = FALSE /\ handling' = FALSE

Die ==
  /\ phase' = "dead"
  /\ hung' = FALSE /\ armed' = FALSE /\ handling' = FALSE

Next ==
  \/ Come \/ HangUp \/ Act
  \/ Accept \/ Abandon \/ Take \/ Idle \/ Serve \/ End \/ Die

Spec == Init /\ [][Next]_vars

=============================================================================
