---------------------------- MODULE OutputRoute ----------------------------
(***************************************************************************)
(* What the output controller promises to a user of POST /api/output and    *)
(* GET /api/output: the accepted requests are served one by one in the      *)
(* order they came, each is served once, serving one either shows what it   *)
(* asked for or shows nothing, and in between the output shown only ever    *)
(* goes away (its Chromecast was lost). Nothing is said of the steps by     *)
(* which a request is served.                                              *)
(***************************************************************************)
EXTENDS Sequences

CONSTANTS Outputs, None

VARIABLES
  shown,  \* the output the user sees as active
  todo,   \* the requests accepted and not yet served
  up      \* the controller takes requests

routeVars == <<shown, todo, up>>

Init == shown = None /\ todo = <<>> /\ up = FALSE

(* The process starts.                                                     *)
Boot ==
  /\ ~up /\ shown = None
  /\ up' = TRUE
  /\ UNCHANGED <<shown, todo>>

Accept ==
  /\ up
  /\ \E c \in Outputs \cup {None} : todo' = Append(todo, c)
  /\ UNCHANGED <<shown, up>>

Serve ==
  /\ up
  /\ todo # <<>>
  /\ shown' \in {None, Head(todo)}
  /\ todo' = Tail(todo)
  /\ UNCHANGED up

Lose ==
  /\ up
  /\ shown' = None
  /\ UNCHANGED <<todo, up>>

(* The controller or its process ends; requests not served are forgotten.   *)
Halt ==
  /\ up' = FALSE
  /\ todo' = <<>>
  /\ shown' \in {None, shown}

Next == Boot \/ Accept \/ Serve \/ Lose \/ Halt

Spec == Init /\ [][Next]_routeVars
=============================================================================
