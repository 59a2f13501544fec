------------------------------ MODULE CastLife ------------------------------
(***************************************************************************)
(* The life of a cast task as the output controller reckons with it: only   *)
(* bytes that were read before the stop signal can make a session load the  *)
(* stream. OutputController moves its cast tasks by these steps.            *)
(***************************************************************************)
VARIABLES
  phase,   \* connecting, launched, loading, playing, ended
  stopped  \* the stop signal was given

lifeVars == <<phase, stopped>>

Init == phase = "connecting" /\ stopped = FALSE

Launch ==
  /\ phase = "connecting"
  /\ phase' = "launched"
  /\ UNCHANGED stopped

(* Bytes are read, and handled to the end whatever is signalled meanwhile.  *)
Status ==
  /\ phase = "launched"
  /\ ~stopped
  /\ phase' = "loading"
  /\ UNCHANGED stopped

Handled ==
  /\ phase = "loading"
  /\ phase' \in {"launched", "playing"}
  /\ UNCHANGED stopped

End ==
  /\ phase # "ended"
  /\ phase' = "ended"
  /\ UNCHANGED stopped

Stop ==
  /\ ~stopped
  /\ stopped' = TRUE
  /\ UNCHANGED phase

Next == Launch \/ Status \/ Handled \/ End \/ Stop

Spec == Init /\ [][Next]_lifeVars
=============================================================================
