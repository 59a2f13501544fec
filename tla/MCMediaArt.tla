----------------------------- MODULE MCMediaArt -----------------------------
(***************************************************************************)
(* Instances of MediaArt for TLC. Where no player comes or goes, there is    *)
(* one; where they do, there is none at first.                              *)
(***************************************************************************)
EXTENDS MediaArt

MCInit ==
  /\ Init
  /\ \A p \in Players :
       rank[p] = IF "players" \in events \/ p # 1 THEN "absent" ELSE "active"
  /\ track[1] # None
  /\ \A p \in Players \ {1} : track[p] \notin {None, track[1]}

MCSpec == MCInit /\ [][Next]_vars /\ Fairness
=============================================================================
