------------------------------ MODULE NameMap ------------------------------
(***************************************************************************)
(* What the name index promises the profile database: it is a map from     *)
(* user names to the places of their records.  A name is given a place     *)
(* while it has none, and loses it; no other name is touched by that.      *)
(***************************************************************************)
EXTENDS Naturals

CONSTANTS Names, Places
VARIABLE place              \* place of each name's record, 0 for none

MapInit == place = [n \in Names |-> 0]

Bind(n) == place[n] = 0 /\ place'[n] \in Places

Unbind(n) == place[n] # 0 /\ place'[n] = 0

OthersKept(n) == place' = [place EXCEPT ![n] = place'[n]]

MapNext == \E n \in Names : (Bind(n) \/ Unbind(n)) /\ OthersKept(n)

MapSpec == MapInit /\ [][MapNext]_place
=============================================================================
