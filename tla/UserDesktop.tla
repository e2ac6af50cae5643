------------------------------ MODULE UserDesktop ------------------------------
(***************************************************************************)
(* What the daemon promises its users, whatever its threads, restarts and  *)
(* shutdowns do: each user has at most one desktop, a new one opens only   *)
(* when there is none, and the name clients reach it by leads to it for as *)
(* long as it is open.                                                     *)
(***************************************************************************)
CONSTANTS Users, Desktops, Nobody

VARIABLES
  desktop,   \* each user's desktop, or Nobody
  door       \* the desktop each user's name leads to, or Nobody

Init ==
  /\ desktop = [u \in Users |-> Nobody]
  /\ door = [u \in Users |-> Nobody]

(* A desktop opens behind a door that is already its own.                   *)
Open(u) ==
  /\ desktop[u] = Nobody
  /\ door[u] # Nobody
  /\ desktop' = [desktop EXCEPT ![u] = door[u]]
  /\ UNCHANGED door

(* Desktops end, one by one or all that one daemon started at once.         *)
Close(U) ==
  /\ desktop' = [u \in Users |-> IF u \in U THEN Nobody ELSE desktop[u]]
  /\ UNCHANGED door

(* Doors are moved only where there is no desktop behind them.              *)
Move(U, target) ==
  /\ \A u \in U : desktop[u] = Nobody
  /\ door' = [u \in Users |-> IF u \in U THEN target ELSE door[u]]
  /\ UNCHANGED desktop

Next ==
  \/ \E u \in Users : Open(u)
  \/ \E U \in SUBSET Users : Close(U)
  \/ \E U \in SUBSET Users, target \in Desktops \cup {Nobody} : Move(U, target)

Spec == Init /\ [][Next]_<<desktop, door>>
=============================================================================
