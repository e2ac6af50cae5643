--------------------------- MODULE MCSessionManager ---------------------------
(* Small instances of SessionManager: one user, a, and its connections.      *)
EXTENDS SessionManager, TLC

CONSTANT a

OneUser == [c \in Conns |-> a]

(* Workers are interchangeable, and so are the connections of one user.      *)
Symmetry == Permutations(Workers) \cup Permutations(Conns)
=============================================================================
