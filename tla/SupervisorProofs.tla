--------------------------- MODULE SupervisorProofs ---------------------------
(***************************************************************************)
(* Proofs about Supervisor, for any two graces with the session's the      *)
(* shorter.                                                                *)
(***************************************************************************)
EXTENDS Supervisor, TLAPS

(* What the supervisor has done by the place it has got to.                 *)
PhaseOK ==
  /\ pc \in {"setup", "fork"} => child = "none"
  /\ pc = "setup" => pam = "none"
  /\ pc = "exec" => child # "none"
  /\ pc \in {"pid", "install"} \cup Served => child \notin {"none", "forked", "armed"}
  /\ pc \in {"install"} \cup (Served \ {"close"}) => pid
  /\ pc \in {"clear", "close"} => child = "reaped"
  /\ pc = "exited" => pam # "open" /\ child \in {"none", "reaped"}

(* A signal the daemon sent has been seen, and only a missed one leaves the *)
(* supervisor blocked with nothing to bound the wait: otherwise every tick   *)
(* since it was asked has been one of the session's grace.                  *)
HeardOK ==
  /\ stop => pc \notin Setup
  /\ daemon = "asked" /\ ~pending => stop \/ Gone
  /\ stop /\ pc \in {"enter", "wait"} => fate # "none"
  /\ fate = "none" => asked = waited

Inv == TypeOK /\ PhaseOK /\ HeardOK /\ StopForwarded /\ NoOrphan /\ LeakExplained

(* Each step keeps the types.                                               *)
LEMMA TypeStep == ASSUME Inv, Next PROVE TypeOK'
<1> USE GraceAssumption DEF GraceAssumption, Inv, TypeOK, HeardOK, Setup, Served, signals, clocks
<1>1. CASE OpenPam
  BY <1>1 DEF OpenPam
<1>2. CASE SetupFail
  BY <1>2 DEF SetupFail
<1>3. CASE Fork
  BY <1>3 DEF Fork
<1>4. CASE Arm
  BY <1>4 DEF Arm
<1>5. CASE Exec
  BY <1>5 DEF Exec
<1>6. CASE Spawned
  BY <1>6 DEF Spawned
<1>7. CASE SpawnFail
  BY <1>7 DEF SpawnFail
<1>8. CASE StorePid
  BY <1>8 DEF StorePid
<1>9. CASE Install
  BY <1>9 DEF Install
<1>10. CASE Check
  BY <1>10 DEF Check
<1>11. CASE Enter
  BY <1>11 DEF Enter
<1>12. CASE Reaped
  BY <1>12 DEF Reaped
<1>13. CASE GraceOver
  BY <1>13 DEF GraceOver, GraceSpent
<1>14. CASE Clear
  BY <1>14 DEF Clear
<1>15. CASE Close
  BY <1>15 DEF Close
<1>16. CASE Ask
  BY <1>16 DEF Ask
<1>17. CASE Terminated
  BY <1>17 DEF Terminated, Die
<1>18. CASE Handle
  BY <1>18 DEF Handle
<1>19. CASE DaemonKills
  BY <1>19 DEF DaemonKills, Die
<1>20. CASE KilledOutside
  BY <1>20 DEF KilledOutside, Die
<1>21. CASE SessionEnds
  BY <1>21 DEF SessionEnds
<1>22. CASE Tick
  BY <1>22 DEF Tick, Blocked, GraceSpent
<1>q. QED
  BY <1>1, <1>2, <1>3, <1>4, <1>5, <1>6, <1>7, <1>8, <1>9, <1>10, <1>11, <1>12, <1>13,
     <1>14, <1>15, <1>16, <1>17, <1>18, <1>19, <1>20, <1>21, <1>22
     DEF Next, Supervise, StartChild, Deliver

(* ... and what each place stands for.                                      *)
LEMMA PhaseStep == ASSUME Inv, Next PROVE PhaseOK'
<1> USE GraceAssumption DEF GraceAssumption, Inv, PhaseOK, Setup, Served, signals, clocks
<1>1. CASE OpenPam
  BY <1>1 DEF OpenPam
<1>2. CASE SetupFail
  BY <1>2 DEF SetupFail
<1>3. CASE Fork
  BY <1>3 DEF Fork
<1>4. CASE Arm
  BY <1>4 DEF Arm
<1>5. CASE Exec
  BY <1>5 DEF Exec
<1>6. CASE Spawned
  BY <1>6 DEF Spawned
<1>7. CASE SpawnFail
  BY <1>7 DEF SpawnFail
<1>8. CASE StorePid
  BY <1>8 DEF StorePid
<1>9. CASE Install
  BY <1>9 DEF Install
<1>10. CASE Check
  BY <1>10 DEF Check
<1>11. CASE Enter
  BY <1>11 DEF Enter
<1>12. CASE Reaped
  BY <1>12 DEF Reaped
<1>13. CASE GraceOver
  BY <1>13 DEF GraceOver, GraceSpent
<1>14. CASE Clear
  BY <1>14 DEF Clear
<1>15. CASE Close
  BY <1>15 DEF Close
<1>16. CASE Ask
  BY <1>16 DEF Ask
<1>17. CASE Terminated
  BY <1>17 DEF Terminated, Die
<1>18. CASE Handle
  BY <1>18 DEF Handle
<1>19. CASE DaemonKills
  BY <1>19 DEF DaemonKills, Die
<1>20. CASE KilledOutside
  BY <1>20 DEF KilledOutside, Die
<1>21. CASE SessionEnds
  BY <1>21 DEF SessionEnds
<1>22. CASE Tick
  BY <1>22 DEF Tick, Blocked, GraceSpent
<1>q. QED
  BY <1>1, <1>2, <1>3, <1>4, <1>5, <1>6, <1>7, <1>8, <1>9, <1>10, <1>11, <1>12, <1>13,
     <1>14, <1>15, <1>16, <1>17, <1>18, <1>19, <1>20, <1>21, <1>22
     DEF Next, Supervise, StartChild, Deliver

(* Time passes unheard only after a missed signal.                          *)
LEMMA HeardStep == ASSUME Inv, Next PROVE HeardOK'
<1> USE GraceAssumption DEF GraceAssumption, Inv, TypeOK, PhaseOK, HeardOK, Gone, Setup, Served, signals, clocks
<1>1. CASE OpenPam
  BY <1>1 DEF OpenPam
<1>2. CASE SetupFail
  BY <1>2 DEF SetupFail
<1>3. CASE Fork
  BY <1>3 DEF Fork
<1>4. CASE Arm
  BY <1>4 DEF Arm
<1>5. CASE Exec
  BY <1>5 DEF Exec
<1>6. CASE Spawned
  BY <1>6 DEF Spawned
<1>7. CASE SpawnFail
  BY <1>7 DEF SpawnFail
<1>8. CASE StorePid
  BY <1>8 DEF StorePid
<1>9. CASE Install
  BY <1>9 DEF Install
<1>10. CASE Check
  BY <1>10 DEF Check
<1>11. CASE Enter
  BY <1>11 DEF Enter
<1>12. CASE Reaped
  BY <1>12 DEF Reaped
<1>13. CASE GraceOver
  BY <1>13 DEF GraceOver, GraceSpent
<1>14. CASE Clear
  BY <1>14 DEF Clear
<1>15. CASE Close
  BY <1>15 DEF Close
<1>16. CASE Ask
  BY <1>16 DEF Ask
<1>17. CASE Terminated
  BY <1>17 DEF Terminated, Die
<1>18. CASE Handle
  BY <1>18 DEF Handle
<1>19. CASE DaemonKills
  BY <1>19 DEF DaemonKills, Die
<1>20. CASE KilledOutside
  BY <1>20 DEF KilledOutside, Die
<1>21. CASE SessionEnds
  BY <1>21 DEF SessionEnds
<1>22. CASE Tick
  BY <1>22 DEF Tick, Blocked, GraceSpent
<1>q. QED
  BY <1>1, <1>2, <1>3, <1>4, <1>5, <1>6, <1>7, <1>8, <1>9, <1>10, <1>11, <1>12, <1>13,
     <1>14, <1>15, <1>16, <1>17, <1>18, <1>19, <1>20, <1>21, <1>22
     DEF Next, Supervise, StartChild, Deliver

(* Only the handler sets the flag, and it forwards the signal.              *)
LEMMA ForwardedStep == ASSUME Inv, Next PROVE StopForwarded'
<1> USE GraceAssumption DEF GraceAssumption, Inv, TypeOK, PhaseOK, HeardOK, StopForwarded, NoOrphan, Gone, Setup, Served, signals, clocks
<1>1. CASE OpenPam
  BY <1>1 DEF OpenPam
<1>2. CASE SetupFail
  BY <1>2 DEF SetupFail
<1>3. CASE Fork
  BY <1>3 DEF Fork
<1>4. CASE Arm
  BY <1>4 DEF Arm
<1>5. CASE Exec
  BY <1>5 DEF Exec
<1>6. CASE Spawned
  BY <1>6 DEF Spawned
<1>7. CASE SpawnFail
  BY <1>7 DEF SpawnFail
<1>8. CASE StorePid
  BY <1>8 DEF StorePid
<1>9. CASE Install
  BY <1>9 DEF Install
<1>10. CASE Check
  BY <1>10 DEF Check
<1>11. CASE Enter
  BY <1>11 DEF Enter
<1>12. CASE Reaped
  BY <1>12 DEF Reaped
<1>13. CASE GraceOver
  BY <1>13 DEF GraceOver, GraceSpent
<1>14. CASE Clear
  BY <1>14 DEF Clear
<1>15. CASE Close
  BY <1>15 DEF Close
<1>16. CASE Ask
  BY <1>16 DEF Ask
<1>17. CASE Terminated
  BY <1>17 DEF Terminated, Die
<1>18. CASE Handle
  BY <1>18 DEF Handle
<1>19. CASE DaemonKills
  BY <1>19 DEF DaemonKills, Die
<1>20. CASE KilledOutside
  BY <1>20 DEF KilledOutside, Die
<1>21. CASE SessionEnds
  BY <1>21 DEF SessionEnds
<1>22. CASE Tick
  BY <1>22 DEF Tick, Blocked, GraceSpent
<1>q. QED
  BY <1>1, <1>2, <1>3, <1>4, <1>5, <1>6, <1>7, <1>8, <1>9, <1>10, <1>11, <1>12, <1>13,
     <1>14, <1>15, <1>16, <1>17, <1>18, <1>19, <1>20, <1>21, <1>22
     DEF Next, Supervise, StartChild, Deliver

(* Every way the supervisor goes leaves the child told, gone or about to look. *)
LEMMA OrphanStep == ASSUME Inv, Next PROVE NoOrphan'
<1> USE GraceAssumption DEF GraceAssumption, Inv, PhaseOK, NoOrphan, Gone, Setup, Served, signals, clocks
<1>1. CASE OpenPam
  BY <1>1 DEF OpenPam
<1>2. CASE SetupFail
  BY <1>2 DEF SetupFail
<1>3. CASE Fork
  BY <1>3 DEF Fork
<1>4. CASE Arm
  BY <1>4 DEF Arm
<1>5. CASE Exec
  BY <1>5 DEF Exec
<1>6. CASE Spawned
  BY <1>6 DEF Spawned
<1>7. CASE SpawnFail
  BY <1>7 DEF SpawnFail
<1>8. CASE StorePid
  BY <1>8 DEF StorePid
<1>9. CASE Install
  BY <1>9 DEF Install
<1>10. CASE Check
  BY <1>10 DEF Check
<1>11. CASE Enter
  BY <1>11 DEF Enter
<1>12. CASE Reaped
  BY <1>12 DEF Reaped
<1>13. CASE GraceOver
  BY <1>13 DEF GraceOver, GraceSpent
<1>14. CASE Clear
  BY <1>14 DEF Clear
<1>15. CASE Close
  BY <1>15 DEF Close
<1>16. CASE Ask
  BY <1>16 DEF Ask
<1>17. CASE Terminated
  BY <1>17 DEF Terminated, Die
<1>18. CASE Handle
  BY <1>18 DEF Handle
<1>19. CASE DaemonKills
  BY <1>19 DEF DaemonKills, Die
<1>20. CASE KilledOutside
  BY <1>20 DEF KilledOutside, Die
<1>21. CASE SessionEnds
  BY <1>21 DEF SessionEnds
<1>22. CASE Tick
  BY <1>22 DEF Tick, Blocked, GraceSpent
<1>q. QED
  BY <1>1, <1>2, <1>3, <1>4, <1>5, <1>6, <1>7, <1>8, <1>9, <1>10, <1>11, <1>12, <1>13,
     <1>14, <1>15, <1>16, <1>17, <1>18, <1>19, <1>20, <1>21, <1>22
     DEF Next, Supervise, StartChild, Deliver

(* The daemon's SIGKILL finds only a supervisor that missed the signal.     *)
LEMMA LeakStep == ASSUME Inv, Next PROVE LeakExplained'
<1> USE GraceAssumption DEF GraceAssumption, Inv, TypeOK, PhaseOK, HeardOK, LeakExplained, Gone, Setup, Served, signals, clocks
<1>1. CASE OpenPam
  BY <1>1 DEF OpenPam
<1>2. CASE SetupFail
  BY <1>2 DEF SetupFail
<1>3. CASE Fork
  BY <1>3 DEF Fork
<1>4. CASE Arm
  BY <1>4 DEF Arm
<1>5. CASE Exec
  BY <1>5 DEF Exec
<1>6. CASE Spawned
  BY <1>6 DEF Spawned
<1>7. CASE SpawnFail
  BY <1>7 DEF SpawnFail
<1>8. CASE StorePid
  BY <1>8 DEF StorePid
<1>9. CASE Install
  BY <1>9 DEF Install
<1>10. CASE Check
  BY <1>10 DEF Check
<1>11. CASE Enter
  BY <1>11 DEF Enter
<1>12. CASE Reaped
  BY <1>12 DEF Reaped
<1>13. CASE GraceOver
  BY <1>13 DEF GraceOver, GraceSpent
<1>14. CASE Clear
  BY <1>14 DEF Clear
<1>15. CASE Close
  BY <1>15 DEF Close
<1>16. CASE Ask
  BY <1>16 DEF Ask
<1>17. CASE Terminated
  BY <1>17 DEF Terminated, Die
<1>18. CASE Handle
  BY <1>18 DEF Handle
<1>19. CASE DaemonKills
  BY <1>19 DEF DaemonKills, Die
<1>20. CASE KilledOutside
  BY <1>20 DEF KilledOutside, Die
<1>21. CASE SessionEnds
  BY <1>21 DEF SessionEnds
<1>22. CASE Tick
  BY <1>22 DEF Tick, Blocked, GraceSpent
<1>q. QED
  BY <1>1, <1>2, <1>3, <1>4, <1>5, <1>6, <1>7, <1>8, <1>9, <1>10, <1>11, <1>12, <1>13,
     <1>14, <1>15, <1>16, <1>17, <1>18, <1>19, <1>20, <1>21, <1>22
     DEF Next, Supervise, StartChild, Deliver

(* All of it holds of every reachable state.                                *)
THEOREM SupervisorInv == Spec => []Inv
<1>1. Init => Inv
  <2>1. Init => TypeOK
    <3>1. 0 \in 0..ExitGrace /\ 0 \in 0..StopGrace
      BY GraceAssumption DEF GraceAssumption
    <3>q. QED
      BY <3>1 DEF Init, TypeOK, Setup, Served
  <2>2. Init => PhaseOK /\ HeardOK
    BY DEF Init, PhaseOK, HeardOK, Setup, Served
  <2>3. Init => StopForwarded /\ NoOrphan /\ LeakExplained
    BY DEF Init, StopForwarded, NoOrphan, LeakExplained, Gone
  <2>q. QED
    BY <2>1, <2>2, <2>3 DEF Inv
<1>2. Inv /\ UNCHANGED vars => Inv'
  BY DEF Inv, TypeOK, PhaseOK, HeardOK, StopForwarded, NoOrphan, LeakExplained, Gone,
         Setup, Served, vars
<1>3. Inv /\ Next => Inv'
  BY TypeStep, PhaseStep, HeardStep, ForwardedStep, OrphanStep, LeakStep DEF Inv
<1>q. QED
  BY <1>1, <1>2, <1>3, PTL DEF Spec

(* No session runs on untold once its supervisor is gone, wherever in its    *)
(* start the supervisor died: PR_SET_PDEATHSIG and the getppid check after  *)
(* it, in run's pre_exec.                                                   *)
THEOREM NeverOrphaned == Spec => []NoOrphan
  BY SupervisorInv, PTL DEF Inv

(* A stop the supervisor saw, the session was sent: CHILD_PID is stored     *)
(* before forward_signal is installed.                                      *)
THEOREM AlwaysForwarded == Spec => []StopForwarded
  BY SupervisorInv, PTL DEF Inv

(* As long as SESSION_STOP_GRACE is shorter than SUPERVISOR_EXIT_GRACE, a   *)
(* session that will not stop never costs the user an open PAM session.     *)
THEOREM LeaksExplained == Spec => []LeakExplained
  BY SupervisorInv, PTL DEF Inv
=============================================================================
