------------------------------ MODULE Supervisor ------------------------------
(***************************************************************************)
(* One session's supervisor (crates/server/src/daemon/supervisor.rs): it   *)
(* opens the PAM session, forks and execs the session process, waits for   *)
(* it and closes the PAM session. The daemon stops it with SIGTERM and,    *)
(* if it is still there a grace later, SIGKILL (terminate_all). What is    *)
(* hard here is where a signal lands: a step is one system call or one     *)
(* access to a static, and the signal is taken between any two.            *)
(*                                                                         *)
(* Time passes, in ticks, only while the supervisor is blocked: its own    *)
(* instructions fit in the margin between the two graces.                  *)
(***************************************************************************)
EXTENDS Naturals

CONSTANTS
  StopGrace,   \* SESSION_STOP_GRACE
  ExitGrace    \* the manager's SUPERVISOR_EXIT_GRACE

ASSUME GraceAssumption ==
  /\ StopGrace \in Nat \ {0}
  /\ ExitGrace \in Nat
  /\ StopGrace < ExitGrace

VARIABLES
  pc,       \* where the supervisor is
  pam,      \* the PAM session
  child,    \* the session process
  pid,      \* CHILD_PID is set
  stop,     \* STOP_REQUESTED
  daemon,   \* what the daemon has sent
  pending,  \* a SIGTERM is on its way
  asked,    \* ticks since the daemon sent SIGTERM
  waited,   \* ticks spent in reap_within
  fate      \* what kept the supervisor from answering SIGTERM, if anything did

vars == <<pc, pam, child, pid, stop, daemon, pending, asked, waited, fate>>
clocks == <<asked, waited>>
signals == <<daemon, pending, fate>>

(* Before the handlers are installed, and after.                            *)
Setup == {"setup", "fork", "exec", "pid", "install"}
Served == {"check", "enter", "wait", "grace", "reap", "clear", "close"}

Gone == pc \in {"exited", "killed"}

TypeOK ==
  /\ pc \in Setup \cup Served \cup {"exited", "killed"}
  /\ pam \in {"none", "open", "closed"}
  /\ child \in {"none", "forked", "armed", "running", "told", "zombie", "reaped"}
  /\ pid \in BOOLEAN /\ stop \in BOOLEAN /\ pending \in BOOLEAN
  /\ daemon \in {"quiet", "asked", "killed"}
  /\ asked \in 0..ExitGrace /\ waited \in 0..StopGrace
  /\ fate \in {"none", "early", "missed", "outside"}

Init ==
  /\ pc = "setup" /\ pam = "none" /\ child = "none"
  /\ pid = FALSE /\ stop = FALSE
  /\ daemon = "quiet" /\ pending = FALSE
  /\ asked = 0 /\ waited = 0
  /\ fate = "none"

-----------------------------------------------------------------------------
(* run: up to the handlers.                                                 *)

(* pam_open_session, or no PAM on this host.                                *)
OpenPam ==
  /\ pc = "setup"
  /\ pc' = "fork"
  /\ pam' \in {"none", "open"}
  /\ UNCHANGED <<child, pid, stop, signals, clocks>>

(* No group list, or PAM refuses: nothing to unwind.                        *)
SetupFail ==
  /\ pc = "setup"
  /\ pc' = "exited"
  /\ UNCHANGED <<pam, child, pid, stop, signals, clocks>>

Fork ==
  /\ pc = "fork"
  /\ pc' = "exec"
  /\ child' = "forked"
  /\ UNCHANGED <<pam, pid, stop, signals, clocks>>

(* In the child, after the change of user: prctl(PR_SET_PDEATHSIG) ...       *)
Arm ==
  /\ child = "forked"
  /\ child' = "armed"
  /\ UNCHANGED <<pc, pam, pid, stop, signals, clocks>>

(* Fault: the parent is not looked for after the prctl.                      *)
ExecUnchecked ==
  /\ child = "armed"
  /\ child' = "running"
  /\ UNCHANGED <<pc, pam, pid, stop, signals, clocks>>

(* ... and then, if the parent is still there, exec.                        *)
Exec ==
  /\ child = "armed"
  /\ child' = IF Gone THEN "zombie" ELSE "running"
  /\ UNCHANGED <<pc, pam, pid, stop, signals, clocks>>

Spawned ==
  /\ pc = "exec"
  /\ child \notin {"forked", "armed"}
  /\ pc' = "pid"
  /\ UNCHANGED <<pam, child, pid, stop, signals, clocks>>

(* Something before the exec, or the exec, fails: the PAM session is closed *)
(* as it is dropped.                                                        *)
SpawnFail ==
  /\ pc = "exec"
  /\ child \in {"forked", "armed"}
  /\ child' = "reaped"
  /\ pc' = "close"
  /\ UNCHANGED <<pam, pid, stop, signals, clocks>>

StorePid ==
  /\ pc = "pid"
  /\ pid' = TRUE
  /\ pc' = "install"
  /\ UNCHANGED <<pam, child, stop, signals, clocks>>

(* Fault: the handlers go in before the pid they forward to.                 *)
InstallFirst ==
  /\ pc = "pid"
  /\ pc' = "check"
  /\ UNCHANGED <<pam, child, pid, stop, signals, clocks>>

Install ==
  /\ pc = "install"
  /\ pc' = "check"
  /\ UNCHANGED <<pam, child, pid, stop, signals, clocks>>

-----------------------------------------------------------------------------
(* wait_for_session and reap_within.                                        *)

(* STOP_REQUESTED is read; then comes the system call.                      *)
Check ==
  /\ pc = "check"
  /\ pc' = IF stop THEN "grace" ELSE "enter"
  /\ UNCHANGED <<pam, child, pid, stop, signals, clocks>>

Enter ==
  /\ pc = "enter"
  /\ pc' = "wait"
  /\ UNCHANGED <<pam, child, pid, stop, signals, clocks>>

Reaped ==
  /\ pc \in {"wait", "grace", "reap"}
  /\ child = "zombie"
  /\ child' = "reaped"
  /\ pc' = "clear"
  /\ UNCHANGED <<pam, pid, stop, signals, clocks>>

(* Fault: a grace as long as the daemon's.                                   *)
GraceSpentLate == waited = ExitGrace

GraceSpent == waited = StopGrace

(* SIGKILL to the session, which is then waited for.                        *)
GraceOver ==
  /\ pc = "grace"
  /\ GraceSpent
  /\ child # "zombie"
  /\ child' = "zombie"
  /\ pc' = "reap"
  /\ UNCHANGED <<pam, pid, stop, signals, clocks>>

Clear ==
  /\ pc = "clear"
  /\ pid' = FALSE
  /\ pc' = "close"
  /\ UNCHANGED <<pam, child, stop, signals, clocks>>

Close ==
  /\ pc = "close"
  /\ pam' = IF pam = "open" THEN "closed" ELSE pam
  /\ pc' = "exited"
  /\ UNCHANGED <<child, pid, stop, signals, clocks>>

-----------------------------------------------------------------------------
(* Signals. The death of the supervisor is SIGTERM to a child that has      *)
(* asked for it.                                                            *)

Die ==
  /\ pc' = "killed"
  /\ child' = IF child \in {"armed", "running"} THEN "told" ELSE child

Ask ==
  /\ daemon = "quiet"
  /\ ~Gone
  /\ daemon' = "asked"
  /\ pending' = TRUE
  /\ UNCHANGED <<pc, pam, child, pid, stop, fate, clocks>>

(* No handler yet: the default action.                                      *)
Terminated ==
  /\ pending /\ pc \in Setup
  /\ Die
  /\ pending' = FALSE
  /\ fate' = "early"
  /\ UNCHANGED <<pam, pid, stop, daemon, clocks>>

(* forward_signal. waitpid is interrupted, the handlers being installed     *)
(* without SA_RESTART; between the check and the call there is nothing to   *)
(* interrupt.                                                               *)
Handle ==
  /\ pending /\ pc \in Served
  /\ stop' = TRUE
  /\ child' = IF pid /\ child = "running" THEN "told" ELSE child
  /\ pc' = IF pc = "wait" THEN "check" ELSE pc
  /\ fate' = IF pc = "enter" THEN "missed" ELSE fate
  /\ pending' = FALSE
  /\ UNCHANGED <<pam, pid, daemon, clocks>>

(* Fault: the daemon stops waiting and leaves it at that.                    *)
DaemonGivesUp ==
  /\ daemon = "asked" /\ asked = ExitGrace
  /\ ~Gone
  /\ daemon' = "killed"
  /\ UNCHANGED <<pc, pam, child, pid, stop, pending, fate, clocks>>

DaemonKills ==
  /\ daemon = "asked" /\ asked = ExitGrace
  /\ ~Gone
  /\ Die
  /\ daemon' = "killed"
  /\ UNCHANGED <<pam, pid, stop, pending, fate, clocks>>

(* The out-of-memory killer, or an administrator.                           *)
KilledOutside ==
  /\ ~Gone
  /\ Die
  /\ fate' = "outside"
  /\ UNCHANGED <<pam, pid, stop, daemon, pending, clocks>>

(* The session ends by itself, or because it was told to.                   *)
SessionEnds ==
  /\ child \in {"running", "told"}
  /\ child' = "zombie"
  /\ UNCHANGED <<pc, pam, pid, stop, signals, clocks>>

Blocked ==
  /\ child # "zombie"
  /\ pc = "wait" \/ (pc = "grace" /\ ~GraceSpent)

Tick ==
  /\ daemon = "asked" /\ ~pending /\ asked < ExitGrace
  /\ Blocked
  /\ asked' = asked + 1
  /\ waited' = IF pc = "grace" THEN waited + 1 ELSE waited
  /\ UNCHANGED <<pc, pam, child, pid, stop, signals>>

-----------------------------------------------------------------------------
Supervise ==
  \/ OpenPam \/ SetupFail \/ Fork \/ Spawned \/ SpawnFail \/ StorePid \/ Install
  \/ Check \/ Enter \/ Reaped \/ GraceOver \/ Clear \/ Close
StartChild == Arm \/ Exec
Deliver == Terminated \/ Handle

Next ==
  \/ Supervise \/ StartChild \/ Deliver
  \/ Ask \/ DaemonKills \/ KilledOutside \/ SessionEnds \/ Tick

Spec == Init /\ [][Next]_vars

(* The kernel runs both processes and delivers signals, time passes and the *)
(* daemon keeps to its deadline. The session owes nobody an exit.           *)
FairSpec ==
  /\ Spec
  /\ WF_vars(Supervise) /\ WF_vars(StartChild) /\ WF_vars(Deliver)
  /\ WF_vars(Tick) /\ WF_vars(DaemonKills)

-----------------------------------------------------------------------------
(* A stop signal the supervisor has seen, its session has been sent: the    *)
(* pid is stored before there is a handler to read it.                      *)
StopForwarded == stop => child # "running"

(* Wherever the supervisor dies, no session runs on without having been     *)
(* told: it asked for the signal, or saw that its parent had gone.          *)
NoOrphan == Gone => child # "running"

(* A PAM session is left open only by a supervisor killed from outside,     *)
(* stopped before it had handlers, or whose signal fell between the check   *)
(* and waitpid; a session that will not stop is no reason.                  *)
LeakExplained == Gone /\ pam = "open" => fate # "none"

(* Told to stop, a supervisor goes, whatever its session does.              *)
StopEnds == daemon = "asked" ~> Gone

(* "A supervisor answers SIGTERM by forwarding it, waiting up to            *)
(* [SESSION_STOP_GRACE] for the session to leave, killing it if it has not, *)
(* and only then closing the PAM session": if SIGTERM is all it got, the    *)
(* PAM session is not left open.                                            *)
SigtermClosesPam ==
  Gone /\ daemon = "asked" /\ fate # "outside" => pam # "open"
=============================================================================
