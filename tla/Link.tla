--------------------------------- MODULE Link ---------------------------------
(***************************************************************************)
(* What a session window knows of its connection and how it gets it back    *)
(* (client/app.rs: Link, on_link_lost, start_attempt, poll_reconnect,      *)
(* exiting), with the Endpoint it reconnects through and the ssh processes *)
(* under it (client/tunnel.rs).  Three threads: the window's event loop,   *)
(* the reconnection worker, and the threads of Connection.                 *)
(*                                                                         *)
(* The process is one whose children outlive it: on Linux the kernel also   *)
(* takes ssh down with the client.                                         *)
(***************************************************************************)
EXTENDS Connection, FiniteSets

CONSTANTS
  Routes,       \* ways to the server to consider: "ssh", "direct"
  RetryBudget,  \* RETRY_BUDGET
  MaxAsks       \* bound: times the user asks for a reconnection

ASSUME LinkAssumption ==
  /\ Routes \subseteq {"ssh", "direct"}
  /\ RetryBudget \in Nat \ {0} /\ MaxAsks \in Nat

Pids == {1, 2}
NoPid == 0

VARIABLES
  route,     \* which Endpoint it is
  cur,       \* the connection the window's Client is
  link,      \* App.link
  over,      \* Link.reason is that the desktop session has ended
  attempts,  \* App.attempts
  due,       \* next_try has come
  attempt,   \* App.attempt is Some
  mail,      \* the answer of the reconnection worker, not yet collected
  ep,        \* who has the Endpoint
  tun,       \* SshEndpoint.tunnel: the ssh it is
  reg,       \* KillState.child
  killed,    \* KillState.killed
  ssh,       \* process -> "none", "starting" or "up"
  wk,        \* the step the reconnection worker is at
  wchild,    \* the ssh it has spawned
  win,       \* the step the event loop is at
  asks       \* times the user may still ask

vars == <<conn, wake, route, cur, link, over, attempts, due, attempt, mail,
          ep, tun, reg, killed, ssh, wk, wchild, win, asks>>

endpoint == <<ep, tun, reg, killed, ssh>>
worker == <<wk, wchild>>
retry == <<attempts, due, attempt>>

TypeOK ==
  /\ ConnTypeOK
  /\ route \in Routes /\ cur \in Conns
  /\ link \in {"up", "lost", "reconnecting", "gone"}
  /\ attempts \in 0..RetryBudget
  /\ {over, due, attempt, killed} \subseteq BOOLEAN
  /\ mail \in {"none", "ok", "fail", "fatal"}
  /\ ep \in {"window", "worker", "mail", "none"}
  /\ {tun, reg, wchild} \subseteq Pids \cup {NoPid}
  /\ ssh \in [Pids -> {"none", "starting", "up"}]
  /\ wk \in {"none", "connect", "spawn", "register", "ready", "shake", "report",
             "failed", "fatal"}
  /\ win \in {"sleep", "drain", "join", "house", "rest", "exit", "wait",
              "drop", "bye", "joinbye", "shut", "ended"}
  /\ asks \in 0..MaxAsks

Init ==
  /\ route \in Routes
  /\ conn = [c \in Conns |-> IF c = 1 THEN Connected ELSE NoConn]
  /\ cur = 1 /\ wake = FALSE
  /\ link = "up" /\ over = FALSE
  /\ attempts = 0 /\ due = FALSE /\ attempt = FALSE /\ mail = "none"
  /\ ep = "window" /\ killed = FALSE
  /\ tun = (IF route = "ssh" THEN 1 ELSE NoPid) /\ reg = tun
  /\ ssh = [p \in Pids |-> IF p = tun THEN "up" ELSE "none"]
  /\ wk = "none" /\ wchild = NoPid
  /\ win = "sleep" /\ asks = MaxAsks

Other == 3 - cur

Stopped(p) == [q \in Pids |-> IF q = p THEN "none" ELSE ssh[q]]
Alive(p) == p # NoPid /\ ssh[p] # "none"

-----------------------------------------------------------------------------
(* The processes.                                                            *)

(* The user answers ssh's prompts; the forward is bound after that.          *)
Authenticates(p) ==
  /\ ssh[p] = "starting"
  /\ ssh' = [ssh EXCEPT ![p] = "up"]
  /\ UNCHANGED <<conn, wake, route, cur, link, over, retry, mail, ep, tun, reg,
                 killed, worker, win, asks>>

(* ssh ends by itself, and with it every connection through it.              *)
CutOff(c) == IF route = "ssh" /\ conn[c].peer \in {"open", "silent"}
             THEN [conn[c] EXCEPT !.peer = "closed"] ELSE conn[c]

SshDies(p) ==
  /\ ssh[p] # "none"
  /\ ssh' = Stopped(p)
  /\ conn' = [c \in Conns |-> IF ssh[p] = "up" THEN CutOff(c) ELSE conn[c]]
  /\ UNCHANGED <<wake, route, cur, link, over, retry, mail, ep, tun, reg, killed,
                 worker, win, asks>>

-----------------------------------------------------------------------------
(* The reconnection worker: Endpoint::connect, then Client::from_stream.     *)

(* An exited ssh is forgotten first; a tunnel that is up is dialled again,   *)
(* and otherwise one is started.                                             *)
Connect ==
  /\ wk = "connect"
  /\ IF route = "direct" \/ Alive(tun)
     THEN wk' \in {"shake", "failed"} /\ UNCHANGED tun
     ELSE wk' = "spawn" /\ tun' = NoPid
  /\ UNCHANGED <<conn, wake, route, cur, link, over, retry, mail, ep, reg, killed,
                 ssh, wchild, win, asks>>

(* spawn_ssh: there may be no ssh to run.                                    *)
Spawn ==
  /\ wk = "spawn"
  /\ \/ wk' = "failed" /\ UNCHANGED <<ssh, wchild>>
     \/ \E p \in Pids \ {reg} :
          /\ wchild' = p /\ ssh' = [ssh EXCEPT ![p] = "starting"]
          /\ wk' = "register"
  /\ UNCHANGED <<conn, wake, route, cur, link, over, retry, mail, ep, tun, reg,
                 killed, win, asks>>

(* Fault: the kill is not remembered.                                        *)
RegisterAnyway ==
  /\ wk = "register"
  /\ reg' = wchild /\ wk' = "ready"
  /\ UNCHANGED <<conn, wake, route, cur, link, over, retry, mail, ep, tun, killed,
                 ssh, wchild, win, asks>>

(* KillHandle::register: a child that arrives after the kill is stopped.     *)
Register ==
  /\ wk = "register"
  /\ IF killed THEN reg' = NoPid /\ ssh' = Stopped(wchild)
               ELSE reg' = wchild /\ UNCHANGED ssh
  /\ wk' = "ready"
  /\ UNCHANGED <<conn, wake, route, cur, link, over, retry, mail, ep, tun, killed,
                 wchild, win, asks>>

(* The readiness loop: ssh has exited, or accepts a connection, which is     *)
(* kept for the client; or the time is up and ssh is stopped.                *)
AwaitReady ==
  /\ wk = "ready"
  /\ \/ /\ ~Alive(wchild)
        /\ wk' = "failed" /\ UNCHANGED <<ssh, tun>>
     \/ /\ ssh[wchild] = "up"
        /\ wk' = "shake" /\ tun' = wchild /\ UNCHANGED ssh
     \/ wk' = "failed" /\ ssh' = Stopped(wchild) /\ UNCHANGED tun
  /\ wchild' = NoPid
  /\ UNCHANGED <<conn, wake, route, cur, link, over, retry, mail, ep, reg, killed,
                 win, asks>>

(* from_stream: a client whose threads run from here on, a rejection, or     *)
(* anything else, the timeout and an unexpected message among it.            *)
Handshake ==
  /\ wk = "shake"
  /\ \/ /\ route = "direct" \/ Alive(tun)
        /\ wk' = "report" /\ conn' = [conn EXCEPT ![Other] = Connected]
     \/ wk' \in {"failed", "fatal"} /\ UNCHANGED conn
  /\ UNCHANGED <<wake, route, cur, link, over, retry, mail, endpoint, wchild, win,
                 asks>>

Answer == CASE wk = "report" -> "ok" [] wk = "failed" -> "fail" [] wk = "fatal" -> "fatal"

(* The answer and the endpoint go to the window, which is woken.  Where it   *)
(* no longer listens both are dropped: the client, then the tunnel.          *)
Report ==
  /\ wk \in {"report", "failed", "fatal"}
  /\ wk' = "none"
  /\ IF attempt
     THEN /\ mail' = Answer /\ ep' = "mail" /\ wake' = TRUE
          /\ UNCHANGED <<conn, tun, ssh>>
     ELSE /\ ep' = "none" /\ tun' = NoPid /\ ssh' = Stopped(tun)
          /\ conn' = [conn EXCEPT ![Other] = Closed(@)]
          /\ UNCHANGED <<mail, wake>>
  /\ UNCHANGED <<route, cur, link, over, retry, reg, killed, wchild, win, asks>>

Worker == Connect \/ Spawn \/ Register \/ AwaitReady \/ Handshake \/ Report

-----------------------------------------------------------------------------
(* The link, as the window sees it.                                          *)

(* classify: what no reconnection mends.                                     *)
Fatal == {"evict", "ended", "protocol", "fatal"}

(* on_link_lost: the old connection is let go of, and the first attempt is   *)
(* scheduled.                                                                *)
LoseLink(why, r) ==
  /\ conn' = [conn EXCEPT ![cur] = Closed(r)]
  /\ over' = (why = "ended")
  /\ attempts' = 0 /\ due' = FALSE
  /\ link' = IF why \in Fatal \/ ep # "window" THEN "gone" ELSE "reconnecting"
  /\ win' = "join"

(* drain_network: messages one by one, until there are none or the budget of *)
(* 4 ms is spent.                                                            *)
Drain ==
  /\ win = "drain"
  /\ \/ /\ link # "up"
        /\ win' = "house" /\ UNCHANGED <<conn, link, over, attempts, due>>
     \/ /\ link = "up"
        /\ \E p \in Polled(conn[cur]) :
             \/ p.what \in Endings /\ LoseLink(p.what, p.conn)
             \/ /\ p.what \notin Endings
                /\ conn' = [conn EXCEPT ![cur] = p.conn]
                /\ win' \in {"house"} \cup
                     IF p.what = "event" \/ HasPending(p.conn) THEN {"drain"} ELSE {}
                /\ UNCHANGED <<link, over, attempts, due>>
  /\ UNCHANGED <<wake, route, cur, attempt, mail, endpoint, worker, asks>>

(* abandon has collected the threads, and what is left of the connection is  *)
(* not looked at again; a desktop that ended closes the window.              *)
JoinOver ==
  /\ win = "join" /\ Joined(conn[cur])
  /\ conn' = [conn EXCEPT ![cur] = NoConn]
  /\ win' = IF over THEN "exit" ELSE "house"
  /\ UNCHANGED <<wake, route, cur, link, over, retry, mail, endpoint, worker, asks>>

(* next_try comes.                                                           *)
Timer ==
  /\ link = "reconnecting" /\ ~attempt /\ ~due
  /\ due' = TRUE
  /\ UNCHANGED <<conn, wake, route, cur, link, over, attempts, attempt, mail,
                 endpoint, worker, win, asks>>

(* start_attempt: the endpoint goes to a thread of its own, if one can be    *)
(* had; with the thread the way back is gone.                                *)
StartAttempt(spent) ==
  \/ /\ ep' = "worker" /\ wk' = "connect" /\ attempt' = TRUE
     /\ link' = "reconnecting" /\ attempts' = spent + 1 /\ due' = FALSE
     /\ UNCHANGED <<tun, ssh>>
  \/ /\ ep' = "none" /\ link' = "gone"
     /\ tun' = NoPid /\ ssh' = Stopped(tun)
     /\ attempts' = spent + 1 /\ due' = FALSE
     /\ UNCHANGED <<attempt, wk>>

(* attempt_failed.                                                           *)
AttemptFailed(why) ==
  /\ link' = CASE why \in Fatal -> "gone"
               [] attempts >= RetryBudget -> "lost"
               [] OTHER -> "reconnecting"
  /\ UNCHANGED <<conn, cur, attempts>>

(* adopt: the new client replaces the one that was abandoned, and is told    *)
(* what is up and where the pointer is (resync_input).                       *)
Adopt ==
  /\ link' = "up" /\ attempts' = 0
  /\ cur' = Other
  /\ conn' = [conn EXCEPT ![Other] = Sent(@)]

(* poll_reconnect, within housekeeping: collect the answer, or start the     *)
(* attempt that is due.                                                      *)
House ==
  /\ win = "house"
  /\ win' = "rest"
  /\ \/ /\ attempt /\ mail # "none"
        /\ attempt' = FALSE /\ mail' = "none" /\ ep' = "window" /\ due' = FALSE
        /\ IF mail = "ok" THEN Adopt ELSE AttemptFailed(mail)
        /\ UNCHANGED <<tun, ssh, wk>>
     \/ /\ ~attempt /\ link = "reconnecting" /\ due
        /\ StartAttempt(attempts)
        /\ UNCHANGED <<conn, cur, mail>>
     \/ /\ mail = "none" /\ (attempt \/ link # "reconnecting" \/ ~due)
        /\ UNCHANGED <<conn, cur, link, retry, mail, ep, tun, ssh, wk>>
  /\ UNCHANGED <<wake, route, over, reg, killed, wchild, asks>>

(* Fault: the loop always waits for a wake-up or the timer.                  *)
RestAlways ==
  /\ win = "rest"
  /\ win' = "sleep"
  /\ UNCHANGED <<conn, wake, route, cur, link, over, retry, mail, endpoint, worker,
                 asks>>

(* next_wake: messages that are queued are gone on with at once.             *)
Rest ==
  /\ win = "rest"
  /\ win' = IF link = "up" /\ HasPending(conn[cur]) THEN "drain" ELSE "sleep"
  /\ UNCHANGED <<conn, wake, route, cur, link, over, retry, mail, endpoint, worker,
                 asks>>

(* user_event, or the 250 ms of the idle timer are over.                     *)
WakeUp ==
  /\ win = "sleep"
  /\ wake' = FALSE /\ win' = "drain"
  /\ UNCHANGED <<conn, route, cur, link, over, retry, mail, endpoint, worker, asks>>

(* The user types, or a ping is due: something is sent if there is a link.   *)
UserInput ==
  /\ win = "sleep" /\ link = "up"
  /\ conn' = [conn EXCEPT ![cur] = Sent(@)]
  /\ win' = "drain"
  /\ UNCHANGED <<wake, route, cur, link, over, retry, mail, endpoint, worker, asks>>

(* reconnect_now: the budget starts again.                                   *)
ReconnectNow ==
  /\ win = "sleep" /\ asks > 0
  /\ ~attempt /\ link \in {"lost", "reconnecting"}
  /\ asks' = asks - 1
  /\ StartAttempt(0)
  /\ win' = "drain"
  /\ UNCHANGED <<conn, wake, route, cur, over, mail, reg, killed, wchild>>

-----------------------------------------------------------------------------
(* Leaving: App::exiting.                                                    *)

CloseWindow ==
  /\ win = "sleep"
  /\ win' = "exit"
  /\ UNCHANGED <<conn, wake, route, cur, link, over, retry, mail, endpoint, worker,
                 asks>>

(* KillHandle::kill, if a worker is out with the endpoint.                   *)
Exit ==
  /\ win = "exit"
  /\ IF attempt
     THEN /\ killed' = TRUE /\ reg' = NoPid /\ ssh' = Stopped(reg)
          /\ win' = "wait"
     ELSE win' = "bye" /\ UNCHANGED <<killed, reg, ssh>>
  /\ UNCHANGED <<conn, wake, route, cur, link, over, retry, mail, ep, tun, worker,
                 asks>>

(* 250 ms are more than the steps of the worker that wait for nobody take.   *)
Prompt == wk \in {"spawn", "register"} \/ (wk = "connect" /\ route = "ssh")

(* The worker's answer, dropped with all it carries, or the end of the wait. *)
WaitForWorker ==
  /\ win = "wait"
  /\ \/ /\ mail # "none"
        /\ mail' = "none" /\ ep' = "none"
        /\ conn' = [conn EXCEPT ![Other] = Closed(@)]
        /\ tun' = NoPid /\ ssh' = Stopped(tun)
        /\ win' = "drop"
     \/ /\ mail = "none" /\ ~Prompt
        /\ win' = "bye"
        /\ UNCHANGED <<conn, mail, ep, tun, ssh>>
  /\ attempt' = FALSE
  /\ UNCHANGED <<wake, route, cur, link, over, attempts, due, reg, killed, worker,
                 asks>>

DropOver ==
  /\ win = "drop" /\ Joined(conn[Other])
  /\ win' = "bye"
  /\ UNCHANGED <<conn, wake, route, cur, link, over, retry, mail, endpoint, worker,
                 asks>>

(* A link that is up is told goodbye and closed.                             *)
SayGoodbye ==
  /\ win = "bye"
  /\ IF link = "up" THEN conn' = [conn EXCEPT ![cur] = Closed(@)] /\ win' = "joinbye"
                    ELSE win' = "shut" /\ UNCHANGED conn
  /\ UNCHANGED <<wake, route, cur, link, over, retry, mail, endpoint, worker, asks>>

ByeOver ==
  /\ win = "joinbye" /\ Joined(conn[cur])
  /\ win' = "shut"
  /\ UNCHANGED <<conn, wake, route, cur, link, over, retry, mail, endpoint, worker,
                 asks>>

(* Endpoint::close, if the window has it; the process ends and takes its     *)
(* threads with it.                                                          *)
EndProcess ==
  /\ win = "shut"
  /\ IF ep = "window" THEN tun' = NoPid /\ ssh' = Stopped(tun) ELSE UNCHANGED <<tun, ssh>>
  /\ ep' = "none" /\ wk' = "none" /\ wchild' = NoPid
  /\ conn' = [c \in Conns |-> NoConn]
  /\ win' = "ended"
  /\ UNCHANGED <<wake, route, cur, link, over, retry, mail, reg, killed, asks>>

Window ==
  \/ Drain \/ JoinOver \/ House \/ Rest \/ WakeUp
  \/ Exit \/ WaitForWorker \/ DropOver \/ SayGoodbye \/ ByeOver \/ EndProcess

User == UserInput \/ ReconnectNow \/ CloseWindow

ConnThreads(c) ==
  /\ Reader(c) \/ Write(c) \/ PathDies(c)
  /\ UNCHANGED <<route, cur, link, over, retry, mail, endpoint, worker, win, asks>>

Next ==
  \/ \E p \in Pids : Authenticates(p) \/ SshDies(p)
  \/ \E c \in Conns : ConnThreads(c)
  \/ Worker \/ Timer \/ Window \/ User

Spec == Init /\ [][Next]_vars

(* The threads run, time passes, and the waits of the worker are bounded:    *)
(* by a timeout, or by the sockets'.                                         *)
ReaderRuns(c) ==
  /\ Reader(c)
  /\ UNCHANGED <<route, cur, link, over, retry, mail, endpoint, worker, win, asks>>

FairSpec ==
  /\ Spec
  /\ WF_vars(Window) /\ WF_vars(Worker) /\ WF_vars(Timer)
  /\ \A c \in Conns : WF_vars(ReaderRuns(c))

-----------------------------------------------------------------------------
(* Properties.                                                               *)

(* Every ssh that runs is one somebody will stop: the endpoint's tunnel or   *)
(* the one the worker is starting; and none is left when the process has     *)
(* ended, whenever the window was closed (KillHandle, Endpoint::close).      *)
SshOwned ==
  /\ \A p \in Pids : ssh[p] # "none" => p \in {tun, wchild}
  /\ win = "ended" => \A p \in Pids : ssh[p] = "none"

(* The loop goes to sleep on messages only with a wake-up posted, or one     *)
(* that the reader is about to post.                                         *)
NoSleepOnMessages ==
  win = "sleep" /\ link = "up" /\ HasPending(conn[cur])
    => wake \/ conn[cur].rd \in {"wake", "final"}

(* Nobody waits forever: not the reader for room, not the window for the     *)
(* reader, not the user for a reconnection that neither succeeds nor gives   *)
(* up.                                                                       *)
NobodyWaitsForever ==
  /\ \A c \in Conns : conn[c].rd = "admit" ~> conn[c].rd # "admit"
  /\ win \in {"join", "drop", "joinbye"} ~> win \notin {"join", "drop", "joinbye"}
  /\ link = "reconnecting" ~> link # "reconnecting" \/ win = "ended"

(* A window whose client was replaced leaves the session to the other        *)
(* device: once the server's word is in its hands, the link is not one it    *)
(* tries to get back.                                                        *)
ReplacedStaysReplaced ==
  [][ link = "up" /\ link' # "up" /\ "evict" \in Range(conn[cur].events)
        => link' = "gone" ]_vars

=============================================================================
