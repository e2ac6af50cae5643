---------------------------- MODULE SessionManager ----------------------------
(***************************************************************************)
(* lynxrdpd's core: the accept loop, the pool of handoff workers, and the  *)
(* table of sessions they share (crates/server/src/daemon/manager.rs and   *)
(* the main loop of bin/lynxrdpd.rs), together with what it acts on: the   *)
(* control sockets in the sessions directory and the supervisor and        *)
(* session processes, which outlive the daemon.                            *)
(*                                                                         *)
(* A step is what one thread does between two points where another thread  *)
(* can be seen: one lock section, one system call, one wait.               *)
(***************************************************************************)
EXTENDS Integers, Sequences, FiniteSets

CONSTANTS
  Uids,         \* users
  Conns,        \* client connections, all that will ever arrive
  UidOf,        \* the user each connection is identified as
  Workers,      \* HANDOFF_WORKERS threads
  Main,         \* the accept loop's thread
  None,
  QueueCap,     \* HANDOFF_QUEUE
  PerUid,       \* PER_UID_IN_FLIGHT
  MaxRestarts   \* bound on how often the daemon is started again

ASSUME PoolAssumption ==
  /\ UidOf \in [Conns -> Uids]
  /\ IsFiniteSet(Conns)
  /\ None \notin Conns
  /\ Main \notin Workers
  /\ QueueCap \in Nat
  /\ PerUid \in Nat \ {0}
  /\ MaxRestarts \in Nat

(***************************************************************************)
(* A session is named by the connection it was spawned for, and a record   *)
(* by the connection that inserted it: each connection spawns at most one  *)
(* session and inserts at most one record, so both are unique, as process  *)
(* ids and Instant::now() are in the code.                                 *)
(***************************************************************************)
VARIABLES
  pc,        \* where each thread is
  cur,       \* the job a worker is running
  victim,    \* the session a thread is terminating, or whose name it unlinks
  ended,     \* records a thread took out of the table because their supervisor exited
  copies,    \* adopted records a thread copied out, to look up in /proc/net/unix
  queue,     \* the bounded channel of jobs
  inFlight,  \* Admission: places held by each uid
  busy,      \* Starts: uids whose start latch is taken
  sessions,  \* Inner.sessions, a set of records with at most one per uid
  stopping,  \* SessionManager::stopping
  conn,      \* what became of each client
  name,      \* <uid>.sock: the session whose listener was bound there
  sess,      \* the session's listener and process
  sup,       \* the session's supervisor
  mine,      \* sessions this incarnation of the daemon spawned
  served,    \* sessions this incarnation has finished handing a client to
  restarts

threadVars == <<cur, victim, ended, copies>>
poolVars   == <<queue, inFlight>>
procVars   == <<name, sess, sup>>
histVars   == <<mine, served>>
lifeVars   == <<stopping, restarts>>
vars == <<pc, threadVars, poolVars, busy, sessions, conn, procVars, histVars, lifeVars>>

Threads == Workers \cup {Main}
SessionRecord == [uid : Uids, started : Conns, owned : BOOLEAN]

WorkerPC == {"recv", "latch", "scan", "unlink", "unlinking", "probed", "connect",
             "await", "lookup", "owns", "take", "term", "clear", "bind", "spawn",
             "insert", "cold", "release", "answer", "exited"}
MainPC == {"loop", "unlink", "unlinking", "probed", "join", "stopwait", "stopunlink", "down"}

(* Where a worker holds its uid's start latch: `_starting` in handoff_with. *)
Latched == {"scan", "unlink", "unlinking", "probed", "connect", "await", "lookup", "owns",
            "take", "term", "clear", "bind", "spawn", "insert", "cold", "release"}

PcOK ==
  /\ pc \in [Threads -> WorkerPC \cup MainPC]
  /\ \A w \in Workers : pc[w] \in WorkerPC
  /\ pc[Main] \in MainPC

ThreadsOK ==
  /\ cur \in [Workers -> Conns \cup {None}]
  /\ victim \in [Threads -> Conns \cup {None}]
  /\ ended \in [Threads -> SUBSET SessionRecord]
  /\ copies \in [Threads -> SUBSET SessionRecord]

TablesOK ==
  /\ queue \in Seq(Conns)
  /\ inFlight \in [Uids -> Int]
  /\ busy \subseteq Uids
  /\ sessions \subseteq SessionRecord
  /\ stopping \in BOOLEAN
  /\ conn \in [Conns -> {"new", "pending", "handed", "rejected", "closed"}]
  /\ restarts \in 0..MaxRestarts

ProcessesOK ==
  /\ name \in [Uids -> Conns \cup {None}]
  /\ sess \in [Conns -> {"none", "bound", "live", "dead"}]
  /\ sup \in [Conns -> {"none", "running", "termed", "exited"}]
  /\ mine \subseteq Conns
  /\ served \subseteq Conns

TypeOK == PcOK /\ ThreadsOK /\ TablesOK /\ ProcessesOK

Init ==
  /\ pc = [t \in Threads |-> IF t = Main THEN "loop" ELSE "recv"]
  /\ cur = [w \in Workers |-> None]
  /\ victim = [t \in Threads |-> None]
  /\ ended = [t \in Threads |-> {}]
  /\ copies = [t \in Threads |-> {}]
  /\ queue = <<>>
  /\ inFlight = [u \in Uids |-> 0]
  /\ busy = {}
  /\ sessions = {}
  /\ stopping = FALSE
  /\ conn = [c \in Conns |-> "new"]
  /\ name = [u \in Uids |-> None]
  /\ sess = [c \in Conns |-> "none"]
  /\ sup = [c \in Conns |-> "none"]
  /\ mine = {}
  /\ served = {}
  /\ restarts = 0

Goto(t, l) == pc' = [pc EXCEPT ![t] = l]
UserOf(w) == UidOf[cur[w]]

Records(u) == {r \in sessions : r.uid = u}
OwnsSession(u) == \E r \in Records(u) : r.owned
Record(u, c, own) == [uid |-> u, started |-> c, owned |-> own]

(* A connect to the name reaches a listener that some process still holds. *)
Listening(s) == sess[s] \in {"bound", "live"}

(* socket_is_bound: the kernel lists the path for as long as any socket that *)
(* was bound to it is open, unlinked since or not.                            *)
PathBound(u) == \E s \in Conns : UidOf[s] = u /\ Listening(s)

(* A desktop nobody has told to stop: the supervisor has neither been sent *)
(* SIGTERM nor died, and death of the supervisor is SIGTERM to the session. *)
Kept(s) == sess[s] = "live" /\ sup[s] = "running"

(* SIGTERM to the supervisors of the sessions in S. *)
Sigterm(S) == sup' = [s \in Conns |-> IF s \in S /\ sup[s] = "running" THEN "termed" ELSE sup[s]]
(* ... and SIGKILL, after which they have been waited for. *)
Sigkill(S) == sup' = [s \in Conns |-> IF s \in S THEN "exited" ELSE sup[s]]

-----------------------------------------------------------------------------
(* The accept loop: HandoffPool::submit.                                    *)

HasPlace(c) == inFlight[UidOf[c]] < PerUid /\ Len(queue) < QueueCap

Submit(c) ==
  /\ pc[Main] = "loop"
  /\ conn[c] = "new"
  /\ HasPlace(c)
  /\ conn' = [conn EXCEPT ![c] = "pending"]
  /\ queue' = Append(queue, c)
  /\ inFlight' = [inFlight EXCEPT ![UidOf[c]] = @ + 1]
  /\ UNCHANGED <<pc, threadVars, busy, sessions, procVars, histVars, lifeVars>>

(* At the uid's cap, or the channel is full and the place just taken is     *)
(* given back with the job.                                                 *)
Refuse(c) ==
  /\ pc[Main] = "loop"
  /\ conn[c] = "new"
  /\ ~HasPlace(c)
  /\ conn' = [conn EXCEPT ![c] = "rejected"]
  /\ UNCHANGED <<pc, threadVars, poolVars, busy, sessions, procVars, histVars, lifeVars>>

-----------------------------------------------------------------------------
(* SessionManager::reap, run by the accept loop and, holding its own uid's  *)
(* latch, by every worker.                                                  *)

AfterReap(t) == IF t = Main THEN "loop" ELSE "connect"

(* The first lock section: forget our sessions whose supervisor has exited, *)
(* and copy the adopted records if a probe is due.                          *)
Scan(t) ==
  /\ pc[t] = (IF t = Main THEN "loop" ELSE "scan")
  /\ LET gone == {r \in sessions : r.owned /\ sup[r.started] = "exited"}
         adopted == {r \in sessions : ~r.owned}
     IN \E probe \in {{}, adopted} :
          /\ sessions' = sessions \ gone
          /\ ended' = [ended EXCEPT ![t] = gone]
          /\ copies' = [copies EXCEPT ![t] = probe]
          /\ Goto(t, IF gone \cup probe = {} THEN AfterReap(t) ELSE "unlink")
  /\ UNCHANGED <<cur, victim, poolVars, busy, conn, procVars, histVars, lifeVars>>

(* try_acquire refuses, or a newer session is on record: the name stays.    *)
SkipUnlink(t) ==
  /\ pc[t] = "unlink"
  /\ \E r \in ended[t] :
       /\ r.uid \in busy \/ Records(r.uid) # {}
       /\ ended' = [ended EXCEPT ![t] = @ \ {r}]
  /\ UNCHANGED <<pc, cur, victim, copies, poolVars, busy, sessions, conn, procVars,
                 histVars, lifeVars>>

(* Fault: the map is not looked at again under the latch.                    *)
ClaimUnlinkUnchecked(t) ==
  /\ pc[t] = "unlink"
  /\ \E r \in ended[t] :
       /\ r.uid \notin busy
       /\ busy' = busy \cup {r.uid}
       /\ victim' = [victim EXCEPT ![t] = r.started]
       /\ ended' = [ended EXCEPT ![t] = @ \ {r}]
  /\ Goto(t, "unlinking")
  /\ UNCHANGED <<cur, copies, poolVars, sessions, conn, procVars, histVars, lifeVars>>

ClaimUnlink(t) ==
  /\ pc[t] = "unlink"
  /\ \E r \in ended[t] :
       /\ r.uid \notin busy
       /\ Records(r.uid) = {}
       /\ busy' = busy \cup {r.uid}
       /\ victim' = [victim EXCEPT ![t] = r.started]
       /\ ended' = [ended EXCEPT ![t] = @ \ {r}]
  /\ Goto(t, "unlinking")
  /\ UNCHANGED <<cur, copies, poolVars, sessions, conn, procVars, histVars, lifeVars>>

Unlink(t) ==
  /\ pc[t] = "unlinking"
  /\ name' = [name EXCEPT ![UidOf[victim[t]]] = None]
  /\ busy' = busy \ {UidOf[victim[t]]}
  /\ victim' = [victim EXCEPT ![t] = None]
  /\ Goto(t, "unlink")
  /\ UNCHANGED <<cur, ended, copies, poolVars, sessions, conn, sess, sup, histVars, lifeVars>>

(* probe_adopted, with no lock held: /proc/net/unix is read, or cannot be.  *)
ProbeRead(t) ==
  /\ pc[t] = "unlink"
  /\ ended[t] = {}
  /\ \E gone \in {{}, {r \in copies[t] : ~PathBound(r.uid)}} :
       /\ copies' = [copies EXCEPT ![t] = gone]
       /\ Goto(t, IF gone = {} THEN AfterReap(t) ELSE "probed")
  /\ UNCHANGED <<cur, victim, ended, poolVars, busy, sessions, conn, procVars, histVars, lifeVars>>

(* Fault: the record is removed by uid, without comparing `started`.         *)
ProbeDropByUid(t) ==
  /\ pc[t] = "probed"
  /\ sessions' = {r \in sessions : ~ \E g \in copies[t] : g.uid = r.uid}
  /\ copies' = [copies EXCEPT ![t] = {}]
  /\ Goto(t, AfterReap(t))
  /\ UNCHANGED <<cur, victim, ended, poolVars, busy, conn, procVars, histVars, lifeVars>>

(* ... and the lock taken again: only the record that was copied goes.      *)
ProbeDrop(t) ==
  /\ pc[t] = "probed"
  /\ sessions' = {r \in sessions :
                    ~ \E g \in copies[t] : g.uid = r.uid /\ g.started = r.started}
  /\ copies' = [copies EXCEPT ![t] = {}]
  /\ Goto(t, AfterReap(t))
  /\ UNCHANGED <<cur, victim, ended, poolVars, busy, conn, procVars, histVars, lifeVars>>

Reap(t) ==
  \/ Scan(t) \/ SkipUnlink(t) \/ ClaimUnlink(t) \/ Unlink(t) \/ ProbeRead(t) \/ ProbeDrop(t)

-----------------------------------------------------------------------------
(* A worker: `worker`, `run_job` and SessionManager::handoff_with.          *)

(* Fault: a job dropped at shutdown keeps its place.                         *)
RecvLosingPlace(w) ==
  /\ pc[w] = "recv"
  /\ queue # <<>>
  /\ queue' = Tail(queue)
  /\ LET c == Head(queue)
     IN IF stopping
        THEN conn' = [conn EXCEPT ![c] = "closed"] /\ UNCHANGED <<pc, cur>>
        ELSE cur' = [cur EXCEPT ![w] = c] /\ Goto(w, "latch") /\ UNCHANGED conn
  /\ UNCHANGED <<victim, ended, copies, inFlight, busy, sessions, procVars, histVars, lifeVars>>

(* A job received once the daemon is stopping is dropped, and its place with *)
(* it.                                                                      *)
Recv(w) ==
  /\ pc[w] = "recv"
  /\ queue # <<>>
  /\ queue' = Tail(queue)
  /\ LET c == Head(queue)
     IN IF stopping
        THEN /\ conn' = [conn EXCEPT ![c] = "closed"]
             /\ inFlight' = [inFlight EXCEPT ![UidOf[c]] = @ - 1]
             /\ UNCHANGED <<pc, cur>>
        ELSE /\ cur' = [cur EXCEPT ![w] = c]
             /\ Goto(w, "latch")
             /\ UNCHANGED <<conn, inFlight>>
  /\ UNCHANGED <<victim, ended, copies, busy, sessions, procVars, histVars, lifeVars>>

(* The sender is gone and the channel is empty.                             *)
WorkerExit(w) ==
  /\ pc[w] = "recv"
  /\ queue = <<>>
  /\ pc[Main] = "join"
  /\ Goto(w, "exited")
  /\ UNCHANGED <<threadVars, poolVars, busy, sessions, conn, procVars, histVars, lifeVars>>

(* Fault: the latch is not waited for.                                       *)
AcquireAnyway(w) ==
  /\ pc[w] = "latch"
  /\ busy' = busy \cup {UserOf(w)}
  /\ Goto(w, IF stopping THEN "release" ELSE "scan")
  /\ UNCHANGED <<threadVars, poolVars, sessions, conn, procVars, histVars, lifeVars>>

(* Starts::acquire, and the one look at is_stopping after it.               *)
Acquire(w) ==
  /\ pc[w] = "latch"
  /\ UserOf(w) \notin busy
  /\ busy' = busy \cup {UserOf(w)}
  /\ Goto(w, IF stopping THEN "release" ELSE "scan")
  /\ UNCHANGED <<threadVars, poolVars, sessions, conn, procVars, histVars, lifeVars>>

(* Fault: every error of the connect is read as Dead.                        *)
ConnectAllDead(w) ==
  /\ pc[w] = "connect"
  /\ LET s == name[UserOf(w)]
     IN \/ s = None /\ Goto(w, "bind")
        \/ s # None /\ Listening(s) /\ Goto(w, "await")
        \/ s # None /\ Goto(w, "take")
  /\ UNCHANGED <<threadVars, poolVars, busy, sessions, conn, procVars, histVars, lifeVars>>

(* try_handoff's connect. No file: spawn. A listener: wait for its reply.   *)
(* ECONNREFUSED: Dead, replace it. Any other error says nothing about       *)
(* whether a session is there and counts as Unusable.                       *)
Connect(w) ==
  /\ pc[w] = "connect"
  /\ LET s == name[UserOf(w)]
     IN \/ s = None /\ Goto(w, "bind")
        \/ s # None /\ Listening(s) /\ Goto(w, "await")
        \/ s # None /\ ~Listening(s) /\ Goto(w, "take")
        \/ s # None /\ Goto(w, "owns")
  /\ UNCHANGED <<threadVars, poolVars, busy, sessions, conn, procVars, histVars, lifeVars>>

(* The session took the descriptor and answered Accepted.                   *)
AwaitAccept(w) ==
  /\ pc[w] = "await"
  /\ sess[name[UserOf(w)]] = "live"
  /\ conn' = [conn EXCEPT ![cur[w]] = "handed"]
  /\ Goto(w, "lookup")
  /\ UNCHANGED <<threadVars, poolVars, busy, sessions, procVars, histVars, lifeVars>>

(* Timed out, refused, or the connection closed unanswered: Unusable.       *)
AwaitFail(w) ==
  /\ pc[w] = "await"
  /\ Goto(w, "owns")
  /\ UNCHANGED <<threadVars, poolVars, busy, sessions, conn, procVars, histVars, lifeVars>>

(* Fault: an adopted record has no identity of its own.                     *)
LookupNoIdentity(w) ==
  /\ pc[w] = "lookup"
  /\ sessions' = IF Records(UserOf(w)) # {} THEN sessions
                 ELSE sessions \cup {Record(UserOf(w), None, FALSE)}
  /\ served' = served \cup {name[UserOf(w)]}
  /\ Goto(w, "release")
  /\ UNCHANGED <<threadVars, poolVars, busy, conn, procVars, mine, lifeVars>>

(* Fault: a session not on record is not adopted.                            *)
LookupOnly(w) ==
  /\ pc[w] = "lookup"
  /\ served' = served \cup {name[UserOf(w)]}
  /\ Goto(w, "release")
  /\ UNCHANGED <<threadVars, poolVars, busy, sessions, conn, procVars, mine, lifeVars>>

(* Look the record up or adopt the session, under one lock.                 *)
Lookup(w) ==
  /\ pc[w] = "lookup"
  /\ sessions' = IF Records(UserOf(w)) # {} THEN sessions
                 ELSE sessions \cup {Record(UserOf(w), cur[w], FALSE)}
  /\ served' = served \cup {name[UserOf(w)]}
  /\ Goto(w, "release")
  /\ UNCHANGED <<threadVars, poolVars, busy, conn, procVars, mine, lifeVars>>

(* Fault: an unusable session is replaced whoever started it.                *)
OwnsCheckAlways(w) ==
  /\ pc[w] = "owns"
  /\ Goto(w, "take")
  /\ UNCHANGED <<threadVars, poolVars, busy, sessions, conn, procVars, histVars, lifeVars>>

(* Unusable, and not a session we can end: the client is refused and the    *)
(* session left as it is.                                                   *)
OwnsCheck(w) ==
  /\ pc[w] = "owns"
  /\ Goto(w, IF OwnsSession(UserOf(w)) THEN "take" ELSE "release")
  /\ UNCHANGED <<threadVars, poolVars, busy, sessions, conn, procVars, histVars, lifeVars>>

(* Take the record out and signal its supervisor. The same three steps end  *)
(* an unusable session and one that never accepted its first client.        *)
Take(w) ==
  /\ pc[w] = "take"
  /\ LET own == {r.started : r \in {q \in Records(UserOf(w)) : q.owned}}
     IN /\ sessions' = sessions \ Records(UserOf(w))
        /\ Sigterm(own)
        /\ \/ own = {} /\ Goto(w, "clear") /\ UNCHANGED victim
           \/ \E s \in own : /\ victim' = [victim EXCEPT ![w] = s]
                             /\ Goto(w, "term")
  /\ UNCHANGED <<cur, ended, copies, poolVars, busy, conn, name, sess, histVars, lifeVars>>

(* terminate: the supervisor exits within SUPERVISOR_EXIT_GRACE ...          *)
TermWait(w) ==
  /\ pc[w] = "term"
  /\ sup[victim[w]] = "exited"
  /\ victim' = [victim EXCEPT ![w] = None]
  /\ Goto(w, "clear")
  /\ UNCHANGED <<cur, ended, copies, poolVars, busy, sessions, conn, procVars, histVars, lifeVars>>

(* Fault: only a supervisor whose session has gone is ever given up on.      *)
TermKillPolite(w) ==
  /\ pc[w] = "term"
  /\ sess[victim[w]] = "dead"
  /\ Sigkill({victim[w]})
  /\ victim' = [victim EXCEPT ![w] = None]
  /\ Goto(w, "clear")
  /\ UNCHANGED <<cur, ended, copies, poolVars, busy, sessions, conn, name, sess, histVars, lifeVars>>

(* ... or is killed.                                                        *)
TermKill(w) ==
  /\ pc[w] = "term"
  /\ sup[victim[w]] # "exited"
  /\ Sigkill({victim[w]})
  /\ victim' = [victim EXCEPT ![w] = None]
  /\ Goto(w, "clear")
  /\ UNCHANGED <<cur, ended, copies, poolVars, busy, sessions, conn, name, sess, histVars, lifeVars>>

(* Unlink the name. After a failed first handoff that is the end; after an  *)
(* unusable session it is where a new one starts.                           *)
Clear(w) ==
  /\ pc[w] = "clear"
  /\ name' = [name EXCEPT ![UserOf(w)] = None]
  /\ Goto(w, IF sess[cur[w]] = "none" THEN "bind" ELSE "release")
  /\ UNCHANGED <<threadVars, poolVars, busy, sessions, conn, sess, sup, histVars, lifeVars>>

(* spawn: unlink and bind the name ...                                      *)
Bind(w) ==
  /\ pc[w] = "bind"
  /\ \/ /\ name' = [name EXCEPT ![UserOf(w)] = cur[w]]
        /\ sess' = [sess EXCEPT ![cur[w]] = "bound"]
        /\ Goto(w, "spawn")
     \/ /\ name' = [name EXCEPT ![UserOf(w)] = None]
        /\ Goto(w, "release")
        /\ UNCHANGED sess
  /\ UNCHANGED <<threadVars, poolVars, busy, sessions, conn, sup, histVars, lifeVars>>

(* ... and start the supervisor, which inherits the listener. On an error   *)
(* the daemon's copy of the listener closes and its file stays.             *)
Spawn(w) ==
  /\ pc[w] = "spawn"
  /\ sess' = [sess EXCEPT ![cur[w]] = "live"]
  /\ sup' = [sup EXCEPT ![cur[w]] = "running"]
  /\ mine' = mine \cup {cur[w]}
  /\ Goto(w, "insert")
  /\ UNCHANGED <<threadVars, poolVars, busy, sessions, conn, name, served, lifeVars>>

SpawnFail(w) ==
  /\ pc[w] = "spawn"
  /\ sess' = [sess EXCEPT ![cur[w]] = "dead"]
  /\ Goto(w, "release")
  /\ UNCHANGED <<threadVars, poolVars, busy, sessions, conn, name, sup, histVars, lifeVars>>

Insert(w) ==
  /\ pc[w] = "insert"
  /\ sessions' = (sessions \ Records(UserOf(w))) \cup {Record(UserOf(w), cur[w], TRUE)}
  /\ Goto(w, "cold")
  /\ UNCHANGED <<threadVars, poolVars, busy, conn, procVars, histVars, lifeVars>>

(* The first handoff to the new session.                                    *)
ColdAccept(w) ==
  /\ pc[w] = "cold"
  /\ sess[name[UserOf(w)]] = "live"
  /\ conn' = [conn EXCEPT ![cur[w]] = "handed"]
  /\ served' = served \cup {name[UserOf(w)]}
  /\ Goto(w, "release")
  /\ UNCHANGED <<threadVars, poolVars, busy, sessions, procVars, mine, lifeVars>>

ColdFail(w) ==
  /\ pc[w] = "cold"
  /\ Goto(w, "take")
  /\ UNCHANGED <<threadVars, poolVars, busy, sessions, conn, procVars, histVars, lifeVars>>

(* Fault: a path out of handoff_with does not free the latch.                *)
ReleaseForgotten(w) ==
  /\ pc[w] = "release"
  /\ Goto(w, "answer")
  /\ UNCHANGED <<threadVars, poolVars, busy, sessions, conn, procVars, histVars, lifeVars>>

(* handoff_with returns and drops the latch ...                             *)
Release(w) ==
  /\ pc[w] = "release"
  /\ busy' = busy \ {UserOf(w)}
  /\ Goto(w, "answer")
  /\ UNCHANGED <<threadVars, poolVars, sessions, conn, procVars, histVars, lifeVars>>

(* ... and run_job tells a client it failed, and gives its place back.      *)
Answer(w) ==
  /\ pc[w] = "answer"
  /\ conn' = [conn EXCEPT ![cur[w]] = IF @ = "pending" THEN "rejected" ELSE @]
  /\ inFlight' = [inFlight EXCEPT ![UserOf(w)] = @ - 1]
  /\ cur' = [cur EXCEPT ![w] = None]
  /\ Goto(w, "recv")
  /\ UNCHANGED <<victim, ended, copies, queue, busy, sessions, procVars, histVars, lifeVars>>

Terminate(w) == Take(w) \/ TermWait(w) \/ TermKill(w) \/ Clear(w)
Handoff(w) ==
  \/ Connect(w) \/ AwaitAccept(w) \/ AwaitFail(w) \/ Lookup(w) \/ OwnsCheck(w) \/ Terminate(w)
  \/ Bind(w) \/ Spawn(w) \/ SpawnFail(w) \/ Insert(w) \/ ColdAccept(w) \/ ColdFail(w)
Worker(w) ==
  \/ Recv(w) \/ WorkerExit(w) \/ Acquire(w) \/ Reap(w) \/ Handoff(w) \/ Release(w) \/ Answer(w)

-----------------------------------------------------------------------------
(* Shutting down: HandoffPool::shutdown, then stop_all if asked for.        *)

BeginShutdown ==
  /\ pc[Main] = "loop"
  /\ stopping' = TRUE
  /\ Goto(Main, "join")
  /\ UNCHANGED <<threadVars, poolVars, busy, sessions, conn, procVars, histVars, restarts>>

(* Fault: stop_all does not wait for the workers.                            *)
JoinedEarly == pc[Main] = "join"

Joined == pc[Main] = "join" /\ \A w \in Workers : pc[w] = "exited"

(* A normal exit leaves the sessions running.                               *)
Exit ==
  /\ Joined
  /\ Goto(Main, "down")
  /\ UNCHANGED <<threadVars, poolVars, busy, sessions, conn, procVars, histVars, lifeVars>>

(* --stop-sessions-on-exit: drain the table, signal the supervisors that    *)
(* are ours, wait out one grace period for all, kill the rest.              *)
StopAll ==
  /\ Joined
  /\ LET ours == {r \in sessions : r.owned}
     IN /\ sessions' = {}
        /\ ended' = [ended EXCEPT ![Main] = ours]
        /\ Sigterm({r.started : r \in ours})
  /\ Goto(Main, "stopwait")
  /\ UNCHANGED <<cur, victim, copies, poolVars, busy, conn, name, sess, histVars, lifeVars>>

StopWait ==
  /\ pc[Main] = "stopwait"
  /\ LET ours == {r.started : r \in ended[Main]}
     IN Sigkill({s \in ours : sup[s] # "exited"})
  /\ Goto(Main, "stopunlink")
  /\ UNCHANGED <<threadVars, poolVars, busy, sessions, conn, name, sess, histVars, lifeVars>>

StopUnlink ==
  /\ pc[Main] = "stopunlink"
  /\ name' = [u \in Uids |-> IF \E r \in ended[Main] : r.uid = u THEN None ELSE name[u]]
  /\ ended' = [ended EXCEPT ![Main] = {}]
  /\ Goto(Main, "down")
  /\ UNCHANGED <<cur, victim, copies, poolVars, busy, sessions, conn, sess, sup, histVars, lifeVars>>

Shutdown == BeginShutdown \/ Exit \/ StopAll \/ StopWait \/ StopUnlink

(* The daemon dies, wherever its threads are: client sockets and listeners  *)
(* not yet inherited close, the processes it spawned live on.               *)
Crash ==
  /\ pc[Main] # "down"
  /\ restarts < MaxRestarts
  /\ pc' = [t \in Threads |-> IF t = Main THEN "down" ELSE "exited"]
  /\ conn' = [c \in Conns |-> IF conn[c] = "pending" THEN "closed" ELSE conn[c]]
  /\ sess' = [s \in Conns |-> IF sess[s] = "bound" THEN "dead" ELSE sess[s]]
  /\ cur' = [w \in Workers |-> None]
  /\ victim' = [t \in Threads |-> None]
  /\ ended' = [t \in Threads |-> {}]
  /\ copies' = [t \in Threads |-> {}]
  /\ queue' = <<>>
  /\ inFlight' = [u \in Uids |-> 0]
  /\ UNCHANGED <<busy, sessions, name, sup, histVars, lifeVars>>

(* SessionManager::new and HandoffPool::new: an empty table, and whatever   *)
(* the sessions directory holds.                                            *)
Start ==
  /\ pc[Main] = "down"
  /\ restarts < MaxRestarts
  /\ restarts' = restarts + 1
  /\ pc' = [t \in Threads |-> IF t = Main THEN "loop" ELSE "recv"]
  /\ busy' = {}
  /\ sessions' = {}
  /\ stopping' = FALSE
  /\ mine' = {}
  /\ served' = {}
  /\ UNCHANGED <<threadVars, poolVars, conn, procVars>>

-----------------------------------------------------------------------------
(* The processes. A session ends when its user logs out, it is told to, or  *)
(* it fails; its supervisor exits after it, or is killed before it.         *)

SessionEnds(s) ==
  /\ sess[s] = "live"
  /\ sess' = [sess EXCEPT ![s] = "dead"]
  /\ UNCHANGED <<pc, threadVars, poolVars, busy, sessions, conn, name, sup, histVars, lifeVars>>

SupervisorExits(s) ==
  /\ sup[s] \in {"running", "termed"}
  /\ sess[s] = "dead"
  /\ sup' = [sup EXCEPT ![s] = "exited"]
  /\ UNCHANGED <<pc, threadVars, poolVars, busy, sessions, conn, name, sess, histVars, lifeVars>>

SupervisorKilled(s) ==
  /\ sup[s] \in {"running", "termed"}
  /\ sess[s] = "live"
  /\ sup' = [sup EXCEPT ![s] = "exited"]
  /\ UNCHANGED <<pc, threadVars, poolVars, busy, sessions, conn, name, sess, histVars, lifeVars>>

Process(s) == SessionEnds(s) \/ SupervisorExits(s) \/ SupervisorKilled(s)

Accept == \E c \in Conns : Submit(c) \/ Refuse(c)

Next ==
  \/ Accept
  \/ Reap(Main)
  \/ \E w \in Workers : Worker(w)
  \/ Shutdown \/ Crash \/ Start
  \/ \E s \in Conns : Process(s)

Spec == Init /\ [][Next]_vars

(* Threads are scheduled: each worker, the reaper and, once it has begun,   *)
(* the shutdown keep taking the steps open to them. A wait for a session or *)
(* a supervisor ends by its timeout, so no process owes the daemon a step.  *)
FairSpec ==
  /\ Spec
  /\ \A w \in Workers : WF_vars(Worker(w))
  /\ WF_vars(Reap(Main))
  /\ WF_vars(Exit \/ StopAll \/ StopWait \/ StopUnlink)

-----------------------------------------------------------------------------
(* Who holds a start latch: a handoff, or the reaper about to unlink.       *)
HandoffHolds(w, u) == pc[w] \in Latched /\ UserOf(w) = u
ReapHolds(t, u) == pc[t] = "unlinking" /\ UidOf[victim[t]] = u

(* A uid's latch has one holder: two handoffs for one user never overlap,   *)
(* and neither overlaps the unlink of a reaped session's name, not even in  *)
(* one thread (Starts::acquire, try_acquire and Starting::drop).            *)
LatchExclusion ==
  \A u \in Uids :
    /\ \A v, w \in Workers : HandoffHolds(v, u) /\ HandoffHolds(w, u) => v = w
    /\ \A t, v \in Threads : ReapHolds(t, u) /\ ReapHolds(v, u) => t = v
    /\ \A w \in Workers, t \in Threads : ~(HandoffHolds(w, u) /\ ReapHolds(t, u))

(* A job is in the pool from submit until its worker is done with it.       *)
InPool(c) == (\E i \in DOMAIN queue : queue[i] = c) \/ (\E w \in Workers : cur[w] = c)

(* No path that returns early costs a user anything for good. While the     *)
(* daemon runs, a uid that is busy has a holder who will free it; and a     *)
(* uid's count in Admission is exactly its jobs in the channel and on a     *)
(* worker, never above the cap, so that no refusal, full channel or         *)
(* shutdown keeps a place (Admission::take, Slot::drop).                    *)
NothingLeaked ==
  /\ pc[Main] # "down" =>
       \A u \in busy : \/ \E w \in Workers : HandoffHolds(w, u)
                      \/ \E t \in Threads : ReapHolds(t, u)
  /\ \A u \in Uids :
       /\ inFlight[u] <= PerUid
       /\ inFlight[u] = Cardinality({c \in Conns : UidOf[c] = u /\ InPool(c)})

(* A desktop nobody told to stop is always reachable at its user's name:    *)
(* no unlink or bind, by a handoff, a reap or a shutdown of this daemon or  *)
(* of one before it, takes the name from under it. Since the name is one,   *)
(* no user ever has two such desktops.                                      *)
NoStrandedDesktop == \A s \in Conns : Kept(s) => name[UidOf[s]] = s

Draining == pc[Main] \in {"stopwait", "stopunlink", "down"}

(* The daemon never forgets a running session it started, except between    *)
(* the spawn and the insert of a worker that shutdown waits for; so a       *)
(* session told to end with the daemon cannot outlive it.                   *)
OwnSessionsRecorded ==
  ~Draining => \A s \in mine :
    Kept(s) => \/ Record(UidOf[s], s, TRUE) \in sessions
               \/ \E w \in Workers : cur[w] = s /\ pc[w] = "insert"

(* The daemon never forgets a running session it has handed a client to,    *)
(* spawned or adopted, however reaps and adoptions interleave.              *)
ServedSessionsRecorded ==
  ~Draining => \A s \in served : Kept(s) => Records(UidOf[s]) # {}

(* A session of an earlier daemon keeps its name for as long as anything    *)
(* listens there, whatever it fails to answer and even once its supervisor  *)
(* is gone: it is not this daemon's to replace.                             *)
AdoptedLeftAlone ==
  [][\A s \in Conns \ mine :
       name[UidOf[s]] = s /\ sess[s] = "live" => name'[UidOf[s]] = s]_vars

(* Once stop_all is done, every supervisor the daemon started has exited.   *)
StopAllStops == [][StopUnlink => \A s \in mine : sup[s] = "exited"]_vars

(* Every client admitted to the pool is handed over, told why not, or       *)
(* closed: none waits for ever behind a stopped session or a lost wakeup.   *)
EveryClientAnswered == \A c \in Conns : conn[c] = "pending" ~> conn[c] # "pending"

(* A daemon told to stop does.                                              *)
ShutdownEnds == stopping ~> pc[Main] = "down"

(* The daemon gives each user one desktop behind one door.                  *)
OpenDesktop(u) ==
  IF \E s \in Conns : Kept(s) /\ UidOf[s] = u
  THEN CHOOSE s \in Conns : Kept(s) /\ UidOf[s] = u
  ELSE None

Promise == INSTANCE UserDesktop WITH
  Users <- Uids, Desktops <- Conns, Nobody <- None,
  desktop <- [u \in Uids |-> OpenDesktop(u)], door <- name

ImplementsUserDesktop == Promise!Spec

(* "Set by HandoffPool::shutdown; no session is started after it."          *)
NoSpawnAfterShutdown ==
  [][\A s \in Conns : sup[s] = "none" /\ sup'[s] = "running" => ~stopping]_vars

=============================================================================
