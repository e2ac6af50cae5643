------------------------------ MODULE LinkProofs ------------------------------
(***************************************************************************)
(* Proofs about Link: who stops which ssh, and that the event loop does not *)
(* sleep on messages, for any budgets, kinds of messages and routes.       *)
(***************************************************************************)
EXTENDS Link, TLAPS

(* A connection, its threads, and what the reader has in its hands while it *)
(* waits for room.                                                          *)
ConnRecord ==
  [peer : {"none", "open", "silent", "closed"}, heard : 0..MaxSent, shut : BOOLEAN,
   rd : {"none", "read", "admit", "wake", "final", "gone"}, hand : Kinds \cup {"none"},
   events : Seq(Kinds \cup {"eof"}), bytes : Nat, closing : BOOLEAN, out : 0..MaxOut,
   werr : BOOLEAN]

Holding(r) == r.rd = "admit" => r.hand # "none"

ConnOK ==
  /\ conn \in [Conns -> ConnRecord] /\ wake \in BOOLEAN
  /\ \A c \in Conns : Holding(conn[c])

(* The window past its last look at the reconnection worker.                *)
Leaving == {"drop", "bye", "joinbye", "shut", "ended"}

(* An attempt that is to be made is within the budget.                      *)
BudgetOK ==
  link = "reconnecting" /\ ~attempt /\ win \notin Leaving => attempts < RetryBudget

(* The endpoint is in one place: with the window, the worker, or the        *)
(* worker's answer; and a window that asked for it back waits for it until  *)
(* it leaves.                                                               *)
EndpointOK ==
  /\ ep = "worker" <=> wk # "none"
  /\ ep = "mail" <=> mail # "none"
  /\ attempt => ep \in {"worker", "mail"} /\ link = "reconnecting" /\ win \notin Leaving
  /\ ep = "mail" \/ win = "wait" => attempt
  /\ ep = "worker" /\ ~attempt => win \in Leaving
  /\ link \in {"lost", "reconnecting"} /\ ~attempt /\ win \notin Leaving => ep = "window"
  /\ win = "ended" => ep = "none"

(* The ssh the kill handle knows is the one there is, and after the kill    *)
(* there is none, but for a child that has not been registered yet; nobody  *)
(* but a worker the window has waited for is left behind.                   *)
TunnelOK ==
  /\ wk \in {"spawn", "register", "ready"} => tun = NoPid
  /\ ep = "none" /\ win # "ended" => tun = NoPid
  /\ wchild # NoPid <=> wk \in {"register", "ready"}
  /\ ~killed => (Alive(tun) => reg = tun) /\ (wk = "ready" => reg = wchild)
  /\ win = "wait" => killed
  /\ killed => /\ win \in Leaving \cup {"wait"}
               /\ \A p \in Pids : ssh[p] # "none" => wk = "register" /\ p = wchild
  /\ win \in Leaving /\ wk # "none" => killed /\ ~Prompt

(* A loop that has gone to sleep found nothing, and the first message since *)
(* brings the wake-up.                                                      *)
WokenOK ==
  win = "sleep" /\ link = "up" /\ HasPending(conn[cur]) =>
    \/ wake \/ conn[cur].rd = "final"
    \/ conn[cur].rd = "wake" /\ Len(conn[cur].events) = 1

Inv ==
  TypeOK /\ ConnOK /\ BudgetOK /\ EndpointOK /\ TunnelOK /\ SshOwned /\ WokenOK

-----------------------------------------------------------------------------
(* The operators on a connection.                                            *)

(* The window's calls keep a connection a connection, and neither send nor   *)
(* close touches what is queued or the reader (Outbound::send, close_socket). *)
LEMMA CallsKeep ==
  ASSUME NEW r \in ConnRecord
  PROVE  \A q \in {Sent(r), Closed(r), WriteFailed(r)} :
           q \in ConnRecord /\ q.events = r.events /\ q.rd = r.rd /\ q.hand = r.hand
<1> USE ConnectionAssumption DEF ConnRecord, ConnectionAssumption
<1>1. r.out # MaxOut => [r EXCEPT !.out = @ + 1] \in ConnRecord
  <2>1. r.out # MaxOut => r.out + 1 \in 0..MaxOut
    OBVIOUS
  <2>q. QED
    BY <2>1
<1>2. [r EXCEPT !.werr = TRUE, !.shut = TRUE] \in ConnRecord
  OBVIOUS
<1>3. Sent(r) \in ConnRecord
  BY <1>1, <1>2 DEF Sent
<1>4. Closed(r) \in ConnRecord 
  <2>1. 0 \in 0..MaxOut
    OBVIOUS
  <2>q. QED
    BY <2>1 DEF Closed
<1>5. WriteFailed(r) \in ConnRecord
  <2>1. 0 \in 0..MaxOut
    OBVIOUS
  <2>q. QED
    BY <2>1 DEF WriteFailed
<1>6. \A q \in {Sent(r), Closed(r), WriteFailed(r)} :
        q.events = r.events /\ q.rd = r.rd /\ q.hand = r.hand
  BY ZenonT(60) DEF Sent, Closed, WriteFailed
<1>q. QED
  BY <1>3, <1>4, <1>5, <1>6

(* poll_event takes a message off the queue and its weight off the backlog. *)
LEMMA TakenKeeps ==
  ASSUME NEW r \in ConnRecord, r.events # <<>>
  PROVE  LET q == Taken(r).conn IN q \in ConnRecord /\ q.rd = r.rd /\ q.hand = r.hand
<1> DEFINE k == Head(r.events)
           left == [r EXCEPT !.events = Tail(@),
                             !.bytes = IF @ >= Size(k) THEN @ - Size(k) ELSE 0]
<1>1. r.events \in Seq(Kinds \cup {"eof"}) /\ k \in Kinds \cup {"eof"}
  BY DEF ConnRecord
<1>2. Tail(r.events) \in Seq(Kinds \cup {"eof"})
  BY <1>1
<1>3. Size(k) \in Nat
  BY ConnectionAssumption DEF Size, ConnectionAssumption
<1>4. left \in ConnRecord
  <2>1. (IF r.bytes >= Size(k) THEN r.bytes - Size(k) ELSE 0) \in Nat
    BY <1>3 DEF ConnRecord
  <2>q. QED
    BY <1>2, <2>1 DEF ConnRecord
<1>5. left.rd = r.rd /\ left.hand = r.hand
  BY DEF ConnRecord
<1> HIDE DEF left
<1>6. Sent(left) \in ConnRecord /\ Sent(left).rd = r.rd /\ Sent(left).hand = r.hand
  BY <1>4, <1>5, CallsKeep
<1>7. Taken(r).conn \in {left, Sent(left)}
  BY DEF Taken, left, k
<1>q. QED
  BY <1>4, <1>5, <1>6, <1>7

(* And so does everything a call of poll_event may return.                  *)
LEMMA PolledKeeps ==
  ASSUME NEW r \in ConnRecord, NEW p \in Polled(r)
  PROVE  p.conn \in ConnRecord /\ p.conn.rd = r.rd /\ p.conn.hand = r.hand
<1>1. /\ WriteFailed(r) \in ConnRecord /\ WriteFailed(r).events = r.events
      /\ WriteFailed(r).rd = r.rd /\ WriteFailed(r).hand = r.hand
  BY CallsKeep
<1>2. CASE r.werr
  BY <1>2 DEF Polled
<1>3. CASE ~r.werr /\ r.events # <<>>
  <2>1. PICK q \in {r, WriteFailed(r)} : p = Taken(q)
    BY <1>3 DEF Polled
  <2>q. QED
    BY <1>1, <1>3, <2>1, TakenKeeps
<1>4. CASE ~r.werr /\ r.events = <<>>
  BY <1>4 DEF Polled
<1>q. QED
  BY <1>2, <1>3, <1>4

(* A connection that is set up, and what is left of one.                    *)
LEMMA FreshKeep ==
  \A r \in {NoConn, Connected} : r \in ConnRecord /\ Holding(r)
<1> USE ConnectionAssumption DEF ConnectionAssumption, ConnRecord, Holding
<1>1. 0 \in 0..MaxSent /\ 0 \in 0..MaxOut
  OBVIOUS
<1>2. NoConn \in ConnRecord /\ Holding(NoConn)
  BY <1>1 DEF NoConn
<1>3. Connected \in ConnRecord /\ Holding(Connected)
  BY <1>2 DEF NoConn, Connected
<1>q. QED
  BY <1>2, <1>3

(* The threads of a connection keep it one.                                 *)
LEMMA ThreadsKeep ==
  ASSUME ConnOK, NEW c \in Conns, Reader(c) \/ Write(c) \/ PathDies(c)
  PROVE  ConnOK'
<1> USE ConnectionAssumption DEF ConnectionAssumption, ConnOK, Holding
<1> DEFINE r == conn[c]
           Becomes(q) == conn' = [conn EXCEPT ![c] = q]
<1>1. r \in ConnRecord /\ Holding(r)
  OBVIOUS
<1>2. wake' \in BOOLEAN
  BY DEF Reader, Read, Admit, Notify, LeaveReader, Write, PathDies
<1>3. ASSUME NEW q \in ConnRecord, Holding(q), Becomes(q) PROVE ConnOK'
  BY SMTT(60), <1>2, <1>3
<1>4. CASE Read(c)
  <2>1. ASSUME NEW k \in Kinds, NEW p \in {r.peer, "closed"}, r.heard < MaxSent,
               Becomes([r EXCEPT !.hand = k, !.rd = "admit", !.heard = @ + 1, !.peer = p])
        PROVE  ConnOK'
    <3> DEFINE q == [r EXCEPT !.hand = k, !.rd = "admit", !.heard = @ + 1, !.peer = p]
    <3>1. r.heard + 1 \in 0..MaxSent /\ p \in {"none", "open", "silent", "closed"}
      BY <1>1, <2>1 DEF ConnRecord
    <3>2. q \in ConnRecord
      BY <1>1, <3>1 DEF ConnRecord
    <3>3. q.hand = k /\ k # "none"
      BY <1>1 DEF ConnRecord
    <3>q. QED
      BY <1>3, <2>1, <3>2, <3>3
  <2>2. ASSUME Becomes([r EXCEPT !.events = Append(@, "eof"), !.rd = "final"])
        PROVE  ConnOK'
    <3>1. Append(r.events, "eof") \in Seq(Kinds \cup {"eof"})
      BY <1>1 DEF ConnRecord
    <3>2. [r EXCEPT !.events = Append(@, "eof"), !.rd = "final"] \in ConnRecord
      BY <1>1, <3>1 DEF ConnRecord
    <3>q. QED
      BY <1>1, <1>3, <2>2, <3>2 DEF ConnRecord
  <2>3. ASSUME NEW k \in Kinds, r.heard < MaxSent,
               conn' = [conn EXCEPT ![c].hand = k, ![c].rd = "admit", ![c].heard = @ + 1,
                          ![c].peer = IF k \in {"evict", "ended"} THEN "closed" ELSE @]
        PROVE  ConnOK'
    <3>1. CASE k \in {"evict", "ended"}
      <4>1. Becomes([r EXCEPT !.hand = k, !.rd = "admit", !.heard = @ + 1,
                              !.peer = "closed"])
        BY <2>3, <3>1
      <4>q. QED
        BY <2>1, <2>3, <4>1
    <3>2. CASE k \notin {"evict", "ended"}
      <4>1. Becomes([r EXCEPT !.hand = k, !.rd = "admit", !.heard = @ + 1,
                              !.peer = r.peer])
        BY <2>3, <3>2
      <4>q. QED
        BY <2>1, <2>3, <4>1
    <3>q. QED
      BY <3>1, <3>2
  <2>4. CASE conn' = [conn EXCEPT ![c].events = Append(@, "eof"), ![c].rd = "final"]
    BY <2>2, <2>4
  <2>q. QED
    BY <1>4, <2>3, <2>4 DEF Read
<1>5. CASE Admit(c)
  <2>1. CASE r.closing
    <3>1. [r EXCEPT !.hand = "none", !.rd = "final"] \in ConnRecord
      BY <1>1 DEF ConnRecord
    <3>2. Holding([r EXCEPT !.hand = "none", !.rd = "final"])
      BY <1>1 DEF ConnRecord
    <3>3. Becomes([r EXCEPT !.hand = "none", !.rd = "final"])
      BY <1>5, <2>1 DEF Admit
    <3>q. QED
      BY <1>3, <3>1, <3>2, <3>3
  <2>2. CASE ~r.closing
    <3> DEFINE q == [r EXCEPT !.bytes = @ + Size(r.hand), !.hand = "none",
                              !.events = Append(@, r.hand), !.rd = "wake"]
    <3>1. r.hand \in Kinds
      BY <1>1, <1>5 DEF Admit, ConnRecord
    <3>2. r.bytes + Size(r.hand) \in Nat
      BY <1>1 DEF ConnRecord, Size
    <3>3. Append(r.events, r.hand) \in Seq(Kinds \cup {"eof"})
      BY <1>1, <3>1 DEF ConnRecord
    <3>4. q \in ConnRecord
      BY <1>1, <3>2, <3>3 DEF ConnRecord
    <3>5. q.rd = "wake"
      BY <1>1 DEF ConnRecord
    <3>6. Becomes(q)
      BY <1>5, <2>2 DEF Admit
    <3>q. QED
      BY <1>3, <3>4, <3>5, <3>6
  <2>q. QED
    BY <2>1, <2>2
<1>6. CASE Notify(c) \/ LeaveReader(c)
  <2>1. PICK s \in {"read", "gone"} : Becomes([r EXCEPT !.rd = s])
    BY <1>6 DEF Notify, LeaveReader
  <2>2. [r EXCEPT !.rd = s] \in ConnRecord /\ Holding([r EXCEPT !.rd = s])
    BY <1>1 DEF ConnRecord
  <2>q. QED
    BY <1>3, <2>1, <2>2
<1>7. CASE Write(c)
  <2>1. CASE Becomes(WriteFailed(r))
    BY <1>1, <1>3, <2>1, CallsKeep
  <2>2. CASE Becomes([r EXCEPT !.out = @ - 1]) /\ Writing(r)
    <3>1. r.out - 1 \in 0..MaxOut
      BY <1>1, <2>2 DEF Writing, ConnRecord
    <3>2. [r EXCEPT !.out = @ - 1] \in ConnRecord /\ Holding([r EXCEPT !.out = @ - 1])
      BY <1>1, <3>1 DEF ConnRecord
    <3>q. QED
      BY <1>3, <2>2, <3>2
  <2>q. QED
    BY <1>7, <2>1, <2>2 DEF Write
<1>8. CASE PathDies(c)
  <2>1. PICK p \in {"silent", "closed"} : Becomes([r EXCEPT !.peer = p])
    BY <1>8 DEF PathDies
  <2>2. [r EXCEPT !.peer = p] \in ConnRecord /\ Holding([r EXCEPT !.peer = p])
    BY <1>1 DEF ConnRecord
  <2>q. QED
    BY <1>3, <2>1, <2>2
<1>q. QED
  BY <1>4, <1>5, <1>6, <1>7, <1>8 DEF Reader

(* And so does the end of the ssh under it.                                 *)
LEMMA CutOffKeeps ==
  ASSUME ConnOK, NEW c \in Conns
  PROVE  LET r == CutOff(c) IN
           /\ r \in ConnRecord /\ Holding(r)
           /\ r.events = conn[c].events /\ r.rd = conn[c].rd
<1>1. conn[c] \in ConnRecord /\ Holding(conn[c])
  BY DEF ConnOK
<1>2. [conn[c] EXCEPT !.peer = "closed"] \in ConnRecord
  BY <1>1 DEF ConnRecord
<1>q. QED
  BY <1>1, <1>2 DEF CutOff, Holding, ConnRecord

-----------------------------------------------------------------------------
(* The invariant.                                                            *)

(* Every step leaves two connections.                                       *)
LEMMA ConnStep == ASSUME Inv, Next PROVE ConnOK'
<1> USE LinkAssumption, ConnectionAssumption, FreshKeep, CallsKeep
    DEF Inv, TypeOK, ConnOK, Conns, Holding, endpoint, worker, retry,
        LinkAssumption, ConnectionAssumption
<1>1. ASSUME NEW p \in Pids, Authenticates(p) PROVE ConnOK'
  BY <1>1 DEF Authenticates
<1>2. ASSUME NEW p \in Pids, SshDies(p) PROVE ConnOK'
  BY <1>2, CutOffKeeps DEF SshDies
<1>3. ASSUME NEW c \in Conns, ConnThreads(c) PROVE ConnOK'
  BY <1>3, ThreadsKeep DEF ConnThreads
<1>4. CASE Handshake
  <2>1. Other \in Conns
    BY DEF Other, TypeOK, Conns
  <2>q. QED
    BY <1>4, <2>1 DEF Handshake
<1>5. CASE Report
  <2>1. Other \in Conns
    BY DEF Other, TypeOK, Conns
  <2>2. Closed(conn[Other]) \in ConnRecord /\ Holding(Closed(conn[Other]))
    BY <2>1
  <2>3. conn' \in {conn, [conn EXCEPT ![Other] = Closed(@)]} /\ wake' \in BOOLEAN
    BY <1>5 DEF Report
  <2>q. QED
    BY <2>1, <2>2, <2>3
<1>6. CASE Connect \/ Spawn \/ Register \/ AwaitReady
  BY <1>6 DEF Connect, Spawn, Register, AwaitReady, Alive, Stopped
<1>7. CASE Drain
  <2>1. \A p \in Polled(conn[cur]) : p.conn \in ConnRecord /\ Holding(p.conn)
    BY PolledKeeps
  <2>2. \A p \in Polled(conn[cur]) :
          Closed(p.conn) \in ConnRecord /\ Holding(Closed(p.conn))
    BY <2>1
  <2>q. QED
    BY <1>7, <2>1, <2>2 DEF Drain, LoseLink
<1>8. CASE House
  <2>1. Other \in Conns
    BY DEF Other, TypeOK, Conns
  <2>q. QED
    BY <1>8, <2>1 DEF House, Adopt, AttemptFailed
<1>9. CASE Timer \/ Rest \/ WakeUp
  BY <1>9 DEF Timer, Rest, WakeUp
<1>14. CASE JoinOver
  <2>1. NoConn \in ConnRecord /\ Holding(NoConn)
    BY FreshKeep
  <2>q. QED
    BY <1>14, <2>1 DEF JoinOver
<1>10. CASE WaitForWorker
  <2>1. Other \in Conns
    BY DEF Other, TypeOK, Conns
  <2>q. QED
    BY <1>10, <2>1 DEF WaitForWorker
<1>11. CASE Exit \/ DropOver \/ SayGoodbye \/ ByeOver \/ EndProcess
  BY <1>11 DEF Exit, DropOver, SayGoodbye, ByeOver, EndProcess, Stopped
<1>12. CASE UserInput
  BY <1>12 DEF UserInput
<1>13. CASE ReconnectNow \/ CloseWindow
  BY <1>13 DEF ReconnectNow, CloseWindow, StartAttempt, Stopped
<1>q. QED
  BY <1>1, <1>2, <1>3, <1>4, <1>5, <1>6, <1>7, <1>8, <1>9, <1>10, <1>11, <1>12,
     <1>13, <1>14
     DEF Next, Worker, Window, User

(* And keeps the types.                                                     *)
LEMMA TypeStep == ASSUME Inv, Next PROVE TypeOK'
<1> USE LinkAssumption, ConnectionAssumption
    DEF Inv, TypeOK, BudgetOK, EndpointOK, Pids, NoPid, Leaving, endpoint,
        worker, retry, LinkAssumption, ConnectionAssumption
<1>c. ConnOK'
  BY ConnStep
<1>r. ConnTypeOK'
  <2>1. ASSUME NEW c \in Conns PROVE conn'[c] \in ConnRecord
    BY <1>c DEF ConnOK
  <2>2. \A c \in Conns : Range(conn'[c].events) \subseteq Kinds \cup {"eof"}
    BY <2>1 DEF ConnRecord, Range
  <2>q. QED
    BY ZenonT(60), <1>c, <2>1, <2>2 DEF ConnTypeOK, ConnOK, ConnRecord
<1>1. ASSUME NEW p \in Pids, Authenticates(p) \/ SshDies(p) PROVE TypeOK'
  BY SMTT(60), <1>1, <1>r DEF Authenticates, SshDies, Stopped
<1>2. ASSUME NEW c \in Conns, ConnThreads(c) PROVE TypeOK'
  BY <1>2, <1>r DEF ConnThreads, Reader, Read, Admit, Notify, LeaveReader, Write, PathDies
<1>3. CASE AwaitReady
  BY <1>3, <1>r DEF AwaitReady, Alive, Stopped
<1>4. CASE Report
  BY <1>4, <1>r DEF Report, Stopped, Answer
<1>5. CASE Connect \/ Spawn \/ Register \/ Handshake
  BY <1>5, <1>r DEF Connect, Spawn, Register, Handshake, Alive, Stopped
<1>6. CASE Drain
  <2>1. /\ win' \in {"house", "join", "drain"} /\ over' \in BOOLEAN /\ due' \in BOOLEAN
        /\ link' \in {link, "gone", "reconnecting"} /\ attempts' \in {0, attempts}
    BY <1>6 DEF Drain, LoseLink
  <2>q. QED
    BY <1>6, <1>r, <2>1 DEF Drain
<1>7. CASE House
  <2>1. attempts' \in 0..RetryBudget
    BY <1>7 DEF House, StartAttempt, AttemptFailed, Adopt
  <2>2. cur' \in Conns
    BY <1>7 DEF House, StartAttempt, AttemptFailed, Adopt, Other, Conns
  <2>3. link' \in {link, "up", "lost", "gone", "reconnecting"}
    BY <1>7 DEF House, StartAttempt, AttemptFailed, Adopt
  <2>4. /\ due' \in BOOLEAN /\ attempt' \in BOOLEAN /\ mail' \in {mail, "none"}
        /\ ep' \in {ep, "window", "worker", "none"} /\ tun' \in {tun, NoPid}
        /\ ssh' \in {ssh, Stopped(tun)} /\ wk' \in {wk, "connect"} /\ win' = "rest"
    BY <1>7 DEF House, StartAttempt
  <2>q. QED
    BY <1>7, <1>r, <2>1, <2>2, <2>3, <2>4 DEF House, Stopped
<1>8. CASE Timer \/ JoinOver \/ Rest \/ WakeUp
  BY <1>8, <1>r DEF Timer, JoinOver, Rest, WakeUp
<1>9. CASE Exit \/ WaitForWorker \/ DropOver \/ SayGoodbye \/ ByeOver \/
           EndProcess
  BY ZenonT(60), <1>9, <1>r DEF Exit, WaitForWorker, DropOver, SayGoodbye, ByeOver, EndProcess, Stopped
<1>10. CASE ReconnectNow
  <2>1. attempts' = 1 /\ 1 \in 0..RetryBudget /\ asks' \in 0..MaxAsks
    BY <1>10 DEF ReconnectNow, StartAttempt
  <2>q. QED
    BY ZenonT(60), <1>10, <1>r, <2>1 DEF ReconnectNow, StartAttempt, Stopped
<1>11. CASE UserInput \/ CloseWindow
  BY <1>11, <1>r DEF UserInput, CloseWindow
<1>q. QED
  BY <1>1, <1>2, <1>3, <1>4, <1>5, <1>6, <1>7, <1>8, <1>9, <1>10, <1>11
     DEF Next, Worker, Window, User

(* An attempt is scheduled only within the budget (attempt_failed).         *)
LEMMA BudgetStep == ASSUME Inv, Next PROVE BudgetOK'
<1> USE LinkAssumption, ConnectionAssumption
    DEF Inv, TypeOK, BudgetOK, EndpointOK, Leaving, endpoint, worker, retry,
        LinkAssumption, ConnectionAssumption
<1>1. ASSUME NEW p \in Pids, Authenticates(p) \/ SshDies(p) PROVE BudgetOK'
  BY <1>1 DEF Authenticates, SshDies, Stopped
<1>2. ASSUME NEW c \in Conns, ConnThreads(c) PROVE BudgetOK'
  BY <1>2 DEF ConnThreads, Reader, Read, Admit, Notify, LeaveReader, Write, PathDies
<1>3. CASE Connect \/ Spawn \/ Register \/ AwaitReady \/ Handshake \/ Report
  BY <1>3 DEF Connect, Spawn, Register, AwaitReady, Handshake, Report, Alive,
              Stopped, Answer
<1>4. CASE House
  BY <1>4 DEF House, StartAttempt, AttemptFailed, Adopt, Stopped
<1>5. CASE Timer \/ Drain \/ JoinOver \/ Rest \/ WakeUp
  BY <1>5 DEF Timer, Drain, JoinOver, Rest, WakeUp, LoseLink
<1>6. CASE Exit \/ WaitForWorker \/ DropOver \/ SayGoodbye \/ ByeOver \/
           EndProcess
  BY <1>6 DEF Exit, WaitForWorker, DropOver, SayGoodbye, ByeOver, EndProcess, Stopped
<1>7. CASE UserInput \/ ReconnectNow \/ CloseWindow
  BY <1>7 DEF UserInput, ReconnectNow, CloseWindow, StartAttempt, Stopped
<1>q. QED
  BY <1>1, <1>2, <1>3, <1>4, <1>5, <1>6, <1>7
     DEF Next, Worker, Window, User

(* The endpoint is handed on, never copied.                                *)
LEMMA EndpointStep == ASSUME Inv, Next PROVE EndpointOK'
<1> USE LinkAssumption, ConnectionAssumption
    DEF Inv, TypeOK, EndpointOK, Leaving, endpoint, worker, retry,
        LinkAssumption, ConnectionAssumption
<1>1. ASSUME NEW p \in Pids, Authenticates(p) \/ SshDies(p) PROVE EndpointOK'
  BY SMTT(60), <1>1 DEF Authenticates, SshDies, Stopped
<1>2. ASSUME NEW c \in Conns, ConnThreads(c) PROVE EndpointOK'
  BY <1>2 DEF ConnThreads, Reader, Read, Admit, Notify, LeaveReader, Write, PathDies
<1>3. CASE Report
  BY <1>3 DEF Report, Stopped, Answer
<1>4. CASE Connect \/ Spawn \/ Register \/ AwaitReady \/ Handshake
  BY <1>4 DEF Connect, Spawn, Register, AwaitReady, Handshake, Alive, Stopped
<1>5. CASE House
  BY <1>5 DEF House, StartAttempt, AttemptFailed, Adopt, Stopped
<1>6. CASE Timer \/ Drain \/ JoinOver \/ Rest \/ WakeUp
  BY <1>6 DEF Timer, Drain, JoinOver, Rest, WakeUp, LoseLink
<1>7. CASE WaitForWorker
  BY <1>7 DEF WaitForWorker, Stopped
<1>8. CASE Exit \/ DropOver \/ SayGoodbye \/ ByeOver \/ EndProcess
  BY <1>8 DEF Exit, DropOver, SayGoodbye, ByeOver, EndProcess, Stopped
<1>9. CASE UserInput \/ ReconnectNow \/ CloseWindow
  BY <1>9 DEF UserInput, ReconnectNow, CloseWindow, StartAttempt, Stopped
<1>q. QED
  BY <1>1, <1>2, <1>3, <1>4, <1>5, <1>6, <1>7, <1>8, <1>9
     DEF Next, Worker, Window, User

(* The kill finds the ssh there is, or the one that is to be registered.    *)
LEMMA TunnelStep == ASSUME Inv, Next PROVE TunnelOK'
<1> USE LinkAssumption, ConnectionAssumption
    DEF Inv, TypeOK, EndpointOK, TunnelOK, SshOwned, Leaving, Alive, Pids,
        NoPid, Stopped, Prompt, endpoint, worker, retry, LinkAssumption,
        ConnectionAssumption
<1>1. ASSUME NEW p \in Pids, Authenticates(p) \/ SshDies(p) PROVE TunnelOK'
  BY SMTT(60), <1>1 DEF Authenticates, SshDies
<1>2. ASSUME NEW c \in Conns, ConnThreads(c) PROVE TunnelOK'
  BY <1>2 DEF ConnThreads, Reader, Read, Admit, Notify, LeaveReader, Write, PathDies
<1>3. CASE Connect
  BY <1>3 DEF Connect
<1>4. CASE Spawn
  BY <1>4 DEF Spawn
<1>5. CASE Register
  BY <1>5 DEF Register
<1>6. CASE AwaitReady
  BY <1>6 DEF AwaitReady
<1>7. CASE Report
  BY <1>7 DEF Report, Answer
<1>8. CASE Handshake
  BY <1>8 DEF Handshake
<1>9. CASE House
  BY <1>9 DEF House, StartAttempt, AttemptFailed, Adopt
<1>10. CASE Timer \/ Drain \/ JoinOver \/ Rest \/ WakeUp
  BY <1>10 DEF Timer, Drain, JoinOver, Rest, WakeUp, LoseLink
<1>11. CASE Exit
  BY <1>11 DEF Exit
<1>12. CASE WaitForWorker
  BY <1>12 DEF WaitForWorker
<1>13. CASE EndProcess
  BY <1>13 DEF EndProcess
<1>14. CASE DropOver \/ SayGoodbye \/ ByeOver
  BY <1>14 DEF DropOver, SayGoodbye, ByeOver
<1>15. CASE UserInput \/ ReconnectNow \/ CloseWindow
  BY <1>15 DEF UserInput, ReconnectNow, CloseWindow, StartAttempt
<1>q. QED
  BY <1>1, <1>2, <1>3, <1>4, <1>5, <1>6, <1>7, <1>8, <1>9, <1>10, <1>11, <1>12,
     <1>13, <1>14, <1>15
     DEF Next, Worker, Window, User

(* Every ssh has somebody who stops it.                                    *)
LEMMA OwnedStep == ASSUME Inv, Next PROVE SshOwned'
<1> USE LinkAssumption, ConnectionAssumption
    DEF Inv, TypeOK, EndpointOK, TunnelOK, SshOwned, Leaving, Alive, Pids,
        NoPid, Stopped, Prompt, endpoint, worker, retry, LinkAssumption,
        ConnectionAssumption
<1>1. ASSUME NEW p \in Pids, Authenticates(p) \/ SshDies(p) PROVE SshOwned'
  BY SMTT(60), <1>1 DEF Authenticates, SshDies
<1>2. ASSUME NEW c \in Conns, ConnThreads(c) PROVE SshOwned'
  BY <1>2 DEF ConnThreads, Reader, Read, Admit, Notify, LeaveReader, Write, PathDies
<1>3. CASE Connect
  BY <1>3 DEF Connect
<1>4. CASE Spawn
  BY <1>4 DEF Spawn
<1>5. CASE Register
  BY <1>5 DEF Register
<1>6. CASE AwaitReady
  BY <1>6 DEF AwaitReady
<1>7. CASE Report
  BY <1>7 DEF Report, Answer
<1>8. CASE Handshake
  BY <1>8 DEF Handshake
<1>9. CASE House
  BY <1>9 DEF House, StartAttempt, AttemptFailed, Adopt
<1>10. CASE Timer \/ Drain \/ JoinOver \/ Rest \/ WakeUp
  BY <1>10 DEF Timer, Drain, JoinOver, Rest, WakeUp, LoseLink
<1>11. CASE Exit
  BY <1>11 DEF Exit
<1>12. CASE WaitForWorker
  BY <1>12 DEF WaitForWorker
<1>13. CASE EndProcess
  <2>1. CASE ep = "window"
    BY <1>13, <2>1 DEF EndProcess
  <2>2. CASE ep # "window"
    <3>1. win = "shut"
      BY <1>13 DEF EndProcess
    <3>2. ASSUME wk # "none" PROVE \A p \in Pids : ssh[p] = "none"
      <4>1. killed /\ wk # "register"
        BY <3>1, <3>2
      <4>q. QED
        BY <4>1
    <3>3. ASSUME wk = "none" PROVE \A p \in Pids : ssh[p] = "none"
      <4>1. tun = NoPid /\ wchild = NoPid
        BY <2>2, <3>1, <3>3
      <4>q. QED
        BY <4>1
    <3>4. \A p \in Pids : ssh[p] = "none"
      BY <3>2, <3>3
    <3>q. QED
      BY <1>13, <2>2, <3>4 DEF EndProcess
  <2>q. QED
    BY <2>1, <2>2
<1>14. CASE DropOver \/ SayGoodbye \/ ByeOver
  BY <1>14 DEF DropOver, SayGoodbye, ByeOver
<1>15. CASE UserInput \/ ReconnectNow \/ CloseWindow
  BY <1>15 DEF UserInput, ReconnectNow, CloseWindow, StartAttempt
<1>q. QED
  BY <1>1, <1>2, <1>3, <1>4, <1>5, <1>6, <1>7, <1>8, <1>9, <1>10, <1>11, <1>12,
     <1>13, <1>14, <1>15
     DEF Next, Worker, Window, User

(* The first message of a sleep brings the wake-up (Notify).                *)
LEMMA WokenStep == ASSUME Inv, Next PROVE WokenOK'
<1> USE LinkAssumption, ConnectionAssumption
    DEF Inv, TypeOK, ConnOK, WokenOK, HasPending, Conns, endpoint, worker,
        retry, LinkAssumption, ConnectionAssumption
<1>1. ASSUME NEW p \in Pids, Authenticates(p) PROVE WokenOK'
  BY <1>1 DEF Authenticates
<1>2. ASSUME NEW p \in Pids, SshDies(p) PROVE WokenOK'
  BY <1>2, CutOffKeeps DEF SshDies
<1>3. ASSUME NEW c \in Conns, ConnThreads(c) PROVE WokenOK'
  <2> DEFINE r == conn[c]
  <2>0. /\ r \in ConnRecord /\ conn' = [conn EXCEPT ![c] = conn'[c]]
        /\ win' = win /\ link' = link /\ cur' = cur /\ (wake => wake')
    BY <1>3 DEF ConnThreads, Reader, Read, Admit, Notify, LeaveReader, Write, PathDies
  <2> HIDE DEF r
  <2>1. CASE c # cur
    BY <2>0, <2>1
  <2>2. CASE c = cur /\ Read(c)
    <3>1. r.rd = "read"
      BY <2>2 DEF Read, r
    <3>2. ASSUME NEW k \in Kinds,
                 conn' = [conn EXCEPT ![c].hand = k, ![c].rd = "admit", ![c].heard = @ + 1,
                            ![c].peer = IF k \in {"evict", "ended"} THEN "closed" ELSE @]
          PROVE  conn'[c].events = r.events
      BY <2>0, <3>2 DEF r, ConnRecord
    <3>3. ASSUME conn' = [conn EXCEPT ![c].events = Append(@, "eof"), ![c].rd = "final"]
          PROVE  conn'[c].rd = "final"
      BY <2>0, <3>3 DEF r, ConnRecord
    <3>4. conn'[c].rd = "final" \/ conn'[c].events = r.events
      BY <2>2, <3>2, <3>3 DEF Read
    <3>q. QED
      BY <2>0, <2>2, <3>1, <3>4 DEF r
  <2>3. CASE c = cur /\ Admit(c)
    <3>1. /\ r.rd = "admit"
          /\ \/ conn'[c].rd = "final"
             \/ conn'[c].rd = "wake" /\ conn'[c].events = Append(r.events, r.hand)
      BY SMTT(60), <2>0, <2>3 DEF Admit, r, ConnRecord
    <3>2. CASE r.events = <<>>
      <4>1. Len(Append(r.events, r.hand)) = 1
        BY <3>2
      <4>q. QED
        BY <2>0, <2>3, <3>1, <4>1
    <3>3. CASE r.events # <<>>
      BY <2>0, <2>3, <3>1, <3>3 DEF r
    <3>q. QED
      BY <3>2, <3>3
  <2>4. CASE c = cur /\ Notify(c)
    <3>1. /\ conn'[c].events = r.events /\ r.rd = "wake"
          /\ wake' = (wake \/ Len(r.events) <= 1)
      BY <2>0, <2>4 DEF Notify, r, ConnRecord
    <3>2. Len(r.events) \in Nat /\ (Len(r.events) = 0 => r.events = <<>>)
      BY <2>0 DEF ConnRecord
    <3>3. r.events # <<>> /\ win = "sleep" /\ link = "up" => wake \/ Len(r.events) = 1
      BY <2>4, <3>1 DEF r
    <3>4. r.events # <<>> /\ win = "sleep" /\ link = "up" => wake'
      <4>1. Len(r.events) = 1 => Len(r.events) <= 1
        OBVIOUS
      <4>q. QED
        BY <3>1, <3>3, <4>1, Zenon
    <3>q. QED
      BY <2>0, <2>4, <3>1, <3>4
  <2>5. CASE LeaveReader(c)
    BY <2>5 DEF LeaveReader
  <2>6. CASE c = cur /\ (Write(c) \/ PathDies(c))
    <3>1. CASE conn' = [conn EXCEPT ![c] = WriteFailed(@)]
      BY <2>0, <2>6, <3>1, CallsKeep DEF r
    <3>2. CASE conn' = [conn EXCEPT ![c].out = @ - 1]
      BY <2>0, <2>6, <3>2 DEF r, ConnRecord
    <3>3. CASE PathDies(c)
      BY <2>0, <2>6, <3>3 DEF PathDies, r, ConnRecord
    <3>q. QED
      BY <2>6, <3>1, <3>2, <3>3 DEF Write
  <2>q. QED
    BY SMTT(60), <1>3, <2>1, <2>2, <2>3, <2>4, <2>5, <2>6 DEF ConnThreads, Reader
<1>4. CASE Handshake
  BY <1>4 DEF Handshake, Other
<1>5. CASE Report
  BY <1>5 DEF Report, Other
<1>6. CASE Connect \/ Spawn \/ Register \/ AwaitReady
  BY <1>6 DEF Connect, Spawn, Register, AwaitReady, Alive, Stopped
<1>7. CASE Drain
  BY <1>7 DEF Drain, LoseLink
<1>8. CASE Timer \/ JoinOver \/ House \/ Rest \/ WakeUp
  BY <1>8 DEF Timer, JoinOver, House, Rest, WakeUp, StartAttempt, AttemptFailed,
              Adopt, Stopped
<1>9. CASE Exit \/ WaitForWorker \/ DropOver \/ SayGoodbye \/ ByeOver \/
           EndProcess
  BY <1>9 DEF Exit, WaitForWorker, DropOver, SayGoodbye, ByeOver, EndProcess, Stopped
<1>10. CASE UserInput
  BY <1>10 DEF UserInput
<1>11. CASE ReconnectNow \/ CloseWindow
  BY <1>11 DEF ReconnectNow, CloseWindow, StartAttempt, Stopped
<1>q. QED
  BY <1>1, <1>2, <1>3, <1>4, <1>5, <1>6, <1>7, <1>8, <1>9, <1>10, <1>11
     DEF Next, Worker, Window, User

(* The window that is opened has all of it.                                 *)
LEMMA Initially == ASSUME Init PROVE Inv
<1> USE LinkAssumption, ConnectionAssumption DEF Init, Pids, NoPid, Conns
<1>1. ConnOK
  BY FreshKeep DEF ConnOK
<1>2. TypeOK
  <2>1. \A c \in Conns : conn[c] \in {NoConn, Connected}
    OBVIOUS
  <2>2. \A c \in Conns : conn[c] \in ConnRecord /\ conn[c].events = <<>>
    BY <2>1, FreshKeep DEF NoConn, Connected
  <2>3. \A c \in Conns : Range(conn[c].events) = {}
    BY <2>2 DEF Range
  <2>5. ConnTypeOK
    BY ZenonT(60), <2>2, <2>3 DEF ConnTypeOK, ConnRecord
  <2>4. 0 \in 0..RetryBudget /\ MaxAsks \in 0..MaxAsks
    BY DEF LinkAssumption
  <2>q. QED
    BY <2>4, <2>5 DEF TypeOK
<1>3. BudgetOK /\ EndpointOK /\ TunnelOK
  BY DEF BudgetOK, EndpointOK, TunnelOK, Alive, Leaving
<1>4. SshOwned
  BY DEF SshOwned
<1>5. WokenOK
  BY DEF WokenOK, HasPending, Connected, NoConn
<1>q. QED
  BY <1>1, <1>2, <1>3, <1>4, <1>5 DEF Inv

LEMMA Stays == ASSUME Inv, [Next]_vars PROVE Inv'
<1>1. CASE Next
  BY <1>1, ConnStep, TypeStep, BudgetStep, EndpointStep, TunnelStep, OwnedStep,
     WokenStep DEF Inv
<1>2. CASE UNCHANGED vars
  BY <1>2 DEF Inv, vars, endpoint, worker, retry, TypeOK, ConnTypeOK, ConnOK,
     BudgetOK, EndpointOK, TunnelOK, SshOwned, WokenOK, Alive, Prompt
<1>q. QED
  BY <1>1, <1>2

LEMMA Always == Spec => []Inv
<1>1. Init => Inv
  BY Initially
<1>2. Inv /\ [Next]_vars => Inv'
  BY Stays
<1>q. QED
  BY <1>1, <1>2, PTL DEF Spec

-----------------------------------------------------------------------------

(* The types hold, and with them the budget of RETRY_BUDGET attempts and the *)
(* limit of the writer's queue.                                             *)
THEOREM TypeCorrect == Spec => []TypeOK
<1>1. Inv => TypeOK
  BY DEF Inv
<1>q. QED
  BY <1>1, Always, PTL

(* Every ssh that runs has somebody who stops it, and none outlives the      *)
(* process, wherever the worker was when the window was closed.             *)
THEOREM OwnedSsh == Spec => []SshOwned
<1>1. Inv => SshOwned
  BY DEF Inv
<1>q. QED
  BY <1>1, Always, PTL

(* The event loop never sleeps on messages without a wake-up on its way.    *)
THEOREM NeverSleepsOnMessages == Spec => []NoSleepOnMessages
<1>1. Inv => NoSleepOnMessages
  BY DEF Inv, WokenOK, NoSleepOnMessages
<1>q. QED
  BY <1>1, Always, PTL

=============================================================================
