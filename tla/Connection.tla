------------------------------ MODULE Connection ------------------------------
(***************************************************************************)
(* One connection of the client (client/connection.rs, client/outbound.rs): *)
(* its reader thread, the byte budget between that thread and the window,  *)
(* its writer thread, and the window's calls: send, poll_event and close.  *)
(* The operators take a connection c; Link says who calls them and when.   *)
(*                                                                         *)
(* A message is its kind: what it weighs in the backlog, whether it is     *)
(* answered, and whether it ends the connection.                           *)
(***************************************************************************)
EXTENDS Naturals, Sequences, SequencesExt

CONSTANTS
  Kinds,       \* what the server may send
  MaxBacklog,  \* MAX_BACKLOG_BYTES
  MaxOut,      \* MAX_MESSAGES: writes queued before the link counts as stalled
  MaxSent      \* bound: messages the server sends on one connection

ASSUME ConnectionAssumption ==
  /\ Kinds \subseteq {"text", "frame", "bad", "evict", "ended"}
  /\ MaxBacklog \in Nat \ {0} /\ MaxOut \in Nat \ {0} /\ MaxSent \in Nat

(* The window's connection, and one a reconnection is setting up.            *)
Conns == {1, 2}

VARIABLES
  conn,  \* connection -> both ends of its socket and what its threads are at
  wake   \* an event loop wake-up is posted

(* A frame weighs more than the whole budget; the reader's own last word is  *)
(* outside it.                                                               *)
Size(k) == CASE k = "frame" -> MaxBacklog + 1 [] k = "eof" -> 0 [] OTHER -> 1

NoConn == [peer |-> "none", heard |-> 0, shut |-> FALSE, rd |-> "none",
           hand |-> "none", events |-> <<>>, bytes |-> 0, closing |-> FALSE,
           out |-> 0, werr |-> FALSE]

Connected == [NoConn EXCEPT !.peer = "open", !.rd = "read"]

ConnTypeOK ==
  /\ wake \in BOOLEAN
  /\ \A c \in Conns :
       /\ conn[c].peer \in {"none", "open", "silent", "closed"}
       /\ conn[c].rd \in {"none", "read", "admit", "wake", "final", "gone"}
       /\ conn[c].hand \in Kinds \cup {"none"}
       /\ Range(conn[c].events) \subseteq Kinds \cup {"eof"}
       /\ conn[c].heard \in 0..MaxSent
       /\ conn[c].bytes \in Nat
       /\ conn[c].out \in 0..MaxOut
       /\ {conn[c].shut, conn[c].closing, conn[c].werr} \subseteq BOOLEAN

-----------------------------------------------------------------------------
(* The network.                                                              *)

(* The path dies under the connection: the other end is gone, or nothing     *)
(* gets through any more and neither end is told.                            *)
PathDies(c) ==
  /\ conn[c].peer = "open"
  /\ \E p \in {"silent", "closed"} : conn' = [conn EXCEPT ![c].peer = p]
  /\ UNCHANGED wake

-----------------------------------------------------------------------------
(* The reader thread.                                                        *)

(* read_message: the next message, or the end of the stream, which becomes   *)
(* the reader's last word.  A server that takes the client off the session   *)
(* closes the socket behind the Disconnect.                                  *)
Read(c) ==
  /\ conn[c].rd = "read"
  /\ \/ /\ conn[c].peer = "open" /\ ~conn[c].shut
        /\ conn[c].heard < MaxSent
        /\ \E k \in Kinds :
             conn' = [conn EXCEPT
               ![c].hand = k, ![c].rd = "admit", ![c].heard = @ + 1,
               ![c].peer = IF k \in {"evict", "ended"} THEN "closed" ELSE @]
     \/ /\ conn[c].shut \/ conn[c].peer = "closed"
        /\ conn' = [conn EXCEPT ![c].events = Append(@, "eof"), ![c].rd = "final"]
  /\ UNCHANGED wake

(* Backlog::admit: wait until the message fits; an empty backlog takes any.  *)
(* The send follows: nobody else puts anything in the channel.               *)
Admit(c) ==
  /\ conn[c].rd = "admit"
  /\ LET b == conn[c].bytes  s == Size(conn[c].hand) IN
     \/ /\ conn[c].closing
        /\ conn' = [conn EXCEPT ![c].hand = "none", ![c].rd = "final"]
     \/ /\ ~conn[c].closing
        /\ b = 0 \/ b + s <= MaxBacklog
        /\ conn' = [conn EXCEPT ![c].bytes = b + s, ![c].hand = "none",
                      ![c].events = Append(@, conn[c].hand), ![c].rd = "wake"]
  /\ UNCHANGED wake

(* One wake-up is enough for what is queued together.                        *)
Notify(c) ==
  /\ conn[c].rd = "wake"
  /\ wake' = (wake \/ Len(conn[c].events) <= 1)
  /\ conn' = [conn EXCEPT ![c].rd = "read"]

LeaveReader(c) ==
  /\ conn[c].rd = "final"
  /\ wake' = TRUE
  /\ conn' = [conn EXCEPT ![c].rd = "gone"]

Reader(c) == Read(c) \/ Admit(c) \/ Notify(c) \/ LeaveReader(c)

-----------------------------------------------------------------------------
(* The writer thread.  A failed write leaves its reason and takes the socket *)
(* down, which ends the read.                                                *)

Writing(r) == r.out > 0 /\ ~r.werr
MayFailToWrite(r) == Writing(r) /\ (r.shut \/ r.peer # "open")
WriteFailed(r) == [r EXCEPT !.out = 0, !.werr = TRUE, !.shut = TRUE]

Write(c) ==
  /\ \/ /\ Writing(conn[c]) /\ ~conn[c].shut
        /\ conn' = [conn EXCEPT ![c].out = @ - 1]
     \/ /\ MayFailToWrite(conn[c])
        /\ conn' = [conn EXCEPT ![c] = WriteFailed(@)]
  /\ UNCHANGED wake

-----------------------------------------------------------------------------
(* What the window does to a connection r, a record.                         *)

(* Outbound::send: queue it; a full queue is a stalled link and fails it.    *)
Sent(r) ==
  IF r.werr THEN r
  ELSE IF r.out = MaxOut THEN [r EXCEPT !.werr = TRUE, !.shut = TRUE]
  ELSE [r EXCEPT !.out = @ + 1]

(* poll_event and handle: [what, conn], where what is "none", "event", or    *)
(* why the connection ended: "write" (the writer's error), "quiet" (the      *)
(* LIVENESS_TIMEOUT), "protocol", or the message that ended it.  The writer  *)
(* may fail between the look at its error and the handling of the message.   *)
Answers(k) == k = "frame"

Taken(r) ==
  LET k == Head(r.events)
      left == [r EXCEPT !.events = Tail(@),
                        !.bytes = IF @ >= Size(k) THEN @ - Size(k) ELSE 0]
      after == IF Answers(k) THEN Sent(left) ELSE left
  IN CASE k \in {"evict", "ended", "eof"} -> [what |-> k, conn |-> left]
       [] k = "bad" -> [what |-> IF r.werr THEN "write" ELSE "protocol", conn |-> left]
       [] after.werr -> [what |-> "write", conn |-> after]
       [] OTHER -> [what |-> "event", conn |-> after]

Polled(r) ==
  IF r.werr THEN {[what |-> "write", conn |-> r]}
  ELSE IF r.events # <<>>
  THEN {Taken(q) : q \in {r} \cup IF MayFailToWrite(r) THEN {WriteFailed(r)} ELSE {}}
  ELSE {[what |-> w, conn |-> r] :
          w \in {"none"} \cup IF r.peer = "silent" THEN {"quiet"} ELSE {}}

Endings == {"write", "quiet", "protocol", "evict", "ended", "eof"}

HasPending(r) == r.events # <<>>

(* Fault: only the socket is taken down before the join.                     *)
ClosedSocketOnly(r) == [r EXCEPT !.shut = TRUE, !.out = 0]

(* close_socket up to the join: the backlog is closed first, so that a       *)
(* reader waiting for room leaves too, then the writer is stopped.           *)
Closed(r) == [r EXCEPT !.closing = TRUE, !.shut = TRUE, !.out = 0]

(* The join is over.                                                         *)
Joined(r) == r.rd \in {"none", "gone"}

=============================================================================
