------------------------------- MODULE Transfer -------------------------------
(***************************************************************************)
(* Chunked transfers (crates/proto/src/transfer.rs): the TransferManager   *)
(* at each end of a connection, the two streams between them, and what     *)
(* the client (connection.rs) and the session (engine.rs) do around it:    *)
(* requests, cancellation, the session's regular poll, and its file worker *)
(* (fileio.rs), which opens what is asked for and publishes what arrived   *)
(* under its name (atomic_file.rs) in a time of its own.                   *)
(*                                                                         *)
(* A step is what one end does with one message, or on one call. Chunks    *)
(* are numbered; their bytes are not modelled.                             *)
(***************************************************************************)
EXTENDS Integers, SequencesExt, FiniteSetsExt

CONSTANTS
  Transfers,    \* identifiers, numbers that no two transfers share
  Sender,       \* the end each one's bytes come from
  Asked,        \* those that begin with a FileRequest from the receiver
  InMemory,     \* those the receiver holds in memory, clipboard images
  Size,         \* chunks in each
  Window,       \* WINDOW_CHUNKS
  Budget,       \* GLOBAL_WINDOW_CHUNKS
  MaxIncoming,  \* incoming transfers one end takes
  MaxActive,    \* transfers one end may have when it takes a FileRequest
  MaxMemory,    \* MAX_CONCURRENT_MEMORY_TRANSFERS
  MaxFaults     \* bound on cancellations, refusals and i/o errors

Ends == {"client", "server"}

ASSUME TransferAssumption ==
  /\ IsFiniteSet(Transfers) /\ Transfers \subseteq Nat
  /\ Sender \in [Transfers -> Ends]
  /\ Asked \subseteq Transfers
  /\ InMemory \subseteq Transfers \ Asked
  /\ Size \in [Transfers -> Nat]
  /\ Window \in Nat \ {0} /\ Budget \in Nat /\ Window <= Budget
  /\ {MaxIncoming, MaxActive, MaxMemory, MaxFaults} \subseteq Nat

VARIABLES
  sending,    \* TransferManager::outgoing, of both ends: an id has one sender
  accepted,   \* Outgoing::accepted
  sent,       \* TransferSender::next_seq
  acked,      \* TransferSender::acked
  receiving,  \* TransferManager::incoming, of both ends
  got,        \* TransferReceiver::next_seq
  pending,    \* TransferManager::pending, of both ends
  wanted,     \* downloads (client) and staging_downloads (server)
  opening,    \* the server's pending_downloads
  net,        \* messages on their way to each end
  file,       \* what has become of the file that t is received into
  verdict,    \* what each end was last told became of a transfer
  begun,      \* transfers that have been asked for or offered
  faults

outVars == <<sending, accepted, sent, acked>>
inVars  == <<receiving, got, pending, wanted>>
vars == <<outVars, inVars, opening, net, file, verdict, begun, faults>>

Other(e) == IF e = "client" THEN "server" ELSE "client"
Receiver(t) == Other(Sender[t])
From(e) == {t \in Transfers : Sender[t] = e}
To(e) == Transfers \ From(e)

(* Sink::Memory keeps an image, Sink::Stream writes a file, at the server   *)
(* through a FileWriter and the worker.                                     *)
OnDisk(t) == t \notin InMemory
ByWorker(t) == OnDisk(t) /\ Receiver(t) = "server"

OfferMsg(t) == [type |-> "offer", id |-> t]
RequestMsg(t) == [type |-> "request", id |-> t]
AcceptMsg(t, ok) == [type |-> "accept", id |-> t, ok |-> ok]
DataMsg(t, seq) == [type |-> "data", id |-> t, seq |-> seq]
AckMsg(t, seq) == [type |-> "ack", id |-> t, seq |-> seq]
EndMsg(t, ok) == [type |-> "end", id |-> t, ok |-> ok]

Messages ==
  [type : {"offer", "request"}, id : Transfers]
    \cup [type : {"accept", "end"}, id : Transfers, ok : BOOLEAN]
    \cup [type : {"data", "ack"}, id : Transfers, seq : Nat]

TypeOK ==
  /\ accepted \subseteq Transfers /\ sending \subseteq Transfers
  /\ sent \in [Transfers -> Nat] /\ acked \in [Transfers -> Nat]
  /\ receiving \subseteq Transfers /\ got \in [Transfers -> Nat]
  /\ \A t \in Transfers : acked[t] <= sent[t] /\ sent[t] <= Size[t] /\ got[t] <= sent[t]
  /\ pending \subseteq Asked /\ wanted \subseteq Asked
  /\ opening \subseteq Asked \cap From("server")
  /\ net \in [Ends -> Seq(Messages)]
  /\ file \in [Transfers -> {"none", "staged", "queued", "publishing", "placed", "published",
                             "refused", "stray"}]
  /\ verdict \in [Ends -> [Transfers -> {"none", "sent", "completed", "failed", "cancelled"}]]
  /\ begun \subseteq Transfers
  /\ faults \in 0..MaxFaults

Init ==
  /\ sending = {} /\ accepted = {}
  /\ sent = [t \in Transfers |-> 0] /\ acked = [t \in Transfers |-> 0]
  /\ receiving = {} /\ got = [t \in Transfers |-> 0]
  /\ pending = {} /\ wanted = {} /\ opening = {}
  /\ net = [e \in Ends |-> <<>>]
  /\ file = [t \in Transfers |-> "none"]
  /\ verdict = [e \in Ends |-> [t \in Transfers |-> "none"]]
  /\ begun = {}
  /\ faults = 0

(* TransferManager::active_ids.                                             *)
Active(e) == (sending \cap From(e)) \cup ((receiving \cup pending) \cap To(e))

(* TransferSender: all read from the source, and all of that acknowledged.  *)
(* An empty transfer is drained before it is ever pumped.                   *)
Drained(t) == sent[t] = Size[t]
SenderComplete(t) == Drained(t) /\ acked[t] = sent[t]

Tell(e, S, v) == verdict' = [verdict EXCEPT ![e] = [t \in Transfers |-> IF t \in S THEN v ELSE @[t]]]
Say(e, msgs) == net' = [net EXCEPT ![Other(e)] = @ \o msgs]
Head1(e, type) == net[e] # <<>> /\ Head(net[e]).type = type

(* Take the message at the head of e's stream and answer it.                *)
Reply(e, msgs) == net' = [net EXCEPT ![e] = Tail(@), ![Other(e)] = @ \o msgs]

Fault == faults < MaxFaults /\ faults' = faults + 1

-----------------------------------------------------------------------------
(* Beginning: Client::send_file, offer_bytes; request_file and the staging  *)
(* of copied files.                                                         *)

Offer(t) ==
  /\ t \in Transfers \ (Asked \cup begun)
  /\ begun' = begun \cup {t}
  /\ sending' = sending \cup {t}
  /\ Say(Sender[t], <<OfferMsg(t)>>)
  /\ UNCHANGED <<accepted, sent, acked, inVars, opening, file, verdict, faults>>

Request(t) ==
  /\ t \in Asked \ begun
  /\ begun' = begun \cup {t}
  /\ pending' = pending \cup {t}
  /\ wanted' = wanted \cup {t}
  /\ Say(Receiver(t), <<RequestMsg(t)>>)
  /\ UNCHANGED <<outVars, receiving, got, opening, file, verdict, faults>>

(* A file whose adapter is dropped: what is staged is deleted; a job in the *)
(* queue stays there until the worker finds its adapter gone; and the       *)
(* worker goes on with the one it is at.                                    *)
Dropped(t) == IF file[t] \in {"staged", "refused"} THEN [file EXCEPT ![t] = "none"] ELSE file

(* What e has under this id is let go of, the other end's is not.           *)
Forget(e, t) ==
  /\ file' = IF t \in receiving \cap To(e) THEN Dropped(t) ELSE file
  /\ sending' = sending \ ({t} \cap From(e))
  /\ receiving' = receiving \ ({t} \cap To(e))
  /\ pending' = pending \ ({t} \cap To(e))
  /\ wanted' = wanted \ ({t} \cap To(e))

(* Fault: the other end is not told.                                        *)
CancelQuietly(e, t) ==
  /\ t \in Active(e)
  /\ e = "server" => t \in wanted
  /\ Fault
  /\ Forget(e, t)
  /\ Tell(e, {t}, "cancelled")
  /\ UNCHANGED <<net, accepted, sent, acked, got, opening, begun>>

(* cancel: no longer wanted, a replaced clipboard, a reader that stopped    *)
(* waiting. The end that cancels hears nothing of it.                       *)
Cancel(e, t) ==
  /\ t \in Active(e)
  /\ e = "server" => t \in wanted
  /\ Fault
  /\ Forget(e, t)
  /\ Tell(e, {t}, "cancelled")
  /\ Say(e, <<EndMsg(t, FALSE)>>)
  /\ UNCHANGED <<accepted, sent, acked, got, opening, begun>>

-----------------------------------------------------------------------------
(* FileRequest. The client opens the file there and then, the server on the *)
(* file worker, whose answer, failure or timeout comes later.               *)

Busy(e, t) ==
  \/ t \in Active(e) \cup opening
  \/ e = "client" /\ Cardinality(sending \cap From(e)) >= MaxActive
  \/ e = "server" /\ (Cardinality(opening) >= MaxActive \/ Cardinality(Active(e)) >= MaxActive)

RecvRequest(e) ==
  /\ Head1(e, "request")
  /\ LET t == Head(net[e]).id
     IN \/ /\ Busy(e, t)
           /\ Reply(e, <<EndMsg(t, FALSE)>>)
           /\ UNCHANGED <<sending, opening, faults>>
        \/ /\ ~Busy(e, t) /\ e = "server"
           /\ opening' = opening \cup {t}
           /\ Reply(e, <<>>)
           /\ UNCHANGED <<sending, faults>>
        \/ /\ ~Busy(e, t) /\ e = "client"
           /\ sending' = sending \cup {t}
           /\ Reply(e, <<OfferMsg(t)>>)
           /\ UNCHANGED <<opening, faults>>
        \/ /\ ~Busy(e, t) /\ e = "client"
           /\ Fault
           /\ Reply(e, <<EndMsg(t, FALSE)>>)
           /\ UNCHANGED <<sending, opening>>
  /\ UNCHANGED <<accepted, sent, acked, inVars, file, verdict, begun>>

Opened(t) ==
  /\ t \in opening
  /\ opening' = opening \ {t}
  /\ sending' = sending \cup {t}
  /\ Say("server", <<OfferMsg(t)>>)
  /\ UNCHANGED <<accepted, sent, acked, inVars, file, verdict, begun, faults>>

OpenFailed(t) ==
  /\ t \in opening
  /\ Fault
  /\ opening' = opening \ {t}
  /\ Say("server", <<EndMsg(t, FALSE)>>)
  /\ UNCHANGED <<outVars, inVars, file, verdict, begun>>

-----------------------------------------------------------------------------
(* TransferManager::pump. The transfers accepted take their turns from some *)
(* starting point; each sends what its window, the budget left, its source  *)
(* and its size allow. A source on the file worker may have less to give    *)
(* for now; one that fails, or turns out short, ends its transfer.          *)

(* In order of their identifiers, and after the last one the first.         *)
Turns(S) ==
  LET n == Cardinality(S)
  IN {q \in SetToSeqs(S) : Cardinality({i \in 1..n : q[i] >= q[1 + (i % n)]}) <= 1}

(* The chunks of `live` sent and not acknowledged (in_flight, summed).      *)
InFlight(live, acks, upto) == UNION {{<<t, k>> : k \in acks[t]..(upto[t] - 1)} : t \in live}

BudgetLeft(live, acks) == Max({0, Budget - Cardinality(InFlight(live, acks, sent))})

(* may_send, with something left of what the offer promised.                *)
Room(t, acks) == Min({Window - (sent[t] - acks[t]), Size[t] - sent[t]})

(* Fault: every transfer pumped has the whole budget.                       *)
TurnOfItsOwn(acc, t, acks, supply, broken) ==
  LET open == Min({acc.budget, Room(t, acks)})
      n == Min({open, supply[t]})
  IN [budget |-> acc.budget,
      sent   |-> [acc.sent EXCEPT ![t] = @ + n],
      chunks |-> acc.chunks \o [i \in 1..n |-> DataMsg(t, sent[t] + i - 1)],
      failed |-> acc.failed \cup (IF t \in broken /\ n < open THEN {t} ELSE {})]

Turn(acc, t, acks, supply, broken) ==
  LET open == Min({acc.budget, Room(t, acks)})
      n == Min({open, supply[t]})
  IN [budget |-> acc.budget - n,
      sent   |-> [acc.sent EXCEPT ![t] = @ + n],
      chunks |-> acc.chunks \o [i \in 1..n |-> DataMsg(t, sent[t] + i - 1)],
      failed |-> acc.failed \cup (IF t \in broken /\ n < open THEN {t} ELSE {})]

(* The pump after each of the turns.                                        *)
Rounds(start, order, acks, supply, broken) ==
  LET after[i \in 0..Len(order)] ==
        IF i = 0 THEN start ELSE Turn(after[i - 1], order[i], acks, supply, broken)
  IN after

(* What e's sources have at hand: a client's are plain files.               *)
Supplies(e, S, broken, least) ==
  IF e = "server" THEN [S -> least..Budget]
  ELSE {f \in [S -> 0..Budget] : \A t \in S \ broken : f[t] = Budget}

(* The end of each of S, and whether it is among those that went well.      *)
EndsOf(S, ok) == [i \in 1..Cardinality(S) |-> EndMsg(SetToSeq(S)[i], SetToSeq(S)[i] \in ok)]

(* e pumps, with `ready` accepted and `acks` acknowledged, leaves `inbox` of *)
(* its stream, and tells the sender of each of `done`, and its own end, how *)
(* that publication went; those in `bad` failed.                            *)
Pump(e, ready, acks, least, inbox, done, bad) ==
  LET mine == sending \cap From(e)
      budget == BudgetLeft(mine, acks)
      able == {t \in ready \cap mine : budget > 0 /\ Room(t, acks) > 0}
      start == [budget |-> budget, sent |-> sent, chunks |-> <<>>, failed |-> {}]
  IN \E order \in Turns(able), broken \in SUBSET able :
       /\ faults + Cardinality(broken) <= MaxFaults
       /\ faults' = faults + Cardinality(broken)
       /\ \E supply \in Supplies(e, able, broken, least) :
            LET r == Rounds(start, order, acks, supply, broken)[Len(order)]
            IN /\ r.failed = broken
               /\ sent' = r.sent
               /\ sending' = sending \ broken
               /\ net' = [net EXCEPT ![e] = inbox,
                    ![Other(e)] = @ \o EndsOf(done, done \ bad) \o r.chunks \o EndsOf(broken, {})]
               /\ verdict' = [verdict EXCEPT ![e] = [t \in Transfers |->
                    IF t \in bad \cup broken THEN "failed"
                    ELSE IF t \in done THEN "completed" ELSE @[t]]]

(* TransferAccept: a transfer declined is over; one accepted joins the pump. *)
RecvAccept(e) ==
  /\ Head1(e, "accept")
  /\ UNCHANGED <<inVars, opening, file, begun>>
  /\ LET t == Head(net[e]).id
     IN \/ /\ t \notin sending
           /\ Reply(e, <<>>)
           /\ UNCHANGED <<outVars, verdict, faults>>
        \/ /\ t \in sending /\ ~Head(net[e]).ok
           /\ sending' = sending \ {t}
           /\ Tell(e, {t}, "failed")
           /\ Reply(e, <<>>)
           /\ UNCHANGED <<accepted, sent, acked, faults>>
        \/ /\ t \in sending /\ Head(net[e]).ok
           /\ accepted' = accepted \cup {t}
           /\ Pump(e, accepted \cup {t}, acked, 0, Tail(net[e]), {}, {})
           /\ UNCHANGED acked

(* TransferAck, cumulative, and a pump even if the transfer is gone: its    *)
(* chunks no longer count.                                                  *)
RecvAck(e) ==
  /\ Head1(e, "ack")
  /\ UNCHANGED <<accepted, inVars, opening, file, begun>>
  /\ LET t == Head(net[e]).id
         seq == Head(net[e]).seq
         acks == IF t \in sending /\ acked[t] <= seq /\ seq < sent[t]
                 THEN [acked EXCEPT ![t] = seq + 1] ELSE acked
     IN /\ acked' = acks
        /\ Pump(e, accepted, acks, 0, Tail(net[e]), {}, {})

-----------------------------------------------------------------------------
(* Receiving. complete_incoming flushes the sink: done, failed, or, with a  *)
(* FileWriter, blocked until the worker has published the file (it may have *)
(* done so already).                                                        *)

Finishes(t) == {"completed", "failed"} \cup (IF ByWorker(t) THEN {"blocked"} ELSE {})

FileAfter(how) ==
  CASE how = "completed" -> "published" [] how = "blocked" -> "queued" [] how = "failed" -> "none"

Finish(e, t, how, before) ==
  /\ IF how = "failed" THEN Fault ELSE UNCHANGED faults
  /\ file' = IF OnDisk(t) THEN [file EXCEPT ![t] = FileAfter(how)] ELSE file
  /\ IF how = "blocked"
     THEN Reply(e, before) /\ UNCHANGED <<wanted, verdict>>
     ELSE /\ Reply(e, before \o <<EndMsg(t, how = "completed")>>)
          /\ wanted' = wanted \ {t}
          /\ Tell(e, {t}, how)

Full(e, t) ==
  \/ t \in Active(e) \ pending
  \/ Cardinality(receiving \cap To(e)) >= MaxIncoming
  \/ t \in InMemory /\ Cardinality(receiving \cap To(e) \cap InMemory) >= MaxMemory

(* TransferOffer. The offer is the answer to the request for its id; only   *)
(* what is still wanted, or was never ours to ask for, is taken.            *)
RecvOffer(e) ==
  /\ Head1(e, "offer")
  /\ LET t == Head(net[e]).id
         welcome == ~Full(e, t) /\ (t \in Asked => t \in wanted)
     IN /\ pending' = pending \ {t}
        /\ \/ /\ \/ ~welcome /\ UNCHANGED faults
                 \/ welcome /\ Fault
              /\ Reply(e, <<AcceptMsg(t, FALSE)>>)
              /\ wanted' = wanted \ {t}
              /\ IF e = "client" \/ t \in wanted THEN Tell(e, {t}, "failed") ELSE UNCHANGED verdict
              /\ UNCHANGED <<receiving, file>>
           \/ /\ welcome /\ Size[t] > 0
              /\ receiving' = receiving \cup {t}
              /\ file' = IF OnDisk(t) THEN [file EXCEPT ![t] = "staged"] ELSE file
              /\ Reply(e, <<AcceptMsg(t, TRUE)>>)
              /\ UNCHANGED <<wanted, verdict, faults>>
           \/ /\ welcome /\ Size[t] = 0
              /\ \E how \in Finishes(t) :
                   /\ receiving' = IF how = "blocked" THEN receiving \cup {t} ELSE receiving
                   /\ Finish(e, t, how, <<AcceptMsg(t, TRUE)>>)
  /\ UNCHANGED <<outVars, got, opening, begun>>

(* Fault: the record of a transfer whose sink failed stays in the table.    *)
RecvDataKeepingRecord(e) ==
  /\ Head1(e, "data")
  /\ LET t == Head(net[e]).id
         seq == Head(net[e]).seq
         next == seq = got[t] /\ seq < Size[t]
     IN \/ /\ t \notin receiving
           /\ Reply(e, <<>>)
           /\ UNCHANGED <<receiving, got, wanted, file, verdict, faults>>
        \/ /\ t \in receiving
           /\ IF next THEN Fault ELSE UNCHANGED faults
           /\ wanted' = wanted \ {t}
           /\ Reply(e, <<EndMsg(t, FALSE)>>)
           /\ Tell(e, {t}, "failed")
           /\ UNCHANGED <<receiving, got, file>>
        \/ /\ t \in receiving /\ next
           /\ got' = [got EXCEPT ![t] = @ + 1]
           /\ IF got'[t] = Size[t]
              THEN \E how \in Finishes(t) :
                     /\ receiving' = IF how = "blocked" THEN receiving ELSE receiving \ {t}
                     /\ Finish(e, t, how, <<AckMsg(t, seq)>>)
              ELSE /\ Reply(e, <<AckMsg(t, seq)>>)
                   /\ UNCHANGED <<receiving, wanted, file, verdict, faults>>
  /\ UNCHANGED <<outVars, pending, opening, begun>>

(* TransferData: dropped, refused (out of order, more than was promised, or *)
(* not written), or taken.                                                  *)
RecvData(e) ==
  /\ Head1(e, "data")
  /\ LET t == Head(net[e]).id
         seq == Head(net[e]).seq
         next == seq = got[t] /\ seq < Size[t]
     IN \/ /\ t \notin receiving
           /\ Reply(e, <<>>)
           /\ UNCHANGED <<receiving, got, wanted, file, verdict, faults>>
        \/ /\ t \in receiving
           /\ IF next THEN Fault ELSE UNCHANGED faults
           /\ receiving' = receiving \ {t}
           /\ wanted' = wanted \ {t}
           /\ file' = Dropped(t)
           /\ Reply(e, <<EndMsg(t, FALSE)>>)
           /\ Tell(e, {t}, "failed")
           /\ UNCHANGED got
        \/ /\ t \in receiving /\ next
           /\ got' = [got EXCEPT ![t] = @ + 1]
           /\ IF got'[t] = Size[t]
              THEN \E how \in Finishes(t) :
                     /\ receiving' = IF how = "blocked" THEN receiving ELSE receiving \ {t}
                     /\ Finish(e, t, how, <<AckMsg(t, seq)>>)
              ELSE /\ Reply(e, <<AckMsg(t, seq)>>)
                   /\ UNCHANGED <<receiving, wanted, file, verdict, faults>>
  /\ UNCHANGED <<outVars, pending, opening, begun>>

(* Fault: an end for a transfer already settled is reported all the same.   *)
RecvEndReported(e) ==
  /\ Head1(e, "end")
  /\ LET t == Head(net[e]).id
         ok == Head(net[e]).ok
     IN /\ Forget(e, t)
        /\ opening' = IF e = "server" /\ ~ok THEN opening \ {t} ELSE opening
        /\ Tell(e, {t}, IF ok /\ t \in sending /\ SenderComplete(t) THEN "sent" ELSE "failed")
        /\ Reply(e, <<>>)
  /\ UNCHANGED <<accepted, sent, acked, got, begun, faults>>

(* TransferEnd: ok only from a receiver, whose word the sender checks. The  *)
(* window it frees is not pumped here.                                      *)
RecvEnd(e) ==
  /\ Head1(e, "end")
  /\ LET t == Head(net[e]).id
         ok == Head(net[e]).ok
     IN /\ Forget(e, t)
        /\ opening' = IF e = "server" /\ ~ok THEN opening \ {t} ELSE opening
        /\ IF t \in Active(e)
           THEN Tell(e, {t}, IF ok /\ t \in sending /\ SenderComplete(t) THEN "sent" ELSE "failed")
           ELSE UNCHANGED verdict
        /\ Reply(e, <<>>)
  /\ UNCHANGED <<accepted, sent, acked, got, begun, faults>>

(* The file worker: it takes a queued publication up if there is anyone     *)
(* left to publish for, one at a time; the file gets its name or does not   *)
(* (a full disk, or a name that is taken); and only then does it answer.    *)

Take(t) ==
  /\ file[t] = "queued"
  /\ \A u \in Transfers : file[u] \notin {"publishing", "placed"}
  /\ file' = [file EXCEPT ![t] = IF t \in receiving THEN "publishing" ELSE "none"]
  /\ UNCHANGED <<outVars, inVars, opening, net, verdict, begun, faults>>

(* A file that gets no name changes nothing that can be seen before the     *)
(* answer.                                                                  *)
Persist(t) ==
  /\ file[t] = "publishing"
  /\ \/ /\ file' = [file EXCEPT ![t] = "placed"]
        /\ UNCHANGED faults
     \/ /\ file' = [file EXCEPT ![t] = IF t \in receiving THEN "refused" ELSE "none"]
        /\ Fault
  /\ UNCHANGED <<outVars, inVars, opening, net, verdict, begun>>

(* The answer about a file that has its name, which nobody may be left to   *)
(* read.                                                                    *)
Answer(t) ==
  /\ file[t] = "placed"
  /\ file' = [file EXCEPT ![t] = IF t \in receiving THEN "published" ELSE "stray"]
  /\ UNCHANGED <<outVars, inVars, opening, net, verdict, begun, faults>>

(* Whole at the server, and not answered by the worker yet.                 *)
Whole == {t \in receiving \cap To("server") : got[t] = Size[t]}
Awaited == {t \in Whole : file[t] \notin {"published", "refused"}}

AfterPoll(bad) ==
  [t \in Transfers |-> IF t \in bad /\ file[t] \in {"staged", "refused"} THEN "none" ELSE file[t]]

(* Fault: a poll only settles publications.                                 *)
PollPublishing(late, least) ==
  LET done == (Whole \ Awaited) \cup late
      bad == {t \in done : file[t] # "published"}
      ends == SetToSeq(done)
  IN /\ receiving' = receiving \ done
     /\ wanted' = wanted \ done
     /\ file' = AfterPoll(bad)
     /\ Say("server", [i \in 1..Len(ends) |-> EndMsg(ends[i], ends[i] \notin bad)])
     /\ verdict' = [verdict EXCEPT !["server"] = [t \in Transfers |->
          IF t \in bad THEN "failed" ELSE IF t \in done THEN "completed" ELSE @[t]]]
     /\ UNCHANGED <<outVars, got, pending, opening, begun, faults>>

(* Fault: a time limit that has passed hides an answer that has come.       *)
PollLimitFirst(late, least) ==
  \E hidden \in SUBSET Whole :
    LET done == (Whole \ Awaited) \cup late
        bad == {t \in done : file[t] # "published"} \cup hidden
    IN /\ receiving' = receiving \ (done \cup hidden)
       /\ wanted' = wanted \ (done \cup hidden)
       /\ file' = AfterPoll(bad)
       /\ Pump("server", accepted, acked, least, net["server"], done \cup hidden, bad)
       /\ UNCHANGED <<accepted, acked, got, pending, opening, begun>>

(* The server's poll, on FileReady and every 250 ms: what the worker has    *)
(* answered is settled, what it has been at for WORKER_TIMEOUT (`late`) is  *)
(* given up, and everything is pumped. The client never polls: its sources  *)
(* and sinks are plain files.                                               *)
PollWith(late, least) ==
  LET done == (Whole \ Awaited) \cup late
      bad == {t \in done : file[t] # "published"}
  IN /\ receiving' = receiving \ done
     /\ wanted' = wanted \ done
     /\ UNCHANGED <<accepted, acked, got, pending, opening, begun>>
     /\ file' = AfterPoll(bad)
     /\ Pump("server", accepted, acked, least, net["server"], done, bad)

Poll == \E late \in SUBSET Awaited : PollWith(late, 0)

(* The worker has answered every read, and every publication or none.       *)
FullPoll ==
  /\ Whole # {} \/ \E t \in accepted \cap sending \cap From("server") : sent[t] < Size[t]
  /\ PollWith(Awaited, Budget)

Deliver(e) ==
  \/ RecvRequest(e) \/ RecvOffer(e) \/ RecvAccept(e) \/ RecvData(e) \/ RecvAck(e) \/ RecvEnd(e)

Next ==
  \/ \E t \in Transfers : Offer(t) \/ Request(t) \/ Opened(t) \/ OpenFailed(t)
  \/ \E e \in Ends, t \in Transfers : Cancel(e, t)
  \/ \E e \in Ends : Deliver(e)
  \/ \E t \in Transfers : Take(t) \/ Persist(t) \/ Answer(t)
  \/ Poll

Spec == Init /\ [][Next]_vars

(* Both ends read what reaches them, and the file worker answers: an open   *)
(* or a publication it does not is failed after WORKER_TIMEOUT, and it need *)
(* never get to a publication. Nobody need ever begin a transfer, or cancel *)
(* one.                                                                     *)
FairSpec ==
  /\ Spec
  /\ \A e \in Ends : WF_vars(Deliver(e))
  /\ WF_vars(\E t \in Transfers : Opened(t) \/ OpenFailed(t))
  /\ WF_vars(FullPoll)

-----------------------------------------------------------------------------
OnTheWay(e, t, type) == {i \in DOMAIN net[e] : net[e][i].type = type /\ net[e][i].id = t}

(* No transfer has more than its window unacknowledged, nor all those of    *)
(* one end more than the global one (may_send, pump).                       *)
WindowsKept ==
  /\ \A t \in sending : sent[t] - acked[t] \in 0..Window
  /\ \A e \in Ends : Cardinality(InFlight(sending \cap From(e), acked, sent)) <= Budget

(* The chunks on the way to a receiver are the next it expects, in order,   *)
(* and none that was sent is missing: the order check of                    *)
(* TransferReceiver::chunk never fires between two well behaved ends,       *)
(* whatever else is cancelled or fails.                                     *)
ChunksInOrder ==
  \A t \in receiving :
    LET chunks == OnTheWay(Receiver(t), t, "data")
        seq(i) == net[Receiver(t)][i].seq
    IN /\ \A i, j \in chunks : i < j => seq(i) < seq(j)
       /\ {seq(i) : i \in chunks} = got[t]..(sent[t] - 1)

(* The ends agree on success, and so does the disk: the sender is told      *)
(* "sent" only of what the receiver has completed, and of what the receiver *)
(* completed the sender is told nothing else, unless it cancelled meanwhile;*)
(* what was completed is a file under its name; and a file the worker has   *)
(* answered for in its transfer's time is reported so, the time limit       *)
(* passed or not, unless an end cancelled (FileWriter::flush asks for the   *)
(* answer before it looks at the clock). One that has its name and no       *)
(* answer yet may still be failed.                                          *)
EndsAgree ==
  \A t \in Transfers :
    LET receiver == verdict[Receiver(t)][t]
        sender == verdict[Sender[t]][t]
    IN /\ sender = "sent" => receiver = "completed"
       /\ receiver = "completed" => t \in sending \/ sender \in {"sent", "cancelled"}
       /\ OnDisk(t) /\ receiver = "completed" => file[t] = "published"
       /\ file[t] = "published" =>
            t \in receiving \/ receiver = "completed" \/ "cancelled" \in {receiver, sender}

(* A transfer reported as failed leaves no file ("only after the entire     *)
(* transfer has succeeded", atomic_file.rs:1). It does not hold: the worker *)
(* is at the publication, or has made it and not answered, when the time    *)
(* limit passes. See the README.                                            *)
FailedLeavesNothing ==
  \A t \in Transfers :
    verdict[Receiver(t)][t] = "failed" => file[t] \notin {"placed", "published", "stray"}

(* Every record either end keeps has something that will end it: a record   *)
(* at the other end, or the message that settles it already on its way.     *)
NobodyWaitsAlone ==
  /\ \A t \in pending :
       \/ OnTheWay(Sender[t], t, "request") # {} \/ t \in opening \/ t \in sending
       \/ OnTheWay(Receiver(t), t, "offer") # {} \/ OnTheWay(Receiver(t), t, "end") # {}
  /\ \A t \in receiving : t \in sending \/ OnTheWay(Receiver(t), t, "end") # {}
  /\ \A t \in sending :
       \/ t \in receiving
       \/ OnTheWay(Receiver(t), t, "offer") # {}
       \/ OnTheWay(Sender[t], t, "accept") # {} \/ OnTheWay(Sender[t], t, "end") # {}

(* Each end is told once what became of a transfer. Only a client that      *)
(* cancelled can hear of it again, and never that it succeeded.             *)
ToldOnce ==
  [][\A e \in Ends, t \in Transfers :
       verdict[e][t] # "none" =>
         verdict'[e][t] \in {verdict[e][t]}
           \cup (IF e = "client" /\ verdict[e][t] = "cancelled" THEN {"failed"} ELSE {})]_vars

(* Every request, offer and incoming transfer comes to an end, at both ends *)
(* (an identifier is used once, so there are only so many).                 *)
EveryTransferEnds == <>[](\A e \in Ends : Active(e) = {})

=============================================================================
