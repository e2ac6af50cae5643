---------------------------- MODULE TransferProofs ----------------------------
(***************************************************************************)
(* Proofs about Transfer, for any transfers, sizes, windows and limits:    *)
(* that the windows are kept, that chunks arrive in order, that both ends   *)
(* and the disk agree how a transfer ended, that no record is left to wait  *)
(* alone, and that each end is told once.                                   *)
(*                                                                         *)
(* The argument goes transfer by transfer. Each of its records and files is *)
(* one of a few facts, and what matters of the two streams is what is said  *)
(* of it there, and in which order.                                         *)
(***************************************************************************)
EXTENDS Transfer, SequenceTheorems, FiniteSetTheorems, WellFoundedInduction, TLAPS

-----------------------------------------------------------------------------
(* What a stream says of a transfer.                                        *)
At(x, i, t, ty) == x[i].type = ty /\ x[i].id = t
Has(x, t, ty) == \E i \in DOMAIN x : At(x, i, t, ty)
Says(x, m) == \E i \in DOMAIN x : x[i] = m

(* A request, an offer or its answer: there is one of them at a time.       *)
HandshakeAt(x, i, t) == x[i].type \in {"request", "offer", "accept"} /\ x[i].id = t
Handshake(x, t) == \E i \in DOMAIN x : HandshakeAt(x, i, t)
OneHandshake(x, t) ==
  \A i, j \in DOMAIN x : HandshakeAt(x, i, t) /\ HandshakeAt(x, j, t) => i = j

(* All of one kind come before all of the other.                            *)
Precedes(x, t, first, second) ==
  \A i, j \in DOMAIN x : At(x, i, t, first) /\ At(x, j, t, second) => i < j

(* The numbers from lo up to hi, each once and in order.                    *)
Counts(x, t, ty, lo, hi) ==
  /\ \A i \in DOMAIN x : At(x, i, t, ty) => x[i].seq >= lo /\ x[i].seq < hi
  /\ \A i, j \in DOMAIN x : i < j /\ At(x, i, t, ty) /\ At(x, j, t, ty) => x[i].seq < x[j].seq
  /\ \A k \in lo..(hi - 1) : \E i \in DOMAIN x : At(x, i, t, ty) /\ x[i].seq = k

Below(x, t, ty, hi) == \A i \in DOMAIN x : At(x, i, t, ty) => x[i].seq < hi

-----------------------------------------------------------------------------
ToSender(t) == net[Sender[t]]
ToReceiver(t) == net[Receiver(t)]
ToldSender(t) == verdict[Sender[t]][t]
ToldReceiver(t) == verdict[Receiver(t)][t]

(* The parts below are said with q on its way to the sender, acc accepted   *)
(* and acks acknowledged: a step that pumps has changed those before.       *)

(* Not offered yet; and offered, but the offer not come to its end.         *)
Early(t, q) == t \notin begun \/ Has(q, t, "request") \/ t \in opening
Unanswered(t, q) == Early(t, q) \/ Has(ToReceiver(t), t, "offer")

(* Nothing is known of a transfer that has not begun.                       *)
FreshOK(t, q) ==
  t \notin begun =>
    /\ t \notin pending /\ t \notin wanted /\ t \notin opening
    /\ ~Handshake(q, t) /\ ~Has(q, t, "end")
    /\ ~Has(ToReceiver(t), t, "offer") /\ ~Has(ToReceiver(t), t, "end")
    /\ ToldReceiver(t) = "none"

(* Each message goes one way, and one step of the handshake is taken at a   *)
(* time.                                                                    *)
StepOK(t, q, acc) ==
  /\ ~Has(ToReceiver(t), t, "request") /\ ~Has(ToReceiver(t), t, "accept") /\ ~Has(ToReceiver(t), t, "ack")
  /\ ~Has(q, t, "offer") /\ ~Has(q, t, "data")
  /\ OneHandshake(q, t) /\ OneHandshake(ToReceiver(t), t)
  /\ Handshake(q, t) => ~Has(ToReceiver(t), t, "offer")
  /\ t \in opening \/ t \in acc => ~Handshake(q, t) /\ ~Has(ToReceiver(t), t, "offer")
  /\ t \in opening => t \notin acc
  /\ Has(q, t, "request") => t \in Asked

BeforeOK(t, q, acc) ==
  /\ Early(t, q) => t \notin sending /\ ToldSender(t) = "none"
  /\ Unanswered(t, q) =>
       /\ t \notin receiving /\ t \notin acc
       /\ file[t] = "none"
       /\ ToldReceiver(t) = "none" \/ (t \in Asked /\ ToldReceiver(t) = "cancelled")
  /\ t \notin acc => sent[t] = 0

(* Who has a record has been told nothing yet.                              *)
RecordOK(t) ==
  /\ t \in sending => ToldSender(t) = "none"
  /\ t \in pending \/ t \in wanted \/ t \in receiving => ToldReceiver(t) = "none"
  /\ t \in receiving => t \notin pending

(* What an answer, and an end, on its way to the sender says.               *)
AnswerOK(t, q) ==
  /\ Has(q, t, "accept") => t \notin pending
  /\ Says(q, AcceptMsg(t, FALSE)) => t \notin receiving /\ ToldReceiver(t) # "completed"
  /\ Has(q, t, "end") =>
       /\ t \notin pending /\ t \notin wanted /\ t \notin receiving
       /\ Has(ToReceiver(t), t, "offer") => t \in Asked
  /\ Precedes(q, t, "ack", "end")
  /\ Says(q, EndMsg(t, TRUE)) => ToldReceiver(t) = "completed"
  /\ Says(q, EndMsg(t, FALSE)) => ToldReceiver(t) # "completed"

(* What an end on its way to the receiver says.                             *)
GivenUpOK(t, q) ==
  /\ Has(ToReceiver(t), t, "end") =>
       /\ t \notin sending /\ t \notin opening /\ ~Has(q, t, "request")
  /\ Precedes(ToReceiver(t), t, "offer", "end")
  /\ t \in receiving /\ t \notin sending => ToldSender(t) = "cancelled" \/ sent[t] < Size[t]

(* The other end of every record.                                           *)
OtherEndOK(t, q) ==
  /\ t \in pending =>
       \/ Has(q, t, "request") \/ t \in opening \/ t \in sending
       \/ Has(ToReceiver(t), t, "offer") \/ Has(ToReceiver(t), t, "end")
  /\ t \in receiving => t \in sending \/ Has(ToReceiver(t), t, "end")
  /\ t \in sending =>
       \/ t \in receiving \/ Has(ToReceiver(t), t, "offer")
       \/ Says(q, AcceptMsg(t, FALSE)) \/ Has(q, t, "end")
  /\ Has(ToReceiver(t), t, "offer") =>
       \/ t \in sending \/ (t \in Asked /\ t \notin wanted)
       \/ Has(ToReceiver(t), t, "end") /\ ToldSender(t) = "cancelled"

(* Chunks and acknowledgements on their way.                                *)
ChunksOK(t, q, acks) ==
  /\ acks[t] <= got[t]
  /\ Below(ToReceiver(t), t, "data", sent[t]) /\ Below(q, t, "ack", got[t])
  /\ t \in receiving => Counts(ToReceiver(t), t, "data", got[t], sent[t])
  /\ t \in sending => Counts(q, t, "ack", acks[t], got[t])

(* What the receiver completed, and what became of the file.                *)
SettledOK(t) ==
  /\ ToldSender(t) = "sent" => ToldReceiver(t) = "completed"
  /\ ToldReceiver(t) = "completed" =>
       /\ got[t] = Size[t]
       /\ t \in sending \/ ToldSender(t) \in {"sent", "cancelled"}
       /\ OnDisk(t) => file[t] = "published"
  /\ t \in receiving /\ file[t] \in {"queued", "publishing", "placed", "published", "refused"} => got[t] = Size[t]
  /\ t \notin receiving => file[t] \notin {"staged", "refused"}
  /\ ~OnDisk(t) => file[t] = "none"
  /\ file[t] = "published" =>
       t \in receiving \/ ToldReceiver(t) = "completed" \/ "cancelled" \in {ToldReceiver(t), ToldSender(t)}

TransferOK(t, q, acc, acks) ==
  /\ FreshOK(t, q) /\ StepOK(t, q, acc) /\ BeforeOK(t, q, acc) /\ RecordOK(t) /\ AnswerOK(t, q)
  /\ GivenUpOK(t, q) /\ OtherEndOK(t, q) /\ ChunksOK(t, q, acks) /\ SettledOK(t)

AllWell(t) == TransferOK(t, ToSender(t), accepted, acked)

WindowOK(acks) ==
  /\ \A t \in Transfers : sent[t] - acks[t] <= Window
  /\ \A e \in Ends : Cardinality(InFlight(sending \cap From(e), acks, sent)) <= Budget

TransferInv == TypeOK /\ WindowOK(acked) /\ \A t \in Transfers : AllWell(t)

-----------------------------------------------------------------------------
(* What streams say, when they are read and when they are added to.         *)
LEMMA MessageKinds ==
  ASSUME NEW m \in Messages
  PROVE  /\ m.id \in Transfers
         /\ m.type \in {"offer", "request", "accept", "end", "data", "ack"}
         /\ m.type \in {"data", "ack"} => m.seq \in Nat
         /\ m.type \in {"accept", "end"} => m.ok \in BOOLEAN
BY DEF Messages

LEMMA Joined ==
  ASSUME NEW x \in Seq(Messages), NEW y \in Seq(Messages)
  PROVE  /\ x \o y \in Seq(Messages)
         /\ Len(x) \in Nat /\ Len(y) \in Nat
         /\ DOMAIN x = 1..Len(x) /\ DOMAIN y = 1..Len(y) /\ DOMAIN (x \o y) = 1..(Len(x) + Len(y))
         /\ \A i \in DOMAIN x : i \in DOMAIN (x \o y) /\ (x \o y)[i] = x[i]
         /\ \A i \in DOMAIN y : Len(x) + i \in DOMAIN (x \o y) /\ (x \o y)[Len(x) + i] = y[i]
         /\ \A i \in DOMAIN (x \o y) :
              \/ i \in DOMAIN x /\ (x \o y)[i] = x[i]
              \/ i > Len(x) /\ i - Len(x) \in DOMAIN y /\ (x \o y)[i] = y[i - Len(x)]
<1> DEFINE z == x \o y
<1>1. /\ z \in Seq(Messages) /\ Len(z) = Len(x) + Len(y)
      /\ \A i \in 1..(Len(x) + Len(y)) : z[i] = IF i <= Len(x) THEN x[i] ELSE y[i - Len(x)]
  BY ConcatProperties
<1>2. /\ Len(x) \in Nat /\ Len(y) \in Nat
      /\ DOMAIN x = 1..Len(x) /\ DOMAIN y = 1..Len(y) /\ DOMAIN z = 1..(Len(x) + Len(y))
  BY <1>1, LenProperties
<1> HIDE DEF z
<1>3. \A i \in DOMAIN x : i \in DOMAIN z /\ z[i] = x[i]
  BY <1>1, <1>2
<1>4. \A i \in DOMAIN y : Len(x) + i \in DOMAIN z /\ z[Len(x) + i] = y[i]
  BY <1>1, <1>2
<1>5. \A i \in DOMAIN z : \/ i \in DOMAIN x /\ z[i] = x[i]
                          \/ i > Len(x) /\ i - Len(x) \in DOMAIN y /\ z[i] = y[i - Len(x)]
  BY <1>1, <1>2
<1>q. QED
  BY <1>1, <1>2, <1>3, <1>4, <1>5 DEF z

LEMMA Rest ==
  ASSUME NEW x \in Seq(Messages), x # <<>>
  PROVE  /\ Head(x) \in Messages /\ Tail(x) \in Seq(Messages)
         /\ 1 \in DOMAIN x /\ x[1] = Head(x) /\ Len(x) \in Nat
         /\ DOMAIN x = 1..Len(x) /\ DOMAIN Tail(x) = 1..(Len(x) - 1)
         /\ \A i \in DOMAIN Tail(x) : i + 1 \in DOMAIN x /\ Tail(x)[i] = x[i + 1]
         /\ \A i \in DOMAIN x : i = 1 \/ (i > 1 /\ i - 1 \in DOMAIN Tail(x) /\ Tail(x)[i - 1] = x[i])
<1>1. /\ Len(x) \in Nat \ {0} /\ Head(x) = x[1] /\ DOMAIN x = 1..Len(x)
  BY EmptySeq, LenProperties
<1>2. /\ Head(x) \in Messages /\ Tail(x) \in Seq(Messages) /\ Len(Tail(x)) = Len(x) - 1
      /\ \A i \in 1..Len(Tail(x)) : Tail(x)[i] = x[i + 1]
  BY HeadTailProperties
<1>3. DOMAIN Tail(x) = 1..(Len(x) - 1)
  BY <1>2, LenProperties
<1>q. QED
  BY <1>1, <1>2, <1>3

(* Of what is chunked or acknowledged, the number says which.               *)
Numbered(ty) == ty \in {"data", "ack"}

(* Nothing is said of t.                                                    *)
Silent(w, t) == \A i \in DOMAIN w : w[i].id # t

(* What matters of t is the same in x and y.                                *)
SameFor(x, y, t) ==
  /\ \A ty : Has(y, t, ty) <=> Has(x, t, ty)
  /\ \A m : m.id = t => (Says(y, m) <=> Says(x, m))
  /\ Handshake(y, t) <=> Handshake(x, t)
  /\ OneHandshake(x, t) => OneHandshake(y, t)
  /\ \A a, b : Precedes(x, t, a, b) => Precedes(y, t, a, b)
  /\ \A ty, hi : Below(x, t, ty, hi) => Below(y, t, ty, hi)
  /\ \A ty : Numbered(ty) => \A lo, hi \in Nat : Counts(x, t, ty, lo, hi) => Counts(y, t, ty, lo, hi)

LEMMA SameItself ==
  ASSUME NEW x, NEW t
  PROVE  SameFor(x, x, t)
BY DEF SameFor

LEMMA SameOnward ==
  ASSUME NEW x, NEW y, NEW z, NEW t, SameFor(x, y, t), SameFor(y, z, t)
  PROVE  SameFor(x, z, t)
BY DEF SameFor

LEMMA Handshakes ==
  ASSUME NEW x, NEW t
  PROVE  /\ Handshake(x, t) <=> Has(x, t, "request") \/ Has(x, t, "offer") \/ Has(x, t, "accept")
         /\ Says(x, AcceptMsg(t, FALSE)) => Has(x, t, "accept")
         /\ Says(x, EndMsg(t, TRUE)) \/ Says(x, EndMsg(t, FALSE)) => Has(x, t, "end")
BY DEF Handshake, HandshakeAt, Has, At, Says, AcceptMsg, EndMsg

(* All that is said of t is said in y where it is in x, n places on.        *)
LEMMA SameShifted ==
  ASSUME NEW x \in Seq(Messages), NEW y \in Seq(Messages), NEW t, NEW n \in Int,
         \A i \in DOMAIN x : x[i].id = t => i + n \in DOMAIN y /\ y[i + n] = x[i],
         \A j \in DOMAIN y : y[j].id = t => j - n \in DOMAIN x /\ y[j] = x[j - n]
  PROVE  SameFor(x, y, t)
<1>1. /\ DOMAIN x \subseteq Int /\ DOMAIN y \subseteq Int
      /\ \A i \in DOMAIN x : x[i] \in Messages
      /\ \A j \in DOMAIN y : y[j] \in Messages
  BY LenProperties, ElementOfSeq
<1>2. \A i \in DOMAIN x : \A ty : At(x, i, t, ty) => i + n \in DOMAIN y /\ At(y, i + n, t, ty) /\ y[i + n] = x[i]
  BY DEF At
<1>3. \A j \in DOMAIN y : \A ty : At(y, j, t, ty) => j - n \in DOMAIN x /\ At(x, j - n, t, ty) /\ y[j] = x[j - n]
  BY DEF At
<1>4. \A ty : Has(y, t, ty) <=> Has(x, t, ty)
  BY <1>2, <1>3 DEF Has
<1>5. \A m : m.id = t => (Says(y, m) <=> Says(x, m))
  BY DEF Says
<1>6. Handshake(y, t) <=> Handshake(x, t)
  BY DEF Handshake, HandshakeAt
<1>7. OneHandshake(x, t) => OneHandshake(y, t)
  <2> SUFFICES ASSUME OneHandshake(x, t), NEW i \in DOMAIN y, NEW j \in DOMAIN y,
                      HandshakeAt(y, i, t), HandshakeAt(y, j, t)
               PROVE  i = j
    BY DEF OneHandshake
  <2>1. /\ i - n \in DOMAIN x /\ HandshakeAt(x, i - n, t)
        /\ j - n \in DOMAIN x /\ HandshakeAt(x, j - n, t)
    BY DEF HandshakeAt
  <2>2. i - n = j - n
    BY <2>1 DEF OneHandshake
  <2>q. QED
    BY <1>1, <2>2
<1>8. \A a, b : Precedes(x, t, a, b) => Precedes(y, t, a, b)
  <2> SUFFICES ASSUME NEW a, NEW b, Precedes(x, t, a, b), NEW i \in DOMAIN y, NEW j \in DOMAIN y,
                      At(y, i, t, a), At(y, j, t, b)
               PROVE  i < j
    BY DEF Precedes
  <2>1. i - n \in DOMAIN x /\ At(x, i - n, t, a) /\ j - n \in DOMAIN x /\ At(x, j - n, t, b)
    BY <1>3
  <2>2. i - n < j - n
    BY <2>1 DEF Precedes
  <2>q. QED
    BY <1>1, <2>2
<1>9. \A ty, hi : Below(x, t, ty, hi) => Below(y, t, ty, hi)
  BY <1>3 DEF Below
<1>10. ASSUME NEW ty, Numbered(ty), NEW lo \in Nat, NEW hi \in Nat, Counts(x, t, ty, lo, hi)
       PROVE  Counts(y, t, ty, lo, hi)
  <2>1. \A i \in DOMAIN y : At(y, i, t, ty) => y[i].seq >= lo /\ y[i].seq < hi
    BY <1>3, <1>10 DEF Counts
  <2>2. ASSUME NEW i \in DOMAIN y, NEW j \in DOMAIN y, i < j, At(y, i, t, ty), At(y, j, t, ty)
        PROVE  y[i].seq < y[j].seq
    <3>1. /\ i - n \in DOMAIN x /\ At(x, i - n, t, ty) /\ y[i] = x[i - n]
          /\ j - n \in DOMAIN x /\ At(x, j - n, t, ty) /\ y[j] = x[j - n]
      BY <1>3, <2>2
    <3>2. i - n < j - n
      BY <1>1, <2>2
    <3>3. x[i - n].seq < x[j - n].seq
      BY <1>10, <3>1, <3>2 DEF Counts
    <3>q. QED
      BY <3>1, <3>3
  <2>3. ASSUME NEW k \in lo..(hi - 1) PROVE \E i \in DOMAIN y : At(y, i, t, ty) /\ y[i].seq = k
    <3>1. PICK i \in DOMAIN x : At(x, i, t, ty) /\ x[i].seq = k
      BY <1>10 DEF Counts
    <3>2. i + n \in DOMAIN y /\ At(y, i + n, t, ty) /\ y[i + n].seq = k
      BY <1>2, <3>1
    <3>q. QED
      BY <3>2
  <2>q. QED
    BY <2>1, <2>2, <2>3 DEF Counts
<1>q. QED
  BY <1>4, <1>5, <1>6, <1>7, <1>8, <1>9, <1>10 DEF SameFor

LEMMA SilentJoined ==
  ASSUME NEW x \in Seq(Messages), NEW y \in Seq(Messages), NEW t, Silent(y, t)
  PROVE  SameFor(x, x \o y, t)
<1> DEFINE z == x \o y
<1>1. /\ z \in Seq(Messages) /\ DOMAIN x \subseteq Nat
      /\ \A i \in DOMAIN x : i \in DOMAIN z /\ z[i] = x[i]
      /\ \A i \in DOMAIN z : \/ i \in DOMAIN x /\ z[i] = x[i]
                             \/ i - Len(x) \in DOMAIN y /\ z[i] = y[i - Len(x)]
      /\ DOMAIN z \subseteq Nat
  BY Joined
<1> HIDE DEF z
<1>2. \A i \in DOMAIN x : x[i].id = t => i + 0 \in DOMAIN z /\ z[i + 0] = x[i]
  BY <1>1
<1>3. \A j \in DOMAIN z : z[j].id = t => j - 0 \in DOMAIN x /\ z[j] = x[j - 0]
  BY <1>1 DEF Silent
<1>4. SameFor(x, z, t)
  <2>1. 0 \in Int
    OBVIOUS
  <2>q. QED
    BY <1>1, <1>2, <1>3, <2>1, SameShifted
<1>q. QED
  BY <1>4 DEF z

LEMMA SilentRest ==
  ASSUME NEW x \in Seq(Messages), x # <<>>, NEW t, Head(x).id # t
  PROVE  SameFor(x, Tail(x), t)
<1> DEFINE y == Tail(x)
<1>1. /\ y \in Seq(Messages) /\ DOMAIN x \subseteq Nat /\ DOMAIN y \subseteq Nat
      /\ x[1] = Head(x)
      /\ \A i \in DOMAIN y : i + 1 \in DOMAIN x /\ y[i] = x[i + 1]
      /\ \A i \in DOMAIN x : i = 1 \/ (i > 1 /\ i - 1 \in DOMAIN y /\ y[i - 1] = x[i])
  BY Rest
<1> HIDE DEF y
<1>2. \A i \in DOMAIN x : x[i].id = t => i + (-1) \in DOMAIN y /\ y[i + (-1)] = x[i]
  BY <1>1
<1>3. \A j \in DOMAIN y : y[j].id = t => j - (-1) \in DOMAIN x /\ y[j] = x[j - (-1)]
  BY <1>1
<1>4. SameFor(x, y, t)
  <2>1. -1 \in Int
    OBVIOUS
  <2>q. QED
    BY <1>1, <1>2, <1>3, <2>1, SameShifted
<1>q. QED
  BY <1>4 DEF y

-----------------------------------------------------------------------------

(* The two ends of a transfer, and what its numbers are.                    *)
LEMMA TwoEnds ==
  ASSUME NEW t \in Transfers
  PROVE  /\ Sender[t] \in Ends /\ Receiver(t) \in Ends /\ Receiver(t) # Sender[t]
         /\ Other(Sender[t]) = Receiver(t) /\ Other(Receiver(t)) = Sender[t]
         /\ \A e \in Ends : /\ t \in From(e) <=> e = Sender[t]
                            /\ t \in To(e) <=> e = Receiver(t)
                            /\ e = Sender[t] \/ e = Receiver(t)
<1>1. Sender[t] \in Ends
  BY TransferAssumption
<1>2. \A e \in Ends : e = "client" \/ e = "server"
  BY DEF Ends
<1>q. QED
  BY <1>1, <1>2 DEF Receiver, Other, From, To, Ends

LEMMA Typed ==
  ASSUME TypeOK, NEW t \in Transfers
  PROVE  /\ net[Sender[t]] \in Seq(Messages) /\ net[Receiver(t)] \in Seq(Messages)
         /\ sent[t] \in Nat /\ acked[t] \in Nat /\ got[t] \in Nat /\ Size[t] \in Nat
         /\ acked[t] <= sent[t] /\ sent[t] <= Size[t] /\ got[t] <= sent[t]
BY TwoEnds, TransferAssumption DEF TypeOK

(* Nothing of t has changed but what is sent, acknowledged and on its way.  *)
Still(t) ==
  /\ t \in begun' <=> t \in begun
  /\ t \in sending' <=> t \in sending
  /\ t \in receiving' <=> t \in receiving
  /\ t \in pending' <=> t \in pending
  /\ t \in wanted' <=> t \in wanted
  /\ t \in opening' <=> t \in opening
  /\ got'[t] = got[t] /\ file'[t] = file[t]
  /\ verdict'[Sender[t]][t] = verdict[Sender[t]][t]
  /\ verdict'[Receiver(t)][t] = verdict[Receiver(t)][t]

Unmoved(t) == Still(t) /\ sent'[t] = sent[t]

LEMMA Untouched ==
  ASSUME TypeOK, NEW t \in Transfers, NEW q, NEW acc, NEW acks, acks[t] \in Nat,
         TransferOK(t, q, acc, acks), Unmoved(t),
         SameFor(q, net'[Sender[t]], t), SameFor(net[Receiver(t)], net'[Receiver(t)], t),
         t \in accepted' <=> t \in acc, acked'[t] = acks[t]
  PROVE  AllWell(t)'
<1> DEFINE p == net[Receiver(t)]
           pp == net'[Receiver(t)]
           qq == net'[Sender[t]]
<1>1. /\ ToReceiver(t) = p /\ ToReceiver(t)' = pp /\ ToSender(t)' = qq
      /\ ToldSender(t)' = ToldSender(t) /\ ToldReceiver(t)' = ToldReceiver(t)
  BY DEF ToReceiver, ToSender, ToldSender, ToldReceiver, Unmoved, Still
<1>2. /\ t \in begun' <=> t \in begun
      /\ t \in sending' <=> t \in sending
      /\ t \in receiving' <=> t \in receiving
      /\ t \in pending' <=> t \in pending
      /\ t \in wanted' <=> t \in wanted
      /\ t \in opening' <=> t \in opening
      /\ got'[t] = got[t] /\ file'[t] = file[t] /\ sent'[t] = sent[t]
  BY DEF Unmoved, Still
<1>3. sent[t] \in Nat /\ got[t] \in Nat
  BY Typed
<1>4. /\ \A ty : Has(qq, t, ty) <=> Has(q, t, ty)
      /\ \A ty : Has(pp, t, ty) <=> Has(p, t, ty)
      /\ Handshake(qq, t) <=> Handshake(q, t)
      /\ Handshake(pp, t) <=> Handshake(p, t)
      /\ OneHandshake(q, t) => OneHandshake(qq, t)
      /\ OneHandshake(p, t) => OneHandshake(pp, t)
      /\ Precedes(q, t, "ack", "end") => Precedes(qq, t, "ack", "end")
      /\ Precedes(p, t, "offer", "end") => Precedes(pp, t, "offer", "end")
  BY DEF SameFor
<1>5. /\ Says(qq, AcceptMsg(t, FALSE)) <=> Says(q, AcceptMsg(t, FALSE))
      /\ Says(qq, EndMsg(t, TRUE)) <=> Says(q, EndMsg(t, TRUE))
      /\ Says(qq, EndMsg(t, FALSE)) <=> Says(q, EndMsg(t, FALSE))
  <2>1. AcceptMsg(t, FALSE).id = t /\ EndMsg(t, TRUE).id = t /\ EndMsg(t, FALSE).id = t
    BY DEF AcceptMsg, EndMsg
  <2>q. QED
    BY <2>1 DEF SameFor
<1>6. /\ Below(p, t, "data", sent[t]) => Below(pp, t, "data", sent[t])
      /\ Below(q, t, "ack", got[t]) => Below(qq, t, "ack", got[t])
      /\ Counts(p, t, "data", got[t], sent[t]) => Counts(pp, t, "data", got[t], sent[t])
      /\ Counts(q, t, "ack", acks[t], got[t]) => Counts(qq, t, "ack", acks[t], got[t])
  BY <1>3 DEF SameFor, Numbered
<1> HIDE DEF p, pp, qq
<1>7. FreshOK(t, ToSender(t))'
  BY <1>1, <1>2, <1>4 DEF TransferOK, FreshOK
<1>8. StepOK(t, ToSender(t), accepted)'
  BY <1>1, <1>2, <1>4 DEF TransferOK, StepOK
<1>9. BeforeOK(t, ToSender(t), accepted)'
  BY <1>1, <1>2, <1>4 DEF TransferOK, BeforeOK, Early, Unanswered
<1>10. RecordOK(t)'
  BY <1>1, <1>2 DEF TransferOK, RecordOK
<1>11. AnswerOK(t, ToSender(t))'
  BY <1>1, <1>2, <1>4, <1>5 DEF TransferOK, AnswerOK
<1>12. GivenUpOK(t, ToSender(t))'
  BY <1>1, <1>2, <1>4 DEF TransferOK, GivenUpOK
<1>13. OtherEndOK(t, ToSender(t))'
  BY <1>1, <1>2, <1>4, <1>5 DEF TransferOK, OtherEndOK
<1>14. ChunksOK(t, ToSender(t), acked)'
  BY <1>1, <1>2, <1>6 DEF TransferOK, ChunksOK
<1>15. SettledOK(t)'
  BY <1>1, <1>2 DEF TransferOK, SettledOK
<1>q. QED
  BY <1>1, <1>7, <1>8, <1>9, <1>10, <1>11, <1>12, <1>13, <1>14, <1>15 DEF AllWell, TransferOK

LEMMA Said ==
  ASSUME TypeOK, NEW e \in Ends, NEW msgs \in Seq(Messages), Say(e, msgs)
  PROVE  /\ net' \in [Ends -> Seq(Messages)]
         /\ net'[Other(e)] = net[Other(e)] \o msgs
         /\ net'[e] = net[e]
<1>1. Other(e) \in Ends /\ Other(e) # e
  BY DEF Other, Ends
<1>2. net[Other(e)] \o msgs \in Seq(Messages)
  BY <1>1, ConcatProperties DEF TypeOK
<1>q. QED
  BY <1>1, <1>2 DEF Say, TypeOK

LEMMA Replied ==
  ASSUME TypeOK, NEW e \in Ends, NEW msgs \in Seq(Messages), net[e] # <<>>, Reply(e, msgs)
  PROVE  /\ net' \in [Ends -> Seq(Messages)]
         /\ net'[Other(e)] = net[Other(e)] \o msgs
         /\ net'[e] = Tail(net[e])
<1>1. Other(e) \in Ends /\ Other(e) # e
  BY DEF Other, Ends
<1>2. net[Other(e)] \o msgs \in Seq(Messages)
  BY <1>1, ConcatProperties DEF TypeOK
<1>3. Tail(net[e]) \in Seq(Messages)
  BY HeadTailProperties DEF TypeOK
<1>q. QED
  BY <1>1, <1>2, <1>3 DEF Reply, TypeOK

LEMMA SaidOne ==
  ASSUME TypeOK, NEW e \in Ends, NEW m \in Messages, Say(e, <<m>>)
  PROVE  /\ net' \in [Ends -> Seq(Messages)]
         /\ net'[Other(e)] = net[Other(e)] \o <<m>>
         /\ net'[e] = net[e]
<1>1. <<m>> \in Seq(Messages)
  OBVIOUS
<1>q. QED
  BY <1>1, Said

LEMMA RepliedOne ==
  ASSUME TypeOK, NEW e \in Ends, NEW m \in Messages, net[e] # <<>>, Reply(e, <<m>>)
  PROVE  /\ net' \in [Ends -> Seq(Messages)]
         /\ net'[Other(e)] = net[Other(e)] \o <<m>>
         /\ net'[e] = Tail(net[e])
<1>1. <<m>> \in Seq(Messages)
  OBVIOUS
<1>q. QED
  BY <1>1, Replied

LEMMA RepliedNone ==
  ASSUME TypeOK, NEW e \in Ends, net[e] # <<>>, Reply(e, <<>>)
  PROVE  /\ net' \in [Ends -> Seq(Messages)]
         /\ net'[Other(e)] = net[Other(e)]
         /\ net'[e] = Tail(net[e])
<1>1. <<>> \in Seq(Messages) /\ Other(e) \in Ends
  BY DEF Other, Ends
<1>2. net[Other(e)] \o <<>> = net[Other(e)]
  BY <1>1, ConcatEmptySeq DEF TypeOK
<1>q. QED
  BY <1>1, <1>2, Replied

LEMMA PairJoined ==
  ASSUME NEW S, NEW x \in Seq(S), NEW m \in S, NEW n \in S
  PROVE  x \o <<m, n>> = (x \o <<m>>) \o <<n>>
<1> DEFINE y == <<m, n>>
           one == <<m>>
           other == <<n>>
           u == x \o y
           v == x \o one
           w == v \o other
<1>1. /\ y \in Seq(S) /\ one \in Seq(S) /\ other \in Seq(S)
      /\ Len(y) = 2 /\ Len(one) = 1 /\ Len(other) = 1
      /\ y[1] = m /\ y[2] = n /\ one[1] = m /\ other[1] = n
  OBVIOUS
<1> HIDE DEF y, one, other
<1>2. /\ Len(x) \in Nat
      /\ u \in Seq(S) /\ Len(u) = Len(x) + 2
      /\ \A i \in 1..(Len(x) + 2) : u[i] = IF i <= Len(x) THEN x[i] ELSE y[i - Len(x)]
  <2>1. /\ u \in Seq(S) /\ Len(u) = Len(x) + Len(y)
        /\ \A i \in 1..(Len(x) + Len(y)) : u[i] = IF i <= Len(x) THEN x[i] ELSE y[i - Len(x)]
    BY <1>1, ConcatProperties
  <2> HIDE DEF u
  <2>q. QED
    BY <1>1, <2>1, LenProperties
<1>3. /\ v \in Seq(S) /\ Len(v) = Len(x) + 1
      /\ \A i \in 1..(Len(x) + 1) : v[i] = IF i <= Len(x) THEN x[i] ELSE one[i - Len(x)]
  BY <1>1, ConcatProperties, SMTT(60)
<1> HIDE DEF u, v
<1>4. /\ w \in Seq(S) /\ Len(w) = Len(v) + 1
      /\ \A i \in 1..(Len(v) + 1) : w[i] = IF i <= Len(v) THEN v[i] ELSE other[i - Len(v)]
  <2>1. /\ w \in Seq(S) /\ Len(w) = Len(v) + Len(other)
        /\ \A i \in 1..(Len(v) + Len(other)) : w[i] = IF i <= Len(v) THEN v[i] ELSE other[i - Len(v)]
    BY <1>1, <1>3, ConcatProperties
  <2> HIDE DEF w
  <2>q. QED
    BY <1>1, <2>1
<1> HIDE DEF w
<1>5. \A i \in 1..Len(u) : u[i] = w[i]
  <2> SUFFICES ASSUME NEW i \in 1..Len(u) PROVE u[i] = w[i]
    OBVIOUS
  <2>1. CASE i <= Len(x)
    BY <1>2, <1>3, <1>4, <2>1
  <2>2. CASE i = Len(x) + 1
    <3>1. u[i] = y[1] /\ w[i] = v[i] /\ v[i] = one[1]
      BY <1>2, <1>3, <1>4, <2>2
    <3>q. QED
      BY <1>1, <3>1
  <2>3. CASE i = Len(x) + 2
    <3>1. u[i] = y[2] /\ w[i] = other[1]
      BY <1>2, <1>3, <1>4, <2>3
    <3>q. QED
      BY <1>1, <3>1
  <2>q. QED
    BY <1>2, <2>1, <2>2, <2>3
<1>6. u = w
  BY <1>2, <1>3, <1>4, <1>5, SeqEqual
<1>q. QED
  BY <1>6 DEF u, v, w, y, one, other

LEMMA RepliedTwo ==
  ASSUME TypeOK, NEW e \in Ends, NEW m \in Messages, NEW n \in Messages, net[e] # <<>>, Reply(e, <<m, n>>)
  PROVE  /\ net' \in [Ends -> Seq(Messages)]
         /\ net'[Other(e)] = (net[Other(e)] \o <<m>>) \o <<n>>
         /\ net'[e] = Tail(net[e])
<1>1. <<m, n>> \in Seq(Messages) /\ Other(e) \in Ends
  BY DEF Other, Ends
<1>2. net[Other(e)] \o <<m, n>> = (net[Other(e)] \o <<m>>) \o <<n>>
  <2>1. net[Other(e)] \in Seq(Messages)
    BY <1>1 DEF TypeOK
  <2>q. QED
    BY <2>1, PairJoined
<1>q. QED
  BY <1>1, <1>2, Replied

LEMMA SaidOfOthers ==
  ASSUME TypeOK, NEW e \in Ends, NEW msgs \in Seq(Messages), Say(e, msgs), NEW t \in Transfers, Silent(msgs, t)
  PROVE  /\ SameFor(net[Sender[t]], net'[Sender[t]], t)
         /\ SameFor(net[Receiver(t)], net'[Receiver(t)], t)
<1>1. Other(e) \in Ends /\ \A f \in Ends : f = e \/ f = Other(e)
  BY DEF Other, Ends
<1>2. \A f \in Ends : SameFor(net[f], net'[f], t)
  <2>1. SameFor(net[e], net'[e], t)
    BY Said, SameItself
  <2>2. SameFor(net[Other(e)], net'[Other(e)], t)
    <3>1. net[Other(e)] \in Seq(Messages)
      BY <1>1 DEF TypeOK
    <3>2. SameFor(net[Other(e)], net[Other(e)] \o msgs, t)
      BY <3>1, SilentJoined
    <3>3. net'[Other(e)] = net[Other(e)] \o msgs
      BY Said
    <3>q. QED
      BY <3>2, <3>3
  <2>q. QED
    BY <1>1, <2>1, <2>2
<1>q. QED
  BY <1>2, TwoEnds

LEMMA RepliedOfOthers ==
  ASSUME TypeOK, NEW e \in Ends, NEW msgs \in Seq(Messages), net[e] # <<>>, Reply(e, msgs),
         NEW t \in Transfers, Head(net[e]).id # t, Silent(msgs, t)
  PROVE  /\ SameFor(net[Sender[t]], net'[Sender[t]], t)
         /\ SameFor(net[Receiver(t)], net'[Receiver(t)], t)
<1>1. Other(e) \in Ends /\ \A f \in Ends : f = e \/ f = Other(e)
  BY DEF Other, Ends
<1>2. \A f \in Ends : SameFor(net[f], net'[f], t)
  <2>1. SameFor(net[e], net'[e], t)
    BY Replied, SilentRest DEF TypeOK
  <2>2. SameFor(net[Other(e)], net'[Other(e)], t)
    <3>1. net[Other(e)] \in Seq(Messages)
      BY <1>1 DEF TypeOK
    <3>2. SameFor(net[Other(e)], net[Other(e)] \o msgs, t)
      BY <3>1, SilentJoined
    <3>3. net'[Other(e)] = net[Other(e)] \o msgs
      BY Replied
    <3>q. QED
      BY <3>2, <3>3
  <2>q. QED
    BY <1>1, <2>1, <2>2
<1>q. QED
  BY <1>2, TwoEnds

LEMMA Told ==
  ASSUME TypeOK, NEW e \in Ends, NEW U, NEW v, Tell(e, U, v)
  PROVE  \A f \in Ends, u \in Transfers : verdict'[f][u] = IF f = e /\ u \in U THEN v ELSE verdict[f][u]
BY DEF Tell, TypeOK

LEMMA ToldTyped ==
  ASSUME TypeOK, NEW e \in Ends, NEW U, NEW v \in {"none", "sent", "completed", "failed", "cancelled"}, Tell(e, U, v)
  PROVE  verdict' \in [Ends -> [Transfers -> {"none", "sent", "completed", "failed", "cancelled"}]]
BY DEF Tell, TypeOK

LEMMA Sayings ==
  ASSUME NEW t \in Transfers
  PROVE  /\ OfferMsg(t) \in Messages /\ OfferMsg(t).id = t /\ OfferMsg(t).type = "offer"
         /\ RequestMsg(t) \in Messages /\ RequestMsg(t).id = t /\ RequestMsg(t).type = "request"
         /\ AcceptMsg(t, FALSE) \in Messages /\ AcceptMsg(t, FALSE).id = t /\ AcceptMsg(t, FALSE).type = "accept"
         /\ AcceptMsg(t, TRUE) \in Messages /\ AcceptMsg(t, TRUE).id = t /\ AcceptMsg(t, TRUE).type = "accept"
         /\ AcceptMsg(t, FALSE).ok = FALSE /\ AcceptMsg(t, TRUE).ok = TRUE
BY DEF OfferMsg, RequestMsg, AcceptMsg, Messages

LEMMA EndSaid ==
  ASSUME NEW t \in Transfers
  PROVE  /\ EndMsg(t, TRUE) \in Messages /\ EndMsg(t, TRUE).id = t /\ EndMsg(t, TRUE).type = "end"
         /\ EndMsg(t, FALSE) \in Messages /\ EndMsg(t, FALSE).id = t /\ EndMsg(t, FALSE).type = "end"
         /\ EndMsg(t, TRUE).ok = TRUE /\ EndMsg(t, FALSE).ok = FALSE
BY DEF EndMsg, Messages

-----------------------------------------------------------------------------
(* One message about t more in y than in x, the last.                       *)
MoreFor(x, y, t, m) ==
  /\ Has(y, t, "request") <=> Has(x, t, "request") \/ m.type = "request"
  /\ Has(y, t, "offer") <=> Has(x, t, "offer") \/ m.type = "offer"
  /\ Has(y, t, "accept") <=> Has(x, t, "accept") \/ m.type = "accept"
  /\ Has(y, t, "data") <=> Has(x, t, "data") \/ m.type = "data"
  /\ Has(y, t, "ack") <=> Has(x, t, "ack") \/ m.type = "ack"
  /\ Has(y, t, "end") <=> Has(x, t, "end") \/ m.type = "end"
  /\ Says(y, AcceptMsg(t, FALSE)) <=> Says(x, AcceptMsg(t, FALSE)) \/ m = AcceptMsg(t, FALSE)
  /\ Says(y, EndMsg(t, TRUE)) <=> Says(x, EndMsg(t, TRUE)) \/ m = EndMsg(t, TRUE)
  /\ Says(y, EndMsg(t, FALSE)) <=> Says(x, EndMsg(t, FALSE)) \/ m = EndMsg(t, FALSE)
  /\ Handshake(y, t) <=> Handshake(x, t) \/ m.type \in {"request", "offer", "accept"}
  /\ OneHandshake(x, t) /\ ~(Handshake(x, t) /\ m.type \in {"request", "offer", "accept"}) => OneHandshake(y, t)
  /\ Precedes(x, t, "ack", "end") /\ ~(Has(x, t, "end") /\ m.type = "ack") => Precedes(y, t, "ack", "end")
  /\ Precedes(x, t, "offer", "end") /\ ~(Has(x, t, "end") /\ m.type = "offer") => Precedes(y, t, "offer", "end")

MoreCounted(x, y, t, m) ==
  /\ \A hi : Below(x, t, "data", hi) /\ (m.type = "data" => m.seq < hi) => Below(y, t, "data", hi)
  /\ \A hi : Below(x, t, "ack", hi) /\ (m.type = "ack" => m.seq < hi) => Below(y, t, "ack", hi)
  /\ \A lo, hi \in Nat : Counts(x, t, "data", lo, hi) /\ lo <= hi =>
       /\ m.type # "data" => Counts(y, t, "data", lo, hi)
       /\ m.type = "data" /\ m.seq = hi => Counts(y, t, "data", lo, hi + 1)
  /\ \A lo, hi \in Nat : Counts(x, t, "ack", lo, hi) /\ lo <= hi =>
       /\ m.type # "ack" => Counts(y, t, "ack", lo, hi)
       /\ m.type = "ack" /\ m.seq = hi => Counts(y, t, "ack", lo, hi + 1)

OneMoreFor(x, y, t, m) == MoreFor(x, y, t, m) /\ MoreCounted(x, y, t, m)

(* One message about t less in y than in x, the first.                      *)
LessFor(x, y, t, h) ==
  /\ Has(x, t, "request") <=> Has(y, t, "request") \/ h.type = "request"
  /\ Has(x, t, "offer") <=> Has(y, t, "offer") \/ h.type = "offer"
  /\ Has(x, t, "accept") <=> Has(y, t, "accept") \/ h.type = "accept"
  /\ Has(x, t, "data") <=> Has(y, t, "data") \/ h.type = "data"
  /\ Has(x, t, "ack") <=> Has(y, t, "ack") \/ h.type = "ack"
  /\ Has(x, t, "end") <=> Has(y, t, "end") \/ h.type = "end"
  /\ Says(x, AcceptMsg(t, FALSE)) <=> Says(y, AcceptMsg(t, FALSE)) \/ h = AcceptMsg(t, FALSE)
  /\ Says(x, EndMsg(t, TRUE)) <=> Says(y, EndMsg(t, TRUE)) \/ h = EndMsg(t, TRUE)
  /\ Says(x, EndMsg(t, FALSE)) <=> Says(y, EndMsg(t, FALSE)) \/ h = EndMsg(t, FALSE)
  /\ Handshake(x, t) <=> Handshake(y, t) \/ h.type \in {"request", "offer", "accept"}
  /\ OneHandshake(x, t) =>
       OneHandshake(y, t) /\ (h.type \in {"request", "offer", "accept"} => ~Handshake(y, t))
  /\ Precedes(x, t, "ack", "end") => Precedes(y, t, "ack", "end") /\ (h.type = "end" => ~Has(y, t, "ack"))
  /\ Precedes(x, t, "offer", "end") => Precedes(y, t, "offer", "end") /\ (h.type = "end" => ~Has(y, t, "offer"))

LessCounted(x, y, t, h) ==
  /\ \A hi : Below(x, t, "data", hi) => Below(y, t, "data", hi) /\ (h.type = "data" => h.seq < hi)
  /\ \A hi : Below(x, t, "ack", hi) => Below(y, t, "ack", hi) /\ (h.type = "ack" => h.seq < hi)
  /\ \A lo, hi \in Nat : Counts(x, t, "data", lo, hi) =>
       /\ h.type # "data" => Counts(y, t, "data", lo, hi)
       /\ h.type = "data" => h.seq = lo /\ lo < hi /\ Counts(y, t, "data", lo + 1, hi)
  /\ \A lo, hi \in Nat : Counts(x, t, "ack", lo, hi) =>
       /\ h.type # "ack" => Counts(y, t, "ack", lo, hi)
       /\ h.type = "ack" => h.seq = lo /\ lo < hi /\ Counts(y, t, "ack", lo + 1, hi)

OneLessFor(x, y, t, h) == LessFor(x, y, t, h) /\ LessCounted(x, y, t, h)

(* Where a message more stands.                                             *)
LEMMA AddedAt ==
  ASSUME NEW x \in Seq(Messages), NEW m \in Messages, NEW y, y = x \o <<m>>
  PROVE  /\ y \in Seq(Messages) /\ Len(x) \in Nat /\ DOMAIN x \subseteq Int /\ DOMAIN y \subseteq Int
         /\ \A i \in DOMAIN x : i \in DOMAIN y /\ y[i] = x[i] /\ i < Len(x) + 1
         /\ Len(x) + 1 \in DOMAIN y /\ y[Len(x) + 1] = m
         /\ \A i \in DOMAIN y : i \in DOMAIN x \/ i = Len(x) + 1
<1> DEFINE one == <<m>>
<1>1. one \in Seq(Messages) /\ Len(one) = 1 /\ one[1] = m
  OBVIOUS
<1> HIDE DEF one
<1>2. /\ x \o one \in Seq(Messages) /\ Len(x \o one) = Len(x) + Len(one)
      /\ \A i \in 1..(Len(x) + Len(one)) : (x \o one)[i] = IF i <= Len(x) THEN x[i] ELSE one[i - Len(x)]
  BY <1>1, ConcatProperties
<1>3. y = x \o one
  BY DEF one
<1>4. /\ y \in Seq(Messages) /\ Len(y) = Len(x) + 1 /\ Len(x) \in Nat
      /\ DOMAIN x = 1..Len(x) /\ DOMAIN y = 1..(Len(x) + 1)
      /\ \A i \in 1..(Len(x) + 1) : y[i] = IF i <= Len(x) THEN x[i] ELSE one[i - Len(x)]
  BY <1>1, <1>2, <1>3, LenProperties
<1>5. y[Len(x) + 1] = m
  BY <1>1, <1>4
<1>q. QED
  BY <1>4, <1>5

LEMMA NumberedAt ==
  ASSUME NEW x \in Seq(Messages), NEW i \in DOMAIN x, NEW t, NEW ty, Numbered(ty), At(x, i, t, ty)
  PROVE  x[i].seq \in Nat
<1>1. x[i] \in Messages /\ x[i].type \in {"data", "ack"}
  BY ElementOfSeq, LenProperties DEF At, Numbered
<1>q. QED
  BY <1>1, MessageKinds

LEMMA CountsMore ==
  ASSUME NEW x \in Seq(Messages), NEW m \in Messages, NEW t, m.id = t, NEW y, y = x \o <<m>>,
         NEW ty, Numbered(ty), NEW lo \in Nat, NEW hi \in Nat, lo <= hi, Counts(x, t, ty, lo, hi)
  PROVE  /\ m.type # ty => Counts(y, t, ty, lo, hi)
         /\ m.type = ty /\ m.seq = hi => Counts(y, t, ty, lo, hi + 1)
<1>1. /\ y \in Seq(Messages) /\ Len(x) \in Nat /\ DOMAIN x \subseteq Int /\ DOMAIN y \subseteq Int
      /\ \A i \in DOMAIN x : i \in DOMAIN y /\ y[i] = x[i] /\ i < Len(x) + 1
      /\ Len(x) + 1 \in DOMAIN y /\ y[Len(x) + 1] = m
      /\ \A i \in DOMAIN y : i \in DOMAIN x \/ i = Len(x) + 1
  BY AddedAt
<1> DEFINE l == Len(x) + 1
<1>2. \A i \in DOMAIN x : At(y, i, t, ty) <=> At(x, i, t, ty)
  BY <1>1 DEF At
<1>3. At(y, l, t, ty) <=> m.type = ty
  BY <1>1 DEF At
<1>4. \A i \in DOMAIN x : At(x, i, t, ty) => x[i].seq \in Nat
  BY NumberedAt
<1>5. CASE m.type # ty
  <2>1. \A i \in DOMAIN y : At(y, i, t, ty) => i \in DOMAIN x /\ At(x, i, t, ty) /\ y[i] = x[i]
    BY <1>1, <1>2, <1>3, <1>5
  <2>2. \A i \in DOMAIN x : At(x, i, t, ty) => i \in DOMAIN y /\ At(y, i, t, ty) /\ y[i] = x[i]
    BY <1>1, <1>2
  <2>q. QED
    BY <1>5, <2>1, <2>2 DEF Counts
<1>6. CASE m.type = ty /\ m.seq = hi
  <2> DEFINE next == hi + 1
  <2>1. ASSUME NEW i \in DOMAIN y, At(y, i, t, ty) PROVE y[i].seq >= lo /\ y[i].seq < next
    <3>1. CASE i \in DOMAIN x
      <4>1. y[i] = x[i] /\ x[i].seq \in Nat /\ x[i].seq >= lo /\ x[i].seq < hi
        BY <1>1, <1>2, <1>4, <2>1, <3>1 DEF Counts
      <4>q. QED
        BY <4>1
    <3>2. CASE i = l
      BY <1>1, <1>6, <3>2
    <3>q. QED
      BY <1>1, <3>1, <3>2
  <2>2. ASSUME NEW i \in DOMAIN y, NEW j \in DOMAIN y, i < j, At(y, i, t, ty), At(y, j, t, ty)
        PROVE  y[i].seq < y[j].seq
    <3>1. i \in DOMAIN x
      BY <1>1, <2>2
    <3>2. y[i] = x[i] /\ x[i].seq < hi /\ At(x, i, t, ty)
      BY <1>1, <1>2, <2>2, <3>1 DEF Counts
    <3>3. CASE j \in DOMAIN x
      BY <1>1, <1>2, <2>2, <3>1, <3>3 DEF Counts
    <3>4. CASE j = l
      BY <1>1, <1>6, <3>2, <3>4
    <3>q. QED
      BY <1>1, <3>3, <3>4
  <2>3. ASSUME NEW k \in lo..(next - 1) PROVE \E i \in DOMAIN y : At(y, i, t, ty) /\ y[i].seq = k
    <3>1. CASE k = hi
      BY <1>1, <1>3, <1>6, <3>1
    <3>2. CASE k # hi
      <4>1. k \in lo..(hi - 1)
        BY <3>2
      <4>2. PICK i \in DOMAIN x : At(x, i, t, ty) /\ x[i].seq = k
        BY <4>1 DEF Counts
      <4>q. QED
        BY <1>1, <1>2, <4>2
    <3>q. QED
      BY <3>1, <3>2
  <2>4. Counts(y, t, ty, lo, next)
    <3> HIDE DEF next
    <3>q. QED
      BY <2>1, <2>2, <2>3 DEF Counts
  <2>q. QED
    BY <1>6, <2>4
<1>q. QED
  BY <1>5, <1>6

LEMMA OneMore ==
  ASSUME NEW x \in Seq(Messages), NEW m \in Messages, NEW t, m.id = t
  PROVE  OneMoreFor(x, x \o <<m>>, t, m)
<1> DEFINE y == x \o <<m>>
           l == Len(x) + 1
           hs == {"request", "offer", "accept"}
<1>1. /\ y \in Seq(Messages) /\ Len(x) \in Nat /\ DOMAIN x \subseteq Int /\ DOMAIN y \subseteq Int
      /\ \A i \in DOMAIN x : i \in DOMAIN y /\ y[i] = x[i] /\ i < l
      /\ l \in DOMAIN y /\ y[l] = m
      /\ \A i \in DOMAIN y : i \in DOMAIN x \/ i = l
  BY AddedAt
<1>2. ASSUME NEW ty, Numbered(ty), NEW lo \in Nat, NEW hi \in Nat, lo <= hi, Counts(x, t, ty, lo, hi)
      PROVE  /\ m.type # ty => Counts(y, t, ty, lo, hi)
             /\ m.type = ty /\ m.seq = hi => Counts(y, t, ty, lo, hi + 1)
  BY <1>2, CountsMore
<1>3. l \in Int
  BY <1>1
<1> HIDE DEF y, l
<1>4. \A i \in DOMAIN x : \A ty : At(y, i, t, ty) <=> At(x, i, t, ty)
  BY <1>1 DEF At
<1>5. \A ty : At(y, l, t, ty) <=> m.type = ty
  BY <1>1 DEF At
<1>6. \A ty : Has(y, t, ty) <=> Has(x, t, ty) \/ m.type = ty
  BY <1>1, <1>4, <1>5 DEF Has
<1>7. \A c : Says(y, c) <=> Says(x, c) \/ m = c
  BY <1>1 DEF Says
<1>8. /\ \A i \in DOMAIN x : HandshakeAt(y, i, t) <=> HandshakeAt(x, i, t)
      /\ HandshakeAt(y, l, t) <=> m.type \in hs
  BY <1>1 DEF HandshakeAt
<1>9. Handshake(y, t) <=> Handshake(x, t) \/ m.type \in hs
  BY <1>1, <1>8 DEF Handshake
<1>10. OneHandshake(x, t) /\ ~(Handshake(x, t) /\ m.type \in hs) => OneHandshake(y, t)
  BY <1>1, <1>8 DEF OneHandshake, Handshake
<1>11. ASSUME NEW a, NEW b, a # b, Precedes(x, t, a, b), ~(Has(x, t, b) /\ m.type = a) PROVE Precedes(y, t, a, b)
  <2> SUFFICES ASSUME NEW i \in DOMAIN y, NEW j \in DOMAIN y, At(y, i, t, a), At(y, j, t, b) PROVE i < j
    BY DEF Precedes
  <2>1. CASE i \in DOMAIN x /\ j \in DOMAIN x
    BY <1>4, <1>11, <2>1 DEF Precedes
  <2>2. CASE i \in DOMAIN x /\ j = l
    BY <1>1, <2>2
  <2>3. CASE i = l /\ j \in DOMAIN x
    BY <1>4, <1>5, <1>11, <2>3 DEF Has
  <2>4. CASE i = l /\ j = l
    BY <1>5, <1>11, <2>4
  <2>q. QED
    BY <1>1, <2>1, <2>2, <2>3, <2>4
<1>12. MoreFor(x, y, t, m)
  BY <1>6, <1>7, <1>9, <1>10, <1>11 DEF MoreFor
<1>13. \A ty, hi : Below(x, t, ty, hi) /\ (m.type = ty => m.seq < hi) => Below(y, t, ty, hi)
  BY <1>1, <1>4, <1>5 DEF Below
<1>14. MoreCounted(x, y, t, m)
  <2>1. Numbered("data") /\ Numbered("ack")
    BY DEF Numbered
  <2>q. QED
    BY <1>2, <1>13, <2>1 DEF MoreCounted
<1>q. QED
  BY <1>12, <1>14 DEF OneMoreFor, y

LEMMA CountsLess ==
  ASSUME NEW x \in Seq(Messages), x # <<>>, NEW t, Head(x).id = t,
         NEW ty, Numbered(ty), NEW lo \in Nat, NEW hi \in Nat, Counts(x, t, ty, lo, hi)
  PROVE  /\ Head(x).type # ty => Counts(Tail(x), t, ty, lo, hi)
         /\ Head(x).type = ty => Head(x).seq = lo /\ lo < hi /\ Counts(Tail(x), t, ty, lo + 1, hi)
<1> DEFINE y == Tail(x)
           h == Head(x)
<1>1. /\ y \in Seq(Messages) /\ 1 \in DOMAIN x /\ x[1] = h
      /\ \A i \in DOMAIN y : i + 1 \in DOMAIN x /\ y[i] = x[i + 1]
      /\ \A i \in DOMAIN x : i = 1 \/ (i > 1 /\ i - 1 \in DOMAIN y /\ y[i - 1] = x[i])
      /\ DOMAIN x \subseteq Int /\ DOMAIN y \subseteq Int
      /\ \A i \in DOMAIN y : 1 < i + 1
  BY Rest
<1> HIDE DEF y, h
<1>2. \A i \in DOMAIN y : At(y, i, t, ty) => i + 1 \in DOMAIN x /\ At(x, i + 1, t, ty) /\ y[i].seq = x[i + 1].seq
  BY <1>1 DEF At
<1>3. \A i \in DOMAIN x : At(x, i, t, ty) /\ i # 1 => i - 1 \in DOMAIN y /\ At(y, i - 1, t, ty) /\ y[i - 1].seq = x[i].seq
  BY <1>1 DEF At
<1>4. \A i \in DOMAIN x : At(x, i, t, ty) => x[i].seq \in Nat
  BY NumberedAt
<1>5. At(x, 1, t, ty) <=> h.type = ty
  BY <1>1 DEF At, h
<1>6. \A i \in DOMAIN y, j \in DOMAIN y : i < j => i + 1 < j + 1
  BY <1>1
<1>7. ASSUME NEW i \in DOMAIN y, NEW j \in DOMAIN y, i < j, At(y, i, t, ty), At(y, j, t, ty)
      PROVE  y[i].seq < y[j].seq
  BY <1>2, <1>6, <1>7 DEF Counts
<1>8. ASSUME h.type # ty PROVE Counts(y, t, ty, lo, hi)
  <2>1. \A i \in DOMAIN y : At(y, i, t, ty) => y[i].seq >= lo /\ y[i].seq < hi
    BY <1>2 DEF Counts
  <2>2. ASSUME NEW k \in lo..(hi - 1) PROVE \E i \in DOMAIN y : At(y, i, t, ty) /\ y[i].seq = k
    <3>1. PICK i \in DOMAIN x : At(x, i, t, ty) /\ x[i].seq = k
      BY DEF Counts
    <3>q. QED
      BY <1>3, <1>5, <1>8, <3>1
  <2>q. QED
    BY <1>7, <2>1, <2>2 DEF Counts
<1>9. ASSUME h.type = ty PROVE h.seq = lo /\ lo < hi /\ Counts(y, t, ty, lo + 1, hi)
  <2>1. At(x, 1, t, ty) /\ h.seq \in Nat /\ h.seq >= lo /\ h.seq < hi
    BY <1>1, <1>4, <1>5, <1>9 DEF Counts
  <2>2. \A i \in DOMAIN x : At(x, i, t, ty) /\ i # 1 => h.seq < x[i].seq
    BY <1>1, <2>1 DEF Counts
  <2>3. h.seq = lo
    <3>1. lo \in lo..(hi - 1)
      BY <2>1
    <3>2. PICK i \in DOMAIN x : At(x, i, t, ty) /\ x[i].seq = lo
      BY <3>1 DEF Counts
    <3>q. QED
      BY <1>1, <2>1, <2>2, <3>2
  <2>4. ASSUME NEW i \in DOMAIN y, At(y, i, t, ty) PROVE y[i].seq >= lo + 1 /\ y[i].seq < hi
    <3>1. /\ i + 1 \in DOMAIN x /\ At(x, i + 1, t, ty) /\ y[i].seq = x[i + 1].seq /\ i + 1 # 1
          /\ x[i + 1].seq \in Nat
      BY <1>1, <1>2, <1>4, <2>4
    <3>2. h.seq < x[i + 1].seq /\ x[i + 1].seq < hi
      BY <2>2, <3>1 DEF Counts
    <3>q. QED
      BY <2>3, <3>1, <3>2
  <2>5. ASSUME NEW k \in (lo + 1)..(hi - 1) PROVE \E i \in DOMAIN y : At(y, i, t, ty) /\ y[i].seq = k
    <3>1. k \in lo..(hi - 1) /\ k # lo
      OBVIOUS
    <3>2. PICK i \in DOMAIN x : At(x, i, t, ty) /\ x[i].seq = k
      BY <3>1 DEF Counts
    <3>3. i # 1
      BY <1>1, <2>3, <3>1, <3>2
    <3>q. QED
      BY <1>3, <3>2, <3>3
  <2>6. Counts(y, t, ty, lo + 1, hi)
    BY <1>7, <2>4, <2>5 DEF Counts
  <2>q. QED
    BY <2>1, <2>3, <2>6
<1>q. QED
  BY <1>8, <1>9 DEF y, h

LEMMA OneLess ==
  ASSUME NEW x \in Seq(Messages), x # <<>>, NEW t, Head(x).id = t
  PROVE  Tail(x) \in Seq(Messages) /\ Head(x) \in Messages /\ OneLessFor(x, Tail(x), t, Head(x))
<1> DEFINE y == Tail(x)
           h == Head(x)
           hs == {"request", "offer", "accept"}
<1>1. /\ y \in Seq(Messages) /\ h \in Messages /\ 1 \in DOMAIN x /\ x[1] = h
      /\ \A i \in DOMAIN y : i + 1 \in DOMAIN x /\ y[i] = x[i + 1]
      /\ \A i \in DOMAIN x : i = 1 \/ (i > 1 /\ i - 1 \in DOMAIN y /\ y[i - 1] = x[i])
      /\ DOMAIN x \subseteq Int /\ DOMAIN y \subseteq Int
      /\ \A i \in DOMAIN y : 1 < i + 1
  BY Rest
<1>2. ASSUME NEW ty, Numbered(ty), NEW lo \in Nat, NEW hi \in Nat, Counts(x, t, ty, lo, hi)
      PROVE  /\ h.type # ty => Counts(y, t, ty, lo, hi)
             /\ h.type = ty => h.seq = lo /\ lo < hi /\ Counts(y, t, ty, lo + 1, hi)
  BY <1>2, CountsLess
<1>3. h.id = t
  OBVIOUS
<1> HIDE DEF y, h
<1>4. \A i \in DOMAIN y : \A ty : At(y, i, t, ty) => i + 1 \in DOMAIN x /\ At(x, i + 1, t, ty) /\ y[i] = x[i + 1]
  BY <1>1 DEF At
<1>5. \A i \in DOMAIN x : \A ty : At(x, i, t, ty) /\ i # 1 => i - 1 \in DOMAIN y /\ At(y, i - 1, t, ty) /\ y[i - 1] = x[i]
  BY <1>1 DEF At
<1>6. \A ty : At(x, 1, t, ty) <=> h.type = ty
  BY <1>1, <1>3 DEF At
<1>7. \A ty : Has(x, t, ty) <=> Has(y, t, ty) \/ h.type = ty
  <2> SUFFICES ASSUME NEW ty PROVE Has(x, t, ty) <=> Has(y, t, ty) \/ h.type = ty
    OBVIOUS
  <2>1. Has(y, t, ty) \/ h.type = ty => Has(x, t, ty)
    BY <1>1, <1>4, <1>6 DEF Has
  <2>2. Has(x, t, ty) /\ h.type # ty => Has(y, t, ty)
    BY <1>1, <1>5, <1>6 DEF Has
  <2>q. QED
    BY <2>1, <2>2
<1>8. \A c : Says(x, c) <=> Says(y, c) \/ h = c
  BY <1>1 DEF Says
<1>9. /\ \A i \in DOMAIN y : HandshakeAt(y, i, t) => HandshakeAt(x, i + 1, t)
      /\ \A i \in DOMAIN x : HandshakeAt(x, i, t) /\ i # 1 => i - 1 \in DOMAIN y /\ HandshakeAt(y, i - 1, t)
      /\ HandshakeAt(x, 1, t) <=> h.type \in hs
  BY <1>1, <1>3 DEF HandshakeAt
<1>10. Handshake(x, t) <=> Handshake(y, t) \/ h.type \in hs
  BY <1>1, <1>9 DEF Handshake
<1>11. ASSUME OneHandshake(x, t) PROVE OneHandshake(y, t) /\ (h.type \in hs => ~Handshake(y, t))
  <2>1. ASSUME NEW i \in DOMAIN y, NEW j \in DOMAIN y, HandshakeAt(y, i, t), HandshakeAt(y, j, t) PROVE i = j
    <3>1. i + 1 = j + 1
      BY <1>1, <1>9, <1>11, <2>1 DEF OneHandshake
    <3>q. QED
      BY <1>1, <3>1
  <2>2. ASSUME NEW i \in DOMAIN y, HandshakeAt(y, i, t), h.type \in hs PROVE FALSE
    <3>1. i + 1 = 1
      BY <1>1, <1>9, <1>11, <2>2 DEF OneHandshake
    <3>q. QED
      BY <1>1, <3>1
  <2>q. QED
    BY <2>1, <2>2 DEF OneHandshake, Handshake
<1>12. ASSUME NEW a, NEW b, Precedes(x, t, a, b) PROVE Precedes(y, t, a, b) /\ (h.type = b => ~Has(y, t, a))
  <2>1. ASSUME NEW i \in DOMAIN y, NEW j \in DOMAIN y, At(y, i, t, a), At(y, j, t, b) PROVE i < j
    <3>1. i + 1 < j + 1
      BY <1>4, <1>12, <2>1 DEF Precedes
    <3>q. QED
      BY <1>1, <3>1
  <2>2. ASSUME NEW i \in DOMAIN y, At(y, i, t, a), h.type = b PROVE FALSE
    <3>1. i + 1 < 1
      BY <1>1, <1>4, <1>6, <1>12, <2>2 DEF Precedes
    <3>q. QED
      BY <1>1, <3>1
  <2>q. QED
    BY <2>1, <2>2 DEF Precedes, Has
<1>13. LessFor(x, y, t, h)
  BY <1>7, <1>8, <1>10, <1>11, <1>12 DEF LessFor
<1>14. \A ty, hi : Below(x, t, ty, hi) => Below(y, t, ty, hi) /\ (h.type = ty => h.seq < hi)
  BY <1>1, <1>4, <1>6 DEF Below
<1>15. LessCounted(x, y, t, h)
  <2>1. Numbered("data") /\ Numbered("ack")
    BY DEF Numbered
  <2>q. QED
    BY <1>2, <1>14, <2>1 DEF LessCounted
<1>q. QED
  BY <1>1, <1>13, <1>15 DEF OneLessFor, y, h

LEMMA CountsEmpty ==
  ASSUME NEW x, NEW t, NEW ty, NEW lo \in Nat, NEW hi \in Nat, lo <= hi,
         Counts(x, t, ty, lo, hi), ~Has(x, t, ty)
  PROVE  lo = hi
<1>1. CASE lo < hi
  <2>1. lo \in lo..(hi - 1)
    BY <1>1
  <2>q. QED
    BY <2>1 DEF Counts, Has
<1>q. QED
  BY <1>1

LEMMA CountsNone ==
  ASSUME NEW x, NEW t, NEW ty, ~Has(x, t, ty), NEW n \in Nat
  PROVE  Counts(x, t, ty, n, n)
<1>1. n..(n - 1) = {}
  OBVIOUS
<1>q. QED
  BY <1>1 DEF Counts, Has

LEMMA BelowNone ==
  ASSUME NEW x \in Seq(Messages), NEW t, NEW ty, Numbered(ty), Below(x, t, ty, 0)
  PROVE  ~Has(x, t, ty)
<1> SUFFICES ASSUME NEW i \in DOMAIN x, At(x, i, t, ty) PROVE FALSE
  BY DEF Has
<1>1. x[i].seq \in Nat /\ x[i].seq < 0
  BY NumberedAt DEF Below
<1>q. QED
  BY <1>1

(* Nothing has been sent of what has not been accepted.                     *)
LEMMA NothingYet ==
  ASSUME TypeOK, NEW t \in Transfers, NEW q \in Seq(Messages), NEW acc, NEW acks,
         TransferOK(t, q, acc, acks), t \notin acc
  PROVE  /\ sent[t] = 0 /\ acked[t] = 0 /\ got[t] = 0
         /\ ~Has(q, t, "ack") /\ ~Has(ToReceiver(t), t, "data")
         /\ Counts(q, t, "ack", 0, 0) /\ Counts(ToReceiver(t), t, "data", 0, 0)
<1>1. sent[t] = 0
  BY DEF TransferOK, BeforeOK
<1>2. acked[t] = 0 /\ got[t] = 0 /\ ToReceiver(t) \in Seq(Messages)
  BY <1>1, Typed DEF ToReceiver
<1>3. Below(ToReceiver(t), t, "data", 0) /\ Below(q, t, "ack", 0)
  BY <1>1, <1>2 DEF TransferOK, ChunksOK
<1>4. Numbered("ack") /\ Numbered("data") /\ 0 \in Nat
  BY DEF Numbered
<1>5. ~Has(q, t, "ack") /\ ~Has(ToReceiver(t), t, "data")
  BY <1>2, <1>3, <1>4, BelowNone
<1>q. QED
  BY <1>1, <1>2, <1>4, <1>5, CountsNone

-----------------------------------------------------------------------------
(* What each step makes of the transfer it is about.                        *)
LEMMA OfferOwn ==
  ASSUME TypeOK, NEW t \in Transfers, AllWell(t),
         Offer(t)
  PROVE  AllWell(t)'
<1> DEFINE p == net[Receiver(t)]
           q == net[Sender[t]]
           pp == net'[Receiver(t)]
           qq == net'[Sender[t]]
<1>1. /\ p \in Seq(Messages) /\ q \in Seq(Messages)
      /\ sent[t] \in Nat /\ acked[t] \in Nat /\ got[t] \in Nat /\ Size[t] \in Nat
      /\ acked[t] <= sent[t] /\ sent[t] <= Size[t] /\ got[t] <= sent[t]
      /\ Sender[t] \in Ends /\ Receiver(t) \in Ends /\ Receiver(t) # Sender[t]
      /\ Other(Sender[t]) = Receiver(t) /\ Other(Receiver(t)) = Sender[t]
      /\ \A e \in Ends : (t \in From(e) <=> e = Sender[t]) /\ (t \in To(e) <=> e = Receiver(t))
  BY Typed, TwoEnds
<1>2. /\ FreshOK(t, q) /\ StepOK(t, q, accepted) /\ BeforeOK(t, q, accepted) /\ RecordOK(t) /\ AnswerOK(t, q)
      /\ GivenUpOK(t, q) /\ OtherEndOK(t, q) /\ ChunksOK(t, q, acked) /\ SettledOK(t)
      /\ TransferOK(t, q, accepted, acked)
  BY DEF AllWell, TransferOK, ToSender
<1>3. /\ ToReceiver(t) = p /\ ToReceiver(t)' = pp /\ ToSender(t)' = qq
      /\ ToldSender(t) = verdict[Sender[t]][t] /\ ToldSender(t)' = verdict'[Sender[t]][t]
      /\ ToldReceiver(t) = verdict[Receiver(t)][t] /\ ToldReceiver(t)' = verdict'[Receiver(t)][t]
  BY DEF ToReceiver, ToSender, ToldSender, ToldReceiver
<1>4. /\ AcceptMsg(t, FALSE) \in Messages /\ AcceptMsg(t, FALSE).id = t /\ AcceptMsg(t, FALSE).type = "accept"
      /\ AcceptMsg(t, TRUE) \in Messages /\ AcceptMsg(t, TRUE).id = t /\ AcceptMsg(t, TRUE).type = "accept"
      /\ AcceptMsg(t, FALSE) # AcceptMsg(t, TRUE)
      /\ EndMsg(t, TRUE) \in Messages /\ EndMsg(t, TRUE).id = t /\ EndMsg(t, TRUE).type = "end"
      /\ EndMsg(t, FALSE) \in Messages /\ EndMsg(t, FALSE).id = t /\ EndMsg(t, FALSE).type = "end"
      /\ EndMsg(t, TRUE) # EndMsg(t, FALSE)
      /\ OfferMsg(t) \in Messages /\ OfferMsg(t).id = t /\ OfferMsg(t).type = "offer"
      /\ RequestMsg(t) \in Messages /\ RequestMsg(t).id = t /\ RequestMsg(t).type = "request"
  <2>1. AcceptMsg(t, FALSE) # AcceptMsg(t, TRUE) /\ EndMsg(t, TRUE) # EndMsg(t, FALSE)
    BY DEF AcceptMsg, EndMsg
  <2>q. QED
    BY <2>1, Sayings, EndSaid
<1>5. /\ t \in begun' <=> TRUE
      /\ t \in sending' <=> TRUE
      /\ t \in accepted' <=> t \in accepted
      /\ t \in receiving' <=> t \in receiving
      /\ t \in pending' <=> t \in pending
      /\ t \in wanted' <=> t \in wanted
      /\ t \in opening' <=> t \in opening
      /\ sent'[t] = sent[t]
      /\ acked'[t] = acked[t]
      /\ got'[t] = got[t]
      /\ file'[t] = file[t]
      /\ verdict'[Sender[t]][t] = verdict[Sender[t]][t]
      /\ verdict'[Receiver(t)][t] = verdict[Receiver(t)][t]
  BY <1>1, SMT DEF Offer, inVars
<1>6. qq = q /\ pp = p \o <<OfferMsg(t)>>
  BY <1>1, <1>4, SaidOne DEF Offer
<1>7. /\ OneMoreFor(p, pp, t, OfferMsg(t))
  BY <1>1, <1>4, <1>6, OneMore
<1>8. /\ Handshake(p, t) <=> Has(p, t, "request") \/ Has(p, t, "offer") \/ Has(p, t, "accept")
      /\ Says(p, AcceptMsg(t, FALSE)) => Has(p, t, "accept")
      /\ Says(p, EndMsg(t, TRUE)) => Has(p, t, "end")
      /\ Says(p, EndMsg(t, FALSE)) => Has(p, t, "end")
      /\ Handshake(q, t) <=> Has(q, t, "request") \/ Has(q, t, "offer") \/ Has(q, t, "accept")
      /\ Says(q, AcceptMsg(t, FALSE)) => Has(q, t, "accept")
      /\ Says(q, EndMsg(t, TRUE)) => Has(q, t, "end")
      /\ Says(q, EndMsg(t, FALSE)) => Has(q, t, "end")
  BY Handshakes
<1>x. t \notin begun /\ t \notin Asked /\ sent[t] = 0 /\ acked[t] = 0 /\ got[t] = 0 /\ ~Has(q, t, "ack") /\ ~Has(p, t, "data")
  /\ Counts(q, t, "ack", 0, 0) /\ Counts(p, t, "data", 0, 0)
  <2>1. t \notin begun /\ t \notin Asked
    BY DEF Offer
  <2>2. t \notin accepted
    BY <1>2, <2>1 DEF BeforeOK, Unanswered, Early
  <2>q. QED
    BY <1>1, <1>2, <1>3, <2>1, <2>2, NothingYet
<1> HIDE DEF p, q, pp, qq
<1>9. FreshOK(t, ToSender(t))'
  BY <1>1, <1>2, <1>3, <1>4, <1>5, <1>6, <1>7, <1>8, <1>x DEF FreshOK, StepOK, BeforeOK, Early, Unanswered, OneMoreFor, MoreFor
<1>10. StepOK(t, ToSender(t), accepted)'
  BY <1>1, <1>2, <1>3, <1>4, <1>5, <1>6, <1>7, <1>8, <1>x DEF StepOK, FreshOK, AnswerOK, GivenUpOK, BeforeOK, Early, Unanswered, OneMoreFor, MoreFor
<1>11. BeforeOK(t, ToSender(t), accepted)'
  BY <1>1, <1>2, <1>3, <1>4, <1>5, <1>6, <1>7, <1>8, <1>x DEF BeforeOK, FreshOK, RecordOK, StepOK, SettledOK, Early, Unanswered, OneMoreFor, MoreFor
<1>12. RecordOK(t)'
  BY <1>1, <1>2, <1>3, <1>4, <1>5, <1>6, <1>7, <1>8, <1>x DEF RecordOK, FreshOK, BeforeOK, SettledOK, OtherEndOK, StepOK, Early, Unanswered, OneMoreFor, MoreFor
<1>13. AnswerOK(t, ToSender(t))'
  BY <1>1, <1>2, <1>3, <1>4, <1>5, <1>6, <1>7, <1>8, <1>x DEF AnswerOK, FreshOK, RecordOK, BeforeOK, StepOK, SettledOK, OtherEndOK, Early, Unanswered, OneMoreFor, MoreFor
<1>14. GivenUpOK(t, ToSender(t))'
  BY <1>1, <1>2, <1>3, <1>4, <1>5, <1>6, <1>7, <1>8, <1>x DEF GivenUpOK, FreshOK, StepOK, RecordOK, OtherEndOK, BeforeOK, SettledOK, AnswerOK, Early, Unanswered, OneMoreFor, MoreFor
<1>15. OtherEndOK(t, ToSender(t))'
  BY <1>1, <1>2, <1>3, <1>4, <1>5, <1>6, <1>7, <1>8, <1>x DEF OtherEndOK, FreshOK, StepOK, BeforeOK, AnswerOK, GivenUpOK, RecordOK, Early, Unanswered, OneMoreFor, MoreFor
<1>16. ChunksOK(t, ToSender(t), acked)'
  BY <1>1, <1>2, <1>3, <1>4, <1>5, <1>6, <1>7, <1>8, <1>x DEF ChunksOK, StepOK, BeforeOK, Early, Unanswered, OneMoreFor, MoreCounted
<1>17. SettledOK(t)'
  BY <1>1, <1>2, <1>3, <1>4, <1>5, <1>6, <1>7, <1>8, <1>x DEF SettledOK, FreshOK, BeforeOK, RecordOK, AnswerOK, GivenUpOK, StepOK, OtherEndOK, Early, Unanswered, OneMoreFor, MoreFor
<1>q. QED
  BY <1>9, <1>10, <1>11, <1>12, <1>13, <1>14, <1>15, <1>16, <1>17 DEF AllWell, TransferOK

LEMMA RequestOwn ==
  ASSUME TypeOK, NEW t \in Transfers, AllWell(t),
         Request(t)
  PROVE  AllWell(t)'
<1> DEFINE p == net[Receiver(t)]
           q == net[Sender[t]]
           pp == net'[Receiver(t)]
           qq == net'[Sender[t]]
<1>1. /\ p \in Seq(Messages) /\ q \in Seq(Messages)
      /\ sent[t] \in Nat /\ acked[t] \in Nat /\ got[t] \in Nat /\ Size[t] \in Nat
      /\ acked[t] <= sent[t] /\ sent[t] <= Size[t] /\ got[t] <= sent[t]
      /\ Sender[t] \in Ends /\ Receiver(t) \in Ends /\ Receiver(t) # Sender[t]
      /\ Other(Sender[t]) = Receiver(t) /\ Other(Receiver(t)) = Sender[t]
      /\ \A e \in Ends : (t \in From(e) <=> e = Sender[t]) /\ (t \in To(e) <=> e = Receiver(t))
  BY Typed, TwoEnds
<1>2. /\ FreshOK(t, q) /\ StepOK(t, q, accepted) /\ BeforeOK(t, q, accepted) /\ RecordOK(t) /\ AnswerOK(t, q)
      /\ GivenUpOK(t, q) /\ OtherEndOK(t, q) /\ ChunksOK(t, q, acked) /\ SettledOK(t)
      /\ TransferOK(t, q, accepted, acked)
  BY DEF AllWell, TransferOK, ToSender
<1>3. /\ ToReceiver(t) = p /\ ToReceiver(t)' = pp /\ ToSender(t)' = qq
      /\ ToldSender(t) = verdict[Sender[t]][t] /\ ToldSender(t)' = verdict'[Sender[t]][t]
      /\ ToldReceiver(t) = verdict[Receiver(t)][t] /\ ToldReceiver(t)' = verdict'[Receiver(t)][t]
  BY DEF ToReceiver, ToSender, ToldSender, ToldReceiver
<1>4. /\ AcceptMsg(t, FALSE) \in Messages /\ AcceptMsg(t, FALSE).id = t /\ AcceptMsg(t, FALSE).type = "accept"
      /\ AcceptMsg(t, TRUE) \in Messages /\ AcceptMsg(t, TRUE).id = t /\ AcceptMsg(t, TRUE).type = "accept"
      /\ AcceptMsg(t, FALSE) # AcceptMsg(t, TRUE)
      /\ EndMsg(t, TRUE) \in Messages /\ EndMsg(t, TRUE).id = t /\ EndMsg(t, TRUE).type = "end"
      /\ EndMsg(t, FALSE) \in Messages /\ EndMsg(t, FALSE).id = t /\ EndMsg(t, FALSE).type = "end"
      /\ EndMsg(t, TRUE) # EndMsg(t, FALSE)
      /\ OfferMsg(t) \in Messages /\ OfferMsg(t).id = t /\ OfferMsg(t).type = "offer"
      /\ RequestMsg(t) \in Messages /\ RequestMsg(t).id = t /\ RequestMsg(t).type = "request"
  <2>1. AcceptMsg(t, FALSE) # AcceptMsg(t, TRUE) /\ EndMsg(t, TRUE) # EndMsg(t, FALSE)
    BY DEF AcceptMsg, EndMsg
  <2>q. QED
    BY <2>1, Sayings, EndSaid
<1>5. /\ t \in begun' <=> TRUE
      /\ t \in sending' <=> t \in sending
      /\ t \in accepted' <=> t \in accepted
      /\ t \in receiving' <=> t \in receiving
      /\ t \in pending' <=> TRUE
      /\ t \in wanted' <=> TRUE
      /\ t \in opening' <=> t \in opening
      /\ sent'[t] = sent[t]
      /\ acked'[t] = acked[t]
      /\ got'[t] = got[t]
      /\ file'[t] = file[t]
      /\ verdict'[Sender[t]][t] = verdict[Sender[t]][t]
      /\ verdict'[Receiver(t)][t] = verdict[Receiver(t)][t]
  BY <1>1, SMT DEF Request, outVars
<1>6. pp = p /\ qq = q \o <<RequestMsg(t)>>
  BY <1>1, <1>4, SaidOne DEF Request
<1>7. /\ OneMoreFor(q, qq, t, RequestMsg(t))
  BY <1>1, <1>4, <1>6, OneMore
<1>8. /\ Handshake(p, t) <=> Has(p, t, "request") \/ Has(p, t, "offer") \/ Has(p, t, "accept")
      /\ Says(p, AcceptMsg(t, FALSE)) => Has(p, t, "accept")
      /\ Says(p, EndMsg(t, TRUE)) => Has(p, t, "end")
      /\ Says(p, EndMsg(t, FALSE)) => Has(p, t, "end")
      /\ Handshake(q, t) <=> Has(q, t, "request") \/ Has(q, t, "offer") \/ Has(q, t, "accept")
      /\ Says(q, AcceptMsg(t, FALSE)) => Has(q, t, "accept")
      /\ Says(q, EndMsg(t, TRUE)) => Has(q, t, "end")
      /\ Says(q, EndMsg(t, FALSE)) => Has(q, t, "end")
  BY Handshakes
<1>x. /\ t \notin begun /\ t \in Asked
      /\ t \notin accepted /\ sent[t] = 0 /\ acked[t] = 0 /\ got[t] = 0
      /\ ~Has(q, t, "ack") /\ ~Has(p, t, "data")
      /\ Counts(q, t, "ack", 0, 0) /\ Counts(p, t, "data", 0, 0)
  <2>1. t \notin begun /\ t \in Asked
    BY SMT DEF Request
  <2>2. t \notin accepted
    BY <1>2, <2>1 DEF StepOK, BeforeOK, Unanswered, Early
  <2>q. QED
    BY <1>1, <1>2, <1>3, <2>1, <2>2, NothingYet
<1> HIDE DEF p, q, pp, qq
<1>9. FreshOK(t, ToSender(t))'
  BY <1>1, <1>2, <1>3, <1>4, <1>5, <1>6, <1>7, <1>8, <1>x DEF FreshOK, StepOK, BeforeOK, Early, Unanswered, OneMoreFor, MoreFor
<1>10. StepOK(t, ToSender(t), accepted)'
  BY <1>1, <1>2, <1>3, <1>4, <1>5, <1>6, <1>7, <1>8, <1>x DEF StepOK, FreshOK, AnswerOK, GivenUpOK, BeforeOK, Early, Unanswered, OneMoreFor, MoreFor
<1>11. BeforeOK(t, ToSender(t), accepted)'
  BY <1>1, <1>2, <1>3, <1>4, <1>5, <1>6, <1>7, <1>8, <1>x DEF BeforeOK, FreshOK, RecordOK, StepOK, SettledOK, Early, Unanswered, OneMoreFor, MoreFor
<1>12. RecordOK(t)'
  BY <1>1, <1>2, <1>3, <1>4, <1>5, <1>6, <1>7, <1>8, <1>x DEF RecordOK, FreshOK, BeforeOK, SettledOK, OtherEndOK, StepOK, Early, Unanswered, OneMoreFor, MoreFor
<1>13. AnswerOK(t, ToSender(t))'
  BY <1>1, <1>2, <1>3, <1>4, <1>5, <1>6, <1>7, <1>8, <1>x DEF AnswerOK, FreshOK, RecordOK, BeforeOK, StepOK, SettledOK, OtherEndOK, Early, Unanswered, OneMoreFor, MoreFor
<1>14. GivenUpOK(t, ToSender(t))'
  BY <1>1, <1>2, <1>3, <1>4, <1>5, <1>6, <1>7, <1>8, <1>x DEF GivenUpOK, FreshOK, StepOK, RecordOK, OtherEndOK, BeforeOK, SettledOK, AnswerOK, Early, Unanswered, OneMoreFor, MoreFor
<1>15. OtherEndOK(t, ToSender(t))'
  BY <1>1, <1>2, <1>3, <1>4, <1>5, <1>6, <1>7, <1>8, <1>x DEF OtherEndOK, FreshOK, StepOK, BeforeOK, AnswerOK, GivenUpOK, RecordOK, Early, Unanswered, OneMoreFor, MoreFor
<1>16. ChunksOK(t, ToSender(t), acked)'
  BY <1>1, <1>2, <1>3, <1>4, <1>5, <1>6, <1>7, <1>8, <1>x DEF ChunksOK, StepOK, BeforeOK, Early, Unanswered, OneMoreFor, MoreCounted
<1>17. SettledOK(t)'
  BY <1>1, <1>2, <1>3, <1>4, <1>5, <1>6, <1>7, <1>8, <1>x DEF SettledOK, FreshOK, BeforeOK, RecordOK, AnswerOK, GivenUpOK, StepOK, OtherEndOK, Early, Unanswered, OneMoreFor, MoreFor
<1>q. QED
  BY <1>9, <1>10, <1>11, <1>12, <1>13, <1>14, <1>15, <1>16, <1>17 DEF AllWell, TransferOK

LEMMA OpenedOwn ==
  ASSUME TypeOK, NEW t \in Transfers, AllWell(t),
         Opened(t)
  PROVE  AllWell(t)'
<1> DEFINE p == net[Receiver(t)]
           q == net[Sender[t]]
           pp == net'[Receiver(t)]
           qq == net'[Sender[t]]
<1>1. /\ p \in Seq(Messages) /\ q \in Seq(Messages)
      /\ sent[t] \in Nat /\ acked[t] \in Nat /\ got[t] \in Nat /\ Size[t] \in Nat
      /\ acked[t] <= sent[t] /\ sent[t] <= Size[t] /\ got[t] <= sent[t]
      /\ Sender[t] \in Ends /\ Receiver(t) \in Ends /\ Receiver(t) # Sender[t]
      /\ Other(Sender[t]) = Receiver(t) /\ Other(Receiver(t)) = Sender[t]
      /\ \A e \in Ends : (t \in From(e) <=> e = Sender[t]) /\ (t \in To(e) <=> e = Receiver(t))
  BY Typed, TwoEnds
<1>2. /\ FreshOK(t, q) /\ StepOK(t, q, accepted) /\ BeforeOK(t, q, accepted) /\ RecordOK(t) /\ AnswerOK(t, q)
      /\ GivenUpOK(t, q) /\ OtherEndOK(t, q) /\ ChunksOK(t, q, acked) /\ SettledOK(t)
      /\ TransferOK(t, q, accepted, acked)
  BY DEF AllWell, TransferOK, ToSender
<1>3. /\ ToReceiver(t) = p /\ ToReceiver(t)' = pp /\ ToSender(t)' = qq
      /\ ToldSender(t) = verdict[Sender[t]][t] /\ ToldSender(t)' = verdict'[Sender[t]][t]
      /\ ToldReceiver(t) = verdict[Receiver(t)][t] /\ ToldReceiver(t)' = verdict'[Receiver(t)][t]
  BY DEF ToReceiver, ToSender, ToldSender, ToldReceiver
<1>4. /\ AcceptMsg(t, FALSE) \in Messages /\ AcceptMsg(t, FALSE).id = t /\ AcceptMsg(t, FALSE).type = "accept"
      /\ AcceptMsg(t, TRUE) \in Messages /\ AcceptMsg(t, TRUE).id = t /\ AcceptMsg(t, TRUE).type = "accept"
      /\ AcceptMsg(t, FALSE) # AcceptMsg(t, TRUE)
      /\ EndMsg(t, TRUE) \in Messages /\ EndMsg(t, TRUE).id = t /\ EndMsg(t, TRUE).type = "end"
      /\ EndMsg(t, FALSE) \in Messages /\ EndMsg(t, FALSE).id = t /\ EndMsg(t, FALSE).type = "end"
      /\ EndMsg(t, TRUE) # EndMsg(t, FALSE)
      /\ OfferMsg(t) \in Messages /\ OfferMsg(t).id = t /\ OfferMsg(t).type = "offer"
      /\ RequestMsg(t) \in Messages /\ RequestMsg(t).id = t /\ RequestMsg(t).type = "request"
  <2>1. AcceptMsg(t, FALSE) # AcceptMsg(t, TRUE) /\ EndMsg(t, TRUE) # EndMsg(t, FALSE)
    BY DEF AcceptMsg, EndMsg
  <2>q. QED
    BY <2>1, Sayings, EndSaid
<1>y. Sender[t] = "server"
  BY <1>1 DEF Opened, TypeOK, From
<1>5. /\ t \in begun' <=> t \in begun
      /\ t \in sending' <=> TRUE
      /\ t \in accepted' <=> t \in accepted
      /\ t \in receiving' <=> t \in receiving
      /\ t \in pending' <=> t \in pending
      /\ t \in wanted' <=> t \in wanted
      /\ t \in opening' <=> FALSE
      /\ sent'[t] = sent[t]
      /\ acked'[t] = acked[t]
      /\ got'[t] = got[t]
      /\ file'[t] = file[t]
      /\ verdict'[Sender[t]][t] = verdict[Sender[t]][t]
      /\ verdict'[Receiver(t)][t] = verdict[Receiver(t)][t]
  BY <1>1, SMT DEF Opened, inVars
<1>6. qq = q /\ pp = p \o <<OfferMsg(t)>>
  BY <1>1, <1>4, SaidOne, <1>y DEF Opened
<1>7. /\ OneMoreFor(p, pp, t, OfferMsg(t))
  BY <1>1, <1>4, <1>6, OneMore
<1>8. /\ Handshake(p, t) <=> Has(p, t, "request") \/ Has(p, t, "offer") \/ Has(p, t, "accept")
      /\ Says(p, AcceptMsg(t, FALSE)) => Has(p, t, "accept")
      /\ Says(p, EndMsg(t, TRUE)) => Has(p, t, "end")
      /\ Says(p, EndMsg(t, FALSE)) => Has(p, t, "end")
      /\ Handshake(q, t) <=> Has(q, t, "request") \/ Has(q, t, "offer") \/ Has(q, t, "accept")
      /\ Says(q, AcceptMsg(t, FALSE)) => Has(q, t, "accept")
      /\ Says(q, EndMsg(t, TRUE)) => Has(q, t, "end")
      /\ Says(q, EndMsg(t, FALSE)) => Has(q, t, "end")
  BY Handshakes
<1>x. /\ t \in opening /\ t \in Asked
      /\ t \notin accepted /\ sent[t] = 0 /\ acked[t] = 0 /\ got[t] = 0
      /\ ~Has(q, t, "ack") /\ ~Has(p, t, "data")
      /\ Counts(q, t, "ack", 0, 0) /\ Counts(p, t, "data", 0, 0)
  <2>1. t \in opening /\ t \in Asked
    BY SMT DEF Opened, TypeOK
  <2>2. t \notin accepted
    BY <1>2, <2>1 DEF StepOK, BeforeOK, Unanswered, Early
  <2>q. QED
    BY <1>1, <1>2, <1>3, <2>1, <2>2, NothingYet
<1> HIDE DEF p, q, pp, qq
<1>9. FreshOK(t, ToSender(t))'
  BY <1>1, <1>2, <1>3, <1>4, <1>5, <1>6, <1>7, <1>8, <1>x DEF FreshOK, StepOK, BeforeOK, Early, Unanswered, OneMoreFor, MoreFor
<1>10. StepOK(t, ToSender(t), accepted)'
  BY <1>1, <1>2, <1>3, <1>4, <1>5, <1>6, <1>7, <1>8, <1>x DEF StepOK, FreshOK, AnswerOK, GivenUpOK, BeforeOK, Early, Unanswered, OneMoreFor, MoreFor
<1>11. BeforeOK(t, ToSender(t), accepted)'
  BY <1>1, <1>2, <1>3, <1>4, <1>5, <1>6, <1>7, <1>8, <1>x DEF BeforeOK, FreshOK, RecordOK, StepOK, SettledOK, Early, Unanswered, OneMoreFor, MoreFor
<1>12. RecordOK(t)'
  BY <1>1, <1>2, <1>3, <1>4, <1>5, <1>6, <1>7, <1>8, <1>x DEF RecordOK, FreshOK, BeforeOK, SettledOK, OtherEndOK, StepOK, Early, Unanswered, OneMoreFor, MoreFor
<1>13. AnswerOK(t, ToSender(t))'
  BY <1>1, <1>2, <1>3, <1>4, <1>5, <1>6, <1>7, <1>8, <1>x DEF AnswerOK, FreshOK, RecordOK, BeforeOK, StepOK, SettledOK, OtherEndOK, Early, Unanswered, OneMoreFor, MoreFor
<1>14. GivenUpOK(t, ToSender(t))'
  BY <1>1, <1>2, <1>3, <1>4, <1>5, <1>6, <1>7, <1>8, <1>x DEF GivenUpOK, FreshOK, StepOK, RecordOK, OtherEndOK, BeforeOK, SettledOK, AnswerOK, Early, Unanswered, OneMoreFor, MoreFor
<1>15. OtherEndOK(t, ToSender(t))'
  BY <1>1, <1>2, <1>3, <1>4, <1>5, <1>6, <1>7, <1>8, <1>x DEF OtherEndOK, FreshOK, StepOK, BeforeOK, AnswerOK, GivenUpOK, RecordOK, Early, Unanswered, OneMoreFor, MoreFor
<1>16. ChunksOK(t, ToSender(t), acked)'
  BY <1>1, <1>2, <1>3, <1>4, <1>5, <1>6, <1>7, <1>8, <1>x DEF ChunksOK, StepOK, BeforeOK, Early, Unanswered, OneMoreFor, MoreCounted
<1>17. SettledOK(t)'
  BY <1>1, <1>2, <1>3, <1>4, <1>5, <1>6, <1>7, <1>8, <1>x DEF SettledOK, FreshOK, BeforeOK, RecordOK, AnswerOK, GivenUpOK, StepOK, OtherEndOK, Early, Unanswered, OneMoreFor, MoreFor
<1>q. QED
  BY <1>9, <1>10, <1>11, <1>12, <1>13, <1>14, <1>15, <1>16, <1>17 DEF AllWell, TransferOK

LEMMA OpenFailedOwn ==
  ASSUME TypeOK, NEW t \in Transfers, AllWell(t),
         OpenFailed(t)
  PROVE  AllWell(t)'
<1> DEFINE p == net[Receiver(t)]
           q == net[Sender[t]]
           pp == net'[Receiver(t)]
           qq == net'[Sender[t]]
<1>1. /\ p \in Seq(Messages) /\ q \in Seq(Messages)
      /\ sent[t] \in Nat /\ acked[t] \in Nat /\ got[t] \in Nat /\ Size[t] \in Nat
      /\ acked[t] <= sent[t] /\ sent[t] <= Size[t] /\ got[t] <= sent[t]
      /\ Sender[t] \in Ends /\ Receiver(t) \in Ends /\ Receiver(t) # Sender[t]
      /\ Other(Sender[t]) = Receiver(t) /\ Other(Receiver(t)) = Sender[t]
      /\ \A e \in Ends : (t \in From(e) <=> e = Sender[t]) /\ (t \in To(e) <=> e = Receiver(t))
  BY Typed, TwoEnds
<1>2. /\ FreshOK(t, q) /\ StepOK(t, q, accepted) /\ BeforeOK(t, q, accepted) /\ RecordOK(t) /\ AnswerOK(t, q)
      /\ GivenUpOK(t, q) /\ OtherEndOK(t, q) /\ ChunksOK(t, q, acked) /\ SettledOK(t)
      /\ TransferOK(t, q, accepted, acked)
  BY DEF AllWell, TransferOK, ToSender
<1>3. /\ ToReceiver(t) = p /\ ToReceiver(t)' = pp /\ ToSender(t)' = qq
      /\ ToldSender(t) = verdict[Sender[t]][t] /\ ToldSender(t)' = verdict'[Sender[t]][t]
      /\ ToldReceiver(t) = verdict[Receiver(t)][t] /\ ToldReceiver(t)' = verdict'[Receiver(t)][t]
  BY DEF ToReceiver, ToSender, ToldSender, ToldReceiver
<1>4. /\ AcceptMsg(t, FALSE) \in Messages /\ AcceptMsg(t, FALSE).id = t /\ AcceptMsg(t, FALSE).type = "accept"
      /\ AcceptMsg(t, TRUE) \in Messages /\ AcceptMsg(t, TRUE).id = t /\ AcceptMsg(t, TRUE).type = "accept"
      /\ AcceptMsg(t, FALSE) # AcceptMsg(t, TRUE)
      /\ EndMsg(t, TRUE) \in Messages /\ EndMsg(t, TRUE).id = t /\ EndMsg(t, TRUE).type = "end"
      /\ EndMsg(t, FALSE) \in Messages /\ EndMsg(t, FALSE).id = t /\ EndMsg(t, FALSE).type = "end"
      /\ EndMsg(t, TRUE) # EndMsg(t, FALSE)
      /\ OfferMsg(t) \in Messages /\ OfferMsg(t).id = t /\ OfferMsg(t).type = "offer"
      /\ RequestMsg(t) \in Messages /\ RequestMsg(t).id = t /\ RequestMsg(t).type = "request"
  <2>1. AcceptMsg(t, FALSE) # AcceptMsg(t, TRUE) /\ EndMsg(t, TRUE) # EndMsg(t, FALSE)
    BY DEF AcceptMsg, EndMsg
  <2>q. QED
    BY <2>1, Sayings, EndSaid
<1>y. Sender[t] = "server"
  BY <1>1 DEF OpenFailed, TypeOK, From
<1>5. /\ t \in begun' <=> t \in begun
      /\ t \in sending' <=> t \in sending
      /\ t \in accepted' <=> t \in accepted
      /\ t \in receiving' <=> t \in receiving
      /\ t \in pending' <=> t \in pending
      /\ t \in wanted' <=> t \in wanted
      /\ t \in opening' <=> FALSE
      /\ sent'[t] = sent[t]
      /\ acked'[t] = acked[t]
      /\ got'[t] = got[t]
      /\ file'[t] = file[t]
      /\ verdict'[Sender[t]][t] = verdict[Sender[t]][t]
      /\ verdict'[Receiver(t)][t] = verdict[Receiver(t)][t]
  BY <1>1, SMT DEF OpenFailed, inVars, outVars
<1>6. qq = q /\ pp = p \o <<EndMsg(t, FALSE)>>
  BY <1>1, <1>4, SaidOne, <1>y DEF OpenFailed
<1>7. /\ OneMoreFor(p, pp, t, EndMsg(t, FALSE))
  BY <1>1, <1>4, <1>6, OneMore
<1>8. /\ Handshake(p, t) <=> Has(p, t, "request") \/ Has(p, t, "offer") \/ Has(p, t, "accept")
      /\ Says(p, AcceptMsg(t, FALSE)) => Has(p, t, "accept")
      /\ Says(p, EndMsg(t, TRUE)) => Has(p, t, "end")
      /\ Says(p, EndMsg(t, FALSE)) => Has(p, t, "end")
      /\ Handshake(q, t) <=> Has(q, t, "request") \/ Has(q, t, "offer") \/ Has(q, t, "accept")
      /\ Says(q, AcceptMsg(t, FALSE)) => Has(q, t, "accept")
      /\ Says(q, EndMsg(t, TRUE)) => Has(q, t, "end")
      /\ Says(q, EndMsg(t, FALSE)) => Has(q, t, "end")
  BY Handshakes
<1>x. /\ t \in opening
      /\ t \notin accepted /\ sent[t] = 0 /\ acked[t] = 0 /\ got[t] = 0
      /\ ~Has(q, t, "ack") /\ ~Has(p, t, "data")
      /\ Counts(q, t, "ack", 0, 0) /\ Counts(p, t, "data", 0, 0)
  <2>1. t \in opening
    BY SMT DEF OpenFailed
  <2>2. t \notin accepted
    BY <1>2, <2>1 DEF StepOK, BeforeOK, Unanswered, Early
  <2>q. QED
    BY <1>1, <1>2, <1>3, <2>1, <2>2, NothingYet
<1> HIDE DEF p, q, pp, qq
<1>9. FreshOK(t, ToSender(t))'
  BY <1>1, <1>2, <1>3, <1>4, <1>5, <1>6, <1>7, <1>8, <1>x DEF FreshOK, StepOK, BeforeOK, Early, Unanswered, OneMoreFor, MoreFor
<1>10. StepOK(t, ToSender(t), accepted)'
  BY <1>1, <1>2, <1>3, <1>4, <1>5, <1>6, <1>7, <1>8, <1>x DEF StepOK, FreshOK, AnswerOK, GivenUpOK, BeforeOK, Early, Unanswered, OneMoreFor, MoreFor
<1>11. BeforeOK(t, ToSender(t), accepted)'
  BY <1>1, <1>2, <1>3, <1>4, <1>5, <1>6, <1>7, <1>8, <1>x DEF BeforeOK, FreshOK, RecordOK, StepOK, SettledOK, Early, Unanswered, OneMoreFor, MoreFor
<1>12. RecordOK(t)'
  BY <1>1, <1>2, <1>3, <1>4, <1>5, <1>6, <1>7, <1>8, <1>x DEF RecordOK, FreshOK, BeforeOK, SettledOK, OtherEndOK, StepOK, Early, Unanswered, OneMoreFor, MoreFor
<1>13. AnswerOK(t, ToSender(t))'
  BY <1>1, <1>2, <1>3, <1>4, <1>5, <1>6, <1>7, <1>8, <1>x DEF AnswerOK, FreshOK, RecordOK, BeforeOK, StepOK, SettledOK, OtherEndOK, Early, Unanswered, OneMoreFor, MoreFor
<1>14. GivenUpOK(t, ToSender(t))'
  BY <1>1, <1>2, <1>3, <1>4, <1>5, <1>6, <1>7, <1>8, <1>x DEF GivenUpOK, FreshOK, StepOK, RecordOK, OtherEndOK, BeforeOK, SettledOK, AnswerOK, Early, Unanswered, OneMoreFor, MoreFor
<1>15. OtherEndOK(t, ToSender(t))'
  BY <1>1, <1>2, <1>3, <1>4, <1>5, <1>6, <1>7, <1>8, <1>x DEF OtherEndOK, FreshOK, StepOK, BeforeOK, AnswerOK, GivenUpOK, RecordOK, Early, Unanswered, OneMoreFor, MoreFor
<1>16. ChunksOK(t, ToSender(t), acked)'
  BY <1>1, <1>2, <1>3, <1>4, <1>5, <1>6, <1>7, <1>8, <1>x DEF ChunksOK, StepOK, BeforeOK, Early, Unanswered, OneMoreFor, MoreCounted
<1>17. SettledOK(t)'
  BY <1>1, <1>2, <1>3, <1>4, <1>5, <1>6, <1>7, <1>8, <1>x DEF SettledOK, FreshOK, BeforeOK, RecordOK, AnswerOK, GivenUpOK, StepOK, OtherEndOK, Early, Unanswered, OneMoreFor, MoreFor
<1>q. QED
  BY <1>9, <1>10, <1>11, <1>12, <1>13, <1>14, <1>15, <1>16, <1>17 DEF AllWell, TransferOK

LEMMA CancelAtSenderOwn ==
  ASSUME TypeOK, NEW t \in Transfers, AllWell(t),
         Cancel(Sender[t], t)
  PROVE  AllWell(t)'
<1> DEFINE p == net[Receiver(t)]
           q == net[Sender[t]]
           pp == net'[Receiver(t)]
           qq == net'[Sender[t]]
<1>1. /\ p \in Seq(Messages) /\ q \in Seq(Messages)
      /\ sent[t] \in Nat /\ acked[t] \in Nat /\ got[t] \in Nat /\ Size[t] \in Nat
      /\ acked[t] <= sent[t] /\ sent[t] <= Size[t] /\ got[t] <= sent[t]
      /\ Sender[t] \in Ends /\ Receiver(t) \in Ends /\ Receiver(t) # Sender[t]
      /\ Other(Sender[t]) = Receiver(t) /\ Other(Receiver(t)) = Sender[t]
      /\ \A e \in Ends : (t \in From(e) <=> e = Sender[t]) /\ (t \in To(e) <=> e = Receiver(t))
  BY Typed, TwoEnds
<1>2. /\ FreshOK(t, q) /\ StepOK(t, q, accepted) /\ BeforeOK(t, q, accepted) /\ RecordOK(t) /\ AnswerOK(t, q)
      /\ GivenUpOK(t, q) /\ OtherEndOK(t, q) /\ ChunksOK(t, q, acked) /\ SettledOK(t)
      /\ TransferOK(t, q, accepted, acked)
  BY DEF AllWell, TransferOK, ToSender
<1>3. /\ ToReceiver(t) = p /\ ToReceiver(t)' = pp /\ ToSender(t)' = qq
      /\ ToldSender(t) = verdict[Sender[t]][t] /\ ToldSender(t)' = verdict'[Sender[t]][t]
      /\ ToldReceiver(t) = verdict[Receiver(t)][t] /\ ToldReceiver(t)' = verdict'[Receiver(t)][t]
  BY DEF ToReceiver, ToSender, ToldSender, ToldReceiver
<1>4. /\ AcceptMsg(t, FALSE) \in Messages /\ AcceptMsg(t, FALSE).id = t /\ AcceptMsg(t, FALSE).type = "accept"
      /\ AcceptMsg(t, TRUE) \in Messages /\ AcceptMsg(t, TRUE).id = t /\ AcceptMsg(t, TRUE).type = "accept"
      /\ AcceptMsg(t, FALSE) # AcceptMsg(t, TRUE)
      /\ EndMsg(t, TRUE) \in Messages /\ EndMsg(t, TRUE).id = t /\ EndMsg(t, TRUE).type = "end"
      /\ EndMsg(t, FALSE) \in Messages /\ EndMsg(t, FALSE).id = t /\ EndMsg(t, FALSE).type = "end"
      /\ EndMsg(t, TRUE) # EndMsg(t, FALSE)
      /\ OfferMsg(t) \in Messages /\ OfferMsg(t).id = t /\ OfferMsg(t).type = "offer"
      /\ RequestMsg(t) \in Messages /\ RequestMsg(t).id = t /\ RequestMsg(t).type = "request"
  <2>1. AcceptMsg(t, FALSE) # AcceptMsg(t, TRUE) /\ EndMsg(t, TRUE) # EndMsg(t, FALSE)
    BY DEF AcceptMsg, EndMsg
  <2>q. QED
    BY <2>1, Sayings, EndSaid
<1>t. verdict'[Sender[t]][t] = "cancelled" /\ verdict'[Receiver(t)][t] = verdict[Receiver(t)][t]
  <2>1. Tell(Sender[t], {t}, "cancelled")
    BY DEF Cancel
  <2>q. QED
    BY <1>1, <2>1, Told
<1>y. t \in sending
  BY <1>1 DEF Cancel, Active
<1>5. /\ t \in begun' <=> t \in begun
      /\ t \in sending' <=> FALSE
      /\ t \in accepted' <=> t \in accepted
      /\ t \in receiving' <=> t \in receiving
      /\ t \in pending' <=> t \in pending
      /\ t \in wanted' <=> t \in wanted
      /\ t \in opening' <=> t \in opening
      /\ sent'[t] = sent[t]
      /\ acked'[t] = acked[t]
      /\ got'[t] = got[t]
      /\ file'[t] = file[t]
      /\ verdict'[Sender[t]][t] = "cancelled"
      /\ verdict'[Receiver(t)][t] = verdict[Receiver(t)][t]
  BY <1>1, <1>t DEF Cancel, Forget
<1>6. qq = q /\ pp = p \o <<EndMsg(t, FALSE)>>
  BY <1>1, <1>4, SaidOne DEF Cancel
<1>7. /\ OneMoreFor(p, pp, t, EndMsg(t, FALSE))
  BY <1>1, <1>4, <1>6, OneMore
<1>8. /\ Handshake(p, t) <=> Has(p, t, "request") \/ Has(p, t, "offer") \/ Has(p, t, "accept")
      /\ Says(p, AcceptMsg(t, FALSE)) => Has(p, t, "accept")
      /\ Says(p, EndMsg(t, TRUE)) => Has(p, t, "end")
      /\ Says(p, EndMsg(t, FALSE)) => Has(p, t, "end")
      /\ Handshake(q, t) <=> Has(q, t, "request") \/ Has(q, t, "offer") \/ Has(q, t, "accept")
      /\ Says(q, AcceptMsg(t, FALSE)) => Has(q, t, "accept")
      /\ Says(q, EndMsg(t, TRUE)) => Has(q, t, "end")
      /\ Says(q, EndMsg(t, FALSE)) => Has(q, t, "end")
      /\ Handshake(pp, t) <=> Has(pp, t, "request") \/ Has(pp, t, "offer") \/ Has(pp, t, "accept")
      /\ Says(pp, AcceptMsg(t, FALSE)) => Has(pp, t, "accept")
      /\ Says(pp, EndMsg(t, TRUE)) => Has(pp, t, "end")
      /\ Says(pp, EndMsg(t, FALSE)) => Has(pp, t, "end")
      /\ Handshake(qq, t) <=> Has(qq, t, "request") \/ Has(qq, t, "offer") \/ Has(qq, t, "accept")
      /\ Says(qq, AcceptMsg(t, FALSE)) => Has(qq, t, "accept")
      /\ Says(qq, EndMsg(t, TRUE)) => Has(qq, t, "end")
      /\ Says(qq, EndMsg(t, FALSE)) => Has(qq, t, "end")
  BY Handshakes
<1>x. t \in sending
  BY <1>y
<1> HIDE DEF p, q, pp, qq
<1>9. FreshOK(t, ToSender(t))'
  BY <1>1, <1>2, <1>3, <1>4, <1>5, <1>6, <1>7, <1>8, <1>x DEF FreshOK, StepOK, BeforeOK, Early, Unanswered, OneMoreFor, MoreFor
<1>10. StepOK(t, ToSender(t), accepted)'
  BY <1>1, <1>2, <1>3, <1>4, <1>5, <1>6, <1>7, <1>8, <1>x DEF StepOK, FreshOK, AnswerOK, GivenUpOK, BeforeOK, Early, Unanswered, OneMoreFor, MoreFor
<1>11. BeforeOK(t, ToSender(t), accepted)'
  BY <1>1, <1>2, <1>3, <1>4, <1>5, <1>6, <1>7, <1>8, <1>x DEF BeforeOK, FreshOK, RecordOK, StepOK, SettledOK, Early, Unanswered, OneMoreFor, MoreFor
<1>12. RecordOK(t)'
  BY <1>1, <1>2, <1>3, <1>4, <1>5, <1>6, <1>7, <1>8, <1>x DEF RecordOK, FreshOK, BeforeOK, SettledOK, OtherEndOK, StepOK, Early, Unanswered, OneMoreFor, MoreFor
<1>13. AnswerOK(t, ToSender(t))'
  BY <1>1, <1>2, <1>3, <1>4, <1>5, <1>6, <1>7, <1>8, <1>x DEF AnswerOK, FreshOK, RecordOK, BeforeOK, StepOK, SettledOK, OtherEndOK, Early, Unanswered, OneMoreFor, MoreFor
<1>14. GivenUpOK(t, ToSender(t))'
  BY <1>1, <1>2, <1>3, <1>4, <1>5, <1>6, <1>7, <1>8, <1>x DEF GivenUpOK, FreshOK, StepOK, RecordOK, OtherEndOK, BeforeOK, SettledOK, AnswerOK, Early, Unanswered, OneMoreFor, MoreFor
<1>15. OtherEndOK(t, ToSender(t))'
  BY <1>1, <1>2, <1>3, <1>4, <1>5, <1>6, <1>7, <1>8, <1>x DEF OtherEndOK, FreshOK, StepOK, BeforeOK, AnswerOK, GivenUpOK, RecordOK, Early, Unanswered, OneMoreFor, MoreFor
<1>16. ChunksOK(t, ToSender(t), acked)'
  BY <1>1, <1>2, <1>3, <1>4, <1>5, <1>6, <1>7, <1>8, <1>x DEF ChunksOK, StepOK, BeforeOK, Early, Unanswered, OneMoreFor, MoreCounted
<1>17. SettledOK(t)'
  BY <1>1, <1>2, <1>3, <1>4, <1>5, <1>6, <1>7, <1>8, <1>x DEF SettledOK, FreshOK, BeforeOK, RecordOK, AnswerOK, GivenUpOK, StepOK, OtherEndOK, Early, Unanswered, OneMoreFor, MoreFor
<1>q. QED
  BY <1>9, <1>10, <1>11, <1>12, <1>13, <1>14, <1>15, <1>16, <1>17 DEF AllWell, TransferOK

LEMMA CancelAtReceiverOwn ==
  ASSUME TypeOK, NEW t \in Transfers, AllWell(t),
         Cancel(Receiver(t), t)
  PROVE  AllWell(t)'
<1> DEFINE p == net[Receiver(t)]
           q == net[Sender[t]]
           pp == net'[Receiver(t)]
           qq == net'[Sender[t]]
<1>1. /\ p \in Seq(Messages) /\ q \in Seq(Messages)
      /\ sent[t] \in Nat /\ acked[t] \in Nat /\ got[t] \in Nat /\ Size[t] \in Nat
      /\ acked[t] <= sent[t] /\ sent[t] <= Size[t] /\ got[t] <= sent[t]
      /\ Sender[t] \in Ends /\ Receiver(t) \in Ends /\ Receiver(t) # Sender[t]
      /\ Other(Sender[t]) = Receiver(t) /\ Other(Receiver(t)) = Sender[t]
      /\ \A e \in Ends : (t \in From(e) <=> e = Sender[t]) /\ (t \in To(e) <=> e = Receiver(t))
  BY Typed, TwoEnds
<1>2. /\ FreshOK(t, q) /\ StepOK(t, q, accepted) /\ BeforeOK(t, q, accepted) /\ RecordOK(t) /\ AnswerOK(t, q)
      /\ GivenUpOK(t, q) /\ OtherEndOK(t, q) /\ ChunksOK(t, q, acked) /\ SettledOK(t)
      /\ TransferOK(t, q, accepted, acked)
  BY DEF AllWell, TransferOK, ToSender
<1>3. /\ ToReceiver(t) = p /\ ToReceiver(t)' = pp /\ ToSender(t)' = qq
      /\ ToldSender(t) = verdict[Sender[t]][t] /\ ToldSender(t)' = verdict'[Sender[t]][t]
      /\ ToldReceiver(t) = verdict[Receiver(t)][t] /\ ToldReceiver(t)' = verdict'[Receiver(t)][t]
  BY DEF ToReceiver, ToSender, ToldSender, ToldReceiver
<1>4. /\ AcceptMsg(t, FALSE) \in Messages /\ AcceptMsg(t, FALSE).id = t /\ AcceptMsg(t, FALSE).type = "accept"
      /\ AcceptMsg(t, TRUE) \in Messages /\ AcceptMsg(t, TRUE).id = t /\ AcceptMsg(t, TRUE).type = "accept"
      /\ AcceptMsg(t, FALSE) # AcceptMsg(t, TRUE)
      /\ EndMsg(t, TRUE) \in Messages /\ EndMsg(t, TRUE).id = t /\ EndMsg(t, TRUE).type = "end"
      /\ EndMsg(t, FALSE) \in Messages /\ EndMsg(t, FALSE).id = t /\ EndMsg(t, FALSE).type = "end"
      /\ EndMsg(t, TRUE) # EndMsg(t, FALSE)
      /\ OfferMsg(t) \in Messages /\ OfferMsg(t).id = t /\ OfferMsg(t).type = "offer"
      /\ RequestMsg(t) \in Messages /\ RequestMsg(t).id = t /\ RequestMsg(t).type = "request"
  <2>1. AcceptMsg(t, FALSE) # AcceptMsg(t, TRUE) /\ EndMsg(t, TRUE) # EndMsg(t, FALSE)
    BY DEF AcceptMsg, EndMsg
  <2>q. QED
    BY <2>1, Sayings, EndSaid
<1>t. verdict'[Sender[t]][t] = verdict[Sender[t]][t] /\ verdict'[Receiver(t)][t] = "cancelled"
  <2>1. Tell(Receiver(t), {t}, "cancelled")
    BY DEF Cancel
  <2>q. QED
    BY <1>1, <2>1, Told
<1>5. /\ t \in begun' <=> t \in begun
      /\ t \in sending' <=> t \in sending
      /\ t \in accepted' <=> t \in accepted
      /\ t \in receiving' <=> FALSE
      /\ t \in pending' <=> FALSE
      /\ t \in wanted' <=> FALSE
      /\ t \in opening' <=> t \in opening
      /\ sent'[t] = sent[t]
      /\ acked'[t] = acked[t]
      /\ got'[t] = got[t]
      /\ file'[t] = IF t \in receiving /\ file[t] \in {"staged", "refused"} THEN "none" ELSE file[t]
      /\ verdict'[Sender[t]][t] = verdict[Sender[t]][t]
      /\ verdict'[Receiver(t)][t] = "cancelled"
  BY <1>1, <1>t DEF Cancel, Forget, Dropped, TypeOK
<1>6. pp = p /\ qq = q \o <<EndMsg(t, FALSE)>>
  BY <1>1, <1>4, SaidOne DEF Cancel
<1>7. /\ OneMoreFor(q, qq, t, EndMsg(t, FALSE))
  BY <1>1, <1>4, <1>6, OneMore
<1>8. /\ Handshake(p, t) <=> Has(p, t, "request") \/ Has(p, t, "offer") \/ Has(p, t, "accept")
      /\ Says(p, AcceptMsg(t, FALSE)) => Has(p, t, "accept")
      /\ Says(p, EndMsg(t, TRUE)) => Has(p, t, "end")
      /\ Says(p, EndMsg(t, FALSE)) => Has(p, t, "end")
      /\ Handshake(q, t) <=> Has(q, t, "request") \/ Has(q, t, "offer") \/ Has(q, t, "accept")
      /\ Says(q, AcceptMsg(t, FALSE)) => Has(q, t, "accept")
      /\ Says(q, EndMsg(t, TRUE)) => Has(q, t, "end")
      /\ Says(q, EndMsg(t, FALSE)) => Has(q, t, "end")
      /\ Handshake(pp, t) <=> Has(pp, t, "request") \/ Has(pp, t, "offer") \/ Has(pp, t, "accept")
      /\ Says(pp, AcceptMsg(t, FALSE)) => Has(pp, t, "accept")
      /\ Says(pp, EndMsg(t, TRUE)) => Has(pp, t, "end")
      /\ Says(pp, EndMsg(t, FALSE)) => Has(pp, t, "end")
      /\ Handshake(qq, t) <=> Has(qq, t, "request") \/ Has(qq, t, "offer") \/ Has(qq, t, "accept")
      /\ Says(qq, AcceptMsg(t, FALSE)) => Has(qq, t, "accept")
      /\ Says(qq, EndMsg(t, TRUE)) => Has(qq, t, "end")
      /\ Says(qq, EndMsg(t, FALSE)) => Has(qq, t, "end")
  BY Handshakes
<1>x. (t \in receiving \/ t \in pending) /\ (t \in pending => t \in Asked)
  BY <1>1 DEF Cancel, Active, TypeOK
<1> HIDE DEF p, q, pp, qq
<1>9. FreshOK(t, ToSender(t))'
  BY <1>1, <1>2, <1>3, <1>4, <1>5, <1>6, <1>7, <1>8, <1>x DEF FreshOK, StepOK, BeforeOK, Early, Unanswered, OneMoreFor, MoreFor
<1>10. StepOK(t, ToSender(t), accepted)'
  BY <1>1, <1>2, <1>3, <1>4, <1>5, <1>6, <1>7, <1>8, <1>x DEF StepOK, FreshOK, AnswerOK, GivenUpOK, BeforeOK, Early, Unanswered, OneMoreFor, MoreFor
<1>11. BeforeOK(t, ToSender(t), accepted)'
  BY <1>1, <1>2, <1>3, <1>4, <1>5, <1>6, <1>7, <1>8, <1>x DEF BeforeOK, FreshOK, RecordOK, StepOK, SettledOK, Early, Unanswered, OneMoreFor, MoreFor
<1>12. RecordOK(t)'
  BY <1>1, <1>2, <1>3, <1>4, <1>5, <1>6, <1>7, <1>8, <1>x DEF RecordOK, FreshOK, BeforeOK, SettledOK, OtherEndOK, StepOK, Early, Unanswered, OneMoreFor, MoreFor
<1>13. AnswerOK(t, ToSender(t))'
  BY <1>1, <1>2, <1>3, <1>4, <1>5, <1>6, <1>7, <1>8, <1>x DEF AnswerOK, FreshOK, RecordOK, BeforeOK, StepOK, SettledOK, OtherEndOK, Early, Unanswered, OneMoreFor, MoreFor
<1>14. GivenUpOK(t, ToSender(t))'
  BY <1>1, <1>2, <1>3, <1>4, <1>5, <1>6, <1>7, <1>8, <1>x DEF GivenUpOK, FreshOK, StepOK, RecordOK, OtherEndOK, BeforeOK, SettledOK, AnswerOK, Early, Unanswered, OneMoreFor, MoreFor
<1>15. OtherEndOK(t, ToSender(t))'
  BY <1>1, <1>2, <1>3, <1>4, <1>5, <1>6, <1>7, <1>8, <1>x DEF OtherEndOK, FreshOK, StepOK, BeforeOK, AnswerOK, GivenUpOK, RecordOK, Early, Unanswered, OneMoreFor, MoreFor
<1>16. ChunksOK(t, ToSender(t), acked)'
  BY <1>1, <1>2, <1>3, <1>4, <1>5, <1>6, <1>7, <1>8, <1>x DEF ChunksOK, StepOK, BeforeOK, Early, Unanswered, OneMoreFor, MoreCounted
<1>17. SettledOK(t)'
  BY <1>1, <1>2, <1>3, <1>4, <1>5, <1>6, <1>7, <1>8, <1>x DEF SettledOK, FreshOK, BeforeOK, RecordOK, AnswerOK, GivenUpOK, StepOK, OtherEndOK, Early, Unanswered, OneMoreFor, MoreFor
<1>q. QED
  BY <1>9, <1>10, <1>11, <1>12, <1>13, <1>14, <1>15, <1>16, <1>17 DEF AllWell, TransferOK

LEMMA RequestRefusedOwn ==
  ASSUME TypeOK, NEW t \in Transfers, AllWell(t),
         net[Sender[t]] # <<>>, Head(net[Sender[t]]).id = t, Head(net[Sender[t]]).type = "request",
         Reply(Sender[t], <<EndMsg(t, FALSE)>>),
         UNCHANGED <<outVars, inVars, opening, file, verdict, begun>>
  PROVE  AllWell(t)'
<1> DEFINE p == net[Receiver(t)]
           q == net[Sender[t]]
           pp == net'[Receiver(t)]
           qq == net'[Sender[t]]
<1>1. /\ p \in Seq(Messages) /\ q \in Seq(Messages)
      /\ sent[t] \in Nat /\ acked[t] \in Nat /\ got[t] \in Nat /\ Size[t] \in Nat
      /\ acked[t] <= sent[t] /\ sent[t] <= Size[t] /\ got[t] <= sent[t]
      /\ Sender[t] \in Ends /\ Receiver(t) \in Ends /\ Receiver(t) # Sender[t]
      /\ Other(Sender[t]) = Receiver(t) /\ Other(Receiver(t)) = Sender[t]
      /\ \A e \in Ends : (t \in From(e) <=> e = Sender[t]) /\ (t \in To(e) <=> e = Receiver(t))
  BY Typed, TwoEnds
<1>2. /\ FreshOK(t, q) /\ StepOK(t, q, accepted) /\ BeforeOK(t, q, accepted) /\ RecordOK(t) /\ AnswerOK(t, q)
      /\ GivenUpOK(t, q) /\ OtherEndOK(t, q) /\ ChunksOK(t, q, acked) /\ SettledOK(t)
      /\ TransferOK(t, q, accepted, acked)
  BY DEF AllWell, TransferOK, ToSender
<1>3. /\ ToReceiver(t) = p /\ ToReceiver(t)' = pp /\ ToSender(t)' = qq
      /\ ToldSender(t) = verdict[Sender[t]][t] /\ ToldSender(t)' = verdict'[Sender[t]][t]
      /\ ToldReceiver(t) = verdict[Receiver(t)][t] /\ ToldReceiver(t)' = verdict'[Receiver(t)][t]
  BY DEF ToReceiver, ToSender, ToldSender, ToldReceiver
<1>4. /\ AcceptMsg(t, FALSE) \in Messages /\ AcceptMsg(t, FALSE).id = t /\ AcceptMsg(t, FALSE).type = "accept"
      /\ AcceptMsg(t, TRUE) \in Messages /\ AcceptMsg(t, TRUE).id = t /\ AcceptMsg(t, TRUE).type = "accept"
      /\ AcceptMsg(t, FALSE) # AcceptMsg(t, TRUE)
      /\ EndMsg(t, TRUE) \in Messages /\ EndMsg(t, TRUE).id = t /\ EndMsg(t, TRUE).type = "end"
      /\ EndMsg(t, FALSE) \in Messages /\ EndMsg(t, FALSE).id = t /\ EndMsg(t, FALSE).type = "end"
      /\ EndMsg(t, TRUE) # EndMsg(t, FALSE)
      /\ OfferMsg(t) \in Messages /\ OfferMsg(t).id = t /\ OfferMsg(t).type = "offer"
      /\ RequestMsg(t) \in Messages /\ RequestMsg(t).id = t /\ RequestMsg(t).type = "request"
  <2>1. AcceptMsg(t, FALSE) # AcceptMsg(t, TRUE) /\ EndMsg(t, TRUE) # EndMsg(t, FALSE)
    BY DEF AcceptMsg, EndMsg
  <2>q. QED
    BY <2>1, Sayings, EndSaid
<1>5. /\ t \in begun' <=> t \in begun
      /\ t \in sending' <=> t \in sending
      /\ t \in accepted' <=> t \in accepted
      /\ t \in receiving' <=> t \in receiving
      /\ t \in pending' <=> t \in pending
      /\ t \in wanted' <=> t \in wanted
      /\ t \in opening' <=> t \in opening
      /\ sent'[t] = sent[t]
      /\ acked'[t] = acked[t]
      /\ got'[t] = got[t]
      /\ file'[t] = file[t]
      /\ verdict'[Sender[t]][t] = verdict[Sender[t]][t]
      /\ verdict'[Receiver(t)][t] = verdict[Receiver(t)][t]
  BY <1>1, SMT DEF outVars, inVars
<1>6. qq = Tail(q) /\ pp = p \o <<EndMsg(t, FALSE)>>
  BY <1>1, <1>4, RepliedOne
<1>7. /\ OneLessFor(q, qq, t, Head(q))
      /\ Head(q) \in Messages /\ Head(q).type = "request"
      /\ OneMoreFor(p, pp, t, EndMsg(t, FALSE))
  BY <1>1, <1>4, <1>6, OneLess, OneMore
<1>8. /\ Handshake(p, t) <=> Has(p, t, "request") \/ Has(p, t, "offer") \/ Has(p, t, "accept")
      /\ Says(p, AcceptMsg(t, FALSE)) => Has(p, t, "accept")
      /\ Says(p, EndMsg(t, TRUE)) => Has(p, t, "end")
      /\ Says(p, EndMsg(t, FALSE)) => Has(p, t, "end")
      /\ Handshake(q, t) <=> Has(q, t, "request") \/ Has(q, t, "offer") \/ Has(q, t, "accept")
      /\ Says(q, AcceptMsg(t, FALSE)) => Has(q, t, "accept")
      /\ Says(q, EndMsg(t, TRUE)) => Has(q, t, "end")
      /\ Says(q, EndMsg(t, FALSE)) => Has(q, t, "end")
      /\ Handshake(pp, t) <=> Has(pp, t, "request") \/ Has(pp, t, "offer") \/ Has(pp, t, "accept")
      /\ Says(pp, AcceptMsg(t, FALSE)) => Has(pp, t, "accept")
      /\ Says(pp, EndMsg(t, TRUE)) => Has(pp, t, "end")
      /\ Says(pp, EndMsg(t, FALSE)) => Has(pp, t, "end")
      /\ Handshake(qq, t) <=> Has(qq, t, "request") \/ Has(qq, t, "offer") \/ Has(qq, t, "accept")
      /\ Says(qq, AcceptMsg(t, FALSE)) => Has(qq, t, "accept")
      /\ Says(qq, EndMsg(t, TRUE)) => Has(qq, t, "end")
      /\ Says(qq, EndMsg(t, FALSE)) => Has(qq, t, "end")
  BY Handshakes
<1>x. /\ Has(q, t, "request") /\ ~Handshake(qq, t) /\ t \notin opening /\ t \in begun /\ t \notin sending
      /\ t \notin accepted /\ sent[t] = 0 /\ acked[t] = 0 /\ got[t] = 0
      /\ ~Has(q, t, "ack") /\ ~Has(p, t, "data") /\ Counts(q, t, "ack", 0, 0) /\ Counts(p, t, "data", 0, 0)
  <2>1. Has(q, t, "request") /\ ~Handshake(qq, t)
    BY <1>2, <1>7 DEF StepOK, OneLessFor, LessFor
  <2>2. t \notin opening /\ t \in begun /\ t \notin accepted /\ t \notin sending
    BY <1>2, <1>8, <2>1 DEF StepOK, FreshOK, BeforeOK, Unanswered, Early
  <2>q. QED
    BY <1>1, <1>2, <1>3, <2>1, <2>2, NothingYet
<1> HIDE DEF p, q, pp, qq
<1>9. FreshOK(t, ToSender(t))'
  BY <1>1, <1>2, <1>3, <1>4, <1>5, <1>6, <1>7, <1>8, <1>x DEF FreshOK, StepOK, BeforeOK, Early, Unanswered, OneLessFor, LessFor, OneMoreFor, MoreFor
<1>10. StepOK(t, ToSender(t), accepted)'
  BY <1>1, <1>2, <1>3, <1>4, <1>5, <1>6, <1>7, <1>8, <1>x DEF StepOK, FreshOK, AnswerOK, GivenUpOK, BeforeOK, Early, Unanswered, OneLessFor, LessFor, OneMoreFor, MoreFor
<1>11. BeforeOK(t, ToSender(t), accepted)'
  BY <1>1, <1>2, <1>3, <1>4, <1>5, <1>6, <1>7, <1>8, <1>x DEF BeforeOK, FreshOK, RecordOK, StepOK, SettledOK, Early, Unanswered, OneLessFor, LessFor, OneMoreFor, MoreFor
<1>12. RecordOK(t)'
  BY <1>1, <1>2, <1>3, <1>4, <1>5, <1>6, <1>7, <1>8, <1>x DEF RecordOK, FreshOK, BeforeOK, SettledOK, OtherEndOK, StepOK, Early, Unanswered, OneLessFor, LessFor, OneMoreFor, MoreFor
<1>13. AnswerOK(t, ToSender(t))'
  BY <1>1, <1>2, <1>3, <1>4, <1>5, <1>6, <1>7, <1>8, <1>x DEF AnswerOK, FreshOK, RecordOK, BeforeOK, StepOK, SettledOK, OtherEndOK, Early, Unanswered, OneLessFor, LessFor, OneMoreFor, MoreFor
<1>14. GivenUpOK(t, ToSender(t))'
  BY <1>1, <1>2, <1>3, <1>4, <1>5, <1>6, <1>7, <1>8, <1>x DEF GivenUpOK, FreshOK, StepOK, RecordOK, OtherEndOK, BeforeOK, SettledOK, AnswerOK, Early, Unanswered, OneLessFor, LessFor, OneMoreFor, MoreFor
<1>15. OtherEndOK(t, ToSender(t))'
  BY <1>1, <1>2, <1>3, <1>4, <1>5, <1>6, <1>7, <1>8, <1>x DEF OtherEndOK, FreshOK, StepOK, BeforeOK, AnswerOK, GivenUpOK, RecordOK, Early, Unanswered, OneLessFor, LessFor, OneMoreFor, MoreFor
<1>16. ChunksOK(t, ToSender(t), acked)'
  BY <1>1, <1>2, <1>3, <1>4, <1>5, <1>6, <1>7, <1>8, <1>x DEF ChunksOK, StepOK, BeforeOK, Early, Unanswered, OneLessFor, LessCounted, OneMoreFor, MoreCounted
<1>17. SettledOK(t)'
  BY <1>1, <1>2, <1>3, <1>4, <1>5, <1>6, <1>7, <1>8, <1>x DEF SettledOK, FreshOK, BeforeOK, RecordOK, AnswerOK, GivenUpOK, StepOK, OtherEndOK, Early, Unanswered, OneLessFor, LessFor, OneMoreFor, MoreFor
<1>q. QED
  BY <1>9, <1>10, <1>11, <1>12, <1>13, <1>14, <1>15, <1>16, <1>17 DEF AllWell, TransferOK

LEMMA RequestOpeningOwn ==
  ASSUME TypeOK, NEW t \in Transfers, AllWell(t),
         net[Sender[t]] # <<>>, Head(net[Sender[t]]).id = t, Head(net[Sender[t]]).type = "request",
         Reply(Sender[t], <<>>), opening' = opening \cup {t},
         UNCHANGED <<outVars, inVars, file, verdict, begun>>
  PROVE  AllWell(t)'
<1> DEFINE p == net[Receiver(t)]
           q == net[Sender[t]]
           pp == net'[Receiver(t)]
           qq == net'[Sender[t]]
<1>1. /\ p \in Seq(Messages) /\ q \in Seq(Messages)
      /\ sent[t] \in Nat /\ acked[t] \in Nat /\ got[t] \in Nat /\ Size[t] \in Nat
      /\ acked[t] <= sent[t] /\ sent[t] <= Size[t] /\ got[t] <= sent[t]
      /\ Sender[t] \in Ends /\ Receiver(t) \in Ends /\ Receiver(t) # Sender[t]
      /\ Other(Sender[t]) = Receiver(t) /\ Other(Receiver(t)) = Sender[t]
      /\ \A e \in Ends : (t \in From(e) <=> e = Sender[t]) /\ (t \in To(e) <=> e = Receiver(t))
  BY Typed, TwoEnds
<1>2. /\ FreshOK(t, q) /\ StepOK(t, q, accepted) /\ BeforeOK(t, q, accepted) /\ RecordOK(t) /\ AnswerOK(t, q)
      /\ GivenUpOK(t, q) /\ OtherEndOK(t, q) /\ ChunksOK(t, q, acked) /\ SettledOK(t)
      /\ TransferOK(t, q, accepted, acked)
  BY DEF AllWell, TransferOK, ToSender
<1>3. /\ ToReceiver(t) = p /\ ToReceiver(t)' = pp /\ ToSender(t)' = qq
      /\ ToldSender(t) = verdict[Sender[t]][t] /\ ToldSender(t)' = verdict'[Sender[t]][t]
      /\ ToldReceiver(t) = verdict[Receiver(t)][t] /\ ToldReceiver(t)' = verdict'[Receiver(t)][t]
  BY DEF ToReceiver, ToSender, ToldSender, ToldReceiver
<1>4. /\ AcceptMsg(t, FALSE) \in Messages /\ AcceptMsg(t, FALSE).id = t /\ AcceptMsg(t, FALSE).type = "accept"
      /\ AcceptMsg(t, TRUE) \in Messages /\ AcceptMsg(t, TRUE).id = t /\ AcceptMsg(t, TRUE).type = "accept"
      /\ AcceptMsg(t, FALSE) # AcceptMsg(t, TRUE)
      /\ EndMsg(t, TRUE) \in Messages /\ EndMsg(t, TRUE).id = t /\ EndMsg(t, TRUE).type = "end"
      /\ EndMsg(t, FALSE) \in Messages /\ EndMsg(t, FALSE).id = t /\ EndMsg(t, FALSE).type = "end"
      /\ EndMsg(t, TRUE) # EndMsg(t, FALSE)
      /\ OfferMsg(t) \in Messages /\ OfferMsg(t).id = t /\ OfferMsg(t).type = "offer"
      /\ RequestMsg(t) \in Messages /\ RequestMsg(t).id = t /\ RequestMsg(t).type = "request"
  <2>1. AcceptMsg(t, FALSE) # AcceptMsg(t, TRUE) /\ EndMsg(t, TRUE) # EndMsg(t, FALSE)
    BY DEF AcceptMsg, EndMsg
  <2>q. QED
    BY <2>1, Sayings, EndSaid
<1>5. /\ t \in begun' <=> t \in begun
      /\ t \in sending' <=> t \in sending
      /\ t \in accepted' <=> t \in accepted
      /\ t \in receiving' <=> t \in receiving
      /\ t \in pending' <=> t \in pending
      /\ t \in wanted' <=> t \in wanted
      /\ t \in opening' <=> TRUE
      /\ sent'[t] = sent[t]
      /\ acked'[t] = acked[t]
      /\ got'[t] = got[t]
      /\ file'[t] = file[t]
      /\ verdict'[Sender[t]][t] = verdict[Sender[t]][t]
      /\ verdict'[Receiver(t)][t] = verdict[Receiver(t)][t]
  BY <1>1, SMT DEF outVars, inVars
<1>6. qq = Tail(q) /\ pp = p
  BY <1>1, <1>4, RepliedNone
<1>7. /\ OneLessFor(q, qq, t, Head(q))
      /\ Head(q) \in Messages /\ Head(q).type = "request"
  BY <1>1, <1>4, <1>6, OneLess
<1>8. /\ Handshake(p, t) <=> Has(p, t, "request") \/ Has(p, t, "offer") \/ Has(p, t, "accept")
      /\ Says(p, AcceptMsg(t, FALSE)) => Has(p, t, "accept")
      /\ Says(p, EndMsg(t, TRUE)) => Has(p, t, "end")
      /\ Says(p, EndMsg(t, FALSE)) => Has(p, t, "end")
      /\ Handshake(q, t) <=> Has(q, t, "request") \/ Has(q, t, "offer") \/ Has(q, t, "accept")
      /\ Says(q, AcceptMsg(t, FALSE)) => Has(q, t, "accept")
      /\ Says(q, EndMsg(t, TRUE)) => Has(q, t, "end")
      /\ Says(q, EndMsg(t, FALSE)) => Has(q, t, "end")
      /\ Handshake(pp, t) <=> Has(pp, t, "request") \/ Has(pp, t, "offer") \/ Has(pp, t, "accept")
      /\ Says(pp, AcceptMsg(t, FALSE)) => Has(pp, t, "accept")
      /\ Says(pp, EndMsg(t, TRUE)) => Has(pp, t, "end")
      /\ Says(pp, EndMsg(t, FALSE)) => Has(pp, t, "end")
      /\ Handshake(qq, t) <=> Has(qq, t, "request") \/ Has(qq, t, "offer") \/ Has(qq, t, "accept")
      /\ Says(qq, AcceptMsg(t, FALSE)) => Has(qq, t, "accept")
      /\ Says(qq, EndMsg(t, TRUE)) => Has(qq, t, "end")
      /\ Says(qq, EndMsg(t, FALSE)) => Has(qq, t, "end")
  BY Handshakes
<1>x. /\ Has(q, t, "request") /\ ~Handshake(qq, t) /\ t \notin opening /\ t \in begun /\ t \notin sending
      /\ t \notin accepted /\ sent[t] = 0 /\ acked[t] = 0 /\ got[t] = 0
      /\ ~Has(q, t, "ack") /\ ~Has(p, t, "data") /\ Counts(q, t, "ack", 0, 0) /\ Counts(p, t, "data", 0, 0)
  <2>1. Has(q, t, "request") /\ ~Handshake(qq, t)
    BY <1>2, <1>7 DEF StepOK, OneLessFor, LessFor
  <2>2. t \notin opening /\ t \in begun /\ t \notin accepted /\ t \notin sending
    BY <1>2, <1>8, <2>1 DEF StepOK, FreshOK, BeforeOK, Unanswered, Early
  <2>q. QED
    BY <1>1, <1>2, <1>3, <2>1, <2>2, NothingYet
<1> HIDE DEF p, q, pp, qq
<1>9. FreshOK(t, ToSender(t))'
  BY <1>1, <1>2, <1>3, <1>4, <1>5, <1>6, <1>7, <1>8, <1>x DEF FreshOK, StepOK, BeforeOK, Early, Unanswered, OneLessFor, LessFor
<1>10. StepOK(t, ToSender(t), accepted)'
  BY <1>1, <1>2, <1>3, <1>4, <1>5, <1>6, <1>7, <1>8, <1>x DEF StepOK, FreshOK, AnswerOK, GivenUpOK, BeforeOK, Early, Unanswered, OneLessFor, LessFor
<1>11. BeforeOK(t, ToSender(t), accepted)'
  BY <1>1, <1>2, <1>3, <1>4, <1>5, <1>6, <1>7, <1>8, <1>x DEF BeforeOK, FreshOK, RecordOK, StepOK, SettledOK, Early, Unanswered, OneLessFor, LessFor
<1>12. RecordOK(t)'
  BY <1>1, <1>2, <1>3, <1>4, <1>5, <1>6, <1>7, <1>8, <1>x DEF RecordOK, FreshOK, BeforeOK, SettledOK, OtherEndOK, StepOK, Early, Unanswered, OneLessFor, LessFor
<1>13. AnswerOK(t, ToSender(t))'
  BY <1>1, <1>2, <1>3, <1>4, <1>5, <1>6, <1>7, <1>8, <1>x DEF AnswerOK, FreshOK, RecordOK, BeforeOK, StepOK, SettledOK, OtherEndOK, Early, Unanswered, OneLessFor, LessFor
<1>14. GivenUpOK(t, ToSender(t))'
  BY <1>1, <1>2, <1>3, <1>4, <1>5, <1>6, <1>7, <1>8, <1>x DEF GivenUpOK, FreshOK, StepOK, RecordOK, OtherEndOK, BeforeOK, SettledOK, AnswerOK, Early, Unanswered, OneLessFor, LessFor
<1>15. OtherEndOK(t, ToSender(t))'
  BY <1>1, <1>2, <1>3, <1>4, <1>5, <1>6, <1>7, <1>8, <1>x DEF OtherEndOK, FreshOK, StepOK, BeforeOK, AnswerOK, GivenUpOK, RecordOK, Early, Unanswered, OneLessFor, LessFor
<1>16. ChunksOK(t, ToSender(t), acked)'
  BY <1>1, <1>2, <1>3, <1>4, <1>5, <1>6, <1>7, <1>8, <1>x DEF ChunksOK, StepOK, BeforeOK, Early, Unanswered, OneLessFor, LessCounted
<1>17. SettledOK(t)'
  BY <1>1, <1>2, <1>3, <1>4, <1>5, <1>6, <1>7, <1>8, <1>x DEF SettledOK, FreshOK, BeforeOK, RecordOK, AnswerOK, GivenUpOK, StepOK, OtherEndOK, Early, Unanswered, OneLessFor, LessFor
<1>q. QED
  BY <1>9, <1>10, <1>11, <1>12, <1>13, <1>14, <1>15, <1>16, <1>17 DEF AllWell, TransferOK

LEMMA RequestTakenOwn ==
  ASSUME TypeOK, NEW t \in Transfers, AllWell(t),
         net[Sender[t]] # <<>>, Head(net[Sender[t]]).id = t, Head(net[Sender[t]]).type = "request",
         Reply(Sender[t], <<OfferMsg(t)>>), sending' = sending \cup {t},
         UNCHANGED <<accepted, sent, acked, inVars, opening, file, verdict, begun>>
  PROVE  AllWell(t)'
<1> DEFINE p == net[Receiver(t)]
           q == net[Sender[t]]
           pp == net'[Receiver(t)]
           qq == net'[Sender[t]]
<1>1. /\ p \in Seq(Messages) /\ q \in Seq(Messages)
      /\ sent[t] \in Nat /\ acked[t] \in Nat /\ got[t] \in Nat /\ Size[t] \in Nat
      /\ acked[t] <= sent[t] /\ sent[t] <= Size[t] /\ got[t] <= sent[t]
      /\ Sender[t] \in Ends /\ Receiver(t) \in Ends /\ Receiver(t) # Sender[t]
      /\ Other(Sender[t]) = Receiver(t) /\ Other(Receiver(t)) = Sender[t]
      /\ \A e \in Ends : (t \in From(e) <=> e = Sender[t]) /\ (t \in To(e) <=> e = Receiver(t))
  BY Typed, TwoEnds
<1>2. /\ FreshOK(t, q) /\ StepOK(t, q, accepted) /\ BeforeOK(t, q, accepted) /\ RecordOK(t) /\ AnswerOK(t, q)
      /\ GivenUpOK(t, q) /\ OtherEndOK(t, q) /\ ChunksOK(t, q, acked) /\ SettledOK(t)
      /\ TransferOK(t, q, accepted, acked)
  BY DEF AllWell, TransferOK, ToSender
<1>3. /\ ToReceiver(t) = p /\ ToReceiver(t)' = pp /\ ToSender(t)' = qq
      /\ ToldSender(t) = verdict[Sender[t]][t] /\ ToldSender(t)' = verdict'[Sender[t]][t]
      /\ ToldReceiver(t) = verdict[Receiver(t)][t] /\ ToldReceiver(t)' = verdict'[Receiver(t)][t]
  BY DEF ToReceiver, ToSender, ToldSender, ToldReceiver
<1>4. /\ AcceptMsg(t, FALSE) \in Messages /\ AcceptMsg(t, FALSE).id = t /\ AcceptMsg(t, FALSE).type = "accept"
      /\ AcceptMsg(t, TRUE) \in Messages /\ AcceptMsg(t, TRUE).id = t /\ AcceptMsg(t, TRUE).type = "accept"
      /\ AcceptMsg(t, FALSE) # AcceptMsg(t, TRUE)
      /\ EndMsg(t, TRUE) \in Messages /\ EndMsg(t, TRUE).id = t /\ EndMsg(t, TRUE).type = "end"
      /\ EndMsg(t, FALSE) \in Messages /\ EndMsg(t, FALSE).id = t /\ EndMsg(t, FALSE).type = "end"
      /\ EndMsg(t, TRUE) # EndMsg(t, FALSE)
      /\ OfferMsg(t) \in Messages /\ OfferMsg(t).id = t /\ OfferMsg(t).type = "offer"
      /\ RequestMsg(t) \in Messages /\ RequestMsg(t).id = t /\ RequestMsg(t).type = "request"
  <2>1. AcceptMsg(t, FALSE) # AcceptMsg(t, TRUE) /\ EndMsg(t, TRUE) # EndMsg(t, FALSE)
    BY DEF AcceptMsg, EndMsg
  <2>q. QED
    BY <2>1, Sayings, EndSaid
<1>5. /\ t \in begun' <=> t \in begun
      /\ t \in sending' <=> TRUE
      /\ t \in accepted' <=> t \in accepted
      /\ t \in receiving' <=> t \in receiving
      /\ t \in pending' <=> t \in pending
      /\ t \in wanted' <=> t \in wanted
      /\ t \in opening' <=> t \in opening
      /\ sent'[t] = sent[t]
      /\ acked'[t] = acked[t]
      /\ got'[t] = got[t]
      /\ file'[t] = file[t]
      /\ verdict'[Sender[t]][t] = verdict[Sender[t]][t]
      /\ verdict'[Receiver(t)][t] = verdict[Receiver(t)][t]
  BY <1>1, SMT DEF outVars, inVars
<1>6. qq = Tail(q) /\ pp = p \o <<OfferMsg(t)>>
  BY <1>1, <1>4, RepliedOne
<1>7. /\ OneLessFor(q, qq, t, Head(q))
      /\ Head(q) \in Messages /\ Head(q).type = "request"
      /\ OneMoreFor(p, pp, t, OfferMsg(t))
  BY <1>1, <1>4, <1>6, OneLess, OneMore
<1>8. /\ Handshake(p, t) <=> Has(p, t, "request") \/ Has(p, t, "offer") \/ Has(p, t, "accept")
      /\ Says(p, AcceptMsg(t, FALSE)) => Has(p, t, "accept")
      /\ Says(p, EndMsg(t, TRUE)) => Has(p, t, "end")
      /\ Says(p, EndMsg(t, FALSE)) => Has(p, t, "end")
      /\ Handshake(q, t) <=> Has(q, t, "request") \/ Has(q, t, "offer") \/ Has(q, t, "accept")
      /\ Says(q, AcceptMsg(t, FALSE)) => Has(q, t, "accept")
      /\ Says(q, EndMsg(t, TRUE)) => Has(q, t, "end")
      /\ Says(q, EndMsg(t, FALSE)) => Has(q, t, "end")
      /\ Handshake(pp, t) <=> Has(pp, t, "request") \/ Has(pp, t, "offer") \/ Has(pp, t, "accept")
      /\ Says(pp, AcceptMsg(t, FALSE)) => Has(pp, t, "accept")
      /\ Says(pp, EndMsg(t, TRUE)) => Has(pp, t, "end")
      /\ Says(pp, EndMsg(t, FALSE)) => Has(pp, t, "end")
      /\ Handshake(qq, t) <=> Has(qq, t, "request") \/ Has(qq, t, "offer") \/ Has(qq, t, "accept")
      /\ Says(qq, AcceptMsg(t, FALSE)) => Has(qq, t, "accept")
      /\ Says(qq, EndMsg(t, TRUE)) => Has(qq, t, "end")
      /\ Says(qq, EndMsg(t, FALSE)) => Has(qq, t, "end")
  BY Handshakes
<1>x. /\ Has(q, t, "request") /\ ~Handshake(qq, t) /\ t \notin opening /\ t \in begun /\ t \notin sending
      /\ t \notin accepted /\ sent[t] = 0 /\ acked[t] = 0 /\ got[t] = 0
      /\ ~Has(q, t, "ack") /\ ~Has(p, t, "data") /\ Counts(q, t, "ack", 0, 0) /\ Counts(p, t, "data", 0, 0)
  <2>1. Has(q, t, "request") /\ ~Handshake(qq, t)
    BY <1>2, <1>7 DEF StepOK, OneLessFor, LessFor
  <2>2. t \notin opening /\ t \in begun /\ t \notin accepted /\ t \notin sending
    BY <1>2, <1>8, <2>1 DEF StepOK, FreshOK, BeforeOK, Unanswered, Early
  <2>q. QED
    BY <1>1, <1>2, <1>3, <2>1, <2>2, NothingYet
<1> HIDE DEF p, q, pp, qq
<1>9. FreshOK(t, ToSender(t))'
  BY <1>1, <1>2, <1>3, <1>4, <1>5, <1>6, <1>7, <1>8, <1>x DEF FreshOK, StepOK, BeforeOK, Early, Unanswered, OneLessFor, LessFor, OneMoreFor, MoreFor
<1>10. StepOK(t, ToSender(t), accepted)'
  BY <1>1, <1>2, <1>3, <1>4, <1>5, <1>6, <1>7, <1>8, <1>x DEF StepOK, FreshOK, AnswerOK, GivenUpOK, BeforeOK, Early, Unanswered, OneLessFor, LessFor, OneMoreFor, MoreFor
<1>11. BeforeOK(t, ToSender(t), accepted)'
  BY <1>1, <1>2, <1>3, <1>4, <1>5, <1>6, <1>7, <1>8, <1>x DEF BeforeOK, FreshOK, RecordOK, StepOK, SettledOK, Early, Unanswered, OneLessFor, LessFor, OneMoreFor, MoreFor
<1>12. RecordOK(t)'
  BY <1>1, <1>2, <1>3, <1>4, <1>5, <1>6, <1>7, <1>8, <1>x DEF RecordOK, FreshOK, BeforeOK, SettledOK, OtherEndOK, StepOK, Early, Unanswered, OneLessFor, LessFor, OneMoreFor, MoreFor
<1>13. AnswerOK(t, ToSender(t))'
  BY <1>1, <1>2, <1>3, <1>4, <1>5, <1>6, <1>7, <1>8, <1>x DEF AnswerOK, FreshOK, RecordOK, BeforeOK, StepOK, SettledOK, OtherEndOK, Early, Unanswered, OneLessFor, LessFor, OneMoreFor, MoreFor
<1>14. GivenUpOK(t, ToSender(t))'
  BY <1>1, <1>2, <1>3, <1>4, <1>5, <1>6, <1>7, <1>8, <1>x DEF GivenUpOK, FreshOK, StepOK, RecordOK, OtherEndOK, BeforeOK, SettledOK, AnswerOK, Early, Unanswered, OneLessFor, LessFor, OneMoreFor, MoreFor
<1>15. OtherEndOK(t, ToSender(t))'
  BY <1>1, <1>2, <1>3, <1>4, <1>5, <1>6, <1>7, <1>8, <1>x DEF OtherEndOK, FreshOK, StepOK, BeforeOK, AnswerOK, GivenUpOK, RecordOK, Early, Unanswered, OneLessFor, LessFor, OneMoreFor, MoreFor
<1>16. ChunksOK(t, ToSender(t), acked)'
  BY <1>1, <1>2, <1>3, <1>4, <1>5, <1>6, <1>7, <1>8, <1>x DEF ChunksOK, StepOK, BeforeOK, Early, Unanswered, OneLessFor, LessCounted, OneMoreFor, MoreCounted
<1>17. SettledOK(t)'
  BY <1>1, <1>2, <1>3, <1>4, <1>5, <1>6, <1>7, <1>8, <1>x DEF SettledOK, FreshOK, BeforeOK, RecordOK, AnswerOK, GivenUpOK, StepOK, OtherEndOK, Early, Unanswered, OneLessFor, LessFor, OneMoreFor, MoreFor
<1>q. QED
  BY <1>9, <1>10, <1>11, <1>12, <1>13, <1>14, <1>15, <1>16, <1>17 DEF AllWell, TransferOK

LEMMA AcceptLateOwn ==
  ASSUME TypeOK, NEW t \in Transfers, AllWell(t),
         net[Sender[t]] # <<>>, Head(net[Sender[t]]).id = t, Head(net[Sender[t]]).type = "accept",
         t \notin sending, Reply(Sender[t], <<>>),
         UNCHANGED <<outVars, inVars, opening, file, verdict, begun>>
  PROVE  AllWell(t)'
<1> DEFINE p == net[Receiver(t)]
           q == net[Sender[t]]
           pp == net'[Receiver(t)]
           qq == net'[Sender[t]]
<1>1. /\ p \in Seq(Messages) /\ q \in Seq(Messages)
      /\ sent[t] \in Nat /\ acked[t] \in Nat /\ got[t] \in Nat /\ Size[t] \in Nat
      /\ acked[t] <= sent[t] /\ sent[t] <= Size[t] /\ got[t] <= sent[t]
      /\ Sender[t] \in Ends /\ Receiver(t) \in Ends /\ Receiver(t) # Sender[t]
      /\ Other(Sender[t]) = Receiver(t) /\ Other(Receiver(t)) = Sender[t]
      /\ \A e \in Ends : (t \in From(e) <=> e = Sender[t]) /\ (t \in To(e) <=> e = Receiver(t))
  BY Typed, TwoEnds
<1>2. /\ FreshOK(t, q) /\ StepOK(t, q, accepted) /\ BeforeOK(t, q, accepted) /\ RecordOK(t) /\ AnswerOK(t, q)
      /\ GivenUpOK(t, q) /\ OtherEndOK(t, q) /\ ChunksOK(t, q, acked) /\ SettledOK(t)
      /\ TransferOK(t, q, accepted, acked)
  BY DEF AllWell, TransferOK, ToSender
<1>3. /\ ToReceiver(t) = p /\ ToReceiver(t)' = pp /\ ToSender(t)' = qq
      /\ ToldSender(t) = verdict[Sender[t]][t] /\ ToldSender(t)' = verdict'[Sender[t]][t]
      /\ ToldReceiver(t) = verdict[Receiver(t)][t] /\ ToldReceiver(t)' = verdict'[Receiver(t)][t]
  BY DEF ToReceiver, ToSender, ToldSender, ToldReceiver
<1>4. /\ AcceptMsg(t, FALSE) \in Messages /\ AcceptMsg(t, FALSE).id = t /\ AcceptMsg(t, FALSE).type = "accept"
      /\ AcceptMsg(t, TRUE) \in Messages /\ AcceptMsg(t, TRUE).id = t /\ AcceptMsg(t, TRUE).type = "accept"
      /\ AcceptMsg(t, FALSE) # AcceptMsg(t, TRUE)
      /\ EndMsg(t, TRUE) \in Messages /\ EndMsg(t, TRUE).id = t /\ EndMsg(t, TRUE).type = "end"
      /\ EndMsg(t, FALSE) \in Messages /\ EndMsg(t, FALSE).id = t /\ EndMsg(t, FALSE).type = "end"
      /\ EndMsg(t, TRUE) # EndMsg(t, FALSE)
      /\ OfferMsg(t) \in Messages /\ OfferMsg(t).id = t /\ OfferMsg(t).type = "offer"
      /\ RequestMsg(t) \in Messages /\ RequestMsg(t).id = t /\ RequestMsg(t).type = "request"
  <2>1. AcceptMsg(t, FALSE) # AcceptMsg(t, TRUE) /\ EndMsg(t, TRUE) # EndMsg(t, FALSE)
    BY DEF AcceptMsg, EndMsg
  <2>q. QED
    BY <2>1, Sayings, EndSaid
<1>5. /\ t \in begun' <=> t \in begun
      /\ t \in sending' <=> t \in sending
      /\ t \in accepted' <=> t \in accepted
      /\ t \in receiving' <=> t \in receiving
      /\ t \in pending' <=> t \in pending
      /\ t \in wanted' <=> t \in wanted
      /\ t \in opening' <=> t \in opening
      /\ sent'[t] = sent[t]
      /\ acked'[t] = acked[t]
      /\ got'[t] = got[t]
      /\ file'[t] = file[t]
      /\ verdict'[Sender[t]][t] = verdict[Sender[t]][t]
      /\ verdict'[Receiver(t)][t] = verdict[Receiver(t)][t]
  BY <1>1, SMT DEF outVars, inVars
<1>6. qq = Tail(q) /\ pp = p
  BY <1>1, <1>4, RepliedNone
<1>7. /\ OneLessFor(q, qq, t, Head(q))
      /\ Head(q) \in Messages /\ Head(q).type = "accept"
  BY <1>1, <1>4, <1>6, OneLess
<1>8. /\ Handshake(p, t) <=> Has(p, t, "request") \/ Has(p, t, "offer") \/ Has(p, t, "accept")
      /\ Says(p, AcceptMsg(t, FALSE)) => Has(p, t, "accept")
      /\ Says(p, EndMsg(t, TRUE)) => Has(p, t, "end")
      /\ Says(p, EndMsg(t, FALSE)) => Has(p, t, "end")
      /\ Handshake(q, t) <=> Has(q, t, "request") \/ Has(q, t, "offer") \/ Has(q, t, "accept")
      /\ Says(q, AcceptMsg(t, FALSE)) => Has(q, t, "accept")
      /\ Says(q, EndMsg(t, TRUE)) => Has(q, t, "end")
      /\ Says(q, EndMsg(t, FALSE)) => Has(q, t, "end")
      /\ Handshake(pp, t) <=> Has(pp, t, "request") \/ Has(pp, t, "offer") \/ Has(pp, t, "accept")
      /\ Says(pp, AcceptMsg(t, FALSE)) => Has(pp, t, "accept")
      /\ Says(pp, EndMsg(t, TRUE)) => Has(pp, t, "end")
      /\ Says(pp, EndMsg(t, FALSE)) => Has(pp, t, "end")
      /\ Handshake(qq, t) <=> Has(qq, t, "request") \/ Has(qq, t, "offer") \/ Has(qq, t, "accept")
      /\ Says(qq, AcceptMsg(t, FALSE)) => Has(qq, t, "accept")
      /\ Says(qq, EndMsg(t, TRUE)) => Has(qq, t, "end")
      /\ Says(qq, EndMsg(t, FALSE)) => Has(qq, t, "end")
  BY Handshakes
<1> HIDE DEF p, q, pp, qq
<1>9. FreshOK(t, ToSender(t))'
  BY <1>1, <1>2, <1>3, <1>4, <1>5, <1>6, <1>7, <1>8 DEF FreshOK, StepOK, BeforeOK, Early, Unanswered, OneLessFor, LessFor
<1>10. StepOK(t, ToSender(t), accepted)'
  BY <1>1, <1>2, <1>3, <1>4, <1>5, <1>6, <1>7, <1>8 DEF StepOK, FreshOK, AnswerOK, GivenUpOK, BeforeOK, Early, Unanswered, OneLessFor, LessFor
<1>11. BeforeOK(t, ToSender(t), accepted)'
  BY <1>1, <1>2, <1>3, <1>4, <1>5, <1>6, <1>7, <1>8 DEF BeforeOK, FreshOK, RecordOK, StepOK, SettledOK, Early, Unanswered, OneLessFor, LessFor
<1>12. RecordOK(t)'
  BY <1>1, <1>2, <1>3, <1>4, <1>5, <1>6, <1>7, <1>8 DEF RecordOK, FreshOK, BeforeOK, SettledOK, OtherEndOK, StepOK, Early, Unanswered, OneLessFor, LessFor
<1>13. AnswerOK(t, ToSender(t))'
  BY <1>1, <1>2, <1>3, <1>4, <1>5, <1>6, <1>7, <1>8 DEF AnswerOK, FreshOK, RecordOK, BeforeOK, StepOK, SettledOK, OtherEndOK, Early, Unanswered, OneLessFor, LessFor
<1>14. GivenUpOK(t, ToSender(t))'
  BY <1>1, <1>2, <1>3, <1>4, <1>5, <1>6, <1>7, <1>8 DEF GivenUpOK, FreshOK, StepOK, RecordOK, OtherEndOK, BeforeOK, SettledOK, AnswerOK, Early, Unanswered, OneLessFor, LessFor
<1>15. OtherEndOK(t, ToSender(t))'
  BY <1>1, <1>2, <1>3, <1>4, <1>5, <1>6, <1>7, <1>8 DEF OtherEndOK, FreshOK, StepOK, BeforeOK, AnswerOK, GivenUpOK, RecordOK, Early, Unanswered, OneLessFor, LessFor
<1>16. ChunksOK(t, ToSender(t), acked)'
  BY <1>1, <1>2, <1>3, <1>4, <1>5, <1>6, <1>7, <1>8 DEF ChunksOK, StepOK, BeforeOK, Early, Unanswered, OneLessFor, LessCounted
<1>17. SettledOK(t)'
  BY <1>1, <1>2, <1>3, <1>4, <1>5, <1>6, <1>7, <1>8 DEF SettledOK, FreshOK, BeforeOK, RecordOK, AnswerOK, GivenUpOK, StepOK, OtherEndOK, Early, Unanswered, OneLessFor, LessFor
<1>q. QED
  BY <1>9, <1>10, <1>11, <1>12, <1>13, <1>14, <1>15, <1>16, <1>17 DEF AllWell, TransferOK

LEMMA AcceptRefusedOwn ==
  ASSUME TypeOK, NEW t \in Transfers, AllWell(t),
         net[Sender[t]] # <<>>, Head(net[Sender[t]]).id = t, Head(net[Sender[t]]).type = "accept",
         Head(net[Sender[t]]).ok = FALSE, t \in sending,
         sending' = sending \ {t}, Tell(Sender[t], {t}, "failed"), Reply(Sender[t], <<>>),
         UNCHANGED <<accepted, sent, acked, inVars, opening, file, begun>>
  PROVE  AllWell(t)'
<1> DEFINE p == net[Receiver(t)]
           q == net[Sender[t]]
           pp == net'[Receiver(t)]
           qq == net'[Sender[t]]
<1>1. /\ p \in Seq(Messages) /\ q \in Seq(Messages)
      /\ sent[t] \in Nat /\ acked[t] \in Nat /\ got[t] \in Nat /\ Size[t] \in Nat
      /\ acked[t] <= sent[t] /\ sent[t] <= Size[t] /\ got[t] <= sent[t]
      /\ Sender[t] \in Ends /\ Receiver(t) \in Ends /\ Receiver(t) # Sender[t]
      /\ Other(Sender[t]) = Receiver(t) /\ Other(Receiver(t)) = Sender[t]
      /\ \A e \in Ends : (t \in From(e) <=> e = Sender[t]) /\ (t \in To(e) <=> e = Receiver(t))
  BY Typed, TwoEnds
<1>2. /\ FreshOK(t, q) /\ StepOK(t, q, accepted) /\ BeforeOK(t, q, accepted) /\ RecordOK(t) /\ AnswerOK(t, q)
      /\ GivenUpOK(t, q) /\ OtherEndOK(t, q) /\ ChunksOK(t, q, acked) /\ SettledOK(t)
      /\ TransferOK(t, q, accepted, acked)
  BY DEF AllWell, TransferOK, ToSender
<1>3. /\ ToReceiver(t) = p /\ ToReceiver(t)' = pp /\ ToSender(t)' = qq
      /\ ToldSender(t) = verdict[Sender[t]][t] /\ ToldSender(t)' = verdict'[Sender[t]][t]
      /\ ToldReceiver(t) = verdict[Receiver(t)][t] /\ ToldReceiver(t)' = verdict'[Receiver(t)][t]
  BY DEF ToReceiver, ToSender, ToldSender, ToldReceiver
<1>4. /\ AcceptMsg(t, FALSE) \in Messages /\ AcceptMsg(t, FALSE).id = t /\ AcceptMsg(t, FALSE).type = "accept"
      /\ AcceptMsg(t, TRUE) \in Messages /\ AcceptMsg(t, TRUE).id = t /\ AcceptMsg(t, TRUE).type = "accept"
      /\ AcceptMsg(t, FALSE) # AcceptMsg(t, TRUE)
      /\ EndMsg(t, TRUE) \in Messages /\ EndMsg(t, TRUE).id = t /\ EndMsg(t, TRUE).type = "end"
      /\ EndMsg(t, FALSE) \in Messages /\ EndMsg(t, FALSE).id = t /\ EndMsg(t, FALSE).type = "end"
      /\ EndMsg(t, TRUE) # EndMsg(t, FALSE)
      /\ OfferMsg(t) \in Messages /\ OfferMsg(t).id = t /\ OfferMsg(t).type = "offer"
      /\ RequestMsg(t) \in Messages /\ RequestMsg(t).id = t /\ RequestMsg(t).type = "request"
  <2>1. AcceptMsg(t, FALSE) # AcceptMsg(t, TRUE) /\ EndMsg(t, TRUE) # EndMsg(t, FALSE)
    BY DEF AcceptMsg, EndMsg
  <2>q. QED
    BY <2>1, Sayings, EndSaid
<1>t. verdict'[Sender[t]][t] = "failed" /\ verdict'[Receiver(t)][t] = verdict[Receiver(t)][t]
  BY <1>1, Told
<1>5. /\ t \in begun' <=> t \in begun
      /\ t \in sending' <=> FALSE
      /\ t \in accepted' <=> t \in accepted
      /\ t \in receiving' <=> t \in receiving
      /\ t \in pending' <=> t \in pending
      /\ t \in wanted' <=> t \in wanted
      /\ t \in opening' <=> t \in opening
      /\ sent'[t] = sent[t]
      /\ acked'[t] = acked[t]
      /\ got'[t] = got[t]
      /\ file'[t] = file[t]
      /\ verdict'[Sender[t]][t] = "failed"
      /\ verdict'[Receiver(t)][t] = verdict[Receiver(t)][t]
  BY <1>1, <1>t DEF inVars
<1>6. qq = Tail(q) /\ pp = p
  BY <1>1, <1>4, RepliedNone
<1>7. /\ OneLessFor(q, qq, t, Head(q))
      /\ Head(q) \in Messages /\ Head(q).type = "accept"
  BY <1>1, <1>4, <1>6, OneLess
<1>8. /\ Handshake(p, t) <=> Has(p, t, "request") \/ Has(p, t, "offer") \/ Has(p, t, "accept")
      /\ Says(p, AcceptMsg(t, FALSE)) => Has(p, t, "accept")
      /\ Says(p, EndMsg(t, TRUE)) => Has(p, t, "end")
      /\ Says(p, EndMsg(t, FALSE)) => Has(p, t, "end")
      /\ Handshake(q, t) <=> Has(q, t, "request") \/ Has(q, t, "offer") \/ Has(q, t, "accept")
      /\ Says(q, AcceptMsg(t, FALSE)) => Has(q, t, "accept")
      /\ Says(q, EndMsg(t, TRUE)) => Has(q, t, "end")
      /\ Says(q, EndMsg(t, FALSE)) => Has(q, t, "end")
      /\ Handshake(pp, t) <=> Has(pp, t, "request") \/ Has(pp, t, "offer") \/ Has(pp, t, "accept")
      /\ Says(pp, AcceptMsg(t, FALSE)) => Has(pp, t, "accept")
      /\ Says(pp, EndMsg(t, TRUE)) => Has(pp, t, "end")
      /\ Says(pp, EndMsg(t, FALSE)) => Has(pp, t, "end")
      /\ Handshake(qq, t) <=> Has(qq, t, "request") \/ Has(qq, t, "offer") \/ Has(qq, t, "accept")
      /\ Says(qq, AcceptMsg(t, FALSE)) => Has(qq, t, "accept")
      /\ Says(qq, EndMsg(t, TRUE)) => Has(qq, t, "end")
      /\ Says(qq, EndMsg(t, FALSE)) => Has(qq, t, "end")
  BY Handshakes
<1>x. Says(q, AcceptMsg(t, FALSE))
  <2>1. Head(q) = AcceptMsg(t, FALSE)
    BY <1>7 DEF Messages, AcceptMsg
  <2>q. QED
    BY <1>7, <2>1 DEF OneLessFor, LessFor
<1> HIDE DEF p, q, pp, qq
<1>9. FreshOK(t, ToSender(t))'
  BY <1>1, <1>2, <1>3, <1>4, <1>5, <1>6, <1>7, <1>8, <1>x DEF FreshOK, StepOK, BeforeOK, Early, Unanswered, OneLessFor, LessFor
<1>10. StepOK(t, ToSender(t), accepted)'
  BY <1>1, <1>2, <1>3, <1>4, <1>5, <1>6, <1>7, <1>8, <1>x DEF StepOK, FreshOK, AnswerOK, GivenUpOK, BeforeOK, Early, Unanswered, OneLessFor, LessFor
<1>11. BeforeOK(t, ToSender(t), accepted)'
  BY <1>1, <1>2, <1>3, <1>4, <1>5, <1>6, <1>7, <1>8, <1>x DEF BeforeOK, FreshOK, RecordOK, StepOK, SettledOK, Early, Unanswered, OneLessFor, LessFor
<1>12. RecordOK(t)'
  BY <1>1, <1>2, <1>3, <1>4, <1>5, <1>6, <1>7, <1>8, <1>x DEF RecordOK, FreshOK, BeforeOK, SettledOK, OtherEndOK, StepOK, Early, Unanswered, OneLessFor, LessFor
<1>13. AnswerOK(t, ToSender(t))'
  BY <1>1, <1>2, <1>3, <1>4, <1>5, <1>6, <1>7, <1>8, <1>x DEF AnswerOK, FreshOK, RecordOK, BeforeOK, StepOK, SettledOK, OtherEndOK, Early, Unanswered, OneLessFor, LessFor
<1>14. GivenUpOK(t, ToSender(t))'
  BY <1>1, <1>2, <1>3, <1>4, <1>5, <1>6, <1>7, <1>8, <1>x DEF GivenUpOK, FreshOK, StepOK, RecordOK, OtherEndOK, BeforeOK, SettledOK, AnswerOK, Early, Unanswered, OneLessFor, LessFor
<1>15. OtherEndOK(t, ToSender(t))'
  BY <1>1, <1>2, <1>3, <1>4, <1>5, <1>6, <1>7, <1>8, <1>x DEF OtherEndOK, FreshOK, StepOK, BeforeOK, AnswerOK, GivenUpOK, RecordOK, Early, Unanswered, OneLessFor, LessFor
<1>16. ChunksOK(t, ToSender(t), acked)'
  BY <1>1, <1>2, <1>3, <1>4, <1>5, <1>6, <1>7, <1>8, <1>x DEF ChunksOK, StepOK, BeforeOK, Early, Unanswered, OneLessFor, LessCounted
<1>17. SettledOK(t)'
  BY <1>1, <1>2, <1>3, <1>4, <1>5, <1>6, <1>7, <1>8, <1>x DEF SettledOK, FreshOK, BeforeOK, RecordOK, AnswerOK, GivenUpOK, StepOK, OtherEndOK, Early, Unanswered, OneLessFor, LessFor
<1>q. QED
  BY <1>9, <1>10, <1>11, <1>12, <1>13, <1>14, <1>15, <1>16, <1>17 DEF AllWell, TransferOK

LEMMA EndAtSenderOwn ==
  ASSUME TypeOK, NEW t \in Transfers, AllWell(t),
         net[Sender[t]] # <<>>, Head(net[Sender[t]]).id = t, Head(net[Sender[t]]).type = "end",
         RecvEnd(Sender[t])
  PROVE  AllWell(t)'
<1> DEFINE p == net[Receiver(t)]
           q == net[Sender[t]]
           pp == net'[Receiver(t)]
           qq == net'[Sender[t]]
<1>1. /\ p \in Seq(Messages) /\ q \in Seq(Messages)
      /\ sent[t] \in Nat /\ acked[t] \in Nat /\ got[t] \in Nat /\ Size[t] \in Nat
      /\ acked[t] <= sent[t] /\ sent[t] <= Size[t] /\ got[t] <= sent[t]
      /\ Sender[t] \in Ends /\ Receiver(t) \in Ends /\ Receiver(t) # Sender[t]
      /\ Other(Sender[t]) = Receiver(t) /\ Other(Receiver(t)) = Sender[t]
      /\ \A e \in Ends : (t \in From(e) <=> e = Sender[t]) /\ (t \in To(e) <=> e = Receiver(t))
  BY Typed, TwoEnds
<1>2. /\ FreshOK(t, q) /\ StepOK(t, q, accepted) /\ BeforeOK(t, q, accepted) /\ RecordOK(t) /\ AnswerOK(t, q)
      /\ GivenUpOK(t, q) /\ OtherEndOK(t, q) /\ ChunksOK(t, q, acked) /\ SettledOK(t)
      /\ TransferOK(t, q, accepted, acked)
  BY DEF AllWell, TransferOK, ToSender
<1>3. /\ ToReceiver(t) = p /\ ToReceiver(t)' = pp /\ ToSender(t)' = qq
      /\ ToldSender(t) = verdict[Sender[t]][t] /\ ToldSender(t)' = verdict'[Sender[t]][t]
      /\ ToldReceiver(t) = verdict[Receiver(t)][t] /\ ToldReceiver(t)' = verdict'[Receiver(t)][t]
  BY DEF ToReceiver, ToSender, ToldSender, ToldReceiver
<1>4. /\ AcceptMsg(t, FALSE) \in Messages /\ AcceptMsg(t, FALSE).id = t /\ AcceptMsg(t, FALSE).type = "accept"
      /\ AcceptMsg(t, TRUE) \in Messages /\ AcceptMsg(t, TRUE).id = t /\ AcceptMsg(t, TRUE).type = "accept"
      /\ AcceptMsg(t, FALSE) # AcceptMsg(t, TRUE)
      /\ EndMsg(t, TRUE) \in Messages /\ EndMsg(t, TRUE).id = t /\ EndMsg(t, TRUE).type = "end"
      /\ EndMsg(t, FALSE) \in Messages /\ EndMsg(t, FALSE).id = t /\ EndMsg(t, FALSE).type = "end"
      /\ EndMsg(t, TRUE) # EndMsg(t, FALSE)
      /\ OfferMsg(t) \in Messages /\ OfferMsg(t).id = t /\ OfferMsg(t).type = "offer"
      /\ RequestMsg(t) \in Messages /\ RequestMsg(t).id = t /\ RequestMsg(t).type = "request"
  <2>1. AcceptMsg(t, FALSE) # AcceptMsg(t, TRUE) /\ EndMsg(t, TRUE) # EndMsg(t, FALSE)
    BY DEF AcceptMsg, EndMsg
  <2>q. QED
    BY <2>1, Sayings, EndSaid
<1>h. Head(q) \in Messages /\ (Head(q).ok => Says(q, EndMsg(t, TRUE))) /\ (~Head(q).ok => Says(q, EndMsg(t, FALSE)))
  <2>1. Head(q) \in Messages /\ 1 \in DOMAIN q /\ q[1] = Head(q)
    BY <1>1, Rest
  <2>2. (Head(q).ok => Head(q) = EndMsg(t, TRUE)) /\ (~Head(q).ok => Head(q) = EndMsg(t, FALSE))
    BY <2>1 DEF Messages, EndMsg
  <2>q. QED
    BY <2>1, <2>2 DEF Says
<1>o. t \notin opening'
  <2>1. Head(q).ok => t \notin opening
    BY <1>2, <1>h, <1>3 DEF AnswerOK, BeforeOK, Unanswered, Early
  <2>2. t \in opening => Sender[t] = "server"
    BY <1>1 DEF TypeOK, From
  <2>q. QED
    BY <2>1, <2>2 DEF RecvEnd
<1>t. /\ verdict'[Sender[t]][t] = IF t \in sending THEN IF Head(q).ok /\ SenderComplete(t) THEN "sent" ELSE "failed"
                                 ELSE verdict[Sender[t]][t]
      /\ verdict'[Receiver(t)][t] = verdict[Receiver(t)][t]
  <2>1. t \in Active(Sender[t]) <=> t \in sending
    BY <1>1 DEF Active
  <2>2. CASE t \in sending
    <3>1. Tell(Sender[t], {t}, IF Head(q).ok /\ SenderComplete(t) THEN "sent" ELSE "failed")
      BY <2>1, <2>2 DEF RecvEnd
    <3>q. QED
      BY <1>1, <2>2, <3>1, Told
  <2>3. CASE t \notin sending
    BY <2>1, <2>3 DEF RecvEnd
  <2>q. QED
    BY <2>2, <2>3
<1>5. /\ t \in begun' <=> t \in begun
      /\ t \in sending' <=> FALSE
      /\ t \in accepted' <=> t \in accepted
      /\ t \in receiving' <=> t \in receiving
      /\ t \in pending' <=> t \in pending
      /\ t \in wanted' <=> t \in wanted
      /\ t \in opening' <=> FALSE
      /\ sent'[t] = sent[t]
      /\ acked'[t] = acked[t]
      /\ got'[t] = got[t]
      /\ file'[t] = file[t]
      /\ verdict'[Sender[t]][t] = IF t \in sending THEN IF Head(q).ok /\ SenderComplete(t) THEN "sent" ELSE "failed" ELSE verdict[Sender[t]][t]
      /\ verdict'[Receiver(t)][t] = verdict[Receiver(t)][t]
  BY <1>1, <1>t, <1>o DEF RecvEnd, Forget
<1>6. qq = Tail(q) /\ pp = p
  BY <1>1, <1>4, RepliedNone DEF RecvEnd
<1>7. /\ OneLessFor(q, qq, t, Head(q))
      /\ Head(q) \in Messages /\ Head(q).type = "end"
  BY <1>1, <1>4, <1>6, OneLess
<1>8. /\ Handshake(p, t) <=> Has(p, t, "request") \/ Has(p, t, "offer") \/ Has(p, t, "accept")
      /\ Says(p, AcceptMsg(t, FALSE)) => Has(p, t, "accept")
      /\ Says(p, EndMsg(t, TRUE)) => Has(p, t, "end")
      /\ Says(p, EndMsg(t, FALSE)) => Has(p, t, "end")
      /\ Handshake(q, t) <=> Has(q, t, "request") \/ Has(q, t, "offer") \/ Has(q, t, "accept")
      /\ Says(q, AcceptMsg(t, FALSE)) => Has(q, t, "accept")
      /\ Says(q, EndMsg(t, TRUE)) => Has(q, t, "end")
      /\ Says(q, EndMsg(t, FALSE)) => Has(q, t, "end")
      /\ Handshake(pp, t) <=> Has(pp, t, "request") \/ Has(pp, t, "offer") \/ Has(pp, t, "accept")
      /\ Says(pp, AcceptMsg(t, FALSE)) => Has(pp, t, "accept")
      /\ Says(pp, EndMsg(t, TRUE)) => Has(pp, t, "end")
      /\ Says(pp, EndMsg(t, FALSE)) => Has(pp, t, "end")
      /\ Handshake(qq, t) <=> Has(qq, t, "request") \/ Has(qq, t, "offer") \/ Has(qq, t, "accept")
      /\ Says(qq, AcceptMsg(t, FALSE)) => Has(qq, t, "accept")
      /\ Says(qq, EndMsg(t, TRUE)) => Has(qq, t, "end")
      /\ Says(qq, EndMsg(t, FALSE)) => Has(qq, t, "end")
  BY Handshakes
<1>x. /\ Head(q).ok => ToldReceiver(t) = "completed" /\ (t \in sending => SenderComplete(t))
      /\ ~Head(q).ok => ToldReceiver(t) # "completed"
      /\ t \notin pending /\ t \notin wanted /\ t \notin receiving /\ (Has(p, t, "offer") => t \in Asked) /\ t \in begun
  <2>1. /\ Head(q).ok => ToldReceiver(t) = "completed"
        /\ ~Head(q).ok => ToldReceiver(t) # "completed"
    BY <1>2, <1>h DEF AnswerOK
  <2>2. Has(q, t, "end") /\ ~Has(qq, t, "ack")
    BY <1>2, <1>7 DEF AnswerOK, OneLessFor, LessFor
  <2>3. t \notin pending /\ t \notin wanted /\ t \notin receiving /\ (Has(p, t, "offer") => t \in Asked) /\ t \in begun
    BY <1>2, <1>3, <2>2 DEF AnswerOK, FreshOK
  <2>4. ASSUME Head(q).ok, t \in sending PROVE SenderComplete(t)
    <3>1. got[t] = Size[t]
      BY <1>2, <2>1, <2>4 DEF SettledOK
    <3>2. Counts(q, t, "ack", acked[t], got[t]) /\ acked[t] <= got[t]
      BY <1>2, <2>4 DEF ChunksOK
    <3>3. Counts(qq, t, "ack", acked[t], got[t])
      BY <1>1, <1>7, <3>2 DEF OneLessFor, LessCounted
    <3>4. acked[t] = got[t]
      BY <1>1, <2>2, <3>2, <3>3, CountsEmpty
    <3>q. QED
      BY <1>1, <3>1, <3>4 DEF SenderComplete, Drained
  <2>q. QED
    BY <2>1, <2>3, <2>4
<1> HIDE DEF p, q, pp, qq
<1>9. FreshOK(t, ToSender(t))'
  BY <1>1, <1>2, <1>3, <1>4, <1>5, <1>6, <1>7, <1>8, <1>x DEF FreshOK, StepOK, BeforeOK, Early, Unanswered, OneLessFor, LessFor
<1>10. StepOK(t, ToSender(t), accepted)'
  BY <1>1, <1>2, <1>3, <1>4, <1>5, <1>6, <1>7, <1>8, <1>x DEF StepOK, FreshOK, AnswerOK, GivenUpOK, BeforeOK, Early, Unanswered, OneLessFor, LessFor
<1>11. BeforeOK(t, ToSender(t), accepted)'
  BY <1>1, <1>2, <1>3, <1>4, <1>5, <1>6, <1>7, <1>8, <1>x DEF BeforeOK, FreshOK, RecordOK, StepOK, SettledOK, Early, Unanswered, OneLessFor, LessFor
<1>12. RecordOK(t)'
  BY <1>1, <1>2, <1>3, <1>4, <1>5, <1>6, <1>7, <1>8, <1>x DEF RecordOK, FreshOK, BeforeOK, SettledOK, OtherEndOK, StepOK, Early, Unanswered, OneLessFor, LessFor
<1>13. AnswerOK(t, ToSender(t))'
  BY <1>1, <1>2, <1>3, <1>4, <1>5, <1>6, <1>7, <1>8, <1>x, ZenonT(60) DEF AnswerOK, FreshOK, RecordOK, BeforeOK, StepOK, SettledOK, OtherEndOK, Early, Unanswered, OneLessFor, LessFor
<1>14. GivenUpOK(t, ToSender(t))'
  BY <1>1, <1>2, <1>3, <1>4, <1>5, <1>6, <1>7, <1>8, <1>x DEF GivenUpOK, FreshOK, StepOK, RecordOK, OtherEndOK, BeforeOK, SettledOK, AnswerOK, Early, Unanswered, OneLessFor, LessFor
<1>15. OtherEndOK(t, ToSender(t))'
  BY <1>1, <1>2, <1>3, <1>4, <1>5, <1>6, <1>7, <1>8, <1>x DEF OtherEndOK, FreshOK, StepOK, BeforeOK, AnswerOK, GivenUpOK, RecordOK, Early, Unanswered, OneLessFor, LessFor
<1>16. ChunksOK(t, ToSender(t), acked)'
  BY <1>1, <1>2, <1>3, <1>4, <1>5, <1>6, <1>7, <1>8, <1>x DEF ChunksOK, StepOK, BeforeOK, Early, Unanswered, OneLessFor, LessCounted
<1>17. SettledOK(t)'
  BY <1>1, <1>2, <1>3, <1>4, <1>5, <1>6, <1>7, <1>8, <1>x DEF SettledOK, FreshOK, BeforeOK, RecordOK, AnswerOK, GivenUpOK, StepOK, OtherEndOK, Early, Unanswered, OneLessFor, LessFor
<1>q. QED
  BY <1>9, <1>10, <1>11, <1>12, <1>13, <1>14, <1>15, <1>16, <1>17 DEF AllWell, TransferOK

LEMMA EndAtReceiverOwn ==
  ASSUME TypeOK, NEW t \in Transfers, AllWell(t),
         net[Receiver(t)] # <<>>, Head(net[Receiver(t)]).id = t, Head(net[Receiver(t)]).type = "end",
         RecvEnd(Receiver(t))
  PROVE  AllWell(t)'
<1> DEFINE p == net[Receiver(t)]
           q == net[Sender[t]]
           pp == net'[Receiver(t)]
           qq == net'[Sender[t]]
<1>1. /\ p \in Seq(Messages) /\ q \in Seq(Messages)
      /\ sent[t] \in Nat /\ acked[t] \in Nat /\ got[t] \in Nat /\ Size[t] \in Nat
      /\ acked[t] <= sent[t] /\ sent[t] <= Size[t] /\ got[t] <= sent[t]
      /\ Sender[t] \in Ends /\ Receiver(t) \in Ends /\ Receiver(t) # Sender[t]
      /\ Other(Sender[t]) = Receiver(t) /\ Other(Receiver(t)) = Sender[t]
      /\ \A e \in Ends : (t \in From(e) <=> e = Sender[t]) /\ (t \in To(e) <=> e = Receiver(t))
  BY Typed, TwoEnds
<1>2. /\ FreshOK(t, q) /\ StepOK(t, q, accepted) /\ BeforeOK(t, q, accepted) /\ RecordOK(t) /\ AnswerOK(t, q)
      /\ GivenUpOK(t, q) /\ OtherEndOK(t, q) /\ ChunksOK(t, q, acked) /\ SettledOK(t)
      /\ TransferOK(t, q, accepted, acked)
  BY DEF AllWell, TransferOK, ToSender
<1>3. /\ ToReceiver(t) = p /\ ToReceiver(t)' = pp /\ ToSender(t)' = qq
      /\ ToldSender(t) = verdict[Sender[t]][t] /\ ToldSender(t)' = verdict'[Sender[t]][t]
      /\ ToldReceiver(t) = verdict[Receiver(t)][t] /\ ToldReceiver(t)' = verdict'[Receiver(t)][t]
  BY DEF ToReceiver, ToSender, ToldSender, ToldReceiver
<1>4. /\ AcceptMsg(t, FALSE) \in Messages /\ AcceptMsg(t, FALSE).id = t /\ AcceptMsg(t, FALSE).type = "accept"
      /\ AcceptMsg(t, TRUE) \in Messages /\ AcceptMsg(t, TRUE).id = t /\ AcceptMsg(t, TRUE).type = "accept"
      /\ AcceptMsg(t, FALSE) # AcceptMsg(t, TRUE)
      /\ EndMsg(t, TRUE) \in Messages /\ EndMsg(t, TRUE).id = t /\ EndMsg(t, TRUE).type = "end"
      /\ EndMsg(t, FALSE) \in Messages /\ EndMsg(t, FALSE).id = t /\ EndMsg(t, FALSE).type = "end"
      /\ EndMsg(t, TRUE) # EndMsg(t, FALSE)
      /\ OfferMsg(t) \in Messages /\ OfferMsg(t).id = t /\ OfferMsg(t).type = "offer"
      /\ RequestMsg(t) \in Messages /\ RequestMsg(t).id = t /\ RequestMsg(t).type = "request"
  <2>1. AcceptMsg(t, FALSE) # AcceptMsg(t, TRUE) /\ EndMsg(t, TRUE) # EndMsg(t, FALSE)
    BY DEF AcceptMsg, EndMsg
  <2>q. QED
    BY <2>1, Sayings, EndSaid
<1>h. Has(p, t, "end")
  <2>1. 1 \in DOMAIN p /\ p[1] = Head(p)
    BY <1>1, Rest
  <2>q. QED
    BY <2>1 DEF Has, At
<1>o. t \in opening' <=> t \in opening
  <2>1. t \in opening => Receiver(t) # "server"
    BY <1>1 DEF TypeOK, From
  <2>q. QED
    BY <2>1 DEF RecvEnd
<1>t. /\ verdict'[Receiver(t)][t] = IF t \in receiving \/ t \in pending THEN "failed" ELSE verdict[Receiver(t)][t]
      /\ verdict'[Sender[t]][t] = verdict[Sender[t]][t]
  <2>1. (t \in Active(Receiver(t)) <=> t \in receiving \/ t \in pending) /\ t \notin sending
    BY <1>1, <1>2, <1>3, <1>h DEF Active, GivenUpOK
  <2>2. CASE t \in receiving \/ t \in pending
    <3>1. Tell(Receiver(t), {t}, "failed")
      BY <2>1, <2>2 DEF RecvEnd
    <3>q. QED
      BY <1>1, <2>2, <3>1, Told
  <2>3. CASE ~(t \in receiving \/ t \in pending)
    BY <2>1, <2>3 DEF RecvEnd
  <2>q. QED
    BY <2>2, <2>3
<1>5. /\ t \in begun' <=> t \in begun
      /\ t \in sending' <=> t \in sending
      /\ t \in accepted' <=> t \in accepted
      /\ t \in receiving' <=> FALSE
      /\ t \in pending' <=> FALSE
      /\ t \in wanted' <=> FALSE
      /\ t \in opening' <=> t \in opening
      /\ sent'[t] = sent[t]
      /\ acked'[t] = acked[t]
      /\ got'[t] = got[t]
      /\ file'[t] = IF t \in receiving /\ file[t] \in {"staged", "refused"} THEN "none" ELSE file[t]
      /\ verdict'[Sender[t]][t] = verdict[Sender[t]][t]
      /\ verdict'[Receiver(t)][t] = IF t \in receiving \/ t \in pending THEN "failed" ELSE verdict[Receiver(t)][t]
  BY <1>1, <1>t, <1>o DEF RecvEnd, Forget, Dropped, TypeOK
<1>6. pp = Tail(p) /\ qq = q
  BY <1>1, <1>4, RepliedNone DEF RecvEnd
<1>7. /\ OneLessFor(p, pp, t, Head(p))
      /\ Head(p) \in Messages /\ Head(p).type = "end"
  BY <1>1, <1>4, <1>6, OneLess
<1>8. /\ Handshake(p, t) <=> Has(p, t, "request") \/ Has(p, t, "offer") \/ Has(p, t, "accept")
      /\ Says(p, AcceptMsg(t, FALSE)) => Has(p, t, "accept")
      /\ Says(p, EndMsg(t, TRUE)) => Has(p, t, "end")
      /\ Says(p, EndMsg(t, FALSE)) => Has(p, t, "end")
      /\ Handshake(q, t) <=> Has(q, t, "request") \/ Has(q, t, "offer") \/ Has(q, t, "accept")
      /\ Says(q, AcceptMsg(t, FALSE)) => Has(q, t, "accept")
      /\ Says(q, EndMsg(t, TRUE)) => Has(q, t, "end")
      /\ Says(q, EndMsg(t, FALSE)) => Has(q, t, "end")
      /\ Handshake(pp, t) <=> Has(pp, t, "request") \/ Has(pp, t, "offer") \/ Has(pp, t, "accept")
      /\ Says(pp, AcceptMsg(t, FALSE)) => Has(pp, t, "accept")
      /\ Says(pp, EndMsg(t, TRUE)) => Has(pp, t, "end")
      /\ Says(pp, EndMsg(t, FALSE)) => Has(pp, t, "end")
      /\ Handshake(qq, t) <=> Has(qq, t, "request") \/ Has(qq, t, "offer") \/ Has(qq, t, "accept")
      /\ Says(qq, AcceptMsg(t, FALSE)) => Has(qq, t, "accept")
      /\ Says(qq, EndMsg(t, TRUE)) => Has(qq, t, "end")
      /\ Says(qq, EndMsg(t, FALSE)) => Has(qq, t, "end")
  BY Handshakes
<1>x. /\ ~Has(pp, t, "offer") /\ t \notin sending /\ t \notin opening /\ ~Has(q, t, "request") /\ t \in begun
      /\ t \in receiving => got[t] # Size[t] \/ ToldSender(t) = "cancelled"
  <2>1. Has(p, t, "end") /\ ~Has(pp, t, "offer")
    BY <1>2, <1>3, <1>7, <1>h DEF GivenUpOK, OneLessFor, LessFor
  <2>q. QED
    BY <1>1, <1>2, <1>3, <2>1 DEF GivenUpOK, FreshOK
<1> HIDE DEF p, q, pp, qq
<1>9. FreshOK(t, ToSender(t))'
  BY <1>1, <1>2, <1>3, <1>4, <1>5, <1>6, <1>7, <1>8, <1>x DEF FreshOK, StepOK, BeforeOK, Early, Unanswered, OneLessFor, LessFor
<1>10. StepOK(t, ToSender(t), accepted)'
  BY <1>1, <1>2, <1>3, <1>4, <1>5, <1>6, <1>7, <1>8, <1>x DEF StepOK, FreshOK, AnswerOK, GivenUpOK, BeforeOK, Early, Unanswered, OneLessFor, LessFor
<1>11. BeforeOK(t, ToSender(t), accepted)'
  BY <1>1, <1>2, <1>3, <1>4, <1>5, <1>6, <1>7, <1>8, <1>x DEF BeforeOK, FreshOK, RecordOK, StepOK, SettledOK, Early, Unanswered, OneLessFor, LessFor
<1>12. RecordOK(t)'
  BY <1>1, <1>2, <1>3, <1>4, <1>5, <1>6, <1>7, <1>8, <1>x DEF RecordOK, FreshOK, BeforeOK, SettledOK, OtherEndOK, StepOK, Early, Unanswered, OneLessFor, LessFor
<1>13. AnswerOK(t, ToSender(t))'
  BY <1>1, <1>2, <1>3, <1>4, <1>5, <1>6, <1>7, <1>8, <1>x, ZenonT(60) DEF AnswerOK, FreshOK, RecordOK, BeforeOK, StepOK, SettledOK, OtherEndOK, Early, Unanswered, OneLessFor, LessFor
<1>14. GivenUpOK(t, ToSender(t))'
  BY <1>1, <1>2, <1>3, <1>4, <1>5, <1>6, <1>7, <1>8, <1>x DEF GivenUpOK, FreshOK, StepOK, RecordOK, OtherEndOK, BeforeOK, SettledOK, AnswerOK, Early, Unanswered, OneLessFor, LessFor
<1>15. OtherEndOK(t, ToSender(t))'
  BY <1>1, <1>2, <1>3, <1>4, <1>5, <1>6, <1>7, <1>8, <1>x DEF OtherEndOK, FreshOK, StepOK, BeforeOK, AnswerOK, GivenUpOK, RecordOK, Early, Unanswered, OneLessFor, LessFor
<1>16. ChunksOK(t, ToSender(t), acked)'
  BY <1>1, <1>2, <1>3, <1>4, <1>5, <1>6, <1>7, <1>8, <1>x DEF ChunksOK, StepOK, BeforeOK, Early, Unanswered, OneLessFor, LessCounted
<1>17. SettledOK(t)'
  BY <1>1, <1>2, <1>3, <1>4, <1>5, <1>6, <1>7, <1>8, <1>x DEF SettledOK, FreshOK, BeforeOK, RecordOK, AnswerOK, GivenUpOK, StepOK, OtherEndOK, Early, Unanswered, OneLessFor, LessFor
<1>q. QED
  BY <1>9, <1>10, <1>11, <1>12, <1>13, <1>14, <1>15, <1>16, <1>17 DEF AllWell, TransferOK

LEMMA OfferDeclinedOwn ==
  ASSUME TypeOK, NEW t \in Transfers, AllWell(t),
         net[Receiver(t)] # <<>>, Head(net[Receiver(t)]).id = t, Head(net[Receiver(t)]).type = "offer",
         Reply(Receiver(t), <<AcceptMsg(t, FALSE)>>), wanted' = wanted \ {t}, pending' = pending \ {t},
         Tell(Receiver(t), {t}, "failed") \/ (t \notin wanted /\ verdict' = verdict),
         UNCHANGED <<outVars, receiving, got, file, opening, begun>>
  PROVE  AllWell(t)'
<1> DEFINE p == net[Receiver(t)]
           q == net[Sender[t]]
           pp == net'[Receiver(t)]
           qq == net'[Sender[t]]
<1>1. /\ p \in Seq(Messages) /\ q \in Seq(Messages)
      /\ sent[t] \in Nat /\ acked[t] \in Nat /\ got[t] \in Nat /\ Size[t] \in Nat
      /\ acked[t] <= sent[t] /\ sent[t] <= Size[t] /\ got[t] <= sent[t]
      /\ Sender[t] \in Ends /\ Receiver(t) \in Ends /\ Receiver(t) # Sender[t]
      /\ Other(Sender[t]) = Receiver(t) /\ Other(Receiver(t)) = Sender[t]
      /\ \A e \in Ends : (t \in From(e) <=> e = Sender[t]) /\ (t \in To(e) <=> e = Receiver(t))
  BY Typed, TwoEnds
<1>2. /\ FreshOK(t, q) /\ StepOK(t, q, accepted) /\ BeforeOK(t, q, accepted) /\ RecordOK(t) /\ AnswerOK(t, q)
      /\ GivenUpOK(t, q) /\ OtherEndOK(t, q) /\ ChunksOK(t, q, acked) /\ SettledOK(t)
      /\ TransferOK(t, q, accepted, acked)
  BY DEF AllWell, TransferOK, ToSender
<1>3. /\ ToReceiver(t) = p /\ ToReceiver(t)' = pp /\ ToSender(t)' = qq
      /\ ToldSender(t) = verdict[Sender[t]][t] /\ ToldSender(t)' = verdict'[Sender[t]][t]
      /\ ToldReceiver(t) = verdict[Receiver(t)][t] /\ ToldReceiver(t)' = verdict'[Receiver(t)][t]
  BY DEF ToReceiver, ToSender, ToldSender, ToldReceiver
<1>4. /\ AcceptMsg(t, FALSE) \in Messages /\ AcceptMsg(t, FALSE).id = t /\ AcceptMsg(t, FALSE).type = "accept"
      /\ AcceptMsg(t, TRUE) \in Messages /\ AcceptMsg(t, TRUE).id = t /\ AcceptMsg(t, TRUE).type = "accept"
      /\ AcceptMsg(t, FALSE) # AcceptMsg(t, TRUE)
      /\ EndMsg(t, TRUE) \in Messages /\ EndMsg(t, TRUE).id = t /\ EndMsg(t, TRUE).type = "end"
      /\ EndMsg(t, FALSE) \in Messages /\ EndMsg(t, FALSE).id = t /\ EndMsg(t, FALSE).type = "end"
      /\ EndMsg(t, TRUE) # EndMsg(t, FALSE)
      /\ OfferMsg(t) \in Messages /\ OfferMsg(t).id = t /\ OfferMsg(t).type = "offer"
      /\ RequestMsg(t) \in Messages /\ RequestMsg(t).id = t /\ RequestMsg(t).type = "request"
  <2>1. AcceptMsg(t, FALSE) # AcceptMsg(t, TRUE) /\ EndMsg(t, TRUE) # EndMsg(t, FALSE)
    BY DEF AcceptMsg, EndMsg
  <2>q. QED
    BY <2>1, Sayings, EndSaid
<1>t. /\ verdict'[Sender[t]][t] = verdict[Sender[t]][t]
      /\ verdict'[Receiver(t)][t] \in {"failed", verdict[Receiver(t)][t]}
  BY <1>1, Told
<1>5. /\ t \in begun' <=> t \in begun
      /\ t \in sending' <=> t \in sending
      /\ t \in accepted' <=> t \in accepted
      /\ t \in receiving' <=> t \in receiving
      /\ t \in pending' <=> FALSE
      /\ t \in wanted' <=> FALSE
      /\ t \in opening' <=> t \in opening
      /\ sent'[t] = sent[t]
      /\ acked'[t] = acked[t]
      /\ got'[t] = got[t]
      /\ file'[t] = file[t]
      /\ verdict'[Sender[t]][t] = verdict[Sender[t]][t]
      /\ verdict'[Receiver(t)][t] = verdict'[Receiver(t)][t]
  BY <1>1, <1>t DEF outVars
<1>6. pp = Tail(p) /\ qq = q \o <<AcceptMsg(t, FALSE)>>
  BY <1>1, <1>4, <1>t, RepliedOne
<1>7. /\ OneLessFor(p, pp, t, Head(p))
      /\ Head(p) \in Messages /\ Head(p).type = "offer"
      /\ OneMoreFor(q, qq, t, AcceptMsg(t, FALSE))
  BY <1>1, <1>4, <1>6, <1>t, OneLess, OneMore
<1>8. /\ Handshake(p, t) <=> Has(p, t, "request") \/ Has(p, t, "offer") \/ Has(p, t, "accept")
      /\ Says(p, AcceptMsg(t, FALSE)) => Has(p, t, "accept")
      /\ Says(p, EndMsg(t, TRUE)) => Has(p, t, "end")
      /\ Says(p, EndMsg(t, FALSE)) => Has(p, t, "end")
      /\ Handshake(q, t) <=> Has(q, t, "request") \/ Has(q, t, "offer") \/ Has(q, t, "accept")
      /\ Says(q, AcceptMsg(t, FALSE)) => Has(q, t, "accept")
      /\ Says(q, EndMsg(t, TRUE)) => Has(q, t, "end")
      /\ Says(q, EndMsg(t, FALSE)) => Has(q, t, "end")
      /\ Handshake(pp, t) <=> Has(pp, t, "request") \/ Has(pp, t, "offer") \/ Has(pp, t, "accept")
      /\ Says(pp, AcceptMsg(t, FALSE)) => Has(pp, t, "accept")
      /\ Says(pp, EndMsg(t, TRUE)) => Has(pp, t, "end")
      /\ Says(pp, EndMsg(t, FALSE)) => Has(pp, t, "end")
      /\ Handshake(qq, t) <=> Has(qq, t, "request") \/ Has(qq, t, "offer") \/ Has(qq, t, "accept")
      /\ Says(qq, AcceptMsg(t, FALSE)) => Has(qq, t, "accept")
      /\ Says(qq, EndMsg(t, TRUE)) => Has(qq, t, "end")
      /\ Says(qq, EndMsg(t, FALSE)) => Has(qq, t, "end")
  BY Handshakes
<1>x. /\ Has(p, t, "offer") /\ ~Has(pp, t, "offer") /\ ~Handshake(q, t) /\ t \notin opening /\ t \in begun
      /\ t \notin receiving /\ file[t] = "none"
      /\ ToldReceiver(t) = "none" \/ (t \in Asked /\ ToldReceiver(t) = "cancelled")
      /\ t \notin accepted /\ sent[t] = 0 /\ acked[t] = 0 /\ got[t] = 0
      /\ ~Has(q, t, "ack") /\ ~Has(p, t, "data") /\ Counts(q, t, "ack", 0, 0) /\ Counts(p, t, "data", 0, 0)
  <2>1. Has(p, t, "offer") /\ ~Handshake(pp, t)
    BY <1>2, <1>3, <1>7 DEF StepOK, OneLessFor, LessFor
  <2>2. /\ ~Has(pp, t, "offer") /\ ~Handshake(q, t) /\ t \notin opening /\ t \in begun /\ t \notin accepted
        /\ t \notin receiving /\ file[t] = "none"
        /\ ToldReceiver(t) = "none" \/ (t \in Asked /\ ToldReceiver(t) = "cancelled")
    BY <1>2, <1>3, <1>8, <2>1 DEF StepOK, FreshOK, BeforeOK, Unanswered
  <2>q. QED
    BY <1>1, <1>2, <1>3, <2>1, <2>2, NothingYet
<1> HIDE DEF p, q, pp, qq
<1>9. FreshOK(t, ToSender(t))'
  BY <1>1, <1>2, <1>3, <1>4, <1>5, <1>6, <1>7, <1>8, <1>t, <1>x DEF FreshOK, StepOK, BeforeOK, Early, Unanswered, OneLessFor, LessFor, OneMoreFor, MoreFor
<1>10. StepOK(t, ToSender(t), accepted)'
  BY <1>1, <1>2, <1>3, <1>4, <1>5, <1>6, <1>7, <1>8, <1>t, <1>x DEF StepOK, FreshOK, AnswerOK, GivenUpOK, BeforeOK, Early, Unanswered, OneLessFor, LessFor, OneMoreFor, MoreFor
<1>11. BeforeOK(t, ToSender(t), accepted)'
  BY <1>1, <1>2, <1>3, <1>4, <1>5, <1>6, <1>7, <1>8, <1>t, <1>x DEF BeforeOK, FreshOK, RecordOK, StepOK, SettledOK, Early, Unanswered, OneLessFor, LessFor, OneMoreFor, MoreFor
<1>12. RecordOK(t)'
  BY <1>1, <1>2, <1>3, <1>4, <1>5, <1>6, <1>7, <1>8, <1>t, <1>x DEF RecordOK, FreshOK, BeforeOK, SettledOK, OtherEndOK, StepOK, Early, Unanswered, OneLessFor, LessFor, OneMoreFor, MoreFor
<1>13. AnswerOK(t, ToSender(t))'
  BY <1>1, <1>2, <1>3, <1>4, <1>5, <1>6, <1>7, <1>8, <1>t, <1>x, ZenonT(60) DEF AnswerOK, FreshOK, RecordOK, BeforeOK, StepOK, SettledOK, OtherEndOK, Early, Unanswered, OneLessFor, LessFor, OneMoreFor, MoreFor
<1>14. GivenUpOK(t, ToSender(t))'
  BY <1>1, <1>2, <1>3, <1>4, <1>5, <1>6, <1>7, <1>8, <1>t, <1>x DEF GivenUpOK, FreshOK, StepOK, RecordOK, OtherEndOK, BeforeOK, SettledOK, AnswerOK, Early, Unanswered, OneLessFor, LessFor, OneMoreFor, MoreFor
<1>15. OtherEndOK(t, ToSender(t))'
  BY <1>1, <1>2, <1>3, <1>4, <1>5, <1>6, <1>7, <1>8, <1>t, <1>x DEF OtherEndOK, FreshOK, StepOK, BeforeOK, AnswerOK, GivenUpOK, RecordOK, Early, Unanswered, OneLessFor, LessFor, OneMoreFor, MoreFor
<1>16. ChunksOK(t, ToSender(t), acked)'
  BY <1>1, <1>2, <1>3, <1>4, <1>5, <1>6, <1>7, <1>8, <1>t, <1>x DEF ChunksOK, StepOK, BeforeOK, Early, Unanswered, OneLessFor, LessCounted, OneMoreFor, MoreCounted
<1>17. SettledOK(t)'
  BY <1>1, <1>2, <1>3, <1>4, <1>5, <1>6, <1>7, <1>8, <1>t, <1>x DEF SettledOK, FreshOK, BeforeOK, RecordOK, AnswerOK, GivenUpOK, StepOK, OtherEndOK, Early, Unanswered, OneLessFor, LessFor, OneMoreFor, MoreFor
<1>q. QED
  BY <1>9, <1>10, <1>11, <1>12, <1>13, <1>14, <1>15, <1>16, <1>17 DEF AllWell, TransferOK

LEMMA OfferTakenOwn ==
  ASSUME TypeOK, NEW t \in Transfers, AllWell(t),
         net[Receiver(t)] # <<>>, Head(net[Receiver(t)]).id = t, Head(net[Receiver(t)]).type = "offer",
         NEW what \in {"staged", "queued"}, what = "staged" \/ Size[t] = 0,
         t \in Asked => t \in wanted, receiving' = receiving \cup {t}, pending' = pending \ {t},
         file' = IF OnDisk(t) THEN [file EXCEPT ![t] = what] ELSE file,
         Reply(Receiver(t), <<AcceptMsg(t, TRUE)>>), UNCHANGED <<outVars, got, wanted, verdict, opening, begun>>
  PROVE  AllWell(t)'
<1> DEFINE p == net[Receiver(t)]
           q == net[Sender[t]]
           pp == net'[Receiver(t)]
           qq == net'[Sender[t]]
<1>1. /\ p \in Seq(Messages) /\ q \in Seq(Messages)
      /\ sent[t] \in Nat /\ acked[t] \in Nat /\ got[t] \in Nat /\ Size[t] \in Nat
      /\ acked[t] <= sent[t] /\ sent[t] <= Size[t] /\ got[t] <= sent[t]
      /\ Sender[t] \in Ends /\ Receiver(t) \in Ends /\ Receiver(t) # Sender[t]
      /\ Other(Sender[t]) = Receiver(t) /\ Other(Receiver(t)) = Sender[t]
      /\ \A e \in Ends : (t \in From(e) <=> e = Sender[t]) /\ (t \in To(e) <=> e = Receiver(t))
  BY Typed, TwoEnds
<1>2. /\ FreshOK(t, q) /\ StepOK(t, q, accepted) /\ BeforeOK(t, q, accepted) /\ RecordOK(t) /\ AnswerOK(t, q)
      /\ GivenUpOK(t, q) /\ OtherEndOK(t, q) /\ ChunksOK(t, q, acked) /\ SettledOK(t)
      /\ TransferOK(t, q, accepted, acked)
  BY DEF AllWell, TransferOK, ToSender
<1>3. /\ ToReceiver(t) = p /\ ToReceiver(t)' = pp /\ ToSender(t)' = qq
      /\ ToldSender(t) = verdict[Sender[t]][t] /\ ToldSender(t)' = verdict'[Sender[t]][t]
      /\ ToldReceiver(t) = verdict[Receiver(t)][t] /\ ToldReceiver(t)' = verdict'[Receiver(t)][t]
  BY DEF ToReceiver, ToSender, ToldSender, ToldReceiver
<1>4. /\ AcceptMsg(t, FALSE) \in Messages /\ AcceptMsg(t, FALSE).id = t /\ AcceptMsg(t, FALSE).type = "accept"
      /\ AcceptMsg(t, TRUE) \in Messages /\ AcceptMsg(t, TRUE).id = t /\ AcceptMsg(t, TRUE).type = "accept"
      /\ AcceptMsg(t, FALSE) # AcceptMsg(t, TRUE)
      /\ EndMsg(t, TRUE) \in Messages /\ EndMsg(t, TRUE).id = t /\ EndMsg(t, TRUE).type = "end"
      /\ EndMsg(t, FALSE) \in Messages /\ EndMsg(t, FALSE).id = t /\ EndMsg(t, FALSE).type = "end"
      /\ EndMsg(t, TRUE) # EndMsg(t, FALSE)
      /\ OfferMsg(t) \in Messages /\ OfferMsg(t).id = t /\ OfferMsg(t).type = "offer"
      /\ RequestMsg(t) \in Messages /\ RequestMsg(t).id = t /\ RequestMsg(t).type = "request"
  <2>1. AcceptMsg(t, FALSE) # AcceptMsg(t, TRUE) /\ EndMsg(t, TRUE) # EndMsg(t, FALSE)
    BY DEF AcceptMsg, EndMsg
  <2>q. QED
    BY <2>1, Sayings, EndSaid
<1>5. /\ t \in begun' <=> t \in begun
      /\ t \in sending' <=> t \in sending
      /\ t \in accepted' <=> t \in accepted
      /\ t \in receiving' <=> TRUE
      /\ t \in pending' <=> FALSE
      /\ t \in wanted' <=> t \in wanted
      /\ t \in opening' <=> t \in opening
      /\ sent'[t] = sent[t]
      /\ acked'[t] = acked[t]
      /\ got'[t] = got[t]
      /\ file'[t] = IF OnDisk(t) THEN what ELSE file[t]
      /\ verdict'[Sender[t]][t] = verdict[Sender[t]][t]
      /\ verdict'[Receiver(t)][t] = verdict[Receiver(t)][t]
  BY <1>1, SMT DEF outVars, TypeOK
<1>6. pp = Tail(p) /\ qq = q \o <<AcceptMsg(t, TRUE)>>
  BY <1>1, <1>4, RepliedOne
<1>7. /\ OneLessFor(p, pp, t, Head(p))
      /\ Head(p) \in Messages /\ Head(p).type = "offer"
      /\ OneMoreFor(q, qq, t, AcceptMsg(t, TRUE))
  BY <1>1, <1>4, <1>6, OneLess, OneMore
<1>8. /\ Handshake(p, t) <=> Has(p, t, "request") \/ Has(p, t, "offer") \/ Has(p, t, "accept")
      /\ Says(p, AcceptMsg(t, FALSE)) => Has(p, t, "accept")
      /\ Says(p, EndMsg(t, TRUE)) => Has(p, t, "end")
      /\ Says(p, EndMsg(t, FALSE)) => Has(p, t, "end")
      /\ Handshake(q, t) <=> Has(q, t, "request") \/ Has(q, t, "offer") \/ Has(q, t, "accept")
      /\ Says(q, AcceptMsg(t, FALSE)) => Has(q, t, "accept")
      /\ Says(q, EndMsg(t, TRUE)) => Has(q, t, "end")
      /\ Says(q, EndMsg(t, FALSE)) => Has(q, t, "end")
      /\ Handshake(pp, t) <=> Has(pp, t, "request") \/ Has(pp, t, "offer") \/ Has(pp, t, "accept")
      /\ Says(pp, AcceptMsg(t, FALSE)) => Has(pp, t, "accept")
      /\ Says(pp, EndMsg(t, TRUE)) => Has(pp, t, "end")
      /\ Says(pp, EndMsg(t, FALSE)) => Has(pp, t, "end")
      /\ Handshake(qq, t) <=> Has(qq, t, "request") \/ Has(qq, t, "offer") \/ Has(qq, t, "accept")
      /\ Says(qq, AcceptMsg(t, FALSE)) => Has(qq, t, "accept")
      /\ Says(qq, EndMsg(t, TRUE)) => Has(qq, t, "end")
      /\ Says(qq, EndMsg(t, FALSE)) => Has(qq, t, "end")
  BY Handshakes
<1>x. /\ Has(p, t, "offer") /\ ~Has(pp, t, "offer") /\ ~Handshake(q, t) /\ t \notin opening /\ t \in begun
      /\ t \notin receiving /\ file[t] = "none"
      /\ ToldReceiver(t) = "none" \/ (t \in Asked /\ ToldReceiver(t) = "cancelled")
      /\ t \notin accepted /\ sent[t] = 0 /\ acked[t] = 0 /\ got[t] = 0
      /\ ~Has(q, t, "ack") /\ ~Has(p, t, "data") /\ Counts(q, t, "ack", 0, 0) /\ Counts(p, t, "data", 0, 0)
  <2>1. Has(p, t, "offer") /\ ~Handshake(pp, t)
    BY <1>2, <1>3, <1>7 DEF StepOK, OneLessFor, LessFor
  <2>2. /\ ~Has(pp, t, "offer") /\ ~Handshake(q, t) /\ t \notin opening /\ t \in begun /\ t \notin accepted
        /\ t \notin receiving /\ file[t] = "none"
        /\ ToldReceiver(t) = "none" \/ (t \in Asked /\ ToldReceiver(t) = "cancelled")
    BY <1>2, <1>3, <1>8, <2>1 DEF StepOK, FreshOK, BeforeOK, Unanswered
  <2>q. QED
    BY <1>1, <1>2, <1>3, <2>1, <2>2, NothingYet
<1> HIDE DEF p, q, pp, qq
<1>9. FreshOK(t, ToSender(t))'
  BY <1>1, <1>2, <1>3, <1>4, <1>5, <1>6, <1>7, <1>8, <1>x DEF FreshOK, StepOK, BeforeOK, Early, Unanswered, OneLessFor, LessFor, OneMoreFor, MoreFor
<1>10. StepOK(t, ToSender(t), accepted)'
  BY <1>1, <1>2, <1>3, <1>4, <1>5, <1>6, <1>7, <1>8, <1>x DEF StepOK, FreshOK, AnswerOK, GivenUpOK, BeforeOK, Early, Unanswered, OneLessFor, LessFor, OneMoreFor, MoreFor
<1>11. BeforeOK(t, ToSender(t), accepted)'
  BY <1>1, <1>2, <1>3, <1>4, <1>5, <1>6, <1>7, <1>8, <1>x DEF BeforeOK, FreshOK, RecordOK, StepOK, SettledOK, Early, Unanswered, OneLessFor, LessFor, OneMoreFor, MoreFor
<1>12. RecordOK(t)'
  BY <1>1, <1>2, <1>3, <1>4, <1>5, <1>6, <1>7, <1>8, <1>x DEF RecordOK, FreshOK, BeforeOK, SettledOK, OtherEndOK, StepOK, Early, Unanswered, OneLessFor, LessFor, OneMoreFor, MoreFor
<1>13. AnswerOK(t, ToSender(t))'
  BY <1>1, <1>2, <1>3, <1>4, <1>5, <1>6, <1>7, <1>8, <1>x DEF AnswerOK, FreshOK, RecordOK, BeforeOK, StepOK, SettledOK, OtherEndOK, Early, Unanswered, OneLessFor, LessFor, OneMoreFor, MoreFor
<1>14. GivenUpOK(t, ToSender(t))'
  BY <1>1, <1>2, <1>3, <1>4, <1>5, <1>6, <1>7, <1>8, <1>x DEF GivenUpOK, FreshOK, StepOK, RecordOK, OtherEndOK, BeforeOK, SettledOK, AnswerOK, Early, Unanswered, OneLessFor, LessFor, OneMoreFor, MoreFor
<1>15. OtherEndOK(t, ToSender(t))'
  BY <1>1, <1>2, <1>3, <1>4, <1>5, <1>6, <1>7, <1>8, <1>x DEF OtherEndOK, FreshOK, StepOK, BeforeOK, AnswerOK, GivenUpOK, RecordOK, Early, Unanswered, OneLessFor, LessFor, OneMoreFor, MoreFor
<1>16. ChunksOK(t, ToSender(t), acked)'
  BY <1>1, <1>2, <1>3, <1>4, <1>5, <1>6, <1>7, <1>8, <1>x, ZenonT(60) DEF ChunksOK, StepOK, BeforeOK, Early, Unanswered, OneLessFor, LessCounted, OneMoreFor, MoreCounted
<1>17. SettledOK(t)'
  BY <1>1, <1>2, <1>3, <1>4, <1>5, <1>6, <1>7, <1>8, <1>x DEF SettledOK, FreshOK, BeforeOK, RecordOK, AnswerOK, GivenUpOK, StepOK, OtherEndOK, Early, Unanswered, OneLessFor, LessFor, OneMoreFor, MoreFor
<1>q. QED
  BY <1>9, <1>10, <1>11, <1>12, <1>13, <1>14, <1>15, <1>16, <1>17 DEF AllWell, TransferOK

LEMMA OfferEmptyOwn ==
  ASSUME TypeOK, NEW t \in Transfers, AllWell(t),
         net[Receiver(t)] # <<>>, Head(net[Receiver(t)]).id = t, Head(net[Receiver(t)]).type = "offer",
         NEW how \in {"completed", "failed"}, NEW m, (how = "completed" /\ m = EndMsg(t, TRUE)) \/ (how = "failed" /\ m = EndMsg(t, FALSE)),
         Size[t] = 0, t \in Asked => t \in wanted, pending' = pending \ {t}, wanted' = wanted \ {t},
         file' = IF OnDisk(t) THEN [file EXCEPT ![t] = FileAfter(how)] ELSE file,
         Tell(Receiver(t), {t}, how), Reply(Receiver(t), <<AcceptMsg(t, TRUE), m>>),
         UNCHANGED <<outVars, receiving, got, opening, begun>>
  PROVE  AllWell(t)'
<1> DEFINE p == net[Receiver(t)]
           q == net[Sender[t]]
           pp == net'[Receiver(t)]
           qq == net'[Sender[t]]
<1>1. /\ p \in Seq(Messages) /\ q \in Seq(Messages)
      /\ sent[t] \in Nat /\ acked[t] \in Nat /\ got[t] \in Nat /\ Size[t] \in Nat
      /\ acked[t] <= sent[t] /\ sent[t] <= Size[t] /\ got[t] <= sent[t]
      /\ Sender[t] \in Ends /\ Receiver(t) \in Ends /\ Receiver(t) # Sender[t]
      /\ Other(Sender[t]) = Receiver(t) /\ Other(Receiver(t)) = Sender[t]
      /\ \A e \in Ends : (t \in From(e) <=> e = Sender[t]) /\ (t \in To(e) <=> e = Receiver(t))
  BY Typed, TwoEnds
<1>2. /\ FreshOK(t, q) /\ StepOK(t, q, accepted) /\ BeforeOK(t, q, accepted) /\ RecordOK(t) /\ AnswerOK(t, q)
      /\ GivenUpOK(t, q) /\ OtherEndOK(t, q) /\ ChunksOK(t, q, acked) /\ SettledOK(t)
      /\ TransferOK(t, q, accepted, acked)
  BY DEF AllWell, TransferOK, ToSender
<1>3. /\ ToReceiver(t) = p /\ ToReceiver(t)' = pp /\ ToSender(t)' = qq
      /\ ToldSender(t) = verdict[Sender[t]][t] /\ ToldSender(t)' = verdict'[Sender[t]][t]
      /\ ToldReceiver(t) = verdict[Receiver(t)][t] /\ ToldReceiver(t)' = verdict'[Receiver(t)][t]
  BY DEF ToReceiver, ToSender, ToldSender, ToldReceiver
<1>4. /\ AcceptMsg(t, FALSE) \in Messages /\ AcceptMsg(t, FALSE).id = t /\ AcceptMsg(t, FALSE).type = "accept"
      /\ AcceptMsg(t, TRUE) \in Messages /\ AcceptMsg(t, TRUE).id = t /\ AcceptMsg(t, TRUE).type = "accept"
      /\ AcceptMsg(t, FALSE) # AcceptMsg(t, TRUE)
      /\ EndMsg(t, TRUE) \in Messages /\ EndMsg(t, TRUE).id = t /\ EndMsg(t, TRUE).type = "end"
      /\ EndMsg(t, FALSE) \in Messages /\ EndMsg(t, FALSE).id = t /\ EndMsg(t, FALSE).type = "end"
      /\ EndMsg(t, TRUE) # EndMsg(t, FALSE)
      /\ OfferMsg(t) \in Messages /\ OfferMsg(t).id = t /\ OfferMsg(t).type = "offer"
      /\ RequestMsg(t) \in Messages /\ RequestMsg(t).id = t /\ RequestMsg(t).type = "request"
  <2>1. AcceptMsg(t, FALSE) # AcceptMsg(t, TRUE) /\ EndMsg(t, TRUE) # EndMsg(t, FALSE)
    BY DEF AcceptMsg, EndMsg
  <2>q. QED
    BY <2>1, Sayings, EndSaid
<1>t. /\ verdict'[Sender[t]][t] = verdict[Sender[t]][t] /\ verdict'[Receiver(t)][t] = how
      /\ m \in Messages /\ m.id = t /\ m.type = "end" /\ m # AcceptMsg(t, FALSE)
      /\ m = EndMsg(t, TRUE) <=> how = "completed"
      /\ m = EndMsg(t, FALSE) <=> how = "failed"
  <2>1. verdict'[Sender[t]][t] = verdict[Sender[t]][t] /\ verdict'[Receiver(t)][t] = how
    BY <1>1, Told
  <2>2. CASE how = "completed" /\ m = EndMsg(t, TRUE)
    BY <1>4, <2>1, <2>2
  <2>3. CASE how = "failed" /\ m = EndMsg(t, FALSE)
    BY <1>4, <2>1, <2>3
  <2>q. QED
    BY <2>2, <2>3
<1>5. /\ t \in begun' <=> t \in begun
      /\ t \in sending' <=> t \in sending
      /\ t \in accepted' <=> t \in accepted
      /\ t \in receiving' <=> t \in receiving
      /\ t \in pending' <=> FALSE
      /\ t \in wanted' <=> FALSE
      /\ t \in opening' <=> t \in opening
      /\ sent'[t] = sent[t]
      /\ acked'[t] = acked[t]
      /\ got'[t] = got[t]
      /\ file'[t] = IF OnDisk(t) THEN IF how = "completed" THEN "published" ELSE "none" ELSE file[t]
      /\ verdict'[Sender[t]][t] = verdict[Sender[t]][t]
      /\ verdict'[Receiver(t)][t] = how
  BY <1>1, <1>t DEF outVars, TypeOK, FileAfter
<1>6. pp = Tail(p) /\ qq = (q \o <<AcceptMsg(t, TRUE)>>) \o <<m>>
  <2>1. AcceptMsg(t, TRUE) \in Messages /\ m \in Messages /\ Receiver(t) \in Ends
    BY <1>1, <1>4, <1>t
  <2>2. /\ net'[Other(Receiver(t))] = (net[Other(Receiver(t))] \o <<AcceptMsg(t, TRUE)>>) \o <<m>>
        /\ net'[Receiver(t)] = Tail(net[Receiver(t)])
    BY <2>1, RepliedTwo
  <2>q. QED
    BY <1>1, <2>2
<1>m. q \o <<AcceptMsg(t, TRUE)>> \in Seq(Messages)
  <2>1. <<AcceptMsg(t, TRUE)>> \in Seq(Messages)
    <3>1. \A c \in Messages : <<c>> \in Seq(Messages)
      OBVIOUS
    <3>q. QED
      BY <1>4, <1>t, <3>1
  <2>q. QED
    BY <1>1, <2>1, ConcatProperties
<1> DEFINE z == q \o <<AcceptMsg(t, TRUE)>>
<1>7. /\ OneLessFor(p, pp, t, Head(p))
      /\ Head(p) \in Messages /\ Head(p).type = "offer"
      /\ OneMoreFor(q, z, t, AcceptMsg(t, TRUE)) /\ OneMoreFor(z, qq, t, m)
  BY <1>1, <1>4, <1>6, <1>t, OneLess, <1>m, OneMore, ZenonT(60)
<1>8. /\ Handshake(p, t) <=> Has(p, t, "request") \/ Has(p, t, "offer") \/ Has(p, t, "accept")
      /\ Says(p, AcceptMsg(t, FALSE)) => Has(p, t, "accept")
      /\ Says(p, EndMsg(t, TRUE)) => Has(p, t, "end")
      /\ Says(p, EndMsg(t, FALSE)) => Has(p, t, "end")
      /\ Handshake(q, t) <=> Has(q, t, "request") \/ Has(q, t, "offer") \/ Has(q, t, "accept")
      /\ Says(q, AcceptMsg(t, FALSE)) => Has(q, t, "accept")
      /\ Says(q, EndMsg(t, TRUE)) => Has(q, t, "end")
      /\ Says(q, EndMsg(t, FALSE)) => Has(q, t, "end")
      /\ Handshake(pp, t) <=> Has(pp, t, "request") \/ Has(pp, t, "offer") \/ Has(pp, t, "accept")
      /\ Says(pp, AcceptMsg(t, FALSE)) => Has(pp, t, "accept")
      /\ Says(pp, EndMsg(t, TRUE)) => Has(pp, t, "end")
      /\ Says(pp, EndMsg(t, FALSE)) => Has(pp, t, "end")
      /\ Handshake(qq, t) <=> Has(qq, t, "request") \/ Has(qq, t, "offer") \/ Has(qq, t, "accept")
      /\ Says(qq, AcceptMsg(t, FALSE)) => Has(qq, t, "accept")
      /\ Says(qq, EndMsg(t, TRUE)) => Has(qq, t, "end")
      /\ Says(qq, EndMsg(t, FALSE)) => Has(qq, t, "end")
      /\ Handshake(z, t) <=> Has(z, t, "request") \/ Has(z, t, "offer") \/ Has(z, t, "accept")
      /\ Says(z, AcceptMsg(t, FALSE)) => Has(z, t, "accept")
      /\ Says(z, EndMsg(t, TRUE)) => Has(z, t, "end")
      /\ Says(z, EndMsg(t, FALSE)) => Has(z, t, "end")
  BY Handshakes
<1>x. /\ Has(p, t, "offer") /\ ~Has(pp, t, "offer") /\ ~Handshake(q, t) /\ t \notin opening /\ t \in begun
      /\ t \notin receiving /\ file[t] = "none"
      /\ ToldReceiver(t) = "none" \/ (t \in Asked /\ ToldReceiver(t) = "cancelled")
      /\ t \notin accepted /\ sent[t] = 0 /\ acked[t] = 0 /\ got[t] = 0
      /\ ~Has(q, t, "ack") /\ ~Has(p, t, "data") /\ Counts(q, t, "ack", 0, 0) /\ Counts(p, t, "data", 0, 0)
  <2>1. Has(p, t, "offer") /\ ~Handshake(pp, t)
    BY <1>2, <1>3, <1>7 DEF StepOK, OneLessFor, LessFor
  <2>2. /\ ~Has(pp, t, "offer") /\ ~Handshake(q, t) /\ t \notin opening /\ t \in begun /\ t \notin accepted
        /\ t \notin receiving /\ file[t] = "none"
        /\ ToldReceiver(t) = "none" \/ (t \in Asked /\ ToldReceiver(t) = "cancelled")
    BY <1>2, <1>3, <1>8, <2>1 DEF StepOK, FreshOK, BeforeOK, Unanswered
  <2>q. QED
    BY <1>1, <1>2, <1>3, <2>1, <2>2, NothingYet
<1>e. ~Has(q, t, "end")
  BY <1>2, <1>3, <1>x DEF AnswerOK
<1> HIDE DEF p, q, pp, qq, z
<1>9. FreshOK(t, ToSender(t))'
  BY <1>1, <1>2, <1>3, <1>4, <1>5, <1>6, <1>7, <1>8, <1>t, <1>x DEF FreshOK, StepOK, BeforeOK, Early, Unanswered, OneLessFor, LessFor, OneMoreFor, MoreFor
<1>10. StepOK(t, ToSender(t), accepted)'
  BY <1>1, <1>2, <1>3, <1>4, <1>5, <1>6, <1>7, <1>8, <1>t, <1>x, ZenonT(60) DEF StepOK, FreshOK, AnswerOK, GivenUpOK, BeforeOK, Early, Unanswered, OneLessFor, LessFor, OneMoreFor, MoreFor
<1>11. BeforeOK(t, ToSender(t), accepted)'
  BY <1>1, <1>2, <1>3, <1>4, <1>5, <1>6, <1>7, <1>8, <1>t, <1>x, <1>e, ZenonT(60) DEF BeforeOK, FreshOK, RecordOK, StepOK, SettledOK, Early, Unanswered, OneLessFor, LessFor, OneMoreFor, MoreFor
<1>12. RecordOK(t)'
  BY <1>1, <1>2, <1>3, <1>4, <1>5, <1>6, <1>7, <1>8, <1>t, <1>x DEF RecordOK, FreshOK, BeforeOK, SettledOK, OtherEndOK, StepOK, Early, Unanswered, OneLessFor, LessFor, OneMoreFor, MoreFor
<1>13. AnswerOK(t, ToSender(t))'
  <2>1. ~Says(q, AcceptMsg(t, FALSE)) /\ ~Says(q, EndMsg(t, TRUE)) /\ ~Says(q, EndMsg(t, FALSE))
    BY <1>8, <1>x, <1>e
  <2>2. /\ ~Says(z, AcceptMsg(t, FALSE)) /\ ~Says(z, EndMsg(t, TRUE)) /\ ~Says(z, EndMsg(t, FALSE))
        /\ ~Has(z, t, "end") /\ Precedes(z, t, "ack", "end")
    BY <1>2, <1>4, <1>7, <1>x, <1>e, <2>1 DEF AnswerOK, OneMoreFor, MoreFor
  <2>3. /\ ~Says(qq, AcceptMsg(t, FALSE)) /\ Precedes(qq, t, "ack", "end")
        /\ Says(qq, EndMsg(t, TRUE)) <=> how = "completed"
        /\ Says(qq, EndMsg(t, FALSE)) <=> how = "failed"
    BY <1>4, <1>7, <1>t, <2>2 DEF OneMoreFor, MoreFor
  <2>q. QED
    BY <1>3, <1>5, <1>x, <2>3 DEF AnswerOK
<1>14. GivenUpOK(t, ToSender(t))'
  BY <1>1, <1>2, <1>3, <1>4, <1>5, <1>6, <1>7, <1>8, <1>t, <1>x, ZenonT(60) DEF GivenUpOK, FreshOK, StepOK, RecordOK, OtherEndOK, BeforeOK, SettledOK, AnswerOK, Early, Unanswered, OneLessFor, LessFor, OneMoreFor, MoreFor
<1>15. OtherEndOK(t, ToSender(t))'
  BY <1>1, <1>2, <1>3, <1>4, <1>5, <1>6, <1>7, <1>8, <1>t, <1>x, ZenonT(60) DEF OtherEndOK, FreshOK, StepOK, BeforeOK, AnswerOK, GivenUpOK, RecordOK, Early, Unanswered, OneLessFor, LessFor, OneMoreFor, MoreFor
<1>16. ChunksOK(t, ToSender(t), acked)'
  <2>1. Counts(z, t, "ack", 0, 0) /\ Below(z, t, "ack", got[t])
    BY <1>2, <1>4, <1>7, <1>x DEF ChunksOK, OneMoreFor, MoreCounted
  <2>2. Counts(qq, t, "ack", 0, 0) /\ Below(qq, t, "ack", got[t])
    <3>1. MoreCounted(z, qq, t, m) /\ m.type # "ack" /\ m.type # "data" /\ 0 \in Nat /\ 0 <= 0
      BY <1>7, <1>t DEF OneMoreFor
    <3>2. Counts(qq, t, "ack", 0, 0)
      BY <2>1, <3>1 DEF MoreCounted
    <3>3. Below(qq, t, "ack", got[t])
      BY <2>1, <3>1 DEF MoreCounted
    <3>q. QED
      BY <3>2, <3>3
  <2>3. Counts(pp, t, "data", 0, 0) /\ Below(pp, t, "data", sent[t])
    BY <1>2, <1>3, <1>7, <1>x DEF ChunksOK, OneLessFor, LessCounted
  <2>q. QED
    BY <1>2, <1>3, <1>5, <1>x, <2>2, <2>3 DEF ChunksOK
<1>17. SettledOK(t)'
  BY <1>1, <1>2, <1>3, <1>4, <1>5, <1>6, <1>7, <1>8, <1>t, <1>x DEF SettledOK, FreshOK, BeforeOK, RecordOK, AnswerOK, GivenUpOK, StepOK, OtherEndOK, Early, Unanswered, OneLessFor, LessFor, OneMoreFor, MoreFor
<1>q. QED
  BY <1>9, <1>10, <1>11, <1>12, <1>13, <1>14, <1>15, <1>16, <1>17 DEF AllWell, TransferOK

LEMMA BelowMore ==
  ASSUME NEW x \in Seq(Messages), NEW t, NEW ty, Numbered(ty), NEW n \in Nat, Below(x, t, ty, n)
  PROVE  Below(x, t, ty, n + 1)
<1> SUFFICES ASSUME NEW i \in DOMAIN x, At(x, i, t, ty) PROVE x[i].seq < n + 1
  BY DEF Below
<1>1. x[i].seq \in Nat /\ x[i].seq < n
  BY NumberedAt DEF Below
<1>q. QED
  BY <1>1

LEMMA DataDroppedOwn ==
  ASSUME TypeOK, NEW t \in Transfers, AllWell(t),
         net[Receiver(t)] # <<>>, Head(net[Receiver(t)]).id = t, Head(net[Receiver(t)]).type = "data",
         t \notin receiving, Reply(Receiver(t), <<>>),
         UNCHANGED <<outVars, inVars, opening, file, verdict, begun>>
  PROVE  AllWell(t)'
<1> DEFINE p == net[Receiver(t)]
           q == net[Sender[t]]
           pp == net'[Receiver(t)]
           qq == net'[Sender[t]]
<1>1. /\ p \in Seq(Messages) /\ q \in Seq(Messages)
      /\ sent[t] \in Nat /\ acked[t] \in Nat /\ got[t] \in Nat /\ Size[t] \in Nat
      /\ acked[t] <= sent[t] /\ sent[t] <= Size[t] /\ got[t] <= sent[t]
      /\ Sender[t] \in Ends /\ Receiver(t) \in Ends /\ Receiver(t) # Sender[t]
      /\ Other(Sender[t]) = Receiver(t) /\ Other(Receiver(t)) = Sender[t]
      /\ \A e \in Ends : (t \in From(e) <=> e = Sender[t]) /\ (t \in To(e) <=> e = Receiver(t))
  BY Typed, TwoEnds
<1>2. /\ FreshOK(t, q) /\ StepOK(t, q, accepted) /\ BeforeOK(t, q, accepted) /\ RecordOK(t) /\ AnswerOK(t, q)
      /\ GivenUpOK(t, q) /\ OtherEndOK(t, q) /\ ChunksOK(t, q, acked) /\ SettledOK(t)
      /\ TransferOK(t, q, accepted, acked)
  BY DEF AllWell, TransferOK, ToSender
<1>3. /\ ToReceiver(t) = p /\ ToReceiver(t)' = pp /\ ToSender(t)' = qq
      /\ ToldSender(t) = verdict[Sender[t]][t] /\ ToldSender(t)' = verdict'[Sender[t]][t]
      /\ ToldReceiver(t) = verdict[Receiver(t)][t] /\ ToldReceiver(t)' = verdict'[Receiver(t)][t]
  BY DEF ToReceiver, ToSender, ToldSender, ToldReceiver
<1>4. /\ AcceptMsg(t, FALSE) \in Messages /\ AcceptMsg(t, FALSE).id = t /\ AcceptMsg(t, FALSE).type = "accept"
      /\ AcceptMsg(t, TRUE) \in Messages /\ AcceptMsg(t, TRUE).id = t /\ AcceptMsg(t, TRUE).type = "accept"
      /\ AcceptMsg(t, FALSE) # AcceptMsg(t, TRUE)
      /\ EndMsg(t, TRUE) \in Messages /\ EndMsg(t, TRUE).id = t /\ EndMsg(t, TRUE).type = "end"
      /\ EndMsg(t, FALSE) \in Messages /\ EndMsg(t, FALSE).id = t /\ EndMsg(t, FALSE).type = "end"
      /\ EndMsg(t, TRUE) # EndMsg(t, FALSE)
      /\ OfferMsg(t) \in Messages /\ OfferMsg(t).id = t /\ OfferMsg(t).type = "offer"
      /\ RequestMsg(t) \in Messages /\ RequestMsg(t).id = t /\ RequestMsg(t).type = "request"
  <2>1. AcceptMsg(t, FALSE) # AcceptMsg(t, TRUE) /\ EndMsg(t, TRUE) # EndMsg(t, FALSE)
    BY DEF AcceptMsg, EndMsg
  <2>q. QED
    BY <2>1, Sayings, EndSaid
<1>5. /\ t \in begun' <=> t \in begun
      /\ t \in sending' <=> t \in sending
      /\ t \in accepted' <=> t \in accepted
      /\ t \in receiving' <=> t \in receiving
      /\ t \in pending' <=> t \in pending
      /\ t \in wanted' <=> t \in wanted
      /\ t \in opening' <=> t \in opening
      /\ sent'[t] = sent[t]
      /\ acked'[t] = acked[t]
      /\ got'[t] = got[t]
      /\ file'[t] = file[t]
      /\ verdict'[Sender[t]][t] = verdict[Sender[t]][t]
      /\ verdict'[Receiver(t)][t] = verdict[Receiver(t)][t]
  BY <1>1, SMT DEF outVars, inVars
<1>6. pp = Tail(p) /\ qq = q
  BY <1>1, <1>4, RepliedNone
<1>7. /\ OneLessFor(p, pp, t, Head(p))
      /\ Head(p) \in Messages /\ Head(p).type = "data"
  BY <1>1, <1>4, <1>6, OneLess
<1>8. /\ Handshake(p, t) <=> Has(p, t, "request") \/ Has(p, t, "offer") \/ Has(p, t, "accept")
      /\ Says(p, AcceptMsg(t, FALSE)) => Has(p, t, "accept")
      /\ Says(p, EndMsg(t, TRUE)) => Has(p, t, "end")
      /\ Says(p, EndMsg(t, FALSE)) => Has(p, t, "end")
      /\ Handshake(q, t) <=> Has(q, t, "request") \/ Has(q, t, "offer") \/ Has(q, t, "accept")
      /\ Says(q, AcceptMsg(t, FALSE)) => Has(q, t, "accept")
      /\ Says(q, EndMsg(t, TRUE)) => Has(q, t, "end")
      /\ Says(q, EndMsg(t, FALSE)) => Has(q, t, "end")
      /\ Handshake(pp, t) <=> Has(pp, t, "request") \/ Has(pp, t, "offer") \/ Has(pp, t, "accept")
      /\ Says(pp, AcceptMsg(t, FALSE)) => Has(pp, t, "accept")
      /\ Says(pp, EndMsg(t, TRUE)) => Has(pp, t, "end")
      /\ Says(pp, EndMsg(t, FALSE)) => Has(pp, t, "end")
      /\ Handshake(qq, t) <=> Has(qq, t, "request") \/ Has(qq, t, "offer") \/ Has(qq, t, "accept")
      /\ Says(qq, AcceptMsg(t, FALSE)) => Has(qq, t, "accept")
      /\ Says(qq, EndMsg(t, TRUE)) => Has(qq, t, "end")
      /\ Says(qq, EndMsg(t, FALSE)) => Has(qq, t, "end")
  BY Handshakes
<1> HIDE DEF p, q, pp, qq
<1>9. FreshOK(t, ToSender(t))'
  BY <1>1, <1>2, <1>3, <1>4, <1>5, <1>6, <1>7, <1>8 DEF FreshOK, StepOK, BeforeOK, Early, Unanswered, OneLessFor, LessFor
<1>10. StepOK(t, ToSender(t), accepted)'
  BY <1>1, <1>2, <1>3, <1>4, <1>5, <1>6, <1>7, <1>8 DEF StepOK, FreshOK, AnswerOK, GivenUpOK, BeforeOK, Early, Unanswered, OneLessFor, LessFor
<1>11. BeforeOK(t, ToSender(t), accepted)'
  BY <1>1, <1>2, <1>3, <1>4, <1>5, <1>6, <1>7, <1>8 DEF BeforeOK, FreshOK, RecordOK, StepOK, SettledOK, Early, Unanswered, OneLessFor, LessFor
<1>12. RecordOK(t)'
  BY <1>1, <1>2, <1>3, <1>4, <1>5, <1>6, <1>7, <1>8 DEF RecordOK, FreshOK, BeforeOK, SettledOK, OtherEndOK, StepOK, Early, Unanswered, OneLessFor, LessFor
<1>13. AnswerOK(t, ToSender(t))'
  BY <1>1, <1>2, <1>3, <1>4, <1>5, <1>6, <1>7, <1>8, ZenonT(60) DEF AnswerOK, FreshOK, RecordOK, BeforeOK, StepOK, SettledOK, OtherEndOK, Early, Unanswered, OneLessFor, LessFor
<1>14. GivenUpOK(t, ToSender(t))'
  BY <1>1, <1>2, <1>3, <1>4, <1>5, <1>6, <1>7, <1>8 DEF GivenUpOK, FreshOK, StepOK, RecordOK, OtherEndOK, BeforeOK, SettledOK, AnswerOK, Early, Unanswered, OneLessFor, LessFor
<1>15. OtherEndOK(t, ToSender(t))'
  BY <1>1, <1>2, <1>3, <1>4, <1>5, <1>6, <1>7, <1>8 DEF OtherEndOK, FreshOK, StepOK, BeforeOK, AnswerOK, GivenUpOK, RecordOK, Early, Unanswered, OneLessFor, LessFor
<1>16. ChunksOK(t, ToSender(t), acked)'
  BY <1>1, <1>2, <1>3, <1>4, <1>5, <1>6, <1>7, <1>8 DEF ChunksOK, StepOK, BeforeOK, Early, Unanswered, OneLessFor, LessCounted
<1>17. SettledOK(t)'
  BY <1>1, <1>2, <1>3, <1>4, <1>5, <1>6, <1>7, <1>8 DEF SettledOK, FreshOK, BeforeOK, RecordOK, AnswerOK, GivenUpOK, StepOK, OtherEndOK, Early, Unanswered, OneLessFor, LessFor
<1>q. QED
  BY <1>9, <1>10, <1>11, <1>12, <1>13, <1>14, <1>15, <1>16, <1>17 DEF AllWell, TransferOK

LEMMA DataRefusedOwn ==
  ASSUME TypeOK, NEW t \in Transfers, AllWell(t),
         net[Receiver(t)] # <<>>, Head(net[Receiver(t)]).id = t, Head(net[Receiver(t)]).type = "data",
         t \in receiving, receiving' = receiving \ {t}, wanted' = wanted \ {t}, file' = Dropped(t),
         Reply(Receiver(t), <<EndMsg(t, FALSE)>>), Tell(Receiver(t), {t}, "failed"),
         UNCHANGED <<outVars, got, pending, opening, begun>>
  PROVE  AllWell(t)'
<1> DEFINE p == net[Receiver(t)]
           q == net[Sender[t]]
           pp == net'[Receiver(t)]
           qq == net'[Sender[t]]
<1>1. /\ p \in Seq(Messages) /\ q \in Seq(Messages)
      /\ sent[t] \in Nat /\ acked[t] \in Nat /\ got[t] \in Nat /\ Size[t] \in Nat
      /\ acked[t] <= sent[t] /\ sent[t] <= Size[t] /\ got[t] <= sent[t]
      /\ Sender[t] \in Ends /\ Receiver(t) \in Ends /\ Receiver(t) # Sender[t]
      /\ Other(Sender[t]) = Receiver(t) /\ Other(Receiver(t)) = Sender[t]
      /\ \A e \in Ends : (t \in From(e) <=> e = Sender[t]) /\ (t \in To(e) <=> e = Receiver(t))
  BY Typed, TwoEnds
<1>2. /\ FreshOK(t, q) /\ StepOK(t, q, accepted) /\ BeforeOK(t, q, accepted) /\ RecordOK(t) /\ AnswerOK(t, q)
      /\ GivenUpOK(t, q) /\ OtherEndOK(t, q) /\ ChunksOK(t, q, acked) /\ SettledOK(t)
      /\ TransferOK(t, q, accepted, acked)
  BY DEF AllWell, TransferOK, ToSender
<1>3. /\ ToReceiver(t) = p /\ ToReceiver(t)' = pp /\ ToSender(t)' = qq
      /\ ToldSender(t) = verdict[Sender[t]][t] /\ ToldSender(t)' = verdict'[Sender[t]][t]
      /\ ToldReceiver(t) = verdict[Receiver(t)][t] /\ ToldReceiver(t)' = verdict'[Receiver(t)][t]
  BY DEF ToReceiver, ToSender, ToldSender, ToldReceiver
<1>4. /\ AcceptMsg(t, FALSE) \in Messages /\ AcceptMsg(t, FALSE).id = t /\ AcceptMsg(t, FALSE).type = "accept"
      /\ AcceptMsg(t, TRUE) \in Messages /\ AcceptMsg(t, TRUE).id = t /\ AcceptMsg(t, TRUE).type = "accept"
      /\ AcceptMsg(t, FALSE) # AcceptMsg(t, TRUE)
      /\ EndMsg(t, TRUE) \in Messages /\ EndMsg(t, TRUE).id = t /\ EndMsg(t, TRUE).type = "end"
      /\ EndMsg(t, FALSE) \in Messages /\ EndMsg(t, FALSE).id = t /\ EndMsg(t, FALSE).type = "end"
      /\ EndMsg(t, TRUE) # EndMsg(t, FALSE)
      /\ OfferMsg(t) \in Messages /\ OfferMsg(t).id = t /\ OfferMsg(t).type = "offer"
      /\ RequestMsg(t) \in Messages /\ RequestMsg(t).id = t /\ RequestMsg(t).type = "request"
  <2>1. AcceptMsg(t, FALSE) # AcceptMsg(t, TRUE) /\ EndMsg(t, TRUE) # EndMsg(t, FALSE)
    BY DEF AcceptMsg, EndMsg
  <2>q. QED
    BY <2>1, Sayings, EndSaid
<1>t. verdict'[Sender[t]][t] = verdict[Sender[t]][t] /\ verdict'[Receiver(t)][t] = "failed"
  BY <1>1, Told
<1>5. /\ t \in begun' <=> t \in begun
      /\ t \in sending' <=> t \in sending
      /\ t \in accepted' <=> t \in accepted
      /\ t \in receiving' <=> FALSE
      /\ t \in pending' <=> t \in pending
      /\ t \in wanted' <=> FALSE
      /\ t \in opening' <=> t \in opening
      /\ sent'[t] = sent[t]
      /\ acked'[t] = acked[t]
      /\ got'[t] = got[t]
      /\ file'[t] = IF file[t] \in {"staged", "refused"} THEN "none" ELSE file[t]
      /\ verdict'[Sender[t]][t] = verdict[Sender[t]][t]
      /\ verdict'[Receiver(t)][t] = "failed"
  BY <1>1, <1>t DEF outVars, Dropped, TypeOK
<1>6. pp = Tail(p) /\ qq = q \o <<EndMsg(t, FALSE)>>
  BY <1>1, <1>4, RepliedOne
<1>7. /\ OneLessFor(p, pp, t, Head(p))
      /\ Head(p) \in Messages /\ Head(p).type = "data"
      /\ OneMoreFor(q, qq, t, EndMsg(t, FALSE))
  BY <1>1, <1>4, <1>6, OneLess, OneMore
<1>8. /\ Handshake(p, t) <=> Has(p, t, "request") \/ Has(p, t, "offer") \/ Has(p, t, "accept")
      /\ Says(p, AcceptMsg(t, FALSE)) => Has(p, t, "accept")
      /\ Says(p, EndMsg(t, TRUE)) => Has(p, t, "end")
      /\ Says(p, EndMsg(t, FALSE)) => Has(p, t, "end")
      /\ Handshake(q, t) <=> Has(q, t, "request") \/ Has(q, t, "offer") \/ Has(q, t, "accept")
      /\ Says(q, AcceptMsg(t, FALSE)) => Has(q, t, "accept")
      /\ Says(q, EndMsg(t, TRUE)) => Has(q, t, "end")
      /\ Says(q, EndMsg(t, FALSE)) => Has(q, t, "end")
      /\ Handshake(pp, t) <=> Has(pp, t, "request") \/ Has(pp, t, "offer") \/ Has(pp, t, "accept")
      /\ Says(pp, AcceptMsg(t, FALSE)) => Has(pp, t, "accept")
      /\ Says(pp, EndMsg(t, TRUE)) => Has(pp, t, "end")
      /\ Says(pp, EndMsg(t, FALSE)) => Has(pp, t, "end")
      /\ Handshake(qq, t) <=> Has(qq, t, "request") \/ Has(qq, t, "offer") \/ Has(qq, t, "accept")
      /\ Says(qq, AcceptMsg(t, FALSE)) => Has(qq, t, "accept")
      /\ Says(qq, EndMsg(t, TRUE)) => Has(qq, t, "end")
      /\ Says(qq, EndMsg(t, FALSE)) => Has(qq, t, "end")
  BY Handshakes
<1>x. /\ Head(p).seq = got[t] /\ got[t] < sent[t] /\ got[t] < Size[t]
      /\ Counts(pp, t, "data", got[t] + 1, sent[t]) /\ Below(pp, t, "data", sent[t])
      /\ ~Has(q, t, "end") /\ ~Has(p, t, "offer") /\ ~Says(q, AcceptMsg(t, FALSE))
      /\ ~Has(q, t, "request") /\ t \notin opening /\ t \in begun
      /\ Below(q, t, "ack", got[t] + 1) /\ file[t] \notin {"queued", "publishing", "placed", "published", "refused"}
      /\ ToldReceiver(t) = "none" /\ t \notin pending /\ ToldSender(t) # "sent"
  <2>1. Counts(p, t, "data", got[t], sent[t]) /\ Below(p, t, "data", sent[t]) /\ LessCounted(p, pp, t, Head(p))
    BY <1>2, <1>3, <1>7 DEF ChunksOK, OneLessFor
  <2>2. Head(p).seq = got[t] /\ got[t] < sent[t] /\ Counts(pp, t, "data", got[t] + 1, sent[t])
    BY <1>1, <1>7, <2>1 DEF LessCounted
  <2>3. Below(pp, t, "data", sent[t])
    BY <2>1 DEF LessCounted
  <2>4. ~Has(q, t, "end") /\ ~Has(p, t, "offer") /\ ~Says(q, AcceptMsg(t, FALSE))
    BY <1>2, <1>3 DEF AnswerOK, BeforeOK, Unanswered
  <2>5. ~Has(q, t, "request") /\ t \notin opening /\ t \in begun
    BY <1>2 DEF BeforeOK, Unanswered, Early
  <2>6. Below(q, t, "ack", got[t] + 1)
    <3>1. Numbered("ack") /\ Below(q, t, "ack", got[t])
      BY <1>2 DEF Numbered, ChunksOK
    <3>q. QED
      BY <1>1, <3>1, BelowMore
  <2>7. got[t] < Size[t]
    BY <1>1, <2>2
  <2>8. file[t] \notin {"queued", "publishing", "placed", "published", "refused"}
    BY <1>1, <1>2, <2>7 DEF SettledOK
  <2>9. ToldReceiver(t) = "none" /\ t \notin pending /\ ToldSender(t) # "sent"
    BY <1>2 DEF RecordOK, SettledOK
  <2>q. QED
    BY <2>2, <2>3, <2>4, <2>5, <2>6, <2>7, <2>8, <2>9
<1> HIDE DEF p, q, pp, qq
<1>9. FreshOK(t, ToSender(t))'
  BY <1>1, <1>2, <1>3, <1>4, <1>5, <1>6, <1>7, <1>8, <1>x DEF FreshOK, StepOK, BeforeOK, Early, Unanswered, OneLessFor, LessFor, OneMoreFor, MoreFor
<1>10. StepOK(t, ToSender(t), accepted)'
  BY <1>1, <1>2, <1>3, <1>4, <1>5, <1>6, <1>7, <1>8, <1>x DEF StepOK, FreshOK, AnswerOK, GivenUpOK, BeforeOK, Early, Unanswered, OneLessFor, LessFor, OneMoreFor, MoreFor
<1>11. BeforeOK(t, ToSender(t), accepted)'
  BY <1>1, <1>2, <1>3, <1>4, <1>5, <1>6, <1>7, <1>8, <1>x DEF BeforeOK, FreshOK, RecordOK, StepOK, SettledOK, Early, Unanswered, OneLessFor, LessFor, OneMoreFor, MoreFor
<1>12. RecordOK(t)'
  BY <1>1, <1>2, <1>3, <1>4, <1>5, <1>6, <1>7, <1>8, <1>x DEF RecordOK, FreshOK, BeforeOK, SettledOK, OtherEndOK, StepOK, Early, Unanswered, OneLessFor, LessFor, OneMoreFor, MoreFor
<1>13. AnswerOK(t, ToSender(t))'
  BY <1>1, <1>2, <1>3, <1>4, <1>5, <1>6, <1>7, <1>8, <1>x DEF AnswerOK, FreshOK, RecordOK, BeforeOK, StepOK, SettledOK, OtherEndOK, Early, Unanswered, OneLessFor, LessFor, OneMoreFor, MoreFor
<1>14. GivenUpOK(t, ToSender(t))'
  BY <1>1, <1>2, <1>3, <1>4, <1>5, <1>6, <1>7, <1>8, <1>x DEF GivenUpOK, FreshOK, StepOK, RecordOK, OtherEndOK, BeforeOK, SettledOK, AnswerOK, Early, Unanswered, OneLessFor, LessFor, OneMoreFor, MoreFor
<1>15. OtherEndOK(t, ToSender(t))'
  BY <1>1, <1>2, <1>3, <1>4, <1>5, <1>6, <1>7, <1>8, <1>x DEF OtherEndOK, FreshOK, StepOK, BeforeOK, AnswerOK, GivenUpOK, RecordOK, Early, Unanswered, OneLessFor, LessFor, OneMoreFor, MoreFor
<1>16. ChunksOK(t, ToSender(t), acked)'
  <2>1. Below(qq, t, "ack", got[t])
    BY <1>2, <1>4, <1>7 DEF ChunksOK, OneMoreFor, MoreCounted
  <2>2. t \in sending => Counts(qq, t, "ack", acked[t], got[t])
    BY <1>1, <1>2, <1>4, <1>7 DEF ChunksOK, OneMoreFor, MoreCounted
  <2>q. QED
    BY <1>2, <1>3, <1>5, <1>x, <2>1, <2>2 DEF ChunksOK
<1>17. SettledOK(t)'
  BY <1>1, <1>2, <1>3, <1>4, <1>5, <1>6, <1>7, <1>8, <1>x DEF SettledOK, FreshOK, BeforeOK, RecordOK, AnswerOK, GivenUpOK, StepOK, OtherEndOK, Early, Unanswered, OneLessFor, LessFor, OneMoreFor, MoreFor
<1>q. QED
  BY <1>9, <1>10, <1>11, <1>12, <1>13, <1>14, <1>15, <1>16, <1>17 DEF AllWell, TransferOK

LEMMA DataTakenOwn ==
  ASSUME TypeOK, NEW t \in Transfers, AllWell(t),
         net[Receiver(t)] # <<>>, Head(net[Receiver(t)]).id = t, Head(net[Receiver(t)]).type = "data",
         t \in receiving, got' = [got EXCEPT ![t] = @ + 1],
         NEW what \in {file[t], "queued"}, what = "queued" => got[t] + 1 = Size[t] /\ OnDisk(t),
         file' = [file EXCEPT ![t] = what], Reply(Receiver(t), <<AckMsg(t, got[t])>>),
         UNCHANGED <<outVars, receiving, wanted, verdict, pending, opening, begun>>
  PROVE  AllWell(t)'
<1> DEFINE p == net[Receiver(t)]
           q == net[Sender[t]]
           pp == net'[Receiver(t)]
           qq == net'[Sender[t]]
<1>1. /\ p \in Seq(Messages) /\ q \in Seq(Messages)
      /\ sent[t] \in Nat /\ acked[t] \in Nat /\ got[t] \in Nat /\ Size[t] \in Nat
      /\ acked[t] <= sent[t] /\ sent[t] <= Size[t] /\ got[t] <= sent[t]
      /\ Sender[t] \in Ends /\ Receiver(t) \in Ends /\ Receiver(t) # Sender[t]
      /\ Other(Sender[t]) = Receiver(t) /\ Other(Receiver(t)) = Sender[t]
      /\ \A e \in Ends : (t \in From(e) <=> e = Sender[t]) /\ (t \in To(e) <=> e = Receiver(t))
  BY Typed, TwoEnds
<1>2. /\ FreshOK(t, q) /\ StepOK(t, q, accepted) /\ BeforeOK(t, q, accepted) /\ RecordOK(t) /\ AnswerOK(t, q)
      /\ GivenUpOK(t, q) /\ OtherEndOK(t, q) /\ ChunksOK(t, q, acked) /\ SettledOK(t)
      /\ TransferOK(t, q, accepted, acked)
  BY DEF AllWell, TransferOK, ToSender
<1>3. /\ ToReceiver(t) = p /\ ToReceiver(t)' = pp /\ ToSender(t)' = qq
      /\ ToldSender(t) = verdict[Sender[t]][t] /\ ToldSender(t)' = verdict'[Sender[t]][t]
      /\ ToldReceiver(t) = verdict[Receiver(t)][t] /\ ToldReceiver(t)' = verdict'[Receiver(t)][t]
  BY DEF ToReceiver, ToSender, ToldSender, ToldReceiver
<1>4. /\ AcceptMsg(t, FALSE) \in Messages /\ AcceptMsg(t, FALSE).id = t /\ AcceptMsg(t, FALSE).type = "accept"
      /\ AcceptMsg(t, TRUE) \in Messages /\ AcceptMsg(t, TRUE).id = t /\ AcceptMsg(t, TRUE).type = "accept"
      /\ AcceptMsg(t, FALSE) # AcceptMsg(t, TRUE)
      /\ EndMsg(t, TRUE) \in Messages /\ EndMsg(t, TRUE).id = t /\ EndMsg(t, TRUE).type = "end"
      /\ EndMsg(t, FALSE) \in Messages /\ EndMsg(t, FALSE).id = t /\ EndMsg(t, FALSE).type = "end"
      /\ EndMsg(t, TRUE) # EndMsg(t, FALSE)
      /\ OfferMsg(t) \in Messages /\ OfferMsg(t).id = t /\ OfferMsg(t).type = "offer"
      /\ RequestMsg(t) \in Messages /\ RequestMsg(t).id = t /\ RequestMsg(t).type = "request"
  <2>1. AcceptMsg(t, FALSE) # AcceptMsg(t, TRUE) /\ EndMsg(t, TRUE) # EndMsg(t, FALSE)
    BY DEF AcceptMsg, EndMsg
  <2>q. QED
    BY <2>1, Sayings, EndSaid
<1>t. AckMsg(t, got[t]) \in Messages /\ AckMsg(t, got[t]).id = t
      /\ AckMsg(t, got[t]).type = "ack" /\ AckMsg(t, got[t]).seq = got[t]
  BY <1>1 DEF AckMsg, Messages
<1>5. /\ t \in begun' <=> t \in begun
      /\ t \in sending' <=> t \in sending
      /\ t \in accepted' <=> t \in accepted
      /\ t \in receiving' <=> t \in receiving
      /\ t \in pending' <=> t \in pending
      /\ t \in wanted' <=> t \in wanted
      /\ t \in opening' <=> t \in opening
      /\ sent'[t] = sent[t]
      /\ acked'[t] = acked[t]
      /\ got'[t] = got[t] + 1
      /\ file'[t] = what
      /\ verdict'[Sender[t]][t] = verdict[Sender[t]][t]
      /\ verdict'[Receiver(t)][t] = verdict[Receiver(t)][t]
  BY <1>1, SMT DEF outVars, TypeOK
<1>6. pp = Tail(p) /\ qq = q \o <<AckMsg(t, got[t])>>
  BY <1>1, <1>4, <1>t, RepliedOne
<1>7. /\ OneLessFor(p, pp, t, Head(p))
      /\ Head(p) \in Messages /\ Head(p).type = "data"
      /\ OneMoreFor(q, qq, t, AckMsg(t, got[t]))
  BY <1>1, <1>4, <1>6, <1>t, OneLess, OneMore
<1>8. /\ Handshake(p, t) <=> Has(p, t, "request") \/ Has(p, t, "offer") \/ Has(p, t, "accept")
      /\ Says(p, AcceptMsg(t, FALSE)) => Has(p, t, "accept")
      /\ Says(p, EndMsg(t, TRUE)) => Has(p, t, "end")
      /\ Says(p, EndMsg(t, FALSE)) => Has(p, t, "end")
      /\ Handshake(q, t) <=> Has(q, t, "request") \/ Has(q, t, "offer") \/ Has(q, t, "accept")
      /\ Says(q, AcceptMsg(t, FALSE)) => Has(q, t, "accept")
      /\ Says(q, EndMsg(t, TRUE)) => Has(q, t, "end")
      /\ Says(q, EndMsg(t, FALSE)) => Has(q, t, "end")
      /\ Handshake(pp, t) <=> Has(pp, t, "request") \/ Has(pp, t, "offer") \/ Has(pp, t, "accept")
      /\ Says(pp, AcceptMsg(t, FALSE)) => Has(pp, t, "accept")
      /\ Says(pp, EndMsg(t, TRUE)) => Has(pp, t, "end")
      /\ Says(pp, EndMsg(t, FALSE)) => Has(pp, t, "end")
      /\ Handshake(qq, t) <=> Has(qq, t, "request") \/ Has(qq, t, "offer") \/ Has(qq, t, "accept")
      /\ Says(qq, AcceptMsg(t, FALSE)) => Has(qq, t, "accept")
      /\ Says(qq, EndMsg(t, TRUE)) => Has(qq, t, "end")
      /\ Says(qq, EndMsg(t, FALSE)) => Has(qq, t, "end")
  BY Handshakes
<1>x. /\ Head(p).seq = got[t] /\ got[t] < sent[t] /\ got[t] < Size[t]
      /\ Counts(pp, t, "data", got[t] + 1, sent[t]) /\ Below(pp, t, "data", sent[t])
      /\ ~Has(q, t, "end") /\ ~Has(p, t, "offer") /\ ~Says(q, AcceptMsg(t, FALSE))
      /\ ~Has(q, t, "request") /\ t \notin opening /\ t \in begun
      /\ Below(q, t, "ack", got[t] + 1) /\ file[t] \notin {"queued", "publishing", "placed", "published", "refused"}
      /\ ToldReceiver(t) = "none" /\ t \notin pending /\ ToldSender(t) # "sent"
  <2>1. Counts(p, t, "data", got[t], sent[t]) /\ Below(p, t, "data", sent[t]) /\ LessCounted(p, pp, t, Head(p))
    BY <1>2, <1>3, <1>7 DEF ChunksOK, OneLessFor
  <2>2. Head(p).seq = got[t] /\ got[t] < sent[t] /\ Counts(pp, t, "data", got[t] + 1, sent[t])
    BY <1>1, <1>7, <2>1 DEF LessCounted
  <2>3. Below(pp, t, "data", sent[t])
    BY <2>1 DEF LessCounted
  <2>4. ~Has(q, t, "end") /\ ~Has(p, t, "offer") /\ ~Says(q, AcceptMsg(t, FALSE))
    BY <1>2, <1>3 DEF AnswerOK, BeforeOK, Unanswered
  <2>5. ~Has(q, t, "request") /\ t \notin opening /\ t \in begun
    BY <1>2 DEF BeforeOK, Unanswered, Early
  <2>6. Below(q, t, "ack", got[t] + 1)
    <3>1. Numbered("ack") /\ Below(q, t, "ack", got[t])
      BY <1>2 DEF Numbered, ChunksOK
    <3>q. QED
      BY <1>1, <3>1, BelowMore
  <2>7. got[t] < Size[t]
    BY <1>1, <2>2
  <2>8. file[t] \notin {"queued", "publishing", "placed", "published", "refused"}
    BY <1>1, <1>2, <2>7 DEF SettledOK
  <2>9. ToldReceiver(t) = "none" /\ t \notin pending /\ ToldSender(t) # "sent"
    BY <1>2 DEF RecordOK, SettledOK
  <2>q. QED
    BY <2>2, <2>3, <2>4, <2>5, <2>6, <2>7, <2>8, <2>9
<1> HIDE DEF p, q, pp, qq
<1>9. FreshOK(t, ToSender(t))'
  BY <1>1, <1>2, <1>3, <1>4, <1>5, <1>6, <1>7, <1>8, <1>t, <1>x DEF FreshOK, StepOK, BeforeOK, Early, Unanswered, OneLessFor, LessFor, OneMoreFor, MoreFor
<1>10. StepOK(t, ToSender(t), accepted)'
  BY <1>1, <1>2, <1>3, <1>4, <1>5, <1>6, <1>7, <1>8, <1>t, <1>x DEF StepOK, FreshOK, AnswerOK, GivenUpOK, BeforeOK, Early, Unanswered, OneLessFor, LessFor, OneMoreFor, MoreFor
<1>11. BeforeOK(t, ToSender(t), accepted)'
  BY <1>1, <1>2, <1>3, <1>4, <1>5, <1>6, <1>7, <1>8, <1>t, <1>x DEF BeforeOK, FreshOK, RecordOK, StepOK, SettledOK, Early, Unanswered, OneLessFor, LessFor, OneMoreFor, MoreFor
<1>12. RecordOK(t)'
  BY <1>1, <1>2, <1>3, <1>4, <1>5, <1>6, <1>7, <1>8, <1>t, <1>x DEF RecordOK, FreshOK, BeforeOK, SettledOK, OtherEndOK, StepOK, Early, Unanswered, OneLessFor, LessFor, OneMoreFor, MoreFor
<1>13. AnswerOK(t, ToSender(t))'
  BY <1>1, <1>2, <1>3, <1>4, <1>5, <1>6, <1>7, <1>8, <1>t, <1>x DEF AnswerOK, FreshOK, RecordOK, BeforeOK, StepOK, SettledOK, OtherEndOK, Early, Unanswered, OneLessFor, LessFor, OneMoreFor, MoreFor
<1>14. GivenUpOK(t, ToSender(t))'
  BY <1>1, <1>2, <1>3, <1>4, <1>5, <1>6, <1>7, <1>8, <1>t, <1>x DEF GivenUpOK, FreshOK, StepOK, RecordOK, OtherEndOK, BeforeOK, SettledOK, AnswerOK, Early, Unanswered, OneLessFor, LessFor, OneMoreFor, MoreFor
<1>15. OtherEndOK(t, ToSender(t))'
  BY <1>1, <1>2, <1>3, <1>4, <1>5, <1>6, <1>7, <1>8, <1>t, <1>x DEF OtherEndOK, FreshOK, StepOK, BeforeOK, AnswerOK, GivenUpOK, RecordOK, Early, Unanswered, OneLessFor, LessFor, OneMoreFor, MoreFor
<1>16. ChunksOK(t, ToSender(t), acked)'
  <2>1. Numbered("ack") /\ got[t] + 1 \in Nat
    BY <1>1 DEF Numbered
  <2>2. Below(qq, t, "ack", got[t] + 1)
    BY <1>1, <1>t, <1>x, <1>7 DEF OneMoreFor, MoreCounted
  <2>3. t \in sending => Counts(qq, t, "ack", acked[t], got[t] + 1)
    BY <1>1, <1>2, <1>t, <1>7 DEF ChunksOK, OneMoreFor, MoreCounted
  <2>4. acked[t] <= got[t] + 1
    BY <1>1, <1>2 DEF ChunksOK
  <2>q. QED
    BY <1>3, <1>5, <1>x, <2>2, <2>3, <2>4 DEF ChunksOK
<1>17. SettledOK(t)'
  BY <1>1, <1>2, <1>3, <1>4, <1>5, <1>6, <1>7, <1>8, <1>t, <1>x DEF SettledOK, FreshOK, BeforeOK, RecordOK, AnswerOK, GivenUpOK, StepOK, OtherEndOK, Early, Unanswered, OneLessFor, LessFor, OneMoreFor, MoreFor
<1>q. QED
  BY <1>9, <1>10, <1>11, <1>12, <1>13, <1>14, <1>15, <1>16, <1>17 DEF AllWell, TransferOK

LEMMA DataLastOwn ==
  ASSUME TypeOK, NEW t \in Transfers, AllWell(t),
         net[Receiver(t)] # <<>>, Head(net[Receiver(t)]).id = t, Head(net[Receiver(t)]).type = "data",
         t \in receiving, got' = [got EXCEPT ![t] = @ + 1], got[t] + 1 = Size[t],
         NEW how \in {"completed", "failed"}, NEW m, (how = "completed" /\ m = EndMsg(t, TRUE)) \/ (how = "failed" /\ m = EndMsg(t, FALSE)),
         receiving' = receiving \ {t}, wanted' = wanted \ {t},
         file' = IF OnDisk(t) THEN [file EXCEPT ![t] = FileAfter(how)] ELSE file,
         Tell(Receiver(t), {t}, how), Reply(Receiver(t), <<AckMsg(t, got[t]), m>>),
         UNCHANGED <<outVars, pending, opening, begun>>
  PROVE  AllWell(t)'
<1> DEFINE p == net[Receiver(t)]
           q == net[Sender[t]]
           pp == net'[Receiver(t)]
           qq == net'[Sender[t]]
<1>1. /\ p \in Seq(Messages) /\ q \in Seq(Messages)
      /\ sent[t] \in Nat /\ acked[t] \in Nat /\ got[t] \in Nat /\ Size[t] \in Nat
      /\ acked[t] <= sent[t] /\ sent[t] <= Size[t] /\ got[t] <= sent[t]
      /\ Sender[t] \in Ends /\ Receiver(t) \in Ends /\ Receiver(t) # Sender[t]
      /\ Other(Sender[t]) = Receiver(t) /\ Other(Receiver(t)) = Sender[t]
      /\ \A e \in Ends : (t \in From(e) <=> e = Sender[t]) /\ (t \in To(e) <=> e = Receiver(t))
  BY Typed, TwoEnds
<1>2. /\ FreshOK(t, q) /\ StepOK(t, q, accepted) /\ BeforeOK(t, q, accepted) /\ RecordOK(t) /\ AnswerOK(t, q)
      /\ GivenUpOK(t, q) /\ OtherEndOK(t, q) /\ ChunksOK(t, q, acked) /\ SettledOK(t)
      /\ TransferOK(t, q, accepted, acked)
  BY DEF AllWell, TransferOK, ToSender
<1>3. /\ ToReceiver(t) = p /\ ToReceiver(t)' = pp /\ ToSender(t)' = qq
      /\ ToldSender(t) = verdict[Sender[t]][t] /\ ToldSender(t)' = verdict'[Sender[t]][t]
      /\ ToldReceiver(t) = verdict[Receiver(t)][t] /\ ToldReceiver(t)' = verdict'[Receiver(t)][t]
  BY DEF ToReceiver, ToSender, ToldSender, ToldReceiver
<1>4. /\ AcceptMsg(t, FALSE) \in Messages /\ AcceptMsg(t, FALSE).id = t /\ AcceptMsg(t, FALSE).type = "accept"
      /\ AcceptMsg(t, TRUE) \in Messages /\ AcceptMsg(t, TRUE).id = t /\ AcceptMsg(t, TRUE).type = "accept"
      /\ AcceptMsg(t, FALSE) # AcceptMsg(t, TRUE)
      /\ EndMsg(t, TRUE) \in Messages /\ EndMsg(t, TRUE).id = t /\ EndMsg(t, TRUE).type = "end"
      /\ EndMsg(t, FALSE) \in Messages /\ EndMsg(t, FALSE).id = t /\ EndMsg(t, FALSE).type = "end"
      /\ EndMsg(t, TRUE) # EndMsg(t, FALSE)
      /\ OfferMsg(t) \in Messages /\ OfferMsg(t).id = t /\ OfferMsg(t).type = "offer"
      /\ RequestMsg(t) \in Messages /\ RequestMsg(t).id = t /\ RequestMsg(t).type = "request"
  <2>1. AcceptMsg(t, FALSE) # AcceptMsg(t, TRUE) /\ EndMsg(t, TRUE) # EndMsg(t, FALSE)
    BY DEF AcceptMsg, EndMsg
  <2>q. QED
    BY <2>1, Sayings, EndSaid
<1>t. /\ AckMsg(t, got[t]) \in Messages /\ AckMsg(t, got[t]).id = t
      /\ AckMsg(t, got[t]).type = "ack" /\ AckMsg(t, got[t]).seq = got[t]
      /\ verdict'[Sender[t]][t] = verdict[Sender[t]][t] /\ verdict'[Receiver(t)][t] = how
      /\ m \in Messages /\ m.id = t /\ m.type = "end" /\ m # AcceptMsg(t, FALSE)
      /\ m = EndMsg(t, TRUE) <=> how = "completed"
      /\ m = EndMsg(t, FALSE) <=> how = "failed"
  <2>1. verdict'[Sender[t]][t] = verdict[Sender[t]][t] /\ verdict'[Receiver(t)][t] = how
    BY <1>1, Told
  <2>2. AckMsg(t, got[t]) \in Messages /\ AckMsg(t, got[t]).id = t
            /\ AckMsg(t, got[t]).type = "ack" /\ AckMsg(t, got[t]).seq = got[t]
    BY <1>1 DEF AckMsg, Messages
  <2>3. CASE how = "completed" /\ m = EndMsg(t, TRUE)
    BY <1>4, <2>1, <2>2, <2>3
  <2>4. CASE how = "failed" /\ m = EndMsg(t, FALSE)
    BY <1>4, <2>1, <2>2, <2>4
  <2>q. QED
    BY <2>3, <2>4
<1>5. /\ t \in begun' <=> t \in begun
      /\ t \in sending' <=> t \in sending
      /\ t \in accepted' <=> t \in accepted
      /\ t \in receiving' <=> FALSE
      /\ t \in pending' <=> t \in pending
      /\ t \in wanted' <=> FALSE
      /\ t \in opening' <=> t \in opening
      /\ sent'[t] = sent[t]
      /\ acked'[t] = acked[t]
      /\ got'[t] = got[t] + 1
      /\ file'[t] = IF OnDisk(t) THEN IF how = "completed" THEN "published" ELSE "none" ELSE file[t]
      /\ verdict'[Sender[t]][t] = verdict[Sender[t]][t]
      /\ verdict'[Receiver(t)][t] = how
  BY <1>1, <1>t DEF outVars, TypeOK, FileAfter
<1>6. pp = Tail(p) /\ qq = (q \o <<AckMsg(t, got[t])>>) \o <<m>>
  <2>1. AckMsg(t, got[t]) \in Messages /\ m \in Messages /\ Receiver(t) \in Ends
    BY <1>1, <1>4, <1>t
  <2>2. /\ net'[Other(Receiver(t))] = (net[Other(Receiver(t))] \o <<AckMsg(t, got[t])>>) \o <<m>>
        /\ net'[Receiver(t)] = Tail(net[Receiver(t)])
    BY <2>1, RepliedTwo
  <2>q. QED
    BY <1>1, <2>2
<1>m. q \o <<AckMsg(t, got[t])>> \in Seq(Messages)
  <2>1. <<AckMsg(t, got[t])>> \in Seq(Messages)
    <3>1. \A c \in Messages : <<c>> \in Seq(Messages)
      OBVIOUS
    <3>q. QED
      BY <1>4, <1>t, <3>1
  <2>q. QED
    BY <1>1, <2>1, ConcatProperties
<1> DEFINE z == q \o <<AckMsg(t, got[t])>>
<1>7. /\ OneLessFor(p, pp, t, Head(p))
      /\ Head(p) \in Messages /\ Head(p).type = "data"
      /\ OneMoreFor(q, z, t, AckMsg(t, got[t])) /\ OneMoreFor(z, qq, t, m)
  BY <1>1, <1>4, <1>6, <1>t, OneLess, <1>m, OneMore, ZenonT(60)
<1>8. /\ Handshake(p, t) <=> Has(p, t, "request") \/ Has(p, t, "offer") \/ Has(p, t, "accept")
      /\ Says(p, AcceptMsg(t, FALSE)) => Has(p, t, "accept")
      /\ Says(p, EndMsg(t, TRUE)) => Has(p, t, "end")
      /\ Says(p, EndMsg(t, FALSE)) => Has(p, t, "end")
      /\ Handshake(q, t) <=> Has(q, t, "request") \/ Has(q, t, "offer") \/ Has(q, t, "accept")
      /\ Says(q, AcceptMsg(t, FALSE)) => Has(q, t, "accept")
      /\ Says(q, EndMsg(t, TRUE)) => Has(q, t, "end")
      /\ Says(q, EndMsg(t, FALSE)) => Has(q, t, "end")
      /\ Handshake(pp, t) <=> Has(pp, t, "request") \/ Has(pp, t, "offer") \/ Has(pp, t, "accept")
      /\ Says(pp, AcceptMsg(t, FALSE)) => Has(pp, t, "accept")
      /\ Says(pp, EndMsg(t, TRUE)) => Has(pp, t, "end")
      /\ Says(pp, EndMsg(t, FALSE)) => Has(pp, t, "end")
      /\ Handshake(qq, t) <=> Has(qq, t, "request") \/ Has(qq, t, "offer") \/ Has(qq, t, "accept")
      /\ Says(qq, AcceptMsg(t, FALSE)) => Has(qq, t, "accept")
      /\ Says(qq, EndMsg(t, TRUE)) => Has(qq, t, "end")
      /\ Says(qq, EndMsg(t, FALSE)) => Has(qq, t, "end")
      /\ Handshake(z, t) <=> Has(z, t, "request") \/ Has(z, t, "offer") \/ Has(z, t, "accept")
      /\ Says(z, AcceptMsg(t, FALSE)) => Has(z, t, "accept")
      /\ Says(z, EndMsg(t, TRUE)) => Has(z, t, "end")
      /\ Says(z, EndMsg(t, FALSE)) => Has(z, t, "end")
  BY Handshakes
<1>x. /\ Head(p).seq = got[t] /\ got[t] < sent[t] /\ got[t] < Size[t]
      /\ Counts(pp, t, "data", got[t] + 1, sent[t]) /\ Below(pp, t, "data", sent[t])
      /\ ~Has(q, t, "end") /\ ~Has(p, t, "offer") /\ ~Says(q, AcceptMsg(t, FALSE))
      /\ ~Has(q, t, "request") /\ t \notin opening /\ t \in begun
      /\ Below(q, t, "ack", got[t] + 1) /\ file[t] \notin {"queued", "publishing", "placed", "published", "refused"}
      /\ ToldReceiver(t) = "none" /\ t \notin pending /\ ToldSender(t) # "sent"
  <2>1. Counts(p, t, "data", got[t], sent[t]) /\ Below(p, t, "data", sent[t]) /\ LessCounted(p, pp, t, Head(p))
    BY <1>2, <1>3, <1>7 DEF ChunksOK, OneLessFor
  <2>2. Head(p).seq = got[t] /\ got[t] < sent[t] /\ Counts(pp, t, "data", got[t] + 1, sent[t])
    BY <1>1, <1>7, <2>1 DEF LessCounted
  <2>3. Below(pp, t, "data", sent[t])
    BY <2>1 DEF LessCounted
  <2>4. ~Has(q, t, "end") /\ ~Has(p, t, "offer") /\ ~Says(q, AcceptMsg(t, FALSE))
    BY <1>2, <1>3 DEF AnswerOK, BeforeOK, Unanswered
  <2>5. ~Has(q, t, "request") /\ t \notin opening /\ t \in begun
    BY <1>2 DEF BeforeOK, Unanswered, Early
  <2>6. Below(q, t, "ack", got[t] + 1)
    <3>1. Numbered("ack") /\ Below(q, t, "ack", got[t])
      BY <1>2 DEF Numbered, ChunksOK
    <3>q. QED
      BY <1>1, <3>1, BelowMore
  <2>7. got[t] < Size[t]
    BY <1>1, <2>2
  <2>8. file[t] \notin {"queued", "publishing", "placed", "published", "refused"}
    BY <1>1, <1>2, <2>7 DEF SettledOK
  <2>9. ToldReceiver(t) = "none" /\ t \notin pending /\ ToldSender(t) # "sent"
    BY <1>2 DEF RecordOK, SettledOK
  <2>q. QED
    BY <2>2, <2>3, <2>4, <2>5, <2>6, <2>7, <2>8, <2>9
<1> HIDE DEF p, q, pp, qq, z
<1>9. FreshOK(t, ToSender(t))'
  BY <1>1, <1>2, <1>3, <1>4, <1>5, <1>6, <1>7, <1>8, <1>t, <1>x DEF FreshOK, StepOK, BeforeOK, Early, Unanswered, OneLessFor, LessFor, OneMoreFor, MoreFor
<1>10. StepOK(t, ToSender(t), accepted)'
  BY <1>1, <1>2, <1>3, <1>4, <1>5, <1>6, <1>7, <1>8, <1>t, <1>x DEF StepOK, FreshOK, AnswerOK, GivenUpOK, BeforeOK, Early, Unanswered, OneLessFor, LessFor, OneMoreFor, MoreFor
<1>11. BeforeOK(t, ToSender(t), accepted)'
  BY <1>1, <1>2, <1>3, <1>4, <1>5, <1>6, <1>7, <1>8, <1>t, <1>x DEF BeforeOK, FreshOK, RecordOK, StepOK, SettledOK, Early, Unanswered, OneLessFor, LessFor, OneMoreFor, MoreFor
<1>12. RecordOK(t)'
  BY <1>1, <1>2, <1>3, <1>4, <1>5, <1>6, <1>7, <1>8, <1>t, <1>x DEF RecordOK, FreshOK, BeforeOK, SettledOK, OtherEndOK, StepOK, Early, Unanswered, OneLessFor, LessFor, OneMoreFor, MoreFor
<1>13. AnswerOK(t, ToSender(t))'
  <2>1. ~Says(q, EndMsg(t, TRUE)) /\ ~Says(q, EndMsg(t, FALSE))
    BY <1>8, <1>x
  <2>2. /\ ~Says(z, AcceptMsg(t, FALSE)) /\ ~Says(z, EndMsg(t, TRUE)) /\ ~Says(z, EndMsg(t, FALSE))
        /\ ~Has(z, t, "end") /\ Precedes(z, t, "ack", "end")
    BY <1>2, <1>4, <1>7, <1>t, <1>x, <2>1 DEF AnswerOK, OneMoreFor, MoreFor
  <2>3. /\ ~Says(qq, AcceptMsg(t, FALSE)) /\ Precedes(qq, t, "ack", "end")
        /\ Says(qq, EndMsg(t, TRUE)) <=> how = "completed"
        /\ Says(qq, EndMsg(t, FALSE)) <=> how = "failed"
    BY <1>4, <1>7, <1>t, <2>2 DEF OneMoreFor, MoreFor
  <2>4. Has(qq, t, "accept") <=> Has(q, t, "accept")
    BY <1>7, <1>t DEF OneMoreFor, MoreFor
  <2>5. ~Has(pp, t, "offer")
    BY <1>7, <1>x DEF OneLessFor, LessFor
  <2>q. QED
    BY <1>2, <1>3, <1>5, <1>x, <2>3, <2>4, <2>5 DEF AnswerOK
<1>14. GivenUpOK(t, ToSender(t))'
  BY <1>1, <1>2, <1>3, <1>4, <1>5, <1>6, <1>7, <1>8, <1>t, <1>x DEF GivenUpOK, FreshOK, StepOK, RecordOK, OtherEndOK, BeforeOK, SettledOK, AnswerOK, Early, Unanswered, OneLessFor, LessFor, OneMoreFor, MoreFor
<1>15. OtherEndOK(t, ToSender(t))'
  BY <1>1, <1>2, <1>3, <1>4, <1>5, <1>6, <1>7, <1>8, <1>t, <1>x, ZenonT(60) DEF OtherEndOK, FreshOK, StepOK, BeforeOK, AnswerOK, GivenUpOK, RecordOK, Early, Unanswered, OneLessFor, LessFor, OneMoreFor, MoreFor
<1>16. ChunksOK(t, ToSender(t), acked)'
  <2>1. Below(z, t, "ack", got[t] + 1)
    BY <1>1, <1>t, <1>x, <1>7 DEF OneMoreFor, MoreCounted
  <2>2. t \in sending => Counts(z, t, "ack", acked[t], got[t] + 1)
    BY <1>1, <1>2, <1>t, <1>7 DEF ChunksOK, OneMoreFor, MoreCounted
  <2>3. acked[t] <= got[t] + 1 /\ got[t] + 1 \in Nat
    BY <1>1, <1>2 DEF ChunksOK
  <2>4. Below(qq, t, "ack", got[t] + 1)
    BY <1>t, <1>7, <2>1 DEF OneMoreFor, MoreCounted
  <2>5. t \in sending => Counts(qq, t, "ack", acked[t], got[t] + 1)
    BY <1>1, <1>t, <1>7, <2>2, <2>3 DEF OneMoreFor, MoreCounted
  <2>q. QED
    BY <1>3, <1>5, <1>x, <2>3, <2>4, <2>5 DEF ChunksOK
<1>17. SettledOK(t)'
  BY <1>1, <1>2, <1>3, <1>4, <1>5, <1>6, <1>7, <1>8, <1>t, <1>x DEF SettledOK, FreshOK, BeforeOK, RecordOK, AnswerOK, GivenUpOK, StepOK, OtherEndOK, Early, Unanswered, OneLessFor, LessFor, OneMoreFor, MoreFor
<1>q. QED
  BY <1>9, <1>10, <1>11, <1>12, <1>13, <1>14, <1>15, <1>16, <1>17 DEF AllWell, TransferOK

LEMMA TakeOwn ==
  ASSUME TypeOK, NEW t \in Transfers, AllWell(t),
         Take(t)
  PROVE  AllWell(t)'
<1> DEFINE p == net[Receiver(t)]
           q == net[Sender[t]]
           pp == net'[Receiver(t)]
           qq == net'[Sender[t]]
<1>1. /\ p \in Seq(Messages) /\ q \in Seq(Messages)
      /\ sent[t] \in Nat /\ acked[t] \in Nat /\ got[t] \in Nat /\ Size[t] \in Nat
      /\ acked[t] <= sent[t] /\ sent[t] <= Size[t] /\ got[t] <= sent[t]
      /\ Sender[t] \in Ends /\ Receiver(t) \in Ends /\ Receiver(t) # Sender[t]
      /\ Other(Sender[t]) = Receiver(t) /\ Other(Receiver(t)) = Sender[t]
      /\ \A e \in Ends : (t \in From(e) <=> e = Sender[t]) /\ (t \in To(e) <=> e = Receiver(t))
  BY Typed, TwoEnds
<1>2. /\ FreshOK(t, q) /\ StepOK(t, q, accepted) /\ BeforeOK(t, q, accepted) /\ RecordOK(t) /\ AnswerOK(t, q)
      /\ GivenUpOK(t, q) /\ OtherEndOK(t, q) /\ ChunksOK(t, q, acked) /\ SettledOK(t)
      /\ TransferOK(t, q, accepted, acked)
  BY DEF AllWell, TransferOK, ToSender
<1>3. /\ ToReceiver(t) = p /\ ToReceiver(t)' = pp /\ ToSender(t)' = qq
      /\ ToldSender(t) = verdict[Sender[t]][t] /\ ToldSender(t)' = verdict'[Sender[t]][t]
      /\ ToldReceiver(t) = verdict[Receiver(t)][t] /\ ToldReceiver(t)' = verdict'[Receiver(t)][t]
  BY DEF ToReceiver, ToSender, ToldSender, ToldReceiver
<1>4. /\ AcceptMsg(t, FALSE) \in Messages /\ AcceptMsg(t, FALSE).id = t /\ AcceptMsg(t, FALSE).type = "accept"
      /\ AcceptMsg(t, TRUE) \in Messages /\ AcceptMsg(t, TRUE).id = t /\ AcceptMsg(t, TRUE).type = "accept"
      /\ AcceptMsg(t, FALSE) # AcceptMsg(t, TRUE)
      /\ EndMsg(t, TRUE) \in Messages /\ EndMsg(t, TRUE).id = t /\ EndMsg(t, TRUE).type = "end"
      /\ EndMsg(t, FALSE) \in Messages /\ EndMsg(t, FALSE).id = t /\ EndMsg(t, FALSE).type = "end"
      /\ EndMsg(t, TRUE) # EndMsg(t, FALSE)
      /\ OfferMsg(t) \in Messages /\ OfferMsg(t).id = t /\ OfferMsg(t).type = "offer"
      /\ RequestMsg(t) \in Messages /\ RequestMsg(t).id = t /\ RequestMsg(t).type = "request"
  <2>1. AcceptMsg(t, FALSE) # AcceptMsg(t, TRUE) /\ EndMsg(t, TRUE) # EndMsg(t, FALSE)
    BY DEF AcceptMsg, EndMsg
  <2>q. QED
    BY <2>1, Sayings, EndSaid
<1>5. /\ t \in begun' <=> t \in begun
      /\ t \in sending' <=> t \in sending
      /\ t \in accepted' <=> t \in accepted
      /\ t \in receiving' <=> t \in receiving
      /\ t \in pending' <=> t \in pending
      /\ t \in wanted' <=> t \in wanted
      /\ t \in opening' <=> t \in opening
      /\ sent'[t] = sent[t]
      /\ acked'[t] = acked[t]
      /\ got'[t] = got[t]
      /\ file'[t] = IF t \in receiving THEN "publishing" ELSE "none"
      /\ verdict'[Sender[t]][t] = verdict[Sender[t]][t]
      /\ verdict'[Receiver(t)][t] = verdict[Receiver(t)][t]
  BY <1>1, SMT DEF Take, outVars, inVars, TypeOK
<1>6. pp = p /\ qq = q
  BY DEF Take
<1>8. /\ Handshake(p, t) <=> Has(p, t, "request") \/ Has(p, t, "offer") \/ Has(p, t, "accept")
      /\ Says(p, AcceptMsg(t, FALSE)) => Has(p, t, "accept")
      /\ Says(p, EndMsg(t, TRUE)) => Has(p, t, "end")
      /\ Says(p, EndMsg(t, FALSE)) => Has(p, t, "end")
      /\ Handshake(q, t) <=> Has(q, t, "request") \/ Has(q, t, "offer") \/ Has(q, t, "accept")
      /\ Says(q, AcceptMsg(t, FALSE)) => Has(q, t, "accept")
      /\ Says(q, EndMsg(t, TRUE)) => Has(q, t, "end")
      /\ Says(q, EndMsg(t, FALSE)) => Has(q, t, "end")
      /\ Handshake(pp, t) <=> Has(pp, t, "request") \/ Has(pp, t, "offer") \/ Has(pp, t, "accept")
      /\ Says(pp, AcceptMsg(t, FALSE)) => Has(pp, t, "accept")
      /\ Says(pp, EndMsg(t, TRUE)) => Has(pp, t, "end")
      /\ Says(pp, EndMsg(t, FALSE)) => Has(pp, t, "end")
      /\ Handshake(qq, t) <=> Has(qq, t, "request") \/ Has(qq, t, "offer") \/ Has(qq, t, "accept")
      /\ Says(qq, AcceptMsg(t, FALSE)) => Has(qq, t, "accept")
      /\ Says(qq, EndMsg(t, TRUE)) => Has(qq, t, "end")
      /\ Says(qq, EndMsg(t, FALSE)) => Has(qq, t, "end")
  BY Handshakes
<1>x. file[t] = "queued"
  BY DEF Take
<1> HIDE DEF p, q, pp, qq
<1>9. FreshOK(t, ToSender(t))'
  BY <1>1, <1>2, <1>3, <1>4, <1>5, <1>6, <1>8, <1>x DEF FreshOK, StepOK, BeforeOK, Early, Unanswered
<1>10. StepOK(t, ToSender(t), accepted)'
  BY <1>1, <1>2, <1>3, <1>4, <1>5, <1>6, <1>8, <1>x DEF StepOK, FreshOK, AnswerOK, GivenUpOK, BeforeOK, Early, Unanswered
<1>11. BeforeOK(t, ToSender(t), accepted)'
  BY <1>1, <1>2, <1>3, <1>4, <1>5, <1>6, <1>8, <1>x DEF BeforeOK, FreshOK, RecordOK, StepOK, SettledOK, Early, Unanswered
<1>12. RecordOK(t)'
  BY <1>1, <1>2, <1>3, <1>4, <1>5, <1>6, <1>8, <1>x DEF RecordOK, FreshOK, BeforeOK, SettledOK, OtherEndOK, StepOK, Early, Unanswered
<1>13. AnswerOK(t, ToSender(t))'
  BY <1>1, <1>2, <1>3, <1>4, <1>5, <1>6, <1>8, <1>x DEF AnswerOK, FreshOK, RecordOK, BeforeOK, StepOK, SettledOK, OtherEndOK, Early, Unanswered
<1>14. GivenUpOK(t, ToSender(t))'
  BY <1>1, <1>2, <1>3, <1>4, <1>5, <1>6, <1>8, <1>x DEF GivenUpOK, FreshOK, StepOK, RecordOK, OtherEndOK, BeforeOK, SettledOK, AnswerOK, Early, Unanswered
<1>15. OtherEndOK(t, ToSender(t))'
  BY <1>1, <1>2, <1>3, <1>4, <1>5, <1>6, <1>8, <1>x DEF OtherEndOK, FreshOK, StepOK, BeforeOK, AnswerOK, GivenUpOK, RecordOK, Early, Unanswered
<1>16. ChunksOK(t, ToSender(t), acked)'
  BY <1>1, <1>2, <1>3, <1>4, <1>5, <1>6, <1>8, <1>x DEF ChunksOK, StepOK, BeforeOK, Early, Unanswered
<1>17. SettledOK(t)'
  BY <1>1, <1>2, <1>3, <1>4, <1>5, <1>6, <1>8, <1>x DEF SettledOK, FreshOK, BeforeOK, RecordOK, AnswerOK, GivenUpOK, StepOK, OtherEndOK, Early, Unanswered
<1>q. QED
  BY <1>9, <1>10, <1>11, <1>12, <1>13, <1>14, <1>15, <1>16, <1>17 DEF AllWell, TransferOK

LEMMA PersistOwn ==
  ASSUME TypeOK, NEW t \in Transfers, AllWell(t),
         Persist(t) \/ Answer(t)
  PROVE  AllWell(t)'
<1> DEFINE p == net[Receiver(t)]
           q == net[Sender[t]]
           pp == net'[Receiver(t)]
           qq == net'[Sender[t]]
<1>1. /\ p \in Seq(Messages) /\ q \in Seq(Messages)
      /\ sent[t] \in Nat /\ acked[t] \in Nat /\ got[t] \in Nat /\ Size[t] \in Nat
      /\ acked[t] <= sent[t] /\ sent[t] <= Size[t] /\ got[t] <= sent[t]
      /\ Sender[t] \in Ends /\ Receiver(t) \in Ends /\ Receiver(t) # Sender[t]
      /\ Other(Sender[t]) = Receiver(t) /\ Other(Receiver(t)) = Sender[t]
      /\ \A e \in Ends : (t \in From(e) <=> e = Sender[t]) /\ (t \in To(e) <=> e = Receiver(t))
  BY Typed, TwoEnds
<1>2. /\ FreshOK(t, q) /\ StepOK(t, q, accepted) /\ BeforeOK(t, q, accepted) /\ RecordOK(t) /\ AnswerOK(t, q)
      /\ GivenUpOK(t, q) /\ OtherEndOK(t, q) /\ ChunksOK(t, q, acked) /\ SettledOK(t)
      /\ TransferOK(t, q, accepted, acked)
  BY DEF AllWell, TransferOK, ToSender
<1>3. /\ ToReceiver(t) = p /\ ToReceiver(t)' = pp /\ ToSender(t)' = qq
      /\ ToldSender(t) = verdict[Sender[t]][t] /\ ToldSender(t)' = verdict'[Sender[t]][t]
      /\ ToldReceiver(t) = verdict[Receiver(t)][t] /\ ToldReceiver(t)' = verdict'[Receiver(t)][t]
  BY DEF ToReceiver, ToSender, ToldSender, ToldReceiver
<1>4. /\ AcceptMsg(t, FALSE) \in Messages /\ AcceptMsg(t, FALSE).id = t /\ AcceptMsg(t, FALSE).type = "accept"
      /\ AcceptMsg(t, TRUE) \in Messages /\ AcceptMsg(t, TRUE).id = t /\ AcceptMsg(t, TRUE).type = "accept"
      /\ AcceptMsg(t, FALSE) # AcceptMsg(t, TRUE)
      /\ EndMsg(t, TRUE) \in Messages /\ EndMsg(t, TRUE).id = t /\ EndMsg(t, TRUE).type = "end"
      /\ EndMsg(t, FALSE) \in Messages /\ EndMsg(t, FALSE).id = t /\ EndMsg(t, FALSE).type = "end"
      /\ EndMsg(t, TRUE) # EndMsg(t, FALSE)
      /\ OfferMsg(t) \in Messages /\ OfferMsg(t).id = t /\ OfferMsg(t).type = "offer"
      /\ RequestMsg(t) \in Messages /\ RequestMsg(t).id = t /\ RequestMsg(t).type = "request"
  <2>1. AcceptMsg(t, FALSE) # AcceptMsg(t, TRUE) /\ EndMsg(t, TRUE) # EndMsg(t, FALSE)
    BY DEF AcceptMsg, EndMsg
  <2>q. QED
    BY <2>1, Sayings, EndSaid
<1>5. /\ t \in begun' <=> t \in begun
      /\ t \in sending' <=> t \in sending
      /\ t \in accepted' <=> t \in accepted
      /\ t \in receiving' <=> t \in receiving
      /\ t \in pending' <=> t \in pending
      /\ t \in wanted' <=> t \in wanted
      /\ t \in opening' <=> t \in opening
      /\ sent'[t] = sent[t]
      /\ acked'[t] = acked[t]
      /\ got'[t] = got[t]
      /\ file'[t] = file'[t]
      /\ verdict'[Sender[t]][t] = verdict[Sender[t]][t]
      /\ verdict'[Receiver(t)][t] = verdict[Receiver(t)][t]
  BY <1>1, SMT DEF Persist, Answer, outVars, inVars, TypeOK
<1>6. pp = p /\ qq = q
  BY DEF Persist, Answer
<1>8. /\ Handshake(p, t) <=> Has(p, t, "request") \/ Has(p, t, "offer") \/ Has(p, t, "accept")
      /\ Says(p, AcceptMsg(t, FALSE)) => Has(p, t, "accept")
      /\ Says(p, EndMsg(t, TRUE)) => Has(p, t, "end")
      /\ Says(p, EndMsg(t, FALSE)) => Has(p, t, "end")
      /\ Handshake(q, t) <=> Has(q, t, "request") \/ Has(q, t, "offer") \/ Has(q, t, "accept")
      /\ Says(q, AcceptMsg(t, FALSE)) => Has(q, t, "accept")
      /\ Says(q, EndMsg(t, TRUE)) => Has(q, t, "end")
      /\ Says(q, EndMsg(t, FALSE)) => Has(q, t, "end")
      /\ Handshake(pp, t) <=> Has(pp, t, "request") \/ Has(pp, t, "offer") \/ Has(pp, t, "accept")
      /\ Says(pp, AcceptMsg(t, FALSE)) => Has(pp, t, "accept")
      /\ Says(pp, EndMsg(t, TRUE)) => Has(pp, t, "end")
      /\ Says(pp, EndMsg(t, FALSE)) => Has(pp, t, "end")
      /\ Handshake(qq, t) <=> Has(qq, t, "request") \/ Has(qq, t, "offer") \/ Has(qq, t, "accept")
      /\ Says(qq, AcceptMsg(t, FALSE)) => Has(qq, t, "accept")
      /\ Says(qq, EndMsg(t, TRUE)) => Has(qq, t, "end")
      /\ Says(qq, EndMsg(t, FALSE)) => Has(qq, t, "end")
  BY Handshakes
<1>x. /\ file[t] \in {"publishing", "placed"}
      /\ file'[t] \in {"placed"} \cup (IF t \in receiving THEN {"published", "refused"} ELSE {"stray", "none"})
  BY DEF Persist, Answer, TypeOK
<1> HIDE DEF p, q, pp, qq
<1>9. FreshOK(t, ToSender(t))'
  BY <1>1, <1>2, <1>3, <1>4, <1>5, <1>6, <1>8, <1>x DEF FreshOK, StepOK, BeforeOK, Early, Unanswered
<1>10. StepOK(t, ToSender(t), accepted)'
  BY <1>1, <1>2, <1>3, <1>4, <1>5, <1>6, <1>8, <1>x DEF StepOK, FreshOK, AnswerOK, GivenUpOK, BeforeOK, Early, Unanswered
<1>11. BeforeOK(t, ToSender(t), accepted)'
  BY <1>1, <1>2, <1>3, <1>4, <1>5, <1>6, <1>8, <1>x DEF BeforeOK, FreshOK, RecordOK, StepOK, SettledOK, Early, Unanswered
<1>12. RecordOK(t)'
  BY <1>1, <1>2, <1>3, <1>4, <1>5, <1>6, <1>8, <1>x DEF RecordOK, FreshOK, BeforeOK, SettledOK, OtherEndOK, StepOK, Early, Unanswered
<1>13. AnswerOK(t, ToSender(t))'
  BY <1>1, <1>2, <1>3, <1>4, <1>5, <1>6, <1>8, <1>x DEF AnswerOK, FreshOK, RecordOK, BeforeOK, StepOK, SettledOK, OtherEndOK, Early, Unanswered
<1>14. GivenUpOK(t, ToSender(t))'
  BY <1>1, <1>2, <1>3, <1>4, <1>5, <1>6, <1>8, <1>x DEF GivenUpOK, FreshOK, StepOK, RecordOK, OtherEndOK, BeforeOK, SettledOK, AnswerOK, Early, Unanswered
<1>15. OtherEndOK(t, ToSender(t))'
  BY <1>1, <1>2, <1>3, <1>4, <1>5, <1>6, <1>8, <1>x DEF OtherEndOK, FreshOK, StepOK, BeforeOK, AnswerOK, GivenUpOK, RecordOK, Early, Unanswered
<1>16. ChunksOK(t, ToSender(t), acked)'
  BY <1>1, <1>2, <1>3, <1>4, <1>5, <1>6, <1>8, <1>x DEF ChunksOK, StepOK, BeforeOK, Early, Unanswered
<1>17. SettledOK(t)'
  BY <1>1, <1>2, <1>3, <1>4, <1>5, <1>6, <1>8, <1>x DEF SettledOK, FreshOK, BeforeOK, RecordOK, AnswerOK, GivenUpOK, StepOK, OtherEndOK, Early, Unanswered
<1>q. QED
  BY <1>9, <1>10, <1>11, <1>12, <1>13, <1>14, <1>15, <1>16, <1>17 DEF AllWell, TransferOK

-----------------------------------------------------------------------------
(* The pump: what it sends, and what it leaves in the windows.              *)
LEMMA InFlightFinite ==
  ASSUME NEW live, live \subseteq Transfers, NEW acks, NEW upto,
         \A t \in Transfers : acks[t] \in Nat /\ upto[t] \in Nat
  PROVE  IsFiniteSet(InFlight(live, acks, upto))
<1> DEFINE A == [t \in live |-> {<<t, k>> : k \in acks[t]..(upto[t] - 1)}]
           U == {A[t] : t \in live}
<1>1. IsFiniteSet(live)
  BY FS_Subset, TransferAssumption
<1>2. ASSUME NEW t \in live PROVE IsFiniteSet(A[t])
  <2> DEFINE D == acks[t]..(upto[t] - 1)
             B == {<<t, k>> : k \in D}
             f == [k \in D |-> <<t, k>>]
  <2>1. IsFiniteSet(D)
    BY FS_Interval, SMTT(60)
  <2>2. f \in Surjection(D, B)
    BY DEF Surjection
  <2>3. IsFiniteSet(B)
    BY <2>1, <2>2, FS_Surjection
  <2>q. QED
    BY <2>3
<1>3. IsFiniteSet(U)
  <2>1. A \in Surjection(live, U)
    BY DEF Surjection
  <2>q. QED
    BY <1>1, <2>1, FS_Surjection
<1>4. IsFiniteSet(UNION U)
  BY <1>2, <1>3, FS_UNION
<1>5. InFlight(live, acks, upto) = UNION U
  BY DEF InFlight
<1>q. QED
  BY <1>4, <1>5

LEMMA InFlightLess ==
  ASSUME NEW live, live \subseteq Transfers, NEW less, less \subseteq live, NEW acks, NEW more, NEW upto,
         \A t \in Transfers : acks[t] \in Nat /\ more[t] \in Nat /\ upto[t] \in Nat /\ acks[t] <= more[t]
  PROVE  Cardinality(InFlight(less, more, upto)) <= Cardinality(InFlight(live, acks, upto))
<1>1. InFlight(less, more, upto) \subseteq InFlight(live, acks, upto)
  <2> SUFFICES ASSUME NEW t \in less, NEW k \in more[t]..(upto[t] - 1)
               PROVE  <<t, k>> \in InFlight(live, acks, upto)
    BY DEF InFlight
  <2>1. k \in acks[t]..(upto[t] - 1) /\ t \in live
    OBVIOUS
  <2>q. QED
    BY <2>1 DEF InFlight
<1>q. QED
  BY <1>1, InFlightFinite, FS_Subset

LEMMA InFlightMore ==
  ASSUME NEW live, live \subseteq Transfers, NEW acks, NEW upto, NEW after, NEW t \in live, NEW n \in Nat,
         \A u \in Transfers : acks[u] \in Nat /\ upto[u] \in Nat,
         \A u \in Transfers : after[u] = IF u = t THEN upto[u] + n ELSE upto[u]
  PROVE  Cardinality(InFlight(live, acks, after)) <= Cardinality(InFlight(live, acks, upto)) + n
<1> DEFINE D == upto[t]..(upto[t] + n - 1)
           B == {<<t, k>> : k \in D}
           f == [k \in D |-> <<t, k>>]
           F == InFlight(live, acks, upto)
<1>1. IsFiniteSet(D) /\ Cardinality(D) = n
  BY FS_Interval, SMTT(60)
<1>2. f \in Surjection(D, B)
  BY DEF Surjection
<1>3. IsFiniteSet(B) /\ Cardinality(B) <= n
  BY <1>1, <1>2, FS_Surjection
<1>4. IsFiniteSet(F)
  BY InFlightFinite
<1>5. InFlight(live, acks, after) \subseteq F \cup B
  <2> SUFFICES ASSUME NEW u \in live, NEW k \in acks[u]..(after[u] - 1)
               PROVE  <<u, k>> \in F \cup B
    BY DEF InFlight
  <2>1. CASE k < upto[u]
    <3>1. k \in acks[u]..(upto[u] - 1)
      BY <2>1
    <3>q. QED
      BY <3>1 DEF InFlight
  <2>2. CASE k >= upto[u]
    <3>1. u = t /\ k \in D
      BY <2>2
    <3>q. QED
      BY <3>1
  <2>q. QED
    BY <2>1, <2>2
<1> HIDE DEF B, F, D, f
<1>6. /\ IsFiniteSet(F \cup B) /\ Cardinality(F \cup B) = Cardinality(F) + Cardinality(B) - Cardinality(F \cap B)
  BY <1>3, <1>4, FS_Union
<1>7. Cardinality(F \cap B) \in Nat /\ Cardinality(F) \in Nat /\ Cardinality(B) \in Nat
  BY <1>3, <1>4, FS_Intersection, FS_CardinalityType
<1>8. Cardinality(InFlight(live, acks, after)) <= Cardinality(F \cup B)
  BY <1>5, <1>6, FS_Subset
<1>9. Cardinality(InFlight(live, acks, after)) \in Nat
  BY <1>5, <1>6, FS_Subset, FS_CardinalityType
<1>q. QED
  BY <1>3, <1>6, <1>7, <1>8, <1>9 DEF F

LEMMA Upwards ==
  ASSUME NEW n \in Nat, NEW S, 0 \in S, \A i \in 0..(n - 1) : i \in S => i + 1 \in S
  PROVE  \A i \in 0..n : i \in S
<1> DEFINE T == {i \in 0..n : i \notin S}
<1>1. CASE T = {}
  BY <1>1
<1>2. CASE T # {}
  <2>1. T \subseteq Nat
    OBVIOUS
  <2>2. PICK m \in T : \A k \in T : ~(<<k, m>> \in OpToRel(<, Nat))
    BY <1>2, <2>1, NatLessThanWellFounded, WFMin
  <2>3. \A k \in T : ~(k < m)
    BY <2>1, <2>2 DEF OpToRel
  <2>4. m # 0 /\ m - 1 \in 0..(n - 1) /\ m - 1 < m /\ m - 1 + 1 = m
    OBVIOUS
  <2>5. m - 1 \in S
    BY <2>3, <2>4
  <2>q. QED
    BY <2>4, <2>5
<1>q. QED
  BY <1>1, <1>2

LEMMA LeastOfTwo ==
  ASSUME NEW a \in Int, NEW b \in Int
  PROVE  Min({a, b}) = IF a <= b THEN a ELSE b
<1>1. CASE a <= b
  <2>1. \A x \in {a, b} : (\A y \in {a, b} : x <= y) => x = a
    BY <1>1
  <2>2. \A y \in {a, b} : a <= y
    BY <1>1
  <2>q. QED
    BY <1>1, <2>1, <2>2 DEF Min
<1>2. CASE ~(a <= b)
  <2>1. \A x \in {a, b} : (\A y \in {a, b} : x <= y) => x = b
    BY <1>2
  <2>2. \A y \in {a, b} : b <= y
    BY <1>2
  <2>q. QED
    BY <1>2, <2>1, <2>2 DEF Min
<1>q. QED
  BY <1>1, <1>2

LEMMA NoLessThanZero ==
  ASSUME NEW a \in Nat
  PROVE  Max({0, a}) = a
<1>1. \A x \in {0, a} : (\A y \in {0, a} : x >= y) => x = a
  OBVIOUS
<1>2. \A y \in {0, a} : a >= y
  OBVIOUS
<1>q. QED
  BY <1>1, <1>2 DEF Max

(* The recursion of Rounds has a solution, so that Rounds is one.           *)
LEMMA RoundsExist ==
  ASSUME NEW start, NEW order, Len(order) \in Nat, NEW acks, NEW supply, NEW broken
  PROVE  \E f : f = [i \in 0..Len(order) |->
                       IF i = 0 THEN start ELSE Turn(f[i - 1], order[i], acks, supply, broken)]
<1> DEFINE next(a, i) == Turn(a, order[i], acks, supply, broken)
           to(f, n) == f = [i \in 0..n |-> IF i = 0 THEN start ELSE next(f[i - 1], i)]
           S == {n \in Nat : \E f : to(f, n)}
<1> HIDE DEF next
<1>1. 0 \in S
  <2>1. to([i \in 0..0 |-> start], 0)
    OBVIOUS
  <2>q. QED
    BY <2>1
<1>2. ASSUME NEW n \in Nat, n \in S PROVE n + 1 \in S
  <2>1. PICK f : to(f, n)
    BY <1>2
  <2> DEFINE g == [i \in 0..(n + 1) |-> IF i = n + 1 THEN next(f[n], n + 1) ELSE f[i]]
  <2>2. ASSUME NEW i \in 0..(n + 1) PROVE g[i] = IF i = 0 THEN start ELSE next(g[i - 1], i)
    <3>1. CASE i = n + 1
      <4>1. i # 0 /\ i - 1 = n /\ n \in 0..(n + 1) /\ n # n + 1
        BY <3>1
      <4>q. QED
        BY <3>1, <4>1
    <3>2. CASE i = 0
      BY <2>1, <3>2
    <3>3. CASE i \in 1..n
      <4>1. g[i] = f[i] /\ g[i - 1] = f[i - 1] /\ i \in 0..n /\ i # 0
        BY <3>3
      <4>q. QED
        BY <2>1, <4>1
    <3>q. QED
      BY <3>1, <3>2, <3>3
  <2>3. to(g, n + 1)
    BY <2>2
  <2> HIDE DEF g
  <2>4. n + 1 \in Nat /\ \E h : to(h, n + 1)
    BY <2>3
  <2>q. QED
    BY <2>4
<1>3. Len(order) \in S
  <2>1. \A i \in 0..(Len(order) - 1) : i \in S => i + 1 \in S
    BY <1>2
  <2> HIDE DEF S
  <2>2. \A i \in 0..Len(order) : i \in S
    BY <1>1, <2>1, Upwards
  <2>q. QED
    BY <2>2
<1>q. QED
  BY <1>3 DEF next

LEMMA RoundsAre ==
  ASSUME NEW start, NEW order, Len(order) \in Nat, NEW acks, NEW supply, NEW broken
  PROVE  LET r == Rounds(start, order, acks, supply, broken)
         IN /\ r[0] = start
            /\ \A i \in 0..(Len(order) - 1) : r[i + 1] = Turn(r[i], order[i + 1], acks, supply, broken)
<1> DEFINE r == Rounds(start, order, acks, supply, broken)
           next(a, i) == Turn(a, order[i], acks, supply, broken)
<1>1. r = [i \in 0..Len(order) |-> IF i = 0 THEN start ELSE next(r[i - 1], i)]
  BY RoundsExist DEF Rounds
<1> HIDE DEF r, next
<1>2. r[0] = start
  BY <1>1
<1>3. ASSUME NEW i \in 0..(Len(order) - 1) PROVE r[i + 1] = next(r[i], i + 1)
  <2>1. i + 1 \in 0..Len(order) /\ i + 1 # 0 /\ (i + 1) - 1 = i
    OBVIOUS
  <2>q. QED
    BY <1>1, <2>1
<1>q. QED
  BY <1>2, <1>3 DEF r, next

(* Messages for t out of y come after those of x, which says nothing of it  *)
(* of this kind.                                                            *)
LEMMA CountsJoined ==
  ASSUME NEW x \in Seq(Messages), NEW y \in Seq(Messages), NEW t, NEW ty, Numbered(ty),
         NEW from \in Nat, NEW lo \in Nat, NEW hi \in Nat, from <= lo, lo <= hi,
         Counts(x, t, ty, from, lo), Counts(y, t, ty, lo, hi)
  PROVE  Counts(x \o y, t, ty, from, hi)
<1> DEFINE z == x \o y
<1>1. /\ Len(x) \in Nat /\ DOMAIN x = 1..Len(x) /\ DOMAIN y \subseteq Int /\ DOMAIN z \subseteq Int
      /\ \A i \in DOMAIN x : i \in DOMAIN z /\ z[i] = x[i]
      /\ \A i \in DOMAIN y : Len(x) + i \in DOMAIN z /\ z[Len(x) + i] = y[i]
      /\ \A i \in DOMAIN z : \/ i \in DOMAIN x /\ z[i] = x[i]
                             \/ i > Len(x) /\ i - Len(x) \in DOMAIN y /\ z[i] = y[i - Len(x)]
  BY Joined, SMTT(60)
<1> HIDE DEF z
<1>2. \A i \in DOMAIN x : At(x, i, t, ty) => x[i].seq \in Nat /\ x[i].seq >= from /\ x[i].seq < lo
  BY NumberedAt DEF Counts
<1>3. \A i \in DOMAIN y : At(y, i, t, ty) => y[i].seq \in Nat /\ y[i].seq >= lo /\ y[i].seq < hi
  BY NumberedAt DEF Counts
<1>4. \A i \in DOMAIN z : At(z, i, t, ty) =>
        \/ i \in DOMAIN x /\ At(x, i, t, ty) /\ z[i] = x[i]
        \/ i > Len(x) /\ i - Len(x) \in DOMAIN y /\ At(y, i - Len(x), t, ty) /\ z[i] = y[i - Len(x)]
  BY <1>1 DEF At
<1>5. ASSUME NEW i \in DOMAIN z, At(z, i, t, ty) PROVE z[i].seq >= from /\ z[i].seq < hi
  <2>1. CASE i \in DOMAIN x /\ At(x, i, t, ty) /\ z[i] = x[i]
    BY <1>2, <2>1
  <2>2. CASE i - Len(x) \in DOMAIN y /\ At(y, i - Len(x), t, ty) /\ z[i] = y[i - Len(x)]
    BY <1>3, <2>2
  <2>q. QED
    BY <1>4, <1>5, <2>1, <2>2
<1>6. ASSUME NEW i \in DOMAIN z, NEW j \in DOMAIN z, i < j, At(z, i, t, ty), At(z, j, t, ty)
      PROVE  z[i].seq < z[j].seq
  <2>1. CASE j \in DOMAIN x /\ At(x, j, t, ty) /\ z[j] = x[j]
    <3>1. i \in DOMAIN x /\ At(x, i, t, ty) /\ z[i] = x[i]
      BY <1>1, <1>4, <1>6, <2>1
    <3>q. QED
      BY <1>6, <2>1, <3>1 DEF Counts
  <2>2. CASE j - Len(x) \in DOMAIN y /\ At(y, j - Len(x), t, ty) /\ z[j] = y[j - Len(x)]
    <3>1. CASE i \in DOMAIN x /\ At(x, i, t, ty) /\ z[i] = x[i]
      BY <1>2, <1>3, <2>2, <3>1
    <3>2. CASE i - Len(x) \in DOMAIN y /\ At(y, i - Len(x), t, ty) /\ z[i] = y[i - Len(x)]
      <4>1. i - Len(x) < j - Len(x)
        BY <1>1, <1>6
      <4>q. QED
        BY <2>2, <3>2, <4>1 DEF Counts
    <3>q. QED
      BY <1>4, <1>6, <3>1, <3>2
  <2>q. QED
    BY <1>4, <1>6, <2>1, <2>2
<1>7. ASSUME NEW k \in from..(hi - 1) PROVE \E i \in DOMAIN z : At(z, i, t, ty) /\ z[i].seq = k
  <2>1. CASE k < lo
    <3>1. k \in from..(lo - 1)
      BY <2>1
    <3>2. PICK i \in DOMAIN x : At(x, i, t, ty) /\ x[i].seq = k
      BY <3>1 DEF Counts
    <3>q. QED
      BY <1>1, <3>2 DEF At
  <2>2. CASE ~(k < lo)
    <3>1. k \in lo..(hi - 1)
      BY <2>2
    <3>2. PICK i \in DOMAIN y : At(y, i, t, ty) /\ y[i].seq = k
      BY <3>1 DEF Counts
    <3>3. Len(x) + i \in DOMAIN z /\ z[Len(x) + i] = y[i]
      BY <1>1
    <3>q. QED
      BY <3>2, <3>3 DEF At
  <2>q. QED
    BY <2>1, <2>2
<1>q. QED
  BY <1>5, <1>6, <1>7 DEF Counts, z

(* Which transfers have had their turn.                                     *)
HadTurn(order, k) == {order[j] : j \in 1..k}

(* The pump after k turns.                                                  *)
RoundOK(r, order, k, mine, acks) ==
  /\ r.budget \in Nat /\ r.sent \in [Transfers -> Nat] /\ r.chunks \in Seq(Messages)
  /\ \A t \in Transfers :
       /\ sent[t] <= r.sent[t] /\ r.sent[t] <= Size[t] /\ r.sent[t] - acks[t] <= Window
       /\ t \notin HadTurn(order, k) => r.sent[t] = sent[t]
       /\ Counts(r.chunks, t, "data", sent[t], r.sent[t])
  /\ \A i \in DOMAIN r.chunks : r.chunks[i].type = "data" /\ r.chunks[i].id \in HadTurn(order, k)
  /\ Cardinality(InFlight(mine, acks, r.sent)) + r.budget <= Budget
  /\ \A t \in r.failed : t \in HadTurn(order, k) /\ t \in Transfers /\ r.sent[t] < Size[t]

(* The chunks of one turn.                                                  *)
ChunksOf(t, lo, n) == [i \in 1..n |-> DataMsg(t, lo + i - 1)]

LEMMA ChunksSaid ==
  ASSUME NEW t \in Transfers, NEW lo \in Nat, NEW n \in Nat
  PROVE  /\ ChunksOf(t, lo, n) \in Seq(Messages)
         /\ \A i \in DOMAIN ChunksOf(t, lo, n) : ChunksOf(t, lo, n)[i].type = "data" /\ ChunksOf(t, lo, n)[i].id = t
         /\ Counts(ChunksOf(t, lo, n), t, "data", lo, lo + n)
<1> DEFINE y == [i \in 1..n |-> DataMsg(t, lo + i - 1)]
<1>1. \A i \in 1..n : DataMsg(t, lo + i - 1) \in Messages
  BY DEF DataMsg, Messages
<1>2. y \in Seq(Messages) /\ DOMAIN y = 1..n
  BY <1>1, IsASeq
<1>3. \A i \in 1..n : y[i].type = "data" /\ y[i].id = t /\ y[i].seq = lo + i - 1
  BY DEF DataMsg
<1> HIDE DEF y
<1>4. ASSUME NEW k \in lo..(lo + n - 1) PROVE \E i \in DOMAIN y : At(y, i, t, "data") /\ y[i].seq = k
  <2>1. k - lo + 1 \in 1..n /\ lo + (k - lo + 1) - 1 = k
    OBVIOUS
  <2>q. QED
    BY <1>2, <1>3, <2>1 DEF At
<1>5. \A i \in DOMAIN y : y[i].seq >= lo /\ y[i].seq < lo + n
  BY <1>2, <1>3
<1>6. \A i, j \in DOMAIN y : i < j => y[i].seq < y[j].seq
  BY <1>2, <1>3
<1>7. Counts(y, t, "data", lo, lo + n)
  <2> DEFINE hi == lo + n
  <2>1. \A k \in lo..(hi - 1) : \E i \in DOMAIN y : At(y, i, t, "data") /\ y[i].seq = k
    BY <1>4
  <2>2. \A i \in DOMAIN y : y[i].seq >= lo /\ y[i].seq < hi
    BY <1>5
  <2> HIDE DEF hi
  <2>3. Counts(y, t, "data", lo, hi)
    BY <1>6, <2>1, <2>2 DEF Counts
  <2>q. QED
    BY <2>3 DEF hi
<1>q. QED
  BY <1>2, <1>3, <1>7 DEF y, ChunksOf

LEMMA RoomIs ==
  ASSUME TypeOK, NEW t \in Transfers, NEW acks, acks[t] \in Nat, sent[t] - acks[t] <= Window
  PROVE  /\ Room(t, acks) \in Nat
         /\ Room(t, acks) <= Window - (sent[t] - acks[t]) /\ Room(t, acks) <= Size[t] - sent[t]
<1>1. sent[t] \in Nat /\ Size[t] \in Nat /\ sent[t] <= Size[t] /\ Window \in Nat
  BY Typed, TransferAssumption
<1> DEFINE a == Window - (sent[t] - acks[t])
           b == Size[t] - sent[t]
<1>2. a \in Nat /\ b \in Nat
  BY <1>1
<1>3. Room(t, acks) = Min({a, b})
  BY DEF Room
<1> HIDE DEF a, b
<1>4. Room(t, acks) = IF a <= b THEN a ELSE b
  BY <1>2, <1>3, LeastOfTwo
<1>5. Room(t, acks) \in Nat /\ Room(t, acks) <= a /\ Room(t, acks) <= b
  BY <1>2, <1>4
<1>q. QED
  BY <1>5 DEF a, b

LEMMA TurnKeeps ==
  ASSUME TypeOK, NEW mine, mine \subseteq Transfers, NEW acks, \A t \in Transfers : acks[t] \in Nat,
         WindowOK(acks), NEW order, NEW k \in Nat, \A j \in 1..(k + 1) : order[j] \in mine,
         \A j \in 1..k : order[j] # order[k + 1],
         NEW supply, supply[order[k + 1]] \in Nat, NEW broken, NEW r, RoundOK(r, order, k, mine, acks)
  PROVE  RoundOK(Turn(r, order[k + 1], acks, supply, broken), order, k + 1, mine, acks)
<1> DEFINE t == order[k + 1]
           open == Min({r.budget, Room(t, acks)})
           n == Min({open, supply[t]})
           w == ChunksOf(t, sent[t], n)
           s == Turn(r, t, acks, supply, broken)
           had == HadTurn(order, k)
<1>1. /\ t \in mine /\ t \in Transfers /\ t \notin had /\ HadTurn(order, k + 1) = had \cup {t}
      /\ sent[t] \in Nat /\ Size[t] \in Nat /\ acks[t] \in Nat /\ supply[t] \in Nat
  <2>1. k + 1 \in 1..(k + 1) /\ \A j \in 1..(k + 1) : j \in 1..k \/ j = k + 1
    OBVIOUS
  <2>2. 1..k \subseteq 1..(k + 1)
    OBVIOUS
  <2>3. HadTurn(order, k + 1) = had \cup {t}
    BY <2>1, <2>2 DEF HadTurn
  <2>4. t \in mine /\ t \notin had
    BY <2>1 DEF HadTurn
  <2>q. QED
    BY <2>3, <2>4, Typed
<1>2. /\ Room(t, acks) \in Nat
      /\ Room(t, acks) <= Window - (sent[t] - acks[t]) /\ Room(t, acks) <= Size[t] - sent[t]
  BY <1>1, RoomIs DEF WindowOK
<1>3. r.budget \in Nat
  BY DEF RoundOK
<1> HIDE DEF t
<1>4. open \in Nat /\ open <= r.budget /\ open <= Room(t, acks)
  <2>1. open = IF r.budget <= Room(t, acks) THEN r.budget ELSE Room(t, acks)
    BY <1>2, <1>3, LeastOfTwo
  <2>q. QED
    BY <1>2, <1>3, <2>1
<1> HIDE DEF open
<1>5. n \in Nat /\ n <= open
  <2>1. n = IF open <= supply[t] THEN open ELSE supply[t]
    BY <1>1, <1>4, LeastOfTwo
  <2>q. QED
    BY <1>1, <1>4, <2>1
<1>6. /\ s.budget = r.budget - n /\ s.sent = [r.sent EXCEPT ![t] = @ + n]
      /\ s.chunks = r.chunks \o w
      /\ s.failed = r.failed \cup (IF t \in broken /\ n < open THEN {t} ELSE {})
  BY DEF Turn, open, ChunksOf
<1> HIDE DEF n, s
<1>7. /\ r.sent \in [Transfers -> Nat] /\ r.chunks \in Seq(Messages) /\ r.sent[t] = sent[t]
      /\ \A i \in DOMAIN r.chunks : r.chunks[i].type = "data" /\ r.chunks[i].id \in had
  BY <1>1 DEF RoundOK
<1>8. /\ s.sent \in [Transfers -> Nat] /\ s.sent[t] = sent[t] + n
      /\ \A u \in Transfers : s.sent[u] = IF u = t THEN r.sent[u] + n ELSE r.sent[u]
  BY <1>1, <1>5, <1>6, <1>7
<1>9. /\ w \in Seq(Messages) /\ Counts(w, t, "data", sent[t], sent[t] + n)
      /\ \A i \in DOMAIN w : w[i].type = "data" /\ w[i].id = t
  BY <1>1, <1>5, ChunksSaid, ZenonT(60)
<1> HIDE DEF w
<1>10. s.budget \in Nat
  BY <1>3, <1>4, <1>5, <1>6
<1>11. ASSUME NEW u \in Transfers
       PROVE  /\ sent[u] <= s.sent[u] /\ s.sent[u] <= Size[u] /\ s.sent[u] - acks[u] <= Window
              /\ u \notin HadTurn(order, k + 1) => s.sent[u] = sent[u]
  <2>1. CASE u = t
    BY <1>1, <1>2, <1>4, <1>5, <1>8, <2>1, TransferAssumption
  <2>2. CASE u # t
    BY <1>1, <1>8, <2>2 DEF RoundOK
  <2>q. QED
    BY <2>1, <2>2
<1>12. ASSUME NEW u \in Transfers PROVE Counts(s.chunks, u, "data", sent[u], s.sent[u])
  <2>0. sent[u] \in Nat /\ r.sent[u] \in Nat /\ Numbered("data") /\ Counts(r.chunks, u, "data", sent[u], r.sent[u])
    BY <1>7, Typed DEF Numbered, RoundOK
  <2>1. CASE u = t
    <3>1. sent[t] \in Nat /\ sent[t] + n \in Nat /\ sent[t] <= sent[t] /\ sent[t] <= sent[t] + n
      BY <1>1, <1>5
    <3>2. Counts(r.chunks, t, "data", sent[t], sent[t])
      BY <1>7, <2>0, <2>1
    <3> DEFINE hi == sent[t] + n
    <3>3. Counts(w, t, "data", sent[t], hi) /\ hi \in Nat /\ sent[t] <= hi
      BY <1>9, <3>1
    <3> HIDE DEF hi
    <3>4. Counts(r.chunks \o w, t, "data", sent[t], hi)
      BY <1>7, <1>9, <2>0, <3>1, <3>2, <3>3, CountsJoined
    <3>q. QED
      BY <1>6, <1>8, <2>1, <3>4 DEF hi
  <2>2. CASE u # t
    <3>1. Silent(w, u)
      BY <1>9, <2>2 DEF Silent
    <3>2. SameFor(r.chunks, r.chunks \o w, u)
      BY <1>7, <1>9, <3>1, SilentJoined
    <3>3. Counts(r.chunks \o w, u, "data", sent[u], r.sent[u])
      BY <2>0, <3>2 DEF SameFor
    <3>q. QED
      BY <1>6, <1>8, <2>2, <3>3
  <2>q. QED
    BY <2>1, <2>2
<1>13. /\ s.chunks \in Seq(Messages)
       /\ \A i \in DOMAIN s.chunks : s.chunks[i].type = "data" /\ s.chunks[i].id \in HadTurn(order, k + 1)
  <2>1. /\ r.chunks \o w \in Seq(Messages)
        /\ \A i \in DOMAIN (r.chunks \o w) : \/ i \in DOMAIN r.chunks /\ (r.chunks \o w)[i] = r.chunks[i]
                                             \/ i - Len(r.chunks) \in DOMAIN w /\ (r.chunks \o w)[i] = w[i - Len(r.chunks)]
    BY <1>7, <1>9, Joined
  <2> DEFINE c == r.chunks
             d == c \o w
  <2>2. d \in Seq(Messages) /\ \A i \in DOMAIN d : (i \in DOMAIN c /\ d[i] = c[i]) \/ (i - Len(c) \in DOMAIN w /\ d[i] = w[i - Len(c)])
    BY <2>1
  <2>3. \A i \in DOMAIN c : c[i].type = "data" /\ c[i].id \in had
    BY <1>7
  <2>4. s.chunks = d
    BY <1>6
  <2> HIDE DEF c, d, had
  <2>5. \A i \in DOMAIN d : d[i].type = "data" /\ d[i].id \in had \cup {t}
    BY <1>9, <2>2, <2>3, ZenonT(60)
  <2>q. QED
    BY <1>1, <2>2, <2>4, <2>5
<1>14. Cardinality(InFlight(mine, acks, s.sent)) + s.budget <= Budget
  <2> DEFINE before == r.sent
             after == s.sent
  <2>1. \A u \in Transfers : acks[u] \in Nat /\ before[u] \in Nat /\ after[u] \in Nat
    BY <1>7, <1>8
  <2>2. \A u \in Transfers : after[u] = IF u = t THEN before[u] + n ELSE before[u]
    BY <1>8
  <2>3. Cardinality(InFlight(mine, acks, before)) + r.budget <= Budget
    BY DEF RoundOK
  <2> HIDE DEF before, after
  <2>4. Cardinality(InFlight(mine, acks, after)) <= Cardinality(InFlight(mine, acks, before)) + n
    BY <1>1, <1>5, <2>1, <2>2, InFlightMore
  <2>5. /\ Cardinality(InFlight(mine, acks, before)) \in Nat
        /\ Cardinality(InFlight(mine, acks, after)) \in Nat
    BY <2>1, InFlightFinite, FS_CardinalityType
  <2>6. Cardinality(InFlight(mine, acks, after)) + s.budget <= Budget
    BY <1>3, <1>5, <1>6, <2>3, <2>4, <2>5, TransferAssumption, SMTT(60)
  <2>q. QED
    BY <2>6 DEF after
<1>15. ASSUME NEW u \in s.failed PROVE u \in HadTurn(order, k + 1) /\ u \in Transfers /\ s.sent[u] < Size[u]
  <2>1. CASE u = t /\ n < open
    BY <1>1, <1>2, <1>4, <1>5, <1>8, <2>1
  <2>2. CASE u \in r.failed
    <3>1. u # t
      BY <1>1, <2>2 DEF RoundOK
    <3>q. QED
      BY <1>1, <1>8, <2>2, <3>1 DEF RoundOK
  <2>q. QED
    BY <1>6, <2>1, <2>2
<1>16. RoundOK(s, order, k + 1, mine, acks)
  BY <1>8, <1>10, <1>11, <1>12, <1>13, <1>14, <1>15 DEF RoundOK
<1>q. QED
  BY <1>16 DEF s, t

(* After every turn, in whichever order the transfers take theirs.          *)
LEMMA TurnsAre ==
  ASSUME NEW S, S \subseteq Transfers, NEW order \in Turns(S)
  PROVE  /\ Len(order) \in Nat
         /\ \A j \in 1..Len(order) : order[j] \in S
         /\ \A j, k \in 1..Len(order) : j # k => order[j] # order[k]
<1>1. Cardinality(S) \in Nat
  BY TransferAssumption, FS_Subset, FS_CardinalityType
<1>2. /\ order \in [1..Cardinality(S) -> S]
      /\ \A j, k \in 1..Cardinality(S) : j # k => order[j] # order[k]
  BY DEF Turns, SetToSeqs
<1>3. Len(order) = Cardinality(S)
  BY <1>1, <1>2
<1>q. QED
  BY <1>1, <1>2, <1>3

LEMMA RoundsKeep ==
  ASSUME TypeOK, NEW mine, mine \subseteq Transfers, NEW acks, \A t \in Transfers : acks[t] \in Nat,
         WindowOK(acks), NEW able, able \subseteq mine, NEW order \in Turns(able),
         NEW supply, \A t \in able : supply[t] \in Nat, NEW broken, NEW start, RoundOK(start, order, 0, mine, acks)
  PROVE  RoundOK(Rounds(start, order, acks, supply, broken)[Len(order)], order, Len(order), mine, acks)
<1> DEFINE r == Rounds(start, order, acks, supply, broken)
           N == Len(order)
           S == {k \in 0..N : RoundOK(r[k], order, k, mine, acks)}
<1>1. /\ N \in Nat
      /\ \A j \in 1..N : order[j] \in able
      /\ \A j, k \in 1..N : j # k => order[j] # order[k]
  BY TurnsAre
<1>2. /\ r[0] = start
      /\ \A i \in 0..(N - 1) : r[i + 1] = Turn(r[i], order[i + 1], acks, supply, broken)
  BY <1>1, RoundsAre
<1> HIDE DEF r, N
<1>3. 0 \in S
  BY <1>1, <1>2
<1>4. ASSUME NEW k \in 0..(N - 1), k \in S PROVE k + 1 \in S
  <2>1. k \in Nat /\ k + 1 \in 0..N /\ k + 1 \in 1..N /\ 1..(k + 1) \subseteq 1..N
    BY <1>1
  <2>2. /\ \A j \in 1..(k + 1) : order[j] \in mine
        /\ \A j \in 1..k : order[j] # order[k + 1]
        /\ supply[order[k + 1]] \in Nat
    BY <1>1, <2>1
  <2>3. RoundOK(Turn(r[k], order[k + 1], acks, supply, broken), order, k + 1, mine, acks)
    BY <1>4, <2>1, <2>2, TurnKeeps
  <2>q. QED
    BY <1>2, <2>1, <2>3
<1>5. N \in S
  <2> HIDE DEF S
  <2>1. \A k \in 0..N : k \in S
    BY <1>1, <1>3, <1>4, Upwards
  <2>q. QED
    BY <1>1, <2>1
<1>q. QED
  BY <1>5 DEF r, N

(* What the pump may do: which transfers break off, and the chunks sent.    *)
PumpSays(e, ready, acks, inbox, done, bad, broken, chunks) ==
  LET mine == sending \cap From(e)
  IN /\ broken \subseteq ready \cap mine
     /\ faults + Cardinality(broken) <= MaxFaults
     /\ faults' = faults + Cardinality(broken)
     /\ sending' = sending \ broken
     /\ sent' = [t \in Transfers |-> sent'[t]]
     /\ \A t \in Transfers :
          /\ sent'[t] \in Nat /\ sent[t] <= sent'[t] /\ sent'[t] <= Size[t] /\ sent'[t] - acks[t] <= Window
          /\ t \notin ready \cap mine => sent'[t] = sent[t]
          /\ t \in broken => sent'[t] < Size[t]
          /\ Counts(chunks, t, "data", sent[t], sent'[t])
     /\ chunks \in Seq(Messages)
     /\ \A i \in DOMAIN chunks : chunks[i].type = "data" /\ chunks[i].id \in ready \cap mine
     /\ Cardinality(InFlight(mine, acks, sent')) <= Budget
     /\ net' = [net EXCEPT ![e] = inbox,
                  ![Other(e)] = @ \o EndsOf(done, done \ bad) \o chunks \o EndsOf(broken, {})]
     /\ verdict' = [verdict EXCEPT ![e] = [t \in Transfers |->
          IF t \in bad \cup broken THEN "failed" ELSE IF t \in done THEN "completed" ELSE @[t]]]

LEMMA PumpDoes ==
  ASSUME TypeOK, NEW e \in Ends, NEW ready, NEW acks, \A t \in Transfers : acks[t] \in Nat, WindowOK(acks),
         NEW least \in Nat, NEW inbox, NEW done, NEW bad, Pump(e, ready, acks, least, inbox, done, bad)
  PROVE  \E broken, chunks : PumpSays(e, ready, acks, inbox, done, bad, broken, chunks)
<1> DEFINE mine == sending \cap From(e)
           budget == BudgetLeft(mine, acks)
           able == {t \in ready \cap mine : budget > 0 /\ Room(t, acks) > 0}
           start == [budget |-> budget, sent |-> sent, chunks |-> <<>>, failed |-> {}]
<1>1. PICK order \in Turns(able), broken \in SUBSET able :
        /\ faults + Cardinality(broken) <= MaxFaults
        /\ faults' = faults + Cardinality(broken)
        /\ \E supply \in Supplies(e, able, broken, least) :
             LET r == Rounds(start, order, acks, supply, broken)[Len(order)]
             IN /\ r.failed = broken
                /\ sent' = r.sent
                /\ sending' = sending \ broken
                /\ net' = [net EXCEPT ![e] = inbox,
                             ![Other(e)] = @ \o EndsOf(done, done \ bad) \o r.chunks \o EndsOf(broken, {})]
                /\ verdict' = [verdict EXCEPT ![e] = [t \in Transfers |->
                     IF t \in bad \cup broken THEN "failed"
                     ELSE IF t \in done THEN "completed" ELSE @[t]]]
  BY DEF Pump
<1>2. PICK supply \in Supplies(e, able, broken, least) :
        LET r == Rounds(start, order, acks, supply, broken)[Len(order)]
        IN /\ r.failed = broken
           /\ sent' = r.sent
           /\ sending' = sending \ broken
           /\ net' = [net EXCEPT ![e] = inbox,
                        ![Other(e)] = @ \o EndsOf(done, done \ bad) \o r.chunks \o EndsOf(broken, {})]
           /\ verdict' = [verdict EXCEPT ![e] = [t \in Transfers |->
                IF t \in bad \cup broken THEN "failed"
                ELSE IF t \in done THEN "completed" ELSE @[t]]]
  BY <1>1
<1> DEFINE r == Rounds(start, order, acks, supply, broken)[Len(order)]
<1>3. /\ r.failed = broken /\ sent' = r.sent /\ sending' = sending \ broken
      /\ net' = [net EXCEPT ![e] = inbox,
                   ![Other(e)] = @ \o EndsOf(done, done \ bad) \o r.chunks \o EndsOf(broken, {})]
      /\ verdict' = [verdict EXCEPT ![e] = [t \in Transfers |->
           IF t \in bad \cup broken THEN "failed" ELSE IF t \in done THEN "completed" ELSE @[t]]]
      /\ faults + Cardinality(broken) <= MaxFaults /\ faults' = faults + Cardinality(broken)
  BY <1>1, <1>2
<1>4. /\ mine \subseteq Transfers /\ able \subseteq mine /\ able \subseteq ready \cap mine /\ broken \subseteq able
      /\ Cardinality(InFlight(mine, acks, sent)) \in Nat /\ Cardinality(InFlight(mine, acks, sent)) <= Budget
      /\ sent \in [Transfers -> Nat]
  <2>1. mine \subseteq Transfers /\ sent \in [Transfers -> Nat]
    BY DEF From, TypeOK
  <2> HIDE DEF mine
  <2>2. Cardinality(InFlight(mine, acks, sent)) \in Nat
    BY <2>1, InFlightFinite, FS_CardinalityType
  <2>q. QED
    BY <2>1, <2>2 DEF WindowOK, mine
<1>5. budget = Budget - Cardinality(InFlight(mine, acks, sent)) /\ budget \in Nat
  <2> DEFINE a == Budget - Cardinality(InFlight(mine, acks, sent))
  <2>1. a \in Nat
    BY <1>4, TransferAssumption
  <2>2. budget = Max({0, a})
    BY DEF BudgetLeft
  <2> HIDE DEF a, budget
  <2>3. budget = a
    BY <2>1, <2>2, NoLessThanZero
  <2>q. QED
    BY <2>1, <2>3 DEF a
<1>6. \A t \in able : supply[t] \in Nat
  <2>1. CASE e = "server"
    <3>1. supply \in [able -> least..Budget]
      BY <1>2, <2>1 DEF Supplies
    <3>q. QED
      BY <3>1, TransferAssumption
  <2>2. CASE e # "server"
    <3>1. supply \in [able -> 0..Budget]
      BY <1>2, <2>2 DEF Supplies
    <3>q. QED
      BY <3>1, TransferAssumption
  <2>q. QED
    BY <2>1, <2>2
<1> HIDE DEF mine, budget, able
<1>7. RoundOK(start, order, 0, mine, acks)
  <2>1. start.budget = budget /\ start.sent = sent /\ start.chunks = <<>> /\ start.failed = {}
    OBVIOUS
  <2> HIDE DEF start
  <2>2. <<>> \in Seq(Messages) /\ DOMAIN <<>> = {} /\ \A t : ~Has(<<>>, t, "data")
    BY DEF Has
  <2>3. ASSUME NEW t \in Transfers
        PROVE  /\ sent[t] <= start.sent[t] /\ start.sent[t] <= Size[t] /\ start.sent[t] - acks[t] <= Window
               /\ t \notin HadTurn(order, 0) => start.sent[t] = sent[t]
               /\ Counts(start.chunks, t, "data", sent[t], start.sent[t])
    <3>1. sent[t] \in Nat /\ sent[t] <= Size[t] /\ sent[t] <= sent[t] /\ sent[t] - acks[t] <= Window
      BY Typed DEF WindowOK
    <3>2. Counts(<<>>, t, "data", sent[t], sent[t])
      BY <2>2, <3>1, CountsNone
    <3>q. QED
      BY <2>1, <3>1, <3>2
  <2>4. Cardinality(InFlight(mine, acks, start.sent)) + start.budget <= Budget
    BY <1>4, <1>5, <2>1, TransferAssumption
  <2>q. QED
    BY <1>4, <1>5, <2>1, <2>2, <2>3, <2>4 DEF RoundOK
<1>8. RoundOK(r, order, Len(order), mine, acks)
  <2> HIDE DEF start
  <2>1. able \subseteq mine /\ mine \subseteq Transfers /\ order \in Turns(able)
    BY <1>4
  <2>q. QED
    BY <1>6, <1>7, <2>1, RoundsKeep
<1>9. HadTurn(order, Len(order)) \subseteq able
  BY <1>4, TurnsAre DEF HadTurn
<1> DEFINE chunks == r.chunks
<1> HIDE DEF r, start
<1>10. \A t \in Transfers :
          /\ sent'[t] \in Nat /\ sent[t] <= sent'[t] /\ sent'[t] <= Size[t] /\ sent'[t] - acks[t] <= Window
          /\ t \notin ready \cap mine => sent'[t] = sent[t]
          /\ t \in broken => sent'[t] < Size[t]
          /\ Counts(chunks, t, "data", sent[t], sent'[t])
  BY <1>3, <1>4, <1>8, <1>9 DEF RoundOK
<1>11. Cardinality(InFlight(mine, acks, sent')) <= Budget
  <2>1. sent' = r.sent /\ \A t \in Transfers : r.sent[t] \in Nat
    BY <1>3, <1>8 DEF RoundOK
  <2>2. Cardinality(InFlight(mine, acks, r.sent)) \in Nat
    <3> DEFINE s == r.sent
    <3>1. \A t \in Transfers : acks[t] \in Nat /\ s[t] \in Nat
      BY <2>1
    <3> HIDE DEF s
    <3>2. Cardinality(InFlight(mine, acks, s)) \in Nat
      BY <1>4, <3>1, InFlightFinite, FS_CardinalityType
    <3>q. QED
      BY <3>2 DEF s
  <2>q. QED
    BY <1>8, <2>1, <2>2, TransferAssumption DEF RoundOK
<1>12. /\ chunks \in Seq(Messages) /\ sent' = [t \in Transfers |-> sent'[t]]
       /\ \A i \in DOMAIN chunks : chunks[i].type = "data" /\ chunks[i].id \in ready \cap mine
  BY <1>3, <1>4, <1>8, <1>9 DEF RoundOK
<1>13. PumpSays(e, ready, acks, inbox, done, bad, broken, chunks)
  BY <1>3, <1>4, <1>10, <1>11, <1>12 DEF PumpSays, mine
<1>q. QED
  BY <1>13

-----------------------------------------------------------------------------
(* What the pump adds to a stream: the ends of those that are done, the     *)
(* chunks, and the ends of those whose source failed.                       *)

(* All that is said of t is said in y as it is in x, and in that order.     *)
LEMMA SameAlike ==
  ASSUME NEW x \in Seq(Messages), NEW y \in Seq(Messages), NEW t, NEW g,
         \A i \in DOMAIN x : x[i].id = t => \E j \in DOMAIN y : y[j] = x[i],
         \A j \in DOMAIN y : y[j].id = t => g[j] \in DOMAIN x /\ y[j] = x[g[j]],
         \A i, j \in DOMAIN y : y[i].id = t /\ y[j].id = t /\ i < j => g[i] < g[j]
  PROVE  SameFor(x, y, t)
<1>1. /\ DOMAIN x \subseteq Int /\ DOMAIN y \subseteq Int
  BY LenProperties
<1>2. \A i \in DOMAIN x : \A ty : At(x, i, t, ty) => \E j \in DOMAIN y : At(y, j, t, ty) /\ y[j] = x[i]
  BY DEF At
<1>3. \A j \in DOMAIN y : \A ty : At(y, j, t, ty) => g[j] \in DOMAIN x /\ At(x, g[j], t, ty) /\ y[j] = x[g[j]]
  BY DEF At
<1>4. \A ty : Has(y, t, ty) <=> Has(x, t, ty)
  BY <1>2, <1>3 DEF Has
<1>5. \A m : m.id = t => (Says(y, m) <=> Says(x, m))
  BY DEF Says
<1>6. Handshake(y, t) <=> Handshake(x, t)
  BY DEF Handshake, HandshakeAt
<1>7. OneHandshake(x, t) => OneHandshake(y, t)
  <2> SUFFICES ASSUME OneHandshake(x, t), NEW i \in DOMAIN y, NEW j \in DOMAIN y,
                      HandshakeAt(y, i, t), HandshakeAt(y, j, t)
               PROVE  i = j
    BY DEF OneHandshake
  <2>1. /\ g[i] \in DOMAIN x /\ HandshakeAt(x, g[i], t) /\ y[i].id = t
        /\ g[j] \in DOMAIN x /\ HandshakeAt(x, g[j], t) /\ y[j].id = t
    BY DEF HandshakeAt
  <2>2. g[i] = g[j]
    BY <2>1 DEF OneHandshake
  <2>3. ~(i < j) /\ ~(j < i)
    BY <1>1, <2>1, <2>2
  <2>q. QED
    BY <1>1, <2>3
<1>8. \A a, b : Precedes(x, t, a, b) => Precedes(y, t, a, b)
  <2> SUFFICES ASSUME NEW a, NEW b, Precedes(x, t, a, b), NEW i \in DOMAIN y, NEW j \in DOMAIN y,
                      At(y, i, t, a), At(y, j, t, b)
               PROVE  i < j
    BY DEF Precedes
  <2>1. g[i] \in DOMAIN x /\ At(x, g[i], t, a) /\ g[j] \in DOMAIN x /\ At(x, g[j], t, b)
    BY <1>3
  <2>2. g[i] < g[j]
    BY <2>1 DEF Precedes
  <2>3. ~(j < i) /\ i # j
    BY <1>1, <2>1, <2>2 DEF At
  <2>q. QED
    BY <1>1, <2>3
<1>9. \A ty, hi : Below(x, t, ty, hi) => Below(y, t, ty, hi)
  BY <1>3 DEF Below
<1>10. ASSUME NEW ty, Numbered(ty), NEW lo \in Nat, NEW hi \in Nat, Counts(x, t, ty, lo, hi)
       PROVE  Counts(y, t, ty, lo, hi)
  <2>1. \A i \in DOMAIN y : At(y, i, t, ty) => y[i].seq >= lo /\ y[i].seq < hi
    BY <1>3, <1>10 DEF Counts
  <2>2. ASSUME NEW i \in DOMAIN y, NEW j \in DOMAIN y, i < j, At(y, i, t, ty), At(y, j, t, ty)
        PROVE  y[i].seq < y[j].seq
    <3>1. /\ g[i] \in DOMAIN x /\ At(x, g[i], t, ty) /\ y[i] = x[g[i]]
          /\ g[j] \in DOMAIN x /\ At(x, g[j], t, ty) /\ y[j] = x[g[j]]
      BY <1>3, <2>2
    <3>2. g[i] < g[j]
      BY <2>2 DEF At
    <3>3. x[g[i]].seq < x[g[j]].seq
      BY <1>10, <3>1, <3>2 DEF Counts
    <3>q. QED
      BY <3>1, <3>3
  <2>3. \A k \in lo..(hi - 1) : \E i \in DOMAIN y : At(y, i, t, ty) /\ y[i].seq = k
    BY <1>2, <1>10 DEF Counts
  <2>q. QED
    BY <2>1, <2>2, <2>3 DEF Counts
<1>q. QED
  BY <1>4, <1>5, <1>6, <1>7, <1>8, <1>9, <1>10 DEF SameFor

(* Of t, w says m and no more.                                              *)
OnlyOne(w, t, m) == \E k \in DOMAIN w : w[k] = m /\ \A i \in DOMAIN w : i # k => w[i].id # t

LEMMA OneMoreThenSame ==
  ASSUME NEW t \in Transfers, NEW x, NEW y, NEW z, NEW m, OneMoreFor(x, y, t, m), SameFor(y, z, t)
  PROVE  OneMoreFor(x, z, t, m)
<1>1. AcceptMsg(t, FALSE).id = t /\ EndMsg(t, TRUE).id = t /\ EndMsg(t, FALSE).id = t
  BY DEF AcceptMsg, EndMsg
<1>2. Numbered("data") /\ Numbered("ack")
  BY DEF Numbered
<1>3. /\ \A ty : Has(z, t, ty) <=> Has(y, t, ty)
      /\ Says(z, AcceptMsg(t, FALSE)) <=> Says(y, AcceptMsg(t, FALSE))
      /\ Says(z, EndMsg(t, TRUE)) <=> Says(y, EndMsg(t, TRUE))
      /\ Says(z, EndMsg(t, FALSE)) <=> Says(y, EndMsg(t, FALSE))
      /\ Handshake(z, t) <=> Handshake(y, t)
      /\ OneHandshake(y, t) => OneHandshake(z, t)
      /\ \A a, b : Precedes(y, t, a, b) => Precedes(z, t, a, b)
  BY <1>1 DEF SameFor
<1>4. MoreFor(x, z, t, m)
  <2>1. MoreFor(x, y, t, m)
    BY DEF OneMoreFor
  <2>2. \A ty \in {"request", "offer", "accept", "data", "ack", "end"} : Has(x, t, ty) \/ m.type = ty <=> Has(z, t, ty)
    BY <1>3, <2>1 DEF MoreFor
  <2>3. /\ Says(z, AcceptMsg(t, FALSE)) <=> Says(x, AcceptMsg(t, FALSE)) \/ m = AcceptMsg(t, FALSE)
        /\ Says(z, EndMsg(t, TRUE)) <=> Says(x, EndMsg(t, TRUE)) \/ m = EndMsg(t, TRUE)
        /\ Says(z, EndMsg(t, FALSE)) <=> Says(x, EndMsg(t, FALSE)) \/ m = EndMsg(t, FALSE)
    BY <1>3, <2>1, Zenon DEF MoreFor
  <2>4. /\ Handshake(z, t) <=> Handshake(x, t) \/ m.type \in {"request", "offer", "accept"}
        /\ OneHandshake(x, t) /\ ~(Handshake(x, t) /\ m.type \in {"request", "offer", "accept"}) => OneHandshake(z, t)
    BY <1>3, <2>1, Zenon DEF MoreFor
  <2>5. /\ Precedes(x, t, "ack", "end") /\ ~(Has(x, t, "end") /\ m.type = "ack") => Precedes(z, t, "ack", "end")
        /\ Precedes(x, t, "offer", "end") /\ ~(Has(x, t, "end") /\ m.type = "offer") => Precedes(z, t, "offer", "end")
    BY <1>3, <2>1, Zenon DEF MoreFor
  <2>q. QED
    BY <2>2, <2>3, <2>4, <2>5 DEF MoreFor
<1>5. MoreCounted(x, z, t, m)
  BY <1>2 DEF OneMoreFor, MoreCounted, SameFor
<1>q. QED
  BY <1>4, <1>5 DEF OneMoreFor

LEMMA OneAmong ==
  ASSUME NEW t \in Transfers, NEW x \in Seq(Messages), NEW w \in Seq(Messages), NEW m \in Messages, m.id = t,
         OnlyOne(w, t, m)
  PROVE  OneMoreFor(x, x \o w, t, m)
<1> DEFINE y == x \o w
           z == x \o <<m>>
<1>1. PICK k \in DOMAIN w : w[k] = m /\ \A i \in DOMAIN w : i # k => w[i].id # t
  BY DEF OnlyOne
<1>2. /\ z \in Seq(Messages) /\ Len(x) \in Nat /\ DOMAIN x = 1..Len(x)
      /\ \A i \in DOMAIN x : i \in DOMAIN z /\ z[i] = x[i]
      /\ Len(x) + 1 \in DOMAIN z /\ z[Len(x) + 1] = m
      /\ \A i \in DOMAIN z : i \in DOMAIN x \/ i = Len(x) + 1
  BY AddedAt, Joined
<1>3. /\ y \in Seq(Messages) /\ DOMAIN y = 1..(Len(x) + Len(w)) /\ Len(w) \in Nat /\ DOMAIN w = 1..Len(w)
      /\ \A i \in DOMAIN x : i \in DOMAIN y /\ y[i] = x[i]
      /\ \A i \in DOMAIN w : Len(x) + i \in DOMAIN y /\ y[Len(x) + i] = w[i]
      /\ \A i \in DOMAIN y : \/ i \in DOMAIN x /\ y[i] = x[i]
                             \/ i > Len(x) /\ i - Len(x) \in DOMAIN w /\ y[i] = w[i - Len(x)]
  BY Joined
<1>4. OneMoreFor(x, z, t, m)
  BY OneMore
<1> DEFINE g == [j \in DOMAIN y |-> IF j <= Len(x) THEN j ELSE Len(x) + 1]
<1> HIDE DEF y, z
<1>5. \A i \in DOMAIN z : z[i].id = t => \E j \in DOMAIN y : y[j] = z[i]
  <2>1. ASSUME NEW i \in DOMAIN z PROVE \E j \in DOMAIN y : y[j] = z[i]
    <3>1. CASE i \in DOMAIN x
      BY <1>2, <1>3, <3>1
    <3>2. CASE i = Len(x) + 1
      BY <1>1, <1>2, <1>3, <3>2
    <3>q. QED
      BY <1>2, <2>1, <3>1, <3>2
  <2>q. QED
    BY <2>1
<1>6. ASSUME NEW j \in DOMAIN y, y[j].id = t
      PROVE  g[j] \in DOMAIN z /\ y[j] = z[g[j]] /\ (j <= Len(x) \/ j = Len(x) + k)
  <2>1. CASE j \in DOMAIN x
    BY <1>2, <1>3, <2>1
  <2>2. CASE j > Len(x) /\ j - Len(x) \in DOMAIN w /\ y[j] = w[j - Len(x)]
    <3>1. j - Len(x) = k
      BY <1>1, <1>6, <2>2
    <3>2. g[j] = Len(x) + 1 /\ j = Len(x) + k
      BY <1>2, <1>3, <2>2, <3>1
    <3>q. QED
      BY <1>1, <1>2, <2>2, <3>1, <3>2
  <2>q. QED
    BY <1>3, <2>1, <2>2
<1>7. ASSUME NEW i \in DOMAIN y, NEW j \in DOMAIN y, y[i].id = t, y[j].id = t, i < j PROVE g[i] < g[j]
  <2>1. i \in Nat /\ j \in Nat /\ k \in Nat /\ (i <= Len(x) \/ i = Len(x) + k) /\ (j <= Len(x) \/ j = Len(x) + k)
    BY <1>3, <1>6, <1>7
  <2>2. i <= Len(x)
    BY <1>2, <1>3, <1>7, <2>1
  <2>q. QED
    BY <1>2, <1>7, <2>1, <2>2
<1>8. SameFor(z, y, t)
  <2> HIDE DEF g
  <2>1. \A j \in DOMAIN y : y[j].id = t => g[j] \in DOMAIN z /\ y[j] = z[g[j]]
    BY <1>6
  <2>q. QED
    BY <1>2, <1>3, <1>5, <1>7, <2>1, SameAlike, ZenonT(60)
<1>9. OneMoreFor(x, y, t, m)
  BY <1>4, <1>8, OneMoreThenSame
<1>q. QED
  BY <1>9 DEF y

LEMMA Enumerated ==
  ASSUME NEW S, S \subseteq Transfers
  PROVE  /\ Cardinality(S) \in Nat
         /\ \A i \in 1..Cardinality(S) : SetToSeq(S)[i] \in S
         /\ \A i, j \in 1..Cardinality(S) : i # j => SetToSeq(S)[i] # SetToSeq(S)[j]
         /\ \A t \in S : \E i \in 1..Cardinality(S) : SetToSeq(S)[i] = t
<1> DEFINE n == Cardinality(S)
           q == SetToSeq(S)
<1>1. IsFiniteSet(S)
  BY TransferAssumption, FS_Subset
<1>2. n \in Nat /\ ExistsBijection(1..n, S)
  BY <1>1, FS_CardinalityType
<1>3. \E f \in [1..n -> S] : IsInjective(f)
  BY <1>2 DEF ExistsBijection, Bijection, Injection
<1>4. q \in [1..n -> S] /\ IsInjective(q)
  BY <1>3 DEF SetToSeq
<1> HIDE DEF q
<1>5. q \in Injection(1..n, S)
  BY <1>4 DEF Injection
<1>6. IsFiniteSet(1..n) /\ Cardinality(1..n) = n
  <2>1. 1 \in Int /\ n \in Int
    BY <1>2
  <2>2. IsFiniteSet(1..n) /\ Cardinality(1..n) = IF n < 1 THEN 0 ELSE n - 1 + 1
    BY <2>1, FS_Interval
  <2>q. QED
    BY <1>2, <2>2
<1>7. q \in Surjection(1..n, S)
  BY <1>1, <1>5, <1>6, FS_Injection
<1>8. \A t \in S : \E i \in 1..n : q[i] = t
  BY <1>7 DEF Surjection
<1>9. \A i, j \in 1..n : i # j => q[i] # q[j]
  BY <1>4 DEF IsInjective
<1>q. QED
  BY <1>2, <1>4, <1>8, <1>9 DEF q

LEMMA EndsAre ==
  ASSUME NEW S, S \subseteq Transfers, NEW ok
  PROVE  /\ EndsOf(S, ok) \in Seq(Messages)
         /\ \A i \in DOMAIN EndsOf(S, ok) : EndsOf(S, ok)[i].id \in S
         /\ \A t \in S : /\ t \in ok => OnlyOne(EndsOf(S, ok), t, EndMsg(t, TRUE))
                         /\ t \notin ok => OnlyOne(EndsOf(S, ok), t, EndMsg(t, FALSE))
<1> DEFINE n == Cardinality(S)
           q == SetToSeq(S)
           w == EndsOf(S, ok)
<1>1. /\ n \in Nat /\ \A i \in 1..n : q[i] \in S
      /\ \A i, j \in 1..n : i # j => q[i] # q[j]
      /\ \A t \in S : \E i \in 1..n : q[i] = t
  BY Enumerated
<1>2. w = [i \in 1..n |-> EndMsg(q[i], q[i] \in ok)]
  BY DEF EndsOf
<1> HIDE DEF n, q, w
<1>3. ASSUME NEW i \in 1..n
      PROVE  /\ EndMsg(q[i], q[i] \in ok) \in Messages /\ EndMsg(q[i], q[i] \in ok).id = q[i]
             /\ q[i] \in ok => EndMsg(q[i], q[i] \in ok) = EndMsg(q[i], TRUE)
             /\ q[i] \notin ok => EndMsg(q[i], q[i] \in ok) = EndMsg(q[i], FALSE)
  <2>1. q[i] \in Transfers
    BY <1>1
  <2>2. CASE q[i] \in ok
    <3>1. (q[i] \in ok) = TRUE
      BY <2>2
    <3>2. EndMsg(q[i], q[i] \in ok) = EndMsg(q[i], TRUE)
      BY <3>1, Zenon
    <3>q. QED
      BY <2>1, <2>2, <3>2, EndSaid
  <2>3. CASE q[i] \notin ok
    <3>1. (q[i] \in ok) = FALSE
      BY <2>3
    <3>2. EndMsg(q[i], q[i] \in ok) = EndMsg(q[i], FALSE)
      BY <3>1, Zenon
    <3>q. QED
      BY <2>1, <2>3, <3>2, EndSaid
  <2>q. QED
    BY <2>2, <2>3
<1>4. DOMAIN w = 1..n /\ \A i \in 1..n : w[i] = EndMsg(q[i], q[i] \in ok)
  BY <1>2
<1>5. w \in Seq(Messages)
  <2>1. w \in [1..n -> Messages]
    BY <1>2, <1>3
  <2>q. QED
    BY <1>1, <2>1, SeqDef
<1>6. \A i \in 1..n : /\ w[i].id = q[i]
                      /\ q[i] \in ok => w[i] = EndMsg(q[i], TRUE)
                      /\ q[i] \notin ok => w[i] = EndMsg(q[i], FALSE)
  BY <1>3, <1>4
<1>7. ASSUME NEW t \in S
      PROVE  /\ t \in ok => OnlyOne(w, t, EndMsg(t, TRUE))
             /\ t \notin ok => OnlyOne(w, t, EndMsg(t, FALSE))
  <2>1. PICK k \in 1..n : q[k] = t
    BY <1>1
  <2>2. ASSUME NEW i \in 1..n, i # k PROVE w[i].id # t
    <3>1. q[i] # q[k]
      BY <1>1, <2>2
    <3>2. w[i].id = q[i]
      BY <1>6
    <3>q. QED
      BY <2>1, <3>1, <3>2
  <2>q. QED
    BY <1>4, <1>6, <2>1, <2>2 DEF OnlyOne
<1>q. QED
  BY <1>1, <1>4, <1>5, <1>6, <1>7 DEF w

(* From x to y chunks were added: of t, those numbered from lo up to hi.    *)
DataMoreFor(x, y, t, lo, hi) ==
  /\ \A ty : ty # "data" => (Has(y, t, ty) <=> Has(x, t, ty))
  /\ Says(y, AcceptMsg(t, FALSE)) <=> Says(x, AcceptMsg(t, FALSE))
  /\ Says(y, EndMsg(t, TRUE)) <=> Says(x, EndMsg(t, TRUE))
  /\ Says(y, EndMsg(t, FALSE)) <=> Says(x, EndMsg(t, FALSE))
  /\ Handshake(y, t) <=> Handshake(x, t)
  /\ OneHandshake(x, t) => OneHandshake(y, t)
  /\ Precedes(x, t, "ack", "end") => Precedes(y, t, "ack", "end")
  /\ Precedes(x, t, "offer", "end") => Precedes(y, t, "offer", "end")
  /\ \A n : Below(x, t, "ack", n) => Below(y, t, "ack", n)
  /\ \A m, n \in Nat : Counts(x, t, "ack", m, n) => Counts(y, t, "ack", m, n)
  /\ Below(x, t, "data", lo) => Below(y, t, "data", hi)
  /\ \A from \in Nat : from <= lo /\ Counts(x, t, "data", from, lo) => Counts(y, t, "data", from, hi)

LEMMA DataMore ==
  ASSUME NEW t \in Transfers, NEW x \in Seq(Messages), NEW w \in Seq(Messages), NEW lo \in Nat, NEW hi \in Nat,
         lo <= hi, \A i \in DOMAIN w : w[i].type = "data", Counts(w, t, "data", lo, hi)
  PROVE  DataMoreFor(x, x \o w, t, lo, hi)
<1> DEFINE y == x \o w
<1>1. /\ y \in Seq(Messages) /\ Len(x) \in Nat /\ DOMAIN x = 1..Len(x) /\ DOMAIN y \subseteq Int
      /\ \A i \in DOMAIN x : i \in DOMAIN y /\ y[i] = x[i]
      /\ \A i \in DOMAIN y : \/ i \in DOMAIN x /\ y[i] = x[i]
                             \/ i > Len(x) /\ i - Len(x) \in DOMAIN w /\ y[i] = w[i - Len(x)]
  BY Joined
<1>2. Numbered("data") /\ Numbered("ack")
  BY DEF Numbered
<1>3. \A from \in Nat : from <= lo /\ Counts(x, t, "data", from, lo) => Counts(y, t, "data", from, hi)
  BY <1>2, CountsJoined
<1> HIDE DEF y
<1>4. \A i \in DOMAIN y : y[i].type # "data" => i \in DOMAIN x /\ y[i] = x[i]
  BY <1>1
<1>5. \A ty : ty # "data" => /\ \A i \in DOMAIN y : At(y, i, t, ty) => i \in DOMAIN x /\ y[i] = x[i] /\ At(x, i, t, ty)
                             /\ \A i \in DOMAIN x : At(x, i, t, ty) => i \in DOMAIN y /\ y[i] = x[i] /\ At(y, i, t, ty)
  BY <1>1, <1>4 DEF At
<1>6. \A ty : ty # "data" => (Has(y, t, ty) <=> Has(x, t, ty))
  BY <1>5 DEF Has
<1>7. \A m : m.type # "data" => (Says(y, m) <=> Says(x, m))
  BY <1>1, <1>4 DEF Says
<1>8. \A i \in DOMAIN y : HandshakeAt(y, i, t) => i \in DOMAIN x /\ HandshakeAt(x, i, t)
  BY <1>1, <1>4 DEF HandshakeAt
<1>9. \A i \in DOMAIN x : HandshakeAt(x, i, t) => i \in DOMAIN y /\ HandshakeAt(y, i, t)
  BY <1>1 DEF HandshakeAt
<1>10. (Handshake(y, t) <=> Handshake(x, t)) /\ (OneHandshake(x, t) => OneHandshake(y, t))
  BY <1>8, <1>9 DEF Handshake, OneHandshake
<1>11. /\ Precedes(x, t, "ack", "end") => Precedes(y, t, "ack", "end")
       /\ Precedes(x, t, "offer", "end") => Precedes(y, t, "offer", "end")
  BY <1>5 DEF Precedes
<1>12. \A n : Below(x, t, "ack", n) => Below(y, t, "ack", n)
  BY <1>5 DEF Below
<1>13. ASSUME NEW m \in Nat, NEW n \in Nat, Counts(x, t, "ack", m, n) PROVE Counts(y, t, "ack", m, n)
  <2>1. \A i \in DOMAIN y : At(y, i, t, "ack") => i \in DOMAIN x /\ y[i] = x[i] /\ At(x, i, t, "ack")
    BY <1>5
  <2>2. \A i \in DOMAIN x : At(x, i, t, "ack") => i \in DOMAIN y /\ y[i] = x[i] /\ At(y, i, t, "ack")
    BY <1>5
  <2>3. \A i \in DOMAIN y : At(y, i, t, "ack") => y[i].seq >= m /\ y[i].seq < n
    BY <1>13, <2>1 DEF Counts
  <2>4. \A i, j \in DOMAIN y : i < j /\ At(y, i, t, "ack") /\ At(y, j, t, "ack") => y[i].seq < y[j].seq
    BY <1>13, <2>1 DEF Counts
  <2>5. \A k \in m..(n - 1) : \E i \in DOMAIN y : At(y, i, t, "ack") /\ y[i].seq = k
    BY <1>13, <2>2 DEF Counts
  <2>q. QED
    BY <2>3, <2>4, <2>5 DEF Counts
<1>14. ASSUME Below(x, t, "data", lo) PROVE Below(y, t, "data", hi)
  <2> SUFFICES ASSUME NEW i \in DOMAIN y, At(y, i, t, "data") PROVE y[i].seq < hi
    BY DEF Below
  <2>1. y[i].seq \in Nat
    BY <1>1, <1>2, NumberedAt
  <2>2. CASE i \in DOMAIN x /\ y[i] = x[i]
    <3>1. x[i].seq < lo
      BY <1>14, <2>2 DEF Below, At
    <3>q. QED
      BY <2>1, <2>2, <3>1
  <2>3. CASE i - Len(x) \in DOMAIN w /\ y[i] = w[i - Len(x)]
    BY <2>3 DEF Counts, At
  <2>q. QED
    BY <1>1, <2>2, <2>3
<1>15. AcceptMsg(t, FALSE).type # "data" /\ EndMsg(t, TRUE).type # "data" /\ EndMsg(t, FALSE).type # "data"
  BY Sayings, EndSaid
<1>16. DataMoreFor(x, y, t, lo, hi)
  BY <1>3, <1>6, <1>7, <1>10, <1>11, <1>12, <1>13, <1>14, <1>15 DEF DataMoreFor
<1>q. QED
  BY <1>16 DEF y

LEMMA SameThenDataMore ==
  ASSUME NEW t \in Transfers, NEW x, NEW y, NEW z, NEW lo \in Nat, NEW hi \in Nat,
         SameFor(x, y, t), DataMoreFor(y, z, t, lo, hi)
  PROVE  DataMoreFor(x, z, t, lo, hi)
<1>1. AcceptMsg(t, FALSE).id = t /\ EndMsg(t, TRUE).id = t /\ EndMsg(t, FALSE).id = t
  BY DEF AcceptMsg, EndMsg
<1>2. Numbered("data") /\ Numbered("ack")
  BY DEF Numbered
<1>3. /\ \A ty : Has(y, t, ty) <=> Has(x, t, ty)
      /\ Says(y, AcceptMsg(t, FALSE)) <=> Says(x, AcceptMsg(t, FALSE))
      /\ Says(y, EndMsg(t, TRUE)) <=> Says(x, EndMsg(t, TRUE))
      /\ Says(y, EndMsg(t, FALSE)) <=> Says(x, EndMsg(t, FALSE))
      /\ Handshake(y, t) <=> Handshake(x, t)
      /\ OneHandshake(x, t) => OneHandshake(y, t)
      /\ \A a, b : Precedes(x, t, a, b) => Precedes(y, t, a, b)
      /\ \A ty, n : Below(x, t, ty, n) => Below(y, t, ty, n)
  BY <1>1 DEF SameFor
<1>4. /\ \A m, n \in Nat : Counts(x, t, "ack", m, n) => Counts(y, t, "ack", m, n)
      /\ \A m, n \in Nat : Counts(x, t, "data", m, n) => Counts(y, t, "data", m, n)
  BY <1>2 DEF SameFor
<1>q. QED
  BY <1>3, <1>4 DEF DataMoreFor

LEMMA DataMoreThenSame ==
  ASSUME NEW t \in Transfers, NEW x, NEW y, NEW z, NEW lo \in Nat, NEW hi \in Nat,
         DataMoreFor(x, y, t, lo, hi), SameFor(y, z, t)
  PROVE  DataMoreFor(x, z, t, lo, hi)
<1>1. AcceptMsg(t, FALSE).id = t /\ EndMsg(t, TRUE).id = t /\ EndMsg(t, FALSE).id = t
  BY DEF AcceptMsg, EndMsg
<1>2. Numbered("data") /\ Numbered("ack")
  BY DEF Numbered
<1>3. /\ \A ty : Has(z, t, ty) <=> Has(y, t, ty)
      /\ Says(z, AcceptMsg(t, FALSE)) <=> Says(y, AcceptMsg(t, FALSE))
      /\ Says(z, EndMsg(t, TRUE)) <=> Says(y, EndMsg(t, TRUE))
      /\ Says(z, EndMsg(t, FALSE)) <=> Says(y, EndMsg(t, FALSE))
      /\ Handshake(z, t) <=> Handshake(y, t)
      /\ OneHandshake(y, t) => OneHandshake(z, t)
      /\ \A a, b : Precedes(y, t, a, b) => Precedes(z, t, a, b)
      /\ \A ty, n : Below(y, t, ty, n) => Below(z, t, ty, n)
  BY <1>1 DEF SameFor
<1>4. /\ \A m, n \in Nat : Counts(y, t, "ack", m, n) => Counts(z, t, "ack", m, n)
      /\ \A m, n \in Nat : Counts(y, t, "data", m, n) => Counts(z, t, "data", m, n)
  BY <1>2 DEF SameFor
<1>q. QED
  BY <1>3, <1>4 DEF DataMoreFor

LEMMA PumpTold ==
  ASSUME TypeOK, NEW e \in Ends, NEW ready, NEW acks, NEW inbox, NEW done, NEW bad, NEW broken, NEW chunks,
         PumpSays(e, ready, acks, inbox, done, bad, broken, chunks)
  PROVE  /\ verdict' \in [Ends -> [Transfers -> {"none", "sent", "completed", "failed", "cancelled"}]]
         /\ \A f \in Ends, t \in Transfers :
              verdict'[f][t] = IF f # e THEN verdict[f][t]
                               ELSE IF t \in bad \cup broken THEN "failed"
                               ELSE IF t \in done THEN "completed" ELSE verdict[f][t]
<1>1. verdict' = [verdict EXCEPT ![e] = [t \in Transfers |->
          IF t \in bad \cup broken THEN "failed" ELSE IF t \in done THEN "completed" ELSE @[t]]]
  BY DEF PumpSays
<1>2. verdict \in [Ends -> [Transfers -> {"none", "sent", "completed", "failed", "cancelled"}]]
  BY DEF TypeOK
<1>q. QED
  BY <1>1, <1>2

LEMMA PumpSaid ==
  ASSUME TypeOK, NEW e \in Ends, NEW ready, NEW acks, NEW inbox \in Seq(Messages),
         NEW done, done \subseteq To(e), NEW bad, NEW broken, NEW chunks,
         PumpSays(e, ready, acks, inbox, done, bad, broken, chunks)
  PROVE  /\ net' \in [Ends -> Seq(Messages)] /\ net'[e] = inbox
         /\ \A t \in Transfers :
              /\ t \in From(e) /\ t \notin broken =>
                   DataMoreFor(net[Other(e)], net'[Other(e)], t, sent[t], sent'[t])
              /\ t \in broken =>
                   \E y \in Seq(Messages) :
                     /\ DataMoreFor(net[Other(e)], y, t, sent[t], sent'[t])
                     /\ OneMoreFor(y, net'[Other(e)], t, EndMsg(t, FALSE))
              /\ t \in To(e) \ done => SameFor(net[Other(e)], net'[Other(e)], t)
              /\ t \in done /\ t \notin bad => OneMoreFor(net[Other(e)], net'[Other(e)], t, EndMsg(t, TRUE))
              /\ t \in done /\ t \in bad => OneMoreFor(net[Other(e)], net'[Other(e)], t, EndMsg(t, FALSE))
<1> DEFINE x == net[Other(e)]
           first == EndsOf(done, done \ bad)
           last == EndsOf(broken, {})
           a == x \o first
           b == a \o chunks
           c == b \o last
<1>1. /\ Other(e) \in Ends /\ Other(e) # e /\ \A f \in Ends : f = e \/ f = Other(e)
      /\ x \in Seq(Messages)
  BY DEF Other, Ends, TypeOK
<1>2. /\ broken \subseteq From(e) /\ broken \subseteq Transfers /\ done \subseteq Transfers
      /\ \A t \in Transfers : t \in To(e) <=> t \notin From(e)
  BY DEF PumpSays, From, To
<1>3. /\ chunks \in Seq(Messages)
      /\ \A i \in DOMAIN chunks : chunks[i].type = "data" /\ chunks[i].id \in From(e)
      /\ \A t \in Transfers : sent'[t] \in Nat /\ sent[t] <= sent'[t] /\ Counts(chunks, t, "data", sent[t], sent'[t])
  BY DEF PumpSays
<1>4. /\ first \in Seq(Messages) /\ \A i \in DOMAIN first : first[i].id \in done
      /\ \A t \in done : /\ t \notin bad => OnlyOne(first, t, EndMsg(t, TRUE))
                         /\ t \in bad => OnlyOne(first, t, EndMsg(t, FALSE))
  BY <1>2, EndsAre
<1>5. /\ last \in Seq(Messages) /\ \A i \in DOMAIN last : last[i].id \in broken
      /\ \A t \in broken : OnlyOne(last, t, EndMsg(t, FALSE))
  BY <1>2, EndsAre
<1>6. a \in Seq(Messages) /\ b \in Seq(Messages) /\ c \in Seq(Messages)
  <2> HIDE DEF first, last
  <2>1. a \in Seq(Messages)
    BY <1>1, <1>4, Joined
  <2>2. b \in Seq(Messages)
    <3> HIDE DEF a
    <3>q. QED
      BY <1>3, <2>1, Joined
  <2>3. c \in Seq(Messages)
    <3> HIDE DEF b
    <3>q. QED
      BY <1>5, <2>2, Joined
  <2>q. QED
    BY <2>1, <2>2, <2>3
<1>7. net' \in [Ends -> Seq(Messages)] /\ net'[e] = inbox /\ net'[Other(e)] = c
  <2>1. net' = [net EXCEPT ![e] = inbox, ![Other(e)] = ((@ \o EndsOf(done, done \ bad)) \o chunks) \o EndsOf(broken, {})]
    BY DEF PumpSays
  <2>2. net' = [net EXCEPT ![e] = inbox, ![Other(e)] = c]
    BY <1>1, <2>1 DEF TypeOK
  <2> HIDE DEF c
  <2>q. QED
    BY <1>1, <1>6, <2>2 DEF TypeOK
<1> HIDE DEF first, last, x
<1>8. ASSUME NEW t \in Transfers, t \notin done PROVE SameFor(x, a, t)
  <2>1. Silent(first, t)
    BY <1>4, <1>8 DEF Silent
  <2>q. QED
    BY <1>1, <1>4, <2>1, SilentJoined
<1>9. ASSUME NEW t \in Transfers, t \in done
      PROVE  /\ t \notin bad => OneMoreFor(x, a, t, EndMsg(t, TRUE))
             /\ t \in bad => OneMoreFor(x, a, t, EndMsg(t, FALSE))
  BY <1>1, <1>4, <1>9, OneAmong, EndSaid
<1>10. ASSUME NEW t \in Transfers, t \in To(e) PROVE SameFor(a, b, t)
  <2>1. Silent(chunks, t)
    BY <1>2, <1>3, <1>10 DEF Silent
  <2> HIDE DEF a
  <2>q. QED
    BY <1>3, <1>6, <2>1, SilentJoined
<1>11. ASSUME NEW t \in Transfers PROVE DataMoreFor(a, b, t, sent[t], sent'[t])
  <2> DEFINE lo == sent[t]
             hi == sent'[t]
  <2>1. lo \in Nat /\ hi \in Nat /\ lo <= hi /\ Counts(chunks, t, "data", lo, hi)
    BY <1>3, Typed
  <2> HIDE DEF a, lo, hi
  <2>2. \A i \in DOMAIN chunks : chunks[i].type = "data"
    BY <1>3
  <2>3. DataMoreFor(a, a \o chunks, t, lo, hi)
    BY <1>3, <1>6, <2>1, <2>2, DataMore
  <2>q. QED
    BY <2>3 DEF lo, hi
<1>12. ASSUME NEW t \in Transfers, t \notin broken PROVE SameFor(b, c, t)
  <2>1. Silent(last, t)
    BY <1>5, <1>12 DEF Silent
  <2> HIDE DEF b
  <2>q. QED
    BY <1>5, <1>6, <2>1, SilentJoined
<1>13. ASSUME NEW t \in Transfers, t \in broken PROVE OneMoreFor(b, c, t, EndMsg(t, FALSE))
  <2>1. OnlyOne(last, t, EndMsg(t, FALSE)) /\ EndMsg(t, FALSE) \in Messages /\ EndMsg(t, FALSE).id = t
    BY <1>5, <1>13, EndSaid
  <2> HIDE DEF b
  <2>q. QED
    BY <1>5, <1>6, <2>1, OneAmong
<1> HIDE DEF a, b, c
<1>14. ASSUME NEW t \in Transfers, t \in From(e) PROVE DataMoreFor(x, b, t, sent[t], sent'[t])
  <2>1. SameFor(x, a, t) /\ DataMoreFor(a, b, t, sent[t], sent'[t])
    BY <1>2, <1>8, <1>11, <1>14
  <2> DEFINE lo == sent[t]
             hi == sent'[t]
  <2>2. lo \in Nat /\ hi \in Nat /\ DataMoreFor(a, b, t, lo, hi)
    BY <1>3, <2>1, Typed
  <2> HIDE DEF lo, hi
  <2>3. DataMoreFor(x, b, t, lo, hi)
    BY <2>1, <2>2, SameThenDataMore
  <2>q. QED
    BY <2>3 DEF lo, hi
<1>15. ASSUME NEW t \in Transfers, t \in From(e), t \notin broken PROVE DataMoreFor(x, c, t, sent[t], sent'[t])
  <2>1. SameFor(b, c, t)
    BY <1>12, <1>15
  <2> DEFINE lo == sent[t]
             hi == sent'[t]
  <2>2. lo \in Nat /\ hi \in Nat /\ DataMoreFor(x, b, t, lo, hi)
    BY <1>3, <1>14, <1>15, Typed
  <2> HIDE DEF lo, hi
  <2>3. DataMoreFor(x, c, t, lo, hi)
    BY <2>1, <2>2, DataMoreThenSame
  <2>q. QED
    BY <2>3 DEF lo, hi
<1>16. ASSUME NEW t \in Transfers, t \in broken
       PROVE  \E y \in Seq(Messages) : /\ DataMoreFor(x, y, t, sent[t], sent'[t])
                                       /\ OneMoreFor(y, c, t, EndMsg(t, FALSE))
  BY <1>2, <1>6, <1>13, <1>14, <1>16
<1>17. ASSUME NEW t \in Transfers, t \in To(e) PROVE SameFor(a, c, t)
  <2>1. SameFor(a, b, t) /\ SameFor(b, c, t)
    BY <1>2, <1>10, <1>12, <1>17
  <2>q. QED
    BY <2>1, SameOnward
<1>18. ASSUME NEW t \in Transfers, t \in To(e), t \notin done PROVE SameFor(x, c, t)
  BY <1>8, <1>17, <1>18, SameOnward
<1>19. ASSUME NEW t \in Transfers, t \in done
       PROVE  /\ t \notin bad => OneMoreFor(x, c, t, EndMsg(t, TRUE))
              /\ t \in bad => OneMoreFor(x, c, t, EndMsg(t, FALSE))
  <2>1. SameFor(a, c, t)
    BY <1>17, <1>19
  <2>q. QED
    BY <1>9, <1>19, <2>1, OneMoreThenSame
<1>q. QED
  BY <1>7, <1>15, <1>16, <1>18, <1>19 DEF x

LEMMA PumpKept ==
  ASSUME TypeOK, NEW t \in Transfers, NEW q, NEW acc, NEW acks, acks[t] \in Nat,
         TransferOK(t, q, acc, acks), Still(t),
         sent'[t] \in Nat, sent[t] <= sent'[t], t \notin acc \/ t \notin sending => sent'[t] = sent[t],
         SameFor(q, net'[Sender[t]], t),
         DataMoreFor(net[Receiver(t)], net'[Receiver(t)], t, sent[t], sent'[t]),
         t \in accepted' <=> t \in acc, acked'[t] = acks[t]
  PROVE  AllWell(t)'
<1> DEFINE p == net[Receiver(t)]
           pp == net'[Receiver(t)]
           qq == net'[Sender[t]]
<1>1. /\ ToReceiver(t) = p /\ ToReceiver(t)' = pp /\ ToSender(t)' = qq
      /\ ToldSender(t)' = ToldSender(t) /\ ToldReceiver(t)' = ToldReceiver(t)
  BY DEF ToReceiver, ToSender, ToldSender, ToldReceiver, Still
<1>2. /\ t \in begun' <=> t \in begun
      /\ t \in sending' <=> t \in sending
      /\ t \in receiving' <=> t \in receiving
      /\ t \in pending' <=> t \in pending
      /\ t \in wanted' <=> t \in wanted
      /\ t \in opening' <=> t \in opening
      /\ got'[t] = got[t] /\ file'[t] = file[t]
  BY DEF Still
<1>3. sent[t] \in Nat /\ got[t] \in Nat /\ got[t] <= sent[t]
  BY Typed
<1>4. /\ \A ty : Has(qq, t, ty) <=> Has(q, t, ty)
      /\ \A ty : ty # "data" => (Has(pp, t, ty) <=> Has(p, t, ty))
      /\ Handshake(qq, t) <=> Handshake(q, t)
      /\ Handshake(pp, t) <=> Handshake(p, t)
      /\ OneHandshake(q, t) => OneHandshake(qq, t)
      /\ OneHandshake(p, t) => OneHandshake(pp, t)
      /\ Precedes(q, t, "ack", "end") => Precedes(qq, t, "ack", "end")
      /\ Precedes(p, t, "offer", "end") => Precedes(pp, t, "offer", "end")
  BY DEF SameFor, DataMoreFor
<1>5. /\ Says(qq, AcceptMsg(t, FALSE)) <=> Says(q, AcceptMsg(t, FALSE))
      /\ Says(qq, EndMsg(t, TRUE)) <=> Says(q, EndMsg(t, TRUE))
      /\ Says(qq, EndMsg(t, FALSE)) <=> Says(q, EndMsg(t, FALSE))
  <2>1. AcceptMsg(t, FALSE).id = t /\ EndMsg(t, TRUE).id = t /\ EndMsg(t, FALSE).id = t
    BY DEF AcceptMsg, EndMsg
  <2>q. QED
    BY <2>1 DEF SameFor
<1>6. /\ Below(p, t, "data", sent[t]) => Below(pp, t, "data", sent'[t])
      /\ Below(q, t, "ack", got[t]) => Below(qq, t, "ack", got[t])
      /\ Counts(p, t, "data", got[t], sent[t]) => Counts(pp, t, "data", got[t], sent'[t])
      /\ Counts(q, t, "ack", acks[t], got[t]) => Counts(qq, t, "ack", acks[t], got[t])
  <2>1. /\ Below(q, t, "ack", got[t]) => Below(qq, t, "ack", got[t])
        /\ Counts(q, t, "ack", acks[t], got[t]) => Counts(qq, t, "ack", acks[t], got[t])
    BY <1>3 DEF SameFor, Numbered
  <2>2. /\ Below(p, t, "data", sent[t]) => Below(pp, t, "data", sent'[t])
        /\ Counts(p, t, "data", got[t], sent[t]) => Counts(pp, t, "data", got[t], sent'[t])
    BY <1>3 DEF DataMoreFor
  <2>q. QED
    BY <2>1, <2>2
<1> HIDE DEF p, pp, qq
<1>7. FreshOK(t, ToSender(t))'
  BY <1>1, <1>2, <1>4 DEF TransferOK, FreshOK
<1>8. StepOK(t, ToSender(t), accepted)'
  BY <1>1, <1>2, <1>4 DEF TransferOK, StepOK
<1>9. BeforeOK(t, ToSender(t), accepted)'
  BY <1>1, <1>2, <1>4 DEF TransferOK, BeforeOK, Early, Unanswered
<1>10. RecordOK(t)'
  BY <1>1, <1>2 DEF TransferOK, RecordOK
<1>11. AnswerOK(t, ToSender(t))'
  BY <1>1, <1>2, <1>4, <1>5 DEF TransferOK, AnswerOK
<1>12. GivenUpOK(t, ToSender(t))'
  BY <1>1, <1>2, <1>4 DEF TransferOK, GivenUpOK
<1>13. OtherEndOK(t, ToSender(t))'
  BY <1>1, <1>2, <1>4, <1>5 DEF TransferOK, OtherEndOK
<1>14. ChunksOK(t, ToSender(t), acked)'
  BY <1>1, <1>2, <1>6 DEF TransferOK, ChunksOK
<1>15. SettledOK(t)'
  BY <1>1, <1>2 DEF TransferOK, SettledOK
<1>q. QED
  BY <1>1, <1>7, <1>8, <1>9, <1>10, <1>11, <1>12, <1>13, <1>14, <1>15 DEF AllWell, TransferOK

LEMMA OthersLeft ==
  ASSUME TypeOK, NEW t \in Transfers, AllWell(t), net[Sender[t]] # <<>>, Head(net[Sender[t]]).id # t
  PROVE  SameFor(net[Sender[t]], Tail(net[Sender[t]]), t)
BY Typed, SilentRest

LEMMA PumpBroken ==
  ASSUME TypeOK, NEW t \in Transfers, NEW q, NEW acc, NEW acks, acks[t] \in Nat,
         TransferOK(t, q, acc, acks), t \in acc, t \in sending,
         t \in begun' <=> t \in begun, t \notin sending', t \in receiving' <=> t \in receiving,
         t \in pending' <=> t \in pending, t \in wanted' <=> t \in wanted, t \in opening' <=> t \in opening,
         got'[t] = got[t], file'[t] = file[t],
         verdict'[Sender[t]][t] = "failed", verdict'[Receiver(t)][t] = verdict[Receiver(t)][t],
         sent'[t] \in Nat, sent[t] <= sent'[t], sent'[t] < Size[t],
         SameFor(q, net'[Sender[t]], t),
         NEW y, DataMoreFor(net[Receiver(t)], y, t, sent[t], sent'[t]),
         OneMoreFor(y, net'[Receiver(t)], t, EndMsg(t, FALSE)),
         t \in accepted' <=> t \in acc, acked'[t] = acks[t]
  PROVE  AllWell(t)'
<1> DEFINE p == net[Receiver(t)]
           pp == net'[Receiver(t)]
           qq == net'[Sender[t]]
<1>1. /\ p \in Seq(Messages)
      /\ sent[t] \in Nat /\ got[t] \in Nat /\ Size[t] \in Nat
      /\ sent[t] <= Size[t] /\ got[t] <= sent[t]
      /\ Sender[t] \in Ends /\ Receiver(t) \in Ends /\ Receiver(t) # Sender[t]
      /\ Other(Sender[t]) = Receiver(t) /\ Other(Receiver(t)) = Sender[t]
      /\ \A e \in Ends : (t \in From(e) <=> e = Sender[t]) /\ (t \in To(e) <=> e = Receiver(t))
  BY Typed, TwoEnds
<1>2. /\ FreshOK(t, q) /\ StepOK(t, q, acc) /\ BeforeOK(t, q, acc) /\ RecordOK(t) /\ AnswerOK(t, q)
      /\ GivenUpOK(t, q) /\ OtherEndOK(t, q) /\ ChunksOK(t, q, acks) /\ SettledOK(t)
      /\ TransferOK(t, q, acc, acks)
  BY DEF AllWell, TransferOK, ToSender
<1>3. /\ ToReceiver(t) = p /\ ToReceiver(t)' = pp /\ ToSender(t)' = qq
      /\ ToldSender(t) = verdict[Sender[t]][t] /\ ToldSender(t)' = verdict'[Sender[t]][t]
      /\ ToldReceiver(t) = verdict[Receiver(t)][t] /\ ToldReceiver(t)' = verdict'[Receiver(t)][t]
  BY DEF ToReceiver, ToSender, ToldSender, ToldReceiver
<1>4. /\ AcceptMsg(t, FALSE) \in Messages /\ AcceptMsg(t, FALSE).id = t /\ AcceptMsg(t, FALSE).type = "accept"
      /\ AcceptMsg(t, TRUE) \in Messages /\ AcceptMsg(t, TRUE).id = t /\ AcceptMsg(t, TRUE).type = "accept"
      /\ AcceptMsg(t, FALSE) # AcceptMsg(t, TRUE)
      /\ EndMsg(t, TRUE) \in Messages /\ EndMsg(t, TRUE).id = t /\ EndMsg(t, TRUE).type = "end"
      /\ EndMsg(t, FALSE) \in Messages /\ EndMsg(t, FALSE).id = t /\ EndMsg(t, FALSE).type = "end"
      /\ EndMsg(t, TRUE) # EndMsg(t, FALSE)
      /\ OfferMsg(t) \in Messages /\ OfferMsg(t).id = t /\ OfferMsg(t).type = "offer"
      /\ RequestMsg(t) \in Messages /\ RequestMsg(t).id = t /\ RequestMsg(t).type = "request"
  <2>1. AcceptMsg(t, FALSE) # AcceptMsg(t, TRUE) /\ EndMsg(t, TRUE) # EndMsg(t, FALSE)
    BY DEF AcceptMsg, EndMsg
  <2>q. QED
    BY <2>1, Sayings, EndSaid
<1>5. /\ t \in begun' <=> t \in begun
      /\ t \in sending' <=> FALSE
      /\ t \in accepted' <=> t \in acc
      /\ t \in receiving' <=> t \in receiving
      /\ t \in pending' <=> t \in pending
      /\ t \in wanted' <=> t \in wanted
      /\ t \in opening' <=> t \in opening
      /\ acked'[t] = acks[t]
      /\ got'[t] = got[t]
      /\ file'[t] = file[t]
      /\ verdict'[Sender[t]][t] = "failed"
      /\ verdict'[Receiver(t)][t] = verdict[Receiver(t)][t]
  OBVIOUS
<1>6. sent'[t] \in Nat /\ sent[t] <= sent'[t] /\ sent'[t] < Size[t] /\ t \in acc /\ t \in sending
  OBVIOUS
<1>7. /\ Has(qq, t, "request") <=> Has(q, t, "request")
      /\ Has(qq, t, "offer") <=> Has(q, t, "offer")
      /\ Has(qq, t, "accept") <=> Has(q, t, "accept")
      /\ Has(qq, t, "data") <=> Has(q, t, "data")
      /\ Has(qq, t, "ack") <=> Has(q, t, "ack")
      /\ Has(qq, t, "end") <=> Has(q, t, "end")
      /\ Says(qq, AcceptMsg(t, FALSE)) <=> Says(q, AcceptMsg(t, FALSE))
      /\ Says(qq, EndMsg(t, TRUE)) <=> Says(q, EndMsg(t, TRUE))
      /\ Says(qq, EndMsg(t, FALSE)) <=> Says(q, EndMsg(t, FALSE))
      /\ Handshake(qq, t) <=> Handshake(q, t)
      /\ OneHandshake(q, t) => OneHandshake(qq, t)
      /\ Precedes(q, t, "ack", "end") => Precedes(qq, t, "ack", "end")
      /\ Below(q, t, "ack", got[t]) => Below(qq, t, "ack", got[t])
      /\ Counts(q, t, "ack", acks[t], got[t]) => Counts(qq, t, "ack", acks[t], got[t])
  BY <1>1, <1>4 DEF SameFor, Numbered
<1>8. /\ Handshake(p, t) <=> Has(p, t, "request") \/ Has(p, t, "offer") \/ Has(p, t, "accept")
      /\ Says(p, AcceptMsg(t, FALSE)) => Has(p, t, "accept")
      /\ Says(p, EndMsg(t, TRUE)) => Has(p, t, "end")
      /\ Says(p, EndMsg(t, FALSE)) => Has(p, t, "end")
      /\ Handshake(q, t) <=> Has(q, t, "request") \/ Has(q, t, "offer") \/ Has(q, t, "accept")
      /\ Says(q, AcceptMsg(t, FALSE)) => Has(q, t, "accept")
      /\ Says(q, EndMsg(t, TRUE)) => Has(q, t, "end")
      /\ Says(q, EndMsg(t, FALSE)) => Has(q, t, "end")
      /\ Handshake(pp, t) <=> Has(pp, t, "request") \/ Has(pp, t, "offer") \/ Has(pp, t, "accept")
      /\ Says(pp, AcceptMsg(t, FALSE)) => Has(pp, t, "accept")
      /\ Says(pp, EndMsg(t, TRUE)) => Has(pp, t, "end")
      /\ Says(pp, EndMsg(t, FALSE)) => Has(pp, t, "end")
      /\ Handshake(qq, t) <=> Has(qq, t, "request") \/ Has(qq, t, "offer") \/ Has(qq, t, "accept")
      /\ Says(qq, AcceptMsg(t, FALSE)) => Has(qq, t, "accept")
      /\ Says(qq, EndMsg(t, TRUE)) => Has(qq, t, "end")
      /\ Says(qq, EndMsg(t, FALSE)) => Has(qq, t, "end")
  BY Handshakes
<1>x. /\ Has(pp, t, "request") <=> Has(p, t, "request")
      /\ Has(pp, t, "offer") <=> Has(p, t, "offer")
      /\ Has(pp, t, "accept") <=> Has(p, t, "accept")
      /\ Has(pp, t, "ack") <=> Has(p, t, "ack")
      /\ Has(pp, t, "end")
      /\ OneHandshake(p, t) => OneHandshake(pp, t)
      /\ Precedes(p, t, "offer", "end") => Precedes(pp, t, "offer", "end")
      /\ Below(p, t, "data", sent[t]) => Below(pp, t, "data", sent'[t])
      /\ Counts(p, t, "data", got[t], sent[t]) => Counts(pp, t, "data", got[t], sent'[t])
  <2> DEFINE lo == sent[t]
             hi == sent'[t]
             m == EndMsg(t, FALSE)
  <2>1. lo \in Nat /\ hi \in Nat /\ got[t] \in Nat /\ got[t] <= lo /\ lo <= hi /\ m.type = "end"
    BY <1>1, <1>4, <1>6
  <2>2. DataMoreFor(p, y, t, lo, hi) /\ OneMoreFor(y, pp, t, m)
    OBVIOUS
  <2> HIDE DEF p, pp, lo, hi, m
  <2>3. /\ Has(pp, t, "request") <=> Has(p, t, "request")
        /\ Has(pp, t, "offer") <=> Has(p, t, "offer")
        /\ Has(pp, t, "accept") <=> Has(p, t, "accept")
        /\ Has(pp, t, "ack") <=> Has(p, t, "ack")
        /\ Has(pp, t, "end")
        /\ OneHandshake(p, t) => OneHandshake(pp, t)
        /\ Precedes(p, t, "offer", "end") => Precedes(pp, t, "offer", "end")
    BY <2>1, <2>2 DEF DataMoreFor, OneMoreFor, MoreFor
  <2>4. Below(p, t, "data", lo) => Below(pp, t, "data", hi)
    BY <2>1, <2>2 DEF DataMoreFor, OneMoreFor, MoreCounted
  <2>5. ASSUME Counts(p, t, "data", got[t], lo) PROVE Counts(pp, t, "data", got[t], hi)
    <3>1. Counts(y, t, "data", got[t], hi)
      BY <2>1, <2>2, <2>5 DEF DataMoreFor
    <3>q. QED
      BY <2>1, <2>2, <3>1 DEF OneMoreFor, MoreCounted
  <2>q. QED
    BY <2>3, <2>4, <2>5 DEF lo, hi
<1> HIDE DEF p, pp, qq
<1>9. FreshOK(t, ToSender(t))'
  BY <1>1, <1>2, <1>3, <1>4, <1>5, <1>6, <1>7, <1>8, <1>x DEF FreshOK, StepOK, BeforeOK, Early, Unanswered
<1>10. StepOK(t, ToSender(t), accepted)'
  BY <1>1, <1>2, <1>3, <1>4, <1>5, <1>6, <1>7, <1>8, <1>x DEF StepOK, FreshOK, AnswerOK, GivenUpOK, BeforeOK, Early, Unanswered
<1>11. BeforeOK(t, ToSender(t), accepted)'
  BY <1>1, <1>2, <1>3, <1>4, <1>5, <1>6, <1>7, <1>8, <1>x DEF BeforeOK, FreshOK, RecordOK, StepOK, SettledOK, Early, Unanswered
<1>12. RecordOK(t)'
  BY <1>1, <1>2, <1>3, <1>4, <1>5, <1>6, <1>7, <1>8, <1>x DEF RecordOK, FreshOK, BeforeOK, SettledOK, OtherEndOK, StepOK, Early, Unanswered
<1>13. AnswerOK(t, ToSender(t))'
  BY <1>1, <1>2, <1>3, <1>4, <1>5, <1>6, <1>7, <1>8, <1>x DEF AnswerOK, FreshOK, RecordOK, BeforeOK, StepOK, SettledOK, OtherEndOK, Early, Unanswered
<1>14. GivenUpOK(t, ToSender(t))'
  BY <1>1, <1>2, <1>3, <1>4, <1>5, <1>6, <1>7, <1>8, <1>x DEF GivenUpOK, FreshOK, StepOK, RecordOK, OtherEndOK, BeforeOK, SettledOK, AnswerOK, Early, Unanswered
<1>15. OtherEndOK(t, ToSender(t))'
  BY <1>1, <1>2, <1>3, <1>4, <1>5, <1>6, <1>7, <1>8, <1>x DEF OtherEndOK, FreshOK, StepOK, BeforeOK, AnswerOK, GivenUpOK, RecordOK, Early, Unanswered
<1>16. ChunksOK(t, ToSender(t), acked)'
  BY <1>1, <1>2, <1>3, <1>4, <1>5, <1>6, <1>7, <1>8, <1>x DEF ChunksOK, StepOK, BeforeOK, Early, Unanswered
<1>17. SettledOK(t)'
  BY <1>1, <1>2, <1>3, <1>4, <1>5, <1>6, <1>7, <1>8, <1>x DEF SettledOK, FreshOK, BeforeOK, RecordOK, AnswerOK, GivenUpOK, StepOK, OtherEndOK, Early, Unanswered
<1>q. QED
  BY <1>9, <1>10, <1>11, <1>12, <1>13, <1>14, <1>15, <1>16, <1>17 DEF AllWell, TransferOK

LEMMA PollSettled ==
  ASSUME TypeOK, NEW t \in Transfers, NEW q, q = net[Sender[t]], AllWell(t),
         t \in receiving, got[t] = Size[t], NEW well \in BOOLEAN, file[t] = "published" <=> well,
         t \in begun' <=> t \in begun, t \in sending' <=> t \in sending, t \notin receiving',
         t \in pending' <=> t \in pending, t \notin wanted', t \in opening' <=> t \in opening,
         sent'[t] = sent[t], got'[t] = got[t],
         file'[t] = IF ~well /\ file[t] \in {"staged", "refused"} THEN "none" ELSE file[t],
         verdict'[Sender[t]][t] = verdict[Sender[t]][t],
         verdict'[Receiver(t)][t] = IF well THEN "completed" ELSE "failed",
         net'[Receiver(t)] = net[Receiver(t)],
         NEW m, m = IF well THEN EndMsg(t, TRUE) ELSE EndMsg(t, FALSE),
         OneMoreFor(q, net'[Sender[t]], t, m),
         t \in accepted' <=> t \in accepted, acked'[t] = acked[t]
  PROVE  AllWell(t)'
<1> DEFINE p == net[Receiver(t)]
           pp == net'[Receiver(t)]
           qq == net'[Sender[t]]
<1>1. /\ p \in Seq(Messages) /\ q \in Seq(Messages)
      /\ sent[t] \in Nat /\ acked[t] \in Nat /\ got[t] \in Nat /\ Size[t] \in Nat
      /\ acked[t] <= sent[t] /\ sent[t] <= Size[t] /\ got[t] <= sent[t]
      /\ Sender[t] \in Ends /\ Receiver(t) \in Ends /\ Receiver(t) # Sender[t]
      /\ Other(Sender[t]) = Receiver(t) /\ Other(Receiver(t)) = Sender[t]
      /\ \A e \in Ends : (t \in From(e) <=> e = Sender[t]) /\ (t \in To(e) <=> e = Receiver(t))
  BY Typed, TwoEnds
<1>2. /\ FreshOK(t, q) /\ StepOK(t, q, accepted) /\ BeforeOK(t, q, accepted) /\ RecordOK(t) /\ AnswerOK(t, q)
      /\ GivenUpOK(t, q) /\ OtherEndOK(t, q) /\ ChunksOK(t, q, acked) /\ SettledOK(t)
      /\ TransferOK(t, q, accepted, acked)
  BY DEF AllWell, TransferOK, ToSender
<1>3. /\ ToReceiver(t) = p /\ ToReceiver(t)' = pp /\ ToSender(t)' = qq
      /\ ToldSender(t) = verdict[Sender[t]][t] /\ ToldSender(t)' = verdict'[Sender[t]][t]
      /\ ToldReceiver(t) = verdict[Receiver(t)][t] /\ ToldReceiver(t)' = verdict'[Receiver(t)][t]
  BY DEF ToReceiver, ToSender, ToldSender, ToldReceiver
<1>4. /\ AcceptMsg(t, FALSE) \in Messages /\ AcceptMsg(t, FALSE).id = t /\ AcceptMsg(t, FALSE).type = "accept"
      /\ AcceptMsg(t, TRUE) \in Messages /\ AcceptMsg(t, TRUE).id = t /\ AcceptMsg(t, TRUE).type = "accept"
      /\ AcceptMsg(t, FALSE) # AcceptMsg(t, TRUE)
      /\ EndMsg(t, TRUE) \in Messages /\ EndMsg(t, TRUE).id = t /\ EndMsg(t, TRUE).type = "end"
      /\ EndMsg(t, FALSE) \in Messages /\ EndMsg(t, FALSE).id = t /\ EndMsg(t, FALSE).type = "end"
      /\ EndMsg(t, TRUE) # EndMsg(t, FALSE)
      /\ OfferMsg(t) \in Messages /\ OfferMsg(t).id = t /\ OfferMsg(t).type = "offer"
      /\ RequestMsg(t) \in Messages /\ RequestMsg(t).id = t /\ RequestMsg(t).type = "request"
  <2>1. AcceptMsg(t, FALSE) # AcceptMsg(t, TRUE) /\ EndMsg(t, TRUE) # EndMsg(t, FALSE)
    BY DEF AcceptMsg, EndMsg
  <2>q. QED
    BY <2>1, Sayings, EndSaid
<1>5. /\ t \in begun' <=> t \in begun
      /\ t \in sending' <=> t \in sending
      /\ t \in accepted' <=> t \in accepted
      /\ t \notin receiving'
      /\ t \in pending' <=> t \in pending
      /\ t \notin wanted'
      /\ t \in opening' <=> t \in opening
      /\ sent'[t] = sent[t]
      /\ acked'[t] = acked[t]
      /\ got'[t] = got[t]
      /\ file'[t] = IF ~well /\ file[t] \in {"staged", "refused"} THEN "none" ELSE file[t]
      /\ file[t] = "published" <=> well
      /\ verdict'[Sender[t]][t] = verdict[Sender[t]][t]
      /\ verdict'[Receiver(t)][t] = IF well THEN "completed" ELSE "failed"
  OBVIOUS
<1>6. pp = p /\ t \in receiving /\ got[t] = Size[t]
  OBVIOUS
<1>7. OneMoreFor(q, qq, t, m) /\ m.type = "end"
  BY <1>4
<1>8. /\ Handshake(p, t) <=> Has(p, t, "request") \/ Has(p, t, "offer") \/ Has(p, t, "accept")
      /\ Says(p, AcceptMsg(t, FALSE)) => Has(p, t, "accept")
      /\ Says(p, EndMsg(t, TRUE)) => Has(p, t, "end")
      /\ Says(p, EndMsg(t, FALSE)) => Has(p, t, "end")
      /\ Handshake(q, t) <=> Has(q, t, "request") \/ Has(q, t, "offer") \/ Has(q, t, "accept")
      /\ Says(q, AcceptMsg(t, FALSE)) => Has(q, t, "accept")
      /\ Says(q, EndMsg(t, TRUE)) => Has(q, t, "end")
      /\ Says(q, EndMsg(t, FALSE)) => Has(q, t, "end")
      /\ Handshake(pp, t) <=> Has(pp, t, "request") \/ Has(pp, t, "offer") \/ Has(pp, t, "accept")
      /\ Says(pp, AcceptMsg(t, FALSE)) => Has(pp, t, "accept")
      /\ Says(pp, EndMsg(t, TRUE)) => Has(pp, t, "end")
      /\ Says(pp, EndMsg(t, FALSE)) => Has(pp, t, "end")
      /\ Handshake(qq, t) <=> Has(qq, t, "request") \/ Has(qq, t, "offer") \/ Has(qq, t, "accept")
      /\ Says(qq, AcceptMsg(t, FALSE)) => Has(qq, t, "accept")
      /\ Says(qq, EndMsg(t, TRUE)) => Has(qq, t, "end")
      /\ Says(qq, EndMsg(t, FALSE)) => Has(qq, t, "end")
  BY Handshakes
<1>x. /\ m = EndMsg(t, TRUE) => well
      /\ m = EndMsg(t, FALSE) => ~well
      /\ m # AcceptMsg(t, FALSE)
  BY <1>4
<1> HIDE DEF p, pp, qq
<1>9. FreshOK(t, ToSender(t))'
  BY <1>1, <1>2, <1>3, <1>4, <1>5, <1>6, <1>7, <1>8, <1>x DEF FreshOK, StepOK, BeforeOK, Early, Unanswered, OneMoreFor, MoreFor
<1>10. StepOK(t, ToSender(t), accepted)'
  <2>1. /\ Has(qq, t, "offer") <=> Has(q, t, "offer")
        /\ Has(qq, t, "data") <=> Has(q, t, "data")
        /\ Has(qq, t, "request") <=> Has(q, t, "request")
        /\ Handshake(qq, t) <=> Handshake(q, t)
        /\ OneHandshake(q, t) => OneHandshake(qq, t)
    BY <1>7 DEF OneMoreFor, MoreFor
  <2>q. QED
    BY <1>2, <1>3, <1>5, <1>6, <2>1 DEF StepOK
<1>11. BeforeOK(t, ToSender(t), accepted)'
  BY <1>1, <1>2, <1>3, <1>4, <1>5, <1>6, <1>7, <1>8, <1>x DEF BeforeOK, FreshOK, RecordOK, StepOK, SettledOK, Early, Unanswered, OneMoreFor, MoreFor
<1>12. RecordOK(t)'
  BY <1>1, <1>2, <1>3, <1>4, <1>5, <1>6, <1>7, <1>8, <1>x DEF RecordOK, FreshOK, BeforeOK, SettledOK, OtherEndOK, StepOK, Early, Unanswered, OneMoreFor, MoreFor
<1>13. AnswerOK(t, ToSender(t))'
  BY <1>1, <1>2, <1>3, <1>4, <1>5, <1>6, <1>7, <1>8, <1>x DEF AnswerOK, FreshOK, RecordOK, BeforeOK, StepOK, SettledOK, OtherEndOK, Early, Unanswered, OneMoreFor, MoreFor
<1>14. GivenUpOK(t, ToSender(t))'
  BY <1>2, <1>3, <1>5, <1>6, <1>7, ZenonT(60) DEF GivenUpOK, OneMoreFor, MoreFor
<1>15. OtherEndOK(t, ToSender(t))'
  BY <1>1, <1>2, <1>3, <1>4, <1>5, <1>6, <1>7, <1>8, <1>x DEF OtherEndOK, FreshOK, StepOK, BeforeOK, AnswerOK, GivenUpOK, RecordOK, Early, Unanswered, OneMoreFor, MoreFor
<1>16. ChunksOK(t, ToSender(t), acked)'
  BY <1>1, <1>2, <1>3, <1>4, <1>5, <1>6, <1>7, <1>8, <1>x, ZenonT(60) DEF ChunksOK, StepOK, BeforeOK, Early, Unanswered, OneMoreFor, MoreCounted
<1>17. SettledOK(t)'
  BY <1>1, <1>2, <1>3, <1>4, <1>5, <1>6, <1>7, <1>8, <1>x DEF SettledOK, FreshOK, BeforeOK, RecordOK, AnswerOK, GivenUpOK, StepOK, OtherEndOK, Early, Unanswered, OneMoreFor, MoreFor
<1>q. QED
  BY <1>9, <1>10, <1>11, <1>12, <1>13, <1>14, <1>15, <1>16, <1>17 DEF AllWell, TransferOK

LEMMA AcceptedLeft ==
  ASSUME TypeOK, NEW t \in Transfers, AllWell(t), t \in sending,
         net[Sender[t]] # <<>>, Head(net[Sender[t]]) = AcceptMsg(t, TRUE)
  PROVE  TransferOK(t, Tail(net[Sender[t]]), accepted \cup {t}, acked)
<1> DEFINE p == net[Receiver(t)]
           q == net[Sender[t]]
           qq == Tail(net[Sender[t]])
<1>1. /\ p \in Seq(Messages) /\ q \in Seq(Messages)
      /\ sent[t] \in Nat /\ acked[t] \in Nat /\ got[t] \in Nat /\ Size[t] \in Nat
      /\ acked[t] <= sent[t] /\ sent[t] <= Size[t] /\ got[t] <= sent[t]
      /\ Sender[t] \in Ends /\ Receiver(t) \in Ends /\ Receiver(t) # Sender[t]
      /\ Other(Sender[t]) = Receiver(t) /\ Other(Receiver(t)) = Sender[t]
      /\ \A e \in Ends : (t \in From(e) <=> e = Sender[t]) /\ (t \in To(e) <=> e = Receiver(t))
  BY Typed, TwoEnds
<1>2. /\ FreshOK(t, q) /\ StepOK(t, q, accepted) /\ BeforeOK(t, q, accepted) /\ RecordOK(t) /\ AnswerOK(t, q)
      /\ GivenUpOK(t, q) /\ OtherEndOK(t, q) /\ ChunksOK(t, q, acked) /\ SettledOK(t)
      /\ TransferOK(t, q, accepted, acked)
  BY DEF AllWell, TransferOK, ToSender
<1>3. ToReceiver(t) = p
  BY DEF ToReceiver
<1>4. /\ AcceptMsg(t, FALSE) \in Messages /\ AcceptMsg(t, FALSE).id = t /\ AcceptMsg(t, FALSE).type = "accept"
      /\ AcceptMsg(t, TRUE) \in Messages /\ AcceptMsg(t, TRUE).id = t /\ AcceptMsg(t, TRUE).type = "accept"
      /\ AcceptMsg(t, FALSE) # AcceptMsg(t, TRUE)
      /\ EndMsg(t, TRUE) \in Messages /\ EndMsg(t, TRUE).id = t /\ EndMsg(t, TRUE).type = "end"
      /\ EndMsg(t, FALSE) \in Messages /\ EndMsg(t, FALSE).id = t /\ EndMsg(t, FALSE).type = "end"
      /\ EndMsg(t, TRUE) # EndMsg(t, FALSE)
      /\ OfferMsg(t) \in Messages /\ OfferMsg(t).id = t /\ OfferMsg(t).type = "offer"
      /\ RequestMsg(t) \in Messages /\ RequestMsg(t).id = t /\ RequestMsg(t).type = "request"
  <2>1. AcceptMsg(t, FALSE) # AcceptMsg(t, TRUE) /\ EndMsg(t, TRUE) # EndMsg(t, FALSE)
    BY DEF AcceptMsg, EndMsg
  <2>q. QED
    BY <2>1, Sayings, EndSaid
<1>5. t \in sending /\ q # <<>> /\ Head(q) = AcceptMsg(t, TRUE) /\ Head(q).id = t /\ Head(q).type = "accept"
  BY <1>4
<1>7. /\ OneLessFor(q, qq, t, Head(q))
      /\ Head(q) \in Messages /\ Head(q).id = t
  BY <1>1, <1>4, <1>5, OneLess
<1>8. /\ Handshake(p, t) <=> Has(p, t, "request") \/ Has(p, t, "offer") \/ Has(p, t, "accept")
      /\ Says(p, AcceptMsg(t, FALSE)) => Has(p, t, "accept")
      /\ Says(p, EndMsg(t, TRUE)) => Has(p, t, "end")
      /\ Says(p, EndMsg(t, FALSE)) => Has(p, t, "end")
      /\ Handshake(q, t) <=> Has(q, t, "request") \/ Has(q, t, "offer") \/ Has(q, t, "accept")
      /\ Says(q, AcceptMsg(t, FALSE)) => Has(q, t, "accept")
      /\ Says(q, EndMsg(t, TRUE)) => Has(q, t, "end")
      /\ Says(q, EndMsg(t, FALSE)) => Has(q, t, "end")
      /\ Handshake(qq, t) <=> Has(qq, t, "request") \/ Has(qq, t, "offer") \/ Has(qq, t, "accept")
      /\ Says(qq, AcceptMsg(t, FALSE)) => Has(qq, t, "accept")
      /\ Says(qq, EndMsg(t, TRUE)) => Has(qq, t, "end")
      /\ Says(qq, EndMsg(t, FALSE)) => Has(qq, t, "end")
  BY Handshakes
<1>x. Head(q) # AcceptMsg(t, FALSE)
  BY <1>4, <1>5
<1> HIDE DEF p, q, qq
<1>9. FreshOK(t, qq)
  BY <1>1, <1>2, <1>3, <1>4, <1>5, <1>7, <1>8, <1>x DEF FreshOK, StepOK, BeforeOK, Early, Unanswered, OneLessFor, LessFor
<1>10. StepOK(t, qq, accepted \cup {t})
  BY <1>1, <1>2, <1>3, <1>4, <1>5, <1>7, <1>8, <1>x DEF StepOK, FreshOK, AnswerOK, GivenUpOK, BeforeOK, Early, Unanswered, OneLessFor, LessFor
<1>11. BeforeOK(t, qq, accepted \cup {t})
  BY <1>1, <1>2, <1>3, <1>4, <1>5, <1>7, <1>8, <1>x DEF BeforeOK, FreshOK, RecordOK, StepOK, SettledOK, Early, Unanswered, OneLessFor, LessFor
<1>12. RecordOK(t)
  BY <1>1, <1>2, <1>3, <1>4, <1>5, <1>7, <1>8, <1>x DEF RecordOK, FreshOK, BeforeOK, SettledOK, OtherEndOK, StepOK, Early, Unanswered, OneLessFor, LessFor
<1>13. AnswerOK(t, qq)
  BY <1>1, <1>2, <1>3, <1>4, <1>5, <1>7, <1>8, <1>x DEF AnswerOK, FreshOK, RecordOK, BeforeOK, StepOK, SettledOK, OtherEndOK, Early, Unanswered, OneLessFor, LessFor
<1>14. GivenUpOK(t, qq)
  BY <1>1, <1>2, <1>3, <1>4, <1>5, <1>7, <1>8, <1>x DEF GivenUpOK, FreshOK, StepOK, RecordOK, OtherEndOK, BeforeOK, SettledOK, AnswerOK, Early, Unanswered, OneLessFor, LessFor
<1>15. OtherEndOK(t, qq)
  BY <1>1, <1>2, <1>3, <1>4, <1>5, <1>7, <1>8, <1>x DEF OtherEndOK, FreshOK, StepOK, BeforeOK, AnswerOK, GivenUpOK, RecordOK, Early, Unanswered, OneLessFor, LessFor
<1>16. ChunksOK(t, qq, acked)
  BY <1>1, <1>2, <1>3, <1>4, <1>5, <1>7, <1>8, <1>x DEF ChunksOK, StepOK, BeforeOK, Early, Unanswered, OneLessFor, LessCounted
<1>17. SettledOK(t)
  BY <1>1, <1>2, <1>3, <1>4, <1>5, <1>7, <1>8, <1>x DEF SettledOK, FreshOK, BeforeOK, RecordOK, AnswerOK, GivenUpOK, StepOK, OtherEndOK, Early, Unanswered, OneLessFor, LessFor
<1>q. QED
  BY <1>9, <1>10, <1>11, <1>12, <1>13, <1>14, <1>15, <1>16, <1>17 DEF TransferOK, qq

LEMMA AckedLeft ==
  ASSUME TypeOK, NEW t \in Transfers, AllWell(t),
         net[Sender[t]] # <<>>, Head(net[Sender[t]]).id = t, Head(net[Sender[t]]).type = "ack",
         NEW acks,
         acks[t] = IF t \in sending /\ acked[t] <= Head(net[Sender[t]]).seq /\ Head(net[Sender[t]]).seq < sent[t]
                   THEN Head(net[Sender[t]]).seq + 1 ELSE acked[t]
  PROVE  TransferOK(t, Tail(net[Sender[t]]), accepted, acks)
<1> DEFINE p == net[Receiver(t)]
           q == net[Sender[t]]
           qq == Tail(net[Sender[t]])
<1>1. /\ p \in Seq(Messages) /\ q \in Seq(Messages)
      /\ sent[t] \in Nat /\ acked[t] \in Nat /\ got[t] \in Nat /\ Size[t] \in Nat
      /\ acked[t] <= sent[t] /\ sent[t] <= Size[t] /\ got[t] <= sent[t]
      /\ Sender[t] \in Ends /\ Receiver(t) \in Ends /\ Receiver(t) # Sender[t]
      /\ Other(Sender[t]) = Receiver(t) /\ Other(Receiver(t)) = Sender[t]
      /\ \A e \in Ends : (t \in From(e) <=> e = Sender[t]) /\ (t \in To(e) <=> e = Receiver(t))
  BY Typed, TwoEnds
<1>2. /\ FreshOK(t, q) /\ StepOK(t, q, accepted) /\ BeforeOK(t, q, accepted) /\ RecordOK(t) /\ AnswerOK(t, q)
      /\ GivenUpOK(t, q) /\ OtherEndOK(t, q) /\ ChunksOK(t, q, acked) /\ SettledOK(t)
      /\ TransferOK(t, q, accepted, acked)
  BY DEF AllWell, TransferOK, ToSender
<1>3. ToReceiver(t) = p
  BY DEF ToReceiver
<1>4. /\ AcceptMsg(t, FALSE) \in Messages /\ AcceptMsg(t, FALSE).id = t /\ AcceptMsg(t, FALSE).type = "accept"
      /\ AcceptMsg(t, TRUE) \in Messages /\ AcceptMsg(t, TRUE).id = t /\ AcceptMsg(t, TRUE).type = "accept"
      /\ AcceptMsg(t, FALSE) # AcceptMsg(t, TRUE)
      /\ EndMsg(t, TRUE) \in Messages /\ EndMsg(t, TRUE).id = t /\ EndMsg(t, TRUE).type = "end"
      /\ EndMsg(t, FALSE) \in Messages /\ EndMsg(t, FALSE).id = t /\ EndMsg(t, FALSE).type = "end"
      /\ EndMsg(t, TRUE) # EndMsg(t, FALSE)
      /\ OfferMsg(t) \in Messages /\ OfferMsg(t).id = t /\ OfferMsg(t).type = "offer"
      /\ RequestMsg(t) \in Messages /\ RequestMsg(t).id = t /\ RequestMsg(t).type = "request"
  <2>1. AcceptMsg(t, FALSE) # AcceptMsg(t, TRUE) /\ EndMsg(t, TRUE) # EndMsg(t, FALSE)
    BY DEF AcceptMsg, EndMsg
  <2>q. QED
    BY <2>1, Sayings, EndSaid
<1>5. /\ q # <<>> /\ Head(q).id = t /\ Head(q).type = "ack"
      /\ acks[t] = IF t \in sending /\ acked[t] <= Head(q).seq /\ Head(q).seq < sent[t]
                   THEN Head(q).seq + 1 ELSE acked[t]
  OBVIOUS
<1>7. /\ OneLessFor(q, qq, t, Head(q))
      /\ Head(q) \in Messages /\ Head(q).id = t
  BY <1>1, <1>4, <1>5, OneLess
<1>8. /\ Handshake(p, t) <=> Has(p, t, "request") \/ Has(p, t, "offer") \/ Has(p, t, "accept")
      /\ Says(p, AcceptMsg(t, FALSE)) => Has(p, t, "accept")
      /\ Says(p, EndMsg(t, TRUE)) => Has(p, t, "end")
      /\ Says(p, EndMsg(t, FALSE)) => Has(p, t, "end")
      /\ Handshake(q, t) <=> Has(q, t, "request") \/ Has(q, t, "offer") \/ Has(q, t, "accept")
      /\ Says(q, AcceptMsg(t, FALSE)) => Has(q, t, "accept")
      /\ Says(q, EndMsg(t, TRUE)) => Has(q, t, "end")
      /\ Says(q, EndMsg(t, FALSE)) => Has(q, t, "end")
      /\ Handshake(qq, t) <=> Has(qq, t, "request") \/ Has(qq, t, "offer") \/ Has(qq, t, "accept")
      /\ Says(qq, AcceptMsg(t, FALSE)) => Has(qq, t, "accept")
      /\ Says(qq, EndMsg(t, TRUE)) => Has(qq, t, "end")
      /\ Says(qq, EndMsg(t, FALSE)) => Has(qq, t, "end")
  BY Handshakes
<1>x. Head(q).seq \in Nat /\ Head(q) # AcceptMsg(t, FALSE) /\ Head(q) # EndMsg(t, TRUE) /\ Head(q) # EndMsg(t, FALSE)
  BY <1>4, <1>5, <1>7, MessageKinds
<1> HIDE DEF p, q, qq
<1>9. FreshOK(t, qq)
  BY <1>1, <1>2, <1>3, <1>4, <1>5, <1>7, <1>8, <1>x DEF FreshOK, StepOK, BeforeOK, Early, Unanswered, OneLessFor, LessFor
<1>10. StepOK(t, qq, accepted)
  BY <1>1, <1>2, <1>3, <1>4, <1>5, <1>7, <1>8, <1>x DEF StepOK, FreshOK, AnswerOK, GivenUpOK, BeforeOK, Early, Unanswered, OneLessFor, LessFor
<1>11. BeforeOK(t, qq, accepted)
  BY <1>1, <1>2, <1>3, <1>4, <1>5, <1>7, <1>8, <1>x DEF BeforeOK, FreshOK, RecordOK, StepOK, SettledOK, Early, Unanswered, OneLessFor, LessFor
<1>12. RecordOK(t)
  BY <1>1, <1>2, <1>3, <1>4, <1>5, <1>7, <1>8, <1>x DEF RecordOK, FreshOK, BeforeOK, SettledOK, OtherEndOK, StepOK, Early, Unanswered, OneLessFor, LessFor
<1>13. AnswerOK(t, qq)
  BY <1>1, <1>2, <1>3, <1>4, <1>5, <1>7, <1>8, <1>x DEF AnswerOK, FreshOK, RecordOK, BeforeOK, StepOK, SettledOK, OtherEndOK, Early, Unanswered, OneLessFor, LessFor
<1>14. GivenUpOK(t, qq)
  BY <1>1, <1>2, <1>3, <1>4, <1>5, <1>7, <1>8, <1>x DEF GivenUpOK, FreshOK, StepOK, RecordOK, OtherEndOK, BeforeOK, SettledOK, AnswerOK, Early, Unanswered, OneLessFor, LessFor
<1>15. OtherEndOK(t, qq)
  BY <1>1, <1>2, <1>3, <1>4, <1>5, <1>7, <1>8, <1>x DEF OtherEndOK, FreshOK, StepOK, BeforeOK, AnswerOK, GivenUpOK, RecordOK, Early, Unanswered, OneLessFor, LessFor
<1>16. ChunksOK(t, qq, acks)
  BY <1>1, <1>2, <1>3, <1>4, <1>5, <1>7, <1>8, <1>x DEF ChunksOK, StepOK, BeforeOK, Early, Unanswered, OneLessFor, LessCounted
<1>17. SettledOK(t)
  BY <1>1, <1>2, <1>3, <1>4, <1>5, <1>7, <1>8, <1>x DEF SettledOK, FreshOK, BeforeOK, RecordOK, AnswerOK, GivenUpOK, StepOK, OtherEndOK, Early, Unanswered, OneLessFor, LessFor
<1>q. QED
  BY <1>9, <1>10, <1>11, <1>12, <1>13, <1>14, <1>15, <1>16, <1>17 DEF TransferOK, qq

LEMMA PumpWell ==
  ASSUME TypeOK, NEW e \in Ends, NEW acks, NEW inbox \in Seq(Messages),
         NEW done, done \subseteq To(e), NEW bad, bad \subseteq done, NEW broken, NEW chunks,
         PumpSays(e, accepted', acks, inbox, done, bad, broken, chunks),
         NEW t \in Transfers, t \notin done, acks[t] \in Nat, acked'[t] = acks[t],
         t \in begun' <=> t \in begun, t \in receiving' <=> t \in receiving,
         t \in pending' <=> t \in pending, t \in wanted' <=> t \in wanted, t \in opening' <=> t \in opening,
         got'[t] = got[t], file'[t] = file[t],
         NEW q, TransferOK(t, q, accepted', acks),
         t \in From(e) => SameFor(q, inbox, t),
         t \in To(e) => SameFor(q, net[Sender[t]], t) /\ SameFor(net[e], inbox, t)
  PROVE  AllWell(t)'
<1>1. /\ Sender[t] \in Ends /\ Receiver(t) \in Ends /\ Receiver(t) # Sender[t]
      /\ Other(Sender[t]) = Receiver(t) /\ Other(Receiver(t)) = Sender[t]
      /\ t \in From(e) <=> e = Sender[t]
      /\ t \in To(e) <=> e = Receiver(t)
      /\ e = Sender[t] \/ e = Receiver(t)
  BY TwoEnds
<1>2. /\ sent[t] \in Nat /\ sent'[t] \in Nat /\ sent[t] <= sent'[t]
      /\ t \notin accepted' \/ t \notin sending => sent'[t] = sent[t]
      /\ t \notin From(e) => sent'[t] = sent[t]
      /\ t \in broken => sent'[t] < Size[t] /\ t \in accepted' /\ t \in sending /\ t \in From(e)
      /\ t \in sending' <=> t \in sending /\ t \notin broken
  BY Typed DEF PumpSays
<1>3. /\ t \in broken => verdict'[e][t] = "failed"
      /\ t \notin broken => verdict'[e][t] = verdict[e][t]
      /\ \A f \in Ends : f # e => verdict'[f][t] = verdict[f][t]
  BY PumpTold
<1>4. /\ net'[e] = inbox
      /\ t \in From(e) /\ t \notin broken => DataMoreFor(net[Other(e)], net'[Other(e)], t, sent[t], sent'[t])
      /\ t \in broken => \E y \in Seq(Messages) : /\ DataMoreFor(net[Other(e)], y, t, sent[t], sent'[t])
                                                  /\ OneMoreFor(y, net'[Other(e)], t, EndMsg(t, FALSE))
      /\ t \in To(e) => SameFor(net[Other(e)], net'[Other(e)], t)
  BY PumpSaid
<1>5. CASE t \in broken
  <2>1. e = Sender[t] /\ Other(e) = Receiver(t)
    BY <1>1, <1>2, <1>5
  <2>2. PICK y \in Seq(Messages) : /\ DataMoreFor(net[Receiver(t)], y, t, sent[t], sent'[t])
                                   /\ OneMoreFor(y, net'[Receiver(t)], t, EndMsg(t, FALSE))
    BY <1>4, <1>5, <2>1
  <2>3. SameFor(q, net'[Sender[t]], t)
    BY <1>1, <1>4, <2>1
  <2>q. QED
    BY <1>1, <1>2, <1>3, <1>5, <2>1, <2>2, <2>3, PumpBroken
<1>6. CASE t \in From(e) /\ t \notin broken
  <2>1. e = Sender[t] /\ Other(e) = Receiver(t)
    BY <1>1, <1>6
  <2>2. SameFor(q, net'[Sender[t]], t) /\ DataMoreFor(net[Receiver(t)], net'[Receiver(t)], t, sent[t], sent'[t])
    BY <1>4, <1>6, <2>1
  <2>3. Still(t)
    BY <1>1, <1>2, <1>3, <1>6, <2>1 DEF Still
  <2>q. QED
    BY <1>2, <2>2, <2>3, PumpKept
<1>7. CASE t \in To(e)
  <2>1. e = Receiver(t) /\ Other(e) = Sender[t] /\ t \notin From(e) /\ t \notin broken
    BY <1>1, <1>2, <1>7
  <2>2. SameFor(net[Receiver(t)], net'[Receiver(t)], t)
    BY <1>4, <1>7, <2>1
  <2>3. SameFor(q, net'[Sender[t]], t)
    <3>1. SameFor(q, net[Sender[t]], t) /\ SameFor(net[Sender[t]], net'[Sender[t]], t)
      BY <1>4, <1>7, <2>1
    <3>q. QED
      BY <3>1, SameOnward
  <2>4. Unmoved(t)
    BY <1>1, <1>2, <1>3, <2>1 DEF Unmoved, Still
  <2>q. QED
    BY <2>2, <2>3, <2>4, Untouched
<1>q. QED
  BY <1>1, <1>5, <1>6, <1>7
-----------------------------------------------------------------------------
(* The parts of the invariant from step to step.                            *)
LEMMA WindowsAfter ==
  ASSUME TypeOK, NEW acks, \A t \in Transfers : acks[t] \in Nat, WindowOK(acks),
         NEW e \in Ends, NEW less, NEW more, \A t \in Transfers : more[t] \in Nat /\ acks[t] <= more[t],
         less \subseteq Transfers, \A t \in less : t \in sending \cap From(e) \/ sent[t] = 0
  PROVE  Cardinality(InFlight(less, more, sent)) <= Budget
<1> DEFINE live == sending \cap From(e)
           both == less \cap live
<1>1. /\ live \subseteq Transfers /\ both \subseteq live
      /\ \A t \in Transfers : sent[t] \in Nat
  BY Typed DEF TypeOK
<1>2. InFlight(less, more, sent) = InFlight(both, more, sent)
  <2>1. ASSUME NEW t \in less, t \notin live PROVE more[t]..(sent[t] - 1) = {}
    <3>1. sent[t] = 0 /\ more[t] \in Nat
      BY <2>1
    <3>q. QED
      BY <3>1
  <2>q. QED
    BY <2>1 DEF InFlight
<1>3. Cardinality(InFlight(both, more, sent)) <= Cardinality(InFlight(live, acks, sent))
  <2> HIDE DEF both, live
  <2>q. QED
    BY <1>1, InFlightLess
<1>4. /\ Cardinality(InFlight(live, acks, sent)) \in Nat
      /\ Cardinality(InFlight(both, more, sent)) \in Nat
  <2> HIDE DEF both, live
  <2>1. both \subseteq Transfers
    BY <1>1
  <2>q. QED
    BY <1>1, <2>1, InFlightFinite, FS_CardinalityType
<1>5. Cardinality(InFlight(live, acks, sent)) <= Budget
  BY DEF WindowOK
<1>q. QED
  BY <1>2, <1>3, <1>4, <1>5, TransferAssumption

(* A step that is about one transfer, and pumps none.                       *)
LEMMA CalmKeeps ==
  ASSUME TransferInv, TypeOK', NEW t \in Transfers, AllWell(t)',
         accepted' = accepted, sent' = sent, acked' = acked,
         t \in sending' => t \in sending \/ sent[t] = 0,
         \A u \in Transfers : u # t =>
           /\ Unmoved(u)
           /\ SameFor(net[Sender[u]], net'[Sender[u]], u) /\ SameFor(net[Receiver(u)], net'[Receiver(u)], u)
  PROVE  TransferInv'
<1>1. TypeOK /\ WindowOK(acked) /\ \A u \in Transfers : AllWell(u)
  BY DEF TransferInv
<1>2. \A u \in Transfers : sent[u] \in Nat /\ acked[u] \in Nat /\ acked[u] <= acked[u]
  BY <1>1, Typed
<1>3. ASSUME NEW u \in Transfers PROVE AllWell(u)'
  <2>1. CASE u = t
    BY <2>1
  <2>2. CASE u # t
    <3>1. TransferOK(u, net[Sender[u]], accepted, acked)
      BY <1>1 DEF AllWell, ToSender
    <3>q. QED
      BY <1>1, <1>2, <2>2, <3>1, Untouched
  <2>q. QED
    BY <2>1, <2>2
<1>4. WindowOK(acked)'
  <2>1. \A u \in Transfers : sent'[u] - acked'[u] <= Window
    BY <1>1 DEF WindowOK
  <2>2. ASSUME NEW e \in Ends PROVE Cardinality(InFlight(sending' \cap From(e), acked', sent')) <= Budget
    <3>1. sending' \cap From(e) \subseteq Transfers
      BY DEF TypeOK
    <3>2. \A u \in sending' \cap From(e) : u \in sending \cap From(e) \/ sent[u] = 0
      BY <3>1 DEF Unmoved, Still
    <3>q. QED
      BY <1>1, <1>2, <3>1, <3>2, WindowsAfter
  <2>q. QED
    BY <2>1, <2>2 DEF WindowOK
<1>q. QED
  BY <1>3, <1>4 DEF TransferInv

LEMMA HeadAt ==
  ASSUME TransferInv, NEW e \in Ends, net[e] # <<>>
  PROVE  /\ Head(net[e]) \in Messages /\ Head(net[e]).id \in Transfers
         /\ Head(net[e]).type \in {"request", "accept", "ack"} => e = Sender[Head(net[e]).id]
         /\ Head(net[e]).type \in {"offer", "data"} => e = Receiver(Head(net[e]).id)
         /\ Head(net[e]).type = "request" => Head(net[e]).id \in Asked
<1> DEFINE h == Head(net[e])
           t == h.id
<1>1. TypeOK /\ net[e] \in Seq(Messages)
  BY DEF TransferInv, TypeOK
<1>2. h \in Messages /\ t \in Transfers
  BY <1>1, Rest, MessageKinds
<1>3. Has(net[e], t, h.type)
  <2>1. 1 \in DOMAIN net[e] /\ net[e][1] = h
    BY <1>1
  <2>q. QED
    BY <2>1 DEF Has, At
<1> HIDE DEF h
<1>4. StepOK(t, net[Sender[t]], accepted) /\ ToReceiver(t) = net[Receiver(t)]
  BY <1>2 DEF TransferInv, AllWell, TransferOK, ToSender, ToReceiver
<1>5. e = Sender[t] \/ e = Receiver(t)
  BY <1>2, TwoEnds
<1>q. QED
  BY <1>2, <1>3, <1>4, <1>5 DEF StepOK, h

(* A step that answers one message about one transfer, and pumps none.      *)
LEMMA ReplyKeeps ==
  ASSUME TransferInv, NEW e \in Ends, net[e] # <<>>, NEW msgs \in Seq(Messages), Reply(e, msgs),
         NEW t \in Transfers, Head(net[e]).id = t, \A i \in DOMAIN msgs : msgs[i].id = t,
         TypeOK', AllWell(t)', accepted' = accepted, sent' = sent, acked' = acked,
         t \in sending' => t \in sending \/ sent[t] = 0,
         \A u \in Transfers : u # t => Unmoved(u)
  PROVE  TransferInv'
<1>1. TypeOK
  BY DEF TransferInv
<1>2. ASSUME NEW u \in Transfers, u # t
      PROVE  SameFor(net[Sender[u]], net'[Sender[u]], u) /\ SameFor(net[Receiver(u)], net'[Receiver(u)], u)
  <2>1. Silent(msgs, u)
    BY <1>2 DEF Silent
  <2>q. QED
    BY <1>1, <1>2, <2>1, RepliedOfOthers
<1>q. QED
  BY <1>2, CalmKeeps

(* A step that says something of one transfer of its own accord.            *)
LEMMA SayKeeps ==
  ASSUME TransferInv, NEW e \in Ends, NEW msgs \in Seq(Messages), Say(e, msgs),
         NEW t \in Transfers, \A i \in DOMAIN msgs : msgs[i].id = t,
         TypeOK', AllWell(t)', accepted' = accepted, sent' = sent, acked' = acked,
         t \in sending' => t \in sending \/ sent[t] = 0,
         \A u \in Transfers : u # t => Unmoved(u)
  PROVE  TransferInv'
<1>1. TypeOK
  BY DEF TransferInv
<1>2. ASSUME NEW u \in Transfers, u # t
      PROVE  SameFor(net[Sender[u]], net'[Sender[u]], u) /\ SameFor(net[Receiver(u)], net'[Receiver(u)], u)
  <2>1. Silent(msgs, u)
    BY <1>2 DEF Silent
  <2>q. QED
    BY <1>1, <2>1, SaidOfOthers
<1>q. QED
  BY <1>2, CalmKeeps

LEMMA JustOne ==
  ASSUME NEW m \in Messages, NEW t, m.id = t
  PROVE  <<m>> \in Seq(Messages) /\ \A i \in DOMAIN <<m>> : <<m>>[i].id = t
OBVIOUS

(* Before its offer is answered nothing of a transfer has been sent.        *)
LEMMA NothingSent ==
  ASSUME NEW t \in Transfers, AllWell(t), Early(t, net[Sender[t]])
  PROVE  sent[t] = 0 /\ t \notin sending
<1>1. BeforeOK(t, net[Sender[t]], accepted)
  BY DEF AllWell, TransferOK, ToSender
<1>q. QED
  BY <1>1 DEF BeforeOK, Unanswered

LEMMA OfferKeeps ==
  ASSUME TransferInv, NEW t \in Transfers, Offer(t)
  PROVE  TransferInv'
<1>1. TypeOK /\ AllWell(t)
  BY DEF TransferInv
<1>2. /\ t \notin begun /\ begun' = begun \cup {t} /\ sending' = sending \cup {t} /\ Say(Sender[t], <<OfferMsg(t)>>)
      /\ UNCHANGED <<accepted, sent, acked, inVars, opening, file, verdict, faults>>
  BY DEF Offer
<1>3. AllWell(t)'
  BY <1>1, OfferOwn
<1>4. OfferMsg(t) \in Messages /\ OfferMsg(t).id = t /\ Sender[t] \in Ends
  BY Sayings, TwoEnds
<1>5. <<OfferMsg(t)>> \in Seq(Messages) /\ \A i \in DOMAIN <<OfferMsg(t)>> : <<OfferMsg(t)>>[i].id = t
  BY <1>4, JustOne
<1>6. net' \in [Ends -> Seq(Messages)]
  BY <1>1, <1>2, <1>4, SaidOne
<1>7. TypeOK'
  BY <1>1, <1>2, <1>6 DEF TypeOK, inVars
<1>8. \A u \in Transfers : u # t => Unmoved(u)
  BY <1>2 DEF Unmoved, Still, inVars
<1>9. sent[t] = 0
  BY <1>1, <1>2, NothingSent DEF Early
<1>q. QED
  BY <1>2, <1>3, <1>4, <1>5, <1>7, <1>8, <1>9, SayKeeps

LEMMA RequestKeeps ==
  ASSUME TransferInv, NEW t \in Transfers, Request(t)
  PROVE  TransferInv'
<1>1. TypeOK /\ AllWell(t)
  BY DEF TransferInv
<1>2. /\ t \in Asked /\ begun' = begun \cup {t} /\ pending' = pending \cup {t} /\ wanted' = wanted \cup {t}
      /\ Say(Receiver(t), <<RequestMsg(t)>>)
      /\ UNCHANGED <<outVars, receiving, got, opening, file, verdict, faults>>
  BY DEF Request
<1>3. AllWell(t)'
  BY <1>1, RequestOwn
<1>4. RequestMsg(t) \in Messages /\ RequestMsg(t).id = t /\ Receiver(t) \in Ends
  BY Sayings, TwoEnds
<1>5. <<RequestMsg(t)>> \in Seq(Messages) /\ \A i \in DOMAIN <<RequestMsg(t)>> : <<RequestMsg(t)>>[i].id = t
  BY <1>4, JustOne
<1>6. net' \in [Ends -> Seq(Messages)]
  BY <1>1, <1>2, <1>4, SaidOne
<1>7. TypeOK'
  BY <1>1, <1>2, <1>6 DEF TypeOK, outVars
<1>8. \A u \in Transfers : u # t => Unmoved(u)
  BY <1>2 DEF Unmoved, Still, outVars
<1>9. sending' = sending /\ accepted' = accepted /\ sent' = sent /\ acked' = acked
  BY <1>2 DEF outVars
<1>q. QED
  BY <1>2, <1>3, <1>4, <1>5, <1>7, <1>8, <1>9, SayKeeps

LEMMA OpenedKeeps ==
  ASSUME TransferInv, NEW t \in Transfers, Opened(t)
  PROVE  TransferInv'
<1>1. TypeOK /\ AllWell(t)
  BY DEF TransferInv
<1>2. /\ t \in opening /\ opening' = opening \ {t} /\ sending' = sending \cup {t} /\ Say("server", <<OfferMsg(t)>>)
      /\ UNCHANGED <<accepted, sent, acked, inVars, file, verdict, begun, faults>>
  BY DEF Opened
<1>3. AllWell(t)'
  BY <1>1, OpenedOwn
<1>4. OfferMsg(t) \in Messages /\ OfferMsg(t).id = t /\ "server" \in Ends
  BY Sayings DEF Ends
<1>5. <<OfferMsg(t)>> \in Seq(Messages) /\ \A i \in DOMAIN <<OfferMsg(t)>> : <<OfferMsg(t)>>[i].id = t
  BY <1>4, JustOne
<1>6. net' \in [Ends -> Seq(Messages)]
  BY <1>1, <1>2, <1>4, SaidOne
<1>7. TypeOK'
  BY <1>1, <1>2, <1>6 DEF TypeOK, inVars
<1>8. \A u \in Transfers : u # t => Unmoved(u)
  BY <1>2 DEF Unmoved, Still, inVars
<1>9. sent[t] = 0
  BY <1>1, <1>2, NothingSent DEF Early
<1>q. QED
  BY <1>2, <1>3, <1>4, <1>5, <1>7, <1>8, <1>9, SayKeeps

LEMMA OpenFailedKeeps ==
  ASSUME TransferInv, NEW t \in Transfers, OpenFailed(t)
  PROVE  TransferInv'
<1>1. TypeOK /\ AllWell(t)
  BY DEF TransferInv
<1>2. /\ opening' = opening \ {t} /\ Say("server", <<EndMsg(t, FALSE)>>) /\ Fault
      /\ UNCHANGED <<outVars, inVars, file, verdict, begun>>
  BY DEF OpenFailed
<1>3. AllWell(t)'
  BY <1>1, OpenFailedOwn
<1>4. EndMsg(t, FALSE) \in Messages /\ EndMsg(t, FALSE).id = t /\ "server" \in Ends
  BY EndSaid DEF Ends
<1>5. <<EndMsg(t, FALSE)>> \in Seq(Messages) /\ \A i \in DOMAIN <<EndMsg(t, FALSE)>> : <<EndMsg(t, FALSE)>>[i].id = t
  BY <1>4, JustOne
<1>6. net' \in [Ends -> Seq(Messages)] /\ faults' \in 0..MaxFaults
  <2>1. net' \in [Ends -> Seq(Messages)]
    BY <1>1, <1>2, <1>4, SaidOne
  <2>2. faults' \in 0..MaxFaults
    BY <1>1, <1>2, TransferAssumption DEF Fault, TypeOK
  <2>q. QED
    BY <2>1, <2>2
<1>7. TypeOK'
  BY <1>1, <1>2, <1>6 DEF TypeOK, inVars, outVars
<1>8. \A u \in Transfers : u # t => Unmoved(u)
  BY <1>2 DEF Unmoved, Still, inVars, outVars
<1>9. sending' = sending /\ accepted' = accepted /\ sent' = sent /\ acked' = acked
  BY <1>2 DEF outVars
<1>q. QED
  BY <1>2, <1>3, <1>4, <1>5, <1>7, <1>8, <1>9, SayKeeps

LEMMA CancelKeeps ==
  ASSUME TransferInv, NEW e \in Ends, NEW t \in Transfers, Cancel(e, t)
  PROVE  TransferInv'
<1>1. TypeOK /\ AllWell(t) /\ (e = Sender[t] \/ e = Receiver(t))
  BY TwoEnds DEF TransferInv
<1>2. /\ Forget(e, t) /\ Tell(e, {t}, "cancelled") /\ Say(e, <<EndMsg(t, FALSE)>>) /\ Fault
      /\ UNCHANGED <<accepted, sent, acked, got, opening, begun>>
  BY DEF Cancel
<1>3. AllWell(t)'
  BY <1>1, CancelAtSenderOwn, CancelAtReceiverOwn
<1>4. EndMsg(t, FALSE) \in Messages /\ EndMsg(t, FALSE).id = t
  BY EndSaid
<1>5. <<EndMsg(t, FALSE)>> \in Seq(Messages) /\ \A i \in DOMAIN <<EndMsg(t, FALSE)>> : <<EndMsg(t, FALSE)>>[i].id = t
  BY <1>4, JustOne
<1>6. net' \in [Ends -> Seq(Messages)] /\ faults' \in 0..MaxFaults
  <2>1. net' \in [Ends -> Seq(Messages)]
    BY <1>1, <1>2, <1>4, SaidOne
  <2>2. faults' \in 0..MaxFaults
    BY <1>1, <1>2, TransferAssumption DEF Fault, TypeOK
  <2>q. QED
    BY <2>1, <2>2
<1>7. /\ verdict' \in [Ends -> [Transfers -> {"none", "sent", "completed", "failed", "cancelled"}]]
      /\ \A f \in Ends, u \in Transfers : u # t => verdict'[f][u] = verdict[f][u]
  BY <1>1, <1>2, Told, ToldTyped
<1>8. /\ file' \in [Transfers -> {"none", "staged", "queued", "publishing", "placed", "published", "refused", "stray"}]
      /\ \A u \in Transfers : u # t => file'[u] = file[u]
  BY <1>1, <1>2 DEF Forget, Dropped, TypeOK
<1>9. TypeOK'
  BY <1>1, <1>2, <1>6, <1>7, <1>8 DEF TypeOK, Forget
<1>10. \A u \in Transfers : u # t => Unmoved(u)
  BY <1>2, <1>7, <1>8, TwoEnds DEF Unmoved, Still, Forget
<1>11. t \in sending' => t \in sending
  BY <1>2 DEF Forget
<1>q. QED
  BY <1>2, <1>3, <1>5, <1>9, <1>10, <1>11, SayKeeps

LEMMA WorkerKeeps ==
  ASSUME TransferInv, NEW t \in Transfers, Take(t) \/ Persist(t) \/ Answer(t)
  PROVE  TransferInv'
<1>1. TypeOK /\ AllWell(t)
  BY DEF TransferInv
<1>2. AllWell(t)'
  BY <1>1, TakeOwn, PersistOwn
<1>3. /\ UNCHANGED <<outVars, inVars, opening, net, verdict, begun>> /\ (faults' = faults \/ Fault)
      /\ \E what \in {"publishing", "placed", "none", "published", "stray", "refused"} : file' = [file EXCEPT ![t] = what]
  BY DEF Take, Persist, Answer
<1>4. /\ file' \in [Transfers -> {"none", "staged", "queued", "publishing", "placed", "published", "refused", "stray"}]
      /\ \A u \in Transfers : u # t => file'[u] = file[u]
  BY <1>1, <1>3 DEF TypeOK
<1>5. faults' \in 0..MaxFaults
  BY <1>1, <1>3, TransferAssumption DEF TypeOK, Fault
<1>6. TypeOK'
  BY <1>1, <1>3, <1>4, <1>5 DEF TypeOK, outVars, inVars
<1>7. \A u \in Transfers : u # t => Unmoved(u)
  BY <1>3, <1>4 DEF Unmoved, Still, outVars, inVars
<1>8. accepted' = accepted /\ sent' = sent /\ acked' = acked /\ sending' = sending /\ net' = net
  BY <1>3 DEF outVars
<1>9. \A u \in Transfers : SameFor(net[Sender[u]], net'[Sender[u]], u) /\ SameFor(net[Receiver(u)], net'[Receiver(u)], u)
  BY <1>8, SameItself
<1>q. QED
  BY <1>2, <1>6, <1>7, <1>8, <1>9, CalmKeeps

LEMMA RecvRequestKeeps ==
  ASSUME TransferInv, NEW e \in Ends, RecvRequest(e)
  PROVE  TransferInv'
<1>1. net[e] # <<>> /\ Head(net[e]).type = "request"
  BY DEF RecvRequest, Head1
<1>2. PICK t \in Transfers : Head(net[e]).id = t /\ e = Sender[t] /\ t \in Asked
  BY <1>1, HeadAt
<1>3. TypeOK /\ AllWell(t)
  BY DEF TransferInv
<1>4. UNCHANGED <<accepted, sent, acked, inVars, file, verdict, begun>>
  BY DEF RecvRequest
<1>5. /\ net[Sender[t]] # <<>> /\ Head(net[Sender[t]]).id = t /\ Head(net[Sender[t]]).type = "request"
  BY <1>1, <1>2
<1>6. \/ Reply(e, <<EndMsg(t, FALSE)>>) /\ UNCHANGED <<sending, opening>>
      \/ e = "server" /\ opening' = opening \cup {t} /\ Reply(e, <<>>) /\ sending' = sending
      \/ sending' = sending \cup {t} /\ Reply(e, <<OfferMsg(t)>>) /\ opening' = opening
  BY <1>2 DEF RecvRequest
<1>7. faults' \in 0..MaxFaults
  <2>1. faults' = faults \/ Fault
    BY DEF RecvRequest
  <2>q. QED
    BY <1>3, <2>1, TransferAssumption DEF TypeOK, Fault
<1>8. EndMsg(t, FALSE) \in Messages /\ EndMsg(t, FALSE).id = t /\ OfferMsg(t) \in Messages /\ OfferMsg(t).id = t
  BY Sayings, EndSaid
<1>9. sent[t] = 0
  <2>1. Has(net[Sender[t]], t, "request")
    <3>1. net[Sender[t]] \in Seq(Messages)
      BY <1>3, Typed
    <3>2. 1 \in DOMAIN net[Sender[t]] /\ net[Sender[t]][1] = Head(net[Sender[t]])
      BY <1>5, <3>1, Rest
    <3>q. QED
      BY <1>5, <3>2 DEF Has, At
  <2>q. QED
    BY <1>3, <2>1, NothingSent DEF Early
<1>10. CASE Reply(e, <<EndMsg(t, FALSE)>>) /\ UNCHANGED <<sending, opening>>
  <2>1. AllWell(t)'
    <3>1. UNCHANGED <<outVars, inVars, opening, file, verdict, begun>> /\ Reply(Sender[t], <<EndMsg(t, FALSE)>>)
      BY <1>2, <1>4, <1>10 DEF outVars
    <3>q. QED
      BY <1>3, <1>5, <3>1, RequestRefusedOwn
  <2>2. <<EndMsg(t, FALSE)>> \in Seq(Messages) /\ \A i \in DOMAIN <<EndMsg(t, FALSE)>> : <<EndMsg(t, FALSE)>>[i].id = t
    BY <1>8, JustOne
  <2>3. net' \in [Ends -> Seq(Messages)]
    BY <1>1, <1>3, <1>8, <1>10, RepliedOne
  <2>4. TypeOK'
    BY <1>3, <1>4, <1>7, <1>10, <2>3 DEF TypeOK, inVars
  <2>5. \A u \in Transfers : u # t => Unmoved(u)
    BY <1>4, <1>10 DEF Unmoved, Still, inVars
  <2>q. QED
    BY <1>1, <1>2, <1>4, <1>10, <2>1, <2>2, <2>4, <2>5, ReplyKeeps
<1>11. CASE e = "server" /\ opening' = opening \cup {t} /\ Reply(e, <<>>) /\ sending' = sending
  <2>1. AllWell(t)'
    <3>1. UNCHANGED <<outVars, inVars, file, verdict, begun>> /\ Reply(Sender[t], <<>>)
      BY <1>2, <1>4, <1>11 DEF outVars
    <3>q. QED
      BY <1>3, <1>5, <1>11, <3>1, RequestOpeningOwn
  <2>2. <<>> \in Seq(Messages) /\ \A i \in DOMAIN <<>> : <<>>[i].id = t
    OBVIOUS
  <2>3. net' \in [Ends -> Seq(Messages)]
    BY <1>1, <1>3, <1>11, RepliedNone
  <2>4. TypeOK'
    <3>1. t \in Asked \cap From("server")
      BY <1>2, <1>11, TwoEnds
    <3>q. QED
      BY <1>3, <1>4, <1>7, <1>11, <2>3, <3>1 DEF TypeOK, inVars
  <2>5. \A u \in Transfers : u # t => Unmoved(u)
    BY <1>4, <1>11 DEF Unmoved, Still, inVars
  <2>q. QED
    BY <1>1, <1>2, <1>4, <1>11, <2>1, <2>2, <2>4, <2>5, ReplyKeeps
<1>12. CASE sending' = sending \cup {t} /\ Reply(e, <<OfferMsg(t)>>) /\ opening' = opening
  <2>1. AllWell(t)'
    <3>1. UNCHANGED <<accepted, sent, acked, inVars, opening, file, verdict, begun>> /\ Reply(Sender[t], <<OfferMsg(t)>>)
      BY <1>2, <1>4, <1>12
    <3>q. QED
      BY <1>3, <1>5, <1>12, <3>1, RequestTakenOwn
  <2>2. <<OfferMsg(t)>> \in Seq(Messages) /\ \A i \in DOMAIN <<OfferMsg(t)>> : <<OfferMsg(t)>>[i].id = t
    BY <1>8, JustOne
  <2>3. net' \in [Ends -> Seq(Messages)]
    BY <1>1, <1>3, <1>8, <1>12, RepliedOne
  <2>4. TypeOK'
    BY <1>3, <1>4, <1>7, <1>12, <2>3 DEF TypeOK, inVars
  <2>5. \A u \in Transfers : u # t => Unmoved(u)
    BY <1>4, <1>12 DEF Unmoved, Still, inVars
  <2>q. QED
    BY <1>1, <1>2, <1>4, <1>9, <1>12, <2>1, <2>2, <2>4, <2>5, ReplyKeeps
<1>q. QED
  BY <1>6, <1>10, <1>11, <1>12

LEMMA PairOf ==
  ASSUME NEW S, NEW m \in S, NEW n \in S
  PROVE  <<m>> \o <<n>> = <<m, n>>
<1> DEFINE x == <<m>> \o <<n>>
           y == <<m, n>>
<1>1. <<m>> \in Seq(S) /\ <<n>> \in Seq(S) /\ y \in Seq(S) /\ Len(y) = 2 /\ y[1] = m /\ y[2] = n
  OBVIOUS
<1>2. x \in Seq(S) /\ Len(x) = 2 /\ x[1] = m /\ x[2] = n
  BY <1>1, ConcatProperties
<1> HIDE DEF x, y
<1>3. \A i \in 1..2 : i = 1 \/ i = 2
  OBVIOUS
<1>4. x = y
  BY <1>1, <1>2, <1>3
<1>q. QED
  BY <1>4 DEF x, y

LEMMA FinishDoes ==
  ASSUME NEW e \in Ends, NEW t \in Transfers, NEW how \in Finishes(t), NEW b \in Messages, Finish(e, t, how, <<b>>)
  PROVE  /\ file' = IF OnDisk(t) THEN [file EXCEPT ![t] = FileAfter(how)] ELSE file
         /\ FileAfter(how) \in {"published", "queued", "none"}
         /\ \/ how = "blocked" /\ OnDisk(t) /\ FileAfter(how) = "queued" /\ Reply(e, <<b>>) /\ UNCHANGED <<wanted, verdict>>
            \/ /\ how \in {"completed", "failed"} /\ wanted' = wanted \ {t} /\ Tell(e, {t}, how)
               /\ \E m \in Messages : /\ m.id = t /\ Reply(e, <<b, m>>)
                                      /\ \/ how = "completed" /\ m = EndMsg(t, TRUE)
                                         \/ how = "failed" /\ m = EndMsg(t, FALSE)
<1>1. how \in {"completed", "failed", "blocked"} /\ (how = "blocked" => OnDisk(t))
  BY DEF Finishes, ByWorker
<1>2. FileAfter(how) \in {"published", "queued", "none"} /\ (how = "blocked" => FileAfter(how) = "queued")
  BY <1>1 DEF FileAfter
<1>3. file' = IF OnDisk(t) THEN [file EXCEPT ![t] = FileAfter(how)] ELSE file
  BY DEF Finish
<1>4. CASE how = "blocked"
  BY <1>1, <1>2, <1>3, <1>4 DEF Finish
<1>5. CASE how # "blocked"
  <2>1. Reply(e, <<b>> \o <<EndMsg(t, how = "completed")>>) /\ wanted' = wanted \ {t} /\ Tell(e, {t}, how)
    BY <1>5 DEF Finish
  <2>2. \A m \in Messages : <<b>> \o <<m>> = <<b, m>>
    BY PairOf
  <2>3. EndMsg(t, TRUE) \in Messages /\ EndMsg(t, FALSE) \in Messages /\ EndMsg(t, TRUE).id = t /\ EndMsg(t, FALSE).id = t
    BY EndSaid
  <2>4. CASE how = "completed"
    <3>1. (how = "completed") = TRUE
      BY <2>4
    <3>2. Reply(e, <<b>> \o <<EndMsg(t, TRUE)>>)
      BY <2>1, <3>1, Zenon
    <3>3. Reply(e, <<b, EndMsg(t, TRUE)>>)
      BY <2>2, <2>3, <3>2
    <3>q. QED
      BY <1>2, <1>3, <2>1, <2>3, <2>4, <3>3
  <2>5. CASE how = "failed"
    <3>1. (how = "completed") = FALSE
      BY <2>5
    <3>2. Reply(e, <<b>> \o <<EndMsg(t, FALSE)>>)
      BY <2>1, <3>1, Zenon
    <3>3. Reply(e, <<b, EndMsg(t, FALSE)>>)
      BY <2>2, <2>3, <3>2
    <3>q. QED
      BY <1>2, <1>3, <2>1, <2>3, <2>5, <3>3
  <2>q. QED
    BY <1>1, <1>5, <2>4, <2>5
<1>q. QED
  BY <1>4, <1>5

LEMMA JustOneOf ==
  ASSUME NEW m \in Messages
  PROVE  <<m>> \in Seq(Messages) /\ \A t : m.id = t => \A i \in DOMAIN <<m>> : <<m>>[i].id = t
OBVIOUS

LEMMA JustTwo ==
  ASSUME NEW m \in Messages, NEW n \in Messages
  PROVE  /\ <<m, n>> \in Seq(Messages)
         /\ \A t : m.id = t /\ n.id = t => \A i \in DOMAIN <<m, n>> : <<m, n>>[i].id = t
OBVIOUS

(* The type of the state after a reply.                                     *)
LEMMA TypedReply ==
  ASSUME TypeOK, NEW e \in Ends, net[e] # <<>>, NEW msgs \in Seq(Messages), Reply(e, msgs),
         UNCHANGED <<accepted, sent, acked, opening, begun>>,
         sending' \subseteq Transfers, receiving' \subseteq Transfers,
         got' \in [Transfers -> Nat], \A t \in Transfers : got'[t] <= sent[t],
         pending' \subseteq pending, wanted' \subseteq wanted,
         file' \in [Transfers -> {"none", "staged", "queued", "publishing", "placed", "published", "refused", "stray"}],
         verdict' \in [Ends -> [Transfers -> {"none", "sent", "completed", "failed", "cancelled"}]],
         faults' \in 0..MaxFaults
  PROVE  TypeOK'
<1>1. net' \in [Ends -> Seq(Messages)]
  BY Replied
<1>q. QED
  BY <1>1 DEF TypeOK

LEMMA RecvOfferKeeps ==
  ASSUME TransferInv, NEW e \in Ends, RecvOffer(e)
  PROVE  TransferInv'
<1>1. net[e] # <<>> /\ Head(net[e]).type = "offer"
  BY DEF RecvOffer, Head1
<1>2. PICK t \in Transfers : Head(net[e]).id = t /\ e = Receiver(t)
  BY <1>1, HeadAt
<1>3. TypeOK /\ AllWell(t)
  BY DEF TransferInv
<1>4. /\ pending' = pending \ {t} /\ sending' = sending /\ accepted' = accepted /\ sent' = sent /\ acked' = acked
      /\ got' = got /\ opening' = opening /\ begun' = begun
  BY <1>2 DEF RecvOffer, outVars
<1>5. /\ net[Receiver(t)] # <<>> /\ Head(net[Receiver(t)]).id = t /\ Head(net[Receiver(t)]).type = "offer"
  BY <1>1, <1>2
<1>6. /\ AcceptMsg(t, FALSE) \in Messages /\ AcceptMsg(t, FALSE).id = t
      /\ AcceptMsg(t, TRUE) \in Messages /\ AcceptMsg(t, TRUE).id = t
  BY Sayings
<1>7. faults' \in 0..MaxFaults
  <2>1. faults' = faults \/ Fault
    BY <1>2 DEF RecvOffer, Finish
  <2>q. QED
    BY <1>3, <2>1, TransferAssumption DEF TypeOK, Fault
<1>8. TypeOK /\ got \in [Transfers -> Nat] /\ \A u \in Transfers : got[u] <= sent[u]
  BY <1>3 DEF TypeOK
<1>9. \/ /\ Reply(e, <<AcceptMsg(t, FALSE)>>) /\ wanted' = wanted \ {t}
         /\ Tell(e, {t}, "failed") \/ (t \notin wanted /\ verdict' = verdict)
         /\ UNCHANGED <<receiving, file>>
      \/ /\ t \in Asked => t \in wanted
         /\ receiving' = receiving \cup {t}
         /\ file' = IF OnDisk(t) THEN [file EXCEPT ![t] = "staged"] ELSE file
         /\ Reply(e, <<AcceptMsg(t, TRUE)>>)
         /\ UNCHANGED <<wanted, verdict>>
      \/ /\ t \in Asked => t \in wanted
         /\ Size[t] = 0
         /\ \E how \in Finishes(t) :
              /\ receiving' = IF how = "blocked" THEN receiving \cup {t} ELSE receiving
              /\ Finish(e, t, how, <<AcceptMsg(t, TRUE)>>)
  BY <1>2 DEF RecvOffer
<1>a. \A v : Tell(e, {t}, v) /\ v \in {"completed", "failed"} =>
        /\ verdict' \in [Ends -> [Transfers -> {"none", "sent", "completed", "failed", "cancelled"}]]
        /\ \A f \in Ends, u \in Transfers : u # t => verdict'[f][u] = verdict[f][u]
  BY <1>3, Told, ToldTyped
<1>b. verdict \in [Ends -> [Transfers -> {"none", "sent", "completed", "failed", "cancelled"}]]
  BY <1>3 DEF TypeOK
<1>c. \A what \in {"staged", "queued", "published", "none"} :
        file' = (IF OnDisk(t) THEN [file EXCEPT ![t] = what] ELSE file) =>
          /\ file' \in [Transfers -> {"none", "staged", "queued", "publishing", "placed", "published", "refused", "stray"}]
          /\ \A u \in Transfers : u # t => file'[u] = file[u]
  BY <1>3 DEF TypeOK
<1>10. CASE /\ Reply(e, <<AcceptMsg(t, FALSE)>>) /\ wanted' = wanted \ {t}
            /\ Tell(e, {t}, "failed") \/ (t \notin wanted /\ verdict' = verdict)
            /\ UNCHANGED <<receiving, file>>
  <2>1. AllWell(t)'
    <3>1. UNCHANGED <<outVars, receiving, got, file, opening, begun>>
      BY <1>4, <1>10 DEF outVars
    <3>q. QED
      BY <1>2, <1>3, <1>4, <1>5, <1>10, <3>1, OfferDeclinedOwn
  <2>2. <<AcceptMsg(t, FALSE)>> \in Seq(Messages) /\ \A i \in DOMAIN <<AcceptMsg(t, FALSE)>> : <<AcceptMsg(t, FALSE)>>[i].id = t
    BY <1>6, JustOneOf
  <2>3. /\ verdict' \in [Ends -> [Transfers -> {"none", "sent", "completed", "failed", "cancelled"}]]
        /\ \A f \in Ends, u \in Transfers : u # t => verdict'[f][u] = verdict[f][u]
    BY <1>10, <1>a, <1>b
  <2>4. TypeOK'
    BY <1>1, <1>4, <1>7, <1>8, <1>10, <2>2, <2>3, TypedReply DEF TypeOK
  <2>5. \A u \in Transfers : u # t => Unmoved(u)
    BY <1>4, <1>10, <2>3, TwoEnds DEF Unmoved, Still
  <2>q. QED
    BY <1>1, <1>2, <1>4, <1>10, <2>1, <2>2, <2>4, <2>5, ReplyKeeps
<1>11. ASSUME NEW what \in {"staged", "queued"}, what = "staged" \/ Size[t] = 0, t \in Asked => t \in wanted,
              receiving' = receiving \cup {t},
              file' = IF OnDisk(t) THEN [file EXCEPT ![t] = what] ELSE file,
              Reply(e, <<AcceptMsg(t, TRUE)>>), UNCHANGED <<wanted, verdict>>
       PROVE  TransferInv'
  <2>1. AllWell(t)'
    <3>1. UNCHANGED <<outVars, got, wanted, verdict, opening, begun>>
      BY <1>4, <1>11 DEF outVars
    <3>2. Reply(Receiver(t), <<AcceptMsg(t, TRUE)>>)
      BY <1>2, <1>11
    <3>q. QED
      BY <1>3, <1>4, <1>5, <1>11, <3>1, <3>2, OfferTakenOwn
  <2>2. <<AcceptMsg(t, TRUE)>> \in Seq(Messages) /\ \A i \in DOMAIN <<AcceptMsg(t, TRUE)>> : <<AcceptMsg(t, TRUE)>>[i].id = t
    BY <1>6, JustOneOf
  <2>3. /\ file' \in [Transfers -> {"none", "staged", "queued", "publishing", "placed", "published", "refused", "stray"}]
        /\ \A u \in Transfers : u # t => file'[u] = file[u]
    BY <1>11, <1>c
  <2>4. TypeOK'
    <3>1. receiving' \subseteq Transfers /\ sending' \subseteq Transfers /\ verdict' = verdict
      BY <1>3, <1>4, <1>11 DEF TypeOK
    <3>q. QED
      BY <1>1, <1>4, <1>7, <1>8, <1>11, <1>b, <2>2, <2>3, <3>1, TypedReply
  <2>5. \A u \in Transfers : u # t => Unmoved(u)
    BY <1>4, <1>11, <2>3 DEF Unmoved, Still
  <2>q. QED
    BY <1>1, <1>2, <1>4, <1>11, <2>1, <2>2, <2>4, <2>5, ReplyKeeps
<1>12. ASSUME t \in Asked => t \in wanted, Size[t] = 0, NEW how \in {"completed", "failed"}, receiving' = receiving,
              file' = IF OnDisk(t) THEN [file EXCEPT ![t] = FileAfter(how)] ELSE file,
              FileAfter(how) \in {"published", "queued", "none"},
              wanted' = wanted \ {t}, Tell(e, {t}, how), NEW m \in Messages, m.id = t,
              Reply(e, <<AcceptMsg(t, TRUE), m>>),
              (how = "completed" /\ m = EndMsg(t, TRUE)) \/ (how = "failed" /\ m = EndMsg(t, FALSE))
       PROVE  TransferInv'
  <2>1. AllWell(t)'
    <3>1. UNCHANGED <<outVars, receiving, got, opening, begun>>
      BY <1>4, <1>12 DEF outVars
    <3>2. Reply(Receiver(t), <<AcceptMsg(t, TRUE), m>>) /\ Tell(Receiver(t), {t}, how)
      BY <1>2, <1>12
    <3>q. QED
      BY <1>3, <1>4, <1>5, <1>12, <3>1, <3>2, OfferEmptyOwn
  <2>2. /\ <<AcceptMsg(t, TRUE), m>> \in Seq(Messages)
        /\ \A i \in DOMAIN <<AcceptMsg(t, TRUE), m>> : <<AcceptMsg(t, TRUE), m>>[i].id = t
    BY <1>6, <1>12, JustTwo
  <2>3. /\ file' \in [Transfers -> {"none", "staged", "queued", "publishing", "placed", "published", "refused", "stray"}]
        /\ \A u \in Transfers : u # t => file'[u] = file[u]
    BY <1>12, <1>c
  <2>4. /\ verdict' \in [Ends -> [Transfers -> {"none", "sent", "completed", "failed", "cancelled"}]]
        /\ \A f \in Ends, u \in Transfers : u # t => verdict'[f][u] = verdict[f][u]
    BY <1>12, <1>a
  <2>5. TypeOK'
    <3>1. receiving' \subseteq Transfers /\ sending' \subseteq Transfers
      BY <1>3, <1>4, <1>12 DEF TypeOK
    <3>q. QED
      BY <1>1, <1>4, <1>7, <1>8, <1>12, <2>2, <2>3, <2>4, <3>1, TypedReply
  <2>6. \A u \in Transfers : u # t => Unmoved(u)
    BY <1>4, <1>12, <2>3, <2>4, TwoEnds DEF Unmoved, Still
  <2>q. QED
    BY <1>1, <1>2, <1>4, <1>12, <2>1, <2>2, <2>5, <2>6, ReplyKeeps
<1>13. CASE /\ t \in Asked => t \in wanted
            /\ Size[t] = 0
            /\ \E how \in Finishes(t) :
                 /\ receiving' = IF how = "blocked" THEN receiving \cup {t} ELSE receiving
                 /\ Finish(e, t, how, <<AcceptMsg(t, TRUE)>>)
  <2>1. PICK how \in Finishes(t) : /\ receiving' = IF how = "blocked" THEN receiving \cup {t} ELSE receiving
                                   /\ Finish(e, t, how, <<AcceptMsg(t, TRUE)>>)
    BY <1>13
  <2>2. /\ file' = IF OnDisk(t) THEN [file EXCEPT ![t] = FileAfter(how)] ELSE file
        /\ FileAfter(how) \in {"published", "queued", "none"}
        /\ \/ /\ how = "blocked" /\ FileAfter(how) = "queued"
              /\ Reply(e, <<AcceptMsg(t, TRUE)>>) /\ UNCHANGED <<wanted, verdict>>
           \/ /\ how \in {"completed", "failed"} /\ wanted' = wanted \ {t} /\ Tell(e, {t}, how)
              /\ \E m \in Messages : /\ m.id = t /\ Reply(e, <<AcceptMsg(t, TRUE), m>>)
                                     /\ \/ how = "completed" /\ m = EndMsg(t, TRUE)
                                        \/ how = "failed" /\ m = EndMsg(t, FALSE)
    BY <1>6, <2>1, FinishDoes
  <2>3. CASE how = "blocked"
    BY <1>11, <1>13, <2>1, <2>2, <2>3
  <2>4. CASE how # "blocked"
    BY <1>12, <1>13, <2>1, <2>2, <2>4
  <2>q. QED
    BY <2>3, <2>4
<1>14. CASE /\ t \in Asked => t \in wanted
            /\ receiving' = receiving \cup {t}
            /\ file' = IF OnDisk(t) THEN [file EXCEPT ![t] = "staged"] ELSE file
            /\ Reply(e, <<AcceptMsg(t, TRUE)>>)
            /\ UNCHANGED <<wanted, verdict>>
  BY <1>11, <1>14
<1>q. QED
  BY <1>9, <1>10, <1>13, <1>14

(* The chunk at the head of a live transfer's stream is the one expected.   *)
LEMMA NextChunk ==
  ASSUME TypeOK, NEW t \in Transfers, AllWell(t), t \in receiving, net[Receiver(t)] # <<>>,
         Head(net[Receiver(t)]).id = t, Head(net[Receiver(t)]).type = "data"
  PROVE  Head(net[Receiver(t)]).seq = got[t] /\ got[t] < sent[t] /\ got[t] < Size[t]
<1> DEFINE p == net[Receiver(t)]
<1>1. /\ p \in Seq(Messages) /\ sent[t] \in Nat /\ got[t] \in Nat /\ sent[t] <= Size[t] /\ Size[t] \in Nat
  BY Typed, TwoEnds
<1>2. ToReceiver(t) = p
  BY DEF ToReceiver
<1>3. Counts(p, t, "data", got[t], sent[t])
  BY <1>2 DEF AllWell, TransferOK, ChunksOK
<1>4. OneLessFor(p, Tail(p), t, Head(p))
  BY <1>1, OneLess
<1> HIDE DEF p
<1>5. Head(p).seq = got[t] /\ got[t] < sent[t]
  BY <1>1, <1>3, <1>4 DEF OneLessFor, LessCounted, p
<1>q. QED
  BY <1>1, <1>5 DEF p

LEMMA RecvDataKeeps ==
  ASSUME TransferInv, NEW e \in Ends, RecvData(e)
  PROVE  TransferInv'
<1>1. net[e] # <<>> /\ Head(net[e]).type = "data"
  BY DEF RecvData, Head1
<1>2. PICK t \in Transfers : Head(net[e]).id = t /\ e = Receiver(t)
  BY <1>1, HeadAt
<1>3. TypeOK /\ AllWell(t)
  BY DEF TransferInv
<1>4. /\ sending' = sending /\ accepted' = accepted /\ sent' = sent /\ acked' = acked
      /\ pending' = pending /\ opening' = opening /\ begun' = begun
  BY <1>2 DEF RecvData, outVars
<1>5. /\ net[Receiver(t)] # <<>> /\ Head(net[Receiver(t)]).id = t /\ Head(net[Receiver(t)]).type = "data"
  BY <1>1, <1>2
<1>8. /\ got \in [Transfers -> Nat] /\ \A u \in Transfers : got[u] <= sent[u] /\ got[u] \in Nat /\ sent[u] \in Nat
      /\ verdict \in [Ends -> [Transfers -> {"none", "sent", "completed", "failed", "cancelled"}]]
      /\ file \in [Transfers -> {"none", "staged", "queued", "publishing", "placed", "published", "refused", "stray"}]
      /\ sending \subseteq Transfers /\ receiving \subseteq Transfers
  BY <1>3, Typed DEF TypeOK
<1>6. /\ EndMsg(t, FALSE) \in Messages /\ EndMsg(t, FALSE).id = t
      /\ AckMsg(t, got[t]) \in Messages /\ AckMsg(t, got[t]).id = t
  BY <1>8, EndSaid DEF Messages, AckMsg
<1>7. faults' \in 0..MaxFaults
  <2>1. faults' = faults \/ Fault
    BY <1>2 DEF RecvData, Finish
  <2>q. QED
    BY <1>3, <2>1, TransferAssumption DEF TypeOK, Fault
<1>a. \A v : Tell(e, {t}, v) /\ v \in {"completed", "failed"} =>
        /\ verdict' \in [Ends -> [Transfers -> {"none", "sent", "completed", "failed", "cancelled"}]]
        /\ \A f \in Ends, u \in Transfers : u # t => verdict'[f][u] = verdict[f][u]
  BY <1>3, Told, ToldTyped
<1>9. \/ /\ t \notin receiving
         /\ Reply(e, <<>>)
         /\ UNCHANGED <<receiving, got, wanted, file, verdict>>
      \/ /\ t \in receiving
         /\ receiving' = receiving \ {t}
         /\ wanted' = wanted \ {t}
         /\ file' = Dropped(t)
         /\ Reply(e, <<EndMsg(t, FALSE)>>)
         /\ Tell(e, {t}, "failed")
         /\ UNCHANGED got
      \/ /\ t \in receiving
         /\ got' = [got EXCEPT ![t] = @ + 1]
         /\ got'[t] # Size[t]
         /\ Reply(e, <<AckMsg(t, Head(net[e]).seq)>>)
         /\ UNCHANGED <<receiving, wanted, file, verdict>>
      \/ /\ t \in receiving
         /\ got' = [got EXCEPT ![t] = @ + 1]
         /\ got'[t] = Size[t]
         /\ \E how \in Finishes(t) :
              /\ receiving' = IF how = "blocked" THEN receiving ELSE receiving \ {t}
              /\ Finish(e, t, how, <<AckMsg(t, Head(net[e]).seq)>>)
  BY <1>2 DEF RecvData
<1>10. CASE /\ t \notin receiving
            /\ Reply(e, <<>>)
            /\ UNCHANGED <<receiving, got, wanted, file, verdict>>
  <2>1. AllWell(t)'
    <3>1. UNCHANGED <<outVars, inVars, opening, file, verdict, begun>>
      BY <1>4, <1>10 DEF outVars, inVars
    <3>2. Reply(Receiver(t), <<>>)
      BY <1>2, <1>10
    <3>q. QED
      BY <1>3, <1>5, <1>10, <3>1, <3>2, DataDroppedOwn
  <2>2. <<>> \in Seq(Messages) /\ \A i \in DOMAIN <<>> : <<>>[i].id = t
    OBVIOUS
  <2>4. TypeOK'
    BY <1>1, <1>3, <1>4, <1>7, <1>8, <1>10, <2>2, TypedReply
  <2>5. \A u \in Transfers : u # t => Unmoved(u)
    BY <1>4, <1>10 DEF Unmoved, Still
  <2>q. QED
    BY <1>1, <1>2, <1>4, <1>10, <2>1, <2>2, <2>4, <2>5, ReplyKeeps
<1>11. CASE /\ t \in receiving
            /\ receiving' = receiving \ {t}
            /\ wanted' = wanted \ {t}
            /\ file' = Dropped(t)
            /\ Reply(e, <<EndMsg(t, FALSE)>>)
            /\ Tell(e, {t}, "failed")
            /\ UNCHANGED got
  <2>1. AllWell(t)'
    <3>1. UNCHANGED <<outVars, got, pending, opening, begun>>
      BY <1>4, <1>11 DEF outVars
    <3>2. Reply(Receiver(t), <<EndMsg(t, FALSE)>>) /\ Tell(Receiver(t), {t}, "failed")
      BY <1>2, <1>11
    <3>q. QED
      BY <1>3, <1>5, <1>11, <3>1, <3>2, DataRefusedOwn
  <2>2. <<EndMsg(t, FALSE)>> \in Seq(Messages) /\ \A i \in DOMAIN <<EndMsg(t, FALSE)>> : <<EndMsg(t, FALSE)>>[i].id = t
    BY <1>6, JustOneOf
  <2>3. /\ verdict' \in [Ends -> [Transfers -> {"none", "sent", "completed", "failed", "cancelled"}]]
        /\ \A f \in Ends, u \in Transfers : u # t => verdict'[f][u] = verdict[f][u]
    BY <1>11, <1>a
  <2>6. /\ file' \in [Transfers -> {"none", "staged", "queued", "publishing", "placed", "published", "refused", "stray"}]
        /\ \A u \in Transfers : u # t => file'[u] = file[u]
    BY <1>8, <1>11 DEF Dropped
  <2>4. TypeOK'
    BY <1>1, <1>3, <1>4, <1>7, <1>8, <1>11, <2>2, <2>3, <2>6, TypedReply
  <2>5. \A u \in Transfers : u # t => Unmoved(u)
    BY <1>4, <1>11, <2>3, <2>6, TwoEnds DEF Unmoved, Still
  <2>q. QED
    BY <1>1, <1>2, <1>4, <1>11, <2>1, <2>2, <2>4, <2>5, ReplyKeeps
<1>12. ASSUME t \in receiving, got' = [got EXCEPT ![t] = @ + 1]
       PROVE  /\ Head(net[e]).seq = got[t] /\ got'[t] = got[t] + 1
              /\ got' \in [Transfers -> Nat] /\ \A u \in Transfers : got'[u] <= sent[u]
              /\ \A u \in Transfers : u # t => got'[u] = got[u]
  <2>1. Head(net[e]).seq = got[t] /\ got[t] < sent[t]
    BY <1>2, <1>3, <1>5, <1>12, NextChunk
  <2>q. QED
    BY <1>8, <1>12, <2>1
<1>13. ASSUME t \in receiving, got' = [got EXCEPT ![t] = @ + 1], Reply(e, <<AckMsg(t, got[t])>>),
              NEW what \in {file[t], "queued"}, what = "queued" => got[t] + 1 = Size[t] /\ OnDisk(t),
              file' = [file EXCEPT ![t] = what],
              UNCHANGED <<receiving, wanted, verdict>>
       PROVE  TransferInv'
  <2>1. AllWell(t)'
    <3>1. UNCHANGED <<outVars, receiving, wanted, verdict, pending, opening, begun>>
      BY <1>4, <1>13 DEF outVars
    <3>2. Reply(Receiver(t), <<AckMsg(t, got[t])>>)
      BY <1>2, <1>13
    <3>q. QED
      BY <1>3, <1>5, <1>13, <3>1, <3>2, DataTakenOwn
  <2>2. <<AckMsg(t, got[t])>> \in Seq(Messages) /\ \A i \in DOMAIN <<AckMsg(t, got[t])>> : <<AckMsg(t, got[t])>>[i].id = t
    BY <1>6, JustOneOf
  <2>3. /\ file' \in [Transfers -> {"none", "staged", "queued", "publishing", "placed", "published", "refused", "stray"}]
        /\ \A u \in Transfers : u # t => file'[u] = file[u]
    BY <1>8, <1>13
  <2>4. TypeOK'
    BY <1>1, <1>3, <1>4, <1>7, <1>8, <1>12, <1>13, <2>2, <2>3, TypedReply
  <2>5. \A u \in Transfers : u # t => Unmoved(u)
    BY <1>4, <1>12, <1>13, <2>3 DEF Unmoved, Still
  <2>q. QED
    BY <1>1, <1>2, <1>4, <1>13, <2>1, <2>2, <2>4, <2>5, ReplyKeeps
<1>14. ASSUME t \in receiving, got' = [got EXCEPT ![t] = @ + 1], got[t] + 1 = Size[t],
              NEW how \in {"completed", "failed"}, receiving' = receiving \ {t},
              file' = IF OnDisk(t) THEN [file EXCEPT ![t] = FileAfter(how)] ELSE file,
              FileAfter(how) \in {"published", "queued", "none"},
              wanted' = wanted \ {t}, Tell(e, {t}, how), NEW m \in Messages, m.id = t,
              Reply(e, <<AckMsg(t, got[t]), m>>),
              (how = "completed" /\ m = EndMsg(t, TRUE)) \/ (how = "failed" /\ m = EndMsg(t, FALSE))
       PROVE  TransferInv'
  <2>1. AllWell(t)'
    <3>1. UNCHANGED <<outVars, pending, opening, begun>>
      BY <1>4 DEF outVars
    <3>2. Reply(Receiver(t), <<AckMsg(t, got[t]), m>>) /\ Tell(Receiver(t), {t}, how)
      BY <1>2, <1>14
    <3>q. QED
      BY <1>3, <1>5, <1>14, <3>1, <3>2, DataLastOwn
  <2>2. /\ <<AckMsg(t, got[t]), m>> \in Seq(Messages)
        /\ \A i \in DOMAIN <<AckMsg(t, got[t]), m>> : <<AckMsg(t, got[t]), m>>[i].id = t
    BY <1>6, <1>14, JustTwo
  <2>3. /\ file' \in [Transfers -> {"none", "staged", "queued", "publishing", "placed", "published", "refused", "stray"}]
        /\ \A u \in Transfers : u # t => file'[u] = file[u]
    BY <1>8, <1>14
  <2>4. /\ verdict' \in [Ends -> [Transfers -> {"none", "sent", "completed", "failed", "cancelled"}]]
        /\ \A f \in Ends, u \in Transfers : u # t => verdict'[f][u] = verdict[f][u]
    BY <1>14, <1>a
  <2>5. TypeOK'
    BY <1>1, <1>3, <1>4, <1>7, <1>8, <1>12, <1>14, <2>2, <2>3, <2>4, TypedReply
  <2>6. \A u \in Transfers : u # t => Unmoved(u)
    BY <1>4, <1>12, <1>14, <2>3, <2>4, TwoEnds DEF Unmoved, Still
  <2>q. QED
    BY <1>1, <1>2, <1>4, <1>14, <2>1, <2>2, <2>5, <2>6, ReplyKeeps
<1>15. CASE /\ t \in receiving
            /\ got' = [got EXCEPT ![t] = @ + 1]
            /\ got'[t] # Size[t]
            /\ Reply(e, <<AckMsg(t, Head(net[e]).seq)>>)
            /\ UNCHANGED <<receiving, wanted, file, verdict>>
  <2>1. /\ Reply(e, <<AckMsg(t, got[t])>>)
        /\ file[t] \in {file[t], "queued"} /\ file' = [file EXCEPT ![t] = file[t]]
        /\ got[t] + 1 # Size[t]
    BY <1>8, <1>12, <1>15
  <2>2. CASE file[t] = "queued"
    <3>1. got[t] = Size[t]
      BY <1>3, <1>15, <2>2 DEF AllWell, TransferOK, SettledOK
    <3>2. got[t] < Size[t]
      BY <1>3, <1>5, <1>15, NextChunk
    <3>q. QED
      BY <3>1, <3>2, <1>8
  <2>3. CASE file[t] # "queued"
    BY <1>13, <1>15, <2>1, <2>3
  <2>q. QED
    BY <2>2, <2>3
<1>16. CASE /\ t \in receiving
            /\ got' = [got EXCEPT ![t] = @ + 1]
            /\ got'[t] = Size[t]
            /\ \E how \in Finishes(t) :
                 /\ receiving' = IF how = "blocked" THEN receiving ELSE receiving \ {t}
                 /\ Finish(e, t, how, <<AckMsg(t, Head(net[e]).seq)>>)
  <2>0. Head(net[e]).seq = got[t] /\ got[t] + 1 = Size[t]
    BY <1>12, <1>16
  <2>1. PICK how \in Finishes(t) : /\ receiving' = IF how = "blocked" THEN receiving ELSE receiving \ {t}
                                   /\ Finish(e, t, how, <<AckMsg(t, got[t])>>)
    BY <1>16, <2>0
  <2>2. /\ file' = IF OnDisk(t) THEN [file EXCEPT ![t] = FileAfter(how)] ELSE file
        /\ FileAfter(how) \in {"published", "queued", "none"}
        /\ \/ /\ how = "blocked" /\ OnDisk(t) /\ FileAfter(how) = "queued"
              /\ Reply(e, <<AckMsg(t, got[t])>>) /\ UNCHANGED <<wanted, verdict>>
           \/ /\ how \in {"completed", "failed"} /\ wanted' = wanted \ {t} /\ Tell(e, {t}, how)
              /\ \E m \in Messages : /\ m.id = t /\ Reply(e, <<AckMsg(t, got[t]), m>>)
                                     /\ \/ how = "completed" /\ m = EndMsg(t, TRUE)
                                        \/ how = "failed" /\ m = EndMsg(t, FALSE)
    BY <1>6, <2>1, FinishDoes
  <2>3. CASE how = "blocked"
    BY <1>13, <1>16, <2>0, <2>1, <2>2, <2>3
  <2>4. CASE how # "blocked"
    BY <1>14, <1>16, <2>0, <2>1, <2>2, <2>4
  <2>q. QED
    BY <2>3, <2>4
<1>q. QED
  BY <1>9, <1>10, <1>11, <1>15, <1>16

LEMMA RecvEndKeeps ==
  ASSUME TransferInv, NEW e \in Ends, RecvEnd(e)
  PROVE  TransferInv'
<1>1. net[e] # <<>> /\ Head(net[e]).type = "end"
  BY DEF RecvEnd, Head1
<1>2. PICK t \in Transfers : Head(net[e]).id = t
  BY <1>1, HeadAt
<1>3. TypeOK /\ AllWell(t) /\ (e = Sender[t] \/ e = Receiver(t))
  BY TwoEnds DEF TransferInv
<1>4. /\ Forget(e, t) /\ Reply(e, <<>>)
      /\ opening' = opening \/ opening' = opening \ {t}
      /\ Tell(e, {t}, "sent") \/ Tell(e, {t}, "failed") \/ verdict' = verdict
      /\ UNCHANGED <<accepted, sent, acked, got, begun, faults>>
  BY <1>2 DEF RecvEnd
<1>5. AllWell(t)'
  <2>1. CASE e = Sender[t]
    BY <1>1, <1>2, <1>3, <2>1, EndAtSenderOwn
  <2>2. CASE e = Receiver(t)
    BY <1>1, <1>2, <1>3, <2>2, EndAtReceiverOwn
  <2>q. QED
    BY <1>3, <2>1, <2>2
<1>6. <<>> \in Seq(Messages) /\ \A i \in DOMAIN <<>> : <<>>[i].id = t
  OBVIOUS
<1>7. /\ verdict' \in [Ends -> [Transfers -> {"none", "sent", "completed", "failed", "cancelled"}]]
      /\ \A f \in Ends, u \in Transfers : u # t => verdict'[f][u] = verdict[f][u]
  <2>1. CASE verdict' = verdict
    BY <1>3, <2>1 DEF TypeOK
  <2>2. CASE Tell(e, {t}, "sent")
    BY <1>3, <2>2, Told, ToldTyped
  <2>3. CASE Tell(e, {t}, "failed")
    BY <1>3, <2>3, Told, ToldTyped
  <2>q. QED
    BY <1>4, <2>1, <2>2, <2>3
<1>8. /\ file' \in [Transfers -> {"none", "staged", "queued", "publishing", "placed", "published", "refused", "stray"}]
      /\ \A u \in Transfers : u # t => file'[u] = file[u]
  BY <1>3, <1>4 DEF Forget, Dropped, TypeOK
<1>9. net' \in [Ends -> Seq(Messages)]
  BY <1>1, <1>3, <1>4, RepliedNone
<1>10. TypeOK'
  BY <1>3, <1>4, <1>7, <1>8, <1>9 DEF TypeOK, Forget
<1>11. \A u \in Transfers : u # t => Unmoved(u)
  BY <1>4, <1>7, <1>8, TwoEnds DEF Unmoved, Still, Forget
<1>12. t \in sending' => t \in sending
  BY <1>4 DEF Forget
<1>q. QED
  BY <1>1, <1>2, <1>4, <1>5, <1>6, <1>10, <1>11, <1>12, ReplyKeeps

(* An answer to an offer that does not make the sender pump.                *)
LEMMA AcceptLateKeeps ==
  ASSUME TransferInv, NEW e \in Ends, Head1(e, "accept"), UNCHANGED <<inVars, opening, file, begun>>,
         Head(net[e]).id \notin sending, Reply(e, <<>>), UNCHANGED <<outVars, verdict, faults>>
  PROVE  TransferInv'
<1>1. net[e] # <<>> /\ Head(net[e]).type = "accept"
  BY DEF Head1
<1>2. PICK t \in Transfers : Head(net[e]).id = t /\ e = Sender[t]
  BY <1>1, HeadAt
<1>3. TypeOK /\ AllWell(t)
  BY DEF TransferInv
<1>4. /\ sending' = sending /\ accepted' = accepted /\ sent' = sent /\ acked' = acked
      /\ receiving' = receiving /\ got' = got /\ pending' = pending /\ wanted' = wanted
  BY DEF outVars, inVars
<1>5. AllWell(t)'
  <2>1. UNCHANGED <<outVars, inVars, opening, file, verdict, begun>>
    BY DEF outVars, inVars
  <2>2. /\ net[Sender[t]] # <<>> /\ Head(net[Sender[t]]).id = t /\ Head(net[Sender[t]]).type = "accept"
        /\ t \notin sending /\ Reply(Sender[t], <<>>)
    BY <1>1, <1>2
  <2>q. QED
    BY <1>3, <2>1, <2>2, AcceptLateOwn
<1>6. <<>> \in Seq(Messages) /\ \A i \in DOMAIN <<>> : <<>>[i].id = t
  OBVIOUS
<1>9. net' \in [Ends -> Seq(Messages)]
  BY <1>1, <1>3, <1>4, RepliedNone
<1>10. TypeOK'
  BY <1>3, <1>4, <1>9 DEF TypeOK
<1>11. \A u \in Transfers : u # t => Unmoved(u)
  BY <1>4 DEF Unmoved, Still
<1>q. QED
  BY <1>1, <1>2, <1>4, <1>5, <1>6, <1>10, <1>11, ReplyKeeps

LEMMA AcceptRefusedKeeps ==
  ASSUME TransferInv, NEW e \in Ends, Head1(e, "accept"), UNCHANGED <<inVars, opening, file, begun>>,
         NEW t, Head(net[e]) = AcceptMsg(t, FALSE), t \in sending,
         sending' = sending \ {t}, Tell(e, {t}, "failed"), Reply(e, <<>>),
         UNCHANGED <<accepted, sent, acked, faults>>
  PROVE  TransferInv'
<1>1. net[e] # <<>> /\ Head(net[e]).type = "accept"
  BY DEF Head1
<1>2. t \in Transfers /\ Head(net[e]).id = t /\ e = Sender[t]
  <2>1. Head(net[e]).id = t
    BY DEF AcceptMsg
  <2>q. QED
    BY <1>1, <2>1, HeadAt
<1>3. TypeOK /\ AllWell(t)
  BY <1>2 DEF TransferInv
<1>4. /\ accepted' = accepted /\ sent' = sent /\ acked' = acked
      /\ receiving' = receiving /\ got' = got /\ pending' = pending /\ wanted' = wanted
  BY DEF inVars
<1>5. AllWell(t)'
  <2>1. /\ net[Sender[t]] # <<>> /\ Head(net[Sender[t]]).id = t /\ Head(net[Sender[t]]).type = "accept"
        /\ Head(net[Sender[t]]).ok = FALSE
        /\ t \in sending /\ Reply(Sender[t], <<>>) /\ Tell(Sender[t], {t}, "failed")
    BY <1>1, <1>2 DEF AcceptMsg
  <2>q. QED
    BY <1>2, <1>3, <2>1, AcceptRefusedOwn
<1>6. <<>> \in Seq(Messages) /\ \A i \in DOMAIN <<>> : <<>>[i].id = t
  OBVIOUS
<1>7. /\ verdict' \in [Ends -> [Transfers -> {"none", "sent", "completed", "failed", "cancelled"}]]
      /\ \A f \in Ends, u \in Transfers : u # t => verdict'[f][u] = verdict[f][u]
  BY <1>3, Told, ToldTyped
<1>9. net' \in [Ends -> Seq(Messages)]
  BY <1>1, <1>3, <1>4, RepliedNone
<1>10. TypeOK'
  BY <1>3, <1>4, <1>7, <1>9 DEF TypeOK
<1>11. \A u \in Transfers : u # t => Unmoved(u)
  BY <1>4, <1>7, TwoEnds DEF Unmoved, Still
<1>q. QED
  BY <1>1, <1>2, <1>4, <1>5, <1>6, <1>10, <1>11, ReplyKeeps

(* A step that pumps: the windows, and the type of the state.               *)
LEMMA WindowsAcked ==
  ASSUME TypeOK, WindowOK(acked), NEW acks,
         \A t \in Transfers : acks[t] \in Nat /\ acked[t] <= acks[t]
  PROVE  WindowOK(acks)
<1>1. \A t \in Transfers : acked[t] \in Nat /\ sent[t] \in Nat
  BY Typed
<1>2. \A t \in Transfers : sent[t] - acks[t] <= Window
  BY <1>1, TransferAssumption DEF WindowOK
<1>3. ASSUME NEW e \in Ends PROVE Cardinality(InFlight(sending \cap From(e), acks, sent)) <= Budget
  <2>1. sending \cap From(e) \subseteq Transfers
    BY DEF TypeOK
  <2>q. QED
    BY <1>1, <2>1, WindowsAfter
<1>q. QED
  BY <1>2, <1>3 DEF WindowOK

LEMMA PumpWindows ==
  ASSUME TypeOK, NEW e \in Ends, NEW ready, NEW acks, \A t \in Transfers : acks[t] \in Nat, WindowOK(acks),
         NEW inbox, NEW done, NEW bad, NEW broken, NEW chunks,
         PumpSays(e, ready, acks, inbox, done, bad, broken, chunks),
         \A t \in Transfers : acked'[t] = acks[t]
  PROVE  WindowOK(acked)'
<1> DEFINE mine == sending \cap From(e)
<1>1. /\ sending \subseteq Transfers /\ mine \subseteq Transfers /\ sending' \subseteq sending
      /\ \A t \in Transfers : sent[t] \in Nat /\ sent'[t] \in Nat /\ sent'[t] - acks[t] <= Window
      /\ \A t \in Transfers : t \notin mine => sent'[t] = sent[t]
      /\ Cardinality(InFlight(mine, acks, sent')) <= Budget
  BY Typed DEF TypeOK, PumpSays
<1>2. ASSUME NEW f \in Ends PROVE Cardinality(InFlight(sending' \cap From(f), acked', sent')) <= Budget
  <2> DEFINE less == sending' \cap From(f)
  <2>1. CASE f = e
    <3>1. less \subseteq mine /\ less \subseteq Transfers
      BY <1>1, <2>1
    <3> HIDE DEF mine, less
    <3>2. Cardinality(InFlight(less, acked', sent')) <= Cardinality(InFlight(mine, acks, sent'))
      BY <1>1, <3>1, InFlightLess
    <3>3. /\ Cardinality(InFlight(mine, acks, sent')) \in Nat
          /\ Cardinality(InFlight(less, acked', sent')) \in Nat
      BY <1>1, <3>1, InFlightFinite, FS_CardinalityType
    <3>q. QED
      BY <1>1, <3>2, <3>3, TransferAssumption DEF less
  <2>2. CASE f # e
    <3> DEFINE live == sending \cap From(f)
    <3>1. /\ less \subseteq live /\ live \subseteq Transfers
          /\ \A t \in live : t \notin mine
      BY <1>1, <2>2 DEF From
    <3> HIDE DEF mine, less, live
    <3>2. InFlight(less, acked', sent') \subseteq InFlight(live, acks, sent)
      BY <1>1, <3>1 DEF InFlight
    <3>3. Cardinality(InFlight(live, acks, sent)) <= Budget
      BY DEF WindowOK, live
    <3>4. IsFiniteSet(InFlight(live, acks, sent))
      BY <1>1, <3>1, InFlightFinite
    <3>5. /\ Cardinality(InFlight(less, acked', sent')) <= Cardinality(InFlight(live, acks, sent))
          /\ Cardinality(InFlight(less, acked', sent')) \in Nat /\ Cardinality(InFlight(live, acks, sent)) \in Nat
      BY <3>2, <3>4, FS_Subset, FS_CardinalityType
    <3>q. QED
      BY <3>3, <3>5, TransferAssumption DEF less
  <2>q. QED
    BY <2>1, <2>2
<1>3. \A t \in Transfers : sent'[t] - acked'[t] <= Window
  BY <1>1
<1>q. QED
  BY <1>2, <1>3 DEF WindowOK

LEMMA PumpTyped ==
  ASSUME TypeOK, NEW e \in Ends, NEW ready, NEW acks, NEW inbox \in Seq(Messages),
         NEW done, done \subseteq To(e), NEW bad, NEW broken, NEW chunks,
         PumpSays(e, ready, acks, inbox, done, bad, broken, chunks),
         accepted' \subseteq Transfers, acked' \in [Transfers -> Nat],
         \A t \in Transfers : acked'[t] <= sent[t],
         receiving' \subseteq receiving, wanted' \subseteq wanted,
         file' \in [Transfers -> {"none", "staged", "queued", "publishing", "placed", "published", "refused", "stray"}],
         UNCHANGED <<got, pending, opening, begun>>
  PROVE  TypeOK'
<1>1. net' \in [Ends -> Seq(Messages)]
  BY PumpSaid
<1>2. verdict' \in [Ends -> [Transfers -> {"none", "sent", "completed", "failed", "cancelled"}]]
  BY PumpTold
<1>3. faults' \in 0..MaxFaults
  <2>1. broken \subseteq Transfers /\ faults + Cardinality(broken) <= MaxFaults /\ faults' = faults + Cardinality(broken)
    BY DEF PumpSays, From
  <2>2. Cardinality(broken) \in Nat
    BY <2>1, TransferAssumption, FS_Subset, FS_CardinalityType
  <2>3. faults \in Nat
    BY DEF TypeOK
  <2>q. QED
    BY <2>1, <2>2, <2>3, TransferAssumption
<1>4. sent' \in [Transfers -> Nat]
  <2>1. sent' = [t \in Transfers |-> sent'[t]] /\ \A t \in Transfers : sent'[t] \in Nat
    BY DEF PumpSays
  <2>q. QED
    BY <2>1
<1>5. \A t \in Transfers : acked'[t] <= sent'[t] /\ sent'[t] <= Size[t] /\ got'[t] <= sent'[t]
  <2>1. \A t \in Transfers : sent[t] <= sent'[t] /\ sent'[t] <= Size[t] /\ sent'[t] \in Nat
    BY DEF PumpSays
  <2>2. \A t \in Transfers : sent[t] \in Nat /\ got'[t] \in Nat /\ acked'[t] \in Nat /\ got'[t] <= sent[t]
    BY Typed
  <2>q. QED
    BY <2>1, <2>2
<1>6. sending' \subseteq Transfers
  BY DEF PumpSays, TypeOK
<1>q. QED
  BY <1>1, <1>2, <1>3, <1>4, <1>5, <1>6 DEF TypeOK

(* The sender's view of a transfer that neither the head of the stream nor  *)
(* an acceptance is about.                                                  *)
LEMMA OthersReady ==
  ASSUME NEW t \in Transfers, AllWell(t), NEW acc, t \in acc <=> t \in accepted, NEW acks, acks[t] = acked[t]
  PROVE  TransferOK(t, net[Sender[t]], acc, acks)
BY DEF AllWell, ToSender, TransferOK, FreshOK, StepOK, BeforeOK, AnswerOK, GivenUpOK, OtherEndOK, ChunksOK,
       Early, Unanswered

(* The same where the pump settles nothing.                                 *)
LEMMA PumpOnlyWell ==
  ASSUME TypeOK, NEW e \in Ends, NEW acks, NEW inbox \in Seq(Messages), NEW broken, NEW chunks,
         PumpSays(e, accepted', acks, inbox, {}, {}, broken, chunks),
         NEW t \in Transfers, acks[t] \in Nat, acked'[t] = acks[t],
         begun' = begun, inVars' = inVars, opening' = opening, file' = file,
         NEW q, TransferOK(t, q, accepted', acks),
         t \in From(e) => SameFor(q, inbox, t),
         t \in To(e) => SameFor(q, net[Sender[t]], t) /\ SameFor(net[e], inbox, t)
  PROVE  AllWell(t)'
<1>1. {} \subseteq To(e) /\ {} \subseteq {} /\ t \notin {}
  OBVIOUS
<1>2. /\ t \in begun' <=> t \in begun
      /\ t \in receiving' <=> t \in receiving
      /\ t \in pending' <=> t \in pending
      /\ t \in wanted' <=> t \in wanted
      /\ t \in opening' <=> t \in opening
      /\ got'[t] = got[t] /\ file'[t] = file[t]
  BY DEF inVars
<1> DEFINE none == {}
<1>3. PumpSays(e, accepted', acks, inbox, none, none, broken, chunks) /\ none \subseteq To(e) /\ none \subseteq none /\ t \notin none
  BY <1>1
<1> HIDE DEF none
<1>q. QED
  BY <1>2, <1>3, PumpWell

LEMMA AcceptPumpKeeps ==
  ASSUME TransferInv, NEW e \in Ends, Head1(e, "accept"), UNCHANGED <<inVars, opening, file, begun>>,
         NEW t, Head(net[e]) = AcceptMsg(t, TRUE), t \in sending,
         accepted' = accepted \cup {t}, acked' = acked,
         Pump(e, accepted \cup {t}, acked, 0, Tail(net[e]), {}, {})
  PROVE  TransferInv'
<1>1. net[e] # <<>> /\ Head(net[e]).type = "accept"
  BY DEF Head1
<1>2. t \in Transfers /\ Head(net[e]).id = t /\ e = Sender[t]
  <2>1. Head(net[e]).id = t
    BY DEF AcceptMsg
  <2>q. QED
    BY <1>1, <2>1, HeadAt
<1>3. TypeOK /\ WindowOK(acked) /\ \A u \in Transfers : AllWell(u)
  BY DEF TransferInv
<1>4. Head(net[Sender[t]]) = AcceptMsg(t, TRUE) /\ net[Sender[t]] # <<>>
  BY <1>1, <1>2
<1>5. \A u \in Transfers : acked[u] \in Nat /\ acked[u] <= sent[u]
  BY <1>3, Typed
<1>6. PICK broken, chunks : PumpSays(e, accepted \cup {t}, acked, Tail(net[e]), {}, {}, broken, chunks)
  <2>1. 0 \in Nat
    OBVIOUS
  <2>q. QED
    BY <1>3, <1>5, <2>1, PumpDoes
<1>7. PumpSays(e, accepted', acked, Tail(net[e]), {}, {}, broken, chunks)
  BY <1>6
<1>8. Tail(net[e]) \in Seq(Messages) /\ {} \subseteq To(e)
  <2>1. net[e] \in Seq(Messages)
    BY <1>3 DEF TypeOK
  <2>q. QED
    BY <1>1, <2>1
<1>9. WindowOK(acked)'
  BY <1>3, <1>5, <1>7, PumpWindows
<1>10. TypeOK'
  <2>1. /\ accepted' \subseteq Transfers /\ acked' \in [Transfers -> Nat] /\ receiving' \subseteq receiving
        /\ wanted' \subseteq wanted /\ UNCHANGED <<got, pending, opening, begun>>
        /\ file' \in [Transfers -> {"none", "staged", "queued", "publishing", "placed", "published", "refused", "stray"}]
        /\ \A u \in Transfers : acked'[u] <= sent[u]
    BY <1>2, <1>3, <1>5 DEF TypeOK, inVars
  <2>q. QED
    BY <1>3, <1>7, <1>8, <2>1, PumpTyped
<1>11. ASSUME NEW u \in Transfers PROVE AllWell(u)'
  <2>1. /\ begun' = begun /\ inVars' = inVars /\ opening' = opening /\ file' = file
        /\ acked'[u] = acked[u] /\ acked[u] \in Nat
    BY <1>5
  <2>2. CASE u = t
    <3>1. TransferOK(u, Tail(net[e]), accepted', acked)
      BY <1>2, <1>3, <1>4, <2>2, AcceptedLeft
    <3>2. u \in From(e) => SameFor(Tail(net[e]), Tail(net[e]), u)
      BY SameItself
    <3>3. u \notin To(e)
      BY <1>2, <2>2, TwoEnds
    <3>q. QED
      BY <1>3, <1>7, <1>8, <2>1, <3>1, <3>2, <3>3, PumpOnlyWell
  <2>3. CASE u # t
    <3>1. TransferOK(u, net[Sender[u]], accepted', acked)
      BY <1>3, <2>3, OthersReady
    <3>2. u \in From(e) => SameFor(net[Sender[u]], Tail(net[e]), u)
      BY <1>1, <1>2, <1>3, <2>3, OthersLeft DEF From
    <3>3. u \in To(e) => SameFor(net[Sender[u]], net[Sender[u]], u) /\ SameFor(net[e], Tail(net[e]), u)
      <4>1. net[e] \in Seq(Messages)
        BY <1>3 DEF TypeOK
      <4>2. SameFor(net[e], Tail(net[e]), u)
        BY <1>1, <1>2, <2>3, <4>1, SilentRest
      <4>q. QED
        BY <4>2, SameItself
    <3>q. QED
      BY <1>3, <1>7, <1>8, <2>1, <3>1, <3>2, <3>3, PumpOnlyWell
  <2>q. QED
    BY <2>2, <2>3
<1>q. QED
  BY <1>9, <1>10, <1>11 DEF TransferInv

LEMMA RecvAcceptKeeps ==
  ASSUME TransferInv, NEW e \in Ends, RecvAccept(e)
  PROVE  TransferInv'
<1>1. Head1(e, "accept") /\ UNCHANGED <<inVars, opening, file, begun>>
  BY DEF RecvAccept
<1>2. PICK t : t = Head(net[e]).id
  OBVIOUS
<1>3. /\ Head(net[e]).ok = TRUE \/ Head(net[e]).ok = FALSE
      /\ Head(net[e]).ok = TRUE => Head(net[e]) = AcceptMsg(t, TRUE)
      /\ Head(net[e]).ok = FALSE => Head(net[e]) = AcceptMsg(t, FALSE)
  <2>1. Head(net[e]) \in Messages /\ Head(net[e]).type = "accept"
    BY <1>1, HeadAt DEF Head1
  <2>2. Head(net[e]).ok \in BOOLEAN
    BY <2>1 DEF Messages
  <2>3. Head(net[e]).ok = TRUE => Head(net[e]) = AcceptMsg(t, TRUE)
    BY <1>2, <2>1 DEF Messages, AcceptMsg
  <2>4. Head(net[e]).ok = FALSE => Head(net[e]) = AcceptMsg(t, FALSE)
    BY <1>2, <2>1 DEF Messages, AcceptMsg
  <2>q. QED
    BY <2>2, <2>3, <2>4
<1>4. CASE t \notin sending
  BY <1>1, <1>2, <1>4, AcceptLateKeeps DEF RecvAccept
<1>5. CASE t \in sending /\ Head(net[e]).ok = FALSE
  <2>1. /\ sending' = sending \ {t}
        /\ Tell(e, {t}, "failed")
        /\ Reply(e, <<>>)
        /\ UNCHANGED <<accepted, sent, acked, faults>>
    BY <1>2, <1>5 DEF RecvAccept
  <2>q. QED
    BY <1>1, <1>3, <1>5, <2>1, AcceptRefusedKeeps
<1>6. CASE t \in sending /\ Head(net[e]).ok = TRUE
  <2>1. /\ accepted' = accepted \cup {t}
        /\ Pump(e, accepted \cup {t}, acked, 0, Tail(net[e]), {}, {})
        /\ UNCHANGED acked
    BY <1>2, <1>6 DEF RecvAccept
  <2>q. QED
    BY <1>1, <1>3, <1>6, <2>1, AcceptPumpKeeps
<1>q. QED
  BY <1>3, <1>4, <1>5, <1>6

LEMMA RecvAckKeeps ==
  ASSUME TransferInv, NEW e \in Ends, RecvAck(e)
  PROVE  TransferInv'
<1>1. net[e] # <<>> /\ Head(net[e]).type = "ack"
  BY DEF RecvAck, Head1
<1>2. PICK t \in Transfers : Head(net[e]).id = t /\ e = Sender[t] /\ Head(net[e]) \in Messages
  BY <1>1, HeadAt
<1>3. TypeOK /\ WindowOK(acked) /\ \A u \in Transfers : AllWell(u)
  BY ZenonT(60) DEF TransferInv
<1>4. PICK acks :
        /\ acks = IF t \in sending /\ acked[t] <= Head(net[e]).seq /\ Head(net[e]).seq < sent[t]
                  THEN [acked EXCEPT ![t] = Head(net[e]).seq + 1] ELSE acked
        /\ acked' = acks
        /\ Pump(e, accepted, acks, 0, Tail(net[e]), {}, {})
  BY <1>2 DEF RecvAck
<1>5. UNCHANGED <<accepted, inVars, opening, file, begun>>
  BY DEF RecvAck
<1>6. Head(net[e]).seq \in Nat
  BY <1>1, <1>2 DEF Messages
<1>7. /\ acks \in [Transfers -> Nat]
      /\ \A u \in Transfers : acks[u] \in Nat /\ acked[u] <= acks[u] /\ acks[u] <= sent[u]
      /\ \A u \in Transfers : u # t => acks[u] = acked[u]
      /\ acks[t] = IF t \in sending /\ acked[t] <= Head(net[e]).seq /\ Head(net[e]).seq < sent[t]
                   THEN Head(net[e]).seq + 1 ELSE acked[t]
  <2>1. acked \in [Transfers -> Nat] /\ \A u \in Transfers : acked[u] \in Nat /\ sent[u] \in Nat /\ acked[u] <= sent[u]
    BY <1>3, Typed DEF TypeOK
  <2>2. CASE t \in sending /\ acked[t] <= Head(net[e]).seq /\ Head(net[e]).seq < sent[t]
    <3>1. acks = [acked EXCEPT ![t] = Head(net[e]).seq + 1]
      BY <1>4, <2>2
    <3>2. acked[t] <= Head(net[e]).seq + 1 /\ Head(net[e]).seq + 1 <= sent[t] /\ Head(net[e]).seq + 1 \in Nat
      BY <1>6, <2>1, <2>2
    <3>q. QED
      BY <2>1, <2>2, <3>1, <3>2
  <2>3. CASE ~(t \in sending /\ acked[t] <= Head(net[e]).seq /\ Head(net[e]).seq < sent[t])
    <3>1. acks = acked
      BY <1>4, <2>3
    <3>q. QED
      BY <2>1, <2>3, <3>1
  <2>q. QED
    BY <2>2, <2>3
<1>8. WindowOK(acks)
  BY <1>3, <1>7, WindowsAcked
<1>9. PICK broken, chunks : PumpSays(e, accepted, acks, Tail(net[e]), {}, {}, broken, chunks)
  <2>1. 0 \in Nat
    OBVIOUS
  <2>q. QED
    BY <1>3, <1>4, <1>7, <1>8, <2>1, PumpDoes
<1>10. PumpSays(e, accepted', acks, Tail(net[e]), {}, {}, broken, chunks) /\ \A u \in Transfers : acked'[u] = acks[u]
  BY <1>4, <1>5, <1>9
<1>11. Tail(net[e]) \in Seq(Messages) /\ {} \subseteq To(e) /\ net[e] \in Seq(Messages)
  <2>1. net[e] \in Seq(Messages)
    BY <1>3 DEF TypeOK
  <2>q. QED
    BY <1>1, <2>1
<1>12. WindowOK(acked)'
  BY <1>3, <1>7, <1>8, <1>10, PumpWindows
<1>13. TypeOK'
  <2>1. /\ accepted' \subseteq Transfers /\ acked' \in [Transfers -> Nat] /\ receiving' \subseteq receiving
        /\ wanted' \subseteq wanted /\ UNCHANGED <<got, pending, opening, begun>>
        /\ file' \in [Transfers -> {"none", "staged", "queued", "publishing", "placed", "published", "refused", "stray"}]
        /\ \A u \in Transfers : acked'[u] <= sent[u]
    BY <1>3, <1>4, <1>5, <1>7 DEF TypeOK, inVars
  <2>q. QED
    BY <1>3, <1>10, <1>11, <2>1, PumpTyped
<1>14. ASSUME NEW u \in Transfers PROVE AllWell(u)'
  <2>1. /\ begun' = begun /\ inVars' = inVars /\ opening' = opening /\ file' = file /\ accepted' = accepted
        /\ acked'[u] = acks[u] /\ acks[u] \in Nat
    BY <1>5, <1>7, <1>10
  <2>2. CASE u = t
    <3>1. TransferOK(u, Tail(net[e]), accepted', acks)
      <4>1. TransferOK(t, Tail(net[Sender[t]]), accepted, acks)
        BY <1>1, <1>2, <1>3, <1>7, AckedLeft
      <4>q. QED
        BY <1>2, <2>1, <2>2, <4>1
    <3>2. u \in From(e) => SameFor(Tail(net[e]), Tail(net[e]), u)
      BY SameItself
    <3>3. u \notin To(e)
      BY <1>2, <2>2, TwoEnds
    <3>q. QED
      BY <1>3, <1>10, <1>11, <2>1, <3>1, <3>2, <3>3, PumpOnlyWell
  <2>3. CASE u # t
    <3>1. TransferOK(u, net[Sender[u]], accepted', acks)
      BY <1>3, <1>7, <2>1, <2>3, OthersReady
    <3>2. u \in From(e) => SameFor(net[Sender[u]], Tail(net[e]), u)
      BY <1>1, <1>2, <1>3, <2>3, OthersLeft DEF From
    <3>3. u \in To(e) => SameFor(net[Sender[u]], net[Sender[u]], u) /\ SameFor(net[e], Tail(net[e]), u)
      <4>2. SameFor(net[e], Tail(net[e]), u)
        BY <1>1, <1>2, <1>11, <2>3, SilentRest
      <4>q. QED
        BY <4>2, SameItself
    <3>q. QED
      BY <1>3, <1>10, <1>11, <2>1, <3>1, <3>2, <3>3, PumpOnlyWell
  <2>q. QED
    BY <2>2, <2>3
<1>q. QED
  BY <1>12, <1>13, <1>14 DEF TransferInv

(* A poll settles what is whole, and pumps.                                 *)
LEMMA PollKeeps ==
  ASSUME TransferInv, Poll
  PROVE  TransferInv'
<1>1. PICK late \in SUBSET Awaited : PollWith(late, 0)
  BY DEF Poll
<1> DEFINE inbox == net["server"]
<1>2. PICK done, bad :
        /\ done = (Whole \ Awaited) \cup late
        /\ bad = {t \in done : file[t] # "published"}
        /\ receiving' = receiving \ done
        /\ wanted' = wanted \ done
        /\ file' = AfterPoll(bad)
        /\ Pump("server", accepted, acked, 0, inbox, done, bad)
  BY <1>1 DEF PollWith
<1>3. UNCHANGED <<accepted, acked, got, pending, opening, begun>>
  BY <1>1 DEF PollWith
<1>4. TypeOK /\ WindowOK(acked) /\ (\A u \in Transfers : AllWell(u)) /\ "server" \in Ends /\ inbox \in Seq(Messages)
  BY DEF TransferInv, TypeOK, Ends
<1>5. \A u \in Transfers : acked[u] \in Nat /\ acked[u] <= sent[u] /\ acked'[u] = acked[u]
  BY <1>3, <1>4, Typed
<1>6. /\ done \subseteq To("server") /\ bad \subseteq done
      /\ \A t \in done : t \in receiving /\ got[t] = Size[t]
  BY <1>1, <1>2 DEF Whole, Awaited
<1>7. PICK broken, chunks : PumpSays("server", accepted, acked, inbox, done, bad, broken, chunks)
  <2>1. 0 \in Nat
    OBVIOUS
  <2> HIDE DEF inbox
  <2>q. QED
    BY <1>2, <1>4, <1>5, <2>1, PumpDoes
<1>8. PumpSays("server", accepted', acked, inbox, done, bad, broken, chunks)
  BY <1>3, <1>7
<1>9. WindowOK(acked)'
  BY <1>4, <1>5, <1>7, PumpWindows
<1>10. /\ file' \in [Transfers -> {"none", "staged", "queued", "publishing", "placed", "published", "refused", "stray"}]
       /\ \A t \in Transfers :
            file'[t] = IF t \in bad /\ file[t] \in {"staged", "refused"} THEN "none" ELSE file[t]
  BY <1>2, <1>4 DEF AfterPoll, TypeOK
<1>11. TypeOK'
  <2>1. /\ accepted' \subseteq Transfers /\ acked' \in [Transfers -> Nat] /\ receiving' \subseteq receiving
        /\ wanted' \subseteq wanted /\ UNCHANGED <<got, pending, opening, begun>>
        /\ \A u \in Transfers : acked'[u] <= sent[u]
    BY <1>2, <1>3, <1>4, <1>5 DEF TypeOK
  <2> HIDE DEF inbox
  <2>q. QED
    BY <1>4, <1>6, <1>8, <1>10, <2>1, PumpTyped
<1>12. ASSUME NEW t \in Transfers PROVE AllWell(t)'
  <2>1. /\ t \in begun' <=> t \in begun
        /\ t \in pending' <=> t \in pending
        /\ t \in opening' <=> t \in opening
        /\ t \in accepted' <=> t \in accepted
        /\ got'[t] = got[t] /\ acked'[t] = acked[t] /\ acked[t] \in Nat
        /\ t \in receiving' <=> t \in receiving /\ t \notin done
        /\ t \in wanted' <=> t \in wanted /\ t \notin done
    BY <1>2, <1>3, <1>5
  <2>2. CASE t \notin done
    <3>1. /\ t \in receiving' <=> t \in receiving
          /\ t \in wanted' <=> t \in wanted
          /\ file'[t] = file[t]
      BY <1>6, <1>10, <2>1, <2>2
    <3>2. TransferOK(t, net[Sender[t]], accepted', acked)
      BY <1>3, <1>4 DEF AllWell, ToSender
    <3>3. t \in From("server") => SameFor(net[Sender[t]], inbox, t)
      BY SameItself DEF From
    <3>4. t \in To("server") => SameFor(net[Sender[t]], net[Sender[t]], t) /\ SameFor(net["server"], inbox, t)
      BY SameItself
    <3> HIDE DEF inbox
    <3>q. QED
      BY <1>4, <1>6, <1>8, <2>1, <2>2, <3>1, <3>2, <3>3, <3>4, PumpWell
  <2>3. CASE t \in done
    <3>1. /\ t \in To("server") /\ t \notin From("server") /\ Sender[t] \in Ends /\ Receiver(t) = "server"
          /\ Sender[t] # "server" /\ Other("server") = Sender[t]
      BY <1>4, <1>6, <2>3, TwoEnds
    <3>2. t \in receiving /\ got[t] = Size[t] /\ (t \in bad <=> file[t] # "published")
      BY <1>2, <1>6, <2>3
    <3>3. t \notin broken /\ sent'[t] = sent[t] /\ (t \in sending' <=> t \in sending)
      BY <3>1, <1>7 DEF PumpSays
    <3>4. /\ verdict'[Sender[t]][t] = verdict[Sender[t]][t]
          /\ verdict'[Receiver(t)][t] = IF t \in bad THEN "failed" ELSE "completed"
      <4> HIDE DEF inbox
      <4>q. QED
        BY <1>4, <1>7, <2>3, <3>1, <3>3, PumpTold
    <3>5. /\ net'["server"] = inbox
          /\ t \notin bad => OneMoreFor(net[Sender[t]], net'[Sender[t]], t, EndMsg(t, TRUE))
          /\ t \in bad => OneMoreFor(net[Sender[t]], net'[Sender[t]], t, EndMsg(t, FALSE))
      <4> HIDE DEF inbox
      <4>q. QED
        BY <1>4, <1>6, <1>7, <2>3, <3>1, PumpSaid, ZenonT(60)
    <3>6. net'[Receiver(t)] = net[Receiver(t)]
      BY <3>1, <3>5
    <3> DEFINE q == net[Sender[t]]
    <3>7. ASSUME NEW well \in BOOLEAN, t \notin bad <=> well,
                 NEW m, m = (IF well THEN EndMsg(t, TRUE) ELSE EndMsg(t, FALSE)),
                 OneMoreFor(q, net'[Sender[t]], t, m)
          PROVE  AllWell(t)'
      <4>1. file[t] = "published" <=> well
        BY <3>2, <3>7
      <4>2. /\ file'[t] = IF ~well /\ file[t] \in {"staged", "refused"} THEN "none" ELSE file[t]
            /\ verdict'[Receiver(t)][t] = IF well THEN "completed" ELSE "failed"
        BY <1>10, <3>4, <3>7
      <4>3. t \notin receiving' /\ t \notin wanted' /\ q = net[Sender[t]] /\ AllWell(t)
        BY <1>4, <2>1, <2>3
      <4> HIDE DEF inbox, q
      <4>q. QED
        BY <1>4, <2>1, <3>2, <3>3, <3>4, <3>6, <3>7, <4>1, <4>2, <4>3, PollSettled
    <3>8. CASE t \in bad
      <4>1. OneMoreFor(q, net'[Sender[t]], t, EndMsg(t, FALSE))
        BY <3>5, <3>8
      <4>2. EndMsg(t, FALSE) = (IF FALSE THEN EndMsg(t, TRUE) ELSE EndMsg(t, FALSE)) /\ FALSE \in BOOLEAN
        OBVIOUS
      <4>q. QED
        BY <3>7, <3>8, <4>1, <4>2
    <3>9. CASE t \notin bad
      <4>1. OneMoreFor(q, net'[Sender[t]], t, EndMsg(t, TRUE))
        BY <3>5, <3>9
      <4>2. EndMsg(t, TRUE) = (IF TRUE THEN EndMsg(t, TRUE) ELSE EndMsg(t, FALSE)) /\ TRUE \in BOOLEAN
        OBVIOUS
      <4>q. QED
        BY <3>7, <3>9, <4>1, <4>2
    <3>q. QED
      BY <3>8, <3>9
  <2>q. QED
    BY <2>2, <2>3
<1>q. QED
  BY <1>9, <1>11, <1>12 DEF TransferInv

-----------------------------------------------------------------------------
(* The invariant, of every behaviour.                                       *)
LEMMA InitHolds ==
  ASSUME Init
  PROVE  TransferInv
<1>1. TypeOK
  <2>1. <<>> \in Seq(Messages) /\ 0 \in 0..MaxFaults
    BY TransferAssumption
  <2>2. \A t \in Transfers : Size[t] \in Nat
    BY TransferAssumption
  <2>q. QED
    BY <2>1, <2>2 DEF Init, TypeOK
<1>2. WindowOK(acked)
  <2>1. ASSUME NEW e \in Ends PROVE Cardinality(InFlight(sending \cap From(e), acked, sent)) <= Budget
    <3>1. InFlight(sending \cap From(e), acked, sent) = {}
      BY DEF Init, InFlight
    <3>2. Cardinality({}) = 0 /\ Budget \in Nat
      BY FS_EmptySet, TransferAssumption
    <3>q. QED
      BY <3>1, <3>2
  <2>2. \A t \in Transfers : sent[t] - acked[t] <= Window
    BY TransferAssumption DEF Init
  <2>q. QED
    BY <2>1, <2>2 DEF WindowOK
<1>3. ASSUME NEW t \in Transfers PROVE AllWell(t)
  <2>1. Sender[t] \in Ends /\ Receiver(t) \in Ends
    BY TwoEnds
  <2>2. /\ net[Sender[t]] = <<>> /\ net[Receiver(t)] = <<>> /\ file[t] = "none"
        /\ verdict[Sender[t]][t] = "none" /\ verdict[Receiver(t)][t] = "none"
        /\ sent[t] = 0 /\ acked[t] = 0 /\ got[t] = 0
        /\ t \notin begun /\ t \notin sending /\ t \notin receiving /\ t \notin pending /\ t \notin wanted
        /\ t \notin opening /\ t \notin accepted
    BY <2>1 DEF Init
  <2>3. DOMAIN net[Sender[t]] = {} /\ DOMAIN net[Receiver(t)] = {}
    BY <2>2
  <2>q. QED
    BY <2>2, <2>3 DEF AllWell, TransferOK, FreshOK, StepOK, BeforeOK, RecordOK, AnswerOK, GivenUpOK, OtherEndOK,
       ChunksOK, SettledOK, ToSender, ToReceiver, ToldSender, ToldReceiver, Early, Unanswered, Has, Says, Handshake,
       OneHandshake, Precedes, Below
<1>q. QED
  BY <1>1, <1>2, <1>3 DEF TransferInv

LEMMA StandsStill ==
  ASSUME TransferInv, UNCHANGED vars
  PROVE  TransferInv'
<1>1. /\ sending' = sending /\ accepted' = accepted /\ sent' = sent /\ acked' = acked
      /\ receiving' = receiving /\ got' = got /\ pending' = pending /\ wanted' = wanted
      /\ opening' = opening /\ net' = net /\ file' = file /\ verdict' = verdict /\ begun' = begun /\ faults' = faults
  BY DEF vars, outVars, inVars
<1>2. TypeOK' /\ WindowOK(acked)'
  <2>1. TypeOK /\ WindowOK(acked)
    BY DEF TransferInv
  <2>2. TypeOK'
    BY <1>1, <2>1 DEF TypeOK
  <2>3. WindowOK(acked)'
    BY <1>1, <2>1 DEF WindowOK
  <2>q. QED
    BY <2>2, <2>3
<1>3. ASSUME NEW t \in Transfers PROVE AllWell(t)'
  <2>1. TypeOK /\ TransferOK(t, net[Sender[t]], accepted, acked) /\ acked[t] \in Nat
    BY Typed DEF TransferInv, AllWell, ToSender
  <2>2. Unmoved(t)
    BY <1>1 DEF Unmoved, Still
  <2>3. /\ SameFor(net[Sender[t]], net'[Sender[t]], t)
        /\ SameFor(net[Receiver(t)], net'[Receiver(t)], t)
    BY <1>1, SameItself
  <2>q. QED
    BY <1>1, <2>1, <2>2, <2>3, Untouched
<1>q. QED
  BY <1>2, <1>3 DEF TransferInv

LEMMA StepKeeps ==
  ASSUME TransferInv, [Next]_vars
  PROVE  TransferInv'
<1>1. CASE \E t \in Transfers : Offer(t) \/ Request(t) \/ Opened(t) \/ OpenFailed(t)
  BY <1>1, OfferKeeps, RequestKeeps, OpenedKeeps, OpenFailedKeeps
<1>2. CASE \E e \in Ends, t \in Transfers : Cancel(e, t)
  BY <1>2, CancelKeeps
<1>3. CASE \E e \in Ends : Deliver(e)
  BY <1>3, RecvRequestKeeps, RecvOfferKeeps, RecvAcceptKeeps, RecvDataKeeps, RecvAckKeeps, RecvEndKeeps DEF Deliver
<1>4. CASE \E t \in Transfers : Take(t) \/ Persist(t) \/ Answer(t)
  BY <1>4, WorkerKeeps
<1>5. CASE Poll
  BY <1>5, PollKeeps
<1>6. CASE UNCHANGED vars
  BY <1>6, StandsStill
<1>q. QED
  BY <1>1, <1>2, <1>3, <1>4, <1>5, <1>6 DEF Next

(* Whatever is offered, asked for, cancelled, refused or lost to the disk,  *)
(* and however the two streams, the pump and the file worker interleave,    *)
(* every transfer is in one of the states the handlers of                   *)
(* TransferManager, connection.rs and engine.rs are written for.            *)
THEOREM Invariance == Spec => []TransferInv
<1>1. Init => TransferInv
  BY InitHolds
<1>2. TransferInv /\ [Next]_vars => TransferInv'
  BY StepKeeps
<1>q. QED
  BY <1>1, <1>2, PTL DEF Spec

(* The state has its type, whatever the sizes, windows and limits: among    *)
(* other things no chunk is acknowledged before it is sent, and none is     *)
(* sent beyond what the offer promised (TransferSender, pump).              *)
THEOREM Typing == Spec => []TypeOK
<1>1. TransferInv => TypeOK
  BY DEF TransferInv
<1>q. QED
  BY <1>1, Invariance, PTL

(* may_send and the loop of pump keep both windows, whichever transfers     *)
(* join, break off or are cancelled, and from whichever transfer the turns  *)
(* begin.                                                                   *)
THEOREM BothWindowsKept == Spec => []WindowsKept
<1>1. ASSUME TransferInv PROVE WindowsKept
  <2>1. TypeOK /\ WindowOK(acked)
    BY <1>1 DEF TransferInv
  <2>2. ASSUME NEW t \in sending PROVE sent[t] - acked[t] \in 0..Window
    <3>1. t \in Transfers
      BY <2>1 DEF TypeOK
    <3>2. sent[t] \in Nat /\ acked[t] \in Nat /\ acked[t] <= sent[t] /\ sent[t] - acked[t] <= Window
      BY <2>1, <3>1, Typed DEF WindowOK
    <3>q. QED
      BY <3>2, TransferAssumption
  <2>q. QED
    BY <2>1, <2>2 DEF WindowsKept, WindowOK
<1>q. QED
  BY <1>1, Invariance, PTL

(* What is on its way to a receiver is what TransferReceiver::chunk expects *)
(* next, each chunk once and in order: two ends that run this code never    *)
(* meet its "out of order" error.                                           *)
THEOREM OrderKept == Spec => []ChunksInOrder
<1>1. ASSUME TransferInv PROVE ChunksInOrder
  <2>1. TypeOK
    BY <1>1 DEF TransferInv
  <2> SUFFICES ASSUME NEW t \in receiving
               PROVE  LET chunks == OnTheWay(Receiver(t), t, "data")
                          seq(i) == net[Receiver(t)][i].seq
                      IN /\ \A i, j \in chunks : i < j => seq(i) < seq(j)
                         /\ {seq(i) : i \in chunks} = got[t]..(sent[t] - 1)
    BY DEF ChunksInOrder
  <2> DEFINE p == net[Receiver(t)]
             chunks == OnTheWay(Receiver(t), t, "data")
             seq(i) == p[i].seq
  <2>2. t \in Transfers
    BY <2>1 DEF TypeOK
  <2>3. Counts(p, t, "data", got[t], sent[t])
    BY <1>1, <2>2 DEF TransferInv, AllWell, TransferOK, ChunksOK, ToReceiver
  <2>4. p \in Seq(Messages) /\ got[t] \in Nat /\ sent[t] \in Nat
    BY <2>1, <2>2, Typed, TwoEnds
  <2>5. \A i : i \in chunks <=> i \in DOMAIN p /\ At(p, i, t, "data")
    BY DEF OnTheWay, At
  <2>6. \A i \in DOMAIN p : At(p, i, t, "data") => p[i].seq \in Nat
    <3>1. ASSUME NEW i \in DOMAIN p, At(p, i, t, "data") PROVE p[i].seq \in Nat
      <4>1. p[i] \in Messages /\ p[i].type = "data"
        BY <2>4, <3>1 DEF At
      <4>q. QED
        BY <4>1 DEF Messages
    <3>q. QED
      BY <3>1
  <2> HIDE DEF p, chunks
  <2>7. \A i, j \in chunks : i < j => seq(i) < seq(j)
    BY <2>3, <2>5 DEF Counts
  <2>8. {seq(i) : i \in chunks} \subseteq got[t]..(sent[t] - 1)
    <3> SUFFICES ASSUME NEW i \in chunks PROVE seq(i) \in got[t]..(sent[t] - 1)
      OBVIOUS
    <3>1. seq(i) >= got[t] /\ seq(i) < sent[t] /\ seq(i) \in Nat
      BY <2>3, <2>5, <2>6 DEF Counts
    <3>q. QED
      BY <2>4, <3>1
  <2>9. got[t]..(sent[t] - 1) \subseteq {seq(i) : i \in chunks}
    <3> SUFFICES ASSUME NEW k \in got[t]..(sent[t] - 1) PROVE \E i \in chunks : seq(i) = k
      OBVIOUS
    <3>q. QED
      BY <2>3, <2>5 DEF Counts
  <2>q. QED
    BY <2>7, <2>8, <2>9 DEF p, chunks
<1>q. QED
  BY <1>1, Invariance, PTL

(* The sender, the receiver and the disk agree how a transfer ended,        *)
(* whatever is cancelled, fails, or is given up while the file worker is    *)
(* still at it (TransferEnd at either end, FileWriter::flush, poll).        *)
THEOREM Agreement == Spec => []EndsAgree
<1>1. ASSUME TransferInv PROVE EndsAgree
  <2>1. ASSUME NEW t \in Transfers PROVE SettledOK(t)
    BY <1>1 DEF TransferInv, AllWell, TransferOK
  <2>q. QED
    BY <2>1 DEF EndsAgree, SettledOK, ToldSender, ToldReceiver
<1>q. QED
  BY <1>1, Invariance, PTL

(* Every record an end keeps has the other end's, or a message that ends    *)
(* it: no transfer is left behind in the tables of TransferManager, where   *)
(* it would count against the limits for as long as the connection lasts.   *)
THEOREM NoRecordAlone == Spec => []NobodyWaitsAlone
<1>1. ASSUME TransferInv PROVE NobodyWaitsAlone
  <2>1. TypeOK
    BY <1>1 DEF TransferInv
  <2>2. ASSUME NEW t \in Transfers
        PROVE  /\ \A ty : OnTheWay(Sender[t], t, ty) # {} <=> Has(net[Sender[t]], t, ty)
               /\ \A ty : OnTheWay(Receiver(t), t, ty) # {} <=> Has(net[Receiver(t)], t, ty)
    BY DEF OnTheWay, Has, At
  <2>3. ASSUME NEW t \in Transfers
        PROVE  /\ OtherEndOK(t, net[Sender[t]]) /\ ToReceiver(t) = net[Receiver(t)]
               /\ Says(net[Sender[t]], AcceptMsg(t, FALSE)) => Has(net[Sender[t]], t, "accept")
    BY <1>1, Handshakes DEF TransferInv, AllWell, TransferOK, ToSender, ToReceiver
  <2>4. pending \subseteq Transfers /\ receiving \subseteq Transfers /\ sending \subseteq Transfers
    BY <2>1, TransferAssumption DEF TypeOK
  <2>q. QED
    BY <2>2, <2>3, <2>4 DEF NobodyWaitsAlone, OtherEndOK
<1>q. QED
  BY <1>1, Invariance, PTL

-----------------------------------------------------------------------------
(* Told once: only what an end still has a record of is reported to it.     *)
HeardOnce ==
  \A e \in Ends, t \in Transfers :
    verdict[e][t] # "none" =>
      verdict'[e][t] \in {verdict[e][t]}
        \cup (IF e = "client" /\ verdict[e][t] = "cancelled" THEN {"failed"} ELSE {})

LEMMA Unheard ==
  ASSUME TransferInv, NEW t \in Transfers
  PROVE  /\ t \in sending \cap From(Sender[t]) => verdict[Sender[t]][t] = "none"
         /\ t \in pending \/ t \in wanted \/ t \in receiving => verdict[Receiver(t)][t] = "none"
         /\ \A e \in Ends : t \in Active(e) => verdict[e][t] = "none"
<1>1. RecordOK(t)
  BY DEF TransferInv, AllWell, TransferOK
<1>2. \A e \in Ends : (t \in From(e) <=> e = Sender[t]) /\ (t \in To(e) <=> e = Receiver(t))
  BY TwoEnds
<1>q. QED
  BY <1>1, <1>2 DEF RecordOK, ToldSender, ToldReceiver, Active

LEMMA TellOnce ==
  ASSUME TypeOK, NEW e \in Ends, NEW t \in Transfers, NEW v, Tell(e, {t}, v),
         verdict[e][t] = "none" \/ (e = "client" /\ verdict[e][t] = "cancelled" /\ v = "failed")
  PROVE  HeardOnce
<1>1. \A f \in Ends, u \in Transfers : verdict'[f][u] = IF f = e /\ u \in {t} THEN v ELSE verdict[f][u]
  BY Told
<1>q. QED
  BY <1>1 DEF HeardOnce

LEMMA PumpOnce ==
  ASSUME TransferInv, NEW e \in Ends, NEW ready, NEW acks, NEW least, NEW inbox,
         NEW done, NEW bad, Pump(e, ready, acks, least, inbox, done, bad),
         done \subseteq receiving \cap To(e), bad \subseteq done
  PROVE  HeardOnce
<1>1. PICK broken :
        /\ broken \subseteq sending \cap From(e)
        /\ verdict' = [verdict EXCEPT ![e] = [t \in Transfers |->
             IF t \in bad \cup broken THEN "failed" ELSE IF t \in done THEN "completed" ELSE @[t]]]
  <2> DEFINE mine == sending \cap From(e)
             able == {t \in ready \cap mine : BudgetLeft(mine, acks) > 0 /\ Room(t, acks) > 0}
  <2>1. PICK order \in Turns(able), broken \in SUBSET able :
          verdict' = [verdict EXCEPT ![e] = [t \in Transfers |->
             IF t \in bad \cup broken THEN "failed" ELSE IF t \in done THEN "completed" ELSE @[t]]]
    BY DEF Pump
  <2>q. QED
    BY <2>1
<1>2. TypeOK
  BY DEF TransferInv
<1>3. ASSUME NEW t \in Transfers, t \in bad \cup broken \/ t \in done PROVE verdict[e][t] = "none"
  <2>1. t \in Active(e)
    BY <1>1, <1>3 DEF Active
  <2>q. QED
    BY <2>1, Unheard
<1>4. \A f \in Ends, t \in Transfers :
        verdict'[f][t] = IF f # e THEN verdict[f][t]
                         ELSE IF t \in bad \cup broken THEN "failed"
                         ELSE IF t \in done THEN "completed" ELSE verdict[f][t]
  BY <1>1, <1>2 DEF TypeOK
<1>q. QED
  BY <1>3, <1>4 DEF HeardOnce

LEMMA StaysOnce ==
  ASSUME verdict' = verdict
  PROVE  HeardOnce
BY DEF HeardOnce

LEMMA FinishOnce ==
  ASSUME TypeOK, NEW e \in Ends, NEW t \in Transfers, NEW how, NEW before, Finish(e, t, how, before),
         verdict[e][t] = "none"
  PROVE  HeardOnce
<1>1. verdict' = verdict \/ Tell(e, {t}, how)
  BY DEF Finish
<1>q. QED
  BY <1>1, TellOnce, StaysOnce

LEMMA OfferOnce ==
  ASSUME TransferInv, NEW e \in Ends, RecvOffer(e)
  PROVE  HeardOnce
<1>1. net[e] # <<>> /\ Head(net[e]).type = "offer"
  BY DEF RecvOffer, Head1
<1>2. PICK t \in Transfers : Head(net[e]).id = t /\ e = Receiver(t)
  BY <1>1, HeadAt
<1>3. TypeOK
  BY DEF TransferInv
<1>4. verdict[e][t] = "none" \/ (t \in Asked /\ verdict[e][t] = "cancelled")
  <2>1. Has(net[e], t, "offer")
    <3>1. net[e] \in Seq(Messages)
      BY <1>3 DEF TypeOK
    <3>2. 1 \in DOMAIN net[e] /\ net[e][1] = Head(net[e])
      BY <1>1, <3>1
    <3>q. QED
      BY <1>1, <1>2, <3>2 DEF Has, At
  <2>2. BeforeOK(t, net[Sender[t]], accepted)
    BY DEF TransferInv, AllWell, TransferOK, ToSender
  <2>q. QED
    BY <1>2, <2>1, <2>2 DEF BeforeOK, Unanswered, ToReceiver, ToldReceiver
<1>5. t \in wanted => verdict[e][t] = "none"
  BY <1>2, Unheard
<1>6. \/ e = "client" /\ Tell(e, {t}, "failed")
      \/ t \in wanted /\ Tell(e, {t}, "failed")
      \/ verdict' = verdict
      \/ /\ t \in Asked => t \in wanted
         /\ \E how \in Finishes(t) : Finish(e, t, how, <<AcceptMsg(t, TRUE)>>)
  BY <1>2 DEF RecvOffer
<1>7. CASE e = "client" /\ Tell(e, {t}, "failed")
  BY <1>3, <1>4, <1>7, TellOnce
<1>8. CASE t \in wanted /\ Tell(e, {t}, "failed")
  BY <1>3, <1>5, <1>8, TellOnce
<1>9. CASE verdict' = verdict
  BY <1>9, StaysOnce
<1>10. CASE /\ t \in Asked => t \in wanted
            /\ \E how \in Finishes(t) : Finish(e, t, how, <<AcceptMsg(t, TRUE)>>)
  BY <1>3, <1>4, <1>5, <1>10, FinishOnce
<1>q. QED
  BY <1>6, <1>7, <1>8, <1>9, <1>10

LEMMA DataOnce ==
  ASSUME TransferInv, NEW e \in Ends, RecvData(e)
  PROVE  HeardOnce
<1>1. net[e] # <<>> /\ Head(net[e]).type = "data"
  BY DEF RecvData, Head1
<1>2. PICK t \in Transfers : Head(net[e]).id = t /\ e = Receiver(t)
  BY <1>1, HeadAt
<1>3. TypeOK
  BY DEF TransferInv
<1>4. \/ verdict' = verdict
      \/ t \in receiving /\ Tell(e, {t}, "failed")
      \/ t \in receiving /\ \E how \in Finishes(t) : Finish(e, t, how, <<AckMsg(t, Head(net[e]).seq)>>)
  BY <1>2 DEF RecvData
<1>5. t \in receiving => verdict[e][t] = "none"
  BY <1>2, Unheard
<1>q. QED
  BY <1>3, <1>4, <1>5, StaysOnce, TellOnce, FinishOnce

LEMMA AcceptOnce ==
  ASSUME TransferInv, NEW e \in Ends, RecvAccept(e)
  PROVE  HeardOnce
<1>1. net[e] # <<>> /\ Head(net[e]).type = "accept"
  BY DEF RecvAccept, Head1
<1>2. PICK t \in Transfers : Head(net[e]).id = t /\ e = Sender[t]
  BY <1>1, HeadAt
<1>3. TypeOK
  BY DEF TransferInv
<1>4. \/ verdict' = verdict
      \/ t \in sending /\ Tell(e, {t}, "failed")
      \/ Pump(e, accepted \cup {t}, acked, 0, Tail(net[e]), {}, {})
  BY <1>2 DEF RecvAccept
<1>5. t \in sending => verdict[e][t] = "none"
  BY <1>2, Unheard DEF From
<1>6. {} \subseteq receiving \cap To(e) /\ {} \subseteq {}
  OBVIOUS
<1>q. QED
  BY <1>3, <1>4, <1>5, <1>6, StaysOnce, TellOnce, PumpOnce

LEMMA AckOnce ==
  ASSUME TransferInv, NEW e \in Ends, RecvAck(e)
  PROVE  HeardOnce
<1>1. \E acks : Pump(e, accepted, acks, 0, Tail(net[e]), {}, {})
  BY DEF RecvAck
<1>2. {} \subseteq receiving \cap To(e) /\ {} \subseteq {}
  OBVIOUS
<1>q. QED
  BY <1>1, <1>2, PumpOnce

LEMMA EndOnce ==
  ASSUME TransferInv, NEW e \in Ends, RecvEnd(e)
  PROVE  HeardOnce
<1>1. net[e] # <<>>
  BY DEF RecvEnd, Head1
<1>2. PICK t \in Transfers : Head(net[e]).id = t
  BY <1>1, HeadAt
<1>3. TypeOK
  BY DEF TransferInv
<1>4. verdict' = verdict \/ \E v : t \in Active(e) /\ Tell(e, {t}, v)
  BY <1>2 DEF RecvEnd
<1>5. t \in Active(e) => verdict[e][t] = "none"
  BY Unheard
<1>q. QED
  BY <1>3, <1>4, <1>5, StaysOnce, TellOnce

LEMMA PollOnce ==
  ASSUME TransferInv, Poll
  PROVE  HeardOnce
<1>1. PICK late \in SUBSET Awaited : PollWith(late, 0)
  BY DEF Poll
<1>2. PICK done, bad : /\ done = (Whole \ Awaited) \cup late
                       /\ bad = {t \in done : file[t] # "published"}
                       /\ Pump("server", accepted, acked, 0, net["server"], done, bad)
  BY <1>1 DEF PollWith
<1>3. done \subseteq receiving \cap To("server") /\ bad \subseteq done /\ "server" \in Ends
  BY <1>1, <1>2 DEF Whole, Awaited, Ends
<1>q. QED
  BY <1>2, <1>3, PumpOnce

(* An end hears once what became of a transfer, and a client that cancelled *)
(* may hear once more, of a failure: a download it gave up whose offer it   *)
(* then declines (events of the TransferManager, engine.rs, connection.rs). *)
THEOREM ToldButOnce == Spec => ToldOnce
<1>1. ASSUME TransferInv, [Next]_vars PROVE HeardOnce
  <2>1. TypeOK
    BY <1>1 DEF TransferInv
  <2>2. CASE \E t \in Transfers : Offer(t) \/ Request(t) \/ Opened(t) \/ OpenFailed(t)
    BY <2>2, StaysOnce DEF Offer, Request, Opened, OpenFailed
  <2>3. ASSUME NEW e \in Ends, NEW t \in Transfers, Cancel(e, t) PROVE HeardOnce
    <3>1. t \in Active(e) /\ Tell(e, {t}, "cancelled")
      BY <2>3 DEF Cancel
    <3>2. verdict[e][t] = "none"
      BY <1>1, <3>1, Unheard
    <3>q. QED
      BY <2>1, <3>1, <3>2, TellOnce
  <2>4. ASSUME NEW e \in Ends, Deliver(e) PROVE HeardOnce
    <3>1. CASE RecvRequest(e)
      BY <3>1, StaysOnce DEF RecvRequest
    <3>q. QED
      BY <1>1, <2>4, <3>1, OfferOnce, AcceptOnce, DataOnce, AckOnce, EndOnce DEF Deliver
  <2>5. CASE \E t \in Transfers : Take(t) \/ Persist(t) \/ Answer(t)
    BY <2>5, StaysOnce DEF Take, Persist, Answer
  <2>6. CASE Poll
    BY <1>1, <2>6, PollOnce
  <2>7. CASE UNCHANGED vars
    BY <2>7, StaysOnce DEF vars
  <2>q. QED
    BY <1>1, <2>2, <2>3, <2>4, <2>5, <2>6, <2>7 DEF Next
<1>2. TransferInv /\ [Next]_vars => [HeardOnce]_vars
  BY <1>1
<1>3. Spec => [][HeardOnce]_vars
  <2>1. Spec => []TransferInv
    BY Invariance
  <2>q. QED
    BY <1>2, <2>1, PTL DEF Spec
<1>q. QED
  BY <1>3 DEF ToldOnce, HeardOnce

=============================================================================
