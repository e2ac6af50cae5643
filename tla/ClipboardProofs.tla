---------------------------- MODULE ClipboardProofs ----------------------------
(***************************************************************************)
(* What the bridge to the X selections promises of its one conversion at a *)
(* time, whatever programs own the selection and however they answer; and  *)
(* that a copy made when the one before has gone across goes across too,   *)
(* to whichever end, through polls, offers, conversions and transfers.     *)
(***************************************************************************)
EXTENDS Clipboard, TLAPS

(* What waits, and what the bridge asks for while there is nothing to wait. *)
QueueInv ==
  /\ ConvertedOnce
  /\ fetch \in Targets \cup {None}
  /\ fetch = "targets" => "png" \notin available

LEMMA ConcludeServes ==
  ASSUME NEW kinds, NEW rest, NEW left, Conclude(kinds, rest, left)
  PROVE  ~waiting' /\ fetch' \in {"png", None}
BY DEF Conclude, Convert

(* An end of a conversion that leaves the owner and its formats alone.      *)
LEMMA OverKeeps ==
  ASSUME ~waiting', fetch' \in {"png", None}
  PROVE  QueueInv'
BY ClipboardAssumption DEF QueueInv, ConvertedOnce, Targets, TextTargets

LEMMA StaysQueued ==
  ASSUME QueueInv, UNCHANGED <<fetch, waiting, available, owned>>
  PROVE  QueueInv'
BY DEF QueueInv, ConvertedOnce

LEMMA EventEnds ==
  ASSUME QueueInv, NEW rest, NEW left, EndOfEvent(rest, left), UNCHANGED <<owned, available>>
  PROVE  QueueInv'
BY ConcludeServes, OverKeeps, StaysQueued DEF EndOfEvent

LEMMA HandleXQueue ==
  ASSUME QueueInv, HandleX
  PROVE  QueueInv'
<1>1. CASE OwnerChanges
  <2>1. CASE Head(xev).by = Bridge
    BY <1>1, <2>1, EventEnds DEF OwnerChanges
  <2>2. CASE Head(xev).by # Bridge
    <3>1. available' = {} /\ ~waiting' /\ fetch' \in {"targets", None}
      BY <1>1, <2>2 DEF OwnerChanges, Convert
    <3>q. QED
      BY <3>1 DEF QueueInv, ConvertedOnce, Targets, TextTargets
  <2>q. QED
    BY <2>1, <2>2
<1>2. CASE LateAnswer
  BY <1>2, EventEnds DEF LateAnswer
<1>3. CASE AsksItself
  BY <1>3, EventEnds DEF AsksItself
<1>4. CASE Refused
  <2>1. CASE fetch = "utf8"
    <3>1. fetch' = "string" /\ UNCHANGED <<waiting, owned, available>>
      BY <1>4, <2>1 DEF Refused, Convert
    <3>q. QED
      BY <3>1 DEF QueueInv, ConvertedOnce, Targets, TextTargets
  <2>2. CASE fetch # "utf8"
    BY <1>4, <2>2, ConcludeServes, OverKeeps DEF Refused
  <2>q. QED
    BY <2>1, <2>2
<1>5. CASE HaveTargets
  <2>1. ~waiting
    BY <1>5, ClipboardAssumption DEF HaveTargets, QueueInv, ConvertedOnce, Targets, TextTargets
  <2>2. \/ fetch' = "utf8" /\ UNCHANGED waiting
        \/ \E kinds : Conclude(kinds, Tail(xev), None)
    BY <1>5 DEF HaveTargets, Convert
  <2>3. ~waiting' /\ fetch' \in {"utf8", "png", None}
    BY <2>1, <2>2, ConcludeServes
  <2>q. QED
    BY <2>3, ClipboardAssumption DEF QueueInv, ConvertedOnce, Targets, TextTargets
<1>6. CASE HaveText \/ HaveImage
  BY <1>6, ConcludeServes, OverKeeps DEF HaveText, HaveImage
<1>q. QED
  BY <1>1, <1>2, <1>3, <1>4, <1>5, <1>6 DEF HandleX

LEMMA XErrorQueue ==
  ASSUME QueueInv, XError
  PROVE  QueueInv'
<1>1. CASE ReadFails
  BY <1>1, StaysQueued DEF ReadFails
<1>2. CASE RequestFails
  <2>1. fetch' = None
    BY <1>2 DEF RequestFails
  <2>2. fetch = "targets" => ~waiting
    BY ClipboardAssumption DEF QueueInv, ConvertedOnce, Targets, TextTargets
  <2>3. \/ waiting' = FALSE
        \/ waiting' = waiting /\ UNCHANGED <<owned, available>>
        \/ waiting' = waiting /\ fetch = "targets"
    BY <1>2 DEF RequestFails
  <2>4. ~waiting' \/ UNCHANGED <<waiting, owned, available>>
    BY <2>2, <2>3
  <2>q. QED
    BY <2>1, <2>4, ClipboardAssumption DEF QueueInv, ConvertedOnce, Targets
<1>3. CASE StartFails
  BY <1>3, OverKeeps DEF StartFails
<1>q. QED
  BY <1>1, <1>2, <1>3 DEF XError

LEMMA ClientQueue ==
  ASSUME QueueInv, HandleClient \/ ImageFromClient \/ ClientXError
  PROVE  QueueInv'
<1>1. ASSUME NEW c, Acquire(c) \/ OfferedInVain(c) PROVE QueueInv'
  BY <1>1, OverKeeps DEF Acquire, OfferedInVain
<1>2. CASE TextFromClient
  BY <1>1, <1>2, StaysQueued DEF TextFromClient, fetchVars
<1>3. CASE OfferFromClient
  BY <1>3, StaysQueued DEF OfferFromClient, fetchVars
<1>4. CASE RequestFromClient
  <2>1. CASE owned # None \/ "png" \notin available \/ fetch = "png" \/ waiting
    BY <1>4, <2>1, StaysQueued DEF RequestFromClient, fetchVars
  <2>2. CASE ~(owned # None \/ "png" \notin available \/ fetch = "png" \/ waiting)
    <3>1. fetch \in TextTargets \cup {None}
      BY <2>2 DEF QueueInv, Targets
    <3>2. CASE fetch # None
      BY <1>4, <2>2, <3>1, <3>2 DEF RequestFromClient, QueueInv, ConvertedOnce
    <3>3. CASE fetch = None
      BY <1>4, <2>2, <3>3, OverKeeps DEF RequestFromClient, Convert
    <3>q. QED
      BY <3>2, <3>3
  <2>q. QED
    BY <2>1, <2>2
<1>5. CASE ImageFromClient
  BY <1>1, <1>5 DEF ImageFromClient
<1>6. CASE ClientXError
  BY <1>1, <1>6, StaysQueued DEF ClientXError
<1>q. QED
  BY <1>2, <1>3, <1>4, <1>5, <1>6 DEF HandleClient

(* A request for an image is converted once, though an X error may leave it *)
(* queued with nothing in flight until the next event or tick: whoever ends *)
(* the conversion it waits behind, and however, it is then begun or         *)
(* dropped, and never both in flight and queued; and it never outlives the  *)
(* owner it is addressed to (request_format, start_next, cancel_all).       *)
THEOREM NeverTwice == Spec => []ConvertedOnce
<1>1. Init => QueueInv
  BY DEF Init, QueueInv, ConvertedOnce
<1>2. QueueInv /\ [Next]_vars => QueueInv'
  <2> SUFFICES ASSUME QueueInv, [Next]_vars PROVE QueueInv'
    OBVIOUS
  <2>1. ASSUME NEW p \in Apps, Program(p) PROVE UNCHANGED <<fetch, waiting, available, owned>>
    BY <2>1 DEF Program, SessionCopies, TakesOver, OwnedBy, Converts, HasNone, RefusesAll, Refuses,
                Wedges, Answered, Exits
  <2>2. ASSUME NEW c \in Contents, ClientCopies(c) PROVE UNCHANGED <<fetch, waiting, available, owned>>
    BY <2>2 DEF ClientCopies, fetchVars
  <2>3. CASE Expire \/ Tick
    BY <2>3, ConcludeServes, OverKeeps DEF Expire, Tick
  <2>4. CASE HandleSession \/ ImageFromSession \/ Poll
    BY <2>4, StaysQueued DEF HandleSession, TextFromSession, OfferFromSession, RequestFromSession,
                ImageFromSession, Poll, Client, fetchVars
  <2>5. CASE UNCHANGED vars
    BY <2>5, StaysQueued DEF vars, fetchVars
  <2>q. QED
    BY <2>1, <2>2, <2>3, <2>4, <2>5, StaysQueued, HandleXQueue, XErrorQueue, ClientQueue DEF Next
<1>3. QueueInv => ConvertedOnce
  BY DEF QueueInv
<1>q. QED
  BY <1>1, <1>2, <1>3, PTL DEF Spec

-----------------------------------------------------------------------------
(* What one copy at a time, of something new, does: it is on its way up, or *)
(* the bridge holds it, or a program does and it is on its way down.        *)
LinkIdle == toClient = <<>> /\ toSession = <<>> /\ picsDown = <<>> /\ picsUp = <<>>
BridgeIdle == xev = <<>> /\ fetch = None /\ ~waiting /\ \A p \in Apps : asks[p] = <<>>
Polled == ~NewText /\ ~NewImage

(* Nothing that either end remembers was not copied once.                   *)
Remembered(x) == x \in copied \cup {None}
MemoryOK ==
  /\ Remembered(lastText) /\ Remembered(echo.sent) /\ Remembered(echo.received)
  /\ Remembered(lastClip) /\ Remembered(lastImage)
  /\ newest \subseteq copied /\ copied \subseteq Contents /\ DOMAIN offered = Apps /\ DOMAIN asks = Apps

(* A copy of the client's: found by its poll, then sent, or offered, asked  *)
(* for and transferred.                                                     *)
Found(c) ==
  /\ LinkIdle
  /\ c \in Texts => c # lastClip
  /\ c \in Images => c # lastImage
TextSent(c) ==
  /\ c \in Texts /\ lastClip = c /\ toSession = <<Text(c)>>
  /\ toClient = <<>> /\ picsDown = <<>> /\ picsUp = <<>>
ImageOffered(c) ==
  /\ c \in Images /\ lastImage = c /\ picsDown = <<>>
  /\ \/ picture = c /\ toSession = <<Offer({"png"})>> /\ toClient = <<>> /\ picsUp = <<>>
     \/ picture = c /\ toSession = <<>> /\ toClient = <<Request>> /\ picsUp = <<>>
     \/ toSession = <<>> /\ toClient = <<>> /\ picsUp = <<c>>
Upward(c) ==
  /\ newest = {c} /\ clip = c /\ BridgeIdle /\ c # echo.sent
  /\ Found(c) \/ TextSent(c) \/ ImageOffered(c)

(* The bridge has it and may be told so.                                    *)
Held(c) ==
  /\ newest = {c} /\ clip = c /\ Polled /\ LinkIdle
  /\ owner = Bridge /\ owned = c /\ (c \in Texts => lastText = c)
  /\ xev \in {<<>>, <<OwnerEvent(Bridge)>>}
  /\ fetch = None /\ ~waiting /\ \A p \in Apps : asks[p] = <<>>

(* A text that the client has not got will be news to the bridge.           *)
News(S) == clip \in S \/ \A t \in S \cap Texts : t # lastText /\ t # echo.received

Announced(p, S) ==
  /\ xev \in {<<OwnerEvent(p)>>, <<OwnerEvent(Bridge), OwnerEvent(p)>>}
  /\ fetch = None /\ ~waiting /\ asks[p] = <<>>
  /\ LinkIdle /\ News(S)

(* The conversion in flight: asked for, or answered.                        *)
Part(S, x) == IF x = "targets" THEN S ELSE S \cap (IF x = "png" THEN Images ELSE Texts)
InFlight(p, S, x) ==
  /\ fetch = x
  /\ \/ asks[p] = <<[target |-> x, what |-> S]>> /\ xev = <<>>
     \/ asks[p] = <<>> /\ xev = <<Notify(x, TRUE)>> /\ prop = [target |-> x, what |-> Part(S, x)]
     \/ asks[p] = <<>> /\ xev = <<Notify(x, FALSE)>> /\ x = "utf8"

(* An image the client has not got is still to come.                        *)
ImageComes(S) ==
  S \cap Images # {} =>
    clip \in S \/ Offer(Kinds(S)) \in Range(toClient) \/ Request \in Range(toSession)
      \/ waiting \/ fetch = "png" \/ picsDown # <<>>
TextCame(S) == S \cap Texts # {} => clip \in S \/ \E t \in S \cap Texts : Text(t) \in Range(toClient)

(* What is between the two ends is about S.                                 *)
Streams(S) ==
  /\ toClient \in Seq({Offer(Kinds(S))} \cup {Text(t) : t \in S \cap Texts})
  /\ toSession \in Seq({Request}) /\ (toSession # <<>> => S \cap Images # {})
  /\ picsDown \in Seq(S \cap Images) /\ picsUp = <<>>

(* The bridge asks what there is, then for the text, then for the image.    *)
AsksWhat(p, S) == InFlight(p, S, "targets") /\ LinkIdle /\ ~waiting /\ News(S)
AsksText(p, S) ==
  /\ InFlight(p, S, "utf8") \/ InFlight(p, S, "string")
  /\ S \cap Texts # {} /\ available = Kinds(S) /\ News(S) /\ ImageComes(S)
AsksNoMore(p, S) ==
  /\ \/ InFlight(p, S, "png") /\ S \cap Images # {}
     \/ fetch = None /\ asks[p] = <<>> /\ xev = <<>>
  /\ ~waiting /\ available = Kinds(S) /\ ImageComes(S) /\ TextCame(S)
Fetching(p, S) ==
  /\ owned = None /\ Streams(S)
  /\ AsksWhat(p, S) \/ AsksText(p, S) \/ AsksNoMore(p, S)

Downward(p) ==
  /\ owner = p /\ newest # {} /\ offered[p] = newest /\ Polled
  /\ \A q \in Apps \ {p} : asks[q] = <<>>
  /\ Announced(p, newest) \/ Fetching(p, newest)

Nothing == copied = {} /\ owned = None /\ BridgeIdle /\ LinkIdle /\ Polled

CalmOK == MemoryOK /\ (\/ Nothing
                       \/ \E c \in Contents : Upward(c) \/ Held(c)
                       \/ \E p \in Apps : Downward(p))
Calm == settled /\ ~repeated
CopyInv == Calm => CalmOK

-----------------------------------------------------------------------------
(* Short sequences, and ones that grow and shrink.                          *)
LEMMA Short ==
  /\ \A e : Head(<<e>>) = e /\ Tail(<<e>>) = <<>> /\ <<e>> # <<>> /\ Append(<<>>, e) = <<e>>
  /\ \A e, f : Head(<<e, f>>) = e /\ Tail(<<e, f>>) = <<f>> /\ <<e, f>> # <<>>
  /\ \A e, f : Append(<<e>>, f) = <<e, f>>
<1>1. \A e : Head(<<e>>) = e /\ Tail(<<e>>) = <<>> /\ <<e>> # <<>> /\ Append(<<>>, e) = <<e>>
  OBVIOUS
<1>2. \A e, f : Head(<<e, f>>) = e /\ <<e, f>> # <<>>
  OBVIOUS
<1>3. \A e, f : Tail(<<e, f>>) = <<f>>
  OBVIOUS
<1>4. ASSUME NEW e, NEW f PROVE Append(<<e>>, f) = <<e, f>>
  <2> DEFINE a == Append(<<e>>, f)
             b == <<e, f>>
  <2>1. <<e>> \in Seq({e, f}) /\ Len(<<e>>) = 1 /\ <<e>>[1] = e
    OBVIOUS
  <2>2. a \in Seq({e, f}) /\ Len(a) = 2 /\ a[1] = e /\ a[2] = f
    BY <2>1
  <2>3. b \in Seq({e, f}) /\ Len(b) = 2 /\ b[1] = e /\ b[2] = f
    OBVIOUS
  <2> HIDE DEF a, b
  <2>4. a = [i \in 1..2 |-> a[i]] /\ b = [i \in 1..2 |-> b[i]]
    BY <2>2, <2>3
  <2>5. \A i \in 1..2 : a[i] = b[i]
    BY <2>2, <2>3
  <2>q. QED
    BY <2>4, <2>5 DEF a, b
<1>q. QED
  BY <1>1, <1>2, <1>3, <1>4

LEMMA Grows ==
  ASSUME NEW T, NEW s \in Seq(T), NEW x \in T
  PROVE  /\ Append(s, x) \in Seq(T) /\ Append(s, x) # <<>>
         /\ \A y : y \in Range(s) \/ y = x => y \in Range(Append(s, x))
<1>1. /\ Append(s, x) \in Seq(T) /\ Len(s) \in Nat /\ Len(Append(s, x)) = Len(s) + 1
      /\ DOMAIN s = 1..Len(s) /\ DOMAIN Append(s, x) = 1..(Len(s) + 1)
      /\ \A i \in 1..Len(s) : Append(s, x)[i] = s[i]
      /\ Append(s, x)[Len(s) + 1] = x
  OBVIOUS
<1>2. Append(s, x) # <<>>
  BY <1>1
<1>3. \A i \in DOMAIN s : i \in DOMAIN Append(s, x) /\ Append(s, x)[i] = s[i]
  BY <1>1
<1>4. Len(s) + 1 \in DOMAIN Append(s, x)
  BY <1>1
<1>q. QED
  BY <1>1, <1>2, <1>3, <1>4 DEF Range

LEMMA Shrinks ==
  ASSUME NEW T, NEW s \in Seq(T), s # <<>>
  PROVE  /\ Tail(s) \in Seq(T) /\ Head(s) \in T
         /\ \A y \in Range(s) : y = Head(s) \/ y \in Range(Tail(s))
<1>1. /\ Tail(s) \in Seq(T) /\ Head(s) \in T /\ Head(s) = s[1] /\ Len(s) \in Nat \ {0}
      /\ DOMAIN s = 1..Len(s) /\ DOMAIN Tail(s) = 1..(Len(s) - 1)
      /\ \A i \in 1..(Len(s) - 1) : Tail(s)[i] = s[i + 1]
  OBVIOUS
<1>2. ASSUME NEW i \in DOMAIN s, i # 1
      PROVE  i - 1 \in DOMAIN Tail(s) /\ Tail(s)[i - 1] = s[i]
  BY <1>1, <1>2
<1>q. QED
  BY <1>1, <1>2 DEF Range

LEMMA TakenOut ==
  ASSUME NEW T, NEW s \in Seq(T), NEW k \in DOMAIN s
  PROVE  RemoveAt(s, k) \in Seq(T) /\ s[k] \in T
<1>1. k \in 1..Len(s) /\ Len(s) \in Nat /\ s[k] \in T
  OBVIOUS
<1>2. SubSeq(s, 1, k - 1) \in Seq(T) /\ SubSeq(s, k + 1, Len(s)) \in Seq(T)
  BY <1>1
<1>q. QED
  BY <1>1, <1>2 DEF RemoveAt

-----------------------------------------------------------------------------
(* What cannot happen when there is nothing for it.                         *)
LEMMA IdleBridge ==
  ASSUME BridgeIdle
  PROVE  ~HandleX /\ ~Expire /\ ~Tick /\ \A p \in Apps : ~Converts(p) /\ ~HasNone(p)
BY DEF BridgeIdle, HandleX, OwnerChanges, LateAnswer, Refused, HaveTargets, HaveText, HaveImage,
       AsksItself, Answers, Next1, Expire, Tick, Converts, HasNone, Answered

(* With nothing queued, an event that ends no conversion begins none.       *)
LEMMA NothingBegins ==
  ASSUME NEW rest, NEW left, EndOfEvent(rest, left), ~waiting
  PROVE  xev' = rest /\ prop' = left /\ ~waiting' /\ UNCHANGED <<asks, fetch>>
BY DEF EndOfEvent, Conclude

LEMMA IdleLink ==
  ASSUME LinkIdle
  PROVE  ~HandleClient /\ ~ImageFromClient /\ ~HandleSession /\ ~ImageFromSession
<1>1. DOMAIN picsUp = {} /\ DOMAIN picsDown = {}
  BY DEF LinkIdle
<1>q. QED
  BY <1>1 DEF LinkIdle, HandleClient, TextFromClient, OfferFromClient, RequestFromClient, FromClient,
       ImageFromClient, HandleSession, TextFromSession, OfferFromSession, RequestFromSession,
       FromSession, ImageFromSession

LEMMA IdlePoll == ASSUME Polled PROVE ~Poll
BY DEF Polled, Poll

(* What happens without a person or a fault.                                *)
Moves ==
  \/ \E p \in Apps : Converts(p) \/ HasNone(p) \/ TakesOver(p)
  \/ HandleX \/ Expire \/ Tick \/ HandleClient \/ ImageFromClient
  \/ HandleSession \/ ImageFromSession \/ Poll

Phases == \/ Nothing
          \/ \E c \in Contents : Upward(c) \/ Held(c)
          \/ \E p \in Apps : Downward(p)

LEMMA NothingMoves ==
  ASSUME Nothing PROVE ~Moves
<1>1. \A p \in Apps : ~TakesOver(p)
  BY ClipboardAssumption DEF Nothing, TakesOver
<1>q. QED
  BY <1>1, IdleBridge, IdleLink, IdlePoll DEF Nothing, Moves

(* A copy of something new, with nothing on its way, begins to go across.   *)
LEMMA CopiedInSession ==
  ASSUME MemoryOK, NEW p \in Apps, SessionCopies(p), Calm'
  PROVE  MemoryOK' /\ Downward(p)'
<1>1. PICK S \in Copies : CopyOf(S) /\ OwnedBy(p, S)
  BY DEF SessionCopies
<1>2. S # {} /\ S \subseteq Contents
  BY DEF Copies
<1>3. /\ Rest /\ S \cap copied = {} /\ newest' = S /\ copied' = copied \cup S
  BY <1>1 DEF CopyOf, Calm
<1>4. /\ owner' = p /\ offered' = [offered EXCEPT ![p] = S] /\ xev' = Append(xev, OwnerEvent(p))
      /\ UNCHANGED <<asks, prop, fetch, waiting, owned, available, lastText, echo, linkVars, clientVars>>
  BY <1>1 DEF OwnedBy
<1>5. /\ xev = <<>> /\ fetch = None /\ ~waiting /\ \A q \in Apps : asks[q] = <<>>
      /\ LinkIdle /\ Polled
  BY <1>3 DEF Rest, Rising, LinkIdle, Polled
<1>6. xev' = <<OwnerEvent(p)>>
  BY <1>4, <1>5, Short
<1>7. DOMAIN offered' = Apps /\ offered'[p] = S
  BY <1>4 DEF MemoryOK
<1>8. MemoryOK'
  BY <1>2, <1>3, <1>4, <1>7 DEF MemoryOK, Remembered, clientVars
<1>9. \A t \in S \cap Texts : t # lastText' /\ t # echo'.received
  BY <1>2, <1>3, <1>4, ClipboardAssumption DEF MemoryOK, Remembered
<1>10. LinkIdle' /\ Polled'
  BY <1>4, <1>5 DEF LinkIdle, Polled, NewText, NewImage, linkVars, clientVars
<1>11. Announced(p, S)'
  BY <1>4, <1>5, <1>6, <1>9, <1>10 DEF Announced, News
<1>q. QED
  BY <1>2, <1>3, <1>4, <1>5, <1>7, <1>8, <1>10, <1>11 DEF Downward

LEMMA CopiedAtClient ==
  ASSUME MemoryOK, NEW c \in Contents, ClientCopies(c), Calm'
  PROVE  MemoryOK' /\ Upward(c)'
<1>1. /\ Rest /\ c \notin copied /\ newest' = {c} /\ copied' = copied \cup {c} /\ clip' = c
      /\ UNCHANGED <<xVars, fetchVars, owned, available, lastText, echo, linkVars, lastClip, lastImage, picture>>
  BY DEF ClientCopies, CopyOf, Calm
<1>2. BridgeIdle /\ LinkIdle
  BY <1>1 DEF Rest, Rising, LinkIdle, BridgeIdle
<1>3. BridgeIdle' /\ LinkIdle'
  BY <1>1, <1>2 DEF LinkIdle, BridgeIdle, linkVars, fetchVars
<1>4. MemoryOK'
  BY <1>1 DEF MemoryOK, Remembered, xVars, fetchVars
<1>5. c # lastClip /\ c # lastImage /\ c # echo.sent
  BY <1>1, ClipboardAssumption DEF MemoryOK, Remembered
<1>6. Found(c)'
  BY <1>1, <1>3, <1>5 DEF Found
<1>q. QED
  BY <1>1, <1>3, <1>4, <1>5, <1>6 DEF Upward

-----------------------------------------------------------------------------
(* On its way up: the bridge has nothing to do until it has it, and no      *)
(* program takes over what the bridge is about to lose.                     *)
LEMMA UpwardRises ==
  ASSUME NEW c \in Contents, Upward(c)
  PROVE  Rising
<1>1. c \in Texts \/ c \in Images
  BY DEF Contents
<1>2. CASE Found(c)
  BY <1>1, <1>2 DEF Found, Upward, Rising, NewText, NewImage
<1>3. CASE TextSent(c)
  BY <1>3, Short DEF TextSent, Rising
<1>4. CASE ImageOffered(c)
  <2>1. CASE toClient = <<Request>>
    <3>1. 1 \in DOMAIN <<Request>> /\ <<Request>>[1] = Request
      OBVIOUS
    <3>q. QED
      BY <2>1, <3>1 DEF Rising, Range
  <2>q. QED
    BY <1>4, <2>1, Short DEF ImageOffered, Rising
<1>q. QED
  BY <1>2, <1>3, <1>4 DEF Upward

(* The session takes what comes from the client (acquire).                  *)
LEMMA Acquired ==
  ASSUME NEW c \in Contents, Upward(c), Acquire(c), UNCHANGED <<newest, clip>>,
         LinkIdle', Polled', c \in Texts => lastText' = c
  PROVE  Held(c)'
<1>1. /\ newest' = {c} /\ clip' = c /\ xev = <<>> /\ \A p \in Apps : asks[p] = <<>>
  BY DEF Upward, BridgeIdle
<1>2. /\ owner' = Bridge /\ owned' = c /\ xev' = <<OwnerEvent(Bridge)>>
      /\ fetch' = None /\ ~waiting' /\ asks' = asks
  BY <1>1, Short DEF Acquire
<1>q. QED
  BY <1>1, <1>2 DEF Held

LEMMA UpwardMoves ==
  ASSUME MemoryOK, NEW c \in Contents, Upward(c), Moves, settled', UNCHANGED <<newest, copied>>
  PROVE  MemoryOK' /\ (Upward(c)' \/ Held(c)')
<1>1. /\ newest = {c} /\ clip = c /\ BridgeIdle /\ c # echo.sent /\ c \in copied
  BY DEF Upward, MemoryOK
<1>2. \A p \in Apps : ~TakesOver(p)
  BY UpwardRises DEF TakesOver
<1>3. HandleClient \/ ImageFromClient \/ HandleSession \/ ImageFromSession \/ Poll
  BY <1>1, <1>2, IdleBridge DEF Moves
<1>t. /\ c \in Texts => c \notin Images
      /\ c \in Images => c \notin Texts /\ c # Garbled
      /\ c \in Texts \/ c \in Images
  BY ClipboardAssumption DEF Contents
<1>4. CASE Found(c)
  <2>1. Poll
    BY <1>3, <1>4, IdleLink DEF Found
  <2>2. /\ toClient' = toClient
        /\ UNCHANGED <<xVars, fetchVars, owned, available, lastText, echo, people, picsDown, picsUp, clip>>
    BY <2>1 DEF Poll, Client
  <2>3. BridgeIdle'
    BY <1>1, <2>2 DEF BridgeIdle, fetchVars
  <2>4. CASE c \in Texts
    <3>1. toSession' = Append(toSession, Text(clip)) /\ lastClip' = clip /\ UNCHANGED lastImage
      BY <1>1, <1>4, <2>1, <2>4 DEF Poll, Found, NewText
    <3>2. toSession' = <<Text(c)>>
      BY <1>1, <1>4, <3>1, Short DEF Found, LinkIdle
    <3>3. TextSent(c)'
      BY <1>1, <1>4, <2>2, <2>4, <3>1, <3>2 DEF Found, LinkIdle, TextSent
    <3>4. MemoryOK'
      BY <1>1, <2>2, <3>1 DEF MemoryOK, Remembered, xVars, fetchVars
    <3>q. QED
      BY <1>1, <2>2, <2>3, <3>3, <3>4 DEF Upward
  <2>5. CASE c \in Images
    <3>1. /\ toSession' = Append(toSession, Offer({"png"})) /\ lastImage' = c /\ picture' = c
          /\ UNCHANGED lastClip
      BY <1>1, <1>t, <2>1, <2>5 DEF Poll, NewText
    <3>2. toSession' = <<Offer({"png"})>>
      BY <1>4, <3>1, Short DEF Found, LinkIdle
    <3>3. ImageOffered(c)'
      BY <1>1, <1>4, <2>2, <2>5, <3>1, <3>2 DEF Found, LinkIdle, ImageOffered
    <3>4. MemoryOK'
      BY <1>1, <2>2, <3>1 DEF MemoryOK, Remembered, xVars, fetchVars
    <3>q. QED
      BY <1>1, <2>2, <2>3, <3>3, <3>4 DEF Upward
  <2>q. QED
    BY <1>t, <2>4, <2>5
<1>5. CASE TextSent(c)
  <2>1. /\ toSession = <<Text(c)>> /\ Head(toSession) = Text(c) /\ Tail(toSession) = <<>>
        /\ toClient = <<>> /\ DOMAIN picsDown = {} /\ DOMAIN picsUp = {}
    BY <1>5, Short DEF TextSent
  <2>2. ~ImageFromClient /\ ~HandleSession /\ ~ImageFromSession /\ ~Poll
    BY <1>1, <1>5, <1>t, <2>1 DEF ImageFromClient, HandleSession, TextFromSession, OfferFromSession,
       RequestFromSession, FromSession, ImageFromSession, Poll, NewText, NewImage, TextSent
  <2>3. TextFromClient
    BY <1>3, <2>1, <2>2 DEF HandleClient, OfferFromClient, RequestFromClient, FromClient, Text
  <2>4. Head(toSession).text = c
    BY <2>1 DEF Text
  <2>5. /\ echo' = [sent |-> None, received |-> c] /\ lastText' = c /\ Acquire(c)
        /\ toSession' = <<>> /\ UNCHANGED <<toClient, picsDown, picsUp, clientVars>>
    BY <1>1, <2>1, <2>3, <2>4 DEF TextFromClient
  <2>6. LinkIdle' /\ Polled'
    BY <1>1, <1>5, <1>t, <2>5 DEF TextSent, LinkIdle, Polled, NewText, NewImage, clientVars
  <2>7. Held(c)'
    BY <2>5, <2>6, Acquired DEF clientVars
  <2>8. MemoryOK'
    BY <1>1, <2>5 DEF MemoryOK, Remembered, Acquire, clientVars
  <2>q. QED
    BY <2>7, <2>8
<1>6. CASE ImageOffered(c)
  <2>0. c \in Images /\ lastImage = c /\ picsDown = <<>> /\ ~Poll /\ ~ImageFromSession
    <3>1. DOMAIN picsDown = {}
      BY <1>6 DEF ImageOffered
    <3>q. QED
      BY <1>1, <1>6, <1>t, <3>1 DEF ImageOffered, Poll, NewText, NewImage, ImageFromSession
  <2>1. CASE picture = c /\ toSession = <<Offer({"png"})>> /\ toClient = <<>> /\ picsUp = <<>>
    <3>1. Head(toSession) = Offer({"png"}) /\ Tail(toSession) = <<>> /\ DOMAIN picsUp = {}
      BY <2>1, Short
    <3>2. ~ImageFromClient /\ ~HandleSession /\ ~TextFromClient /\ ~RequestFromClient
      BY <2>1, <3>1 DEF ImageFromClient, HandleSession, TextFromSession, OfferFromSession,
         RequestFromSession, FromSession, TextFromClient, RequestFromClient, FromClient, Offer
    <3>3. OfferFromClient
      BY <1>3, <2>0, <3>2 DEF HandleClient
    <3>4. /\ echo' = [echo EXCEPT !.received = None] /\ toSession' = <<>> /\ toClient' = <<Request>>
          /\ UNCHANGED <<xVars, fetchVars, owned, available, lastText, picsDown, picsUp, clientVars>>
      BY <2>1, <3>1, <3>3, Short DEF OfferFromClient
    <3>5. echo'.sent = echo.sent /\ echo'.received \in {echo.received, None}
      BY <3>4
    <3>6. ImageOffered(c)'
      BY <2>0, <2>1, <3>4 DEF ImageOffered, clientVars
    <3>7. MemoryOK'
      BY <3>4, <3>5 DEF MemoryOK, Remembered, clientVars, xVars, fetchVars
    <3>q. QED
      BY <1>1, <3>4, <3>5, <3>6, <3>7 DEF Upward, BridgeIdle, fetchVars, clientVars
  <2>2. CASE picture = c /\ toSession = <<>> /\ toClient = <<Request>> /\ picsUp = <<>>
    <3>1. Head(toClient) = Request /\ Tail(toClient) = <<>> /\ DOMAIN picsUp = {} /\ c # None
      BY <2>2, Short, ClipboardAssumption
    <3>2. ~ImageFromClient /\ ~HandleClient /\ ~TextFromSession /\ ~OfferFromSession
      BY <2>2, <3>1 DEF ImageFromClient, HandleClient, TextFromClient, OfferFromClient, RequestFromClient,
         FromClient, TextFromSession, OfferFromSession, FromSession, Request
    <3>3. RequestFromSession
      BY <1>3, <2>0, <3>2 DEF HandleSession
    <3>4. /\ picsUp' = <<c>> /\ toClient' = <<>>
          /\ UNCHANGED <<toSession, picsDown, clip, lastClip, lastImage>>
          /\ UNCHANGED <<xVars, fetchVars, owned, available, lastText, echo, people>>
      BY <2>2, <3>1, <3>3, Short DEF RequestFromSession, Client
    <3>5. ImageOffered(c)'
      BY <2>0, <2>2, <3>4 DEF ImageOffered
    <3>6. MemoryOK'
      BY <3>4 DEF MemoryOK, Remembered, xVars, fetchVars
    <3>q. QED
      BY <1>1, <3>4, <3>5, <3>6 DEF Upward, BridgeIdle, fetchVars
  <2>3. CASE toSession = <<>> /\ toClient = <<>> /\ picsUp = <<c>>
    <3>1. DOMAIN picsUp = {1} /\ picsUp[1] = c /\ picsUp \in Seq({c})
      BY <2>3
    <3>2. ~HandleClient /\ ~HandleSession
      BY <2>3 DEF HandleClient, TextFromClient, OfferFromClient, RequestFromClient,
         FromClient, HandleSession, TextFromSession, OfferFromSession, RequestFromSession, FromSession
    <3>3. ImageFromClient
      BY <1>3, <2>0, <3>2
    <3>4. /\ Acquire(c) /\ picsUp' = RemoveAt(picsUp, 1)
          /\ UNCHANGED <<lastText, echo, toClient, toSession, picsDown, clientVars>>
      BY <3>1, <3>3 DEF ImageFromClient
    <3>5. picsUp' = <<>>
      BY <2>3, <3>4 DEF RemoveAt
    <3>6. LinkIdle' /\ Polled'
      BY <1>1, <1>t, <2>0, <2>3, <3>4, <3>5 DEF LinkIdle, Polled, NewText, NewImage, clientVars
    <3>7. Held(c)'
      BY <1>t, <2>0, <3>4, <3>6, Acquired DEF clientVars
    <3>8. MemoryOK'
      BY <3>4 DEF MemoryOK, Remembered, Acquire, clientVars
    <3>q. QED
      BY <3>7, <3>8
  <2>q. QED
    BY <1>6, <2>1, <2>2, <2>3 DEF ImageOffered
<1>q. QED
  BY <1>4, <1>5, <1>6 DEF Upward

-----------------------------------------------------------------------------
(* The bridge has it, until a program takes over what it offers.            *)
LEMMA HeldMoves ==
  ASSUME MemoryOK, NEW c \in Contents, Held(c), Moves, UNCHANGED <<newest, copied>>
  PROVE  MemoryOK' /\ (Held(c)' \/ \E p \in Apps : Downward(p)')
<1>1. /\ newest = {c} /\ clip = c /\ Polled /\ LinkIdle /\ owner = Bridge /\ owned = c
      /\ fetch = None /\ ~waiting /\ \A p \in Apps : asks[p] = <<>>
      /\ xev \in {<<>>, <<OwnerEvent(Bridge)>>}
  BY DEF Held
<1>2. ~HandleClient /\ ~ImageFromClient /\ ~HandleSession /\ ~ImageFromSession /\ ~Poll
  BY <1>1, IdleLink, IdlePoll
<1>3. ~Expire /\ ~Tick /\ \A p \in Apps : ~Converts(p) /\ ~HasNone(p)
  BY <1>1 DEF Expire, Tick, Converts, HasNone, Answered
<1>4. CASE HandleX
  <2>1. /\ xev = <<OwnerEvent(Bridge)>> /\ Head(xev) = OwnerEvent(Bridge) /\ Tail(xev) = <<>>
        /\ Head(xev).type = "owner" /\ Head(xev).by = Bridge
    <3>1. xev # <<>>
      BY <1>4 DEF HandleX, OwnerChanges, LateAnswer, Refused, HaveTargets, HaveText, HaveImage,
         AsksItself, Answers, Next1
    <3>2. OwnerEvent(Bridge).type = "owner" /\ OwnerEvent(Bridge).by = Bridge
      BY DEF OwnerEvent
    <3>q. QED
      BY <1>1, <3>1, <3>2, Short
  <2>2. OwnerChanges
    BY <1>4, <2>1 DEF HandleX, LateAnswer, Refused, HaveTargets, HaveText, HaveImage, AsksItself,
       Answers, Next1
  <2>3. /\ xev' = <<>> /\ ~waiting' /\ UNCHANGED <<asks, prop, fetch, owned, available>>
        /\ UNCHANGED <<xVars, lastText, echo, linkVars, clientVars, people>>
    BY <1>1, <2>1, <2>2, NothingBegins DEF OwnerChanges
  <2>4. MemoryOK'
    BY <2>3 DEF MemoryOK, Remembered, xVars, clientVars
  <2>5. LinkIdle' /\ Polled'
    BY <1>1, <2>3 DEF LinkIdle, Polled, NewText, NewImage, linkVars, clientVars
  <2>6. Held(c)'
    BY <1>1, <2>3, <2>5 DEF Held, xVars, clientVars
  <2>q. QED
    BY <2>4, <2>6
<1>5. ASSUME NEW p \in Apps, TakesOver(p) PROVE MemoryOK' /\ Downward(p)'
  <2>1. /\ owner' = p /\ offered' = [offered EXCEPT ![p] = {c}] /\ xev' = Append(xev, OwnerEvent(p))
        /\ UNCHANGED <<asks, prop, fetch, waiting, owned, available, lastText, echo, linkVars, clientVars>>
    BY <1>1, <1>5 DEF TakesOver, OwnedBy
  <2>2. xev' \in {<<OwnerEvent(p)>>, <<OwnerEvent(Bridge), OwnerEvent(p)>>}
    BY <1>1, <2>1, Short
  <2>3. DOMAIN offered' = Apps /\ offered'[p] = {c}
    BY <2>1 DEF MemoryOK
  <2>4. MemoryOK'
    BY <2>1, <2>3 DEF MemoryOK, Remembered, clientVars
  <2>5. LinkIdle' /\ Polled'
    BY <1>1, <2>1 DEF LinkIdle, Polled, NewText, NewImage, linkVars, clientVars
  <2>6. News({c})'
    BY <1>1, <2>1 DEF News, clientVars
  <2>7. Announced(p, {c})'
    BY <1>1, <2>1, <2>2, <2>5, <2>6 DEF Announced
  <2>q. QED
    BY <1>1, <2>1, <2>3, <2>4, <2>5, <2>7 DEF Downward
<1>q. QED
  BY <1>2, <1>3, <1>4, <1>5 DEF Moves

-----------------------------------------------------------------------------
(* On its way down. A conversion is asked of the program that has the copy. *)
LEMMA Converted ==
  ASSUME NEW p \in Apps, NEW S, owner = p, offered[p] = S, asks[p] = <<>>, NEW x, Convert(x, <<>>)
  PROVE  /\ InFlight(p, S, x)' /\ DOMAIN asks' = Apps
         /\ \A q \in Apps \ {p} : asks'[q] = asks[q]
<1>1. p # Bridge /\ p # None
  BY ClipboardAssumption
<1>2. /\ fetch' = x /\ xev' = <<>> \o <<>>
      /\ asks' = [q \in Apps |-> IF q = owner
                                 THEN Append(asks[q], [target |-> x, what |-> offered[q]])
                                 ELSE asks[q]]
  BY <1>1 DEF Convert
<1>3. xev' = <<>>
  BY <1>2
<1>4. asks'[p] = <<[target |-> x, what |-> S]>>
  BY <1>2, Short
<1>q. QED
  BY <1>2, <1>3, <1>4 DEF InFlight

(* The program answers. It has what it is asked for, though it may not know *)
(* it by the name of UTF8_STRING.                                           *)
LEMMA ProgramAnswers ==
  ASSUME NEW p \in Apps, NEW S, NEW x \in Targets, DOMAIN asks = Apps, InFlight(p, S, x),
         Part(S, x) # {}, Converts(p) \/ HasNone(p)
  PROVE  /\ InFlight(p, S, x)' /\ DOMAIN asks' = Apps
         /\ \A q \in Apps \ {p} : asks'[q] = asks[q]
         /\ UNCHANGED <<xVars, fetch, waiting, owned, available, lastText, echo, linkVars, clientVars>>
<1> DEFINE ask == [target |-> x, what |-> S]
<1>1. Answered(p)
  BY DEF Converts, HasNone, Refuses
<1>2. asks[p] = <<ask>> /\ xev = <<>> /\ fetch = x
  BY <1>1 DEF InFlight, Answered
<1>3. Head(asks[p]) = ask /\ Tail(asks[p]) = <<>> /\ ask.target = x /\ ask.what = S
  BY <1>2, Short
<1>4. /\ asks'[p] = <<>> /\ DOMAIN asks' = Apps /\ \A q \in Apps \ {p} : asks'[q] = asks[q]
      /\ UNCHANGED <<xVars, fetch, waiting, owned, available, lastText, echo, linkVars, clientVars>>
  BY <1>1, <1>3 DEF Answered
<1> HIDE DEF ask
<1>5. CASE Converts(p)
  <2>1. prop' = [target |-> x, what |-> Part(S, x)] /\ xev' = Append(xev, Notify(x, TRUE))
    BY <1>3, <1>5 DEF Converts, Part
  <2>2. xev' = <<Notify(x, TRUE)>>
    BY <1>2, <2>1, Short
  <2>q. QED
    BY <1>2, <1>4, <2>1, <2>2 DEF InFlight
<1>6. CASE HasNone(p)
  <2>1. x = "utf8"
    BY <1>3, <1>6 DEF HasNone, Part
  <2>2. xev' = <<Notify(x, FALSE)>>
    BY <1>2, <1>3, <1>6, Short DEF HasNone, Refuses
  <2>q. QED
    BY <1>2, <1>4, <2>1, <2>2 DEF InFlight
<1>q. QED
  BY <1>5, <1>6

(* Somebody will answer, so that to give up is a fault.                     *)
LEMMA NeverExpires ==
  ASSUME NEW p \in Apps, NEW S, NEW x, InFlight(p, S, x), Expire
  PROVE  settled' = FALSE
<1>1. Answerable
  <2>1. CASE asks[p] = <<[target |-> x, what |-> S]>>
    <3>1. 1 \in DOMAIN asks[p] /\ asks[p][1].target = fetch
      BY <2>1 DEF InFlight
    <3>q. QED
      BY <3>1 DEF Answerable
  <2>2. ASSUME NEW ok \in BOOLEAN, xev = <<Notify(x, ok)>> PROVE Answerable
    <3>1. 1 \in DOMAIN xev /\ xev[1].type # "owner" /\ xev[1].target = fetch
      BY <2>2 DEF InFlight, Notify
    <3>q. QED
      BY <3>1 DEF Answerable
  <2>q. QED
    BY <2>1, <2>2 DEF InFlight
<1>q. QED
  BY <1>1 DEF Expire, Fault

(* The bridge reads the answer, and nothing else.                           *)
LEMMA ReadsAnswer ==
  ASSUME NEW p \in Apps, NEW S, NEW x, InFlight(p, S, x), HandleX
  PROVE  /\ asks[p] = <<>> /\ Tail(xev) = <<>>
         /\ \/ x = "utf8" /\ Refused
            \/ /\ prop = [target |-> x, what |-> Part(S, x)]
               /\ \/ x = "targets" /\ HaveTargets
                  \/ x \in TextTargets /\ HaveText
                  \/ x = "png" /\ HaveImage
<1>1. xev # <<>>
  BY DEF HandleX, OwnerChanges, LateAnswer, Refused, HaveTargets, HaveText, HaveImage, AsksItself,
     Answers, Next1
<1>2. PICK ok \in BOOLEAN : /\ asks[p] = <<>> /\ xev = <<Notify(x, ok)>>
                            /\ ok => prop = [target |-> x, what |-> Part(S, x)]
                            /\ ~ok => x = "utf8"
  BY <1>1 DEF InFlight
<1>3. /\ Head(xev) = Notify(x, ok) /\ Tail(xev) = <<>> /\ fetch = x
      /\ Notify(x, ok).type = "notify" /\ Notify(x, ok).target = x /\ Notify(x, ok).ok = ok
  BY <1>2, Short DEF InFlight, Notify
<1>4. ~OwnerChanges /\ ~LateAnswer /\ ~AsksItself
  BY <1>3 DEF OwnerChanges, LateAnswer, AsksItself, Next1
<1>5. Refused => ~ok
  BY <1>3 DEF Refused, Answers
<1>6. HaveTargets => ok /\ x = "targets"
  BY <1>3 DEF HaveTargets, Answers
<1>7. HaveText => ok /\ x \in TextTargets
  BY <1>3 DEF HaveText, Answers
<1>8. HaveImage => ok /\ x = "png"
  BY <1>3 DEF HaveImage, Answers
<1>q. QED
  BY <1>2, <1>3, <1>4, <1>5, <1>6, <1>7, <1>8 DEF HandleX

-----------------------------------------------------------------------------
(* What a copy offers.                                                      *)
LEMMA KindsOf ==
  ASSUME NEW S \in SUBSET Contents
  PROVE  /\ "png" \in Kinds(S) <=> S \cap Images # {}
         /\ "text" \in Kinds(S) <=> S \cap Texts # {}
         /\ S # {} => Kinds(S) # {}
<1>1. \A c \in S : /\ c \in Images => Kind(c) = "png" /\ c \notin Texts
                   /\ c \notin Images => Kind(c) = "text" /\ c \in Texts
  BY ClipboardAssumption DEF Kind, Contents
<1>q. QED
  BY <1>1 DEF Kinds

(* The announcement is read; the bridge's own is passed over.               *)
LEMMA AnnouncedMoves ==
  ASSUME MemoryOK, NEW p \in Apps, Downward(p), NEW S, newest = S, Announced(p, S), Moves,
         UNCHANGED <<newest, copied>>
  PROVE  MemoryOK' /\ Downward(p)'
<1>1. /\ owner = p /\ S # {} /\ offered[p] = S /\ Polled /\ \A q \in Apps : asks[q] = <<>>
      /\ fetch = None /\ ~waiting /\ LinkIdle /\ News(S) /\ p # Bridge /\ p # None
      /\ xev \in {<<OwnerEvent(p)>>, <<OwnerEvent(Bridge), OwnerEvent(p)>>}
  BY ClipboardAssumption DEF Downward, Announced
<1>2. HandleX
  <2>1. ~Expire /\ ~Tick /\ \A q \in Apps : ~Converts(q) /\ ~HasNone(q) /\ ~TakesOver(q)
    BY <1>1 DEF Expire, Tick, Converts, HasNone, Answered, TakesOver
  <2>q. QED
    BY <1>1, <2>1, IdleLink, IdlePoll DEF Moves
<1>3. /\ \/ Head(xev) = OwnerEvent(p) /\ Tail(xev) = <<>>
         \/ Head(xev) = OwnerEvent(Bridge) /\ Tail(xev) = <<OwnerEvent(p)>>
      /\ \A w : OwnerEvent(w).type = "owner" /\ OwnerEvent(w).by = w
  BY <1>1, Short DEF OwnerEvent
<1>4. OwnerChanges
  BY <1>2, <1>3 DEF HandleX, LateAnswer, Refused, HaveTargets, HaveText, HaveImage, AsksItself,
     Answers, Next1
<1>5. UNCHANGED <<xVars, lastText, echo, linkVars, clientVars, people>>
  BY <1>4 DEF OwnerChanges
<1>6. LinkIdle' /\ Polled' /\ News(S)'
  BY <1>1, <1>5 DEF LinkIdle, Polled, NewText, NewImage, News, linkVars, clientVars
<1>7. CASE Head(xev) = OwnerEvent(Bridge) /\ Tail(xev) = <<OwnerEvent(p)>>
  <2>1. xev' = <<OwnerEvent(p)>> /\ ~waiting' /\ UNCHANGED <<asks, prop, fetch, owned, available>>
    BY <1>1, <1>3, <1>4, <1>7, NothingBegins DEF OwnerChanges
  <2>2. Announced(p, S)'
    BY <1>1, <1>6, <2>1 DEF Announced
  <2>3. MemoryOK'
    BY <1>5, <2>1 DEF MemoryOK, Remembered, xVars, clientVars
  <2>q. QED
    BY <1>1, <1>5, <1>6, <2>1, <2>2, <2>3 DEF Downward, xVars
<1>8. CASE Head(xev) = OwnerEvent(p) /\ Tail(xev) = <<>>
  <2>0. Head(xev).by = p
    BY <1>3, <1>8
  <2>1. owned' = None /\ waiting' = FALSE /\ Convert("targets", <<>>)
    <3>1. owned' = None /\ waiting' = FALSE /\ Convert("targets", Tail(xev))
      BY <1>1, <1>4, <2>0 DEF OwnerChanges
    <3>q. QED
      BY <1>8, <3>1
  <2>2. InFlight(p, S, "targets")' /\ DOMAIN asks' = Apps /\ \A q \in Apps \ {p} : asks'[q] = asks[q]
    BY <1>1, <2>1, Converted
  <2>3. Streams(S)'
    BY <1>6 DEF LinkIdle, Streams
  <2>4. Fetching(p, S)'
    BY <1>6, <2>1, <2>2, <2>3 DEF Fetching, AsksWhat
  <2>5. MemoryOK'
    BY <1>5, <2>2 DEF MemoryOK, Remembered, xVars, clientVars
  <2>q. QED
    BY <1>1, <1>5, <1>6, <2>2, <2>4, <2>5 DEF Downward, xVars
<1>q. QED
  BY <1>3, <1>7, <1>8

(* What the client takes from the stream it has, or asks for, or the image  *)
(* comes for still.                                                         *)
LEMMA Delivered ==
  ASSUME MemoryOK, NEW p \in Apps, Downward(p), NEW S, newest = S, Fetching(p, S),
         HandleSession \/ ImageFromSession, UNCHANGED <<newest, copied>>
  PROVE  MemoryOK' /\ Downward(p)'
<1>1. /\ owner = p /\ S # {} /\ offered[p] = S /\ Polled /\ \A q \in Apps \ {p} : asks[q] = <<>>
      /\ owned = None /\ Streams(S) /\ S \subseteq copied /\ S \subseteq Contents
  BY DEF Downward, Fetching, MemoryOK
<1>2. /\ AsksText(p, S) \/ AsksNoMore(p, S)
      /\ ImageComes(S)
  BY IdleLink DEF Fetching, AsksWhat, AsksText, AsksNoMore
<1>r. ~RequestFromSession
  <2>1. ASSUME toClient # <<>> PROVE Head(toClient).type # "request"
    <3>1. Head(toClient) \in {Offer(Kinds(S))} \cup {Text(t) : t \in S \cap Texts}
      BY <1>1, <2>1, Shrinks DEF Streams
    <3>q. QED
      BY <3>1 DEF Offer, Text
  <2>q. QED
    BY <2>1 DEF RequestFromSession, FromSession
<1>3. /\ UNCHANGED <<xVars, fetchVars, owned, available, lastText, echo, people>>
      /\ UNCHANGED picsUp
  BY <1>r DEF HandleSession, TextFromSession, OfferFromSession, ImageFromSession, Client
(* It is enough that what comes is of the copy, and all that is to come is. *)
<1>4. SUFFICES /\ Streams(S)' /\ ImageComes(S)' /\ Polled'
               /\ News(S) => News(S)'
               /\ TextCame(S) => TextCame(S)'
               /\ Remembered(lastClip)' /\ Remembered(lastImage)'
  <2>1. \A x : InFlight(p, S, x) => InFlight(p, S, x)'
    BY <1>3 DEF InFlight, fetchVars
  <2>2. AsksText(p, S) => News(S)' /\ AsksText(p, S)'
    BY <1>3, <1>4, <2>1 DEF AsksText, fetchVars
  <2>3. AsksNoMore(p, S) => AsksNoMore(p, S)'
    BY <1>3, <1>4, <2>1 DEF AsksNoMore, fetchVars
  <2>4. Fetching(p, S)'
    BY <1>1, <1>2, <1>3, <1>4, <2>2, <2>3 DEF Fetching
  <2>5. MemoryOK'
    BY <1>3, <1>4 DEF MemoryOK, Remembered, xVars, fetchVars
  <2>q. QED
    BY <1>1, <1>3, <1>4, <2>4, <2>5 DEF Downward, xVars, fetchVars
<1>5. ASSUME clip' \in S, Streams(S)', Polled', Remembered(lastClip)', Remembered(lastImage)'
      PROVE  /\ Streams(S)' /\ ImageComes(S)' /\ Polled'
             /\ News(S) => News(S)'
             /\ TextCame(S) => TextCame(S)'
             /\ Remembered(lastClip)' /\ Remembered(lastImage)'
  BY <1>5 DEF ImageComes, News, TextCame
<1>6. CASE TextFromSession
  <2>1. /\ toClient # <<>> /\ Head(toClient).type = "text" /\ clip' = Head(toClient).text
        /\ lastClip' = clip' /\ toClient' = Tail(toClient)
        /\ UNCHANGED <<toSession, picsDown, picsUp, lastImage, picture>>
    BY <1>6 DEF TextFromSession, FromSession, Client
  <2>2. /\ Head(toClient) \in {Offer(Kinds(S))} \cup {Text(t) : t \in S \cap Texts}
        /\ toClient' \in Seq({Offer(Kinds(S))} \cup {Text(t) : t \in S \cap Texts})
    BY <1>1, <2>1, Shrinks DEF Streams
  <2>3. clip' \in S \cap Texts
    BY <2>1, <2>2 DEF Offer, Text
  <2>4. Streams(S)'
    BY <1>1, <2>1, <2>2 DEF Streams
  <2>5. Polled'
    BY <2>1, <2>3, ClipboardAssumption DEF Polled, NewText, NewImage
  <2>6. Remembered(lastClip)' /\ Remembered(lastImage)'
    BY <1>1, <1>3, <2>1, <2>3 DEF MemoryOK, Remembered, people
  <2>q. QED
    BY <1>5, <2>3, <2>4, <2>5, <2>6
<1>7. CASE OfferFromSession
  <2>1. /\ toClient # <<>> /\ Head(toClient).type = "offer" /\ toClient' = Tail(toClient)
        /\ toSession' = IF "png" \in Head(toClient).kinds THEN Append(toSession, Request) ELSE toSession
        /\ UNCHANGED <<picsDown, picsUp, clientVars>>
    BY <1>7 DEF OfferFromSession, FromSession, Client
  <2>2. /\ Head(toClient) \in {Offer(Kinds(S))} \cup {Text(t) : t \in S \cap Texts}
        /\ toClient' \in Seq({Offer(Kinds(S))} \cup {Text(t) : t \in S \cap Texts})
        /\ \A m \in Range(toClient) : m = Head(toClient) \/ m \in Range(toClient')
    BY <1>1, <2>1, Shrinks DEF Streams
  <2>3. Head(toClient) = Offer(Kinds(S)) /\ Head(toClient).kinds = Kinds(S)
    BY <2>1, <2>2 DEF Offer, Text
  <2>4. toSession' = IF S \cap Images # {} THEN Append(toSession, Request) ELSE toSession
    BY <1>1, <2>1, <2>3, KindsOf
  <2>5. /\ toSession' \in Seq({Request}) /\ (toSession' # <<>> => S \cap Images # {})
        /\ S \cap Images # {} => Request \in Range(toSession')
    <3>1. /\ Append(toSession, Request) \in Seq({Request})
          /\ Request \in Range(Append(toSession, Request))
      BY <1>1, Grows DEF Streams
    <3>q. QED
      BY <1>1, <2>4, <3>1 DEF Streams
  <2>6. Streams(S)'
    BY <1>1, <2>1, <2>2, <2>5 DEF Streams
  <2>7. ImageComes(S)'
    BY <2>5 DEF ImageComes
  <2>8. \A t : Text(t) # Head(toClient)
    BY <2>3 DEF Offer, Text
  <2>9. TextCame(S) => TextCame(S)'
    BY <2>1, <2>2, <2>8 DEF TextCame, clientVars
  <2>10. News(S) => News(S)'
    BY <1>3, <2>1 DEF News, clientVars
  <2>11. Polled' /\ Remembered(lastClip)' /\ Remembered(lastImage)'
    BY <1>1, <2>1 DEF Polled, NewText, NewImage, clientVars, MemoryOK, Remembered
  <2>q. QED
    BY <2>6, <2>7, <2>9, <2>10, <2>11
<1>8. CASE ImageFromSession
  <2>1. PICK k \in DOMAIN picsDown :
          /\ clip' = picsDown[k] /\ lastImage' = picsDown[k] /\ picsDown' = RemoveAt(picsDown, k)
          /\ toClient' = toClient /\ UNCHANGED <<toSession, picsUp, lastClip, picture>>
    BY <1>8 DEF ImageFromSession, Client
  <2>2. picsDown' \in Seq(S \cap Images) /\ clip' \in S \cap Images
    BY <1>1, <2>1, TakenOut DEF Streams
  <2>3. Streams(S)'
    BY <1>1, <2>1, <2>2 DEF Streams
  <2>4. Polled'
    BY <1>1, <2>1, <2>2, ClipboardAssumption DEF Polled, NewText, NewImage, Contents
  <2>5. Remembered(lastClip)' /\ Remembered(lastImage)'
    BY <1>1, <1>3, <2>1, <2>2 DEF MemoryOK, Remembered, people
  <2>q. QED
    BY <1>5, <2>2, <2>3, <2>4, <2>5
<1>q. QED
  BY <1>r, <1>6, <1>7, <1>8 DEF HandleSession

(* The bridge has been told what there is: it asks for the text, if any.    *)
LEMMA KnowsWhat ==
  ASSUME MemoryOK, NEW p \in Apps, Downward(p), NEW S, newest = S, Fetching(p, S), AsksWhat(p, S),
         HaveTargets, prop = [target |-> "targets", what |-> S], asks[p] = <<>>, Tail(xev) = <<>>
  PROVE  MemoryOK' /\ Fetching(p, S)' /\ \A q \in Apps \ {p} : asks'[q] = asks[q]
<1>1. /\ owner = p /\ S # {} /\ offered[p] = S /\ S \in SUBSET Contents /\ owned = None
      /\ LinkIdle /\ ~waiting /\ News(S)
  BY DEF Downward, Fetching, MemoryOK, AsksWhat
<1>2. /\ "png" \in Kinds(S) <=> S \cap Images # {}
      /\ "text" \in Kinds(S) <=> S \cap Texts # {}
      /\ Kinds(S) # {}
  BY <1>1, KindsOf
<1>3. prop # None
  BY <1>1, ClipboardAssumption DEF Targets
<1>4. /\ available' = Kinds(S) /\ toClient' = Append(toClient, Offer(Kinds(S)))
      /\ IF "text" \in Kinds(S) THEN Convert("utf8", Tail(xev)) /\ UNCHANGED waiting
         ELSE Conclude(Kinds(S), Tail(xev), None)
      /\ echo' = [echo EXCEPT !.sent = None]
      /\ UNCHANGED <<xVars, owned, lastText, toSession, picsDown, picsUp, clientVars, people>>
  BY <1>2, <1>3 DEF HaveTargets, ReadTargets
<1>5. echo'.sent \in {echo.sent, None} /\ echo'.received = echo.received
  BY <1>4
<1>6. toClient' = <<Offer(Kinds(S))>>
  BY <1>1, <1>4, Short DEF LinkIdle
<1>7. Streams(S)' /\ Offer(Kinds(S)) \in Range(toClient')
  <2>1. 1 \in DOMAIN <<Offer(Kinds(S))>> /\ <<Offer(Kinds(S))>>[1] = Offer(Kinds(S))
    OBVIOUS
  <2>2. <<Offer(Kinds(S))>> \in Seq({Offer(Kinds(S))} \cup {Text(t) : t \in S \cap Texts})
    OBVIOUS
  <2>q. QED
    BY <1>1, <1>4, <1>6, <2>1, <2>2 DEF LinkIdle, Streams, Range
<1>8. News(S)' /\ ImageComes(S)'
  BY <1>1, <1>4, <1>5, <1>7 DEF News, ImageComes, clientVars
<1>9. CASE S \cap Texts # {}
  <2>1. Convert("utf8", <<>>) /\ UNCHANGED waiting
    BY <1>2, <1>4, <1>9
  <2>2. InFlight(p, S, "utf8")' /\ DOMAIN asks' = Apps /\ \A q \in Apps \ {p} : asks'[q] = asks[q]
    BY <1>1, <2>1, Converted
  <2>3. AsksText(p, S)'
    BY <1>4, <1>8, <1>9, <2>2 DEF AsksText
  <2>4. MemoryOK'
    BY <1>4, <1>5, <2>2 DEF MemoryOK, Remembered, xVars, clientVars, people
  <2>q. QED
    BY <1>1, <1>4, <1>7, <2>2, <2>3, <2>4 DEF Fetching
<1>10. CASE S \cap Texts = {}
  <2>1. Conclude(Kinds(S), <<>>, None)
    BY <1>2, <1>4, <1>10
  <2>2. waiting' = FALSE /\ fetch' = None /\ xev' = <<>> /\ UNCHANGED asks
    BY <1>1, <2>1 DEF Conclude
  <2>3. AsksNoMore(p, S)'
    BY <1>4, <1>8, <1>10, <2>2 DEF AsksNoMore, TextCame
  <2>4. MemoryOK'
    BY <1>4, <1>5, <2>2 DEF MemoryOK, Remembered, xVars, clientVars, people
  <2>q. QED
    BY <1>1, <1>4, <1>7, <2>2, <2>3, <2>4 DEF Fetching
<1>q. QED
  BY <1>9, <1>10

(* A program that does not know UTF8_STRING is asked for STRING.            *)
LEMMA AsksAgain ==
  ASSUME MemoryOK, NEW p \in Apps, Downward(p), NEW S, newest = S, Fetching(p, S), AsksText(p, S),
         Refused, fetch = "utf8", asks[p] = <<>>, Tail(xev) = <<>>
  PROVE  MemoryOK' /\ Fetching(p, S)' /\ \A q \in Apps \ {p} : asks'[q] = asks[q]
<1>1. /\ owner = p /\ offered[p] = S /\ owned = None /\ Streams(S)
      /\ S \cap Texts # {} /\ available = Kinds(S) /\ News(S) /\ ImageComes(S)
  BY DEF Downward, Fetching, AsksText
<1>2. /\ Convert("string", Tail(xev)) /\ UNCHANGED waiting
      /\ UNCHANGED <<xVars, owned, available, lastText, echo, linkVars, clientVars, people>>
  BY DEF Refused
<1>3. Convert("string", <<>>)
  BY <1>2
<1>4. InFlight(p, S, "string")' /\ DOMAIN asks' = Apps /\ \A q \in Apps \ {p} : asks'[q] = asks[q]
  BY <1>1, <1>3, Converted
<1>5. Streams(S)' /\ News(S)' /\ ImageComes(S)'
  BY <1>1, <1>2 DEF Streams, News, ImageComes, linkVars, clientVars
<1>6. AsksText(p, S)'
  BY <1>1, <1>2, <1>4, <1>5 DEF AsksText
<1>7. MemoryOK'
  BY <1>2, <1>4 DEF MemoryOK, Remembered, xVars, clientVars, people
<1>q. QED
  BY <1>1, <1>2, <1>4, <1>5, <1>6, <1>7 DEF Fetching

(* The text goes to the client unless it has it; the image is next, if it   *)
(* has been asked for.                                                      *)
LEMMA TextRead ==
  ASSUME MemoryOK, NEW p \in Apps, Downward(p), NEW S, newest = S, Fetching(p, S), AsksText(p, S),
         HaveText, NEW x \in TextTargets, fetch = x, prop = [target |-> x, what |-> Part(S, x)],
         asks[p] = <<>>, Tail(xev) = <<>>
  PROVE  MemoryOK' /\ Fetching(p, S)' /\ \A q \in Apps \ {p} : asks'[q] = asks[q]
<1>1. /\ owner = p /\ offered[p] = S /\ owned = None /\ Streams(S) /\ S \in SUBSET Contents
      /\ S \cap Texts # {} /\ available = Kinds(S) /\ News(S) /\ ImageComes(S) /\ S \subseteq copied
  BY DEF Downward, Fetching, AsksText, MemoryOK
<1>2. "png" \in Kinds(S) <=> S \cap Images # {}
  BY <1>1, KindsOf
<1>3. Part(S, x) = S \cap Texts /\ x \in Targets /\ x # "png"
  BY DEF Part, TextTargets, Targets
<1>4. prop # None /\ prop.target = x /\ prop.what = S \cap Texts
  BY <1>1, <1>3, ClipboardAssumption
<1>5. PICK t \in S \cap Texts : Reported(t)
  <2>1. (CHOOSE t \in prop.what : TRUE) \in S \cap Texts
    BY <1>1, <1>4
  <2>2. Reported(CHOOSE t \in prop.what : TRUE)
    BY <1>4 DEF HaveText, ReadText
  <2>q. QED
    BY <2>1, <2>2
<1>6. /\ Conclude(available, Tail(xev), None)
      /\ UNCHANGED <<xVars, owned, available, toSession, picsDown, picsUp, clientVars, people>>
  BY DEF HaveText
<1>7. /\ lastText' \in {lastText, t} /\ echo'.sent \in {echo.sent, t}
      /\ echo'.received \in {echo.received, None}
      /\ toClient' = toClient \/ toClient' = Append(toClient, Text(t))
      /\ t # lastText /\ t # echo.received => toClient' = Append(toClient, Text(t))
  <2>1. CASE t = lastText \/ t = echo.received
    BY <1>5, <2>1 DEF Reported
  <2>2. CASE t # lastText /\ t # echo.received
    BY <1>5, <2>2 DEF Reported
  <2>q. QED
    BY <2>1, <2>2
<1>8. /\ Append(toClient, Text(t)) \in Seq({Offer(Kinds(S))} \cup {Text(u) : u \in S \cap Texts})
      /\ Text(t) \in Range(Append(toClient, Text(t)))
      /\ \A m \in Range(toClient) : m \in Range(Append(toClient, Text(t)))
  BY <1>1, Grows DEF Streams
<1>9. Streams(S)'
  BY <1>1, <1>6, <1>7, <1>8 DEF Streams
<1>10. TextCame(S)'
  BY <1>1, <1>6, <1>7, <1>8 DEF TextCame, News, clientVars
<1>11. CASE waiting /\ "png" \in available
  <2>1. waiting' = FALSE /\ Convert("png", <<>>)
    BY <1>6, <1>11 DEF Conclude
  <2>2. InFlight(p, S, "png")' /\ DOMAIN asks' = Apps /\ \A q \in Apps \ {p} : asks'[q] = asks[q]
    BY <1>1, <2>1, Converted
  <2>3. ImageComes(S)'
    BY <2>2 DEF ImageComes, InFlight
  <2>4. AsksNoMore(p, S)'
    BY <1>1, <1>2, <1>6, <1>10, <1>11, <2>1, <2>2, <2>3 DEF AsksNoMore
  <2>5. MemoryOK'
    BY <1>1, <1>6, <1>7, <2>2 DEF MemoryOK, Remembered, xVars, clientVars, people
  <2>q. QED
    BY <1>1, <1>6, <1>9, <2>2, <2>4, <2>5 DEF Fetching
<1>12. CASE ~(waiting /\ "png" \in available)
  <2>1. waiting' = FALSE /\ fetch' = None /\ xev' = <<>> /\ UNCHANGED asks
    BY <1>6, <1>12 DEF Conclude
  <2>2. ImageComes(S)'
    BY <1>1, <1>2, <1>3, <1>6, <1>7, <1>8, <1>12 DEF ImageComes, clientVars
  <2>3. AsksNoMore(p, S)'
    BY <1>1, <1>6, <1>10, <2>1, <2>2 DEF AsksNoMore
  <2>4. MemoryOK'
    BY <1>1, <1>6, <1>7, <2>1 DEF MemoryOK, Remembered, xVars, clientVars, people
  <2>q. QED
    BY <1>1, <1>6, <1>9, <2>1, <2>3, <2>4 DEF Fetching
<1>q. QED
  BY <1>11, <1>12

(* The image goes to the client.                                            *)
LEMMA ImageRead ==
  ASSUME MemoryOK, NEW p \in Apps, Downward(p), NEW S, newest = S, Fetching(p, S), AsksNoMore(p, S),
         HaveImage, S \cap Images # {}, prop = [target |-> "png", what |-> Part(S, "png")],
         asks[p] = <<>>, Tail(xev) = <<>>
  PROVE  MemoryOK' /\ Fetching(p, S)' /\ \A q \in Apps \ {p} : asks'[q] = asks[q]
<1>1. /\ owned = None /\ Streams(S) /\ S \in SUBSET Contents /\ ~waiting
      /\ available = Kinds(S) /\ TextCame(S)
  BY DEF Downward, Fetching, AsksNoMore, MemoryOK
<1>2. Part(S, "png") = S \cap Images /\ "png" \in Targets
  BY DEF Part, Targets
<1>3. prop # None /\ prop.target = "png" /\ prop.what = S \cap Images
  BY <1>1, <1>2, ClipboardAssumption
<1>4. PICK i \in S \cap Images : picsDown' = Append(picsDown, i)
  BY <1>3 DEF HaveImage
<1>5. /\ waiting' = FALSE /\ fetch' = None /\ xev' = <<>> /\ UNCHANGED asks
      /\ UNCHANGED <<xVars, owned, available, lastText, echo, toClient, toSession, picsUp, clientVars,
                     people>>
  BY <1>1 DEF HaveImage, Conclude
<1>6. picsDown' \in Seq(S \cap Images) /\ picsDown' # <<>>
  BY <1>1, <1>4, Grows DEF Streams
<1>7. Streams(S)' /\ ImageComes(S)' /\ TextCame(S)'
  BY <1>1, <1>5, <1>6 DEF Streams, ImageComes, TextCame, clientVars
<1>8. AsksNoMore(p, S)'
  BY <1>1, <1>5, <1>7 DEF AsksNoMore
<1>9. MemoryOK'
  BY <1>5 DEF MemoryOK, Remembered, xVars, clientVars, people
<1>q. QED
  BY <1>1, <1>5, <1>7, <1>8, <1>9 DEF Fetching

(* The client asks for the image it has been offered: at once, behind the   *)
(* conversion of the text, or again.                                        *)
LEMMA ImageAskedFor ==
  ASSUME MemoryOK, NEW p \in Apps, Downward(p), NEW S, newest = S, Fetching(p, S), HandleClient
  PROVE  MemoryOK' /\ Fetching(p, S)' /\ \A q \in Apps \ {p} : asks'[q] = asks[q]
<1>1. /\ owner = p /\ offered[p] = S /\ owned = None /\ Streams(S) /\ S \in SUBSET Contents
      /\ AsksText(p, S) \/ AsksNoMore(p, S)
      /\ toSession # <<>>
  BY IdleLink DEF Downward, Fetching, AsksWhat, MemoryOK, HandleClient, TextFromClient,
     OfferFromClient, RequestFromClient, FromClient
<1>2. RequestFromClient
  <2>1. Head(toSession) = Request
    BY <1>1, Shrinks DEF Streams
  <2>q. QED
    BY <2>1 DEF HandleClient, TextFromClient, OfferFromClient, FromClient, Request
<1>3. S \cap Images # {} /\ "png" \in available
  BY <1>1, KindsOf DEF Streams, AsksText, AsksNoMore
<1>4. /\ toSession' = Tail(toSession)
      /\ UNCHANGED <<xVars, owned, available, lastText, echo, toClient, picsDown, picsUp, clientVars,
                     people>>
  BY <1>2 DEF RequestFromClient
<1>5. Streams(S)'
  BY <1>1, <1>3, <1>4, Shrinks DEF Streams
<1>6. (News(S) => News(S)') /\ (TextCame(S) => TextCame(S)')
  BY <1>4 DEF News, TextCame, clientVars
<1>t. "utf8" # None /\ "string" # None
  BY ClipboardAssumption DEF Targets, TextTargets
<1>7. CASE fetch = "png" \/ waiting
  <2>1. UNCHANGED fetchVars
    BY <1>2, <1>7 DEF RequestFromClient
  <2>2. ImageComes(S)'
    BY <1>7, <2>1 DEF ImageComes, fetchVars
  <2>3. \A x : InFlight(p, S, x) => InFlight(p, S, x)'
    BY <2>1 DEF InFlight, fetchVars
  <2>4. AsksText(p, S) => AsksText(p, S)'
    BY <1>4, <1>6, <2>1, <2>2, <2>3 DEF AsksText, fetchVars
  <2>5. AsksNoMore(p, S) => AsksNoMore(p, S)'
    BY <1>4, <1>6, <2>1, <2>2, <2>3 DEF AsksNoMore, fetchVars
  <2>6. MemoryOK'
    BY <1>4, <2>1 DEF MemoryOK, Remembered, xVars, fetchVars, clientVars, people
  <2>q. QED
    BY <1>1, <1>4, <1>5, <2>1, <2>4, <2>5, <2>6 DEF Fetching, fetchVars
<1>8. CASE fetch # None /\ fetch # "png" /\ ~waiting
  <2>1. waiting' = TRUE /\ UNCHANGED <<asks, prop, xev, fetch>>
    BY <1>1, <1>2, <1>3, <1>8 DEF RequestFromClient
  <2>2. AsksText(p, S)
    BY <1>1, <1>8 DEF AsksNoMore, InFlight
  <2>3. ImageComes(S)'
    BY <2>1 DEF ImageComes
  <2>4. \A x : InFlight(p, S, x) => InFlight(p, S, x)'
    BY <2>1 DEF InFlight
  <2>5. AsksText(p, S)'
    BY <1>4, <1>6, <2>1, <2>2, <2>3, <2>4 DEF AsksText
  <2>6. MemoryOK'
    BY <1>4, <2>1 DEF MemoryOK, Remembered, xVars, clientVars, people
  <2>q. QED
    BY <1>1, <1>4, <1>5, <2>1, <2>5, <2>6 DEF Fetching
<1>9. CASE fetch = None /\ fetch # "png" /\ ~waiting
  <2>1. AsksNoMore(p, S) /\ asks[p] = <<>> /\ xev = <<>>
    BY <1>1, <1>9, <1>t DEF AsksText, AsksNoMore, InFlight
  <2>2. Convert("png", xev) /\ UNCHANGED waiting
    BY <1>1, <1>2, <1>3, <1>9 DEF RequestFromClient
  <2>3. Convert("png", <<>>)
    BY <2>1, <2>2
  <2>4. InFlight(p, S, "png")' /\ DOMAIN asks' = Apps /\ \A q \in Apps \ {p} : asks'[q] = asks[q]
    BY <1>1, <2>1, <2>3, Converted
  <2>5. ImageComes(S)'
    BY <2>4 DEF ImageComes, InFlight
  <2>6. AsksNoMore(p, S)'
    BY <1>3, <1>4, <1>6, <2>1, <2>2, <2>4, <2>5 DEF AsksNoMore
  <2>7. MemoryOK'
    BY <1>4, <2>4 DEF MemoryOK, Remembered, xVars, clientVars, people
  <2>q. QED
    BY <1>1, <1>4, <1>5, <2>4, <2>6, <2>7 DEF Fetching
<1>q. QED
  BY <1>7, <1>8, <1>9

(* What is of the copy stays so, whoever moves.                             *)
LEMMA FetchingMoves ==
  ASSUME MemoryOK, NEW p \in Apps, Downward(p), NEW S, newest = S, Fetching(p, S), Moves, settled',
         UNCHANGED <<newest, copied>>
  PROVE  MemoryOK' /\ Downward(p)'
<1>1. /\ owner = p /\ S # {} /\ offered[p] = S /\ Polled /\ \A q \in Apps \ {p} : asks[q] = <<>>
      /\ owned = None /\ Streams(S) /\ DOMAIN asks = Apps /\ p # Bridge
  BY ClipboardAssumption DEF Downward, Fetching, MemoryOK
<1>2. ~ImageFromClient /\ ~Poll /\ \A q \in Apps : ~TakesOver(q)
  <2>1. DOMAIN picsUp = {}
    BY <1>1 DEF Streams
  <2>q. QED
    BY <1>1, <2>1, IdlePoll DEF ImageFromClient, TakesOver
<1>3. \/ \E x \in Targets : InFlight(p, S, x) /\ Part(S, x) # {}
      \/ fetch = None /\ xev = <<>> /\ asks[p] = <<>>
  BY <1>1 DEF Fetching, AsksWhat, AsksText, AsksNoMore, Part, Targets, TextTargets
<1>4. ~Expire /\ ~Tick
  <2>1. \A x : InFlight(p, S, x) => fetch = x
    BY DEF InFlight
  <2>2. fetch # None \/ ~waiting
    BY <1>3, <2>1, ClipboardAssumption DEF Fetching, AsksWhat, AsksText, AsksNoMore, Targets, TextTargets
  <2>q. QED
    BY <1>3, <2>2, NeverExpires DEF Expire, Tick
(* The bridge moves, or the program that answers it.                        *)
<1>5. ASSUME Fetching(p, S)', MemoryOK', \A q \in Apps \ {p} : asks'[q] = asks[q],
             UNCHANGED <<xVars, clientVars>>
      PROVE  MemoryOK' /\ Downward(p)'
  BY <1>1, <1>5 DEF Downward, Polled, NewText, NewImage, xVars, clientVars
<1>6. ASSUME NEW q \in Apps, Converts(q) \/ HasNone(q)
      PROVE  MemoryOK' /\ Downward(p)'
  <2>1. q = p /\ asks[p] # <<>>
    BY <1>1, <1>6 DEF Converts, HasNone, Answered
  <2>2. PICK x \in Targets : InFlight(p, S, x) /\ Part(S, x) # {}
    BY <1>3, <2>1
  <2>3. /\ InFlight(p, S, x)' /\ DOMAIN asks' = Apps /\ \A r \in Apps \ {p} : asks'[r] = asks[r]
        /\ UNCHANGED <<xVars, fetch, waiting, owned, available, lastText, echo, linkVars, clientVars>>
    BY <1>1, <1>6, <2>1, <2>2, ProgramAnswers
  <2>4. \A y : InFlight(p, S, y) => InFlight(p, S, y)'
    BY <2>2, <2>3 DEF InFlight
  <2>5. LinkIdle' = LinkIdle /\ News(S)' = News(S) /\ ImageComes(S)' = ImageComes(S)
        /\ TextCame(S)' = TextCame(S) /\ Streams(S)'
    BY <1>1, <2>3 DEF LinkIdle, News, ImageComes, TextCame, Streams, linkVars, clientVars
  <2>6. AsksWhat(p, S) => AsksWhat(p, S)'
    BY <2>3, <2>4, <2>5 DEF AsksWhat
  <2>7. AsksText(p, S) => AsksText(p, S)'
    BY <2>3, <2>4, <2>5 DEF AsksText
  <2>8. AsksNoMore(p, S) => AsksNoMore(p, S)'
    BY <2>1, <2>3, <2>4, <2>5 DEF AsksNoMore
  <2>9. Fetching(p, S)'
    BY <1>1, <2>3, <2>5, <2>6, <2>7, <2>8 DEF Fetching
  <2>10. MemoryOK'
    BY <2>3 DEF MemoryOK, Remembered, xVars, clientVars
  <2>q. QED
    BY <1>5, <2>3, <2>9, <2>10
<1>7. CASE HandleX
  <2>1. /\ \E x : InFlight(p, S, x)
        /\ UNCHANGED <<xVars, clientVars>>
    <3>1. xev # <<>> \/ fetch # None
      BY <1>7, IdleBridge DEF HandleX, OwnerChanges, LateAnswer, Refused, HaveTargets, HaveText,
         HaveImage, AsksItself, Answers, Next1
    <3>2. UNCHANGED <<xVars, clientVars>>
      BY <1>7 DEF HandleX, OwnerChanges, LateAnswer, Refused, HaveTargets, HaveText, HaveImage,
         AsksItself
    <3>3. xev # <<>>
      BY <1>7 DEF HandleX, OwnerChanges, LateAnswer, Refused, HaveTargets, HaveText,
         HaveImage, AsksItself, Answers, Next1
    <3>q. QED
      BY <1>3, <3>2, <3>3
  <2>2. ASSUME AsksWhat(p, S) PROVE MemoryOK' /\ Downward(p)'
    <3>1. /\ asks[p] = <<>> /\ Tail(xev) = <<>> /\ HaveTargets
          /\ prop = [target |-> "targets", what |-> S]
      BY <1>7, <2>2, ReadsAnswer DEF AsksWhat, Part, TextTargets
    <3>q. QED
      BY <1>5, <2>1, <2>2, <3>1, KnowsWhat
  <2>3. ASSUME NEW x \in TextTargets, InFlight(p, S, x), AsksText(p, S)
        PROVE  MemoryOK' /\ Downward(p)'
    <3>1. /\ asks[p] = <<>> /\ Tail(xev) = <<>> /\ fetch = x
          /\ \/ x = "utf8" /\ Refused
             \/ HaveText /\ prop = [target |-> x, what |-> Part(S, x)]
      BY <1>7, <2>3, ReadsAnswer DEF TextTargets, InFlight
    <3>q. QED
      BY <1>5, <2>1, <2>3, <3>1, AsksAgain, TextRead
  <2>4. ASSUME AsksNoMore(p, S) PROVE MemoryOK' /\ Downward(p)'
    <3>1. InFlight(p, S, "png") /\ S \cap Images # {}
      BY <1>7, <2>4 DEF AsksNoMore, HandleX, OwnerChanges, LateAnswer, Refused, HaveTargets, HaveText,
         HaveImage, AsksItself, Answers, Next1
    <3>2. /\ asks[p] = <<>> /\ Tail(xev) = <<>> /\ HaveImage
          /\ prop = [target |-> "png", what |-> Part(S, "png")]
      BY <1>7, <3>1, ReadsAnswer DEF TextTargets
    <3>q. QED
      BY <1>5, <2>1, <2>4, <3>1, <3>2, ImageRead
  <2>q. QED
    BY <2>2, <2>3, <2>4 DEF Fetching, AsksText, TextTargets
<1>8. CASE HandleClient
  <2>1. UNCHANGED <<xVars, clientVars>>
    <3>1. ~TextFromClient
      <4>1. ASSUME toSession # <<>> PROVE Head(toSession) = Request
        BY <1>1, <4>1, Shrinks DEF Streams
      <4>q. QED
        BY <4>1 DEF TextFromClient, FromClient, Request
    <3>q. QED
      BY <1>8, <3>1 DEF HandleClient, OfferFromClient, RequestFromClient
  <2>q. QED
    BY <1>5, <1>8, <2>1, ImageAskedFor
<1>9. CASE HandleSession \/ ImageFromSession
  BY <1>9, Delivered
<1>q. QED
  BY <1>2, <1>4, <1>6, <1>7, <1>8, <1>9 DEF Moves

LEMMA DownwardMoves ==
  ASSUME MemoryOK, NEW p \in Apps, Downward(p), Moves, settled', UNCHANGED <<newest, copied>>
  PROVE  MemoryOK' /\ Downward(p)'
<1>1. PICK S : newest = S
  OBVIOUS
<1>q. QED
  BY <1>1, AnnouncedMoves, FetchingMoves DEF Downward

-----------------------------------------------------------------------------
LEMMA CopyInit == Init => CopyInv
<1>1. Init => Nothing
  BY ClipboardAssumption DEF Init, Nothing, BridgeIdle, LinkIdle, Polled, NewText, NewImage, Contents
<1>2. Init => MemoryOK
  BY DEF Init, MemoryOK, Remembered
<1>q. QED
  BY <1>1, <1>2 DEF CopyInv, CalmOK

(* Only people copy, and only they and faults unsettle.                     *)
LEMMA WhatNextIs ==
  ASSUME Next
  PROVE  \/ \E p \in Apps : SessionCopies(p)
         \/ \E c \in Contents : ClientCopies(c)
         \/ ~settled'
         \/ Moves /\ UNCHANGED <<newest, copied>> /\ (Calm' => Calm)
<1>1. ASSUME NEW p \in Apps, RefusesAll(p) \/ Wedges(p) \/ Exits(p) PROVE ~settled'
  BY <1>1 DEF RefusesAll, Wedges, Exits, Fault
<1>2. ASSUME NEW p \in Apps, Converts(p) \/ HasNone(p) PROVE UNCHANGED people
  BY <1>2 DEF Converts, HasNone
<1>3. ASSUME NEW p \in Apps, TakesOver(p)
      PROVE  UNCHANGED <<newest, repeated, copied>> /\ (settled' => settled)
  BY <1>3 DEF TakesOver
<1>4. HandleX => UNCHANGED people
  BY DEF HandleX, OwnerChanges, LateAnswer, Refused, HaveTargets, HaveText, HaveImage, AsksItself
<1>5. /\ Expire => ~settled' \/ UNCHANGED people
      /\ Tick => UNCHANGED people
      /\ XError \/ ClientXError => ~settled'
  BY DEF Expire, Tick, XError, ClientXError, Fault
<1>6. HandleClient \/ ImageFromClient => UNCHANGED people
  BY DEF HandleClient, TextFromClient, OfferFromClient, RequestFromClient, ImageFromClient
<1>7. HandleSession \/ ImageFromSession \/ Poll => UNCHANGED people
  BY DEF HandleSession, TextFromSession, OfferFromSession, RequestFromSession, ImageFromSession, Poll,
     Client
<1>q. QED
  BY <1>1, <1>2, <1>3, <1>4, <1>5, <1>6, <1>7 DEF Next, Program, Moves, Calm, people

LEMMA CopyStep == CopyInv /\ [Next]_vars => CopyInv'
<1> SUFFICES ASSUME CopyInv, [Next]_vars, Calm' PROVE CalmOK'
  BY DEF CopyInv
<1>1. ASSUME NEW p \in Apps, SessionCopies(p) PROVE CalmOK'
  <2>1. Calm
    BY <1>1 DEF SessionCopies, CopyOf, Calm
  <2>q. QED
    BY <1>1, <2>1, CopiedInSession DEF CopyInv, CalmOK
<1>2. ASSUME NEW c \in Contents, ClientCopies(c) PROVE CalmOK'
  <2>1. Calm
    BY <1>2 DEF ClientCopies, CopyOf, Calm
  <2>q. QED
    BY <1>2, <2>1, CopiedAtClient DEF CopyInv, CalmOK
<1>3. ASSUME Moves, UNCHANGED <<newest, copied>>, Calm' => Calm PROVE CalmOK'
  <2>1. MemoryOK /\ settled'
    BY <1>3 DEF CopyInv, CalmOK, Calm
  <2>2. CASE Nothing
    BY <1>3, <2>2, NothingMoves
  <2>3. ASSUME NEW c \in Contents, Upward(c) PROVE CalmOK'
    BY <1>3, <2>1, <2>3, UpwardMoves DEF CalmOK
  <2>4. ASSUME NEW c \in Contents, Held(c) PROVE CalmOK'
    BY <1>3, <2>1, <2>4, HeldMoves DEF CalmOK
  <2>5. ASSUME NEW p \in Apps, Downward(p) PROVE CalmOK'
    BY <1>3, <2>1, <2>5, DownwardMoves DEF CalmOK
  <2>q. QED
    BY <1>3, <2>2, <2>3, <2>4, <2>5 DEF CopyInv, CalmOK
<1>4. CASE UNCHANGED vars
  <2>1. Calm /\ CalmOK
    BY <1>4 DEF CopyInv, Calm, vars, people
  <2>2. MemoryOK'
    BY <1>4, <2>1 DEF CalmOK, MemoryOK, Remembered, vars, xVars, fetchVars, linkVars, clientVars, people
  <2>3. Nothing => Nothing'
    BY <1>4 DEF Nothing, BridgeIdle, LinkIdle, Polled, NewText, NewImage, vars, xVars, fetchVars,
       linkVars, clientVars, people
  <2>4. \A c : Upward(c) => Upward(c)'
    BY <1>4 DEF Upward, Found, TextSent, ImageOffered, BridgeIdle, LinkIdle, vars, xVars, fetchVars,
       linkVars, clientVars, people
  <2>5. \A c : Held(c) => Held(c)'
    BY <1>4 DEF Held, LinkIdle, Polled, NewText, NewImage, vars, xVars, fetchVars,
       linkVars, clientVars, people
  <2>6. ASSUME NEW p, Downward(p) PROVE Downward(p)'
    <3>1. /\ newest' = newest /\ UNCHANGED <<xVars, fetchVars, owned, available, lastText, echo>>
          /\ UNCHANGED <<linkVars, clientVars>>
      BY <1>4 DEF vars, people
    <3>2. \A S : /\ LinkIdle' = LinkIdle /\ News(S)' = News(S) /\ ImageComes(S)' = ImageComes(S)
                /\ TextCame(S)' = TextCame(S) /\ Streams(S)' = Streams(S) /\ Polled' = Polled
      BY <3>1 DEF Streams, News, ImageComes, TextCame, LinkIdle, Polled, NewText, NewImage,
         xVars, fetchVars, linkVars, clientVars
    <3>3. \A S, x : InFlight(p, S, x)' = InFlight(p, S, x)
      BY <3>1 DEF InFlight, fetchVars
    <3>4. \A S : /\ AsksWhat(p, S)' = AsksWhat(p, S) /\ AsksText(p, S)' = AsksText(p, S)
                /\ AsksNoMore(p, S)' = AsksNoMore(p, S)
      BY <3>1, <3>2, <3>3 DEF AsksWhat, AsksText, AsksNoMore, fetchVars
    <3>5. \A S : Announced(p, S)' = Announced(p, S) /\ Fetching(p, S)' = Fetching(p, S)
      BY <3>1, <3>2, <3>4 DEF Announced, Fetching, fetchVars
    <3>q. QED
      BY <2>6, <3>1, <3>2, <3>5 DEF Downward, xVars, fetchVars
  <2>q. QED
    BY <2>1, <2>2, <2>3, <2>4, <2>5, <2>6 DEF CalmOK
<1>5. ~settled' => FALSE
  BY DEF Calm
<1>q. QED
  BY <1>1, <1>2, <1>3, <1>4, <1>5, WhatNextIs

(* With nothing on its way, the copy is where it was going.                 *)
LEMMA CopyEnds == CopyInv => LatestEverywhere
<1> SUFFICES ASSUME CopyInv, settled, ~repeated, Rest, copied # {} PROVE Agree
  BY DEF LatestEverywhere
<1>1. MemoryOK /\ ~Nothing
  BY DEF CopyInv, Calm, CalmOK, Nothing
<1>2. ASSUME NEW c \in Contents, Upward(c) PROVE Agree
  BY <1>2, UpwardRises DEF Rest
<1>3. ASSUME NEW c \in Contents, Held(c) PROVE Agree
  BY <1>3 DEF Held, Agree, SessionHolds
<1>4. ASSUME NEW p \in Apps, Downward(p) PROVE Agree
  <2>1. /\ owner = p /\ p # Bridge /\ offered[p] = newest /\ newest # {} /\ newest \subseteq Contents
        /\ xev = <<>> /\ fetch = None /\ asks[p] = <<>> /\ ~waiting
        /\ toClient = <<>> /\ toSession = <<>> /\ picsDown = <<>>
    BY <1>1, <1>4, ClipboardAssumption DEF Downward, MemoryOK, Rest, Rising
  <2>2. AsksNoMore(p, newest)
    BY <1>4, <2>1, Short, ClipboardAssumption DEF Downward, Announced, Fetching, AsksWhat, AsksText, InFlight
  <2>3. Range(<<>>) = {}
    BY DEF Range
  <2>4. "png" # None
    BY ClipboardAssumption DEF Targets
  <2>5. clip \in newest
    BY <2>1, <2>2, <2>3, <2>4 DEF AsksNoMore, ImageComes, TextCame, Contents
  <2>q. QED
    BY <2>1, <2>5 DEF Agree, SessionHolds
<1>q. QED
  BY <1>1, <1>2, <1>3, <1>4 DEF CopyInv, Calm, CalmOK

(* What a person copied last is what both ends hold once it has gone        *)
(* across (acquire, on_targets, last_text and the echo records).            *)
THEOREM LatestIsEverywhere == Spec => []LatestEverywhere
<1>q. QED
  BY CopyInit, CopyStep, CopyEnds, PTL DEF Spec
================================================================================
