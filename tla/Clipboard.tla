------------------------------- MODULE Clipboard -------------------------------
(***************************************************************************)
(* Text and images copied in the session reach the client's clipboard and  *)
(* back: the selections of the X server, the session's bridge to them      *)
(* (crates/server/src/x11/clipboard.rs), its record against echoes         *)
(* (session/engine.rs), and the client, which is told nothing by its       *)
(* native clipboard and polls it (client/src/app.rs, connection.rs).       *)
(*                                                                         *)
(* One client, greeted and with every clipboard feature, is connected all  *)
(* along. Files are copied through other machinery and left out. A step is *)
(* one event or message handled, or one call of a program to the X server. *)
(***************************************************************************)
EXTENDS Naturals, SequencesExt, FiniteSets

CONSTANTS
  Apps,       \* programs in the session that own the selection at times
  Texts,      \* texts people copy
  Images,     \* images people copy
  Bridge,     \* the bridge's window
  None,
  MaxCopies,  \* bound on copies made by people
  MaxFaults   \* bound on X errors, and programs that refuse, wedge, are late or exit

Contents == Texts \cup Images
TextTargets == {"utf8", "string"}
Targets == TextTargets \cup {"targets", "png"}
Garbled == "garbled"          \* what a list of atoms reads as, taken for text

ASSUME ClipboardAssumption ==
  /\ Bridge \notin Apps /\ None \notin Apps \cup Contents \cup Targets
  /\ Texts \cap Images = {} /\ Garbled \notin Contents
  /\ None \notin [target : Targets, what : SUBSET Contents]

VARIABLES
  owner,      \* the owner of CLIPBOARD
  offered,    \* what each program offers, or last did
  asks,       \* conversions each program has been asked for and not answered
  prop,       \* the property LYNXRDP_CLIP of the bridge's window
  xev,        \* X events on their way to the bridge
  owned,      \* Clipboard::owned_text and owned_png
  fetch,      \* the target of Clipboard::fetch
  waiting,    \* PNG is in Clipboard::queue
  available,  \* Clipboard::available
  lastText,   \* Clipboard::last_text
  echo,       \* ClipboardEcho: what was sent, and received
  toClient, toSession,   \* messages on their way
  picsDown, picsUp,      \* images being transferred
  clip,       \* the client's native clipboard
  lastClip,   \* last_clipboard
  lastImage,  \* last_image
  picture,    \* pending_image
  newest,     \* what was copied last, by a person
  settled,    \* each copy was made when the one before had gone across
  repeated,   \* something has been copied a second time
  copied,     \* everything that has been copied
  counts      \* what the bounds count

xVars == <<owner, offered>>
fetchVars == <<asks, prop, xev, fetch, waiting>>
linkVars == <<toClient, toSession, picsDown, picsUp>>
clientVars == <<clip, lastClip, lastImage, picture>>
people == <<newest, settled, repeated, copied, counts>>
vars == <<xVars, fetchVars, owned, available, lastText, echo, linkVars, clientVars, people>>

Kind(c) == IF c \in Images THEN "png" ELSE "text"
Kinds(S) == {Kind(c) : c \in S}
Copies == {S \in (SUBSET Contents) \ {{}} : Cardinality(S \cap Texts) < 2 /\ Cardinality(S \cap Images) < 2}

OwnerEvent(w) == [type |-> "owner", by |-> w]
Notify(target, ok) == [type |-> "notify", target |-> target, ok |-> ok]
Asked(target) == [type |-> "asked", target |-> target]
Text(t) == [type |-> "text", text |-> t]
Offer(kinds) == [type |-> "offer", kinds |-> kinds]
Request == [type |-> "request"]

Messages == {Text(t) : t \in Texts \cup {Garbled}}
              \cup {Offer(K) : K \in (SUBSET {"text", "png"}) \ {{}}} \cup {Request}
Events == {OwnerEvent(w) : w \in Apps \cup {Bridge, None}}
            \cup {Notify(x, ok) : x \in Targets, ok \in BOOLEAN} \cup {Asked(x) : x \in Targets}

TypeOK ==
  /\ owner \in Apps \cup {Bridge, None}
  /\ offered \in [Apps -> SUBSET Contents]
  /\ \A p \in Apps : Range(asks[p]) \subseteq [target : Targets, what : Copies]
  /\ prop \in [target : Targets, what : SUBSET Contents] \cup {None}
  /\ Range(xev) \subseteq Events
  /\ owned \in Contents \cup {Garbled, None}
  /\ fetch \in Targets \cup {None} /\ waiting \in BOOLEAN
  /\ available \subseteq {"text", "png"}
  /\ lastText \in Texts \cup {Garbled, None}
  /\ echo \in [sent : Texts \cup {Garbled, None}, received : Texts \cup {Garbled, None}]
  /\ Range(toClient) \cup Range(toSession) \subseteq Messages
  /\ Range(picsDown) \cup Range(picsUp) \subseteq Images
  /\ clip \in Contents \cup {Garbled, None}
  /\ lastClip \in Texts \cup {Garbled, None} /\ {lastImage, picture} \subseteq Images \cup {None}
  /\ newest \subseteq Contents /\ copied \subseteq Contents
  /\ settled \in BOOLEAN /\ repeated \in BOOLEAN
  /\ counts \in [copies : 0..MaxCopies, faults : 0..MaxFaults]

Init ==
  /\ owner = None /\ offered = [p \in Apps |-> {}] /\ asks = [p \in Apps |-> <<>>]
  /\ prop = None /\ xev = <<>>
  /\ owned = None /\ fetch = None /\ waiting = FALSE /\ available = {} /\ lastText = None
  /\ echo = [sent |-> None, received |-> None]
  /\ toClient = <<>> /\ toSession = <<>> /\ picsDown = <<>> /\ picsUp = <<>>
  /\ clip = None /\ lastClip = None /\ lastImage = None /\ picture = None
  /\ newest = {} /\ settled = TRUE /\ repeated = FALSE /\ copied = {}
  /\ counts = [copies |-> 0, faults |-> 0]

(* A copy is on its way to the session, or a poll would find one; nothing   *)
(* is on its way either way.                                                *)
NewText == clip \in Texts \cup {Garbled} /\ clip # lastClip
NewImage == clip \in Images /\ clip # lastImage
Rising ==
  toSession # <<>> \/ picsUp # <<>> \/ NewText \/ NewImage \/ Request \in Range(toClient)
Rest ==
  /\ xev = <<>> /\ fetch = None /\ ~waiting /\ \A p \in Apps : asks[p] = <<>>
  /\ toClient = <<>> /\ picsDown = <<>> /\ ~Rising

-----------------------------------------------------------------------------
(* People copy, at either end; programs in the session answer, or do not.   *)

CopyOf(S) ==
  /\ counts.copies < MaxCopies
  /\ counts' = [counts EXCEPT !.copies = @ + 1]
  /\ newest' = S /\ copied' = copied \cup S
  /\ settled' = (settled /\ Rest)
  /\ repeated' = (repeated \/ S \cap copied # {})

Fault ==
  /\ counts.faults < MaxFaults
  /\ counts' = [counts EXCEPT !.faults = @ + 1]
  /\ settled' = FALSE
  /\ UNCHANGED <<newest, repeated, copied>>

OwnedBy(p, S) ==
  /\ owner' = p
  /\ offered' = [offered EXCEPT ![p] = S]
  /\ xev' = Append(xev, OwnerEvent(p))
  /\ UNCHANGED <<asks, prop, fetch, waiting, owned, available, lastText, echo, linkVars, clientVars>>

SessionCopies(p) == \E S \in Copies : CopyOf(S) /\ OwnedBy(p, S)

(* A clipboard manager takes over what the bridge offers, at any time.      *)
TakesOver(p) ==
  /\ owner = Bridge /\ owned \in Contents
  /\ OwnedBy(p, {owned})
  /\ settled' = (settled /\ ~Rising)
  /\ UNCHANGED <<newest, repeated, copied, counts>>

ClientCopies(c) ==
  /\ CopyOf({c})
  /\ clip' = c
  /\ UNCHANGED <<xVars, fetchVars, owned, available, lastText, echo, linkVars, lastClip, lastImage,
                 picture>>

Answered(p) ==
  /\ asks[p] # <<>>
  /\ asks' = [asks EXCEPT ![p] = Tail(@)]
  /\ UNCHANGED <<xVars, fetch, waiting, owned, available, lastText, echo, linkVars, clientVars>>

Refuses(p) ==
  /\ Answered(p)
  /\ xev' = Append(xev, Notify(Head(asks[p]).target, FALSE))
  /\ UNCHANGED prop

(* A program answers with what it was asked for while it owned it; one that *)
(* knows only STRING refuses UTF8_STRING.                                   *)
Converts(p) ==
  /\ Answered(p)
  /\ LET ask == Head(asks[p])
         what == IF ask.target = "targets" THEN ask.what
                 ELSE ask.what \cap (IF ask.target = "png" THEN Images ELSE Texts)
     IN /\ what # {}
        /\ prop' = [target |-> ask.target, what |-> what]
        /\ xev' = Append(xev, Notify(ask.target, TRUE))
  /\ UNCHANGED people

HasNone(p) ==
  /\ asks[p] # <<>>
  /\ LET ask == Head(asks[p])
     IN ask.target = "utf8" \/ (ask.target = "string" /\ ask.what \cap Texts = {})
                           \/ (ask.target = "png" /\ ask.what \cap Images = {})
  /\ Refuses(p)
  /\ UNCHANGED people

RefusesAll(p) == Refuses(p) /\ Fault
Wedges(p) == Answered(p) /\ Fault /\ UNCHANGED <<prop, xev>>

(* The selection is left without an owner.                                  *)
Exits(p) ==
  /\ owner = p
  /\ owner' = None
  /\ asks' = [asks EXCEPT ![p] = <<>>]
  /\ xev' = Append(xev, OwnerEvent(None))
  /\ Fault
  /\ UNCHANGED <<offered, prop, fetch, waiting, owned, available, lastText, echo, linkVars,
                 clientVars>>

-----------------------------------------------------------------------------
(* The bridge: one conversion at a time.                                    *)

(* request: the X server passes it to the owner, who may be the bridge, or  *)
(* refuses it when there is none.                                           *)
Convert(target, rest) ==
  /\ fetch' = target
  /\ prop' = None
  /\ xev' = rest \o (IF owner = Bridge THEN <<Asked(target)>>
                     ELSE IF owner = None THEN <<Notify(target, FALSE)>> ELSE <<>>)
  /\ asks' = [p \in Apps |-> IF p = owner
                             THEN Append(asks[p], [target |-> target, what |-> offered[p]])
                             ELSE asks[p]]

(* The conversion in flight is over: start_next begins the one that waits.  *)
Conclude(kinds, rest, left) ==
  /\ waiting' = FALSE
  /\ IF waiting /\ "png" \in kinds
     THEN Convert("png", rest)
     ELSE fetch' = None /\ xev' = rest /\ prop' = left /\ UNCHANGED asks

(* The end of an event that leaves the conversion in flight alone: there    *)
(* may be none, and still one that waits (XError).                          *)
EndOfEvent(rest, left) ==
  IF fetch = None
  THEN Conclude(available, rest, left)
  ELSE xev' = rest /\ prop' = left /\ UNCHANGED <<asks, fetch, waiting>>

(* Fault: the conversion in flight is not cancelled.                        *)
AcquireKeepingFetch(c) ==
  /\ owned' = c
  /\ owner' = Bridge
  /\ xev' = Append(xev, OwnerEvent(Bridge))
  /\ available' = {}
  /\ UNCHANGED <<offered, asks, prop, fetch, waiting>>

(* acquire, after set_text or set_image has put in what is offered.         *)
Acquire(c) ==
  /\ owned' = c
  /\ owner' = Bridge
  /\ xev' = Append(xev, OwnerEvent(Bridge))
  /\ fetch' = None /\ waiting' = FALSE /\ available' = {}
  /\ UNCHANGED <<offered, asks, prop>>

Next1(type) == xev # <<>> /\ Head(xev).type = type
Answers(ok) == Next1("notify") /\ Head(xev).target = fetch /\ Head(xev).ok = ok

(* Fault: our own window is not skipped.                                    *)
OwnerChangesAny ==
  /\ Next1("owner")
  /\ owned' = None /\ available' = {} /\ waiting' = FALSE
  /\ IF Head(xev).by = None
     THEN fetch' = None /\ xev' = Tail(xev) /\ UNCHANGED <<asks, prop>>
     ELSE Convert("targets", Tail(xev))
  /\ UNCHANGED <<xVars, lastText, echo, linkVars, clientVars, people>>

(* dispatch: the selection has a new owner. Our own window is skipped.      *)
OwnerChanges ==
  /\ Next1("owner")
  /\ IF Head(xev).by = Bridge
     THEN EndOfEvent(Tail(xev), prop) /\ UNCHANGED <<owned, available>>
     ELSE /\ owned' = None /\ available' = {} /\ waiting' = FALSE
          /\ IF Head(xev).by = None
             THEN fetch' = None /\ xev' = Tail(xev) /\ UNCHANGED <<asks, prop>>
             ELSE Convert("targets", Tail(xev))
  /\ UNCHANGED <<xVars, lastText, echo, linkVars, clientVars, people>>

(* An answer to a conversion given up on.                                   *)
LateAnswer ==
  /\ Next1("notify") /\ Head(xev).target # fetch
  /\ EndOfEvent(Tail(xev), prop)
  /\ UNCHANGED <<xVars, owned, available, lastText, echo, linkVars, clientVars, people>>

Refused ==
  /\ Answers(FALSE)
  /\ IF fetch = "utf8"
     THEN Convert("string", Tail(xev)) /\ UNCHANGED waiting
     ELSE Conclude(available, Tail(xev), prop)
  /\ UNCHANGED <<xVars, owned, available, lastText, echo, linkVars, clientVars, people>>

ReadTargets == IF prop # None /\ prop.target = "targets" THEN Kinds(prop.what) ELSE {}
ReadText == IF prop.target \in TextTargets THEN CHOOSE t \in prop.what : TRUE ELSE Garbled

(* on_targets, and what the core does with the formats.                     *)
HaveTargets ==
  /\ Answers(TRUE) /\ fetch = "targets"
  /\ LET kinds == ReadTargets
     IN /\ available' = kinds
        /\ toClient' = IF kinds = {} THEN toClient ELSE Append(toClient, Offer(kinds))
        /\ IF "text" \in kinds
           THEN Convert("utf8", Tail(xev)) /\ UNCHANGED waiting
           ELSE Conclude(kinds, Tail(xev), None)
  /\ echo' = [echo EXCEPT !.sent = None]
  /\ UNCHANGED <<xVars, owned, lastText, toSession, picsDown, picsUp, clientVars, people>>

(* finish and on_session_clipboard: a text that is not the last one seen,   *)
(* nor the one the client sent, goes to the client.                         *)
Reported(t) ==
  IF t = lastText THEN UNCHANGED <<lastText, echo, toClient>>
  ELSE /\ lastText' = t
       /\ IF t = echo.received THEN UNCHANGED <<echo, toClient>>
          ELSE /\ echo' = [sent |-> t, received |-> None]
               /\ toClient' = Append(toClient, Text(t))
(* Fault: an empty property is read as a text.                              *)
HaveTextUnread ==
  /\ Answers(TRUE) /\ fetch \in TextTargets
  /\ Reported(IF prop = None THEN None ELSE ReadText)
  /\ Conclude(available, Tail(xev), None)
  /\ UNCHANGED <<xVars, owned, available, toSession, picsDown, picsUp, clientVars, people>>

HaveText ==
  /\ Answers(TRUE) /\ fetch \in TextTargets
  /\ IF prop = None THEN UNCHANGED <<lastText, echo, toClient>>
     ELSE Reported(ReadText)
  /\ Conclude(available, Tail(xev), None)
  /\ UNCHANGED <<xVars, owned, available, toSession, picsDown, picsUp, clientVars, people>>

(* What is not a PNG the client cannot read, and leaves its clipboard.      *)
HaveImage ==
  /\ Answers(TRUE) /\ fetch = "png"
  /\ picsDown' = IF prop # None /\ prop.target = "png"
                 THEN Append(picsDown, CHOOSE i \in prop.what : TRUE) ELSE picsDown
  /\ Conclude(available, Tail(xev), None)
  /\ UNCHANGED <<xVars, owned, available, lastText, echo, toClient, toSession, picsUp, clientVars,
                 people>>

(* on_selection_request from the bridge itself, which it asks when the      *)
(* selection has come to it since the change it is handling.                *)
AsksItself ==
  /\ Next1("asked")
  /\ LET target == Head(xev).target
         has == owned # None /\ CASE target = "png" -> owned \in Images
                                  [] target \in TextTargets -> owned \notin Images
                                  [] OTHER -> TRUE
         served == target = "targets" \/ has
     IN EndOfEvent(Append(Tail(xev), Notify(target, served)),
                   IF served THEN [target |-> target, what |-> IF has THEN {owned} ELSE {}] ELSE prop)
  /\ UNCHANGED <<xVars, owned, available, lastText, echo, linkVars, clientVars, people>>

HandleX ==
  OwnerChanges \/ LateAnswer \/ Refused \/ HaveTargets \/ HaveText \/ HaveImage \/ AsksItself

(* Somebody will still answer the conversion in flight.                     *)
Answerable ==
  \/ \E p \in Apps : \E i \in DOMAIN asks[p] : asks[p][i].target = fetch
  \/ \E i \in DOMAIN xev : xev[i].type # "owner" /\ xev[i].target = fetch

(* Fault: there is no tick, and only an X event looks at the deadline.      *)
ExpireOnEvents ==
  /\ fetch # None
  /\ xev # <<>>
  /\ IF Answerable THEN Fault ELSE UNCHANGED people
  /\ Conclude(available, xev, prop)
  /\ UNCHANGED <<xVars, owned, available, lastText, echo, linkVars, clientVars>>

(* expire_fetch, on an X event or the housekeeping tick. A conversion runs  *)
(* out of time when nobody will answer it, or (a fault) before somebody     *)
(* does.                                                                    *)
Expire ==
  /\ fetch # None
  /\ IF Answerable THEN Fault ELSE UNCHANGED people
  /\ Conclude(available, xev, prop)
  /\ UNCHANGED <<xVars, owned, available, lastText, echo, linkVars, clientVars>>

(* tick, or an X event that is nobody's here: nothing in flight keeps back   *)
(* what waits.                                                              *)
Tick ==
  /\ fetch = None /\ waiting
  /\ Conclude(available, xev, prop)
  /\ UNCHANGED <<xVars, owned, available, lastText, echo, linkVars, clientVars, people>>

(* The handler of an event is left by `?`: at the property it reads, with   *)
(* the conversion in flight, or at the answer it gives itself.              *)
ReadFails ==
  /\ Answers(TRUE) \/ Next1("asked")
  /\ xev' = Tail(xev)
  /\ UNCHANGED <<fetch, waiting, owned, available, lastText>>

(* Or at the next conversion it asks for, with none in flight: for the      *)
(* targets of a new owner, for STRING, for the text.                        *)
RequestFails ==
  /\ \/ /\ Next1("owner") /\ Head(xev).by \notin {Bridge, None}
        /\ owned' = None /\ available' = {} /\ waiting' = FALSE
     \/ /\ Answers(FALSE) /\ fetch = "utf8"
        /\ UNCHANGED <<owned, available, waiting>>
     \/ /\ Answers(TRUE) /\ fetch = "targets" /\ "text" \in ReadTargets
        /\ available' = ReadTargets
        /\ UNCHANGED <<owned, waiting>>
  /\ fetch' = None /\ xev' = Tail(xev)
  /\ UNCHANGED lastText

(* Or in start_next, at the end of a conversion or of a tick.               *)
StartFails ==
  /\ waiting /\ "png" \in available
  /\ waiting' = FALSE /\ fetch' = None
  /\ UNCHANGED <<owned, available>>
  /\ \/ UNCHANGED <<xev, lastText>>
     \/ Answers(FALSE) /\ fetch # "utf8" /\ xev' = Tail(xev) /\ UNCHANGED lastText
     \/ /\ Answers(TRUE) /\ fetch \in TextTargets /\ xev' = Tail(xev)
        /\ lastText' = IF prop = None THEN lastText ELSE ReadText

(* The engine logs the error and goes on. What the handler had to report,   *)
(* an offer, a text, is lost, and nothing is begun at its end.              *)
XError ==
  /\ ReadFails \/ RequestFails \/ StartFails
  /\ Fault
  /\ prop' \in {prop, None}
  /\ UNCHANGED <<xVars, asks, echo, linkVars, clientVars>>

-----------------------------------------------------------------------------
(* The core, on the client's messages.                                      *)

FromClient(type) == toSession # <<>> /\ Head(toSession).type = type

TextFromClient ==
  /\ FromClient("text")
  /\ LET t == Head(toSession).text
     IN IF t = echo.sent
        THEN UNCHANGED <<xVars, fetchVars, owned, available, lastText, echo>>
        ELSE /\ echo' = [sent |-> None, received |-> t]
             /\ lastText' = t
             /\ Acquire(t)
  /\ toSession' = Tail(toSession)
  /\ UNCHANGED <<toClient, picsDown, picsUp, clientVars, people>>

OfferFromClient ==
  /\ FromClient("offer")
  /\ echo' = [echo EXCEPT !.received = None]
  /\ toSession' = Tail(toSession)
  /\ toClient' = Append(toClient, Request)
  /\ UNCHANGED <<xVars, fetchVars, owned, available, lastText, picsDown, picsUp, clientVars, people>>

(* Fault: only a conversion in flight is looked at, not the queue.          *)
RequestUnlessInFlight ==
  /\ FromClient("request")
  /\ toSession' = Tail(toSession)
  /\ IF owned # None \/ "png" \notin available \/ fetch = "png"
     THEN UNCHANGED fetchVars
     ELSE IF fetch # None
     THEN waiting' = TRUE /\ UNCHANGED <<asks, prop, xev, fetch>>
     ELSE Convert("png", xev) /\ UNCHANGED waiting
  /\ UNCHANGED <<xVars, owned, available, lastText, echo, toClient, picsDown, picsUp, clientVars,
                 people>>

(* request_format: not of our own selection, not of what is not offered,    *)
(* and not twice. (Behind a queue of other formats, files, it waits too.)   *)
RequestFromClient ==
  /\ FromClient("request")
  /\ toSession' = Tail(toSession)
  /\ IF owned # None \/ "png" \notin available \/ fetch = "png" \/ waiting
     THEN UNCHANGED fetchVars
     ELSE IF fetch # None \/ waiting
     THEN waiting' = TRUE /\ UNCHANGED <<asks, prop, xev, fetch>>
     ELSE Convert("png", xev) /\ UNCHANGED waiting
  /\ UNCHANGED <<xVars, owned, available, lastText, echo, toClient, picsDown, picsUp, clientVars,
                 people>>

ImageFromClient ==
  \E k \in DOMAIN picsUp :
    /\ Acquire(picsUp[k])
    /\ picsUp' = RemoveAt(picsUp, k)
    /\ UNCHANGED <<lastText, echo, toClient, toSession, picsDown, clientVars, people>>

(* An X error on the client's account: the request is not made, or what is  *)
(* to be offered is put in and the selection not taken.                     *)
OfferedInVain(c) ==
  /\ owned' = c
  /\ fetch' = None /\ waiting' = FALSE /\ available' = {}
ClientXError ==
  /\ Fault
  /\ \/ /\ FromClient("request") /\ toSession' = Tail(toSession)
        /\ fetch = None
        /\ UNCHANGED <<picsUp, fetch, waiting, owned, available, lastText, echo>>
     \/ /\ FromClient("text") /\ toSession' = Tail(toSession)
        /\ LET t == Head(toSession).text
           IN /\ t # echo.sent
              /\ echo' = [sent |-> None, received |-> t]
              /\ lastText' = t
              /\ OfferedInVain(t)
        /\ UNCHANGED picsUp
     \/ /\ \E k \in DOMAIN picsUp : OfferedInVain(picsUp[k]) /\ picsUp' = RemoveAt(picsUp, k)
        /\ UNCHANGED <<toSession, lastText, echo>>
  /\ UNCHANGED <<xVars, asks, prop, xev, toClient, picsDown, clientVars>>

HandleClient == TextFromClient \/ OfferFromClient \/ RequestFromClient

-----------------------------------------------------------------------------
(* The client.                                                              *)

FromSession(type) == toClient # <<>> /\ Head(toClient).type = type
Client(messages) ==
  /\ toClient' = messages
  /\ UNCHANGED <<xVars, fetchVars, owned, available, lastText, echo, people>>

TextFromSession ==
  /\ FromSession("text")
  /\ clip' = Head(toClient).text
  /\ lastClip' = Head(toClient).text
  /\ Client(Tail(toClient))
  /\ UNCHANGED <<toSession, picsDown, picsUp, lastImage, picture>>

OfferFromSession ==
  /\ FromSession("offer")
  /\ toSession' = IF "png" \in Head(toClient).kinds THEN Append(toSession, Request) ELSE toSession
  /\ Client(Tail(toClient))
  /\ UNCHANGED <<picsDown, picsUp, clientVars>>

RequestFromSession ==
  /\ FromSession("request")
  /\ picsUp' = IF picture = None THEN picsUp ELSE Append(picsUp, picture)
  /\ picture' = None
  /\ Client(Tail(toClient))
  /\ UNCHANGED <<toSession, picsDown, clip, lastClip, lastImage>>

(* Fault: the image is not remembered as the last one seen.                  *)
ImageFromSessionUnmarked ==
  \E k \in DOMAIN picsDown :
    /\ clip' = picsDown[k]
    /\ picsDown' = RemoveAt(picsDown, k)
    /\ Client(toClient)
    /\ UNCHANGED <<toSession, picsUp, lastImage, lastClip, picture>>

(* on_remote_image. An image stands in its own transfer and may overtake.   *)
ImageFromSession ==
  \E k \in DOMAIN picsDown :
    /\ clip' = picsDown[k]
    /\ lastImage' = picsDown[k]
    /\ picsDown' = RemoveAt(picsDown, k)
    /\ Client(toClient)
    /\ UNCHANGED <<toSession, picsUp, lastClip, picture>>

(* Fault: the text sent is not remembered as the last one seen.             *)
PollForgetting ==
  /\ NewText \/ NewImage
  /\ IF NewText
     THEN toSession' = Append(toSession, Text(clip)) /\ UNCHANGED <<lastImage, picture>>
     ELSE /\ toSession' = Append(toSession, Offer({"png"}))
          /\ lastImage' = clip /\ picture' = clip
  /\ Client(toClient)
  /\ UNCHANGED <<picsDown, picsUp, clip, lastClip>>

(* poll_clipboard and poll_clipboard_image.                                 *)
Poll ==
  /\ NewText \/ NewImage
  /\ IF NewText
     THEN /\ toSession' = Append(toSession, Text(clip))
          /\ lastClip' = clip
          /\ UNCHANGED <<lastImage, picture>>
     ELSE /\ toSession' = Append(toSession, Offer({"png"}))
          /\ lastImage' = clip /\ picture' = clip
          /\ UNCHANGED lastClip
  /\ Client(toClient)
  /\ UNCHANGED <<picsDown, picsUp, clip>>

HandleSession == TextFromSession \/ OfferFromSession \/ RequestFromSession

-----------------------------------------------------------------------------
Program(p) ==
  SessionCopies(p) \/ TakesOver(p) \/ Converts(p) \/ HasNone(p) \/ RefusesAll(p) \/ Wedges(p) \/ Exits(p)

Next ==
  \/ \E p \in Apps : Program(p)
  \/ \E c \in Contents : ClientCopies(c)
  \/ HandleX \/ Expire \/ Tick \/ XError
  \/ HandleClient \/ ImageFromClient \/ ClientXError
  \/ HandleSession \/ ImageFromSession \/ Poll

Spec == Init /\ [][Next]_vars

(* The core and the client handle what reaches them, transfers go on, the   *)
(* core's tick ends a conversion nobody will answer and begins one that     *)
(* waits, the client polls (its window is looked at now and then: it polls  *)
(* in focus), and a program that has not wedged answers. Nobody need copy   *)
(* anything.                                                                *)
FairSpec ==
  /\ Spec
  /\ WF_vars(HandleX) /\ WF_vars(Expire /\ ~Answerable) /\ WF_vars(Tick)
  /\ WF_vars(HandleClient) /\ WF_vars(ImageFromClient) /\ WF_vars(HandleSession) /\ WF_vars(ImageFromSession)
  /\ WF_vars(Poll)
  /\ \A p \in Apps : WF_vars(Converts(p) \/ HasNone(p))

-----------------------------------------------------------------------------
(* When people stop copying, the traffic stops: no text or image goes round *)
(* in a loop, whatever crosses whatever and however managers and polls      *)
(* repeat it, no conversion waits for a program that has wedged, and none   *)
(* stays queued behind nothing after an X error (start_next, last_text,     *)
(* ClipboardEcho, last_clipboard, expire_fetch, tick).                      *)
ComesToRest == <>[]Rest

(* A requested image is converted once: what waits is not in flight as well *)
(* ("would convert it twice", request_format), also when an X error has     *)
(* left it waiting behind nothing; and it is what the present owner offers, *)
(* and not our own ("the queue is emptied on an owner change", start_next). *)
ConvertedOnce ==
  waiting => fetch \in TextTargets \cup {None} /\ "png" \in available /\ owned = None

SessionHolds == IF owner = Bridge THEN {owned} ELSE IF owner \in Apps THEN offered[owner] ELSE {}
Agree == SessionHolds = newest /\ clip \in newest

(* What a person copied last is what both ends hold once it has gone        *)
(* across, if each copy went across before the next was made and nothing is *)
(* copied twice (acquire, on_targets, the echo records of both ends).       *)
LatestEverywhere == settled /\ ~repeated /\ Rest /\ copied # {} => Agree

(* "T copied on the client after the session moved on is news", and its     *)
(* mirror: the same, for what was copied before, too.                       *)
LaterCopyIsNews == settled /\ Rest /\ copied # {} => Agree

(* "Whether we currently own the selection" (owns_selection).               *)
OwnsWhatItOffers == Rest => ((owner = Bridge) = (owned # None))
=============================================================================
