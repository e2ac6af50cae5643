-------------------------------- MODULE Screen --------------------------------
(***************************************************************************)
(* The screen of a session, from the X server to the client's window       *)
(* (crates/server/src/session/engine.rs, x11/capture.rs; proto/codec.rs;   *)
(* client connection.rs): damage, capture, the encoder's reference frame,  *)
(* resizes, the frame window, and clients that replace one another.        *)
(*                                                                         *)
(* A screen is a column of rows, each of one colour: rows are what damage, *)
(* copies and tiles are about. What each client sends goes straight into   *)
(* the core's one event channel, tagged with the client.                   *)
(***************************************************************************)
EXTENDS Integers, SequencesExt, FiniteSetsExt

CONSTANTS
  Clients,      \* 1..n, in the order the core accepts them: the generations
  Old,          \* those that may be below MIN_COMPATIBLE_VERSION
  MaxRows,      \* the largest root window
  CaptureRows,  \* capture_max, the largest screen served
  Colours,      \* what a row may show, black among them
  Black,
  DefaultRows,  \* default_height, for a first client that asks for nothing
  Floor,        \* max_in_flight
  Cap,          \* MAX_IN_FLIGHT_CAP, or Floor when the window does not adapt
  FrameIds,     \* frame ids, taken in a ring
  WriteQueue,   \* messages that may wait for a client's writer
  StaleLimit,   \* STALE_CAPTURE_LIMIT
  LeaveWithClient, \* exit_on_disconnect
  MaxChanges,   \* bound on changes of the picture
  MaxResizes,   \* bound on resizes by the session's own programs
  MaxRequests,  \* bound on what clients ask for
  MaxFaults,    \* bound on timeouts and failed resizes
  MaxEvents     \* bound on all of these together

ASSUME ScreenAssumption ==
  /\ IsFiniteSet(Clients) /\ Clients = 1..Cardinality(Clients) /\ Old \subseteq Clients
  /\ MaxRows \in Nat /\ CaptureRows \in 1..MaxRows
  /\ Black \in Colours /\ DefaultRows \in 1..MaxRows
  /\ Cap \in Nat /\ Floor \in 1..Cap
  /\ FrameIds \in Nat /\ FrameIds > Cap + 1     \* a frame is at most two parts
  /\ WriteQueue \in Nat \ {0} /\ StaleLimit \in Nat
  /\ LeaveWithClient \in BOOLEAN

VARIABLES
  root,    \* rows of the root window
  pix,     \* what they show; black below the root
  damage,  \* rows damaged since the last XDamageSubtract
  notes,   \* X events on their way: "damage", "randr"
  size,    \* XDisplay::size, the root as last read
  served,  \* Core::served
  ref,     \* Encoder::prev
  dirty,   \* DamageTracker::dirty
  stale,   \* Core::stale_captures
  client,  \* Core::client
  events,  \* the core's event channel: <<client, message>>
  down,    \* to each client: its queue, writer and socket
  shut,    \* clients whose socket the session has shut down
  phase,   \* where each client program is
  shown,   \* Decoder::fb of each client
  exit,    \* why the core stopped, if it has
  counts   \* what the bounds count

xVars == <<root, pix, damage, notes>>
codeVars == <<size, served, ref, dirty, stale>>
vars == <<xVars, codeVars, client, events, down, shut, phase, shown, exit, counts>>

Rows(n) == 1..n
Invalid == "invalid"   \* 0xFFFFFFFF, which no pixel on screen is
NoFrame == -1
Upto(n, f) == [r \in Rows(n) |-> f[r]]
Blank(n) == [r \in Rows(n) |-> Black]
Clamp(n, lo, hi) == Max({lo, Min({n, hi})})

None == [gen |-> 0, ready |-> FALSE, full |-> FALSE, dead |-> FALSE,
         flight |-> <<>>, window |-> Floor, next |-> 1]
Fresh(c) == [None EXCEPT !.gen = c]

HelloMsg(n) == [type |-> "hello", rows |-> n]
ResizedMsg(n) == [type |-> "resized", rows |-> n]
UpdateMsg(id, copies, tiles) == [type |-> "update", id |-> id, copies |-> copies, tiles |-> tiles]
Plain(type) == [type |-> type]

TypeOK ==
  /\ root \in 1..MaxRows
  /\ pix \in [Rows(MaxRows) -> Colours] /\ \A r \in (root + 1)..MaxRows : pix[r] = Black
  /\ damage \subseteq Rows(root)
  /\ notes \subseteq {"damage", "randr"}
  /\ size \in 1..MaxRows /\ served \in 1..CaptureRows
  /\ ref \in [Rows(served) -> Colours \cup {Invalid}]
  /\ dirty \in BOOLEAN /\ stale \in 0..StaleLimit
  /\ client.gen \in {0} \cup Clients
  /\ {client.ready, client.full, client.dead} \subseteq BOOLEAN
  /\ client.window \in Floor..Cap
  /\ client.flight \in Seq(0..(FrameIds - 1)) /\ IsInjective(client.flight)
  /\ Len(client.flight) <= Cap + 1
  /\ client.next \in 0..(FrameIds - 1)
  /\ shut \subseteq Clients
  /\ phase \in [Clients -> {"new", "connected", "hello", "on", "broken", "left"}]
  /\ exit \in {"none", "x error", "client left", "shut down"}

(* The X server is started at the largest size.                             *)
Init ==
  /\ root = CaptureRows
  /\ pix = Blank(MaxRows) /\ damage = {} /\ notes = {}
  /\ size = root /\ served = Clamp(root, 1, CaptureRows)
  /\ ref = Blank(served)
  /\ dirty = TRUE /\ stale = 0
  /\ client = None
  /\ events = <<>>
  /\ down = [c \in Clients |-> <<>>]
  /\ shut = {}
  /\ phase = [c \in Clients |-> "new"]
  /\ shown = [c \in Clients |-> <<>>]
  /\ exit = "none"
  /\ counts = [changes |-> 0, resizes |-> 0, requests |-> 0, faults |-> 0, shrinks |-> 0]

Bounded(what, max) ==
  /\ counts[what] < max
  /\ counts.changes + counts.resizes + counts.requests + counts.faults < MaxEvents
Count(what, max) == Bounded(what, max) /\ counts' = [counts EXCEPT ![what] = @ + 1]

-----------------------------------------------------------------------------
(* The X server. DAMAGE reports when a region that was empty no longer is.  *)

Damaged(rows) ==
  /\ damage' = damage \cup rows
  /\ notes' = IF damage = {} /\ rows # {} THEN notes \cup {"damage"} ELSE notes

Paint(r, colour) ==
  /\ Count("changes", MaxChanges)
  /\ r \in Rows(root) /\ pix[r] # colour
  /\ pix' = [pix EXCEPT ![r] = colour]
  /\ Damaged({r})
  /\ UNCHANGED <<root, codeVars, client, events, down, shut, phase, shown, exit>>

(* The picture moves down a row.                                            *)
Scroll ==
  /\ Count("changes", MaxChanges)
  /\ pix' = [r \in Rows(MaxRows) |-> IF r \in 2..root THEN pix[r - 1] ELSE pix[r]]
  /\ pix' # pix
  /\ Damaged(Rows(root))
  /\ UNCHANGED <<root, codeVars, client, events, down, shut, phase, shown, exit>>

(* What the server does when the root becomes n rows: rows it gains are     *)
(* black and damaged, and RANDR reports the change.                         *)
RootBecomes(n) ==
  LET kept == damage \cap Rows(n)
      gained == Rows(n) \ Rows(root)
  IN /\ root' = n
     /\ pix' = [r \in Rows(MaxRows) |-> IF r <= n THEN pix[r] ELSE Black]
     /\ damage' = kept \cup gained
     /\ notes' = notes \cup (IF n # root THEN {"randr"} ELSE {})
                       \cup (IF damage = {} /\ gained # {} THEN {"damage"} ELSE {})

(* xrandr in the session, or a desktop applying a saved layout.             *)
SessionResizes(n) ==
  /\ Bounded("resizes", MaxResizes)
  /\ n # root
  /\ counts' = [counts EXCEPT !.resizes = @ + 1, !.shrinks = IF n < root THEN @ + 1 ELSE @]
  /\ RootBecomes(n)
  /\ UNCHANGED <<codeVars, client, events, down, shut, phase, shown, exit>>

-----------------------------------------------------------------------------
(* Client::send. A message is lost, and the client marked, when its queue   *)
(* is full or its writer is gone: with that many messages waiting the queue *)
(* may be full, and with the client gone the writer may be.                 *)

CanLose(cl, n) == n >= WriteQueue \/ phase[cl.gen] \in {"left", "broken"}

(* How many of msgs get to the queue: those before the first one lost.      *)
Accepted(cl, msgs) ==
  IF cl.dead THEN {0}
  ELSE {Len(msgs)} \cup {k \in 0..(Len(msgs) - 1) : CanLose(cl, Len(down[cl.gen]) + k)}

Send(cl, msgs, k) ==
  /\ down' = [down EXCEPT ![cl.gen] = @ \o SubSeq(msgs, 1, k)]
  /\ client' = [cl EXCEPT !.dead = @ \/ k < Len(msgs)]

(* adopt_size and force_full_refresh: the core serves what it can of a root *)
(* of n rows, and a new size, or `force`, makes the next frame whole; then  *)
(* msgs go to the client.                                                   *)
ServedOf(n) == Clamp(n, 1, CaptureRows)

(* Fault: a client that has not been greeted is told of the new size.       *)
ResizedToAnyone(n) == IF ServedOf(n) # served THEN <<ResizedMsg(ServedOf(n))>> ELSE <<>>
ResizedTo(n) ==
  IF ServedOf(n) # served /\ client.ready THEN <<ResizedMsg(ServedOf(n))>> ELSE <<>>

(* Fault: the reference is invalidated and the flag is forgotten.           *)
ShowUnflagged(n, cl, force, msgs) ==
  LET w == ServedOf(n)
      whole == force \/ w # served
  IN /\ served' = w
     /\ ref' = IF whole THEN [r \in Rows(w) |-> Invalid] ELSE ref
     /\ dirty' = (dirty \/ whole)
     /\ IF cl.gen = 0 THEN client' = cl /\ UNCHANGED down
        ELSE \E k \in Accepted(cl, msgs) : Send(cl, msgs, k)

Show(n, cl, force, msgs) ==
  LET w == ServedOf(n)
      whole == force \/ w # served
      cl2 == [cl EXCEPT !.full = cl.gen # 0 /\ (@ \/ whole)]
  IN /\ served' = w
     /\ ref' = IF whole THEN [r \in Rows(w) |-> Invalid] ELSE ref
     /\ dirty' = (dirty \/ whole)
     /\ IF cl.gen = 0 THEN client' = cl2 /\ UNCHANGED down
        ELSE \E k \in Accepted(cl2, msgs) : Send(cl2, msgs, k)

(* drop_client: the queue is closed with the notice in it, the writer has a *)
(* moment to flush, and the socket goes down with whatever is left. Its     *)
(* reader reports the end, which the core will no longer care for.          *)
Drop(notice, rest, next, why) ==
  LET c == client.gen
      owed == down[c] \o (IF client.dead THEN <<>> ELSE notice)
  IN IF c = 0
     THEN /\ events' = rest /\ shut' = (IF why # "none" THEN Clients ELSE shut)
          /\ client' = next /\ exit' = why
          /\ UNCHANGED down
     ELSE /\ \E k \in 0..Len(owed) : down' = [down EXCEPT ![c] = SubSeq(owed, 1, k)]
          /\ events' = rest \o (IF phase[c] \in {"left", "broken"} THEN <<>> ELSE <<<<c, Plain("closed")>>>>)
          /\ shut' = (IF why # "none" THEN Clients ELSE shut \cup {c})
          /\ client' = next
          /\ exit' = why

(* exit_after_disconnect.                                                   *)
AfterDisconnect == IF LeaveWithClient THEN "client left" ELSE "none"

-----------------------------------------------------------------------------
(* Core::handle. The queue's head is taken; what came from a client other   *)
(* than the present one is dropped.                                         *)

Heads(type) == exit = "none" /\ events # <<>> /\ Head(events)[2].type = type

Present(type) == Heads(type) /\ Head(events)[1] = client.gen
Msg == Head(events)[2]

HandleStale ==
  /\ exit = "none" /\ events # <<>>
  /\ Msg.type # "new" /\ Head(events)[1] # client.gen
  /\ events' = Tail(events)
  /\ UNCHANGED <<xVars, codeVars, client, down, shut, phase, shown, exit, counts>>

(* Fault: the client there was is forgotten and not dropped.                *)
HandleNewForgetting ==
  /\ Heads("new")
  /\ client' = Fresh(Head(events)[1])
  /\ events' = Tail(events)
  /\ UNCHANGED <<xVars, codeVars, down, shut, phase, shown, exit, counts>>

HandleNew ==
  /\ Heads("new")
  /\ Drop(<<Plain("disconnect")>>, Tail(events), Fresh(Head(events)[1]), "none")
  /\ UNCHANGED <<xVars, codeVars, phase, shown, counts>>

HandleClosed ==
  /\ Present("closed")
  /\ Drop(<<>>, Tail(events), None, AfterDisconnect)
  /\ UNCHANGED <<xVars, codeVars, phase, shown, counts>>

(* on_hello of a client too old to speak with.                              *)
HandleRefused ==
  /\ Present("hello") /\ client.gen \in Old
  /\ Drop(<<Plain("rejected")>>, Tail(events), None, AfterDisconnect)
  /\ UNCHANGED <<xVars, codeVars, phase, shown, counts>>

(* apply_resize. RANDR does what it is asked, refuses at once, or leaves    *)
(* the root staged for both sizes; only of the first does the caller hear.  *)
(* There is nothing to do for the size the root was last read to have.      *)
Resizes(n) ==
  LET w == Clamp(n, 1, CaptureRows)
      done(to) == [root |-> to, size |-> to, ok |-> TRUE, fault |-> 0]
      refused(to) == [root |-> to, size |-> root, ok |-> FALSE, fault |-> 1]
  IN IF n = size THEN {[root |-> root, size |-> size, ok |-> FALSE, fault |-> 0]}
     ELSE IF w = root THEN {done(root)}
     ELSE {done(w)} \cup {refused(to) : to \in IF counts.faults < MaxFaults
                                               THEN {root, Max({root, w})} ELSE {}}

(* Fault: a client of the size there is gets what has changed, not it all.  *)
ApplyResizeUnforced(n, cl, greet) ==
  \E o \in Resizes(n) :
    LET to == IF o.ok THEN o.root ELSE served
    IN /\ RootBecomes(o.root)
       /\ size' = o.size
       /\ counts' = [counts EXCEPT !.faults = @ + o.fault]
       /\ Show(to, cl, FALSE, IF greet THEN <<HelloMsg(ServedOf(to))>> ELSE ResizedTo(to))

ApplyResize(n, cl, greet) ==
  \E o \in Resizes(n) :
    LET to == IF o.ok THEN o.root ELSE served
    IN /\ RootBecomes(o.root)
       /\ size' = o.size
       /\ counts' = [counts EXCEPT !.faults = @ + o.fault]
       /\ Show(to, cl, greet, IF greet THEN <<HelloMsg(ServedOf(to))>> ELSE ResizedTo(to))

(* on_hello: the size the client wants, or the one there is, then the       *)
(* greeting, then a whole frame.                                            *)
HandleHello ==
  /\ Present("hello")
  /\ LET wish == IF Msg.rows > 0 THEN Msg.rows
                 ELSE IF client.gen = 1 THEN DefaultRows ELSE size
     IN ApplyResize(wish, [client EXCEPT !.ready = TRUE], TRUE)
  /\ events' = Tail(events)
  /\ UNCHANGED <<stale, shut, phase, shown, exit>>

HandleResize ==
  /\ Present("resize")
  /\ ApplyResize(Msg.rows, client, FALSE)
  /\ events' = Tail(events)
  /\ UNCHANGED <<stale, shut, phase, shown, exit>>

HandleRefresh ==
  /\ Present("refresh")
  /\ Show(served, client, TRUE, <<>>)
  /\ events' = Tail(events)
  /\ UNCHANGED <<xVars, size, stale, shut, phase, shown, exit, counts>>

(* Fault: the frames before the one acknowledged are, and it is not.        *)
HandleAckBefore ==
  /\ Present("ack")
  /\ LET at == {i \in DOMAIN client.flight : client.flight[i] = Msg.id}
     IN IF at = {} THEN UNCHANGED client
        ELSE \E step \in {-1, 0, 1} :
               client' = [client EXCEPT
                 !.flight = SubSeq(@, Max(at), Len(@)),
                 !.window = Clamp(@ + step, Floor, Cap)]
  /\ events' = Tail(events)
  /\ UNCHANGED <<xVars, codeVars, down, shut, phase, shown, exit, counts>>

(* FrameAck: the frame and those before it are no longer in flight, and the *)
(* window moves a slot at most (adapt_in_flight).                           *)
HandleAck ==
  /\ Present("ack")
  /\ LET at == {i \in DOMAIN client.flight : client.flight[i] = Msg.id}
     IN IF at = {} THEN UNCHANGED client
        ELSE \E step \in {-1, 0, 1} :
               client' = [client EXCEPT
                 !.flight = SubSeq(@, Max(at) + 1, Len(@)),
                 !.window = Clamp(@ + step, Floor, Cap)]
  /\ events' = Tail(events)
  /\ UNCHANGED <<xVars, codeVars, down, shut, phase, shown, exit, counts>>

Handle ==
  \/ HandleStale \/ HandleNew \/ HandleClosed \/ HandleRefused
  \/ HandleHello \/ HandleResize \/ HandleRefresh \/ HandleAck

(* handle_x_event.                                                          *)
NoteDamage ==
  /\ exit = "none" /\ "damage" \in notes
  /\ notes' = notes \ {"damage"}
  /\ dirty' = TRUE
  /\ UNCHANGED <<root, pix, damage, size, served, ref, stale, client, events, down, shut, phase,
                 shown, exit, counts>>

NoteResize ==
  /\ exit = "none" /\ "randr" \in notes
  /\ notes' = notes \ {"randr"}
  /\ size' = root
  /\ Show(root, client, FALSE, ResizedTo(root))
  /\ UNCHANGED <<root, pix, damage, stale, events, shut, phase, shown, exit, counts>>

(* housekeeping: no hello, or no pong, in time.                             *)
Expire ==
  /\ exit = "none" /\ client.gen # 0
  /\ Count("faults", MaxFaults)
  /\ Drop(<<>>, events, None, AfterDisconnect)
  /\ UNCHANGED <<xVars, codeVars, phase, shown>>

(* DesktopExited and Shutdown.                                              *)
Quit ==
  /\ exit = "none"
  /\ Count("faults", MaxFaults)
  /\ Drop(<<Plain("disconnect")>>, events, None, "shut down")
  /\ UNCHANGED <<xVars, codeVars, phase, shown>>

DropDead ==
  /\ exit = "none" /\ client.dead
  /\ Drop(<<>>, events, None, AfterDisconnect)
  /\ UNCHANGED <<xVars, codeVars, phase, shown, counts>>

-----------------------------------------------------------------------------
(* send_frame.                                                              *)

(* detect_scroll_runs: rows of the frame that show what the row one above,  *)
(* or below, them did, as a map to those; some of them must have changed.   *)
(* The encoder may also see no scroll: a region can be too small for one.   *)
Scrolls(rects) ==
  LET run(d) == {r \in rects : r - d \in rects /\ ref[r - d] = pix[r]}
      worth == {d \in {-1, 1} : \E r \in run(d) : ref[r] # pix[r]}
  IN {[r \in run(d) |-> r - d] : d \in worth} \cup {<<>>}

(* apply_copies: every source is read before any row is written.            *)
Moved(f, copies) == [r \in DOMAIN f |-> IF r \in DOMAIN copies THEN f[copies[r]] ELSE f[r]]

(* encode_frame's tiles: what differs from the reference once it is moved.  *)
Tiles(rects, copies) ==
  LET moved == Moved(ref, copies)
  IN [r \in {r \in rects : moved[r] # pix[r]} |-> pix[r]]

(* split_frame: in one part, or in two with the copies in the first.        *)
Parts(copies, tiles) ==
  LET part(rows) == [r \in rows |-> tiles[r]]
      before(k) == {r \in DOMAIN tiles : r < k}
      cuts == {k \in DOMAIN tiles : before(k) # {}}
  IN {<<[copies |-> copies, tiles |-> tiles]>>}
       \cup {<<[copies |-> copies, tiles |-> part(before(k))],
               [copies |-> <<>>, tiles |-> part(DOMAIN tiles \ before(k))]>> : k \in cuts}

(* The rows of the next frame: all, when the client is to have a whole one, *)
(* or when the damage is widespread.                                        *)
FrameRows ==
  LET hit == damage \cap Rows(served)
  IN IF client.full THEN {Rows(served)}
     ELSE {hit} \cup (IF hit # {} THEN {Rows(served)} ELSE {})

(* Fault: a frame goes out whatever is in flight.                           *)
DueUnwindowed == exit = "none" /\ client.ready /\ ~client.dead /\ (dirty \/ client.full)
Due ==
  /\ exit = "none"
  /\ client.ready /\ ~client.dead
  /\ Len(client.flight) < client.window
  /\ dirty \/ client.full

(* capture_many fails on rows the root no longer has.                       *)
CaptureRaces ==
  /\ Due
  /\ \E rects \in FrameRows : ~(rects \subseteq Rows(root))
  /\ stale < StaleLimit
  /\ stale' = stale + 1
  /\ damage' = {}
  /\ size' = root
  /\ Show(root, client, TRUE, ResizedTo(root))
  /\ UNCHANGED <<root, pix, notes, events, shut, phase, shown, exit, counts>>

(* Fault: any capture that fails is the end of the display.                 *)
CaptureFailsAtOnce ==
  /\ Due
  /\ \E rects \in FrameRows : ~(rects \subseteq Rows(root))
  /\ exit' = "x error"
  /\ shut' = Clients
  /\ UNCHANGED <<xVars, codeVars, client, events, down, phase, shown, counts>>

CaptureFails ==
  /\ Due
  /\ \E rects \in FrameRows : ~(rects \subseteq Rows(root))
  /\ stale >= StaleLimit
  /\ exit' = "x error"
  /\ shut' = Clients
  /\ UNCHANGED <<xVars, codeVars, client, events, down, phase, shown, counts>>

SendFrame ==
  /\ Due
  /\ \E rects \in FrameRows :
       /\ rects \subseteq Rows(root)
       /\ \E copies \in IF client.full THEN {<<>>} ELSE Scrolls(rects) :
            LET tiles == Tiles(rects, copies)
                cl == [client EXCEPT !.full = FALSE]
                id(i) == (client.next + i - 1) % FrameIds
            IN /\ ref' = [r \in Rows(served) |-> IF r \in rects THEN pix[r] ELSE ref[r]]
               /\ IF DOMAIN copies = {} /\ DOMAIN tiles = {}
                  THEN client' = cl /\ UNCHANGED down
                  ELSE \E parts \in Parts(copies, tiles) :
                         LET msgs == [i \in DOMAIN parts |-> UpdateMsg(id(i), parts[i].copies, parts[i].tiles)]
                         IN \E k \in Accepted(cl, msgs) :
                              Send([cl EXCEPT !.flight = @ \o [i \in 1..k |-> id(i)],
                                              !.next = id(k + 1)], msgs, k)
  /\ damage' = {}
  /\ dirty' = FALSE
  /\ stale' = 0
  /\ UNCHANGED <<root, pix, notes, size, served, events, shut, phase, shown, exit, counts>>

Pump == SendFrame \/ CaptureRaces \/ CaptureFails

-----------------------------------------------------------------------------
(* The clients.                                                             *)

(* A client's reader thread at the session, until the socket is shut down.  *)
(* It starts when the core accepts the client, and not before.              *)
Tell(c, msgs) ==
  events' = IF c \in shut THEN events ELSE events \o [i \in DOMAIN msgs |-> <<c, msgs[i]>>]

Connect(c) ==
  /\ exit = "none"
  /\ phase[c] = "new" /\ \A b \in 1..(c - 1) : phase[b] # "new"
  /\ phase' = [phase EXCEPT ![c] = "connected"]
  /\ events' = Append(events, <<c, Plain("new")>>)
  /\ UNCHANGED <<xVars, codeVars, client, down, shut, shown, exit, counts>>

(* The hello, which asks for a size or for none, is read. A client that     *)
(* leaves before is as one that leaves just after.                          *)
Hello(c) ==
  /\ phase[c] = "connected" /\ c \notin shut /\ exit = "none"
  /\ <<c, Plain("new")>> \notin Range(events)
  /\ phase' = [phase EXCEPT ![c] = "hello"]
  /\ \E wish \in 0..MaxRows : Tell(c, <<HelloMsg(wish)>>)
  /\ UNCHANGED <<xVars, codeVars, client, down, shut, shown, exit, counts>>

Ask(c) ==
  /\ phase[c] = "on" /\ exit = "none"
  /\ Count("requests", MaxRequests)
  /\ \E msg \in {Plain("refresh")} \cup [type : {"resize"}, rows : 1..MaxRows] : Tell(c, <<msg>>)
  /\ UNCHANGED <<xVars, codeVars, client, down, shut, phase, shown, exit>>

(* The window is closed, or the network is gone.                            *)
Leave(c) ==
  /\ phase[c] \in {"hello", "on"}
  /\ Count("faults", MaxFaults)
  /\ phase' = [phase EXCEPT ![c] = "left"]
  /\ down' = [down EXCEPT ![c] = <<>>]
  /\ Tell(c, <<Plain("closed")>>)
  /\ UNCHANGED <<xVars, codeVars, client, shut, shown, exit>>

Ends(c, how) ==
  /\ phase' = [phase EXCEPT ![c] = how]
  /\ down' = [down EXCEPT ![c] = <<>>]
  /\ Tell(c, <<Plain("closed")>>)
  /\ UNCHANGED shown

(* Client::from_stream.                                                     *)
Greeted(c) ==
  /\ phase[c] \in {"connected", "hello"} /\ down[c] # <<>>
  /\ LET msg == Head(down[c])
     IN IF msg.type = "hello"
        THEN /\ phase' = [phase EXCEPT ![c] = "on"]
             /\ shown' = [shown EXCEPT ![c] = Blank(msg.rows)]
             /\ down' = [down EXCEPT ![c] = Tail(@)]
             /\ UNCHANGED events
        ELSE Ends(c, IF msg.type \in {"rejected", "disconnect"} THEN "left" ELSE "broken")
  /\ UNCHANGED <<xVars, codeVars, client, shut, exit, counts>>

(* Decoder::apply_frame and resize.                                         *)
Fits(f, msg) == UNION {DOMAIN msg.copies, Range(msg.copies), DOMAIN msg.tiles} \subseteq DOMAIN f
(* Fault: the copies are applied one at a time.                             *)
AppliedOneByOne(f, msg) ==
  IF msg.type = "resized"
  THEN [r \in Rows(msg.rows) |-> IF r \in DOMAIN f THEN f[r] ELSE Black]
  ELSE LET moved == FoldLeft(LAMBDA g, r : IF r \in DOMAIN msg.copies THEN [g EXCEPT ![r] = g[msg.copies[r]]] ELSE g,
                             f, [r \in DOMAIN f |-> r])
       IN [r \in DOMAIN f |-> IF r \in DOMAIN msg.tiles THEN msg.tiles[r] ELSE moved[r]]

Applied(f, msg) ==
  IF msg.type = "resized"
  THEN [r \in Rows(msg.rows) |-> IF r \in DOMAIN f THEN f[r] ELSE Black]
  ELSE LET moved == Moved(f, msg.copies)
       IN [r \in DOMAIN f |-> IF r \in DOMAIN msg.tiles THEN msg.tiles[r] ELSE moved[r]]

(* Client::handle_message.                                                  *)
Receive(c) ==
  /\ phase[c] = "on" /\ down[c] # <<>>
  /\ LET msg == Head(down[c])
         good == msg.type = "resized" \/ (msg.type = "update" /\ Fits(shown[c], msg))
     IN IF good
        THEN /\ shown' = [shown EXCEPT ![c] = Applied(@, msg)]
             /\ down' = [down EXCEPT ![c] = Tail(@)]
             /\ Tell(c, IF msg.type = "update" THEN <<[type |-> "ack", id |-> msg.id]>> ELSE <<>>)
             /\ UNCHANGED phase
        ELSE Ends(c, IF msg.type = "disconnect" THEN "left" ELSE "broken")
  /\ UNCHANGED <<xVars, codeVars, client, shut, exit, counts>>

SeesEnd(c) ==
  /\ phase[c] \in {"connected", "hello", "on"} /\ c \in shut /\ down[c] = <<>>
  /\ Ends(c, "left")
  /\ UNCHANGED <<xVars, codeVars, client, shut, exit, counts>>

ClientStep(c) == Hello(c) \/ Greeted(c) \/ Receive(c) \/ SeesEnd(c)

Next ==
  \/ \E r \in Rows(MaxRows), colour \in Colours : Paint(r, colour)
  \/ Scroll
  \/ \E n \in 1..MaxRows : SessionResizes(n)
  \/ Handle \/ NoteDamage \/ NoteResize \/ Pump \/ DropDead \/ Expire \/ Quit
  \/ \E c \in Clients : Connect(c) \/ Ask(c) \/ Leave(c) \/ ClientStep(c)

Spec == Init /\ [][Next]_vars

(* The core's loop handles what is queued, drops a dead client and sends    *)
(* the frame that is due; writers write and clients read. Nothing else need *)
(* ever happen.                                                             *)
FairSpec ==
  /\ Spec
  /\ WF_vars(Handle) /\ WF_vars(NoteDamage) /\ WF_vars(NoteResize)
  /\ WF_vars(Pump) /\ WF_vars(DropDead)
  /\ \A c \in Clients : WF_vars(ClientStep(c))

-----------------------------------------------------------------------------
(* What the present client will show when it has read what is on the way:   *)
(* the last of the pictures it has from here on.                            *)
Read(f, msg) == IF msg.type = "hello" THEN Blank(msg.rows) ELSE Applied(f, msg)
Pictures(f, msgs) ==
  LET p[i \in 0..Len(msgs)] == IF i = 0 THEN f ELSE Read(p[i - 1], msgs[i]) IN p
WillShow(f, msgs) == Pictures(f, msgs)[Len(msgs)]

Live == exit = "none" /\ client.ready /\ ~client.dead /\ phase[client.gen] \in {"hello", "on"}

(* The encoder's reference is what the client will show, in size and, where *)
(* it is not invalidated, in every row: a difference would be invisible to  *)
(* the tile pass for good (encode_frame, apply_copies, adopt_size).         *)
ReferenceIsShown ==
  Live => LET f == WillShow(shown[client.gen], down[client.gen])
          IN /\ DOMAIN f = Rows(served)
             /\ \A r \in Rows(served) : ref[r] \in {f[r], Invalid}

(* No change is missed: a row the reference has wrong is damaged, with the  *)
(* core told or about to be, or the next frame is whole (DamageTracker,     *)
(* force_full_refresh); and a root of another size is about to be noticed.  *)
NothingMissed ==
  Live =>
    /\ \/ client.full
       \/ \A r \in Rows(Min({served, root})) :
            ref[r] = pix[r] \/ (r \in damage /\ (dirty \/ "damage" \in notes))
    /\ served = ServedOf(root) \/ "randr" \in notes

(* The ids of the frames on their way between the core and client c,        *)
(* acknowledgements to the core first, each in its place.                   *)
IdBack(c, e) == IF e[1] = c /\ e[2].type = "ack" THEN e[2].id ELSE NoFrame
IdThere(m) == IF m.type = "update" THEN m.id ELSE NoFrame
Way(c, back, there) ==
  [x \in 1..(Len(back) + Len(there)) |->
     IF x <= Len(back) THEN IdBack(c, back[x]) ELSE IdThere(there[x - Len(back)])]

(* The frames of way are those of flight, each once and in that order.      *)
Follows(flight, way) ==
  /\ \A n \in DOMAIN flight : \E x \in DOMAIN way : way[x] = flight[n]
  /\ \A x \in DOMAIN way : way[x] # NoFrame => \E n \in DOMAIN flight : flight[n] = way[x]
  /\ \A x, y \in DOMAIN way, n, m \in DOMAIN flight :
       way[x] = flight[n] /\ way[y] = flight[m] => (x < y <=> n < m)

(* Every frame in flight is on its way to the client or its acknowledgement *)
(* on its way back, in the order they were sent: none is waited for that    *)
(* will not come (frames_in_flight, Client::send, the generations).         *)
FlightAccounted ==
  Live => Follows(client.flight, Way(client.gen, events, down[client.gen]))

(* No client is ever sent what it cannot take: a frame or a size before the *)
(* greeting, or a tile outside the screen it was told of (accept_client,    *)
(* adopt_size, apply_tile); it would give the session up for good.          *)
NeverBroken == \A c \in Clients : phase[c] # "broken"

(* A capture that raced a resize does not end the session: it takes more    *)
(* shrinks than STALE_CAPTURE_LIMIT.                                        *)
RacesSurvived == exit = "x error" => counts.shrinks > StaleLimit

(* When the session's programs stop drawing, the client comes to show what  *)
(* they drew, at the size of the root (as much of it as is served).         *)
Converges ==
  <>[](Live /\ phase[client.gen] = "on" =>
         /\ served = ServedOf(root)
         /\ shown[client.gen] = [r \in Rows(served) |-> pix[r]])

(* A client that waits for its greeting waits for something: its connection *)
(* or its hello is before the core, or an answer or an end is before it.    *)
(* None is forgotten when another takes its place (accept_client).          *)
NobodyForgotten ==
  \A c \in Clients : phase[c] \in {"connected", "hello"} =>
    \/ c \in shut \/ down[c] # <<>> \/ <<c, Plain("new")>> \in Range(events)
    \/ /\ client.gen = c /\ ~client.ready
       /\ \/ phase[c] = "connected" \/ client.dead
          \/ \E e \in Range(events) : e[1] = c /\ e[2].type = "hello"

=============================================================================
