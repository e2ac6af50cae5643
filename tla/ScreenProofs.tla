------------------------------ MODULE ScreenProofs ------------------------------
(***************************************************************************)
(* What the session's core owes its clients, whatever they do and however  *)
(* the root window changes under it: a race with a resize does not end the *)
(* session, no change of the picture is missed, no client is sent what it  *)
(* cannot take, none is forgotten, no frame in flight is lost sight of,    *)
(* and what a client comes to show is what the encoder takes it to show.   *)
(***************************************************************************)
EXTENDS Screen, FiniteSetTheorems, WellFoundedInduction, TLAPS

-----------------------------------------------------------------------------
(* The shape of the state, as far as the arguments need it.                 *)
ScreenOK ==
  /\ root \in 1..MaxRows /\ size \in 1..MaxRows /\ served \in 1..CaptureRows
  /\ DOMAIN pix = Rows(MaxRows)
  /\ damage \subseteq Rows(root)
  /\ stale \in Nat
  /\ DOMAIN counts = {"changes", "resizes", "requests", "faults", "shrinks"}
  /\ counts.shrinks \in Nat

PeerOK ==
  /\ DOMAIN client = {"gen", "ready", "full", "dead", "flight", "window", "next"}
  /\ client.gen \in {0} \cup Clients
  /\ client.ready \in BOOLEAN /\ client.full \in BOOLEAN /\ client.dead \in BOOLEAN
  /\ client.ready => client.gen # 0
  /\ client.dead => client.ready

(* A capture that races: each since the last frame was another shrink.      *)
RaceOK ==
  /\ stale + (IF served > root THEN 1 ELSE 0) <= counts.shrinks
  /\ RacesSurvived

(* What the reference has wrong is damaged, and the core knows or is about  *)
(* to be told; a row the root gains is damaged from the start.              *)
FrameOK ==
  /\ damage # {} => dirty \/ "damage" \in notes
  /\ client.ready =>
       \/ client.full
       \/ \A r \in Rows(served) \cap Rows(root) : ref[r] = pix[r] \/ r \in damage
  /\ served = ServedOf(root) \/ "randr" \in notes

PictureInv == ScreenOK /\ PeerOK /\ RaceOK /\ FrameOK
-----------------------------------------------------------------------------
LEMMA MaxOfTwo ==
  ASSUME NEW a \in Int, NEW b \in Int
  PROVE  Max({a, b}) = IF a >= b THEN a ELSE b
BY DEF Max

LEMMA MinOfTwo ==
  ASSUME NEW a \in Int, NEW b \in Int
  PROVE  Min({a, b}) = IF a <= b THEN a ELSE b
BY DEF Min

(* clamp_to_capture: what is served is within the bounds, and never more    *)
(* than there is.                                                           *)
LEMMA ServedIs ==
  ASSUME NEW n \in Int
  PROVE  /\ ServedOf(n) \in 1..CaptureRows
         /\ n \in 1..CaptureRows => ServedOf(n) = n
         /\ n >= 1 => ServedOf(n) <= n
         /\ CaptureRows \in Int /\ CaptureRows <= MaxRows /\ CaptureRows >= 1 /\ MaxRows \in Nat
<1>1. CaptureRows \in Int /\ 1 <= CaptureRows /\ CaptureRows <= MaxRows /\ MaxRows \in Nat
  BY ScreenAssumption
<1>2. Min({n, CaptureRows}) = IF n <= CaptureRows THEN n ELSE CaptureRows
  BY <1>1, MinOfTwo
<1>3. Min({n, CaptureRows}) \in Int
  BY <1>1, <1>2
<1>4. ServedOf(n) = IF 1 >= Min({n, CaptureRows}) THEN 1 ELSE Min({n, CaptureRows})
  <2> DEFINE m == Min({n, CaptureRows})
  <2>1. ServedOf(n) = Max({1, m})
    BY DEF ServedOf, Clamp
  <2>2. m \in Int
    BY <1>3
  <2> HIDE DEF m
  <2>3. Max({1, m}) = IF 1 >= m THEN 1 ELSE m
    BY <2>2, MaxOfTwo
  <2>q. QED
    BY <2>1, <2>3 DEF m
<1>q. QED
  BY <1>1, <1>2, <1>4

PeerFields == {"gen", "ready", "full", "dead", "flight", "window", "next"}

(* What showing a size does to the picture: a new size, or force, makes the *)
(* next frame whole for whoever is there.                                   *)
LEMMA ShowsPicture ==
  ASSUME NEW n \in Int, NEW cl, DOMAIN cl = PeerFields, NEW force \in BOOLEAN, NEW msgs,
         cl.ready \in BOOLEAN, cl.full \in BOOLEAN, cl.dead \in BOOLEAN,
         msgs = <<>> \/ cl.ready, cl.dead => cl.ready,
         Show(n, cl, force, msgs)
  PROVE  /\ served' = ServedOf(n)
         /\ DOMAIN client' = PeerFields /\ client'.gen = cl.gen /\ client'.ready = cl.ready
         /\ client'.full \in BOOLEAN /\ client'.dead \in BOOLEAN
         /\ client'.full <=> cl.gen # 0 /\ (cl.full \/ force \/ ServedOf(n) # served)
         /\ client'.dead => client'.ready
         /\ ~force /\ ServedOf(n) = served => ref' = ref
         /\ dirty => dirty'
<1> DEFINE whole == force \/ ServedOf(n) # served
           cl2 == [cl EXCEPT !.full = cl.gen # 0 /\ (@ \/ whole)]
<1>1. /\ DOMAIN cl2 = PeerFields /\ cl2.gen = cl.gen /\ cl2.ready = cl.ready /\ cl2.dead = cl.dead
      /\ cl2.full <=> cl.gen # 0 /\ (cl.full \/ whole)
      /\ cl2.full \in BOOLEAN
  BY DEF PeerFields
<1>2. /\ served' = ServedOf(n) /\ dirty' = (dirty \/ whole)
      /\ ref' = IF whole THEN [r \in Rows(ServedOf(n)) |-> Invalid] ELSE ref
      /\ IF cl.gen = 0 THEN client' = cl2 /\ UNCHANGED down
         ELSE \E k \in Accepted(cl2, msgs) : Send(cl2, msgs, k)
  BY DEF Show
<1>3. CASE cl.gen = 0
  BY <1>1, <1>2, <1>3
<1>4. CASE cl.gen # 0
  <2>1. PICK k \in Accepted(cl2, msgs) : client' = [cl2 EXCEPT !.dead = @ \/ k < Len(msgs)]
    BY <1>2, <1>4 DEF Send
  <2> HIDE DEF cl2
  <2>2. /\ DOMAIN client' = PeerFields /\ client'.gen = cl2.gen /\ client'.ready = cl2.ready
        /\ client'.full = cl2.full /\ client'.dead \in BOOLEAN
        /\ client'.dead <=> cl2.dead \/ k < Len(msgs)
    BY <1>1, <2>1 DEF PeerFields
  <2>3. msgs = <<>> => k = 0 /\ Len(msgs) = 0
    BY DEF Accepted
  <2>4. client'.dead => client'.ready
    BY <1>1, <2>2, <2>3
  <2>q. QED
    BY <1>1, <1>2, <1>4, <2>2, <2>4
<1>q. QED
  BY <1>3, <1>4
(* The root as it was, or changed by RANDR: what it shows and what is       *)
(* damaged of it.                                                           *)
RootStep ==
  /\ root' \in 1..MaxRows /\ DOMAIN pix' = Rows(MaxRows) /\ damage' \subseteq Rows(root')
  /\ damage' # {} => dirty \/ "damage" \in notes'
  /\ \A r \in Rows(root') :
       /\ r \in Rows(root) => pix'[r] = pix[r] /\ (r \in damage => r \in damage')
       /\ r \notin Rows(root) => r \in damage'

LEMMA RootMoves ==
  ASSUME ScreenOK, FrameOK, NEW n \in 1..MaxRows, RootBecomes(n)
  PROVE  /\ RootStep /\ root' = n
         /\ n # root => "randr" \in notes'
         /\ "randr" \in notes => "randr" \in notes'
<1> DEFINE kept == damage \cap Rows(n)
           gained == Rows(n) \ Rows(root)
<1>1. /\ root' = n
      /\ pix' = [r \in Rows(MaxRows) |-> IF r <= n THEN pix[r] ELSE Black]
      /\ damage' = kept \cup gained
      /\ notes' = notes \cup (IF n # root THEN {"randr"} ELSE {})
                        \cup (IF damage = {} /\ gained # {} THEN {"damage"} ELSE {})
  BY DEF RootBecomes
<1>2. MaxRows \in Nat
  BY ScreenAssumption
<1>3. \A r \in Rows(n) : r \in Rows(MaxRows) /\ r <= n
  BY <1>2 DEF Rows
<1>4. damage' # {} => dirty \/ "damage" \in notes'
  BY <1>1 DEF FrameOK
<1>q. QED
  BY <1>1, <1>3, <1>4 DEF RootStep, Rows

LEMMA RootStays ==
  ASSUME ScreenOK, FrameOK, UNCHANGED <<root, pix, damage>>, "damage" \in notes => "damage" \in notes'
  PROVE  RootStep
BY DEF ScreenOK, FrameOK, RootStep

(* Showing a size of the root keeps no frame from what has changed.         *)
LEMMA ShowsFrame ==
  ASSUME ScreenOK, PeerOK, FrameOK, RootStep,
         NEW n \in Int, NEW cl, NEW force \in BOOLEAN, NEW msgs, Show(n, cl, force, msgs),
         DOMAIN cl = PeerFields, cl.gen = client.gen, cl.full = client.full, cl.dead = client.dead,
         cl.ready \in BOOLEAN, client.ready => cl.ready,
         cl.ready => client.ready \/ (force /\ client.gen # 0),
         msgs = <<>> \/ cl.ready,
         ServedOf(n) = ServedOf(root') \/ "randr" \in notes'
  PROVE  FrameOK' /\ PeerOK'
<1>1. /\ served' = ServedOf(n)
      /\ DOMAIN client' = PeerFields /\ client'.gen = cl.gen /\ client'.ready = cl.ready
      /\ client'.full \in BOOLEAN /\ client'.dead \in BOOLEAN
      /\ client'.full <=> cl.gen # 0 /\ (cl.full \/ force \/ ServedOf(n) # served)
      /\ client'.dead => client'.ready
      /\ ~force /\ ServedOf(n) = served => ref' = ref
      /\ dirty => dirty'
  BY ShowsPicture DEF PeerOK
<1>2. PeerOK'
  BY <1>1 DEF PeerOK, PeerFields
<1>3. damage' # {} => dirty' \/ "damage" \in notes'
  BY <1>1 DEF RootStep
<1>4. served' = ServedOf(root)' \/ "randr" \in notes'
  BY <1>1 DEF ServedOf
<1>5. ASSUME client'.ready, ~client'.full, NEW r \in Rows(served') \cap Rows(root')
      PROVE  ref'[r] = pix'[r] \/ r \in damage'
  <2>1. /\ client.ready /\ ~client.full /\ client.gen # 0 /\ ~force
        /\ served' = served /\ ref' = ref
    BY <1>1, <1>5 DEF PeerOK
  <2>2. r \in Rows(root) => ref[r] = pix[r] \/ r \in damage
    BY <1>5, <2>1 DEF FrameOK
  <2>q. QED
    BY <1>5, <2>1, <2>2 DEF RootStep
<1>q. QED
  BY <1>2, <1>3, <1>4, <1>5 DEF FrameOK

(* What a resize asked of RANDR leaves: the root of the size, or a root no  *)
(* smaller than it was, of which the core has not heard.                    *)
LEMMA ResizesGive ==
  ASSUME ScreenOK, NEW n \in Int, NEW o \in Resizes(n)
  PROVE  /\ o.root \in 1..MaxRows /\ o.size \in 1..MaxRows /\ o.ok \in BOOLEAN
         /\ o.ok \/ o.root >= root
<1> DEFINE w == ServedOf(n)
<1>1. w \in 1..CaptureRows /\ CaptureRows <= MaxRows /\ MaxRows \in Nat /\ CaptureRows \in Int
  BY ServedIs
<1>2. Clamp(n, 1, CaptureRows) = w
  BY DEF ServedOf
<1>3. root \in 1..MaxRows /\ size \in 1..MaxRows
  BY DEF ScreenOK
<1> HIDE DEF w
<1>4. Max({root, w}) = IF root >= w THEN root ELSE w
  BY <1>1, <1>3, MaxOfTwo
<1>5. CASE o = [root |-> root, size |-> size, ok |-> FALSE, fault |-> 0]
  BY <1>3, <1>5
<1>6. CASE o = [root |-> root, size |-> root, ok |-> TRUE, fault |-> 0]
  BY <1>3, <1>6
<1>7. CASE o = [root |-> w, size |-> w, ok |-> TRUE, fault |-> 0]
  BY <1>1, <1>3, <1>7
<1>8. CASE \E to \in {root, Max({root, w})} : o = [root |-> to, size |-> root, ok |-> FALSE, fault |-> 1]
  <2>1. PICK to \in {root, Max({root, w})} : o = [root |-> to, size |-> root, ok |-> FALSE, fault |-> 1]
    BY <1>8
  <2>2. to \in 1..MaxRows /\ to >= root
    BY <1>1, <1>3, <1>4
  <2>q. QED
    BY <1>3, <2>1, <2>2
<1>9. \/ o = [root |-> root, size |-> size, ok |-> FALSE, fault |-> 0]
      \/ o = [root |-> root, size |-> root, ok |-> TRUE, fault |-> 0]
      \/ o = [root |-> w, size |-> w, ok |-> TRUE, fault |-> 0]
      \/ \E to \in {root, Max({root, w})} : o = [root |-> to, size |-> root, ok |-> FALSE, fault |-> 1]
  BY <1>2 DEF Resizes
<1>q. QED
  BY <1>5, <1>6, <1>7, <1>8, <1>9

-----------------------------------------------------------------------------
(* Steps in which neither the root nor what is served of it changes.        *)
LEMMA Counted ==
  ASSUME ScreenOK, NEW what \in {"changes", "requests", "faults"}, NEW max, Count(what, max)
  PROVE  DOMAIN counts' = DOMAIN counts /\ counts'.shrinks = counts.shrinks
BY DEF Count, ScreenOK

LEMMA PictureStays ==
  ASSUME PictureInv, UNCHANGED <<xVars, codeVars>>,
         DOMAIN counts' = DOMAIN counts, counts'.shrinks = counts.shrinks,
         exit' # "x error" \/ exit' = exit, PeerOK',
         client'.ready => client.ready /\ client'.full = client.full
  PROVE  PictureInv'
<1>1. ScreenOK' /\ RaceOK'
  BY DEF PictureInv, ScreenOK, RaceOK, RacesSurvived, xVars, codeVars
<1>2. FrameOK'
  BY DEF PictureInv, FrameOK, ServedOf, xVars, codeVars
<1>q. QED
  BY <1>1, <1>2 DEF PictureInv

(* With no client, or one that has said nothing, no frame is due.           *)
LEMMA NobodyYet ==
  /\ DOMAIN None = PeerFields /\ None.gen = 0 /\ ~None.ready /\ ~None.full /\ ~None.dead
  /\ None.ready \in BOOLEAN /\ None.full \in BOOLEAN /\ None.dead \in BOOLEAN
  /\ \A c : /\ DOMAIN Fresh(c) = PeerFields /\ Fresh(c).gen = c /\ ~Fresh(c).ready
            /\ ~Fresh(c).full /\ ~Fresh(c).dead /\ Fresh(c).ready \in BOOLEAN
            /\ Fresh(c).full \in BOOLEAN /\ Fresh(c).dead \in BOOLEAN
BY DEF None, Fresh, PeerFields
-----------------------------------------------------------------------------
(* Sequences of messages, whatever the messages are.                        *)
Proper(q) == Len(q) \in Nat /\ q = [i \in 1..Len(q) |-> q[i]]

LEMMA ProperIs ==
  ASSUME NEW q
  PROVE  Proper(q) <=> \E S : q \in Seq(S)
<1>1. ASSUME Proper(q) PROVE \E S : q \in Seq(S)
  <2> DEFINE S == {q[i] : i \in 1..Len(q)}
  <2>1. q \in [1..Len(q) -> S] /\ Len(q) \in Nat
    BY <1>1 DEF Proper
  <2>2. q \in Seq(S)
    BY <2>1
  <2>q. QED
    BY <2>2
<1>2. ASSUME NEW S, q \in Seq(S) PROVE Proper(q)
  BY <1>2 DEF Proper
<1>q. QED
  BY <1>1, <1>2

LEMMA ProperShort ==
  /\ Proper(<<>>) /\ Len(<<>>) = 0
  /\ \A m : Proper(<<m>>) /\ Len(<<m>>) = 1 /\ <<m>>[1] = m /\ DOMAIN <<m>> = {1}
<1>1. ASSUME NEW m PROVE Proper(<<m>>) /\ Len(<<m>>) = 1 /\ <<m>>[1] = m /\ DOMAIN <<m>> = {1}
  <2>1. <<m>> \in Seq({m}) /\ Len(<<m>>) = 1 /\ <<m>>[1] = m /\ DOMAIN <<m>> = {1}
    OBVIOUS
  <2>q. QED
    BY <2>1, ProperIs
<1>2. <<>> \in Seq({}) /\ Len(<<>>) = 0
  OBVIOUS
<1>q. QED
  BY <1>1, <1>2, ProperIs

LEMMA ProperConcat ==
  ASSUME NEW a, NEW b, Proper(a), Proper(b)
  PROVE  /\ Proper(a \o b) /\ Len(a \o b) = Len(a) + Len(b)
         /\ Len(a) \in Nat /\ Len(b) \in Nat
         /\ DOMAIN a = 1..Len(a) /\ DOMAIN b = 1..Len(b)
         /\ DOMAIN (a \o b) = 1..(Len(a) + Len(b))
         /\ \A i \in 1..Len(a) : (a \o b)[i] = a[i]
         /\ \A i \in 1..Len(b) : (a \o b)[Len(a) + i] = b[i]
<1> DEFINE S == {a[i] : i \in 1..Len(a)} \cup {b[i] : i \in 1..Len(b)}
<1>1. a \in [1..Len(a) -> S] /\ Len(a) \in Nat /\ b \in [1..Len(b) -> S] /\ Len(b) \in Nat
  BY DEF Proper
<1> HIDE DEF S
<1>2. a \in Seq(S) /\ b \in Seq(S)
  BY <1>1
<1>3. a \o b \in Seq(S)
  BY <1>2
<1>4. Proper(a \o b)
  BY <1>3, ProperIs
<1>q. QED
  BY <1>2, <1>4

LEMMA ProperTail ==
  ASSUME NEW a, Proper(a), a # <<>>
  PROVE  /\ Proper(Tail(a)) /\ Len(a) \in Nat \ {0} /\ Len(Tail(a)) = Len(a) - 1
         /\ DOMAIN a = 1..Len(a) /\ DOMAIN Tail(a) = 1..(Len(a) - 1)
         /\ Head(a) = a[1]
         /\ \A i \in 1..(Len(a) - 1) : Tail(a)[i] = a[i + 1]
<1>1. PICK S : a \in Seq(S)
  BY ProperIs
<1>2. Tail(a) \in Seq(S)
  BY <1>1
<1>3. Proper(Tail(a))
  BY <1>2, ProperIs
<1>q. QED
  BY <1>1, <1>3

LEMMA ProperSub ==
  ASSUME NEW a, Proper(a), NEW k \in 0..Len(a)
  PROVE  /\ Proper(SubSeq(a, 1, k)) /\ Len(SubSeq(a, 1, k)) = k
         /\ DOMAIN SubSeq(a, 1, k) = 1..k /\ DOMAIN a = 1..Len(a) /\ Len(a) \in Nat
         /\ \A i \in 1..k : SubSeq(a, 1, k)[i] = a[i]
<1>1. PICK S : a \in Seq(S)
  BY ProperIs
<1>2. SubSeq(a, 1, k) \in Seq(S) /\ Len(SubSeq(a, 1, k)) = k
  BY <1>1
<1>3. Proper(SubSeq(a, 1, k))
  BY <1>2, ProperIs
<1>q. QED
  BY <1>1, <1>2, <1>3

-----------------------------------------------------------------------------
(* The core's event channel: what it holds is well formed, and each client  *)
(* connects once and says hello once.                                       *)
WellFormed(e) ==
  /\ e[1] \in Clients
  /\ e = <<e[1], e[2]>>
  /\ e[2].type = "new" => e[2] = Plain("new")
  /\ e[2].type \in {"hello", "resize"} => e[2].rows \in Int
Formed(q) == Proper(q) /\ \A i \in DOMAIN q : WellFormed(q[i])
OnlyOnce(q) ==
  \A i, j \in DOMAIN q :
    q[i][1] = q[j][1] /\ q[i][2].type = q[j][2].type /\ q[i][2].type \in {"new", "hello"} => i = j
Holds(q, c, type) == \E i \in DOMAIN q : q[i][1] = c /\ q[i][2].type = type

EventsOK == Formed(events)

(* The head of the channel is taken.                                        *)
LEMMA EventTaken ==
  ASSUME NEW q, Formed(q), q # <<>>
  PROVE  /\ Formed(Tail(q)) /\ WellFormed(Head(q))
         /\ Holds(q, Head(q)[1], Head(q)[2].type)
         /\ \A c, t : Holds(Tail(q), c, t) => Holds(q, c, t)
         /\ \A c, t : Holds(q, c, t) =>
              Holds(Tail(q), c, t) \/ (c = Head(q)[1] /\ t = Head(q)[2].type)
         /\ OnlyOnce(q) =>
              /\ OnlyOnce(Tail(q))
              /\ Head(q)[2].type \in {"new", "hello"} => ~Holds(Tail(q), Head(q)[1], Head(q)[2].type)
<1> DEFINE p == Tail(q)
<1>1. /\ Proper(p) /\ Len(q) \in Nat \ {0}
      /\ DOMAIN q = 1..Len(q) /\ DOMAIN p = 1..(Len(q) - 1)
      /\ Head(q) = q[1]
      /\ \A i \in 1..(Len(q) - 1) : p[i] = q[i + 1]
  BY ProperTail DEF Formed
<1> HIDE DEF p
<1>2. \A i \in DOMAIN p : i + 1 \in DOMAIN q /\ p[i] = q[i + 1]
  BY <1>1
<1>3. \A i \in DOMAIN q : i = 1 \/ (i - 1 \in DOMAIN p /\ p[i - 1] = q[i])
  BY <1>1
<1>4. 1 \in DOMAIN q
  BY <1>1
<1>5. Formed(p)
  BY <1>1, <1>2 DEF Formed
<1>6. \A c, t : Holds(p, c, t) => Holds(q, c, t)
  BY <1>2 DEF Holds
<1>7. \A c, t : Holds(q, c, t) => Holds(p, c, t) \/ (c = Head(q)[1] /\ t = Head(q)[2].type)
  BY <1>1, <1>3 DEF Holds
<1>8. WellFormed(Head(q)) /\ Holds(q, Head(q)[1], Head(q)[2].type)
  BY <1>1, <1>4 DEF Formed, Holds
<1>9. ASSUME OnlyOnce(q) PROVE OnlyOnce(p)
  <2>1. ASSUME NEW i \in DOMAIN p, NEW j \in DOMAIN p,
               p[i][1] = p[j][1], p[i][2].type = p[j][2].type, p[i][2].type \in {"new", "hello"}
        PROVE  i = j
    <3>1. i + 1 = j + 1
      BY <1>2, <1>9, <2>1 DEF OnlyOnce
    <3>q. QED
      BY <1>1, <3>1
  <2>q. QED
    BY <2>1 DEF OnlyOnce
<1>10. ASSUME OnlyOnce(q), Head(q)[2].type \in {"new", "hello"}, Holds(p, Head(q)[1], Head(q)[2].type)
       PROVE  FALSE
  <2>1. PICK i \in DOMAIN p : p[i][1] = Head(q)[1] /\ p[i][2].type = Head(q)[2].type
    BY <1>10 DEF Holds
  <2>2. i + 1 = 1 /\ i \in 1..(Len(q) - 1)
    BY <1>1, <1>2, <1>4, <1>10, <2>1 DEF OnlyOnce
  <2>q. QED
    BY <1>1, <2>2
<1>q. QED
  BY <1>5, <1>6, <1>7, <1>8, <1>9, <1>10 DEF p

(* ... and one is put at its end.                                           *)
LEMMA EventAdded ==
  ASSUME NEW q, Formed(q), NEW c \in Clients, NEW m, WellFormed(<<c, m>>)
  PROVE  /\ Formed(q \o <<<<c, m>>>>)
         /\ \A d, t : Holds(q \o <<<<c, m>>>>, d, t) <=> Holds(q, d, t) \/ (d = c /\ t = m.type)
         /\ OnlyOnce(q) /\ (m.type \in {"new", "hello"} => ~Holds(q, c, m.type))
              => OnlyOnce(q \o <<<<c, m>>>>)
<1> DEFINE one == <<<<c, m>>>>
           p == q \o one
<1>1. Proper(one) /\ Len(one) = 1 /\ one[1] = <<c, m>>
  BY ProperShort
<1> HIDE DEF one
<1>0. Proper(q)
  BY DEF Formed
<1> HIDE DEF p
<1>x. /\ Proper(p) /\ Len(p) = Len(q) + Len(one) /\ Len(q) \in Nat
      /\ DOMAIN q = 1..Len(q) /\ DOMAIN p = 1..(Len(q) + Len(one))
      /\ \A i \in 1..Len(q) : p[i] = q[i]
      /\ \A i \in 1..Len(one) : p[Len(q) + i] = one[i]
  <2>1. Proper(q \o one)
    BY <1>0, <1>1, ProperConcat
  <2>2. DOMAIN (q \o one) = 1..(Len(q) + Len(one)) /\ DOMAIN q = 1..Len(q)
    BY <1>0, <1>1, ProperConcat
  <2>3. Len(q \o one) = Len(q) + Len(one) /\ Len(q) \in Nat
    BY <1>0, <1>1, ProperConcat
  <2>4. \A i \in 1..Len(q) : (q \o one)[i] = q[i]
    BY <1>0, <1>1, ProperConcat
  <2>5. \A i \in 1..Len(one) : (q \o one)[Len(q) + i] = one[i]
    BY <1>0, <1>1, ProperConcat
  <2>q. QED
    BY <2>1, <2>2, <2>3, <2>4, <2>5 DEF p
<1>2. /\ Proper(p) /\ Len(q) \in Nat /\ DOMAIN q = 1..Len(q) /\ DOMAIN p = 1..(Len(q) + 1)
      /\ \A i \in 1..Len(q) : p[i] = q[i]
      /\ p[Len(q) + 1] = <<c, m>>
  BY <1>1, <1>x
<1>3. \A i \in DOMAIN p : i \in DOMAIN q \/ i = Len(q) + 1
  BY <1>2
<1>4. \A i \in DOMAIN q : i \in DOMAIN p /\ p[i] = q[i]
  BY <1>2
<1>5. Len(q) + 1 \in DOMAIN p
  BY <1>2
<1>6. \A d, t : Holds(p, d, t) <=> Holds(q, d, t) \/ (d = c /\ t = m.type)
  BY <1>2, <1>3, <1>4, <1>5 DEF Holds
<1>7. Formed(p)
  BY <1>2, <1>3, <1>4 DEF Formed
<1>8. ASSUME OnlyOnce(q), m.type \in {"new", "hello"} => ~Holds(q, c, m.type),
             NEW i \in DOMAIN p, NEW j \in DOMAIN p,
             p[i][1] = p[j][1], p[i][2].type = p[j][2].type, p[i][2].type \in {"new", "hello"}
      PROVE  i = j
  <2>1. CASE i \in DOMAIN q /\ j \in DOMAIN q
    BY <1>4, <1>8, <2>1 DEF OnlyOnce
  <2>2. CASE i \in DOMAIN q /\ j = Len(q) + 1
    BY <1>2, <1>4, <1>8, <2>2 DEF Holds
  <2>3. CASE j \in DOMAIN q /\ i = Len(q) + 1
    BY <1>2, <1>4, <1>8, <2>3 DEF Holds
  <2>q. QED
    BY <1>3, <2>1, <2>2, <2>3
<1>9. OnlyOnce(q) /\ (m.type \in {"new", "hello"} => ~Holds(q, c, m.type)) => OnlyOnce(p)
  BY <1>8 DEF OnlyOnce
<1>q. QED
  BY <1>6, <1>7, <1>9 DEF one, p
-----------------------------------------------------------------------------
(* What the session's programs and the X server do to the picture.          *)
LEMMA PictureDrawn ==
  ASSUME PictureInv, UNCHANGED <<root, codeVars, client, exit>>,
         NEW rows \in SUBSET Rows(root), Damaged(rows), DOMAIN pix' = Rows(MaxRows),
         \A r \in Rows(root) : pix'[r] = pix[r] \/ r \in rows,
         DOMAIN counts' = DOMAIN counts, counts'.shrinks = counts.shrinks
  PROVE  PictureInv'
<1> USE DEF PictureInv
<1>1. damage' = damage \cup rows /\ (damage = {} /\ rows # {} => "damage" \in notes') /\ notes \subseteq notes'
  BY DEF Damaged
<1>2. ScreenOK' /\ PeerOK' /\ RaceOK'
  BY <1>1 DEF ScreenOK, PeerOK, RaceOK, RacesSurvived, codeVars
<1>3. FrameOK'
  BY <1>1 DEF FrameOK, ServedOf, codeVars
<1>q. QED
  BY <1>2, <1>3

LEMMA PaintPicture ==
  ASSUME PictureInv, NEW r, NEW colour, Paint(r, colour)
  PROVE  PictureInv'
<1>1. /\ Count("changes", MaxChanges) /\ r \in Rows(root) /\ pix' = [pix EXCEPT ![r] = colour]
      /\ Damaged({r}) /\ UNCHANGED <<root, codeVars, client, exit>>
  BY DEF Paint
<1>2. DOMAIN counts' = DOMAIN counts /\ counts'.shrinks = counts.shrinks
  BY <1>1, Counted DEF PictureInv
<1>3. DOMAIN pix' = Rows(MaxRows) /\ \A q \in Rows(root) : pix'[q] = pix[q] \/ q \in {r}
  BY <1>1 DEF PictureInv, ScreenOK
<1>q. QED
  BY <1>1, <1>2, <1>3, PictureDrawn

LEMMA ScrollPicture ==
  ASSUME PictureInv, Scroll
  PROVE  PictureInv'
<1>1. /\ Count("changes", MaxChanges) /\ DOMAIN pix' = Rows(MaxRows)
      /\ Damaged(Rows(root)) /\ UNCHANGED <<root, codeVars, client, exit>>
  BY DEF Scroll
<1>2. DOMAIN counts' = DOMAIN counts /\ counts'.shrinks = counts.shrinks
  BY <1>1, Counted DEF PictureInv
<1>q. QED
  BY <1>1, <1>2, PictureDrawn

LEMMA SessionResizesPicture ==
  ASSUME PictureInv, NEW n \in 1..MaxRows, SessionResizes(n)
  PROVE  PictureInv'
<1> USE DEF PictureInv
<1>1. /\ n # root /\ RootBecomes(n) /\ UNCHANGED <<codeVars, client, exit>>
      /\ counts' = [counts EXCEPT !.resizes = @ + 1, !.shrinks = IF n < root THEN @ + 1 ELSE @]
  BY DEF SessionResizes
<1>2. /\ RootStep /\ root' = n /\ "randr" \in notes'
  BY <1>1, RootMoves
<1>3. /\ DOMAIN counts' = DOMAIN counts
      /\ counts'.shrinks = IF n < root THEN counts.shrinks + 1 ELSE counts.shrinks
  BY <1>1 DEF ScreenOK
<1>4. ScreenOK' /\ PeerOK'
  BY <1>1, <1>2, <1>3 DEF ScreenOK, PeerOK, RootStep, codeVars
<1>5. served \in Int /\ root \in Int /\ n \in Int /\ stale \in Int /\ counts.shrinks \in Int /\ StaleLimit \in Int
  BY ServedIs, ScreenAssumption DEF ScreenOK
<1>6. stale' + (IF served' > root' THEN 1 ELSE 0) <= counts'.shrinks
  <2> HIDE DEF PictureInv
  <2>1. stale + (IF served > root THEN 1 ELSE 0) <= counts.shrinks
    BY DEF PictureInv, RaceOK
  <2>2. stale' = stale /\ served' = served
    BY <1>1 DEF codeVars
  <2>q. QED
    BY <1>2, <1>3, <1>5, <2>1, <2>2
<1>7. RaceOK'
  <2>1. exit = "x error" => counts.shrinks > StaleLimit
    BY DEF RaceOK, RacesSurvived
  <2>x. exit' = exit
    BY <1>1
  <2>y. counts'.shrinks >= counts.shrinks /\ counts'.shrinks \in Int
    BY <1>3, <1>5
  <2>2. ASSUME exit' = "x error" PROVE counts'.shrinks > StaleLimit
    <3>1. counts.shrinks > StaleLimit
      BY <2>1, <2>x, <2>2
    <3>q. QED
      BY <1>5, <2>y, <3>1
  <2>q. QED
    BY <1>6, <2>2 DEF RaceOK, RacesSurvived
<1>8. FrameOK'
  BY <1>1, <1>2 DEF FrameOK, RootStep, codeVars
<1>q. QED
  BY <1>4, <1>7, <1>8

LEMMA NotedPicture ==
  ASSUME PictureInv, NoteDamage
  PROVE  PictureInv'
<1>1. /\ dirty' = TRUE /\ notes' = notes \ {"damage"}
      /\ UNCHANGED <<root, pix, damage, size, served, ref, stale, client, exit, counts>>
  BY DEF NoteDamage
<1>2. ScreenOK' /\ PeerOK' /\ RaceOK'
  BY <1>1 DEF PictureInv, ScreenOK, PeerOK, RaceOK, RacesSurvived
<1>3. FrameOK'
  BY <1>1 DEF PictureInv, FrameOK, ServedOf
<1>q. QED
  BY <1>2, <1>3 DEF PictureInv

LEMMA NoteResizePicture ==
  ASSUME PictureInv, NoteResize
  PROVE  PictureInv'
<1> USE DEF PictureInv
<1>1. /\ notes' = notes \ {"randr"} /\ size' = root
      /\ Show(root, client, FALSE, ResizedTo(root))
      /\ UNCHANGED <<root, pix, damage, stale, exit, counts>>
  BY DEF NoteResize
<1>2. root \in Int /\ root >= 1 /\ served \in Int
  BY ServedIs DEF ScreenOK
<1>3. RootStep
  BY <1>1, RootStays
<1>4. ResizedTo(root) = <<>> \/ client.ready
  BY DEF ResizedTo
<1>5. /\ DOMAIN client = PeerFields /\ client.ready \in BOOLEAN /\ client.full \in BOOLEAN
      /\ client.dead \in BOOLEAN /\ (client.dead => client.ready)
  BY DEF PeerOK, PeerFields
<1>6. served' = ServedOf(root)
  BY <1>1 DEF Show
<1>7. ServedOf(root) = ServedOf(root')
  BY <1>1
<1>8. FrameOK' /\ PeerOK'
  BY <1>1, <1>2, <1>3, <1>4, <1>5, <1>7, ShowsFrame
<1>9. served' \in 1..CaptureRows /\ served' <= root
  BY <1>2, <1>6, ServedIs
<1>10. ScreenOK'
  BY <1>1, <1>9 DEF ScreenOK
<1>11. stale' + (IF served' > root' THEN 1 ELSE 0) <= counts'.shrinks
  <2>1. stale + (IF served > root THEN 1 ELSE 0) <= counts.shrinks /\ stale \in Int /\ counts.shrinks \in Int
    BY DEF RaceOK, ScreenOK
  <2>2. served' \in Int
    BY <1>9, ServedIs
  <2> HIDE DEF PictureInv
  <2>q. QED
    BY <1>1, <1>2, <1>9, <2>1, <2>2
<1>12. RaceOK'
  BY <1>1, <1>11 DEF RaceOK, RacesSurvived
<1>q. QED
  BY <1>8, <1>10, <1>12

-----------------------------------------------------------------------------
(* A resize a client asked for, and the one its hello asks for.             *)
LEMMA ResizePicture ==
  ASSUME PictureInv, NEW n \in Int, NEW cl, NEW greet \in BOOLEAN, ApplyResize(n, cl, greet),
         DOMAIN cl = PeerFields, cl.gen = client.gen, cl.full = client.full, cl.dead = client.dead,
         cl.ready \in BOOLEAN, client.ready => cl.ready,
         cl.ready => client.ready \/ (greet /\ client.gen # 0),
         greet => cl.ready, UNCHANGED <<stale, exit>>
  PROVE  PictureInv'
<1> USE DEF PictureInv
<1> DEFINE To(o) == IF o.ok THEN o.root ELSE served
           Msgs(o) == IF greet THEN <<HelloMsg(ServedOf(To(o)))>> ELSE ResizedTo(To(o))
<1>1. PICK o \in Resizes(n) :
        /\ RootBecomes(o.root) /\ size' = o.size
        /\ counts' = [counts EXCEPT !.faults = @ + o.fault]
        /\ Show(To(o), cl, greet, Msgs(o))
  BY DEF ApplyResize
<1>2. /\ o.root \in 1..MaxRows /\ o.size \in 1..MaxRows /\ o.ok \in BOOLEAN
      /\ o.ok \/ o.root >= root
  BY ResizesGive
<1>3. /\ RootStep /\ root' = o.root
      /\ o.root # root => "randr" \in notes'
      /\ "randr" \in notes => "randr" \in notes'
  BY <1>1, <1>2, RootMoves
<1>4. served \in 1..CaptureRows /\ root \in 1..MaxRows /\ served \in Int /\ root \in Int /\ o.root \in Int
  BY <1>2, ServedIs DEF ScreenOK
<1>5. To(o) \in Int
  BY <1>4
<1>6. Msgs(o) = <<>> \/ cl.ready
  BY DEF ResizedTo, PeerOK
<1>7. client.full \in BOOLEAN /\ client.dead \in BOOLEAN /\ (client.dead => client.ready)
  BY DEF PeerOK
<1>8. ServedOf(To(o)) = ServedOf(root') \/ "randr" \in notes'
  <2>1. CASE o.ok
    BY <1>3, <2>1
  <2>2. CASE ~o.ok /\ o.root = root
    <3>1. ServedOf(To(o)) = served
      BY <1>4, <2>2, ServedIs
    <3>2. ServedOf(root') = ServedOf(root)
      BY <1>3, <2>2
    <3>q. QED
      BY <1>3, <3>1, <3>2 DEF FrameOK
  <2>3. CASE o.root # root
    BY <1>3, <2>3
  <2>q. QED
    BY <2>1, <2>2, <2>3
<1> HIDE DEF Msgs
<1>9. served' = ServedOf(To(o))
  BY <1>1, <1>5, <1>6, <1>7, ShowsPicture
<1>10. FrameOK' /\ PeerOK'
  BY <1>1, <1>3, <1>5, <1>6, <1>8, ShowsFrame
<1>11. served' \in 1..CaptureRows
  BY <1>5, <1>9, ServedIs
<1>12. served' <= root' \/ (served' = served /\ root' >= root)
  <2>1. CASE o.ok
    <3>1. served' = ServedOf(o.root) /\ o.root >= 1
      BY <1>2, <1>9, <2>1
    <3>q. QED
      BY <1>3, <1>4, <3>1, ServedIs
  <2>2. CASE ~o.ok
    <3>1. served' = served
      BY <1>4, <1>9, <2>2, ServedIs
    <3>q. QED
      BY <1>2, <1>3, <2>2, <3>1
  <2>q. QED
    BY <2>1, <2>2
<1>13. DOMAIN counts' = DOMAIN counts /\ counts'.shrinks = counts.shrinks
  BY <1>1 DEF ScreenOK
<1>14. ScreenOK'
  BY <1>1, <1>2, <1>3, <1>11, <1>13 DEF ScreenOK, RootStep
<1>15. stale' + (IF served' > root' THEN 1 ELSE 0) <= counts'.shrinks
  <2>1. stale + (IF served > root THEN 1 ELSE 0) <= counts.shrinks /\ stale \in Int /\ counts.shrinks \in Int
    BY DEF RaceOK, ScreenOK
  <2>2. served' \in Int /\ root' \in Int
    BY <1>3, <1>4, <1>11, ServedIs
  <2> HIDE DEF PictureInv
  <2>q. QED
    BY <1>4, <1>12, <1>13, <2>1, <2>2
<1>16. RaceOK'
  BY <1>13, <1>15 DEF RaceOK, RacesSurvived
<1>q. QED
  BY <1>10, <1>14, <1>16
LEMMA ClientsPositive == 0 \notin Clients
<1>1. Cardinality(Clients) \in Nat
  BY ScreenAssumption, FS_CardinalityType
<1>q. QED
  BY <1>1, ScreenAssumption

LEMMA HelloPicture ==
  ASSUME PictureInv, EventsOK, HandleHello
  PROVE  PictureInv'
<1> DEFINE wish == IF Msg.rows > 0 THEN Msg.rows
                   ELSE IF client.gen = 1 THEN DefaultRows ELSE size
           cl == [client EXCEPT !.ready = TRUE]
<1>1. /\ ApplyResize(wish, cl, TRUE) /\ UNCHANGED <<stale, exit>>
      /\ events # <<>> /\ Msg.type = "hello" /\ Head(events)[1] = client.gen
  BY DEF HandleHello, Present, Heads, Msg
<1>2. WellFormed(Head(events))
  BY <1>1, EventTaken DEF EventsOK
<1>3. Msg.rows \in Int /\ client.gen # 0
  BY <1>1, <1>2, ClientsPositive DEF WellFormed, Msg
<1>4. wish \in Int
  BY <1>3, ScreenAssumption DEF PictureInv, ScreenOK
<1>5. /\ DOMAIN cl = PeerFields /\ cl.gen = client.gen /\ cl.full = client.full
      /\ cl.dead = client.dead /\ cl.ready = TRUE
  BY DEF PictureInv, PeerOK, PeerFields
<1> HIDE DEF wish, cl
<1>6. cl.ready \in BOOLEAN /\ cl.ready /\ TRUE \in BOOLEAN
  BY <1>5
<1>q. QED
  BY <1>1, <1>3, <1>4, <1>5, <1>6, ResizePicture

LEMMA ResizedPicture ==
  ASSUME PictureInv, EventsOK, HandleResize
  PROVE  PictureInv'
<1>1. /\ ApplyResize(Msg.rows, client, FALSE) /\ UNCHANGED <<stale, exit>>
      /\ events # <<>> /\ Msg.type = "resize"
  BY DEF HandleResize, Present, Heads, Msg
<1>2. WellFormed(Head(events))
  BY <1>1, EventTaken DEF EventsOK
<1>3. Msg.rows \in Int
  BY <1>1, <1>2 DEF WellFormed, Msg
<1>4. DOMAIN client = PeerFields /\ client.ready \in BOOLEAN /\ FALSE \in BOOLEAN
  BY DEF PictureInv, PeerOK, PeerFields
<1>q. QED
  BY <1>1, <1>3, <1>4, ResizePicture

LEMMA RefreshPicture ==
  ASSUME PictureInv, HandleRefresh
  PROVE  PictureInv'
<1> USE DEF PictureInv
<1>1. /\ Show(served, client, TRUE, <<>>)
      /\ UNCHANGED <<xVars, size, stale, exit, counts>>
  BY DEF HandleRefresh
<1>2. served \in 1..CaptureRows /\ served \in Int /\ ServedOf(served) = served
  BY ServedIs DEF ScreenOK
<1>3. served' = served
  BY <1>1, <1>2 DEF Show
<1>4. RootStep
  BY <1>1, RootStays DEF xVars
<1>5. DOMAIN client = PeerFields /\ client.ready \in BOOLEAN /\ TRUE \in BOOLEAN
  BY DEF PeerOK, PeerFields
<1>6. ServedOf(served) = ServedOf(root') \/ "randr" \in notes'
  BY <1>1, <1>2 DEF FrameOK, ServedOf, xVars
<1>7. client.ready => client.gen # 0
  BY DEF PeerOK
<1>8. FrameOK' /\ PeerOK'
  BY <1>1, <1>2, <1>4, <1>5, <1>6, <1>7, ShowsFrame
<1>9. ScreenOK' /\ RaceOK'
  BY <1>1, <1>3 DEF ScreenOK, RaceOK, RacesSurvived, xVars
<1>q. QED
  BY <1>8, <1>9

-----------------------------------------------------------------------------
(* A frame. The rows captured are served, and a capture that fails is of    *)
(* rows the root no longer has.                                             *)
LEMMA FrameRowsServed ==
  ASSUME NEW rects \in FrameRows
  PROVE  /\ rects \subseteq Rows(served)
         /\ rects = Rows(served) \/ (~client.full /\ rects = damage \cap Rows(served))
BY DEF FrameRows

LEMMA CaptureShrunk ==
  ASSUME ScreenOK, NEW rects \in FrameRows, ~(rects \subseteq Rows(root))
  PROVE  served > root
<1>1. PICK r \in rects : r \notin Rows(root)
  OBVIOUS
<1>2. r \in Rows(served)
  BY FrameRowsServed
<1>3. root \in Int /\ served \in Int
  BY ServedIs DEF ScreenOK
<1>q. QED
  BY <1>1, <1>2, <1>3 DEF Rows

LEMMA CaptureRacesPicture ==
  ASSUME PictureInv, CaptureRaces
  PROVE  PictureInv'
<1> USE DEF PictureInv
<1>1. /\ Due /\ \E rects \in FrameRows : ~(rects \subseteq Rows(root))
      /\ stale' = stale + 1 /\ damage' = {} /\ size' = root
      /\ Show(root, client, TRUE, ResizedTo(root))
      /\ UNCHANGED <<root, pix, notes, exit, counts>>
  BY DEF CaptureRaces
<1>2. served > root
  BY <1>1, CaptureShrunk
<1>3. root \in Int /\ root >= 1 /\ served \in Int
  BY ServedIs DEF ScreenOK
<1>4. ResizedTo(root) = <<>> \/ client.ready
  BY DEF ResizedTo
<1>5. /\ DOMAIN client = PeerFields /\ client.ready \in BOOLEAN /\ client.full \in BOOLEAN
      /\ client.dead \in BOOLEAN /\ (client.dead => client.ready) /\ TRUE \in BOOLEAN
      /\ client.gen # 0
  BY <1>1 DEF PeerOK, PeerFields, Due
<1>6. /\ served' = ServedOf(root)
      /\ DOMAIN client' = PeerFields /\ client'.gen = client.gen /\ client'.ready = client.ready
      /\ client'.full \in BOOLEAN /\ client'.dead \in BOOLEAN
      /\ client'.full /\ (client'.dead => client'.ready)
  <2> DEFINE whole == TRUE \/ ServedOf(root) # served
             cl == [client EXCEPT !.full = client.gen # 0 /\ (@ \/ whole)]
  <2>1. /\ served' = ServedOf(root)
        /\ \E k \in Accepted(cl, ResizedTo(root)) : Send(cl, ResizedTo(root), k)
    BY <1>1, <1>5 DEF Show
  <2>2. /\ DOMAIN cl = PeerFields /\ cl.gen = client.gen /\ cl.ready = client.ready
        /\ cl.dead = client.dead /\ cl.full
        /\ cl.full \in BOOLEAN
    BY <1>5 DEF PeerFields
  <2> HIDE DEF cl, PictureInv
  <2>3. PICK k : client' = [cl EXCEPT !.dead = @ \/ k < Len(ResizedTo(root))]
    BY <2>1 DEF Send
  <2>4. /\ DOMAIN client' = PeerFields /\ client'.gen = client.gen /\ client'.ready = client.ready
        /\ client'.full = cl.full /\ client'.dead \in BOOLEAN
    BY <1>5, <2>2, <2>3 DEF PeerFields
  <2>5. client.ready
    BY <1>1 DEF Due
  <2>q. QED
    BY <2>1, <2>2, <2>4, <2>5
<1>7. served' \in 1..CaptureRows /\ served' <= root
  BY <1>3, <1>6, ServedIs
<1>8. ScreenOK'
  BY <1>1, <1>7 DEF ScreenOK
<1>9. PeerOK'
  BY <1>6 DEF PeerOK, PeerFields
<1>10. FrameOK'
  BY <1>1, <1>6 DEF FrameOK, ServedOf
<1>11. stale' + (IF served' > root' THEN 1 ELSE 0) <= counts'.shrinks
  <2>1. stale + (IF served > root THEN 1 ELSE 0) <= counts.shrinks /\ stale \in Int /\ counts.shrinks \in Int
    BY DEF RaceOK, ScreenOK
  <2>2. served' \in Int
    BY <1>7, ServedIs
  <2> HIDE DEF PictureInv
  <2>q. QED
    BY <1>1, <1>2, <1>3, <1>7, <2>1, <2>2
<1>12. RaceOK'
  BY <1>1, <1>11 DEF RaceOK, RacesSurvived
<1>q. QED
  BY <1>8, <1>9, <1>10, <1>12

LEMMA CaptureFailsPicture ==
  ASSUME PictureInv, CaptureFails
  PROVE  PictureInv'
<1> USE DEF PictureInv
<1>1. /\ \E rects \in FrameRows : ~(rects \subseteq Rows(root))
      /\ stale >= StaleLimit /\ UNCHANGED <<xVars, codeVars, client, counts>>
  BY DEF CaptureFails
<1>2. served > root
  BY <1>1, CaptureShrunk
<1>3. counts.shrinks > StaleLimit
  <2>1. stale + (IF served > root THEN 1 ELSE 0) <= counts.shrinks /\ stale \in Int /\ counts.shrinks \in Int
    BY DEF RaceOK, ScreenOK
  <2>2. StaleLimit \in Int
    BY ScreenAssumption
  <2> HIDE DEF PictureInv
  <2>q. QED
    BY <1>1, <1>2, <2>1, <2>2
<1>4. ScreenOK' /\ PeerOK' /\ RaceOK'
  BY <1>1, <1>3 DEF ScreenOK, PeerOK, RaceOK, RacesSurvived, xVars, codeVars
<1>5. FrameOK'
  BY <1>1 DEF FrameOK, ServedOf, xVars, codeVars
<1>q. QED
  BY <1>4, <1>5

Touched(m) == UNION {DOMAIN m.copies, Range(m.copies), DOMAIN m.tiles}

LEMMA ScrollsWithin ==
  ASSUME NEW rects, NEW copies \in {<<>>} \cup Scrolls(rects)
  PROVE  DOMAIN copies \subseteq rects /\ Range(copies) \subseteq rects
<1>1. CASE copies = <<>>
  <2>1. DOMAIN copies = {}
    BY <1>1
  <2>q. QED
    BY <2>1 DEF Range
<1>2. CASE copies # <<>>
  <2>1. PICK d : copies = [r \in {r \in rects : r - d \in rects /\ ref[r - d] = pix[r]} |-> r - d]
    BY <1>2 DEF Scrolls
  <2>q. QED
    BY <2>1 DEF Range
<1>q. QED
  BY <1>1, <1>2

LEMMA PartsWithin ==
  ASSUME NEW R, NEW copies, NEW tiles, DOMAIN copies \subseteq R, Range(copies) \subseteq R,
         DOMAIN tiles \subseteq R, NEW parts \in Parts(copies, tiles)
  PROVE  /\ Proper(parts) /\ DOMAIN parts = 1..Len(parts) /\ Len(parts) \in {1, 2}
         /\ \A i \in DOMAIN parts : /\ DOMAIN parts[i].copies \subseteq R
                                    /\ Range(parts[i].copies) \subseteq R
                                    /\ DOMAIN parts[i].tiles \subseteq R
<1>1. CASE parts = <<[copies |-> copies, tiles |-> tiles]>>
  <2> DEFINE p == [copies |-> copies, tiles |-> tiles]
  <2>1. p.copies = copies /\ p.tiles = tiles /\ parts = <<p>>
    BY <1>1
  <2> HIDE DEF p
  <2>2. Proper(parts) /\ Len(parts) = 1 /\ parts[1] = p /\ DOMAIN parts = {1}
    BY <2>1, ProperShort
  <2>q. QED
    BY <2>1, <2>2
<1>2. CASE parts # <<[copies |-> copies, tiles |-> tiles]>>
  <2>1. PICK k \in DOMAIN tiles :
          parts = <<[copies |-> copies, tiles |-> [r \in {r \in DOMAIN tiles : r < k} |-> tiles[r]]],
                    [copies |-> <<>>, tiles |-> [r \in DOMAIN tiles \ {r \in DOMAIN tiles : r < k} |-> tiles[r]]]>>
    BY <1>2 DEF Parts
  <2> DEFINE p == [copies |-> copies, tiles |-> [r \in {r \in DOMAIN tiles : r < k} |-> tiles[r]]]
             q == [copies |-> <<>>, tiles |-> [r \in DOMAIN tiles \ {r \in DOMAIN tiles : r < k} |-> tiles[r]]]
  <2>2. /\ p.copies = copies /\ DOMAIN p.tiles \subseteq DOMAIN tiles
        /\ q.copies = <<>> /\ DOMAIN q.tiles \subseteq DOMAIN tiles /\ parts = <<p, q>>
    BY <2>1
  <2>3. DOMAIN q.copies = {} /\ Range(q.copies) = {}
    BY <2>2 DEF Range
  <2> HIDE DEF p, q
  <2>4. parts \in Seq({p, q}) /\ Len(parts) = 2 /\ parts[1] = p /\ parts[2] = q /\ DOMAIN parts = {1, 2}
    BY <2>2
  <2>5. Proper(parts)
    BY <2>4, ProperIs
  <2>q. QED
    BY <2>2, <2>3, <2>4, <2>5
<1>q. QED
  BY <1>1, <1>2

(* What goes out with a frame: updates of rows that are served, all of them *)
(* unless the client cannot take them, and those that go are in flight; and *)
(* the reference follows the frame.                                         *)
FrameId(i) == (client.next + i - 1) % FrameIds
FrameGoes(msgs, k) ==
  /\ Proper(msgs) /\ DOMAIN msgs = 1..Len(msgs) /\ k \in 0..Len(msgs) /\ Len(msgs) <= 2
  /\ \A i \in DOMAIN msgs : msgs[i].type = "update" /\ Touched(msgs[i]) \subseteq Rows(served)
                             /\ msgs[i].id = FrameId(i)
  /\ \/ /\ down' = down /\ k = Len(msgs)
        /\ client'.flight = client.flight /\ client'.next = client.next
     \/ /\ down' = [down EXCEPT ![client.gen] = @ \o SubSeq(msgs, 1, k)]
        /\ client'.flight = client.flight \o [i \in 1..k |-> FrameId(i)]
        /\ client'.next = FrameId(k + 1)
  /\ DOMAIN client' = PeerFields /\ client'.gen = client.gen /\ client'.ready = client.ready
  /\ client'.window = client.window
  /\ client'.full = FALSE /\ client'.dead \in BOOLEAN /\ (client'.dead <=> k < Len(msgs))

LEMMA FrameSent ==
  ASSUME PeerOK, SendFrame
  PROVE  /\ \E rects \in FrameRows :
              /\ rects \subseteq Rows(root)
              /\ ref' = [r \in Rows(served) |-> IF r \in rects THEN pix[r] ELSE ref[r]]
         /\ \E msgs, k : FrameGoes(msgs, k)
<1> DEFINE cl == [client EXCEPT !.full = FALSE]
           Copies(rects) == IF client.full THEN {<<>>} ELSE Scrolls(rects)
           Msgs(parts) == [i \in DOMAIN parts |-> UpdateMsg(FrameId(i), parts[i].copies, parts[i].tiles)]
<1>1. PICK rects \in FrameRows :
        /\ rects \subseteq Rows(root)
        /\ ref' = [r \in Rows(served) |-> IF r \in rects THEN pix[r] ELSE ref[r]]
        /\ \E copies \in Copies(rects) :
             IF DOMAIN copies = {} /\ DOMAIN Tiles(rects, copies) = {}
             THEN client' = cl /\ UNCHANGED down
             ELSE \E parts \in Parts(copies, Tiles(rects, copies)) :
                    \E k \in Accepted(cl, Msgs(parts)) :
                      Send([cl EXCEPT !.flight = @ \o [i \in 1..k |-> FrameId(i)], !.next = FrameId(k + 1)],
                           Msgs(parts), k)
  BY DEF SendFrame, FrameId
<1>2. PICK copies \in Copies(rects) :
        IF DOMAIN copies = {} /\ DOMAIN Tiles(rects, copies) = {}
        THEN client' = cl /\ UNCHANGED down
        ELSE \E parts \in Parts(copies, Tiles(rects, copies)) :
               \E k \in Accepted(cl, Msgs(parts)) :
                 Send([cl EXCEPT !.flight = @ \o [i \in 1..k |-> FrameId(i)], !.next = FrameId(k + 1)],
                      Msgs(parts), k)
  BY <1>1
<1>3. /\ DOMAIN cl = PeerFields /\ cl.gen = client.gen /\ cl.ready = client.ready
      /\ cl.flight = client.flight /\ cl.next = client.next /\ cl.window = client.window
      /\ cl.full = FALSE /\ cl.dead = FALSE /\ client.dead \in BOOLEAN
  BY DEF PeerOK, PeerFields, SendFrame, Due
<1> HIDE DEF cl
<1>4. \E msgs, k : FrameGoes(msgs, k)
  <2>1. CASE DOMAIN copies = {} /\ DOMAIN Tiles(rects, copies) = {}
    <3> DEFINE none == <<>>
    <3>1. Proper(none) /\ Len(none) = 0 /\ DOMAIN none = {}
      BY ProperShort
    <3> HIDE DEF none
    <3>2. client' = cl /\ down' = down
      BY <1>2, <2>1
    <3>3. (0 < Len(none)) = FALSE /\ 0 \in 0..Len(none) /\ 1..Len(none) = {} /\ Len(none) <= 2
      BY <3>1
    <3>4. FrameGoes(none, 0)
      BY <1>3, <3>1, <3>2, <3>3 DEF FrameGoes
    <3>q. QED
      BY <3>4
  <2>2. CASE ~(DOMAIN copies = {} /\ DOMAIN Tiles(rects, copies) = {})
    <3>0. PICK parts \in Parts(copies, Tiles(rects, copies)) :
            \E k \in Accepted(cl, Msgs(parts)) :
              Send([cl EXCEPT !.flight = @ \o [i \in 1..k |-> FrameId(i)], !.next = FrameId(k + 1)], Msgs(parts), k)
      BY <1>2, <2>2
    <3>1. PICK k \in Accepted(cl, Msgs(parts)) :
            Send([cl EXCEPT !.flight = @ \o [i \in 1..k |-> FrameId(i)], !.next = FrameId(k + 1)], Msgs(parts), k)
      BY <3>0
    <3>2. rects \subseteq Rows(served)
      BY FrameRowsServed
    <3>3. /\ DOMAIN copies \subseteq Rows(served) /\ Range(copies) \subseteq Rows(served)
          /\ DOMAIN Tiles(rects, copies) \subseteq Rows(served)
      <4>1. copies \in {<<>>} \cup Scrolls(rects)
        OBVIOUS
      <4>2. DOMAIN Tiles(rects, copies) \subseteq rects
        BY DEF Tiles
      <4>q. QED
        BY <3>2, <4>1, <4>2, ScrollsWithin
    <3>4. /\ Proper(parts) /\ DOMAIN parts = 1..Len(parts) /\ Len(parts) <= 2
          /\ \A i \in DOMAIN parts : /\ DOMAIN parts[i].copies \subseteq Rows(served)
                                     /\ Range(parts[i].copies) \subseteq Rows(served)
                                     /\ DOMAIN parts[i].tiles \subseteq Rows(served)
      <4>1. /\ Proper(parts) /\ DOMAIN parts = 1..Len(parts) /\ Len(parts) \in {1, 2}
            /\ \A i \in DOMAIN parts : /\ DOMAIN parts[i].copies \subseteq Rows(served)
                                       /\ Range(parts[i].copies) \subseteq Rows(served)
                                       /\ DOMAIN parts[i].tiles \subseteq Rows(served)
        BY <3>3, PartsWithin
      <4>2. Len(parts) <= 2
        BY <4>1
      <4>q. QED
        BY <4>1, <4>2
    <3>5. Len(parts) \in Nat
      BY <3>4 DEF Proper
    <3> DEFINE msgs == Msgs(parts)
    <3>6. DOMAIN msgs = 1..Len(parts)
      BY <3>4
    <3>7. Len(msgs) = Len(parts) /\ Proper(msgs)
      <4>1. msgs \in [1..Len(parts) -> {msgs[i] : i \in 1..Len(parts)}]
        BY <3>6
      <4>2. msgs \in Seq({msgs[i] : i \in 1..Len(parts)})
        BY <3>5, <4>1
      <4> HIDE DEF msgs
      <4>3. Len(msgs) = Len(parts)
        BY <3>5, <3>6, <4>2
      <4>q. QED
        BY <4>2, <4>3, ProperIs
    <3>8. ASSUME NEW i \in DOMAIN msgs
          PROVE  /\ msgs[i].type = "update" /\ Touched(msgs[i]) \subseteq Rows(served)
                 /\ msgs[i].id = FrameId(i)
      <4>1. /\ msgs[i].type = "update" /\ msgs[i].copies = parts[i].copies
            /\ msgs[i].tiles = parts[i].tiles /\ msgs[i].id = FrameId(i)
        BY <3>8 DEF UpdateMsg
      <4>q. QED
        BY <3>4, <3>6, <4>1, <3>8 DEF Touched
    <3>9. k \in 0..Len(msgs)
      BY <3>1, <3>5, <3>7, <1>3 DEF Accepted
    <3> HIDE DEF msgs
    <3> DEFINE cm == [cl EXCEPT !.flight = @ \o [i \in 1..k |-> FrameId(i)], !.next = FrameId(k + 1)]
    <3>10. /\ DOMAIN cm = PeerFields /\ cm.gen = client.gen /\ cm.ready = client.ready
           /\ cm.full = FALSE /\ cm.dead = FALSE /\ cm.window = client.window
           /\ cm.flight = client.flight \o [i \in 1..k |-> FrameId(i)] /\ cm.next = FrameId(k + 1)
      BY <1>3 DEF PeerFields
    <3>11. Send(cm, msgs, k)
      BY <3>1 DEF msgs
    <3> HIDE DEF cm
    <3>12. /\ down' = [down EXCEPT ![client.gen] = @ \o SubSeq(msgs, 1, k)]
           /\ client' = [cm EXCEPT !.dead = @ \/ k < Len(msgs)]
      BY <3>10, <3>11 DEF Send
    <3>13. /\ DOMAIN client' = PeerFields /\ client'.gen = client.gen /\ client'.ready = client.ready
           /\ client'.full = FALSE /\ client'.dead \in BOOLEAN /\ (client'.dead <=> k < Len(msgs))
           /\ client'.flight = cm.flight /\ client'.next = cm.next /\ client'.window = cm.window
      BY <3>10, <3>12 DEF PeerFields
    <3>14. FrameGoes(msgs, k)
      <4>1. /\ client'.flight = client.flight \o [i \in 1..k |-> FrameId(i)]
            /\ client'.next = FrameId(k + 1) /\ client'.window = client.window
        BY <3>10, <3>13
      <4>2. /\ Proper(msgs) /\ DOMAIN msgs = 1..Len(msgs) /\ k \in 0..Len(msgs) /\ Len(msgs) <= 2
        BY <3>4, <3>6, <3>7, <3>9
      <4>q. QED
        BY <3>8, <3>12, <3>13, <4>1, <4>2 DEF FrameGoes
    <3>q. QED
      BY <3>14
  <2>q. QED
    BY <2>1, <2>2
<1>q. QED
  BY <1>1, <1>4

LEMMA SendFramePicture ==
  ASSUME PictureInv, SendFrame
  PROVE  PictureInv'
<1> USE DEF PictureInv
<1>1. PICK rects \in FrameRows :
        /\ rects \subseteq Rows(root)
        /\ ref' = [r \in Rows(served) |-> IF r \in rects THEN pix[r] ELSE ref[r]]
  BY FrameSent
<1>2. PICK msgs, k : FrameGoes(msgs, k)
  BY FrameSent
<1>3. /\ Due /\ damage' = {} /\ dirty' = FALSE /\ stale' = 0
      /\ UNCHANGED <<root, pix, notes, size, served, exit, counts>>
  <2>1. /\ Due /\ damage' = {} /\ dirty' = FALSE /\ stale' = 0
        /\ UNCHANGED <<root, pix, notes, size, served, events, shut, phase, shown, exit, counts>>
    BY ZenonT(60) DEF SendFrame
  <2>q. QED
    BY <2>1
<1>4. /\ DOMAIN client' = PeerFields /\ client'.gen = client.gen /\ client'.ready = client.ready
      /\ client'.full = FALSE /\ client'.dead \in BOOLEAN
  BY <1>2 DEF FrameGoes
<1>5. client.ready
  BY <1>3 DEF Due
<1>6. PeerOK'
  BY <1>4, <1>5 DEF PeerOK, PeerFields
<1>7. ScreenOK'
  BY <1>3 DEF ScreenOK
<1>8. served = ServedOf(root)' \/ "randr" \in notes'
  BY <1>3 DEF FrameOK, ServedOf
<1>9. ASSUME NEW r \in Rows(served') \cap Rows(root')
      PROVE  ref'[r] = pix'[r]
  <2>1. r \in Rows(served) /\ r \in Rows(root)
    BY <1>3, <1>9
  <2>2. ref'[r] = IF r \in rects THEN pix[r] ELSE ref[r]
    BY <1>1, <2>1
  <2>3. r \notin rects => ~client.full /\ r \notin damage
    BY <2>1, FrameRowsServed
  <2>4. r \notin rects => ref[r] = pix[r]
    BY <1>5, <2>1, <2>3 DEF FrameOK
  <2>q. QED
    BY <1>3, <2>2, <2>4
<1>10. FrameOK'
  BY <1>3, <1>8, <1>9 DEF FrameOK
<1>11. stale' + (IF served' > root' THEN 1 ELSE 0) <= counts'.shrinks
  <2>1. stale + (IF served > root THEN 1 ELSE 0) <= counts.shrinks /\ stale \in Nat /\ counts.shrinks \in Int
    BY DEF RaceOK, ScreenOK
  <2> HIDE DEF PictureInv
  <2>q. QED
    BY <1>3, <2>1
<1>12. RaceOK'
  BY <1>3, <1>11 DEF RaceOK, RacesSurvived
<1>q. QED
  BY <1>6, <1>7, <1>10, <1>12

-----------------------------------------------------------------------------
(* A client that is dropped, replaced or acknowledges leaves the picture as *)
(* it is, and whoever comes next is owed a whole frame with its greeting.   *)
LEMMA DropGives ==
  ASSUME NEW notice, NEW rest, NEW next, NEW why, Drop(notice, rest, next, why)
  PROVE  client' = next /\ exit' = why
BY DEF Drop

LEMMA ReplacedPicture ==
  ASSUME PictureInv, NEW c \in Clients, client' \in {None, Fresh(c)}, exit' # "x error",
         UNCHANGED <<xVars, codeVars>>,
         DOMAIN counts' = DOMAIN counts, counts'.shrinks = counts.shrinks
  PROVE  PictureInv'
<1>1. /\ DOMAIN client' = PeerFields /\ client'.gen \in {0} \cup Clients
      /\ client'.ready \in BOOLEAN /\ client'.full \in BOOLEAN /\ client'.dead \in BOOLEAN
      /\ ~client'.ready /\ ~client'.dead
  BY NobodyYet
<1>2. PeerOK'
  BY <1>1 DEF PeerOK, PeerFields
<1>q. QED
  BY <1>1, <1>2, PictureStays

LEMMA SilentPicture ==
  ASSUME PictureInv, UNCHANGED <<xVars, codeVars, client, exit>>,
         DOMAIN counts' = DOMAIN counts, counts'.shrinks = counts.shrinks
  PROVE  PictureInv'
<1>1. PeerOK'
  BY DEF PictureInv, PeerOK
<1>q. QED
  BY <1>1, PictureStays

LEMMA AckPicture ==
  ASSUME PictureInv, HandleAck
  PROVE  PictureInv'
<1>1. UNCHANGED <<xVars, codeVars, exit, counts>>
  BY DEF HandleAck
<1>2. \/ client' = client
      \/ \E a, b : client' = [client EXCEPT !.flight = a, !.window = b]
  BY DEF HandleAck
<1>3. PeerOK' /\ client'.ready = client.ready /\ client'.full = client.full
  <2>1. CASE client' = client
    BY <2>1 DEF PictureInv, PeerOK
  <2>2. CASE \E a, b : client' = [client EXCEPT !.flight = a, !.window = b]
    <3>1. PICK a, b : client' = [client EXCEPT !.flight = a, !.window = b]
      BY <2>2
    <3>q. QED
      BY <3>1 DEF PictureInv, PeerOK
  <2>q. QED
    BY <1>2, <2>1, <2>2
<1>q. QED
  BY <1>1, <1>3, PictureStays

LEMMA NoneOnError == AfterDisconnect # "x error"
BY DEF AfterDisconnect

LEMMA HandlePicture ==
  ASSUME PictureInv, EventsOK, Handle
  PROVE  PictureInv'
<1>1. CASE HandleStale
  BY <1>1, SilentPicture DEF HandleStale
<1>2. CASE HandleNew
  <2>1. /\ client' = Fresh(Head(events)[1]) /\ exit' = "none" /\ events # <<>>
        /\ UNCHANGED <<xVars, codeVars, counts>>
    BY <1>2, DropGives DEF HandleNew, Heads
  <2>2. Head(events)[1] \in Clients
    BY <2>1, EventTaken DEF EventsOK, WellFormed
  <2>q. QED
    BY <2>1, <2>2, ReplacedPicture
<1>3. CASE HandleClosed \/ HandleRefused
  <2>1. /\ client' = None /\ exit' # "x error" /\ events # <<>>
        /\ UNCHANGED <<xVars, codeVars, counts>>
    BY <1>3, DropGives, NoneOnError DEF HandleClosed, HandleRefused, Present, Heads
  <2>2. Head(events)[1] \in Clients
    BY <2>1, EventTaken DEF EventsOK, WellFormed
  <2>q. QED
    BY <2>1, <2>2, ReplacedPicture
<1>q. QED
  BY <1>1, <1>2, <1>3, HelloPicture, ResizedPicture, RefreshPicture, AckPicture DEF Handle

LEMMA DropsPicture ==
  ASSUME PictureInv, DropDead \/ Expire \/ Quit
  PROVE  PictureInv'
<1>1. /\ client' = None /\ exit' # "x error" /\ UNCHANGED <<xVars, codeVars>>
      /\ UNCHANGED counts \/ Count("faults", MaxFaults)
  <2>1. CASE DropDead
    BY <2>1, DropGives, NoneOnError DEF DropDead
  <2>2. CASE Expire
    BY <2>2, DropGives, NoneOnError DEF Expire
  <2>3. CASE Quit
    <3>1. /\ Drop(<<Plain("disconnect")>>, events, None, "shut down")
          /\ Count("faults", MaxFaults) /\ UNCHANGED <<xVars, codeVars>>
      BY <2>3 DEF Quit
    <3>2. client' = None /\ exit' = "shut down"
      BY <3>1, DropGives, Zenon
    <3>q. QED
      BY <3>1, <3>2
  <2>q. QED
    BY <2>1, <2>2, <2>3
<1>2. DOMAIN counts' = DOMAIN counts /\ counts'.shrinks = counts.shrinks
  BY <1>1, Counted DEF PictureInv
<1>3. PeerOK' /\ ~client'.ready
  <2>1. /\ DOMAIN client' = PeerFields /\ client'.gen = 0 /\ ~client'.ready /\ ~client'.dead
        /\ client'.ready \in BOOLEAN /\ client'.full \in BOOLEAN /\ client'.dead \in BOOLEAN
    BY <1>1, NobodyYet
  <2>q. QED
    BY <2>1 DEF PeerOK, PeerFields
<1>q. QED
  BY <1>1, <1>2, <1>3, PictureStays

LEMMA ClientPicture ==
  ASSUME PictureInv, NEW c \in Clients, Connect(c) \/ Ask(c) \/ Leave(c) \/ ClientStep(c)
  PROVE  PictureInv'
<1>1. /\ UNCHANGED <<xVars, codeVars, client, exit>>
      /\ UNCHANGED counts \/ Count("requests", MaxRequests) \/ Count("faults", MaxFaults)
  BY DEF Connect, Ask, Leave, ClientStep, Hello, Greeted, Receive, SeesEnd
<1>2. DOMAIN counts' = DOMAIN counts /\ counts'.shrinks = counts.shrinks
  BY <1>1, Counted DEF PictureInv
<1>q. QED
  BY <1>1, <1>2, SilentPicture

-----------------------------------------------------------------------------
(* What each step puts into the event channel.                              *)
LEMMA Wellformed ==
  ASSUME NEW c \in Clients
  PROVE  /\ WellFormed(<<c, Plain("closed")>>) /\ Plain("closed").type = "closed"
         /\ WellFormed(<<c, Plain("new")>>) /\ Plain("new").type = "new"
         /\ WellFormed(<<c, Plain("refresh")>>) /\ Plain("refresh").type = "refresh"
         /\ \A id : LET m == [type |-> "ack", id |-> id] IN WellFormed(<<c, m>>) /\ m.type = "ack"
         /\ \A n \in Int : /\ WellFormed(<<c, HelloMsg(n)>>) /\ HelloMsg(n).type = "hello"
                           /\ LET m == [type |-> "resize", rows |-> n]
                              IN WellFormed(<<c, m>>) /\ m.type = "resize"
BY DEF WellFormed, Plain, HelloMsg

LEMMA DropEvents ==
  ASSUME client.gen \in {0} \cup Clients, NEW rest, Formed(rest), NEW notice, NEW next, NEW why,
         Drop(notice, rest, next, why)
  PROVE  /\ Formed(events')
         /\ \A c, t : t # "closed" => (Holds(events', c, t) <=> Holds(rest, c, t))
         /\ OnlyOnce(rest) => OnlyOnce(events')
<1>1. CASE events' = rest
  BY <1>1
<1>2. CASE client.gen # 0 /\ events' = rest \o <<<<client.gen, Plain("closed")>>>>
  <2> DEFINE m == Plain("closed")
  <2>1. client.gen \in Clients /\ WellFormed(<<client.gen, m>>) /\ m.type = "closed"
    BY <1>2, Wellformed
  <2>2. events' = rest \o <<<<client.gen, m>>>>
    BY <1>2
  <2> HIDE DEF m
  <2>q. QED
    BY <2>1, <2>2, EventAdded
<1>3. CASE client.gen # 0 /\ events' = rest \o <<>>
  <2>1. PICK S : rest \in Seq(S)
    BY ProperIs DEF Formed
  <2>2. events' = rest
    BY <1>3, <2>1
  <2>q. QED
    BY <2>2
<1>q. QED
  BY <1>1, <1>2, <1>3 DEF Drop

LEMMA TellEvents ==
  ASSUME EventsOK, NEW c, NEW m, Tell(c, <<m>>)
  PROVE  events' = IF c \in shut THEN events ELSE events \o <<<<c, m>>>>
<1>1. [i \in DOMAIN <<m>> |-> <<c, <<m>>[i]>>] = <<<<c, m>>>>
  OBVIOUS
<1>q. QED
  BY <1>1 DEF Tell

LEMMA TellNothing ==
  ASSUME EventsOK, NEW c, Tell(c, <<>>)
  PROVE  events' = events
<1>1. [i \in DOMAIN <<>> |-> <<c, <<>>[i]>>] = <<>>
  OBVIOUS
<1>2. PICK S : events \in Seq(S)
  BY ProperIs DEF EventsOK, Formed
<1>q. QED
  BY <1>1, <1>2 DEF Tell

LEMMA ConnectEvents ==
  ASSUME EventsOK, NEW c, Connect(c)
  PROVE  events' = events \o <<<<c, Plain("new")>>>>
<1> DEFINE e == <<c, Plain("new")>>
<1>1. events' = Append(events, e)
  BY DEF Connect
<1> HIDE DEF e
<1>2. PICK S : events \in Seq(S)
  BY ProperIs DEF EventsOK, Formed
<1>3. Append(events, e) = events \o <<e>>
  BY <1>2
<1>q. QED
  BY <1>1, <1>3 DEF e

(* Ends and Receive tell the core one thing at most.                        *)
LEMMA EndsEvents ==
  ASSUME EventsOK, NEW c \in Clients, NEW how, Ends(c, how)
  PROVE  events' = events \/ events' = events \o <<<<c, Plain("closed")>>>>
<1>1. Tell(c, <<Plain("closed")>>)
  BY DEF Ends
<1>q. QED
  BY <1>1, TellEvents

LEMMA ReceiveEvents ==
  ASSUME EventsOK, NEW c \in Clients, Receive(c)
  PROVE  \/ events' = events
         \/ \E m : /\ WellFormed(<<c, m>>) /\ m.type \in {"closed", "ack"}
                   /\ events' = events \o <<<<c, m>>>>
<1> DEFINE msg == Head(down[c])
           ack == [type |-> "ack", id |-> msg.id]
<1>1. \/ \E how : Ends(c, how)
      \/ Tell(c, IF msg.type = "update" THEN <<ack>> ELSE <<>>)
  BY DEF Receive
<1>2. CASE \E how : Ends(c, how)
  BY <1>2, EndsEvents, Wellformed
<1>3. CASE msg.type = "update" /\ Tell(c, <<ack>>)
  <2>1. WellFormed(<<c, ack>>) /\ ack.type = "ack"
    BY Wellformed
  <2> HIDE DEF ack
  <2>2. events' = events \/ events' = events \o <<<<c, ack>>>>
    BY <1>3, TellEvents
  <2>q. QED
    BY <2>1, <2>2
<1>4. CASE Tell(c, <<>>)
  BY <1>4, TellNothing
<1>q. QED
  BY <1>1, <1>2, <1>3, <1>4

LEMMA AskEvents ==
  ASSUME EventsOK, NEW c \in Clients, Ask(c)
  PROVE  \/ events' = events
         \/ \E m : /\ WellFormed(<<c, m>>) /\ m.type \in {"refresh", "resize"}
                   /\ events' = events \o <<<<c, m>>>>
<1>1. PICK m \in {Plain("refresh")} \cup [type : {"resize"}, rows : 1..MaxRows] : Tell(c, <<m>>)
  BY DEF Ask
<1>2. WellFormed(<<c, m>>) /\ m.type \in {"refresh", "resize"}
  <2>1. CASE m = Plain("refresh")
    BY <2>1, Wellformed
  <2>2. CASE m \in [type : {"resize"}, rows : 1..MaxRows]
    <3>1. m.type = "resize" /\ m.rows \in Int
      BY <2>2, ScreenAssumption
    <3>q. QED
      BY <3>1 DEF WellFormed
  <2>q. QED
    BY <2>1, <2>2
<1>3. events' = events \/ events' = events \o <<<<c, m>>>>
  BY <1>1, TellEvents
<1>q. QED
  BY <1>2, <1>3

LEMMA HelloEvents ==
  ASSUME EventsOK, NEW c \in Clients, Hello(c)
  PROVE  \E n \in Int : /\ WellFormed(<<c, HelloMsg(n)>>) /\ HelloMsg(n).type = "hello"
                        /\ events' = events \o <<<<c, HelloMsg(n)>>>>
<1>1. PICK n \in 0..MaxRows : Tell(c, <<HelloMsg(n)>>)
  BY DEF Hello
<1>2. n \in Int
  BY ScreenAssumption
<1>3. c \notin shut
  BY DEF Hello
<1>q. QED
  BY <1>1, <1>2, <1>3, TellEvents, Wellformed

LEMMA HandleEvents ==
  ASSUME PictureInv, EventsOK, Handle
  PROVE  /\ events # <<>> /\ EventsOK'
         /\ \A c, t : t # "closed" => (Holds(events', c, t) <=> Holds(Tail(events), c, t))
         /\ OnlyOnce(events) => OnlyOnce(events')
<1>1. Formed(Tail(events)) /\ (OnlyOnce(events) => OnlyOnce(Tail(events))) /\ events # <<>>
  <2>1. events # <<>>
    BY DEF Handle, HandleStale, HandleNew, HandleClosed, HandleRefused, HandleHello, HandleResize,
           HandleRefresh, HandleAck, Present, Heads
  <2>q. QED
    BY <2>1, EventTaken DEF EventsOK
<1>2. CASE events' = Tail(events)
  BY <1>1, <1>2 DEF EventsOK
<1>3. CASE \E notice, next, why : Drop(notice, Tail(events), next, why)
  <2>1. client.gen \in {0} \cup Clients
    BY DEF PictureInv, PeerOK
  <2>q. QED
    BY <1>1, <1>3, <2>1, DropEvents DEF EventsOK
<1>q. QED
  BY <1>2, <1>3
     DEF Handle, HandleStale, HandleNew, HandleClosed, HandleRefused, HandleHello, HandleResize,
         HandleRefresh, HandleAck

LEMMA DropsEvents ==
  ASSUME PictureInv, EventsOK, DropDead \/ Expire \/ Quit
  PROVE  /\ EventsOK'
         /\ \A c, t : t # "closed" => (Holds(events', c, t) <=> Holds(events, c, t))
         /\ OnlyOnce(events) => OnlyOnce(events')
<1>1. client.gen \in {0} \cup Clients
  BY DEF PictureInv, PeerOK
<1>2. \E notice, next, why : Drop(notice, events, next, why)
  BY DEF DropDead, Expire, Quit
<1>q. QED
  BY <1>1, <1>2, DropEvents DEF EventsOK

(* What a client's step adds: each thing only from the phase it is said in. *)
LEMMA ClientEvents ==
  ASSUME EventsOK, NEW c \in Clients, Connect(c) \/ Ask(c) \/ Leave(c) \/ ClientStep(c)
  PROVE  \/ events' = events
         \/ \E m : /\ WellFormed(<<c, m>>) /\ events' = events \o <<<<c, m>>>>
                   /\ m.type = "new" => Connect(c)
                   /\ m.type = "hello" => Hello(c)
<1>1. CASE Connect(c)
  BY <1>1, ConnectEvents, Wellformed
<1>2. CASE Ask(c)
  BY <1>2, AskEvents
<1>3. CASE Leave(c)
  <2>1. Tell(c, <<Plain("closed")>>)
    BY <1>3 DEF Leave
  <2>q. QED
    BY <2>1, TellEvents, Wellformed
<1>4. CASE Hello(c)
  BY <1>4, HelloEvents
<1>5. CASE Greeted(c)
  <2>1. events' = events \/ \E how : Ends(c, how)
    BY <1>5 DEF Greeted
  <2>q. QED
    BY <2>1, EndsEvents, Wellformed
<1>6. CASE Receive(c)
  BY <1>6, ReceiveEvents
<1>7. CASE SeesEnd(c)
  <2>1. \E how : Ends(c, how)
    BY <1>7 DEF SeesEnd
  <2>q. QED
    BY <2>1, EndsEvents, Wellformed
<1>q. QED
  BY <1>1, <1>2, <1>3, <1>4, <1>5, <1>6, <1>7 DEF ClientStep

(* Everything that is not the core's handling of an event, a drop or a      *)
(* client leaves the channel alone.                                         *)
Picturing ==
  \/ \E r \in Rows(MaxRows), colour \in Colours : Paint(r, colour)
  \/ Scroll
  \/ \E n \in 1..MaxRows : SessionResizes(n)
  \/ NoteDamage \/ NoteResize \/ Pump

LEMMA PicturingEvents ==
  ASSUME Picturing
  PROVE  events' = events /\ shut' \in {shut, Clients} /\ phase' = phase /\ shown' = shown
<1>1. CASE \/ \E r \in Rows(MaxRows), colour \in Colours : Paint(r, colour)
           \/ Scroll \/ \E n \in 1..MaxRows : SessionResizes(n)
  BY <1>1 DEF Paint, Scroll, SessionResizes
<1>2. CASE NoteDamage \/ NoteResize
  BY <1>2 DEF NoteDamage, NoteResize
<1>3. CASE SendFrame
  <2>1. UNCHANGED <<root, pix, notes, size, served, events, shut, phase, shown, exit, counts>>
    BY <1>3 DEF SendFrame
  <2>q. QED
    BY <2>1
<1>4. CASE CaptureRaces \/ CaptureFails
  BY <1>4 DEF CaptureRaces, CaptureFails
<1>q. QED
  BY <1>1, <1>2, <1>3, <1>4 DEF Picturing, Pump

LEMMA NextSteps ==
  ASSUME Next
  PROVE  \/ Picturing \/ Handle \/ DropDead \/ Expire \/ Quit
         \/ \E c \in Clients : Connect(c) \/ Ask(c) \/ Leave(c) \/ ClientStep(c)
BY DEF Next, Picturing

LEMMA EventsStep ==
  ASSUME PictureInv, EventsOK, Next
  PROVE  EventsOK'
<1>1. CASE Picturing
  BY <1>1, PicturingEvents DEF EventsOK
<1>2. CASE Handle
  BY <1>2, HandleEvents
<1>3. CASE DropDead \/ Expire \/ Quit
  BY <1>3, DropsEvents
<1>4. ASSUME NEW c \in Clients, Connect(c) \/ Ask(c) \/ Leave(c) \/ ClientStep(c)
      PROVE  EventsOK'
  <2>1. CASE events' = events
    BY <2>1 DEF EventsOK
  <2>2. CASE \E m : WellFormed(<<c, m>>) /\ events' = events \o <<<<c, m>>>>
    BY <2>2, EventAdded DEF EventsOK
  <2>q. QED
    BY <1>4, <2>1, <2>2, ClientEvents
<1>q. QED
  BY <1>1, <1>2, <1>3, <1>4, NextSteps

LEMMA PictureStep ==
  ASSUME PictureInv, EventsOK, Next
  PROVE  PictureInv'
<1>1. CASE Picturing
  BY <1>1, PaintPicture, ScrollPicture, SessionResizesPicture, NotedPicture, NoteResizePicture,
     SendFramePicture, CaptureRacesPicture, CaptureFailsPicture DEF Picturing, Pump
<1>2. CASE Handle
  BY <1>2, HandlePicture
<1>3. CASE DropDead \/ Expire \/ Quit
  BY <1>3, DropsPicture
<1>4. ASSUME NEW c \in Clients, Connect(c) \/ Ask(c) \/ Leave(c) \/ ClientStep(c)
      PROVE  PictureInv'
  BY <1>4, ClientPicture
<1>q. QED
  BY <1>1, <1>2, <1>3, <1>4, NextSteps

LEMMA PictureInit ==
  ASSUME Init
  PROVE  PictureInv /\ EventsOK
<1>1. CaptureRows \in 1..MaxRows /\ MaxRows \in Nat /\ CaptureRows \in Int
  BY ServedIs, ScreenAssumption
<1>2. ServedOf(root) = served /\ root = CaptureRows /\ served = root /\ served \in 1..CaptureRows
  <2>1. root = CaptureRows /\ served = ServedOf(root)
    BY DEF Init, ServedOf
  <2>q. QED
    BY <1>1, <2>1, ServedIs
<1>3. /\ pix = Blank(MaxRows) /\ damage = {} /\ size = root /\ stale = 0 /\ client = None
      /\ events = <<>> /\ exit = "none"
      /\ counts = [changes |-> 0, resizes |-> 0, requests |-> 0, faults |-> 0, shrinks |-> 0]
  BY DEF Init
<1>4. ScreenOK
  BY <1>1, <1>2, <1>3 DEF ScreenOK, Blank
<1>5. PeerOK
  BY <1>3, NobodyYet DEF PeerOK, PeerFields
<1>6. RaceOK
  BY <1>1, <1>2, <1>3 DEF RaceOK, RacesSurvived
<1>7. FrameOK
  BY <1>2, <1>3, NobodyYet DEF FrameOK
<1>8. EventsOK
  <2>1. DOMAIN events = {}
    BY <1>3
  <2>q. QED
    BY <1>3, <2>1, ProperShort DEF EventsOK, Formed
<1>q. QED
  BY <1>4, <1>5, <1>6, <1>7, <1>8 DEF PictureInv

LEMMA PictureAlways == Spec => [](PictureInv /\ EventsOK)
<1>1. Init => PictureInv /\ EventsOK
  BY PictureInit
<1>2. PictureInv /\ EventsOK /\ [Next]_vars => PictureInv' /\ EventsOK'
  <2> SUFFICES ASSUME PictureInv, EventsOK, [Next]_vars PROVE PictureInv' /\ EventsOK'
    OBVIOUS
  <2>1. CASE Next
    BY <2>1, PictureStep, EventsStep
  <2>2. CASE UNCHANGED vars
    <3>1. UNCHANGED <<xVars, codeVars, client, exit, counts, events>>
      BY <2>2 DEF vars
    <3>q. QED
      BY <3>1, SilentPicture DEF EventsOK
  <2>q. QED
    BY <2>1, <2>2
<1>q. QED
  BY <1>1, <1>2, PTL DEF Spec

(* A capture that races a shrinking root does not end the session: when it  *)
(* has, the root had shrunk more often than the limit                       *)
(* (STALE_CAPTURE_LIMIT).                                                   *)
THEOREM RacesForgiven == Spec => []RacesSurvived
<1>1. PictureInv => RacesSurvived
  BY DEF PictureInv, RaceOK
<1>q. QED
  BY <1>1, PictureAlways, PTL

(* No change is missed: what the reference has wrong is damaged, with the   *)
(* core told or about to be, or the next frame is whole; and a root of      *)
(* another size than is served is about to be noticed.                      *)
THEOREM NothingLost == Spec => []NothingMissed
<1>1. PictureInv => NothingMissed
  <2> SUFFICES ASSUME PictureInv, Live PROVE
        /\ \/ client.full
           \/ \A r \in Rows(Min({served, root})) :
                ref[r] = pix[r] \/ (r \in damage /\ (dirty \/ "damage" \in notes))
        /\ served = ServedOf(root) \/ "randr" \in notes
    BY DEF NothingMissed
  <2>1. served \in Int /\ root \in Int
    BY ServedIs DEF PictureInv, ScreenOK
  <2>2. Min({served, root}) = IF served <= root THEN served ELSE root
    BY <2>1, MinOfTwo
  <2>3. \A r \in Rows(Min({served, root})) : r \in Rows(served) \cap Rows(root)
    BY <2>1, <2>2 DEF Rows
  <2>4. client.ready
    BY DEF Live
  <2>q. QED
    BY <2>3, <2>4 DEF PictureInv, FrameOK
<1>q. QED
  BY <1>1, PictureAlways, PTL

-----------------------------------------------------------------------------
(* What a client has on its way: each update fits the size last told before *)
(* it, or the size the client has; a greeting or a refusal comes first and  *)
(* to nobody who has had one.                                               *)
Kinds == {"hello", "resized", "update", "rejected", "disconnect"}
SizeMsg(m) == m.type \in {"hello", "resized"}
Unsized(q, i) == \A k \in 1..i : ~SizeMsg(q[k])
SizedAt(q, i, j) == SizeMsg(q[j]) /\ \A k \in (j + 1)..i : ~SizeMsg(q[k])

Fitting(q, dom) == \A i \in 1..Len(q) : q[i].type = "update" =>
  /\ Unsized(q, i) => Touched(q[i]) \subseteq dom
  /\ \A j \in 1..i : SizedAt(q, i, j) => Touched(q[i]) \subseteq Rows(q[j].rows)
EndsAt(q, dom, n) ==
  /\ Unsized(q, Len(q)) => dom = Rows(n)
  /\ \A j \in 1..Len(q) : SizedAt(q, Len(q), j) => q[j].rows = n
Lawful(q, on) == \A i \in 1..Len(q) :
  /\ q[i].type \in Kinds
  /\ q[i].type \in {"hello", "rejected"} => i = 1 /\ ~on
  /\ ~on /\ i = 1 => q[i].type \in {"hello", "rejected", "disconnect"}

(* What is lost of a queue is its end.                                      *)
LEMMA PrefixFits ==
  ASSUME NEW q, Proper(q), NEW k \in 0..Len(q), NEW dom, NEW on, Fitting(q, dom), Lawful(q, on)
  PROVE  Fitting(SubSeq(q, 1, k), dom) /\ Lawful(SubSeq(q, 1, k), on)
<1> DEFINE p == SubSeq(q, 1, k)
<1>1. Len(p) = k /\ Len(q) \in Nat /\ \A i \in 1..k : p[i] = q[i]
  BY ProperSub
<1> HIDE DEF p
<1>2. \A i \in 1..k : i \in 1..Len(q) /\ p[i] = q[i]
  BY <1>1
<1>3. Lawful(p, on)
  BY <1>1, <1>2 DEF Lawful
<1>4. ASSUME NEW i \in 1..k
      PROVE  /\ Unsized(p, i) => Unsized(q, i)
             /\ \A j \in 1..i : SizedAt(p, i, j) => SizedAt(q, i, j) /\ p[j] = q[j]
  <2>1. \A j \in 1..i : p[j] = q[j]
    BY <1>2
  <2>2. \A j \in 1..i : \A l \in (j + 1)..i : l \in 1..i
    OBVIOUS
  <2>q. QED
    BY <2>1, <2>2 DEF Unsized, SizedAt
<1>5. Fitting(p, dom)
  BY <1>1, <1>2, <1>4 DEF Fitting
<1>q. QED
  BY <1>3, <1>5 DEF p

(* Updates of the size the queue ends at may follow it.                     *)
LEMMA UpdatesFit ==
  ASSUME NEW q, Proper(q), NEW m, Proper(m), NEW dom, NEW on, NEW n,
         Fitting(q, dom), Lawful(q, on), EndsAt(q, dom, n), on \/ Len(q) # 0,
         \A i \in 1..Len(m) : m[i].type = "update" /\ Touched(m[i]) \subseteq Rows(n)
  PROVE  Fitting(q \o m, dom) /\ Lawful(q \o m, on) /\ EndsAt(q \o m, dom, n)
<1> DEFINE p == q \o m
<1>1. Len(p) = Len(q) + Len(m) /\ Len(q) \in Nat /\ Len(m) \in Nat
  BY ProperConcat
<1>2. \A i \in 1..Len(q) : p[i] = q[i]
  BY ProperConcat
<1>3. \A i \in 1..Len(m) : p[Len(q) + i] = m[i]
  BY ProperConcat
<1> HIDE DEF p
<1>4. \A i \in 1..Len(p) : \/ i \in 1..Len(q) /\ p[i] = q[i]
                           \/ /\ i > Len(q) /\ p[i].type = "update" /\ Touched(p[i]) \subseteq Rows(n)
  <2>1. ASSUME NEW i \in 1..Len(p), i > Len(q)
        PROVE  p[i].type = "update" /\ Touched(p[i]) \subseteq Rows(n)
    <3>1. i - Len(q) \in 1..Len(m) /\ Len(q) + (i - Len(q)) = i
      BY <1>1, <2>1
    <3>2. p[i] = m[i - Len(q)]
      BY <1>3, <3>1
    <3>q. QED
      BY <3>1, <3>2
  <2>q. QED
    BY <1>1, <1>2, <2>1
<1>5. Lawful(p, on)
  BY <1>1, <1>4 DEF Lawful, Kinds
<1>6. \A i \in 1..Len(p) : i > Len(q) => ~SizeMsg(p[i])
  BY <1>4 DEF SizeMsg
<1>7. ASSUME NEW i \in 1..Len(p), i > Len(q)
      PROVE  /\ Unsized(p, i) => Unsized(q, Len(q))
             /\ \A j \in 1..i : SizedAt(p, i, j) => j \in 1..Len(q) /\ SizedAt(q, Len(q), j) /\ p[j] = q[j]
  <2>1. \A j \in 1..Len(q) : j \in 1..i /\ p[j] = q[j]
    BY <1>1, <1>2, <1>7
  <2>2. \A j \in 1..i : SizeMsg(p[j]) => j \in 1..Len(q)
    BY <1>1, <1>6
  <2>3. \A j \in 1..Len(q) : \A l \in (j + 1)..Len(q) : l \in (j + 1)..i /\ l \in 1..Len(q)
    BY <1>1, <1>7
  <2>q. QED
    BY <2>1, <2>2, <2>3 DEF Unsized, SizedAt
<1>8. ASSUME NEW i \in 1..Len(q)
      PROVE  /\ Unsized(p, i) => Unsized(q, i)
             /\ \A j \in 1..i : SizedAt(p, i, j) => SizedAt(q, i, j) /\ p[j] = q[j]
  <2>1. \A j \in 1..i : p[j] = q[j]
    BY <1>1, <1>2
  <2>2. \A j \in 1..i : \A l \in (j + 1)..i : l \in 1..i
    OBVIOUS
  <2>q. QED
    BY <2>1, <2>2 DEF Unsized, SizedAt
<1>9. Fitting(p, dom)
  <2> SUFFICES ASSUME NEW i \in 1..Len(p), p[i].type = "update"
               PROVE  /\ Unsized(p, i) => Touched(p[i]) \subseteq dom
                      /\ \A j \in 1..i : SizedAt(p, i, j) => Touched(p[i]) \subseteq Rows(p[j].rows)
    BY DEF Fitting
  <2>1. CASE i \in 1..Len(q)
    <3>1. p[i] = q[i]
      BY <1>2, <2>1
    <3>q. QED
      BY <1>8, <2>1, <3>1 DEF Fitting
  <2>2. CASE i > Len(q)
    BY <1>4, <1>7, <2>2 DEF EndsAt
  <2>q. QED
    BY <1>4, <2>1, <2>2
<1>10. EndsAt(p, dom, n)
  <2>1. CASE Len(p) > Len(q)
    <3>1. Len(p) \in 1..Len(p)
      BY <1>1, <2>1
    <3>q. QED
      BY <1>7, <2>1, <3>1 DEF EndsAt
  <2>2. CASE Len(p) = Len(q) /\ Len(q) # 0
    <3>1. Len(p) \in 1..Len(q)
      BY <1>1, <2>2
    <3>q. QED
      BY <1>8, <2>2, <3>1 DEF EndsAt
  <2>3. CASE Len(p) = Len(q) /\ Len(q) = 0
    BY <2>3 DEF EndsAt, Unsized
  <2>q. QED
    BY <1>1, <2>1, <2>2, <2>3
<1>q. QED
  BY <1>5, <1>9, <1>10 DEF p

(* Any other message may follow too, if it is not the first thing said.     *)
LEMMA OneMoreFits ==
  ASSUME NEW q, Proper(q), NEW m, NEW dom, NEW on, Fitting(q, dom), Lawful(q, on),
         m.type \in {"resized", "disconnect", "hello", "rejected"},
         m.type \in {"hello", "rejected"} => Len(q) = 0 /\ ~on,
         m.type = "resized" => on \/ Len(q) # 0
  PROVE  /\ Fitting(q \o <<m>>, dom) /\ Lawful(q \o <<m>>, on)
         /\ SizeMsg(m) => EndsAt(q \o <<m>>, dom, m.rows)
<1> DEFINE one == <<m>>
           p == q \o one
<1>1. Proper(one) /\ Len(one) = 1 /\ one[1] = m
  BY ProperShort
<1> HIDE DEF one
<1>2. Len(p) = Len(q) + Len(one) /\ Len(q) \in Nat
  BY <1>1, ProperConcat
<1>3. \A i \in 1..Len(q) : p[i] = q[i]
  BY <1>1, ProperConcat
<1>4. \A i \in 1..Len(one) : p[Len(q) + i] = one[i]
  BY <1>1, ProperConcat
<1> HIDE DEF p
<1>5. /\ Len(p) = Len(q) + 1 /\ p[Len(q) + 1] = m
      /\ \A i \in 1..Len(p) : i \in 1..Len(q) \/ i = Len(q) + 1
  BY <1>1, <1>2, <1>4
<1>6. Lawful(p, on)
  <2> SUFFICES ASSUME NEW i \in 1..Len(p)
               PROVE  /\ p[i].type \in Kinds
                      /\ p[i].type \in {"hello", "rejected"} => i = 1 /\ ~on
                      /\ ~on /\ i = 1 => p[i].type \in {"hello", "rejected", "disconnect"}
    BY DEF Lawful
  <2>1. CASE i \in 1..Len(q)
    <3>1. p[i] = q[i]
      BY <1>3, <2>1
    <3>q. QED
      BY <2>1, <3>1 DEF Lawful
  <2>2. CASE i = Len(q) + 1
    <3>1. p[i] = m
      BY <1>5, <2>2
    <3>2. i = 1 => Len(q) = 0
      BY <1>2, <2>2
    <3>3. Len(q) = 0 => i = 1
      BY <2>2
    <3>q. QED
      BY <3>1, <3>2, <3>3 DEF Kinds
  <2>q. QED
    BY <1>5, <2>1, <2>2
<1>7. Fitting(p, dom)
  <2> SUFFICES ASSUME NEW i \in 1..Len(p), p[i].type = "update"
               PROVE  /\ Unsized(p, i) => Touched(p[i]) \subseteq dom
                      /\ \A j \in 1..i : SizedAt(p, i, j) => Touched(p[i]) \subseteq Rows(p[j].rows)
    BY DEF Fitting
  <2>1. i \in 1..Len(q) /\ p[i] = q[i]
    BY <1>3, <1>5
  <2>2. \A j \in 1..i : p[j] = q[j]
    BY <1>2, <1>3, <2>1
  <2>3. \A j \in 1..i : \A l \in (j + 1)..i : l \in 1..i
    BY <1>2, <2>1
  <2>4. /\ Unsized(p, i) => Unsized(q, i)
        /\ \A j \in 1..i : SizedAt(p, i, j) => SizedAt(q, i, j) /\ p[j] = q[j]
    BY <2>2, <2>3 DEF Unsized, SizedAt
  <2>q. QED
    BY <2>1, <2>4 DEF Fitting
<1>8. ASSUME SizeMsg(m) PROVE EndsAt(p, dom, m.rows)
  <2>1. SizeMsg(p[Len(p)]) /\ Len(p) \in 1..Len(p)
    BY <1>2, <1>5, <1>8
  <2>2. \A j \in 1..Len(p) : j = Len(p) \/ Len(p) \in (j + 1)..Len(p)
    BY <1>2, <1>5
  <2>3. ~Unsized(p, Len(p))
    BY <2>1 DEF Unsized
  <2>4. \A j \in 1..Len(p) : SizedAt(p, Len(p), j) => j = Len(p)
    BY <2>1, <2>2 DEF SizedAt
  <2>q. QED
    BY <1>5, <2>3, <2>4 DEF EndsAt
<1>q. QED
  BY <1>6, <1>7, <1>8 DEF one, p

(* The client takes the first.                                              *)
LEMMA TailFits ==
  ASSUME NEW q, Proper(q), q # <<>>, NEW dom, NEW on, Fitting(q, dom), Lawful(q, on),
         NEW d, d = IF SizeMsg(q[1]) THEN Rows(q[1].rows) ELSE dom,
         on \/ SizeMsg(q[1])
  PROVE  /\ Fitting(Tail(q), d) /\ Lawful(Tail(q), TRUE)
         /\ \A n : EndsAt(q, dom, n) => EndsAt(Tail(q), d, n)
<1> DEFINE p == Tail(q)
<1>1. /\ Len(q) \in Nat \ {0} /\ Len(p) = Len(q) - 1
      /\ \A i \in 1..(Len(q) - 1) : p[i] = q[i + 1]
  BY ProperTail
<1> HIDE DEF p
<1>2. \A i \in 1..Len(p) : i + 1 \in 1..Len(q) /\ p[i] = q[i + 1] /\ i + 1 # 1
  BY <1>1
<1>3. Lawful(p, TRUE)
  <2>1. ASSUME NEW i \in 1..Len(p) PROVE p[i].type \in Kinds /\ p[i].type \notin {"hello", "rejected"}
    <3>1. i + 1 \in 1..Len(q) /\ p[i] = q[i + 1] /\ i + 1 # 1
      BY <1>2
    <3>q. QED
      BY <3>1 DEF Lawful
  <2>q. QED
    BY <2>1 DEF Lawful
<1>4. ASSUME NEW i \in 0..Len(p)
      PROVE  /\ Unsized(p, i) => Unsized(q, i + 1) \/ SizedAt(q, i + 1, 1)
             /\ Unsized(q, i + 1) => ~SizeMsg(q[1])
             /\ \A j \in 1..i : SizedAt(p, i, j) => SizedAt(q, i + 1, j + 1) /\ p[j] = q[j + 1]
             /\ \A j \in 1..i : j + 1 \in 1..(i + 1)
             /\ 1 \in 1..(i + 1)
  <2>1. \A j \in 1..i : p[j] = q[j + 1] /\ j + 1 \in 1..(i + 1)
    BY <1>1
  <2>2. 1 \in 1..(i + 1)
    OBVIOUS
  <2>3. \A l \in 2..(i + 1) : l - 1 \in 1..i /\ p[l - 1] = q[l]
    BY <1>1
  <2>4. \A l \in 1..(i + 1) : l = 1 \/ l \in 2..(i + 1)
    OBVIOUS
  <2>5. ASSUME Unsized(p, i) PROVE Unsized(q, i + 1) \/ SizedAt(q, i + 1, 1)
    <3>1. \A l \in 2..(i + 1) : ~SizeMsg(q[l])
      BY <2>3, <2>5 DEF Unsized
    <3>2. \A l \in (1 + 1)..(i + 1) : ~SizeMsg(q[l])
      BY <3>1
    <3>q. QED
      BY <2>4, <3>1, <3>2 DEF Unsized, SizedAt
  <2>6. ASSUME NEW j \in 1..i, SizedAt(p, i, j) PROVE SizedAt(q, i + 1, j + 1)
    <3>1. \A l \in (j + 1 + 1)..(i + 1) : l \in 2..(i + 1) /\ l - 1 \in (j + 1)..i
      BY <2>6
    <3>q. QED
      BY <2>1, <2>3, <2>6, <3>1 DEF SizedAt
  <2>q. QED
    BY <2>1, <2>2, <2>5, <2>6 DEF Unsized
<1>5. Fitting(p, d)
  <2> SUFFICES ASSUME NEW i \in 1..Len(p), p[i].type = "update"
               PROVE  /\ Unsized(p, i) => Touched(p[i]) \subseteq d
                      /\ \A j \in 1..i : SizedAt(p, i, j) => Touched(p[i]) \subseteq Rows(p[j].rows)
    BY DEF Fitting
  <2>1. i \in 0..Len(p) /\ i + 1 \in 1..Len(q) /\ p[i] = q[i + 1]
    BY <1>1, <1>2
  <2>2. /\ Unsized(q, i + 1) => Touched(q[i + 1]) \subseteq dom
        /\ \A j \in 1..(i + 1) : SizedAt(q, i + 1, j) => Touched(q[i + 1]) \subseteq Rows(q[j].rows)
    BY <2>1 DEF Fitting
  <2>3. SizedAt(q, i + 1, 1) => SizeMsg(q[1])
    BY DEF SizedAt
  <2>q. QED
    BY <1>4, <2>1, <2>2, <2>3
<1>6. ASSUME NEW n, EndsAt(q, dom, n) PROVE EndsAt(p, d, n)
  <2>1. Len(p) \in 0..Len(p) /\ Len(p) + 1 = Len(q)
    BY <1>1
  <2>2. SizedAt(q, Len(q), 1) => SizeMsg(q[1])
    BY DEF SizedAt
  <2>3. Unsized(p, Len(p)) => d = Rows(n)
    BY <1>4, <1>6, <2>1, <2>2 DEF EndsAt
  <2>4. ASSUME NEW j \in 1..Len(p), SizedAt(p, Len(p), j) PROVE p[j].rows = n
    <3>1. SizedAt(q, Len(q), j + 1) /\ p[j] = q[j + 1] /\ j + 1 \in 1..Len(q)
      BY <1>4, <2>1, <2>4
    <3>q. QED
      BY <1>6, <3>1 DEF EndsAt
  <2>q. QED
    BY <2>3, <2>4 DEF EndsAt
<1>q. QED
  BY <1>3, <1>5, <1>6 DEF p

LEMMA EmptyFits ==
  ASSUME NEW dom, NEW on
  PROVE  Fitting(<<>>, dom) /\ Lawful(<<>>, on) /\ \A n : EndsAt(<<>>, dom, n) => dom = Rows(n)
<1> DEFINE q == <<>>
<1>1. Len(q) = 0 /\ 1..0 = {}
  BY ProperShort
<1> HIDE DEF q
<1>q. QED
  BY <1>1 DEF Fitting, Lawful, EndsAt, Unsized, q

-----------------------------------------------------------------------------
(* What is between the core and each client. A client connects once and     *)
(* says hello once; it is greeted by the present generation or not at all.  *)
TalkOK ==
  /\ DOMAIN phase = Clients /\ DOMAIN shown = Clients
  /\ down = [c \in Clients |-> down[c]]
  /\ \A c \in Clients : Proper(down[c])

Once(c) ==
  /\ phase[c] = "new" => client.gen # c /\ ~Holds(events, c, "new") /\ Len(down[c]) = 0
  /\ phase[c] \in {"new", "connected"} =>
       ~Holds(events, c, "hello") /\ (client.gen = c => ~client.ready)
  /\ phase[c] \in {"new", "connected", "hello"} => DOMAIN shown[c] = {}
  /\ phase[c] = "hello" => ~Holds(events, c, "new")
  /\ Holds(events, c, "new") => client.gen # c /\ Len(down[c]) = 0 /\ phase[c] # "on"
  /\ client.gen = c /\ client.ready => ~Holds(events, c, "hello")
  /\ client.gen = c /\ ~client.ready => Len(down[c]) = 0 /\ phase[c] # "on"
OnceOK == OnlyOnce(events) /\ \A c \in Clients : Once(c)

(* No client is broken, and none will be: what is on its way fits it.       *)
QueueOK(c) ==
  /\ phase[c] # "broken"
  /\ phase[c] \in {"connected", "hello", "on"} =>
       /\ Fitting(down[c], DOMAIN shown[c])
       /\ Lawful(down[c], phase[c] = "on")
       /\ client.gen = c /\ client.ready /\ ~client.dead =>
            EndsAt(down[c], DOMAIN shown[c], served)

(* A client that waits for its greeting waits for something.                *)
Waits(c) == phase[c] \in {"connected", "hello"} =>
  \/ c \in shut \/ Len(down[c]) # 0 \/ Holds(events, c, "new")
  \/ client.gen = c /\ ~client.ready /\ (phase[c] = "connected" \/ Holds(events, c, "hello"))

TalkInv ==
  /\ TalkOK /\ OnceOK
  /\ \A c \in Clients : QueueOK(c) /\ Waits(c)

(* What the core may say to the client there is.                            *)
SaysNothing ==
  /\ down' = down
  /\ \/ client'.dead = client.dead /\ (served' = served \/ ~client.ready)
     \/ client'.dead /\ client.ready
SaysSize ==
  /\ client.ready /\ ~client.dead
  /\ down' = [down EXCEPT ![client.gen] = @ \o <<ResizedMsg(served')>>]
SaysFrame ==
  /\ client.ready /\ ~client.dead /\ served' = served
  /\ \E msgs, k : FrameGoes(msgs, k)
Speaks ==
  /\ client'.gen = client.gen /\ client'.ready = client.ready
  /\ SaysNothing \/ SaysSize \/ SaysFrame

LEMMA OneOrNone ==
  ASSUME NEW m
  PROVE  SubSeq(<<m>>, 1, 1) = <<m>> /\ SubSeq(<<m>>, 1, 0) = <<>> /\ Len(<<m>>) = 1
<1>1. <<m>> \in Seq({m}) /\ Len(<<m>>) = 1 /\ <<m>>[1] = m
  OBVIOUS
<1> DEFINE one == <<m>>
           s == SubSeq(one, 1, 1)
<1>2. s \in Seq({m}) /\ Len(s) = 1 /\ s[1] = m
  BY <1>1
<1> HIDE DEF s
<1>3. s = <<m>>
  BY <1>2
<1>q. QED
  BY <1>1, <1>3 DEF s

LEMMA ResizedTold ==
  ASSUME PeerOK, TalkOK, NEW n, NEW force \in BOOLEAN, Show(n, client, force, ResizedTo(n))
  PROVE  Speaks /\ (SaysNothing \/ SaysSize)
<1> DEFINE msgs == ResizedTo(n)
           cl == [client EXCEPT !.full = client.gen # 0 /\ (@ \/ force \/ ServedOf(n) # served)]
<1>1. /\ served' = ServedOf(n)
      /\ IF client.gen = 0 THEN client' = cl /\ UNCHANGED down
         ELSE \E k \in Accepted(cl, msgs) : Send(cl, msgs, k)
  BY DEF Show
<1>2. DOMAIN cl = PeerFields /\ cl.gen = client.gen /\ cl.ready = client.ready /\ cl.dead = client.dead
  BY DEF PeerOK, PeerFields
<1>3. client.dead \in BOOLEAN /\ client.ready \in BOOLEAN /\ (client.ready => client.gen # 0)
  BY DEF PeerOK
<1> HIDE DEF cl
<1>4. CASE client.gen = 0
  <2>1. ~client.ready
    BY <1>3, <1>4
  <2>q. QED
    BY <1>1, <1>2, <1>4, <2>1 DEF Speaks, SaysNothing
<1>5. CASE client.gen # 0
  <2>1. PICK k \in Accepted(cl, msgs) : Send(cl, msgs, k)
    BY <1>1, <1>5
  <2>2. /\ down' = [down EXCEPT ![client.gen] = @ \o SubSeq(msgs, 1, k)]
        /\ client' = [cl EXCEPT !.dead = @ \/ k < Len(msgs)]
    BY <1>2, <2>1 DEF Send
  <2>3. /\ client'.gen = client.gen /\ client'.ready = client.ready
        /\ client'.dead <=> client.dead \/ k < Len(msgs)
        /\ client'.dead \in BOOLEAN
    BY <1>2, <1>3, <2>2 DEF PeerFields
  <2>4. client.gen \in Clients /\ DOMAIN down = Clients
    BY <1>5 DEF PeerOK, TalkOK
  <2>5. ASSUME SubSeq(msgs, 1, k) = <<>> PROVE down' = down
    <3>1. PICK S : down[client.gen] \in Seq(S)
      BY <2>4, ProperIs DEF TalkOK
    <3>2. down[client.gen] \o <<>> = down[client.gen]
      BY <3>1
    <3>3. down = [c \in Clients |-> down[c]]
      BY DEF TalkOK
    <3>4. [down EXCEPT ![client.gen] = down[client.gen]] = down
      BY <3>3
    <3>q. QED
      BY <2>2, <2>5, <3>2, <3>4
  <2>6. CASE msgs = <<>>
    <3>1. served' = served \/ ~client.ready
      BY <1>1, <2>6 DEF ResizedTo
    <3>2. k = 0 /\ Len(msgs) = 0 /\ SubSeq(msgs, 1, k) = <<>>
      BY <2>1, <2>6 DEF Accepted
    <3>3. ~(k < Len(msgs))
      BY <3>2
    <3>q. QED
      BY <1>3, <2>3, <2>5, <3>1, <3>2, <3>3 DEF Speaks, SaysNothing
  <2>7. CASE msgs # <<>>
    <3>1. msgs = <<ResizedMsg(served')>> /\ client.ready
      BY <1>1, <2>7 DEF ResizedTo
    <3>2. Len(msgs) = 1
      BY <3>1
    <3>3. k \in {0, 1} /\ (client.dead => k = 0)
      BY <1>2, <2>1, <3>2 DEF Accepted
    <3>4. CASE k = 0
      <4>1. SubSeq(msgs, 1, k) = <<>>
        BY <3>1, <3>4
      <4>2. client'.dead
        BY <2>3, <3>2, <3>4
      <4>q. QED
        BY <2>3, <2>5, <3>1, <4>1, <4>2 DEF Speaks, SaysNothing
    <3>5. CASE k = 1
      <4>1. SubSeq(msgs, 1, k) = <<ResizedMsg(served')>>
        BY <3>1, <3>5, OneOrNone
      <4>2. ~client.dead
        BY <3>3, <3>5
      <4>q. QED
        BY <2>2, <2>3, <3>1, <4>1, <4>2 DEF Speaks, SaysSize
    <3>q. QED
      BY <3>3, <3>4, <3>5
  <2>q. QED
    BY <2>6, <2>7
<1>q. QED
  BY <1>4, <1>5

LEMMA PicturingSays ==
  ASSUME PictureInv, TalkOK, Picturing
  PROVE  Speaks
<1>1. PeerOK
  BY DEF PictureInv
<1>2. CASE UNCHANGED <<client, down, served>>
  BY <1>2 DEF Speaks, SaysNothing
<1>3. CASE NoteResize
  <2>1. Show(root, client, FALSE, ResizedTo(root)) /\ FALSE \in BOOLEAN
    BY <1>3 DEF NoteResize
  <2>q. QED
    BY <1>1, <2>1, ResizedTold
<1>4. CASE CaptureRaces
  <2>1. Show(root, client, TRUE, ResizedTo(root)) /\ TRUE \in BOOLEAN
    BY <1>4 DEF CaptureRaces
  <2>q. QED
    BY <1>1, <2>1, ResizedTold
<1>5. CASE SendFrame
  <2>1. PICK msgs, k : FrameGoes(msgs, k)
    BY <1>1, <1>5, FrameSent
  <2>2. UNCHANGED <<root, pix, notes, size, served, events, shut, phase, shown, exit, counts>> /\ Due
    BY <1>5 DEF SendFrame
  <2>3. client.ready /\ ~client.dead /\ served' = served
    BY SMTT(60), <2>2 DEF Due
  <2>4. client'.gen = client.gen /\ client'.ready = client.ready
    BY <2>1 DEF FrameGoes
  <2>q. QED
    BY <2>1, <2>3, <2>4 DEF Speaks, SaysFrame
<1>6. CASE \/ \E r \in Rows(MaxRows), colour \in Colours : Paint(r, colour)
           \/ Scroll \/ \E n \in 1..MaxRows : SessionResizes(n)
           \/ NoteDamage \/ CaptureFails
  BY <1>2, <1>6 DEF Paint, Scroll, SessionResizes, NoteDamage, CaptureFails, codeVars
<1>q. QED
  BY <1>3, <1>4, <1>5, <1>6 DEF Picturing, Pump

(* An event that is neither a connection nor a hello of the client there is *)
(* leaves those where they are.                                             *)
Settled ==
  /\ OnlyOnce(events) => OnlyOnce(events')
  /\ \A c : /\ Holds(events', c, "new") <=> Holds(events, c, "new")
            /\ Holds(events', c, "hello") => Holds(events, c, "hello")
            /\ c = client.gen /\ Holds(events, c, "hello") => Holds(events', c, "hello")

Answering == HandleStale \/ HandleResize \/ HandleRefresh \/ HandleAck

LEMMA AnsweringSettles ==
  ASSUME EventsOK, Answering
  PROVE  Settled /\ phase' = phase /\ shown' = shown /\ shut' = shut
<1>1. /\ events # <<>> /\ events' = Tail(events)
      /\ phase' = phase /\ shown' = shown /\ shut' = shut
      /\ Head(events)[2].type # "new"
      /\ Head(events)[2].type = "hello" => Head(events)[1] # client.gen
  BY DEF Answering, HandleStale, HandleResize, HandleRefresh, HandleAck, Present, Heads, Msg
<1>2. /\ OnlyOnce(events) => OnlyOnce(events')
      /\ \A c, t : Holds(events', c, t) => Holds(events, c, t)
      /\ \A c, t : Holds(events, c, t) =>
           Holds(events', c, t) \/ (c = Head(events)[1] /\ t = Head(events)[2].type)
  BY <1>1, EventTaken DEF EventsOK
<1>q. QED
  BY <1>1, <1>2 DEF Settled

LEMMA AnsweringSays ==
  ASSUME PictureInv, TalkOK, Answering
  PROVE  Speaks
<1>1. PeerOK
  BY DEF PictureInv
<1>2. CASE HandleStale
  BY <1>2 DEF HandleStale, Speaks, SaysNothing, codeVars
<1>3. CASE HandleAck
  <2>1. UNCHANGED <<xVars, codeVars, down>>
    BY <1>3 DEF HandleAck
  <2>2. \/ client' = client
        \/ \E a, b : client' = [client EXCEPT !.flight = a, !.window = b]
    BY <1>3 DEF HandleAck
  <2>3. client'.gen = client.gen /\ client'.ready = client.ready /\ client'.dead = client.dead
    BY <1>1, <2>2 DEF PeerOK
  <2>q. QED
    BY <2>1, <2>3 DEF Speaks, SaysNothing, codeVars
<1>4. CASE HandleRefresh
  <2>1. Show(served, client, TRUE, <<>>) /\ TRUE \in BOOLEAN
    BY <1>4 DEF HandleRefresh
  <2>2. ServedOf(served) = served
    BY ServedIs DEF PictureInv, ScreenOK
  <2>3. ResizedTo(served) = <<>>
    BY <2>2 DEF ResizedTo
  <2>q. QED
    BY <1>1, <2>1, <2>3, ResizedTold
<1>5. CASE HandleResize
  <2>1. PICK o \in Resizes(Msg.rows) :
          Show(IF o.ok THEN o.root ELSE served, client, FALSE, ResizedTo(IF o.ok THEN o.root ELSE served))
    BY <1>5 DEF HandleResize, ApplyResize
  <2>2. FALSE \in BOOLEAN
    OBVIOUS
  <2>q. QED
    BY <1>1, <2>1, <2>2, ResizedTold
<1>q. QED
  BY <1>2, <1>3, <1>4, <1>5 DEF Answering

(* Whatever the core says, only the queue of a client that was greeted      *)
(* grows.                                                                   *)
LEMMA SpeaksTo ==
  ASSUME PeerOK, TalkOK, Speaks
  PROVE  /\ down' = [c \in Clients |-> down'[c]]
         /\ \A c \in Clients : /\ Proper(down'[c]) /\ Len(down'[c]) >= Len(down[c])
                               /\ c # client.gen \/ ~client.ready => down'[c] = down[c]
<1>1. /\ down = [c \in Clients |-> down[c]]
      /\ \A c \in Clients : Proper(down[c]) /\ Len(down[c]) \in Nat
      /\ client.ready => client.gen \in Clients
  BY DEF TalkOK, PeerOK, Proper
<1>2. CASE down' = down
  BY <1>1, <1>2
<1>3. ASSUME NEW more, Proper(more), client.ready,
             down' = [down EXCEPT ![client.gen] = @ \o more]
      PROVE  /\ down' = [c \in Clients |-> down'[c]]
             /\ \A c \in Clients : /\ Proper(down'[c]) /\ Len(down'[c]) >= Len(down[c])
                                   /\ c # client.gen \/ ~client.ready => down'[c] = down[c]
  <2>1. /\ Proper(down[client.gen] \o more)
        /\ Len(down[client.gen] \o more) = Len(down[client.gen]) + Len(more)
    BY <1>1, <1>3, ProperConcat
  <2>2. Len(more) \in Nat
    BY <1>3 DEF Proper
  <2>3. Len(down[client.gen] \o more) >= Len(down[client.gen])
    BY <1>1, <1>3, <2>1, <2>2
  <2>4. /\ down' = [c \in Clients |-> down'[c]]
        /\ down'[client.gen] = down[client.gen] \o more
        /\ \A c \in Clients : c # client.gen => down'[c] = down[c]
    BY <1>1, <1>3
  <2>5. \A c \in Clients : c = client.gen \/ Len(down'[c]) >= Len(down[c])
    BY <1>1, <2>4
  <2>q. QED
    BY <1>1, <1>3, <2>1, <2>3, <2>4, <2>5
<1>4. CASE SaysSize
  <2> DEFINE more == <<ResizedMsg(served')>>
  <2>1. Proper(more) /\ client.ready /\ down' = [down EXCEPT ![client.gen] = @ \o more]
    BY <1>4, ProperShort DEF SaysSize
  <2> HIDE DEF more
  <2>q. QED
    BY <1>3, <2>1
<1>5. CASE SaysFrame
  <2>1. PICK msgs, k : FrameGoes(msgs, k) /\ client.ready
    BY <1>5 DEF SaysFrame
  <2>2. Proper(SubSeq(msgs, 1, k))
    BY <2>1, ProperSub DEF FrameGoes
  <2>3. down' = down \/ down' = [down EXCEPT ![client.gen] = @ \o SubSeq(msgs, 1, k)]
    BY <2>1 DEF FrameGoes
  <2>q. QED
    BY ZenonT(60), <1>2, <1>3, <2>1, <2>2, <2>3
<1>q. QED
  BY <1>2, <1>4, <1>5 DEF Speaks, SaysNothing

LEMMA SpeaksFits ==
  ASSUME PictureInv, TalkOK, Speaks, NEW c \in Clients, Once(c), QueueOK(c),
         phase' = phase, shown' = shown
  PROVE  QueueOK(c)'
<1> DEFINE q == down[c]
           dom == DOMAIN shown[c]
           on == phase[c] = "on"
<1>1. PeerOK /\ Proper(q) /\ phase[c] # "broken"
  BY DEF PictureInv, TalkOK, QueueOK
<1> SUFFICES ASSUME phase[c] \in {"connected", "hello", "on"}
             PROVE  /\ Fitting(down'[c], dom) /\ Lawful(down'[c], on)
                    /\ client'.gen = c /\ client'.ready /\ ~client'.dead =>
                         EndsAt(down'[c], dom, served')
  BY <1>1 DEF QueueOK
<1>2. /\ Fitting(q, dom) /\ Lawful(q, on)
      /\ client.gen = c /\ client.ready /\ ~client.dead => EndsAt(q, dom, served)
  BY DEF QueueOK
<1>3. client'.gen = client.gen /\ client'.ready = client.ready
  BY DEF Speaks
<1>4. CASE client.gen # c \/ ~client.ready
  BY <1>1, <1>2, <1>3, <1>4, SpeaksTo
<1>5. CASE client.gen = c /\ client.ready /\ SaysNothing
  BY <1>2, <1>3, <1>5 DEF SaysNothing
<1>6. ASSUME client.gen = c, client.ready, ~client.dead PROVE on \/ Len(q) # 0
  <2>1. EndsAt(q, dom, served)
    BY <1>2, <1>6
  <2>2. ASSUME Len(q) = 0, ~on PROVE FALSE
    <3>1. dom = {}
      BY <2>2 DEF Once
    <3>2. Unsized(q, Len(q))
      BY <2>2 DEF Unsized
    <3>3. dom = Rows(served)
      BY <2>1, <3>2 DEF EndsAt
    <3>4. 1 \in Rows(served)
      BY ServedIs DEF PictureInv, ScreenOK, Rows
    <3>q. QED
      BY <3>1, <3>3, <3>4
  <2>q. QED
    BY <2>2
<1>7. client.gen = c => down[client.gen] = down[c] /\ down = [d \in Clients |-> down[d]]
  BY DEF TalkOK
<1>8. CASE client.gen = c /\ client.ready /\ SaysSize
  <2> DEFINE m == ResizedMsg(served')
  <2>1. m.type = "resized" /\ m.rows = served'
    BY DEF ResizedMsg
  <2>2. down' = [down EXCEPT ![client.gen] = @ \o <<m>>] /\ ~client.dead
    BY <1>8 DEF SaysSize
  <2> HIDE DEF m
  <2>3. down'[c] = q \o <<m>>
    BY <1>7, <1>8, <2>2
  <2> HIDE DEF q, dom, on
  <2>4. on \/ Len(q) # 0
    BY <1>6, <1>8, <2>2
  <2>5. Fitting(q \o <<m>>, dom) /\ Lawful(q \o <<m>>, on) /\ (SizeMsg(m) => EndsAt(q \o <<m>>, dom, m.rows))
    BY <1>1, <1>2, <2>1, <2>4, OneMoreFits
  <2>6. SizeMsg(m)
    BY SMTT(60), <2>1 DEF SizeMsg
  <2>q. QED
    BY <2>1, <2>3, <2>5, <2>6
<1>9. CASE client.gen = c /\ client.ready /\ SaysFrame
  <2>1. PICK msgs, k : FrameGoes(msgs, k)
    BY <1>9 DEF SaysFrame
  <2>2. ~client.dead /\ served' = served
    BY <1>9 DEF SaysFrame
  <2>3. CASE down' = down /\ k = Len(msgs)
    BY <1>2, <1>9, <2>2, <2>3
  <2>4. CASE down' = [down EXCEPT ![client.gen] = @ \o SubSeq(msgs, 1, k)]
    <3> DEFINE sent == SubSeq(msgs, 1, k)
    <3>0. Proper(msgs) /\ k \in 0..Len(msgs) /\ Len(msgs) \in Nat /\ DOMAIN msgs = 1..Len(msgs)
      BY <2>1 DEF FrameGoes, Proper
    <3>1. Proper(sent) /\ Len(sent) = k /\ \A i \in 1..k : sent[i] = msgs[i]
      BY <3>0, ProperSub
    <3>2. down' = [down EXCEPT ![client.gen] = @ \o sent]
      BY <2>4
    <3> HIDE DEF sent
    <3>3. down'[c] = q \o sent
      BY SMTT(60), <1>7, <1>9, <3>2
    <3>4. \A i \in DOMAIN msgs : msgs[i].type = "update" /\ Touched(msgs[i]) \subseteq Rows(served)
      BY <2>1 DEF FrameGoes
    <3>5. \A i \in 1..Len(sent) : i \in DOMAIN msgs /\ sent[i] = msgs[i]
      BY <3>0, <3>1
    <3>6. \A i \in 1..Len(sent) : sent[i].type = "update" /\ Touched(sent[i]) \subseteq Rows(served)
      BY <3>4, <3>5
    <3> HIDE DEF q, dom, on
    <3>7. on \/ Len(q) # 0
      BY <1>6, <1>9, <2>2
    <3>8. EndsAt(q, dom, served)
      BY <1>2, <1>9, <2>2
    <3>9. Fitting(q \o sent, dom) /\ Lawful(q \o sent, on) /\ EndsAt(q \o sent, dom, served)
      BY <1>1, <1>2, <3>1, <3>6, <3>7, <3>8, UpdatesFit
    <3>q. QED
      BY <2>2, <3>3, <3>9
  <2>q. QED
    BY <2>1, <2>3, <2>4 DEF FrameGoes
<1>q. QED
  BY <1>4, <1>5, <1>8, <1>9 DEF Speaks

LEMMA SpeaksTalk ==
  ASSUME PictureInv, TalkInv, Speaks, Settled, phase' = phase, shown' = shown,
         \A c \in Clients : c \in shut => c \in shut'
  PROVE  TalkInv'
<1>1. PeerOK /\ TalkOK
  BY DEF PictureInv, TalkInv
<1>2. /\ down' = [c \in Clients |-> down'[c]]
      /\ \A c \in Clients : /\ Proper(down'[c]) /\ Len(down'[c]) >= Len(down[c])
                            /\ c # client.gen \/ ~client.ready => down'[c] = down[c]
  BY <1>1, SpeaksTo
<1>3. TalkOK'
  BY <1>1, <1>2 DEF TalkOK
<1>4. client'.gen = client.gen /\ client'.ready = client.ready
  BY DEF Speaks
<1>5. ASSUME NEW c \in Clients PROVE Once(c)'
  <2>1. Once(c)
    BY DEF TalkInv, OnceOK
  <2>2. /\ Holds(events', c, "new") <=> Holds(events, c, "new")
        /\ Holds(events', c, "hello") => Holds(events, c, "hello")
    BY DEF Settled
  <2>q. QED
    BY <1>2, <1>4, <2>1, <2>2 DEF Once
<1>6. OnceOK'
  BY <1>5 DEF OnceOK, TalkInv, Settled
<1>7. ASSUME NEW c \in Clients PROVE QueueOK(c)'
  BY <1>1, <1>7, SpeaksFits DEF TalkInv, OnceOK
<1>8. ASSUME NEW c \in Clients PROVE Waits(c)'
  <2>1. Waits(c)
    BY DEF TalkInv
  <2>2. /\ Holds(events', c, "new") <=> Holds(events, c, "new")
        /\ c = client.gen /\ Holds(events, c, "hello") => Holds(events', c, "hello")
    BY DEF Settled
  <2>3. Len(down[c]) # 0 => Len(down'[c]) # 0
    <3>1. Len(down[c]) \in Nat /\ Len(down'[c]) \in Nat /\ Len(down'[c]) >= Len(down[c])
      BY <1>1, <1>2 DEF TalkOK, Proper
    <3>q. QED
      BY <3>1
  <2>q. QED
    BY <1>4, <2>1, <2>2, <2>3 DEF Waits
<1>q. QED
  BY <1>3, <1>6, <1>7, <1>8 DEF TalkInv

-----------------------------------------------------------------------------
(* The greeting: it is the first thing in the queue, and cannot be lost     *)
(* unless the client has left.                                              *)
LEMMA HelloTold ==
  ASSUME PictureInv, EventsOK, TalkInv, HandleHello
  PROVE  /\ client.gen \in Clients /\ ~client.ready /\ Holds(events, client.gen, "hello")
         /\ client'.gen = client.gen /\ client'.ready
         /\ \/ ~client'.dead /\ down' = [down EXCEPT ![client.gen] = @ \o <<HelloMsg(served')>>]
            \/ client'.dead /\ down' = down /\ phase[client.gen] \in {"left", "broken"}
<1> DEFINE g == client.gen
           wish == IF Msg.rows > 0 THEN Msg.rows
                   ELSE IF client.gen = 1 THEN DefaultRows ELSE size
           cr == [client EXCEPT !.ready = TRUE]
<1>1. /\ ApplyResize(wish, cr, TRUE)
      /\ events # <<>> /\ Head(events)[2].type = "hello" /\ Head(events)[1] = g
  BY DEF HandleHello, Present, Heads
<1>2. g \in Clients /\ Holds(events, g, "hello")
  BY <1>1, EventTaken DEF EventsOK, WellFormed
<1>3. Once(g) /\ PeerOK /\ TalkOK
  BY <1>2 DEF TalkInv, OnceOK, PictureInv
<1>4. ~client.ready /\ ~client.dead /\ client.dead = FALSE /\ Len(down[g]) = 0 /\ g # 0
  BY <1>2, <1>3, ClientsPositive DEF Once, PeerOK
<1>5. PICK to : Show(to, cr, TRUE, <<HelloMsg(ServedOf(to))>>)
  BY <1>1 DEF ApplyResize
<1>6. DOMAIN cr = PeerFields /\ cr.gen = g /\ cr.ready = TRUE /\ cr.dead = FALSE
  BY <1>3, <1>4 DEF PeerOK, PeerFields
<1> HIDE DEF cr, wish
<1> DEFINE w == ServedOf(to)
           cl == [cr EXCEPT !.full = cr.gen # 0 /\ (@ \/ TRUE \/ w # served)]
           m == HelloMsg(w)
<1>7. served' = w /\ \E k \in Accepted(cl, <<m>>) : Send(cl, <<m>>, k)
  BY <1>4, <1>5, <1>6 DEF Show
<1>8. cl.gen = g /\ cl.ready = TRUE /\ cl.dead = FALSE /\ DOMAIN cl = PeerFields
  BY <1>6 DEF PeerFields
<1> HIDE DEF cl, m, g
<1>9. Len(<<m>>) = 1 /\ SubSeq(<<m>>, 1, 1) = <<m>> /\ SubSeq(<<m>>, 1, 0) = <<>>
  BY OneOrNone
<1>10. PICK k \in Accepted(cl, <<m>>) : Send(cl, <<m>>, k)
  BY <1>7
<1>11. /\ down' = [down EXCEPT ![g] = @ \o SubSeq(<<m>>, 1, k)]
       /\ client' = [cl EXCEPT !.dead = @ \/ k < Len(<<m>>)]
  BY <1>8, <1>10 DEF Send
<1>12. client'.gen = g /\ client'.ready = TRUE /\ (client'.dead <=> k < 1)
  BY <1>8, <1>9, <1>11 DEF PeerFields
<1>13. k = 1 \/ (k = 0 /\ CanLose(cl, Len(down[g]) + 0))
  BY <1>8, <1>9, <1>10 DEF Accepted
<1>14. CASE k = 1
  <2>1. down' = [down EXCEPT ![g] = @ \o <<m>>]
    BY <1>9, <1>11, <1>14
  <2>2. ~client'.dead
    BY <1>12, <1>14
  <2>q. QED
    BY <1>2, <1>4, <1>7, <1>12, <2>1, <2>2 DEF m, g
<1>15. CASE k = 0 /\ CanLose(cl, Len(down[g]) + 0)
  <2>1. Len(down[g]) + 0 = 0 /\ WriteQueue \in Nat \ {0}
    BY <1>4, ScreenAssumption
  <2>2. phase[g] \in {"left", "broken"}
    BY <1>8, <1>15, <2>1 DEF CanLose
  <2>3. down' = down
    <3>1. down = [c \in Clients |-> down[c]] /\ Proper(down[g])
      BY <1>2, <1>3 DEF TalkOK, g
    <3>2. PICK S : down[g] \in Seq(S)
      BY <3>1, ProperIs
    <3>3. down[g] \o <<>> = down[g]
      BY <3>2
    <3>4. down' = [down EXCEPT ![g] = down[g]]
      BY <1>9, <1>11, <1>15, <3>3
    <3>q. QED
      BY <1>2, <3>1, <3>4 DEF g
  <2>4. client'.dead
    BY <1>12, <1>15
  <2>q. QED
    BY <1>2, <1>4, <1>12, <2>2, <2>3, <2>4 DEF g
<1>q. QED
  BY <1>13, <1>14, <1>15

LEMMA HelloTalk ==
  ASSUME PictureInv, EventsOK, TalkInv, HandleHello
  PROVE  TalkInv'
<1> DEFINE g == client.gen
           m == HelloMsg(served')
<1>1. /\ g \in Clients /\ ~client.ready /\ Holds(events, g, "hello")
      /\ client'.gen = g /\ client'.ready
      /\ \/ ~client'.dead /\ down' = [down EXCEPT ![g] = @ \o <<m>>]
         \/ client'.dead /\ down' = down /\ phase[g] \in {"left", "broken"}
  BY HelloTold
<1>2. /\ events # <<>> /\ events' = Tail(events)
      /\ Head(events)[2].type = "hello" /\ Head(events)[1] = g
      /\ phase' = phase /\ shown' = shown /\ shut' = shut
  BY DEF HandleHello, Present, Heads
<1>3. m.type = "hello" /\ m.rows = served'
  BY DEF HelloMsg
<1>4. TalkOK /\ OnlyOnce(events)
  BY DEF TalkInv, OnceOK
<1>5. /\ OnlyOnce(events') /\ ~Holds(events', g, "hello")
      /\ \A c, t : Holds(events', c, t) => Holds(events, c, t)
      /\ \A c : Holds(events, c, "new") => Holds(events', c, "new")
  BY <1>2, <1>4, EventTaken DEF EventsOK
<1> HIDE DEF g, m
<1>6. /\ down = [c \in Clients |-> down[c]] /\ DOMAIN phase = Clients /\ DOMAIN shown = Clients
      /\ \A c \in Clients : Proper(down[c]) /\ Len(down[c]) \in Nat
  BY <1>4 DEF TalkOK, Proper
<1>7. Proper(down[g] \o <<m>>) /\ Len(down[g] \o <<m>>) # 0
  <2> DEFINE one == <<m>>
  <2>1. Proper(one) /\ Len(one) = 1
    BY ProperShort
  <2> HIDE DEF one
  <2>2. Proper(down[g]) /\ Len(down[g]) \in Nat
    BY <1>1, <1>6
  <2>3. Proper(down[g] \o one)
    BY <2>1, <2>2, ProperConcat
  <2>4. Len(down[g] \o one) = Len(down[g]) + Len(one)
    BY <2>1, <2>2, ProperConcat
  <2>5. Len(down[g] \o one) # 0
    BY <2>1, <2>2, <2>4
  <2>q. QED
    BY <2>3, <2>5 DEF one
<1>8. /\ down' = [c \in Clients |-> down'[c]]
      /\ \A c \in Clients : Proper(down'[c])
      /\ \A c \in Clients : c # g => down'[c] = down[c]
      /\ \/ ~client'.dead /\ down'[g] = down[g] \o <<m>>
         \/ client'.dead /\ phase[g] \in {"left", "broken"}
  <2>1. CASE down' = down /\ client'.dead /\ phase[g] \in {"left", "broken"}
    BY <1>6, <2>1
  <2>2. CASE ~client'.dead /\ down' = [down EXCEPT ![g] = @ \o <<m>>]
    <3> DEFINE new == down[g] \o <<m>>
    <3>1. down' = [down EXCEPT ![g] = new] /\ Proper(new)
      BY <1>7, <2>2
    <3> HIDE DEF new
    <3>2. /\ down' = [c \in Clients |-> down'[c]] /\ down'[g] = new
          /\ \A c \in Clients : c # g => down'[c] = down[c]
      BY <1>1, <1>6, <3>1
    <3>3. \A c \in Clients : Proper(down'[c])
      BY <1>6, <3>1, <3>2
    <3>q. QED
      BY <2>2, <3>2, <3>3 DEF new
  <2>q. QED
    BY <1>1, <2>1, <2>2
<1>9. TalkOK'
  BY <1>2, <1>6, <1>8 DEF TalkOK
<1>10. \A c \in Clients : Once(c) /\ QueueOK(c) /\ Waits(c)
  BY DEF TalkInv, OnceOK
<1>11. client.gen = g
  BY DEF g
<1>12. Once(g)
  BY <1>1, <1>10
<1>13. ASSUME NEW c \in Clients PROVE Once(c)'
  <2>1. Once(c) /\ (Holds(events', c, "new") => Holds(events, c, "new"))
               /\ (Holds(events', c, "hello") => Holds(events, c, "hello"))
    BY <1>5, <1>10
  <2>2. CASE c = g
    BY <1>1, <1>2, <1>5, <1>11, <2>1, <2>2 DEF Once
  <2>3. CASE c # g
    BY <1>1, <1>2, <1>8, <1>11, <2>1, <2>3 DEF Once
  <2>q. QED
    BY <2>2, <2>3
<1>14. ASSUME NEW c \in Clients PROVE QueueOK(c)'
  <2>1. QueueOK(c)
    BY <1>10
  <2>2. CASE c # g
    BY <1>1, <1>2, <1>8, <2>1, <2>2 DEF QueueOK
  <2>3. CASE c = g /\ phase[g] \in {"left", "broken"}
    BY <1>2, <2>1, <2>3 DEF QueueOK
  <2>4. CASE c = g /\ phase[g] \notin {"left", "broken"} /\ ~client'.dead /\ down'[g] = down[g] \o <<m>>
    <3> DEFINE q == down[g]
               dom == DOMAIN shown[g]
               on == phase[g] = "on"
    <3>1. Len(q) = 0 /\ ~on /\ phase[g] # "on"
      BY <1>1, <1>11, <1>12 DEF Once
    <3>2. ASSUME phase[g] \in {"connected", "hello"} PROVE Fitting(q, dom) /\ Lawful(q, on)
      BY <2>1, <2>4, <3>2 DEF QueueOK
    <3>3. Proper(q)
      BY <1>1, <1>6
    <3>4. phase'[g] # "broken" /\ phase'[g] = phase[g] /\ shown'[g] = shown[g] /\ down'[g] = q \o <<m>>
      BY <1>2, <2>1, <2>4 DEF QueueOK
    <3> HIDE DEF q, dom, on
    <3>5. ASSUME phase[g] \in {"connected", "hello"}
          PROVE  Fitting(q \o <<m>>, dom) /\ Lawful(q \o <<m>>, on) /\ EndsAt(q \o <<m>>, dom, served')
      <4>1. /\ Fitting(q \o <<m>>, dom) /\ Lawful(q \o <<m>>, on)
            /\ SizeMsg(m) => EndsAt(q \o <<m>>, dom, m.rows)
        BY <1>3, <3>1, <3>2, <3>3, <3>5, OneMoreFits
      <4>2. SizeMsg(m)
        BY <1>3 DEF SizeMsg
      <4>q. QED
        BY <1>3, <4>1, <4>2
    <3>q. QED
      BY <2>4, <3>1, <3>4, <3>5 DEF QueueOK, dom, on
  <2>q. QED
    BY <1>8, <2>2, <2>3, <2>4
<1>15. ASSUME NEW c \in Clients PROVE Waits(c)'
  <2>1. Waits(c)
    BY <1>10
  <2>2. CASE c = g
    BY <1>2, <1>7, <1>8, <2>2 DEF Waits
  <2>3. CASE c # g
    BY <1>2, <1>5, <1>8, <1>11, <2>1, <2>3 DEF Waits
  <2>q. QED
    BY <2>2, <2>3
<1>q. QED
  BY <1>5, <1>9, <1>13, <1>14, <1>15 DEF TalkInv, OnceOK

-----------------------------------------------------------------------------
(* A client that is dropped keeps what fits of what it was sent and of its  *)
(* notice, and sees the end.                                                *)
LEMMA OwedFits ==
  ASSUME NEW q, Proper(q), NEW dom, NEW on, NEW notice,
         notice = <<>> \/ \E m : notice = <<m>> /\ m.type \in {"disconnect", "rejected"}
                                 /\ (m.type = "rejected" => Len(q) = 0 /\ ~on)
  PROVE  /\ Proper(q \o notice)
         /\ Fitting(q, dom) /\ Lawful(q, on) => Fitting(q \o notice, dom) /\ Lawful(q \o notice, on)
<1>1. CASE notice = <<>>
  <2>1. PICK S : q \in Seq(S)
    BY ProperIs
  <2>2. q \o <<>> = q
    BY <2>1
  <2>q. QED
    BY <1>1, <2>2
<1>2. ASSUME NEW m, notice = <<m>>, m.type \in {"disconnect", "rejected"},
             m.type = "rejected" => Len(q) = 0 /\ ~on
      PROVE  /\ Proper(q \o notice)
             /\ Fitting(q, dom) /\ Lawful(q, on) => Fitting(q \o notice, dom) /\ Lawful(q \o notice, on)
  <2>1. Proper(notice)
    BY <1>2, ProperShort
  <2>2. Proper(q \o notice)
    BY <2>1, ProperConcat
  <2>3. ASSUME Fitting(q, dom), Lawful(q, on) PROVE Fitting(q \o <<m>>, dom) /\ Lawful(q \o <<m>>, on)
    BY <1>2, <2>3, OneMoreFits
  <2>q. QED
    BY <1>2, <2>2, <2>3
<1>q. QED
  BY <1>1, <1>2

LEMMA DropTells ==
  ASSUME PeerOK, TalkOK, NEW notice, NEW rest, NEW next, NEW why, Drop(notice, rest, next, why),
         notice = <<>> \/ \E m : notice = <<m>> /\ m.type \in {"disconnect", "rejected"}
           /\ (m.type = "rejected" => Len(down[client.gen]) = 0 /\ phase[client.gen] # "on")
  PROVE  /\ client' = next
         /\ \A c \in Clients : c \in shut \/ c = client.gen => c \in shut'
         /\ down' = [c \in Clients |-> down'[c]]
         /\ \A c \in Clients :
              /\ Proper(down'[c]) /\ (c # client.gen => down'[c] = down[c])
              /\ \A dom : Fitting(down[c], dom) /\ Lawful(down[c], phase[c] = "on")
                            => Fitting(down'[c], dom) /\ Lawful(down'[c], phase[c] = "on")
<1> DEFINE g == client.gen
           said == IF client.dead THEN <<>> ELSE notice
           owed == down[g] \o said
<1>1. /\ down = [c \in Clients |-> down[c]] /\ \A c \in Clients : Proper(down[c])
      /\ g \in {0} \cup Clients
  BY DEF TalkOK, PeerOK
<1>2. CASE g = 0
  <2>1. client' = next /\ down' = down /\ (shut' = Clients \/ shut' = shut)
    BY <1>2 DEF Drop
  <2>q. QED
    BY <1>1, <1>2, <2>1, ClientsPositive
<1>3. CASE g # 0
  <2>1. /\ \E k \in 0..Len(owed) : down' = [down EXCEPT ![g] = SubSeq(owed, 1, k)]
        /\ client' = next
        /\ shut' = Clients \/ shut' = shut \cup {g}
    BY <1>3 DEF Drop
  <2>2. PICK k \in 0..Len(owed) : down' = [down EXCEPT ![g] = SubSeq(owed, 1, k)]
    BY <2>1
  <2>3. said = <<>> \/ \E m : said = <<m>> /\ m.type \in {"disconnect", "rejected"}
                              /\ (m.type = "rejected" => Len(down[g]) = 0 /\ ~(phase[g] = "on"))
    OBVIOUS
  <2>4. g \in Clients /\ Proper(down[g])
    BY <1>1, <1>3
  <2> HIDE DEF said
  <2>5. /\ Proper(owed)
        /\ \A dom : Fitting(down[g], dom) /\ Lawful(down[g], phase[g] = "on")
             => Fitting(owed, dom) /\ Lawful(owed, phase[g] = "on")
    BY <2>3, <2>4, OwedFits
  <2> HIDE DEF owed, g
  <2> DEFINE left == SubSeq(owed, 1, k)
  <2>6. Proper(left)
    BY <2>2, <2>5, ProperSub
  <2>7. \A dom : Fitting(owed, dom) /\ Lawful(owed, phase[g] = "on")
             => Fitting(left, dom) /\ Lawful(left, phase[g] = "on")
    BY <2>2, <2>5, PrefixFits
  <2>8. down' = [down EXCEPT ![g] = left]
    BY <2>2
  <2> HIDE DEF left
  <2>9. /\ down' = [c \in Clients |-> down'[c]] /\ down'[g] = left
        /\ \A c \in Clients : c # g => down'[c] = down[c]
    BY <1>1, <2>4, <2>8
  <2>10. ASSUME NEW c \in Clients
         PROVE  /\ Proper(down'[c])
                /\ \A dom : Fitting(down[c], dom) /\ Lawful(down[c], phase[c] = "on")
                              => Fitting(down'[c], dom) /\ Lawful(down'[c], phase[c] = "on")
    <3>1. CASE c = g
      BY <2>5, <2>6, <2>7, <2>9, <3>1
    <3>2. CASE c # g
      BY <1>1, <2>9, <3>2
    <3>q. QED
      BY <3>1, <3>2
  <2>q. QED
    BY <2>1, <2>9, <2>10 DEF g
<1>q. QED
  BY <1>2, <1>3

LEMMA DropTalk ==
  ASSUME PictureInv, EventsOK, TalkInv,
         NEW notice, NEW rest, NEW next, NEW why, Drop(notice, rest, next, why),
         notice = <<>> \/ \E m : notice = <<m>> /\ m.type \in {"disconnect", "rejected"}
           /\ (m.type = "rejected" => Len(down[client.gen]) = 0 /\ phase[client.gen] # "on"),
         Formed(rest), OnlyOnce(rest), \A c, t : Holds(rest, c, t) => Holds(events, c, t),
         \/ next.gen = 0
         \/ next.gen \in Clients /\ Holds(events, next.gen, "new") /\ ~Holds(rest, next.gen, "new"),
         ~next.ready,
         \A c \in Clients : Holds(events, c, "new") => Holds(rest, c, "new") \/ next.gen = c,
         phase' = phase, shown' = shown
  PROVE  TalkInv'
<1>1. PeerOK /\ TalkOK
  BY DEF PictureInv, TalkInv
<1>2. /\ client' = next
      /\ \A c \in Clients : c \in shut \/ c = client.gen => c \in shut'
      /\ down' = [c \in Clients |-> down'[c]]
      /\ \A c \in Clients :
           /\ Proper(down'[c]) /\ (c # client.gen => down'[c] = down[c])
           /\ \A dom : Fitting(down[c], dom) /\ Lawful(down[c], phase[c] = "on")
                         => Fitting(down'[c], dom) /\ Lawful(down'[c], phase[c] = "on")
  BY <1>1, DropTells
<1>3. /\ \A c, t : t # "closed" => (Holds(events', c, t) <=> Holds(rest, c, t))
      /\ OnlyOnce(events')
  <2>1. client.gen \in {0} \cup Clients
    BY <1>1 DEF PeerOK
  <2>q. QED
    BY <2>1, DropEvents
<1>4. \A c \in Clients : Once(c) /\ QueueOK(c) /\ Waits(c) /\ c # 0
  BY ClientsPositive DEF TalkInv, OnceOK
<1>5. TalkOK'
  BY <1>1, <1>2 DEF TalkOK
<1>6. ASSUME NEW c \in Clients
      PROVE  /\ Holds(events', c, "new") => Holds(events, c, "new") /\ next.gen # c
             /\ Holds(events', c, "hello") => Holds(events, c, "hello")
             /\ next.gen = c => Holds(events, c, "new")
             /\ Holds(events, c, "new") => Holds(events', c, "new") \/ next.gen = c
  BY <1>3, <1>4
<1>7. ASSUME NEW c \in Clients PROVE Once(c)'
  BY <1>2, <1>4, <1>6, <1>7 DEF Once
<1>8. ASSUME NEW c \in Clients PROVE QueueOK(c)'
  BY <1>2, <1>4, <1>8 DEF QueueOK
<1>9. ASSUME NEW c \in Clients PROVE Waits(c)'
  BY <1>2, <1>4, <1>6, <1>9 DEF Waits, Once
<1>q. QED
  BY <1>3, <1>5, <1>7, <1>8, <1>9 DEF TalkInv, OnceOK

LEMMA PicturingTalk ==
  ASSUME PictureInv, TalkInv, Picturing
  PROVE  TalkInv'
<1>1. TalkOK
  BY DEF TalkInv
<1>2. events' = events /\ shut' \in {shut, Clients} /\ phase' = phase /\ shown' = shown
  BY PicturingEvents
<1>3. Settled
  BY <1>2 DEF Settled
<1>4. Speaks
  BY <1>1, PicturingSays
<1>q. QED
  BY <1>2, <1>3, <1>4, SpeaksTalk

LEMMA AnsweringTalk ==
  ASSUME PictureInv, EventsOK, TalkInv, Answering
  PROVE  TalkInv'
<1>1. TalkOK
  BY DEF TalkInv
<1>2. Settled /\ phase' = phase /\ shown' = shown /\ shut' = shut
  BY AnsweringSettles
<1>3. Speaks
  BY <1>1, AnsweringSays
<1>q. QED
  BY <1>2, <1>3, SpeaksTalk

(* The next client takes the place of the one there is, whose end or whose  *)
(* age may also be why there is none.                                       *)
LEMMA HandleDropsTalk ==
  ASSUME PictureInv, EventsOK, TalkInv, HandleNew \/ HandleClosed \/ HandleRefused
  PROVE  TalkInv'
<1> DEFINE e == Head(events)
           rest == Tail(events)
<1>1. events # <<>> /\ OnlyOnce(events) /\ phase' = phase /\ shown' = shown
  BY DEF HandleNew, HandleClosed, HandleRefused, Present, Heads, TalkInv, OnceOK
<1>2. /\ Formed(rest) /\ WellFormed(e) /\ Holds(events, e[1], e[2].type)
      /\ \A c, t : Holds(rest, c, t) => Holds(events, c, t)
      /\ \A c, t : Holds(events, c, t) => Holds(rest, c, t) \/ (c = e[1] /\ t = e[2].type)
      /\ OnlyOnce(rest)
      /\ e[2].type \in {"new", "hello"} => ~Holds(rest, e[1], e[2].type)
  BY <1>1, EventTaken DEF EventsOK
<1>3. e[1] \in Clients
  BY <1>2 DEF WellFormed
<1>4. CASE HandleNew
  <2> DEFINE m == Plain("disconnect")
             next == Fresh(e[1])
  <2>1. Drop(<<m>>, rest, next, "none") /\ e[2].type = "new"
    BY <1>4 DEF HandleNew, Heads
  <2>2. m.type = "disconnect"
    BY DEF Plain
  <2>3. next.gen = e[1] /\ ~next.ready
    BY NobodyYet
  <2> HIDE DEF m, next, e, rest
  <2> DEFINE notice == <<m>>
  <2>4. notice = <<m>> /\ m.type \in {"disconnect", "rejected"} /\ m.type # "rejected"
    BY <2>2
  <2>5. Drop(notice, rest, next, "none")
    BY <2>1
  <2> HIDE DEF notice
  <2>6. \A c \in Clients : Holds(events, c, "new") => Holds(rest, c, "new") \/ next.gen = c
    BY <1>2, <2>3
  <2>7. next.gen \in Clients /\ Holds(events, next.gen, "new") /\ ~Holds(rest, next.gen, "new")
    BY <1>2, <1>3, <2>1, <2>3
  <2>q. QED
    BY <1>1, <1>2, <2>3, <2>4, <2>5, <2>6, <2>7, DropTalk
<1>5. CASE HandleClosed
  <2>1. Drop(<<>>, rest, None, AfterDisconnect) /\ e[2].type = "closed"
    BY <1>5 DEF HandleClosed, Present, Heads
  <2> HIDE DEF e, rest
  <2>2. \A c \in Clients : Holds(events, c, "new") => Holds(rest, c, "new") \/ None.gen = c
    BY <1>2, <2>1
  <2>q. QED
    BY <1>1, <1>2, <2>1, <2>2, NobodyYet, DropTalk
<1>6. CASE HandleRefused
  <2> DEFINE m == Plain("rejected")
             notice == <<m>>
  <2>1. Drop(notice, rest, None, AfterDisconnect) /\ e[2].type = "hello" /\ e[1] = client.gen
    BY <1>6 DEF HandleRefused, Present, Heads
  <2>2. m.type = "rejected" /\ notice = <<m>>
    BY DEF Plain
  <2> HIDE DEF m, notice, e, rest
  <2>3. \A c \in Clients : Holds(events, c, "new") => Holds(rest, c, "new") \/ None.gen = c
    BY <1>2, <2>1
  <2>4. Once(client.gen) /\ Holds(events, client.gen, "hello")
    BY <1>2, <1>3, <2>1 DEF TalkInv, OnceOK
  <2>5. Len(down[client.gen]) = 0 /\ phase[client.gen] # "on"
    BY <2>4 DEF Once, PictureInv, PeerOK
  <2>q. QED
    BY <1>1, <1>2, <2>1, <2>2, <2>3, <2>5, NobodyYet, DropTalk
<1>q. QED
  BY <1>4, <1>5, <1>6

LEMMA DropsTalk ==
  ASSUME PictureInv, EventsOK, TalkInv, DropDead \/ Expire \/ Quit
  PROVE  TalkInv'
<1>1. /\ OnlyOnce(events) /\ Formed(events) /\ phase' = phase /\ shown' = shown
      /\ \E why : Drop(<<>>, events, None, why) \/ Drop(<<Plain("disconnect")>>, events, None, why)
  BY DEF DropDead, Expire, Quit, TalkInv, OnceOK, EventsOK
<1>2. PICK why : Drop(<<>>, events, None, why) \/ Drop(<<Plain("disconnect")>>, events, None, why)
  BY <1>1
<1>3. CASE Drop(<<>>, events, None, why)
  BY <1>1, <1>3, NobodyYet, DropTalk
<1>4. CASE Drop(<<Plain("disconnect")>>, events, None, why)
  <2> DEFINE m == Plain("disconnect")
             notice == <<m>>
  <2>1. m.type = "disconnect" /\ notice = <<m>> /\ Drop(notice, events, None, why)
    BY <1>4 DEF Plain
  <2> HIDE DEF m, notice
  <2>q. QED
    BY <1>1, <2>1, NobodyYet, DropTalk
<1>q. QED
  BY <1>2, <1>3, <1>4

-----------------------------------------------------------------------------
(* A step of one client: nothing changes for the others.                    *)
Alone(c) ==
  /\ client' = client /\ served' = served /\ shut' = shut
  /\ DOMAIN phase' = Clients /\ DOMAIN shown' = Clients
  /\ down' = [d \in Clients |-> down'[d]] /\ Proper(down'[c])
  /\ \A d \in Clients : d # c => phase'[d] = phase[d] /\ shown'[d] = shown[d] /\ down'[d] = down[d]

(* What it tells the core: "new" and "hello" from their own phases only.    *)
Heard(c) ==
  /\ OnlyOnce(events')
  /\ \A d, t : Holds(events, d, t) => Holds(events', d, t)
  /\ \A d, t : t \in {"new", "hello"} /\ Holds(events', d, t) =>
       \/ Holds(events, d, t)
       \/ d = c /\ t = "new" /\ Connect(c)
       \/ d = c /\ t = "hello" /\ Hello(c)

LEMMA ClientHeard ==
  ASSUME EventsOK, TalkInv, NEW c \in Clients, Connect(c) \/ Ask(c) \/ Leave(c) \/ ClientStep(c)
  PROVE  Heard(c)
<1>1. OnlyOnce(events) /\ Once(c)
  BY DEF TalkInv, OnceOK
<1>2. CASE events' = events
  BY <1>1, <1>2 DEF Heard
<1>3. ASSUME NEW m, WellFormed(<<c, m>>), events' = events \o <<<<c, m>>>>,
             m.type = "new" => Connect(c), m.type = "hello" => Hello(c)
      PROVE  Heard(c)
  <2>1. \A d, t : Holds(events', d, t) <=> Holds(events, d, t) \/ (d = c /\ t = m.type)
    BY <1>3, EventAdded DEF EventsOK
  <2>2. m.type \in {"new", "hello"} => ~Holds(events, c, m.type)
    BY <1>1, <1>3 DEF Once, Connect, Hello
  <2>3. OnlyOnce(events')
    BY <1>1, <1>3, <2>2, EventAdded DEF EventsOK
  <2>q. QED
    BY <1>3, <2>1, <2>3 DEF Heard
<1>q. QED
  BY <1>2, <1>3, ClientEvents

LEMMA AloneTalk ==
  ASSUME TalkInv, NEW c \in Clients, Alone(c), Heard(c), Once(c)', QueueOK(c)', Waits(c)'
  PROVE  TalkInv'
<1>1. TalkOK /\ \A d \in Clients : Once(d) /\ QueueOK(d) /\ Waits(d)
  BY DEF TalkInv, OnceOK
<1>2. ASSUME NEW d \in Clients, d # c
      PROVE  /\ phase'[d] = phase[d] /\ shown'[d] = shown[d] /\ down'[d] = down[d]
             /\ Holds(events', d, "new") <=> Holds(events, d, "new")
             /\ Holds(events', d, "hello") <=> Holds(events, d, "hello")
             /\ client' = client /\ served' = served /\ shut' = shut
  BY <1>2 DEF Alone, Heard
<1>3. TalkOK'
  BY <1>1, <1>2 DEF TalkOK, Alone
<1>4. ASSUME NEW d \in Clients, d # c PROVE Once(d)'
  BY <1>1, <1>2, <1>4 DEF Once
<1>5. ASSUME NEW d \in Clients, d # c PROVE QueueOK(d)'
  BY <1>1, <1>2, <1>5 DEF QueueOK
<1>6. ASSUME NEW d \in Clients, d # c PROVE Waits(d)'
  BY <1>1, <1>2, <1>6 DEF Waits
<1>7. OnceOK'
  BY <1>4 DEF OnceOK, Heard
<1>q. QED
  BY <1>3, <1>5, <1>6, <1>7 DEF TalkInv

LEMMA ConnectTalk ==
  ASSUME EventsOK, TalkInv, NEW c \in Clients, Connect(c)
  PROVE  TalkInv'
<1>1. TalkOK /\ Once(c) /\ QueueOK(c)
  BY DEF TalkInv, OnceOK
<1>2. Heard(c)
  BY ClientHeard
<1>3. Alone(c) /\ phase'[c] = "connected" /\ shown' = shown /\ down' = down /\ phase[c] = "new"
  BY <1>1 DEF Connect, Alone, TalkOK, codeVars
<1>4. ~Hello(c)
  BY <1>3 DEF Hello
<1>5. Once(c)'
  BY <1>1, <1>2, <1>3, <1>4 DEF Once, Heard, Alone
<1>6. Holds(events', c, "new")
  <2> DEFINE m == Plain("new")
  <2>1. WellFormed(<<c, m>>) /\ m.type = "new" /\ events' = events \o <<<<c, m>>>>
    BY ConnectEvents, Wellformed
  <2> HIDE DEF m
  <2>q. QED
    BY <2>1, EventAdded DEF EventsOK
<1>7. Len(down'[c]) = 0 /\ client'.gen # c
  BY <1>1, <1>3 DEF Once, Alone
<1>8. QueueOK(c)'
  BY <1>3, <1>7 DEF QueueOK, Fitting, Lawful
<1>9. Waits(c)'
  BY <1>6 DEF Waits
<1>q. QED
  BY <1>2, <1>3, <1>5, <1>8, <1>9, AloneTalk

LEMMA HelloSaidTalk ==
  ASSUME EventsOK, TalkInv, NEW c \in Clients, Hello(c)
  PROVE  TalkInv'
<1>1. TalkOK /\ Once(c) /\ QueueOK(c) /\ Waits(c)
  BY DEF TalkInv, OnceOK
<1>2. Heard(c)
  BY ClientHeard DEF ClientStep
<1>3. /\ Alone(c) /\ phase'[c] = "hello" /\ shown' = shown /\ down' = down /\ phase[c] = "connected"
      /\ c \notin shut /\ <<c, Plain("new")>> \notin Range(events)
  BY <1>1 DEF Hello, Alone, TalkOK, codeVars
<1>4. ~Connect(c)
  BY <1>3 DEF Connect
<1>5. ~Holds(events, c, "new")
  <2> SUFFICES ASSUME NEW i \in DOMAIN events, events[i][1] = c, events[i][2].type = "new" PROVE FALSE
    BY DEF Holds
  <2>1. events[i] = <<c, Plain("new")>>
    BY DEF EventsOK, Formed, WellFormed
  <2>q. QED
    BY <1>3, <2>1 DEF Range
<1>6. Once(c)'
  BY <1>1, <1>2, <1>3, <1>4, <1>5 DEF Once, Heard, Alone
<1>7. Holds(events', c, "hello")
  <2>1. PICK n \in Int : /\ WellFormed(<<c, HelloMsg(n)>>) /\ HelloMsg(n).type = "hello"
                         /\ events' = events \o <<<<c, HelloMsg(n)>>>>
    BY HelloEvents
  <2> DEFINE m == HelloMsg(n)
  <2>2. WellFormed(<<c, m>>) /\ m.type = "hello" /\ events' = events \o <<<<c, m>>>>
    BY <2>1
  <2> HIDE DEF m
  <2>q. QED
    BY <2>2, EventAdded DEF EventsOK
<1>8. QueueOK(c)'
  BY <1>1, <1>3 DEF QueueOK, Alone
<1>9. Waits(c)'
  BY <1>1, <1>3, <1>5, <1>7 DEF Waits, Alone
<1>q. QED
  BY <1>2, <1>3, <1>6, <1>8, <1>9, AloneTalk

LEMMA AskTalk ==
  ASSUME EventsOK, TalkInv, NEW c \in Clients, Ask(c)
  PROVE  TalkInv'
<1>1. TalkOK /\ Once(c) /\ QueueOK(c) /\ Waits(c)
  BY DEF TalkInv, OnceOK
<1>2. Heard(c)
  BY ClientHeard
<1>3. Alone(c) /\ phase' = phase /\ shown' = shown /\ down' = down /\ phase[c] = "on"
  BY <1>1 DEF Ask, Alone, TalkOK, codeVars
<1>4. ~Connect(c) /\ ~Hello(c)
  BY <1>3 DEF Connect, Hello
<1>5. Once(c)'
  BY <1>1, <1>2, <1>3, <1>4 DEF Once, Heard, Alone
<1>6. QueueOK(c)' /\ Waits(c)'
  BY <1>1, <1>3 DEF QueueOK, Waits, Alone
<1>q. QED
  BY <1>2, <1>3, <1>5, <1>6, AloneTalk

(* A client that is through with the session.                               *)
LEMMA GoneTalk ==
  ASSUME EventsOK, TalkInv, NEW c \in Clients, Heard(c), phase[c] \in {"connected", "hello", "on"},
         ~Connect(c), ~Hello(c),
         phase' = [phase EXCEPT ![c] = "left"], down' = [down EXCEPT ![c] = <<>>], shown' = shown,
         UNCHANGED <<client, served, shut>>
  PROVE  TalkInv'
<1>1. TalkOK /\ Once(c)
  BY DEF TalkInv, OnceOK
<1>2. down'[c] = <<>> /\ phase'[c] = "left"
  BY <1>1 DEF TalkOK
<1>3. Alone(c)
  BY <1>1, <1>2, ProperShort DEF Alone, TalkOK
<1>4. Len(down'[c]) = 0
  BY <1>2, ProperShort
<1>5. Once(c)'
  BY <1>1, <1>2, <1>4 DEF Once, Heard
<1>6. QueueOK(c)' /\ Waits(c)'
  BY <1>2 DEF QueueOK, Waits
<1>q. QED
  BY <1>3, <1>5, <1>6, AloneTalk

LEMMA LeaveTalk ==
  ASSUME EventsOK, TalkInv, NEW c \in Clients, Leave(c) \/ SeesEnd(c)
  PROVE  TalkInv'
<1>1. Heard(c)
  BY ClientHeard DEF ClientStep
<1>2. /\ phase[c] \in {"connected", "hello", "on"} /\ shown' = shown
      /\ phase' = [phase EXCEPT ![c] = "left"] /\ down' = [down EXCEPT ![c] = <<>>]
      /\ UNCHANGED <<client, served, shut>>
  BY DEF Leave, SeesEnd, Ends, codeVars
<1>3. ~Connect(c) /\ ~Hello(c)
  <2>1. TalkOK
    BY DEF TalkInv
  <2>2. phase'[c] = "left"
    BY <1>2, <2>1 DEF TalkOK
  <2>3. Connect(c) \/ Hello(c) => phase'[c] \in {"connected", "hello"}
    BY <2>1 DEF Connect, Hello, TalkOK
  <2>q. QED
    BY <2>2, <2>3
<1>q. QED
  BY <1>1, <1>2, <1>3, GoneTalk

(* A message that fits is taken: the greeting, a size, or an update.        *)
LEMMA TakenTalk ==
  ASSUME EventsOK, TalkInv, NEW c \in Clients, Heard(c), ~Connect(c), ~Hello(c),
         down[c] # <<>>, NEW f, NEW d,
         \/ phase[c] \in {"connected", "hello"} /\ SizeMsg(down[c][1])
         \/ phase[c] = "on",
         d = IF SizeMsg(down[c][1]) THEN Rows(down[c][1].rows) ELSE DOMAIN shown[c],
         DOMAIN f = d, UNCHANGED <<client, served, shut>>,
         DOMAIN phase' = Clients, phase'[c] = "on",
         \A b \in Clients : b # c => phase'[b] = phase[b],
         shown' = [shown EXCEPT ![c] = f], down' = [down EXCEPT ![c] = Tail(@)]
  PROVE  TalkInv'
<1> DEFINE q == down[c]
           on == phase[c] = "on"
<1>1. TalkOK /\ Once(c) /\ QueueOK(c) /\ Proper(q)
  BY DEF TalkInv, OnceOK, TalkOK
<1>2. /\ Proper(Tail(q)) /\ Len(q) # 0
  BY <1>1, ProperTail
<1>3. down'[c] = Tail(q) /\ DOMAIN shown'[c] = d
  BY <1>1 DEF TalkOK
<1>4. Alone(c)
  BY <1>1, <1>2, <1>3 DEF Alone, TalkOK
<1>5. /\ Fitting(q, DOMAIN shown[c]) /\ Lawful(q, on)
      /\ client.gen = c /\ client.ready /\ ~client.dead => EndsAt(q, DOMAIN shown[c], served)
  BY <1>1 DEF QueueOK
<1>6. on \/ SizeMsg(q[1])
  OBVIOUS
<1> DEFINE dom == DOMAIN shown[c]
<1>7. d = IF SizeMsg(q[1]) THEN Rows(q[1].rows) ELSE dom
  OBVIOUS
<1>8. q # <<>>
  OBVIOUS
<1>9. Fitting(q, dom) /\ Lawful(q, on) /\ Proper(q)
  BY <1>1, <1>5
<1>10. client.gen = c /\ client.ready /\ ~client.dead => EndsAt(q, dom, served)
  BY <1>5
<1>11. Once(c)'
  BY <1>1, <1>2, <1>3 DEF Once, Heard
<1> HIDE DEF q, on, dom
<1>12. /\ Fitting(Tail(q), d) /\ Lawful(Tail(q), TRUE)
       /\ \A n : EndsAt(q, dom, n) => EndsAt(Tail(q), d, n)
  BY <1>6, <1>7, <1>8, <1>9, TailFits
<1>13. QueueOK(c)'
  <2>1. phase'[c] = "on" /\ client' = client /\ served' = served
    OBVIOUS
  <2>2. Lawful(down'[c], phase'[c] = "on")
    BY <1>3, <1>12, <2>1
  <2>q. QED
    BY <1>3, <1>10, <1>12, <2>1, <2>2 DEF QueueOK
<1>14. Waits(c)'
  BY DEF Waits
<1>q. QED
  BY <1>4, <1>11, <1>13, <1>14, AloneTalk

LEMMA GreetedTalk ==
  ASSUME EventsOK, TalkInv, NEW c \in Clients, Greeted(c)
  PROVE  TalkInv'
<1>1. TalkOK /\ QueueOK(c) /\ Proper(down[c])
  BY DEF TalkInv, TalkOK
<1>2. Heard(c)
  BY ClientHeard DEF ClientStep
<1> DEFINE msg == Head(down[c])
<1>3. /\ phase[c] \in {"connected", "hello"} /\ down[c] # <<>>
      /\ UNCHANGED <<client, served, shut>>
  BY DEF Greeted, codeVars
<1>4. 1 \in 1..Len(down[c]) /\ msg = down[c][1]
  BY <1>1, <1>3, ProperTail
<1>5. msg.type \in {"hello", "rejected", "disconnect"}
  BY <1>1, <1>3, <1>4 DEF QueueOK, Lawful
<1>6. ASSUME phase'[c] \in {"on", "left"} PROVE ~Connect(c) /\ ~Hello(c)
  BY <1>1, <1>6 DEF Connect, Hello, TalkOK
<1>7. CASE msg.type = "hello"
  <2>1. /\ phase' = [phase EXCEPT ![c] = "on"]
        /\ shown' = [shown EXCEPT ![c] = Blank(msg.rows)]
        /\ down' = [down EXCEPT ![c] = Tail(@)]
    BY <1>7 DEF Greeted
  <2>2. phase'[c] = "on" /\ DOMAIN phase' = Clients /\ \A b \in Clients : b # c => phase'[b] = phase[b]
    BY <1>1, <2>1 DEF TalkOK
  <2>3. DOMAIN Blank(msg.rows) = Rows(msg.rows)
    BY DEF Blank
  <2>4. SizeMsg(msg)
    BY <1>7 DEF SizeMsg
  <2> DEFINE f == Blank(msg.rows)
             d == Rows(msg.rows)
  <2>5. /\ shown' = [shown EXCEPT ![c] = f] /\ DOMAIN f = d
        /\ d = IF SizeMsg(down[c][1]) THEN Rows(down[c][1].rows) ELSE DOMAIN shown[c]
        /\ SizeMsg(down[c][1])
    BY <1>4, <2>1, <2>3, <2>4
  <2>6. ~Connect(c) /\ ~Hello(c)
    BY <1>6, <2>2
  <2>7. down' = [down EXCEPT ![c] = Tail(@)] /\ SizeMsg(down[c][1])
    BY <2>1, <2>5
  <2>8. d = IF SizeMsg(down[c][1]) THEN Rows(down[c][1].rows) ELSE DOMAIN shown[c]
    BY <2>5
  <2>9. shown' = [shown EXCEPT ![c] = f] /\ DOMAIN f = d
    BY <2>5
  <2> HIDE DEF f, d, msg
  <2>q. QED
    BY <1>2, <1>3, <2>2, <2>6, <2>7, <2>8, <2>9, TakenTalk
<1>8. CASE msg.type # "hello"
  <2>1. Ends(c, "left")
    BY <1>5, <1>8 DEF Greeted
  <2>2. phase'[c] = "left"
    BY <1>1, <2>1 DEF Ends, TalkOK
  <2>q. QED
    BY <1>2, <1>3, <1>6, <2>1, <2>2, GoneTalk DEF Ends
<1>q. QED
  BY <1>7, <1>8

(* A client at work is sent nothing it cannot take.                         *)
LEMMA ReceiveTalk ==
  ASSUME EventsOK, TalkInv, NEW c \in Clients, Receive(c)
  PROVE  TalkInv'
<1>1. TalkOK /\ QueueOK(c) /\ Proper(down[c])
  BY DEF TalkInv, TalkOK
<1>2. Heard(c)
  BY ClientHeard DEF ClientStep
<1> DEFINE msg == Head(down[c])
           good == msg.type = "resized" \/ (msg.type = "update" /\ Fits(shown[c], msg))
<1>3. phase[c] = "on" /\ down[c] # <<>> /\ UNCHANGED <<client, served, shut>>
  BY DEF Receive, codeVars
<1>4. 1 \in 1..Len(down[c]) /\ msg = down[c][1]
  BY <1>1, <1>3, ProperTail
<1>5. msg.type \in {"resized", "update", "disconnect"}
  <2>1. msg.type \in Kinds /\ msg.type \notin {"hello", "rejected"}
    BY <1>1, <1>3, <1>4 DEF QueueOK, Lawful
  <2>q. QED
    BY <2>1 DEF Kinds
<1>6. ASSUME msg.type = "update" PROVE Fits(shown[c], msg) /\ ~SizeMsg(msg)
  <2>1. ~SizeMsg(msg)
    BY <1>6 DEF SizeMsg
  <2>2. Unsized(down[c], 1)
    BY <1>4, <2>1 DEF Unsized
  <2>3. Touched(msg) \subseteq DOMAIN shown[c]
    BY <1>1, <1>3, <1>4, <1>6, <2>2 DEF QueueOK, Fitting
  <2>q. QED
    BY <2>1, <2>3 DEF Fits, Touched
<1>7. ASSUME phase'[c] \in {"on", "left"} PROVE ~Connect(c) /\ ~Hello(c)
  BY <1>1, <1>7 DEF Connect, Hello, TalkOK
<1>8. CASE good
  <2> DEFINE f == Applied(shown[c], msg)
             d == IF SizeMsg(msg) THEN Rows(msg.rows) ELSE DOMAIN shown[c]
  <2>1. /\ shown' = [shown EXCEPT ![c] = f] /\ down' = [down EXCEPT ![c] = Tail(@)]
        /\ phase' = phase
    BY <1>8 DEF Receive
  <2>2. DOMAIN f = d
    BY <1>8 DEF Applied, SizeMsg
  <2>3. d = IF SizeMsg(down[c][1]) THEN Rows(down[c][1].rows) ELSE DOMAIN shown[c]
    BY <1>4
  <2>4. phase'[c] = "on" /\ DOMAIN phase' = Clients /\ \A b \in Clients : b # c => phase'[b] = phase[b]
    BY <1>1, <1>3, <2>1 DEF TalkOK
  <2> HIDE DEF f, d, msg
  <2>q. QED
    BY <1>2, <1>3, <1>7, <2>1, <2>2, <2>3, <2>4, TakenTalk
<1>9. CASE ~good
  <2>1. msg.type = "disconnect"
    BY <1>5, <1>6, <1>9
  <2>2. Ends(c, "left")
    BY <1>9, <2>1 DEF Receive
  <2>3. phase'[c] = "left"
    BY <1>1, <2>2 DEF Ends, TalkOK
  <2>q. QED
    BY <1>2, <1>3, <1>7, <2>2, <2>3, GoneTalk DEF Ends
<1>q. QED
  BY <1>8, <1>9

LEMMA TalkInit ==
  ASSUME Init
  PROVE  TalkInv
<1>1. /\ events = <<>> /\ client = None /\ down = [c \in Clients |-> <<>>]
      /\ phase = [c \in Clients |-> "new"] /\ shown = [c \in Clients |-> <<>>]
  BY DEF Init
<1>2. client.gen = 0 /\ ~client.ready /\ DOMAIN events = {} /\ Len(<<>>) = 0 /\ Proper(<<>>)
  BY <1>1, NobodyYet, ProperShort
<1>3. ASSUME NEW c \in Clients
      PROVE  /\ phase[c] = "new" /\ DOMAIN shown[c] = {} /\ c # 0
             /\ Len(down[c]) = 0 /\ Proper(down[c]) /\ down[c] = <<>>
  BY <1>1, <1>2, ClientsPositive
<1>4. TalkOK
  BY <1>1, <1>3 DEF TalkOK
<1>5. \A c, t : ~Holds(events, c, t)
  BY <1>2 DEF Holds
<1>6. ASSUME NEW c \in Clients PROVE Once(c) /\ QueueOK(c) /\ Waits(c)
  BY <1>2, <1>3, <1>5 DEF Once, QueueOK, Waits
<1>7. OnlyOnce(events)
  BY <1>2 DEF OnlyOnce
<1>q. QED
  BY <1>4, <1>6, <1>7 DEF TalkInv, OnceOK

LEMMA TalkStep ==
  ASSUME PictureInv, EventsOK, TalkInv, Next
  PROVE  TalkInv'
<1>1. CASE Picturing
  BY <1>1, PicturingTalk
<1>2. CASE Handle
  BY <1>2, AnsweringTalk, HandleDropsTalk, HelloTalk DEF Handle, Answering
<1>3. CASE DropDead \/ Expire \/ Quit
  BY <1>3, DropsTalk
<1>4. ASSUME NEW c \in Clients, Connect(c) \/ Ask(c) \/ Leave(c) \/ ClientStep(c)
      PROVE  TalkInv'
  BY <1>4, ConnectTalk, AskTalk, LeaveTalk, HelloSaidTalk, GreetedTalk, ReceiveTalk DEF ClientStep
<1>q. QED
  BY <1>1, <1>2, <1>3, <1>4, NextSteps

LEMMA TalkAlways == Spec => []TalkInv
<1>1. Init => TalkInv
  BY TalkInit
<1>2. PictureInv /\ EventsOK /\ TalkInv /\ [Next]_vars => TalkInv'
  <2> SUFFICES ASSUME PictureInv, EventsOK, TalkInv, [Next]_vars PROVE TalkInv'
    OBVIOUS
  <2>1. CASE Next
    BY <2>1, TalkStep
  <2>2. CASE UNCHANGED vars
    <3>1. UNCHANGED <<served, client, events, down, shut, phase, shown>>
      BY <2>2 DEF vars, codeVars
    <3>2. TalkOK' /\ OnceOK'
      BY <3>1 DEF TalkInv, TalkOK, OnceOK, Once
    <3>3. ASSUME NEW c \in Clients PROVE QueueOK(c)' /\ Waits(c)'
      BY <3>1 DEF TalkInv, QueueOK, Waits
    <3>q. QED
      BY <3>2, <3>3 DEF TalkInv
  <2>q. QED
    BY <2>1, <2>2
<1>q. QED
  BY <1>1, <1>2, PictureAlways, PTL DEF Spec

(* No client is ever sent what it cannot take, however its size and its     *)
(* replacement cross with what is on its way: no frame or size comes before *)
(* the greeting, no second greeting, and no tile or copy reaches outside    *)
(* the screen the client was last told of (adopt_size, Decoder::apply_tile).*)
THEOREM NobodyBroken == Spec => []NeverBroken
<1>1. TalkInv => NeverBroken
  BY DEF TalkInv, QueueOK, NeverBroken
<1>q. QED
  BY <1>1, TalkAlways, PTL

(* A client that waits for its greeting waits for something: its connection *)
(* or its hello is in the channel, or an answer or an end is before it; a   *)
(* client that takes another's place does not leave it forgotten            *)
(* (accept_client).                                                         *)
THEOREM NoneForgotten == Spec => []NobodyForgotten
<1>1. EventsOK /\ TalkInv => NobodyForgotten
  <2> SUFFICES ASSUME EventsOK, TalkInv, NEW c \in Clients, phase[c] \in {"connected", "hello"}
               PROVE  \/ c \in shut \/ down[c] # <<>> \/ <<c, Plain("new")>> \in Range(events)
                      \/ /\ client.gen = c /\ ~client.ready
                         /\ \/ phase[c] = "connected" \/ client.dead
                            \/ \E e \in Range(events) : e[1] = c /\ e[2].type = "hello"
    BY DEF NobodyForgotten
  <2>1. \/ c \in shut \/ Len(down[c]) # 0 \/ Holds(events, c, "new")
        \/ client.gen = c /\ ~client.ready /\ (phase[c] = "connected" \/ Holds(events, c, "hello"))
    BY DEF TalkInv, Waits
  <2>2. Len(down[c]) # 0 => down[c] # <<>>
    BY ProperShort
  <2>3. ASSUME Holds(events, c, "new") PROVE <<c, Plain("new")>> \in Range(events)
    <3>1. PICK i \in DOMAIN events : events[i][1] = c /\ events[i][2].type = "new"
      BY <2>3 DEF Holds
    <3>2. events[i] = <<c, Plain("new")>>
      BY <3>1 DEF EventsOK, Formed, WellFormed
    <3>q. QED
      BY <3>2 DEF Range
  <2>4. Holds(events, c, "hello") => \E e \in Range(events) : e[1] = c /\ e[2].type = "hello"
    BY DEF Holds, Range
  <2>q. QED
    BY <2>1, <2>2, <2>3, <2>4
<1>q. QED
  BY <1>1, PictureAlways, TalkAlways, PTL

-----------------------------------------------------------------------------
(* Frames and their acknowledgements on their way. What is put in or taken  *)
(* out and is no frame leaves the order of the others.                      *)
LEMMA ProperOneMore ==
  ASSUME NEW q, NEW e, Proper(q)
  PROVE  /\ Proper(q \o <<e>>) /\ Len(q \o <<e>>) = Len(q) + 1 /\ Len(q) \in Nat
         /\ \A i \in 1..Len(q) : (q \o <<e>>)[i] = q[i]
         /\ (q \o <<e>>)[Len(q) + 1] = e
<1> DEFINE one == <<e>>
<1>1. Proper(one) /\ Len(one) = 1 /\ one[1] = e /\ 1 \in 1..1
  BY ProperShort
<1> HIDE DEF one
<1>2. Proper(q \o one)
  BY <1>1, ProperConcat
<1>3. Len(q \o one) = Len(q) + Len(one) /\ Len(q) \in Nat
  BY <1>1, ProperConcat
<1>4. \A i \in 1..Len(q) : (q \o one)[i] = q[i]
  BY <1>1, ProperConcat
<1>5. \A i \in 1..Len(one) : (q \o one)[Len(q) + i] = one[i]
  BY <1>1, ProperConcat
<1> DEFINE p == q \o one
<1>6. p[Len(q) + 1] = e
  BY <1>1, <1>5
<1> HIDE DEF p
<1>q. QED
  BY <1>1, <1>2, <1>3, <1>4, <1>6 DEF one, p

LEMMA WayIs ==
  ASSUME NEW c, NEW q, NEW d, Proper(q), Proper(d)
  PROVE  /\ Len(q) \in Nat /\ Len(d) \in Nat
         /\ DOMAIN Way(c, q, d) = 1..(Len(q) + Len(d))
         /\ \A x \in 1..Len(q) : Way(c, q, d)[x] = IdBack(c, q[x])
         /\ \A x \in 1..Len(d) : Way(c, q, d)[Len(q) + x] = IdThere(d[x])
         /\ \A x \in (Len(q) + 1)..(Len(q) + Len(d)) : Way(c, q, d)[x] = IdThere(d[x - Len(q)])
<1>1. Len(q) \in Nat /\ Len(d) \in Nat
  BY DEF Proper
<1>2. \A x \in 1..Len(d) : Len(q) + x \in 1..(Len(q) + Len(d)) /\ ~(Len(q) + x <= Len(q)) /\ (Len(q) + x) - Len(q) = x
  BY <1>1
<1>q. QED
  BY <1>1, <1>2 DEF Way

LEMMA Rearranged ==
  ASSUME NEW flight, NEW w, NEW v, NEW g, Follows(flight, w),
         DOMAIN w \subseteq Int, DOMAIN v \subseteq Int,
         \A n \in DOMAIN flight : flight[n] # NoFrame,
         \A x \in DOMAIN w : w[x] # NoFrame => g[x] \in DOMAIN v /\ v[g[x]] = w[x],
         \A y \in DOMAIN v : v[y] # NoFrame => \E x \in DOMAIN w : w[x] = v[y] /\ g[x] = y,
         \A x, y \in DOMAIN w : w[x] # NoFrame /\ w[y] # NoFrame => (g[x] < g[y] <=> x < y)
  PROVE  Follows(flight, v)
<1>1. ASSUME NEW n \in DOMAIN flight PROVE \E y \in DOMAIN v : v[y] = flight[n]
  <2>1. PICK x \in DOMAIN w : w[x] = flight[n]
    BY DEF Follows
  <2>q. QED
    BY <2>1
<1>2. ASSUME NEW y \in DOMAIN v, v[y] # NoFrame PROVE \E n \in DOMAIN flight : flight[n] = v[y]
  <2>1. PICK x \in DOMAIN w : w[x] = v[y] /\ g[x] = y
    BY <1>2
  <2>q. QED
    BY <1>2, <2>1 DEF Follows
<1>3. ASSUME NEW x \in DOMAIN v, NEW y \in DOMAIN v, NEW n \in DOMAIN flight, NEW m \in DOMAIN flight,
             v[x] = flight[n], v[y] = flight[m]
      PROVE  x < y <=> n < m
  <2>1. PICK i \in DOMAIN w : w[i] = v[x] /\ g[i] = x
    BY <1>3
  <2>2. PICK j \in DOMAIN w : w[j] = v[y] /\ g[j] = y
    BY <1>3
  <2>3. i < j <=> n < m
    BY <1>3, <2>1, <2>2 DEF Follows
  <2>4. g[i] < g[j] <=> i < j
    BY <1>3, <2>1, <2>2
  <2>q. QED
    BY <2>1, <2>2, <2>3, <2>4
<1>q. QED
  BY <1>1, <1>2, <1>3 DEF Follows

Numbered(flight) == \A n \in DOMAIN flight : flight[n] # NoFrame

(* Another event comes, which acknowledges nothing.                         *)
LEMMA WayEventAdded ==
  ASSUME NEW c, NEW q, NEW d, NEW e, NEW flight, Numbered(flight), Proper(q), Proper(d),
         IdBack(c, e) = NoFrame, Follows(flight, Way(c, q, d))
  PROVE  Follows(flight, Way(c, q \o <<e>>, d))
<1> DEFINE p == q \o <<e>>
           L == Len(q)
           w == Way(c, q, d)
           v == Way(c, p, d)
           g == [x \in DOMAIN w |-> IF x <= L THEN x ELSE x + 1]
<1>2. /\ Proper(p) /\ Len(p) = L + 1 /\ L \in Nat
      /\ \A i \in 1..L : p[i] = q[i]
      /\ p[L + 1] = e
  BY ProperOneMore
<1> HIDE DEF p
<1>3. /\ Len(d) \in Nat /\ DOMAIN w = 1..(L + Len(d))
      /\ \A x \in 1..L : w[x] = IdBack(c, q[x])
      /\ \A x \in 1..Len(d) : w[L + x] = IdThere(d[x])
      /\ \A x \in (L + 1)..(L + Len(d)) : w[x] = IdThere(d[x - L])
  BY WayIs
<1>4. /\ DOMAIN v = 1..(L + 1 + Len(d))
      /\ \A x \in 1..(L + 1) : v[x] = IdBack(c, p[x])
      /\ \A x \in (L + 1 + 1)..(L + 1 + Len(d)) : v[x] = IdThere(d[x - (L + 1)])
  BY SMTT(60), <1>2, WayIs
<1> HIDE DEF w, v, L
<1>5. \A x \in DOMAIN w : g[x] \in DOMAIN v /\ g[x] # L + 1
  BY <1>2, <1>3, <1>4
<1>6. ASSUME NEW x \in DOMAIN w PROVE v[g[x]] = w[x]
  <2>1. CASE x <= L
    BY <1>2, <1>3, <1>4, <2>1
  <2>2. CASE x > L
    <3>1. g[x] = x + 1 /\ x + 1 \in (L + 1 + 1)..(L + 1 + Len(d)) /\ x \in (L + 1)..(L + Len(d))
      BY <1>2, <1>3, <2>2
    <3>2. (x + 1) - (L + 1) = x - L
      BY <1>2, <1>3
    <3>q. QED
      BY <1>3, <1>4, <3>1, <3>2
  <2>q. QED
    BY <1>2, <1>3, <2>1, <2>2
<1>7. ASSUME NEW y \in DOMAIN v, v[y] # NoFrame PROVE \E x \in DOMAIN w : w[x] = v[y] /\ g[x] = y
  <2> DEFINE x == IF y <= L THEN y ELSE y - 1
  <2>1. y # L + 1
    <3>1. v[L + 1] = NoFrame
      BY <1>2, <1>4
    <3>q. QED
      BY <1>7, <3>1
  <2>2. x \in DOMAIN w /\ g[x] = y
    BY <1>2, <1>3, <1>4, <2>1
  <2>q. QED
    BY <1>6, <2>2
<1>8. \A x, y \in DOMAIN w : g[x] < g[y] <=> x < y
  BY <1>2, <1>3
<1>9. DOMAIN w \subseteq Int /\ DOMAIN v \subseteq Int
  BY <1>2, <1>3, <1>4
<1> HIDE DEF g
<1>10. Follows(flight, v)
  <2>1. Follows(flight, w) /\ \A n \in DOMAIN flight : flight[n] # NoFrame
    BY DEF w, Numbered
  <2>q. QED
    BY <1>5, <1>6, <1>7, <1>8, <1>9, <2>1, Rearranged
<1>q. QED
  BY <1>10 DEF v, p

(* An event is taken that acknowledges nothing to this client.              *)
LEMMA WayEventTaken ==
  ASSUME NEW c, NEW q, NEW d, NEW flight, Numbered(flight), Proper(q), Proper(d), q # <<>>,
         IdBack(c, Head(q)) = NoFrame, Follows(flight, Way(c, q, d))
  PROVE  Follows(flight, Way(c, Tail(q), d))
<1> DEFINE p == Tail(q)
           L == Len(q)
           w == Way(c, q, d)
           v == Way(c, p, d)
           g == [x \in DOMAIN w |-> x - 1]
<1>1. /\ Proper(p) /\ L \in Nat \ {0} /\ Len(p) = L - 1 /\ Head(q) = q[1]
      /\ \A i \in 1..(L - 1) : p[i] = q[i + 1]
  BY ProperTail
<1> HIDE DEF p
<1>2. /\ Len(d) \in Nat /\ DOMAIN w = 1..(L + Len(d))
      /\ \A x \in 1..L : w[x] = IdBack(c, q[x])
      /\ \A x \in (L + 1)..(L + Len(d)) : w[x] = IdThere(d[x - L])
  BY WayIs
<1>3. /\ DOMAIN v = 1..((L - 1) + Len(d))
      /\ \A x \in 1..(L - 1) : v[x] = IdBack(c, p[x])
      /\ \A x \in ((L - 1) + 1)..((L - 1) + Len(d)) : v[x] = IdThere(d[x - (L - 1)])
  BY SMTT(60), <1>1, WayIs
<1> HIDE DEF w, v, L
<1>4. w[1] = NoFrame
  BY <1>1, <1>2
<1>5. ASSUME NEW y \in DOMAIN v PROVE y + 1 \in DOMAIN w /\ v[y] = w[y + 1]
  <2>1. CASE y <= L - 1
    BY <1>1, <1>2, <1>3, <2>1
  <2>2. CASE y > L - 1
    <3>1. y \in ((L - 1) + 1)..((L - 1) + Len(d)) /\ y + 1 \in (L + 1)..(L + Len(d))
      BY <1>1, <1>2, <1>3, <2>2
    <3>2. y - (L - 1) = (y + 1) - L
      BY <1>1, <3>1
    <3>q. QED
      BY <1>1, <1>2, <1>3, <3>1, <3>2
  <2>q. QED
    BY <1>1, <1>3, <2>1, <2>2
<1>6. \A x \in DOMAIN w : x # 1 => x - 1 \in DOMAIN v /\ v[x - 1] = w[x]
  <2> SUFFICES ASSUME NEW x \in DOMAIN w, x # 1 PROVE x - 1 \in DOMAIN v /\ v[x - 1] = w[x]
    OBVIOUS
  <2>1. x - 1 \in DOMAIN v /\ (x - 1) + 1 = x
    BY <1>1, <1>2, <1>3
  <2>q. QED
    BY <1>5, <2>1
<1>7. ASSUME NEW y \in DOMAIN v, v[y] # NoFrame PROVE \E x \in DOMAIN w : w[x] = v[y] /\ g[x] = y
  <2>1. y + 1 \in DOMAIN w /\ v[y] = w[y + 1] /\ (y + 1) - 1 = y
    BY <1>1, <1>3, <1>5
  <2>q. QED
    BY <2>1
<1>8. \A x, y \in DOMAIN w : w[x] # NoFrame /\ w[y] # NoFrame => (g[x] < g[y] <=> x < y)
  BY <1>1, <1>2
<1>9. DOMAIN w \subseteq Int /\ DOMAIN v \subseteq Int
  BY <1>1, <1>2, <1>3
<1>10. \A x \in DOMAIN w : w[x] # NoFrame => g[x] \in DOMAIN v /\ v[g[x]] = w[x]
  BY <1>4, <1>6
<1> HIDE DEF g
<1>11. Follows(flight, v)
  <2>1. Follows(flight, w) /\ \A n \in DOMAIN flight : flight[n] # NoFrame
    BY DEF w, Numbered
  <2>q. QED
    BY SMTT(60), <1>7, <1>8, <1>9, <1>10, <2>1, Rearranged
<1>q. QED
  BY <1>11 DEF v, p

(* The first frame sent is acknowledged, and no other can be.               *)
LEMMA WayAcknowledged ==
  ASSUME NEW c, NEW q, NEW d, NEW flight, Numbered(flight), Proper(flight), Proper(q), Proper(d),
         q # <<>>, IdBack(c, Head(q)) # NoFrame, Follows(flight, Way(c, q, d))
  PROVE  /\ flight # <<>> /\ flight[1] = IdBack(c, Head(q))
         /\ \A n \in DOMAIN flight : flight[n] = IdBack(c, Head(q)) => n = 1
         /\ Follows(Tail(flight), Way(c, Tail(q), d))
<1> DEFINE p == Tail(q)
           L == Len(q)
           w == Way(c, q, d)
           v == Way(c, p, d)
<1>1. /\ Proper(p) /\ L \in Nat \ {0} /\ Len(p) = L - 1 /\ Head(q) = q[1]
      /\ \A i \in 1..(L - 1) : p[i] = q[i + 1]
  BY ProperTail
<1> HIDE DEF p
<1>2. /\ Len(d) \in Nat /\ DOMAIN w = 1..(L + Len(d))
      /\ \A x \in 1..L : w[x] = IdBack(c, q[x])
      /\ \A x \in (L + 1)..(L + Len(d)) : w[x] = IdThere(d[x - L])
  BY WayIs
<1>3. /\ DOMAIN v = 1..((L - 1) + Len(d))
      /\ \A x \in 1..(L - 1) : v[x] = IdBack(c, p[x])
      /\ \A x \in ((L - 1) + 1)..((L - 1) + Len(d)) : v[x] = IdThere(d[x - (L - 1)])
  <2> HIDE DEF w, L
  <2>0. Proper(p)
    BY <1>1
  <2>1. DOMAIN v = 1..(Len(p) + Len(d))
    BY <2>0, WayIs
  <2>2. \A x \in 1..Len(p) : v[x] = IdBack(c, p[x])
    BY <2>0, WayIs
  <2>3. \A x \in (Len(p) + 1)..(Len(p) + Len(d)) : v[x] = IdThere(d[x - Len(p)])
    BY <2>0, WayIs
  <2> HIDE DEF v
  <2>q. QED
    BY <1>1, <1>2, <2>1, <2>2, <2>3
<1>4. Follows(flight, w)
  OBVIOUS
<1> DEFINE id == IdBack(c, Head(q))
<1>0. id # NoFrame
  OBVIOUS
<1>5. w[1] = id /\ 1 \in DOMAIN w /\ id # NoFrame
  <2>1. 1 \in 1..L /\ 1 \in 1..(L + Len(d)) /\ id = IdBack(c, q[1])
    BY <1>1, <1>2
  <2> HIDE DEF w, v, L, id
  <2>q. QED
    BY <1>0, <1>2, <2>1
<1> HIDE DEF w, v, L, id
<1>6. ASSUME NEW y \in DOMAIN v PROVE y + 1 \in DOMAIN w /\ v[y] = w[y + 1]
  <2>1. CASE y <= L - 1
    BY <1>1, <1>2, <1>3, <2>1
  <2>2. CASE y > L - 1
    <3>1. y \in ((L - 1) + 1)..((L - 1) + Len(d)) /\ y + 1 \in (L + 1)..(L + Len(d))
      BY <1>1, <1>2, <1>3, <2>2
    <3>2. y - (L - 1) = (y + 1) - L
      BY <1>1, <3>1
    <3>q. QED
      BY <1>1, <1>2, <1>3, <3>1, <3>2
  <2>q. QED
    BY <1>1, <1>3, <2>1, <2>2
<1>7. \A x \in DOMAIN w : x # 1 => x - 1 \in DOMAIN v /\ v[x - 1] = w[x]
  <2> SUFFICES ASSUME NEW x \in DOMAIN w, x # 1 PROVE x - 1 \in DOMAIN v /\ v[x - 1] = w[x]
    OBVIOUS
  <2>1. x - 1 \in DOMAIN v /\ (x - 1) + 1 = x
    BY <1>1, <1>2, <1>3
  <2>q. QED
    BY <1>6, <2>1
<1>8. PICK n \in DOMAIN flight : flight[n] = id
  BY <1>4, <1>5 DEF Follows
<1>9. Len(flight) \in Nat /\ DOMAIN flight = 1..Len(flight)
  BY DEF Proper
<1>10. ASSUME NEW m \in DOMAIN flight, flight[m] = id PROVE m = 1
  <2>1. 1 \in DOMAIN flight
    BY <1>9
  <2>2. PICK x \in DOMAIN w : w[x] = flight[1]
    BY <1>4, <2>1 DEF Follows
  <2>3. x < 1 <=> 1 < m
    BY <1>4, <1>5, <1>10, <2>1, <2>2 DEF Follows
  <2>4. x \in Nat \ {0} /\ m \in Nat \ {0}
    BY <1>1, <1>2, <1>9
  <2>q. QED
    BY <2>3, <2>4
<1>11. n = 1 /\ flight # <<>> /\ flight[1] = id
  <2>1. n = 1
    BY <1>8, <1>10
  <2>2. flight # <<>>
    BY <1>8, <1>9
  <2>q. QED
    BY <1>8, <2>1, <2>2
<1> DEFINE rest == Tail(flight)
<1>12. /\ DOMAIN rest = 1..(Len(flight) - 1) /\ Len(flight) \in Nat \ {0}
       /\ \A i \in 1..(Len(flight) - 1) : rest[i] = flight[i + 1]
  BY <1>11, ProperTail
<1> HIDE DEF rest
<1>13. ASSUME NEW i \in DOMAIN rest PROVE i + 1 \in DOMAIN flight /\ rest[i] = flight[i + 1] /\ i + 1 # 1
  BY <1>9, <1>12
<1>14. \A m \in DOMAIN flight : m # 1 => m - 1 \in DOMAIN rest /\ rest[m - 1] = flight[m]
  <2> SUFFICES ASSUME NEW m \in DOMAIN flight, m # 1 PROVE m - 1 \in DOMAIN rest /\ rest[m - 1] = flight[m]
    OBVIOUS
  <2>1. m - 1 \in DOMAIN rest /\ (m - 1) + 1 = m
    BY <1>9, <1>12
  <2>q. QED
    BY <1>13, <2>1
<1>15. ASSUME NEW i \in DOMAIN rest PROVE \E y \in DOMAIN v : v[y] = rest[i]
  <2>1. PICK x \in DOMAIN w : w[x] = flight[i + 1]
    BY <1>4, <1>13 DEF Follows
  <2>2. x # 1
    BY <1>5, <1>10, <1>13, <2>1
  <2>q. QED
    BY <1>7, <1>13, <2>1, <2>2
<1>16. ASSUME NEW y \in DOMAIN v, v[y] # NoFrame PROVE \E i \in DOMAIN rest : rest[i] = v[y]
  <2>1. y + 1 \in DOMAIN w /\ w[y + 1] # NoFrame /\ v[y] = w[y + 1]
    BY <1>6, <1>16
  <2>2. PICK m \in DOMAIN flight : flight[m] = w[y + 1]
    BY <1>4, <2>1 DEF Follows
  <2>3. m # 1
    <3>1. ASSUME m = 1 PROVE FALSE
      <4>1. 1 < y + 1 <=> 1 < 1
        BY <1>4, <1>5, <1>11, <2>1, <2>2, <3>1 DEF Follows
      <4>2. y \in Nat \ {0}
        BY <1>1, <1>2, <1>3
      <4>q. QED
        BY <4>1, <4>2
    <3>q. QED
      BY <3>1
  <2>q. QED
    BY <1>14, <2>1, <2>2, <2>3
<1>17. ASSUME NEW x \in DOMAIN v, NEW y \in DOMAIN v, NEW i \in DOMAIN rest, NEW j \in DOMAIN rest,
              v[x] = rest[i], v[y] = rest[j]
       PROVE  x < y <=> i < j
  <2>1. x + 1 \in DOMAIN w /\ y + 1 \in DOMAIN w /\ i + 1 \in DOMAIN flight /\ j + 1 \in DOMAIN flight
    BY <1>6, <1>13
  <2>2. w[x + 1] = flight[i + 1] /\ w[y + 1] = flight[j + 1]
    BY <1>6, <1>13, <1>17
  <2>3. x + 1 < y + 1 <=> i + 1 < j + 1
    BY <1>4, <2>1, <2>2 DEF Follows
  <2>4. x \in Int /\ y \in Int /\ i \in Int /\ j \in Int
    BY <1>1, <1>2, <1>3, <1>12
  <2>q. QED
    BY <2>3, <2>4
<1>18. Follows(rest, v)
  BY <1>15, <1>16, <1>17 DEF Follows
<1>q. QED
  BY <1>10, <1>11, <1>18 DEF v, p, rest, id

(* What is put into the queue and is no frame.                              *)
LEMMA WayThereAdded ==
  ASSUME NEW c, NEW q, NEW d, NEW m, NEW flight, Numbered(flight), Proper(q), Proper(d),
         IdThere(m) = NoFrame, Follows(flight, Way(c, q, d))
  PROVE  Follows(flight, Way(c, q, d \o <<m>>))
<1> DEFINE p == d \o <<m>>
           L == Len(q)
           w == Way(c, q, d)
           v == Way(c, q, p)
           g == [x \in DOMAIN w |-> x]
<1>1. /\ Proper(p) /\ Len(p) = Len(d) + 1 /\ Len(d) \in Nat
      /\ \A i \in 1..Len(d) : p[i] = d[i]
      /\ p[Len(d) + 1] = m
  BY ProperOneMore
<1> HIDE DEF p
<1>2. /\ L \in Nat /\ DOMAIN w = 1..(L + Len(d))
      /\ \A x \in 1..L : w[x] = IdBack(c, q[x])
      /\ \A x \in (L + 1)..(L + Len(d)) : w[x] = IdThere(d[x - L])
  BY WayIs
<1>3. /\ DOMAIN v = 1..(L + Len(p))
      /\ \A x \in 1..L : v[x] = IdBack(c, q[x])
      /\ \A x \in (L + 1)..(L + Len(p)) : v[x] = IdThere(p[x - L])
  BY SMTT(60), <1>1, WayIs
<1> HIDE DEF w, v, L
<1>4. ASSUME NEW x \in DOMAIN w PROVE x \in DOMAIN v /\ v[x] = w[x]
  <2>1. CASE x <= L
    BY <1>1, <1>2, <1>3, <2>1
  <2>2. CASE x > L
    <3>1. x \in (L + 1)..(L + Len(d)) /\ x \in (L + 1)..(L + Len(p)) /\ x - L \in 1..Len(d)
      BY <1>1, <1>2, <2>2
    <3>q. QED
      BY <1>1, <1>2, <1>3, <3>1
  <2>q. QED
    BY <1>2, <2>1, <2>2
<1>5. ASSUME NEW y \in DOMAIN v, v[y] # NoFrame PROVE \E x \in DOMAIN w : w[x] = v[y] /\ g[x] = y
  <2>1. v[L + Len(d) + 1] = NoFrame
    <3>1. L + Len(d) + 1 \in (L + 1)..(L + Len(p)) /\ (L + Len(d) + 1) - L = Len(d) + 1
      BY <1>1, <1>2
    <3>q. QED
      BY <1>1, <1>3, <3>1
  <2>2. y # L + Len(d) + 1
    BY <1>5, <2>1
  <2>3. y \in DOMAIN w
    BY <1>1, <1>2, <1>3, <2>2
  <2>q. QED
    BY <1>4, <2>3
<1>6. \A x \in DOMAIN w : w[x] # NoFrame => g[x] \in DOMAIN v /\ v[g[x]] = w[x]
  BY <1>4
<1>7. \A x, y \in DOMAIN w : w[x] # NoFrame /\ w[y] # NoFrame => (g[x] < g[y] <=> x < y)
  BY <1>2
<1>8. DOMAIN w \subseteq Int /\ DOMAIN v \subseteq Int
  BY <1>1, <1>2, <1>3
<1> HIDE DEF g
<1>9. Follows(flight, v)
  <2>1. Follows(flight, w) /\ \A n \in DOMAIN flight : flight[n] # NoFrame
    BY DEF w, Numbered
  <2>q. QED
    BY <1>5, <1>6, <1>7, <1>8, <2>1, Rearranged
<1>q. QED
  BY <1>9 DEF v, p

(* ... or is taken out of it by the client.                                 *)
LEMMA WayThereTaken ==
  ASSUME NEW c, NEW q, NEW d, NEW flight, Numbered(flight), Proper(q), Proper(d), d # <<>>,
         IdThere(Head(d)) = NoFrame, Follows(flight, Way(c, q, d))
  PROVE  Follows(flight, Way(c, q, Tail(d)))
<1> DEFINE p == Tail(d)
           L == Len(q)
           w == Way(c, q, d)
           v == Way(c, q, p)
           g == [x \in DOMAIN w |-> IF x <= L THEN x ELSE x - 1]
<1>1. /\ Proper(p) /\ Len(d) \in Nat \ {0} /\ Len(p) = Len(d) - 1 /\ Head(d) = d[1]
      /\ \A i \in 1..(Len(d) - 1) : p[i] = d[i + 1]
  BY ProperTail
<1> HIDE DEF p
<1>2. /\ L \in Nat /\ DOMAIN w = 1..(L + Len(d))
      /\ \A x \in 1..L : w[x] = IdBack(c, q[x])
      /\ \A x \in (L + 1)..(L + Len(d)) : w[x] = IdThere(d[x - L])
  BY WayIs
<1>3. /\ DOMAIN v = 1..(L + Len(p))
      /\ \A x \in 1..L : v[x] = IdBack(c, q[x])
      /\ \A x \in (L + 1)..(L + Len(p)) : v[x] = IdThere(p[x - L])
  BY <1>1, WayIs
<1> HIDE DEF w, v, L
<1>4. w[L + 1] = NoFrame
  <2>1. L + 1 \in (L + 1)..(L + Len(d)) /\ (L + 1) - L = 1
    BY <1>1, <1>2
  <2>q. QED
    BY <1>1, <1>2, <2>1
<1>5. ASSUME NEW y \in 1..L PROVE y \in DOMAIN w /\ y \in DOMAIN v /\ v[y] = w[y]
  BY <1>1, <1>2, <1>3
<1>6. ASSUME NEW y \in (L + 1)..(L + Len(p)) PROVE y + 1 \in DOMAIN w /\ y \in DOMAIN v /\ v[y] = w[y + 1]
  <2>1. /\ y - L \in 1..(Len(d) - 1) /\ (y - L) + 1 = (y + 1) - L
        /\ y + 1 \in (L + 1)..(L + Len(d)) /\ y + 1 \in 1..(L + Len(d)) /\ y \in 1..(L + Len(p))
    BY <1>1, <1>2
  <2>q. QED
    BY SMTT(60), <1>1, <1>2, <1>3, <2>1
<1>7. ASSUME NEW y \in DOMAIN v, v[y] # NoFrame PROVE \E x \in DOMAIN w : w[x] = v[y] /\ g[x] = y
  <2>1. CASE y <= L
    <3>1. y \in 1..L
      BY <1>2, <1>3, <2>1
    <3>q. QED
      BY <1>5, <2>1, <3>1
  <2>2. CASE y > L
    <3>1. y \in (L + 1)..(L + Len(p))
      BY <1>1, <1>2, <1>3, <2>2
    <3>2. ~(y + 1 <= L) /\ (y + 1) - 1 = y
      BY <1>2, <2>2, <3>1
    <3>q. QED
      BY <1>6, <3>1, <3>2
  <2>q. QED
    BY <1>1, <1>2, <1>3, <2>1, <2>2
<1>8. ASSUME NEW x \in DOMAIN w, w[x] # NoFrame PROVE g[x] \in DOMAIN v /\ v[g[x]] = w[x]
  <2>1. CASE x <= L
    <3>1. x \in 1..L
      BY <1>2, <2>1
    <3>q. QED
      BY <1>5, <2>1, <3>1
  <2>2. CASE x > L
    <3>1. x # L + 1
      BY <1>4, <1>8
    <3>2. x - 1 \in (L + 1)..(L + Len(p)) /\ (x - 1) + 1 = x /\ ~(x <= L)
      BY <1>1, <1>2, <2>2, <3>1
    <3>q. QED
      BY <1>6, <3>2
  <2>q. QED
    BY <1>1, <1>2, <2>1, <2>2
<1>9. ASSUME NEW x \in DOMAIN w, NEW y \in DOMAIN w, w[x] # NoFrame, w[y] # NoFrame
      PROVE  g[x] < g[y] <=> x < y
  <2>1. x # L + 1 /\ y # L + 1
    BY <1>4, <1>9
  <2>q. QED
    BY <1>1, <1>2, <2>1
<1>10. DOMAIN w \subseteq Int /\ DOMAIN v \subseteq Int
  BY <1>1, <1>2, <1>3
<1> HIDE DEF g
<1>11. Follows(flight, v)
  <2>1. Follows(flight, w) /\ \A n \in DOMAIN flight : flight[n] # NoFrame
    BY DEF w, Numbered
  <2>q. QED
    BY <1>7, <1>8, <1>9, <1>10, <2>1, Rearranged
<1>q. QED
  BY <1>11 DEF v, p

(* A frame is taken, and its acknowledgement takes its place.               *)
LEMMA WayReceived ==
  ASSUME NEW c, NEW q, NEW d, NEW e, NEW flight, Proper(q), Proper(d), d # <<>>,
         IdBack(c, e) = IdThere(Head(d)), Follows(flight, Way(c, q, d))
  PROVE  Follows(flight, Way(c, q \o <<e>>, Tail(d)))
<1> DEFINE p == Tail(d)
           r == q \o <<e>>
           L == Len(q)
           w == Way(c, q, d)
           v == Way(c, r, p)
<1>1. /\ Proper(p) /\ Len(d) \in Nat \ {0} /\ Len(p) = Len(d) - 1 /\ Head(d) = d[1]
      /\ \A i \in 1..(Len(d) - 1) : p[i] = d[i + 1]
  BY ProperTail
<1>2. /\ Proper(r) /\ Len(r) = L + 1 /\ L \in Nat
      /\ \A i \in 1..L : r[i] = q[i]
      /\ r[L + 1] = e
  BY ProperOneMore
<1> HIDE DEF p, r
<1>3. /\ DOMAIN w = 1..(L + Len(d))
      /\ \A x \in 1..L : w[x] = IdBack(c, q[x])
      /\ \A x \in (L + 1)..(L + Len(d)) : w[x] = IdThere(d[x - L])
  BY WayIs
<1>4. /\ DOMAIN v = 1..(Len(r) + Len(p))
      /\ \A x \in 1..Len(r) : v[x] = IdBack(c, r[x])
      /\ \A x \in (Len(r) + 1)..(Len(r) + Len(p)) : v[x] = IdThere(p[x - Len(r)])
  <2>0. Proper(r) /\ Proper(p)
    BY <1>1, <1>2
  <2>1. DOMAIN v = 1..(Len(r) + Len(p))
    BY <2>0, WayIs
  <2>2. \A x \in 1..Len(r) : v[x] = IdBack(c, r[x])
    BY <2>0, WayIs
  <2>3. \A x \in (Len(r) + 1)..(Len(r) + Len(p)) : v[x] = IdThere(p[x - Len(r)])
    BY <2>0, WayIs
  <2>q. QED
    BY <2>1, <2>2, <2>3
<1>0. Follows(flight, w) /\ v = [x \in DOMAIN v |-> v[x]] /\ w = [x \in DOMAIN w |-> w[x]]
  <2>1. \A a, b : Way(c, a, b) = [x \in DOMAIN Way(c, a, b) |-> Way(c, a, b)[x]]
    BY DEF Way
  <2>q. QED
    BY <2>1
<1> HIDE DEF w, v, L
<1>5. DOMAIN v = DOMAIN w
  BY <1>1, <1>2, <1>3, <1>4
<1>6. ASSUME NEW x \in DOMAIN w PROVE v[x] = w[x]
  <2>1. CASE x <= L
    <3>1. x \in 1..L /\ x \in 1..Len(r)
      BY <1>2, <1>3, <2>1
    <3>q. QED
      BY <1>2, <1>3, <1>4, <3>1
  <2>2. CASE x = L + 1
    <3>1. x \in 1..Len(r) /\ x \in (L + 1)..(L + Len(d)) /\ x - L = 1
      BY <1>1, <1>2, <1>3, <2>2
    <3>2. v[x] = IdBack(c, e) /\ w[x] = IdThere(d[1])
      BY <1>2, <1>3, <1>4, <2>2, <3>1
    <3>q. QED
      BY <1>1, <3>2
  <2>3. CASE x > L + 1
    <3>1. x \in (Len(r) + 1)..(Len(r) + Len(p)) /\ x \in (L + 1)..(L + Len(d))
      BY <1>1, <1>2, <1>3, <2>3
    <3>2. x - Len(r) \in 1..(Len(d) - 1) /\ (x - Len(r)) + 1 = x - L
      BY <1>1, <1>2, <1>3, <2>3
    <3>q. QED
      BY <1>1, <1>3, <1>4, <3>1, <3>2
  <2>q. QED
    BY <1>1, <1>2, <1>3, <2>1, <2>2, <2>3
<1>7. v = w
  BY <1>0, <1>5, <1>6
<1>q. QED
  BY <1>0, <1>7 DEF v, p, r

(* One more frame is sent, under an id no frame in flight has.              *)
LEMMA WayFrameAdded ==
  ASSUME NEW c, NEW q, NEW d, NEW m, NEW flight, Numbered(flight), Proper(flight), Proper(q), Proper(d),
         IdThere(m) # NoFrame, \A n \in DOMAIN flight : flight[n] # IdThere(m),
         Follows(flight, Way(c, q, d))
  PROVE  Follows(flight \o <<IdThere(m)>>, Way(c, q, d \o <<m>>))
<1> DEFINE id == IdThere(m)
           p == d \o <<m>>
           more == flight \o <<id>>
           L == Len(q)
           w == Way(c, q, d)
           v == Way(c, q, p)
<1>1. /\ Proper(p) /\ Len(p) = Len(d) + 1 /\ Len(d) \in Nat
      /\ \A i \in 1..Len(d) : p[i] = d[i]
      /\ p[Len(d) + 1] = m
  BY ProperOneMore
<1>2. /\ L \in Nat /\ DOMAIN w = 1..(L + Len(d))
      /\ \A x \in 1..L : w[x] = IdBack(c, q[x])
      /\ \A x \in (L + 1)..(L + Len(d)) : w[x] = IdThere(d[x - L])
  BY WayIs
<1> HIDE DEF p
<1>3. /\ DOMAIN v = 1..(L + Len(p))
      /\ \A x \in 1..L : v[x] = IdBack(c, q[x])
      /\ \A x \in (L + 1)..(L + Len(p)) : v[x] = IdThere(p[x - L])
  <2>0. Proper(p)
    BY <1>1
  <2>1. DOMAIN v = 1..(L + Len(p))
    BY <2>0, WayIs
  <2>2. \A x \in 1..L : v[x] = IdBack(c, q[x])
    BY <2>0, WayIs
  <2>3. \A x \in (L + 1)..(L + Len(p)) : v[x] = IdThere(p[x - L])
    BY <2>0, WayIs
  <2>q. QED
    BY <2>1, <2>2, <2>3
<1>4. /\ Follows(flight, w) /\ id # NoFrame /\ \A n \in DOMAIN flight : flight[n] # NoFrame /\ flight[n] # id
  BY DEF Numbered
<1>5. /\ Proper(more) /\ Len(more) = Len(flight) + 1 /\ Len(flight) \in Nat
      /\ \A i \in 1..Len(flight) : more[i] = flight[i]
      /\ more[Len(flight) + 1] = id
  BY ProperOneMore
<1>6. DOMAIN flight = 1..Len(flight) /\ DOMAIN more = 1..(Len(flight) + 1)
  BY <1>5 DEF Proper
<1> DEFINE X == L + Len(d) + 1
           N == Len(flight) + 1
<1>7. X \in DOMAIN v /\ v[X] = id
  <2>1. X \in (L + 1)..(L + Len(p)) /\ X - L = Len(d) + 1 /\ X \in 1..(L + Len(p))
    BY <1>1, <1>2
  <2>2. v[X] = IdThere(p[Len(d) + 1])
    BY <1>3, <2>1
  <2>q. QED
    BY <1>1, <1>3, <2>1, <2>2
<1> HIDE DEF w, v, L, id, more
<1>8. ASSUME NEW x \in DOMAIN w PROVE x \in DOMAIN v /\ v[x] = w[x] /\ x < X
  <2>1. CASE x <= L
    BY <1>1, <1>2, <1>3, <2>1
  <2>2. CASE x > L
    <3>1. x \in (L + 1)..(L + Len(d)) /\ x \in (L + 1)..(L + Len(p)) /\ x - L \in 1..Len(d)
      BY <1>1, <1>2, <2>2
    <3>q. QED
      BY <1>1, <1>2, <1>3, <3>1
  <2>q. QED
    BY <1>2, <2>1, <2>2
<1>9. ASSUME NEW y \in DOMAIN v PROVE y = X \/ y \in DOMAIN w
  <2>1. y \in 1..(L + (Len(d) + 1)) /\ L \in Nat /\ Len(d) \in Nat
    BY <1>1, <1>2, <1>3
  <2>2. y \in 1..(L + Len(d)) \/ y = X
    BY <2>1
  <2>q. QED
    BY <1>2, <2>2
<1>10. /\ \A n \in DOMAIN more : n = N \/ (n \in DOMAIN flight /\ more[n] = flight[n] /\ n < N)
       /\ N \in DOMAIN more /\ more[N] = id
       /\ \A n \in DOMAIN flight : n \in DOMAIN more /\ more[n] = flight[n] /\ n < N
       /\ N \in Nat /\ X \in Nat
  BY <1>1, <1>2, <1>5, <1>6
<1> HIDE DEF X, N
<1>11. ASSUME NEW n \in DOMAIN more PROVE \E y \in DOMAIN v : v[y] = more[n]
  <2>1. CASE n = N
    BY <1>7, <1>10, <2>1
  <2>2. CASE n # N
    <3>1. PICK x \in DOMAIN w : w[x] = flight[n]
      BY <1>4, <1>10, <2>2 DEF Follows
    <3>q. QED
      BY <1>8, <1>10, <2>2, <3>1
  <2>q. QED
    BY <2>1, <2>2
<1>12. ASSUME NEW y \in DOMAIN v, v[y] # NoFrame PROVE \E n \in DOMAIN more : more[n] = v[y]
  <2>1. CASE y = X
    BY <1>7, <1>10, <2>1
  <2>2. CASE y # X
    <3>1. y \in DOMAIN w /\ v[y] = w[y]
      BY <1>8, <1>9, <2>2
    <3>2. PICK n \in DOMAIN flight : flight[n] = w[y]
      BY <1>4, <1>12, <3>1 DEF Follows
    <3>q. QED
      BY <1>10, <3>1, <3>2
  <2>q. QED
    BY <2>1, <2>2
<1>13. \A y \in DOMAIN w : w[y] # id
  <2> SUFFICES ASSUME NEW y \in DOMAIN w, w[y] = id PROVE FALSE
    OBVIOUS
  <2>1. PICK n \in DOMAIN flight : flight[n] = id
    BY <1>4 DEF Follows
  <2>q. QED
    BY <1>4, <2>1
<1>14. ASSUME NEW x \in DOMAIN v, NEW y \in DOMAIN v, NEW n \in DOMAIN more, NEW k \in DOMAIN more,
              v[x] = more[n], v[y] = more[k]
       PROVE  x < y <=> n < k
  <2>1. (x = X <=> n = N) /\ (y = X <=> k = N)
    BY <1>4, <1>7, <1>8, <1>9, <1>10, <1>13, <1>14
  <2>2. CASE x # X /\ y # X
    <3>1. /\ x \in DOMAIN w /\ y \in DOMAIN w /\ n \in DOMAIN flight /\ k \in DOMAIN flight
          /\ w[x] = flight[n] /\ w[y] = flight[k]
      BY <1>8, <1>9, <1>10, <1>14, <2>1, <2>2
    <3>q. QED
      BY <1>4, <3>1 DEF Follows
  <2>3. CASE x = X /\ y # X
    <3>1. n = N /\ y < X /\ k < N
      BY <1>8, <1>9, <1>10, <2>1, <2>3
    <3>2. y \in Int /\ k \in Int /\ X \in Int /\ N \in Int
      BY <1>1, <1>2, <1>3, <1>5, <1>6, <1>10
    <3>q. QED
      BY <2>3, <3>1, <3>2
  <2>4. CASE x # X /\ y = X
    <3>1. k = N /\ x < X /\ n < N
      BY <1>8, <1>9, <1>10, <2>1, <2>4
    <3>q. QED
      BY <2>4, <3>1
  <2>5. CASE x = X /\ y = X
    BY <1>10, <2>1, <2>5
  <2>q. QED
    BY <2>2, <2>3, <2>4, <2>5
<1>15. Follows(more, v)
  BY <1>11, <1>12, <1>14 DEF Follows
<1>q. QED
  BY <1>15 DEF more, v, p, id

(* A sequence of one or two, put at the end.                                *)
LEMMA OneByOne ==
  ASSUME NEW d, NEW q, Proper(d), Proper(q), NEW k \in 0..Len(q)
  PROVE  /\ k = 0 => d \o SubSeq(q, 1, k) = d
         /\ k = 1 => d \o SubSeq(q, 1, k) = d \o <<q[1]>>
         /\ k = 2 => d \o SubSeq(q, 1, k) = (d \o <<q[1]>>) \o <<q[2]>>
<1> DEFINE s == SubSeq(q, 1, k)
           p == d \o s
<1>1. Proper(s) /\ Len(s) = k /\ (\A i \in 1..k : s[i] = q[i]) /\ k \in Nat
  BY ProperSub DEF Proper
<1> HIDE DEF s
<1>2. /\ Proper(p) /\ Len(p) = Len(d) + k /\ Len(d) \in Nat
      /\ \A i \in 1..Len(d) : p[i] = d[i]
      /\ \A i \in 1..k : p[Len(d) + i] = q[i]
  <2>1. Proper(p)
    BY <1>1, ProperConcat
  <2>2. Len(p) = Len(d) + k /\ Len(d) \in Nat
    BY <1>1, ProperConcat
  <2>3. \A i \in 1..Len(d) : p[i] = d[i]
    BY <1>1, ProperConcat
  <2>4. \A i \in 1..k : p[Len(d) + i] = s[i]
    BY <1>1, ProperConcat
  <2>q. QED
    BY <1>1, <2>1, <2>2, <2>3, <2>4
<1> HIDE DEF p
<1>3. ASSUME NEW a, Proper(a), Len(a) = Len(p), \A i \in 1..Len(a) : a[i] = p[i] PROVE p = a
  BY <1>2, <1>3 DEF Proper
<1>4. CASE k = 0
  BY <1>2, <1>3, <1>4 DEF p, s
<1> DEFINE a == d \o <<q[1]>>
<1>5. /\ Proper(a) /\ Len(a) = Len(d) + 1
      /\ \A i \in 1..Len(d) : a[i] = d[i]
      /\ a[Len(d) + 1] = q[1]
  BY ProperOneMore
<1> HIDE DEF a
<1>6. CASE k = 1
  <2>1. \A i \in 1..Len(a) : a[i] = p[i]
    BY <1>2, <1>5, <1>6
  <2>2. p = a
    BY <1>2, <1>3, <1>5, <1>6, <2>1
  <2>q. QED
    BY <1>6, <2>2 DEF p, s, a
<1> DEFINE b == a \o <<q[2]>>
<1>7. /\ Proper(b) /\ Len(b) = Len(d) + 2
      /\ \A i \in 1..(Len(d) + 1) : b[i] = a[i]
      /\ b[Len(d) + 2] = q[2]
  <2>1. /\ Proper(b) /\ Len(b) = Len(a) + 1
        /\ \A i \in 1..Len(a) : b[i] = a[i]
        /\ b[Len(a) + 1] = q[2]
    BY <1>5, ProperOneMore
  <2> HIDE DEF b
  <2>q. QED
    BY <1>2, <1>5, <2>1
<1> HIDE DEF b
<1>8. CASE k = 2
  <2>1. \A i \in 1..Len(b) : b[i] = p[i]
    BY <1>2, <1>5, <1>7, <1>8
  <2>2. p = b
    BY <1>2, <1>3, <1>7, <1>8, <2>1
  <2>q. QED
    BY <1>8, <2>2 DEF p, s, a, b
<1>q. QED
  BY <1>1, <1>4, <1>6, <1>8

(* Frame ids are taken in a ring: those in flight are the last before the   *)
(* next, and the ring is longer than a window can be, with one frame more   *)
(* for the frame of two parts that fills it.                                *)
LEMMA ModStep ==
  ASSUME NEW a \in 0..(FrameIds - 1)
  PROVE  /\ a % FrameIds = a /\ (a + 1) % FrameIds = (IF a = FrameIds - 1 THEN 0 ELSE a + 1)
         /\ (a + 2) % FrameIds = (((a + 1) % FrameIds) + 1) % FrameIds
<1> DEFINE F == FrameIds
<1>0. F \in Nat /\ F > 2
  BY ScreenAssumption
<1> HIDE DEF F
<1>1. F % F = 0
  BY <1>0
<1>2. \A b \in 0..(F - 1) : b % F = b
  BY <1>0
<1>3. (F + 1) % F = 1
  BY <1>0
<1>a. a \in 0..(F - 1)
  BY DEF F
<1>4. (a + 1) % F = (IF a = F - 1 THEN 0 ELSE a + 1)
  BY <1>0, <1>1, <1>2, <1>a
<1>5. ASSUME a = F - 1 PROVE (a + 2) % F = (((a + 1) % F) + 1) % F
  <2>0. a + 2 = F + 1
    BY <1>0, <1>5
  <2>1. (a + 2) % F = 1
    BY <1>3, <2>0
  <2>2. (a + 1) % F = 0 /\ (0 + 1) % F = 1
    BY <1>0, <1>2, <1>4, <1>5
  <2>q. QED
    BY <1>2, <1>4, <2>1, <2>2
<1>6. ASSUME a # F - 1 PROVE (a + 2) % F = (((a + 1) % F) + 1) % F
  <2>1. (a + 1) + 1 = a + 2
    BY <1>a, <1>0
  <2>2. (a + 1) % F = a + 1
    BY <1>4, <1>6
  <2>q. QED
    BY <1>2, <1>4, <2>1, <2>2
<1>q. QED
  BY <1>a, <1>2, <1>4, <1>5, <1>6 DEF F

Back(n, k) == IF n >= k THEN n - k ELSE n - k + FrameIds
InRing(flight, next) ==
  /\ next \in 0..(FrameIds - 1) /\ Proper(flight) /\ Len(flight) <= Cap + 1
  /\ \A n \in 1..Len(flight) : flight[n] = Back(next, Len(flight) - n + 1)

LEMMA RingStarts == InRing(<<>>, 1)
<1>1. 1 \in 0..(FrameIds - 1) /\ 0 <= Cap + 1
  BY ScreenAssumption
<1>2. 1..Len(<<>>) = {}
  BY ProperShort
<1>q. QED
  BY <1>1, <1>2, ProperShort DEF InRing

LEMMA RingNumbers ==
  ASSUME NEW flight, NEW next, InRing(flight, next)
  PROVE  Numbered(flight) /\ Proper(flight) /\ DOMAIN flight = 1..Len(flight)
<1>1. Len(flight) \in Nat /\ DOMAIN flight = 1..Len(flight) /\ Proper(flight)
  BY DEF InRing, Proper
<1>2. ASSUME NEW n \in 1..Len(flight) PROVE flight[n] >= 0 /\ flight[n] \in Int
  <2> DEFINE k == Len(flight) - n + 1
  <2>1. flight[n] = Back(next, k) /\ next \in 0..(FrameIds - 1)
    BY DEF InRing
  <2>2. k \in 1..Len(flight) /\ Len(flight) <= Cap + 1 /\ Cap \in Nat /\ FrameIds \in Nat /\ FrameIds > Cap + 1
    BY <1>1, ScreenAssumption DEF InRing
  <2> HIDE DEF k
  <2>q. QED
    BY <1>1, <2>1, <2>2 DEF Back
<1>q. QED
  BY <1>1, <1>2 DEF Numbered, NoFrame

LEMMA RingGrows ==
  ASSUME NEW flight, NEW next, InRing(flight, next), Len(flight) <= Cap
  PROVE  /\ \A n \in DOMAIN flight : flight[n] # next
         /\ next # NoFrame /\ (next + 1) % FrameIds \in 0..(FrameIds - 1)
         /\ InRing(flight \o <<next>>, (next + 1) % FrameIds)
         /\ Len(flight \o <<next>>) = Len(flight) + 1
<1> DEFINE L == Len(flight)
           F == FrameIds
           more == flight \o <<next>>
           then == (next + 1) % FrameIds
<1>1. /\ L \in Nat /\ DOMAIN flight = 1..L /\ Proper(flight) /\ next \in 0..(F - 1)
      /\ \A n \in 1..L : flight[n] = Back(next, L - n + 1)
  BY DEF InRing, Proper
<1>2. F \in Nat /\ Cap \in Nat /\ F > Cap + 1 /\ L <= Cap
  BY ScreenAssumption
<1>3. then = IF next = F - 1 THEN 0 ELSE next + 1
  BY <1>1, ModStep
<1>4. /\ Proper(more) /\ Len(more) = L + 1
      /\ \A i \in 1..L : more[i] = flight[i]
      /\ more[L + 1] = next
  BY <1>1, ProperOneMore
<1> HIDE DEF L, F, then, more
<1>5. ASSUME NEW n \in 1..L PROVE flight[n] # next
  <2> DEFINE k == L - n + 1
  <2>1. flight[n] = Back(next, k) /\ k \in 1..L
    BY <1>1
  <2> HIDE DEF k
  <2>q. QED
    BY <1>1, <1>2, <2>1 DEF Back, F
<1>6. then \in 0..(F - 1) /\ next # NoFrame
  BY <1>1, <1>2, <1>3 DEF NoFrame
<1>7. ASSUME NEW n \in 1..Len(more) PROVE more[n] = Back(then, Len(more) - n + 1)
  <2>1. CASE n = L + 1
    <3>1. Len(more) - n + 1 = 1 /\ more[n] = next
      BY <1>1, <1>4, <2>1
    <3>q. QED
      BY SMTT(60), <1>1, <1>2, <1>3, <3>1 DEF Back, F
  <2>2. CASE n # L + 1
    <3> DEFINE k == L - n + 1
    <3>1. n \in 1..L /\ k \in 1..L /\ Len(more) - n + 1 = k + 1
      BY <1>1, <1>4, <2>2
    <3>2. more[n] = Back(next, k)
      BY <1>1, <1>4, <3>1
    <3> HIDE DEF k
    <3>3. Back(next, k) = Back(then, k + 1)
      BY <1>1, <1>2, <1>3, <3>1 DEF Back, F
    <3>q. QED
      BY <3>1, <3>2, <3>3
  <2>q. QED
    BY <2>1, <2>2
<1>8. InRing(more, then)
  <2>1. Len(more) <= Cap + 1
    BY <1>1, <1>2, <1>4
  <2>q. QED
    BY <1>4, <1>6, <1>7, <2>1 DEF InRing, F
<1>q. QED
  BY <1>1, <1>4, <1>5, <1>6, <1>8 DEF more, then, F, L

LEMMA RingShrinks ==
  ASSUME NEW flight, NEW next, InRing(flight, next), flight # <<>>
  PROVE  InRing(Tail(flight), next)
<1> DEFINE L == Len(flight)
           less == Tail(flight)
<1>1. /\ Proper(less) /\ L \in Nat \ {0} /\ Len(less) = L - 1
      /\ \A n \in 1..(L - 1) : less[n] = flight[n + 1]
  BY ProperTail DEF InRing
<1> HIDE DEF less
<1>2. next \in 0..(FrameIds - 1) /\ L <= Cap + 1 /\ \A n \in 1..L : flight[n] = Back(next, L - n + 1)
  BY DEF InRing
<1> HIDE DEF L
<1>3. ASSUME NEW n \in 1..Len(less) PROVE less[n] = Back(next, Len(less) - n + 1)
  <2>1. n + 1 \in 1..L /\ L - (n + 1) + 1 = Len(less) - n + 1 /\ n \in 1..(L - 1)
    BY <1>1
  <2>q. QED
    BY <1>1, <1>2, <2>1
<1>4. Len(less) <= Cap + 1
  BY <1>1, <1>2, ScreenAssumption
<1>q. QED
  BY <1>1, <1>2, <1>3, <1>4 DEF InRing, less

(* A frame, in one part or two, is in flight when it is on its way.         *)
LEMMA FrameFlies ==
  ASSUME NEW c, NEW q, NEW d, NEW flight, NEW next, NEW msgs, NEW k \in 0..Len(msgs), NEW ids,
         InRing(flight, next), Len(flight) < Cap, Proper(q), Proper(d), Proper(msgs), Len(msgs) <= 2,
         Proper(ids), Len(ids) = 3, \A i \in 1..3 : ids[i] = (next + i - 1) % FrameIds,
         \A i \in 1..Len(msgs) : IdThere(msgs[i]) = ids[i],
         Follows(flight, Way(c, q, d))
  PROVE  /\ InRing(flight \o SubSeq(ids, 1, k), ids[k + 1])
         /\ Follows(flight \o SubSeq(ids, 1, k), Way(c, q, d \o SubSeq(msgs, 1, k)))
<1>0. Len(msgs) \in Nat /\ Len(flight) \in Nat /\ Cap \in Nat
  BY ScreenAssumption DEF Proper, InRing
<1>1. /\ k \in 0..2 /\ Len(msgs) \in Nat /\ Len(flight) \in Nat /\ Cap \in Nat
      /\ 1 \in 1..3 /\ 2 \in 1..3 /\ 3 \in 1..3
  BY <1>0
<1>2. next \in 0..(FrameIds - 1) /\ Proper(flight) /\ Len(flight) <= Cap
  BY <1>1 DEF InRing
<1>3. ids[1] = next /\ ids[2] = (next + 1) % FrameIds /\ ids[3] = (ids[2] + 1) % FrameIds
  <2>1. ids[1] = (next + 1 - 1) % FrameIds /\ ids[2] = (next + 2 - 1) % FrameIds
        /\ ids[3] = (next + 3 - 1) % FrameIds
    BY <1>1
  <2>2. next + 1 - 1 = next /\ next + 2 - 1 = next + 1 /\ next + 3 - 1 = next + 2
    BY <1>2
  <2>q. QED
    BY <1>2, <2>1, <2>2, ModStep
<1> DEFINE fone == flight \o <<ids[1]>>
           done == d \o <<msgs[1]>>
           ftwo == fone \o <<ids[2]>>
           dtwo == done \o <<msgs[2]>>
<1>4. CASE k = 0
  <2>1. d \o SubSeq(msgs, 1, k) = d
    BY <1>4, OneByOne
  <2>2. k \in 0..Len(ids)
    BY <1>4
  <2>3. flight \o SubSeq(ids, 1, k) = flight
    BY <1>2, <1>4, <2>2, OneByOne
  <2>4. ids[k + 1] = next
    BY <1>3, <1>4
  <2>q. QED
    BY <2>1, <2>3, <2>4
<1>5. ASSUME k >= 1
      PROVE  /\ InRing(fone, ids[2]) /\ Follows(fone, Way(c, q, done)) /\ Len(fone) <= Cap
             /\ Proper(done)
  <2>1. /\ \A n \in DOMAIN flight : flight[n] # next
        /\ next # NoFrame
        /\ InRing(flight \o <<next>>, (next + 1) % FrameIds)
        /\ Len(flight \o <<next>>) = Len(flight) + 1
    BY <1>2, RingGrows
  <2>2. IdThere(msgs[1]) = next
    BY <1>1, <1>3, <1>5
  <2>3. Numbered(flight)
    BY RingNumbers
  <2>4. Follows(flight \o <<IdThere(msgs[1])>>, Way(c, q, done))
    BY <1>2, <2>1, <2>2, <2>3, WayFrameAdded
  <2>5. Proper(done)
    BY ProperOneMore
  <2>6. Len(flight \o <<next>>) <= Cap
    BY <1>1, <2>1
  <2>q. QED
    BY <1>3, <2>1, <2>2, <2>4, <2>5, <2>6
<1>6. ASSUME k = 2
      PROVE  InRing(ftwo, ids[3]) /\ Follows(ftwo, Way(c, q, dtwo))
  <2>1. /\ InRing(fone, ids[2]) /\ Follows(fone, Way(c, q, done)) /\ Len(fone) <= Cap
        /\ Proper(done)
    BY <1>5, <1>6
  <2> HIDE DEF fone, done
  <2>2. /\ \A n \in DOMAIN fone : fone[n] # ids[2]
        /\ ids[2] # NoFrame
        /\ InRing(fone \o <<ids[2]>>, ids[3])
    BY <1>3, <2>1, RingGrows
  <2>3. IdThere(msgs[2]) = ids[2]
    BY <1>1, <1>6
  <2>4. Numbered(fone) /\ Proper(fone)
    BY <2>1, RingNumbers
  <2>5. Follows(fone \o <<IdThere(msgs[2])>>, Way(c, q, dtwo))
    BY <2>1, <2>2, <2>3, <2>4, WayFrameAdded
  <2>q. QED
    BY <2>2, <2>3, <2>5
<1>7. k \in 0..Len(ids)
  BY <1>1
<1>8. CASE k = 1
  <2>1. d \o SubSeq(msgs, 1, k) = done
    BY <1>8, OneByOne
  <2>2. flight \o SubSeq(ids, 1, k) = fone
    BY <1>2, <1>7, <1>8, OneByOne
  <2>3. ids[k + 1] = ids[2] /\ InRing(fone, ids[2]) /\ Follows(fone, Way(c, q, done))
    BY <1>5, <1>8
  <2> HIDE DEF fone, done
  <2>q. QED
    BY <2>1, <2>2, <2>3
<1>9. CASE k = 2
  <2>1. d \o SubSeq(msgs, 1, k) = dtwo
    BY <1>9, OneByOne
  <2>2. flight \o SubSeq(ids, 1, k) = ftwo
    BY <1>2, <1>7, <1>9, OneByOne
  <2>3. ids[k + 1] = ids[3] /\ InRing(ftwo, ids[3]) /\ Follows(ftwo, Way(c, q, dtwo))
    BY SMTT(60), <1>6, <1>9
  <2> HIDE DEF ftwo, dtwo
  <2>q. QED
    BY <2>1, <2>2, <2>3
<1>q. QED
  BY <1>1, <1>4, <1>8, <1>9

-----------------------------------------------------------------------------
(* What each step does to the frames in flight.                             *)
AtWork == exit = "none" /\ client.ready /\ phase[client.gen] \notin {"left", "broken"}
Flown == /\ client.window \in Floor..Cap /\ InRing(client.flight, client.next)
         /\ Follows(client.flight, Way(client.gen, events, down[client.gen]))

(* Whoever is not greeted has no frame in flight; the socket of the one     *)
(* there is, or is to come, is open; and only a client that was greeted     *)
(* acknowledges.                                                            *)
Idle == ~client.ready => client.flight = <<>> /\ client.window = Floor /\ client.next = 1
Open == exit = "none" => \A c \in Clients :
  phase[c] = "new" \/ Holds(events, c, "new") \/ client.gen = c => c \notin shut
Greeting == \A c \in Clients : Holds(events, c, "ack") => phase[c] \in {"on", "left", "broken"}

FlightInv == Idle /\ Open /\ Greeting /\ (AtWork => Flown)

LEMMA SendFrameFlies ==
  ASSUME PictureInv, EventsOK, TalkInv, SendFrame, Flown
  PROVE  Flown'
<1> DEFINE g == client.gen
           d == down[g]
           flight == client.flight
           next == client.next
<1>1. PICK msgs, k : FrameGoes(msgs, k)
  BY FrameSent DEF PictureInv
<1>2. /\ client.ready /\ Len(flight) < client.window /\ events' = events
  <2>1. UNCHANGED <<root, pix, notes, size, served, events, shut, phase, shown, exit, counts>> /\ Due
    BY DEF SendFrame
  <2>q. QED
    BY <2>1 DEF Due
<1>3. g \in Clients /\ Proper(d) /\ down = [c \in Clients |-> down[c]] /\ Proper(events)
  BY <1>2 DEF PictureInv, PeerOK, TalkInv, TalkOK, EventsOK, Formed
<1>4. /\ client.window \in Floor..Cap /\ InRing(flight, next) /\ Follows(flight, Way(g, events, d))
  BY DEF Flown
<1>5. client'.gen = g /\ client'.window = client.window
  BY <1>1 DEF FrameGoes
<1>6. CASE /\ down' = down /\ client'.flight = flight /\ client'.next = next
  BY <1>2, <1>4, <1>5, <1>6 DEF Flown
<1>7. CASE /\ down' = [down EXCEPT ![g] = @ \o SubSeq(msgs, 1, k)]
           /\ client'.flight = flight \o [i \in 1..k |-> FrameId(i)]
           /\ client'.next = FrameId(k + 1)
  <2> DEFINE ids == [i \in 1..3 |-> FrameId(i)]
  <2>1. ids \in [1..3 -> {FrameId(i) : i \in 1..3}]
    OBVIOUS
  <2>2. /\ Proper(ids) /\ Len(ids) = 3
    <3>1. ids \in Seq({FrameId(i) : i \in 1..3})
      BY <2>1
    <3>2. Len(ids) = 3
      BY <2>1, <3>1
    <3> HIDE DEF ids
    <3>q. QED
      BY <3>1, <3>2, ProperIs
  <2>3. \A i \in 1..3 : ids[i] = (next + i - 1) % FrameIds
    BY SMTT(60) DEF FrameId
  <2>4. /\ Proper(msgs) /\ k \in 0..Len(msgs) /\ Len(msgs) <= 2 /\ DOMAIN msgs = 1..Len(msgs)
        /\ \A i \in 1..Len(msgs) : msgs[i].type = "update" /\ msgs[i].id = FrameId(i)
    BY <1>1 DEF FrameGoes
  <2>5. Len(msgs) \in Nat /\ k \in 0..2 /\ k \in 0..Len(ids)
    BY <2>2, <2>4 DEF Proper
  <2>6. \A i \in 1..Len(msgs) : IdThere(msgs[i]) = ids[i]
    <3>1. ASSUME NEW i \in 1..Len(msgs) PROVE i \in 1..3
      BY <2>4, <2>5, <3>1
    <3>q. QED
      BY <2>4, <3>1 DEF IdThere
  <2>7. SubSeq(ids, 1, k) = [i \in 1..k |-> FrameId(i)] /\ ids[k + 1] = FrameId(k + 1)
    <3>1. k + 1 \in 1..3 /\ \A i \in 1..k : i \in 1..3
      BY <2>5
    <3>2. ids[k + 1] = FrameId(k + 1) /\ \A i \in 1..k : ids[i] = FrameId(i)
      BY <3>1
    <3> HIDE DEF ids
    <3> DEFINE s == SubSeq(ids, 1, k)
    <3>3. Proper(s) /\ Len(s) = k /\ \A i \in 1..k : s[i] = ids[i]
      BY <2>2, <2>5, ProperSub
    <3> HIDE DEF s
    <3>4. s = [i \in 1..k |-> FrameId(i)]
      BY <3>2, <3>3 DEF Proper
    <3>q. QED
      BY <3>2, <3>4 DEF s
  <2>8. Len(flight) < Cap
    BY <1>2, <1>4, ScreenAssumption DEF InRing, Proper
  <2> HIDE DEF ids, d, flight, next
  <2>9. /\ InRing(flight \o SubSeq(ids, 1, k), ids[k + 1])
        /\ Follows(flight \o SubSeq(ids, 1, k), Way(g, events, d \o SubSeq(msgs, 1, k)))
    BY <1>3, <1>4, <2>2, <2>3, <2>4, <2>6, <2>8, FrameFlies
  <2>10. down'[g] = d \o SubSeq(msgs, 1, k)
    BY <1>3, <1>7 DEF d
  <2>q. QED
    BY <1>2, <1>4, <1>5, <1>7, <2>7, <2>9, <2>10 DEF Flown, flight
<1>q. QED
  BY <1>1, <1>6, <1>7 DEF FrameGoes

(* A step that sends a size at most, and takes nothing but what is no       *)
(* acknowledgement of the client there is, leaves the frames as they are.   *)
Kept ==
  /\ client'.gen = client.gen /\ client'.ready = client.ready
  /\ client'.flight = client.flight /\ client'.next = client.next /\ client'.window = client.window
  /\ down' = down \/ SaysSize

LEMMA ShowKeeps ==
  ASSUME PeerOK, TalkOK, NEW n, NEW force \in BOOLEAN, Show(n, client, force, ResizedTo(n))
  PROVE  Kept
<1> DEFINE cl == [client EXCEPT !.full = client.gen # 0 /\ (@ \/ force \/ ServedOf(n) # served)]
<1>1. /\ cl.flight = client.flight /\ cl.next = client.next /\ cl.window = client.window
      /\ DOMAIN cl = PeerFields /\ cl.gen = client.gen
  BY DEF PeerOK, PeerFields
<1>2. IF client.gen = 0 THEN client' = cl
      ELSE \E k \in Accepted(cl, ResizedTo(n)) : Send(cl, ResizedTo(n), k)
  BY DEF Show
<1> HIDE DEF cl
<1>3. client' = cl \/ \E dead : client' = [cl EXCEPT !.dead = dead]
  BY <1>2 DEF Send
<1>4. client'.flight = client.flight /\ client'.next = client.next /\ client'.window = client.window
  BY <1>1, <1>3 DEF PeerFields
<1>q. QED
  BY <1>4, ResizedTold DEF Kept, Speaks, SaysNothing

LEMMA KeptFlies ==
  ASSUME PictureInv, EventsOK, TalkInv, Flown, client.ready, Kept,
         \/ events' = events
         \/ events # <<>> /\ events' = Tail(events) /\ IdBack(client.gen, Head(events)) = NoFrame
  PROVE  Flown'
<1> DEFINE g == client.gen
           flight == client.flight
           d == down[g]
<1>1. g \in Clients /\ Proper(d) /\ down = [c \in Clients |-> down[c]] /\ Proper(events) /\ Formed(events)
  BY DEF PictureInv, PeerOK, TalkInv, TalkOK, EventsOK, Formed
<1>2. /\ client.window \in Floor..Cap /\ InRing(flight, client.next) /\ Follows(flight, Way(g, events, d))
      /\ Numbered(flight)
  BY RingNumbers DEF Flown
<1>3. /\ client'.gen = g /\ client'.flight = flight /\ client'.next = client.next
      /\ client'.window = client.window
      /\ down' = down \/ SaysSize
  BY DEF Kept
<1> HIDE DEF g, flight, d
<1>4. Follows(flight, Way(g, events', d)) /\ Proper(events')
  <2>1. CASE events' = events
    BY <1>1, <1>2, <2>1
  <2>2. CASE events # <<>> /\ events' = Tail(events) /\ IdBack(g, Head(events)) = NoFrame
    <3>1. Proper(Tail(events))
      BY <1>1, <2>2, ProperTail
    <3>q. QED
      BY <1>1, <1>2, <2>2, <3>1, WayEventTaken
  <2>q. QED
    BY <2>1, <2>2 DEF g
<1>5. Follows(flight, Way(g, events', down'[g]))
  <2>1. CASE down' = down
    BY <1>4, <2>1 DEF d
  <2>2. CASE SaysSize
    <3> DEFINE m == ResizedMsg(served')
    <3>1. IdThere(m) = NoFrame
      BY DEF IdThere, ResizedMsg
    <3>2. down' = [down EXCEPT ![g] = @ \o <<m>>]
      BY <2>2 DEF SaysSize, g
    <3> HIDE DEF m
    <3>3. down'[g] = d \o <<m>>
      BY <1>1, <3>2 DEF d
    <3>4. Follows(flight, Way(g, events', d \o <<m>>))
      BY <1>1, <1>2, <1>4, <3>1, WayThereAdded
    <3>q. QED
      BY <3>3, <3>4
  <2>q. QED
    BY <1>3, <2>1, <2>2
<1>q. QED
  BY <1>2, <1>3, <1>5 DEF Flown, flight

(* The step of the window.                                                  *)
LEMMA ClampIs ==
  ASSUME NEW n \in Int
  PROVE  Clamp(n, Floor, Cap) \in Floor..Cap
<1>1. Floor \in Int /\ Cap \in Int /\ Floor <= Cap
  BY ScreenAssumption
<1>2. Min({n, Cap}) = IF n <= Cap THEN n ELSE Cap
  BY <1>1, MinOfTwo
<1>3. Min({n, Cap}) \in Int /\ Min({n, Cap}) <= Cap
  BY <1>1, <1>2
<1>4. Max({Floor, Min({n, Cap})}) = IF Floor >= Min({n, Cap}) THEN Floor ELSE Min({n, Cap})
  BY <1>1, <1>3, MaxOfTwo
<1>q. QED
  BY <1>1, <1>3, <1>4 DEF Clamp

LEMMA FirstAndRest ==
  ASSUME NEW q, Proper(q), q # <<>>
  PROVE  SubSeq(q, 2, Len(q)) = Tail(q) /\ Max({1}) = 1
<1>1. PICK S : q \in Seq(S)
  BY ProperIs
<1>2. SubSeq(q, 2, Len(q)) = Tail(q)
  BY <1>1
<1>3. Max({1, 1}) = 1 /\ {1, 1} = {1}
  BY MaxOfTwo
<1>q. QED
  BY <1>2, <1>3

(* What is acknowledged is the first frame in flight.                       *)
LEMMA AckFlies ==
  ASSUME PictureInv, EventsOK, TalkInv, Flown, client.ready, HandleAck
  PROVE  Flown'
<1> DEFINE g == client.gen
           flight == client.flight
           d == down[g]
           at == {i \in DOMAIN flight : flight[i] = Msg.id}
<1>1. /\ events # <<>> /\ events' = Tail(events) /\ down' = down
      /\ Head(events)[1] = g /\ Head(events)[2].type = "ack" /\ Msg = Head(events)[2]
  BY DEF HandleAck, Present, Heads, Msg
<1>2. g \in Clients /\ Proper(d) /\ Proper(events) /\ DOMAIN client = PeerFields
  BY DEF PictureInv, PeerOK, PeerFields, TalkInv, TalkOK, EventsOK, Formed
<1>3. /\ client.window \in Floor..Cap /\ InRing(flight, client.next) /\ Follows(flight, Way(g, events, d))
      /\ Numbered(flight) /\ Proper(flight)
  BY RingNumbers DEF Flown
<1>4. IdBack(g, Head(events)) = Msg.id
  BY <1>1 DEF IdBack
<1>5. CASE Msg.id = NoFrame
  <2>1. at = {}
    BY <1>3, <1>5 DEF Numbered
  <2>2. client' = client
    BY <2>1 DEF HandleAck
  <2>3. Kept
    BY <1>1, <2>2 DEF Kept
  <2>q. QED
    BY <1>1, <1>4, <1>5, <2>3, KeptFlies
<1>6. CASE Msg.id # NoFrame
  <2>0. /\ flight # <<>> /\ flight[1] = Msg.id
        /\ \A n \in DOMAIN flight : flight[n] = Msg.id => n = 1
        /\ Follows(Tail(flight), Way(g, Tail(events), d))
    <3> HIDE DEF flight, g, d
    <3>q. QED
      BY <1>1, <1>2, <1>3, <1>4, <1>6, WayAcknowledged
  <2>1. at = {1}
    <3>1. 1 \in DOMAIN flight
      BY <1>3, <2>0, ProperTail
    <3>q. QED
      BY <2>0, <3>1
  <2>2. PICK step \in {-1, 0, 1} :
          client' = [client EXCEPT !.flight = SubSeq(@, Max(at) + 1, Len(@)),
                                   !.window = Clamp(@ + step, Floor, Cap)]
    <3>1. at # {}
      BY <2>1
    <3>2. IF at = {} THEN UNCHANGED client
          ELSE \E step \in {-1, 0, 1} :
                 client' = [client EXCEPT !.flight = SubSeq(@, Max(at) + 1, Len(@)),
                                          !.window = Clamp(@ + step, Floor, Cap)]
      BY DEF HandleAck
    <3> HIDE DEF at
    <3>q. QED
      BY <3>1, <3>2
  <2>3. Max(at) + 1 = 2 /\ SubSeq(flight, 2, Len(flight)) = Tail(flight)
    <3> HIDE DEF at, flight
    <3>1. SubSeq(flight, 2, Len(flight)) = Tail(flight) /\ Max({1}) = 1
      BY <1>3, <2>0, FirstAndRest
    <3>q. QED
      BY <2>1, <3>1
  <2>4. client.window + step \in Int
    BY <1>3, <2>2, ScreenAssumption
  <2>5. /\ client'.gen = g /\ client'.next = client.next /\ client'.flight = Tail(flight)
        /\ client'.window = Clamp(client.window + step, Floor, Cap)
    BY <1>2, <2>2, <2>3 DEF PeerFields
  <2>6. client'.window \in Floor..Cap
    BY <2>4, <2>5, ClampIs
  <2>7. InRing(Tail(flight), client.next)
    BY <1>3, <2>0, RingShrinks
  <2>q. QED
    BY <1>1, <2>0, <2>5, <2>6, <2>7 DEF Flown
<1>q. QED
  BY <1>5, <1>6

-----------------------------------------------------------------------------
(* ... and what it does to the rest of the invariant.                       *)
LEMMA PicturingKeeps ==
  ASSUME PictureInv, TalkOK, Picturing
  PROVE  /\ Kept \/ SendFrame
         /\ exit' = "none" => exit = "none" /\ shut' = shut
<1>1. PeerOK /\ TRUE \in BOOLEAN /\ FALSE \in BOOLEAN
  BY DEF PictureInv
<1>2. CASE SendFrame
  <2>1. UNCHANGED <<root, pix, notes, size, served, events, shut, phase, shown, exit, counts>>
    BY <1>2 DEF SendFrame
  <2>q. QED
    BY <1>2, <2>1
<1>3. CASE NoteResize
  <2>1. Show(root, client, FALSE, ResizedTo(root)) /\ exit' = exit /\ shut' = shut
    BY <1>3 DEF NoteResize
  <2>q. QED
    BY <1>1, <2>1, ShowKeeps
<1>4. CASE CaptureRaces
  <2>1. Show(root, client, TRUE, ResizedTo(root)) /\ exit' = exit /\ shut' = shut
    BY <1>4 DEF CaptureRaces
  <2>q. QED
    BY <1>1, <2>1, ShowKeeps
<1>5. CASE CaptureFails
  <2>1. client' = client /\ down' = down /\ exit' = "x error"
    BY <1>5 DEF CaptureFails
  <2>q. QED
    BY <2>1 DEF Kept
<1>6. CASE \/ \E r \in Rows(MaxRows), colour \in Colours : Paint(r, colour)
           \/ Scroll \/ \E n \in 1..MaxRows : SessionResizes(n)
           \/ NoteDamage
  <2>1. client' = client /\ down' = down /\ exit' = exit /\ shut' = shut
    BY <1>6 DEF Paint, Scroll, SessionResizes, NoteDamage
  <2>q. QED
    BY <2>1 DEF Kept
<1>q. QED
  BY <1>2, <1>3, <1>4, <1>5, <1>6 DEF Picturing, Pump

LEMMA PicturingFlight ==
  ASSUME PictureInv, EventsOK, TalkInv, FlightInv, Picturing
  PROVE  FlightInv'
<1>1. TalkOK
  BY SMTT(60) DEF TalkInv
<1>2. events' = events /\ phase' = phase
  BY PicturingEvents
<1>3. /\ Kept \/ SendFrame
      /\ exit' = "none" => exit = "none" /\ shut' = shut
  BY <1>1, PicturingKeeps
<1>4. client'.gen = client.gen /\ client'.ready = client.ready
  BY <1>1, PicturingSays DEF Speaks
<1>5. Idle'
  <2>1. SendFrame => client.ready
    BY DEF SendFrame, Due
  <2>q. QED
    BY <1>3, <1>4, <2>1 DEF FlightInv, Idle, Kept
<1>6. Open'
  BY <1>2, <1>3, <1>4 DEF FlightInv, Open, Holds
<1>7. Greeting'
  BY <1>2 DEF FlightInv, Greeting, Holds
<1>8. ASSUME AtWork' PROVE Flown'
  <2>1. AtWork /\ client.ready /\ Flown
    BY <1>2, <1>3, <1>4, <1>8 DEF AtWork, FlightInv
  <2>q. QED
    BY <1>2, <1>3, <2>1, SendFrameFlies, KeptFlies
<1>q. QED
  BY <1>5, <1>6, <1>7, <1>8 DEF FlightInv

LEMMA AnsweringKeeps ==
  ASSUME PictureInv, TalkOK, Answering
  PROVE  /\ events # <<>> /\ events' = Tail(events)
         /\ shut' = shut /\ phase' = phase /\ (exit' = "none" => exit = "none")
         /\ HandleAck \/ (Kept /\ IdBack(client.gen, Head(events)) = NoFrame)
<1>1. PeerOK /\ TRUE \in BOOLEAN /\ FALSE \in BOOLEAN
  BY DEF PictureInv
<1>2. CASE HandleStale
  BY <1>2 DEF HandleStale, IdBack, Kept
<1>3. CASE HandleAck
  BY <1>3 DEF HandleAck, Present, Heads
<1>4. CASE HandleRefresh
  <2>1. Show(served, client, TRUE, <<>>) /\ Head(events)[2].type = "refresh" /\ events # <<>>
    BY <1>4 DEF HandleRefresh, Present, Heads
  <2>2. ServedOf(served) = served
    BY ServedIs DEF PictureInv, ScreenOK
  <2>3. ResizedTo(served) = <<>>
    BY <2>2 DEF ResizedTo
  <2>4. Kept
    BY <1>1, <2>1, <2>3, ShowKeeps
  <2>5. events' = Tail(events) /\ shut' = shut /\ phase' = phase /\ exit' = exit
    BY <1>4 DEF HandleRefresh
  <2>q. QED
    BY <2>1, <2>4, <2>5 DEF IdBack
<1>5. CASE HandleResize
  <2>1. PICK o \in Resizes(Msg.rows) :
          Show(IF o.ok THEN o.root ELSE served, client, FALSE, ResizedTo(IF o.ok THEN o.root ELSE served))
    BY <1>5 DEF HandleResize, ApplyResize
  <2>2. Kept
    BY <1>1, <2>1, ShowKeeps
  <2>3. Head(events)[2].type = "resize" /\ events # <<>>
    BY <1>5 DEF HandleResize, Present, Heads
  <2>4. events' = Tail(events) /\ shut' = shut /\ phase' = phase /\ exit' = exit
    BY <1>5 DEF HandleResize
  <2>q. QED
    BY <2>2, <2>3, <2>4 DEF IdBack
<1>q. QED
  BY <1>2, <1>3, <1>4, <1>5 DEF Answering

LEMMA AnsweringFlight ==
  ASSUME PictureInv, EventsOK, TalkInv, FlightInv, Answering
  PROVE  FlightInv'
<1>1. TalkOK
  BY DEF TalkInv
<1>2. /\ events # <<>> /\ events' = Tail(events)
      /\ shut' = shut /\ phase' = phase /\ (exit' = "none" => exit = "none")
      /\ HandleAck \/ (Kept /\ IdBack(client.gen, Head(events)) = NoFrame)
  BY <1>1, AnsweringKeeps
<1>3. \A c, t : Holds(events', c, t) => Holds(events, c, t)
  BY <1>2, EventTaken DEF EventsOK
<1>4. client'.gen = client.gen /\ client'.ready = client.ready
  BY <1>1, AnsweringSays DEF Speaks
<1>5. Idle'
  <2>1. ASSUME HandleAck, client.flight = <<>> PROVE client' = client
    <3>1. {i \in DOMAIN client.flight : client.flight[i] = Msg.id} = {}
      BY <2>1
    <3>q. QED
      BY <2>1, <3>1 DEF HandleAck
  <2>q. QED
    BY <1>2, <1>4, <2>1 DEF FlightInv, Idle, Kept
<1>6. Open'
  BY <1>2, <1>3, <1>4 DEF FlightInv, Open
<1>7. Greeting'
  BY <1>2, <1>3 DEF FlightInv, Greeting
<1>8. ASSUME AtWork' PROVE Flown'
  <2>1. AtWork /\ client.ready /\ Flown
    BY <1>2, <1>4, <1>8 DEF AtWork, FlightInv
  <2>q. QED
    BY <1>2, <2>1, AckFlies, KeptFlies
<1>q. QED
  BY <1>5, <1>6, <1>7, <1>8 DEF FlightInv

LEMMA ShowFields ==
  ASSUME NEW n, NEW cl, DOMAIN cl = PeerFields, NEW force, NEW msgs, Show(n, cl, force, msgs)
  PROVE  client'.flight = cl.flight /\ client'.next = cl.next /\ client'.window = cl.window
<1> DEFINE c2 == [cl EXCEPT !.full = cl.gen # 0 /\ (@ \/ force \/ ServedOf(n) # served)]
<1>1. /\ c2.flight = cl.flight /\ c2.next = cl.next /\ c2.window = cl.window
      /\ DOMAIN c2 = PeerFields
  BY DEF PeerFields
<1>2. IF cl.gen = 0 THEN client' = c2 ELSE \E k \in Accepted(c2, msgs) : Send(c2, msgs, k)
  BY DEF Show
<1> HIDE DEF c2
<1>3. client' = c2 \/ \E dead : client' = [c2 EXCEPT !.dead = dead]
  BY <1>2 DEF Send
<1>q. QED
  BY <1>1, <1>3 DEF PeerFields

(* Whoever is greeted starts with no frame on its way, either way.          *)
LEMMA HelloFlight ==
  ASSUME PictureInv, EventsOK, TalkInv, FlightInv, HandleHello
  PROVE  FlightInv'
<1> DEFINE g == client.gen
           m == HelloMsg(served')
<1>1. /\ g \in Clients /\ ~client.ready /\ client'.gen = g /\ client'.ready
      /\ \/ ~client'.dead /\ down' = [down EXCEPT ![g] = @ \o <<m>>]
         \/ client'.dead /\ down' = down /\ phase[g] \in {"left", "broken"}
  BY HelloTold
<1>2. /\ events # <<>> /\ events' = Tail(events) /\ phase' = phase /\ shut' = shut /\ exit' = exit
  BY DEF HandleHello, Present, Heads
<1>3. /\ \A c, t : Holds(events', c, t) => Holds(events, c, t)
      /\ Formed(events') /\ Proper(events')
  BY <1>2, EventTaken DEF EventsOK, Formed
<1>4. client'.flight = <<>> /\ client'.next = 1 /\ client'.window = Floor
  <2> DEFINE cr == [client EXCEPT !.ready = TRUE]
  <2>1. PICK to : Show(to, cr, TRUE, <<HelloMsg(ServedOf(to))>>)
    BY DEF HandleHello, ApplyResize
  <2>2. /\ DOMAIN cr = PeerFields /\ cr.flight = client.flight /\ cr.next = client.next
        /\ cr.window = client.window
    BY DEF PictureInv, PeerOK, PeerFields
  <2> HIDE DEF cr
  <2>3. client'.flight = cr.flight /\ client'.next = cr.next /\ client'.window = cr.window
    BY <2>1, <2>2, ShowFields
  <2>q. QED
    BY <1>1, <2>2, <2>3 DEF FlightInv, Idle
<1>5. Idle'
  BY <1>1 DEF Idle
<1>6. Open'
  BY <1>1, <1>2, <1>3 DEF FlightInv, Open
<1>7. Greeting'
  BY <1>2, <1>3 DEF FlightInv, Greeting
<1>8. ASSUME AtWork' PROVE Flown'
  <2> DEFINE p == down[g]
             d == down'[g]
             w == Way(g, events', d)
  <2>1. phase[g] \notin {"left", "broken"} /\ down' = [down EXCEPT ![g] = @ \o <<m>>]
    BY <1>1, <1>2, <1>8 DEF AtWork
  <2>2. /\ Proper(p) /\ down = [c \in Clients |-> down[c]] /\ Len(p) = 0 /\ phase[g] # "on"
    BY <1>1 DEF TalkInv, TalkOK, OnceOK, Once
  <2>3. ~Holds(events', g, "ack")
    BY <1>1, <1>3, <2>1, <2>2 DEF FlightInv, Greeting
  <2>4. IdThere(m) = NoFrame
    BY DEF IdThere, HelloMsg
  <2> HIDE DEF m, p
  <2>5. d = p \o <<m>>
    BY <1>1, <2>1, <2>2 DEF p
  <2> HIDE DEF d
  <2>6. Proper(d) /\ Len(d) = 1 /\ d[1] = m
    <3>1. /\ Proper(p \o <<m>>) /\ Len(p \o <<m>>) = Len(p) + 1 /\ Len(p) \in Nat
          /\ (p \o <<m>>)[Len(p) + 1] = m
      BY <2>2, ProperOneMore
    <3>2. Len(p) + 1 = 1
      BY <2>2
    <3>q. QED
      BY <2>5, <3>1, <3>2
  <2>7. /\ Len(events') \in Nat /\ DOMAIN w = 1..(Len(events') + Len(d))
        /\ \A x \in 1..Len(events') : w[x] = IdBack(g, events'[x])
        /\ \A x \in 1..Len(d) : w[Len(events') + x] = IdThere(d[x])
    <3> DEFINE q == events'
    <3>1. Proper(q) /\ Proper(d)
      BY <1>3, <2>6
    <3> HIDE DEF q, g
    <3>2. /\ Len(q) \in Nat /\ DOMAIN Way(g, q, d) = 1..(Len(q) + Len(d))
          /\ \A x \in 1..Len(q) : Way(g, q, d)[x] = IdBack(g, q[x])
          /\ \A x \in 1..Len(d) : Way(g, q, d)[Len(q) + x] = IdThere(d[x])
      BY <3>1, WayIs
    <3>q. QED
      BY <3>2 DEF q
  <2>8. \A x \in 1..Len(events') : IdBack(g, events'[x]) = NoFrame
    <3>1. DOMAIN events' = 1..Len(events')
      BY <1>3 DEF Proper
    <3>q. QED
      BY <2>3, <3>1 DEF IdBack, Holds
  <2> HIDE DEF w
  <2>9. \A x \in DOMAIN w : w[x] = NoFrame
    <3>1. \A x \in DOMAIN w : x \in 1..Len(events') \/ x = Len(events') + 1
      BY <2>6, <2>7
    <3>2. w[Len(events') + 1] = NoFrame
      BY <2>4, <2>6, <2>7
    <3>q. QED
      BY <2>7, <2>8, <3>1, <3>2
  <2>10. Follows(<<>>, w)
    <3>1. DOMAIN <<>> = {}
      OBVIOUS
    <3>q. QED
      BY <2>9, <3>1 DEF Follows
  <2>11. Floor \in Floor..Cap
    BY ScreenAssumption
  <2>q. QED
    BY <1>1, <1>4, <2>10, <2>11, RingStarts DEF Flown, w, d, g
<1>q. QED
  BY <1>5, <1>6, <1>7, <1>8 DEF FlightInv

(* With a client that is dropped, or another that takes its place, nothing  *)
(* is in flight, and the socket of the next is open.                        *)
LEMMA DropFlight ==
  ASSUME PictureInv, EventsOK, TalkInv, FlightInv, exit = "none",
         NEW notice, NEW rest, NEW next, NEW why, Drop(notice, rest, next, why),
         Formed(rest), \A c, t : Holds(rest, c, t) => Holds(events, c, t),
         next = None \/ \E c \in Clients : next = Fresh(c) /\ Holds(events, c, "new"),
         phase' = phase
  PROVE  FlightInv'
<1>1. /\ client' = next /\ ~next.ready /\ next.flight = <<>> /\ next.window = Floor /\ next.next = 1
      /\ next.gen = 0 \/ (next.gen \in Clients /\ Holds(events, next.gen, "new"))
  <2>1. client' = next
    BY DropGives
  <2>2. None.flight = <<>> /\ None.window = Floor /\ None.next = 1
    BY DEF None
  <2>3. \A c : Fresh(c).flight = <<>> /\ Fresh(c).window = Floor /\ Fresh(c).next = 1
    BY DEF None, Fresh
  <2>q. QED
    BY <2>1, <2>2, <2>3, NobodyYet
<1>2. \A c, t : t # "closed" => (Holds(events', c, t) <=> Holds(rest, c, t))
  <2>1. client.gen \in {0} \cup Clients
    BY DEF PictureInv, PeerOK
  <2>q. QED
    BY <2>1, DropEvents
<1>3. Idle'
  BY <1>1 DEF Idle
<1>4. Open'
  <2> SUFFICES ASSUME exit' = "none", NEW c \in Clients,
                      phase'[c] = "new" \/ Holds(events', c, "new") \/ client'.gen = c
               PROVE  c \notin shut'
    BY DEF Open
  <2>1. phase[c] = "new" \/ Holds(events, c, "new")
    BY <1>1, <1>2, ClientsPositive
  <2>2. c \notin shut /\ client.gen # c
    BY <2>1 DEF TalkInv, OnceOK, Once, FlightInv, Open
  <2>3. shut' = shut \/ shut' = shut \cup {client.gen}
    BY DEF Drop
  <2>q. QED
    BY <2>2, <2>3
<1>5. Greeting'
  BY <1>2 DEF FlightInv, Greeting
<1>6. ~AtWork'
  BY <1>1 DEF AtWork
<1>q. QED
  BY <1>3, <1>4, <1>5, <1>6 DEF FlightInv

LEMMA DropsFlight ==
  ASSUME PictureInv, EventsOK, TalkInv, FlightInv,
         HandleNew \/ HandleClosed \/ HandleRefused \/ DropDead \/ Expire \/ Quit
  PROVE  FlightInv'
<1>1. exit = "none" /\ phase' = phase
  BY DEF HandleNew, HandleClosed, HandleRefused, DropDead, Expire, Quit, Present, Heads
<1>2. CASE DropDead \/ Expire \/ Quit
  <2>1. \E notice, why : Drop(notice, events, None, why)
    BY <1>2 DEF DropDead, Expire, Quit
  <2>q. QED
    BY <1>1, <2>1, DropFlight DEF EventsOK
<1>3. CASE HandleNew \/ HandleClosed \/ HandleRefused
  <2> DEFINE rest == Tail(events)
             e == Head(events)
  <2>1. events # <<>>
    BY <1>3 DEF HandleNew, HandleClosed, HandleRefused, Present, Heads
  <2>2. /\ Formed(rest) /\ WellFormed(e) /\ Holds(events, e[1], e[2].type)
        /\ \A c, t : Holds(rest, c, t) => Holds(events, c, t)
    BY <2>1, EventTaken DEF EventsOK
  <2>3. \E notice, why, next : /\ Drop(notice, rest, next, why)
                               /\ next = None \/ (next = Fresh(e[1]) /\ e[2].type = "new")
    BY <1>3 DEF HandleNew, HandleClosed, HandleRefused, Heads
  <2>4. e[1] \in Clients
    BY <2>2 DEF WellFormed
  <2> HIDE DEF rest, e
  <2>5. PICK notice, why, next : /\ Drop(notice, rest, next, why)
                                 /\ next = None \/ (next = Fresh(e[1]) /\ e[2].type = "new")
    BY <2>3
  <2>6. next = None \/ \E c \in Clients : next = Fresh(c) /\ Holds(events, c, "new")
    BY <2>2, <2>4, <2>5
  <2>q. QED
    BY <1>1, <2>2, <2>5, <2>6, DropFlight
<1>q. QED
  BY <1>2, <1>3

(* A client's own steps.                                                    *)
LEMMA ClientSteps ==
  ASSUME TalkOK, EventsOK, NEW c \in Clients, Connect(c) \/ Ask(c) \/ Leave(c) \/ ClientStep(c)
  PROVE  /\ client' = client /\ shut' = shut /\ exit' = exit
         /\ \A d \in Clients : d # c => phase'[d] = phase[d] /\ down'[d] = down[d]
         /\ phase[c] \notin {"left", "broken"}
         /\ phase'[c] = "new" => phase[c] = "new"
         /\ phase[c] \in {"on", "left", "broken"} => phase'[c] \in {"on", "left", "broken"}
         /\ Receive(c) => phase[c] = "on"
         /\ \/ events' = events
            \/ \E m : /\ WellFormed(<<c, m>>) /\ events' = events \o <<<<c, m>>>>
                      /\ m.type = "new" => Connect(c)
                      /\ m.type = "ack" => Receive(c)
<1>1. DOMAIN phase = Clients /\ down = [d \in Clients |-> down[d]]
  BY DEF TalkOK
<1>2. CASE Connect(c)
  <2>1. /\ client' = client /\ shut' = shut /\ exit' = exit /\ down' = down
        /\ phase[c] = "new" /\ phase' = [phase EXCEPT ![c] = "connected"]
    BY <1>2 DEF Connect
  <2> DEFINE m == Plain("new")
  <2>2. WellFormed(<<c, m>>) /\ m.type = "new" /\ events' = events \o <<<<c, m>>>>
    BY <1>2, ConnectEvents, Wellformed
  <2> HIDE DEF m
  <2>q. QED
    BY <1>1, <1>2, <2>1, <2>2 DEF Receive
<1>3. CASE Ask(c)
  <2>1. /\ client' = client /\ shut' = shut /\ exit' = exit /\ down' = down /\ phase' = phase
        /\ phase[c] = "on"
    BY <1>3 DEF Ask
  <2>q. QED
    BY <1>1, <1>3, <2>1, AskEvents DEF Receive
<1>4. CASE Hello(c)
  <2>1. /\ client' = client /\ shut' = shut /\ exit' = exit /\ down' = down
        /\ phase[c] = "connected" /\ phase' = [phase EXCEPT ![c] = "hello"]
    BY <1>4 DEF Hello
  <2>2. \E m : WellFormed(<<c, m>>) /\ events' = events \o <<<<c, m>>>> /\ m.type = "hello"
    BY <1>4, HelloEvents
  <2>q. QED
    BY <1>1, <2>1, <2>2 DEF Receive
<1>5. ASSUME NEW how \in {"left", "broken"},
             /\ client' = client /\ shut' = shut /\ exit' = exit
             /\ phase' = [phase EXCEPT ![c] = how] /\ down' = [down EXCEPT ![c] = <<>>]
             /\ Tell(c, <<Plain("closed")>>)
      PROVE  /\ client' = client /\ shut' = shut /\ exit' = exit
             /\ \A d \in Clients : d # c => phase'[d] = phase[d] /\ down'[d] = down[d]
             /\ phase'[c] = how
             /\ \/ events' = events
                \/ \E m : WellFormed(<<c, m>>) /\ events' = events \o <<<<c, m>>>> /\ m.type = "closed"
  <2> DEFINE m == Plain("closed")
  <2>1. WellFormed(<<c, m>>) /\ m.type = "closed" /\ Tell(c, <<m>>)
    BY <1>5, Wellformed
  <2> HIDE DEF m
  <2>2. events' = IF c \in shut THEN events ELSE events \o <<<<c, m>>>>
    BY <2>1, TellEvents
  <2>q. QED
    BY <1>1, <1>5, <2>1, <2>2
<1>6. CASE Leave(c)
  <2>1. /\ client' = client /\ shut' = shut /\ exit' = exit
        /\ phase' = [phase EXCEPT ![c] = "left"] /\ down' = [down EXCEPT ![c] = <<>>]
        /\ Tell(c, <<Plain("closed")>>) /\ phase[c] \in {"hello", "on"}
    BY <1>6 DEF Leave
  <2>q. QED
    BY <1>5, <2>1 DEF Receive
<1>7. CASE SeesEnd(c)
  <2>1. /\ client' = client /\ shut' = shut /\ exit' = exit
        /\ phase' = [phase EXCEPT ![c] = "left"] /\ down' = [down EXCEPT ![c] = <<>>]
        /\ Tell(c, <<Plain("closed")>>) /\ phase[c] \in {"connected", "hello", "on"}
    BY <1>7 DEF SeesEnd, Ends
  <2>q. QED
    BY <1>5, <2>1 DEF Receive
<1>8. CASE Greeted(c)
  <2>1. /\ client' = client /\ shut' = shut /\ exit' = exit /\ phase[c] \in {"connected", "hello"}
        /\ \/ /\ phase' = [phase EXCEPT ![c] = "on"] /\ events' = events
              /\ down' = [down EXCEPT ![c] = Tail(@)]
           \/ \E how \in {"left", "broken"} : Ends(c, how)
    BY <1>8 DEF Greeted
  <2>q. QED
    BY <1>1, <1>5, <2>1 DEF Receive, Ends
<1>9. CASE Receive(c)
  <2>1. /\ client' = client /\ shut' = shut /\ exit' = exit /\ phase[c] = "on"
        /\ \/ phase' = phase /\ down' = [down EXCEPT ![c] = Tail(@)]
           \/ \E how \in {"left", "broken"} : Ends(c, how)
    BY <1>9 DEF Receive
  <2>2. \/ events' = events
        \/ \E m : /\ WellFormed(<<c, m>>) /\ m.type \in {"closed", "ack"}
                  /\ events' = events \o <<<<c, m>>>>
    BY <1>9, ReceiveEvents
  <2>q. QED
    BY <1>1, <1>5, <1>9, <2>1, <2>2 DEF Ends
<1>q. QED
  BY <1>2, <1>3, <1>4, <1>6, <1>7, <1>8, <1>9 DEF ClientStep

LEMMA ToldFlies ==
  ASSUME PictureInv, EventsOK, TalkInv, Flown, client' = client, NEW e,
         events' = events \/ events' = events \o <<e>>, IdBack(client.gen, e) = NoFrame,
         client.gen \in Clients, down'[client.gen] = down[client.gen]
  PROVE  Flown'
<1> DEFINE g == client.gen
           flight == client.flight
           d == down[g]
<1>1. Proper(d) /\ Proper(events)
  BY DEF TalkInv, TalkOK, EventsOK, Formed
<1>2. /\ client.window \in Floor..Cap /\ InRing(flight, client.next) /\ Follows(flight, Way(g, events, d))
      /\ Numbered(flight)
  BY RingNumbers DEF Flown
<1> HIDE DEF g, flight, d
<1>3. Follows(flight, Way(g, events \o <<e>>, d))
  BY <1>1, <1>2, WayEventAdded DEF g
<1>4. Follows(flight, Way(g, events', d))
  BY <1>2, <1>3
<1>q. QED
  BY <1>2, <1>4 DEF Flown, g, flight, d

LEMMA OwnFlies ==
  ASSUME PictureInv, EventsOK, TalkInv, FlightInv, AtWork, AtWork', NEW c \in Clients, client.gen = c,
         client' = client, Connect(c) \/ Ask(c) \/ Leave(c) \/ ClientStep(c)
  PROVE  Flown'
<1> DEFINE d == down[c]
           msg == Head(d)
           flight == client.flight
<1>1. /\ Proper(d) /\ Proper(events) /\ down = [b \in Clients |-> down[b]] /\ DOMAIN phase = Clients
      /\ Once(c)
  BY DEF TalkInv, TalkOK, OnceOK, EventsOK, Formed
<1>2. /\ client.window \in Floor..Cap /\ InRing(flight, client.next) /\ Follows(flight, Way(c, events, d))
      /\ Numbered(flight) /\ Flown
  BY RingNumbers DEF FlightInv, Flown
<1>3. c \notin shut
  BY DEF FlightInv, Open, AtWork
<1>4. phase'[c] \notin {"left", "broken"}
  BY DEF AtWork
<1>5. CASE Connect(c)
  BY <1>1, <1>5 DEF Connect, Once
<1>6. CASE Ask(c)
  <2>1. down'[c] = d
    BY <1>6 DEF Ask
  <2>2. \A m : m.type \in {"refresh", "resize"} => IdBack(c, <<c, m>>) = NoFrame
    BY DEF IdBack
  <2>3. ASSUME NEW m, m.type \in {"refresh", "resize"},
               events' = events \/ events' = events \o <<<<c, m>>>>
        PROVE  Flown'
    BY <1>2, <2>1, <2>2, <2>3, ToldFlies
  <2>4. \/ events' = events
        \/ \E m : /\ WellFormed(<<c, m>>) /\ m.type \in {"refresh", "resize"}
                  /\ events' = events \o <<<<c, m>>>>
    BY <1>6, AskEvents
  <2> DEFINE quiet == Plain("refresh")
  <2>5. quiet.type \in {"refresh", "resize"}
    BY DEF Plain
  <2> HIDE DEF quiet
  <2>6. CASE events' = events
    BY <2>3, <2>5, <2>6
  <2>7. CASE events' # events
    <3>1. PICK m : /\ WellFormed(<<c, m>>) /\ m.type \in {"refresh", "resize"}
                   /\ events' = events \o <<<<c, m>>>>
      BY <2>4, <2>7
    <3>q. QED
      BY <2>3, <3>1
  <2>q. QED
    BY <2>6, <2>7
<1>7. CASE Hello(c)
  <2>1. down'[c] = d /\ \E m : m.type = "hello" /\ events' = events \o <<<<c, m>>>>
    BY <1>7, HelloEvents DEF Hello
  <2>2. \E e : events' = events \o <<e>> /\ IdBack(c, e) = NoFrame
    <3>1. \A m : m.type = "hello" => IdBack(c, <<c, m>>) = NoFrame
      BY DEF IdBack
    <3>q. QED
      BY <2>1, <3>1
  <2>q. QED
    BY <1>2, <2>1, <2>2, ToldFlies
<1>8. ASSUME NEW how \in {"left", "broken"}, phase' = [phase EXCEPT ![c] = how] PROVE FALSE
  BY <1>1, <1>4, <1>8
<1>9. CASE Leave(c) \/ SeesEnd(c)
  BY <1>8, <1>9 DEF Leave, SeesEnd, Ends
<1>10. ASSUME d # <<>>, IdThere(msg) = NoFrame, events' = events, down' = [down EXCEPT ![c] = Tail(@)]
       PROVE  Flown'
  <2>1. down'[c] = Tail(d)
    BY <1>1, <1>10
  <2> HIDE DEF d, flight
  <2>2. Follows(flight, Way(c, events, Tail(d)))
    BY <1>1, <1>2, <1>10, WayThereTaken
  <2>q. QED
    BY <1>2, <1>10, <2>1, <2>2 DEF Flown, flight
<1>11. CASE Greeted(c)
  <2>1. CASE msg.type = "hello"
    <3>1. d # <<>> /\ events' = events /\ down' = [down EXCEPT ![c] = Tail(@)]
      BY <1>11, <2>1 DEF Greeted
    <3>2. IdThere(msg) = NoFrame
      BY <2>1 DEF IdThere
    <3>q. QED
      BY <1>10, <3>1, <3>2
  <2>2. CASE msg.type # "hello"
    BY <1>8, <1>11, <2>2 DEF Greeted, Ends
  <2>q. QED
    BY <2>1, <2>2
<1>12. CASE Receive(c)
  <2> DEFINE good == msg.type = "resized" \/ (msg.type = "update" /\ Fits(shown[c], msg))
  <2>1. CASE ~good
    BY <1>8, <1>12, <2>1 DEF Receive, Ends
  <2>2. CASE good
    <3>1. /\ d # <<>> /\ down' = [down EXCEPT ![c] = Tail(@)]
          /\ Tell(c, IF msg.type = "update" THEN <<[type |-> "ack", id |-> msg.id]>> ELSE <<>>)
      BY <1>12, <2>2 DEF Receive
    <3>2. CASE msg.type # "update"
      <4>1. events' = events
        BY <3>1, <3>2, TellNothing
      <4>2. IdThere(msg) = NoFrame
        BY <3>2 DEF IdThere
      <4>q. QED
        BY <1>10, <3>1, <4>1, <4>2
    <3>3. CASE msg.type = "update"
      <4> DEFINE ack == [type |-> "ack", id |-> msg.id]
                 e == <<c, ack>>
      <4>1. Tell(c, <<ack>>)
        BY <3>1, <3>3
      <4>2. IdBack(c, e) = IdThere(msg)
        BY <3>3 DEF IdBack, IdThere
      <4> HIDE DEF ack
      <4>3. events' = events \o <<e>>
        BY <1>3, <4>1, TellEvents
      <4>4. down'[c] = Tail(d)
        BY <1>1, <3>1
      <4> HIDE DEF e, d, flight
      <4>5. Follows(flight, Way(c, events \o <<e>>, Tail(d)))
        BY <1>1, <1>2, <3>1, <4>2, WayReceived DEF msg
      <4>q. QED
        BY <1>2, <4>3, <4>4, <4>5 DEF Flown, flight
    <3>q. QED
      BY <3>2, <3>3
  <2>q. QED
    BY <2>1, <2>2
<1>q. QED
  BY <1>5, <1>6, <1>7, <1>9, <1>11, <1>12 DEF ClientStep

LEMMA ClientFlight ==
  ASSUME PictureInv, EventsOK, TalkInv, FlightInv,
         NEW c \in Clients, Connect(c) \/ Ask(c) \/ Leave(c) \/ ClientStep(c)
  PROVE  FlightInv'
<1>1. /\ client' = client /\ shut' = shut /\ exit' = exit
      /\ \A d \in Clients : d # c => phase'[d] = phase[d] /\ down'[d] = down[d]
      /\ phase[c] \notin {"left", "broken"}
      /\ phase'[c] = "new" => phase[c] = "new"
      /\ phase[c] \in {"on", "left", "broken"} => phase'[c] \in {"on", "left", "broken"}
      /\ Receive(c) => phase[c] = "on"
      /\ \/ events' = events
         \/ \E m : /\ WellFormed(<<c, m>>) /\ events' = events \o <<<<c, m>>>>
                   /\ m.type = "new" => Connect(c)
                   /\ m.type = "ack" => Receive(c)
  BY ClientSteps DEF TalkInv
<1>2. \A d, t : Holds(events', d, t) => \/ Holds(events, d, t)
                                        \/ d = c /\ (t = "new" => Connect(c)) /\ (t = "ack" => Receive(c))
  <2>1. CASE events' = events
    BY <2>1
  <2>2. ASSUME NEW m, WellFormed(<<c, m>>), events' = events \o <<<<c, m>>>>,
               m.type = "new" => Connect(c), m.type = "ack" => Receive(c)
        PROVE  \A d, t : Holds(events', d, t) => \/ Holds(events, d, t)
                                                 \/ d = c /\ (t = "new" => Connect(c)) /\ (t = "ack" => Receive(c))
    <3>1. \A d, t : Holds(events', d, t) <=> Holds(events, d, t) \/ (d = c /\ t = m.type)
      BY <2>2, EventAdded DEF EventsOK
    <3>q. QED
      BY <2>2, <3>1
  <2>q. QED
    BY <1>1, <2>1, <2>2
<1>3. Idle'
  BY <1>1 DEF FlightInv, Idle
<1>4. Open'
  <2> SUFFICES ASSUME exit' = "none", NEW d \in Clients,
                      phase'[d] = "new" \/ Holds(events', d, "new") \/ client'.gen = d
               PROVE  d \notin shut'
    BY DEF Open
  <2>1. Connect(c) => phase[c] = "new"
    BY DEF Connect
  <2>2. phase[d] = "new" \/ Holds(events, d, "new") \/ client.gen = d
    BY <1>1, <1>2, <2>1
  <2>q. QED
    BY <1>1, <2>2 DEF FlightInv, Open
<1>5. Greeting'
  <2> SUFFICES ASSUME NEW d \in Clients, Holds(events', d, "ack") PROVE phase'[d] \in {"on", "left", "broken"}
    BY DEF Greeting
  <2>1. phase[d] \in {"on", "left", "broken"}
    BY <1>1, <1>2 DEF FlightInv, Greeting
  <2>q. QED
    BY <1>1, <2>1
<1>6. ASSUME AtWork' PROVE Flown'
  <2>1. client.gen \in Clients /\ client.ready /\ exit = "none"
    BY <1>1, <1>6 DEF AtWork, PictureInv, PeerOK
  <2>2. AtWork
    BY <1>1, <1>6, <2>1 DEF AtWork
  <2>3. CASE client.gen = c
    BY <1>1, <1>6, <2>2, <2>3, OwnFlies
  <2>4. CASE client.gen # c
    <3>1. \E e : (events' = events \/ events' = events \o <<e>>) /\ IdBack(client.gen, e) = NoFrame
      <4>1. \A m : IdBack(client.gen, <<c, m>>) = NoFrame
        BY <2>4 DEF IdBack
      <4>q. QED
        BY <1>1, <4>1
    <3>2. Flown /\ down'[client.gen] = down[client.gen]
      BY <1>1, <2>1, <2>2, <2>4 DEF FlightInv
    <3>q. QED
      BY <1>1, <2>1, <3>1, <3>2, ToldFlies
  <2>q. QED
    BY <2>3, <2>4
<1>q. QED
  BY <1>3, <1>4, <1>5, <1>6 DEF FlightInv

LEMMA FlightInit ==
  ASSUME Init
  PROVE  FlightInv
<1>1. /\ client = None /\ events = <<>> /\ shut = {}
  BY DEF Init
<1>2. ~None.ready /\ None.flight = <<>> /\ None.window = Floor /\ None.next = 1 /\ DOMAIN <<>> = {}
  BY DEF None
<1>3. \A c, t : ~Holds(events, c, t)
  BY <1>1, <1>2 DEF Holds
<1>q. QED
  BY <1>1, <1>2, <1>3 DEF FlightInv, Idle, Open, Greeting, AtWork

LEMMA FlightAlways == Spec => []FlightInv
<1>1. Init => FlightInv
  BY FlightInit
<1>2. PictureInv /\ EventsOK /\ TalkInv /\ FlightInv /\ [Next]_vars => FlightInv'
  <2> SUFFICES ASSUME PictureInv, EventsOK, TalkInv, FlightInv, [Next]_vars PROVE FlightInv'
    OBVIOUS
  <2>1. CASE Picturing
    BY <2>1, PicturingFlight
  <2>2. CASE Handle
    BY <2>2, AnsweringFlight, HelloFlight, DropsFlight DEF Handle, Answering
  <2>3. CASE DropDead \/ Expire \/ Quit
    BY <2>3, DropsFlight
  <2>4. ASSUME NEW c \in Clients, Connect(c) \/ Ask(c) \/ Leave(c) \/ ClientStep(c)
        PROVE  FlightInv'
    BY <2>4, ClientFlight
  <2>5. CASE UNCHANGED vars
    <3>1. UNCHANGED <<client, events, down, shut, phase, exit>>
      BY <2>5 DEF vars
    <3>2. Idle' /\ Open' /\ Greeting'
      BY <3>1 DEF FlightInv, Idle, Open, Greeting, Holds
    <3>3. AtWork' => Flown'
      BY <3>1 DEF FlightInv, AtWork, Flown
    <3>q. QED
      BY <3>2, <3>3 DEF FlightInv
  <2>q. QED
    BY <2>1, <2>2, <2>3, <2>4, <2>5, NextSteps
<1>q. QED
  BY <1>1, <1>2, PictureAlways, TalkAlways, PTL DEF Spec

(* Every frame in flight is on its way to the client, or what acknowledges  *)
(* it is on its way back, in the order the frames were sent: the window is  *)
(* never held by a frame that will not come, whatever is lost at a full     *)
(* queue and whichever client takes another's place (frames_in_flight,      *)
(* Client::send, the generations).                                          *)
THEOREM NoFrameStrays == Spec => []FlightAccounted
<1>1. FlightInv => FlightAccounted
  BY DEF FlightInv, FlightAccounted, AtWork, Flown, Live
<1>q. QED
  BY <1>1, FlightAlways, PTL

-----------------------------------------------------------------------------
(* What a client will show, message by message.                             *)
(* What holds of 0 and goes on from each number to the next holds of all.   *)
LEMMA FirstMissing ==
  ASSUME NEW S, S \subseteq Nat, 0 \in S, \A n \in S : n + 1 \in S
  PROVE  S = Nat
<1> DEFINE R == OpToRel(<, Nat)
<1> SUFFICES ASSUME Nat \ S # {} PROVE FALSE
  OBVIOUS
<1>1. IsWellFoundedOn(R, Nat)
  BY NatLessThanWellFounded
<1>2. \A x, y \in Nat : x < y => <<x, y>> \in R
  BY DEF OpToRel
<1> HIDE DEF R
<1>3. PICK n \in Nat \ S : \A m \in Nat \ S : ~(<<m, n>> \in R)
  <2>1. Nat \ S \subseteq Nat
    OBVIOUS
  <2>q. QED
    BY <1>1, <2>1, WFMin
<1>4. n # 0 /\ n - 1 \in Nat /\ n - 1 < n
  BY <1>3
<1>5. n - 1 \in S
  BY <1>2, <1>3, <1>4
<1>6. (n - 1) + 1 = n
  BY <1>4
<1>q. QED
  BY <1>3, <1>5, <1>6

(* A picture after each message: how the recursion comes to be one.         *)
PictureOf(p, f, q, n) == p = [i \in 0..n |-> IF i = 0 THEN f ELSE Read(p[i - 1], q[i])]

LEMMA PicturesExist ==
  ASSUME NEW f, NEW q, NEW n \in Nat
  PROVE  \E p : PictureOf(p, f, q, n)
<1> DEFINE S == {m \in Nat : \E p : PictureOf(p, f, q, m)}
<1>1. 0 \in S
  <2> DEFINE p == [i \in 0..0 |-> f]
  <2>1. p = [i \in 0..0 |-> IF i = 0 THEN f ELSE Read(p[i - 1], q[i])]
    OBVIOUS
  <2>q. QED
    BY <2>1 DEF PictureOf
<1>2. ASSUME NEW m \in S PROVE m + 1 \in S
  <2>1. PICK p : PictureOf(p, f, q, m)
    OBVIOUS
  <2>2. DOMAIN p = 0..m /\ m \in Nat /\ p[0] = f /\ \A i \in 1..m : p[i] = Read(p[i - 1], q[i])
    BY <2>1 DEF PictureOf
  <2> DEFINE r == [i \in 0..(m + 1) |-> IF i = m + 1 THEN Read(p[m], q[m + 1]) ELSE p[i]]
  <2>3. DOMAIN r = 0..(m + 1) /\ r[m + 1] = Read(p[m], q[m + 1]) /\ \A i \in 0..m : r[i] = p[i]
    BY <2>2
  <2>4. ASSUME NEW i \in 0..(m + 1) PROVE r[i] = IF i = 0 THEN f ELSE Read(r[i - 1], q[i])
    <3> HIDE DEF r
    <3>1. CASE i = 0
      BY <2>2, <2>3, <3>1
    <3>2. CASE i = m + 1
      <4>1. i # 0 /\ i - 1 = m /\ m \in 0..m
        BY <2>2, <3>2
      <4>2. r[i - 1] = p[m] /\ r[i] = Read(p[m], q[i])
        BY <2>3, <3>2, <4>1
      <4>q. QED
        BY <4>1, <4>2
    <3>3. CASE i \in 1..m
      <4>1. i # 0 /\ i - 1 \in 0..m /\ i \in 0..m
        BY <2>2, <3>3
      <4>2. r[i] = p[i] /\ r[i - 1] = p[i - 1] /\ p[i] = Read(p[i - 1], q[i])
        BY <2>2, <2>3, <3>3, <4>1
      <4>q. QED
        BY <4>1, <4>2
    <3>q. QED
      BY <2>2, <3>1, <3>2, <3>3
  <2>5. r = [i \in 0..(m + 1) |-> IF i = 0 THEN f ELSE Read(r[i - 1], q[i])]
    <3>1. r = [i \in 0..(m + 1) |-> r[i]]
      OBVIOUS
    <3> HIDE DEF r
    <3>q. QED
      BY <2>4, <3>1
  <2>6. PictureOf(r, f, q, m + 1)
    BY <2>5 DEF PictureOf
  <2> HIDE DEF r
  <2>q. QED
    BY <2>2, <2>6
<1> HIDE DEF S
<1>3. S = Nat
  <2>1. S \subseteq Nat
    BY DEF S
  <2>q. QED
    BY <1>1, <1>2, <2>1, FirstMissing
<1>q. QED
  BY <1>3 DEF S

LEMMA PicturesAre ==
  ASSUME NEW f, NEW q, Proper(q)
  PROVE  /\ DOMAIN Pictures(f, q) = 0..Len(q)
         /\ Pictures(f, q)[0] = f
         /\ \A i \in 1..Len(q) : Pictures(f, q)[i] = Read(Pictures(f, q)[i - 1], q[i])
<1> DEFINE p == CHOOSE g : g = [i \in 0..Len(q) |-> IF i = 0 THEN f ELSE Read(g[i - 1], q[i])]
<1>1. Pictures(f, q) = p
  BY DEF Pictures
<1>2. Len(q) \in Nat
  BY DEF Proper
<1>3. \E g : g = [i \in 0..Len(q) |-> IF i = 0 THEN f ELSE Read(g[i - 1], q[i])]
  <2>1. PICK g : PictureOf(g, f, q, Len(q))
    BY <1>2, PicturesExist
  <2>2. g = [i \in 0..Len(q) |-> IF i = 0 THEN f ELSE Read(g[i - 1], q[i])]
    BY <2>1 DEF PictureOf
  <2>q. QED
    BY <2>2
<1>4. p = [i \in 0..Len(q) |-> IF i = 0 THEN f ELSE Read(p[i - 1], q[i])]
  BY <1>3
<1> HIDE DEF p
<1>q. QED
  BY <1>1, <1>2, <1>4

(* The same messages make the same pictures.                                *)
Unrolls(p, q, n) == \A i \in 1..n : p[i] = Read(p[i - 1], q[i])

LEMMA SamePictures ==
  ASSUME NEW p, NEW r, NEW n \in Nat, NEW q, p[0] = r[0], Unrolls(p, q, n), Unrolls(r, q, n)
  PROVE  p[n] = r[n]
<1> DEFINE S == {m \in Nat : m <= n => p[m] = r[m]}
<1>1. 0 \in S
  OBVIOUS
<1>2. ASSUME NEW m \in S PROVE m + 1 \in S
  <2>1. ASSUME m + 1 <= n PROVE p[m + 1] = r[m + 1]
    <3>1. m + 1 \in 1..n /\ (m + 1) - 1 = m /\ m <= n
      BY <2>1
    <3>2. p[m + 1] = Read(p[m], q[m + 1]) /\ r[m + 1] = Read(r[m], q[m + 1])
      BY <3>1 DEF Unrolls
    <3>q. QED
      BY <3>1, <3>2
  <2>q. QED
    BY <2>1
<1>3. S = Nat
  <2>1. S \subseteq Nat
    OBVIOUS
  <2> HIDE DEF S
  <2>q. QED
    BY <1>1, <1>2, <2>1, FirstMissing
<1>q. QED
  BY <1>3

LEMMA ShowsOneMore ==
  ASSUME NEW f, NEW q, Proper(q), NEW m
  PROVE  WillShow(f, q \o <<m>>) = Read(WillShow(f, q), m)
<1> DEFINE n == Len(q)
           longer == q \o <<m>>
           p == Pictures(f, q)
           r == Pictures(f, longer)
<1>1. /\ Proper(longer) /\ Len(longer) = n + 1 /\ n \in Nat
      /\ \A i \in 1..n : longer[i] = q[i]
      /\ longer[n + 1] = m
  BY ProperOneMore
<1> HIDE DEF longer
<1>2. p[0] = f /\ \A i \in 1..n : p[i] = Read(p[i - 1], q[i])
  BY PicturesAre
<1>3. r[0] = f /\ \A i \in 1..(n + 1) : r[i] = Read(r[i - 1], longer[i])
  BY <1>1, PicturesAre
<1>4. WillShow(f, q) = p[n] /\ WillShow(f, longer) = r[n + 1]
  BY <1>1 DEF WillShow
<1> HIDE DEF p, r, n
<1>5. p[0] = r[0] /\ Unrolls(p, q, n) /\ Unrolls(r, q, n)
  BY <1>1, <1>2, <1>3 DEF Unrolls
<1>6. p[n] = r[n]
  BY <1>1, <1>5, SamePictures
<1>7. r[n + 1] = Read(r[n], m)
  <2>1. n + 1 \in 1..(n + 1) /\ (n + 1) - 1 = n
    BY <1>1
  <2>q. QED
    BY <1>1, <1>3, <2>1
<1>q. QED
  BY <1>4, <1>6, <1>7 DEF longer

LEMMA ShowsAfterOne ==
  ASSUME NEW f, NEW q, Proper(q), q # <<>>
  PROVE  WillShow(Read(f, Head(q)), Tail(q)) = WillShow(f, q)
<1> DEFINE rest == Tail(q)
           n == Len(rest)
           g == Read(f, Head(q))
           p == Pictures(g, rest)
           r == Pictures(f, q)
           s == [i \in 0..n |-> r[i + 1]]
<1>1. /\ Proper(rest) /\ Len(q) = n + 1 /\ n \in Nat /\ Head(q) = q[1]
      /\ \A i \in 1..n : rest[i] = q[i + 1]
  BY ProperTail
<1> HIDE DEF rest
<1>2. p[0] = g /\ \A i \in 1..n : p[i] = Read(p[i - 1], rest[i])
  <2> HIDE DEF g
  <2>q. QED
    BY <1>1, PicturesAre
<1>3. r[0] = f /\ \A i \in 1..(n + 1) : r[i] = Read(r[i - 1], q[i])
  BY <1>1, PicturesAre
<1>4. WillShow(g, rest) = p[n] /\ WillShow(f, q) = r[n + 1]
  BY <1>1 DEF WillShow
<1>5. g = Read(f, q[1])
  BY <1>1
<1> HIDE DEF p, r, n, g
<1>6. p[0] = s[0]
  BY <1>1, <1>2, <1>3, <1>5
<1>7. \A i \in 1..n : s[i] = Read(s[i - 1], rest[i])
  <2> SUFFICES ASSUME NEW i \in 1..n
               PROVE  s[i] = Read(s[i - 1], rest[i])
    OBVIOUS
  <2>1. i + 1 \in 1..(n + 1) /\ rest[i] = q[i + 1] /\ (i + 1) - 1 = i
    BY <1>1
  <2>2. r[i + 1] = Read(r[i], q[i + 1])
    BY <1>3, <2>1
  <2>3. s[i] = r[i + 1] /\ s[i - 1] = r[i]
    BY <1>1
  <2>q. QED
    BY <2>1, <2>2, <2>3
<1>8. s[n] = r[n + 1]
  BY <1>1
<1> HIDE DEF s
<1>9. Unrolls(p, rest, n) /\ Unrolls(s, rest, n)
  BY <1>2, <1>7 DEF Unrolls
<1>10. p[n] = s[n]
  BY <1>1, <1>6, <1>9, SamePictures
<1>q. QED
  BY <1>4, <1>8, <1>10 DEF g, rest

-----------------------------------------------------------------------------
(* The reference and what a client will show. The client may have what the  *)
(* reference has, or anything where that is invalid.                        *)
Matches(f, base, n) == DOMAIN f = Rows(n) /\ \A r \in Rows(n) : base[r] \in {f[r], Invalid}
Painted(rects) == [r \in Rows(served) |-> IF r \in rects THEN pix[r] ELSE ref[r]]

(* The rows a frame sets and moves make what is captured of what matched    *)
(* the reference before: a copied row was looked for in the reference.      *)
Drawn(f, copies, tiles) ==
  [r \in Rows(served) |-> IF r \in DOMAIN tiles THEN pix[r]
                          ELSE IF r \in DOMAIN copies THEN f[copies[r]] ELSE f[r]]

LEMMA FrameMatches ==
  ASSUME DOMAIN ref = Rows(served), NEW f, Matches(f, ref, served), NEW rects, rects \subseteq Rows(served),
         NEW copies \in {<<>>} \cup Scrolls(rects)
  PROVE  Matches(Drawn(f, copies, Tiles(rects, copies)), Painted(rects), served)
<1> DEFINE tiles == Tiles(rects, copies)
<1>1. DOMAIN copies \subseteq rects /\ \A r \in DOMAIN copies : copies[r] \in rects /\ ref[copies[r]] = pix[r]
  <2>1. CASE copies = <<>>
    <3>1. DOMAIN copies = {}
      BY <2>1
    <3>q. QED
      BY <3>1
  <2>2. CASE copies # <<>>
    <3>1. PICK d : copies = [r \in {r \in rects : r - d \in rects /\ ref[r - d] = pix[r]} |-> r - d]
      BY <2>2 DEF Scrolls
    <3>q. QED
      BY <3>1
  <2>q. QED
    BY <2>1, <2>2
<1>2. DOMAIN tiles = {r \in rects : Moved(ref, copies)[r] # pix[r]}
  BY DEF Tiles
<1>3. \A r \in rects : Moved(ref, copies)[r] = IF r \in DOMAIN copies THEN ref[copies[r]] ELSE ref[r]
  BY DEF Moved
<1> HIDE DEF tiles
<1>4. ASSUME NEW r \in Rows(served) PROVE Painted(rects)[r] \in {Drawn(f, copies, tiles)[r], Invalid}
  <2>1. Painted(rects)[r] = IF r \in rects THEN pix[r] ELSE ref[r]
    BY DEF Painted
  <2>2. Drawn(f, copies, tiles)[r] = IF r \in DOMAIN tiles THEN pix[r]
                                     ELSE IF r \in DOMAIN copies THEN f[copies[r]] ELSE f[r]
    BY DEF Drawn
  <2>3. \A s \in Rows(served) : ref[s] \in {f[s], Invalid}
    BY DEF Matches
  <2>4. CASE r \in DOMAIN tiles
    BY <1>2, <2>1, <2>2, <2>4
  <2>5. CASE r \notin DOMAIN tiles /\ r \in DOMAIN copies
    <3>1. copies[r] \in Rows(served) /\ ref[copies[r]] = pix[r] /\ r \in rects
      BY <1>1, <2>5
    <3>q. QED
      BY <2>1, <2>2, <2>3, <2>5, <3>1
  <2>6. CASE r \notin DOMAIN tiles /\ r \notin DOMAIN copies
    <3>1. r \in rects => ref[r] = pix[r]
      BY <1>2, <1>3, <2>6
    <3>q. QED
      BY <2>1, <2>2, <2>3, <2>6, <3>1
  <2>q. QED
    BY <2>4, <2>5, <2>6
<1>5. DOMAIN Drawn(f, copies, tiles) = Rows(served)
  BY DEF Drawn
<1>q. QED
  BY <1>4, <1>5 DEF Matches, tiles

(* However it is split, the client draws the frame.                         *)
LEMMA FrameDraws ==
  ASSUME NEW f, DOMAIN f = Rows(served), NEW copies, NEW tiles,
         \A r \in DOMAIN tiles : tiles[r] = pix[r]
  PROVE  /\ DOMAIN copies = {} /\ DOMAIN tiles = {} /\ f = [r \in Rows(served) |-> f[r]]
              => f = Drawn(f, copies, tiles)
         /\ \A a : Read(f, UpdateMsg(a, copies, tiles)) = Drawn(f, copies, tiles)
         /\ \A a, b, lower :
              Read(Read(f, UpdateMsg(a, copies, [r \in DOMAIN tiles \cap lower |-> tiles[r]])),
                   UpdateMsg(b, <<>>, [r \in DOMAIN tiles \ lower |-> tiles[r]])) = Drawn(f, copies, tiles)
<1>1. \A g, a, c, t : DOMAIN g = Rows(served) =>
        Read(g, UpdateMsg(a, c, t)) =
          [r \in Rows(served) |-> IF r \in DOMAIN t THEN t[r] ELSE IF r \in DOMAIN c THEN g[c[r]] ELSE g[r]]
  <2> SUFFICES ASSUME NEW g, NEW a, NEW c, NEW t, DOMAIN g = Rows(served)
               PROVE  Read(g, UpdateMsg(a, c, t)) =
                        [r \in Rows(served) |-> IF r \in DOMAIN t THEN t[r]
                                                ELSE IF r \in DOMAIN c THEN g[c[r]] ELSE g[r]]
    OBVIOUS
  <2> DEFINE m == UpdateMsg(a, c, t)
  <2>1. m.type = "update" /\ m.copies = c /\ m.tiles = t
    BY DEF UpdateMsg
  <2> HIDE DEF m
  <2>2. Read(g, m) = [r \in DOMAIN g |-> IF r \in DOMAIN t THEN t[r] ELSE Moved(g, c)[r]]
    BY <2>1 DEF Read, Applied
  <2>3. \A r \in DOMAIN g : Moved(g, c)[r] = IF r \in DOMAIN c THEN g[c[r]] ELSE g[r]
    BY DEF Moved
  <2>q. QED
    BY <2>2, <2>3 DEF m
<1>2. DOMAIN copies = {} /\ DOMAIN tiles = {} /\ f = [r \in Rows(served) |-> f[r]] => f = Drawn(f, copies, tiles)
  BY DEF Drawn
<1>3. ASSUME NEW a PROVE Read(f, UpdateMsg(a, copies, tiles)) = Drawn(f, copies, tiles)
  BY <1>1 DEF Drawn
<1>4. ASSUME NEW a, NEW b, NEW lower
      PROVE  Read(Read(f, UpdateMsg(a, copies, [r \in DOMAIN tiles \cap lower |-> tiles[r]])),
                  UpdateMsg(b, <<>>, [r \in DOMAIN tiles \ lower |-> tiles[r]])) = Drawn(f, copies, tiles)
  <2> DEFINE low == [r \in DOMAIN tiles \cap lower |-> tiles[r]]
             high == [r \in DOMAIN tiles \ lower |-> tiles[r]]
             none == <<>>
             g == Read(f, UpdateMsg(a, copies, low))
             h == Read(g, UpdateMsg(b, none, high))
  <2>1. DOMAIN low = DOMAIN tiles \cap lower /\ \A r \in DOMAIN low : low[r] = tiles[r]
    OBVIOUS
  <2>2. DOMAIN high = DOMAIN tiles \ lower /\ \A r \in DOMAIN high : high[r] = tiles[r]
    OBVIOUS
  <2>3. DOMAIN none = {}
    OBVIOUS
  <2> HIDE DEF low, high, none
  <2>4. g = [r \in Rows(served) |-> IF r \in DOMAIN low THEN low[r]
                                    ELSE IF r \in DOMAIN copies THEN f[copies[r]] ELSE f[r]]
    BY <1>1
  <2>5. DOMAIN g = Rows(served)
    BY <2>4
  <2>6. h = [r \in Rows(served) |-> IF r \in DOMAIN high THEN high[r]
                                    ELSE IF r \in DOMAIN none THEN g[none[r]] ELSE g[r]]
    <3> HIDE DEF g
    <3>q. QED
      BY <1>1, <2>5
  <2> HIDE DEF g, h
  <2>7. h = [r \in Rows(served) |-> IF r \in DOMAIN high THEN high[r] ELSE g[r]]
    BY <2>3, <2>6
  <2>8. ASSUME NEW r \in Rows(served) PROVE h[r] = Drawn(f, copies, tiles)[r]
    <3>1. Drawn(f, copies, tiles)[r] = IF r \in DOMAIN tiles THEN pix[r]
                                       ELSE IF r \in DOMAIN copies THEN f[copies[r]] ELSE f[r]
      BY DEF Drawn
    <3>2. h[r] = IF r \in DOMAIN high THEN high[r] ELSE g[r]
      BY <2>7
    <3>3. g[r] = IF r \in DOMAIN low THEN low[r] ELSE IF r \in DOMAIN copies THEN f[copies[r]] ELSE f[r]
      BY <2>4
    <3>q. QED
      BY <2>1, <2>2, <3>1, <3>2, <3>3
  <2>9. h = [r \in Rows(served) |-> h[r]] /\ Drawn(f, copies, tiles) = [r \in Rows(served) |-> Drawn(f, copies, tiles)[r]]
    BY <2>7 DEF Drawn
  <2>10. h = Drawn(f, copies, tiles)
    BY <2>8, <2>9
  <2>q. QED
    BY <2>10 DEF g, h, low, high, none
<1>q. QED
  BY <1>2, <1>3, <1>4

(* What a frame does to the queue of a client that is not lost by it: it    *)
(* says nothing when there is nothing to say, and else all of the frame, in *)
(* one part or in two.                                                      *)
Tells(copies, tiles) ==
  LET d == down[client.gen]
  IN \/ DOMAIN copies = {} /\ DOMAIN tiles = {} /\ down' = down
     \/ \E a : down'[client.gen] = d \o <<UpdateMsg(a, copies, tiles)>>
     \/ \E a, b, lower :
          down'[client.gen] = (d \o <<UpdateMsg(a, copies, [r \in DOMAIN tiles \cap lower |-> tiles[r]])>>)
                                \o <<UpdateMsg(b, <<>>, [r \in DOMAIN tiles \ lower |-> tiles[r]])>>

LEMMA BothTold ==
  ASSUME NEW d, NEW q, Proper(d), Proper(q), Len(q) = 2
  PROVE  d \o SubSeq(q, 1, 2) = (d \o <<q[1]>>) \o <<q[2]>>
<1> DEFINE two == 2
<1>1. two \in 0..Len(q) /\ two = 2
  OBVIOUS
<1> HIDE DEF two
<1>2. two = 2 => d \o SubSeq(q, 1, two) = (d \o <<q[1]>>) \o <<q[2]>>
  BY <1>1, OneByOne
<1>q. QED
  BY <1>1, <1>2

LEMMA PartsTell ==
  ASSUME TalkOK, client.gen \in Clients, NEW copies, NEW tiles, NEW parts \in Parts(copies, tiles), NEW msgs,
         msgs = [i \in DOMAIN parts |-> UpdateMsg(FrameId(i), parts[i].copies, parts[i].tiles)],
         down' = [down EXCEPT ![client.gen] = @ \o SubSeq(msgs, 1, Len(msgs))]
  PROVE  Tells(copies, tiles)
<1> DEFINE d == down[client.gen]
<1>1. Proper(d) /\ client.gen \in DOMAIN down
  BY DEF TalkOK
<1>2. down'[client.gen] = d \o SubSeq(msgs, 1, Len(msgs))
  BY <1>1
<1>3. CASE parts = <<[copies |-> copies, tiles |-> tiles]>>
  <2> DEFINE p == [copies |-> copies, tiles |-> tiles]
             m == UpdateMsg(FrameId(1), copies, tiles)
  <2>1. DOMAIN parts = {1} /\ parts[1].copies = copies /\ parts[1].tiles = tiles
    BY <1>3
  <2>2. msgs = [i \in {1} |-> m]
    BY <2>1
  <2> HIDE DEF m
  <2>3. msgs = <<m>>
    BY <2>2
  <2>4. Proper(msgs) /\ Len(msgs) = 1 /\ msgs[1] = m
    BY <2>3, ProperShort
  <2>5. d \o SubSeq(msgs, 1, Len(msgs)) = d \o <<m>>
    <3> DEFINE one == 1
    <3>1. one \in 0..Len(msgs) /\ one = 1 /\ Len(msgs) = one
      BY <2>4
    <3> HIDE DEF d, one
    <3>2. d \o SubSeq(msgs, 1, one) = d \o <<msgs[1]>>
      BY ZenonT(60), <1>1, <2>4, <3>1, OneByOne
    <3>q. QED
      BY <2>4, <3>1, <3>2
  <2>6. down'[client.gen] = d \o <<m>>
    BY <1>2, <2>5
  <2>q. QED
    BY <2>6 DEF Tells, m
<1>4. CASE parts # <<[copies |-> copies, tiles |-> tiles]>>
  <2>1. PICK k \in DOMAIN tiles :
          parts = <<[copies |-> copies, tiles |-> [r \in {r \in DOMAIN tiles : r < k} |-> tiles[r]]],
                    [copies |-> <<>>, tiles |-> [r \in DOMAIN tiles \ {r \in DOMAIN tiles : r < k} |-> tiles[r]]]>>
    BY <1>4 DEF Parts
  <2> DEFINE lower == {r \in DOMAIN tiles : r < k}
             low == [r \in DOMAIN tiles \cap lower |-> tiles[r]]
             high == [r \in DOMAIN tiles \ lower |-> tiles[r]]
             m == UpdateMsg(FrameId(1), copies, low)
             n == UpdateMsg(FrameId(2), <<>>, high)
  <2>2. low = [r \in {r \in DOMAIN tiles : r < k} |-> tiles[r]]
    <3>1. DOMAIN tiles \cap lower = {r \in DOMAIN tiles : r < k}
      OBVIOUS
    <3>q. QED
      BY <3>1
  <2>3. parts = <<[copies |-> copies, tiles |-> low], [copies |-> <<>>, tiles |-> high]>>
    BY <2>1, <2>2
  <2> HIDE DEF lower, low, high
  <2>4. /\ DOMAIN parts = {1, 2} /\ parts[1].copies = copies /\ parts[1].tiles = low
        /\ parts[2].copies = <<>> /\ parts[2].tiles = high
    BY <2>3
  <2>5. DOMAIN msgs = 1..2 /\ msgs[1] = m /\ msgs[2] = n
    BY <2>4
  <2> HIDE DEF m, n
  <2>6. msgs = <<m, n>>
    <3>1. msgs = [i \in 1..2 |-> msgs[i]]
      BY <2>5
    <3>q. QED
      BY <2>5, <3>1
  <2>7. Proper(msgs) /\ Len(msgs) = 2 /\ 2 \in 0..Len(msgs)
    <3>1. <<m, n>> \in Seq({m, n}) /\ Len(<<m, n>>) = 2
      OBVIOUS
    <3>2. msgs \in Seq({m, n}) /\ Len(msgs) = 2 /\ 2 \in 0..2
      BY <2>6, <3>1
    <3>q. QED
      BY <3>2, ProperIs
  <2>8. d \o SubSeq(msgs, 1, Len(msgs)) = (d \o <<m>>) \o <<n>>
    <3> HIDE DEF d
    <3>1. d \o SubSeq(msgs, 1, 2) = (d \o <<msgs[1]>>) \o <<msgs[2]>>
      BY <1>1, <2>7, BothTold
    <3>q. QED
      BY <2>5, <2>7, <3>1
  <2>9. down'[client.gen] = (d \o <<m>>) \o <<n>>
    BY <1>2, <2>8
  <2>10. \E a, b, l :
           down'[client.gen] = (d \o <<UpdateMsg(a, copies, [r \in DOMAIN tiles \cap l |-> tiles[r]])>>)
                                 \o <<UpdateMsg(b, <<>>, [r \in DOMAIN tiles \ l |-> tiles[r]])>>
    <3>1. WITNESS FrameId(1), FrameId(2), lower
    <3>q. QED
      BY <2>9 DEF m, n, low, high
  <2>q. QED
    BY <2>10 DEF Tells
<1>q. QED
  BY <1>3, <1>4

LEMMA FrameTold ==
  ASSUME PeerOK, TalkOK, SendFrame
  PROVE  /\ client.ready /\ client.gen \in Clients
         /\ \E rects, copies :
              /\ rects \subseteq Rows(served) /\ copies \in {<<>>} \cup Scrolls(rects)
              /\ ref' = Painted(rects)
              /\ client'.dead \/ Tells(copies, Tiles(rects, copies))
<1> DEFINE cl == [client EXCEPT !.full = FALSE]
           Copies(rects) == IF client.full THEN {<<>>} ELSE Scrolls(rects)
           Msgs(parts) == [i \in DOMAIN parts |-> UpdateMsg(FrameId(i), parts[i].copies, parts[i].tiles)]
<1>1. PICK rects \in FrameRows :
        /\ ref' = [r \in Rows(served) |-> IF r \in rects THEN pix[r] ELSE ref[r]]
        /\ \E copies \in Copies(rects) :
             IF DOMAIN copies = {} /\ DOMAIN Tiles(rects, copies) = {}
             THEN client' = cl /\ UNCHANGED down
             ELSE \E parts \in Parts(copies, Tiles(rects, copies)) :
                    \E k \in Accepted(cl, Msgs(parts)) :
                      Send([cl EXCEPT !.flight = @ \o [i \in 1..k |-> FrameId(i)], !.next = FrameId(k + 1)],
                           Msgs(parts), k)
  BY DEF SendFrame, FrameId
<1>2. PICK copies \in Copies(rects) :
        IF DOMAIN copies = {} /\ DOMAIN Tiles(rects, copies) = {}
        THEN client' = cl /\ UNCHANGED down
        ELSE \E parts \in Parts(copies, Tiles(rects, copies)) :
               \E k \in Accepted(cl, Msgs(parts)) :
                 Send([cl EXCEPT !.flight = @ \o [i \in 1..k |-> FrameId(i)], !.next = FrameId(k + 1)],
                      Msgs(parts), k)
  BY <1>1
<1>3. /\ DOMAIN cl = PeerFields /\ cl.gen = client.gen /\ cl.dead = FALSE
      /\ client.ready /\ client.gen \in Clients
  BY DEF PeerOK, PeerFields, SendFrame, Due
<1> HIDE DEF cl
<1>4. client'.dead \/ Tells(copies, Tiles(rects, copies))
  <2>1. CASE DOMAIN copies = {} /\ DOMAIN Tiles(rects, copies) = {}
    <3>1. down' = down
      BY <1>2, <2>1
    <3>q. QED
      BY <2>1, <3>1 DEF Tells
  <2>2. CASE ~(DOMAIN copies = {} /\ DOMAIN Tiles(rects, copies) = {})
    <3>0. PICK parts \in Parts(copies, Tiles(rects, copies)) :
            \E k \in Accepted(cl, Msgs(parts)) :
              Send([cl EXCEPT !.flight = @ \o [i \in 1..k |-> FrameId(i)], !.next = FrameId(k + 1)], Msgs(parts), k)
      BY <1>2, <2>2
    <3>1. PICK k \in Accepted(cl, Msgs(parts)) :
            Send([cl EXCEPT !.flight = @ \o [i \in 1..k |-> FrameId(i)], !.next = FrameId(k + 1)], Msgs(parts), k)
      BY <3>0
    <3> DEFINE msgs == Msgs(parts)
               cm == [cl EXCEPT !.flight = @ \o [i \in 1..k |-> FrameId(i)], !.next = FrameId(k + 1)]
    <3>2. msgs = [i \in DOMAIN parts |-> UpdateMsg(FrameId(i), parts[i].copies, parts[i].tiles)]
      OBVIOUS
    <3>3. Send(cm, msgs, k) /\ k \in Accepted(cl, msgs)
      BY <3>1
    <3> HIDE DEF msgs
    <3>4. DOMAIN cm = PeerFields /\ cm.gen = client.gen
      BY <1>3 DEF PeerFields
    <3> HIDE DEF cm
    <3>5. /\ down' = [down EXCEPT ![client.gen] = @ \o SubSeq(msgs, 1, k)]
          /\ client' = [cm EXCEPT !.dead = @ \/ k < Len(msgs)]
      BY <3>3, <3>4 DEF Send
    <3>6. k < Len(msgs) => client'.dead
      BY <3>4, <3>5 DEF PeerFields
    <3>7. k = Len(msgs) \/ k < Len(msgs)
      BY <1>3, <3>3 DEF Accepted
    <3>8. k = Len(msgs) => Tells(copies, Tiles(rects, copies))
      BY <1>3, <3>2, <3>5, PartsTell
    <3>q. QED
      BY <3>6, <3>7, <3>8
  <2>q. QED
    BY <2>1, <2>2
<1>5. rects \subseteq Rows(served)
  BY FrameRowsServed
<1>6. copies \in {<<>>} \cup Scrolls(rects)
  OBVIOUS
<1>7. ref' = Painted(rects)
  BY <1>1 DEF Painted
<1>q. QED
  BY <1>3, <1>4, <1>5, <1>6, <1>7

(* What the client there is comes to show is what the reference says.       *)
Shows == WillShow(shown[client.gen], down[client.gen])
AtHand == AtWork /\ ~client.dead
ShownInv == DOMAIN ref = Rows(served) /\ (AtHand => Matches(Shows, ref, served))

LEMMA SendFrameShown ==
  ASSUME PeerOK, TalkOK, SendFrame, DOMAIN ref = Rows(served), Matches(Shows, ref, served), ~client'.dead
  PROVE  Matches(Shows', ref', served')
<1> DEFINE g == client.gen
           f == Shows
           d == down[g]
<1>1. /\ served' = served /\ shown' = shown
  BY DEF SendFrame
<1>2. client'.gen = g
  <2>1. \E msgs, k : FrameGoes(msgs, k)
    BY FrameSent
  <2>q. QED
    BY <2>1 DEF FrameGoes
<1>3. PICK rects, copies :
        /\ rects \subseteq Rows(served) /\ copies \in {<<>>} \cup Scrolls(rects)
        /\ ref' = Painted(rects) /\ g \in Clients
        /\ Tells(copies, Tiles(rects, copies))
  BY FrameTold
<1> DEFINE tiles == Tiles(rects, copies)
<1>4. Matches(Drawn(f, copies, tiles), ref', served)
  <2> HIDE DEF f
  <2>q. QED
    BY <1>3, FrameMatches DEF f
<1>5. \A r \in DOMAIN tiles : tiles[r] = pix[r]
  BY DEF Tiles
<1>6. Proper(d) /\ DOMAIN f = Rows(served) /\ Shows' = WillShow(shown[g], down'[g])
  BY <1>1, <1>2, <1>3 DEF TalkOK, Matches, Shows
<1>7. f = WillShow(shown[g], d)
  BY DEF Shows
<1> HIDE DEF f, tiles, d
<1>8. /\ \A a : Read(f, UpdateMsg(a, copies, tiles)) = Drawn(f, copies, tiles)
      /\ \A a, b, lower :
           Read(Read(f, UpdateMsg(a, copies, [r \in DOMAIN tiles \cap lower |-> tiles[r]])),
                UpdateMsg(b, <<>>, [r \in DOMAIN tiles \ lower |-> tiles[r]])) = Drawn(f, copies, tiles)
  BY <1>5, <1>6, FrameDraws
<1>9. CASE DOMAIN copies = {} /\ DOMAIN tiles = {} /\ down' = down
  <2>1. Shows' = f
    BY <1>6, <1>7, <1>9 DEF d
  <2>2. \A r \in Rows(served) : Drawn(f, copies, tiles)[r] = f[r]
    BY <1>9 DEF Drawn
  <2>q. QED
    BY <1>1, <1>4, <1>6, <2>1, <2>2 DEF Matches
<1>10. ASSUME NEW a, down'[g] = d \o <<UpdateMsg(a, copies, tiles)>> PROVE Matches(Shows', ref', served')
  <2> DEFINE m == UpdateMsg(a, copies, tiles)
  <2>1. Read(f, m) = Drawn(f, copies, tiles)
    BY <1>8
  <2> HIDE DEF m
  <2>2. WillShow(shown[g], d \o <<m>>) = Read(f, m)
    BY <1>6, <1>7, ShowsOneMore
  <2>q. QED
    BY <1>1, <1>4, <1>6, <1>10, <2>1, <2>2 DEF m
<1>11. ASSUME NEW a, NEW b, NEW lower,
              down'[g] = (d \o <<UpdateMsg(a, copies, [r \in DOMAIN tiles \cap lower |-> tiles[r]])>>)
                           \o <<UpdateMsg(b, <<>>, [r \in DOMAIN tiles \ lower |-> tiles[r]])>>
       PROVE  Matches(Shows', ref', served')
  <2> DEFINE m == UpdateMsg(a, copies, [r \in DOMAIN tiles \cap lower |-> tiles[r]])
             n == UpdateMsg(b, <<>>, [r \in DOMAIN tiles \ lower |-> tiles[r]])
             e == d \o <<m>>
  <2>1. Read(Read(f, m), n) = Drawn(f, copies, tiles)
    BY <1>8
  <2> HIDE DEF m, n
  <2>2. Proper(e)
    BY <1>6, ProperOneMore
  <2>3. WillShow(shown[g], e) = Read(f, m)
    BY <1>6, <1>7, ShowsOneMore
  <2> HIDE DEF e
  <2>4. WillShow(shown[g], e \o <<n>>) = Read(Read(f, m), n)
    BY <2>2, <2>3, ShowsOneMore
  <2>5. down'[g] = e \o <<n>>
    BY <1>11 DEF e, m, n
  <2>q. QED
    BY <1>1, <1>4, <1>6, <2>1, <2>4, <2>5
<1>q. QED
  BY <1>3, <1>9, <1>10, <1>11 DEF Tells, tiles, d

(* A size is told as it is adopted, and with a new one, or by force, the    *)
(* reference says nothing of what is shown until a whole frame has gone.    *)
LEMMA ShowShown ==
  ASSUME PeerOK, TalkOK, NEW n, NEW force \in BOOLEAN, Show(n, client, force, ResizedTo(n)),
         client.ready, DOMAIN ref = Rows(served), shown' = shown,
         ~client.dead => Matches(Shows, ref, served), ~client'.dead
  PROVE  Matches(Shows', ref', served')
<1> DEFINE g == client.gen
           d == down[g]
           m == ResizedMsg(served')
           f == Shows
<1>1. client'.gen = g /\ g \in Clients /\ Proper(d) /\ g \in DOMAIN down /\ client.dead \in BOOLEAN
  BY ResizedTold DEF PeerOK, TalkOK, Speaks
<1>2. ~client.dead /\ ((down' = down /\ served' = served) \/ down'[g] = d \o <<m>>)
  <2>1. SaysNothing \/ SaysSize
    BY ResizedTold
  <2>2. CASE SaysNothing
    BY <2>2 DEF SaysNothing
  <2>3. CASE SaysSize
    <3>1. ~client.dead /\ down' = [down EXCEPT ![g] = @ \o <<m>>]
      BY <2>3 DEF SaysSize
    <3> HIDE DEF m
    <3>q. QED
      BY <1>1, <3>1
  <2>q. QED
    BY <2>1, <2>2, <2>3
<1>3. Matches(f, ref, served) /\ f = WillShow(shown[g], d)
  BY <1>2 DEF Shows
<1>4. Shows' = WillShow(shown[g], down'[g])
  BY <1>1 DEF Shows
<1>5. ref' = [r \in Rows(served') |-> Invalid] \/ (ref' = ref /\ served' = served)
  BY DEF Show
<1> HIDE DEF f
<1>6. CASE down' = down /\ served' = served
  <2>1. Shows' = f
    BY <1>3, <1>4, <1>6
  <2>q. QED
    BY <1>3, <1>5, <1>6, <2>1 DEF Matches
<1>7. CASE down'[g] = d \o <<m>>
  <2>1. m.type = "resized" /\ m.rows = served'
    BY DEF ResizedMsg
  <2>2. Read(f, m) = [r \in Rows(served') |-> IF r \in DOMAIN f THEN f[r] ELSE Black]
    <3> HIDE DEF m
    <3>q. QED
      BY <2>1 DEF Read, Applied
  <2> HIDE DEF m, d
  <2>3. WillShow(shown[g], d \o <<m>>) = Read(f, m)
    BY <1>1, <1>3, ShowsOneMore
  <2>4. Shows' = Read(f, m)
    BY <1>4, <1>7, <2>3
  <2>q. QED
    BY <1>3, <1>5, <2>2, <2>4 DEF Matches
<1>q. QED
  BY <1>2, <1>6, <1>7

LEMMA ShowRef ==
  ASSUME NEW n, NEW cl, NEW force, NEW msgs, Show(n, cl, force, msgs), DOMAIN ref = Rows(served)
  PROVE  DOMAIN ref' = Rows(served')
BY DEF Show

LEMMA PicturingShown ==
  ASSUME PictureInv, TalkInv, ShownInv, Picturing
  PROVE  ShownInv'
<1>1. PeerOK /\ TalkOK /\ TRUE \in BOOLEAN /\ FALSE \in BOOLEAN /\ DOMAIN ref = Rows(served)
  BY DEF PictureInv, TalkInv, ShownInv
<1>2. phase' = phase /\ shown' = shown
  BY PicturingEvents
<1>3. client'.gen = client.gen /\ client'.ready = client.ready
  BY <1>1, PicturingSays DEF Speaks
<1>4. exit' = "none" => exit = "none"
  BY <1>1, PicturingKeeps
<1>5. CASE SendFrame
  <2>1. DOMAIN ref' = Rows(served')
    BY <1>5 DEF SendFrame
  <2>2. AtHand' => AtHand
    BY <1>2, <1>3, <1>4, <1>5 DEF AtHand, AtWork, SendFrame, Due
  <2>3. AtHand' => Matches(Shows', ref', served')
    BY <1>1, <1>5, <2>2, SendFrameShown DEF ShownInv, AtHand
  <2>q. QED
    BY <2>1, <2>3 DEF ShownInv
<1>6. ASSUME NEW n, NEW force \in BOOLEAN, Show(n, client, force, ResizedTo(n)) PROVE ShownInv'
  <2>1. DOMAIN ref' = Rows(served')
    BY <1>1, <1>6, ShowRef
  <2>2. AtHand' => AtWork
    BY <1>2, <1>3, <1>4 DEF AtHand, AtWork
  <2>3. ASSUME AtHand' PROVE Matches(Shows', ref', served')
    <3>1. client.ready /\ ~client'.dead
      BY <2>2, <2>3 DEF AtHand, AtWork
    <3>2. ~client.dead => Matches(Shows, ref, served)
      BY <2>2, <2>3 DEF ShownInv, AtHand
    <3>q. QED
      BY <1>1, <1>2, <1>6, <3>1, <3>2, ShowShown
  <2>q. QED
    BY <2>1, <2>3 DEF ShownInv
<1>7. CASE NoteResize
  BY <1>1, <1>6, <1>7 DEF NoteResize
<1>8. CASE CaptureRaces
  BY <1>1, <1>6, <1>8 DEF CaptureRaces
<1>9. CASE \/ \E r \in Rows(MaxRows), colour \in Colours : Paint(r, colour)
           \/ Scroll \/ \E n \in 1..MaxRows : SessionResizes(n)
           \/ NoteDamage \/ CaptureFails
  <2>1. UNCHANGED <<ref, served, client, down>>
    BY <1>9 DEF Paint, Scroll, SessionResizes, NoteDamage, CaptureFails, codeVars, xVars
  <2>q. QED
    BY <1>2, <1>4, <2>1 DEF ShownInv, AtHand, AtWork, Shows, Matches
<1>q. QED
  BY <1>5, <1>7, <1>8, <1>9 DEF Picturing, Pump

LEMMA AnsweringShown ==
  ASSUME PictureInv, EventsOK, TalkInv, ShownInv, Answering
  PROVE  ShownInv'
<1>1. PeerOK /\ TalkOK /\ TRUE \in BOOLEAN /\ FALSE \in BOOLEAN /\ DOMAIN ref = Rows(served)
  BY DEF PictureInv, TalkInv, ShownInv
<1>2. phase' = phase /\ shown' = shown
  BY AnsweringSettles
<1>3. client'.gen = client.gen /\ client'.ready = client.ready
  BY <1>1, AnsweringSays DEF Speaks
<1>4. exit' = "none" => exit = "none"
  BY <1>1, AnsweringKeeps
<1>5. ASSUME NEW n, NEW force \in BOOLEAN, Show(n, client, force, ResizedTo(n)) PROVE ShownInv'
  <2>1. DOMAIN ref' = Rows(served')
    BY <1>1, <1>5, ShowRef
  <2>2. ASSUME AtHand' PROVE Matches(Shows', ref', served')
    <3>1. client.ready /\ ~client'.dead
      BY <1>3, <2>2 DEF AtHand, AtWork
    <3>2. ~client.dead => Matches(Shows, ref, served)
      BY <1>2, <1>3, <1>4, <2>2 DEF ShownInv, AtHand, AtWork
    <3>q. QED
      BY <1>1, <1>2, <1>5, <3>1, <3>2, ShowShown
  <2>q. QED
    BY <2>1, <2>2 DEF ShownInv
<1>6. CASE HandleStale
  BY <1>2, <1>4, <1>6 DEF HandleStale, codeVars, ShownInv, AtHand, AtWork, Shows, Matches
<1>7. CASE HandleAck
  <2>1. UNCHANGED <<ref, served, down>> /\ client'.dead = client.dead
    <3>1. client' = client \/ \E f, w : client' = [client EXCEPT !.flight = f, !.window = w]
      BY <1>7 DEF HandleAck
    <3>2. DOMAIN client = PeerFields
      BY <1>1 DEF PeerOK, PeerFields
    <3>3. client'.dead = client.dead
      BY <3>1, <3>2 DEF PeerFields
    <3>4. UNCHANGED <<ref, served, down>>
      BY <1>7 DEF HandleAck, codeVars
    <3>q. QED
      BY <3>3, <3>4
  <2>q. QED
    BY <1>2, <1>3, <1>4, <2>1 DEF ShownInv, AtHand, AtWork, Shows, Matches
<1>8. CASE HandleRefresh
  <2>1. ServedOf(served) = served
    BY ServedIs DEF PictureInv, ScreenOK
  <2>2. ResizedTo(served) = <<>>
    BY <2>1 DEF ResizedTo
  <2>3. Show(served, client, TRUE, ResizedTo(served))
    BY <1>8, <2>2 DEF HandleRefresh
  <2>q. QED
    BY <1>1, <1>5, <2>3
<1>9. CASE HandleResize
  <2>1. \E o \in Resizes(Msg.rows) :
          Show(IF o.ok THEN o.root ELSE served, client, FALSE, ResizedTo(IF o.ok THEN o.root ELSE served))
    BY <1>9 DEF HandleResize, ApplyResize
  <2>q. QED
    BY <1>1, <1>5, <2>1
<1>q. QED
  BY <1>6, <1>7, <1>8, <1>9 DEF Answering

(* The greeting says the size, and nothing of the picture is known yet.     *)
LEMMA HelloShown ==
  ASSUME PictureInv, EventsOK, TalkInv, ShownInv, HandleHello
  PROVE  ShownInv'
<1> DEFINE g == client.gen
           m == HelloMsg(served')
           cr == [client EXCEPT !.ready = TRUE]
<1>1. /\ g \in Clients /\ client'.gen = g
      /\ \/ down' = [down EXCEPT ![g] = @ \o <<m>>]
         \/ client'.dead
  BY HelloTold
<1>2. ref' = [r \in Rows(served') |-> Invalid]
  <2>1. PICK to : Show(to, cr, TRUE, <<HelloMsg(ServedOf(to))>>)
    BY DEF HandleHello, ApplyResize
  <2> HIDE DEF cr
  <2>q. QED
    BY <2>1 DEF Show
<1>3. shown' = shown /\ Proper(down[g]) /\ g \in DOMAIN down
  BY <1>1 DEF HandleHello, TalkInv, TalkOK
<1>4. ASSUME AtHand' PROVE Matches(Shows', ref', served')
  <2> DEFINE d == down[g]
             f == WillShow(shown[g], d)
  <2>1. Shows' = WillShow(shown[g], down'[g])
    BY <1>1, <1>3 DEF Shows
  <2>2. m.type = "hello" /\ m.rows = served'
    BY DEF HelloMsg
  <2> HIDE DEF m
  <2>3. down'[g] = d \o <<m>>
    BY <1>1, <1>3, <1>4 DEF AtHand
  <2>4. Read(f, m) = Blank(served')
    BY <2>2 DEF Read
  <2> HIDE DEF d
  <2>5. WillShow(shown[g], d \o <<m>>) = Read(f, m)
    BY <1>3, ShowsOneMore DEF d
  <2>6. Shows' = Blank(served')
    BY <2>1, <2>3, <2>4, <2>5
  <2>q. QED
    BY <1>2, <2>6 DEF Matches, Blank
<1>q. QED
  BY <1>2, <1>4 DEF ShownInv

LEMMA DropsShown ==
  ASSUME PictureInv, ShownInv, HandleNew \/ HandleClosed \/ HandleRefused \/ DropDead \/ Expire \/ Quit
  PROVE  ShownInv'
<1>1. UNCHANGED codeVars
  BY DEF HandleNew, HandleClosed, HandleRefused, DropDead, Expire, Quit
<1>2. ~client'.ready
  <2>1. \E notice, rest, next, why : Drop(notice, rest, next, why) /\ ~next.ready
    <3>1. CASE HandleNew
      <4>1. Drop(<<Plain("disconnect")>>, Tail(events), Fresh(Head(events)[1]), "none")
        BY <3>1 DEF HandleNew
      <4>q. QED
        BY <4>1, NobodyYet
    <3>2. CASE HandleClosed
      BY <3>2, NobodyYet DEF HandleClosed
    <3>3. CASE HandleRefused
      BY <3>3, NobodyYet DEF HandleRefused
    <3>4. CASE DropDead
      BY <3>4, NobodyYet DEF DropDead
    <3>5. CASE Expire
      BY <3>5, NobodyYet DEF Expire
    <3>6. CASE Quit
      BY <3>6, NobodyYet DEF Quit
    <3>q. QED
      BY <3>1, <3>2, <3>3, <3>4, <3>5, <3>6
  <2>2. PICK notice, rest, next, why : Drop(notice, rest, next, why) /\ ~next.ready
    BY <2>1
  <2>q. QED
    BY <2>2, DropGives
<1>q. QED
  BY <1>1, <1>2 DEF codeVars, ShownInv, AtHand, AtWork

(* What a client reads is what comes next of what it will show.             *)
LEMMA ReadShown ==
  ASSUME TalkOK, ShownInv, AtHand, client' = client, UNCHANGED <<ref, served>>,
         client.gen \in Clients, down[client.gen] # <<>>,
         shown' = [shown EXCEPT ![client.gen] = Read(@, Head(down[client.gen]))],
         down' = [down EXCEPT ![client.gen] = Tail(@)]
  PROVE  Matches(Shows', ref', served')
<1> DEFINE g == client.gen
           d == down[g]
           f == shown[g]
<1>1. Proper(d) /\ g \in DOMAIN down /\ g \in DOMAIN shown
  BY DEF TalkOK
<1>2. down'[g] = Tail(d) /\ shown'[g] = Read(f, Head(d)) /\ d # <<>>
  BY <1>1
<1>3. Shows' = WillShow(shown'[g], down'[g]) /\ Shows = WillShow(f, d)
  BY DEF Shows
<1> HIDE DEF f, d
<1>4. WillShow(Read(f, Head(d)), Tail(d)) = WillShow(f, d)
  BY <1>1, <1>2, ShowsAfterOne
<1>q. QED
  BY <1>2, <1>3, <1>4 DEF ShownInv

LEMMA ClientShown ==
  ASSUME PictureInv, EventsOK, TalkInv, ShownInv,
         NEW c \in Clients, Connect(c) \/ Ask(c) \/ Leave(c) \/ ClientStep(c)
  PROVE  ShownInv'
<1>1. UNCHANGED <<ref, served, client, exit>>
  BY DEF Connect, Ask, Leave, ClientStep, Hello, Greeted, Receive, SeesEnd, codeVars
<1>2. DOMAIN phase = Clients /\ down = [d \in Clients |-> down[d]] /\ Once(c) /\ TalkOK /\ DOMAIN shown = Clients
  BY DEF TalkInv, TalkOK, OnceOK
<1>3. ASSUME AtHand' PROVE Matches(Shows', ref', served')
  <2>1. client.gen \in Clients /\ client.ready
    BY <1>1, <1>3 DEF AtHand, AtWork, PictureInv, PeerOK
  <2>2. \A d \in Clients : d # c => phase'[d] = phase[d] /\ down'[d] = down[d]
    BY <1>2, ClientSteps
  <2>3. phase[c] \notin {"left", "broken"}
    BY <1>2, ClientSteps
  <2>4. AtHand
    BY <1>1, <1>3, <2>1, <2>2, <2>3 DEF AtHand, AtWork
  <2>5. ASSUME shown'[client.gen] = shown[client.gen], down'[client.gen] = down[client.gen]
        PROVE  Matches(Shows', ref', served')
    BY <1>1, <2>4, <2>5 DEF ShownInv, Shows
  <2>6. CASE client.gen # c
    <3>1. shown'[client.gen] = shown[client.gen]
      BY <1>2, <2>1, <2>6 DEF Connect, Ask, Leave, ClientStep, Hello, Greeted, Receive, SeesEnd, Ends
    <3>q. QED
      BY <2>1, <2>2, <2>5, <2>6, <3>1
  <2>7. CASE client.gen = c
    <3>1. phase'[c] \notin {"left", "broken"}
      BY <1>1, <1>3, <2>7 DEF AtHand, AtWork
    <3>2. ASSUME NEW how \in {"left", "broken"}, phase' = [phase EXCEPT ![c] = how] PROVE FALSE
      BY <1>2, <3>1, <3>2
    <3>3. CASE Connect(c) \/ Ask(c) \/ Hello(c)
      <4>1. down' = down /\ shown' = shown
        BY <3>3 DEF Connect, Ask, Hello
      <4>q. QED
        BY <2>5, <4>1
    <3>4. CASE Leave(c) \/ SeesEnd(c)
      BY <3>2, <3>4 DEF Leave, SeesEnd, Ends
    <3>5. CASE Greeted(c)
      <4>1. CASE Head(down[c]).type = "hello"
        <5>1. /\ down[c] # <<>> /\ down' = [down EXCEPT ![c] = Tail(@)]
              /\ shown' = [shown EXCEPT ![c] = Blank(Head(down[c]).rows)]
          BY <3>5, <4>1 DEF Greeted
        <5>2. Read(shown[c], Head(down[c])) = Blank(Head(down[c]).rows)
          BY <4>1 DEF Read
        <5>3. shown' = [shown EXCEPT ![c] = Read(@, Head(down[c]))]
          BY <5>1, <5>2
        <5>q. QED
          BY <1>1, <1>2, <2>4, <2>7, <5>1, <5>3, ReadShown
      <4>2. CASE Head(down[c]).type # "hello"
        BY <3>2, <3>5, <4>2 DEF Greeted, Ends
      <4>q. QED
        BY <4>1, <4>2
    <3>6. CASE Receive(c)
      <4> DEFINE msg == Head(down[c])
                 good == msg.type = "resized" \/ (msg.type = "update" /\ Fits(shown[c], msg))
      <4>1. CASE good
        <5>1. /\ down[c] # <<>> /\ down' = [down EXCEPT ![c] = Tail(@)]
              /\ shown' = [shown EXCEPT ![c] = Applied(@, msg)]
          BY <3>6, <4>1 DEF Receive
        <5>2. Read(shown[c], msg) = Applied(shown[c], msg)
          BY <4>1 DEF Read
        <5>3. shown' = [shown EXCEPT ![c] = Read(@, msg)]
          BY <5>1, <5>2
        <5>q. QED
          BY <1>1, <1>2, <2>4, <2>7, <5>1, <5>3, ReadShown
      <4>2. CASE ~good
        BY <3>2, <3>6, <4>2 DEF Receive, Ends
      <4>q. QED
        BY <4>1, <4>2
    <3>q. QED
      BY <3>3, <3>4, <3>5, <3>6 DEF ClientStep
  <2>q. QED
    BY <2>6, <2>7
<1>q. QED
  BY <1>1, <1>3 DEF ShownInv

LEMMA ShownAlways == Spec => []ShownInv
<1>1. Init => ShownInv
  <2> SUFFICES ASSUME Init PROVE ShownInv
    OBVIOUS
  <2>1. ~client.ready
    BY DEF Init, None
  <2>2. DOMAIN ref = Rows(served)
    BY DEF Init, Blank
  <2>q. QED
    BY <2>1, <2>2 DEF ShownInv, AtHand, AtWork
<1>2. PictureInv /\ EventsOK /\ TalkInv /\ ShownInv /\ [Next]_vars => ShownInv'
  <2> SUFFICES ASSUME PictureInv, EventsOK, TalkInv, ShownInv, [Next]_vars PROVE ShownInv'
    OBVIOUS
  <2>1. CASE Picturing
    BY <2>1, PicturingShown
  <2>2. CASE Handle
    BY <2>2, AnsweringShown, HelloShown, DropsShown DEF Handle, Answering
  <2>3. CASE DropDead \/ Expire \/ Quit
    BY <2>3, DropsShown
  <2>4. ASSUME NEW c \in Clients, Connect(c) \/ Ask(c) \/ Leave(c) \/ ClientStep(c)
        PROVE  ShownInv'
    BY <2>4, ClientShown
  <2>5. CASE UNCHANGED vars
    BY <2>5 DEF vars, codeVars, ShownInv, AtHand, AtWork, Shows, Matches
  <2>q. QED
    BY <2>1, <2>2, <2>3, <2>4, <2>5, NextSteps
<1>q. QED
  BY <1>1, <1>2, PictureAlways, TalkAlways, PTL DEF Spec

(* The encoder's reference is what the client will show when it has read    *)
(* what is on the way, in size and, where it is not invalidated, in every   *)
(* row, whatever is copied, split, resized or refreshed: so a tile that the *)
(* encoder leaves out is one the client has (encode_frame, apply_copies,    *)
(* split_frame, adopt_size).                                                *)
THEOREM SameAsReference == Spec => []ReferenceIsShown
<1>1. ShownInv => ReferenceIsShown
  BY DEF ShownInv, ReferenceIsShown, AtHand, AtWork, Live, Shows, Matches
<1>q. QED
  BY <1>1, ShownAlways, PTL
================================================================================
