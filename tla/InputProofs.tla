------------------------------ MODULE InputProofs ------------------------------
(***************************************************************************)
(* That whatever is down at a session's X server is on somebody's record,  *)
(* and that a press types its keysym.                                      *)
(*                                                                         *)
(* The first: a keysym the window does not have on record is let go of by  *)
(* what is on its way to the session, for every key, spelling and layout.  *)
(* The second: the session has Shift down exactly while it thinks it does, *)
(* if no layout moves it, and an up-to-date table is what the server has.  *)
(***************************************************************************)
EXTENDS Input, FiniteSetTheorems, WellFoundedInduction, TLAPS

-----------------------------------------------------------------------------
Record == {pressedKeys[p] : p \in DOMAIN pressedKeys}

(* What the window has sent is a sequence of messages, and what it and the  *)
(* session remember can be gone through.                                    *)
DataOK ==
  /\ link \in {"up", "down", "over"}
  /\ stream \in Seq(Messages)
  /\ Record \subseteq Keysyms /\ remoteButtons \subseteq Buttons
  /\ IsFiniteSet(DOMAIN pressedKeys) /\ IsFiniteSet(remoteButtons)

(* A keycode that is down is down for a keysym the session remembers.       *)
HeldOK == down \subseteq {pressed[s] : s \in DOMAIN pressed}

Said(msgs, m) == \E i \in DOMAIN msgs : msgs[i] = m

(* Every press among msgs is followed by a release.                         *)
Answered(msgs, on, off) ==
  \A i \in DOMAIN msgs : msgs[i] = on => \E j \in DOMAIN msgs : j > i /\ msgs[j] = off

(* What is not on the window's record is let go of by what is on its way.   *)
KeysOK == link = "up" /\ served => \A s \in Keysyms \ Record :
  /\ s \in DOMAIN pressed => Said(stream, KeyMsg(s, FALSE))
  /\ Answered(stream, KeyMsg(s, TRUE), KeyMsg(s, FALSE))
ButtonsOK == link = "up" /\ served => \A b \in Buttons \ remoteButtons :
  /\ b \in buttons => Said(stream, ButtonMsg(b, FALSE))
  /\ Answered(stream, ButtonMsg(b, TRUE), ButtonMsg(b, FALSE))
SessionOK == DOMAIN pressed \subseteq Keysyms /\ buttons \subseteq Buttons

(* A session without a client holds nothing down.                           *)
AloneOK == ~served => pressed = <<>> /\ buttons = {}

(* Keys repeat, or will again once the client has gone, as the user chose.  *)
RepeatOK ==
  /\ repeat \in BOOLEAN /\ original \in BOOLEAN
  /\ repeat => TRUE \in choices
  /\ IF served THEN original \in choices ELSE repeat \in choices

InputInv == DataOK /\ HeldOK /\ KeysOK /\ ButtonsOK /\ SessionOK /\ AloneOK /\ RepeatOK

-----------------------------------------------------------------------------
(* Going through a set leaves nobody out.                                   *)
LEMMA SetToSeqCovers ==
  ASSUME NEW S, IsFiniteSet(S)
  PROVE  /\ Cardinality(S) \in Nat
         /\ SetToSeq(S) \in [1..Cardinality(S) -> S]
         /\ \A x \in S : \E i \in 1..Cardinality(S) : SetToSeq(S)[i] = x
<1> DEFINE n == Cardinality(S)
<1>1. n \in Nat /\ ExistsBijection(1..n, S)
  BY FS_CardinalityType
<1>2. \E f \in [1..n -> S] : IsInjective(f)
  BY <1>1 DEF ExistsBijection, Bijection, Injection, IsInjective
<1>3. SetToSeq(S) \in [1..n -> S] /\ IsInjective(SetToSeq(S))
  BY <1>2 DEF SetToSeq
<1>4. SetToSeq(S) \in Injection(1..n, S)
  BY <1>3 DEF Injection, IsInjective
<1>5. IsFiniteSet(1..n) /\ Cardinality(1..n) = n
  BY <1>1, FS_Interval
<1>6. SetToSeq(S) \in Surjection(1..n, S)
  BY <1>4, <1>5, FS_Injection
<1>q. QED
  BY <1>1, <1>3, <1>6 DEF Surjection

(* Messages about different keys, or a key and a button, are different.     *)
LEMMA MessageFacts ==
  /\ \A s \in Keysyms : KeyMsg(s, TRUE) \in Messages /\ KeyMsg(s, FALSE) \in Messages
  /\ \A b \in Buttons : ButtonMsg(b, TRUE) \in Messages /\ ButtonMsg(b, FALSE) \in Messages
  /\ \A s, t : /\ KeyMsg(s, TRUE) # KeyMsg(t, FALSE)
               /\ KeyMsg(s, TRUE) = KeyMsg(t, TRUE) => s = t
               /\ KeyMsg(s, FALSE) = KeyMsg(t, FALSE) => s = t
  /\ \A b, c : /\ ButtonMsg(b, TRUE) # ButtonMsg(c, FALSE)
               /\ ButtonMsg(b, TRUE) = ButtonMsg(c, TRUE) => b = c
               /\ ButtonMsg(b, FALSE) = ButtonMsg(c, FALSE) => b = c
  /\ \A s, b : /\ KeyMsg(s, TRUE) # ButtonMsg(b, TRUE) /\ KeyMsg(s, TRUE) # ButtonMsg(b, FALSE)
               /\ KeyMsg(s, FALSE) # ButtonMsg(b, TRUE) /\ KeyMsg(s, FALSE) # ButtonMsg(b, FALSE)
BY DEF KeyMsg, ButtonMsg, Messages

(* What release_all_keys says: a release of each keysym on record, and      *)
(* nothing else.                                                            *)
LEMMA KeyReleasesCover ==
  ASSUME DataOK
  PROVE  /\ KeyReleases \in Seq(Messages)
         /\ \A i \in DOMAIN KeyReleases : \E s \in Record : KeyReleases[i] = KeyMsg(s, FALSE)
         /\ \A s \in Record : Said(KeyReleases, KeyMsg(s, FALSE))
<1> DEFINE D == DOMAIN pressedKeys
           n == Cardinality(D)
           f == SetToSeq(D)
<1>1. /\ n \in Nat /\ f \in [1..n -> D]
      /\ \A x \in D : \E i \in 1..n : f[i] = x
  BY SetToSeqCovers DEF DataOK
<1>2. KeyReleases = [i \in 1..n |-> KeyMsg(pressedKeys[f[i]], FALSE)]
  BY DEF KeyReleases
<1>3. \A i \in 1..n : f[i] \in D /\ pressedKeys[f[i]] \in Record
  BY <1>1 DEF Record
<1>4. \A s \in Record : \E p \in D : pressedKeys[p] = s
  BY DEF Record
<1> HIDE DEF D, n, f
<1>5. \A i \in 1..n : KeyReleases[i] \in Messages
  BY <1>2, <1>3, MessageFacts DEF DataOK
<1>6. DOMAIN KeyReleases = 1..n
  BY <1>2
<1>r. KeyReleases \in [1..n -> Messages]
  BY <1>2, <1>5
<1>7. KeyReleases \in Seq(Messages)
  BY <1>1, <1>r
<1>8. ASSUME NEW s \in Record
      PROVE  Said(KeyReleases, KeyMsg(s, FALSE))
  <2>1. PICK p \in D : pressedKeys[p] = s
    BY <1>4
  <2>2. PICK i \in 1..n : f[i] = p
    BY <1>1
  <2>3. KeyReleases[i] = KeyMsg(s, FALSE)
    BY <1>2, <2>1, <2>2
  <2>q. QED
    BY <1>6, <2>3 DEF Said
<1>q. QED
  BY <1>2, <1>3, <1>6, <1>7, <1>8

(* ... and release_all_buttons, of each button.                             *)
LEMMA ButtonReleasesCover ==
  ASSUME DataOK
  PROVE  /\ ButtonReleases \in Seq(Messages)
         /\ \A i \in DOMAIN ButtonReleases :
              \E b \in remoteButtons : ButtonReleases[i] = ButtonMsg(b, FALSE)
         /\ \A b \in remoteButtons : Said(ButtonReleases, ButtonMsg(b, FALSE))
<1> DEFINE n == Cardinality(remoteButtons)
           f == SetToSeq(remoteButtons)
<1>1. /\ n \in Nat /\ f \in [1..n -> remoteButtons]
      /\ \A x \in remoteButtons : \E i \in 1..n : f[i] = x
  BY SetToSeqCovers DEF DataOK
<1>2. ButtonReleases = [i \in 1..n |-> ButtonMsg(f[i], FALSE)]
  BY DEF ButtonReleases
<1> HIDE DEF n, f
<1>3. \A i \in 1..n : f[i] \in remoteButtons
  BY <1>1
<1>5. \A i \in 1..n : ButtonReleases[i] \in Messages
  BY <1>2, <1>3, MessageFacts DEF DataOK
<1>6. DOMAIN ButtonReleases = 1..n
  BY <1>2
<1>r. ButtonReleases \in [1..n -> Messages]
  BY <1>2, <1>5
<1>7. ButtonReleases \in Seq(Messages)
  BY <1>1, <1>r
<1>8. \A b \in remoteButtons : Said(ButtonReleases, ButtonMsg(b, FALSE))
  BY <1>1, <1>2, <1>6 DEF Said
<1>q. QED
  BY <1>2, <1>3, <1>6, <1>7, <1>8

-----------------------------------------------------------------------------
(* Said and Answered when more is sent.                                     *)
LEMMA SaidMore ==
  ASSUME NEW a \in Seq(Messages), NEW b \in Seq(Messages), NEW m, Said(a, m) \/ Said(b, m)
  PROVE  Said(a \o b, m)
<1>1. /\ Len(a) \in Nat /\ Len(b) \in Nat
      /\ DOMAIN a = 1..Len(a) /\ DOMAIN b = 1..Len(b) /\ DOMAIN (a \o b) = 1..(Len(a) + Len(b))
      /\ \A i \in 1..Len(a) : (a \o b)[i] = a[i]
      /\ \A i \in 1..Len(b) : (a \o b)[Len(a) + i] = b[i]
  OBVIOUS
<1>2. CASE Said(a, m)
  BY <1>1, <1>2 DEF Said
<1>3. CASE Said(b, m)
  <2> PICK j \in DOMAIN b : b[j] = m
    BY <1>3 DEF Said
  <2>1. Len(a) + j \in DOMAIN (a \o b) /\ (a \o b)[Len(a) + j] = m
    BY <1>1
  <2>q. QED
    BY <2>1 DEF Said
<1>q. QED
  BY <1>2, <1>3

(* A press is answered by what answered it, or by a release sent later.     *)
LEMMA AnsweredMore ==
  ASSUME NEW a \in Seq(Messages), NEW b \in Seq(Messages), NEW on, NEW off,
         Answered(b, on, off), Answered(a, on, off) \/ Said(b, off)
  PROVE  Answered(a \o b, on, off)
<1>1. /\ Len(a) \in Nat /\ Len(b) \in Nat
      /\ DOMAIN a = 1..Len(a) /\ DOMAIN b = 1..Len(b) /\ DOMAIN (a \o b) = 1..(Len(a) + Len(b))
      /\ \A i \in 1..Len(a) : (a \o b)[i] = a[i]
      /\ \A i \in 1..Len(b) : (a \o b)[Len(a) + i] = b[i]
  OBVIOUS
<1> SUFFICES ASSUME NEW i \in DOMAIN (a \o b), (a \o b)[i] = on
             PROVE  \E j \in DOMAIN (a \o b) : j > i /\ (a \o b)[j] = off
  BY DEF Answered
<1>2. CASE i > Len(a)
  <2> DEFINE k == i - Len(a)
  <2>1. k \in DOMAIN b /\ i = Len(a) + k /\ b[k] = on
    BY <1>1, <1>2
  <2>2. PICK j \in DOMAIN b : j > k /\ b[j] = off
    BY <2>1 DEF Answered
  <2>3. Len(a) + j \in DOMAIN (a \o b) /\ Len(a) + j > i /\ (a \o b)[Len(a) + j] = off
    BY <1>1, <2>1, <2>2
  <2>q. QED
    BY <2>3
<1>3. CASE i <= Len(a) /\ Answered(a, on, off)
  <2>1. i \in DOMAIN a /\ a[i] = on
    BY <1>1, <1>3
  <2>2. PICK j \in DOMAIN a : j > i /\ a[j] = off
    BY <1>3, <2>1 DEF Answered
  <2>q. QED
    BY <1>1, <2>2
<1>4. CASE i <= Len(a) /\ Said(b, off)
  <2>1. PICK j \in DOMAIN b : b[j] = off
    BY <1>4 DEF Said
  <2>2. Len(a) + j \in DOMAIN (a \o b) /\ Len(a) + j > i /\ (a \o b)[Len(a) + j] = off
    BY <1>1, <1>4, <2>1
  <2>q. QED
    BY <2>2
<1>q. QED
  BY <1>1, <1>2, <1>3, <1>4

(* ... and when the first message is taken.                                 *)
LEMMA HeadTaken ==
  ASSUME NEW a \in Seq(Messages), a # <<>>, NEW on, NEW off, Answered(a, on, off)
  PROVE  /\ Tail(a) \in Seq(Messages) /\ Head(a) \in Messages
         /\ Answered(Tail(a), on, off)
         /\ Head(a) = on => Said(Tail(a), off)
         /\ Said(a, off) /\ Head(a) # off => Said(Tail(a), off)
<1>1. /\ Len(a) \in Nat \ {0} /\ DOMAIN a = 1..Len(a) /\ DOMAIN Tail(a) = 1..(Len(a) - 1)
      /\ \A i \in 1..(Len(a) - 1) : Tail(a)[i] = a[i + 1]
      /\ Head(a) = a[1] /\ a[1] \in Messages /\ Tail(a) \in Seq(Messages)
  OBVIOUS
<1>2. ASSUME NEW j \in DOMAIN a, j > 1
      PROVE  j - 1 \in DOMAIN Tail(a) /\ Tail(a)[j - 1] = a[j]
  BY <1>1, <1>2
<1>3. Answered(Tail(a), on, off)
  <2> SUFFICES ASSUME NEW i \in DOMAIN Tail(a), Tail(a)[i] = on
               PROVE  \E j \in DOMAIN Tail(a) : j > i /\ Tail(a)[j] = off
    BY DEF Answered
  <2>1. i + 1 \in DOMAIN a /\ a[i + 1] = on
    BY <1>1
  <2>2. PICK j \in DOMAIN a : j > i + 1 /\ a[j] = off
    BY <2>1 DEF Answered
  <2>3. j - 1 \in DOMAIN Tail(a) /\ j - 1 > i /\ Tail(a)[j - 1] = off
    BY <1>1, <1>2, <2>2
  <2>q. QED
    BY <2>3
<1>4. ASSUME Head(a) = on
      PROVE  Said(Tail(a), off)
  <2>1. 1 \in DOMAIN a /\ a[1] = on
    BY <1>1, <1>4
  <2>2. PICK j \in DOMAIN a : j > 1 /\ a[j] = off
    BY <2>1 DEF Answered
  <2>q. QED
    BY <1>2, <2>2 DEF Said
<1>5. ASSUME Said(a, off), Head(a) # off
      PROVE  Said(Tail(a), off)
  <2>1. PICK j \in DOMAIN a : a[j] = off
    BY <1>5 DEF Said
  <2>2. j > 1
    BY <1>1, <1>5, <2>1
  <2>q. QED
    BY <1>2, <2>1, <2>2 DEF Said
<1>q. QED
  BY <1>1, <1>3, <1>4, <1>5

-----------------------------------------------------------------------------
(* The session's keyboard: a press puts down what it remembers, a release   *)
(* lets go of the keysym if nothing else (InputInjector::key, release).     *)
LEMMA PutDownHeld ==
  ASSUME NEW loc, NEW s, NEW held, NEW codes, NEW m, NEW now,
         codes \subseteq {held[t] : t \in DOMAIN held}, s \notin DOMAIN held,
         PutDown(loc, s, held, codes, m, now)
  PROVE  HeldOK' /\ DOMAIN pressed' \subseteq DOMAIN held \cup {s}
<1> DEFINE same == HeldAs(held, loc.keycode)
           left == Without(held, same)
           before == codes \ (IF same = {} THEN {} ELSE {loc.keycode})
           plan == Plan(loc, s, left)
           around == (before \ plan.release) \cup plan.press
<1>1. /\ pressed' = Extended(left, s, loc.keycode)
      /\ down' = ((around \cup {loc.keycode}) \ plan.press) \cup plan.release
  BY DEF PutDown
<1>2. /\ DOMAIN left = DOMAIN held \ same /\ same \subseteq DOMAIN held
      /\ \A t \in DOMAIN left : left[t] = held[t]
      /\ \A t \in DOMAIN held : t \in same <=> held[t] = loc.keycode
  BY DEF Without, HeldAs
<1>3. /\ DOMAIN pressed' = DOMAIN left \cup {s}
      /\ pressed'[s] = loc.keycode
      /\ \A t \in DOMAIN left : pressed'[t] = left[t]
  BY <1>1, <1>2 DEF Extended
<1>4. plan.release \subseteq {left[t] : t \in DOMAIN left}
  BY DEF Plan
<1>5. \A k \in before : \E t \in DOMAIN left : left[t] = k
  BY <1>2
<1> HIDE DEF same, left, before, plan
<1>6. \A k \in down' : k = loc.keycode \/ k \in before \/ k \in plan.release
  BY <1>1
<1>7. \A k \in down' : \E t \in DOMAIN pressed' : pressed'[t] = k
  BY <1>3, <1>4, <1>5, <1>6
<1>q. QED
  BY <1>2, <1>3, <1>7 DEF HeldOK

LEMMA PressHeld ==
  ASSUME HeldOK, NEW s, NEW now, Press(s, now)
  PROVE  HeldOK' /\ DOMAIN pressed' \subseteq DOMAIN pressed \cup {s}
<1> DEFINE held == Without(pressed, {s})
           codes == down \ (IF s \in DOMAIN pressed THEN {pressed[s]} ELSE {})
<1>1. /\ DOMAIN held = DOMAIN pressed \ {s}
      /\ \A t \in DOMAIN held : held[t] = pressed[t]
  BY DEF Without
<1>2. codes \subseteq {held[t] : t \in DOMAIN held}
  <2> SUFFICES ASSUME NEW k \in codes PROVE \E t \in DOMAIN held : held[t] = k
    OBVIOUS
  <2>1. PICK t \in DOMAIN pressed : pressed[t] = k
    BY DEF HeldOK
  <2>2. t # s
    BY <2>1
  <2>q. QED
    BY <1>1, <2>1, <2>2
<1>3. CASE UNCHANGED <<map, down, notified, keyVars, mistyped>>
  BY <1>3 DEF HeldOK, keyVars
<1>4. CASE pressed' = held /\ down' = codes
  BY <1>1, <1>2, <1>4 DEF HeldOK
<1>5. CASE PutDown(Find(lookup, s), s, held, codes, map, now)
  BY <1>1, <1>2, <1>5, PutDownHeld
<1>d. s \notin DOMAIN held /\ DOMAIN held \cup {s} \subseteq DOMAIN pressed \cup {s}
  BY <1>1
<1> HIDE DEF held, codes
<1>6. CASE Bind(s, held, codes, now)
  <2>1. PICK loc, m : PutDown(loc, s, held, codes, m, now)
    BY <1>6 DEF Bind
  <2>2. HeldOK' /\ DOMAIN pressed' \subseteq DOMAIN held \cup {s}
    BY <1>2, <1>d, <2>1, PutDownHeld
  <2>q. QED
    BY <1>d, <2>2
<1>q. QED
  BY <1>3, <1>4, <1>5, <1>6 DEF Press, held, codes

LEMMA ReleaseHeld ==
  ASSUME HeldOK, NEW s, Release(s)
  PROVE  HeldOK' /\ DOMAIN pressed' \subseteq DOMAIN pressed \ {s}
<1> DEFINE own == IF s \in DOMAIN pressed THEN {s} ELSE Counterparts(s)
           code == IF own # {} THEN {pressed[t] : t \in own}
                   ELSE IF Known(lookup, s) THEN {Find(lookup, s).keycode} ELSE {}
<1>1. pressed' = Without(pressed, own) /\ down' = down \ code
  BY DEF Release
<1>2. /\ DOMAIN pressed' = DOMAIN pressed \ own
      /\ \A t \in DOMAIN pressed' : pressed'[t] = pressed[t]
  BY <1>1 DEF Without
<1>3. s \in DOMAIN pressed => s \in own
  OBVIOUS
<1>4. \A t \in own : pressed[t] \in code
  OBVIOUS
<1> HIDE DEF own, code
<1>5. \A k \in down' : \E t \in DOMAIN pressed' : pressed'[t] = k
  BY <1>1, <1>2, <1>4 DEF HeldOK
<1>q. QED
  BY <1>2, <1>3, <1>5 DEF HeldOK
-----------------------------------------------------------------------------
(* The rest of the invariant while the session does nothing.                *)
LEMMA SessionIdle ==
  ASSUME HeldOK, SessionOK, AloneOK, RepeatOK, UNCHANGED <<keyboardVars, served, buttons>>
  PROVE  HeldOK' /\ SessionOK' /\ AloneOK' /\ RepeatOK'
BY DEF HeldOK, SessionOK, AloneOK, RepeatOK, keyboardVars, keyVars, repeatVars

(* A window that says msgs to a session on the link: what it takes off its  *)
(* record is let go of in them, and so is what they put down besides.       *)
LEMMA WindowSends ==
  ASSUME InputInv, link = "up", link' = link, NEW msgs \in Seq(Messages), stream' = stream \o msgs,
         UNCHANGED <<keyboardVars, served, buttons>>,
         Record' \subseteq Keysyms, remoteButtons' \subseteq Buttons,
         IsFiniteSet(DOMAIN pressedKeys'), IsFiniteSet(remoteButtons'),
         \A s \in Keysyms \ Record' :
           /\ Answered(msgs, KeyMsg(s, TRUE), KeyMsg(s, FALSE))
           /\ s \in Record => Said(msgs, KeyMsg(s, FALSE)),
         \A b \in Buttons \ remoteButtons' :
           /\ Answered(msgs, ButtonMsg(b, TRUE), ButtonMsg(b, FALSE))
           /\ b \in remoteButtons => Said(msgs, ButtonMsg(b, FALSE))
  PROVE  InputInv'
<1>1. stream \in Seq(Messages) /\ stream' \in Seq(Messages)
  BY DEF InputInv, DataOK
<1>2. DataOK'
  BY <1>1 DEF InputInv, DataOK
<1>3. HeldOK' /\ SessionOK' /\ AloneOK' /\ RepeatOK'
  BY SessionIdle DEF InputInv
<1>4. pressed' = pressed
  BY DEF keyboardVars, keyVars
<1>5. KeysOK'
  <2> SUFFICES ASSUME served, NEW s \in Keysyms \ Record'
               PROVE  /\ s \in DOMAIN pressed => Said(stream', KeyMsg(s, FALSE))
                      /\ Answered(stream', KeyMsg(s, TRUE), KeyMsg(s, FALSE))
    BY <1>4 DEF KeysOK
  <2>1. CASE s \in Record
    BY <1>1, <2>1, SaidMore, AnsweredMore
  <2>2. CASE s \notin Record
    <3>1. /\ s \in DOMAIN pressed => Said(stream, KeyMsg(s, FALSE))
          /\ Answered(stream, KeyMsg(s, TRUE), KeyMsg(s, FALSE))
      BY <2>2 DEF InputInv, KeysOK
    <3>q. QED
      BY <1>1, <3>1, SaidMore, AnsweredMore
  <2>q. QED
    BY <2>1, <2>2
<1>6. ButtonsOK'
  <2> SUFFICES ASSUME served, NEW b \in Buttons \ remoteButtons'
               PROVE  /\ b \in buttons => Said(stream', ButtonMsg(b, FALSE))
                      /\ Answered(stream', ButtonMsg(b, TRUE), ButtonMsg(b, FALSE))
    BY DEF ButtonsOK
  <2>1. CASE b \in remoteButtons
    BY <1>1, <2>1, SaidMore, AnsweredMore
  <2>2. CASE b \notin remoteButtons
    <3>1. /\ b \in buttons => Said(stream, ButtonMsg(b, FALSE))
          /\ Answered(stream, ButtonMsg(b, TRUE), ButtonMsg(b, FALSE))
      BY <2>2 DEF InputInv, ButtonsOK
    <3>q. QED
      BY <1>1, <3>1, SaidMore, AnsweredMore
  <2>q. QED
    BY <2>1, <2>2
<1>q. QED
  BY <1>2, <1>3, <1>5, <1>6 DEF InputInv

(* A window without a link owes the session nothing that a new link will    *)
(* not make good.                                                           *)
LEMMA WindowCutOff ==
  ASSUME InputInv, link' \in {"down", "over"}, stream' \in Seq(Messages),
         UNCHANGED <<keyboardVars, served, buttons>>,
         Record' \subseteq Keysyms, remoteButtons' \subseteq Buttons,
         IsFiniteSet(DOMAIN pressedKeys'), IsFiniteSet(remoteButtons')
  PROVE  InputInv'
<1>1. HeldOK' /\ SessionOK' /\ AloneOK' /\ RepeatOK'
  BY SessionIdle DEF InputInv
<1>2. DataOK' /\ KeysOK' /\ ButtonsOK'
  BY DEF DataOK, KeysOK, ButtonsOK
<1>q. QED
  BY <1>1, <1>2 DEF InputInv

(* The window says nothing, or nothing that concerns it.                    *)
LEMMA WindowIdle ==
  ASSUME InputInv, UNCHANGED <<keyboardVars, served, buttons, link, stream, pressedKeys, remoteButtons>>
  PROVE  InputInv'
<1>1. HeldOK' /\ SessionOK' /\ AloneOK' /\ RepeatOK'
  BY SessionIdle DEF InputInv
<1>2. DataOK' /\ KeysOK' /\ ButtonsOK'
  BY DEF InputInv, DataOK, KeysOK, ButtonsOK, Record, keyboardVars, keyVars
<1>q. QED
  BY <1>1, <1>2 DEF InputInv

(* Messages none of which is a press of it.                                 *)
LEMMA NoPress ==
  ASSUME NEW a, NEW on, NEW off, \A i \in DOMAIN a : a[i] # on
  PROVE  Answered(a, on, off)
BY DEF Answered

LEMMA OneMessage ==
  ASSUME NEW m \in Messages
  PROVE  /\ <<m>> \in Seq(Messages) /\ Said(<<m>>, m)
         /\ \A on, off : m # on => Answered(<<m>>, on, off)
         /\ <<>> \in Seq(Messages) /\ \A on, off : Answered(<<>>, on, off)
<1>1. Said(<<m>>, m)
  BY DEF Said
<1>q. QED
  BY <1>1 DEF Answered

LEMMA TwoMessages ==
  ASSUME NEW m \in Messages, NEW k \in Messages, m # k
  PROVE  /\ <<m, k>> \in Seq(Messages) /\ Answered(<<m, k>>, m, k)
         /\ \A on, off : m # on /\ k # on => Answered(<<m, k>>, on, off)
<1>1. DOMAIN <<m, k>> = {1, 2} /\ <<m, k>>[1] = m /\ <<m, k>>[2] = k
  OBVIOUS
<1>2. <<m, k>> \in Seq(Messages)
  OBVIOUS
<1>3. Answered(<<m, k>>, m, k)
  <2>1. 2 \in DOMAIN <<m, k>> /\ 2 > 1 /\ <<m, k>>[2] = k
    BY <1>1
  <2>q. QED
    BY <1>1, <2>1 DEF Answered
<1>q. QED
  BY <1>1, <1>2, <1>3 DEF Answered

(* Ctrl+Alt+Delete leaves nothing down that was not.                        *)
LEMMA AttentionSettles ==
  ASSUME DataOK
  PROVE  /\ Attention \in Seq(Messages)
         /\ \A s \in Keysyms \ Record : Answered(Attention, KeyMsg(s, TRUE), KeyMsg(s, FALSE))
         /\ \A b \in Buttons : Answered(Attention, ButtonMsg(b, TRUE), ButtonMsg(b, FALSE))
<1> DEFINE C1 == KeyMsg(Chord, TRUE)
           C0 == KeyMsg(Chord, FALSE)
           D1 == KeyMsg(Delete, TRUE)
           D0 == KeyMsg(Delete, FALSE)
           pair == <<D1, D0>>
<1>1. Chord \in Keysyms /\ Delete \in Keysyms
  BY InputAssumption, KeyboardAssumption
<1>2. C1 \in Messages /\ C0 \in Messages /\ D1 \in Messages /\ D0 \in Messages
  BY <1>1, MessageFacts
<1>x. /\ pair \in Seq(Messages) /\ Answered(pair, D1, D0)
      /\ \A on, off : D1 # on /\ D0 # on => Answered(pair, on, off)
  BY <1>2, MessageFacts, TwoMessages
<1>3. pair \in Seq(Messages) /\ \A s : Answered(pair, KeyMsg(s, TRUE), KeyMsg(s, FALSE))
  <2>1. ASSUME NEW s, s # Delete PROVE D1 # KeyMsg(s, TRUE) /\ D0 # KeyMsg(s, TRUE)
    BY <2>1, MessageFacts
  <2>q. QED
    BY <1>x, <2>1
<1>4. ASSUME NEW b PROVE Answered(pair, ButtonMsg(b, TRUE), ButtonMsg(b, FALSE))
  <2>1. D1 # ButtonMsg(b, TRUE) /\ D0 # ButtonMsg(b, TRUE)
    BY MessageFacts
  <2>q. QED
    BY <1>x, <2>1
<1>5. CASE Chord \in Record
  <2>1. Attention = (<<>> \o pair) \o <<>>
    BY <1>5 DEF Attention, Record
  <2>2. Attention = pair
    BY <1>3, <2>1
  <2>q. QED
    BY <1>3, <1>4, <2>2
<1>6. CASE Chord \notin Record
  <2>1. Attention = (<<C1>> \o pair) \o <<C0>>
    BY <1>6 DEF Attention, Record
  <2>2. /\ <<C1>> \in Seq(Messages) /\ <<C0>> \in Seq(Messages) /\ Said(<<C0>>, C0)
        /\ \A on, off : C1 # on => Answered(<<C1>>, on, off)
        /\ \A on, off : C0 # on => Answered(<<C0>>, on, off)
    BY <1>2, OneMessage
  <2> HIDE DEF C1, C0, pair
  <2>3. <<C1>> \o pair \in Seq(Messages)
    BY <1>3, <2>2
  <2>4. Attention \in Seq(Messages)
    BY <2>1, <2>2, <2>3
  <2>5. ASSUME NEW s \in Keysyms
        PROVE  Answered(Attention, KeyMsg(s, TRUE), KeyMsg(s, FALSE))
    <3>1. C0 # KeyMsg(s, TRUE)
      BY MessageFacts DEF C1, C0
    <3>2. Answered(<<C0>>, KeyMsg(s, TRUE), KeyMsg(s, FALSE))
      BY <2>2, <3>1
    <3>3. CASE s = Chord
      <4>1. Said(<<C0>>, KeyMsg(s, FALSE))
        BY <2>2, <3>3 DEF C1, C0
      <4>q. QED
        BY <2>1, <2>2, <2>3, <3>2, <4>1, AnsweredMore
    <3>4. CASE s # Chord
      <4>1. C1 # KeyMsg(s, TRUE)
        BY <3>4, MessageFacts DEF C1, C0
      <4>2. Answered(<<C1>>, KeyMsg(s, TRUE), KeyMsg(s, FALSE))
        BY <2>2, <4>1
      <4>3. Answered(<<C1>> \o pair, KeyMsg(s, TRUE), KeyMsg(s, FALSE))
        BY <1>3, <2>2, <4>2, AnsweredMore
      <4>q. QED
        BY <2>1, <2>2, <2>3, <3>2, <4>3, AnsweredMore
    <3>q. QED
      BY <3>3, <3>4
  <2>6. ASSUME NEW b \in Buttons
        PROVE  Answered(Attention, ButtonMsg(b, TRUE), ButtonMsg(b, FALSE))
    <3>1. C1 # ButtonMsg(b, TRUE) /\ C0 # ButtonMsg(b, TRUE)
      BY MessageFacts DEF C1, C0
    <3>2. /\ Answered(<<C1>>, ButtonMsg(b, TRUE), ButtonMsg(b, FALSE))
          /\ Answered(<<C0>>, ButtonMsg(b, TRUE), ButtonMsg(b, FALSE))
      BY <2>2, <3>1
    <3>3. Answered(<<C1>> \o pair, ButtonMsg(b, TRUE), ButtonMsg(b, FALSE))
      BY <1>3, <1>4, <2>2, <3>2, AnsweredMore
    <3>q. QED
      BY <2>1, <2>2, <2>3, <3>2, <3>3, AnsweredMore
  <2>q. QED
    BY <2>4, <2>5, <2>6
<1>q. QED
  BY <1>5, <1>6
-----------------------------------------------------------------------------
(* The releases of everything on record.                                    *)
LEMMA AllLetGo ==
  ASSUME DataOK
  PROVE  /\ KeyReleases \o ButtonReleases \in Seq(Messages)
         /\ \A s \in Keysyms :
              /\ Answered(KeyReleases \o ButtonReleases, KeyMsg(s, TRUE), KeyMsg(s, FALSE))
              /\ s \in Record => Said(KeyReleases \o ButtonReleases, KeyMsg(s, FALSE))
         /\ \A b \in Buttons :
              /\ Answered(KeyReleases \o ButtonReleases, ButtonMsg(b, TRUE), ButtonMsg(b, FALSE))
              /\ b \in remoteButtons => Said(KeyReleases \o ButtonReleases, ButtonMsg(b, FALSE))
<1>1. /\ KeyReleases \in Seq(Messages)
      /\ \A i \in DOMAIN KeyReleases : \E s \in Record : KeyReleases[i] = KeyMsg(s, FALSE)
      /\ \A s \in Record : Said(KeyReleases, KeyMsg(s, FALSE))
  BY KeyReleasesCover
<1>2. /\ ButtonReleases \in Seq(Messages)
      /\ \A i \in DOMAIN ButtonReleases :
           \E b \in remoteButtons : ButtonReleases[i] = ButtonMsg(b, FALSE)
      /\ \A b \in remoteButtons : Said(ButtonReleases, ButtonMsg(b, FALSE))
  BY ButtonReleasesCover
<1>3. ASSUME NEW on, \A x : on # KeyMsg(x, FALSE) /\ on # ButtonMsg(x, FALSE), NEW off
      PROVE  Answered(KeyReleases \o ButtonReleases, on, off)
  <2>1. Answered(KeyReleases, on, off) /\ Answered(ButtonReleases, on, off)
    BY <1>1, <1>2, <1>3, NoPress
  <2>q. QED
    BY <1>1, <1>2, <2>1, AnsweredMore
<1>4. \A s, x : KeyMsg(s, TRUE) # KeyMsg(x, FALSE) /\ KeyMsg(s, TRUE) # ButtonMsg(x, FALSE)
  BY MessageFacts
<1>5. \A b, x : ButtonMsg(b, TRUE) # KeyMsg(x, FALSE) /\ ButtonMsg(b, TRUE) # ButtonMsg(x, FALSE)
  BY MessageFacts
<1>6. \A s \in Record : Said(KeyReleases \o ButtonReleases, KeyMsg(s, FALSE))
  BY <1>1, <1>2, SaidMore
<1>7. \A b \in remoteButtons : Said(KeyReleases \o ButtonReleases, ButtonMsg(b, FALSE))
  BY <1>1, <1>2, SaidMore
<1>8. KeyReleases \o ButtonReleases \in Seq(Messages)
  BY <1>1, <1>2
<1>q. QED
  BY <1>3, <1>4, <1>5, <1>6, <1>7, <1>8

(* The record with a key more, or without some.                             *)
LEMMA RecordExtended ==
  ASSUME DataOK, NEW p, NEW s \in Keysyms, pressedKeys' = Extended(pressedKeys, p, s)
  PROVE  /\ Record' \subseteq Keysyms /\ IsFiniteSet(DOMAIN pressedKeys') /\ s \in Record'
         /\ \A t \in Record \ Record' :
              p \in DOMAIN pressedKeys /\ pressedKeys[p] = t /\ t # s
<1>1. /\ DOMAIN pressedKeys' = DOMAIN pressedKeys \cup {p} /\ pressedKeys'[p] = s
      /\ \A q \in DOMAIN pressedKeys : q # p => pressedKeys'[q] = pressedKeys[q]
  BY DEF Extended
<1>2. IsFiniteSet(DOMAIN pressedKeys')
  BY <1>1, FS_AddElement DEF DataOK
<1>3. Record' \subseteq Record \cup {s} /\ s \in Record'
  BY <1>1 DEF Record
<1>4. ASSUME NEW t \in Record \ Record'
      PROVE  p \in DOMAIN pressedKeys /\ pressedKeys[p] = t /\ t # s
  <2>1. PICK q \in DOMAIN pressedKeys : pressedKeys[q] = t
    BY DEF Record
  <2>2. q = p
    BY <1>1, <2>1, <1>4 DEF Record
  <2>q. QED
    BY <1>3, <2>1, <2>2
<1>q. QED
  BY <1>2, <1>3, <1>4 DEF DataOK

LEMMA RecordWithout ==
  ASSUME DataOK, NEW S, NEW s,
         \A q \in DOMAIN pressedKeys \cap S : pressedKeys[q] = s,
         pressedKeys' = Without(pressedKeys, S)
  PROVE  /\ Record' \subseteq Keysyms /\ IsFiniteSet(DOMAIN pressedKeys')
         /\ \A t \in Record \ Record' : t = s
<1>1. /\ DOMAIN pressedKeys' = DOMAIN pressedKeys \ S
      /\ \A q \in DOMAIN pressedKeys' : pressedKeys'[q] = pressedKeys[q]
  BY DEF Without
<1>2. IsFiniteSet(DOMAIN pressedKeys')
  BY <1>1, FS_Subset DEF DataOK
<1>3. Record' \subseteq Record
  BY <1>1 DEF Record
<1>4. ASSUME NEW t \in Record \ Record'
      PROVE  t = s
  <2>1. PICK q \in DOMAIN pressedKeys : pressedKeys[q] = t
    BY DEF Record
  <2>2. q \in S
    BY <1>1, <2>1, <1>4 DEF Record
  <2>q. QED
    BY <2>1, <2>2
<1>q. QED
  BY <1>2, <1>3, <1>4 DEF DataOK

LEMMA RecordEmpty ==
  ASSUME pressedKeys' = <<>>
  PROVE  Record' = {} /\ IsFiniteSet(DOMAIN pressedKeys')
<1>1. DOMAIN pressedKeys' = {}
  OBVIOUS
<1>q. QED
  BY <1>1, FS_EmptySet DEF Record

(* One message about one keysym: a release of it, or a press that is put on *)
(* record.                                                                  *)
LEMMA OneRelease ==
  ASSUME NEW s \in Keysyms
  PROVE  /\ <<KeyMsg(s, FALSE)>> \in Seq(Messages) /\ Said(<<KeyMsg(s, FALSE)>>, KeyMsg(s, FALSE))
         /\ \A t : Answered(<<KeyMsg(s, FALSE)>>, KeyMsg(t, TRUE), KeyMsg(t, FALSE))
         /\ \A b : Answered(<<KeyMsg(s, FALSE)>>, ButtonMsg(b, TRUE), ButtonMsg(b, FALSE))
<1>1. KeyMsg(s, FALSE) \in Messages
  BY MessageFacts
<1>2. /\ \A t : KeyMsg(s, FALSE) # KeyMsg(t, TRUE)
      /\ \A b : KeyMsg(s, FALSE) # ButtonMsg(b, TRUE)
  BY MessageFacts
<1>q. QED
  BY <1>1, <1>2, OneMessage

LEMMA OnePress ==
  ASSUME NEW s \in Keysyms
  PROVE  /\ <<KeyMsg(s, TRUE)>> \in Seq(Messages)
         /\ \A t : t # s => Answered(<<KeyMsg(s, TRUE)>>, KeyMsg(t, TRUE), KeyMsg(t, FALSE))
         /\ \A b : Answered(<<KeyMsg(s, TRUE)>>, ButtonMsg(b, TRUE), ButtonMsg(b, FALSE))
<1>1. KeyMsg(s, TRUE) \in Messages
  BY MessageFacts
<1>2. /\ \A t : t # s => KeyMsg(s, TRUE) # KeyMsg(t, TRUE)
      /\ \A b : KeyMsg(s, TRUE) # ButtonMsg(b, TRUE)
  BY MessageFacts
<1>q. QED
  BY <1>1, <1>2, OneMessage

-----------------------------------------------------------------------------
(* The window's handlers. What the OS may spell a key as, the protocol has. *)
LEMMA KeyDownFine ==
  ASSUME InputInv, NEW p \in Keys, NEW again, KeyDown(p, again),
         UNCHANGED <<keyboardVars, served, buttons, link, remoteButtons>>
  PROVE  InputInv'
<1> USE DEF InputInv
<1>0. DataOK /\ remoteButtons' \subseteq Buttons /\ IsFiniteSet(remoteButtons')
  BY DEF DataOK
<1>1. CASE UNCHANGED <<pressedKeys, stream>>
  BY <1>1, WindowIdle
<1>2. CASE pressedKeys' = pressedKeys /\ Send(Attention)
  <2>1. CASE link = "up"
    <3>1. stream' = stream \o Attention
      BY <1>2, <2>1 DEF Send
    <3>2. Record' = Record
      BY <1>2 DEF Record
    <3>3. Record' \subseteq Keysyms /\ IsFiniteSet(DOMAIN pressedKeys')
      BY <1>2, <3>2 DEF DataOK
    <3> HIDE DEF InputInv
    <3>q. QED
      BY <1>0, <2>1, <3>1, <3>2, <3>3, AttentionSettles, WindowSends
  <2>2. CASE link # "up"
    BY <1>2, <2>2, WindowIdle DEF Send
  <2>q. QED
    BY <2>1, <2>2
<1>3. CASE pressedKeys' = pressedKeys /\ Send(<<>>)
  <2>1. stream' = stream
    BY <1>3, <1>0 DEF Send, DataOK
  <2>q. QED
    BY <1>3, <2>1, WindowIdle
<1>4. ASSUME NEW s \in Keysyms, link = "up", pressedKeys' = Extended(pressedKeys, p, s),
             NEW respelt \in BOOLEAN, respelt = (p \in DOMAIN pressedKeys /\ pressedKeys[p] # s),
             Send((IF respelt THEN <<KeyMsg(pressedKeys[p], FALSE)>> ELSE <<>>) \o <<KeyMsg(s, TRUE)>>)
      PROVE  InputInv'
  <2> DEFINE old == IF respelt THEN <<KeyMsg(pressedKeys[p], FALSE)>> ELSE <<>>
             new == <<KeyMsg(s, TRUE)>>
  <2>1. stream' = stream \o (old \o new)
    BY <1>4 DEF Send
  <2>2. /\ Record' \subseteq Keysyms /\ IsFiniteSet(DOMAIN pressedKeys') /\ s \in Record'
        /\ \A t \in Record \ Record' : p \in DOMAIN pressedKeys /\ pressedKeys[p] = t /\ t # s
    BY <1>0, <1>4, RecordExtended
  <2>3. /\ new \in Seq(Messages)
        /\ \A t : t # s => Answered(new, KeyMsg(t, TRUE), KeyMsg(t, FALSE))
        /\ \A b : Answered(new, ButtonMsg(b, TRUE), ButtonMsg(b, FALSE))
    BY OnePress
  <2>4. /\ old \in Seq(Messages)
        /\ \A t : Answered(old, KeyMsg(t, TRUE), KeyMsg(t, FALSE))
        /\ \A b : Answered(old, ButtonMsg(b, TRUE), ButtonMsg(b, FALSE))
    <3>1. CASE respelt
      <4>1. pressedKeys[p] \in Keysyms
        BY <1>0, <1>4, <3>1 DEF DataOK, Record
      <4>q. QED
        BY <3>1, <4>1, OneRelease
    <3>2. CASE ~respelt
      <4>1. old = <<>> /\ KeyMsg(s, TRUE) \in Messages
        BY <3>2, MessageFacts
      <4>q. QED
        BY <4>1, OneMessage
    <3>q. QED
      BY <3>1, <3>2
  <2>5. \A t \in Record \ Record' : Said(old, KeyMsg(t, FALSE))
    <3> SUFFICES ASSUME NEW t \in Record \ Record' PROVE Said(old, KeyMsg(t, FALSE))
      OBVIOUS
    <3>1. respelt /\ pressedKeys[p] = t /\ t \in Keysyms
      BY <1>0, <1>4, <2>2 DEF DataOK
    <3>q. QED
      BY <3>1, OneRelease
  <2> HIDE DEF old, new
  <2>6. old \o new \in Seq(Messages)
    BY <2>3, <2>4
  <2>7. \A t \in Keysyms \ Record' :
          /\ Answered(old \o new, KeyMsg(t, TRUE), KeyMsg(t, FALSE))
          /\ t \in Record => Said(old \o new, KeyMsg(t, FALSE))
    BY <2>2, <2>3, <2>4, <2>5, AnsweredMore, SaidMore
  <2>8. \A b \in Buttons : Answered(old \o new, ButtonMsg(b, TRUE), ButtonMsg(b, FALSE))
    BY <2>3, <2>4, AnsweredMore
  <2> HIDE DEF InputInv
  <2>q. QED
    BY <1>0, <1>4, <2>1, <2>2, <2>6, <2>7, <2>8, WindowSends
<1>5. Spellings[p] \subseteq Keysyms
  BY InputAssumption
<1>6. ASSUME NEW s \in Spellings[p], link = "up",
             LET respelt == p \in DOMAIN pressedKeys /\ pressedKeys[p] # s
             IN /\ Send((IF respelt THEN <<KeyMsg(pressedKeys[p], FALSE)>> ELSE <<>>)
                          \o <<KeyMsg(s, TRUE)>>)
                /\ pressedKeys' = Extended(pressedKeys, p, s)
      PROVE  InputInv'
  <2> DEFINE respelt == p \in DOMAIN pressedKeys /\ pressedKeys[p] # s
  <2>1. respelt \in BOOLEAN
    OBVIOUS
  <2>q. QED
    BY <1>4, <1>5, <1>6, <2>1
<1> HIDE DEF InputInv
<1>q. QED
  BY <1>1, <1>2, <1>3, <1>6 DEF KeyDown
LEMMA KeyUpFine ==
  ASSUME InputInv, NEW p \in Keys, KeyUp(p),
         UNCHANGED <<keyboardVars, served, buttons, link, remoteButtons>>
  PROVE  InputInv'
<1>0. DataOK /\ remoteButtons' \subseteq Buttons /\ IsFiniteSet(remoteButtons')
  BY DEF DataOK, InputInv
<1>1. CASE UNCHANGED <<pressedKeys, stream>>
  BY <1>1, WindowIdle
<1>2. ASSUME NEW s \in Keysyms, NEW S, \A q \in DOMAIN pressedKeys \cap S : pressedKeys[q] = s,
             link = "up", Send(<<KeyMsg(s, FALSE)>>), pressedKeys' = Without(pressedKeys, S)
      PROVE  InputInv'
  <2>1. stream' = stream \o <<KeyMsg(s, FALSE)>>
    BY <1>2 DEF Send
  <2>2. /\ Record' \subseteq Keysyms /\ IsFiniteSet(DOMAIN pressedKeys')
        /\ \A t \in Record \ Record' : t = s
    BY <1>0, <1>2, RecordWithout
  <2>3. /\ <<KeyMsg(s, FALSE)>> \in Seq(Messages) /\ Said(<<KeyMsg(s, FALSE)>>, KeyMsg(s, FALSE))
        /\ \A t : Answered(<<KeyMsg(s, FALSE)>>, KeyMsg(t, TRUE), KeyMsg(t, FALSE))
        /\ \A b : Answered(<<KeyMsg(s, FALSE)>>, ButtonMsg(b, TRUE), ButtonMsg(b, FALSE))
    BY OneRelease
  <2>q. QED
    BY <1>0, <1>2, <2>1, <2>2, <2>3, WindowSends
<1>3. CASE /\ link = "up" /\ p \in DOMAIN pressedKeys
           /\ Send(<<KeyMsg(pressedKeys[p], FALSE)>>)
           /\ pressedKeys' = Without(pressedKeys, {p})
  <2>1. pressedKeys[p] \in Keysyms
    BY <1>0, <1>3 DEF DataOK, Record
  <2>q. QED
    BY <1>2, <1>3, <2>1
<1>4. ASSUME link = "up", NEW s \in Spellings[p], Send(<<KeyMsg(s, FALSE)>>),
             pressedKeys' = Without(pressedKeys, {q \in DOMAIN pressedKeys : pressedKeys[q] = s})
      PROVE  InputInv'
  <2>1. s \in Keysyms
    BY InputAssumption
  <2>q. QED
    BY <1>2, <1>4, <2>1
<1>q. QED
  BY <1>1, <1>3, <1>4 DEF KeyUp

LEMMA StrikeFine ==
  ASSUME InputInv, NEW p \in Keys, Strike(p)
  PROVE  InputInv'
<1>1. UNCHANGED <<keyboardVars, served, buttons, link, remoteButtons>>
  BY DEF Strike
<1>2. CASE UNCHANGED <<pressedKeys, stream>>
  BY <1>1, <1>2, WindowIdle
<1>3. CASE \E again \in BOOLEAN : KeyDown(p, again)
  BY <1>1, <1>3, KeyDownFine
<1>4. CASE KeyUp(p)
  BY <1>1, <1>4, KeyUpFine
<1>q. QED
  BY <1>2, <1>3, <1>4 DEF Strike

LEMMA ClickFine ==
  ASSUME InputInv, NEW b \in Buttons, Click(b)
  PROVE  InputInv'
<1>0. DataOK /\ UNCHANGED <<keyboardVars, served, buttons, link, pressedKeys>>
  BY DEF Click, InputInv
<1>1. Record' = Record /\ Record' \subseteq Keysyms /\ IsFiniteSet(DOMAIN pressedKeys')
  BY <1>0 DEF Record, DataOK
<1>2. CASE UNCHANGED <<remoteButtons, stream>>
  BY <1>0, <1>2, WindowIdle
<1>3. CASE remoteButtons' = remoteButtons /\ Send(Attention)
  <2>1. remoteButtons' \subseteq Buttons /\ IsFiniteSet(remoteButtons')
    BY <1>0, <1>3 DEF DataOK
  <2>2. CASE link = "up"
    <3>1. stream' = stream \o Attention
      BY <1>3, <2>2 DEF Send
    <3>q. QED
      BY <1>0, <1>1, <1>3, <2>1, <2>2, <3>1, AttentionSettles, WindowSends
  <2>3. CASE link # "up"
    BY <1>0, <1>3, <2>3, WindowIdle DEF Send
  <2>q. QED
    BY <2>2, <2>3
<1>4. CASE remoteButtons' = remoteButtons /\ Send(<<>>)
  <2>1. stream' = stream
    BY <1>4, <1>0 DEF Send, DataOK
  <2>q. QED
    BY <1>0, <1>4, <2>1, WindowIdle
<1>5. ASSUME link = "up", NEW d \in BOOLEAN, Send(<<ButtonMsg(b, d)>>),
             remoteButtons' = IF d THEN remoteButtons \cup {b} ELSE remoteButtons \ {b}
      PROVE  InputInv'
  <2> DEFINE msgs == <<ButtonMsg(b, d)>>
  <2>1. stream' = stream \o msgs
    BY <1>5 DEF Send
  <2>2. remoteButtons' \subseteq Buttons /\ IsFiniteSet(remoteButtons')
    BY <1>0, <1>5, FS_AddElement, FS_RemoveElement DEF DataOK
  <2>3. ButtonMsg(b, d) \in Messages /\ \A s : ButtonMsg(b, d) # KeyMsg(s, TRUE)
    BY MessageFacts
  <2>4. /\ msgs \in Seq(Messages) /\ Said(msgs, ButtonMsg(b, d))
        /\ \A on, off : ButtonMsg(b, d) # on => Answered(msgs, on, off)
    BY <2>3, OneMessage
  <2>5. \A c \in Buttons \ remoteButtons' : ButtonMsg(b, d) # ButtonMsg(c, TRUE)
    BY <1>5, MessageFacts
  <2>6. \A c \in remoteButtons \ remoteButtons' : ButtonMsg(b, d) = ButtonMsg(c, FALSE)
    BY <1>5
  <2> HIDE DEF msgs
  <2>q. QED
    BY <1>0, <1>1, <1>5, <2>1, <2>2, <2>3, <2>4, <2>5, <2>6, WindowSends
<1>6. CASE /\ link = "up"
           /\ remoteButtons' = IF b \in hands THEN remoteButtons \ {b} ELSE remoteButtons \cup {b}
           /\ Send(<<ButtonMsg(b, b \notin hands)>>)
  <2>1. CASE b \in hands
    <3>1. (b \notin hands) = FALSE
      BY <2>1
    <3>q. QED
      BY <1>5, <1>6, <2>1, <3>1
  <2>2. CASE b \notin hands
    <3>1. (b \notin hands) = TRUE
      BY <2>2
    <3>q. QED
      BY <1>5, <1>6, <2>2, <3>1
  <2>q. QED
    BY <2>1, <2>2
<1>q. QED
  BY <1>2, <1>3, <1>4, <1>6 DEF Click

LEMMA OpenPanelFine ==
  ASSUME InputInv, OpenPanel
  PROVE  InputInv'
<1>0. DataOK /\ UNCHANGED <<keyboardVars, served, buttons, link>>
  BY DEF OpenPanel, InputInv
<1>1. pressedKeys' = <<>> /\ remoteButtons' = {} /\ Send(KeyReleases \o ButtonReleases)
  BY DEF OpenPanel, ForgetKeys, ForgetButtons
<1>2. Record' = {} /\ IsFiniteSet(DOMAIN pressedKeys') /\ IsFiniteSet(remoteButtons')
  BY <1>1, RecordEmpty, FS_EmptySet
<1>3. CASE link = "up"
  <2>1. stream' = stream \o (KeyReleases \o ButtonReleases)
    BY <1>1, <1>3 DEF Send
  <2>q. QED
    BY <1>0, <1>1, <1>2, <1>3, <2>1, AllLetGo, WindowSends
<1>4. CASE link # "up"
  <2>1. stream' = stream /\ stream \in Seq(Messages) /\ link' \in {"down", "over"}
    BY <1>0, <1>1, <1>4 DEF Send, DataOK
  <2>q. QED
    BY <1>0, <1>1, <1>2, <2>1, WindowCutOff
<1>q. QED
  BY <1>3, <1>4

LEMMA FocusLostFine ==
  ASSUME InputInv, FocusLost
  PROVE  InputInv'
<1>0. DataOK /\ UNCHANGED <<keyboardVars, served, buttons, link>>
  BY DEF FocusLost, InputInv
<1>1. remoteButtons' = {} /\ IsFiniteSet(remoteButtons')
  BY FS_EmptySet DEF FocusLost, ForgetButtons
<1>3. CASE link = "up"
  <2>0. pressedKeys' = <<>> /\ Send(KeyReleases \o ButtonReleases)
    BY <1>3 DEF FocusLost, ForgetKeys
  <2>1. stream' = stream \o (KeyReleases \o ButtonReleases)
    BY <2>0, <1>3 DEF Send
  <2>2. Record' = {} /\ IsFiniteSet(DOMAIN pressedKeys')
    BY <2>0, RecordEmpty
  <2>q. QED
    BY <1>0, <1>1, <1>3, <2>1, <2>2, AllLetGo, WindowSends
<1>4. CASE link # "up"
  <2>0. pressedKeys' = pressedKeys /\ stream' = stream
    BY <1>4 DEF FocusLost, Send
  <2>1. stream' \in Seq(Messages) /\ link' \in {"down", "over"}
    BY <1>0, <1>4, <2>0 DEF DataOK
  <2>2. Record' \subseteq Keysyms /\ IsFiniteSet(DOMAIN pressedKeys')
    BY <1>0, <2>0 DEF DataOK, Record
  <2>q. QED
    BY <1>0, <1>1, <2>1, <2>2, WindowCutOff
<1>q. QED
  BY <1>3, <1>4

LEMMA ExitFine ==
  ASSUME InputInv, Exit
  PROVE  InputInv'
<1>0. DataOK /\ link' = "over" /\ UNCHANGED <<keyboardVars, served, buttons, remoteButtons>>
  BY DEF Exit, InputInv
<1>1. stream' \in Seq(Messages)
  <2> DEFINE bye == <<KeyMsg(Shift, FALSE)>>
  <2>1. Shift \in Keysyms
    BY KeyboardAssumption
  <2>2. bye \in Seq(Messages)
    BY <2>1, OneRelease
  <2>3. KeyReleases \in Seq(Messages) /\ stream \in Seq(Messages)
    BY <1>0, KeyReleasesCover DEF DataOK
  <2>4. Send(KeyReleases \o bye)
    BY DEF Exit
  <2> HIDE DEF bye
  <2>5. KeyReleases \o bye \in Seq(Messages)
    BY <2>2, <2>3
  <2>6. stream \o (KeyReleases \o bye) \in Seq(Messages)
    BY <2>3, <2>5
  <2>q. QED
    BY <2>3, <2>4, <2>6 DEF Send
<1>2. Record' \subseteq Keysyms /\ IsFiniteSet(DOMAIN pressedKeys')
  <2>1. CASE link = "up"
    BY <2>1, RecordEmpty DEF Exit
  <2>2. CASE link # "up"
    BY <1>0, <2>2 DEF Exit, DataOK, Record
  <2>q. QED
    BY <2>1, <2>2
<1>3. remoteButtons' \subseteq Buttons /\ IsFiniteSet(remoteButtons')
  BY <1>0 DEF DataOK
<1>q. QED
  BY <1>0, <1>1, <1>2, <1>3, WindowCutOff

LEMMA LinkLostFine ==
  ASSUME InputInv, LinkLost
  PROVE  InputInv'
<1>0. /\ DataOK /\ link' = "down"
      /\ UNCHANGED <<keyboardVars, served, buttons, remoteButtons, pressedKeys>>
  BY DEF LinkLost, InputInv, windowVars
<1>1. stream' \in Seq(Messages)
  BY <1>0 DEF LinkLost, DataOK
<1>2. Record' \subseteq Keysyms /\ IsFiniteSet(DOMAIN pressedKeys')
  BY <1>0 DEF DataOK, Record
<1>3. remoteButtons' \subseteq Buttons /\ IsFiniteSet(remoteButtons')
  BY <1>0 DEF DataOK
<1>q. QED
  BY <1>0, <1>1, <1>2, <1>3, WindowCutOff
-----------------------------------------------------------------------------
(* The session's handlers. A new client finds nothing down: what the last   *)
(* one left is let go of, or was when it was dropped.                       *)
LEMMA ConnectFine ==
  ASSUME InputInv, Connect
  PROVE  InputInv'
<1> USE DEF InputInv
<1>1. /\ link' = "up" /\ served' = TRUE /\ stream' = KeyReleases \o ButtonReleases
      /\ pressedKeys' = <<>> /\ remoteButtons' = {} /\ choices' = choices
  BY DEF Connect, ForgetKeys, ForgetButtons
<1>2. pressed' = <<>> /\ buttons' = {} /\ down' = {}
  <2>1. CASE served
    BY <2>1 DEF Connect, HeldOK
  <2>2. CASE ~served
    <3>1. pressed = <<>> /\ buttons = {} /\ down = {}
      BY <2>2 DEF AloneOK, HeldOK
    <3>q. QED
      BY <2>2, <3>1 DEF Connect
  <2>q. QED
    BY <2>1, <2>2
<1>3. Record' = {} /\ IsFiniteSet(DOMAIN pressedKeys') /\ IsFiniteSet(remoteButtons')
  BY <1>1, RecordEmpty, FS_EmptySet
<1>4. DOMAIN pressed' = {}
  BY <1>2
<1>5. RepeatOK'
  <2>1. CASE served
    BY <1>1, <2>1 DEF Connect, Suppress, RepeatOK
  <2>2. CASE ~served
    BY <1>1, <2>2 DEF Connect, Suppress, RepeatOK
  <2>q. QED
    BY <2>1, <2>2
<1>6. DataOK'
  BY <1>1, <1>3, AllLetGo DEF DataOK
<1>7. KeysOK' /\ ButtonsOK'
  BY <1>1, <1>2, <1>4, AllLetGo DEF KeysOK, ButtonsOK
<1>8. HeldOK' /\ SessionOK' /\ AloneOK'
  BY <1>1, <1>2, <1>4 DEF HeldOK, SessionOK, AloneOK
<1>q. QED
  BY <1>5, <1>6, <1>7, <1>8

(* A message is about a key or about a button.                              *)
LEMMA MessageForm ==
  ASSUME NEW m \in Messages
  PROVE  \/ /\ m.type = "key" /\ m.sym \in Keysyms /\ m.down \in BOOLEAN
            /\ m = KeyMsg(m.sym, m.down)
         \/ /\ m.type = "button" /\ m.button \in Buttons /\ m.down \in BOOLEAN
            /\ m = ButtonMsg(m.button, m.down)
BY DEF Messages, KeyMsg, ButtonMsg

(* The session takes a message, and what it puts down is answered by one    *)
(* that is still to come.                                                   *)
LEMMA TakesKey ==
  ASSUME DataOK, KeysOK, stream # <<>>, stream' = Tail(stream),
         UNCHANGED <<link, served, pressedKeys>>,
         \A s \in Keysyms : s \in DOMAIN pressed' =>
            \/ s \in DOMAIN pressed /\ Head(stream) # KeyMsg(s, FALSE)
            \/ Head(stream) = KeyMsg(s, TRUE)
  PROVE  KeysOK'
<1>1. Record' = Record
  BY DEF Record
<1> SUFFICES ASSUME link = "up", served, NEW s \in Keysyms \ Record
             PROVE  /\ s \in DOMAIN pressed' => Said(stream', KeyMsg(s, FALSE))
                    /\ Answered(stream', KeyMsg(s, TRUE), KeyMsg(s, FALSE))
  BY <1>1 DEF KeysOK
<1>2. /\ s \in DOMAIN pressed => Said(stream, KeyMsg(s, FALSE))
      /\ Answered(stream, KeyMsg(s, TRUE), KeyMsg(s, FALSE))
  BY DEF KeysOK
<1>q. QED
  BY <1>2, HeadTaken DEF DataOK

LEMMA TakesButton ==
  ASSUME DataOK, ButtonsOK, stream # <<>>, stream' = Tail(stream),
         UNCHANGED <<link, served, remoteButtons>>,
         \A b \in Buttons : b \in buttons' =>
            \/ b \in buttons /\ Head(stream) # ButtonMsg(b, FALSE)
            \/ Head(stream) = ButtonMsg(b, TRUE)
  PROVE  ButtonsOK'
<1> SUFFICES ASSUME link = "up", served, NEW b \in Buttons \ remoteButtons
             PROVE  /\ b \in buttons' => Said(stream', ButtonMsg(b, FALSE))
                    /\ Answered(stream', ButtonMsg(b, TRUE), ButtonMsg(b, FALSE))
  BY DEF ButtonsOK
<1>2. /\ b \in buttons => Said(stream, ButtonMsg(b, FALSE))
      /\ Answered(stream, ButtonMsg(b, TRUE), ButtonMsg(b, FALSE))
  BY DEF ButtonsOK
<1>q. QED
  BY <1>2, HeadTaken DEF DataOK

LEMMA ReceiveFine ==
  ASSUME InputInv, Receive
  PROVE  InputInv'
<1> DEFINE m == Head(stream)
<1>0. /\ DataOK /\ HeldOK /\ KeysOK /\ ButtonsOK /\ SessionOK /\ RepeatOK
      /\ served /\ stream # <<>> /\ stream' = Tail(stream)
      /\ UNCHANGED <<link, served, pressedKeys, remoteButtons, repeat, original, choices>>
  BY DEF Receive, InputInv, repeatVars, windowVars
<1>1. m \in Messages /\ Tail(stream) \in Seq(Messages)
  BY <1>0 DEF DataOK
<1>2. DataOK'
  BY <1>0, <1>1 DEF DataOK, Record
<1>3. RepeatOK' /\ AloneOK'
  BY <1>0 DEF RepeatOK, AloneOK
<1>4. CASE /\ m.type = "key" /\ buttons' = buttons
           /\ \/ m.down /\ \E now \in BOOLEAN : Press(m.sym, now)
              \/ ~m.down /\ Release(m.sym)
  <2>1. m.sym \in Keysyms /\ m.down \in BOOLEAN /\ m = KeyMsg(m.sym, m.down)
    BY <1>1, <1>4, MessageForm
  <2>2. \A b \in Buttons : m # ButtonMsg(b, FALSE)
    BY <2>1, MessageFacts
  <2>3. /\ HeldOK' /\ DOMAIN pressed' \subseteq Keysyms
        /\ \A s \in Keysyms : s \in DOMAIN pressed' =>
             \/ s \in DOMAIN pressed /\ m # KeyMsg(s, FALSE)
             \/ m = KeyMsg(s, TRUE)
    <3>1. CASE m.down
      <4>1. m = KeyMsg(m.sym, TRUE)
        BY <2>1, <3>1
      <4>2. HeldOK' /\ DOMAIN pressed' \subseteq DOMAIN pressed \cup {m.sym}
        BY <1>0, <1>4, <3>1, PressHeld
      <4>3. \A s \in Keysyms : m # KeyMsg(s, FALSE)
        BY <4>1, MessageFacts
      <4>q. QED
        BY <1>0, <2>1, <4>1, <4>2, <4>3 DEF SessionOK
    <3>2. CASE ~m.down
      <4>1. m = KeyMsg(m.sym, FALSE)
        BY <2>1, <3>2
      <4>2. HeldOK' /\ DOMAIN pressed' \subseteq DOMAIN pressed \ {m.sym}
        BY <1>0, <1>4, <3>2, ReleaseHeld
      <4>3. \A s \in Keysyms : m = KeyMsg(s, FALSE) => s = m.sym
        BY <4>1, MessageFacts
      <4>q. QED
        BY <1>0, <4>2, <4>3 DEF SessionOK
    <3>q. QED
      BY <3>1, <3>2
  <2>4. KeysOK'
    BY <1>0, <2>3, TakesKey
  <2>5. ButtonsOK'
    BY <1>0, <1>4, <2>2, TakesButton
  <2>q. QED
    BY <1>0, <1>2, <1>3, <1>4, <2>3, <2>4, <2>5 DEF InputInv, SessionOK
<1>5. CASE /\ m.type = "button"
           /\ buttons' = IF m.down THEN buttons \cup {m.button} ELSE buttons \ {m.button}
           /\ UNCHANGED <<down, pressed>>
  <2>1. m.button \in Buttons /\ m.down \in BOOLEAN /\ m = ButtonMsg(m.button, m.down)
    BY <1>1, <1>5, MessageForm
  <2>2. \A s \in Keysyms : m # KeyMsg(s, FALSE)
    BY <2>1, MessageFacts
  <2>3. KeysOK'
    BY <1>0, <1>5, <2>2, TakesKey
  <2>4. \A b \in Buttons : b \in buttons' =>
           \/ b \in buttons /\ m # ButtonMsg(b, FALSE)
           \/ m = ButtonMsg(b, TRUE)
    <3>1. CASE m.down
      <4>1. m = ButtonMsg(m.button, TRUE)
        BY <2>1, <3>1
      <4>2. \A b \in Buttons : m # ButtonMsg(b, FALSE)
        BY <4>1, MessageFacts
      <4>q. QED
        BY <1>5, <3>1, <4>1, <4>2
    <3>2. CASE ~m.down
      <4>1. m = ButtonMsg(m.button, FALSE)
        BY <2>1, <3>2
      <4>2. \A b \in Buttons : m = ButtonMsg(b, FALSE) => b = m.button
        BY <4>1, MessageFacts
      <4>q. QED
        BY <1>5, <3>2, <4>2
    <3>q. QED
      BY <3>1, <3>2
  <2>5. ButtonsOK'
    BY <1>0, <2>4, TakesButton
  <2>6. HeldOK' /\ SessionOK'
    BY <1>0, <1>5, <2>1 DEF HeldOK, SessionOK
  <2>q. QED
    BY <1>2, <1>3, <2>3, <2>5, <2>6 DEF InputInv
<1>q. QED
  BY <1>4, <1>5 DEF Receive, keyVars

LEMMA DropFine ==
  ASSUME InputInv, Drop
  PROVE  InputInv'
<1>1. /\ link # "up" /\ served /\ served' = FALSE /\ pressed' = <<>> /\ buttons' = {}
      /\ repeat' = original /\ down' = down \ {pressed[s] : s \in DOMAIN pressed}
      /\ UNCHANGED <<link, stream, pressedKeys, remoteButtons, original, choices>>
  BY DEF Drop, LetGo, windowVars
<1>2. DOMAIN pressed' = {} /\ down' = {}
  BY <1>1 DEF InputInv, HeldOK
<1>3. DataOK'
  BY <1>1 DEF InputInv, DataOK, Record
<1>4. KeysOK' /\ ButtonsOK'
  BY <1>1 DEF KeysOK, ButtonsOK
<1>5. HeldOK' /\ SessionOK' /\ AloneOK'
  BY <1>1, <1>2 DEF HeldOK, SessionOK, AloneOK
<1>6. original \in BOOLEAN /\ original \in choices
  BY <1>1 DEF InputInv, RepeatOK
<1>7. RepeatOK'
  BY <1>1, <1>6 DEF InputInv, RepeatOK
<1>q. QED
  BY <1>3, <1>4, <1>5, <1>7 DEF InputInv

(* The desktop shares the keyboard, and its repeat setting.                 *)
LEMMA DesktopFine ==
  ASSUME InputInv, AtTheDesktop
  PROVE  InputInv'
<1>1. UNCHANGED <<down, pressed, link, stream, served, buttons, pressedKeys, remoteButtons>>
  BY DEF AtTheDesktop, Reload, Reassert, SetLayout, ToggleCaps, SetRepeat, keyVars, windowVars
<1>2. DataOK' /\ HeldOK' /\ KeysOK' /\ ButtonsOK' /\ SessionOK' /\ AloneOK'
  BY <1>1 DEF InputInv, DataOK, HeldOK, KeysOK, ButtonsOK, SessionOK, AloneOK, Record
<1>3. RepeatOK'
  <2>0. RepeatOK
    BY DEF InputInv
  <2>1. CASE UNCHANGED <<repeat, original, choices>>
    BY <1>1, <2>0, <2>1 DEF RepeatOK
  <2>2. CASE served /\ Reassert
    BY <1>1, <2>0, <2>2 DEF RepeatOK, Reassert
  <2>3. CASE SetRepeat(served)
    BY <1>1, <2>0, <2>3 DEF RepeatOK, SetRepeat
  <2>q. QED
    BY <2>1, <2>2, <2>3 DEF AtTheDesktop, Reload, SetLayout, ToggleCaps, repeatVars
<1>q. QED
  BY <1>2, <1>3 DEF InputInv

-----------------------------------------------------------------------------
LEMMA InputInit == Init => InputInv
<1> SUFFICES ASSUME Init PROVE InputInv
  OBVIOUS
<1> USE DEF Init, KeyboardInit
<1>1. DOMAIN pressedKeys = {} /\ DOMAIN pressed = {} /\ IsFiniteSet({})
  BY FS_EmptySet
<1>2. DataOK
  BY <1>1 DEF DataOK, Record
<1>3. HeldOK /\ KeysOK /\ ButtonsOK /\ SessionOK /\ AloneOK /\ RepeatOK
  BY <1>1 DEF HeldOK, KeysOK, ButtonsOK, SessionOK, AloneOK, RepeatOK
<1>q. QED
  BY <1>2, <1>3 DEF InputInv

LEMMA InputNext == InputInv /\ [Next]_vars => InputInv'
<1> SUFFICES ASSUME InputInv, [Next]_vars PROVE InputInv'
  OBVIOUS
<1>1. CASE \E p \in Keys : Strike(p)
  BY <1>1, StrikeFine
<1>2. CASE \E b \in Buttons : Click(b)
  BY <1>2, ClickFine
<1>3. CASE Move \/ FocusGained
  BY <1>3, WindowIdle DEF Move, FocusGained
<1>4. CASE OpenPanel
  BY <1>4, OpenPanelFine
<1>5. CASE FocusLost
  BY <1>5, FocusLostFine
<1>6. CASE LinkLost
  BY <1>6, LinkLostFine
<1>7. CASE Connect
  BY <1>7, ConnectFine
<1>8. CASE Exit
  BY <1>8, ExitFine
<1>9. CASE Receive
  BY <1>9, ReceiveFine
<1>10. CASE Drop
  BY <1>10, DropFine
<1>11. CASE AtTheDesktop
  BY <1>11, DesktopFine
<1>12. CASE UNCHANGED vars
  BY <1>12, WindowIdle DEF vars, windowVars
<1>q. QED
  BY <1>1, <1>2, <1>3, <1>4, <1>5, <1>6, <1>7, <1>8, <1>9, <1>10, <1>11, <1>12 DEF Next

(* What the session has read all of leaves nothing it could let go of but   *)
(* what is on the window's record.                                          *)
LEMMA InputInvGives == InputInv => OnRecord
<1> SUFFICES ASSUME InputInv PROVE OnRecord
  OBVIOUS
<1> USE DEF InputInv
<1>1. ASSUME AtRest, NEW kc \in down
      PROVE  \E p \in DOMAIN pressedKeys :
               pressedKeys[p] \in DOMAIN pressed /\ pressed[pressedKeys[p]] = kc
  <2>1. PICK s \in DOMAIN pressed : pressed[s] = kc
    BY <1>1 DEF HeldOK
  <2>2. s \in Keysyms /\ ~Said(stream, KeyMsg(s, FALSE))
    BY <1>1 DEF SessionOK, AtRest, Said
  <2>3. s \in Record
    BY <1>1, <2>1, <2>2 DEF KeysOK, AtRest
  <2>q. QED
    BY <2>1, <2>3 DEF Record
<1>2. ASSUME AtRest, NEW b \in buttons
      PROVE  b \in remoteButtons
  <2>1. b \in Buttons /\ ~Said(stream, ButtonMsg(b, FALSE))
    BY <1>2 DEF SessionOK, AtRest, Said
  <2>q. QED
    BY <1>2, <2>1 DEF ButtonsOK, AtRest
<1>3. ~served => down = {} /\ buttons = {} /\ repeat \in choices
  BY DEF AloneOK, HeldOK, RepeatOK
<1>q. QED
  BY <1>1, <1>2, <1>3 DEF OnRecord

(* Whatever is down at the session's X server when the session has read all *)
(* it was sent is on the window's record, and a session without a client    *)
(* holds nothing down: pressed_keys, resync_input, release_all.             *)
THEOREM Recorded == Spec => []OnRecord
<1>1. Spec => []InputInv
  BY InputInit, InputNext, PTL DEF Spec
<1>q. QED
  BY <1>1, InputInvGives, PTL

-----------------------------------------------------------------------------
(* What a press types. Shift stays on a key of its own, nothing else is     *)
(* found or bound there, the session has it down exactly while it thinks it *)
(* does, and an up-to-date table says of each location what the X server    *)
(* has there. A keycode that is ever bound has one keysym on it at most, so *)
(* that of its binding: when it is recycled, no other is found there.       *)
ShiftKey == CHOOSE k \in Keycodes : \A m \in Layouts : ShiftAlone(m, k)
Others == Keycodes \ {ShiftKey}

Mappings == [Keycodes -> (Keysyms \cup {None}) \X (Keysyms \cup {None})]
Places == [keycode : Keycodes, level : {0, 1}, lock : BOOLEAN]
Bindings == [sym : Keysyms, keycode : Bindable]
Locks == BOOLEAN

Single(row) == row[1] = None \/ row[2] \in {row[1], None}
MapOK(m) ==
  /\ m \in Mappings /\ ShiftAlone(m, ShiftKey)
  /\ \A k \in Bindable : Single(m[k])
  /\ Empty(m) \subseteq Bindable

TableOK(t) ==
  /\ t \in [Keysyms -> SUBSET Places]
  /\ \E loc \in t[Shift] : loc.level = 0
  /\ \A loc \in t[Shift] : loc.keycode = ShiftKey
  /\ \A s \in Keysyms \ {Shift} : \A loc \in t[s] : loc.keycode # ShiftKey

(* The row under loc has s where Shift and the lock will select it.         *)
RowHas(m, loc, s) ==
  /\ m[loc.keycode][loc.level + 1] = s
  /\ loc.lock = Alphabetic(m[loc.keycode])

Agrees(t, m) == \A s \in Keysyms : \A loc \in t[s] : RowHas(m, loc, s)

HeldRight(p) ==
  /\ DOMAIN p \subseteq Keysyms
  /\ \A s \in DOMAIN p : p[s] \in Keycodes /\ (p[s] = ShiftKey <=> s = Shift)

ShiftOK ==
  /\ HeldRight(pressed)
  /\ Shift \in DOMAIN pressed <=> Shift \in mods
  /\ Shift \in DOMAIN pressed => ShiftKey \in down

Distinct(d) == \A i, j \in DOMAIN d : d[i].keycode = d[j].keycode => i = j
BindingsOK ==
  /\ spares \subseteq Bindable /\ dynamic \in Seq(Bindings)
  /\ Distinct(dynamic) /\ spares \cap BoundCodes(dynamic) = {}

(* What there is to bind, and the bindings, are what the X server has.      *)
BoundAs(m, b) == b.sym \in {m[b.keycode][1], m[b.keycode][2]}
BindingsAgree(sp, d, m) == sp = Empty(m) /\ \A i \in DOMAIN d : BoundAs(m, d[i])

TypedInv ==
  /\ MapOK(map) /\ caps \in BOOLEAN /\ stale \in BOOLEAN
  /\ TableOK(lookup) /\ (~stale => Agrees(lookup, map) /\ BindingsAgree(spares, dynamic, map))
  /\ ShiftOK /\ BindingsOK
  /\ mistyped = FALSE

-----------------------------------------------------------------------------
(* Every layout has Shift alone on its key, and one keysym at most on a     *)
(* keycode that can be bound.                                               *)
LEMMA ShiftKeyFact ==
  ASSUME ShiftStays, SparesStay
  PROVE  /\ ShiftKey \in Keycodes /\ \A m \in Layouts : MapOK(m)
         /\ Bindable \subseteq Others
<1>1. ShiftKey \in Keycodes /\ \A m \in Layouts : ShiftAlone(m, ShiftKey)
  BY DEF ShiftStays, ShiftKey
<1>2. Bindable \subseteq Others
  <2>1. \A m \in Layouts : m[ShiftKey][1] = Shift
    BY <1>1 DEF ShiftAlone
  <2>2. Shift # None /\ <<None, None>>[1] = None
    BY KeyboardAssumption
  <2>q. QED
    BY <2>1, <2>2 DEF Bindable, Others
<1>3. \A m \in Layouts : m \in Mappings /\ Empty(m) \subseteq Bindable
  BY KeyboardAssumption DEF Mappings, Empty, Bindable
<1>4. \A m \in Layouts : \A k \in Bindable : Single(m[k])
  BY DEF SparesStay, Single
<1>q. QED
  BY <1>1, <1>2, <1>3, <1>4 DEF MapOK

(* Of a set that is measured in naturals, something measures least.         *)
LEMMA LeastMeasure ==
  ASSUME NEW S, S # {}, NEW f, \A x \in S : f[x] \in Nat
  PROVE  \E x \in S : \A y \in S : f[x] <= f[y]
<1> DEFINE T == {f[x] : x \in S}
<1>1. T \subseteq Nat /\ T # {}
  OBVIOUS
<1>2. PICK n \in T : \A k \in T : ~(<<k, n>> \in OpToRel(<, Nat))
  BY <1>1, NatLessThanWellFounded, WFMin
<1>n. \A k \in T : ~(k < n)
  BY <1>1, <1>2 DEF OpToRel
<1>3. \A k \in T : n <= k
  BY <1>1, <1>n
<1>4. PICK x \in S : f[x] = n
  OBVIOUS
<1>q. QED
  BY <1>3, <1>4

(* Min is the least of a set that is not empty.                             *)
LEMMA MinIsThere ==
  ASSUME NEW S, S # {}, S \subseteq Nat
  PROVE  Min(S) \in S /\ \A x \in S : Min(S) <= x
<1> DEFINE f == [x \in S |-> x]
<1>1. \A x \in S : f[x] = x
  OBVIOUS
<1> HIDE DEF f
<1>2. \E x \in S : \A y \in S : f[x] <= f[y]
  BY <1>1, LeastMeasure
<1>3. \E x \in S : \A y \in S : x <= y
  BY <1>1, <1>2
<1>q. QED
  BY <1>3 DEF Min

(* Keymap::find gives a location of the keysym, if there is one.            *)
LEMMA FindIsThere ==
  ASSUME NEW t \in [Keysyms -> SUBSET Places], NEW s \in Keysyms, Known(t, s)
  PROVE  Find(t, s) \in t[s] /\ Find(t, s) \in Places
<1> DEFINE rank(loc) == loc.level * 1000 + loc.keycode
           f == [loc \in t[s] |-> rank(loc)]
<1>1. t[s] \subseteq Places /\ t[s] # {}
  BY DEF Known
<1>2. ASSUME NEW loc \in Places PROVE rank(loc) \in Nat
  <2>1. loc.level \in {0, 1} /\ loc.keycode \in Nat
    BY KeyboardAssumption DEF Places
  <2>q. QED
    BY <2>1
<1> HIDE DEF rank
<1>3. \A loc \in t[s] : f[loc] \in Nat /\ f[loc] = rank(loc)
  BY <1>1, <1>2
<1> HIDE DEF f
<1>4. \E loc \in t[s] : \A other \in t[s] : rank(loc) <= rank(other)
  BY <1>1, <1>3, LeastMeasure
<1>5. Find(t, s) \in t[s]
  BY <1>4 DEF Find, rank
<1>q. QED
  BY <1>1, <1>5

(* Keymap::from_reply reads what the X server has.                          *)
LEMMA LocationsFact ==
  ASSUME NEW m \in Mappings
  PROVE  /\ Locations(m) \in [Keysyms -> SUBSET Places]
         /\ Agrees(Locations(m), m)
<1>1. \A s \in Keysyms : \A loc \in Locations(m)[s] :
        /\ loc \in Places
        /\ m[loc.keycode][loc.level + 1] = s
        /\ \E k \in Keycodes, l \in {0, 1} : loc = [keycode |-> k, level |-> l, lock |-> Alphabetic(m[k])]
  BY DEF Locations, Places
<1>2. \A s \in Keysyms : \A loc \in Locations(m)[s] : loc.lock = Alphabetic(m[loc.keycode])
  BY <1>1
<1>3. DOMAIN Locations(m) = Keysyms /\ Locations(m) = [s \in Keysyms |-> Locations(m)[s]]
  BY DEF Locations
<1>4. \A s \in Keysyms : Locations(m)[s] \in SUBSET Places
  BY <1>1
<1>q. QED
  BY <1>1, <1>2, <1>3, <1>4 DEF Agrees, RowHas

(* ... and so finds Shift, and only Shift, on its key.                      *)
LEMMA LocationsOK ==
  ASSUME NEW m, MapOK(m), ShiftKey \in Keycodes
  PROVE  TableOK(Locations(m)) /\ Agrees(Locations(m), m)
<1>1. m \in Mappings /\ ShiftAlone(m, ShiftKey)
  BY DEF MapOK
<1>2. Locations(m) \in [Keysyms -> SUBSET Places] /\ Agrees(Locations(m), m)
  BY <1>1, LocationsFact
<1>3. /\ m[ShiftKey][1] = Shift /\ m[ShiftKey][2] \in {Shift, None}
      /\ \A o \in Others : m[o][1] # Shift /\ m[o][2] # Shift
  BY <1>1 DEF ShiftAlone, Others
<1>4. \A s \in Keysyms : \A loc \in Locations(m)[s] :
        loc.keycode \in Keycodes /\ (m[loc.keycode][1] = s \/ m[loc.keycode][2] = s)
  BY <1>2 DEF Agrees, RowHas, Places
<1>5. Shift \in Keysyms /\ None \notin Keysyms
  BY KeyboardAssumption
<1>6. \A loc \in Locations(m)[Shift] : loc.keycode = ShiftKey
  BY <1>3, <1>4, <1>5 DEF Others
<1>7. \A s \in Keysyms \ {Shift} : \A loc \in Locations(m)[s] : loc.keycode # ShiftKey
  BY <1>3, <1>4, <1>5
<1>8. \E loc \in Locations(m)[Shift] : loc.level = 0
  <2> DEFINE loc == [keycode |-> ShiftKey, level |-> 0, lock |-> Alphabetic(m[ShiftKey])]
  <2>1. Alphabetic(m[ShiftKey]) \in BOOLEAN
    BY DEF Alphabetic
  <2>2. loc \in Places /\ loc.keycode = ShiftKey /\ loc.level = 0
    BY <2>1 DEF Places
  <2>3. m[loc.keycode][loc.level + 1] = Shift
    BY <1>3, <2>2
  <2>4. loc \in Locations(m)[Shift]
    BY <1>5, <2>2, <2>3 DEF Locations, Places
  <2>q. QED
    BY <2>2, <2>4
<1>q. QED
  BY <1>2, <1>6, <1>7, <1>8 DEF TableOK

-----------------------------------------------------------------------------
(* A property of 0 that i hands on to i + 1 holds up to n.                  *)
LEMMA Upwards ==
  ASSUME NEW n \in Nat, NEW S, 0 \in S, \A i \in 0..(n - 1) : i \in S => i + 1 \in S
  PROVE  \A i \in 0..n : i \in S
<1> DEFINE T == {i \in 0..n : i \notin S}
<1>1. CASE T = {}
  BY <1>1
<1>2. CASE T # {}
  <2> DEFINE m == Min(T)
  <2>3. m \in T /\ \A k \in T : m <= k
    BY <1>2, MinIsThere
  <2> HIDE DEF m
  <2>4. m # 0 /\ m - 1 \in 0..(n - 1) /\ ~(m <= m - 1) /\ m - 1 + 1 = m
    BY <2>3
  <2>5. m - 1 \in S
    BY <2>3, <2>4
  <2>q. QED
    BY <2>3, <2>4, <2>5
<1>q. QED
  BY <1>1, <1>2

(* The recursion of Surviving has a solution: bindings of d, found where    *)
(* they were made, each on a keycode of its own if those of d are.          *)
Kept(B, d, t, i, e) ==
  /\ e \in Seq(B) /\ Distinct(e)
  /\ \A a \in DOMAIN e :
       /\ Known(t, e[a].sym) /\ Find(t, e[a].sym).keycode = e[a].keycode
       /\ \E c \in 1..i : e[a] = d[c]

LEMMA SurvivingOK ==
  ASSUME NEW B, NEW d \in Seq(B), NEW t, Distinct(d)
  PROVE  Kept(B, d, t, Len(d), Surviving(d, t))
<1> DEFINE found(b) == Known(t, b.sym) /\ Find(t, b.sym).keycode = b.keycode
           next(last, i) == IF found(d[i]) THEN Append(last, d[i]) ELSE last
           to(f, m) == f = [i \in 0..m |-> IF i = 0 THEN <<>> ELSE next(f[i - 1], i)]
           n == Len(d)
           F == CHOOSE f : to(f, n)
           S == {m \in Nat : \E f : to(f, m)}
<1>1. Surviving(d, t) = F[n]
  BY DEF Surviving
<1>2. n \in Nat /\ DOMAIN d = 1..n /\ \A i \in 1..n : d[i] \in B
  OBVIOUS
<1>3. ASSUME NEW i \in 1..n, NEW last, Kept(B, d, t, i - 1, last)
      PROVE  Kept(B, d, t, i, next(last, i))
  <2>1. /\ last \in Seq(B) /\ Distinct(last) /\ Len(last) \in Nat /\ DOMAIN last = 1..Len(last)
        /\ \A a \in DOMAIN last :
             /\ Known(t, last[a].sym) /\ Find(t, last[a].sym).keycode = last[a].keycode
             /\ \E c \in 1..(i - 1) : last[a] = d[c]
    BY <1>3 DEF Kept
  <2>2. CASE ~found(d[i])
    <3>1. \A c \in 1..(i - 1) : c \in 1..i
      BY <1>2
    <3>q. QED
      BY <2>1, <2>2, <3>1 DEF Kept
  <2>3. CASE found(d[i])
    <3> DEFINE more == Append(last, d[i])
               k == Len(last) + 1
    <3>1. /\ next(last, i) = more /\ more \in Seq(B) /\ DOMAIN more = 1..k
          /\ more[k] = d[i] /\ \A a \in DOMAIN last : more[a] = last[a]
          /\ \A a \in 1..k : a = k \/ a \in DOMAIN last
      BY <1>2, <2>1, <2>3
    <3> HIDE DEF more, k
    <3>2. \A a \in DOMAIN last : more[a].keycode # d[i].keycode
      <4> SUFFICES ASSUME NEW a \in DOMAIN last PROVE last[a].keycode # d[i].keycode
        BY <3>1
      <4>1. PICK c \in 1..(i - 1) : last[a] = d[c]
        BY <2>1
      <4>2. c \in 1..n /\ c # i
        BY <1>2
      <4>q. QED
        BY <1>2, <4>1, <4>2 DEF Distinct
    <3>3. Distinct(more)
      <4> SUFFICES ASSUME NEW a \in DOMAIN more, NEW b \in DOMAIN more, more[a].keycode = more[b].keycode
                   PROVE  a = b
        BY DEF Distinct
      <4>1. CASE a = k
        BY <3>1, <3>2, <4>1
      <4>2. CASE b = k
        BY <3>1, <3>2, <4>2
      <4>3. CASE a \in DOMAIN last /\ b \in DOMAIN last
        BY <2>1, <3>1, <4>3 DEF Distinct
      <4>q. QED
        BY <3>1, <4>1, <4>2, <4>3
    <3>4. ASSUME NEW a \in DOMAIN more
          PROVE  /\ Known(t, more[a].sym) /\ Find(t, more[a].sym).keycode = more[a].keycode
                 /\ \E c \in 1..i : more[a] = d[c]
      <4>1. CASE a = k
        BY <1>2, <2>3, <3>1, <4>1
      <4>2. CASE a \in DOMAIN last
        <5>1. \A c \in 1..(i - 1) : c \in 1..i
          BY <1>2
        <5>q. QED
          BY <2>1, <3>1, <4>2, <5>1
      <4>q. QED
        BY <3>1, <4>1, <4>2
    <3>q. QED
      BY <3>1, <3>3, <3>4 DEF Kept
  <2>q. QED
    BY <2>2, <2>3
<1> HIDE DEF next, n
<1>4. 0 \in S
  <2>1. to([i \in 0..0 |-> <<>>], 0)
    OBVIOUS
  <2>q. QED
    BY <2>1
<1>5. ASSUME NEW m \in Nat, m \in S PROVE m + 1 \in S
  <2>1. PICK f : to(f, m)
    BY <1>5
  <2> DEFINE g == [i \in 0..(m + 1) |-> IF i = m + 1 THEN next(f[m], m + 1) ELSE f[i]]
  <2>2. ASSUME NEW i \in 0..(m + 1) PROVE g[i] = IF i = 0 THEN <<>> ELSE next(g[i - 1], i)
    <3>1. CASE i = m + 1
      <4>1. i # 0 /\ i - 1 = m /\ m \in 0..(m + 1) /\ m # m + 1
        BY <3>1
      <4>q. QED
        BY <3>1, <4>1
    <3>2. CASE i = 0
      BY <2>1, <3>2
    <3>3. CASE i \in 1..m
      <4>1. g[i] = f[i] /\ g[i - 1] = f[i - 1] /\ i \in 0..m /\ i # 0
        BY <3>3
      <4>q. QED
        BY <2>1, <4>1
    <3>q. QED
      BY <3>1, <3>2, <3>3
  <2>3. to(g, m + 1)
    BY <2>2
  <2> HIDE DEF g
  <2>q. QED
    BY <2>3
<1>6. n \in S
  <2>1. \A i \in 0..(n - 1) : i \in S => i + 1 \in S
    BY <1>5
  <2> HIDE DEF S
  <2>2. \A i \in 0..n : i \in S
    BY <1>2, <1>4, <2>1, Upwards
  <2>q. QED
    BY <1>2, <2>2
<1>7. to(F, n)
  BY <1>6
<1> HIDE DEF F
<1> DEFINE U == {i \in 0..n : Kept(B, d, t, i, F[i])}
<1>8. 0 \in U
  <2>1. F[0] = <<>> /\ 0 \in 0..n
    BY <1>2, <1>7
  <2>2. Kept(B, d, t, 0, <<>>)
    BY DEF Kept, Distinct
  <2>q. QED
    BY <2>1, <2>2
<1>9. ASSUME NEW i \in 0..(n - 1), i \in U PROVE i + 1 \in U
  <2>1. i + 1 \in 0..n /\ i + 1 \in 1..n /\ i + 1 # 0 /\ (i + 1) - 1 = i /\ Kept(B, d, t, i, F[i])
    BY <1>2, <1>9
  <2>2. F[i + 1] = next(F[i], i + 1)
    BY <1>7, <2>1
  <2>q. QED
    BY <1>3, <2>1, <2>2
<1>10. \A i \in 0..n : i \in U
  <2> HIDE DEF U
  <2>q. QED
    BY <1>2, <1>8, <1>9, Upwards
<1>q. QED
  BY <1>1, <1>2, <1>10 DEF n

-----------------------------------------------------------------------------
(* Shift is down for what the X server types exactly if its key is.         *)
LEMMA ShiftDownIs ==
  ASSUME MapOK(map), ShiftKey \in Keycodes, NEW codes \in SUBSET Keycodes
  PROVE  ShiftDown(codes) <=> ShiftKey \in codes
<1>1. \A k \in Keycodes : map[k][1] = Shift <=> k = ShiftKey
  BY DEF MapOK, ShiftAlone
<1>q. QED
  BY <1>1 DEF ShiftDown

(* plan_modifiers has Shift where the location wants it: its key is put     *)
(* down or let go of for the instant of the press, and only then.           *)
LEMMA PlanFact ==
  ASSUME TableOK(lookup), ShiftKey \in Keycodes, NEW loc, NEW s, NEW held, HeldRight(held)
  PROVE  LET want == (loc.level = 1) # (loc.lock /\ caps)
             shiftHeld == Shift \in mods \cup ({s} \cap Modifiers)
             plan == Plan(loc, s, held)
         IN /\ plan.press = IF want /\ ~shiftHeld THEN {ShiftKey} ELSE {}
            /\ plan.release = IF ~want /\ shiftHeld /\ s \notin Modifiers /\ Shift \in DOMAIN held
                              THEN {ShiftKey} ELSE {}
<1>1. {k.keycode : k \in {l \in lookup[Shift] : l.level = 0}} = {ShiftKey}
  <2>1. \A l \in lookup[Shift] : l.keycode = ShiftKey
    BY DEF TableOK
  <2>2. \E l \in lookup[Shift] : l.level = 0
    BY DEF TableOK
  <2>q. QED
    BY <2>1, <2>2
<1>2. Shift \in DOMAIN held => held[Shift] = ShiftKey
  BY DEF HeldRight
<1>q. QED
  BY <1>1, <1>2 DEF Plan

(* What PutDown leaves of the other keys.                                   *)
LEMMA LeftFact ==
  ASSUME ShiftKey \in Keycodes, NEW held, HeldRight(held), NEW s \in Keysyms, s \notin DOMAIN held,
         NEW kc \in Keycodes, kc = ShiftKey <=> s = Shift
  PROVE  LET left == Without(held, HeldAs(held, kc))
         IN /\ HeldRight(left) /\ DOMAIN left \subseteq DOMAIN held
            /\ \A t \in DOMAIN left : left[t] = held[t] /\ left[t] # kc
            /\ Shift \in DOMAIN left <=> Shift \in DOMAIN held
            /\ HeldRight(Extended(left, s, kc))
            /\ DOMAIN Extended(left, s, kc) = DOMAIN left \cup {s}
<1> DEFINE left == Without(held, HeldAs(held, kc))
           more == Extended(left, s, kc)
<1>1. /\ DOMAIN left = DOMAIN held \ HeldAs(held, kc)
      /\ \A t \in DOMAIN left : left[t] = held[t]
  BY DEF Without
<1>2. \A t \in DOMAIN held : t \in HeldAs(held, kc) <=> held[t] = kc
  BY DEF HeldAs
<1> HIDE DEF left
<1>3. Shift \in DOMAIN left <=> Shift \in DOMAIN held
  BY <1>1, <1>2 DEF HeldRight
<1>4. HeldRight(left)
  BY <1>1 DEF HeldRight
<1>5. /\ DOMAIN more = DOMAIN left \cup {s}
      /\ more[s] = kc /\ \A t \in DOMAIN left : t # s /\ more[t] = left[t]
  BY <1>1 DEF Extended
<1> HIDE DEF more
<1>6. HeldRight(more)
  BY <1>4, <1>5 DEF HeldRight
<1>q. QED
  BY <1>1, <1>2, <1>3, <1>4, <1>5, <1>6 DEF left, more

(* What the X server then types: the keysym, or the other of its row if the *)
(* lock has been toggled since the plan was made and swaps the two.         *)
LEMMA SymbolIs ==
  ASSUME MapOK(map), ShiftKey \in Keycodes, caps \in BOOLEAN, NEW m, NEW s \in Keysyms,
         NEW loc \in Places, RowHas(m, loc, s), NEW codes \in SUBSET Keycodes,
         ShiftKey \in codes <=> (loc.level = 1) # (loc.lock /\ caps), NEW now \in BOOLEAN
  PROVE  Symbol(m, loc.keycode, codes, now) \in {s} \cup (IF now = caps THEN {} ELSE InTheOtherCase(s))
<1> DEFINE row == m[loc.keycode]
           level == IF Alphabetic(row) /\ now THEN ~ShiftDown(codes) ELSE ShiftDown(codes)
<1>1. ShiftDown(codes) <=> ShiftKey \in codes
  BY ShiftDownIs
<1>2. loc.lock \in BOOLEAN /\ loc.level \in {0, 1} /\ row[loc.level + 1] = s
  BY DEF Places, RowHas
<1>3. loc.lock = Alphabetic(row)
  BY DEF RowHas
<1>4. loc.lock <=> Alphabetic(row)
  BY <1>3
<1>s. Symbol(m, loc.keycode, codes, now) = IF level THEN row[2] ELSE row[1]
  BY DEF Symbol
<1>o. Alphabetic(row) => row[1] \in InTheOtherCase(row[2]) /\ row[2] \in InTheOtherCase(row[1])
  BY KeyboardAssumption DEF Alphabetic, InTheOtherCase
<1>5. CASE now = caps \/ ~Alphabetic(row)
  <2>1. level <=> loc.level = 1
    BY <1>1, <1>4, <1>5
  <2>2. IF level THEN row[2] = s ELSE row[1] = s
    BY <1>2, <2>1
  <2>q. QED
    BY <1>s, <2>2
<1>6. CASE now # caps /\ Alphabetic(row)
  <2>1. level <=> loc.level = 0
    BY <1>1, <1>2, <1>4, <1>6
  <2>2. IF level THEN row[1] = s ELSE row[2] = s
    BY <1>2, <2>1
  <2>q. QED
    BY <1>s, <1>o, <1>6, <2>2
<1>q. QED
  BY <1>5, <1>6

(* A press puts its key down with Shift as the location asks, types the     *)
(* keysym, or its other case if the lock is toggled, and leaves Shift down  *)
(* exactly if it is held.                                                   *)
LEMMA PutDownTypes ==
  ASSUME ShiftKey \in Keycodes, MapOK(map), TableOK(lookup), caps \in BOOLEAN, mistyped = FALSE,
         NEW s \in Keysyms, NEW loc \in Places, NEW m, NEW held, NEW codes, NEW now \in Locks,
         HeldRight(held), s \notin DOMAIN held,
         codes \subseteq {held[t] : t \in DOMAIN held},
         Shift \in DOMAIN held <=> Shift \in mods,
         Shift \in DOMAIN held => ShiftKey \in codes,
         loc.keycode = ShiftKey <=> s = Shift,
         ~stale => RowHas(m, loc, s),
         PutDown(loc, s, held, codes, m, now)
  PROVE  ShiftOK' /\ mistyped' = FALSE
<1> DEFINE kc == loc.keycode
           same == HeldAs(held, kc)
           left == Without(held, same)
           before == codes \ (IF same = {} THEN {} ELSE {kc})
           plan == Plan(loc, s, left)
           around == (before \ plan.release) \cup plan.press
           want == (loc.level = 1) # (loc.lock /\ caps)
           shiftHeld == Shift \in mods \cup ({s} \cap Modifiers)
           may == {s} \cup (IF now = caps THEN {} ELSE InTheOtherCase(s))
<1>1. /\ pressed' = Extended(left, s, kc)
      /\ mods' = mods \cup ({s} \cap Modifiers)
      /\ down' = ((around \cup {kc}) \ plan.press) \cup plan.release
      /\ mistyped' = (mistyped \/ (/\ ~stale /\ s \notin Modifiers
                                   /\ kc \in around \/ Symbol(m, kc, around, now) \notin may))
  BY DEF PutDown
<1>2. kc \in Keycodes
  BY DEF Places
<1>3. /\ HeldRight(left) /\ DOMAIN left \subseteq DOMAIN held
      /\ \A t \in DOMAIN left : left[t] = held[t] /\ left[t] # kc
      /\ Shift \in DOMAIN left <=> Shift \in DOMAIN held
      /\ HeldRight(pressed') /\ DOMAIN pressed' = DOMAIN left \cup {s}
  BY <1>1, <1>2, LeftFact
<1>4. /\ plan.press = IF want /\ ~shiftHeld THEN {ShiftKey} ELSE {}
      /\ plan.release = IF ~want /\ shiftHeld /\ s \notin Modifiers /\ Shift \in DOMAIN left
                        THEN {ShiftKey} ELSE {}
  BY <1>3, PlanFact
<1>5. kc \notin before
  BY DEF HeldAs
<1>6. before \subseteq Keycodes
  BY DEF HeldRight
<1>7. Shift \in Modifiers
  BY KeyboardAssumption
<1>8. s # Shift => (ShiftKey \in before <=> Shift \in DOMAIN held)
  BY DEF HeldRight
<1> HIDE DEF same, left, before, plan, want
<1>9. Shift \in DOMAIN pressed' <=> Shift \in mods'
  BY <1>1, <1>3, <1>7
<1>10. ASSUME Shift \in DOMAIN pressed' PROVE ShiftKey \in down'
  <2>1. CASE s = Shift
    <3>1. plan.press = {} /\ kc = ShiftKey
      BY <1>4, <1>7, <2>1
    <3>q. QED
      BY <1>1, <3>1
  <2>2. CASE s # Shift
    <3>1. Shift \in DOMAIN held /\ ShiftKey \in before /\ shiftHeld
      BY <1>3, <1>8, <1>10, <2>2
    <3>2. plan.press = {}
      BY <1>4, <3>1
    <3>q. QED
      BY <1>1, <3>1, <3>2
  <2>q. QED
    BY <2>1, <2>2
<1>11. ASSUME ~stale, s \notin Modifiers
       PROVE  kc \notin around /\ Symbol(m, kc, around, now) \in may
  <2>1. s # Shift /\ kc # ShiftKey
    BY <1>7, <1>11
  <2>2. ShiftKey \in before <=> shiftHeld
    BY <1>8, <1>11, <2>1
  <2>3. shiftHeld => Shift \in DOMAIN left
    BY <1>3, <1>11
  <2> HIDE DEF shiftHeld
  <2>4. ShiftKey \in around <=> want
    BY <1>4, <1>11, <2>2, <2>3
  <2>5. kc \notin around
    BY <1>4, <1>5, <2>1
  <2>6. around \in SUBSET Keycodes
    BY <1>4, <1>6
  <2>q. QED
    BY <1>11, <2>4, <2>5, <2>6, SymbolIs DEF want, Locks
<1>12. mistyped' = FALSE
  BY <1>1, <1>11
<1>q. QED
  BY <1>3, <1>9, <1>10, <1>12 DEF ShiftOK

-----------------------------------------------------------------------------
(* One less: what RemoveAt leaves of a sequence.                            *)
LEMMA RemoveAtFact ==
  ASSUME NEW B, NEW d \in Seq(B), NEW i \in DOMAIN d
  PROVE  LET e == RemoveAt(d, i)
         IN /\ e \in Seq(B)
            /\ \A a \in DOMAIN e :
                 LET c == IF a < i THEN a ELSE a + 1 IN c \in DOMAIN d /\ c # i /\ e[a] = d[c]
<1> DEFINE before == SubSeq(d, 1, i - 1)
           after == SubSeq(d, i + 1, Len(d))
           e == RemoveAt(d, i)
<1>1. Len(d) \in Nat /\ i \in 1..Len(d) /\ DOMAIN d = 1..Len(d)
  OBVIOUS
<1>2. /\ before \in Seq(B) /\ Len(before) = i - 1
      /\ \A a \in 1..(i - 1) : before[a] = d[a]
  BY <1>1
<1>3. /\ after \in Seq(B) /\ Len(after) = Len(d) - i
      /\ \A a \in 1..(Len(d) - i) : after[a] = d[i + a]
  BY <1>1
<1>4. e = before \o after
  BY DEF RemoveAt
<1> HIDE DEF before, after, e
<1>5. /\ e \in Seq(B) /\ DOMAIN e = 1..(Len(d) - 1)
      /\ \A a \in 1..(i - 1) : e[a] = before[a]
      /\ \A a \in i..(Len(d) - 1) : e[a] = after[a - (i - 1)]
  <2>1. ASSUME NEW f \in Seq(B), NEW g \in Seq(B)
        PROVE  /\ f \o g \in Seq(B) /\ DOMAIN (f \o g) = 1..(Len(f) + Len(g))
               /\ \A a \in 1..Len(f) : (f \o g)[a] = f[a]
               /\ \A a \in (Len(f) + 1)..(Len(f) + Len(g)) : (f \o g)[a] = g[a - Len(f)]
    OBVIOUS
  <2>2. /\ e \in Seq(B) /\ DOMAIN e = 1..(Len(before) + Len(after))
        /\ \A a \in 1..Len(before) : e[a] = before[a]
        /\ \A a \in (Len(before) + 1)..(Len(before) + Len(after)) : e[a] = after[a - Len(before)]
    BY <1>2, <1>3, <1>4, <2>1
  <2>3. /\ Len(before) = i - 1 /\ Len(before) + 1 = i /\ Len(before) + Len(after) = Len(d) - 1
    BY <1>1, <1>2, <1>3
  <2>q. QED
    BY <2>2, <2>3
<1>6. ASSUME NEW a \in DOMAIN e
      PROVE  LET c == IF a < i THEN a ELSE a + 1 IN c \in DOMAIN d /\ c # i /\ e[a] = d[c]
  <2>1. CASE a < i
    BY <1>1, <1>2, <1>5, <2>1
  <2>2. CASE ~(a < i)
    <3>1. a \in i..(Len(d) - 1) /\ a - (i - 1) \in 1..(Len(d) - i) /\ i + (a - (i - 1)) = a + 1
      BY <1>1, <1>5, <2>2
    <3>2. a + 1 \in DOMAIN d /\ a + 1 # i
      BY <1>1, <3>1
    <3>3. e[a] = d[a + 1]
      BY <1>3, <1>5, <3>1
    <3>q. QED
      BY <2>2, <3>2, <3>3
  <2>q. QED
    BY <2>1, <2>2
<1>q. QED
  BY <1>5, <1>6 DEF e

(* bind_dynamic takes a keycode of no other binding, on which an up-to-date *)
(* table finds nobody but those it evicts.                                  *)
LEMMA BindTakes ==
  ASSUME BindingsOK, MapOK(map), Bindable \subseteq Others, TableOK(lookup),
         ~stale => Agrees(lookup, map) /\ BindingsAgree(spares, dynamic, map),
         NEW s \in Keysyms, NEW held, NEW codes, NEW now,
         spares # {} \/ Free(held) # {}, Bind(s, held, codes, now)
  PROVE  \E kc \in Bindable, evicted \in SUBSET Keysyms :
           /\ BindingsOK'
           /\ lookup' = Rebound(lookup, s, kc, evicted) /\ map' = [map EXCEPT ![kc] = <<s, s>>]
           /\ ~stale => /\ \A x \in Keysyms \ evicted : \A l \in lookup[x] : l.keycode # kc
                        /\ BindingsAgree(spares', dynamic', map')
           /\ PutDown([keycode |-> kc, level |-> 0, lock |-> FALSE], s, held, codes,
                      [map EXCEPT ![kc] = <<s, s>>], now)
<1> DEFINE i == Min(Free(held))
           kc == IF spares # {} THEN Min(spares) ELSE dynamic[i].keycode
           kept == IF spares # {} THEN dynamic ELSE RemoveAt(dynamic, i)
           evicted == IF spares # {} THEN {} ELSE {dynamic[i].sym}
           new == [sym |-> s, keycode |-> kc]
<1>1. /\ spares \subseteq Bindable /\ dynamic \in Seq(Bindings) /\ Bindable \subseteq Keycodes
      /\ Keycodes \subseteq Nat /\ Distinct(dynamic)
      /\ \A j \in DOMAIN dynamic : dynamic[j] \in Bindings /\ dynamic[j].keycode \notin spares
  BY KeyboardAssumption DEF BindingsOK, Bindable, BoundCodes
<1>2. spares = {} => i \in DOMAIN dynamic
  <2>1. Free(held) \subseteq DOMAIN dynamic /\ DOMAIN dynamic \subseteq Nat
    BY <1>1 DEF Free
  <2>q. QED
    BY <2>1, MinIsThere
<1>3. /\ spares' = spares \ {kc}
      /\ dynamic' = Append(kept, new)
      /\ lookup' = Rebound(lookup, s, kc, evicted)
      /\ map' = [map EXCEPT ![kc] = <<s, s>>]
      /\ PutDown([keycode |-> kc, level |-> 0, lock |-> FALSE], s, held, codes,
                 [map EXCEPT ![kc] = <<s, s>>], now)
  BY DEF Bind
<1>4. /\ kc \in Bindable /\ evicted \subseteq Keysyms /\ kept \in Seq(Bindings)
      /\ \A a \in DOMAIN kept : kept[a].keycode # kc /\ \E c \in DOMAIN dynamic : kept[a] = dynamic[c]
      /\ Distinct(kept)
  <2>1. CASE spares # {}
    <3>1. Min(spares) \in spares
      BY <1>1, <2>1, MinIsThere
    <3>q. QED
      BY <1>1, <2>1, <3>1
  <2>2. CASE spares = {}
    <3> HIDE DEF i
    <3>1. i \in DOMAIN dynamic /\ dynamic[i] \in Bindings
      BY <1>1, <1>2, <2>2
    <3> DEFINE e == RemoveAt(dynamic, i)
               was(a) == IF a < i THEN a ELSE a + 1
    <3>2. /\ e \in Seq(Bindings) /\ DOMAIN e \subseteq Nat
          /\ \A a \in DOMAIN e : was(a) \in DOMAIN dynamic /\ was(a) # i /\ e[a] = dynamic[was(a)]
      BY <1>1, <3>1, RemoveAtFact
    <3>3. i \in Nat /\ \A a, b \in DOMAIN e : was(a) = was(b) => a = b
      BY <1>1, <3>1, <3>2
    <3> HIDE DEF e, was
    <3>4. Distinct(e) /\ \A a \in DOMAIN e : e[a].keycode # dynamic[i].keycode
      BY <1>1, <3>1, <3>2, <3>3 DEF Distinct
    <3>q. QED
      BY <2>2, <3>1, <3>2, <3>4 DEF Bindings, e
  <2>q. QED
    BY <2>1, <2>2
<1>5. ASSUME ~stale
      PROVE  /\ \A x \in Keysyms \ evicted : \A l \in lookup[x] : l.keycode # kc
             /\ spares = Empty(map) /\ \A j \in DOMAIN dynamic : BoundAs(map, dynamic[j])
  <2>1. /\ Agrees(lookup, map) /\ spares = Empty(map)
        /\ \A j \in DOMAIN dynamic : BoundAs(map, dynamic[j])
    BY <1>5 DEF BindingsAgree
  <2>2. ASSUME NEW x \in Keysyms, NEW l \in lookup[x], l.keycode = kc PROVE x \in evicted
    <3>1. x # None /\ (map[kc][1] = x \/ map[kc][2] = x)
      BY <2>1, <2>2, KeyboardAssumption DEF Agrees, RowHas, TableOK, Places
    <3>2. CASE spares # {}
      <4>1. kc \in spares
        BY <1>1, <3>2, MinIsThere
      <4>2. map[kc] = <<None, None>>
        BY <2>1, <4>1 DEF Empty
      <4>q. QED
        BY <3>1, <4>2
    <3>3. CASE spares = {}
      <4>1. dynamic[i].sym \in {map[kc][1], map[kc][2]} /\ dynamic[i].sym # None
        BY <1>1, <1>2, <2>1, <3>3, KeyboardAssumption DEF BoundAs, Bindings
      <4>2. Single(map[kc])
        BY <1>4 DEF MapOK
      <4>q. QED
        BY <3>1, <3>3, <4>1, <4>2 DEF Single
    <3>q. QED
      BY <3>2, <3>3
  <2>q. QED
    BY <2>1, <2>2
<1> HIDE DEF i, kc, kept, evicted
<1>6. new \in Bindings /\ new.keycode = kc /\ new.sym = s
  BY <1>4 DEF Bindings
<1> HIDE DEF new
<1>7. /\ dynamic' \in Seq(Bindings) /\ Len(kept) \in Nat
      /\ \A a \in DOMAIN dynamic' :
           \/ dynamic'[a] = new /\ a = Len(kept) + 1
           \/ a \in DOMAIN kept /\ dynamic'[a] = kept[a]
  BY <1>3, <1>4, <1>6
<1>8. BindingsOK'
  <2>1. Distinct(dynamic')
    <3> SUFFICES ASSUME NEW a \in DOMAIN dynamic', NEW b \in DOMAIN dynamic',
                        dynamic'[a].keycode = dynamic'[b].keycode
                 PROVE  a = b
      BY DEF Distinct
    <3>1. CASE a \in DOMAIN kept /\ dynamic'[a] = kept[a] /\ b \in DOMAIN kept /\ dynamic'[b] = kept[b]
      BY <1>4, <3>1 DEF Distinct
    <3>q. QED
      BY <1>4, <1>6, <1>7, <3>1
  <2>2. \A a \in DOMAIN dynamic' : dynamic'[a].keycode \notin spares'
    BY <1>1, <1>3, <1>4, <1>6, <1>7
  <2>3. spares' \cap BoundCodes(dynamic') = {}
    BY <2>2 DEF BoundCodes
  <2>4. spares' \subseteq Bindable
    BY <1>1, <1>3
  <2>q. QED
    BY <1>7, <2>1, <2>3, <2>4 DEF BindingsOK
<1>9. ASSUME ~stale PROVE BindingsAgree(spares', dynamic', map')
  <2>1. /\ map'[kc] = <<s, s>> /\ \A k \in Keycodes \ {kc} : map'[k] = map[k]
    BY <1>1, <1>3, <1>4 DEF MapOK, Mappings
  <2>2. spares' = Empty(map')
    <3>1. <<s, s>> # <<None, None>>
      BY KeyboardAssumption
    <3>q. QED
      BY <1>3, <1>5, <1>9, <2>1, <3>1 DEF Empty
  <2>3. \A a \in DOMAIN kept : BoundAs(map', kept[a])
    <3> SUFFICES ASSUME NEW a \in DOMAIN kept PROVE BoundAs(map', kept[a])
      OBVIOUS
    <3>1. PICK c \in DOMAIN dynamic : kept[a] = dynamic[c]
      BY <1>4
    <3>2. kept[a].keycode \in Keycodes \ {kc}
      BY <1>1, <1>4, <3>1 DEF Bindings
    <3>q. QED
      BY <1>5, <1>9, <2>1, <3>1, <3>2 DEF BoundAs
  <2>4. BoundAs(map', new)
    BY <1>6, <2>1 DEF BoundAs
  <2>q. QED
    BY <1>7, <2>2, <2>3, <2>4 DEF BindingsAgree
<1>q. QED
  BY <1>3, <1>4, <1>5, <1>8, <1>9

(* The table and the X server's mapping once s has been bound to kc.        *)
LEMMA ReboundFact ==
  ASSUME ShiftKey \in Keycodes, Bindable \subseteq Others,
         NEW s \in Keysyms, s # Shift, NEW kc \in Bindable, NEW evicted,
         NEW m, MapOK(m), NEW t, TableOK(t)
  PROVE  LET m2 == [m EXCEPT ![kc] = <<s, s>>]
             t2 == Rebound(t, s, kc, evicted)
         IN /\ MapOK(m2) /\ TableOK(t2)
            /\ RowHas(m2, [keycode |-> kc, level |-> 0, lock |-> FALSE], s)
            /\ Agrees(t, m) /\ (\A x \in Keysyms \ evicted : \A l \in t[x] : l.keycode # kc)
                 => Agrees(t2, m2)
<1> DEFINE loc == [keycode |-> kc, level |-> 0, lock |-> FALSE]
           m2 == [m EXCEPT ![kc] = <<s, s>>]
           t2 == Rebound(t, s, kc, evicted)
<1>1. m \in Mappings /\ ShiftAlone(m, ShiftKey) /\ kc \in Keycodes /\ kc # ShiftKey
  BY DEF MapOK, Others
<1>2. /\ m2 \in Mappings /\ m2[kc] = <<s, s>>
      /\ \A k \in Keycodes \ {kc} : m2[k] = m[k]
  BY <1>1 DEF Mappings
<1>3. loc \in Places
  BY <1>1 DEF Places
<1>4. /\ t2 = [x \in Keysyms |-> t2[x]] /\ t2[s] = {loc}
      /\ \A x \in Keysyms \ {s} :
           t2[x] = IF x \in evicted THEN {l \in t[x] : l.keycode # kc} ELSE t[x]
  BY DEF Rebound
<1>5. \A x \in Keysyms : t[x] \subseteq Places
  BY DEF TableOK
<1>6. FALSE = Alphabetic(<<s, s>>)
  BY KeyboardAssumption DEF Alphabetic
<1> HIDE DEF m2, t2
<1>7. MapOK(m2)
  <2>1. ShiftAlone(m2, ShiftKey)
    BY <1>1, <1>2 DEF ShiftAlone
  <2>2. \A k \in Bindable : Single(m2[k])
    BY <1>2 DEF MapOK, Single, Others
  <2>3. Empty(m2) \subseteq Bindable
    BY <1>2 DEF MapOK, Empty
  <2>q. QED
    BY <1>2, <2>1, <2>2, <2>3 DEF MapOK
<1>8. TableOK(t2)
  <2>1. \A x \in Keysyms : t2[x] \in SUBSET Places
    BY <1>3, <1>4, <1>5
  <2>2. t2 \in [Keysyms -> SUBSET Places]
    BY <1>4, <2>1
  <2>3. Shift \in Keysyms
    BY KeyboardAssumption
  <2>4. \A l \in t[Shift] : l \in t2[Shift]
    BY <1>1, <1>4, <2>3 DEF TableOK
  <2>5. \A l \in t2[Shift] : l.keycode = ShiftKey
    BY <1>4, <2>3 DEF TableOK
  <2>6. \A x \in Keysyms \ {Shift} : \A l \in t2[x] : l.keycode # ShiftKey
    BY <1>1, <1>4 DEF TableOK
  <2>7. \E l \in t2[Shift] : l.level = 0
    BY <2>4 DEF TableOK
  <2>q. QED
    BY <2>2, <2>5, <2>6, <2>7 DEF TableOK
<1>9. RowHas(m2, loc, s)
  <2>1. loc.keycode = kc /\ loc.level + 1 = 1 /\ loc.lock = FALSE
    OBVIOUS
  <2>2. m2[kc][1] = s
    BY <1>2
  <2>3. FALSE = Alphabetic(m2[kc])
    BY <1>2, <1>6
  <2> HIDE DEF loc
  <2>q. QED
    BY <2>1, <2>2, <2>3 DEF RowHas
<1>10. ASSUME Agrees(t, m), \A x \in Keysyms \ evicted : \A l \in t[x] : l.keycode # kc
       PROVE  Agrees(t2, m2)
  <2> SUFFICES ASSUME NEW x \in Keysyms, NEW l \in t2[x] PROVE RowHas(m2, l, x)
    BY DEF Agrees
  <2>1. CASE x = s
    BY <1>4, <1>9, <2>1
  <2>2. CASE x # s
    <3>1. l \in t[x] /\ l.keycode # kc /\ l.keycode \in Keycodes
      <4>1. l \in t[x] /\ l.keycode # kc
        BY <1>4, <1>10, <2>2
      <4>q. QED
        BY <1>5, <4>1 DEF Places
    <3>2. m2[l.keycode] = m[l.keycode] /\ RowHas(m, l, x)
      BY <1>2, <1>10, <3>1 DEF Agrees
    <3>q. QED
      BY <3>2 DEF RowHas
  <2>q. QED
    BY <2>1, <2>2
<1>q. QED
  BY <1>7, <1>8, <1>9, <1>10 DEF m2, t2

(* A press types its keysym wherever it is found or bound                   *)
(* (InputInjector::key).                                                    *)
LEMMA PressTypes ==
  ASSUME ShiftStays, SparesStay, TypedInv, HeldOK, NEW s \in Keysyms, NEW now \in Locks,
         Press(s, now), caps' = now, UNCHANGED stale
  PROVE  TypedInv'
<1> DEFINE held == Without(pressed, {s})
           codes == down \ (IF s \in DOMAIN pressed THEN {pressed[s]} ELSE {})
<1>1. /\ ShiftKey \in Keycodes /\ MapOK(map) /\ caps \in BOOLEAN /\ stale \in BOOLEAN
      /\ TableOK(lookup)
      /\ ~stale => Agrees(lookup, map) /\ BindingsAgree(spares, dynamic, map)
      /\ ShiftOK /\ BindingsOK /\ mistyped = FALSE /\ Bindable \subseteq Others
      /\ caps' \in BOOLEAN /\ stale' \in BOOLEAN /\ stale' = stale
  BY ShiftKeyFact DEF TypedInv, Locks
<1>2. HeldRight(pressed) /\ Shift \in Keysyms /\ Shift \in Modifiers
  BY <1>1, KeyboardAssumption DEF ShiftOK
<1>3. /\ DOMAIN held = DOMAIN pressed \ {s} /\ \A t \in DOMAIN held : held[t] = pressed[t]
      /\ s \notin DOMAIN held
  BY DEF Without
<1>4. HeldRight(held)
  BY <1>2, <1>3 DEF HeldRight
<1>5. codes \subseteq {held[t] : t \in DOMAIN held}
  <2> SUFFICES ASSUME NEW k \in codes PROVE \E t \in DOMAIN held : held[t] = k
    OBVIOUS
  <2>1. PICK t \in DOMAIN pressed : pressed[t] = k
    BY DEF HeldOK
  <2>q. QED
    BY <1>3, <2>1
<1> HIDE DEF held
<1>6. ASSUME ~(s \in Modifiers /\ s \in DOMAIN pressed)
      PROVE  /\ Shift \in DOMAIN held <=> Shift \in mods
             /\ Shift \in DOMAIN held => ShiftKey \in codes
             /\ Shift \in DOMAIN held <=> Shift \in DOMAIN pressed
  <2>1. s = Shift => Shift \notin DOMAIN pressed
    BY <1>2, <1>6
  <2>2. s \in DOMAIN pressed /\ s # Shift => pressed[s] # ShiftKey
    BY <1>2 DEF HeldRight
  <2>q. QED
    BY <1>1, <1>3, <2>1, <2>2 DEF ShiftOK
<1> HIDE DEF codes
<1>7. CASE UNCHANGED <<map, down, notified, keyVars, mistyped>>
  BY <1>1, <1>7 DEF TypedInv, ShiftOK, BindingsOK, keyVars
<1>8. CASE /\ ~(s \in Modifiers /\ s \in DOMAIN pressed) /\ Known(lookup, s)
           /\ PutDown(Find(lookup, s), s, held, codes, map, now)
           /\ UNCHANGED <<map, notified, lookup, dynamic, spares>>
  <2>1. lookup \in [Keysyms -> SUBSET Places]
    BY <1>1 DEF TableOK
  <2>2. Find(lookup, s) \in lookup[s] /\ Find(lookup, s) \in Places
    BY <1>8, <2>1, FindIsThere
  <2>3. Find(lookup, s).keycode = ShiftKey <=> s = Shift
    BY <1>1, <1>2, <2>2 DEF TableOK
  <2>4. ~stale => RowHas(map, Find(lookup, s), s)
    BY <1>1, <2>2 DEF Agrees
  <2>5. ShiftOK' /\ mistyped' = FALSE
    <3> DEFINE loc == Find(lookup, s)
    <3>1. /\ PutDown(loc, s, held, codes, map, now) /\ loc \in Places
          /\ loc.keycode = ShiftKey <=> s = Shift
          /\ ~stale => RowHas(map, loc, s)
      BY <1>8, <2>2, <2>3, <2>4
    <3> HIDE DEF loc
    <3>q. QED
      BY <1>1, <1>3, <1>4, <1>5, <1>6, <1>8, <3>1, PutDownTypes
  <2>q. QED
    BY <1>1, <1>8, <2>5 DEF TypedInv, BindingsOK
<1>9. ASSUME ~Known(lookup, s)
      PROVE  s # Shift
  BY <1>1, <1>9 DEF TableOK, Known
<1>10. CASE /\ ~Known(lookup, s) /\ pressed' = held /\ down' = codes
            /\ spares = {} /\ mistyped' = (mistyped \/ (~stale /\ Empty(map) # {}))
            /\ UNCHANGED <<map, notified, lookup, mods, dynamic, spares>>
  <2>1. /\ s # Shift /\ (Shift \in DOMAIN held <=> Shift \in DOMAIN pressed)
        /\ s \in DOMAIN pressed => pressed[s] # ShiftKey
    BY <1>2, <1>3, <1>9, <1>10 DEF HeldRight
  <2>2. ShiftKey \in down => ShiftKey \in codes
    BY <2>1 DEF codes
  <2>3. ShiftOK'
    BY <1>1, <1>4, <1>10, <2>1, <2>2 DEF ShiftOK
  <2>4. mistyped' = FALSE
    BY <1>1, <1>10 DEF BindingsAgree
  <2>q. QED
    BY <1>1, <1>10, <2>3, <2>4 DEF TypedInv, BindingsOK
<1>11. CASE ~Known(lookup, s) /\ (spares # {} \/ Free(held) # {}) /\ Bind(s, held, codes, now)
  <2>1. PICK kc \in Bindable, evicted \in SUBSET Keysyms :
          /\ BindingsOK'
          /\ lookup' = Rebound(lookup, s, kc, evicted) /\ map' = [map EXCEPT ![kc] = <<s, s>>]
          /\ ~stale => /\ \A x \in Keysyms \ evicted : \A l \in lookup[x] : l.keycode # kc
                       /\ BindingsAgree(spares', dynamic', map')
          /\ PutDown([keycode |-> kc, level |-> 0, lock |-> FALSE], s, held, codes,
                     [map EXCEPT ![kc] = <<s, s>>], now)
    BY <1>1, <1>11, BindTakes
  <2> DEFINE loc == [keycode |-> kc, level |-> 0, lock |-> FALSE]
             m2 == [map EXCEPT ![kc] = <<s, s>>]
  <2>2. s # Shift
    BY <1>9, <1>11
  <2>3. /\ MapOK(map') /\ TableOK(lookup') /\ (~stale => Agrees(lookup', map'))
        /\ RowHas(m2, loc, s)
    BY <1>1, <2>1, <2>2, ReboundFact
  <2>4. loc \in Places /\ loc.keycode = kc /\ kc # ShiftKey
    BY <1>1 DEF Places, Others
  <2>5. PutDown(loc, s, held, codes, m2, now)
    BY <2>1
  <2>7. /\ Shift \in DOMAIN held <=> Shift \in mods
        /\ Shift \in DOMAIN held => ShiftKey \in codes
    <3>1. s \in DOMAIN pressed => pressed[s] # ShiftKey
      BY <1>2, <2>2 DEF HeldRight
    <3>q. QED
      BY <1>1, <1>3, <2>2, <3>1 DEF ShiftOK, codes
  <2> HIDE DEF loc, m2
  <2>8. ShiftOK' /\ mistyped' = FALSE
    BY <1>1, <1>3, <1>4, <1>5, <2>2, <2>3, <2>4, <2>5, <2>7, PutDownTypes
  <2>q. QED
    BY <1>1, <2>1, <2>3, <2>8 DEF TypedInv
<1>q. QED
  BY <1>7, <1>8, <1>10, <1>11 DEF Press, held, codes

(* A release of anything but Shift leaves Shift as it was: no other key is  *)
(* found, or held, on its keycode (InputInjector::release).                 *)
LEMMA ReleaseTypes ==
  ASSUME ShiftStays, SparesStay, TypedInv, HeldOK, NEW s \in Keysyms, Release(s), UNCHANGED <<caps, stale>>
  PROVE  TypedInv'
<1> DEFINE own == IF s \in DOMAIN pressed THEN {s} ELSE Counterparts(s)
           code == IF own # {} THEN {pressed[t] : t \in own}
                   ELSE IF Known(lookup, s) THEN {Find(lookup, s).keycode} ELSE {}
<1>1. /\ ShiftKey \in Keycodes /\ TableOK(lookup) /\ ShiftOK /\ HeldRight(pressed)
      /\ Shift \in Keysyms /\ Shift \in Modifiers
  BY ShiftKeyFact, KeyboardAssumption DEF TypedInv, ShiftOK
<1>2. /\ pressed' = Without(pressed, own) /\ down' = down \ code /\ mods' = mods \ {s}
      /\ UNCHANGED <<map, lookup, dynamic, spares, mistyped>>
  BY DEF Release
<1>3. /\ DOMAIN pressed' = DOMAIN pressed \ own
      /\ \A t \in DOMAIN pressed' : pressed'[t] = pressed[t]
  BY <1>2 DEF Without
<1>4. ASSUME Known(lookup, s)
      PROVE  Find(lookup, s).keycode = ShiftKey <=> s = Shift
  <2>1. Find(lookup, s) \in lookup[s]
    BY <1>1, <1>4, FindIsThere DEF TableOK
  <2>q. QED
    BY <1>1, <2>1 DEF TableOK
<1>5. own \subseteq DOMAIN pressed
  BY DEF Counterparts, HeldAs
<1>6. s = Shift => Shift \notin DOMAIN pressed'
  BY <1>3
<1>7. ASSUME s # Shift PROVE Shift \notin own
  <2>1. CASE s \in DOMAIN pressed
    BY <1>7, <2>1
  <2>2. CASE s \notin DOMAIN pressed
    <3>1. ~(s \in DOMAIN UpperOf /\ Shift = UpperOf[s]) /\ Shift \notin DOMAIN UpperOf
      BY <1>1, KeyboardAssumption
    <3>2. ASSUME Known(lookup, s), Shift \in HeldAs(pressed, Find(lookup, s).keycode) PROVE FALSE
      <4>1. Shift \in DOMAIN pressed /\ pressed[Shift] = Find(lookup, s).keycode
        BY <3>2 DEF HeldAs
      <4>2. pressed[Shift] = ShiftKey
        BY <1>1, <4>1 DEF HeldRight
      <4>q. QED
        BY <1>4, <1>7, <3>2, <4>1, <4>2
    <3>3. Shift \notin Counterparts(s)
      BY <3>1, <3>2 DEF Counterparts, InTheOtherCase
    <3>q. QED
      BY <2>2, <3>3
  <2>q. QED
    BY <2>1, <2>2
<1>8. ASSUME s # Shift PROVE ShiftKey \notin code
  <2>1. \A t \in own : pressed[t] # ShiftKey
    BY <1>1, <1>5, <1>7, <1>8 DEF HeldRight
  <2> HIDE DEF own
  <2>q. QED
    BY <1>4, <1>8, <2>1
<1> HIDE DEF own, code
<1>9. HeldRight(pressed')
  BY <1>1, <1>3 DEF HeldRight
<1>10. ShiftOK'
  <2>1. CASE s = Shift
    BY <1>2, <1>6, <1>9, <2>1 DEF ShiftOK
  <2>2. CASE s # Shift
    <3>1. /\ Shift \in DOMAIN pressed' <=> Shift \in DOMAIN pressed
          /\ Shift \in mods' <=> Shift \in mods
          /\ ShiftKey \in down' <=> ShiftKey \in down
      BY <1>2, <1>3, <1>7, <1>8, <2>2
    <3>q. QED
      BY <1>1, <1>9, <3>1 DEF ShiftOK
  <2>q. QED
    BY <2>1, <2>2
<1>q. QED
  BY <1>2, <1>10 DEF TypedInv, BindingsOK

(* A keyboard nobody holds anything on.                                     *)
LEMMA ReleasedTypes ==
  ASSUME TypedInv, pressed' = <<>>, mods' = {},
         UNCHANGED <<map, caps, lookup, dynamic, spares, stale, mistyped>>
  PROVE  TypedInv'
<1>1. DOMAIN pressed' = {}
  OBVIOUS
<1>2. ShiftOK'
  BY <1>1 DEF ShiftOK, HeldRight
<1>q. QED
  BY <1>2 DEF TypedInv, BindingsOK

(* reload_keymap starts over from what the X server has.                    *)
LEMMA ReloadTypes ==
  ASSUME ShiftStays, SparesStay, TypedInv, Reload
  PROVE  TypedInv'
<1>1. /\ ShiftKey \in Keycodes /\ MapOK(map) /\ dynamic \in Seq(Bindings) /\ Distinct(dynamic)
      /\ None \notin Keysyms /\ Shift \in Keysyms
  BY ShiftKeyFact, KeyboardAssumption DEF TypedInv, BindingsOK
<1>2. /\ stale' = FALSE /\ lookup' = Locations(map)
      /\ dynamic' = Surviving(dynamic, Locations(map))
      /\ spares' = Empty(map) \ BoundCodes(dynamic')
      /\ UNCHANGED <<map, caps, down, pressed, mods, mistyped>>
  BY DEF Reload, xVars
<1>3. TableOK(lookup') /\ Agrees(lookup', map')
  BY <1>1, <1>2, LocationsOK
<1>4. /\ dynamic' \in Seq(Bindings) /\ Distinct(dynamic')
      /\ \A a \in DOMAIN dynamic' :
           /\ Known(lookup', dynamic'[a].sym)
           /\ Find(lookup', dynamic'[a].sym).keycode = dynamic'[a].keycode
  BY <1>1, <1>2, SurvivingOK DEF Kept
<1>5. ASSUME NEW a \in DOMAIN dynamic' PROVE BoundAs(map', dynamic'[a])
  <2> DEFINE x == dynamic'[a].sym
             loc == Find(lookup', x)
  <2>1. x \in Keysyms
    <3>1. dynamic'[a] \in Bindings
      BY <1>4
    <3>q. QED
      BY <3>1 DEF Bindings
  <2>2. loc \in lookup'[x] /\ loc \in Places /\ loc.keycode = dynamic'[a].keycode
    BY <1>3, <1>4, <2>1, FindIsThere DEF TableOK
  <2> HIDE DEF x, loc
  <2>3. map'[loc.keycode][loc.level + 1] = x /\ loc.level \in {0, 1}
    BY <1>3, <2>1, <2>2 DEF Agrees, RowHas, Places
  <2>4. x \in {map'[loc.keycode][1], map'[loc.keycode][2]}
    BY <2>3
  <2>q. QED
    BY <2>2, <2>4 DEF BoundAs, x
<1>6. spares' = Empty(map')
  <2>1. ASSUME NEW a \in DOMAIN dynamic' PROVE dynamic'[a].keycode \notin Empty(map')
    <3>1. dynamic'[a] \in Bindings /\ BoundAs(map', dynamic'[a])
      BY <1>4, <1>5
    <3>2. dynamic'[a].sym # None
      BY <1>1, <3>1 DEF Bindings
    <3>q. QED
      BY <3>1, <3>2 DEF BoundAs, Empty
  <2>q. QED
    BY <1>2, <2>1 DEF BoundCodes
<1>7. BindingsOK'
  <2>1. spares' \subseteq Bindable /\ spares' \cap BoundCodes(dynamic') = {}
    BY <1>1, <1>2 DEF MapOK
  <2>q. QED
    BY <1>4, <2>1 DEF BindingsOK
<1>8. BindingsAgree(spares', dynamic', map')
  BY <1>5, <1>6 DEF BindingsAgree
<1>9. ShiftOK'
  BY <1>2 DEF TypedInv, ShiftOK
<1>q. QED
  BY <1>2, <1>3, <1>7, <1>8, <1>9 DEF TypedInv

LEMMA TypedInit == ShiftStays /\ SparesStay /\ Init => TypedInv
<1> SUFFICES ASSUME ShiftStays, SparesStay, Init PROVE TypedInv
  OBVIOUS
<1>1. /\ ShiftKey \in Keycodes /\ MapOK(map) /\ caps \in BOOLEAN /\ stale \in BOOLEAN
      /\ lookup = Locations(map) /\ spares = Empty(map) /\ mistyped = FALSE
      /\ DOMAIN pressed = {} /\ mods = {} /\ dynamic = <<>>
  <2>1. /\ map \in Layouts /\ caps = FALSE /\ stale = FALSE /\ mistyped = FALSE
        /\ lookup = Locations(map) /\ spares = Empty(map)
        /\ pressed = <<>> /\ mods = {} /\ dynamic = <<>>
    BY DEF Init, KeyboardInit
  <2>2. DOMAIN pressed = {}
    BY <2>1
  <2>q. QED
    BY <2>1, <2>2, ShiftKeyFact
<1>2. TableOK(lookup) /\ Agrees(lookup, map)
  BY <1>1, LocationsOK
<1>3. ShiftOK
  BY <1>1 DEF ShiftOK, HeldRight
<1>4. BindingsOK /\ BindingsAgree(spares, dynamic, map)
  BY <1>1 DEF MapOK, BindingsOK, BindingsAgree, BoundCodes, Distinct
<1>q. QED
  BY <1>1, <1>2, <1>3, <1>4 DEF TypedInv

LEMMA TypedNext == ShiftStays /\ SparesStay /\ InputInv /\ TypedInv /\ [Next]_vars => TypedInv'
<1> SUFFICES ASSUME ShiftStays, SparesStay, InputInv, TypedInv, [Next]_vars PROVE TypedInv'
  OBVIOUS
<1>1. CASE UNCHANGED keyboardVars
  BY <1>1 DEF TypedInv, ShiftOK, BindingsOK, keyboardVars, keyVars, xVars
<1>2. CASE Receive
  <2> DEFINE m == Head(stream)
  <2>1. m \in Messages /\ UNCHANGED stale /\ HeldOK
    BY <1>2 DEF Receive, InputInv, DataOK
  <2>2. CASE m.type = "key" /\ \E now \in BOOLEAN : caps' = now /\ Press(m.sym, now)
    BY <2>1, <2>2, MessageForm, PressTypes DEF Locks
  <2>3. CASE m.type = "key" /\ Release(m.sym) /\ UNCHANGED caps
    BY <2>1, <2>3, MessageForm, ReleaseTypes
  <2>4. CASE UNCHANGED <<map, caps, down, notified, keyVars, mistyped>>
    BY <2>1, <2>4 DEF TypedInv, ShiftOK, BindingsOK, keyVars
  <2>q. QED
    BY <1>2, <2>2, <2>3, <2>4 DEF Receive, LockMeanwhile
<1>3. CASE Drop
  BY <1>3, ReleasedTypes DEF Drop, LetGo, xVars
<1>4. CASE Connect
  <2>1. CASE served
    BY <1>4, <2>1, ReleasedTypes DEF Connect, xVars
  <2>2. CASE ~served
    BY <1>4, <2>2 DEF Connect, TypedInv, ShiftOK, BindingsOK, xVars
  <2>q. QED
    BY <2>1, <2>2
<1>5. CASE AtTheDesktop
  <2>1. CASE Reload
    BY <2>1, ReloadTypes
  <2>2. CASE Reassert
    BY <2>2 DEF Reassert, TypedInv, ShiftOK, BindingsOK, xVars, keyVars
  <2>3. CASE SetLayout
    <3>1. map' \in Layouts /\ stale' = TRUE /\ UNCHANGED <<caps, down, keyVars, mistyped>>
      BY <2>3 DEF SetLayout
    <3>2. MapOK(map')
      BY <3>1, ShiftKeyFact
    <3>q. QED
      BY <3>1, <3>2 DEF TypedInv, ShiftOK, BindingsOK, keyVars
  <2>4. CASE ToggleCaps
    BY <2>4 DEF ToggleCaps, TypedInv, ShiftOK, BindingsOK, keyVars
  <2>5. CASE SetRepeat(served)
    BY <2>5 DEF SetRepeat, TypedInv, ShiftOK, BindingsOK, xVars, keyVars
  <2>q. QED
    BY <1>5, <2>1, <2>2, <2>3, <2>4, <2>5 DEF AtTheDesktop
<1>6. CASE \E p \in Keys : Strike(p)
  BY <1>1, <1>6 DEF Strike
<1>7. CASE \E b \in Buttons : Click(b)
  BY <1>1, <1>7 DEF Click
<1>8. CASE Move \/ OpenPanel \/ FocusLost \/ FocusGained \/ LinkLost \/ Exit
  BY <1>1, <1>8 DEF Move, OpenPanel, FocusLost, FocusGained, LinkLost, Exit
<1>9. CASE UNCHANGED vars
  BY <1>1, <1>9 DEF vars
<1>q. QED
  BY <1>2, <1>3, <1>4, <1>5, <1>6, <1>7, <1>8, <1>9 DEF Next

(* A press that a session receives with an up-to-date keymap types its      *)
(* keysym, whatever is held, locked or bound, for layouts that keep Shift   *)
(* on its key and leave a keycode that can be bound one keysym at most: but *)
(* for nothing at all if no keycode is left, and the other case if the lock *)
(* is toggled meanwhile, as TypedRight says. InputInjector::key,            *)
(* plan_modifiers, bind_dynamic, reload_keymap, held_counterpart.           *)
THEOREM Typed ==
  ASSUME ShiftStays, SparesStay
  PROVE  Spec => []TypedRight
<1>1. Spec => []InputInv
  BY InputInit, InputNext, PTL DEF Spec
<1>2. Init => TypedInv
  BY TypedInit
<1>3. InputInv /\ TypedInv /\ [Next]_vars => TypedInv'
  BY TypedNext
<1>4. Spec => []TypedInv
  BY <1>1, <1>2, <1>3, PTL DEF Spec
<1>5. TypedInv => TypedRight
  BY DEF TypedInv, TypedRight
<1>q. QED
  BY <1>4, <1>5, PTL
================================================================================
