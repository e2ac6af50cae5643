-------------------------------- MODULE Input --------------------------------
(***************************************************************************)
(* Keys and buttons from the user's hands to the desktop: the window       *)
(* (crates/client/src/app.rs), the stream to the session, the session      *)
(* (session/engine.rs) and the keyboard it types on.                       *)
(*                                                                         *)
(* A press and its release need not reach the window both: focus, the bar, *)
(* a panel, an accelerator or a lost link may come between, and the other  *)
(* end has to be told all the same, by whoever still knows.                *)
(***************************************************************************)
EXTENDS Keyboard

CONSTANTS
  Keys,          \* physical keys
  Spellings,     \* the keysyms the OS may report for each
  Chord,         \* the keysym of Control and Alt, one key here
  ChordKey,
  Accelerators,  \* keys that are the bar's while the chord is held
  AttentionKeys, \* those of them that send Ctrl+Alt+Delete
  Delete,        \* of Ctrl+Alt+Delete
  Buttons,
  MaxUser        \* bound on what the user does

ASSUME InputAssumption ==
  /\ Spellings \in [Keys -> (SUBSET Keysyms) \ {{}}]
  /\ Chord \in Modifiers /\ ChordKey \in Keys /\ Spellings[ChordKey] = {Chord}
  /\ Accelerators \subseteq Keys \ {ChordKey} /\ AttentionKeys \subseteq Accelerators
  /\ Delete \in Keysyms \ Modifiers
  /\ MaxUser \in Nat

VARIABLES
  hands,          \* keys and buttons under the user's fingers
  link,           \* "up", "down", or "over" for a window that has closed
  focused,
  uiKeyboard,     \* a panel has the keyboard
  pressedKeys,    \* pressed_keys: each physical key with the keysym it went out as
  swallowed,
  remoteButtons,
  onBar,          \* pointer_on_bar
  barPress,
  stream,         \* messages on their way to the session
  served,         \* the session has this client
  buttons,        \* buttons down at the X server, InputInjector::pressed_buttons
  user            \* bounded by MaxUser

windowVars == <<focused, uiKeyboard, pressedKeys, swallowed, remoteButtons, onBar, barPress>>
vars == <<keyboardVars, hands, link, windowVars, stream, served, buttons, user>>

KeyMsg(s, d) == [type |-> "key", sym |-> s, down |-> d]
ButtonMsg(b, d) == [type |-> "button", button |-> b, down |-> d]
Messages ==
  [type : {"key"}, sym : Keysyms, down : BOOLEAN]
    \cup [type : {"button"}, button : Buttons, down : BOOLEAN]

TypeOK ==
  /\ KeyboardTypeOK
  /\ hands \subseteq Keys \cup Buttons
  /\ link \in {"up", "down", "over"}
  /\ {focused, uiKeyboard, onBar, barPress, served} \subseteq BOOLEAN
  /\ DOMAIN pressedKeys \subseteq Keys
  /\ \A p \in DOMAIN pressedKeys : pressedKeys[p] \in Keysyms
  /\ swallowed \subseteq Keys /\ remoteButtons \subseteq Buttons
  /\ stream \in Seq(Messages)
  /\ buttons \subseteq Buttons

Init ==
  /\ KeyboardInit
  /\ hands = {} /\ link = "down" /\ focused = TRUE /\ uiKeyboard = FALSE
  /\ pressedKeys = <<>> /\ swallowed = {} /\ remoteButtons = {}
  /\ onBar = FALSE /\ barPress = FALSE
  /\ stream = <<>> /\ served = FALSE /\ buttons = {} /\ user = 0

User == user < MaxUser /\ user' = user + 1

(* send: nothing goes out, or is queued, without a link.                    *)
Send(msgs) == stream' = IF link = "up" THEN stream \o msgs ELSE stream

-----------------------------------------------------------------------------
(* release_all_keys and release_all_buttons: what they say, and what they   *)
(* forget whether or not there was anybody to say it to.                    *)
KeyReleases == [i \in 1..Cardinality(DOMAIN pressedKeys) |->
                  KeyMsg(pressedKeys[SetToSeq(DOMAIN pressedKeys)[i]], FALSE)]
ButtonReleases == [i \in 1..Cardinality(remoteButtons) |->
                     ButtonMsg(SetToSeq(remoteButtons)[i], FALSE)]
ForgetKeys == pressedKeys' = <<>> /\ swallowed' = {}
ForgetButtons == remoteButtons' = {}

(* send_secure_attention: the chord around Delete, unless it is held.       *)
Attention ==
  LET held == {p \in DOMAIN pressedKeys : pressedKeys[p] = Chord} # {}
      around(d) == IF held THEN <<>> ELSE <<KeyMsg(Chord, d)>>
  IN around(TRUE) \o <<KeyMsg(Delete, TRUE), KeyMsg(Delete, FALSE)>> \o around(FALSE)

Reaches(p) == focused /\ link # "over" /\ ~uiKeyboard
Accelerates(p) == p \in Accelerators /\ ChordKey \in hands

(* Fault: a key whose spelling changes is not let go of under the old one.  *)
KeyDownRespelt(p, again) ==
  /\ Reaches(p)
  /\ \/ /\ Accelerates(p)
        /\ IF again
           THEN UNCHANGED <<swallowed, stream>>
           ELSE /\ swallowed' = swallowed \cup {p}
                /\ Send(IF p \in AttentionKeys THEN Attention ELSE <<>>)
        /\ UNCHANGED pressedKeys
     \/ /\ ~Accelerates(p) /\ link = "down"
        /\ UNCHANGED <<swallowed, pressedKeys, stream>>
     \/ /\ ~Accelerates(p) /\ link = "up"
        /\ \E s \in Spellings[p] :
             /\ Send(<<KeyMsg(s, TRUE)>>)
             /\ pressedKeys' = Extended(pressedKeys, p, s)
        /\ UNCHANGED swallowed

(* key_input, a press or a repeat of one. An accelerator is run on its      *)
(* first press: Attention is the one that concerns the session.             *)
KeyDown(p, again) ==
  /\ Reaches(p)
  /\ \/ /\ Accelerates(p)
        /\ IF again
           THEN UNCHANGED <<swallowed, stream>>
           ELSE /\ swallowed' = swallowed \cup {p}
                /\ Send(IF p \in AttentionKeys THEN Attention ELSE <<>>)
        /\ UNCHANGED pressedKeys
     \/ /\ ~Accelerates(p) /\ link = "down"
        /\ UNCHANGED <<swallowed, pressedKeys, stream>>
     \/ /\ ~Accelerates(p) /\ link = "up"
        /\ \E s \in Spellings[p] :
             LET respelt == p \in DOMAIN pressedKeys /\ pressedKeys[p] # s
             IN /\ Send((IF respelt THEN <<KeyMsg(pressedKeys[p], FALSE)>> ELSE <<>>)
                          \o <<KeyMsg(s, TRUE)>>)
                /\ pressedKeys' = Extended(pressedKeys, p, s)
        /\ UNCHANGED swallowed

(* key_input, a release: of an accelerator, of a key on record, under the   *)
(* keysym it went out as, or of one that is not, as it is spelt now.        *)
KeyUp(p) ==
  /\ Reaches(p)
  /\ \/ /\ p \in swallowed
        /\ swallowed' = swallowed \ {p}
        /\ UNCHANGED <<pressedKeys, stream>>
     \/ /\ p \notin swallowed /\ link = "down"
        /\ UNCHANGED <<swallowed, pressedKeys, stream>>
     \/ /\ p \notin swallowed /\ link = "up" /\ p \in DOMAIN pressedKeys
        /\ Send(<<KeyMsg(pressedKeys[p], FALSE)>>)
        /\ pressedKeys' = Without(pressedKeys, {p})
        /\ UNCHANGED swallowed
     \/ /\ p \notin swallowed /\ link = "up" /\ p \notin DOMAIN pressedKeys
        /\ \E s \in Spellings[p] :
             /\ Send(<<KeyMsg(s, FALSE)>>)
             /\ pressedKeys' = Without(pressedKeys, {q \in DOMAIN pressedKeys : pressedKeys[q] = s})
        /\ UNCHANGED swallowed

(* What the user does to a key, and what of it reaches the window.          *)
Strike(p) ==
  /\ User
  /\ p \in Keys
  /\ \/ /\ p \notin hands
        /\ hands' = hands \cup {p}
        /\ \/ KeyDown(p, FALSE)
           \/ ~Reaches(p) /\ UNCHANGED <<pressedKeys, swallowed, stream>>
     \/ /\ p \in hands
        /\ hands' = hands
        /\ KeyDown(p, TRUE)
     \/ /\ p \in hands
        /\ hands' = hands \ {p}
        /\ \/ KeyUp(p)
           \/ ~Reaches(p) /\ UNCHANGED <<pressedKeys, swallowed, stream>>
  /\ UNCHANGED <<keyboardVars, link, focused, uiKeyboard, remoteButtons, onBar, barPress, served, buttons>>

-----------------------------------------------------------------------------
(* MouseInput. A press on the bar owns the next release; one elsewhere goes *)
(* to the session, if there is a link.                                      *)
Click(b) ==
  /\ User
  /\ focused /\ link # "over"
  /\ hands' = IF b \in hands THEN hands \ {b} ELSE hands \cup {b}
  /\ uiKeyboard' = (uiKeyboard /\ b \in hands)
  /\ \/ /\ b \in hands /\ barPress
        /\ barPress' = FALSE
        /\ \E msgs \in {<<>>, Attention} : Send(msgs)
        /\ UNCHANGED remoteButtons
     \/ /\ ~(b \in hands /\ barPress) /\ onBar
        /\ barPress' = (barPress \/ b \notin hands)
        /\ UNCHANGED <<remoteButtons, stream>>
     \/ /\ ~(b \in hands /\ barPress) /\ ~onBar /\ link = "down"
        /\ UNCHANGED <<barPress, remoteButtons, stream>>
     \/ /\ ~(b \in hands /\ barPress) /\ ~onBar /\ link = "up"
        /\ remoteButtons' = IF b \in hands THEN remoteButtons \ {b} ELSE remoteButtons \cup {b}
        /\ Send(<<ButtonMsg(b, b \notin hands)>>)
        /\ UNCHANGED barPress
  /\ UNCHANGED <<keyboardVars, link, focused, pressedKeys, swallowed, onBar, served, buttons>>

(* on_pointer_moved: a drag on the session's screen is not the bar's.       *)
Move ==
  /\ User
  /\ link # "over"
  /\ onBar' = (~onBar /\ remoteButtons = {})
  /\ onBar' # onBar
  /\ UNCHANGED <<keyboardVars, hands, link, focused, uiKeyboard, pressedKeys, swallowed,
                 remoteButtons, barPress, stream, served, buttons>>

(* open_transfer_panel.                                                     *)
OpenPanel ==
  /\ User
  /\ link # "over" /\ focused /\ ~uiKeyboard
  /\ Send(KeyReleases \o ButtonReleases)
  /\ ForgetKeys /\ ForgetButtons
  /\ uiKeyboard' = TRUE
  /\ UNCHANGED <<keyboardVars, hands, link, focused, onBar, barPress, served, buttons>>

(* Focused(false) and on_focus_lost. Without a link the keys stay on record *)
(* for resync_input.                                                        *)
FocusLost ==
  /\ User
  /\ link # "over" /\ focused
  /\ focused' = FALSE
  /\ IF link = "up" THEN ForgetKeys ELSE UNCHANGED <<pressedKeys, swallowed>>
  /\ Send((IF link = "up" THEN KeyReleases ELSE <<>>) \o ButtonReleases)
  /\ ForgetButtons
  /\ uiKeyboard' = FALSE /\ barPress' = FALSE /\ onBar' = FALSE
  /\ UNCHANGED <<keyboardVars, hands, link, served, buttons>>

FocusGained ==
  /\ User
  /\ link # "over" /\ ~focused
  /\ focused' = TRUE
  /\ UNCHANGED <<keyboardVars, hands, link, uiKeyboard, pressedKeys, swallowed, remoteButtons,
                 onBar, barPress, stream, served, buttons>>

-----------------------------------------------------------------------------
(* on_link_lost: of what was on its way, the session gets a part at most.   *)
LinkLost ==
  /\ User
  /\ link = "up"
  /\ link' = "down"
  /\ \E n \in 0..Len(stream) : stream' = SubSeq(stream, 1, n)
  /\ UNCHANGED <<keyboardVars, hands, windowVars, served, buttons>>

(* The session accepts the window, in place of its last connection if it    *)
(* still has it (accept_client, drop_client), and the window adopts the     *)
(* client: resync_input.                                                    *)
Connect ==
  /\ link = "down"
  /\ link' = "up" /\ served' = TRUE
  /\ stream' = KeyReleases \o ButtonReleases
  /\ ForgetKeys /\ ForgetButtons
  /\ IF served
     THEN /\ down' = down \ {pressed[s] : s \in DOMAIN pressed}
          /\ pressed' = <<>> /\ mods' = {} /\ buttons' = {}
          /\ Suppress(original)
     ELSE /\ Suppress(repeat)
          /\ UNCHANGED <<down, pressed, mods, buttons>>
  /\ UNCHANGED <<xVars, notified, lookup, dynamic, spares, choices, stale, mistyped, desktop,
                 hands, focused, uiKeyboard, onBar, barPress, user>>

(* exiting: with a link, the keys are let go of and goodbye is said.        *)
Exit ==
  /\ User
  /\ link # "over"
  /\ link' = "over"
  /\ Send(KeyReleases \o <<KeyMsg(Shift, FALSE)>>)
  /\ pressedKeys' = IF link = "up" THEN <<>> ELSE pressedKeys
  /\ swallowed' = IF link = "up" THEN {} ELSE swallowed
  /\ UNCHANGED <<keyboardVars, hands, focused, uiKeyboard, remoteButtons, onBar, barPress,
                 served, buttons>>

(* handle_message: KeyEvent, PointerButton.                                 *)
Receive ==
  /\ served /\ stream # <<>>
  /\ stream' = Tail(stream)
  /\ LET m == Head(stream)
     IN \/ /\ m.type = "key" /\ m.down
           /\ \E now \in BOOLEAN : LockMeanwhile(now) /\ Press(m.sym, now)
           /\ UNCHANGED buttons
        \/ /\ m.type = "key" /\ ~m.down
           /\ Release(m.sym)
           /\ UNCHANGED <<caps, desktop, buttons>>
        \/ /\ m.type = "button"
           /\ buttons' = IF m.down THEN buttons \cup {m.button} ELSE buttons \ {m.button}
           /\ UNCHANGED <<map, caps, down, notified, keyVars, mistyped, desktop>>
  /\ UNCHANGED <<repeatVars, stale, hands, link, windowVars, served, user>>

(* drop_client, once the session notices that the connection has ended.     *)
Drop ==
  /\ served /\ link # "up" /\ stream = <<>>
  /\ served' = FALSE
  /\ LetGo
  /\ buttons' = {}
  /\ UNCHANGED <<xVars, notified, lookup, dynamic, spares, original, choices, stale, mistyped,
                 desktop, hands, link, windowVars, stream, user>>

(* What the keyboard does without the window.                               *)
AtTheDesktop ==
  /\ Reload \/ (served /\ Reassert) \/ SetLayout \/ ToggleCaps \/ SetRepeat(served)
  /\ UNCHANGED <<hands, link, windowVars, stream, served, buttons, user>>

Next ==
  \/ \E p \in Keys : Strike(p)
  \/ \E b \in Buttons : Click(b)
  \/ Move \/ OpenPanel \/ FocusLost \/ FocusGained
  \/ LinkLost \/ Connect \/ Exit
  \/ Receive \/ Drop
  \/ AtTheDesktop

Spec == Init /\ [][Next]_vars

-----------------------------------------------------------------------------
AtRest == link = "up" /\ served /\ stream = <<>>

(* Whatever is down at the session's X server, somebody will let go of.     *)
(* Once the session has read all it was sent, it is on the window's record, *)
(* for the next release, loss of focus or goodbye (pressed_keys,            *)
(* remote_buttons). With no client nothing is down, and keys repeat as they *)
(* did when the client came or as the user chose while it was there         *)
(* (release_all, restore_auto_repeat): either, for a choice of no repeat    *)
(* made meanwhile is not told from the session's own suppression of it.     *)
OnRecord ==
  /\ AtRest =>
       /\ \A kc \in down : \E p \in DOMAIN pressedKeys :
            pressedKeys[p] \in DOMAIN pressed /\ pressed[pressedKeys[p]] = kc
       /\ buttons \subseteq remoteButtons
  /\ ~served => down = {} /\ buttons = {} /\ repeat \in choices

(* A press that a session receives with an up-to-date keymap types its      *)
(* keysym, whatever is held, locked or bound: none is discarded as a key    *)
(* already down, and none comes out in another case or as another symbol.   *)
(* There are two exceptions. A keysym on no key types nothing when the X    *)
(* server has no keycode empty and every keycode that was bound is held.    *)
(* And a letter comes out in the other case when Caps Lock is toggled       *)
(* between the query of the lock and the press (InputInjector::key, locks,  *)
(* bind_dynamic). It takes layouts as ShiftStays and SparesStay have them.  *)
TypedRight == ~mistyped

(* What is down at the desktop is under the user's fingers. This is what    *)
(* pressed_keys and swallowed are for, and it does not hold: see the README.*)
NothingStuck ==
  AtRest =>
    /\ \A kc \in down : \E p \in DOMAIN pressedKeys \cap hands :
         pressedKeys[p] \in DOMAIN pressed /\ pressed[pressedKeys[p]] = kc
    /\ buttons \subseteq hands
=============================================================================
