------------------------------- MODULE Keyboard -------------------------------
(***************************************************************************)
(* Typing into the session's X server (crates/server/src/x11/input.rs): a  *)
(* keysym becomes a keycode, with Shift held or let go for the instant of  *)
(* the press if the location asks for it, or a spare keycode bound to it   *)
(* there and then. The desktop shares the keyboard: it changes the layout, *)
(* Caps Lock and the repeat setting whenever it likes.                     *)
(*                                                                         *)
(* Keysyms are in their canonical spelling, and the second level is the    *)
(* only other one: Level3 is put down and let go of as Shift is.           *)
(***************************************************************************)
EXTENDS Integers, SequencesExt, FiniteSetsExt

CONSTANTS
  Keysyms,
  Modifiers,  \* those of them is_modifier names
  Shift,      \* the one of these that reaches the second level
  UpperOf,    \* letters, each with its capital
  Keycodes,
  Layouts,    \* keyboard mappings the desktop may set: two keysyms a keycode
  None,       \* NoSymbol
  MaxDesktop  \* bound on what the desktop changes

ASSUME KeyboardAssumption ==
  /\ Modifiers \subseteq Keysyms /\ Shift \in Modifiers /\ None \notin Keysyms
  /\ IsFiniteSet(Keycodes) /\ Keycodes \subseteq Nat
  /\ DOMAIN UpperOf \subseteq Keysyms \ Modifiers
  /\ \A c \in DOMAIN UpperOf : UpperOf[c] \in Keysyms \ (Modifiers \cup DOMAIN UpperOf)
  /\ Layouts \subseteq [Keycodes -> (Keysyms \cup {None}) \X (Keysyms \cup {None})]
  /\ MaxDesktop \in Nat

(* What TypedRight needs of the layouts: Shift stays where it is, on a key  *)
(* of its own, as on a PC keyboard, and a keycode that one layout leaves    *)
(* empty has at most one keysym on it in any other. With a layout that puts *)
(* a letter and its capital there it does not hold: see the README.         *)
ShiftAlone(m, k) ==
  /\ m[k] \in {<<Shift, Shift>>, <<Shift, None>>}
  /\ \A o \in Keycodes \ {k} : m[o][1] # Shift /\ m[o][2] # Shift
ShiftStays == \E k \in Keycodes : \A m \in Layouts : ShiftAlone(m, k)
Bindable == {k \in Keycodes : \E m \in Layouts : m[k] = <<None, None>>}
SparesStay ==
  \A m \in Layouts : \A k \in Bindable : m[k][1] = None \/ m[k][2] \in {m[k][1], None}

VARIABLES
  map,       \* the X server's keyboard mapping
  down,      \* keycodes down at the X server
  caps,      \* Caps Lock there
  repeat,    \* auto-repeat there
  notified,  \* a MappingNotify has not been read
  lookup,    \* Keymap::lookup
  pressed,   \* InputInjector::pressed
  mods,      \* held_modifiers
  dynamic,   \* dynamic and dynamic_order, bindings from the oldest on
  spares,
  original,  \* original_auto_repeat
  stale,     \* the desktop has changed the layout since lookup was read
  mistyped,  \* a press did not do what TypedRight says, though lookup was not stale
  choices,   \* what the desktop may have left auto-repeat at
  desktop    \* bounded by MaxDesktop

xVars == <<map, caps>>
keyVars == <<lookup, pressed, mods, dynamic, spares>>
repeatVars == <<repeat, original, choices>>
keyboardVars == <<xVars, down, notified, keyVars, repeatVars, stale, mistyped, desktop>>

(* pair_lock: a letter and its capital are what Caps Lock swaps.             *)
Alphabetic(row) == row[1] \in DOMAIN UpperOf /\ row[2] = UpperOf[row[1]]
InTheOtherCase(s) ==
  {c \in Keysyms : \/ s \in DOMAIN UpperOf /\ c = UpperOf[s]
                   \/ c \in DOMAIN UpperOf /\ s = UpperOf[c]}

(* Keymap::from_reply. A location is a keycode, a level and whether the lock *)
(* swaps the two.                                                           *)
Locations(m) ==
  [s \in Keysyms |->
     {[keycode |-> k, level |-> l, lock |-> Alphabetic(m[k])] :
        k \in Keycodes, l \in {0, 1}} \cap
     {loc \in [keycode : Keycodes, level : {0, 1}, lock : BOOLEAN] : m[loc.keycode][loc.level + 1] = s}]

(* Keymap::find: the lowest level, then the lowest keycode.                  *)
Known(table, s) == table[s] # {}
Find(table, s) ==
  CHOOSE loc \in table[s] :
    \A other \in table[s] : loc.level * 1000 + loc.keycode <= other.level * 1000 + other.keycode

Empty(m) == {k \in Keycodes : m[k] = <<None, None>>}
BoundCodes(d) == {d[i].keycode : i \in DOMAIN d}

Without(f, S) == [s \in DOMAIN f \ S |-> f[s]]
Extended(f, s, v) == [t \in DOMAIN f \cup {s} |-> IF t = s THEN v ELSE f[t]]
HeldAs(p, kc) == {s \in DOMAIN p : p[s] = kc}

KeyboardTypeOK ==
  /\ map \in [Keycodes -> (Keysyms \cup {None}) \X (Keysyms \cup {None})]
  /\ down \subseteq Keycodes
  /\ caps \in BOOLEAN /\ repeat \in BOOLEAN /\ original \in BOOLEAN
  /\ DOMAIN lookup = Keysyms
  /\ DOMAIN pressed \subseteq Keysyms /\ \A s \in DOMAIN pressed : pressed[s] \in Keycodes
  /\ mods \subseteq Modifiers /\ spares \subseteq Keycodes
  /\ dynamic \in Seq([sym : Keysyms, keycode : Keycodes])
  /\ choices \subseteq BOOLEAN /\ choices # {}

KeyboardInit ==
  /\ map \in Layouts /\ caps = FALSE /\ down = {}
  /\ repeat = TRUE /\ original = TRUE /\ choices = {TRUE}
  /\ lookup = Locations(map) /\ spares = Empty(map)
  /\ pressed = <<>> /\ mods = {} /\ dynamic = <<>>
  /\ notified = FALSE /\ stale = FALSE /\ mistyped = FALSE
  /\ desktop = 0

-----------------------------------------------------------------------------
(* The X server: a press of a keycode that is down is discarded, another    *)
(* types its key's symbol at the level that Shift and the lock select.       *)

ShiftDown(codes) == \E k \in codes : map[k][1] = Shift
Symbol(m, kc, codes, lock) ==
  LET row == m[kc]
      level == IF Alphabetic(row) /\ lock THEN ~ShiftDown(codes) ELSE ShiftDown(codes)
  IN IF level THEN row[2] ELSE row[1]

(* plan_modifiers, and what is held of it: Shift to press, Shifts to let go. *)
Plan(loc, s, held) ==
  LET want == (loc.level = 1) # (loc.lock /\ caps)
      shiftHeld == Shift \in mods \cup ({s} \cap Modifiers)
      shiftCode == {k.keycode : k \in {l \in lookup[Shift] : l.level = 0}}
  IN [press   |-> IF want /\ ~shiftHeld THEN shiftCode ELSE {},
      release |-> IF ~want /\ shiftHeld /\ s \notin Modifiers /\ Shift \in DOMAIN held
                  THEN {held[Shift]} ELSE {}]

(* Put the key at loc down for s, among the keys of `held`: whatever else   *)
(* holds its keycode is let go of first, and Shift is as it was afterwards. *)
(* The plan is made for the lock the X server answered with, and the press  *)
(* meets the one there is by `now`.                                         *)
PutDown(loc, s, held, codes, m, now) ==
  LET same == HeldAs(held, loc.keycode)
      left == Without(held, same)
      before == codes \ (IF same = {} THEN {} ELSE {loc.keycode})
      plan == Plan(loc, s, left)
      around == (before \ plan.release) \cup plan.press
      may == {s} \cup (IF now = caps THEN {} ELSE InTheOtherCase(s))
  IN /\ pressed' = Extended(left, s, loc.keycode)
     /\ mods' = mods \cup ({s} \cap Modifiers)
     /\ down' = ((around \cup {loc.keycode}) \ plan.press) \cup plan.release
     /\ mistyped' = (mistyped \/ (/\ ~stale /\ s \notin Modifiers
                                  /\ loc.keycode \in around \/ Symbol(m, loc.keycode, around, now) \notin may))

(* Fault: the keysym that loses its keycode is still found there.           *)
ReboundBoth(table, s, kc, evicted) ==
  [t \in Keysyms |-> IF t = s THEN {[keycode |-> kc, level |-> 0, lock |-> FALSE]} ELSE table[t]]

(* The table after s, which it did not have, has been bound to kc: those    *)
(* evicted from there, and nobody else, are no longer found there.          *)
Rebound(table, s, kc, evicted) ==
  [t \in Keysyms |->
     IF t = s THEN {[keycode |-> kc, level |-> 0, lock |-> FALSE]}
     ELSE IF t \in evicted THEN {loc \in table[t] : loc.keycode # kc}
     ELSE table[t]]

(* bind_dynamic: a spare keycode, the lowest, or that of the oldest binding *)
(* not held.                                                                *)
Free(held) == {i \in DOMAIN dynamic : dynamic[i].sym \notin DOMAIN held}
Bind(s, held, codes, now) ==
  LET i == Min(Free(held))
      kc == IF spares # {} THEN Min(spares) ELSE dynamic[i].keycode
      kept == IF spares # {} THEN dynamic ELSE RemoveAt(dynamic, i)
      evicted == IF spares # {} THEN {} ELSE {dynamic[i].sym}
      m == [map EXCEPT ![kc] = <<s, s>>]
  IN /\ spares' = spares \ {kc}
     /\ dynamic' = Append(kept, [sym |-> s, keycode |-> kc])
     /\ lookup' = Rebound(lookup, s, kc, evicted)
     /\ map' = m
     /\ notified' = TRUE
     /\ PutDown([keycode |-> kc, level |-> 0, lock |-> FALSE], s, held, codes, m, now)

Desktop == desktop < MaxDesktop /\ desktop' = desktop + 1

(* Between the query of the lock (locks) and the press, Caps Lock may be    *)
(* toggled. What else the desktop does there might as well come after: its  *)
(* layout makes the table stale, which the press does not see.              *)
LockMeanwhile(now) ==
  /\ caps' = now
  /\ \/ now = caps /\ UNCHANGED desktop
     \/ now # caps /\ Desktop

(* InputInjector::key, a press: a modifier that is held already changes     *)
(* nothing, any other key that is held is let go of first. A keysym that no *)
(* key has, and no keycode is left for, is dropped: wrongly, if the X       *)
(* server has a keycode to spare.                                           *)
Press(s, now) ==
  LET held == Without(pressed, {s})
      codes == down \ (IF s \in DOMAIN pressed THEN {pressed[s]} ELSE {})
  IN \/ /\ s \in Modifiers /\ s \in DOMAIN pressed
        /\ UNCHANGED <<map, down, notified, keyVars, mistyped>>
     \/ /\ ~(s \in Modifiers /\ s \in DOMAIN pressed) /\ Known(lookup, s)
        /\ PutDown(Find(lookup, s), s, held, codes, map, now)
        /\ UNCHANGED <<map, notified, lookup, dynamic, spares>>
     \/ /\ ~Known(lookup, s) /\ spares = {} /\ Free(held) = {}
        /\ pressed' = held /\ down' = codes
        /\ mistyped' = (mistyped \/ (~stale /\ Empty(map) # {}))
        /\ UNCHANGED <<map, notified, lookup, mods, dynamic, spares>>
     \/ /\ ~Known(lookup, s) /\ (spares # {} \/ Free(held) # {})
        /\ Bind(s, held, codes, now)

(* held_counterpart: a key held under another spelling.                     *)
Counterparts(s) ==
  LET same == IF Known(lookup, s) THEN HeldAs(pressed, Find(lookup, s).keycode) ELSE {}
      cases == DOMAIN pressed \cap InTheOtherCase(s)
  IN IF same # {} THEN same ELSE cases

(* InputInjector::release.                                                  *)
Release(s) ==
  /\ mods' = mods \ {s}
  /\ LET own == IF s \in DOMAIN pressed THEN {s} ELSE Counterparts(s)
         code == IF own # {} THEN {pressed[t] : t \in own}
                 ELSE IF Known(lookup, s) THEN {Find(lookup, s).keycode} ELSE {}
     IN /\ pressed' = Without(pressed, own)
        /\ down' = down \ code
  /\ UNCHANGED <<map, notified, lookup, dynamic, spares, mistyped>>

(* release_all and restore_auto_repeat, as drop_client calls them.          *)
LetGo ==
  /\ down' = down \ {pressed[s] : s \in DOMAIN pressed}
  /\ pressed' = <<>> /\ mods' = {}
  /\ repeat' = original

(* suppress_auto_repeat, as accept_client calls it on a keyboard given back *)
(* with repeat at `mode`.                                                   *)
Suppress(mode) == original' = mode /\ repeat' = FALSE

-----------------------------------------------------------------------------
(* Of the bindings d, those that the keymap has where they were made.       *)
Surviving(d, table) ==
  LET found(b) == Known(table, b.sym) /\ Find(table, b.sym).keycode = b.keycode
      kept[i \in 0..Len(d)] ==
        IF i = 0 THEN <<>>
        ELSE IF found(d[i]) THEN Append(kept[i - 1], d[i]) ELSE kept[i - 1]
  IN kept[Len(d)]

(* reload_keymap, on a MappingNotify.                                       *)
Reload ==
  /\ notified
  /\ notified' = FALSE /\ stale' = FALSE
  /\ lookup' = Locations(map)
  /\ dynamic' = Surviving(dynamic, Locations(map))
  /\ spares' = Empty(map) \ BoundCodes(dynamic')
  /\ UNCHANGED <<xVars, down, pressed, mods, repeatVars, mistyped, desktop>>

(* reassert_auto_repeat_suppression, on the session's tick.                 *)
Reassert ==
  /\ repeat
  /\ original' = TRUE /\ repeat' = FALSE
  /\ UNCHANGED <<xVars, down, notified, keyVars, choices, stale, mistyped, desktop>>


(* A new layout takes the bindings of the spare keycodes with it.           *)
SetLayout ==
  /\ Desktop
  /\ map' \in Layouts \ {map}
  /\ notified' = TRUE /\ stale' = TRUE
  /\ UNCHANGED <<caps, down, keyVars, repeatVars, mistyped>>

ToggleCaps ==
  /\ Desktop
  /\ caps' = ~caps
  /\ UNCHANGED <<map, down, notified, keyVars, repeatVars, stale, mistyped>>

(* The user's preference, applied by the desktop's settings daemon.         *)
SetRepeat(served) ==
  /\ Desktop
  /\ repeat' \in BOOLEAN
  /\ choices' = (IF served THEN choices ELSE {}) \cup {repeat'}
  /\ UNCHANGED <<xVars, down, notified, keyVars, original, stale, mistyped>>
=============================================================================
