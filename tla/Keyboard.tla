------------------------------ MODULE Keyboard ------------------------------
(***************************************************************************)
(* The keyboard driver: what a pass of keyboard_getchar's loop makes of a  *)
(* scan code, with its modifier flags, and the keys that people hold down. *)
(*                                                                         *)
(* A code with the bit 0x80 is taken for the release of a key, the prefix  *)
(* 0xE0 of the grey keys among them: the branch for that prefix is never   *)
(* reached, and the code that follows is taken for the key on the main     *)
(* block or, for the arrows, for a place behind the end of the key maps.   *)
(* So the right control key is one more KEY_CTRL.  Releases of keys that   *)
(* are no modifiers change nothing and are left out.                       *)
(***************************************************************************)
EXTENDS Integers, FiniteSets

CONSTANTS
  ShiftKeys, CtrlKeys, AltKeys,  \* the keys that send the codes of modifiers
  DirectKeys,   \* keys that are told apart before the modifiers are looked at
  direct,       \* what they give: ENTER, BACKSPACE, ESC, SPACE and F10
  MapKeys,      \* the other keys with a place in the key maps
  keyboard_map_lower, keyboard_map_upper,
  control,      \* what a key gives with Ctrl: the codes 0x10 to 0x1C only
  BeyondKeys,   \* keys whose codes are beyond the maps, such as the arrows
  Beyond,       \* what may be in memory behind the maps
  Nul,          \* no character
  MaxHeld       \* bound: modifiers held down at a time

ModifierKeys == ShiftKeys \cup CtrlKeys \cup AltKeys

ASSUME KeyboardAssumption ==
  /\ ShiftKeys \cap CtrlKeys = {} /\ AltKeys \cap (ShiftKeys \cup CtrlKeys) = {}
  /\ DirectKeys = DOMAIN direct
  /\ MapKeys = DOMAIN keyboard_map_lower /\ MapKeys = DOMAIN keyboard_map_upper
  /\ MapKeys = DOMAIN control
  /\ MaxHeld \in Nat

VARIABLES
  held,   \* the modifier keys that are down
  shift_pressed, ctrl_pressed, alt_pressed, caps_lock

flags         == <<shift_pressed, ctrl_pressed, alt_pressed, caps_lock>>
keyboard_vars == <<held, flags>>

KeyboardInit ==
  /\ held = {}
  /\ shift_pressed = FALSE /\ ctrl_pressed = FALSE
  /\ alt_pressed = FALSE /\ caps_lock = FALSE

-----------------------------------------------------------------------------
(* Codes that give no character                                            *)

SetFlag(keys, k, flag, down) == IF k \in keys THEN down ELSE flag

SetFlags_LeftShiftOnly(k, down) ==
  /\ shift_pressed' = IF down THEN SetFlag(ShiftKeys, k, shift_pressed, down)
                      ELSE SetFlag({"lshift"}, k, shift_pressed, down)
  /\ ctrl_pressed' = SetFlag(CtrlKeys, k, ctrl_pressed, down)
  /\ alt_pressed' = SetFlag(AltKeys, k, alt_pressed, down)
  /\ UNCHANGED caps_lock

\* A flag follows the last code of any of its keys: with both shift keys down,
\* letting go of one ends the effect of both.
SetFlags(k, down) ==
  /\ shift_pressed' = SetFlag(ShiftKeys, k, shift_pressed, down)
  /\ ctrl_pressed' = SetFlag(CtrlKeys, k, ctrl_pressed, down)
  /\ alt_pressed' = SetFlag(AltKeys, k, alt_pressed, down)
  /\ UNCHANGED caps_lock

\* A key that is held down sends its code again and again.
PressModifier(k) ==
  /\ held' = held \cup {k} /\ Cardinality(held') <= MaxHeld
  /\ SetFlags(k, TRUE)

ReleaseModifier(k) ==
  /\ k \in held /\ held' = held \ {k}
  /\ SetFlags(k, FALSE)

PressCapsLock ==
  /\ caps_lock' = ~caps_lock
  /\ UNCHANGED <<held, shift_pressed, ctrl_pressed, alt_pressed>>

Modifiers ==
  \/ \E k \in ModifierKeys : PressModifier(k) \/ ReleaseModifier(k)
  \/ PressCapsLock

-----------------------------------------------------------------------------
(* Codes that may give a character                                         *)

uppercase == shift_pressed # caps_lock

\* What is read at the place of key k in the map.
MapAt(k) ==
  IF k \in BeyondKeys THEN Beyond
  ELSE {IF uppercase THEN keyboard_map_upper[k] ELSE keyboard_map_lower[k]}

Returned_Anything(k) ==
  CASE k \in DirectKeys -> {direct[k]}
    [] ctrl_pressed     -> IF k \in MapKeys THEN {control[k]} ELSE {Nul}
    [] alt_pressed      -> {Nul}
    [] OTHER            -> MapAt(k)

\* The characters that keyboard_getchar may return for k: one, several if the
\* maps are read beyond their ends, none if the loop goes on.
Returned(k) ==
  CASE k \in DirectKeys -> {direct[k]}
    [] ctrl_pressed     -> IF k \in MapKeys THEN {control[k]} \ {Nul} ELSE {}
    [] alt_pressed      -> {}
    [] OTHER            -> MapAt(k) \ {Nul}

-----------------------------------------------------------------------------
(* Properties                                                              *)

\* No modifier sticks: a flag is set only while one of its keys is down,
\* whichever keys are pressed and released in whichever order, on whichever
\* terminal.
NoStuckModifier ==
  /\ shift_pressed => held \cap ShiftKeys # {}
  /\ ctrl_pressed => held \cap CtrlKeys # {}
  /\ alt_pressed => held \cap AltKeys # {}
=============================================================================
