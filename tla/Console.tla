------------------------------- MODULE Console -------------------------------
(***************************************************************************)
(* The keyboard driver and the readers it serves.  Every reader polls in   *)
(* keyboard_getchar, so a code is handled when it comes; a function key    *)
(* changes the terminal inside that call, whichever reader has made it.    *)
(***************************************************************************)
EXTENDS Session, Keyboard

\* What is in the tables, and behind their ends, are bytes.
ASSUME ConsoleAssumption ==
  /\ \A k \in DirectKeys : direct[k] \in Bytes
  /\ \A k \in MapKeys :
       {keyboard_map_lower[k], keyboard_map_upper[k], control[k]} \subseteq Bytes \cup {Nul}
  /\ Beyond \subseteq Bytes \cup {Nul}

console_vars == <<session_vars, keyboard_vars>>

ConsoleInit == SessionInit /\ KeyboardInit

keyboard_getchar(k) == (\E c \in Returned(k) : Read(c)) /\ UNCHANGED keyboard_vars

\* F1 to F9 are told apart before the modifiers are looked at.
FunctionKey(t) == switch_tty(t) /\ UNCHANGED keyboard_vars

ConsoleNext ==
  \/ Modifiers /\ UNCHANGED session_vars
  \/ \E t \in Ttys : FunctionKey(t)
  \/ \E k \in DirectKeys \cup MapKeys \cup BeyondKeys : keyboard_getchar(k)

ConsoleSpec == ConsoleInit /\ [][ConsoleNext]_console_vars

-----------------------------------------------------------------------------
(* Properties                                                              *)

\* Whatever the driver makes of the codes, also of those beyond the ends of its
\* maps, is a character that the readers can be given: never a zero, which
\* would end a line before its end.
ImplementsSession == SessionSpec
=============================================================================
