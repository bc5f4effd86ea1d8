------------------------------- MODULE Readers -------------------------------
(***************************************************************************)
(* What logins, shells and terminals promise, without lines, directories   *)
(* or screens: which terminal is shown, who is logged in, and who gets the *)
(* next key.  There is one reader, whichever terminal is shown.            *)
(***************************************************************************)
CONSTANT Ttys     \* the terminals, tty 0 among them

VARIABLES
  current_tty,    \* the terminal that is shown
  logged_in,      \* the terminals that somebody has logged in to
  reader          \* "login", "shell", or "key": a command that waits for one

readers_vars == <<current_tty, logged_in, reader>>

ReadersInit == current_tty = 0 /\ logged_in = {} /\ reader = "login"

\* A function key shows another terminal, or the same one again.
Switch(t) ==
  /\ current_tty' = t
  /\ reader' = IF t \in logged_in THEN reader ELSE "login"
  /\ UNCHANGED logged_in

\* The name and the password of root have been entered.
Login ==
  /\ reader = "login" /\ reader' = "shell"
  /\ logged_in' = logged_in \cup {current_tty}
  /\ UNCHANGED current_tty

\* The user "1" is welcomed, and then asked again.
Welcome ==
  /\ reader = "login"
  /\ logged_in' = logged_in \cup {current_tty}
  /\ UNCHANGED <<current_tty, reader>>

Exit ==
  /\ reader = "shell" /\ reader' = "login"
  /\ logged_in' = logged_in \ {current_tty}
  /\ UNCHANGED current_tty

Wait   == reader = "shell" /\ reader' = "key" /\ UNCHANGED <<current_tty, logged_in>>
Resume == reader = "key" /\ reader' = "shell" /\ UNCHANGED <<current_tty, logged_in>>

ReadersNext == (\E t \in Ttys : Switch(t)) \/ Login \/ Welcome \/ Exit \/ Wait \/ Resume

ReadersSpec == ReadersInit /\ [][ReadersNext]_readers_vars
=============================================================================
