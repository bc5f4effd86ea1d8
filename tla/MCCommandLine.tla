---------------------------- MODULE MCCommandLine ----------------------------
(* A letter stands for each command.  Lines have up to six words, one more   *)
(* than the array takes, in four ways to put spaces around them; some have a *)
(* word that is as long as a name may be, too long for one, the longest that *)
(* fits every message, or too long for some or for all of them; and some     *)
(* redirect a text that fills the line.                                      *)
EXTENDS CommandLine, TLC

MCHandlers ==
  (<<"e">> :> "echo") @@ (<<"c">> :> "cat") @@ (<<"r">> :> "rm") @@
  (<<"t">> :> "touch") @@ (<<"d">> :> "date") @@ (<<"m">> :> "time") @@
  (<<"k">> :> "kill") @@ (<<"h">> :> "dhcpcd") @@ (<<"i">> :> "ifconfig") @@
  (<<"p">> :> "ping")

MCLengths == 0..254
MCLower == [X |-> "x", E |-> "e"]
MCRf    == <<"-">>
MCEth0  == <<"0">>
MCPids  == {0, 7, -70, 100, INT_MAX, INT_MIN}

Blank(i) == [j \in 1..i |-> Space]
Name(i)  == [j \in 1..i |-> "x"]

RECURSIVE Spaced(_, _)
Spaced(ws, gap) ==
  IF Len(ws) = 1 THEN ws[1] ELSE ws[1] \o Blank(gap) \o Spaced(Tail(ws), gap)

LinesOf(Words) ==
  {Blank(margin) \o Spaced(ws, gap) \o Blank(margin) :
     ws \in Words, gap \in 1..2, margin \in 0..1}

UpTo(i, first, rest) ==
  UNION {{<<w>> \o ws : w \in first, ws \in [1..j -> rest]} : j \in 0..i}

Redirections == UpTo(5, {<<"E">>, <<"c">>}, {To, Onto, <<"X">>})
Commands     == UpTo(2, DOMAIN MCHandlers \cup {<<"z">>}, {MCRf, MCEth0, <<"X">>, To})
LongWords    == UpTo(1, DOMAIN MCHandlers, {Name(30), Name(31), Name(234), Name(235), Name(250)})
LongTexts    == {<< <<"e">>, t, op, f >> : t \in {<<"X">>, Name(217)}, op \in {To, Onto},
                                          f \in {Name(30), Name(31)}}
                  \cup {<< <<"e">>, Name(248), To, <<"x">> >>}

MCCommandLines ==
  {<< >>, Blank(2)} \cup LinesOf(Redirections \cup Commands)
    \cup {Spaced(ws, 1) : ws \in LongWords \cup LongTexts}
=============================================================================
