------------------------------ MODULE MCConsole ------------------------------
(* One character stands for each word that matters: "p" for root and for    *)
(* exit, "P" for the password and for pause.  The keys are as they are: the *)
(* control character of "p" is the newline, and space has no other.         *)
EXTENDS Console

MCRoot       == << "p" >>
MCOne        == << "P" >>
MCExitLines  == {<< "p" >>}
MCPauseLines == {<< "P" >>}

MCDirect  == [enter |-> Newline, backspace |-> Erase, space |-> " "]
MCLower   == [keyP |-> "p"]
MCUpper   == [keyP |-> "P"]
MCControl == [keyP |-> Newline]
MCBeyond  == Bytes \cup {Nul}
=============================================================================
