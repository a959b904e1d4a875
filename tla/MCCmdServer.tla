----------------------------- MODULE MCCmdServer -----------------------------
(* Instances of CmdServer for TLC: a client whose two commands are longer than *)
(* the buffer, and one that sends a single command.  A read may end at any     *)
(* symbol, so that the last word of the longer command may run as "exit".      *)
EXTENDS CmdServer

MCLetters == {"lua", "to", "exit"}
MCExit == <<"exit">>
MCCommands == {<<"lua", "to", "exit">>, MCExit}
MCMaxSend == [c \in Clients |-> IF c = "c1" THEN 6 ELSE 2]
=============================================================================
