----------------------------- MODULE MCConsole ------------------------------
(* Values for the constants of Console.  Two letters are enough for commands of
   every kind: "a" and "x" are the server's, "x" being exit, "aa" is a local
   command, "ax" one that is local with an argument, "xa" a snippet. *)
EXTENDS Console

MCByte == {"a", "x", " ", LF}
MCTexts == {<<"a">>, <<"x">>, <<" ">>, <<"a", LF, "a">>}
MCHistories == {<<>>, << <<"a">> >>}
MCLocal == {<<"a", "a">>}
MCLocalWith == {<<"a", "x">>}
MCExit == <<"x">>
MCShared == {MCExit}
MCSnippets == {<<"x", "a">>}
=============================================================================
