------------------------------ MODULE MCServer ------------------------------
(* Server for TLC.                                                          *)
EXTENDS Server

\* An info.txt of lines
Plain == {<<"text", "nl">>}

\* No info.txt, lines, a last line without its end, and lines with an empty
\* one among them (or with 1023 characters before their CR LF, where fgets
\* splits the line)
AllShapes == {<<>>, <<"text", "nl">>, <<"text">>,
              <<"text", "nl", "crlf", "text", "nl">>}

=============================================================================
