------------------------------- MODULE Session -------------------------------
(***************************************************************************)
(* lab08: one connection between client.c and the thread of server.c that   *)
(* serves it, for several clients of one server process.                    *)
(*                                                                          *)
(* A client sends a command and reads the reply with fgets: one line, or    *)
(* lines up to an empty one.  What the server sends is a stream of pieces:  *)
(* "text" (characters of a line), "bye", "nl" (LF without a CR), "crlf",    *)
(* and "nul", the zero byte that some of its calls of send count as well.   *)
(* A line ends with "nl" or "crlf"; the empty line the client waits for is  *)
(* "crlf" and nothing else, also not a "nul" before it.                     *)
(*                                                                          *)
(* A read gets all that has been sent.  A command arrives whole; commands   *)
(* that wait together are received together.  The client's FILE is open     *)
(* for reading and writing: glibc refuses to write while there is input in  *)
(* its buffer, and then neither writes nor reads any more.                  *)
(***************************************************************************)
EXTENDS Integers, Sequences, SequencesExt

CONSTANTS Clients,
          InfoFiles, \* what info.txt may contain, <<>> if there is none
          Roots,     \* may root_dir be an absolute path, or not be one?
          MaxTyped   \* bound: lines typed by all the users together

ASSUME SessionAssumption ==
  /\ InfoFiles \subseteq Seq({"text", "nl", "crlf"}) /\ Roots \subseteq BOOLEAN
  /\ MaxTyped \in Nat

VARIABLES
  info,      \* info_buf, the contents of info.txt
  absolute,  \* root_dir is an absolute path
  alive,     \* the server process exists
  cpc,       \* where a client is: before connect, reading, or at its prompt
  script,    \* it takes its commands from an '@' file
  asked,     \* the last line it sent
  buf,       \* input in the buffer of its FILE
  broken,    \* its FILE refuses to read and write
  net,       \* pieces sent and not yet read
  up,        \* commands sent and not yet received
  peer,      \* what the server's end knows of the client's: "open", closed
             \* ("fin"), or closed and gone ("rst")
  spc,       \* where the client's thread is
  todo,      \* what it still has to send of its reply, one item per send
  dir,       \* what curr_dir is the name of
  typed

config   == <<info, absolute>>
client   == <<cpc, script, asked, buf, broken, typed>>
thread   == <<spc, todo, dir>>
sessVars == <<config, alive, client, net, up, peer, thread>>

SessInit ==
  /\ info \in InfoFiles
  /\ absolute \in Roots
  /\ alive = TRUE
  /\ cpc = [c \in Clients |-> "off"]
  /\ script = [c \in Clients |-> FALSE]
  /\ asked = [c \in Clients |-> "nothing"]
  /\ buf = [c \in Clients |-> <<>>]
  /\ broken = [c \in Clients |-> FALSE]
  /\ net = [c \in Clients |-> <<>>]
  /\ up = [c \in Clients |-> <<>>]
  /\ peer = [c \in Clients |-> "open"]
  /\ spc = [c \in Clients |-> "none"]
  /\ todo = [c \in Clients |-> <<>>]
  /\ dir = [c \in Clients |-> "directory"]
  /\ typed = 0

Waiting == {"greeting", "lines", "line", "bye"}

\* The server's end of the connection is closed.
ServerClosed(c) == ~alive \/ spc[c] = "ended"

-----------------------------------------------------------------------------
(***************************************************************************)
(* The client.                                                              *)
(***************************************************************************)

\* main up to the loop that reads the greeting
Connect(c) ==
  /\ cpc[c] = "off" /\ ~ServerClosed(c)
  /\ cpc' = [cpc EXCEPT ![c] = "greeting"]
  /\ UNCHANGED <<config, alive, script, asked, buf, broken, typed, net, up,
                 peer, thread>>

Ends(s) == {i \in 1..Len(s) : s[i] \in {"nl", "crlf"}}
EndOfLine(s) == Min(Ends(s))

\* fgets has to ask the system for more.
Refill(c) ==
  /\ cpc[c] \in Waiting /\ ~broken[c]
  /\ Ends(buf[c]) = {} /\ net[c] # <<>>
  /\ buf' = [buf EXCEPT ![c] = @ \o net[c]]
  /\ net' = [net EXCEPT ![c] = <<>>]
  /\ UNCHANGED <<config, alive, cpc, script, asked, broken, typed, up, peer,
                 thread>>

\* The process ends, perhaps in the middle of a reply, and the system closes
\* its socket; what was not read is lost.
Leave(c, how) ==
  /\ cpc' = [cpc EXCEPT ![c] = how]
  /\ peer' = [peer EXCEPT ![c] = IF net[c] = <<>> THEN "fin" ELSE "rst"]
  /\ net' = [net EXCEPT ![c] = <<>>]
  /\ buf' = [buf EXCEPT ![c] = <<>>]
  /\ script' = [script EXCEPT ![c] = FALSE]
  /\ broken' = [broken EXCEPT ![c] = FALSE]
  /\ asked' = [asked EXCEPT ![c] = "nothing"]

\* fgets returns a line.  After the BYE the client ends.
ReadLine(c) ==
  /\ cpc[c] \in Waiting /\ ~broken[c]
  /\ Ends(buf[c]) # {}
  /\ LET line == SubSeq(buf[c], 1, EndOfLine(buf[c]))
     IN  IF cpc[c] = "bye" /\ Head(line) = "bye"
           THEN Leave(c, "gone")
           ELSE /\ cpc' = [cpc EXCEPT ![c] =
                             IF @ \in {"greeting", "lines"}
                                  /\ line # <<"crlf">>
                               THEN @ ELSE "prompt"]
                /\ buf' = [buf EXCEPT ![c] =
                              SubSeq(@, Len(line) + 1, Len(@))]
                /\ UNCHANGED <<peer, net, script, broken, asked>>
  /\ UNCHANGED <<config, alive, typed, up, thread>>

\* fgets returns NULL, perhaps after a last piece of a line: the server has
\* closed the connection (and what was on its way may be lost), or the FILE is
\* broken.
ReadFails(c) ==
  /\ cpc[c] \in Waiting
  /\ \/ broken[c] /\ UNCHANGED <<buf, net>>
     \/ /\ ServerClosed(c) /\ Ends(buf[c]) = {}
        /\ up[c] = <<>> => net[c] = <<>>
        /\ buf' = [buf EXCEPT ![c] = <<>>]
        /\ net' = [net EXCEPT ![c] = <<>>]
  /\ cpc' = [cpc EXCEPT ![c] = "prompt"]
  /\ UNCHANGED <<config, alive, script, asked, broken, typed, up, peer,
                 thread>>

\* The FILE refuses to write.
Refuses(c) == broken[c] \/ buf[c] # <<>>

\* fprintf and fflush of a line
Write(c, cmd) ==
  up' = IF Refuses(c) \/ ServerClosed(c) THEN up
        ELSE [up EXCEPT ![c] = Append(@, cmd)]

ReplyOf(cmd) == IF cmd = "QUIT" THEN "bye"
                ELSE IF cmd \in {"INFO", "LIST"} THEN "lines" ELSE "line"

\* A line from the user, or from the file; an empty line of the file is
\* skipped.  SIGPIPE may end a client that writes to a closed connection.
Type(c, cmd) ==
  /\ cpc[c] = "prompt" /\ typed < MaxTyped
  /\ cmd = "EMPTY" => ~script[c]
  /\ Write(c, cmd)
  /\ typed' = typed + 1
  /\ \/ /\ cpc' = [cpc EXCEPT ![c] = ReplyOf(cmd)]
        /\ asked' = [asked EXCEPT ![c] = cmd]
        /\ broken' = [broken EXCEPT ![c] = Refuses(c)]
        /\ UNCHANGED <<script, buf, net, peer>>
     \/ ServerClosed(c) /\ ~Refuses(c) /\ Leave(c, "gone")
  /\ UNCHANGED <<config, alive, thread>>

\* '@' and a name starts a file of commands; its end is back at the prompt.
Script(c) ==
  /\ cpc[c] = "prompt"
  /\ \/ ~script[c] /\ typed < MaxTyped /\ typed' = typed + 1
     \/ script[c] /\ UNCHANGED typed
  /\ script' = [script EXCEPT ![c] = ~@]
  /\ UNCHANGED <<config, alive, cpc, asked, buf, broken, net, up, peer,
                 thread>>

\* The end of the user's input: the client ends without a QUIT.
EndOfInput(c) ==
  /\ cpc[c] = "prompt" /\ ~script[c]
  /\ Leave(c, "gone")
  /\ UNCHANGED <<config, alive, typed, up, thread>>

\* handle_sigint of the client
Interrupt(c) ==
  /\ cpc[c] \in Waiting \cup {"prompt"}
  /\ Write(c, "QUIT")
  /\ Leave(c, IF cpc[c] = "prompt" THEN "gone" ELSE "away")
  /\ UNCHANGED <<config, alive, typed, thread>>

-----------------------------------------------------------------------------
(***************************************************************************)
(* The server's thread, handle_client from its greeting on.                 *)
(***************************************************************************)
\* Mutant of InfoReply: no empty line behind it.
InfoReplyOpen == <<info>>

\* The calls of send for info_buf, for a QUIT and for an unknown command
InfoReply == <<info, <<"crlf">>>>

\* Mutant of ByeReply: the line and its end are sent by two calls.
ByeReplySplit == <<<<"bye">>, <<"crlf", "nul">>>>

ByeReply == <<<<"bye", "crlf", "nul">>>>

\* Mutant of UnknownReply: its zero byte is sent too.
UnknownReplyZero == <<<<"text", "crlf", "nul">>>>

UnknownReply == <<<<"text", "crlf">>>>

Greeting == <<<<"text", "crlf", "nul">>>>
            \o (IF info = <<>> THEN <<>> ELSE InfoReply)

\* opendir finds the current directory: the path is relative to the directory
\* the server was started in, which it has left.
CanOpen(c) == absolute /\ dir[c] = "directory"

\* What handle_client sends for a command, call by call.  An empty payload is
\* no piece.  One entry stands for all the entries of a directory.  "(no INFO
\* available)" is sent with the byte behind its zero byte; of "(cannot open
\* dir)" the LF is not sent.
Reply(c, cmd) ==
  CASE cmd = "ECHO" -> {<<<<"text">>, <<"crlf">>>>, <<<<"crlf">>>>}
    [] cmd = "QUIT" -> {ByeReply}
    [] cmd = "INFO" -> IF info # <<>> THEN {InfoReply}
                       ELSE {<<<<"text", "crlf", "nul", b>>>> :
                                b \in {"nul", "text"}}
    [] cmd = "CD" -> {<<<<"crlf">>>>}
    [] cmd = "LIST" -> IF CanOpen(c) THEN {<<<<"text", "crlf">>, <<"crlf">>>>}
                       ELSE {<<<<"text">>, <<"crlf">>>>}
    [] OTHER -> {UnknownReply}

\* recv gets all that waits; strtok finds the first line that is not empty,
\* and the lines behind it are lost.
Recv(c) ==
  /\ alive /\ spc[c] = "recv" /\ up[c] # <<>>
  /\ up' = [up EXCEPT ![c] = <<>>]
  /\ LET lines == {i \in 1..Len(up[c]) : up[c][i] # "EMPTY"}
         cmd   == up[c][Min(lines)]
     IN  \/ lines = {} /\ UNCHANGED thread
         \/ /\ lines # {}
            /\ \E r \in Reply(c, cmd) : todo' = [todo EXCEPT ![c] = r]
            /\ spc' = [spc EXCEPT ![c] =
                         IF cmd = "QUIT" THEN "lastsend" ELSE "send"]
            /\ \E d \in IF cmd = "CD" /\ absolute
                          THEN {dir[c], "directory", "file"} ELSE {dir[c]} :
                 dir' = [dir EXCEPT ![c] = d]
  /\ UNCHANGED <<config, alive, client, net, peer>>

\* One call of send.  The first to a client that has closed its end succeeds
\* and is answered with a reset; from then on one may raise SIGPIPE, which ends
\* the process.
Send(c) ==
  /\ alive /\ spc[c] \in {"send", "lastsend"}
  /\ todo' = [todo EXCEPT ![c] = Tail(@)]
  /\ spc' = [spc EXCEPT ![c] = IF Len(todo[c]) > 1 THEN @
                               ELSE IF @ = "send" THEN "recv" ELSE "ended"]
  /\ \/ /\ peer[c] = "open"
        /\ net' = [net EXCEPT ![c] = @ \o Head(todo[c])]
        /\ UNCHANGED <<alive, peer>>
     \/ /\ peer[c] # "open"
        /\ peer' = [peer EXCEPT ![c] = "rst"]
        /\ alive' \in IF peer[c] = "rst" THEN BOOLEAN ELSE {TRUE}
        /\ UNCHANGED net
  /\ UNCHANGED <<config, client, up, dir>>

\* recv finds the end: the loop is left and the connection closed.
RecvEnd(c) ==
  /\ alive /\ spc[c] = "recv" /\ peer[c] # "open"
  /\ up[c] = <<>> \/ peer[c] = "rst"
  /\ spc' = [spc EXCEPT ![c] = "ended"]
  /\ up' = [up EXCEPT ![c] = <<>>]
  /\ UNCHANGED <<config, alive, client, net, peer, todo, dir>>

-----------------------------------------------------------------------------
Commands == {"ECHO", "QUIT", "INFO", "CD", "LIST", "OTHER", "EMPTY"}

Reads(c) == Refill(c) \/ ReadLine(c) \/ ReadFails(c)

Uses(c) == \/ Connect(c) \/ Script(c) \/ EndOfInput(c) \/ Interrupt(c)
           \/ \E cmd \in Commands : Type(c, cmd)

Serves(c) == Recv(c) \/ Send(c) \/ RecvEnd(c)

-----------------------------------------------------------------------------
(***************************************************************************)
(* Properties.                                                              *)
(***************************************************************************)
\* An info.txt of lines that end with LF, none of them empty with a CR.
PlainInfo == info = <<"text", "nl">>

\* With a plain info.txt, whenever the client shows its prompt on a connection
\* that is open the last reply has been read to its end and the thread waits
\* for a command: no reply is taken for the reply to another command
\* (client.c 73-78 and 140-168 against server.c 70-164).
InSync ==
  \A c \in Clients :
    PlainInfo /\ cpc[c] = "prompt" /\ ~ServerClosed(c) =>
      /\ buf[c] = <<>> /\ net[c] = <<>> /\ up[c] = <<>>
      /\ ~broken[c] /\ spc[c] = "recv"

=============================================================================
