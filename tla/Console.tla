------------------------------ MODULE Console -------------------------------
(***************************************************************************)
(* The control panel from the keyboard to the command: the line editor of  *)
(* the client program (process_console_input and handle_cmd of             *)
(* sockclient.cc), the stream of bytes to the server's admin connection,   *)
(* and AdminConnection::write_rxbuf, which takes what one read() returned  *)
(* for one command.                                                        *)
(*                                                                         *)
(* Neither end looks for line ends.  The editor takes what one read() of   *)
(* the terminal returned for one key, and the server may find a command    *)
(* cut in two or joined with the next.  When a line of the port has ended  *)
(* and time stamps are on, the stamp goes in front of what is read next,   *)
(* from the panel too, and is a command there.                             *)
(*                                                                         *)
(* What is sent reaches the stream at once here: SockClient and            *)
(* ConnectionTx are about the way there.  The names of what both this      *)
(* module and SockClient have begin with Console, so that                  *)
(* one module can speak of both halves of the client program.              *)
(***************************************************************************)
EXTENDS Integers, Sequences, FiniteSets, SequencesExt

CONSTANTS
  Byte,       \* bytes that occur in a line
  Texts,      \* what a read() of the terminal returns besides the keys below
  Histories,  \* what the history file may hold
  Local,      \* commands the client program carries out without the server
  LocalWith,  \* ... if they have an argument
  Shared,     \* ... and sends to the server as well
  Exit,       \* the one of these that ends the session
  Snippets,   \* names of snippets
  Stamp,      \* the time stamp, as a command
  MaxRead,    \* size of the server's buffer for one read()
  MaxPressed  \* bound on the keys pressed

LF == "\n"
Blanks == {" ", LF}

ASSUME ByteAssumption == Blanks \subseteq Byte
ASSUME TextsAssumption == Texts \subseteq Seq(Byte) \ {<<>>, <<LF>>}
ASSUME HistoriesAssumption == Histories \subseteq Seq(Seq(Byte))
ASSUME ExitAssumption == Exit \in Shared /\ Shared \intersect (Local \union LocalWith) = {}
ASSUME StampAssumption == Stamp \notin Seq(Seq(Byte))
ASSUME ConsoleBounds == MaxRead \in Nat \ {0} /\ MaxPressed \in Nat

VARIABLES
  cmdline,      \* cmdline_
  cursor_pos,   \* cursor_pos_
  history,      \* history_
  history_idx,  \* history_idx_
  at_panel,     \* the terminal belongs to the panel, not to the serial port
  pressed,      \* keys pressed so far
  wire,         \* bytes sent and not yet read; the last one of an Enter is marked
  entered,      \* commands sent, by their words (history)
  executed,     \* what process_cmd was called for, by its words (history)
  misframed,    \* a read() of the server returned other bytes than one Enter sent (history)
  new_ts,       \* new_ts: the next read() of any connection is stamped
  quit,         \* req_quit_ of the admin connection, and what comes of it
  crashed       \* who indexed an empty vector

line == <<cmdline, cursor_pos, history, history_idx>>
stream == <<wire, entered, executed, misframed>>
server == <<new_ts, quit>>
consoleVars ==
  <<cmdline, cursor_pos, history, history_idx, at_panel, pressed,
    wire, entered, executed, misframed, new_ts, quit, crashed>>

-----------------------------------------------------------------------------
(* Words: istream_iterator<string> over a stringstream.                    *)

WordStarts(s) == {i \in DOMAIN s : s[i] \notin Blanks /\ (i = 1 \/ s[i - 1] \in Blanks)}

WordEnd(s, i) ==
  CHOOSE e \in i .. Len(s) :
    /\ \A j \in i .. e : s[j] \notin Blanks
    /\ e = Len(s) \/ s[e + 1] \in Blanks

WordStart(s, k) ==
  CHOOSE i \in WordStarts(s) : Cardinality({j \in WordStarts(s) : j < i}) = k - 1

Words(s) ==
  [k \in 1 .. Cardinality(WordStarts(s)) |->
     SubSeq(s, WordStart(s, k), WordEnd(s, WordStart(s, k)))]

-----------------------------------------------------------------------------
(* process_console_input.                                                  *)

Key == at_panel /\ crashed = "none" /\ pressed < MaxPressed /\ pressed' = pressed + 1

Before == SubSeq(cmdline, 1, cursor_pos)
After == SubSeq(cmdline, cursor_pos + 1, Len(cmdline))

\* Whatever is not a key of its own is put at the cursor: several characters
\* that were read together too, line ends and escape sequences included.
Insert ==
  /\ Key
  /\ \E text \in Texts :
       /\ cmdline' = Before \o text \o After
       /\ cursor_pos' = cursor_pos + Len(text)
  /\ UNCHANGED <<history, history_idx, at_panel, stream, server, crashed>>

\* Mutant of Erase: the byte under the cursor goes.
Erase_Under ==
  /\ Key
  /\ \/ cursor_pos = 0 /\ UNCHANGED <<cmdline, cursor_pos>>
     \/ /\ cursor_pos > 0
        /\ cmdline' = Before \o SubSeq(cmdline, cursor_pos + 2, Len(cmdline))
        /\ cursor_pos' = cursor_pos - 1
  /\ UNCHANGED <<history, history_idx, at_panel, stream, server, crashed>>

\* 0x7f
Erase ==
  /\ Key
  /\ \/ cursor_pos = 0 /\ UNCHANGED <<cmdline, cursor_pos>>
     \/ /\ cursor_pos > 0
        /\ cmdline' = SubSeq(cmdline, 1, cursor_pos - 1) \o After
        /\ cursor_pos' = cursor_pos - 1
  /\ UNCHANGED <<history, history_idx, at_panel, stream, server, crashed>>

\* ESC [ C and ESC [ D
MoveCursor ==
  /\ Key
  /\ cursor_pos' \in {cursor_pos - 1, cursor_pos, cursor_pos + 1} \intersect (0 .. Len(cmdline))
  /\ cursor_pos' = cursor_pos => cursor_pos \in {0, Len(cmdline)}
  /\ UNCHANGED <<cmdline, history, history_idx, at_panel, stream, server, crashed>>

\* Entry n of the history, counted from the newest; 0 is the empty line.
Recalled(n) == IF n = 0 THEN <<>> ELSE history[Len(history) - n + 1]

\* The index stops at either end.
Clamped(n) == IF n > Len(history) THEN Len(history) ELSE IF n < 0 THEN 0 ELSE n

\* ESC [ A and ESC [ B: at either end of the history the line is replaced too.
Recall ==
  /\ Key
  /\ \/ history = <<>> /\ UNCHANGED line
     \/ /\ history # <<>>
        /\ \E d \in {1, -1} : history_idx' = Clamped(history_idx + d)
        /\ cmdline' = Recalled(history_idx')
        /\ cursor_pos' = Len(cmdline')
        /\ UNCHANGED history
  /\ UNCHANGED <<at_panel, stream, server, crashed>>

\* Mutant of Cancel: the cursor stays where it was.
Cancel_KeepsCursor ==
  /\ Key
  /\ cmdline' = <<>>
  /\ UNCHANGED <<cursor_pos, history, history_idx, at_panel, stream, server, crashed>>

\* Control+C: the history index stays.
Cancel ==
  /\ Key
  /\ cmdline' = <<>> /\ cursor_pos' = 0
  /\ UNCHANGED <<history, history_idx, at_panel, stream, server, crashed>>

\* What one Enter sends arrives with its last byte marked.
Marked(bytes) == [i \in DOMAIN bytes |-> [byte |-> bytes[i], last |-> i = Len(bytes)]]
Send(bytes) == wire' = wire \o Marked(bytes)

\* Enter on an empty line sends the newline alone.
EnterEmpty ==
  /\ Key
  /\ cmdline = <<>>
  /\ cursor_pos' = 0 /\ history_idx' = 0
  /\ Send(<<LF>>)
  /\ UNCHANGED <<cmdline, history, at_panel, entered, executed, misframed, server, crashed>>

\* handle_cmd looks at args[0], of a line of blanks too.
EnterBlanks ==
  /\ Key
  /\ cmdline # <<>> /\ Words(cmdline) = <<>>
  /\ crashed' = "client"
  /\ UNCHANGED <<line, at_panel, stream, server>>

\* What handle_cmd keeps to itself, and what it takes for a snippet.
IsLocal(words) == words[1] \in Local \/ (words[1] \in LocalWith /\ Len(words) > 1)
IsSnippet(words) == words[1] \in Snippets \ Shared /\ ~IsLocal(words)

\* Enter on a line with a command: the server's go out as typed, a local one
\* stays here, a snippet leaves the panel; the newline follows, for a snippet on
\* the way to the port.
EnterCommand ==
  /\ Key
  /\ Words(cmdline) # <<>>
  /\ LET words == Words(cmdline) IN
       /\ at_panel' = ~IsSnippet(words)
       /\ \/ IsLocal(words) /\ Send(<<LF>>) /\ UNCHANGED entered
          \/ IsSnippet(words) /\ UNCHANGED <<wire, entered>>
          \/ /\ ~IsLocal(words) /\ ~IsSnippet(words)
             /\ Send(cmdline \o <<LF>>)
             /\ entered' = Append(entered, words)
  /\ history' = Append(history, cmdline)
  /\ cmdline' = <<>> /\ cursor_pos' = 0 /\ history_idx' = 0
  /\ UNCHANGED <<executed, misframed, server, crashed>>

-----------------------------------------------------------------------------
(* The server: Server::input_data_handler, AdminConnection::write_rxbuf.   *)

\* Mutant of Prompted: only the last byte is looked at.
Prompted_LastByte(bytes) == bytes[Len(bytes)] = LF

\* A read() that returned a newline and nothing else asks for the prompt.
Prompted(bytes) == bytes = <<LF>>

\* The byte of the port that ends a line, with time stamps on, and the read() of
\* another connection that is stamped for it.
LineOfPort ==
  /\ crashed # "server"
  /\ new_ts' = ~new_ts
  /\ UNCHANGED <<line, at_panel, pressed, stream, quit, crashed>>

\* The stamp goes through write_rxbuf of its own, ahead of what was read.
Stamped == IF new_ts THEN Append(executed, Stamp) ELSE executed

\* One read(): any part of what has arrived, as far as the buffer goes.  After exit
\* it goes on, until there is nothing more to read.
ServerRead ==
  /\ crashed = "none" /\ quit \in {"no", "asked"}
  /\ \E n \in 1 .. Len(wire) :
       LET chunk == SubSeq(wire, 1, n)
           bytes == [i \in 1 .. n |-> chunk[i].byte]
       IN  /\ n <= MaxRead
           /\ wire' = SubSeq(wire, n + 1, Len(wire))
           /\ misframed' = (misframed \/ \E i \in 1 .. n : chunk[i].last # (i = n))
           /\ \/ Prompted(bytes) /\ executed' = Stamped /\ UNCHANGED <<quit, crashed>>
              \/ /\ ~Prompted(bytes) /\ Words(bytes) # <<>>
                 /\ executed' = Append(Stamped, Words(bytes))
                 /\ quit' = IF Words(bytes)[1] = Exit THEN "asked" ELSE quit
                 /\ UNCHANGED crashed
              \/ /\ ~Prompted(bytes) /\ Words(bytes) = <<>>
                 /\ executed' = Stamped
                 /\ crashed' = "server" /\ UNCHANGED quit
  /\ new_ts' = FALSE
  /\ UNCHANGED <<line, at_panel, pressed, entered>>

\* An output event that comes without an input event finds req_quit_ set.  What
\* arrives between the two, or after the connection is closed, nobody reads.
OutputEvent ==
  /\ quit = "asked" /\ wire = <<>>
  /\ quit' = "flushing"
  /\ UNCHANGED <<line, at_panel, pressed, stream, new_ts, crashed>>

-----------------------------------------------------------------------------
\* Client::Client loads the history; control+Q has opened the panel.
ConsoleInit ==
  /\ cmdline = <<>> /\ cursor_pos = 0
  /\ history \in Histories /\ history_idx = 0
  /\ at_panel = TRUE /\ pressed = 0
  /\ wire = <<>> /\ entered = <<>> /\ executed = <<>>
  /\ misframed = FALSE /\ new_ts \in BOOLEAN /\ quit = "no" /\ crashed = "none"

ConsoleNext ==
  \/ Insert \/ Erase \/ MoveCursor \/ Recall \/ Cancel
  \/ EnterEmpty \/ EnterBlanks \/ EnterCommand
  \/ LineOfPort \/ ServerRead \/ OutputEvent

ConsoleSpec == ConsoleInit /\ [][ConsoleNext]_consoleVars

-----------------------------------------------------------------------------
(* Properties.                                                             *)

ConsoleTypeOK ==
  /\ cmdline \in Seq(Byte) /\ history \in Seq(Seq(Byte))
  /\ cursor_pos \in 0 .. Len(cmdline)
  /\ history_idx \in 0 .. Len(history)
  /\ at_panel \in BOOLEAN /\ pressed \in 0 .. MaxPressed
  /\ wire \in Seq([byte : Byte, last : BOOLEAN])
  /\ entered \in Seq(Seq(Seq(Byte))) /\ executed \in Seq(Seq(Seq(Byte)) \union {Stamp})
  /\ new_ts \in BOOLEAN /\ quit \in {"no", "asked", "flushing"}
  /\ misframed \in BOOLEAN /\ crashed \in {"none", "client", "server"}

\* How many of the first n commands in s are not time stamps.
Proper(s, n) == Cardinality({i \in 1 .. n : s[i] # Stamp})

\* As long as each read() of the server returns what one Enter sent, the server
\* carries out the commands that were entered: in order, word for word, with
\* nothing but time stamps in between, and all of them once all is read.  What is
\* not read is behind an exit: the session is closed only if that was entered.
\* And no empty vector of words is indexed, which two empty lines read together
\* make the server do.
CommandsAsEntered ==
  ~misframed =>
    /\ \A i \in DOMAIN executed :
         executed[i] # Stamp =>
           /\ Proper(executed, i) <= Len(entered)
           /\ executed[i] = entered[Proper(executed, i)]
    /\ wire = <<>> => Proper(executed, Len(executed)) = Len(entered)
    /\ quit # "no" => \E k \in DOMAIN entered : entered[k][1] = Exit
    /\ crashed # "server"

\* Editing is what Editor says, with cmdline_ and cursor_pos_ for the text on
\* either side of the cursor, until a line of blanks is entered.
EditorView == INSTANCE Editor WITH
  left <- Before, right <- After, past <- history, age <- history_idx
EditsLine == EditorView!Spec
=============================================================================
