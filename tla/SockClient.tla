----------------------------- MODULE SockClient -----------------------------
(***************************************************************************)
(* The client program (sockclient.cc): one thread, a terminal, the socket  *)
(* to the serial port's server and, after control+Q, a second socket to    *)
(* the control panel.  What is typed goes through one txbuf_ to the socket *)
(* named by fd_; what the port sends is kept in client_buf while the panel *)
(* is open.                                                                *)
(*                                                                         *)
(* A switch of the mode moves fd_ while bytes of the old mode may still be *)
(* in txbuf_ and events of the old socket in the batch.  The kernel's send *)
(* buffers have room here; ConnectionTx is about full ones.  The terminal  *)
(* need not have room: it is non-blocking, and what write() returns is not *)
(* looked at.  It may also be hung up.                                     *)
(***************************************************************************)
EXTENDS Streams, FiniteSets

CONSTANTS
  MaxKeys,    \* bound on what is typed
  MaxBytes,   \* bound on the bytes the port sends
  MaxPanels   \* bound on the successful connections to the panel

ASSUME ClientBounds == MaxKeys \in Nat /\ MaxBytes \in Nat /\ MaxPanels \in Nat

\* The sockets: 0 is client_socket_, n the n-th panel.  A panel's descriptor is
\* shut down but never closed, so no number comes back.
Port == 0
Socks == Port .. MaxPanels
NoFd == -1       \* Socket::fileno() after a failed connect()
Terminal == -2   \* fileno(stdin), in events

VARIABLES
  panel,       \* admin_socket_: null, connected, or not null but failed
  fd,          \* fd_
  client_fd,   \* client_fd_
  panels,      \* panels connected so far
  shut,        \* panels shut down by ~Socket
  closed,      \* sockets the server closed
  watched,     \* sockets registered with epoll
  outMask,     \* ... for output too
  edge,        \* ... with news since the last event
  arrived,     \* bytes the port sent
  taken,       \* ... of which read
  hungup,      \* the terminal is hung up, or reads of it fail
  panelOut,    \* panels with unread output
  client_buf,  \* client_buf
  shown,       \* bytes of the port that the terminal took (history)
  unshown,     \* bytes of the port that a write() to it did not (history)
  txbuf,       \* what is to be sent, by what it was typed for
  sentTo,      \* what each socket was sent (history)
  strayed,     \* something to be sent saw fd_ change (history)
  keys,        \* what was typed so far
  batch, event, pc

modeVars == <<panel, fd, client_fd, panels, shut>>
netVars == <<closed, arrived, panelOut, hungup>>
inVars == <<taken, client_buf, shown, unshown>>
outVars == <<txbuf, sentTo, strayed>>
epollVars == <<watched, outMask, edge>>
loopVars == <<batch, event, pc>>
vars == <<panel, fd, client_fd, panels, shut, closed, arrived, panelOut, hungup,
          taken, client_buf, shown, unshown, txbuf, sentTo, strayed, watched, outMask, edge, keys, batch, event, pc>>

Modes == {"none", "connected", "failed"}
Purposes == {"port", "panel"}
Events == [fd : Socks \union {Terminal}, kind : {"in", "out", "error"}]
NoEvent == [fd |-> Terminal, kind |-> "in"]

-----------------------------------------------------------------------------
(* The server and the terminal, seen from here.                            *)

\* Nothing is asked of them once the program has ended.
Running == pc # "exited"

PortSends ==
  /\ Running
  /\ arrived < MaxBytes /\ Port \notin closed
  /\ arrived' = arrived + 1
  /\ edge' = edge \union {Port}
  /\ UNCHANGED <<modeVars, closed, panelOut, hungup, inVars, outVars, watched, outMask, keys, loopVars>>

PanelSends(d) ==
  /\ Running
  /\ d \in 1 .. panels /\ d \notin closed \union shut
  /\ panelOut' = panelOut \union {d}
  /\ edge' = edge \union {d}
  /\ UNCHANGED <<modeVars, closed, arrived, hungup, inVars, outVars, watched, outMask, keys, loopVars>>

ServerCloses(d) ==
  /\ Running
  /\ d \in 0 .. panels /\ d \notin closed
  /\ closed' = closed \union {d}
  /\ edge' = edge \union {d}
  /\ UNCHANGED <<modeVars, arrived, panelOut, hungup, inVars, outVars, watched, outMask, keys, loopVars>>

\* SIGHUP is ignored, so that the loop lives to see it.
HangUp ==
  /\ Running /\ ~hungup
  /\ hungup' = TRUE
  /\ UNCHANGED <<modeVars, closed, arrived, panelOut, inVars, outVars, epollVars, keys, loopVars>>

-----------------------------------------------------------------------------
(* IOLoop::start and Client::handle.                                       *)

Ended(d) == d \in closed \/ (d = Terminal /\ hungup)

\* Somebody may always have typed.
HasInput(d) ==
  d \in closed \/ d \in panelOut \/ (d = Port /\ taken < arrived) \/ d = Terminal

\* What epoll_wait may report of a descriptor: with input and output together the
\* handler looks at the input only.
Kinds(d) ==
  {k \in {"in", "out", "error"} :
     \/ k = "in" /\ HasInput(d)
     \/ k = "out" /\ ~HasInput(d) /\ d \in outMask
     \/ k = "error" /\ Ended(d)}

\* All sockets with news, and the terminal if somebody typed or it hung up.
EpollWait ==
  /\ pc = "poll"
  /\ \E terminal \in SUBSET {Terminal} :
       LET news == {d \in (edge \intersect watched) \union terminal : Kinds(d) # {}} IN
       /\ news # {}
       /\ \E kind \in [news -> {"in", "out", "error"}] :
            /\ \A d \in news : kind[d] \in Kinds(d)
            /\ batch' = {[fd |-> d, kind |-> kind[d]] : d \in news}
  /\ edge' = edge \ watched
  /\ pc' = "dispatch"
  /\ UNCHANGED <<modeVars, netVars, inVars, outVars, watched, outMask, keys, event>>

Dispatch ==
  /\ pc = "dispatch"
  /\ \E e \in batch :
       /\ event' = e
       /\ batch' = batch \ {e}
       /\ pc' = IF e.fd = Terminal /\ e.kind = "in" THEN "stdin" ELSE e.kind
  /\ UNCHANGED <<modeVars, netVars, inVars, outVars, epollVars, keys>>

EndOfBatch ==
  /\ pc = "dispatch" /\ batch = {}
  /\ pc' = "poll" /\ event' = NoEvent
  /\ UNCHANGED <<modeVars, netVars, inVars, outVars, epollVars, keys, batch>>

\* The error branch ends the program, for the terminal as for a socket.
HandleError ==
  /\ pc = "error"
  /\ watched' = watched \ {event.fd}
  /\ pc' = "exited"
  /\ UNCHANGED <<modeVars, netVars, inVars, outVars, outMask, edge, keys, batch, event>>

\* Mutant of HandleOutput: flush writes to client_fd_.
HandleOutput_ToClientFd ==
  /\ pc = "out"
  /\ sentTo' = [sentTo EXCEPT ![client_fd] = @ \union {txbuf[i] : i \in DOMAIN txbuf}]
  /\ txbuf' = <<>>
  /\ pc' = "dispatch"
  /\ UNCHANGED <<modeVars, netVars, inVars, strayed, epollVars, keys, batch, event>>

\* output_data_handler: flush writes to fd_, whichever socket the event was for.
HandleOutput ==
  /\ pc = "out"
  /\ \/ fd = NoFd /\ UNCHANGED <<txbuf, sentTo>>
     \/ /\ fd # NoFd
        /\ sentTo' = [sentTo EXCEPT ![fd] = @ \union {txbuf[i] : i \in DOMAIN txbuf}]
        /\ txbuf' = <<>>
  /\ pc' = "dispatch"
  /\ UNCHANGED <<modeVars, netVars, inVars, strayed, epollVars, keys, batch, event>>

-----------------------------------------------------------------------------
(* input_data_handler on a socket.                                         *)

\* write_rxbuf: the terminal takes as many of the bytes as it has room for, all or
\* none of them too, and nobody asks how many.
Show(bytes) ==
  \E n \in 0 .. Len(bytes) :
    /\ shown' = shown \o SubSeq(bytes, 1, n)
    /\ unshown' = unshown \union {bytes[i] : i \in n + 1 .. Len(bytes)}

\* Bytes of the port are stored while the panel is open and shown otherwise.
ReadPort ==
  /\ pc = "in" /\ event.fd = Port
  /\ taken' \in taken + 1 .. arrived
  /\ \/ /\ client_fd = Port /\ panel # "none"
        /\ client_buf' = client_buf \o Run(taken, taken')
        /\ UNCHANGED <<shown, unshown>>
     \/ /\ ~(client_fd = Port /\ panel # "none")
        /\ Show(Run(taken, taken'))
        /\ UNCHANGED client_buf
  /\ UNCHANGED <<modeVars, netVars, outVars, epollVars, keys, loopVars>>

\* Output of a panel goes to the terminal.
ReadPanel ==
  /\ pc = "in" /\ event.fd \in panelOut
  /\ panelOut' = panelOut \ {event.fd}
  /\ UNCHANGED <<modeVars, closed, arrived, hungup, inVars, outVars, epollVars, keys, loopVars>>

Unread == event.fd \in panelOut \/ (event.fd = Port /\ taken < arrived)

\* Mutant of ReadClosed: EAGAIN is taken for the end of the connection.
ReadClosed_OnAgain ==
  /\ pc = "in" /\ ~Unread
  /\ pc' = "exited"
  /\ UNCHANGED <<modeVars, netVars, inVars, outVars, epollVars, keys, batch, event>>

\* read() returns 0 or fails, on the terminal as on a socket: "Server Connection
\* Closed", exit(0).
ReadClosed ==
  /\ \/ pc = "in" /\ ~Unread /\ event.fd \in closed \union shut
     \/ pc = "stdin" /\ hungup
  /\ pc' = "exited"
  /\ UNCHANGED <<modeVars, netVars, inVars, outVars, epollVars, keys, batch, event>>

ReadAgain ==
  /\ \/ pc = "in" /\ ~Unread /\ event.fd \notin closed \union shut
     \/ pc = "stdin" /\ ~hungup
  /\ pc' = "dispatch"
  /\ UNCHANGED <<modeVars, netVars, inVars, outVars, epollVars, keys, batch, event>>

-----------------------------------------------------------------------------
(* input_data_handler on the terminal.                                     *)

Typed == pc = "stdin" /\ ~hungup /\ keys < MaxKeys /\ keys' = keys + 1

\* modifyHandler(d, EPOLLOUT | EPOLLIN | EPOLLET) fails if d is not registered.
Modify(d) ==
  /\ outMask' = outMask \union ({d} \intersect watched)
  /\ edge' = edge \union ({d} \intersect watched)

\* Connection::write_txbuf.
WriteTx(what) ==
  /\ txbuf' = txbuf \o what
  /\ Modify(fd)

\* A key typed to the port.
TypeKey ==
  /\ Typed
  /\ panel = "none"
  /\ WriteTx(<<"port">>)
  /\ UNCHANGED <<modeVars, netVars, inVars, sentTo, strayed, watched, loopVars>>

\* Mutant of EnterPanel: client_fd_ is saved behind the assignment of fd_.
EnterPanel_SavesLate ==
  /\ Typed
  /\ panel = "none"
  /\ \/ /\ panels < MaxPanels
        /\ panel' = "connected"
        /\ panels' = panels + 1 /\ fd' = panels'
        /\ watched' = watched \union {fd'}
     \/ /\ panel' = "failed"
        /\ fd' = NoFd
        /\ UNCHANGED <<panels, watched>>
  /\ client_fd' = fd'
  /\ strayed' = (strayed \/ txbuf # <<>>)
  /\ UNCHANGED <<shut, netVars, inVars, txbuf, sentTo, outMask, edge, loopVars>>

\* Control+Q: switch_admin_connection(true).  A socket that could not connect
\* has fileno() -1, which passes the test as well.
EnterPanel ==
  /\ Typed
  /\ panel = "none"
  /\ client_fd' = fd
  /\ \/ /\ panels < MaxPanels
        /\ panel' = "connected"
        /\ panels' = panels + 1 /\ fd' = panels'
        /\ watched' = watched \union {fd'}
     \/ /\ panel' = "failed"
        /\ fd' = NoFd
        /\ UNCHANGED <<panels, watched>>
  /\ strayed' = (strayed \/ txbuf # <<>>)
  /\ UNCHANGED <<shut, netVars, inVars, txbuf, sentTo, outMask, edge, loopVars>>

\* Mutants of SwitchOff: fd_ is not restored; what was stored stays stored.
SwitchOff_KeepsFd ==
  /\ panel' = "none"
  /\ fd' = fd
  /\ shut' = shut \union ({fd} \ {NoFd})
  /\ watched' = watched \ {fd}
  /\ Show(client_buf) /\ client_buf' = <<>>
  /\ UNCHANGED <<client_fd, panels, taken>>
SwitchOff_KeepsBuffer ==
  /\ panel' = "none"
  /\ fd' = client_fd
  /\ shut' = shut \union ({fd} \ {NoFd})
  /\ watched' = watched \ {fd}
  /\ UNCHANGED <<client_fd, panels, inVars>>

\* switch_admin_connection(false), with an admin_socket_.  What was stored is
\* written once and then forgotten.
SwitchOff ==
  /\ panel' = "none"
  /\ fd' = client_fd
  /\ shut' = shut \union ({fd} \ {NoFd})
  /\ watched' = watched \ {fd}
  /\ Show(client_buf) /\ client_buf' = <<>>
  /\ UNCHANGED <<client_fd, panels, taken>>

\* Control+Q again.
LeavePanel ==
  /\ Typed
  /\ panel # "none"
  /\ SwitchOff
  /\ strayed' = (strayed \/ txbuf # <<>>)
  /\ UNCHANGED <<netVars, txbuf, sentTo, outMask, edge, loopVars>>

\* Enter, at the panel: the command, if it is not a local one, and the newline
\* that asks for a prompt.
TypeLine ==
  /\ Typed
  /\ panel # "none"
  /\ WriteTx(<<"panel">>)
  /\ UNCHANGED <<modeVars, netVars, inVars, sentTo, strayed, watched, loopVars>>

\* Enter, when the command is the name of a snippet: the panel is left, the
\* snippet is for the port, and the newline is for the panel as ever.
TypeSnippet ==
  /\ Typed
  /\ panel # "none"
  /\ SwitchOff
  /\ txbuf' = txbuf \o <<"port", "panel">>
  /\ Modify(client_fd)
  /\ strayed' = TRUE
  /\ UNCHANGED <<netVars, sentTo, loopVars>>

-----------------------------------------------------------------------------
Init ==
  /\ panel = "none" /\ fd = Port /\ client_fd = Port /\ panels = 0
  /\ shut = {} /\ closed = {}
  /\ watched = {Port} /\ outMask = {} /\ edge = {}
  /\ arrived = 0 /\ taken = 0 /\ panelOut = {} /\ hungup = FALSE
  /\ client_buf = <<>> /\ shown = <<>> /\ unshown = {}
  /\ txbuf = <<>> /\ sentTo = [d \in Socks |-> {}] /\ strayed = FALSE
  /\ keys = 0
  /\ batch = {} /\ event = NoEvent /\ pc = "poll"

Next ==
  \/ PortSends \/ \E d \in Socks : PanelSends(d) \/ ServerCloses(d)
  \/ HangUp
  \/ EpollWait \/ Dispatch \/ EndOfBatch \/ HandleError \/ HandleOutput
  \/ ReadPort \/ ReadPanel \/ ReadClosed \/ ReadAgain
  \/ TypeKey \/ EnterPanel \/ LeavePanel \/ TypeLine \/ TypeSnippet

Spec == Init /\ [][Next]_vars

-----------------------------------------------------------------------------
(* Properties.                                                             *)

TypeOK ==
  /\ panel \in Modes
  /\ fd \in Socks \union {NoFd} /\ client_fd \in Socks
  /\ panels \in 0 .. MaxPanels
  /\ shut \subseteq Socks /\ closed \subseteq Socks
  /\ watched \subseteq Socks /\ outMask \subseteq Socks /\ edge \subseteq Socks
  /\ arrived \in 0 .. MaxBytes /\ taken \in 0 .. arrived
  /\ panelOut \subseteq Socks /\ hungup \in BOOLEAN
  /\ client_buf \in Seq(1 .. MaxBytes) /\ shown \in Seq(1 .. MaxBytes)
  /\ unshown \subseteq 1 .. taken
  /\ txbuf \in Seq(Purposes) /\ sentTo \in [Socks -> SUBSET Purposes]
  /\ strayed \in BOOLEAN /\ keys \in 0 .. MaxKeys
  /\ batch \subseteq Events /\ event \in Events
  /\ pc \in {"poll", "dispatch", "stdin", "in", "out", "error", "exited"}

\* Whatever switches, failed connections and snippets came before, fd_ is the
\* socket of the current mode, the way back is to the port, and epoll watches
\* the port and the open panel and no other.
ModeConsistent ==
  /\ client_fd = Port
  /\ panel = "none" => fd = Port
  /\ panel = "connected" => fd \in 1 .. panels /\ fd \notin shut
  /\ panel = "failed" => fd = NoFd
  /\ pc # "exited" => watched = {Port} \union (IF panel = "connected" THEN {fd} ELSE {})

\* The bytes that got to the terminal or are stored, in the order of their display.
Kept == shown \o client_buf

\* No byte of the port is shown twice or before an earlier one, however often the
\* panel is opened and left; and none goes missing between the read and the
\* terminal: one that is neither shown nor stored any more is one that a write()
\* did not take.  Nothing is stored when no panel is open.
PortShownInOrder ==
  /\ \A i, j \in DOMAIN Kept : i < j => Kept[i] < Kept[j]
  /\ {Kept[i] : i \in DOMAIN Kept} = (1 .. taken) \ unshown
  /\ panel = "none" => client_buf = <<>>

\* What is typed goes to the socket it was typed for, unless fd_ changed before
\* it was sent.
MisroutedOnlyAcrossSwitch ==
  ~strayed =>
    /\ sentTo[Port] \subseteq {"port"}
    /\ \A d \in Socks \ {Port} : sentTo[d] \subseteq {"panel"}

\* No handler ends the program but for its own descriptor: a socket that the server
\* closed, a terminal that was hung up, or a panel that was left while its event was
\* still in the batch.
ExitHasCause == pc = "exited" => Ended(event.fd) \/ event.fd \in shut
=============================================================================
