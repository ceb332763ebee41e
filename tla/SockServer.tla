----------------------------- MODULE SockServer -----------------------------
(***************************************************************************)
(* The server's event loop and the descriptors it owns: IOLoop::start,     *)
(* Server (sockserver.cc), ConnectionManager (connection_server.cc) and    *)
(* the connect/disconnect half of SerialPort (serialport.cc).              *)
(*                                                                         *)
(* Three records of the same fact are kept by three classes: which         *)
(* descriptors the kernel has open, which Connection objects the manager   *)
(* lists, and the number in SerialPort::fd_.  epoll_wait hands out a batch *)
(* of events, and handling one event can close a descriptor, or give its   *)
(* number to somebody else, while a later event of the batch names it.     *)
(*                                                                         *)
(* Data is left out: a read either delivers something or ends the loop.    *)
(* The data paths are modelled in DataProxy and ConnectionTx.              *)
(***************************************************************************)
EXTENDS Integers, FiniteSets

CONSTANTS
  Fd,            \* descriptor numbers above the fixed ones (stdio, epoll, listeners)
  Conn,          \* heap cells for Connection objects
  NoConn,        \* the null pointer
  MaxEvents,     \* MAX_EVENTS, the size of the array given to epoll_wait
  MayFail        \* the faults of the device that may happen

NoFd == -1       \* SerialPort::fd_ when the port is closed

ASSUME FdAssumption == Fd \subseteq Nat \ {0}
ASSUME NoConnAssumption == NoConn \notin Conn
ASSUME MaxEventsAssumption == MaxEvents \in Nat \ {0}

\* "setup": open() succeeds and the termios setup then fails.
\* "hangup": the device hangs up while input_data_handler reads it.
Faults == {"setup", "hangup"}
ASSUME MayFailAssumption == MayFail \subseteq Faults

VARIABLES
  open,          \* descriptors the kernel has open, within Fd
  watched,       \* descriptors registered with epoll, within Fd
  live,          \* allocated Connection objects
  info,          \* their fields: fd_, info_.type and req_quit_
  connections,   \* ConnectionManager::connections_
  serialFd,      \* SerialPort::fd_
  faults,        \* the faults that have happened (history)
  batch,         \* events returned by epoll_wait and not yet handled
  event,         \* the event being handled
  pconn,         \* the connection input_data_handler works on
  pc             \* where the loop thread is

port == <<open, watched, live, info, connections, serialFd, faults>>
vars == <<open, watched, live, info, connections, serialFd, faults, batch, event, pconn, pc>>

Types == {"client", "admin", "serial"}

\* What Server::handle tells apart: EPOLLERR/EPOLLHUP first, then EPOLLIN, then EPOLLOUT.
IoKinds == {"error", "in", "out"}

\* Two fields are ghosts: the connection that had the descriptor when epoll
\* reported it, and its type.
Events == [kind : IoKinds \union {"client", "admin"}, fd : Fd \union {NoFd},
           owner : Conn \union {NoConn}, type : Types]

NoEvent == [kind |-> "client", fd |-> NoFd, owner |-> NoConn, type |-> "client"]

\* An unallocated cell.
Blank == [fd |-> NoFd, type |-> "client", quit |-> FALSE]

-----------------------------------------------------------------------------
(* ConnectionManager and descriptor allocation.                            *)

\* ConnectionManager::find(fd) returns one of these, or null when there is none.
Find(f) == {c \in connections : info[c].fd = f}

\* The events epoll may report for a registered descriptor, and for a listener.
IoEvents(f) ==
  {[kind |-> k, fd |-> f, owner |-> c, type |-> info[c].type] : k \in IoKinds, c \in Find(f)}
ListenEvents(t) == {[NoEvent EXCEPT !.kind = t]}

\* The kernel hands out the lowest free number.
IsLowestFree(f) == f \in Fd \ open /\ \A g \in Fd \ open : f <= g

\* A new object gets a cell no pointer or pending event still refers to, so
\* that a dangling pointer is recognised as one.
Fresh(c) == c \in Conn \ live /\ c # pconn /\ c # event.owner /\ \A e \in batch : e.owner # c

\* Mutant of NewConnection: the addHandler call is forgotten.
NewConnection_NotWatched(f, t) ==
  \E c \in Conn :
    /\ Fresh(c)
    /\ open' = open \union {f}
    /\ live' = live \union {c}
    /\ info' = [info EXCEPT ![c] = [fd |-> f, type |-> t, quit |-> FALSE]]
    /\ connections' = connections \union {c}
    /\ UNCHANGED watched

\* new XxxConnection(f, ...), addHandler(f) and ConnectionManager::append.
NewConnection(f, t) ==
  \E c \in Conn :
    /\ Fresh(c)
    /\ open' = open \union {f}
    /\ watched' = watched \union {f}
    /\ live' = live \union {c}
    /\ info' = [info EXCEPT ![c] = [fd |-> f, type |-> t, quit |-> FALSE]]
    /\ connections' = connections \union {c}

\* Mutant of CloseConnection: the object is deleted without leaving the manager.
CloseConnection_KeepsEntry(c) ==
  /\ live' = live \ {c}
  /\ open' = open \ {info[c].fd}
  /\ watched' = watched \ {info[c].fd}
  /\ info' = [info EXCEPT ![c] = Blank]
  /\ UNCHANGED connections

\* Server::close_connection(Connection *): the manager removes an entry with
\* the same descriptor, then the object is deleted, which closes it.
CloseConnection(c) ==
  /\ \E r \in Find(info[c].fd) : connections' = connections \ {r}
  /\ live' = live \ {c}
  /\ open' = open \ {info[c].fd}
  /\ watched' = watched \ {info[c].fd}
  /\ info' = [info EXCEPT ![c] = Blank]

-----------------------------------------------------------------------------
(* SerialPort::connect and disconnect, with the callback the Server        *)
(* installs (OnSerialPortConnectionChanged).                               *)

\* Mutant of SerialConnect: the test "if (fd_ > 0) return" is dropped.
SerialConnect_Twice ==
  \/ UNCHANGED port
  \/ (\E f \in Fd : IsLowestFree(f) /\ serialFd' = f /\ NewConnection(f, "serial"))
     /\ UNCHANGED faults

\* When the setup fails after open(), the descriptor is closed but fd_ keeps
\* its number.  When the port has an fd_, nothing is tried.
SerialConnect ==
  \/ UNCHANGED port                                    \* fd_ > 0, or open() fails
  \/ /\ serialFd = NoFd
     /\ "setup" \in MayFail /\ faults' = faults \union {"setup"}
     /\ \E f \in Fd : IsLowestFree(f) /\ serialFd' = f
     /\ UNCHANGED <<open, watched, live, info, connections>>
  \/ /\ serialFd = NoFd
     /\ \E f \in Fd : IsLowestFree(f) /\ serialFd' = f /\ NewConnection(f, "serial")
     /\ UNCHANGED faults

\* What disconnect does before it resets fd_: the callback removes and deletes
\* whatever connection has the number fd_, which closes the descriptor;
\* close(fd_) then closes it once more.
DropPort ==
  /\ serialFd # NoFd
  /\ \/ Find(serialFd) = {} /\ UNCHANGED <<connections, live, info>>
     \/ \E c \in Find(serialFd) :
          /\ connections' = connections \ {c}
          /\ live' = live \ {c}
          /\ info' = [info EXCEPT ![c] = Blank]
  /\ watched' = watched \ {serialFd}
  /\ open' = open \ {serialFd}
  /\ UNCHANGED faults

\* Mutants of SerialDisconnect: fd_ is left alone, or set to 0.
SerialDisconnect_KeepsFd ==
  \/ serialFd = NoFd /\ UNCHANGED port
  \/ DropPort /\ UNCHANGED serialFd
SerialDisconnect_Zero ==
  \/ serialFd = NoFd /\ UNCHANGED port
  \/ DropPort /\ serialFd' = 0

\* SerialPort::disconnect.
SerialDisconnect ==
  \/ serialFd = NoFd /\ UNCHANGED port
  \/ DropPort /\ serialFd' = NoFd

-----------------------------------------------------------------------------
(* The loop: IOLoop::start and Server::handle.                             *)

\* Server::Server ends by connecting the port; main then starts the loop.
Start ==
  /\ pc = "start"
  /\ SerialConnect
  /\ pc' = "poll"
  /\ UNCHANGED <<batch, event, pconn>>

\* epoll_wait: up to MaxEvents events, at most one for a registered
\* descriptor or a listener.
EpollWait ==
  /\ pc = "poll"
  /\ batch' \in SUBSET ((UNION {IoEvents(f) : f \in watched})
                          \union ListenEvents("client") \union ListenEvents("admin"))
  /\ batch' # {} /\ Cardinality(batch') <= MaxEvents
  /\ \A e, d \in batch' : e.fd = d.fd => e = d \/ e.fd = NoFd
  /\ pc' = "dispatch"
  /\ UNCHANGED <<port, event, pconn>>

\* The next event of the batch; the kernel's order is not defined.
Dispatch ==
  /\ pc = "dispatch"
  /\ \E e \in batch : event' = e /\ batch' = batch \ {e} /\ pc' = e.kind
  /\ UNCHANGED <<port, pconn>>

EndOfBatch ==
  /\ pc = "dispatch"
  /\ batch = {}
  /\ pc' = "poll"
  /\ event' = NoEvent
  /\ UNCHANGED <<port, batch, pconn>>

\* Mutant of HandleError: the test for the port's descriptor is dropped.
HandleError_Always ==
  /\ pc = "error"
  /\ SerialDisconnect
  /\ pc' = "close"
  /\ UNCHANGED <<batch, event, pconn>>

\* Server::handle, the error branch; the close_connection(fd) call follows.
HandleError ==
  /\ pc = "error"
  /\ \/ event.fd = serialFd /\ SerialDisconnect
     \/ /\ event.fd # serialFd
        /\ watched' = watched \ {event.fd}
        /\ UNCHANGED <<open, live, info, connections, serialFd, faults>>
  /\ pc' = "close"
  /\ UNCHANGED <<batch, event, pconn>>

CloseByFd ==
  /\ pc = "close"
  /\ \/ Find(event.fd) = {} /\ UNCHANGED port
     \/ (\E c \in Find(event.fd) : CloseConnection(c)) /\ UNCHANGED <<serialFd, faults>>
  /\ pc' = "dispatch"
  /\ UNCHANGED <<batch, event, pconn>>

\* output_data_handler: flush, then close a connection that asked to quit.
HandleOutput ==
  /\ pc = "out"
  /\ \/ (\E c \in Find(event.fd) : info[c].quit /\ CloseConnection(c))
        /\ UNCHANGED <<serialFd, faults>>
     \/ (\A c \in Find(event.fd) : ~info[c].quit) /\ UNCHANGED port
  /\ pc' = "dispatch"
  /\ UNCHANGED <<batch, event, pconn>>

\* accept_connection: one accept(); the loop repeats until the backlog is
\* empty or the descriptors are used up.
Accept(t) ==
  /\ pc = t
  /\ \E f \in Fd : IsLowestFree(f) /\ NewConnection(f, t)
  /\ UNCHANGED <<serialFd, faults, batch, event, pconn, pc>>

AcceptDone(t) ==
  /\ pc = t
  /\ pc' = "dispatch"
  /\ UNCHANGED <<port, batch, event, pconn>>

-----------------------------------------------------------------------------
(* Server::input_data_handler.                                             *)

\* find(fd), then pconn->type() whether or not pconn is null.
FindInput ==
  /\ pc = "in"
  /\ \/ \E c \in Find(event.fd) : pconn' = c /\ pc' = "read"
     \/ Find(event.fd) = {} /\ pconn' = NoConn /\ pc' = "undefined"
  /\ UNCHANGED <<port, batch, event>>

\* read() returned data: reconnect the port if it is closed, then
\* pconn->write_rxbuf, which for an admin connection runs a command.
ReadData ==
  /\ pc = "read"
  /\ SerialConnect
  /\ pc' = IF info[pconn].type = "admin" THEN "command" ELSE "read"
  /\ UNCHANGED <<batch, event, pconn>>

\* Mutant of Command: exit deletes the connection instead of asking for it.
Command_ExitCloses ==
  /\ pc = "command"
  /\ \/ CloseConnection(pconn) /\ UNCHANGED <<serialFd, faults>>
     \/ UNCHANGED port
  /\ pc' = "prompt"
  /\ UNCHANGED <<batch, event, pconn>>

\* AdminConnection::process_cmd, the commands that reach SerialPort or the loop.
Command ==
  /\ pc = "command"
  /\ \/ SerialDisconnect /\ pc' \in {"prompt", "reconnect"}        \* disconnect, reconnect
     \/ SerialConnect /\ pc' = "prompt"                            \* connect
     \/ /\ info' = [info EXCEPT ![pconn].quit = TRUE]              \* exit
        /\ pc' = "prompt"
        /\ UNCHANGED <<open, watched, live, connections, serialFd, faults>>
     \/ UNCHANGED port /\ pc' = "prompt"                           \* the others
  /\ UNCHANGED <<batch, event, pconn>>

\* The second half of SerialPort::reconnect.
Reconnect ==
  /\ pc = "reconnect"
  /\ SerialConnect
  /\ pc' = "prompt"
  /\ UNCHANGED <<batch, event, pconn>>

\* Back in AdminConnection::write_rxbuf: write_txbuf(MGR_PROMPT) on the same object.
Prompt ==
  /\ pc = "prompt"
  /\ pc' = IF pconn \in live THEN "read" ELSE "undefined"
  /\ UNCHANGED <<port, batch, event, pconn>>

\* read() returned -1 (EAGAIN): the loop ends and the connection stays.
ReadAgain ==
  /\ pc = "read"
  /\ pc' = "dispatch" /\ pconn' = NoConn
  /\ UNCHANGED <<port, batch, event>>

\* read() returned 0 or an error: close_connection(pconn).
ReadClosed ==
  /\ pc = "read"
  /\ \/ info[pconn].type # "serial" /\ UNCHANGED faults
     \/ /\ info[pconn].type = "serial"
        /\ "hangup" \in MayFail /\ faults' = faults \union {"hangup"}
  /\ CloseConnection(pconn)
  /\ pc' = "dispatch" /\ pconn' = NoConn
  /\ UNCHANGED <<serialFd, batch, event>>

-----------------------------------------------------------------------------
Init ==
  /\ open = {} /\ watched = {} /\ live = {} /\ connections = {}
  /\ info = [c \in Conn |-> Blank]
  /\ serialFd = NoFd /\ faults = {}
  /\ batch = {} /\ event = NoEvent /\ pconn = NoConn
  /\ pc = "start"

Next ==
  \/ Start \/ EpollWait \/ Dispatch \/ EndOfBatch
  \/ HandleError \/ CloseByFd \/ HandleOutput
  \/ \E t \in {"client", "admin"} : Accept(t) \/ AcceptDone(t)
  \/ FindInput \/ ReadData \/ Command \/ Reconnect \/ Prompt \/ ReadAgain \/ ReadClosed

Spec == Init /\ [][Next]_vars

-----------------------------------------------------------------------------
(* Properties.                                                             *)

PcStates == {"start", "poll", "dispatch", "close", "read", "command", "reconnect", "prompt",
             "undefined"} \union IoKinds \union {"client", "admin"}

TypeOK ==
  /\ open \subseteq Fd
  /\ watched \subseteq Fd
  /\ live \subseteq Conn
  /\ connections \subseteq Conn
  /\ info \in [Conn -> [fd : Fd \union {NoFd}, type : Types, quit : BOOLEAN]]
  /\ serialFd \in Fd \union {NoFd}
  /\ faults \subseteq MayFail
  /\ batch \subseteq Events
  /\ event \in Events
  /\ pconn \in Conn \union {NoConn}
  /\ pc \in PcStates

\* The manager's list and the kernel's table agree at every step: each listed
\* connection is allocated and has a descriptor of its own, and every open
\* descriptor belongs to a listed connection.  close_connection(int) and the
\* port callback delete whatever find/remove by number return, so a wrong
\* answer would free somebody else's connection or leak one.
ManagerMatchesKernel ==
  /\ connections = live
  /\ \A c, d \in connections : info[c].fd = info[d].fd => c = d
  /\ open = {info[c].fd : c \in connections}

\* The loop watches exactly the descriptors it has open, except between
\* removeHandler and close_connection in the error branch of Server::handle.
WatchedAreOpen ==
  /\ watched \subseteq open
  /\ pc # "close" => watched = open

\* There is never a second SerialPortConnection: one that is listed carries
\* the number in SerialPort::fd_, whatever connects, drops and commands came before.
OneSerialConnection ==
  \A c \in connections : info[c].type = "serial" => info[c].fd = serialFd

\* isconnected() tells the truth: a positive fd_ is the descriptor of a listed
\* SerialPortConnection.  The code keeps this only as long as no setup of the
\* port failed after open() and the device did not hang up during a read.
PortBacked ==
  faults = {} /\ serialFd # NoFd => \E c \in Find(serialFd) : info[c].type = "serial"

\* While input_data_handler and the command it runs use pconn, nothing they
\* call deletes that connection, as long as the device had no fault.
HandlerKeepsConnection ==
  faults = {} /\ pc \in {"read", "command", "reconnect", "prompt"} => pconn \in connections

\* Without a fault there is one way to undefined behaviour: a read event of the
\* serial port is still in the batch after a command of the same batch closed
\* the port, and find() returns null for it.
UndefinedOnlyForClosedPort ==
  faults = {} /\ pc = "undefined" =>
    /\ pconn = NoConn
    /\ event.owner \notin connections
    /\ event.type = "serial"

\* connection_server.cc:224 documents the admin command as "disconnect from
\* serial port": it closes the port's connection and no other.
DisconnectClosesOnlyPort ==
  [][pc = "command" => (\A c \in connections \ connections' : info[c].type = "serial")]_vars

\* sockserver.cc:153-157: what a client sends "should be sent to the serial
\* port", and a client is told when the port is not connected.  So while a client
\* is being read there is a connection to send to, or fd_ says that there is none.
ClientDataNotDropped ==
  pc = "read" /\ info[pconn].type = "client" =>
    serialFd = NoFd \/ \E c \in connections : info[c].type = "serial"

\* An error closes the connection it was reported for and no other, unless that
\* one is gone: closed by an earlier event of the batch, with its number given to
\* somebody else, who is then closed instead.
ErrorSparesOthers ==
  [][(pc = "error" \/ pc = "close") =>
       \/ connections \ connections' \subseteq {event.owner}
       \/ event.owner \notin connections]_vars
=============================================================================
