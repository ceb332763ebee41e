------------------------- MODULE SockServer_proofs --------------------------
(***************************************************************************)
(* The invariants of SockServer, for every set of descriptors and cells,   *)
(* every batch size, and with every fault the flags allow.                 *)
(***************************************************************************)
EXTENDS SockServer, TLAPS

\* The connection a read or a command works on is listed.  It is not in
\* general while the answer to a command is written: the command may have
\* deleted its own connection (HandlerKeepsConnection, without faults).
ReaderListed == (pc = "read" \/ pc = "command") => pconn \in connections

\* What WatchedAreOpen needs across the two steps of the error branch.
ErrorBranchInv == pc = "close" => watched = open \ {event.fd}

\* The part of the invariant that is about the port variables only.
PortType ==
  /\ open \subseteq Fd
  /\ watched \subseteq Fd
  /\ live \subseteq Conn
  /\ connections \subseteq Conn
  /\ info \in [Conn -> [fd : Fd \union {NoFd}, type : Types, quit : BOOLEAN]]
  /\ serialFd \in Fd \union {NoFd}

PortInv == PortType /\ ManagerMatchesKernel /\ OneSerialConnection

LoopType ==
  /\ batch \subseteq Events
  /\ event \in Events
  /\ pconn \in Conn \union {NoConn}
  /\ pc \in PcStates

IInv == PortInv /\ LoopType /\ WatchedAreOpen /\ ErrorBranchInv /\ ReaderListed

\* The history of faults stands apart: no operation reads it.
FaultsTyped == faults \subseteq MayFail

-----------------------------------------------------------------------------
(* The operations on the port variables.                                   *)

LEMMA NoFdIsNoDescriptor == NoFd \notin Fd
  BY FdAssumption DEF NoFd

\* A listed connection has an open descriptor.
LEMMA ListedIsOpen ==
  ASSUME PortInv, NEW c \in connections
  PROVE  info[c].fd \in open /\ info[c].fd \in Fd
  BY DEF PortInv, PortType, ManagerMatchesKernel

LEMMA NewConnectionKeeps ==
  ASSUME PortInv, NEW f \in Fd \ open, NEW t \in Types,
         NewConnection(f, t), serialFd' \in Fd \union {NoFd},
         t = "serial" => serialFd = NoFd /\ serialFd' = f,
         t # "serial" => serialFd' = serialFd
  PROVE  /\ PortInv'
         /\ connections \subseteq connections'
         /\ open' = open \union {f}
         /\ watched' = watched \union {f}
<1>1. PICK c \in Conn : 
        /\ c \notin live
        /\ open' = open \union {f}
        /\ watched' = watched \union {f}
        /\ live' = live \union {c}
        /\ info' = [info EXCEPT ![c] = [fd |-> f, type |-> t, quit |-> FALSE]]
        /\ connections' = connections \union {c}
  BY DEF NewConnection, Fresh
<1>2. c \notin connections
  BY <1>1 DEF PortInv, ManagerMatchesKernel
<1>3. info' \in [Conn -> [fd : Fd \union {NoFd}, type : Types, quit : BOOLEAN]]
  BY <1>1 DEF PortInv, PortType
<1>4. /\ info'[c] = [fd |-> f, type |-> t, quit |-> FALSE]
      /\ \A d \in connections : info'[d] = info[d]
  BY <1>1, <1>2 DEF PortInv, PortType
<1>5. PortType'
  BY <1>1, <1>3 DEF PortInv, PortType
<1>6. ManagerMatchesKernel'
  <2>1. connections' = live'
    BY <1>1 DEF PortInv, ManagerMatchesKernel
  <2>2. ASSUME NEW d \in connections', NEW e \in connections', info'[d].fd = info'[e].fd
        PROVE  d = e
    BY <1>1, <1>4, <2>2, ListedIsOpen DEF PortInv, ManagerMatchesKernel
  <2>3. open' = {info'[d].fd : d \in connections'}
    BY <1>1, <1>4 DEF PortInv, ManagerMatchesKernel
  <2> QED BY <2>1, <2>2, <2>3 DEF ManagerMatchesKernel
<1>7. OneSerialConnection'
  <2>1. ASSUME NEW d \in connections', info'[d].type = "serial"
        PROVE  info'[d].fd = serialFd'
    <3>1. CASE d = c
      BY <3>1, <2>1, <1>4
    <3>2. CASE d \in connections
      <4>1. info[d].fd = serialFd
        BY <3>2, <2>1, <1>4 DEF PortInv, OneSerialConnection
      <4>2. t # "serial"
        BY <4>1, <3>2, ListedIsOpen, NoFdIsNoDescriptor
      <4> QED BY <4>1, <4>2, <3>2, <1>4
    <3> QED BY <3>1, <3>2, <1>1
  <2> QED BY <2>1 DEF OneSerialConnection
<1> QED BY <1>1, <1>5, <1>6, <1>7 DEF PortInv

\* SerialPort::connect only adds: no connection goes away and nothing is closed.
LEMMA ConnectKeeps ==
  ASSUME PortInv, SerialConnect
  PROVE  /\ PortInv'
         /\ connections \subseteq connections'
         /\ watched = open => watched' = open'
<1>1. CASE UNCHANGED port
  BY <1>1 DEF port, PortInv, PortType, ManagerMatchesKernel, OneSerialConnection, Find
<1>2. CASE /\ serialFd = NoFd
           /\ \E f \in Fd : IsLowestFree(f) /\ serialFd' = f
           /\ UNCHANGED <<open, watched, live, info, connections>>
  <2>1. \A c \in connections : info[c].type # "serial"
    BY <1>2, ListedIsOpen, NoFdIsNoDescriptor DEF PortInv, OneSerialConnection
  <2> QED
    BY <1>2, <2>1 DEF PortInv, PortType, ManagerMatchesKernel, OneSerialConnection
<1>3. CASE /\ serialFd = NoFd
           /\ \E f \in Fd : IsLowestFree(f) /\ serialFd' = f /\ NewConnection(f, "serial")
  <2>1. PICK f \in Fd \ open : serialFd' = f /\ NewConnection(f, "serial")
    BY <1>3 DEF IsLowestFree
  <2> QED BY <1>3, <2>1, NewConnectionKeeps DEF Types
<1> QED BY <1>1, <1>2, <1>3 DEF SerialConnect

\* Removing one listed connection together with its descriptor.
LEMMA RemovalKeeps ==
  ASSUME PortInv, NEW c \in connections,
         connections' = connections \ {c},
         live' = live \ {c},
         open' = open \ {info[c].fd},
         watched' = watched \ {info[c].fd},
         info' = [info EXCEPT ![c] = Blank],
         serialFd' \in {serialFd, NoFd},
         serialFd' # serialFd => serialFd = info[c].fd
  PROVE  PortInv'
<1>1. info' \in [Conn -> [fd : Fd \union {NoFd}, type : Types, quit : BOOLEAN]]
  BY DEF PortInv, PortType, Blank, Types
<1>2. \A d \in connections' : d \in connections /\ d # c /\ info'[d] = info[d]
  BY DEF PortInv, PortType
<1>3. PortType'
  BY <1>1 DEF PortInv, PortType
<1>4. ManagerMatchesKernel'
  <2>1. connections' = live'
    BY DEF PortInv, ManagerMatchesKernel
  <2>2. \A d, e \in connections' : info'[d].fd = info'[e].fd => d = e
    BY <1>2 DEF PortInv, ManagerMatchesKernel
  <2>3. open' = {info'[d].fd : d \in connections'}
    BY <1>2 DEF PortInv, ManagerMatchesKernel
  <2> QED BY <2>1, <2>2, <2>3 DEF ManagerMatchesKernel
<1>5. OneSerialConnection'
  BY <1>2 DEF PortInv, ManagerMatchesKernel, OneSerialConnection
<1> QED BY <1>3, <1>4, <1>5 DEF PortInv

\* The manager finds the connection that is about to be deleted.
LEMMA FindListed ==
  ASSUME PortInv, NEW c \in connections
  PROVE  Find(info[c].fd) = {c}
  BY DEF PortInv, ManagerMatchesKernel, Find

LEMMA CloseKeeps ==
  ASSUME PortInv, NEW c \in connections, CloseConnection(c), UNCHANGED serialFd
  PROVE  /\ PortInv'
         /\ open' = open \ {info[c].fd}
         /\ watched' = watched \ {info[c].fd}
<1>1. connections' = connections \ {c}
  BY FindListed DEF CloseConnection
<1> QED BY <1>1, RemovalKeeps DEF CloseConnection

LEMMA DisconnectKeeps ==
  ASSUME PortInv, SerialDisconnect
  PROVE  /\ PortInv'
         /\ watched = open => watched' = open'
         /\ watched = open => watched' = open' \ {serialFd}
<1>1. CASE serialFd = NoFd /\ UNCHANGED port
  BY <1>1, NoFdIsNoDescriptor
     DEF port, PortInv, PortType, ManagerMatchesKernel, OneSerialConnection
<1>2. CASE DropPort /\ serialFd' = NoFd
  <2>1. open' = open \ {serialFd} /\ watched' = watched \ {serialFd}
    BY <1>2 DEF DropPort
  <2>2. CASE Find(serialFd) = {} /\ UNCHANGED <<connections, live, info>>
    <3>1. serialFd \notin open /\ \A c \in connections : info[c].type # "serial"
      BY <2>2 DEF PortInv, ManagerMatchesKernel, OneSerialConnection, Find
    <3> QED
      BY <1>2, <2>1, <2>2, <3>1
         DEF PortInv, PortType, ManagerMatchesKernel, OneSerialConnection
  <2>3. CASE \E c \in Find(serialFd) :
               /\ connections' = connections \ {c}
               /\ live' = live \ {c}
               /\ info' = [info EXCEPT ![c] = Blank]
    <3>1. PICK c \in connections :
            /\ info[c].fd = serialFd
            /\ connections' = connections \ {c}
            /\ live' = live \ {c}
            /\ info' = [info EXCEPT ![c] = Blank]
      BY <2>3 DEF Find
    <3> QED BY <1>2, <2>1, <3>1, RemovalKeeps
  <2> QED BY <1>2, <2>2, <2>3 DEF DropPort
<1> QED BY <1>1, <1>2 DEF SerialDisconnect

-----------------------------------------------------------------------------
(* The invariant.                                                          *)

LEMMA InitIInv == Init => IInv
  BY NoFdIsNoDescriptor
     DEF Init, IInv, PortInv, PortType, LoopType, ManagerMatchesKernel, OneSerialConnection,
         WatchedAreOpen, ErrorBranchInv, ReaderListed, Events, NoEvent, Blank, Types, IoKinds,
         PcStates

\* What epoll_wait returns are events.
LEMMA EventsOfWatched ==
  ASSUME PortType, NEW f \in Fd
  PROVE  IoEvents(f) \subseteq Events
  BY DEF PortType, IoEvents, Events, Find

LEMMA ListenEventsTyped == \A t \in {"client", "admin"} : ListenEvents(t) \subseteq Events
  BY DEF ListenEvents, NoEvent, Events, Types

LEMMA NextIInv == IInv /\ [Next]_vars => IInv'
<1> SUFFICES ASSUME IInv, [Next]_vars PROVE IInv'
  OBVIOUS
<1> USE DEF IInv
<1>1. CASE Start
  BY <1>1, ConnectKeeps
     DEF Start, LoopType, PcStates, WatchedAreOpen, ErrorBranchInv, ReaderListed
<1>2. CASE EpollWait
  <2>1. batch' \subseteq Events
    BY <1>2, EventsOfWatched, ListenEventsTyped DEF EpollWait, PortInv, PortType
  <2> QED
    BY <1>2, <2>1
       DEF EpollWait, port, PortInv, PortType, ManagerMatchesKernel, OneSerialConnection,
           LoopType, PcStates, WatchedAreOpen, ErrorBranchInv, ReaderListed
<1>3. CASE Dispatch
  <2>1. event' \in Events /\ batch' \subseteq Events /\ pc' \in IoKinds \union {"client", "admin"}
    BY <1>3 DEF Dispatch, LoopType, Events
  <2> QED
    BY <1>3, <2>1
       DEF Dispatch, port, PortInv, PortType, ManagerMatchesKernel, OneSerialConnection,
           LoopType, PcStates, IoKinds, WatchedAreOpen, ErrorBranchInv, ReaderListed
<1>4. CASE EndOfBatch
  <2>1. NoEvent \in Events
    BY DEF NoEvent, Events, Types
  <2> QED
    BY <1>4, <2>1
       DEF EndOfBatch, port, PortInv, PortType, ManagerMatchesKernel, OneSerialConnection,
           LoopType, PcStates, WatchedAreOpen, ErrorBranchInv, ReaderListed
<1>5. CASE HandleError
  <2>1. watched = open /\ pc' = "close" /\ UNCHANGED <<batch, event, pconn>>
    BY <1>5 DEF HandleError, WatchedAreOpen
  <2>2. CASE event.fd = serialFd /\ SerialDisconnect
    BY <2>1, <2>2, DisconnectKeeps
       DEF LoopType, PcStates, WatchedAreOpen, ErrorBranchInv, ReaderListed
  <2>3. CASE /\ watched' = watched \ {event.fd}
             /\ UNCHANGED <<open, live, info, connections, serialFd, faults>>
    BY <2>1, <2>3
       DEF PortInv, PortType, ManagerMatchesKernel, OneSerialConnection,
           LoopType, PcStates, WatchedAreOpen, ErrorBranchInv, ReaderListed
  <2> QED BY <1>5, <2>2, <2>3 DEF HandleError
<1>6. CASE CloseByFd
  <2>1. watched = open \ {event.fd} /\ pc' = "dispatch" /\ UNCHANGED <<batch, event, pconn>>
    BY <1>6 DEF CloseByFd, ErrorBranchInv
  <2>2. CASE Find(event.fd) = {} /\ UNCHANGED port
    <3>1. event.fd \notin open
      BY <2>2 DEF PortInv, ManagerMatchesKernel, Find
    <3> QED
      BY <2>1, <2>2, <3>1
         DEF port, PortInv, PortType, ManagerMatchesKernel, OneSerialConnection,
             LoopType, PcStates, WatchedAreOpen, ErrorBranchInv, ReaderListed
  <2>3. CASE (\E c \in Find(event.fd) : CloseConnection(c)) /\ UNCHANGED <<serialFd, faults>>
    <3>1. PICK c \in connections : info[c].fd = event.fd /\ CloseConnection(c)
      BY <2>3 DEF Find
    <3>2. PortInv' /\ open' = open \ {event.fd} /\ watched' = watched \ {event.fd}
      BY <2>3, <3>1, CloseKeeps
    <3> QED
      BY <2>1, <3>2 DEF LoopType, PcStates, WatchedAreOpen, ErrorBranchInv, ReaderListed
  <2> QED BY <1>6, <2>2, <2>3 DEF CloseByFd
<1>7. CASE HandleOutput
  <2>1. watched = open /\ pc' = "dispatch" /\ UNCHANGED <<batch, event, pconn>>
    BY <1>7 DEF HandleOutput, WatchedAreOpen
  <2>2. CASE UNCHANGED port
    BY <2>1, <2>2
       DEF port, PortInv, PortType, ManagerMatchesKernel, OneSerialConnection,
           LoopType, PcStates, WatchedAreOpen, ErrorBranchInv, ReaderListed
  <2>3. CASE (\E c \in Find(event.fd) : CloseConnection(c)) /\ UNCHANGED <<serialFd, faults>>
    <3>1. PICK c \in connections : CloseConnection(c)
      BY <2>3 DEF Find
    <3> QED
      BY <2>1, <2>3, <3>1, CloseKeeps
         DEF LoopType, PcStates, WatchedAreOpen, ErrorBranchInv, ReaderListed
  <2> QED BY <1>7, <2>2, <2>3 DEF HandleOutput
<1>8. ASSUME NEW t \in {"client", "admin"}, Accept(t) PROVE IInv'
  <2>1. PICK f \in Fd \ open : NewConnection(f, t)
    BY <1>8 DEF Accept, IsLowestFree
  <2>2. serialFd' = serialFd /\ serialFd' \in Fd \union {NoFd} /\ pc = t /\ pc' = t
    BY <1>8 DEF Accept, PortInv, PortType
  <2>3. PortInv' /\ open' = open \union {f} /\ watched' = watched \union {f}
    BY <2>1, <2>2, NewConnectionKeeps DEF Types
  <2> QED
    BY <1>8, <2>2, <2>3
       DEF Accept, LoopType, PcStates, WatchedAreOpen, ErrorBranchInv, ReaderListed
<1>9. ASSUME NEW t \in {"client", "admin"}, AcceptDone(t) PROVE IInv'
  BY <1>9
     DEF AcceptDone, port, PortInv, PortType, ManagerMatchesKernel, OneSerialConnection,
         LoopType, PcStates, WatchedAreOpen, ErrorBranchInv, ReaderListed
<1>10. CASE FindInput
  <2>1. pconn' \in Conn \union {NoConn} /\ (pc' = "read" => pconn' \in connections)
    BY <1>10 DEF FindInput, Find, PortInv, PortType
  <2> QED
    BY <1>10, <2>1
       DEF FindInput, port, PortInv, PortType, ManagerMatchesKernel, OneSerialConnection,
           LoopType, PcStates, WatchedAreOpen, ErrorBranchInv, ReaderListed
<1>11. CASE ReadData
  BY <1>11, ConnectKeeps
     DEF ReadData, LoopType, PcStates, WatchedAreOpen, ErrorBranchInv, ReaderListed
<1>12. CASE Command
  <2>1. /\ watched = open /\ pc' \in {"prompt", "reconnect"} /\ pconn \in connections
        /\ UNCHANGED <<batch, event, pconn>>
    BY <1>12 DEF Command, WatchedAreOpen, ReaderListed
  <2>2. CASE SerialDisconnect
    BY <2>1, <2>2, DisconnectKeeps
       DEF LoopType, PcStates, WatchedAreOpen, ErrorBranchInv, ReaderListed
  <2>3. CASE SerialConnect
    BY <2>1, <2>3, ConnectKeeps
       DEF LoopType, PcStates, WatchedAreOpen, ErrorBranchInv, ReaderListed
  <2>4. CASE /\ info' = [info EXCEPT ![pconn].quit = TRUE]
             /\ UNCHANGED <<open, watched, live, connections, serialFd, faults>>
    <3>1. /\ info' \in [Conn -> [fd : Fd \union {NoFd}, type : Types, quit : BOOLEAN]]
          /\ \A c \in Conn : info'[c].fd = info[c].fd /\ info'[c].type = info[c].type
      BY <2>4 DEF PortInv, PortType
    <3>2. PortInv'
      BY <2>4, <3>1 DEF PortInv, PortType, ManagerMatchesKernel, OneSerialConnection
    <3> QED
      BY <2>1, <2>4, <3>2 DEF LoopType, PcStates, WatchedAreOpen, ErrorBranchInv, ReaderListed
  <2>5. CASE UNCHANGED port
    BY <2>1, <2>5
       DEF port, PortInv, PortType, ManagerMatchesKernel, OneSerialConnection,
           LoopType, PcStates, WatchedAreOpen, ErrorBranchInv, ReaderListed
  <2> QED BY <1>12, <2>2, <2>3, <2>4, <2>5 DEF Command
<1>13. CASE Reconnect
  BY <1>13, ConnectKeeps
     DEF Reconnect, LoopType, PcStates, WatchedAreOpen, ErrorBranchInv, ReaderListed
<1>14. CASE Prompt
  BY <1>14
     DEF Prompt, port, PortInv, PortType, ManagerMatchesKernel, OneSerialConnection,
         LoopType, PcStates, WatchedAreOpen, ErrorBranchInv, ReaderListed
<1>15. CASE ReadAgain
  BY <1>15
     DEF ReadAgain, port, PortInv, PortType, ManagerMatchesKernel, OneSerialConnection,
         LoopType, PcStates, WatchedAreOpen, ErrorBranchInv, ReaderListed
<1>16. CASE ReadClosed
  <2>1. pconn \in connections /\ watched = open
    BY <1>16 DEF ReadClosed, ReaderListed, WatchedAreOpen
  <2> QED
    BY <1>16, <2>1, CloseKeeps
       DEF ReadClosed, LoopType, PcStates, WatchedAreOpen, ErrorBranchInv, ReaderListed
<1>17. CASE UNCHANGED vars
  BY <1>17
     DEF vars, PortInv, PortType, ManagerMatchesKernel, OneSerialConnection,
         LoopType, PcStates, WatchedAreOpen, ErrorBranchInv, ReaderListed
<1> QED
  BY <1>1, <1>2, <1>3, <1>4, <1>5, <1>6, <1>7, <1>8, <1>9, <1>10, <1>11, <1>12, <1>13, <1>14,
     <1>15, <1>16, <1>17 DEF Next

LEMMA NextFaultsTyped == FaultsTyped /\ [Next]_vars => FaultsTyped'
<1> SUFFICES ASSUME FaultsTyped, [Next]_vars PROVE FaultsTyped'
  OBVIOUS
<1> USE DEF FaultsTyped
<1>1. SerialConnect => FaultsTyped'
  BY DEF SerialConnect, port
<1>2. SerialDisconnect => FaultsTyped'
  BY DEF SerialDisconnect, DropPort, port
<1>3. CASE Start \/ EpollWait \/ Dispatch \/ EndOfBatch
  BY <1>3, <1>1 DEF Start, EpollWait, Dispatch, EndOfBatch, port
<1>4. CASE HandleError \/ CloseByFd \/ HandleOutput
  BY <1>4, <1>2 DEF HandleError, CloseByFd, HandleOutput, port
<1>5. ASSUME NEW t \in {"client", "admin"}, Accept(t) \/ AcceptDone(t) PROVE FaultsTyped'
  BY <1>5 DEF Accept, AcceptDone, port
<1>6. CASE FindInput \/ Prompt \/ ReadAgain \/ ReadClosed
  BY <1>6 DEF FindInput, Prompt, ReadAgain, ReadClosed, port
<1>7. CASE ReadData \/ Command \/ Reconnect
  BY <1>7, <1>1, <1>2 DEF ReadData, Command, Reconnect, port
<1>8. CASE UNCHANGED vars
  BY <1>8 DEF vars
<1> QED BY <1>3, <1>4, <1>5, <1>6, <1>7, <1>8 DEF Next

-----------------------------------------------------------------------------
(* Without a fault of the device.                                          *)

\* An fd_ has its connection, and only an admin asks to be closed.
OnlyAdminsQuit == \A c \in connections : info[c].quit => info[c].type = "admin"
PortQuiet ==
  /\ serialFd # NoFd => \E c \in connections : info[c].fd = serialFd /\ info[c].type = "serial"
  /\ OnlyAdminsQuit

\* A connection that an event was reported for has not changed since.
Owners ==
  \A e \in batch \union {event} :
    e.owner \in connections => info[e.owner].fd = e.fd /\ info[e.owner].type = e.type

\* A descriptor has one event in a batch.
Distinct ==
  /\ \A e, d \in batch : e.fd = d.fd => e = d \/ e.fd = NoFd
  /\ \A e \in batch : e.fd = event.fd => e.fd = NoFd
  /\ pc \in {"start", "poll"} => event = NoEvent

\* While an event waits in the batch, only the port's connection can be closed
\* under it.
Pending(e) == e.kind \in IoKinds => e.owner \in connections \/ e.type = "serial"

\* What the handlers work on.
Handling ==
  /\ pc \in {"read", "command", "reconnect", "prompt"} =>
       pconn \in connections /\ info[pconn].fd = event.fd
  /\ pc = "command" => info[pconn].type = "admin"
  /\ pc = "close" => serialFd = NoFd \/ event.fd # serialFd
  /\ pc = "in" => event.kind = "in" /\ Pending(event)
  /\ pc = "undefined" => pconn = NoConn /\ event.owner \notin connections /\ event.type = "serial"

Quiet == PortQuiet /\ Owners /\ Distinct /\ (\A e \in batch : Pending(e)) /\ Handling
QuietInv == faults = {} => Quiet

\* A new connection was not there when the pending events were reported.
LEMMA NewConnectionQuiet ==
  ASSUME PortInv, Owners, OnlyAdminsQuit, NEW f, NEW t, NewConnection(f, t),
         UNCHANGED <<batch, event>>
  PROVE  /\ Owners' /\ OnlyAdminsQuit'
         /\ connections \subseteq connections'
         /\ \A c \in connections : info'[c] = info[c]
         /\ \E c \in connections' : info'[c].fd = f /\ info'[c].type = t
<1>1. PICK c \in Conn :
        /\ c \notin live
        /\ \A e \in batch \union {event} : e.owner # c
        /\ info' = [info EXCEPT ![c] = [fd |-> f, type |-> t, quit |-> FALSE]]
        /\ connections' = connections \union {c}
  BY DEF NewConnection, Fresh
<1>2. /\ c \notin connections
      /\ info'[c] = [fd |-> f, type |-> t, quit |-> FALSE]
      /\ \A d \in connections : info'[d] = info[d]
  BY <1>1 DEF PortInv, PortType, ManagerMatchesKernel
<1>3. Owners'
  BY <1>1, <1>2 DEF Owners
<1>4. OnlyAdminsQuit'
  BY <1>1, <1>2 DEF OnlyAdminsQuit
<1> QED BY <1>1, <1>2, <1>3, <1>4

LEMMA ConnectQuiet ==
  ASSUME PortInv, PortQuiet, Owners, SerialConnect, UNCHANGED <<batch, event>>, faults' = {}
  PROVE  /\ PortQuiet' /\ Owners'
         /\ connections \subseteq connections'
         /\ \A c \in connections : info'[c] = info[c]
<1>1. CASE UNCHANGED port
  BY <1>1 DEF port, PortQuiet, OnlyAdminsQuit, Owners
<1>2. CASE \E f \in Fd : IsLowestFree(f) /\ serialFd' = f /\ NewConnection(f, "serial")
  <2>1. PICK f \in Fd : serialFd' = f /\ NewConnection(f, "serial")
    BY <1>2
  <2>2. OnlyAdminsQuit
    BY DEF PortQuiet
  <2> QED BY <2>1, <2>2, NewConnectionQuiet DEF PortQuiet
<1> QED BY <1>1, <1>2 DEF SerialConnect

LEMMA RemovalQuiet ==
  ASSUME PortInv, PortQuiet, Owners, NEW r \in connections,
         connections' = connections \ {r}, info' = [info EXCEPT ![r] = Blank],
         UNCHANGED <<batch, event>>,
         serialFd' = NoFd \/ (serialFd' = serialFd /\ info[r].fd # serialFd)
  PROVE  /\ PortQuiet' /\ Owners'
         /\ \A c \in connections' : info'[c] = info[c]
<1>1. \A c \in connections' : c \in connections /\ c # r /\ info'[c] = info[c]
  BY DEF PortInv, PortType
<1>2. PortQuiet'
  BY <1>1 DEF PortQuiet, OnlyAdminsQuit
<1>3. Owners'
  BY <1>1 DEF Owners
<1> QED BY <1>1, <1>2, <1>3

\* The port's connection, and no other, goes with the port.
LEMMA DisconnectQuiet ==
  ASSUME PortInv, PortQuiet, Owners, SerialDisconnect, UNCHANGED <<batch, event>>
  PROVE  /\ PortQuiet' /\ Owners' /\ serialFd' = NoFd
         /\ connections' \subseteq connections
         /\ \A c \in connections' : info'[c] = info[c]
         /\ \A c \in connections \ connections' : info[c].type = "serial" /\ info[c].fd = serialFd
<1>1. CASE serialFd = NoFd /\ UNCHANGED port
  BY <1>1 DEF port, PortQuiet, OnlyAdminsQuit, Owners
<1>2. CASE DropPort /\ serialFd' = NoFd
  <2>1. PICK s \in connections : info[s].fd = serialFd /\ info[s].type = "serial"
    BY <1>2 DEF DropPort, PortQuiet
  <2>2. Find(serialFd) = {s}
    BY <2>1, FindListed
  <2>3. connections' = connections \ {s} /\ info' = [info EXCEPT ![s] = Blank]
    BY <1>2, <2>2 DEF DropPort
  <2> QED BY <1>2, <2>1, <2>3, RemovalQuiet
<1> QED BY <1>1, <1>2 DEF SerialDisconnect

\* No other event of the batch is about the connection the handler closes.
LEMMA OwnDescriptor ==
  ASSUME PortInv, Owners, Distinct, NEW c \in connections, info[c].fd = event.fd
  PROVE  \A e \in batch : e.owner # c
  BY ListedIsOpen, NoFdIsNoDescriptor DEF Owners, Distinct

LEMMA PendingKept ==
  ASSUME Owners, NEW e \in batch \union {event}, Pending(e),
         \A c \in connections \ connections' : info[c].type = "serial" \/ e.owner # c
  PROVE  e.kind \in IoKinds => e.owner \in connections' \/ e.type = "serial"
  BY DEF Owners, Pending

LEMMA FaultsGrow == [Next]_vars /\ faults' = {} => faults = {}
<1> SUFFICES ASSUME [Next]_vars, faults' = {} PROVE faults = {}
  OBVIOUS
<1>1. SerialConnect => faults = {}
  BY DEF SerialConnect, port
<1>2. SerialDisconnect => faults = {}
  BY DEF SerialDisconnect, DropPort, port
<1>3. CASE Start \/ EpollWait \/ Dispatch \/ EndOfBatch
  BY <1>3, <1>1 DEF Start, EpollWait, Dispatch, EndOfBatch, port
<1>4. CASE HandleError \/ CloseByFd \/ HandleOutput
  BY <1>4, <1>2 DEF HandleError, CloseByFd, HandleOutput, port
<1>5. ASSUME NEW t \in {"client", "admin"}, Accept(t) \/ AcceptDone(t) PROVE faults = {}
  BY <1>5 DEF Accept, AcceptDone, port
<1>6. CASE FindInput \/ Prompt \/ ReadAgain \/ ReadClosed
  BY <1>6 DEF FindInput, Prompt, ReadAgain, ReadClosed, port
<1>7. CASE ReadData \/ Command \/ Reconnect
  BY <1>7, <1>1, <1>2 DEF ReadData, Command, Reconnect, port
<1>8. CASE UNCHANGED vars
  BY <1>8 DEF vars
<1> QED BY <1>3, <1>4, <1>5, <1>6, <1>7, <1>8 DEF Next

LEMMA InitQuiet == Init => Quiet
  BY DEF Init, Quiet, PortQuiet, OnlyAdminsQuit, Owners, Distinct, Pending, Handling

\* The loop itself: epoll_wait reports on what is listed, once per descriptor.
LEMMA LoopQuiet ==
  ASSUME IInv, Quiet, EpollWait \/ Dispatch \/ EndOfBatch
  PROVE  Quiet'
<1> USE DEF Quiet
<1>1. CASE EpollWait
  <2>1. event = NoEvent /\ UNCHANGED <<port, event, pconn>> /\ pc' = "dispatch"
    BY <1>1 DEF EpollWait, Distinct
  <2>2. ASSUME NEW e \in batch'
        PROVE  \/ e.owner \in connections /\ info[e.owner].fd = e.fd /\ info[e.owner].type = e.type
               \/ e.owner = NoConn /\ e.kind \notin IoKinds
    <3>1. (\E f \in watched : e \in IoEvents(f)) \/ \E t \in {"client", "admin"} : e \in ListenEvents(t)
      BY <1>1, <2>2 DEF EpollWait
    <3>2. ASSUME NEW f \in watched, e \in IoEvents(f)
          PROVE  e.owner \in connections /\ info[e.owner].fd = e.fd /\ info[e.owner].type = e.type
      BY <3>2 DEF IoEvents, Find
    <3>3. ASSUME NEW t \in {"client", "admin"}, e \in ListenEvents(t)
          PROVE  e.owner = NoConn /\ e.kind \notin IoKinds
      BY <3>3 DEF ListenEvents, NoEvent, IoKinds
    <3> QED BY <3>1, <3>2, <3>3
  <2>3. NoConn \notin connections
    BY NoConnAssumption DEF IInv, PortInv, PortType
  <2>4. Owners'
    BY <2>1, <2>2, <2>3 DEF Owners, port, NoEvent
  <2>5. Distinct'
    BY <1>1, <2>1 DEF EpollWait, Distinct, NoEvent
  <2>6. PortQuiet' /\ Handling' /\ \A e \in batch' : Pending(e)'
    BY <2>1, <2>2 DEF PortQuiet, OnlyAdminsQuit, Handling, Pending, port
  <2> QED BY <2>4, <2>5, <2>6
<1>2. CASE Dispatch
  <2>1. PICK e \in batch : event' = e /\ batch' = batch \ {e} /\ pc' = e.kind
    BY <1>2 DEF Dispatch
  <2>2. pc' \in IoKinds \union {"client", "admin"} /\ UNCHANGED <<port, pconn>>
    BY <1>2, <2>1 DEF Dispatch, IInv, LoopType, Events
  <2>3. Owners' /\ Distinct'
    BY <2>1, <2>2 DEF Owners, Distinct, port, IoKinds
  <2>4. PortQuiet' /\ Handling' /\ \A d \in batch' : Pending(d)'
    BY <2>1, <2>2 DEF PortQuiet, OnlyAdminsQuit, Handling, Pending, port, IoKinds
  <2> QED BY <2>3, <2>4
<1>3. CASE EndOfBatch
  <2>1. batch = {} /\ batch' = {} /\ event' = NoEvent /\ pc' = "poll" /\ UNCHANGED <<port, pconn>>
    BY <1>3 DEF EndOfBatch
  <2>2. NoConn \notin connections
    BY NoConnAssumption DEF IInv, PortInv, PortType
  <2> QED
    BY <2>1, <2>2 DEF PortQuiet, OnlyAdminsQuit, Owners, Distinct, Handling, Pending, port, NoEvent
<1> QED BY <1>1, <1>2, <1>3

\* Steps that change nothing of the port.
LEMMA StillQuiet ==
  ASSUME IInv, Quiet, FindInput \/ Prompt \/ ReadAgain \/ (\E t \in {"client", "admin"} : AcceptDone(t))
  PROVE  Quiet'
<1> USE DEF Quiet
<1>1. UNCHANGED <<port, batch, event>>
  BY DEF FindInput, Prompt, ReadAgain, AcceptDone
<1>2. PortQuiet' /\ Owners' /\ \A e \in batch' : Pending(e)'
  BY <1>1 DEF port, PortQuiet, OnlyAdminsQuit, Owners, Pending
<1>3. Distinct'
  BY <1>1 DEF Distinct, FindInput, Prompt, ReadAgain, AcceptDone
<1>4. Handling'
  <2>1. CASE FindInput
    <3>1. CASE \E c \in Find(event.fd) : pconn' = c /\ pc' = "read"
      BY <1>1, <3>1 DEF Handling, Find, port
    <3>2. CASE Find(event.fd) = {} /\ pconn' = NoConn /\ pc' = "undefined"
      <4>1. event.owner \notin connections
        BY <3>2 DEF Owners, Find
      <4>2. event.type = "serial"
        BY <2>1, <4>1 DEF FindInput, Handling, Pending, IoKinds
      <4> QED BY <1>1, <3>2, <4>1, <4>2 DEF Handling, port
    <3> QED BY <2>1, <3>1, <3>2 DEF FindInput
  <2>2. CASE Prompt
    <3>1. pconn \in live
      BY <2>2 DEF Prompt, Handling, IInv, PortInv, ManagerMatchesKernel
    <3> QED BY <1>1, <2>2, <3>1 DEF Prompt, Handling, port
  <2>3. CASE ReadAgain
    BY <1>1, <2>3 DEF ReadAgain, Handling, port
  <2>4. CASE \E t \in {"client", "admin"} : AcceptDone(t)
    BY <1>1, <2>4 DEF AcceptDone, Handling, port
  <2> QED BY <2>1, <2>2, <2>3, <2>4
<1> QED BY <1>2, <1>3, <1>4

\* The port is opened: by the constructor, before a read's data, by a command.
LEMMA OpensQuiet ==
  ASSUME IInv, Quiet, faults' = {}, SerialConnect, UNCHANGED <<batch, event, pconn>>,
         \/ pc = "start" /\ pc' = "poll"
         \/ pc \in {"read", "command", "reconnect"} /\ pc' \in {"read", "prompt"}
         \/ pc = "read" /\ pc' = "command" /\ info[pconn].type = "admin"
  PROVE  Quiet'
<1> USE DEF Quiet
<1>1. /\ PortQuiet' /\ Owners' /\ connections \subseteq connections'
      /\ \A c \in connections : info'[c] = info[c]
  BY ConnectQuiet DEF IInv
<1>2. Distinct' /\ \A e \in batch' : Pending(e)'
  BY <1>1 DEF Distinct, Pending
<1>3. Handling'
  BY <1>1 DEF Handling
<1> QED BY <1>1, <1>2, <1>3

LEMMA AcceptQuiet ==
  ASSUME IInv, Quiet, NEW t \in {"client", "admin"}, Accept(t)
  PROVE  Quiet'
<1> USE DEF Quiet
<1>1. PICK f \in Fd : NewConnection(f, t)
  BY DEF Accept
<1>2. /\ Owners' /\ OnlyAdminsQuit' /\ connections \subseteq connections'
      /\ \A c \in connections : info'[c] = info[c]
      /\ UNCHANGED <<serialFd, batch, event, pconn, pc>>
  BY <1>1, NewConnectionQuiet DEF Accept, IInv, PortQuiet
<1>3. PortQuiet' /\ Distinct' /\ \A e \in batch' : Pending(e)'
  BY <1>2 DEF PortQuiet, Distinct, Pending
<1>4. Handling'
  BY <1>2 DEF Handling, Accept
<1> QED BY <1>2, <1>3, <1>4

\* The manager closes the connection that has the event's descriptor, which is
\* not the port's.
LEMMA CloseQuiet ==
  ASSUME IInv, Quiet, NEW c \in connections, CloseConnection(c), info[c].fd = event.fd,
         info[c].type # "serial", UNCHANGED <<serialFd, batch, event>>, pc' = "dispatch"
  PROVE  Quiet'
<1> USE DEF Quiet
<1>1. connections' = connections \ {c} /\ info' = [info EXCEPT ![c] = Blank]
  BY FindListed DEF CloseConnection, IInv
<1>2. serialFd = NoFd \/ info[c].fd # serialFd
  BY DEF PortQuiet, IInv, PortInv, ManagerMatchesKernel
<1>3. PortQuiet' /\ Owners' /\ \A d \in connections' : info'[d] = info[d]
  BY <1>1, <1>2, RemovalQuiet DEF IInv
<1>4. \A e \in batch : e.owner # c
  BY OwnDescriptor DEF IInv
<1>5. \A e \in batch' : Pending(e)'
  BY <1>1, <1>4, PendingKept DEF Pending
<1>6. Distinct' /\ Handling'
  BY DEF Distinct, Handling
<1> QED BY <1>3, <1>5, <1>6

LEMMA HandleErrorQuiet ==
  ASSUME IInv, Quiet, HandleError
  PROVE  Quiet'
<1> USE DEF Quiet
<1>1. pc' = "close" /\ UNCHANGED <<batch, event, pconn>>
  BY DEF HandleError
<1>2. CASE event.fd = serialFd /\ SerialDisconnect
  <2>1. /\ PortQuiet' /\ Owners' /\ serialFd' = NoFd
        /\ \A c \in connections \ connections' : info[c].type = "serial"
    BY <1>1, <1>2, DisconnectQuiet DEF IInv
  <2>2. \A e \in batch' : Pending(e)'
    BY <1>1, <2>1, PendingKept DEF Pending
  <2>3. Distinct' /\ Handling'
    BY <1>1, <2>1 DEF Distinct, Handling
  <2> QED BY <2>1, <2>2, <2>3
<1>3. CASE event.fd # serialFd /\ UNCHANGED <<open, live, info, connections, serialFd, faults>>
  BY <1>1, <1>3 DEF PortQuiet, OnlyAdminsQuit, Owners, Distinct, Pending, Handling
<1> QED BY <1>2, <1>3 DEF HandleError

LEMMA ClosingQuiet ==
  ASSUME IInv, Quiet, CloseByFd \/ HandleOutput
  PROVE  Quiet'
<1> USE DEF Quiet
<1>1. /\ pc' = "dispatch" /\ UNCHANGED <<batch, event, pconn>>
      /\ \/ UNCHANGED port
         \/ /\ UNCHANGED <<serialFd, faults>>
            /\ \E c \in Find(event.fd) : CloseConnection(c) /\ (pc = "close" \/ info[c].quit)
  BY DEF CloseByFd, HandleOutput
<1>2. CASE UNCHANGED port
  BY <1>1, <1>2 DEF port, PortQuiet, OnlyAdminsQuit, Owners, Distinct, Pending, Handling
<1>3. CASE ~ UNCHANGED port
  <2>1. PICK c \in connections : /\ info[c].fd = event.fd /\ CloseConnection(c)
                                 /\ pc = "close" \/ info[c].quit
    BY <1>1, <1>3 DEF Find
  <2>2. info[c].type # "serial"
    <3>1. CASE info[c].quit
      BY <3>1 DEF PortQuiet, OnlyAdminsQuit
    <3>2. CASE pc = "close"
      <4>1. serialFd = NoFd \/ event.fd # serialFd
        BY <3>2 DEF Handling
      <4>2. event.fd # NoFd
        BY <2>1, ListedIsOpen, NoFdIsNoDescriptor DEF IInv
      <4> QED BY <2>1, <4>1, <4>2 DEF IInv, PortInv, OneSerialConnection
    <3> QED BY <2>1, <3>1, <3>2
  <2>3. serialFd' = serialFd
    BY <1>1, <1>3
  <2> QED BY <1>1, <2>1, <2>2, <2>3, CloseQuiet
<1> QED BY <1>2, <1>3

\* A command ends the port's connection, never its own, which is an admin's.
LEMMA CommandQuiet ==
  ASSUME IInv, Quiet, faults' = {}, Command
  PROVE  Quiet'
<1> USE DEF Quiet
<1>1. /\ pc = "command" /\ pc' \in {"prompt", "reconnect"} /\ UNCHANGED <<batch, event, pconn>>
      /\ pconn \in connections /\ info[pconn].fd = event.fd /\ info[pconn].type = "admin"
  BY DEF Command, Handling
<1>2. Distinct'
  BY <1>1 DEF Distinct
<1>3. CASE SerialDisconnect
  <2>1. /\ PortQuiet' /\ Owners' /\ connections' \subseteq connections
        /\ \A c \in connections' : info'[c] = info[c]
        /\ \A c \in connections \ connections' : info[c].type = "serial"
    BY <1>1, <1>3, DisconnectQuiet DEF IInv
  <2>2. \A e \in batch' : Pending(e)'
    BY <1>1, <2>1, PendingKept DEF Pending
  <2>3. pconn \in connections'
    BY <1>1, <2>1
  <2>4. Handling'
    BY <1>1, <2>1, <2>3 DEF Handling
  <2> QED BY <1>2, <2>1, <2>2, <2>4
<1>4. CASE SerialConnect /\ pc' = "prompt"
  BY <1>1, <1>4, OpensQuiet
<1>5. CASE /\ info' = [info EXCEPT ![pconn].quit = TRUE]
           /\ UNCHANGED <<open, watched, live, connections, serialFd, faults>>
  <2>1. \A c \in connections : /\ info'[c].fd = info[c].fd /\ info'[c].type = info[c].type
                               /\ info'[c].quit => info[c].quit \/ c = pconn
    BY <1>5 DEF IInv, PortInv, PortType
  <2>2. PortQuiet'
    BY <1>1, <1>5, <2>1 DEF PortQuiet, OnlyAdminsQuit
  <2>3. Owners' /\ (\A e \in batch' : Pending(e)') /\ Handling'
    BY <1>1, <1>5, <2>1 DEF Owners, Pending, Handling
  <2> QED BY <1>2, <2>2, <2>3
<1>6. CASE UNCHANGED port
  BY <1>1, <1>2, <1>6 DEF port, PortQuiet, OnlyAdminsQuit, Owners, Pending, Handling
<1> QED BY <1>3, <1>4, <1>5, <1>6 DEF Command

LEMMA ReadClosedQuiet ==
  ASSUME IInv, Quiet, faults' = {}, ReadClosed
  PROVE  Quiet'
<1>1. /\ pconn \in connections /\ info[pconn].fd = event.fd /\ info[pconn].type # "serial"
      /\ CloseConnection(pconn) /\ UNCHANGED <<serialFd, batch, event>> /\ pc' = "dispatch"
  BY DEF ReadClosed, Quiet, Handling
<1> QED BY <1>1, CloseQuiet

LEMMA NextQuiet == IInv /\ QuietInv /\ [Next]_vars => QuietInv'
<1> SUFFICES ASSUME IInv, Quiet, [Next]_vars, faults' = {} PROVE Quiet'
  BY FaultsGrow DEF QuietInv
<1>1. CASE Start
  BY <1>1, OpensQuiet DEF Start
<1>2. CASE ReadData
  BY <1>2, OpensQuiet DEF ReadData
<1>3. CASE Reconnect
  BY <1>3, OpensQuiet DEF Reconnect
<1>4. CASE EpollWait \/ Dispatch \/ EndOfBatch
  BY <1>4, LoopQuiet
<1>5. CASE HandleError \/ CloseByFd \/ HandleOutput
  BY <1>5, HandleErrorQuiet, ClosingQuiet
<1>6. ASSUME NEW t \in {"client", "admin"}, Accept(t) \/ AcceptDone(t) PROVE Quiet'
  BY <1>6, AcceptQuiet, StillQuiet
<1>7. CASE FindInput \/ Prompt \/ ReadAgain
  BY <1>7, StillQuiet
<1>8. CASE Command
  BY <1>8, CommandQuiet
<1>9. CASE ReadClosed
  BY <1>9, ReadClosedQuiet
<1>10. CASE UNCHANGED vars
  BY <1>10 DEF vars, Quiet, PortQuiet, OnlyAdminsQuit, Owners, Distinct, Pending, Handling
<1> QED
  BY <1>1, <1>2, <1>3, <1>4, <1>5, <1>6, <1>7, <1>8, <1>9, <1>10 DEF Next

-----------------------------------------------------------------------------
(* An error and the connection it was reported for, with every fault.      *)

\* What is listed after a step was listed before with the same number, or is a
\* new object, which no pending event was reported for.
Persist ==
  \A c \in connections' :
    \/ c \in connections /\ info'[c].fd = info[c].fd /\ info'[c].type = info[c].type
    \/ \A e \in batch \union {event} : e.owner # c

LEMMA PersistOwners ==
  ASSUME Owners, Persist, UNCHANGED <<batch, event>>
  PROVE  Owners'
  BY DEF Owners, Persist

LEMMA NewPersists ==
  ASSUME PortInv, NEW f, NEW t, NewConnection(f, t)
  PROVE  Persist
<1>1. PICK c \in Conn :
        /\ \A e \in batch \union {event} : e.owner # c
        /\ info' = [info EXCEPT ![c] = [fd |-> f, type |-> t, quit |-> FALSE]]
        /\ connections' = connections \union {c}
  BY DEF NewConnection, Fresh
<1>2. \A d \in connections : d # c => info'[d] = info[d]
  BY <1>1 DEF PortInv, PortType
<1> QED BY <1>1, <1>2 DEF Persist

LEMMA ConnectPersists ==
  ASSUME PortInv, SerialConnect
  PROVE  Persist
<1>1. (\E f \in Fd : NewConnection(f, "serial")) \/ UNCHANGED <<connections, info>>
  BY DEF SerialConnect, port
<1> QED BY <1>1, NewPersists DEF Persist

LEMMA RemovalPersists ==
  ASSUME PortInv, NEW c \in connections,
         connections' = connections \ {c}, info' = [info EXCEPT ![c] = Blank]
  PROVE  Persist
<1>1. \A d \in connections' : d \in connections /\ info'[d] = info[d]
  BY DEF PortInv, PortType
<1> QED BY <1>1 DEF Persist

LEMMA DisconnectPersists ==
  ASSUME PortInv, SerialDisconnect
  PROVE  Persist /\ connections \ connections' \subseteq Find(serialFd)
<1>1. \/ UNCHANGED <<connections, info>>
      \/ \E c \in Find(serialFd) :
           connections' = connections \ {c} /\ info' = [info EXCEPT ![c] = Blank]
  BY DEF SerialDisconnect, DropPort, port
<1>2. CASE UNCHANGED <<connections, info>>
  BY <1>2 DEF Persist
<1>3. ASSUME NEW c \in Find(serialFd),
             connections' = connections \ {c}, info' = [info EXCEPT ![c] = Blank]
      PROVE  Persist /\ connections \ connections' \subseteq Find(serialFd)
  BY <1>3, RemovalPersists DEF Find
<1> QED BY <1>1, <1>2, <1>3

LEMMA ClosePersists ==
  ASSUME PortInv, NEW c \in connections, CloseConnection(c)
  PROVE  Persist /\ connections \ connections' = {c}
<1>1. connections' = connections \ {c} /\ info' = [info EXCEPT ![c] = Blank]
  BY FindListed DEF CloseConnection
<1> QED BY <1>1, RemovalPersists

LEMMA NextOwners ==
  ASSUME IInv, Owners, [Next]_vars
  PROVE  Owners'
<1> USE DEF IInv
<1>1. CASE EpollWait
  <2>1. UNCHANGED <<port, event>>
    BY <1>1 DEF EpollWait
  <2>2. NoConn \notin connections
    BY NoConnAssumption DEF PortInv, PortType
  <2>3. ASSUME NEW e \in batch', e.owner \in connections
        PROVE  info[e.owner].fd = e.fd /\ info[e.owner].type = e.type
    <3>1. (\E f \in watched : e \in IoEvents(f))
            \/ \E t \in {"client", "admin"} : e \in ListenEvents(t)
      BY <1>1 DEF EpollWait
    <3> QED BY <2>2, <2>3, <3>1 DEF IoEvents, Find, ListenEvents, NoEvent
  <2> QED BY <2>1, <2>3 DEF Owners, port
<1>2. CASE Dispatch
  BY <1>2 DEF Dispatch, Owners, port
<1>3. CASE EndOfBatch
  <2>1. NoConn \notin connections
    BY NoConnAssumption DEF PortInv, PortType
  <2> QED BY <1>3, <2>1 DEF EndOfBatch, Owners, port, NoEvent
<1>4. CASE Start \/ ReadData \/ Reconnect
  <2>1. SerialConnect /\ UNCHANGED <<batch, event>>
    BY <1>4 DEF Start, ReadData, Reconnect
  <2> QED BY <2>1, ConnectPersists, PersistOwners
<1>5. CASE HandleError
  <2>1. UNCHANGED <<batch, event>> /\ (SerialDisconnect \/ UNCHANGED <<connections, info>>)
    BY <1>5 DEF HandleError
  <2>2. Persist
    BY <2>1, DisconnectPersists DEF Persist
  <2> QED BY <2>1, <2>2, PersistOwners
<1>6. CASE CloseByFd \/ HandleOutput \/ ReadClosed
  <2>1. UNCHANGED <<batch, event>>
    BY <1>6 DEF CloseByFd, HandleOutput, ReadClosed
  <2>2. UNCHANGED <<connections, info>> \/ \E c \in connections : CloseConnection(c)
    BY <1>6 DEF CloseByFd, HandleOutput, ReadClosed, Find, port, ReaderListed
  <2>3. Persist
    BY <2>2, ClosePersists DEF Persist
  <2> QED BY <2>1, <2>3, PersistOwners
<1>7. ASSUME NEW t \in {"client", "admin"}, Accept(t) \/ AcceptDone(t) PROVE Owners'
  <2>1. UNCHANGED <<batch, event>>
    BY <1>7 DEF Accept, AcceptDone
  <2>2. UNCHANGED <<connections, info>> \/ \E f \in Fd : NewConnection(f, t)
    BY <1>7 DEF Accept, AcceptDone, port
  <2>3. Persist
    BY <2>2, NewPersists DEF Persist
  <2> QED BY <2>1, <2>3, PersistOwners
<1>8. CASE Command
  <2>1. UNCHANGED <<batch, event>>
    BY <1>8 DEF Command
  <2>2. \/ SerialDisconnect \/ SerialConnect \/ UNCHANGED <<connections, info>>
        \/ info' = [info EXCEPT ![pconn].quit = TRUE] /\ UNCHANGED connections
    BY <1>8 DEF Command, port
  <2>3. CASE info' = [info EXCEPT ![pconn].quit = TRUE] /\ UNCHANGED connections
    <3>1. \A c \in connections : info'[c].fd = info[c].fd /\ info'[c].type = info[c].type
      BY <2>3 DEF PortInv, PortType
    <3> QED BY <2>1, <2>3, <3>1, PersistOwners DEF Persist
  <2>4. CASE SerialDisconnect \/ SerialConnect \/ UNCHANGED <<connections, info>>
    <3>1. Persist
      BY <2>4, DisconnectPersists, ConnectPersists DEF Persist
    <3> QED BY <2>1, <3>1, PersistOwners
  <2> QED BY <2>2, <2>3, <2>4
<1>9. CASE FindInput \/ Prompt \/ ReadAgain
  BY <1>9 DEF FindInput, Prompt, ReadAgain, Owners, port
<1>10. CASE UNCHANGED vars
  BY <1>10 DEF vars, Owners
<1> QED BY <1>1, <1>2, <1>3, <1>4, <1>5, <1>6, <1>7, <1>8, <1>9, <1>10 DEF Next

\* The error branch deletes only what has the event's number, and that is the
\* owner while the owner is listed.
LEMMA ErrorSpares ==
  ASSUME IInv, Owners, [Next]_vars, pc = "error" \/ pc = "close"
  PROVE  connections \ connections' \subseteq {event.owner} \/ event.owner \notin connections
<1>1. connections \ connections' \subseteq Find(event.fd)
  <2>1. CASE HandleError
    BY <2>1, DisconnectPersists DEF HandleError, IInv
  <2>2. CASE CloseByFd
    <3>1. (\E c \in Find(event.fd) : CloseConnection(c)) \/ UNCHANGED connections
      BY <2>2 DEF CloseByFd, port
    <3>2. ASSUME NEW c \in Find(event.fd), CloseConnection(c)
          PROVE  connections \ connections' \subseteq Find(event.fd)
      <4>1. c \in connections
        BY DEF Find
      <4> QED BY <3>2, <4>1, ClosePersists DEF IInv
    <3> QED BY <3>1, <3>2
  <2>3. CASE ~HandleError /\ ~CloseByFd
    <3>1. UNCHANGED vars
      BY <2>3 DEF Next, Start, EpollWait, Dispatch, EndOfBatch, HandleOutput, Accept,
         AcceptDone, FindInput, ReadData, Command, Reconnect, Prompt, ReadAgain, ReadClosed
    <3> QED BY <3>1 DEF vars
  <2> QED BY <2>1, <2>2, <2>3
<1>2. ASSUME event.owner \in connections PROVE Find(event.fd) = {event.owner}
  <2>1. info[event.owner].fd = event.fd
    BY <1>2 DEF Owners
  <2> QED BY <1>2, <2>1, FindListed DEF IInv
<1> QED BY <1>1, <1>2

\* Without a fault so far, a command deletes the port's connection or none.
LEMMA CommandSpares ==
  ASSUME IInv, QuietInv, [Next]_vars, faults = {}, pc = "command"
  PROVE  \A c \in connections \ connections' : info[c].type = "serial"
<1>1. PortInv /\ PortQuiet /\ Owners
  BY DEF IInv, QuietInv, Quiet
<1>2. CASE Command
  <2>1. CASE SerialDisconnect
    <3>1. UNCHANGED <<batch, event>>
      BY <1>2 DEF Command
    <3> QED BY <1>1, <2>1, <3>1, DisconnectQuiet
  <2>2. CASE ~SerialDisconnect
    <3>1. connections \subseteq connections'
      BY <1>2, <2>2 DEF Command, SerialConnect, NewConnection, port
    <3> QED BY <3>1
  <2> QED BY <2>1, <2>2
<1>3. CASE UNCHANGED vars
  BY <1>3 DEF vars
<1>4. Command \/ UNCHANGED vars
  BY DEF Next, Start, EpollWait, Dispatch, EndOfBatch, HandleError, CloseByFd, HandleOutput,
         Accept, AcceptDone, FindInput, ReadData, Reconnect, Prompt, ReadAgain, ReadClosed
<1> QED BY <1>2, <1>3, <1>4

-----------------------------------------------------------------------------
(* The theorems.                                                           *)

\* IInv holds of every reachable state.
THEOREM Invariance == Spec => []IInv
  BY InitIInv, NextIInv, PTL DEF Spec

\* Type correctness of the server's loop.
THEOREM TypeCorrect == Spec => []TypeOK
<1>1. Init => FaultsTyped
  BY DEF Init, FaultsTyped
<1>2. Spec => []FaultsTyped
  BY <1>1, NextFaultsTyped, PTL DEF Spec
<1>3. IInv /\ FaultsTyped => TypeOK
  BY DEF IInv, PortInv, PortType, LoopType, FaultsTyped, TypeOK
<1> QED BY Invariance, <1>2, <1>3, PTL

\* close_connection, find and the port's callback always mean the connection
\* that has the descriptor: the manager's list and the kernel's table agree.
THEOREM ManagerCorrect == Spec => []ManagerMatchesKernel
<1>1. IInv => ManagerMatchesKernel
  BY DEF IInv, PortInv
<1> QED BY Invariance, <1>1, PTL

\* The loop watches exactly the descriptors it has open.
THEOREM WatchCorrect == Spec => []WatchedAreOpen
<1>1. IInv => WatchedAreOpen
  BY DEF IInv
<1> QED BY Invariance, <1>1, PTL

\* The port never gets a second connection.
THEOREM SerialUnique == Spec => []OneSerialConnection
<1>1. IInv => OneSerialConnection
  BY DEF IInv, PortInv
<1> QED BY Invariance, <1>1, PTL

THEOREM QuietInvariance == Spec => []QuietInv
<1>1. Init => QuietInv
  BY InitQuiet DEF QuietInv
<1> QED BY <1>1, NextQuiet, Invariance, PTL DEF Spec

\* serialport.h:36: unless a setup failed or the device hung up in a read, an
\* fd_ that is set has its connection.
THEOREM PortCorrect == Spec => []PortBacked
<1>1. IInv /\ QuietInv => PortBacked
  BY DEF QuietInv, Quiet, PortQuiet, PortBacked, Find
<1> QED BY <1>1, Invariance, QuietInvariance, PTL

\* sockserver.cc:89-162: without a fault no command or reconnect deletes the
\* connection the handler is working on.
THEOREM HandlerCorrect == Spec => []HandlerKeepsConnection
<1>1. QuietInv => HandlerKeepsConnection
  BY DEF QuietInv, Quiet, Handling, HandlerKeepsConnection
<1> QED BY <1>1, QuietInvariance, PTL

\* sockserver.cc:95: without a fault find() gives null only for a read event of
\* the port that a command of the same batch closed.
THEOREM UndefinedCorrect == Spec => []UndefinedOnlyForClosedPort
<1>1. QuietInv => UndefinedOnlyForClosedPort
  BY DEF QuietInv, Quiet, Handling, UndefinedOnlyForClosedPort
<1> QED BY <1>1, QuietInvariance, PTL

\* sockserver.cc:196-206: the error branch closes the connection the error was
\* reported for and no other, unless that one is gone already.
THEOREM ErrorCorrect == Spec => ErrorSparesOthers
<1>1. Init => Owners
  BY DEF Init, Owners
<1>2. Spec => []Owners
  BY <1>1, NextOwners, Invariance, PTL DEF Spec
<1>3. IInv /\ Owners /\ [Next]_vars =>
        [(pc = "error" \/ pc = "close") =>
           \/ connections \ connections' \subseteq {event.owner}
           \/ event.owner \notin connections]_vars
  BY ErrorSpares
<1> QED BY <1>2, <1>3, Invariance, PTL DEF Spec, ErrorSparesOthers

\* connection_server.cc:224: as long as the device had no fault, the command
\* disconnect closes the port's connection and no other.
THEOREM DisconnectCorrect ==
  Spec => [][faults = {} /\ pc = "command" =>
               (\A c \in connections \ connections' : info[c].type = "serial")]_vars
<1>1. IInv /\ QuietInv /\ [Next]_vars =>
        [faults = {} /\ pc = "command" =>
           (\A c \in connections \ connections' : info[c].type = "serial")]_vars
  BY CommandSpares
<1> QED BY <1>1, Invariance, QuietInvariance, PTL DEF Spec

\* What a device without faults makes of FaultsTyped.
LEMMA NoFault == ASSUME MayFail = {} PROVE Spec => [](faults = {})
<1>1. Init => FaultsTyped
  BY DEF Init, FaultsTyped
<1>2. FaultsTyped => faults = {}
  BY DEF FaultsTyped
<1> QED BY <1>1, <1>2, NextFaultsTyped, PTL DEF Spec

\* The run server_setup finds disconnect closing somebody else's connection. It
\* takes a fault of the device: without one this never happens, whatever else does.
THEOREM DisconnectNeedsFault ==
  ASSUME MayFail = {} PROVE Spec => DisconnectClosesOnlyPort
<1>1. IInv /\ QuietInv /\ faults = {} /\ [Next]_vars =>
        [pc = "command" =>
           (\A c \in connections \ connections' : info[c].type = "serial")]_vars
  BY CommandSpares
<1> QED BY <1>1, NoFault, Invariance, QuietInvariance, PTL DEF Spec, DisconnectClosesOnlyPort

\* The run server_hangup finds a client read while fd_ names no connection. That
\* too takes a fault of the device.
THEOREM DropNeedsFault ==
  ASSUME MayFail = {} PROVE Spec => []ClientDataNotDropped
<1>1. QuietInv /\ faults = {} => ClientDataNotDropped
  BY DEF QuietInv, Quiet, PortQuiet, ClientDataNotDropped
<1> QED BY <1>1, NoFault, QuietInvariance, PTL
=============================================================================
