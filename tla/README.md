# A TLA+ model of SerialOverSocket

SerialOverSocket (`sos`) shares one serial port among TCP clients. A server owns
the port; clients connect to it, and an administrator connects to a second port
and types commands. This directory holds TLA+ specifications of the program in
`src/src/`, TLC configurations that check them on small instances, and TLAPS
proofs. The verified properties and the disagreements found are listed below.

## 1. The system

### Parts, state and operations

| part | files | state it keeps | operations |
|---|---|---|---|
| event loop | `ioloop.cc` | epoll descriptor, `handlers_[fd]` | `addHandler`, `modifyHandler`, `removeHandler`, `start` |
| server | `sockserver.cc` | two listeners, the `ConnectionManager` | `accept_connection`, `input_data_handler`, `output_data_handler`, `handle`, `close_connection`, the port's status callback |
| connection manager | `connection_server.cc` | the list of `Connection*` | `append`, `remove`, `find`, `pop` |
| connections | `connection.cc`, `charbuf.cc` | `fd_`, `req_quit_`, `txbuf_` | `write_txbuf`, `flush` |
| serial port | `serialport.cc` | `fd_`, termios `options_` | `connect`, `disconnect`, `reconnect`, `set_*` |
| proxy | `dataproxy.cc` | two buffers, two lists of clients, a worker thread | `transfer`, `RegisterClient`, `DeregisterClient`, `worker`, `~DataProxy` |
| admin commands | `connection_server.cc` | none of their own | `process_cmd` |
| configuration | `config.cc` | a JSON tree | getters, setters, `load_config_file`, `save` |
| client program | `sockclient.cc` | two sockets, mode, `client_buf`, line editor, log | `handle`, `process_console_input`, `handle_cmd`, `switch_admin_connection` |
| process | `main.cc` | - | options, signal handler |
| sockets, snippets | `socket.cc`, `snippets.cc` | a descriptor; a path | system calls |

### How they interact

The loop thread runs everything except `DataProxy::worker`. `IOLoop::start` takes
a batch of events from `epoll_wait` and calls `Server::handle` for each. What is
read from a client or from the port goes through `write_rxbuf` and
`Client::transfer` into one of the proxy's buffers; the worker hands it to
`received()` of every registered object of the other side, which appends it to
that object's `txbuf_` and asks epoll for an output event; the loop thread then
flushes `txbuf_`. An admin connection's `write_rxbuf` runs a command, which may
call `SerialPort`, whose status callback adds or deletes the port's connection in
the middle of the handler.

### What is hard

* An event names a descriptor number. Between `epoll_wait` and the handler the
  descriptor may be closed and its number given to someone else.
* Three classes record whether the port is open: the kernel, the manager (a
  `SerialPortConnection` is listed) and `SerialPort::fd_`. A fault of the device
  can separate them.
* A command runs inside the read loop of a connection and deletes connections.
* Two threads share the proxy and every `txbuf_`; the worker calls virtual
  functions of objects that the loop thread constructs and destroys.
* The epoll registrations are edge-triggered: an event not acted on is gone.
* `exit()` runs in the signal handler, in whichever thread got the signal.
* The port's settings exist three times, in `options_`, in the line and in the
  configuration, and a fourth time in its file.
* The client program sends what was typed in two modes through one `txbuf_`, to
  whichever socket `fd_` is when there is room.

### What makes each part correct

* Server: the manager's list, the kernel's table and epoll agree; `isconnected()`
  tells the truth; no handler uses a deleted connection; a connection is closed
  only for a reason of its own.
* Proxy: what is sent is delivered to everyone attached, once and in order; no
  freed object is called; no wake-up is lost; shutdown ends and drains.
* Transmit side: bytes leave once, in order and eventually.
* Settings: the line is as configured, and no command leaves a configuration the
  port cannot be opened with.
* Client program: `fd_` belongs to the mode, what is typed reaches its socket, the
  port's output is shown once and in order and gets lost only in a `write()` to a
  terminal that has no room, and no handler ends the program for another's descriptor.
* Control panel: keys do what a line editor promises, and what is entered is what
  the server carries out.

## 2. Plan

Done:

1. `SockServer`, with `SockServer_proofs`
2. `Broadcast`, `DataProxy`, with `DataProxy_proofs`
3. `ConnectionTx`, with `ConnectionTx_proofs`
4. `SockClient`: the modes of the client program, the routing of what is typed and
   received, the shared `txbuf_`, the failed connection to the control panel, with
   `Client_proofs`
5. `AdminSession`: the port's settings, the configuration and its file, the time
   stamp, with `AdminSession_proofs`
6. `Shutdown`: the signal handler in each thread, with the mutexes it may hold and
   either order in which the static objects go, with `Shutdown_proofs`
7. `Relay`: several clients from the backlog to their deletion, with the proxy and
   the transmit side, with `Relay_proofs`
8. `Editor`, `Console`: the control panel's line editor, shown to implement an
   abstract one, and the framing of a command by one `read()`; also in `Client_proofs`

Next: a proof that what a client of `Relay` sees is what `Broadcast` promises, as
`DataProxy` is proved to do.

## 3. The modules

### `SockServer`

One variable per record that can disagree: `open` (the kernel), `watched` (epoll),
`live`/`info` (the heap), `connections` (the manager), `serialFd`
(`SerialPort::fd_`). `batch`, `event`, `pconn` and `pc` are the loop thread's
program counter and locals; an action is a stretch of a handler between two points
where something of interest can happen:

| action | code |
|---|---|
| `Start` | `Server::Server`, ending with `SerialPort::connect` |
| `EpollWait`, `Dispatch`, `EndOfBatch` | `IOLoop::start` |
| `Accept(t)`, `AcceptDone(t)` | `accept_connection`; one `accept()` each |
| `HandleError`, `CloseByFd` | the error branch of `handle` |
| `HandleOutput` | `output_data_handler` |
| `FindInput`, `ReadData`, `ReadAgain`, `ReadClosed` | `input_data_handler`; one `read()` each |
| `Command`, `Reconnect`, `Prompt` | `AdminConnection::write_rxbuf` and `process_cmd` |

`SerialConnect` and `SerialDisconnect` are `SerialPort::connect` and `disconnect`
with the server's callback. Two faults of the device, named in `Faults`, are
allowed by the constant `MayFail` and remembered in the history variable `faults`:
a termios setup that fails after `open()` succeeded, and a hang-up noticed by
`read()` rather than by epoll.

Events carry two ghost fields, the connection for which epoll reported them and
its type, so that a stale event can be recognised. New objects get cells that no
pointer refers to, so that a dangling pointer can be recognised. `pc = "undefined"`
is the null dereference at `sockserver.cc:95` or a use after free at
`connection_server.cc:137`; nothing is modelled after it.

### `Broadcast`, `DataProxy`, `Streams`

`Broadcast` is the promise in one direction: bytes given form a stream, each
listener receives every byte of it from attachment to detachment, once and in
order. A byte is its position in the stream (`Streams!Run`), so that losses,
repetitions and reorderings show.

`DataProxy` is `dataproxy.cc`: `Transfer` (`append_serial_input`,
`append_sock_input`), `Register`/`Constructed` (constructor), `Destroy`/`Deregister`
(destructor), `Quit`/`NotifyQuit`/`Join` (`~DataProxy`), and the worker's `Acquire`,
`Wake`, `SpuriousWake`, `Receive`, `EndRound`. The condition variable is a flag
`signalled` set by a notify while the worker waits. The loop thread's critical
sections are single steps; the worker holds `mutex_` from `Acquire` over the whole
round, interleaved with what the loop thread does without the lock.

The refinement maps a whole round to one `Deliver`, taken when the worker enters
the round: what its loop has still to hand over counts as received (`Seen`,
`HandedOut`).

### `ConnectionTx`

One connection's `txbuf_` between its writer (the worker, or for an admin
connection the loop thread itself) and `flush`. `FlushTest`, `TakeData`,
`TakeLength`, `Write`/`WriteRefused` and `Pop` are the steps of the loop in
`Connection::flush`; the arguments of `write` are taken without the mutex and in
either order, and an append in between may move the vector (`arg.moved`: what is
then fetched is freed memory, written as byte 0). `EpollWait` is
`Server::handle`'s dispatch with IN before OUT; `ready` and `nospace` are epoll's
ready list and the socket's no-space flag. `Arrive` and `Consume` are the peer.

### `SockClient`

The client program. `panel` is `admin_socket_`: null, connected, or not null with
`fileno()` -1, which `switch_admin_connection` cannot tell from success. `fd` and
`client_fd` are `fd_` and `client_fd_`; sockets are numbered, 0 to the port's
server and n the n-th panel. An element of `txbuf` is the socket it was typed for,
so that a byte that leaves through another one shows in `sentTo`. `arrived` and
`taken` count the port's bytes, and `client_buf`, `shown` and `unshown` hold them by
position. The terminal is non-blocking (`sockclient.cc:346` sets the file that the
standard output normally shares), so a `write()` to it may take any part of the
bytes, and no caller looks at how many it took: `Show` puts those it took into
`shown` and the others into `unshown`.

| action | code |
|---|---|
| `EpollWait`, `Dispatch`, `EndOfBatch` | `IOLoop::start` |
| `HandleError`, `HandleOutput` | `Client::handle`, `flush` |
| `ReadPort`, `ReadPanel` | `input_data_handler` on a socket, with `write_rxbuf` (`Show`); one `read()` each |
| `ReadClosed`, `ReadAgain` | `input_data_handler` on a socket or the terminal: the end, an error, or EAGAIN |
| `HangUp` | the terminal goes away, or its reads fail; SIGHUP is ignored (`main.cc:92`) |
| `TypeKey`, `EnterPanel`, `LeavePanel`, `TypeLine`, `TypeSnippet` | the same on the terminal, with `switch_admin_connection` and `handle_cmd` |

Five things end the program here: a socket the server closed and the terminal, each in
the error branch of `handle` or when `read()` returns 0 or fails, and a panel that was
left while its event waited. SIGINT and SIGTERM end it too, at any point of any handler
(`main.cc:74`), and are not modelled here: `Shutdown` has them, for the server, where
more than the process is at stake. The send buffers of the sockets have room
(`ConnectionTx` is about full ones). `strayed` remembers that `fd_` changed while
something waited in `txbuf_`.

### `AdminSession`

The settings of the port: `options` is `SerialPort::options_`, `line` what the
kernel has, `config` and `file` the configuration. A set of bits stands for
`CSIZE`, since `set_databits` or-s into it; a parity is the low byte of the number
typed, as in the code. `port` is closed, open, or broken (a setup that threw, a
port lost in a read: `fd_` is positive and names nothing), whose details are
`SockServer`'s. `AdminBytes` and `ClientBytes` are the prefix of
`input_data_handler` that reconnects and stamps; the commands follow. `save`
truncates and writes in two steps with a `Crash` possible in between, and
`Restart` does not start from a torn file.

What a property does not cover but the model shows: once the file is torn and the
process down, `Restart` is disabled for good; a configuration that is not `Usable`
cannot be repaired by commands, since every `set` needs an open port.

### `Relay`

What `SockServer`, `DataProxy` and `ConnectionTx` look at one at a time, together
and coarser: a queue of peers on the edge-triggered listening socket (`backlog`,
`edge`), the descriptor table (`open`), the list of registered clients, each
client's `txbuf`, and its peer. `conn` is the `fd_` of a peer's connection object.
Between closing and accepting a descriptor changes hands.

| action | code |
|---|---|
| `ListenEvent`, `Accept`, `AcceptedAll`, `AcceptFails` | `input_event_handler`, `accept_connection`; one `accept()` each |
| `Register` | the constructor of `ClientConnection`, waiting for the proxy's mutex |
| `ClientEvent`, `Flush` | `Server::handle`, `Connection::flush` |
| `Destroy`, `Destroyed` | `delete` in `close_connection`: one base class each, then the object |
| `StartRound`, `AppendBytes`, `Rearm`, `EndRound` | `DataProxy::worker`; `received()` of one client in two steps |

A flush is one step (`ConnectionTx` has its interleavings), and the moments in
which a registered object is not a whole `ClientConnection` are `DataProxy`'s
(`ReceiveImplemented`). `refused` remembers that `accept()` failed for want of a
descriptor; the next peer's arrival is an edge that clears it, and until then the
peers behind it are not seen, even if a descriptor became free.

### `Shutdown`

The three kinds of mutex (the manager's, the proxy's, that of a `txbuf_`) and who
holds each; the loop thread and the worker reduced to the critical sections they
enter; the signal handler on top of either of them. The loop thread's handlers are
free to enter any critical section in any order, one at a time, as the code does.
`first` says which singleton goes first: the destructors of static objects in
different files run in an order the language leaves to the linker. With the order
of files in `CMakeLists.txt` it is `SerialPort`; Linux normally delivers
the signal to the main thread. `IOLoop` outlives `exit()` because the temporary
`shared_ptr` in `main` is never released. What the model shows beside its
properties: a handler on the worker thread aborts (`join` of itself throws out of
a destructor) or hangs, and bytes drained into a `txbuf_` at exit are not flushed.

### `Editor`, `Console`

`Editor` is what a line editor promises: text left and right of the cursor, keys
that act at the cursor, lines recalled by age as they were entered. `Console` is
`process_console_input` with `cmdline_`, `cursor_pos_`, `history_` and
`history_idx_`, then `handle_cmd`'s choice between local commands, snippets and the
server's, and then the stream to `AdminConnection::write_rxbuf`. `EditsLine` is the
refinement: the text on either side of `cursor_pos_` for `left` and `right`. The
words of a line (`Words`) are those of `istream_iterator<string>`. What `SockClient`
has too is called `ConsoleInit`, `ConsoleNext`, `ConsoleTypeOK` and so on, so that one
proof module can speak of both.
`Insert` inserts whatever one `read()` of the terminal returned: a paste with line
ends in it becomes part of the line, and the server then finds one command where
the user saw several. `EnterBlanks` indexes an empty vector in the client.
`handle_cmd` keeps some commands to itself (`Local`), some only if they have an
argument (`LocalWith`: `cat`), and sends some to the server whether or not there is a
snippet of that name (`Shared`: `help` and `Exit`).

`ServerRead` is one `read()` of the admin connection; it may return any part of what
has arrived, and a `ServerRead` of blanks indexes an empty vector in the server. What
`new_ts` says when it happens is up to the serial port: `LineOfPort` is the byte that
sets it and the `read()` of some other connection that clears it. If it is set, the
stamp goes through `write_rxbuf` ahead of what was read and is executed as a command
(`Stamped`). `exit` only asks for the end: the server reads on while there is something
to read, and the first output event without input (`OutputEvent`) finds `req_quit_` set,
after which nobody reads.

## 4. The runs

| run | instance | shows |
|---|---|---|
| `server` | 3 descriptors, 5 cells, both faults | `TypeOK`, `ManagerMatchesKernel`, `WatchedAreOpen`, `OneSerialConnection` whatever happens; `ErrorSparesOthers`; `PortBacked`, `HandlerKeepsConnection`, `UndefinedOnlyForClosedPort` until a first fault |
| `server_setup` | setup may fail | violated: `DisconnectClosesOnlyPort` |
| `server_hangup` | hang-up in read | violated: `ClientDataNotDropped` |
| `proxy` | 2 clients, 1 port, 2 bytes each way | safety, the two refinements, `NoByteStuck`, `JoinReturns` |
| `proxy_pure` | as `proxy` | violated: `ReceiveImplemented` |
| `tx` | 5 bytes, room for 2 | `NothingLostOrRepeated`, `OutputEventDue`, `TxDrains` |
| `client` | 4 keys, 2 bytes of the port, 2 panels, any short write to the terminal, its hang-up | `ModeConsistent`, `PortShownInOrder`, `MisroutedOnlyAcrossSwitch`, `ExitHasCause` |
| `console` | 5 keys, 4 kinds of byte, reads of up to 4 bytes | `ConsoleTypeOK`, `CommandsAsEntered`, `EditsLine` |
| `relay` | 3 clients, 2 descriptors, 2 bytes, room for 1 | `StreamUnbroken`, `RearmsItsClient`, `WaitingHasEdge`, `ReadersServed` |
| `shutdown` | either thread, either order | `ExitDrains`, `UndefinedHasCause`, `ExitEnds` |
| `admin` | 3 first configurations, 5 numbers | `ConfigStaysUsable`, `LineFollowsConfig` |
| `admin_stamp` | as `admin` | violated: `StampsOnlyPortOutput` |

Bounds. Three descriptors (`Fd`) hold the port, an admin and a client, and when
the port is closed a fourth party inherits its number: every scenario of section 1
needs no more. Five cells (`Conn`) are three live objects plus the two a pointer
or an event may still refer to; cells are interchangeable, hence the symmetry set.
`MaxEvents = 3` lets every descriptor report in one batch. In the proxy two bytes
a direction let one be handed out while the next arrives, and two clients let one
register or go while the other listens. In `ConnectionTx` the kernel's room
(`Capacity = 2`) is less than what is written (`MaxBytes = 5`), so partial and
refused writes happen, repeatedly. An `AdminConnection` is registered with the
proxy like a client but its `received()` keeps nothing, so the run `proxy` has no
admin; the proofs have any number. Four keys (`MaxKeys`) open and leave the panel
twice, or once with something typed in both modes; two panels (`MaxPanels`) let an
event of the first be handled under the second. The numbers of `admin` have every
kind of parity, both answers for each option and a low byte that differs from the
number; nothing in `AdminSession` is bounded otherwise. Five keys (`MaxPressed`) type a
word, move into it or erase in it, enter it and recall it, or enter `exit` and a command
behind it; a stamp can come before each of them; four bytes (`MaxRead`, 128 in
the code) cut and join commands of up to two words. Three clients for two
descriptors make one wait, be refused, and inherit the descriptor of another; with
room for one byte (`Capacity`) two bytes fill a client that does not read.
`Shutdown` has no bound: its states are finite as they are.

Deadlock is not checked: `SockServer` stops at undefined behaviour, `DataProxy`
after a crash or after `join`, `ConnectionTx` when the connection is closed or the
bytes are used up, `SockClient` after `exit`, `Console` and `Relay` when the keys,
bytes and peers are used up, `Shutdown` when the process is down or hangs, `AdminSession` when the process is
down and its file torn.

Fairness. `DataProxy!FairSpec`: the worker takes its steps, and the loop thread
finishes a constructor, a destructor and `~DataProxy` once it began; nothing makes
anyone transfer, register or quit, and no notify may be assumed. Weak fairness is
enough because nobody competes with the worker for ever: the loop thread's
critical sections do not disable the worker's next step. `ConnectionTx!FairSpec`:
the loop thread and the worker run, and the peer goes on reading; the peer need
not send. `Relay!FairSpec`: both threads run and the peers in `Readers` read; the
others may never. Weak fairness of the loop thread as a whole is enough: each event
is consumed, and only so many arise. `Shutdown!FairSpec`: the worker and the thread
in `exit()` run; nothing is asked of a loop thread that the handler did not interrupt.

## 5. The proofs

`SockServer_proofs` proves, for every `Fd`, `Conn`, `MaxEvents` and every set of
faults: `TypeCorrect`, `ManagerCorrect`, `WatchCorrect`, `SerialUnique`. The
properties are not inductive alone. `IInv` adds `ReaderListed` (while it reads or
starts a command, the handler's connection is listed) and `ErrorBranchInv` (between
the two halves of the error branch epoll lacks at most the event's descriptor).
One lemma per operation on the manager (`NewConnectionKeeps`, `ConnectKeeps`,
`RemovalKeeps`, `CloseKeeps`, `DisconnectKeeps`) carries the argument; `NextIInv`
then has one step per action. `PortCorrect`, `HandlerCorrect` and `UndefinedCorrect`
are about runs without a fault of the device; their invariant `Quiet` adds that only
an admin's connection asks to be closed, that the connection an event was reported for
is the same or gone (`Owners`), that a descriptor has one event in a batch
(`Distinct`), and that only the port's connection can be closed under an event that
waits (`Pending`). `ErrorCorrect` needs `Owners` alone, which holds with every fault.
Two theorems say what the runs `server_setup` and `server_hangup` need for their
counterexamples: if no fault is possible (`MayFail = {}`), `DisconnectClosesOnlyPort`
and `ClientDataNotDropped` hold (`DisconnectNeedsFault`, `DropNeedsFault`), and
`DisconnectCorrect` says the same of the command `disconnect` up to the first fault.

`DataProxy_proofs` proves, for every set of clients, admins and ports and every
bound: `TypeCorrect`, `NoUseAfterFree`, `DeliveryCorrect`, `ExitCorrect`, and that
each direction implements `Broadcast` (`SerialToSockCorrect`,
`SockToSerialCorrect`). The invariant says of each direction that the buffer is
the run of bytes after what was drained, which objects the round has left to call,
and what each client has. The channel of a direction is proved once, in terms of
the direction, and used for both. `NoLostWakeup` is the safety half of the two
liveness properties: a worker that waits unsignalled has nothing to hand over, and if
`quit_` is set its notify is still to come. `CrashCorrect` says what the run
`proxy_pure` needs: the pure virtual function is called only of an object whose
constructor or destructor is running.

`AdminSession_proofs` proves, for every set of first configurations and of numbers
typed: `TypeCorrect`, `LineCorrect` and `ConfigCorrect`. Two facts are added to
make the properties inductive: an open port has a usable configuration
(`OpenIsUsable`), and the file, unless torn, is usable exactly when the
configuration in memory is (`FileAgrees`), which is what a restart needs. Lemmas
say what `connect` sets up (`ConfiguredFields`) and that each option keeps line and
configuration together (`SetOptionKeeps` and one lemma per option).

`ConnectionTx_proofs` proves, for every size: `TypeCorrect`, `BytesCorrect` and
`DueCorrect`. `BufferIsTail` is the strengthening: the buffer is the end of what was
appended, from the first byte not popped, and while `write` has been called but not
`pop` its count is of bytes that are still at the front. `DueInv` is `OutputEventDue`
said of a loop thread that reads as well: it may answer into an empty buffer and go
back to `epoll_wait`. The banner of an `AdminConnection` needs room for one byte,
hence `MaxBytes # 0`.

`Relay_proofs` proves, for every set of peers, descriptors and readers:
`TypeCorrect`, `StreamCorrect`, `RearmCorrect` and `EdgeCorrect`. The invariant adds
that a registered client has its descriptor (`ClientInv`), that nothing was given to a
connection that is not registered yet, that the client being destroyed leaves the proxy
before its descriptor is closed (`LoopInv`, from the order of the bases), that a round
serves registered clients only (`RoundInv`), and that a peer waits once (`BacklogInv`).
There is one lemma per action.

`Shutdown_proofs` proves, for every set of threads the kernel may interrupt and either
order of destruction: `TypeCorrect`, `UndefinedCorrect` and `ExitCorrect`. The invariant
adds that destructors run in turn and only in the handler (`TurnInv`,
`ExitNeedsHandler`), and that the worker exits with empty buffers and with the loop
thread, the only other one to fill them, in the handler (`WorkerExit`). `NoExitDeadlock`
is the safety half of `ExitEnds`: when the signal came outside the loop thread's
critical sections, every mutex that `exit()` or the worker waits for is free, and the
worker it joins has been woken (`WakeUpDue`).

`Client_proofs` proves, for any number of keys, bytes and panels, all five
invariants of `SockClient`. The invariant adds that only panels are shut down
(`ShutArePanels`: the next one's number is free), that what waits in `txbuf_` is for the
mode's socket unless `fd_` changed (`WaitsForMode`), and that an error in the batch is
of something that ended, and stays so (`ErrorsAreEnds`, `EndedStays`). For
`PortShownInOrder` the bytes are a sequence that increases and lacks only `unshown`
(`InOrder`): what is read goes behind it (`RunBehind`), a write that took the first few
only leaves one without the others (`FirstShown`, `ShowKeeps`). `SwitchOffKeeps` is
shared by the two ways to leave the panel.

Its second half proves, for any bytes, pasted texts, histories, snippets, size of a
`read()` and number of keys, all that the run `console` checks:

* `ConsoleTypeCorrect`: the cursor stays in the line and the history index in the
  history, without which `process_console_input` would index outside both.
* `CommandsCorrect`: `CommandsAsEntered` compares two lists and does not mention the
  stream between them. `StreamInv` does. What was run is, but for the stamps, the
  beginning of what was entered (`AsEntered`; `Proper` counts what is not a stamp, and
  `RunOneMore` says what one more command does to it). For the rest, a *packet* is
  what one Enter sent (`Packet`, up to a marked byte), and some function `at` from
  positions in the stream to numbers of commands (`CarriesAll`) makes each packet
  carry the newline alone or the next command (`Carries`). Sending extends `at`; a
  `read()` that returns one packet cuts it off at the front, whether it is stamped or
  not (`SendKeeps`, `ServerReadKeeps`); any other `read()` sets `misframed`, and
  nothing is claimed from then on.
* `EditsCorrect`: one lemma per key shows the step of `Editor` it is (`InsertTypes`,
  `EraseErases`, `MoveCursorMoves`, `RecallRecalls`, `EnterEnters`), or that it leaves
  the line alone; all other steps stutter (`EditorStep`).

The lemmas on `Words` are the only ones that need an induction: the k-th word begins
at the k-th of the positions where words begin. `HasKth` proves that a finite set of
numbers has a k-th element by contradiction, from a smallest k that has none
(`SmallestNat`, from the library's `WFMin`, which takes no operator as a parameter).

`Streams_proofs` holds the lemmas on runs of bytes that the others cite.

Assumptions: the named `ASSUME`s of the modules, which TLC evaluates on each run.

Only model-checked: the five liveness properties `NoByteStuck`, `JoinReturns`,
`TxDrains`, `ReadersServed` and `ExitEnds`, since the prover has no rule for fairness
and ENABLED. Of each, the part that is safety is a theorem: nothing that can still
happen has been forgotten, neither a notify (`NoLostWakeup`, `NoExitDeadlock`), nor
an output event (`DueCorrect`), nor the edge of a waiting peer (`EdgeCorrect`), but for
the exceptions of section 6. That it is taken in the end is what the runs show.
`NoLostWakeup` and `NoExitDeadlock` are stated in the proof modules only. Every other
property of a passing run is a theorem. No module uses a recursive operator.

## 6. Disagreements between the code and what it says

Four violated properties, each with the line that states it (`findings` in
`PROJECT.json`):

* `serialport.cc:183`: a failed setup leaves the closed number in `fd_`, and
  `disconnect` later closes whoever got it.
* `sockserver.cc:161`: a port that hangs up during a read stays "connected"; what
  clients send is dropped silently.
* `dataproxy.cc:102`, `:105`: an object is registered by its base constructor and
  deregistered by its base destructor, and the worker can call its pure virtual
  `received()` in between.
* `sockserver.cc:134`: the time stamp goes in front of what a client sends.

And the exceptions that properties which hold have to make:

* `ErrorSparesOthers`: `sockserver.cc:206` closes by number, and somebody else if
  the event's own connection went earlier in the batch.
* `OutputEventDue`, `TxDrains`: `sockserver.cc:209` loses EPOLLOUT when it comes
  with EPOLLIN, and the bytes wait for the next write (`swallowed`).
* `MisroutedOnlyAcrossSwitch`: what waits in `txbuf_` when the client program's mode
  changes goes to the other socket; among it the newline of `sockclient.cc:189`, meant
  for the control panel, which reaches the serial port behind every snippet.
* `PortShownInOrder`: what a `write()` to the non-blocking terminal does not take is
  lost (`sockclient.cc:374` and `:417` do not look at the result, and `client_buf` is
  cleared after one write).
* `ExitHasCause`: the event of a panel that was left ends the program
  (`sockclient.cc:278`), although the server's connection is well.
* `CommandsAsEntered`: a time stamp that is due is run as a command
  (`sockserver.cc:134`-`145`, `Stamp`); what is entered behind an `exit` is run or is
  left unread, as it arrives (`sockserver.cc:189`). A `read()` of the server that cuts or
  joins lines runs other commands than were typed (`misframed`); two empty lines read together crash the
  server (`connection_server.cc:147`), and a line of blanks the client program
  (`sockclient.cc:76`).
* `WaitingHasEdge`: after an `accept()` without a descriptor (`sockserver.cc:62`)
  waiting peers are forgotten until another one comes.
* `ExitEnds`, `UndefinedHasCause`: `exit()` in the signal handler hangs on a mutex its
  own thread holds, aborts on the worker thread, and uses freed memory in the
  other order of destruction.

The run `server` also says when the null pointer at `sockserver.cc:95` is reached
without a fault: only for a read event of the port that is still in the batch when
a command closes the port. The run `admin` says by how much the line may differ
from the configuration: `set databits 7` never takes effect on a line of 8 before
the next connect (`serialport.cc:61` or-s the bits), and the space parity resets
the stop bits; and with a `tcsetattr` that failed nothing is promised.

## 7. Not modelled

* The JSON library (`src/json/json.hpp`) is vendored third-party code. It is nine
  lines in ten of the repository, so that the share of all lines that the
  models cover stays small however much of the program they cover; the values the
  program takes from it are in `AdminSession`.
* Socket set-up (`socket.cc`): straight lines of system calls that leave a
  descriptor or -1. Two consequences are only noted: the file of a UNIX socket is never
  unlinked, so that a server that uses one does not start twice, and a TCP
  listener that could not be bound leaves a server running that nobody can reach.
* Snippets (`snippets.cc`): reading of files; that a name is or is not a snippet is in
  `Console` and `SockClient`. Command-line options, colours, the text of answers.
* The client program's log file, and its history file, which only `~Client` writes,
  and that never runs: `IOLoop::stop` has no caller.
* `CharBuf`'s line operations, `ConnectionManager::pop` and `close_all_connections`
  have no caller that runs.
* A key that the configuration file lacks: `at()` of the JSON library throws, nothing
  catches it, and the program ends when it first reads that key.
* Locks inside `malloc` and stdio, which the signal handler takes as well.
