---------------------------- MODULE AdminSession ----------------------------
(***************************************************************************)
(* What the admin commands set, save and ts do to three copies of the      *)
(* serial port's settings: options_ in SerialPort, the line itself, and    *)
(* the configuration with its file; and the time stamp that ts enables     *)
(* (serialport.cc, config.cc, connection_server.cc, sockserver.cc).        *)
(*                                                                         *)
(* The descriptors behind the port are SockServer's subject: here the port *)
(* is closed, open, or broken (connect gave up after open() and fd_ names  *)
(* nothing the settings could be applied to).  One read() is one command,  *)
(* and the configuration has every key.                                    *)
(***************************************************************************)
EXTENDS Integers

CONSTANTS
  Configs,   \* the configurations the file may hold at first
  Numbers,   \* what is typed behind "set ..." and is an int
  Torn       \* a file that was truncated and not yet written

\* baudrate_pairs.
Baudrates == {4000000, 3500000, 3000000, 2500000, 2000000, 1500000, 1152000, 1000000, 921600,
              576000, 500000, 460800, 230400, 115200, 57600, 38400, 19200, 9600, 4800, 2400,
              1200, 300}

\* Mutant of CharSize: the number itself is or-ed into the flags.
CharSize_Number(n) == {n}

\* The bits of CSIZE in the constants CS7 and CS8.
CharSize(n) == IF n = 7 THEN {32} ELSE {16, 32}

\* A parity or stopbit is a char: the low byte of the number.
Char(n) == n % 256
NoParity == {110, 78}     \* 'n', 'N'
Odd == {111, 79}
Even == {101, 69}
Space == {115, 83}

Config == [baudrate : Int, databits : Int, parity : Int, stopbit : Int, timestamp : BOOLEAN]
Line == [baudrate : Int, csize : SUBSET {16, 32},
         parenb : BOOLEAN, parodd : BOOLEAN, inpck : BOOLEAN, cstopb : BOOLEAN]

ASSUME ConfigsAssumption == Configs \subseteq Config
ASSUME NumbersAssumption == Numbers \subseteq Int
ASSUME TornAssumption == Torn \notin Config

VARIABLES
  port,       \* SerialPort::fd_: closed, open, or broken
  options,    \* SerialPort::options_
  line,       \* the settings in effect, which survive the process
  config,     \* Config::configs
  file,       \* the configuration file
  new_ts,     \* the static of input_data_handler
  stamped,    \* whose input got a time stamp last (history)
  failed,     \* tcsetattr failed since the last connect (history)
  pc          \* idle, in a command, saving, or the process is down

settings == <<port, options, line, failed>>
stamps == <<new_ts, stamped>>
vars == <<port, options, line, config, file, new_ts, stamped, failed, pc>>

-----------------------------------------------------------------------------
(* SerialPort.                                                             *)

BaudrateSupported(n) == n \in Baudrates
WithBaudrate(o, n) == [o EXCEPT !.baudrate = n]

DatabitsSupported(n) == n \in {7, 8}
WithDatabits(o, n) == [o EXCEPT !.csize = @ \union CharSize(n)]

ParitySupported(n) == Char(n) \in NoParity \union Odd \union Even \union Space

\* Mutant of WithParity: even parity leaves PARODD as it was.
WithParity_KeepsOdd(o, n) ==
  [o EXCEPT !.parenb = Char(n) \in Odd \union Even,
            !.parodd = Char(n) \in Odd \/ @,
            !.inpck = Char(n) # 110,
            !.cstopb = @ /\ Char(n) \notin Space]

WithParity(o, n) ==
  [o EXCEPT !.parenb = Char(n) \in Odd \union Even,
            !.parodd = Char(n) \in Odd \/ (@ /\ Char(n) \notin Even),
            !.inpck = Char(n) # 110,
            !.cstopb = @ /\ Char(n) \notin Space]

StopbitSupported(n) == Char(n) \in {1, 2}
WithStopbit(o, n) == [o EXCEPT !.cstopb = Char(n) = 2]

\* What connect makes of the line's settings o; cfmakeraw clears PARENB.
Configured(o, c) ==
  WithStopbit(
    WithParity(
      WithDatabits([WithBaudrate(o, c.baudrate) EXCEPT !.parenb = FALSE, !.csize = {}],
                   c.databits),
      c.parity),
    c.stopbit)

Usable(c) ==
  /\ BaudrateSupported(c.baudrate) /\ DatabitsSupported(c.databits)
  /\ ParitySupported(c.parity) /\ StopbitSupported(c.stopbit)

\* From a closed port: the device is not there, or the setup throws, or all is
\* well.  How far a setup came that throws is not told apart: nothing applies
\* options_ before the next connect reads the line anew.
OpenPort(c) ==
  \/ port' = "closed" /\ UNCHANGED <<options, line, failed>>
  \/ port' = "broken" /\ options' = line /\ UNCHANGED <<line, failed>>
  \/ /\ Usable(c)
     /\ port' = "open" /\ failed' = FALSE
     /\ options' = Configured(line, c) /\ line' = options'

Connect == IF port = "closed" THEN OpenPort(config) ELSE UNCHANGED settings

Disconnect == port' = "closed" /\ UNCHANGED <<options, line, failed>>

-----------------------------------------------------------------------------
(* Server::input_data_handler: bytes arrive.                               *)

\* A byte of the port; a newline with the time stamp on is passed on at once.
PortByte ==
  /\ pc = "idle" /\ port = "open"
  /\ \/ config.timestamp /\ new_ts' = TRUE /\ UNCHANGED stamped
     \/ /\ new_ts' = FALSE
        /\ stamped' = IF new_ts THEN "serial" ELSE stamped
  /\ UNCHANGED <<settings, config, file, pc>>

\* A read of the port fails: its connection is deleted, fd_ keeps the number.
PortLost ==
  /\ pc = "idle" /\ port = "open"
  /\ port' = "broken"
  /\ UNCHANGED <<options, line, failed, config, file, stamps, pc>>

\* An error event of the port: SerialPort::disconnect.
PortError ==
  /\ pc = "idle" /\ port = "open"
  /\ Disconnect
  /\ UNCHANGED <<config, file, stamps, pc>>

\* A time stamp that is due goes in front of what a client or an admin sent.
Stamp(kind) ==
  /\ new_ts' = FALSE
  /\ stamped' = IF new_ts THEN kind ELSE stamped

ClientBytes ==
  /\ pc = "idle"
  /\ Connect
  /\ Stamp("client")
  /\ UNCHANGED <<config, file, pc>>

AdminBytes ==
  /\ pc = "idle"
  /\ Connect
  /\ Stamp("admin")
  /\ pc' = "command"
  /\ UNCHANGED <<config, file>>

-----------------------------------------------------------------------------
(* AdminConnection::process_cmd.                                           *)

\* Mutant of SetOption: the configuration is changed whatever set_* returns.
SetOption_Always(supported, newOptions, newConfig) ==
  /\ config' = newConfig
  /\ IF port = "closed" \/ ~supported
     THEN UNCHANGED settings
     ELSE /\ options' = newOptions
          /\ \/ port = "open" /\ line' = newOptions /\ UNCHANGED failed
             \/ failed' = TRUE /\ UNCHANGED line
          /\ UNCHANGED port
  /\ pc' = "idle"
  /\ UNCHANGED <<file, stamps>>

\* set_*(v, true), and the configuration if it returned true.
SetOption(supported, newOptions, newConfig) ==
  /\ \/ /\ port = "closed" \/ ~supported
        /\ UNCHANGED <<settings, config>>
     \/ /\ port # "closed" /\ supported
        /\ options' = newOptions
        /\ \/ port = "open" /\ line' = newOptions /\ config' = newConfig /\ UNCHANGED failed
           \/ failed' = TRUE /\ UNCHANGED <<line, config>>
        /\ UNCHANGED port
  /\ pc' = "idle"
  /\ UNCHANGED <<file, stamps>>

SetBaudrate(n) ==
  /\ pc = "command"
  /\ SetOption(BaudrateSupported(n), WithBaudrate(options, n), [config EXCEPT !.baudrate = n])

SetDatabits(n) ==
  /\ pc = "command"
  /\ SetOption(DatabitsSupported(n), WithDatabits(options, n), [config EXCEPT !.databits = n])

SetParity(n) ==
  /\ pc = "command"
  /\ SetOption(ParitySupported(n), WithParity(options, n), [config EXCEPT !.parity = Char(n)])

\* stoi throws invalid_argument: "FAIL".  Everything that changes nothing here is
\* alike: other commands, too few arguments, and "set stopbit", because the code
\* compares args[2], the number, with "stopbit".
OtherCommand ==
  /\ pc = "command"
  /\ pc' = "idle"
  /\ UNCHANGED <<settings, config, file, stamps>>

ToggleTimestamp ==
  /\ pc = "command"
  /\ config' = [config EXCEPT !.timestamp = ~@]
  /\ pc' = "idle"
  /\ UNCHANGED <<settings, file, stamps>>

CommandConnect ==
  /\ pc = "command"
  /\ Connect
  /\ pc' = "idle"
  /\ UNCHANGED <<config, file, stamps>>

CommandDisconnect ==
  /\ pc = "command"
  /\ Disconnect
  /\ pc' = "idle"
  /\ UNCHANGED <<config, file, stamps>>

CommandReconnect ==
  /\ pc = "command"
  /\ OpenPort(config)
  /\ pc' = "idle"
  /\ UNCHANGED <<config, file, stamps>>

\* ServerConfig::save, which "Saved!" follows whatever happens: the file cannot
\* be opened, or it is truncated and then written or not.
SaveOpen ==
  /\ pc = "command"
  /\ \/ pc' = "idle" /\ UNCHANGED file
     \/ pc' = "saving" /\ file' = Torn
  /\ UNCHANGED <<settings, config, stamps>>

SaveWrite ==
  /\ pc = "saving"
  /\ file' \in {config, Torn}
  /\ pc' = "idle"
  /\ UNCHANGED <<settings, config, stamps>>

-----------------------------------------------------------------------------
(* The process ends and starts again.                                      *)

Down ==
  /\ pc' = "down"
  /\ port' = "closed" /\ new_ts' = FALSE
  /\ UNCHANGED <<options, line, failed, config, file, stamped>>

\* stoi throws out_of_range, which nobody catches.
SetTooLarge == pc = "command" /\ Down

\* A signal or the power.
Crash == pc # "down" /\ Down

\* load_config_file exits over a file it cannot parse; Server::Server connects.
Restart ==
  /\ pc = "down" /\ file # Torn
  /\ config' = file
  /\ OpenPort(file)
  /\ pc' = "idle"
  /\ UNCHANGED <<file, stamps>>

-----------------------------------------------------------------------------
\* The kernel's settings of a port nobody has set up, with either stop bits.
FirstLines ==
  {[baudrate |-> 9600, csize |-> {16, 32}, parenb |-> FALSE, parodd |-> FALSE,
    inpck |-> FALSE, cstopb |-> two] : two \in BOOLEAN}

Init ==
  /\ file \in Configs /\ config = file
  /\ line \in FirstLines
  /\ port = "closed" /\ options = line /\ failed = FALSE
  /\ new_ts = FALSE /\ stamped = "none"
  /\ pc = "down"

Command ==
  \/ \E n \in Numbers : SetBaudrate(n) \/ SetDatabits(n) \/ SetParity(n)
  \/ SetTooLarge \/ OtherCommand
  \/ ToggleTimestamp \/ SaveOpen \/ SaveWrite
  \/ CommandConnect \/ CommandDisconnect \/ CommandReconnect

Next ==
  \/ PortByte \/ PortLost \/ PortError \/ ClientBytes \/ AdminBytes
  \/ Command
  \/ Crash \/ Restart

Spec == Init /\ [][Next]_vars

-----------------------------------------------------------------------------
(* Properties.                                                             *)

TypeOK ==
  /\ port \in {"closed", "open", "broken"}
  /\ options \in Line /\ line \in Line
  /\ config \in Config /\ file \in Config \union {Torn}
  /\ new_ts \in BOOLEAN /\ stamped \in {"none", "serial", "client", "admin"}
  /\ failed \in BOOLEAN
  /\ pc \in {"down", "idle", "command", "saving"}

\* No command, save, crash or restart turns a configuration the port can be
\* opened with into one it cannot, in memory or in the file.
ConfigStaysUsable ==
  [][/\ Usable(config) => Usable(config')
     /\ file # Torn /\ file' # Torn /\ Usable(file) => Usable(file')]_vars

\* Whatever was set, saved, reconnected or restarted before, the line of an open
\* port is configured as the configuration says, unless an ioctl failed: except
\* that the character size may still be 8 where 7 is configured, and one stop bit
\* be in effect where 2 are.
LineFollowsConfig ==
  port = "open" /\ ~failed =>
    /\ options = line
    /\ line.baudrate = config.baudrate
    /\ line.parenb <=> Char(config.parity) \in Odd \union Even
    /\ line.parenb => (line.parodd <=> Char(config.parity) \in Odd)
    /\ line.csize \in {CharSize(config.databits), CharSize(8)}
    /\ line.cstopb => Char(config.stopbit) = 2

\* connection_server.cc:228 says of the command "ts         :  enable/disable
\* timestamp", and sockserver.cc:120 enables it for CONNECTION_SERIAL: what clients
\* and admins send is not stamped.
StampsOnlyPortOutput == stamped \in {"none", "serial"}
=============================================================================
