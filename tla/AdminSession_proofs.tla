------------------------ MODULE AdminSession_proofs -------------------------
(***************************************************************************)
(* Proofs about AdminSession, for every set of first configurations and    *)
(* every set of numbers.  The line of an open port follows the             *)
(* configuration only because a port is opened with a usable one, and a    *)
(* restart keeps the configuration usable only because the file agrees     *)
(* with it: the invariant says both.                                       *)
(***************************************************************************)
EXTENDS AdminSession, TLAPS

\* An open port was opened with a usable configuration, and none of the options
\* set since made it another.
OpenIsUsable == port = "open" => Usable(config)

\* What was saved and what is in memory can both be used, or neither.
FileAgrees == file # Torn => (Usable(file) <=> Usable(config))

IInv == TypeOK /\ OpenIsUsable /\ FileAgrees /\ LineFollowsConfig

-----------------------------------------------------------------------------
(* The options.                                                            *)

\* A char that was stored is read back as it was.
LEMMA CharIdempotent ==
  ASSUME NEW n \in Int
  PROVE  Char(n) \in Int /\ Char(Char(n)) = Char(n)
BY DEF Char

\* CS7 is part of CS8, so or-ing a size gives that size or 8.
LEMMA CharSizeCases ==
  ASSUME NEW n
  PROVE  /\ CharSize(n) \in {{32}, {16, 32}}
         /\ CharSize(n) \in SUBSET {16, 32}
         /\ CharSize(n) \union {16, 32} = {16, 32}
         /\ CharSize(8) = {16, 32}
BY DEF CharSize

\* Every set_* maps settings to settings.
LEMMA OptionTypes ==
  ASSUME NEW o \in Line, NEW n \in Int
  PROVE  /\ WithBaudrate(o, n) \in Line
         /\ WithDatabits(o, n) \in Line
         /\ WithParity(o, n) \in Line
         /\ WithStopbit(o, n) \in Line
<1>1. WithBaudrate(o, n) \in Line
  BY DEF WithBaudrate, Line
<1>2. WithDatabits(o, n) \in Line
  <2>1. o.csize \union CharSize(n) \in SUBSET {16, 32}
    BY CharSizeCases DEF Line
  <2> QED BY <2>1 DEF WithDatabits, Line
<1>3. WithParity(o, n) \in Line
  <2> DEFINE parenb == Char(n) \in Odd \union Even
             parodd == Char(n) \in Odd \/ (o.parodd /\ Char(n) \notin Even)
             inpck == Char(n) # 110
             cstopb == o.cstopb /\ Char(n) \notin Space
  <2>1. parenb \in BOOLEAN /\ parodd \in BOOLEAN /\ inpck \in BOOLEAN /\ cstopb \in BOOLEAN
    OBVIOUS
  <2>2. WithParity(o, n) = [o EXCEPT !.parenb = parenb, !.parodd = parodd,
                                     !.inpck = inpck, !.cstopb = cstopb]
    BY DEF WithParity
  <2> HIDE DEF parenb, parodd, inpck, cstopb
  <2> QED BY <2>1, <2>2 DEF Line
<1>4. WithStopbit(o, n) \in Line
  BY DEF WithStopbit, Line
<1> QED BY <1>1, <1>2, <1>3, <1>4

\* What connect sets up, in the terms of the configuration.
LEMMA ConfiguredFields ==
  ASSUME NEW o \in Line, NEW c \in Config
  PROVE  /\ Configured(o, c) \in Line
         /\ Configured(o, c).baudrate = c.baudrate
         /\ Configured(o, c).csize = CharSize(c.databits)
         /\ Configured(o, c).parenb <=> Char(c.parity) \in Odd \union Even
         /\ Configured(o, c).parenb => (Configured(o, c).parodd <=> Char(c.parity) \in Odd)
         /\ Configured(o, c).cstopb <=> Char(c.stopbit) = 2
<1> DEFINE raw == [WithBaudrate(o, c.baudrate) EXCEPT !.parenb = FALSE, !.csize = {}]
           sized == WithDatabits(raw, c.databits)
           even == WithParity(sized, c.parity)
<1>1. c.baudrate \in Int /\ c.databits \in Int /\ c.parity \in Int /\ c.stopbit \in Int
  BY DEF Config
<1>2. raw \in Line /\ raw.baudrate = c.baudrate /\ raw.csize = {}
  BY <1>1 DEF WithBaudrate, Line
<1>3. /\ sized \in Line /\ sized.baudrate = c.baudrate
      /\ sized.csize = CharSize(c.databits)
  <2>1. sized \in Line
    BY <1>1, <1>2, OptionTypes
  <2>2. sized.baudrate = raw.baudrate /\ sized.csize = raw.csize \union CharSize(c.databits)
    BY <1>2 DEF WithDatabits, Line
  <2> QED BY <1>2, <2>1, <2>2
<1>4. /\ even \in Line /\ even.baudrate = c.baudrate
      /\ even.csize = CharSize(c.databits)
      /\ even.parenb <=> Char(c.parity) \in Odd \union Even
      /\ even.parenb => (even.parodd <=> Char(c.parity) \in Odd)
  <2>1. even \in Line
    BY <1>1, <1>3, OptionTypes
  <2>2. even.baudrate = sized.baudrate /\ even.csize = sized.csize
    BY <1>3 DEF WithParity, Line
  <2>3. /\ even.parenb = (Char(c.parity) \in Odd \union Even)
        /\ even.parodd = (Char(c.parity) \in Odd \/ (sized.parodd /\ Char(c.parity) \notin Even))
    BY <1>3 DEF WithParity, Line
  <2> QED BY <1>3, <2>1, <2>2, <2>3
<1>5. Configured(o, c) = WithStopbit(even, c.stopbit)
  BY DEF Configured
<1>6. /\ WithStopbit(even, c.stopbit) \in Line
      /\ WithStopbit(even, c.stopbit).baudrate = even.baudrate
      /\ WithStopbit(even, c.stopbit).csize = even.csize
      /\ WithStopbit(even, c.stopbit).parenb = even.parenb
      /\ WithStopbit(even, c.stopbit).parodd = even.parodd
      /\ WithStopbit(even, c.stopbit).cstopb = (Char(c.stopbit) = 2)
  BY <1>4 DEF WithStopbit, Line
<1> HIDE DEF raw, sized, even
<1> QED BY <1>4, <1>5, <1>6

-----------------------------------------------------------------------------
(* The operations.                                                         *)

\* A line l is set as the configuration c says.
Follows(l, c) ==
  /\ l.baudrate = c.baudrate
  /\ l.parenb <=> Char(c.parity) \in Odd \union Even
  /\ l.parenb => (l.parodd <=> Char(c.parity) \in Odd)
  /\ l.csize \in {CharSize(c.databits), CharSize(8)}
  /\ l.cstopb => Char(c.stopbit) = 2

SettingsInv ==
  /\ port \in {"closed", "open", "broken"}
  /\ options \in Line /\ line \in Line /\ failed \in BOOLEAN
  /\ OpenIsUsable
  /\ port = "open" /\ ~failed => options = line /\ Follows(line, config)

RestInv ==
  /\ config \in Config /\ file \in Config \union {Torn}
  /\ new_ts \in BOOLEAN /\ stamped \in {"none", "serial", "client", "admin"}
  /\ pc \in {"down", "idle", "command", "saving"}
  /\ FileAgrees

LEMMA IInvParts == IInv <=> SettingsInv /\ RestInv
BY DEF IInv, SettingsInv, RestInv, TypeOK, LineFollowsConfig, Follows

LEMMA IInvPartsNext == IInv' <=> SettingsInv' /\ RestInv'
BY DEF IInv, SettingsInv, RestInv, TypeOK, LineFollowsConfig, Follows

\* connect, with the configuration that is in force behind it, leaves the line as
\* configured or the port not open.
LEMMA OpenPortKeeps ==
  ASSUME SettingsInv, config' \in Config, OpenPort(config')
  PROVE  SettingsInv'
<1>1. CASE port' = "closed" /\ UNCHANGED <<options, line, failed>>
  BY <1>1 DEF SettingsInv, OpenIsUsable
<1>2. CASE port' = "broken" /\ options' = line /\ UNCHANGED <<line, failed>>
  BY <1>2 DEF SettingsInv, OpenIsUsable
<1>3. CASE /\ Usable(config')
           /\ port' = "open" /\ failed' = FALSE
           /\ options' = Configured(line, config') /\ line' = options'
  <2>1. line \in Line
    BY DEF SettingsInv
  <2>2. line' \in Line /\ Follows(line', config')
    BY <1>3, <2>1, ConfiguredFields DEF Follows
  <2> QED BY <1>3, <2>2 DEF SettingsInv, OpenIsUsable
<1> QED BY <1>1, <1>2, <1>3 DEF OpenPort

LEMMA ConnectKeeps ==
  ASSUME SettingsInv, config \in Config, UNCHANGED config, Connect
  PROVE  SettingsInv'
<1>1. CASE port = "closed" /\ OpenPort(config)
  BY <1>1, OpenPortKeeps
<1>2. CASE UNCHANGED settings
  BY <1>2 DEF settings, SettingsInv, OpenIsUsable
<1> QED BY <1>1, <1>2 DEF Connect

\* An option is set: on an open port with the configuration, or in options_ alone.
LEMMA SetOptionKeeps ==
  ASSUME IInv, NEW supported \in BOOLEAN, NEW newOptions \in Line, NEW newConfig \in Config,
         supported /\ Usable(config) => Usable(newConfig),
         supported /\ Follows(options, config) => Follows(newOptions, newConfig),
         SetOption(supported, newOptions, newConfig)
  PROVE  IInv'
<1> USE DEF settings, stamps
<1>1. SettingsInv /\ RestInv
  BY IInvParts
<1>2. CASE UNCHANGED <<settings, config>>
  BY <1>1, <1>2, IInvPartsNext DEF SetOption, SettingsInv, RestInv, OpenIsUsable, FileAgrees
<1>3. CASE /\ supported /\ options' = newOptions /\ UNCHANGED port
           /\ port = "open" /\ line' = newOptions /\ config' = newConfig /\ UNCHANGED failed
  <2>1. Usable(config) /\ Usable(config')
    BY <1>1, <1>3 DEF SettingsInv, OpenIsUsable
  <2>2. ~failed => Follows(line', config')
    BY <1>1, <1>3 DEF SettingsInv
  <2>3. SettingsInv'
    BY <1>1, <1>3, <2>1, <2>2 DEF SettingsInv, OpenIsUsable
  <2>4. RestInv'
    BY <1>1, <1>3, <2>1 DEF SetOption, RestInv, FileAgrees
  <2> QED BY <2>3, <2>4, IInvPartsNext
<1>4. CASE /\ options' = newOptions /\ UNCHANGED port
           /\ failed' = TRUE /\ UNCHANGED <<line, config>>
  BY <1>1, <1>4, IInvPartsNext DEF SetOption, SettingsInv, RestInv, OpenIsUsable, FileAgrees
<1> QED BY <1>2, <1>3, <1>4 DEF SetOption

LEMMA BaudrateKeeps ==
  ASSUME IInv, NEW n \in Int, SetBaudrate(n)
  PROVE  IInv'
<1> DEFINE newConfig == [config EXCEPT !.baudrate = n]
           newOptions == WithBaudrate(options, n)
<1>1. config \in Config /\ options \in Line
  BY DEF IInv, TypeOK
<1>2. newConfig \in Config /\ newOptions \in Line
  BY <1>1, OptionTypes DEF Config
<1>3. BaudrateSupported(n) \in BOOLEAN
  BY DEF BaudrateSupported
<1>4. BaudrateSupported(n) /\ Usable(config) => Usable(newConfig)
  BY <1>1 DEF Usable, Config
<1>5. Follows(options, config) => Follows(newOptions, newConfig)
  BY <1>1 DEF Follows, WithBaudrate, Line, Config
<1>6. SetOption(BaudrateSupported(n), newOptions, newConfig)
  BY DEF SetBaudrate
<1> HIDE DEF newConfig, newOptions
<1> QED BY <1>2, <1>3, <1>4, <1>5, <1>6, SetOptionKeeps

LEMMA DatabitsKeeps ==
  ASSUME IInv, NEW n \in Int, SetDatabits(n)
  PROVE  IInv'
<1> DEFINE newConfig == [config EXCEPT !.databits = n]
           newOptions == WithDatabits(options, n)
<1>1. config \in Config /\ options \in Line
  BY DEF IInv, TypeOK
<1>2. newConfig \in Config /\ newOptions \in Line
  BY <1>1, OptionTypes DEF Config
<1>3. DatabitsSupported(n) \in BOOLEAN
  BY DEF DatabitsSupported
<1>4. DatabitsSupported(n) /\ Usable(config) => Usable(newConfig)
  BY <1>1 DEF Usable, Config
<1>5. Follows(options, config) => Follows(newOptions, newConfig)
  <2> SUFFICES ASSUME Follows(options, config) PROVE Follows(newOptions, newConfig)
    OBVIOUS
  <2>1. newOptions.csize = options.csize \union CharSize(n)
    BY <1>1 DEF WithDatabits, Line
  <2>2. options.csize \in {{32}, {16, 32}}
    BY CharSizeCases DEF Follows
  <2>3. newConfig.databits = n
    BY <1>1 DEF Config
  <2>4. newOptions.csize \in {CharSize(newConfig.databits), CharSize(8)}
    BY <2>1, <2>2, <2>3, CharSizeCases
  <2>5. /\ newOptions.baudrate = options.baudrate
        /\ newOptions.parenb = options.parenb
        /\ newOptions.parodd = options.parodd
        /\ newOptions.cstopb = options.cstopb
    BY <1>1 DEF WithDatabits, Line
  <2>6. /\ newConfig.baudrate = config.baudrate
        /\ newConfig.parity = config.parity
        /\ newConfig.stopbit = config.stopbit
    BY <1>1 DEF Config
  <2> HIDE DEF newConfig, newOptions
  <2> QED BY <2>4, <2>5, <2>6 DEF Follows
<1>6. SetOption(DatabitsSupported(n), newOptions, newConfig)
  BY DEF SetDatabits
<1> HIDE DEF newConfig, newOptions
<1> QED BY <1>2, <1>3, <1>4, <1>5, <1>6, SetOptionKeeps

LEMMA ParityKeeps ==
  ASSUME IInv, NEW n \in Int, SetParity(n)
  PROVE  IInv'
<1> DEFINE newConfig == [config EXCEPT !.parity = Char(n)]
           newOptions == WithParity(options, n)
<1>1. config \in Config /\ options \in Line
  BY DEF IInv, TypeOK
<1>2. newConfig \in Config /\ newOptions \in Line
  BY <1>1, OptionTypes, CharIdempotent DEF Config
<1>3. ParitySupported(n) \in BOOLEAN
  BY DEF ParitySupported
<1>a. /\ newConfig.parity = Char(n)
      /\ newConfig.baudrate = config.baudrate
      /\ newConfig.databits = config.databits
      /\ newConfig.stopbit = config.stopbit
  BY <1>1 DEF Config
<1>4. ParitySupported(n) /\ Usable(config) => Usable(newConfig)
  <2> HIDE DEF newConfig
  <2> QED BY <1>a, CharIdempotent DEF Usable, ParitySupported
<1>5. Follows(options, config) => Follows(newOptions, newConfig)
  <2>1. /\ newOptions.baudrate = options.baudrate
        /\ newOptions.csize = options.csize
    BY <1>1 DEF WithParity, Line
  <2>2. /\ newOptions.parenb = (Char(n) \in Odd \union Even)
        /\ newOptions.parodd = (Char(n) \in Odd \/ (options.parodd /\ Char(n) \notin Even))
        /\ newOptions.cstopb = (options.cstopb /\ Char(n) \notin Space)
    BY <1>1 DEF WithParity, Line
  <2> HIDE DEF newConfig, newOptions
  <2> QED BY <1>a, <2>1, <2>2, CharIdempotent DEF Follows
<1>6. SetOption(ParitySupported(n), newOptions, newConfig)
  BY DEF SetParity
<1> HIDE DEF newConfig, newOptions
<1> QED BY <1>2, <1>3, <1>4, <1>5, <1>6, SetOptionKeeps

-----------------------------------------------------------------------------
(* The specification.                                                      *)

LEMMA FirstLineType ==
  ASSUME NEW l \in FirstLines
  PROVE  l \in Line
<1>1. PICK two \in BOOLEAN :
        l = [baudrate |-> 9600, csize |-> {16, 32}, parenb |-> FALSE, parodd |-> FALSE,
             inpck |-> FALSE, cstopb |-> two]
  BY DEF FirstLines
<1>2. {16, 32} \in SUBSET {16, 32}
  OBVIOUS
<1>3. FALSE \in BOOLEAN
  OBVIOUS
<1> QED BY <1>1, <1>2, <1>3 DEF Line

LEMMA InitIInv == Init => IInv
<1> SUFFICES ASSUME Init PROVE IInv
  OBVIOUS
<1>1. line \in Line /\ options \in Line
  BY FirstLineType DEF Init
<1>2. config \in Config /\ file \in Config /\ config = file
  BY ConfigsAssumption DEF Init
<1>3. /\ port = "closed" /\ failed = FALSE /\ new_ts = FALSE /\ stamped = "none"
      /\ pc = "down"
  BY DEF Init
<1>4. SettingsInv
  BY <1>1, <1>3 DEF SettingsInv, OpenIsUsable
<1>5. RestInv
  BY <1>2, <1>3 DEF RestInv, FileAgrees
<1> QED BY <1>4, <1>5, IInvParts

LEMMA NextIInv == IInv /\ [Next]_vars => IInv'
<1> SUFFICES ASSUME IInv, [Next]_vars PROVE IInv'
  OBVIOUS
<1>0. SettingsInv /\ RestInv
  BY IInvParts
<1>. USE DEF settings, stamps
<1>a. ASSUME UNCHANGED settings, UNCHANGED config PROVE SettingsInv'
  BY <1>0, <1>a DEF SettingsInv, OpenIsUsable
<1>b. ASSUME Disconnect PROVE SettingsInv'
  BY <1>0, <1>b DEF Disconnect, SettingsInv, OpenIsUsable
<1>1. CASE PortByte
  <2>1. RestInv'
    BY <1>0, <1>1 DEF PortByte, RestInv, FileAgrees
  <2> QED BY <1>1, <1>a, <2>1, IInvPartsNext DEF PortByte
<1>2. CASE PortLost
  <2>1. SettingsInv'
    BY <1>0, <1>2 DEF PortLost, SettingsInv, OpenIsUsable
  <2>2. RestInv'
    BY <1>0, <1>2 DEF PortLost, RestInv, FileAgrees
  <2> QED BY <2>1, <2>2, IInvPartsNext
<1>3. CASE PortError
  <2>1. RestInv'
    BY <1>0, <1>3 DEF PortError, RestInv, FileAgrees
  <2> QED BY <1>3, <1>b, <2>1, IInvPartsNext DEF PortError
<1>4. CASE ClientBytes
  <2>1. SettingsInv'
    BY <1>0, <1>4, ConnectKeeps DEF ClientBytes, RestInv
  <2>2. RestInv'
    BY <1>0, <1>4 DEF ClientBytes, Stamp, RestInv, FileAgrees
  <2> QED BY <2>1, <2>2, IInvPartsNext
<1>5. CASE AdminBytes
  <2>1. SettingsInv'
    BY <1>0, <1>5, ConnectKeeps DEF AdminBytes, RestInv
  <2>2. RestInv'
    BY <1>0, <1>5 DEF AdminBytes, Stamp, RestInv, FileAgrees
  <2> QED BY <2>1, <2>2, IInvPartsNext
<1>6. ASSUME NEW n \in Numbers, SetBaudrate(n) \/ SetDatabits(n) \/ SetParity(n)
      PROVE  IInv'
  <2>1. n \in Int
    BY NumbersAssumption
  <2> QED BY <1>6, <2>1, BaudrateKeeps, DatabitsKeeps, ParityKeeps
<1>7. CASE Down
  <2>1. SettingsInv'
    BY <1>0, <1>7 DEF Down, SettingsInv, OpenIsUsable
  <2>2. RestInv'
    BY <1>0, <1>7 DEF Down, RestInv, FileAgrees
  <2> QED BY <2>1, <2>2, IInvPartsNext
<1>8. CASE OtherCommand
  <2>1. RestInv'
    BY <1>0, <1>8 DEF OtherCommand, RestInv, FileAgrees
  <2> QED BY <1>8, <1>a, <2>1, IInvPartsNext DEF OtherCommand
<1>9. CASE ToggleTimestamp
  <2>1. config' \in Config /\ (Usable(config') <=> Usable(config))
    BY <1>0, <1>9 DEF ToggleTimestamp, RestInv, Config, Usable
  <2>2. Follows(line, config) => Follows(line, config')
    BY <1>0, <1>9 DEF ToggleTimestamp, RestInv, Config, Follows
  <2>3. SettingsInv'
    BY <1>0, <1>9, <2>1, <2>2 DEF ToggleTimestamp, SettingsInv, OpenIsUsable
  <2>4. RestInv'
    BY <1>0, <1>9, <2>1 DEF ToggleTimestamp, RestInv, FileAgrees
  <2> QED BY <2>3, <2>4, IInvPartsNext
<1>10. CASE SaveOpen
  <2>1. RestInv'
    BY <1>0, <1>10 DEF SaveOpen, RestInv, FileAgrees
  <2> QED BY <1>10, <1>a, <2>1, IInvPartsNext DEF SaveOpen
<1>11. CASE SaveWrite
  <2>1. RestInv'
    BY <1>0, <1>11 DEF SaveWrite, RestInv, FileAgrees
  <2> QED BY <1>11, <1>a, <2>1, IInvPartsNext DEF SaveWrite
<1>12. CASE CommandConnect
  <2>1. SettingsInv'
    BY <1>0, <1>12, ConnectKeeps DEF CommandConnect, RestInv
  <2>2. RestInv'
    BY <1>0, <1>12 DEF CommandConnect, RestInv, FileAgrees
  <2> QED BY <2>1, <2>2, IInvPartsNext
<1>13. CASE CommandDisconnect
  <2>1. RestInv'
    BY <1>0, <1>13 DEF CommandDisconnect, RestInv, FileAgrees
  <2> QED BY <1>13, <1>b, <2>1, IInvPartsNext DEF CommandDisconnect
<1>14. CASE CommandReconnect
  <2>1. SettingsInv'
    BY <1>0, <1>14, OpenPortKeeps DEF CommandReconnect, RestInv
  <2>2. RestInv'
    BY <1>0, <1>14 DEF CommandReconnect, RestInv, FileAgrees
  <2> QED BY <2>1, <2>2, IInvPartsNext
<1>15. CASE Restart
  <2>1. config' \in Config /\ config' = file /\ OpenPort(config')
    BY <1>0, <1>15 DEF Restart, RestInv
  <2>2. SettingsInv'
    BY <1>0, <2>1, OpenPortKeeps
  <2>3. RestInv'
    BY <1>0, <1>15, <2>1 DEF Restart, RestInv, FileAgrees
  <2> QED BY <2>2, <2>3, IInvPartsNext
<1>16. CASE UNCHANGED vars
  <2>1. RestInv'
    BY <1>0, <1>16 DEF vars, RestInv, FileAgrees
  <2> QED BY <1>16, <1>a, <2>1, IInvPartsNext DEF vars
<1> QED
  BY <1>1, <1>2, <1>3, <1>4, <1>5, <1>6, <1>7, <1>8, <1>9, <1>10, <1>11, <1>12, <1>13,
     <1>14, <1>15, <1>16 DEF Next, Command, SetTooLarge, Crash

THEOREM IInvHolds == Spec => []IInv
BY InitIInv, NextIInv, PTL DEF Spec

\* The types of the settings, the configuration and its file hold for every set
\* of first configurations and numbers.
THEOREM TypeCorrect == Spec => []TypeOK
<1>1. IInv => TypeOK
  BY DEF IInv
<1> QED BY <1>1, IInvHolds, PTL

\* The line of an open port follows the configuration, whatever was typed.
THEOREM LineCorrect == Spec => []LineFollowsConfig
<1>1. IInv => LineFollowsConfig
  BY DEF IInv
<1> QED BY <1>1, IInvHolds, PTL

\* A configuration the port can be opened with stays one, in memory and in the
\* file, through commands, saves, crashes and restarts.
THEOREM ConfigCorrect == Spec => ConfigStaysUsable
<1> DEFINE Keeps ==
      /\ Usable(config) => Usable(config')
      /\ file # Torn /\ file' # Torn /\ Usable(file) => Usable(file')
<1>1. IInv /\ IInv' /\ [Next]_vars => [Keeps]_vars
  <2> SUFFICES ASSUME IInv, IInv', Next PROVE Keeps
    BY DEF vars
  <2>1. CASE UNCHANGED config
    BY <2>1 DEF IInv, FileAgrees
  <2>2. CASE \E n \in Numbers : SetBaudrate(n) \/ SetDatabits(n) \/ SetParity(n)
    <3>1. UNCHANGED file /\ (config' = config \/ (port = "open" /\ port' = "open"))
      BY <2>2 DEF SetBaudrate, SetDatabits, SetParity, SetOption
    <3> QED BY <3>1, <2>1 DEF IInv, OpenIsUsable
  <2>3. CASE ToggleTimestamp
    BY <2>3 DEF ToggleTimestamp, IInv, TypeOK, Config, Usable
  <2>4. CASE Restart
    BY <2>4 DEF Restart, IInv, FileAgrees
  <2> QED
    BY <2>1, <2>2, <2>3, <2>4 DEF Next, Command, PortByte, PortLost, PortError, ClientBytes,
       AdminBytes, OtherCommand, SaveOpen, SaveWrite, CommandConnect, CommandDisconnect,
       CommandReconnect, SetTooLarge, Crash, Down
<1> QED BY <1>1, IInvHolds, PTL DEF Spec, ConfigStaysUsable
=============================================================================
