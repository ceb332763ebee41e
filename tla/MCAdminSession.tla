--------------------------- MODULE MCAdminSession ---------------------------
(* Odd, even and space parity (357 is 'e' in its low byte) behind a configured
   none or even, 7 bits behind a configured 8, a rate, and for each option
   numbers it does not support; a configuration the port cannot be opened with. *)
EXTENDS AdminSession

MCNumbers == {7, 9600, 111, 357, 115}
MCConfig(databits, parity, stopbit) ==
  [baudrate |-> 115200, databits |-> databits, parity |-> parity, stopbit |-> stopbit,
   timestamp |-> FALSE]
MCConfigs == {MCConfig(8, 78, 1), MCConfig(7, 101, 2), MCConfig(5, 78, 1)}
=============================================================================
