---------------------------- MODULE MouseDecoder ----------------------------
(***************************************************************************)
(* drivers/mouse.rs: the initialisation of the PS/2 mouse and the decoding *)
(* of its byte stream into moves and button events by handle_byte, which   *)
(* the mouse interrupt calls with every byte.                              *)
(*                                                                         *)
(* init enables the interrupt of the mouse before it sends the two         *)
(* commands whose acknowledgements it wants to read itself, and runs with  *)
(* interrupts enabled: either side may get a byte, so an acknowledgement   *)
(* can end up in the packet buffer and a packet byte in command.           *)
(***************************************************************************)
EXTENDS Integers, Sequences

CONSTANTS Width, Height,   \* SCREEN_WIDTH, SCREEN_HEIGHT
          Motions,         \* distances one report may tell
          Buttons          \* the low two bits: 1 is the left, 2 the right button

ASSUME MouseAssumption == /\ Width \in Nat \ {0} /\ Height \in Nat \ {0}
                          /\ Motions \subseteq -256..255
                          /\ Buttons \subseteq 0..3

Byte == 0..255
Ack == 250                     \* 0xFA
IsSet(b, mask) == (b \div mask) % 2 = 1

VARIABLES
  init,          \* where the initialisation is
  cycle, bytes,  \* MOUSE_STATE
  x, y, prev_buttons,
  line,          \* bytes the mouse has sent and nobody has read
  report,        \* the report the mouse sends or sent last
  start,         \* history: cycle and position when its first byte was read
  handled,       \* history: how many of its bytes handle_byte was given
  told           \* history: the buttons that are down as the events tell

mvars == <<init, cycle, bytes, x, y, prev_buttons, line, report, start, handled, told>>

Report == [dx: Motions, dy: Motions, buttons: Buttons, overflow: BOOLEAN]

NoReport == [dx |-> 0, dy |-> 0, buttons |-> 0, overflow |-> FALSE]

\* The three bytes of a report, as the PS/2 mouse sends them: bit 3 of the
\* first is always set, 4 and 5 are the signs, 6 says that the motion overflowed.
Encoded(r) ==
  <<8 + r.buttons + (IF r.dx < 0 THEN 16 ELSE 0) + (IF r.dy < 0 THEN 32 ELSE 0)
      + (IF r.overflow THEN 64 ELSE 0),
    r.dx % 256, r.dy % 256>>

MouseInit ==
  /\ init = "defaults"
  /\ cycle = 0 /\ bytes = <<0, 0, 0>>
  /\ x = Width \div 2 /\ y = Height \div 2
  /\ prev_buttons = 0
  /\ line = <<>>
  /\ report = NoReport
  /\ start = [cycle |-> 0, x |-> x, y |-> y]
  /\ handled = 0
  /\ told = {}

\* Fault: only the left and the upper border stop the pointer.
Clamp_NoUpper(v, size) == IF v < 0 THEN 0 ELSE v

\* The pointer stops at the borders of the screen.
Clamp(v, size) == IF v < 0 THEN 0 ELSE IF v > size - 1 THEN size - 1 ELSE v

\* Fault: the sign bit is ignored.
signed_Unsigned(b, negative) == b

signed(b, negative) == IF negative THEN b - 256 ELSE b

(***************************************************************************)
(* handle_byte.  Button events are emitted for the buttons whose bit       *)
(* changed since the last packet.                                          *)
(***************************************************************************)
emit_button_event(buttons, prev, mask, down) ==
  IF IsSet(buttons, mask) /\ ~IsSet(prev, mask) THEN down \cup {mask}
  ELSE IF ~IsSet(buttons, mask) /\ IsSet(prev, mask) THEN down \ {mask}
  ELSE down

\* Fault: prev_buttons is not updated.
Packet_KeepsPrev(flags, b1, b2) ==
  IF IsSet(flags, 64) \/ IsSet(flags, 128)
  THEN UNCHANGED <<x, y, prev_buttons, told>>
  ELSE /\ x' = Clamp(x + signed(b1, IsSet(flags, 16)), Width)
       /\ y' = Clamp(y - signed(b2, IsSet(flags, 32)), Height)
       /\ told' = emit_button_event(flags % 8, prev_buttons, 2,
                    emit_button_event(flags % 8, prev_buttons, 1, told))
       /\ UNCHANGED prev_buttons

\* A complete packet; one with an overflow bit is dropped with its buttons.
Packet(flags, b1, b2) ==
  IF IsSet(flags, 64) \/ IsSet(flags, 128)
  THEN UNCHANGED <<x, y, prev_buttons, told>>
  ELSE /\ x' = Clamp(x + signed(b1, IsSet(flags, 16)), Width)
       /\ y' = Clamp(y - signed(b2, IsSet(flags, 32)), Height)
       /\ prev_buttons' = flags % 8
       /\ told' = emit_button_event(flags % 8, prev_buttons, 2,
                    emit_button_event(flags % 8, prev_buttons, 1, told))

\* Fault: any byte may be the first of a packet.
handle_byte_NoSync(byte) ==
  /\ bytes' = [bytes EXCEPT ![cycle + 1] = byte]
  /\ cycle' = (cycle + 1) % 3
  /\ IF cycle = 2 THEN Packet(bytes[1], bytes[2], byte)
     ELSE UNCHANGED <<x, y, prev_buttons, told>>

\* Fault: the cycle is not restarted after a packet that overflowed.
handle_byte_ReturnsEarly(byte) ==
  /\ bytes' = [bytes EXCEPT ![cycle + 1] = byte]
  /\ cycle' = IF cycle = 2 THEN (IF IsSet(bytes[1], 64) THEN 2 ELSE 0)
              ELSE IF cycle = 0 /\ ~IsSet(byte, 8) THEN 0 ELSE cycle + 1
  /\ IF cycle = 2 THEN Packet(bytes[1], bytes[2], byte)
     ELSE UNCHANGED <<x, y, prev_buttons, told>>

\* Only a byte with bit 3 set is taken as the first of a packet.
handle_byte(byte) ==
  IF cycle = 0 /\ ~IsSet(byte, 8)
  THEN UNCHANGED <<cycle, bytes, x, y, prev_buttons, told>>
  ELSE /\ bytes' = [bytes EXCEPT ![cycle + 1] = byte]
       /\ cycle' = (cycle + 1) % 3
       /\ IF cycle = 2 THEN Packet(bytes[1], bytes[2], byte)
          ELSE UNCHANGED <<x, y, prev_buttons, told>>

\* The mouse interrupt reads the byte and calls handle_byte.
MouseInterrupt ==
  /\ line # <<>>
  /\ line' = Tail(line)
  /\ handle_byte(Head(line))
  /\ handled' = handled + 1
  /\ start' = IF handled = 0 THEN [cycle |-> cycle, x |-> x, y |-> y] ELSE start
  /\ UNCHANGED <<init, report>>

(***************************************************************************)
(* command(DEFAULTS), command(ENABLE): write the command, wait for output  *)
(* for a bounded time, and read the data port whether it came or not.      *)
(***************************************************************************)
command ==
  /\ init \in {"defaults", "enable"}
  /\ init' = IF init = "defaults" THEN "defaults_ack" ELSE "enable_ack"
  /\ line' = Append(line, Ack)
  /\ handled' = 4     \* the bytes to come are of no report
  /\ UNCHANGED <<cycle, bytes, x, y, prev_buttons, report, start, told>>

AfterAck == IF init = "defaults_ack" THEN "enable" ELSE "done"

ReadByte ==
  /\ init \in {"defaults_ack", "enable_ack"}
  /\ line # <<>>
  /\ line' = Tail(line)
  /\ init' = AfterAck
  /\ handled' = 4
  /\ UNCHANGED <<cycle, bytes, x, y, prev_buttons, report, start, told>>

TimeOut ==
  /\ init \in {"defaults_ack", "enable_ack"}
  /\ init' = AfterAck
  /\ UNCHANGED <<cycle, bytes, x, y, prev_buttons, line, report, start, handled, told>>

(***************************************************************************)
(* The mouse, once enabled, sends one report after the other.              *)
(***************************************************************************)
SendReport(r) ==
  /\ init \in {"enable_ack", "done"}
  /\ line = <<>>
  /\ line' = Encoded(r)
  /\ report' = r
  /\ handled' = 0
  /\ UNCHANGED <<init, cycle, bytes, x, y, prev_buttons, start, told>>

MouseNext ==
  \/ MouseInterrupt
  \/ command
  \/ ReadByte
  \/ TimeOut
  \/ \E r \in Report : SendReport(r)

MouseSpec == MouseInit /\ [][MouseNext]_mvars

----------------------------------------------------------------------------

\* Types; the position never leaves the screen, whatever bytes are read as a
\* packet, so that the framebuffer is never written outside its bounds.
MouseTypeOK ==
  /\ init \in {"defaults", "defaults_ack", "enable", "enable_ack", "done"}
  /\ cycle \in 0..2
  /\ bytes \in [1..3 -> Byte]
  /\ x \in 0..(Width - 1) /\ y \in 0..(Height - 1)
  /\ prev_buttons \in 0..7
  /\ line \in Seq(Byte)
  /\ handled \in Nat

\* All three bytes of the last report were given to handle_byte.
Decoded == line = <<>> /\ handled = 3

\* A report that starts in step is decoded as the mouse meant it: the position
\* moves by the distances of the report, up being a smaller y, stays on the
\* screen, and the events emitted tell exactly the buttons that are down. One
\* that overflowed changes nothing. Either way the next one is in step too.
InStepIsExact ==
  Decoded /\ start.cycle = 0 =>
    /\ cycle = 0
    /\ IF report.overflow
       THEN x = start.x /\ y = start.y
       ELSE /\ x = Clamp(start.x + report.dx, Width)
            /\ y = Clamp(start.y - report.dy, Height)
            /\ told = {mask \in {1, 2} : IsSet(report.buttons, mask)}

\* However far out of step the decoder is, for instance because it took the
\* acknowledgements of init for packet bytes, one report whose motion bytes
\* both have bit 3 clear puts it back in step.
QuietReportResynchronises ==
  Decoded /\ ~IsSet(Encoded(report)[2], 8) /\ ~IsSet(Encoded(report)[3], 8) => cycle = 0

\* The button events alternate, also while out of step: what they have told so
\* far is what prev_buttons says, so no button is released that was not
\* pressed or pressed twice.
EventsMatchButtons == told = {mask \in {1, 2} : IsSet(prev_buttons, mask)}

=============================================================================
