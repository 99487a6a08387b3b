------------------------------ MODULE InputMap ------------------------------
(***************************************************************************)
(* The wheel's input report (c272) and the one the console is given for it *)
(* (c269): src/src/input_map.rs.                                           *)
(*                                                                         *)
(* A byte of buttons is the set of its bits that are 1, an axis is its     *)
(* 16-bit number.  Of the wheel's 30 bytes only those that are read are    *)
(* modelled; of the 64 bytes that are sent, those that are not always 0.   *)
(***************************************************************************)
EXTENDS Integers

Bits == 0..7
Byte == SUBSET Bits
U16_MAX == 2^16 - 1
Axis == 0..U16_MAX

\* b0 is byte 0 of the report, and so on; the axes are bytes 4 to 11.
C272 == [b0 : Byte, b1 : Byte, b3 : Byte,
         wheel : Axis, accelerator : Axis, brake : Axis, clutch : Axis]

\* The axes are bytes 43 to 50, spare is bytes 52 and 53.
C269 == [id : Byte, sticks : [1..4 -> Byte], b5 : Byte, b6 : Byte, b7 : Byte,
         wheel : Axis, accelerator : Axis, brake : Axis, clutch : Axis,
         spare : Axis, b54 : Byte]

\* Faulty variant: the left column of the table of docs/input-mapping.md for
\* both sides, so that the paddles are not swapped.
SHOULDERUnswapped ==
  {<<0, 0>>, <<1, 1>>, <<2, 3>>, <<3, 2>>, <<4, 4>>, <<5, 5>>, <<6, 7>>, <<7, 6>>}

\* Pairs of a bit of the wheel's byte and the bit of the console's.
FACE == {<<4, 5>>, <<5, 4>>, <<6, 6>>, <<7, 7>>}
SHOULDER ==
  {<<0, 1>>, <<1, 0>>, <<2, 3>>, <<3, 2>>, <<4, 4>>, <<5, 5>>, <<6, 7>>, <<7, 6>>}
ROTARY == {<<1, 2>>, <<2, 1>>, <<3, 0>>, <<4, 4>>, <<5, 3>>, <<6, 5>>}

XBOX_BUTTON == 7
PS_BUTTON == 0

REPORT_ID == {0}
HAT_NEUTRAL == {3}
STICK_CENTRE == {7}
Low == 0..3

neutral ==
  [id |-> REPORT_ID, sticks |-> [i \in 1..4 |-> STICK_CENTRE],
   b5 |-> HAT_NEUTRAL, b6 |-> {}, b7 |-> {},
   wheel |-> 2^15, accelerator |-> U16_MAX, brake |-> U16_MAX, clutch |-> U16_MAX,
   spare |-> U16_MAX, b54 |-> {}]

remap(byte, map) == {pair[2] : pair \in {p \in map : p[1] \in byte}}

translate(src) ==
  [neutral EXCEPT
     !.b5 = (src.b0 \cap Low) \cup remap(src.b0, FACE),
     !.b6 = remap(src.b1, SHOULDER),
     !.b7 = {PS_BUTTON : b \in src.b3 \cap {XBOX_BUTTON}},
     !.b54 = remap(src.b3, ROTARY),
     !.wheel = src.wheel,
     !.accelerator = U16_MAX - src.accelerator,
     !.brake = U16_MAX - src.brake,
     !.clutch = U16_MAX - src.clutch]

-----------------------------------------------------------------------------
(* The reference: docs/input-mapping.md, control by control.                *)

\* The tables "Buttons": where a control is in the wheel's report and where in
\* the console's.
Wheels == [A |-> <<"b0", 4>>, X |-> <<"b0", 5>>, B |-> <<"b0", 6>>, Y |-> <<"b0", 7>>,
           GEAR_UP |-> <<"b1", 0>>, GEAR_DOWN |-> <<"b1", 1>>,
           RT |-> <<"b1", 2>>, LT |-> <<"b1", 3>>,
           SHARE |-> <<"b1", 4>>, MENU |-> <<"b1", 5>>,
           RSB |-> <<"b1", 6>>, LSB |-> <<"b1", 7>>,
           PS |-> <<"b3", 7>>,
           RIGHT_CW |-> <<"b3", 1>>, RIGHT_CCW |-> <<"b3", 2>>, RIGHT_CLICK |-> <<"b3", 3>>,
           LEFT_CW |-> <<"b3", 4>>, LEFT_CCW |-> <<"b3", 5>>, LEFT_CLICK |-> <<"b3", 6>>]

Consoles == [A |-> <<"b5", 5>>, X |-> <<"b5", 4>>, B |-> <<"b5", 6>>, Y |-> <<"b5", 7>>,
             GEAR_UP |-> <<"b6", 1>>, GEAR_DOWN |-> <<"b6", 0>>,
             RT |-> <<"b6", 3>>, LT |-> <<"b6", 2>>,
             SHARE |-> <<"b6", 4>>, MENU |-> <<"b6", 5>>,
             RSB |-> <<"b6", 7>>, LSB |-> <<"b6", 6>>,
             PS |-> <<"b7", 0>>,
             RIGHT_CW |-> <<"b54", 2>>, RIGHT_CCW |-> <<"b54", 1>>, RIGHT_CLICK |-> <<"b54", 0>>,
             LEFT_CW |-> <<"b54", 4>>, LEFT_CCW |-> <<"b54", 3>>, LEFT_CLICK |-> <<"b54", 5>>]

Controls == DOMAIN Wheels
Pressed(report, place) == place[2] \in report[place[1]]

\* The hat is a number, the same in both.
Hat(byte) == byte \cap Low

\* What the console is shown is what the wheel reports: each control pressed
\* in the one is pressed in the other and nothing else is, the wheel is turned
\* the same, and the pedals count the other way.
Shows(report, src) ==
  /\ \A c \in Controls : Pressed(report, Consoles[c]) <=> Pressed(src, Wheels[c])
  /\ \A f \in {"b5", "b6", "b7", "b54"} : \A b \in report[f] :
       (\E c \in Controls : Consoles[c] = <<f, b>>) \/ (f = "b5" /\ b \in Low)
  /\ Hat(report.b5) = Hat(src.b0)
  /\ report.wheel = src.wheel
  /\ \A pedal \in {"accelerator", "brake", "clutch"} :
       report[pedal] + src[pedal] = U16_MAX
  /\ report.id = {0} /\ report.spare = U16_MAX /\ \A i \in 1..4 : report.sticks[i] = {7}
=============================================================================
