-------------------------- MODULE InputPath_proofs --------------------------
(***************************************************************************)
(* Theorems about InputMap and InputPath, for every value of the constants *)
(* and for every report of a wheel.                                        *)
(***************************************************************************)
EXTENDS InputPath, SequenceTheorems, TLAPS

-----------------------------------------------------------------------------
(* The translation *)

\* What translate says of each field.
LEMMA Fields ==
  ASSUME NEW src \in C272, NEW t, t = translate(src)
  PROVE  /\ t.b5 = (src.b0 \cap Low) \cup remap(src.b0, FACE)
         /\ t.b6 = remap(src.b1, SHOULDER)
         /\ t.b7 = {PS_BUTTON : b \in src.b3 \cap {XBOX_BUTTON}}
         /\ t.b54 = remap(src.b3, ROTARY)
         /\ t.wheel = src.wheel
         /\ t.accelerator = U16_MAX - src.accelerator
         /\ t.brake = U16_MAX - src.brake /\ t.clutch = U16_MAX - src.clutch
         /\ t.id = {0} /\ t.spare = U16_MAX /\ t.sticks = [i \in 1..4 |-> {7}]
  BY DEF translate, neutral, REPORT_ID, STICK_CENTRE

\* Bit `from' of a byte becomes bit b when b is `to'.
Wire(byte, b, from, to) == b = to /\ from \in byte

\* A table sets the bits its pairs set.
LEMMA Remapped ==
  ASSUME NEW byte, NEW map, NEW b
  PROVE  b \in remap(byte, map) <=> \E pair \in map : Wire(byte, b, pair[1], pair[2])
  BY Zenon DEF remap, Wire

LEMMA SetBy ==
  ASSUME NEW byte, NEW map, NEW b, NEW x, NEW y, <<x, y>> \in map, Wire(byte, b, x, y)
  PROVE  b \in remap(byte, map)
  <1>1. <<x, y>>[1] = x /\ <<x, y>>[2] = y
    OBVIOUS
  <1> QED
    BY <1>1, Remapped, Zenon

LEMMA Wired ==
  ASSUME NEW byte, NEW b, NEW x, NEW y, NEW pair, pair = <<x, y>>,
         Wire(byte, b, pair[1], pair[2])
  PROVE  Wire(byte, b, x, y)
  <1>1. pair[1] = x /\ pair[2] = y
    OBVIOUS
  <1> QED
    BY <1>1, Zenon

LEMMA Face ==
  ASSUME NEW byte, NEW b
  PROVE  b \in remap(byte, FACE) <=>
             \/ Wire(byte, b, 4, 5) \/ Wire(byte, b, 5, 4)
             \/ Wire(byte, b, 6, 6) \/ Wire(byte, b, 7, 7)
  <1>1. ASSUME NEW pair \in FACE
        PROVE  \/ pair = <<4, 5>> \/ pair = <<5, 4>> \/ pair = <<6, 6>> \/ pair = <<7, 7>>
    BY DEF FACE
  <1>2. /\ <<4, 5>> \in FACE /\ <<5, 4>> \in FACE /\ <<6, 6>> \in FACE
        /\ <<7, 7>> \in FACE
    BY DEF FACE
  <1>3. ASSUME b \in remap(byte, FACE)
        PROVE  \/ Wire(byte, b, 4, 5) \/ Wire(byte, b, 5, 4)
               \/ Wire(byte, b, 6, 6) \/ Wire(byte, b, 7, 7)
    <2>1. PICK pair \in FACE : Wire(byte, b, pair[1], pair[2])
      BY <1>3, Remapped, Zenon
    <2>2. ASSUME NEW x, NEW y, pair = <<x, y>>
          PROVE  Wire(byte, b, x, y)
      BY <2>1, <2>2, Wired, Zenon
    <2> QED BY <1>1, <2>2, Zenon
  <1>4. ASSUME \/ Wire(byte, b, 4, 5) \/ Wire(byte, b, 5, 4)
               \/ Wire(byte, b, 6, 6) \/ Wire(byte, b, 7, 7)
        PROVE  b \in remap(byte, FACE)
    BY <1>2, <1>4, SetBy, Zenon
  <1> QED
    BY <1>3, <1>4, Zenon

LEMMA Shoulder ==
  ASSUME NEW byte, NEW b
  PROVE  b \in remap(byte, SHOULDER) <=>
             \/ Wire(byte, b, 0, 1) \/ Wire(byte, b, 1, 0) \/ Wire(byte, b, 2, 3)
             \/ Wire(byte, b, 3, 2) \/ Wire(byte, b, 4, 4) \/ Wire(byte, b, 5, 5)
             \/ Wire(byte, b, 6, 7) \/ Wire(byte, b, 7, 6)
  <1>1. ASSUME NEW pair \in SHOULDER
        PROVE  \/ pair = <<0, 1>> \/ pair = <<1, 0>> \/ pair = <<2, 3>> \/ pair = <<3, 2>>
            \/ pair = <<4, 4>> \/ pair = <<5, 5>> \/ pair = <<6, 7>> \/ pair = <<7, 6>>
    BY DEF SHOULDER
  <1>2. /\ <<0, 1>> \in SHOULDER /\ <<1, 0>> \in SHOULDER /\ <<2, 3>> \in SHOULDER
        /\ <<3, 2>> \in SHOULDER /\ <<4, 4>> \in SHOULDER /\ <<5, 5>> \in SHOULDER
        /\ <<6, 7>> \in SHOULDER /\ <<7, 6>> \in SHOULDER
    BY DEF SHOULDER
  <1>3. ASSUME b \in remap(byte, SHOULDER)
        PROVE  \/ Wire(byte, b, 0, 1) \/ Wire(byte, b, 1, 0) \/ Wire(byte, b, 2, 3)
               \/ Wire(byte, b, 3, 2) \/ Wire(byte, b, 4, 4) \/ Wire(byte, b, 5, 5)
               \/ Wire(byte, b, 6, 7) \/ Wire(byte, b, 7, 6)
    <2>1. PICK pair \in SHOULDER : Wire(byte, b, pair[1], pair[2])
      BY <1>3, Remapped, Zenon
    <2>2. ASSUME NEW x, NEW y, pair = <<x, y>>
          PROVE  Wire(byte, b, x, y)
      BY <2>1, <2>2, Wired, Zenon
    <2> QED BY <1>1, <2>2, Zenon
  <1>4. ASSUME \/ Wire(byte, b, 0, 1) \/ Wire(byte, b, 1, 0) \/ Wire(byte, b, 2, 3)
               \/ Wire(byte, b, 3, 2) \/ Wire(byte, b, 4, 4) \/ Wire(byte, b, 5, 5)
               \/ Wire(byte, b, 6, 7) \/ Wire(byte, b, 7, 6)
        PROVE  b \in remap(byte, SHOULDER)
    BY <1>2, <1>4, SetBy, Zenon
  <1> QED
    BY <1>3, <1>4, Zenon

LEMMA Rotary ==
  ASSUME NEW byte, NEW b
  PROVE  b \in remap(byte, ROTARY) <=>
             \/ Wire(byte, b, 1, 2) \/ Wire(byte, b, 2, 1) \/ Wire(byte, b, 3, 0)
             \/ Wire(byte, b, 4, 4) \/ Wire(byte, b, 5, 3) \/ Wire(byte, b, 6, 5)
  <1>1. ASSUME NEW pair \in ROTARY
        PROVE  \/ pair = <<1, 2>> \/ pair = <<2, 1>> \/ pair = <<3, 0>> \/ pair = <<4, 4>>
            \/ pair = <<5, 3>> \/ pair = <<6, 5>>
    BY DEF ROTARY
  <1>2. /\ <<1, 2>> \in ROTARY /\ <<2, 1>> \in ROTARY /\ <<3, 0>> \in ROTARY
        /\ <<4, 4>> \in ROTARY /\ <<5, 3>> \in ROTARY /\ <<6, 5>> \in ROTARY
    BY DEF ROTARY
  <1>3. ASSUME b \in remap(byte, ROTARY)
        PROVE  \/ Wire(byte, b, 1, 2) \/ Wire(byte, b, 2, 1) \/ Wire(byte, b, 3, 0)
               \/ Wire(byte, b, 4, 4) \/ Wire(byte, b, 5, 3) \/ Wire(byte, b, 6, 5)
    <2>1. PICK pair \in ROTARY : Wire(byte, b, pair[1], pair[2])
      BY <1>3, Remapped, Zenon
    <2>2. ASSUME NEW x, NEW y, pair = <<x, y>>
          PROVE  Wire(byte, b, x, y)
      BY <2>1, <2>2, Wired, Zenon
    <2> QED BY <1>1, <2>2, Zenon
  <1>4. ASSUME \/ Wire(byte, b, 1, 2) \/ Wire(byte, b, 2, 1) \/ Wire(byte, b, 3, 0)
               \/ Wire(byte, b, 4, 4) \/ Wire(byte, b, 5, 3) \/ Wire(byte, b, 6, 5)
        PROVE  b \in remap(byte, ROTARY)
    BY <1>2, <1>4, SetBy, Zenon
  <1> QED
    BY <1>3, <1>4, Zenon

\* The PlayStation button.
LEMMA PsButton ==
  ASSUME NEW byte, NEW b
  PROVE  b \in {PS_BUTTON : x \in byte \cap {XBOX_BUTTON}} <=> b = 0 /\ 7 \in byte
  BY DEF PS_BUTTON, XBOX_BUTTON

\* Where the documentation has the controls.
LEMMA Places ==
  /\ Consoles["A"] = <<"b5", 5>> /\ Wheels["A"] = <<"b0", 4>>
  /\ Consoles["X"] = <<"b5", 4>> /\ Wheels["X"] = <<"b0", 5>>
  /\ Consoles["B"] = <<"b5", 6>> /\ Wheels["B"] = <<"b0", 6>>
  /\ Consoles["Y"] = <<"b5", 7>> /\ Wheels["Y"] = <<"b0", 7>>
  /\ Consoles["GEAR_UP"] = <<"b6", 1>> /\ Wheels["GEAR_UP"] = <<"b1", 0>>
  /\ Consoles["GEAR_DOWN"] = <<"b6", 0>> /\ Wheels["GEAR_DOWN"] = <<"b1", 1>>
  /\ Consoles["RT"] = <<"b6", 3>> /\ Wheels["RT"] = <<"b1", 2>>
  /\ Consoles["LT"] = <<"b6", 2>> /\ Wheels["LT"] = <<"b1", 3>>
  /\ Consoles["SHARE"] = <<"b6", 4>> /\ Wheels["SHARE"] = <<"b1", 4>>
  /\ Consoles["MENU"] = <<"b6", 5>> /\ Wheels["MENU"] = <<"b1", 5>>
  /\ Consoles["RSB"] = <<"b6", 7>> /\ Wheels["RSB"] = <<"b1", 6>>
  /\ Consoles["LSB"] = <<"b6", 6>> /\ Wheels["LSB"] = <<"b1", 7>>
  /\ Consoles["PS"] = <<"b7", 0>> /\ Wheels["PS"] = <<"b3", 7>>
  /\ Consoles["RIGHT_CW"] = <<"b54", 2>> /\ Wheels["RIGHT_CW"] = <<"b3", 1>>
  /\ Consoles["RIGHT_CCW"] = <<"b54", 1>> /\ Wheels["RIGHT_CCW"] = <<"b3", 2>>
  /\ Consoles["RIGHT_CLICK"] = <<"b54", 0>> /\ Wheels["RIGHT_CLICK"] = <<"b3", 3>>
  /\ Consoles["LEFT_CW"] = <<"b54", 4>> /\ Wheels["LEFT_CW"] = <<"b3", 4>>
  /\ Consoles["LEFT_CCW"] = <<"b54", 3>> /\ Wheels["LEFT_CCW"] = <<"b3", 5>>
  /\ Consoles["LEFT_CLICK"] = <<"b54", 5>> /\ Wheels["LEFT_CLICK"] = <<"b3", 6>>
  BY DEF Consoles, Wheels

LEMMA ControlNames ==
  Controls = {"A", "X", "B", "Y", "GEAR_UP", "GEAR_DOWN", "RT", "LT", "SHARE", "MENU",
              "RSB", "LSB", "PS", "RIGHT_CW", "RIGHT_CCW", "RIGHT_CLICK", "LEFT_CW",
              "LEFT_CCW", "LEFT_CLICK"}
  BY DEF Controls, Wheels

\* Each bit of the console's bytes, and the bit of the wheel's it is.
LEMMA Byte5 ==
  ASSUME NEW src \in C272, NEW t, t = translate(src)
  PROVE  /\ (5 \in t.b5 <=> 4 \in src.b0) /\ (4 \in t.b5 <=> 5 \in src.b0)
         /\ (6 \in t.b5 <=> 6 \in src.b0) /\ (7 \in t.b5 <=> 7 \in src.b0)
         /\ t.b5 \cap Low = src.b0 \cap Low
         /\ \A b \in t.b5 : b \in Low \/ b \in {4, 5, 6, 7}
  <1>1. t.b5 = (src.b0 \cap Low) \cup remap(src.b0, FACE)
    BY Fields
  <1>2. ASSUME NEW b
        PROVE  b \in t.b5 <=> \/ b \in src.b0 /\ b \in Low
                              \/ Wire(src.b0, b, 4, 5) \/ Wire(src.b0, b, 5, 4)
                              \/ Wire(src.b0, b, 6, 6) \/ Wire(src.b0, b, 7, 7)
    BY <1>1, Face, Zenon
  <1>3. \A b : b \in Low <=> b \in {0, 1, 2, 3}
    BY DEF Low
  <1> QED
    BY <1>2, <1>3 DEF Wire

LEMMA Byte6 ==
  ASSUME NEW src \in C272, NEW t, t = translate(src)
  PROVE  /\ (1 \in t.b6 <=> 0 \in src.b1) /\ (0 \in t.b6 <=> 1 \in src.b1)
         /\ (3 \in t.b6 <=> 2 \in src.b1) /\ (2 \in t.b6 <=> 3 \in src.b1)
         /\ (4 \in t.b6 <=> 4 \in src.b1) /\ (5 \in t.b6 <=> 5 \in src.b1)
         /\ (7 \in t.b6 <=> 6 \in src.b1) /\ (6 \in t.b6 <=> 7 \in src.b1)
         /\ t.b6 \subseteq Bits
  <1>1. t.b6 = remap(src.b1, SHOULDER)
    BY Fields
  <1>2. ASSUME NEW b
        PROVE  b \in t.b6 <=>
                 \/ Wire(src.b1, b, 0, 1) \/ Wire(src.b1, b, 1, 0) \/ Wire(src.b1, b, 2, 3)
                 \/ Wire(src.b1, b, 3, 2) \/ Wire(src.b1, b, 4, 4) \/ Wire(src.b1, b, 5, 5)
                 \/ Wire(src.b1, b, 6, 7) \/ Wire(src.b1, b, 7, 6)
    BY <1>1, Shoulder
  <1> QED
    BY <1>2 DEF Wire, Bits

LEMMA Byte7 ==
  ASSUME NEW src \in C272, NEW t, t = translate(src)
  PROVE  (0 \in t.b7 <=> 7 \in src.b3) /\ \A b \in t.b7 : b = 0
  <1>1. t.b7 = {PS_BUTTON : b \in src.b3 \cap {XBOX_BUTTON}}
    BY Fields
  <1>2. ASSUME NEW b
        PROVE  b \in t.b7 <=> b = 0 /\ 7 \in src.b3
    BY <1>1, PsButton, Zenon
  <1> QED
    BY <1>2, Zenon

LEMMA Byte54 ==
  ASSUME NEW src \in C272, NEW t, t = translate(src)
  PROVE  /\ (2 \in t.b54 <=> 1 \in src.b3) /\ (1 \in t.b54 <=> 2 \in src.b3)
         /\ (0 \in t.b54 <=> 3 \in src.b3) /\ (4 \in t.b54 <=> 4 \in src.b3)
         /\ (3 \in t.b54 <=> 5 \in src.b3) /\ (5 \in t.b54 <=> 6 \in src.b3)
         /\ t.b54 \subseteq 0..5
  <1>1. t.b54 = remap(src.b3, ROTARY)
    BY Fields
  <1>2. ASSUME NEW b
        PROVE  b \in t.b54 <=>
                 \/ Wire(src.b3, b, 1, 2) \/ Wire(src.b3, b, 2, 1) \/ Wire(src.b3, b, 3, 0)
                 \/ Wire(src.b3, b, 4, 4) \/ Wire(src.b3, b, 5, 3) \/ Wire(src.b3, b, 6, 5)
    BY <1>1, Rotary
  <1> QED
    BY <1>2 DEF Wire

\* Every control is pressed for the console when it is on the wheel,
LEMMA EveryControl ==
  ASSUME NEW src \in C272, NEW t, t = translate(src)
  PROVE  \A c \in Controls : Pressed(t, Consoles[c]) <=> Pressed(src, Wheels[c])
  <1> DEFINE Shown(c) == Pressed(t, Consoles[c]) <=> Pressed(src, Wheels[c])
  <1>1. Shown("A") /\ Shown("X") /\ Shown("B") /\ Shown("Y")
    <2>1. /\ (5 \in t.b5 <=> 4 \in src.b0) /\ (4 \in t.b5 <=> 5 \in src.b0)
          /\ (6 \in t.b5 <=> 6 \in src.b0) /\ (7 \in t.b5 <=> 7 \in src.b0)
      BY Byte5, Zenon
    <2>2. /\ Consoles["A"] = <<"b5", 5>> /\ Wheels["A"] = <<"b0", 4>>
          /\ Consoles["X"] = <<"b5", 4>> /\ Wheels["X"] = <<"b0", 5>>
          /\ Consoles["B"] = <<"b5", 6>> /\ Wheels["B"] = <<"b0", 6>>
          /\ Consoles["Y"] = <<"b5", 7>> /\ Wheels["Y"] = <<"b0", 7>>
      BY Places, Zenon
    <2> QED BY <2>1, <2>2 DEF Pressed
  <1>2. Shown("GEAR_UP") /\ Shown("GEAR_DOWN") /\ Shown("RT") /\ Shown("LT")
    <2>1. /\ (1 \in t.b6 <=> 0 \in src.b1) /\ (0 \in t.b6 <=> 1 \in src.b1)
          /\ (3 \in t.b6 <=> 2 \in src.b1) /\ (2 \in t.b6 <=> 3 \in src.b1)
      BY Byte6, Zenon
    <2>2. /\ Consoles["GEAR_UP"] = <<"b6", 1>> /\ Wheels["GEAR_UP"] = <<"b1", 0>>
          /\ Consoles["GEAR_DOWN"] = <<"b6", 0>> /\ Wheels["GEAR_DOWN"] = <<"b1", 1>>
          /\ Consoles["RT"] = <<"b6", 3>> /\ Wheels["RT"] = <<"b1", 2>>
          /\ Consoles["LT"] = <<"b6", 2>> /\ Wheels["LT"] = <<"b1", 3>>
      BY Places, Zenon
    <2> QED BY <2>1, <2>2 DEF Pressed
  <1>3. Shown("SHARE") /\ Shown("MENU") /\ Shown("RSB") /\ Shown("LSB")
    <2>1. /\ (4 \in t.b6 <=> 4 \in src.b1) /\ (5 \in t.b6 <=> 5 \in src.b1)
          /\ (7 \in t.b6 <=> 6 \in src.b1) /\ (6 \in t.b6 <=> 7 \in src.b1)
      BY Byte6, Zenon
    <2>2. /\ Consoles["SHARE"] = <<"b6", 4>> /\ Wheels["SHARE"] = <<"b1", 4>>
          /\ Consoles["MENU"] = <<"b6", 5>> /\ Wheels["MENU"] = <<"b1", 5>>
          /\ Consoles["RSB"] = <<"b6", 7>> /\ Wheels["RSB"] = <<"b1", 6>>
          /\ Consoles["LSB"] = <<"b6", 6>> /\ Wheels["LSB"] = <<"b1", 7>>
      BY Places, Zenon
    <2> QED BY <2>1, <2>2 DEF Pressed
  <1>4. Shown("PS")
    <2>1. /\ (0 \in t.b7 <=> 7 \in src.b3)
      BY Byte7, Zenon
    <2>2. /\ Consoles["PS"] = <<"b7", 0>> /\ Wheels["PS"] = <<"b3", 7>>
      BY Places, Zenon
    <2> QED BY <2>1, <2>2 DEF Pressed
  <1>5. Shown("RIGHT_CW") /\ Shown("RIGHT_CCW") /\ Shown("RIGHT_CLICK")
    <2>1. /\ (2 \in t.b54 <=> 1 \in src.b3) /\ (1 \in t.b54 <=> 2 \in src.b3)
          /\ (0 \in t.b54 <=> 3 \in src.b3)
      BY Byte54, Zenon
    <2>2. /\ Consoles["RIGHT_CW"] = <<"b54", 2>> /\ Wheels["RIGHT_CW"] = <<"b3", 1>>
          /\ Consoles["RIGHT_CCW"] = <<"b54", 1>> /\ Wheels["RIGHT_CCW"] = <<"b3", 2>>
          /\ Consoles["RIGHT_CLICK"] = <<"b54", 0>> /\ Wheels["RIGHT_CLICK"] = <<"b3", 3>>
      BY Places, Zenon
    <2> QED BY <2>1, <2>2 DEF Pressed
  <1>6. Shown("LEFT_CW") /\ Shown("LEFT_CCW") /\ Shown("LEFT_CLICK")
    <2>1. /\ (4 \in t.b54 <=> 4 \in src.b3) /\ (3 \in t.b54 <=> 5 \in src.b3)
          /\ (5 \in t.b54 <=> 6 \in src.b3)
      BY Byte54, Zenon
    <2>2. /\ Consoles["LEFT_CW"] = <<"b54", 4>> /\ Wheels["LEFT_CW"] = <<"b3", 4>>
          /\ Consoles["LEFT_CCW"] = <<"b54", 3>> /\ Wheels["LEFT_CCW"] = <<"b3", 5>>
          /\ Consoles["LEFT_CLICK"] = <<"b54", 5>> /\ Wheels["LEFT_CLICK"] = <<"b3", 6>>
      BY Places, Zenon
    <2> QED BY <2>1, <2>2 DEF Pressed
  <1> HIDE DEF Shown
  <1>c. \A c \in Controls : Shown(c)
    BY <1>1, <1>2, <1>3, <1>4, <1>5, <1>6, ControlNames
  <1> QED
    BY <1>c DEF Shown

\* and nothing else is.
LEMMA NothingElse ==
  ASSUME NEW src \in C272, NEW t, t = translate(src)
  PROVE  \A f \in {"b5", "b6", "b7", "b54"} : \A b \in t[f] :
           (\E c \in Controls : Consoles[c] = <<f, b>>) \/ (f = "b5" /\ b \in Low)
  <1> DEFINE Named(f, b) == \E c \in Controls : Consoles[c] = <<f, b>>
  <1>1. /\ "A" \in Controls /\ "X" \in Controls /\ "B" \in Controls /\ "Y" \in Controls
        /\ "GEAR_UP" \in Controls /\ "GEAR_DOWN" \in Controls /\ "RT" \in Controls
        /\ "LT" \in Controls /\ "SHARE" \in Controls /\ "MENU" \in Controls
        /\ "RSB" \in Controls /\ "LSB" \in Controls /\ "PS" \in Controls
        /\ "RIGHT_CW" \in Controls /\ "RIGHT_CCW" \in Controls /\ "RIGHT_CLICK" \in Controls
        /\ "LEFT_CW" \in Controls /\ "LEFT_CCW" \in Controls /\ "LEFT_CLICK" \in Controls
    BY ControlNames
  <1>2. /\ Named("b5", 4) /\ Named("b5", 5) /\ Named("b5", 6) /\ Named("b5", 7)
    BY <1>1, Places, Zenon
  <1>3. /\ Named("b6", 0) /\ Named("b6", 1) /\ Named("b6", 2) /\ Named("b6", 3)
        /\ Named("b6", 4) /\ Named("b6", 5) /\ Named("b6", 6) /\ Named("b6", 7)
    BY <1>1, Places, Zenon
  <1>4. /\ Named("b7", 0) /\ Named("b54", 0) /\ Named("b54", 1) /\ Named("b54", 2)
        /\ Named("b54", 3) /\ Named("b54", 4) /\ Named("b54", 5)
    BY <1>1, Places, Zenon
  <1> HIDE DEF Named
  <1>5. \A b \in t.b5 : Named("b5", b) \/ b \in Low
    BY <1>2, Byte5
  <1>6. \A b \in t.b6 : Named("b6", b)
    BY <1>3, Byte6 DEF Bits
  <1>7. \A b \in t.b7 : Named("b7", b)
    BY <1>4, Byte7
  <1>8. \A b \in t.b54 : Named("b54", b)
    BY <1>4, Byte54
  <1>9. \A f \in {"b5", "b6", "b7", "b54"} : \A b \in t[f] :
          Named(f, b) \/ (f = "b5" /\ b \in Low)
    BY <1>5, <1>6, <1>7, <1>8
  <1> QED
    BY <1>9, Zenon DEF Named

\* A pedal that is pressed counts down.
LEMMA Inverted == ASSUME NEW x \in Axis, NEW y, y = U16_MAX - x
                  PROVE  y + x = U16_MAX
  BY DEF Axis, U16_MAX

(***************************************************************************)
(* For every report a wheel can send, translate shows the console just     *)
(* what docs/input-mapping.md says.                                        *)
(***************************************************************************)
THEOREM Translation == \A src \in C272 : Shows(translate(src), src)
  <1> SUFFICES ASSUME NEW src \in C272
               PROVE  Shows(translate(src), src)
    OBVIOUS
  <1> DEFINE t == translate(src)
  <1>1. /\ \A c \in Controls : Pressed(t, Consoles[c]) <=> Pressed(src, Wheels[c])
        /\ \A f \in {"b5", "b6", "b7", "b54"} : \A b \in t[f] :
             (\E c \in Controls : Consoles[c] = <<f, b>>) \/ (f = "b5" /\ b \in Low)
    BY EveryControl, NothingElse, Zenon
  <1>2. Hat(t.b5) = Hat(src.b0)
    BY Byte5 DEF Hat
  <1>3. /\ t.wheel = src.wheel
        /\ t.accelerator = U16_MAX - src.accelerator
        /\ t.brake = U16_MAX - src.brake /\ t.clutch = U16_MAX - src.clutch
        /\ t.id = {0} /\ t.spare = U16_MAX /\ t.sticks = [i \in 1..4 |-> {7}]
    BY Fields
  <1>4. src.accelerator \in Axis /\ src.brake \in Axis /\ src.clutch \in Axis
    BY Zenon DEF C272
  <1> HIDE DEF t
  <1>5. /\ t.accelerator + src.accelerator = U16_MAX /\ t.brake + src.brake = U16_MAX
        /\ t.clutch + src.clutch = U16_MAX
    BY <1>3, <1>4, Inverted, Zenon
  <1>6. t.id = {0} /\ t.spare = U16_MAX /\ \A i \in 1..4 : t.sticks[i] = {7}
    BY <1>3
  <1>7. \A pedal \in {"accelerator", "brake", "clutch"} : t[pedal] + src[pedal] = U16_MAX
    BY <1>5
  <1>8. t.wheel = src.wheel
    BY <1>3, Zenon
  <1>9. Shows(t, src)
    BY <1>1, <1>2, <1>6, <1>7, <1>8, Zenon DEF Shows
  <1> QED
    BY <1>9 DEF t

-----------------------------------------------------------------------------
(* Types *)

\* A report keeps its number when another one is sent.
LEMMA StillOnItsWay ==
  ASSUME NEW S, NEW s \in Seq(S), NEW x \in S, NEW packet,
         \/ packet = Nothing
         \/ packet.n \in 1..Len(s) /\ packet = Report(packet.n, translate(s[packet.n].report))
  PROVE  \/ packet = Nothing
         \/ /\ packet.n \in 1..Len(Append(s, x))
            /\ packet = Report(packet.n, translate(Append(s, x)[packet.n].report))
  <1>1. Len(s) \in Nat /\ Len(Append(s, x)) = Len(s) + 1
        /\ \A i \in 1..Len(s) : Append(s, x)[i] = s[i]
    BY AppendProperties, LenProperties
  <1>2. ASSUME packet.n \in 1..Len(s)
        PROVE  packet.n \in 1..Len(Append(s, x)) /\ Append(s, x)[packet.n] = s[packet.n]
    BY <1>1, <1>2
  <1>3. CASE packet = Nothing
    BY <1>3, Zenon
  <1>4. CASE packet.n \in 1..Len(s) /\ packet = Report(packet.n, translate(s[packet.n].report))
    <2>1. packet = Report(packet.n, translate(Append(s, x)[packet.n].report))
      BY <1>2, <1>4, Zenon
    <2> QED BY <1>2, <1>4, <2>1, Zenon
  <1> QED
    BY <1>3, <1>4, Zenon

\* So does whatever is on its way when the wheel reports.
LEMMA ReportsAdded ==
  ASSUME TypeOK, NEW r \in Reports, WheelReports(r)
  PROVE  /\ sent' \in Seq([wheel : 1..wheel, report : Reports])
         /\ Len(sent') = Len(sent) + 1 /\ Len(sent) \in Nat
         /\ sent'[Len(sent')].report = r
         /\ \A packet : OnItsWay(packet) => OnItsWay(packet)'
  <1>1. /\ sent \in Seq([wheel : 1..wheel, report : Reports])
        /\ [wheel |-> wheel, report |-> r] \in [wheel : 1..wheel, report : Reports]
    BY DEF TypeOK, WheelReports
  <1>2. sent' = Append(sent, [wheel |-> wheel, report |-> r])
    BY DEF WheelReports
  <1>3. /\ sent' \in Seq([wheel : 1..wheel, report : Reports])
        /\ Len(sent') = Len(sent) + 1 /\ Len(sent) \in Nat
        /\ sent'[Len(sent')] = [wheel |-> wheel, report |-> r]
    BY <1>1, <1>2, AppendProperties, LenProperties
  <1>4. ASSUME NEW packet, OnItsWay(packet)
        PROVE  OnItsWay(packet)'
    BY <1>1, <1>2, <1>4, StillOnItsWay DEF OnItsWay
  <1> QED
    BY <1>3, <1>4

LEMMA TypeInit == ASSUME InputAssumption PROVE Init => TypeOK
  <1> SUFFICES ASSUME Init PROVE TypeOK
    OBVIOUS
  <1>1. Len(<<>>) = 0 /\ sent \in Seq([wheel : 1..wheel, report : Reports])
        /\ link \in Seq({"awake", "gone"})
    BY EmptySeq DEF Init
  <1> QED
    BY <1>1 DEF Init, TypeOK, OnItsWay, InputAssumption

LEMMA TypeStep == ASSUME InputAssumption PROVE TypeOK /\ [Next]_vars => TypeOK'
  <1> SUFFICES ASSUME TypeOK, [Next]_vars PROVE TypeOK'
    OBVIOUS
  <1> USE InputAssumption
  <1>1. CASE ProxyStart
    <2>1. wheel' \in 1..MaxWheels /\ wheel' = wheel + 1 /\ wheel \in Nat
      BY <1>1 DEF ProxyStart, TypeOK, InputAssumption
    <2>2. sent' \in Seq([wheel : 1..wheel', report : Reports])
      <3>1. [wheel : 1..wheel, report : Reports] \subseteq [wheel : 1..wheel', report : Reports]
        BY <2>1
      <3>2. sent \in Seq([wheel : 1..wheel, report : Reports]) /\ sent' = sent
        BY <1>1 DEF ProxyStart, TypeOK
      <3> QED BY <3>1, <3>2, SeqMonotonic, Zenon
    <2>3. OnItsWay(input)' /\ OnItsWay(read)' /\ (held' = NoPacket \/ OnItsWay(held[1])')
          /\ (buffer' = NoPacket \/ OnItsWay(buffer[1])')
      BY <1>1 DEF ProxyStart, TypeOK, deviceVars, consoleVars, OnItsWay
    <2> QED BY <1>1, <2>1, <2>2, <2>3 DEF ProxyStart, TypeOK, deviceVars, consoleVars
  <1>2. ASSUME NEW r \in Reports, WheelReports(r)
        PROVE  TypeOK'
    <2>1. /\ sent' \in Seq([wheel : 1..wheel, report : Reports])
          /\ Len(sent') = Len(sent) + 1 /\ Len(sent) \in Nat
          /\ sent'[Len(sent')].report = r
          /\ \A packet : OnItsWay(packet) => OnItsWay(packet)'
      BY <1>2, ReportsAdded
    <2>2. OnItsWay(input)'
      BY <1>2, <2>1 DEF WheelReports, OnItsWay, Report
    <2>3. OnItsWay(read)' /\ (held' = NoPacket \/ OnItsWay(held[1])')
          /\ (buffer' = NoPacket \/ OnItsWay(buffer[1])')
      BY <1>2, <2>1 DEF WheelReports, TypeOK, consoleVars
    <2>4. floor' \in 0..Len(sent') /\ marks' \in (0..Len(sent')) \X (0..Len(sent'))
      BY <1>2, <2>1 DEF WheelReports, TypeOK, consoleVars
    <2> QED BY <1>2, <2>1, <2>2, <2>3, <2>4 DEF WheelReports, TypeOK, consoleVars, InputAssumption
  <1>3. CASE InputStops
    BY <1>3 DEF InputStops, TypeOK, deviceVars, consoleVars, OnItsWay
  <1>4. CASE WheelAwake
    <2>1. link' \in Seq({"awake", "gone"})
      BY <1>4, AppendProperties DEF WheelAwake, TypeOK
    <2> QED BY <1>4, <2>1 DEF WheelAwake, TypeOK, deviceVars, consoleVars, OnItsWay
  <1>5. CASE ProxyDrop
    <2>1. link' \in Seq({"awake", "gone"})
      BY <1>5, AppendProperties DEF ProxyDrop, TypeOK
    <2> QED BY <1>5, <2>1 DEF ProxyDrop, TypeOK, deviceVars, consoleVars, OnItsWay
  <1>6. CASE FollowOn
    <2>1. link' \in Seq({"awake", "gone"})
      BY <1>6, HeadTailProperties DEF FollowOn, TypeOK
    <2>2. Len(sent) \in Nat
      BY LenProperties DEF TypeOK
    <2> QED BY <1>6, <2>1, <2>2 DEF FollowOn, TypeOK, wheelVars, deviceVars, OnItsWay
  <1>7. CASE FollowOff
    <2>1. link' \in Seq({"awake", "gone"})
      BY <1>7, HeadTailProperties DEF FollowOff, TypeOK
    <2> QED BY <1>7, <2>1 DEF FollowOff, TypeOK, wheelVars, deviceVars, OnItsWay
  <1>8. CASE SendEnabled
    BY <1>8 DEF SendEnabled, TypeOK, wheelVars, consoleVars, OnItsWay
  <1>9. CASE Written
    BY <1>9 DEF Written, TypeOK, wheelVars, consoleVars, OnItsWay
  <1>10. CASE Failed
    BY <1>10 DEF Failed, TypeOK, wheelVars, consoleVars, OnItsWay
  <1>11. CASE Reset
    BY <1>11 DEF Reset, TypeOK, wheelVars, OnItsWay
  <1>12. CASE Configure
    <2>1. Len(sent) \in Nat
      BY LenProperties DEF TypeOK
    <2> QED BY <1>12, <2>1 DEF Configure, TypeOK, wheelVars, deviceVars, OnItsWay
  <1>13. CASE Poll
    <2>1. Len(sent) \in Nat
      BY LenProperties DEF TypeOK
    <2> QED BY <1>13, <2>1 DEF Poll, TypeOK, wheelVars, OnItsWay
  <1>14. CASE GetReport
    <2>1. Len(sent) \in Nat
      BY LenProperties DEF TypeOK
    <2> QED BY <1>14, <2>1 DEF GetReport, TypeOK, wheelVars, deviceVars, OnItsWay
  <1>15. CASE UNCHANGED vars
    BY <1>15 DEF TypeOK, vars, wheelVars, deviceVars, consoleVars, OnItsWay
  <1> QED
    BY <1>1, <1>2, <1>3, <1>4, <1>5, <1>6, <1>7, <1>8, <1>9, <1>10, <1>11, <1>12, <1>13,
       <1>14, <1>15, Zenon DEF Next

(***************************************************************************)
(* Every variable keeps to its type, and every report on its way is the    *)
(* translation of the one it is numbered for.                              *)
(***************************************************************************)
THEOREM TypeCorrect == Spec => []TypeOK
  BY TypeInit, TypeStep, InputAssumption, PTL DEF Spec

(***************************************************************************)
(* Whatever the console reads shows the controls as a wheel reported them, *)
(* for all reports.                                                        *)
(***************************************************************************)
THEOREM AlwaysShows == Spec => []ConsoleReadsWheel
  <1>1. ASSUME InputAssumption, TypeOK PROVE ConsoleReadsWheel
    <2>1. CASE read = Nothing
      BY <2>1 DEF Nothing, Report, ConsoleReadsWheel
    <2>2. CASE read.n \in 1..Len(sent) /\ read = Report(read.n, translate(sent[read.n].report))
      <3>1. sent[read.n] \in [wheel : 1..wheel, report : Reports]
        BY <1>1, <2>2, ElementOfSeq, Zenon DEF TypeOK
      <3>2. sent[read.n].report \in C272
        BY <1>1, <3>1 DEF InputAssumption
      <3>3. read.report = translate(sent[read.n].report)
        <4>1. ASSUME NEW n, NEW r PROVE Report(n, r).report = r
          BY DEF Report
        <4> QED BY <2>2, <4>1, Zenon
      <3>4. read.n # 0
        <4>1. Len(sent) \in Nat
          BY <1>1, LenProperties DEF TypeOK
        <4> QED BY <2>2, <4>1
      <3> QED BY <3>2, <3>3, <3>4, Translation, Zenon DEF ConsoleReadsWheel
    <2> QED BY <1>1, <2>1, <2>2, Zenon DEF TypeOK, OnItsWay
  <1> QED
    BY <1>1, TypeCorrect, InputAssumption, PTL

-----------------------------------------------------------------------------
(* The age of what is read *)

\* INPUT is the latest report.  While the console polls, the report in the
\* endpoint is as new as the last poll but one, and the one that waits behind it
\* as new as the last poll; once the endpoint is empty, that one stands where the
\* other did.
Ages ==
  /\ read.n >= floor
  /\ input.n = Len(sent) /\ marks[2] <= marks[1]
  /\ bus = "configured" => enabled = "yes"
  /\ bus = "reset" => enabled = "no"
  /\ enabled = "no" => buffer = NoPacket
  /\ enabled = "yes" =>
       /\ buffer # NoPacket => /\ buffer[1].n >= marks[2]
                               /\ held # NoPacket => held[1].n >= marks[1]
       /\ buffer = NoPacket /\ held # NoPacket => held[1].n >= marks[2]

\* A report on its way has one of the numbers there are.
LEMMA Numbers ==
  ASSUME TypeOK, NEW packet, OnItsWay(packet)
  PROVE  packet.n \in 0..Len(sent) /\ Len(sent) \in Nat
  <1>1. Len(sent) \in Nat
    BY LenProperties DEF TypeOK
  <1> QED
    BY <1>1 DEF OnItsWay, Nothing, Report

LEMMA AgesInit == Init => Ages
  BY EmptySeq DEF Init, Ages, Nothing, Report

LEMMA AgesStep == ASSUME InputAssumption
                  PROVE  TypeOK /\ Ages /\ [Next]_vars => Ages'
  <1> SUFFICES ASSUME TypeOK, Ages, [Next]_vars PROVE Ages'
    OBVIOUS
  <1>1. /\ Len(sent) \in Nat /\ input.n \in 0..Len(sent) /\ read.n \in 0..Len(sent)
        /\ held # NoPacket => held[1].n \in 0..Len(sent)
        /\ buffer # NoPacket => buffer[1].n \in 0..Len(sent)
    BY Numbers DEF TypeOK
  <1>2. floor \in 0..Len(sent) /\ marks \in (0..Len(sent)) \X (0..Len(sent))
    BY DEF TypeOK
  <1>3. ASSUME NEW r \in Reports, WheelReports(r)
        PROVE  Ages'
    <2>1. Len(sent') = Len(sent) + 1
      BY <1>3, ReportsAdded
    <2>2. input'.n = Len(sent')
      BY <1>3, <2>1 DEF WheelReports, Report
    <2> QED BY <1>3, <2>2 DEF WheelReports, Ages, consoleVars
  <1>4. CASE SendEnabled
    BY <1>1, <1>2, <1>4 DEF SendEnabled, Ages, NoPacket, wheelVars, consoleVars
  <1>5. CASE Written
    BY <1>1, <1>2, <1>5 DEF Written, Ages, NoPacket, wheelVars, consoleVars
  <1>6. CASE Failed
    BY <1>1, <1>2, <1>6 DEF Failed, Ages, NoPacket, wheelVars, consoleVars
  <1>7. CASE Reset
    BY <1>1, <1>2, <1>7 DEF Reset, Ages, wheelVars
  <1>8. CASE Configure
    BY <1>1, <1>2, <1>8 DEF Configure, Ages, wheelVars, deviceVars
  <1>9. CASE Poll
    BY <1>1, <1>2, <1>9 DEF Poll, Ages, wheelVars
  <1>10. CASE GetReport
    BY <1>1, <1>2, <1>10 DEF GetReport, Ages, wheelVars, deviceVars
  <1>11. CASE FollowOn
    BY <1>1, <1>2, <1>11 DEF FollowOn, Ages, Nothing, Report, wheelVars, deviceVars
  <1>12. CASE FollowOff
    BY <1>1, <1>2, <1>12 DEF FollowOff, Ages, wheelVars, deviceVars
  <1>13. CASE ProxyStart \/ InputStops \/ WheelAwake \/ ProxyDrop \/ UNCHANGED vars
    BY <1>13 DEF ProxyStart, InputStops, WheelAwake, ProxyDrop, Ages, vars, wheelVars,
       deviceVars, consoleVars
  <1> QED
    BY <1>3, <1>4, <1>5, <1>6, <1>7, <1>8, <1>9, <1>10, <1>11, <1>12, <1>13, Zenon DEF Next

(***************************************************************************)
(* What a poll returns is no older than the last poll but one, and what    *)
(* GET_REPORT returns is the latest, for any number of reports.            *)
(***************************************************************************)
THEOREM AlwaysUpToDate == Spec => []UpToDate
  <1>1. Ages => UpToDate
    BY DEF Ages, UpToDate
  <1> QED
    BY <1>1, AgesInit, AgesStep, TypeCorrect, InputAssumption, PTL DEF Spec
=============================================================================
