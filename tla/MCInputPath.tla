---------------------------- MODULE MCInputPath ----------------------------
(***************************************************************************)
(* InputPath on a small instance.                                          *)
(***************************************************************************)
EXTENDS InputPath

\* The bits whose number has bit k set: with k = 0, 1, 2 these three patterns
\* tell any two of the eight bits of a byte apart.
Pattern(k) == {b \in Bits : (b \div 2^k) % 2 = 1}

WheelReport(byte, axes) ==
  [b0 |-> byte, b1 |-> byte, b3 |-> byte, wheel |-> axes[1],
   accelerator |-> axes[2], brake |-> axes[3], clutch |-> axes[4]]

SomeReports ==
  {WheelReport({}, <<2^15, 0, 0, 0>>), WheelReport(Bits, <<0, 2^16 - 1, 1, 258>>),
   WheelReport(Pattern(0), <<2^16 - 1, 4660, 2^15, 1>>),
   WheelReport(Pattern(1), <<258, 1, 2^16 - 1, 4660>>),
   WheelReport(Pattern(2), <<4660, 2^15 - 1, 255, 2^16 - 1>>),
   WheelReport(Bits \ Pattern(0), <<1, 255, 256, 2^15>>)}
=============================================================================
