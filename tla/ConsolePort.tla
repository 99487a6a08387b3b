---------------------------- MODULE ConsolePort ----------------------------
(***************************************************************************)
(* What the bridge promises the console about the USB port it is plugged   *)
(* into: a device that comes and goes, but that stays away for at least    *)
(* MinDetach whenever it leaves, "so the console surely sees the unplug"   *)
(* (src/src/device.rs, MIN_DETACH).  WheelLink implements this.            *)
(***************************************************************************)
EXTENDS Naturals

CONSTANT MinDetach   \* shortest absence, in ticks

VARIABLES
  plugged,   \* the D+ pull-up is on: the console sees a device
  off        \* ticks the device has been away, counted up to MinDetach

vars == <<plugged, off>>

Init == plugged = FALSE /\ off = MinDetach

Plug == ~plugged /\ off = MinDetach /\ plugged' = TRUE /\ off' = 0

Unplug == plugged /\ plugged' = FALSE /\ off' = 0

Tick == ~plugged /\ off < MinDetach /\ off' = off + 1 /\ UNCHANGED plugged

Next == Plug \/ Unplug \/ Tick

Spec == Init /\ [][Next]_vars
=============================================================================
