----------------------------- MODULE MCUsbHost -----------------------------
(***************************************************************************)
(* UsbHost on a small instance.                                            *)
(***************************************************************************)
EXTENDS UsbHost

\* Configurations of up to four descriptors, and one of three interfaces.  An
\* endpoint's address is its place.
Interface(number, class, alt) ==
  [kind |-> "interface", number |-> number, class |-> class, alt |-> alt]
Endpoint(type, dir, at) == [kind |-> "endpoint", type |-> type, dir |-> dir, addr |-> at]
HidDescriptor(lens) == [kind |-> "hid", lens |-> lens]

Descriptors(place) ==
  {Interface(place, "hid", 0), Interface(place, "hid", 1), Interface(place, "other", 0),
   Endpoint("interrupt", "in", place), Endpoint("interrupt", "out", place),
   Endpoint("bulk", "in", place), HidDescriptor(<<3>>), HidDescriptor(<<>>)}

OneInterface ==
  <<Interface(0, "hid", 0), HidDescriptor(<<9, 3>>), Endpoint("interrupt", "in", 3)>>

ThreeInterfaces ==
  <<Interface(0, "hid", 0), HidDescriptor(<<5>>), HidDescriptor(<<0>>), Endpoint("interrupt", "in", 4),
    Interface(1, "hid", 0), Endpoint("interrupt", "out", 6), Endpoint("interrupt", "in", 7),
    Interface(2, "hid", 0), Endpoint("interrupt", "in", 9)>>

SomeConfigs ==
  {OneInterface, ThreeInterfaces} \cup
  {<<Interface(0, "hid", 0), a, b, c>> :
     a \in Descriptors(2), b \in Descriptors(3), c \in Descriptors(4)}

\* Report descriptors that start with report 1 of three fields of 4 bits, and go
\* on with up to four items.
Global(field, value) == [item |-> "global", field |-> field, value |-> value]
MainItem(k) == [item |-> "main", kind |-> k]
Plain(item) == [item |-> item]

Opening == <<Global("size", 4), Global("count", 3), Global("id", 1)>>
Items ==
  {Global("id", 2), Global("page", "auth"), Global("count", 2), MainItem("feature"),
   MainItem("input"), Plain("push"), Plain("pop")}

\* A report of the authentication, with globals saved n + 1 deep.
DeepNest(n) ==
  <<Global("id", 1)>> \o [k \in 1..n |-> Plain("push")] \o
  <<Global("page", "auth"), Plain("push"), Plain("pop"), MainItem("feature")>>

SomeDescs ==
  {DeepNest(0), DeepNest(1), DeepNest(4)} \cup
  {Opening \o rest : rest \in BoundedSeq(Items, 4)} \cup
  {<<MainItem("feature"), Plain("other")>> \o Opening \o <<Global("page", "auth"), Plain("push"),
     Global("page", "other"), Global("id", 2), MainItem("feature"), Plain("pop"),
     MainItem("feature")>>}
=============================================================================
