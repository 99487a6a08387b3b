----------------------------- MODULE LossyFifo -----------------------------
(***************************************************************************)
(* What a path through the bridge promises: items come out as they went    *)
(* in, one by one and in order, none twice.  Any of them may be lost.      *)
(***************************************************************************)
EXTENDS Integers, Sequences

CONSTANT Items

VARIABLES
  sent,   \* the items that went in
  got     \* which of them came out last, 0 if none did

Init == sent = <<>> /\ got = 0

Send == (\E x \in Items : sent' = Append(sent, x)) /\ UNCHANGED got

\* Those that are passed over are lost.
Deliver == got' \in (got + 1)..Len(sent) /\ UNCHANGED sent

Next == Send \/ Deliver

Spec == Init /\ [][Next]_<<sent, got>>
=============================================================================
