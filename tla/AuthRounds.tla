----------------------------- MODULE AuthRounds -----------------------------
(***************************************************************************)
(* What the bridge promises the console about its authentication rounds:   *)
(* a round that was asked for is signed at most once, is then "ready"      *)
(* until the console asks for the next one, and gives each page of that    *)
(* round's signature in turn (src/src/auth.rs, module comment: "until all  *)
(* signature pages are fetched from it the console is told signing").      *)
(* The promise is for the rounds that are kept: a round may be out of it   *)
(* from its start, or fall out of it, and nothing is then promised before  *)
(* the next one.  Auth implements this.                                    *)
(***************************************************************************)
EXTENDS Naturals, Sequences

CONSTANT Pages   \* pages of a signature

VARIABLES
  round,   \* the console's round, 0 before the first
  kept,    \* the promise is for this round
  ready,   \* the console is told that the signature is there
  got      \* the pages it was given in this round

vars == <<round, kept, ready, got>>

Init == round = 0 /\ kept = TRUE /\ ready = FALSE /\ got = <<>>

Ask == round' = round + 1 /\ kept' \in BOOLEAN /\ ready' = FALSE /\ got' = <<>>

Sign ==
  /\ kept /\ round > 0 /\ ~ready /\ got = <<>>
  /\ ready' = TRUE
  /\ UNCHANGED <<round, kept, got>>

Give ==
  /\ kept /\ ready /\ Len(got) < Pages
  /\ got' = Append(got, [round |-> round, page |-> Len(got)])
  /\ UNCHANGED <<round, kept, ready>>

\* The round falls out of the promise, which says nothing of it any more.
Break == kept' = FALSE /\ kept /\ UNCHANGED <<round, ready, got>>

Stray == ~kept /\ ~kept' /\ UNCHANGED round

Next == Ask \/ Sign \/ Give \/ Break \/ Stray

Spec == Init /\ [][Next]_vars
=============================================================================
