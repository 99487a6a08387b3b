---------------------------- MODULE Auth_proofs ----------------------------
(***************************************************************************)
(* Theorems about Auth, for every value of its constants.                  *)
(***************************************************************************)
EXTENDS Auth, SequenceTheorems, TLAPS

-----------------------------------------------------------------------------
(* Types *)

\* What the types do not say of the sequences and of the counters.
Shapes ==
  /\ con = "sending" => page \in NoncePages
  /\ con # "idle" => round \in Rounds
  /\ pc = "page" => cur.round \in Rounds
  /\ pc = "signPages" => i \in NoncePages
  /\ pc = "fetch" => Len(fetched) = i /\ i < SIGNATURE_PAGES
  /\ pc = "publish" => Len(fetched) = SIGNATURE_PAGES
  /\ ready => Len(signature) = SIGNATURE_PAGES

Typed == TypeOK /\ Shapes

LEMMA NonceFields ==
  ASSUME NEW r, NEW n
  PROVE  Nonce(r, n).type = "nonce" /\ Nonce(r, n).round = r /\ Nonce(r, n).page = n
  BY DEF Nonce

LEMMA CommandKinds ==
  ASSUME NEW cmd \in Commands
  PROVE  \/ cmd = Reset /\ cmd.type # "nonce"
         \/ /\ cmd.type = "nonce" /\ cmd.round \in Rounds /\ cmd.page \in NoncePages
            /\ cmd = Nonce(cmd.round, cmd.page)
  <1>1. CASE cmd = Reset
    BY <1>1 DEF Reset
  <1>2. CASE \E r \in Rounds, n \in NoncePages : cmd = Nonce(r, n)
    BY <1>2, NonceFields
  <1> QED
    BY <1>1, <1>2 DEF Commands

\* What is left of the queue when a command is taken, and when one is sent.
LEMMA Taken ==
  ASSUME NEW S, NEW queue \in Seq(S), queue # <<>>
  PROVE  /\ Head(queue) \in S /\ Tail(queue) \in Seq(S)
         /\ Len(queue) \in Nat \ {0} /\ Len(Tail(queue)) = Len(queue) - 1
         /\ Head(queue) = queue[1]
         /\ \A k \in 1..Len(Tail(queue)) : Tail(queue)[k] = queue[k + 1]
  BY HeadTailProperties, LenProperties, EmptySeq

LEMMA Fits ==
  ASSUME AuthAssumption, TypeOK, NEW cmd \in Commands, Send(cmd)
  PROVE  cmds' \in Seq(Commands) /\ Len(cmds') <= CmdCap
  <1>1. cmds \in Seq(Commands) /\ Len(cmds) \in Nat /\ Len(cmds) <= CmdCap /\ CmdCap \in Nat
    BY LenProperties DEF TypeOK, StateTypes, AuthAssumption
  <1>2. Append(cmds, cmd) \in Seq(Commands) /\ Len(Append(cmds, cmd)) = Len(cmds) + 1
    BY <1>1, AppendProperties
  <1>3. CASE Len(cmds) < CmdCap
    BY <1>1, <1>2, <1>3 DEF Send
  <1>4. CASE ~(Len(cmds) < CmdCap)
    BY <1>1, <1>4 DEF Send
  <1> QED
    BY <1>3, <1>4

\* What a transfer leaves the signer with.
LEMMA LoadType ==
  ASSUME AuthAssumption, SignerTypes, NEW r \in 0..MaxRounds, NEW n \in NoncePages, Load(r, n)
  PROVE  SignerTypes'
  <1>1. 0 \in 0..MaxRounds
    BY DEF AuthAssumption
  <1>2. held' \in [NoncePages -> 0..MaxRounds]
    BY <1>1 DEF Load, SignerTypes
  <1>3. status' \in {"ready", "loaded", "signing"}
    BY Zenon DEF Load, SignerTypes
  <1> QED
    BY <1>2, <1>3, Zenon DEF Load, SignerTypes

LEMMA SetNonceType ==
  ASSUME AuthAssumption, SignerTypes, NEW r \in 0..MaxRounds, NEW n \in NoncePages,
         NEW ok \in BOOLEAN, SetNonce(r, n, ok)
  PROVE  SignerTypes'
  <1>1. CASE Load(r, n)
    BY <1>1, LoadType
  <1>2. CASE UNCHANGED signerVars
    BY <1>2 DEF signerVars, SignerTypes
  <1> QED
    BY <1>1, <1>2 DEF SetNonce

LEMMA ResetType ==
  ASSUME AuthAssumption, SignerTypes, ResetSigner
  PROVE  SignerTypes'
  <1>1. 0 \in 0..MaxRounds /\ 0 \in 0..SIGNATURE_PAGES
    BY DEF AuthAssumption
  <1> QED
    BY <1>1 DEF ResetSigner, signerVars, SignerTypes

\* What a GET F1 may come to: one more page, or a page is lost.
LEMMA FetchCases ==
  ASSUME AuthAssumption, Typed, FetchPage
  PROVE  /\ pc = "fetch"
         /\ UNCHANGED <<cur, seen, unsent, consoleVars, stateVars, cmds, nonceVars,
                        held, status, sig, runs, historyVars>>
         /\ nextF1' \in 0..SIGNATURE_PAGES
         /\ \/ /\ fetched' = Append(fetched, [round |-> sig, page |-> i])
               /\ sig # 0 /\ i' = i + 1 /\ UNCHANGED attempt
               /\ pc' = IF i + 1 = SIGNATURE_PAGES THEN "publish" ELSE "fetch"
            \/ i' = 0 /\ fetched' = <<>> /\ SignAgain
  <1>1. PICK taken \in 0..2, replied \in BOOLEAN :
          /\ nextF1' = IF nextF1 + taken < SIGNATURE_PAGES THEN nextF1 + taken
                       ELSE SIGNATURE_PAGES
          /\ \/ /\ nextF1 + taken - 1 = i /\ sig # 0
                /\ fetched' = Append(fetched, [round |-> sig, page |-> nextF1 + taken - 1])
                /\ i' = i + 1 /\ UNCHANGED attempt
                /\ pc' = IF i + 1 = SIGNATURE_PAGES THEN "publish" ELSE "fetch"
             \/ i' = 0 /\ fetched' = <<>> /\ SignAgain
    BY Zenon DEF FetchPage
  <1>2. nextF1' \in 0..SIGNATURE_PAGES
    BY <1>1 DEF Typed, TypeOK, SignerTypes, AuthAssumption
  <1> QED
    BY <1>1, <1>2, Zenon DEF FetchPage

LEMMA TypeInit == ASSUME AuthAssumption PROVE Init => Typed
  <1> SUFFICES ASSUME Init PROVE Typed
    OBVIOUS
  <1>1. \A S : <<>> \in Seq(S)
    BY EmptySeq
  <1>2. Len(<<>>) = 0
    BY EmptySeq
  <1>3. /\ 0 \in 0..MaxRounds /\ 0 \in 0..SIGNATURE_PAGES /\ 0 \in 0..(LAST_NONCE_PAGE + 1)
        /\ 0 <= CmdCap /\ 0 \in NoncePages /\ 0 \in 0..SIGN_ATTEMPTS
    BY DEF AuthAssumption, NoncePages
  <1>4. ConsoleTypes
    BY <1>1, <1>3 DEF Init, ConsoleTypes
  <1>5. StateTypes
    BY <1>1, <1>2, <1>3 DEF Init, StateTypes
  <1>6. TaskTypes
    BY <1>1, <1>3 DEF Init, TaskTypes, NoPage
  <1>7. SignerTypes /\ HistoryTypes
    BY DEF Init, SignerTypes, HistoryTypes, AuthAssumption, RunCap
  <1>8. Shapes
    BY DEF Init, Shapes
  <1> QED
    BY <1>4, <1>5, <1>6, <1>7, <1>8 DEF Typed, TypeOK

LEMMA ConsoleTypesStep == ASSUME AuthAssumption
                          PROVE  Typed /\ [Next]_vars => ConsoleTypes'
  <1> SUFFICES ASSUME Typed, [Next]_vars PROVE ConsoleTypes'
    OBVIOUS
  <1>1. ConsoleTypes /\ StateTypes /\ Shapes /\ MaxRounds \in Nat /\ LAST_NONCE_PAGE \in Nat
    BY DEF Typed, TypeOK, AuthAssumption
  <1>2. CASE GetReset
    <2>1. <<>> \in Seq(Page)
      BY EmptySeq
    <2> QED BY <1>1, <1>2, <2>1 DEF GetReset, ConsoleTypes
  <1>3. CASE SetReport
    BY <1>1, <1>3 DEF SetReport, ConsoleTypes, Shapes, NoncePages
  <1>4. CASE GetState
    BY <1>1, <1>4 DEF GetState, ConsoleTypes
  <1>5. CASE GetSignature
    <2>1. CASE ready /\ nextPage < SIGNATURE_PAGES
      <3>1. nextPage + 1 \in 1..Len(signature)
        BY <1>1, <2>1 DEF StateTypes, Shapes, AuthAssumption
      <3>2. signature[nextPage + 1] \in Page
        BY <1>1, <3>1, ElementOfSeq DEF StateTypes
      <3>3. Append(got, signature[nextPage + 1]) \in Seq(Page)
        BY <1>1, <3>2, AppendProperties DEF ConsoleTypes
      <3> QED BY <1>1, <1>5, <2>1, <3>3 DEF GetSignature, ConsoleTypes
    <2>2. CASE ~(ready /\ nextPage < SIGNATURE_PAGES)
      BY <1>1, <1>5, <2>2 DEF GetSignature, ConsoleTypes
    <2> QED BY <2>1, <2>2
  <1>6. CASE UNCHANGED consoleVars
    BY <1>1, <1>6 DEF ConsoleTypes, consoleVars
  <1> QED
    BY <1>2, <1>3, <1>4, <1>5, <1>6, Zenon DEF Next, Console, Task, SignStart, SignEnd, Serve, Unplug,
       Receive, HandleReset, HandleNonce, SignReset, SignPage, PollSigning, PollReady,
       PollTimeout, FetchPage, Publish, EndReset, vars

LEMMA StateTypesStep == ASSUME AuthAssumption
                        PROVE  Typed /\ [Next]_vars => StateTypes'
  <1> SUFFICES ASSUME Typed, [Next]_vars PROVE StateTypes'
    OBVIOUS
  <1>1. TypeOK /\ ConsoleTypes /\ StateTypes /\ TaskTypes /\ Shapes /\ 0 \in 0..SIGNATURE_PAGES
    BY DEF Typed, TypeOK, AuthAssumption
  <1>2. CASE GetReset
    <2>1. cmds' \in Seq(Commands) /\ Len(cmds') <= CmdCap
      BY <1>1, <1>2, Fits DEF GetReset, Commands
    <2> QED BY <1>1, <1>2, <2>1 DEF GetReset, Invalidate, StateTypes
  <1>3. CASE SetReport
    <2>1. Nonce(round, page) \in Commands
      BY <1>1, <1>3 DEF SetReport, Shapes, Commands
    <2>2. cmds' \in Seq(Commands) /\ Len(cmds') <= CmdCap
      BY <1>1, <1>3, <2>1, Fits DEF SetReport
    <2> QED BY <1>1, <1>3, <2>2 DEF SetReport, Invalidate, StateTypes
  <1>4. CASE GetSignature
    <2>1. nextPage' \in 0..SIGNATURE_PAGES
      BY <1>1, <1>4 DEF GetSignature, StateTypes, AuthAssumption
    <2> QED BY <1>1, <1>4, <2>1 DEF GetSignature, StateTypes
  <1>5. CASE Serve
    BY <1>1, <1>5, EmptySeq DEF Serve, stateVars, StateTypes, AuthAssumption
  <1>6. CASE Receive
    <2>1. Tail(cmds) \in Seq(Commands) /\ Len(Tail(cmds)) = Len(cmds) - 1 /\ Len(cmds) \in Nat
      BY <1>1, <1>6, Taken DEF Receive, StateTypes
    <2> QED BY <1>1, <1>6, <2>1 DEF Receive, stateVars, StateTypes, AuthAssumption
  <1>7. CASE Publish
    BY <1>1, <1>7 DEF Publish, StateTypes, TaskTypes
  <1>8. CASE UNCHANGED <<stateVars, cmds>>
    BY <1>1, <1>8 DEF StateTypes, stateVars
  <1> QED
    BY <1>2, <1>3, <1>4, <1>5, <1>6, <1>7, <1>8, Zenon DEF Next, Console, Task, SignStart,
       SignEnd, GetState, Unplug, HandleReset, HandleNonce, SignReset, SignPage, PollSigning,
       PollReady, PollTimeout, FetchPage, EndReset, vars

LEMMA TaskTypesStep == ASSUME AuthAssumption
                       PROVE  Typed /\ [Next]_vars => TaskTypes'
  <1> SUFFICES ASSUME Typed, [Next]_vars PROVE TaskTypes'
    OBVIOUS
  <1>1. StateTypes /\ TaskTypes /\ SignerTypes /\ Shapes
    BY DEF Typed, TypeOK
  <1>2. /\ 0 \in 0..SIGNATURE_PAGES \cup NoncePages /\ 0 \in NoncePages /\ 0 \in 0..SIGN_ATTEMPTS
        /\ 1 \in 0..SIGN_ATTEMPTS /\ NoPage \in [round : 0..MaxRounds, page : NoncePages]
        /\ <<>> \in Seq(Page)
    BY EmptySeq DEF AuthAssumption, NoncePages, NoPage
  <1>3. CASE Serve \/ HandleReset \/ PollSigning \/ PollTimeout \/ EndReset
    BY <1>1, <1>3 DEF Serve, HandleReset, PollSigning, PollTimeout, EndReset, TaskTypes,
       nonceVars
  <1>4. CASE Unplug
    BY <1>1, <1>2, <1>4 DEF Unplug, TaskTypes, nonceVars
  <1>5. CASE Receive
    <2>1. Head(cmds) \in Commands
      BY <1>1, <1>5, Taken DEF Receive, StateTypes
    <2>2. CASE Head(cmds).type = "reset"
      BY <1>1, <1>5, <2>2 DEF Receive, TaskTypes
    <2>3. CASE Head(cmds).type # "reset"
      <3>1. Head(cmds).round \in 0..MaxRounds /\ Head(cmds).page \in NoncePages
        BY <2>1, <2>3, CommandKinds DEF Reset, Rounds, AuthAssumption
      <3>2. /\ pc' = "page"
            /\ cur' = [round |-> Head(cmds).round, page |-> Head(cmds).page]
            /\ nonce' = [nonce EXCEPT ![Head(cmds).page] = Head(cmds).round]
            /\ unsent' = IF Head(cmds).page = 0 THEN {} ELSE unsent
            /\ UNCHANGED <<attempt, i, seen, fetched, nonceRefused>>
        BY <1>5, <2>3 DEF Receive
      <3> QED BY <1>1, <3>1, <3>2 DEF TaskTypes
    <2> QED BY <2>2, <2>3
  <1>6. CASE HandleNonce
    <2>1. pc' \in {"signReset", "poll", "recv"} /\ attempt' \in 0..SIGN_ATTEMPTS
      BY <1>1, <1>2, <1>6 DEF HandleNonce, TaskTypes
    <2>2. nonceRefused' \in BOOLEAN
      BY <1>1, <1>6, Zenon DEF HandleNonce, TaskTypes
    <2>3. unsent' \subseteq NoncePages
      BY <1>1, <1>6 DEF HandleNonce, Sent, TaskTypes
    <2>4. cur' = NoPage /\ seen' = FALSE /\ UNCHANGED <<i, fetched, nonce>>
      BY <1>6 DEF HandleNonce
    <2> QED BY <1>1, <1>2, <2>1, <2>2, <2>3, <2>4 DEF TaskTypes
  <1>7. CASE SignReset
    BY <1>1, <1>2, <1>7 DEF SignReset, TaskTypes, nonceVars
  <1>8. CASE SignPage
    <2>1. i \in NoncePages
      BY <1>1, <1>8 DEF SignPage, Shapes
    <2>2. i' \in NoncePages /\ pc' \in {"recv", "signPages", "poll"}
      BY <1>2, <1>8, <2>1 DEF SignPage, NoncePages, AuthAssumption
    <2>3. unsent' \subseteq NoncePages
      BY <1>1, <1>8, <2>1 DEF SignPage, TaskTypes
    <2> QED BY <1>1, <1>8, <2>2, <2>3 DEF SignPage, TaskTypes, nonceVars
  <1>9. CASE PollReady
    BY <1>1, <1>2, <1>9 DEF PollReady, TaskTypes, nonceVars
  <1>10. CASE FetchPage
    <2>1. /\ pc = "fetch" /\ pc' \in {"fetch", "publish", "signReset", "endReset"}
          /\ i' \in {i + 1, 0} /\ attempt' \in 0..SIGN_ATTEMPTS
          /\ UNCHANGED <<cur, seen, unsent, nonce, nonceRefused>>
      BY <1>1, <1>10, FetchCases DEF nonceVars, SignAgain, TaskTypes, AuthAssumption
    <2>2. i' \in 0..SIGNATURE_PAGES
      BY <1>1, <2>1 DEF Shapes, TaskTypes, NoncePages, AuthAssumption
    <2>3. fetched' \in Seq(Page)
      <3>1. CASE fetched' = Append(fetched, [round |-> sig, page |-> i])
        <4>1. [round |-> sig, page |-> i] \in Page
          BY <1>1, <2>1 DEF Shapes, TaskTypes, SignerTypes, Page, NoncePages, AuthAssumption
        <4> QED BY <1>1, <3>1, <4>1, AppendProperties DEF TaskTypes
      <3>2. CASE fetched' = <<>>
        BY <1>2, <3>2
      <3> QED BY <1>10, <3>1, <3>2, FetchCases
    <2> QED BY <1>1, <2>1, <2>2, <2>3 DEF TaskTypes
  <1>11. CASE Publish
    BY <1>1, <1>2, <1>11 DEF Publish, TaskTypes, nonceVars
  <1>12. CASE UNCHANGED <<taskVars, nonceVars>>
    BY <1>1, <1>12 DEF TaskTypes, taskVars, nonceVars
  <1> QED
    BY <1>3, <1>4, <1>5, <1>6, <1>7, <1>8, <1>9, <1>10, <1>11, <1>12, Zenon DEF Next, Console,
       Task, SignStart, SignEnd, GetReset, SetReport, GetState, GetSignature, vars

LEMMA SignerTypesStep == ASSUME AuthAssumption
                         PROVE  Typed /\ [Next]_vars => SignerTypes'
  <1> SUFFICES ASSUME Typed, [Next]_vars PROVE SignerTypes'
    OBVIOUS
  <1>1. TaskTypes /\ SignerTypes /\ Shapes
    BY DEF Typed, TypeOK
  <1>2. /\ 0 \in 0..MaxRounds /\ 0 \in 0..SIGNATURE_PAGES /\ 0 \in NoncePages
        /\ LAST_NONCE_PAGE \in NoncePages /\ RunCap \in Nat
    BY DEF AuthAssumption, NoncePages, RunCap
  <1>3. CASE SignStart
    <2>1. \A x \in 0..RunCap : (IF x < RunCap THEN x + 1 ELSE x) \in 0..RunCap
      BY <1>2
    <2>2. /\ runs' = [r \in Rounds |-> IF r = held[0] THEN IF runs[r] < RunCap THEN runs[r] + 1
                                                        ELSE runs[r] ELSE runs[r]]
          /\ runs \in [Rounds -> 0..RunCap]
      BY <1>1, <1>3, Zenon DEF SignStart, SignerTypes
    <2>3. runs' \in [Rounds -> 0..RunCap]
      BY <2>1, <2>2
    <2>4. status' \in {"ready", "loaded", "signing"} /\ UNCHANGED <<held, sig, nextF1>>
      BY <1>3 DEF SignStart
    <2> QED BY <1>1, <2>3, <2>4 DEF SignerTypes
  <1>4. CASE SignEnd
    BY <1>1, <1>2, <1>4 DEF SignEnd, SignerTypes
  <1>5. CASE Unplug
    BY <1>1, <1>2, <1>5 DEF Unplug, SignerTypes
  <1>6. CASE HandleReset \/ SignReset \/ EndReset
    BY <1>1, <1>6, ResetType DEF HandleReset, SignReset, EndReset
  <1>7. CASE HandleNonce
    <2>1. \E ok \in BOOLEAN : SetNonce(cur.round, cur.page, ok)
      BY <1>7 DEF HandleNonce
    <2> QED BY <1>1, <2>1, SetNonceType DEF TaskTypes
  <1>8. CASE SignPage
    <2>1. \E ok \in BOOLEAN : SetNonce(nonce[i], i, ok)
      BY <1>8 DEF SignPage
    <2>2. i \in NoncePages /\ nonce[i] \in 0..MaxRounds
      BY <1>1, <1>8 DEF SignPage, Shapes, TaskTypes
    <2> QED BY <1>1, <2>1, <2>2, SetNonceType
  <1>9. CASE FetchPage
    <2>1. UNCHANGED <<held, status, sig, runs>> /\ nextF1' \in 0..SIGNATURE_PAGES
      BY <1>9, FetchCases, Zenon
    <2> QED BY <1>1, <2>1 DEF SignerTypes
  <1>10. CASE UNCHANGED signerVars
    BY <1>1, <1>10 DEF SignerTypes, signerVars
  <1> QED
    BY <1>3, <1>4, <1>5, <1>6, <1>7, <1>8, <1>9, <1>10, Zenon DEF Next, Console, Task, GetReset,
       SetReport, GetState, GetSignature, Serve, Receive, PollSigning, PollReady, PollTimeout,
       Publish, vars

LEMMA HistoryTypesStep == ASSUME AuthAssumption
                          PROVE  Typed /\ [Next]_vars => HistoryTypes'
  <1> SUFFICES ASSUME Typed, [Next]_vars PROVE HistoryTypes'
    OBVIOUS
  <1>1. fault \in {"none", "early", "refused"} /\ replyLost \subseteq Rounds
    BY DEF Typed, TypeOK, HistoryTypes
  <1>2. CASE HandleNonce
    <2>1. replyLost' \subseteq replyLost \cup {cur.round} /\ cur.round \in Rounds
      BY <1>2 DEF HandleNonce, Typed, Shapes
    <2>2. fault' \in {fault, "refused"}
      BY <1>2, Zenon DEF HandleNonce
    <2> QED BY <1>1, <2>1, <2>2 DEF HistoryTypes
  <1>3. CASE GetReset
    BY <1>1, <1>3 DEF GetReset, HistoryTypes
  <1>4. CASE UNCHANGED historyVars
    BY <1>1, <1>4 DEF historyVars, HistoryTypes
  <1> QED
    BY <1>2, <1>3, <1>4, Zenon DEF Next, Console, Task, SetReport, GetState, GetSignature,
       SignStart, SignEnd, Serve, Unplug, Receive, HandleReset, SignReset, SignPage,
       PollSigning, PollReady, PollTimeout, FetchPage, Publish, EndReset, vars

LEMMA ShapesStep == ASSUME AuthAssumption
                    PROVE  Typed /\ [Next]_vars => Shapes'
  <1> SUFFICES ASSUME Typed, [Next]_vars PROVE Shapes'
    OBVIOUS
  <1>1. ConsoleTypes /\ StateTypes /\ TaskTypes /\ Shapes
    BY DEF Typed, TypeOK
  <1>2. CASE GetReset
    <2>1. 0 \in NoncePages /\ round + 1 \in Rounds
      BY <1>1, <1>2 DEF GetReset, ConsoleTypes, NoncePages, Rounds, AuthAssumption
    <2> QED BY <1>1, <1>2, <2>1 DEF GetReset, Invalidate, Shapes, taskVars
  <1>3. CASE SetReport
    <2>1. con' = "sending" => page' \in NoncePages
      BY <1>1, <1>3 DEF SetReport, ConsoleTypes, Shapes, NoncePages, AuthAssumption
    <2> QED BY <1>1, <1>3, <2>1 DEF SetReport, Invalidate, Shapes, taskVars
  <1>4. CASE GetState
    BY <1>1, <1>4 DEF GetState, Shapes, taskVars, stateVars
  <1>5. CASE GetSignature
    BY <1>1, <1>5 DEF GetSignature, Shapes, taskVars
  <1>6. CASE Serve
    BY <1>1, <1>6 DEF Serve, Shapes, consoleVars, stateVars
  <1>7. CASE Unplug
    BY <1>1, <1>7 DEF Unplug, Shapes, consoleVars, stateVars
  <1>8. CASE Receive
    <2>1. Head(cmds) \in Commands
      BY <1>1, <1>8, Taken DEF Receive, StateTypes
    <2>2. pc' = "page" => cur'.round \in Rounds
      BY <1>8, <2>1, CommandKinds DEF Receive, Reset
    <2>3. pc' \in {"reset", "page"} /\ UNCHANGED <<consoleVars, stateVars>>
      BY <1>8 DEF Receive
    <2> QED BY <1>1, <2>2, <2>3 DEF Shapes, consoleVars, stateVars
  <1>9. CASE HandleReset \/ PollSigning \/ PollTimeout \/ EndReset
    BY <1>1, <1>9 DEF HandleReset, PollSigning, PollTimeout, EndReset, Shapes, consoleVars,
       stateVars
  <1>10. CASE HandleNonce
    BY <1>1, <1>10 DEF HandleNonce, Shapes, consoleVars, stateVars
  <1>11. CASE SignReset
    BY <1>1, <1>11 DEF SignReset, Shapes, consoleVars, stateVars, NoncePages, AuthAssumption
  <1>12. CASE SignPage
    <2>1. pc' \in {"recv", "signPages", "poll"} /\ (pc' = "signPages" => i' \in NoncePages)
      BY <1>1, <1>12 DEF SignPage, Shapes, NoncePages, AuthAssumption
    <2> QED BY <1>1, <1>12, <2>1 DEF SignPage, Shapes, consoleVars, stateVars
  <1>13. CASE PollReady
    <2>1. Len(<<>>) = 0
      BY EmptySeq
    <2> QED BY <1>1, <1>13, <2>1 DEF PollReady, Shapes, consoleVars, stateVars, AuthAssumption
  <1>14. CASE FetchPage
    <2>1. CASE /\ fetched' = Append(fetched, [round |-> sig, page |-> i]) /\ i' = i + 1
               /\ pc' = IF i + 1 = SIGNATURE_PAGES THEN "publish" ELSE "fetch"
      <3>1. i \in 0..(SIGNATURE_PAGES - 1) /\ Len(fetched) = i
        BY <1>1, <1>14, FetchCases DEF Shapes, TaskTypes, NoncePages, AuthAssumption
      <3>2. Len(fetched') = i + 1
        <4>1. [round |-> sig, page |-> i] \in Page
          BY <3>1 DEF Typed, TypeOK, SignerTypes, Page, AuthAssumption
        <4> QED BY <1>1, <2>1, <3>1, <4>1, AppendProperties DEF TaskTypes
      <3>3. (pc' = "fetch" => i' < SIGNATURE_PAGES) /\ pc' \in {"fetch", "publish"}
        BY <2>1, <3>1 DEF AuthAssumption
      <3> QED BY <1>1, <1>14, <2>1, <3>2, <3>3, FetchCases DEF Shapes, consoleVars, stateVars
    <2>2. CASE i' = 0 /\ fetched' = <<>> /\ SignAgain
      BY <1>1, <1>14, <2>2, FetchCases DEF SignAgain, Shapes, consoleVars, stateVars
    <2> QED BY <1>14, <2>1, <2>2, FetchCases
  <1>15. CASE Publish
    BY <1>1, <1>15 DEF Publish, Shapes, consoleVars
  <1>16. CASE UNCHANGED <<consoleVars, stateVars, taskVars>>
    BY <1>1, <1>16 DEF Shapes, consoleVars, stateVars, taskVars
  <1> QED
    BY <1>2, <1>3, <1>4, <1>5, <1>6, <1>7, <1>8, <1>9, <1>10, <1>11, <1>12, <1>13, <1>14, <1>15,
       <1>16, Zenon DEF Next, Console, Task, SignStart, SignEnd, vars

LEMMA TypedStep == ASSUME AuthAssumption PROVE Typed /\ [Next]_vars => Typed'
  BY ConsoleTypesStep, StateTypesStep, TaskTypesStep, SignerTypesStep, HistoryTypesStep, ShapesStep,
     Zenon DEF Typed, TypeOK

LEMMA AlwaysTyped == Spec => []Typed
  BY TypeInit, TypedStep, AuthAssumption, PTL DEF Spec

(***************************************************************************)
(* Every variable keeps to its type; in particular the queue takes no      *)
(* command more than its capacity, and no attempt is counted that is not   *)
(* allowed.                                                                *)
(***************************************************************************)
THEOREM TypeCorrect == Spec => []TypeOK
  BY AlwaysTyped, PTL DEF Typed

-----------------------------------------------------------------------------
(* What holds of every round *)

Signing == pc \in {"signReset", "signPages", "poll", "fetch", "publish", "endReset"}
On == pc # "off"

\* Nothing is of a round that is still to come.
NoneAhead ==
  /\ \A k \in 1..Len(cmds) : cmds[k].type = "nonce" => cmds[k].round <= round
  /\ cur.round <= round /\ sig <= round
  /\ \A n \in NoncePages : nonce[n] <= round /\ held[n] <= round
  /\ \A r \in Rounds : r > round => runs[r] = 0

\* A signer that is not there holds nothing.
NothingHeld ==
  pc = "off" => /\ \A n \in NoncePages : held[n] = 0
                /\ status = "ready" /\ sig = 0 /\ unsent = {}

\* The page that the task acts on is kept, a first page starts a new nonce; no
\* refusal is kept while the task signs.
Noted ==
  /\ pc = "page" => nonce[cur.page] = cur.round /\ (cur.page = 0 => unsent = {})
  /\ Signing => ~nonceRefused

\* Page n of round r is sent before page m of round q.
Before(r, n, q, m) == r < q \/ (r = q /\ n < m)

\* Every page that is queued or that the console has yet to send comes after it ...
Past(r, n) ==
  /\ \A k \in 1..Len(cmds) :
       cmds[k].type = "nonce" => Before(r, n, cmds[k].round, cmds[k].page)
  /\ con = "sending" => Before(r, n, round, page)

\* ... and so does the page that the task acts on.
Done(r, n) == Past(r, n) /\ (pc = "page" => Before(r, n, cur.round, cur.page))

\* The pages come in the order in which they were sent, each once.
Ordered ==
  /\ \A k, l \in 1..Len(cmds) :
       k < l /\ cmds[k].type = "nonce" /\ cmds[l].type = "nonce" =>
         Before(cmds[k].round, cmds[k].page, cmds[l].round, cmds[l].page)
  /\ con = "sending" =>
       \A k \in 1..Len(cmds) :
         cmds[k].type = "nonce" => Before(cmds[k].round, cmds[k].page, round, page)
  /\ pc = "page" => Past(cur.round, cur.page)
  /\ \A n \in NoncePages : Past(nonce[n], n) /\ Done(held[n], n)

\* A page of the nonce that failed is one that NONCE_REFUSED tells of, or the
\* first; while sign is under way it has not been sent yet.
Resent ==
  /\ pc \in {"recv", "reset", "page"} /\ ~nonceRefused => unsent \subseteq {0}
  /\ pc = "signPages" => \A n \in NoncePages : n < i => n \notin unsent
  /\ pc \in {"poll", "fetch", "publish", "endReset"} => unsent \subseteq {0}

\* Of a nonce whose last page is still to come and of which a page was refused,
\* a page is missing that will not come again.
Missed ==
  nonceRefused /\ held[0] \in Rounds \ replyLost /\ ~Done(held[0], LAST_NONCE_PAGE) =>
    \E n \in NoncePages : Done(held[0], n) /\ held[n] # held[0]

\* The runs a round has had, with the one that is due; a run is only made of the
\* round of the last page that the task has had.
Due(r) == IF status = "loaded" /\ held[0] = r THEN 1 ELSE 0
Spent(r) == runs[r] + Due(r)
Lost(r) == IF r \in replyLost THEN 1 ELSE 0
Last == nonce[LAST_NONCE_PAGE]

Budget ==
  /\ \A r \in Rounds : r > Last => Spent(r) = 0
  /\ pc = "page" /\ cur.page = LAST_NONCE_PAGE => Spent(Last) = 0
  /\ Signing => Last \in Rounds /\ attempt >= 1 /\ Spent(Last) <= attempt + Lost(Last)
  /\ pc \in {"signReset", "signPages"} => Spent(Last) < attempt + Lost(Last)
  /\ \A r \in Rounds : Spent(r) <= SIGN_ATTEMPTS + Lost(r)

Always ==
  /\ Typed /\ NoneAhead /\ NothingHeld /\ Noted
  /\ Ordered /\ Resent /\ Missed /\ Budget

-----------------------------------------------------------------------------
(* What the actions do to what the invariants speak of *)

LEMMA Basics ==
  ASSUME AuthAssumption, Typed
  PROVE  /\ LAST_NONCE_PAGE \in NoncePages \ {0} /\ LAST_NONCE_PAGE \in Nat \ {0}
         /\ 0 \in NoncePages /\ CmdCap \in Nat
         /\ \A n \in NoncePages : n \in Nat /\ n <= LAST_NONCE_PAGE
         /\ cmds \in Seq(Commands) /\ Len(cmds) \in Nat
         /\ \A k \in 1..Len(cmds) : cmds[k] \in Commands
         /\ round \in Nat /\ page \in Nat /\ cur.round \in Nat /\ cur.page \in NoncePages
         /\ \A n \in NoncePages : nonce[n] \in Nat /\ held[n] \in Nat
         /\ sig \in Nat /\ \A r \in Rounds : runs[r] \in Nat
  <1>1. ConsoleTypes /\ StateTypes /\ TaskTypes /\ SignerTypes
    BY DEF Typed, TypeOK
  <1>2. MaxRounds \in Nat /\ LAST_NONCE_PAGE \in Nat \ {0} /\ CmdCap \in Nat /\ RunCap \in Nat
    BY DEF AuthAssumption, RunCap
  <1>3. /\ cmds \in Seq(Commands) /\ Len(cmds) \in Nat
        /\ \A k \in 1..Len(cmds) : cmds[k] \in Commands
    BY <1>1, LenProperties, ElementOfSeq DEF StateTypes
  <1>4. round \in Nat /\ page \in Nat
    BY <1>1, <1>2 DEF ConsoleTypes
  <1>5. cur.round \in Nat /\ cur.page \in NoncePages /\ \A n \in NoncePages : nonce[n] \in Nat
    BY <1>1, <1>2 DEF TaskTypes
  <1>6. /\ sig \in Nat /\ \A n \in NoncePages : held[n] \in Nat
        /\ \A r \in Rounds : runs[r] \in Nat
    BY <1>1, <1>2 DEF SignerTypes
  <1>7. /\ LAST_NONCE_PAGE \in NoncePages \ {0} /\ 0 \in NoncePages
        /\ \A n \in NoncePages : n \in Nat /\ n <= LAST_NONCE_PAGE
    BY <1>2 DEF NoncePages
  <1> QED
    BY <1>2, <1>3, <1>4, <1>5, <1>6, <1>7

\* A command is queued behind the others if it fits.
LEMMA CommandSent ==
  ASSUME AuthAssumption, Typed, NEW cmd \in Commands, Send(cmd)
  PROVE  \/ /\ Len(cmds) < CmdCap /\ Len(cmds') = Len(cmds) + 1
            /\ \A k \in 1..Len(cmds) : cmds'[k] = cmds[k]
            /\ cmds'[Len(cmds) + 1] = cmd
         \/ ~(Len(cmds) < CmdCap) /\ cmds' = cmds
  BY Basics, AppendProperties DEF Send

LEMMA CommandTaken ==
  ASSUME AuthAssumption, Typed, Receive
  PROVE  /\ 1 \in 1..Len(cmds) /\ cmds[1] \in Commands /\ cmds[1] = Head(cmds)
         /\ Len(cmds') = Len(cmds) - 1
         /\ \A k \in 1..Len(cmds') : cmds'[k] = cmds[k + 1]
  <1>1. cmds \in Seq(Commands) /\ cmds # <<>> /\ cmds' = Tail(cmds)
    BY Basics DEF Receive
  <1>2. Len(cmds) \in Nat \ {0} /\ Head(cmds) \in Commands
    BY <1>1, Taken
  <1> QED
    BY <1>1, <1>2, Taken

\* What the task makes of it.
LEMMA Received ==
  ASSUME AuthAssumption, Typed, Receive
  PROVE  /\ pc = "recv"
         /\ \/ cmds[1].type # "nonce" /\ pc' = "reset" /\ UNCHANGED <<cur, nonce, unsent>>
            \/ /\ cmds[1].type = "nonce" /\ pc' = "page"
               /\ cmds[1].round \in Rounds /\ cmds[1].page \in NoncePages
               /\ cur' = [round |-> cmds[1].round, page |-> cmds[1].page]
               /\ cur'.round = cmds[1].round /\ cur'.page = cmds[1].page
               /\ nonce' = [nonce EXCEPT ![cmds[1].page] = cmds[1].round]
               /\ unsent' = IF cmds[1].page = 0 THEN {} ELSE unsent
         /\ UNCHANGED <<attempt, i, seen, fetched, nonceRefused, consoleVars, stateVars,
                        signerVars, historyVars>>
  <1>1. cmds[1] \in Commands /\ cmds[1] = Head(cmds)
    BY CommandTaken
  <1>2. cmds[1].type = "reset" <=> cmds[1].type # "nonce"
    BY <1>1, CommandKinds DEF Reset
  <1>3. cmds[1].type = "nonce" => cmds[1].round \in Rounds /\ cmds[1].page \in NoncePages
    BY <1>1, CommandKinds
  <1> QED
    BY <1>1, <1>2, <1>3 DEF Receive

\* What the signer has of a page it has taken.
LEMMA Loaded ==
  ASSUME AuthAssumption, Typed, NEW r \in 0..MaxRounds, NEW n \in NoncePages, Load(r, n)
  PROVE  /\ \/ /\ n = 0 /\ held'[0] = r /\ status' = "ready"
               /\ \A m \in NoncePages : m # 0 => held'[m] = 0
            \/ /\ n # 0 /\ held' = [held EXCEPT ![n] = r] /\ held'[n] = r
               /\ \A m \in NoncePages : m # n => held'[m] = held[m]
               /\ \/ /\ n = LAST_NONCE_PAGE /\ \A m \in NoncePages : held'[m] = r
                     /\ r # 0 /\ status' = "loaded"
                  \/ ~(n = LAST_NONCE_PAGE /\ r # 0 /\ \A m \in NoncePages : held'[m] = r)
                     /\ status' = status
         /\ UNCHANGED <<sig, nextF1, runs>>
  <1>1. held \in [NoncePages -> 0..MaxRounds] /\ LAST_NONCE_PAGE # 0 /\ 0 \in NoncePages
    BY Basics DEF Typed, TypeOK, SignerTypes
  <1>2. CASE n = 0
    BY <1>1, <1>2 DEF Load
  <1>3. CASE n # 0
    <2>1. held' = [held EXCEPT ![n] = r]
      BY <1>3 DEF Load
    <2>2. status' = IF n = LAST_NONCE_PAGE /\ (\A m \in NoncePages : held'[m] = r) /\ r # 0
                    THEN "loaded" ELSE status
      BY <1>3, Zenon DEF Load
    <2> QED BY <1>1, <1>3, <2>1, <2>2 DEF Load
  <1> QED
    BY <1>2, <1>3

LEMMA WasReset ==
  ASSUME AuthAssumption, ResetSigner
  PROVE  /\ \/ status' = "ready" /\ \A n \in NoncePages : held'[n] = 0
            \/ UNCHANGED <<held, status>>
         /\ UNCHANGED <<sig, runs>>
  BY DEF ResetSigner, signerVars

-----------------------------------------------------------------------------
(* Every step keeps what holds of every round *)

LEMMA NoneAheadStep ==
  ASSUME AuthAssumption, Always, [Next]_vars
  PROVE  NoneAhead'
  <1> DEFINE Line(line, r) == \A k \in 1..Len(line) : line[k].type = "nonce" => line[k].round <= r
             Upto(pages, r) == \A n \in NoncePages : pages[n] <= r
             Unrun(rs, r) == \A q \in Rounds : q > r => rs[q] = 0
  <1>1. /\ Typed /\ NoneAhead /\ TaskTypes /\ SignerTypes /\ Shapes
        /\ round \in Nat /\ Len(cmds) \in Nat
    BY Basics DEF Always, Typed, TypeOK
  <1>2. /\ Line(cmds, round) /\ cur.round <= round /\ sig <= round
        /\ Upto(nonce, round) /\ Upto(held, round) /\ Unrun(runs, round)
    BY <1>1 DEF NoneAhead
  <1>3. SUFFICES /\ Line(cmds', round') /\ cur'.round <= round' /\ sig' <= round'
                 /\ Upto(nonce', round') /\ Upto(held', round') /\ Unrun(runs', round')
    BY DEF NoneAhead
  <1>4. CASE GetReset
    <2>1. round' = round + 1 /\ Send(Reset) /\ UNCHANGED <<cur, sig, nonce, held, runs>>
      BY <1>4 DEF GetReset, taskVars, nonceVars, signerVars
    <2>2. Line(cmds', round')
      <3>1. Reset.type # "nonce" /\ Reset \in Commands
        BY DEF Reset, Commands
      <3>2. \A k \in 1..Len(cmds) : cmds[k].type = "nonce" =>
                                      cmds[k].round \in Rounds /\ cmds[k].round <= round
        BY <1>1, <1>2, CommandKinds, Basics
      <3>3. \A k \in 1..Len(cmds') : cmds'[k] = Reset \/ (k \in 1..Len(cmds) /\ cmds'[k] = cmds[k])
        BY <1>1, <2>1, <3>1, CommandSent
      <3> QED BY <1>1, <2>1, <3>1, <3>2, <3>3 DEF Rounds
    <2>3. cur.round <= round + 1 /\ sig <= round + 1 /\ Upto(nonce, round + 1)
          /\ Upto(held, round + 1)
      BY <1>1, <1>2, Basics
    <2>4. Unrun(runs, round + 1)
      BY <1>1, <1>2 DEF Rounds
    <2> HIDE DEF Line, Upto, Unrun
    <2> QED BY <2>1, <2>2, <2>3, <2>4
  <1>5. CASE SetReport
    <2>1. /\ Send(Nonce(round, page)) /\ Nonce(round, page) \in Commands
          /\ UNCHANGED <<round, cur, sig, nonce, held, runs>>
      BY <1>1, <1>5 DEF SetReport, Shapes, Commands, taskVars, nonceVars, signerVars
    <2>2. Line(cmds', round')
      <3>1. Nonce(round, page).round <= round
        BY <1>1, NonceFields
      <3>2. \A k \in 1..Len(cmds') :
              cmds'[k] = Nonce(round, page) \/ (k \in 1..Len(cmds) /\ cmds'[k] = cmds[k])
        BY <1>1, <2>1, CommandSent
      <3> QED BY <1>2, <2>1, <3>1, <3>2
    <2> QED BY <1>2, <2>1, <2>2
  <1>6. CASE Serve
    <2>1. Line(<<>>, round)
      BY EmptySeq
    <2> QED BY <1>2, <1>6, <2>1 DEF Serve, consoleVars, nonceVars, signerVars
  <1>7. CASE Unplug
    <2>1. cur'.round = 0 /\ sig' = 0 /\ Upto(held', round)
      BY <1>1, <1>7 DEF Unplug, NoPage
    <2> QED BY <1>1, <1>2, <1>7, <2>1 DEF Unplug, consoleVars, nonceVars
  <1>8. CASE Receive
    <2>1. Line(cmds', round) /\ (cmds[1].type = "nonce" => cmds[1].round <= round)
      BY <1>1, <1>2, <1>8, CommandTaken
    <2>2. UNCHANGED <<round, sig, held, runs>>
      BY <1>1, <1>8, Received DEF consoleVars, signerVars
    <2>3. CASE UNCHANGED <<cur, nonce>>
      BY <1>2, <2>1, <2>2, <2>3
    <2>4. CASE ~UNCHANGED <<cur, nonce>>
      <3>1. /\ cmds[1].page \in NoncePages /\ cur'.round = cmds[1].round
            /\ nonce' = [nonce EXCEPT ![cmds[1].page] = cmds[1].round]
            /\ cmds[1].round <= round
        BY <1>1, <1>8, <2>1, <2>4, Received
      <3>2. Upto(nonce', round) 
        BY <1>1, <1>2, <3>1 DEF TaskTypes
      <3> QED BY <1>2, <2>1, <2>2, <3>1, <3>2
    <2> QED BY <2>3, <2>4
  <1>9. CASE HandleReset \/ SignReset \/ EndReset
    <2>1. UNCHANGED <<round, cmds, cur, nonce>> /\ ResetSigner
      BY <1>9 DEF HandleReset, SignReset, EndReset, consoleVars, nonceVars
    <2>2. Upto(held', round) /\ UNCHANGED <<sig, runs>>
      BY <1>1, <1>2, <2>1, WasReset
    <2> QED BY <1>2, <2>1, <2>2
  <1>10. CASE HandleNonce
    <2>1. /\ UNCHANGED <<round, cmds, nonce>> /\ cur'.round = 0
          /\ \E ok \in BOOLEAN : SetNonce(cur.round, cur.page, ok)
      BY <1>10 DEF HandleNonce, consoleVars, NoPage
    <2>2. Upto(held', round) /\ UNCHANGED <<sig, runs>>
      <3>1. CASE Load(cur.round, cur.page)
        <4>1. cur.round \in 0..MaxRounds /\ cur.page \in NoncePages
          BY <1>1 DEF TaskTypes
        <4> QED BY <1>1, <1>2, <3>1, <4>1, Loaded
      <3>2. CASE UNCHANGED signerVars
        BY <1>2, <3>2 DEF signerVars
      <3> QED BY <2>1, <3>1, <3>2 DEF SetNonce
    <2> QED BY <1>1, <1>2, <2>1, <2>2
  <1>11. CASE SignPage
    <2>1. /\ UNCHANGED <<round, cmds, nonce, cur>> /\ pc = "signPages"
          /\ \E ok \in BOOLEAN : SetNonce(nonce[i], i, ok)
      BY <1>11 DEF SignPage, consoleVars, nonceVars
    <2>2. Upto(held', round) /\ UNCHANGED <<sig, runs>>
      <3>1. CASE Load(nonce[i], i)
        <4>1. nonce[i] \in 0..MaxRounds /\ i \in NoncePages
          BY <1>1, <2>1 DEF TaskTypes, Shapes
        <4> QED BY <1>1, <1>2, <3>1, <4>1, Loaded
      <3>2. CASE UNCHANGED signerVars
        BY <1>2, <3>2 DEF signerVars
      <3> QED BY <2>1, <3>1, <3>2 DEF SetNonce
    <2> QED BY <1>2, <2>1, <2>2
  <1>12. CASE SignStart
    <2>1. UNCHANGED <<round, cmds, nonce, cur, held, sig>>
      BY <1>12 DEF SignStart, consoleVars, nonceVars, taskVars
    <2>2. Unrun(runs', round)
      <3>1. held[0] <= round /\ held[0] \in Nat
        BY <1>1, <1>2, Basics
      <3>2. \A r \in Rounds : r # held[0] => runs'[r] = runs[r]
        BY <1>1, <1>12 DEF SignStart, SignerTypes
      <3> QED BY <1>1, <1>2, <3>1, <3>2 DEF Rounds
    <2> QED BY <1>2, <2>1, <2>2
  <1>13. CASE SignEnd
    BY <1>1, <1>2, <1>13, Basics DEF SignEnd, consoleVars, taskVars, nonceVars
  <1>14. CASE UNCHANGED <<round, cmds, cur, nonce, held, sig, runs>>
    BY <1>2, <1>14
  <1>15. ASSUME FetchPage PROVE UNCHANGED <<round, cmds, cur, nonce, held, sig, runs>>
    BY <1>1, <1>15, FetchCases DEF consoleVars, nonceVars
  <1> QED
    BY <1>4, <1>5, <1>6, <1>7, <1>8, <1>9, <1>10, <1>11, <1>12, <1>13, <1>14, <1>15, Zenon
    DEF Next, Console, Task, GetState, GetSignature, PollSigning, PollReady, PollTimeout, Publish,
        vars, consoleVars, taskVars, nonceVars, signerVars

LEMMA NothingHeldStep ==
  ASSUME AuthAssumption, Always, [Next]_vars
  PROVE  NothingHeld'
  <1>1. CASE pc' # "off"
    BY <1>1 DEF NothingHeld
  <1>2. CASE Unplug
    BY <1>2 DEF Unplug, NothingHeld
  <1>3. CASE UNCHANGED <<pc, held, status, sig, unsent>>
    BY <1>3 DEF Always, NothingHeld
  <1>4. pc' = "off" => Unplug \/ UNCHANGED <<pc, held, status, sig, unsent>>
    <2> SUFFICES ASSUME pc' = "off", ~Unplug PROVE UNCHANGED <<pc, held, status, sig, unsent>>
      OBVIOUS
    <2>1. pc = "off" => status = "ready"
      BY DEF Always, NothingHeld
    <2>3. ~Task /\ ~PollTimeout /\ ~Serve
      BY Zenon DEF Task, Serve, Receive, HandleReset, HandleNonce, SignReset, SignPage,
         PollSigning, PollReady, PollTimeout, FetchPage, SignAgain, Publish, EndReset
    <2>4. ~SignStart /\ ~SignEnd
      BY <2>1 DEF SignStart, SignEnd, taskVars
    <2> QED BY <2>3, <2>4, Zenon DEF Next, Console, GetReset, SetReport, GetState, GetSignature,
               vars, taskVars, signerVars
  <1> QED
    BY <1>1, <1>2, <1>3, <1>4

LEMMA NotedStep ==
  ASSUME AuthAssumption, Always, [Next]_vars
  PROVE  Noted'
  <1>1. Typed /\ Noted
    BY DEF Always
  <1>2. CASE Receive
    BY <1>1, <1>2, Received DEF Noted, Signing, Typed, TypeOK, TaskTypes
  <1>3. CASE HandleNonce
    BY <1>3, Zenon DEF HandleNonce, Noted, Signing
  <1>4. CASE pc' # "page" /\ (Signing' => Signing) /\ UNCHANGED nonceRefused
    BY <1>1, <1>4 DEF Noted
  <1>5. CASE UNCHANGED <<pc, cur, unsent, nonce, nonceRefused>>
    BY <1>1, <1>5 DEF Noted, Signing
  <1>6. ASSUME FetchPage PROVE pc' # "page" /\ (Signing' => Signing) /\ UNCHANGED nonceRefused
    BY <1>1, <1>6, FetchCases DEF SignAgain, Signing, nonceVars
  <1>7. ASSUME \/ Serve \/ Unplug \/ HandleReset \/ SignReset \/ SignPage \/ PollReady
               \/ PollTimeout \/ Publish \/ EndReset
        PROVE  pc' # "page" /\ (Signing' => Signing) /\ UNCHANGED nonceRefused
    BY <1>7 DEF Serve, Unplug, HandleReset, SignReset, SignPage, PollReady, PollTimeout, Publish,
       EndReset, Signing, nonceVars
  <1>8. ASSUME \/ GetReset \/ SetReport \/ GetState \/ GetSignature \/ SignStart \/ SignEnd
               \/ PollSigning \/ UNCHANGED vars
        PROVE  UNCHANGED <<pc, cur, unsent, nonce, nonceRefused>>
    BY <1>8, Zenon DEF GetReset, SetReport, GetState, GetSignature, SignStart, SignEnd,
       PollSigning, vars, taskVars, nonceVars
  <1> QED
    BY <1>2, <1>3, <1>4, <1>5, <1>6, <1>7, <1>8, Zenon DEF Next, Console, Task

\* What is past stays past.
LEMMA PastKept ==
  ASSUME AuthAssumption, Typed, [Next]_vars, NEW r \in Nat, NEW n \in Nat, r <= round, Past(r, n)
  PROVE  Past(r, n)'
  <1>1. /\ Len(cmds) \in Nat /\ round \in Nat /\ page \in Nat
        /\ \A k \in 1..Len(cmds) : cmds[k] \in Commands
    BY Basics
  <1>2. CASE GetReset
    <2>1. /\ round' = round + 1 /\ page' = 0 /\ Send(Reset) /\ Reset \in Commands
          /\ Reset.type # "nonce"
      BY <1>2 DEF GetReset, Commands, Reset
    <2>2. \A k \in 1..Len(cmds') : cmds'[k] = Reset \/ (k \in 1..Len(cmds) /\ cmds'[k] = cmds[k])
      BY <1>1, <2>1, CommandSent
    <2> QED BY <1>1, <2>1, <2>2 DEF Past, Before
  <1>3. CASE SetReport
    <2>1. /\ con = "sending" /\ page' = page + 1 /\ UNCHANGED round
          /\ Send(Nonce(round, page)) /\ Nonce(round, page) \in Commands
          /\ Nonce(round, page).round = round /\ Nonce(round, page).page = page
      BY <1>3, NonceFields DEF SetReport, Typed, Shapes, Commands
    <2>2. \A k \in 1..Len(cmds') :
            cmds'[k] = Nonce(round, page) \/ (k \in 1..Len(cmds) /\ cmds'[k] = cmds[k])
      BY <1>1, <2>1, CommandSent
    <2>3. Before(r, n, round, page) /\ Before(r, n, round, page + 1)
      BY <1>1, <2>1 DEF Past, Before
    <2> QED BY <2>1, <2>2, <2>3 DEF Past
  <1>4. CASE Serve
    BY <1>4, EmptySeq DEF Serve, Past, consoleVars
  <1>5. CASE Receive
    <2>1. \A k \in 1..Len(cmds') : k + 1 \in 1..Len(cmds) /\ cmds'[k] = cmds[k + 1]
      BY <1>1, <1>5, CommandTaken
    <2> QED BY <1>5, <2>1, Received DEF Past, consoleVars
  <1>6. CASE UNCHANGED <<round, page, cmds>> /\ (con' = "sending" => con = "sending")
    BY <1>6 DEF Past
  <1>7. ASSUME GetState \/ GetSignature \/ UNCHANGED <<consoleVars, cmds>>
        PROVE  UNCHANGED <<round, page, cmds>> /\ (con' = "sending" => con = "sending")
    BY <1>7 DEF GetState, GetSignature, consoleVars
  <1> QED
    BY <1>2, <1>3, <1>4, <1>5, <1>6, <1>7, Zenon DEF Next, Console, Task, SignStart, SignEnd,
       Unplug, HandleReset, HandleNonce, SignReset, SignPage, PollSigning, PollReady,
       PollTimeout, FetchPage, Publish, EndReset, vars

\* Only Receive puts a page in the task's hands.
LEMMA InHandKept ==
  ASSUME AuthAssumption, Typed, [Next]_vars, ~Receive, pc' = "page"
  PROVE  pc = "page" /\ cur' = cur
  <1>1. ~Serve /\ ~Unplug /\ ~(Task /\ ~PollSigning) /\ ~PollTimeout
    BY Zenon DEF Serve, Unplug, Task, HandleReset, HandleNonce, SignReset, SignPage, PollReady,
       PollTimeout, FetchPage, SignAgain, Publish, EndReset
  <1> QED
    BY <1>1, Zenon DEF Next, Console, GetReset, SetReport, GetState, GetSignature, SignStart,
       SignEnd, PollSigning, vars, taskVars

LEMMA DoneKept ==
  ASSUME AuthAssumption, Typed, [Next]_vars, NEW r \in Nat, NEW n \in Nat, r <= round, Done(r, n)
  PROVE  Done(r, n)'
  <1>1. Past(r, n)'
    BY PastKept DEF Done
  <1>2. CASE Receive
    <2>1. 1 \in 1..Len(cmds)
      BY <1>2, CommandTaken
    <2>2. pc' = "page" => /\ cmds[1].type = "nonce"
                          /\ cur'.round = cmds[1].round /\ cur'.page = cmds[1].page
      BY <1>2, Received
    <2> QED BY <1>1, <2>1, <2>2 DEF Done, Past
  <1>3. CASE pc' = "page" => pc = "page" /\ cur' = cur
    BY <1>1, <1>3 DEF Done
  <1>4. ASSUME ~Receive PROVE pc' = "page" => pc = "page" /\ cur' = cur
    BY <1>4, InHandKept
  <1> QED
    BY <1>2, <1>3, <1>4

LEMMA OrderedStep ==
  ASSUME AuthAssumption, Always, [Next]_vars
  PROVE  Ordered'
  <1>1. /\ Typed /\ NoneAhead /\ Noted /\ Ordered /\ Shapes /\ TaskTypes /\ SignerTypes
        /\ Len(cmds) \in Nat /\ round \in Nat /\ page \in Nat
        /\ cur.round \in Nat /\ cur.page \in Nat /\ cur.page \in NoncePages
        /\ \A n \in NoncePages : n \in Nat /\ nonce[n] \in Nat /\ held[n] \in Nat
        /\ \A k \in 1..Len(cmds) : cmds[k] \in Commands
    BY Basics DEF Always, Typed, TypeOK
  <1>2. \A n \in NoncePages : nonce[n] <= round /\ held[n] <= round
    BY <1>1 DEF NoneAhead
  <1>3. \A n \in NoncePages : Past(nonce[n], n)' \/ nonce'[n] # nonce[n]
    BY <1>1, <1>2, PastKept DEF Ordered
  <1>4. \A n \in NoncePages : Done(held[n], n)' \/ held'[n] # held[n]
    BY <1>1, <1>2, DoneKept DEF Ordered
  <1>5. ASSUME NEW n \in NoncePages PROVE Past(0, n)
    <2>1. \A k \in 1..Len(cmds) : cmds[k].type = "nonce" => 0 < cmds[k].round
      BY <1>1, CommandKinds DEF Rounds
    <2>2. con = "sending" => 0 < round
      BY <1>1 DEF Shapes, Rounds
    <2> QED BY <2>1, <2>2 DEF Past, Before
  \* the queue
  <1>6. /\ \A k, l \in 1..Len(cmds') :
             k < l /\ cmds'[k].type = "nonce" /\ cmds'[l].type = "nonce" =>
               Before(cmds'[k].round, cmds'[k].page, cmds'[l].round, cmds'[l].page)
        /\ con' = "sending" =>
             \A k \in 1..Len(cmds') :
               cmds'[k].type = "nonce" => Before(cmds'[k].round, cmds'[k].page, round', page')
    <2>1. CASE GetReset
      <3>1. /\ round' = round + 1 /\ page' = 0 /\ Send(Reset) /\ Reset \in Commands
            /\ Reset.type # "nonce"
        BY <2>1 DEF GetReset, Commands, Reset
      <3>2. \/ /\ Len(cmds') = Len(cmds) + 1 /\ cmds'[Len(cmds) + 1] = Reset
               /\ \A k \in 1..Len(cmds) : cmds'[k] = cmds[k]
            \/ cmds' = cmds
        BY <1>1, <3>1, CommandSent
      <3>3. \A k \in 1..Len(cmds') :
              cmds'[k].type = "nonce" => k \in 1..Len(cmds) /\ cmds'[k] = cmds[k]
        BY <1>1, <3>1, <3>2
      <3>4. \A k \in 1..Len(cmds) : cmds[k].type = "nonce" => cmds[k].round \in Nat
                                                             /\ cmds[k].round <= round
        BY <1>1, CommandKinds DEF NoneAhead, Rounds
      <3>5. \A k, l \in 1..Len(cmds') :
              k < l /\ cmds'[k].type = "nonce" /\ cmds'[l].type = "nonce" =>
                Before(cmds'[k].round, cmds'[k].page, cmds'[l].round, cmds'[l].page)
        <4>1. \A k, l \in 1..Len(cmds) :
                k < l /\ cmds[k].type = "nonce" /\ cmds[l].type = "nonce" =>
                  Before(cmds[k].round, cmds[k].page, cmds[l].round, cmds[l].page)
          BY <1>1 DEF Ordered
        <4> QED BY <3>3, <4>1
      <3>6. \A k \in 1..Len(cmds) :
              cmds[k].type = "nonce" => Before(cmds[k].round, cmds[k].page, round + 1, 0)
        BY <1>1, <3>4 DEF Before
      <3> QED BY <3>1, <3>3, <3>5, <3>6
    <2>2. CASE SetReport
      <3>1. /\ con = "sending" /\ page' = page + 1 /\ UNCHANGED round
            /\ Send(Nonce(round, page)) /\ Nonce(round, page) \in Commands
            /\ Nonce(round, page).round = round /\ Nonce(round, page).page = page
        BY <1>1, <2>2, NonceFields DEF SetReport, Shapes, Commands
      <3>2. \/ /\ Len(cmds') = Len(cmds) + 1 /\ cmds'[Len(cmds) + 1] = Nonce(round, page)
               /\ \A k \in 1..Len(cmds) : cmds'[k] = cmds[k]
            \/ cmds' = cmds
        BY <1>1, <3>1, CommandSent
      <3>3. \A k \in 1..Len(cmds) : cmds[k].type = "nonce" =>
              /\ Before(cmds[k].round, cmds[k].page, round, page)
              /\ Before(cmds[k].round, cmds[k].page, round, page + 1)
        <4>1. \A k \in 1..Len(cmds) : cmds[k].type = "nonce" => cmds[k].page \in Nat
          BY <1>1, CommandKinds
        <4> QED BY <1>1, <3>1, <4>1 DEF Ordered, Before
      <3>4. Before(round, page, round, page + 1)
        BY <1>1 DEF Before
      <3>5. CASE cmds' = cmds
        BY <1>1, <3>1, <3>3, <3>5 DEF Ordered
      <3>6. CASE /\ Len(cmds') = Len(cmds) + 1 /\ cmds'[Len(cmds) + 1] = Nonce(round, page)
                 /\ \A k \in 1..Len(cmds) : cmds'[k] = cmds[k]
        <4>1. \A k \in 1..Len(cmds') : k \in 1..Len(cmds) \/ k = Len(cmds) + 1
          BY <1>1, <3>6
        <4>2. \A k, l \in 1..Len(cmds') :
                k < l => k \in 1..Len(cmds) /\ (l \in 1..Len(cmds) \/ l = Len(cmds) + 1)
          BY <1>1, <3>6
        <4> HIDE DEF Nonce
        <4>3. ASSUME NEW k \in 1..Len(cmds'), NEW l \in 1..Len(cmds'), k < l,
                     cmds'[k].type = "nonce", cmds'[l].type = "nonce"
              PROVE  Before(cmds'[k].round, cmds'[k].page, cmds'[l].round, cmds'[l].page)
          <5>1. CASE l \in 1..Len(cmds)
            BY <1>1, <3>6, <4>2, <4>3, <5>1 DEF Ordered
          <5>2. CASE l = Len(cmds) + 1
            BY <3>1, <3>3, <3>6, <4>2, <4>3, <5>2
          <5> QED BY <4>2, <4>3, <5>1, <5>2
        <4>4. \A k \in 1..Len(cmds') :
                cmds'[k].type = "nonce" => Before(cmds'[k].round, cmds'[k].page, round', page')
          BY <3>1, <3>3, <3>4, <3>6, <4>1
        <4> QED BY <4>3, <4>4
      <3> QED BY <3>2, <3>5, <3>6
    <2>3. CASE Serve
      BY <2>3, EmptySeq DEF Serve
    <2>4. CASE Receive
      <3>1. /\ \A k \in 1..Len(cmds') : k + 1 \in 1..Len(cmds) /\ cmds'[k] = cmds[k + 1]
            /\ UNCHANGED <<con, round, page>>
        BY <1>1, <2>4, CommandTaken, Received DEF consoleVars
      <3>2. \A k, l \in 1..Len(cmds') : k < l => k + 1 < l + 1
        BY <1>1
      <3> QED BY <1>1, <3>1, <3>2 DEF Ordered
    <2>5. CASE UNCHANGED <<round, page, cmds>> /\ (con' = "sending" => con = "sending")
      BY <1>1, <2>5 DEF Ordered
    <2>6. ASSUME GetState \/ GetSignature \/ UNCHANGED <<consoleVars, cmds>>
          PROVE  UNCHANGED <<round, page, cmds>> /\ (con' = "sending" => con = "sending")
      BY <2>6 DEF GetState, GetSignature, consoleVars
    <2> QED
      BY <2>1, <2>2, <2>3, <2>4, <2>5, <2>6, Zenon DEF Next, Console, Task, SignStart, SignEnd,
         Unplug, HandleReset, HandleNonce, SignReset, SignPage, PollSigning, PollReady,
         PollTimeout, FetchPage, Publish, EndReset, vars
  \* the page in hand
  <1>7. pc' = "page" => Past(cur.round, cur.page)'
    <2> SUFFICES ASSUME pc' = "page" PROVE Past(cur.round, cur.page)'
      OBVIOUS
    <2>1. CASE Receive
      <3>1. /\ 1 \in 1..Len(cmds) /\ UNCHANGED <<con, round, page>>
            /\ \A k \in 1..Len(cmds') : k + 1 \in 1..Len(cmds) /\ cmds'[k] = cmds[k + 1] /\ 1 < k + 1
        BY <1>1, <2>1, CommandTaken, Received DEF consoleVars
      <3>2. /\ cmds[1].type = "nonce"
            /\ cur'.round = cmds[1].round /\ cur'.page = cmds[1].page
        BY <1>1, <2>1, Received
      <3> QED BY <1>1, <3>1, <3>2 DEF Ordered, Past
    <2>2. CASE ~Receive
      <3>1. pc = "page" /\ cur' = cur
        BY <1>1, <2>2, InHandKept
      <3>2. Past(cur.round, cur.page) /\ cur.round <= round
        BY <1>1, <3>1 DEF Ordered, NoneAhead
      <3> QED BY <1>1, <3>1, <3>2, PastKept
    <2> QED BY <2>1, <2>2
  \* the pages that are kept
  <1>8. \A n \in NoncePages : Past(nonce[n], n)'
    <2>1. CASE UNCHANGED nonce
      BY <1>3, <2>1
    <2>2. CASE Receive /\ ~UNCHANGED nonce
      <3>1. /\ pc' = "page" /\ cur'.round = cmds[1].round /\ cur'.page = cmds[1].page
            /\ nonce' = [nonce EXCEPT ![cmds[1].page] = cmds[1].round]
        BY <1>1, <2>2, Received
      <3>2. \A n \in NoncePages :
              nonce'[n] = nonce[n] \/ (n = cur'.page /\ nonce'[n] = cur'.round)
        BY <1>1, <3>1 DEF TaskTypes
      <3> QED BY <1>3, <1>7, <3>1, <3>2 DEF Past
    <2>3. UNCHANGED nonce \/ (Receive /\ ~UNCHANGED nonce)
      BY Zenon DEF Next, Console, Task, GetReset, SetReport, GetState, GetSignature, SignStart,
         SignEnd, Serve, Unplug, HandleReset, HandleNonce, SignReset, SignPage, PollSigning,
         PollReady, PollTimeout, FetchPage, Publish, EndReset, vars, nonceVars
    <2> QED BY <2>1, <2>2, <2>3
  \* and those that the signer holds
  <1>9. \A n \in NoncePages : Done(held[n], n)'
    <2>1. CASE UNCHANGED held
      BY <1>4, <2>1
    <2>2. ASSUME UNCHANGED <<round, page, cmds, con>>, pc' # "page", NEW n \in NoncePages,
                 held'[n] \in {0, held[n]} \/ Past(held'[n], n)
          PROVE  Done(held[n], n)'
      <3>1. Past(held'[n], n)
        BY <1>1, <1>5, <2>2 DEF Ordered, Done
      <3> QED BY <2>2, <3>1 DEF Done, Past
    <2>3. CASE Unplug \/ HandleReset \/ SignReset \/ EndReset
      <3>1. UNCHANGED <<round, page, cmds, con>> /\ pc' # "page"
        BY <2>3 DEF Unplug, HandleReset, SignReset, EndReset, consoleVars
      <3>2. \A n \in NoncePages : held'[n] \in {0, held[n]}
        BY <2>3, WasReset DEF Unplug, HandleReset, SignReset, EndReset
      <3> QED BY <2>2, <3>1, <3>2
    <2>4. CASE HandleNonce
      <3>1. /\ UNCHANGED <<round, page, cmds, con>> /\ pc = "page" /\ pc' # "page"
            /\ \E ok \in BOOLEAN : SetNonce(cur.round, cur.page, ok)
        BY <2>4, Zenon DEF HandleNonce, consoleVars
      <3>2. cur.round \in 0..MaxRounds /\ Past(cur.round, cur.page)
        BY <1>1, <3>1 DEF TaskTypes, Ordered
      <3>3. CASE Load(cur.round, cur.page)
        <4>1. \A n \in NoncePages :
                held'[n] \in {0, held[n]} \/ (n = cur.page /\ held'[n] = cur.round)
          BY <1>1, <3>2, <3>3, Loaded
        <4> QED BY <2>2, <3>1, <3>2, <4>1
      <3> QED BY <2>1, <3>1, <3>3 DEF SetNonce, signerVars
    <2>5. CASE SignPage
      <3>1. /\ UNCHANGED <<round, page, cmds, con>> /\ pc = "signPages" /\ pc' # "page"
            /\ \E ok \in BOOLEAN : SetNonce(nonce[i], i, ok)
        BY <2>5, Zenon DEF SignPage, consoleVars
      <3>2. i \in NoncePages /\ nonce[i] \in 0..MaxRounds /\ Past(nonce[i], i)
        BY <1>1, <3>1 DEF TaskTypes, Shapes, Ordered
      <3>3. CASE Load(nonce[i], i)
        <4>1. \A n \in NoncePages :
                held'[n] \in {0, held[n]} \/ (n = i /\ held'[n] = nonce[i])
          BY <1>1, <3>2, <3>3, Loaded
        <4> QED BY <2>2, <3>1, <3>2, <4>1
      <3> QED BY <2>1, <3>1, <3>3 DEF SetNonce, signerVars
    <2>6. ASSUME FetchPage PROVE UNCHANGED held
      BY <1>1, <2>6, FetchCases
    <2> QED
      BY <2>1, <2>3, <2>4, <2>5, <2>6, Zenon DEF Next, Console, Task, GetReset, SetReport,
         GetState, GetSignature, SignStart, SignEnd, Serve, Receive, PollSigning, PollReady,
         PollTimeout, Publish, vars, signerVars
  <1> QED
    BY <1>6, <1>7, <1>8, <1>9 DEF Ordered

LEMMA ResentStep ==
  ASSUME AuthAssumption, Always, [Next]_vars
  PROVE  Resent'
  <1>1. Typed /\ NothingHeld /\ Noted /\ Resent /\ Shapes /\ TaskTypes
    BY DEF Always, Typed, TypeOK
  <1>2. /\ LAST_NONCE_PAGE \in Nat \ {0} /\ cur.page \in NoncePages
        /\ \A n \in NoncePages : n \in Nat /\ n <= LAST_NONCE_PAGE
    BY <1>1, Basics
  <1>3. CASE Serve
    BY <1>1, <1>3 DEF Serve, Resent, NothingHeld
  <1>4. CASE Unplug
    BY <1>4 DEF Unplug, Resent
  <1>5. CASE Receive
    BY <1>1, <1>5, Received DEF Resent
  <1>6. CASE HandleReset \/ Publish \/ EndReset \/ PollSigning \/ PollReady \/ PollTimeout
    BY <1>1, <1>6 DEF HandleReset, Publish, EndReset, PollSigning, PollReady, PollTimeout,
       Resent, nonceVars
  <1>7. CASE SignReset
    BY <1>1, <1>2, <1>7 DEF SignReset, Resent
  <1>8. CASE FetchPage
    BY <1>1, <1>8, FetchCases DEF SignAgain, Resent
  <1>9. CASE HandleNonce
    <2>1. PICK ok \in BOOLEAN :
            /\ pc = "page"
            /\ unsent' = IF ok THEN unsent \ {cur.page} ELSE unsent \cup {cur.page}
            /\ IF cur.page = LAST_NONCE_PAGE
               THEN pc' = IF nonceRefused \/ ~ok THEN "signReset" ELSE "poll"
               ELSE nonceRefused' = ((nonceRefused \/ ~ok) /\ cur.page # 0) /\ pc' = "recv"
      BY <1>9, Zenon DEF HandleNonce, Sent
    <2>2. cur.page = 0 => unsent \subseteq {0}
      BY <1>1, <2>1 DEF Noted
    <2> QED BY <1>1, <1>2, <2>1, <2>2 DEF Resent
  <1>10. CASE SignPage
    <2>1. PICK ok \in BOOLEAN :
            /\ pc = "signPages"
            /\ unsent' = IF ok THEN unsent \ {i} ELSE {}
            /\ IF ~ok THEN pc' = "recv" /\ i' = 0
               ELSE IF i < LAST_NONCE_PAGE THEN i' = i + 1 /\ pc' = pc
               ELSE pc' = "poll" /\ i' = 0
      BY <1>10, Zenon DEF SignPage
    <2>2. i \in NoncePages /\ unsent \subseteq NoncePages /\ \A n \in NoncePages : n < i => n \notin unsent
      BY <1>1, <2>1 DEF Resent, Shapes, TaskTypes
    <2> QED BY <1>2, <2>1, <2>2 DEF Resent
  <1>11. CASE UNCHANGED <<taskVars, nonceVars>>
    BY <1>1, <1>11 DEF Resent, taskVars, nonceVars
  <1> QED
    BY <1>3, <1>4, <1>5, <1>6, <1>7, <1>8, <1>9, <1>10, <1>11, Zenon DEF Next, Console, Task,
       GetReset, SetReport, GetState, GetSignature, SignStart, SignEnd, vars

\* A page that comes after another of an earlier round comes after all of that round.
LEMMA PastRound ==
  ASSUME AuthAssumption, Typed, NEW r \in Nat, NEW n \in Nat, NEW q \in Nat, NEW m \in Nat,
         r < q, Past(q, m)
  PROVE  Past(r, n)
  <1>1. \A k \in 1..Len(cmds) : cmds[k].type = "nonce" => cmds[k].round \in Nat
    BY Basics, CommandKinds DEF Rounds
  <1>2. \A k \in 1..Len(cmds) :
          cmds[k].type = "nonce" => Before(r, n, cmds[k].round, cmds[k].page)
    BY <1>1 DEF Past, Before
  <1>3. con = "sending" => Before(r, n, round, page)
    <2>1. round \in Nat
      BY Basics
    <2> QED BY <2>1 DEF Past, Before
  <1> QED
    BY <1>2, <1>3 DEF Past

\* What sending a page of the console's leaves: all that HandleNonce decides.
LEMMA Handled ==
  ASSUME AuthAssumption, Typed, HandleNonce
  PROVE  /\ pc = "page" /\ cur' = NoPage /\ cur.page \in NoncePages /\ cur.round \in Rounds
         /\ UNCHANGED <<i, fetched, nonce, consoleVars, stateVars, cmds>>
         /\ UNCHANGED <<sig, runs>>
         /\ held' # held => Load(cur.round, cur.page)
         /\ status' # status => Load(cur.round, cur.page)
         /\ \E ok \in BOOLEAN :
              /\ ok => Load(cur.round, cur.page)
              /\ unsent' = IF ok THEN unsent \ {cur.page} ELSE unsent \cup {cur.page}
              /\ replyLost' = IF ~ok /\ held' # held THEN replyLost \cup {cur.round}
                              ELSE replyLost
              /\ IF cur.page = LAST_NONCE_PAGE
                 THEN /\ nonceRefused' = FALSE /\ attempt' = 1
                      /\ pc' = IF nonceRefused \/ ~ok THEN "signReset" ELSE "poll"
                 ELSE /\ nonceRefused' = ((nonceRefused \/ ~ok) /\ cur.page # 0)
                      /\ pc' = "recv"
         /\ fault' = IF cur = [round |-> round, page |-> 0] /\ held'[0] # round
                     THEN "refused" ELSE fault
         /\ seen' = FALSE
  <1>1. PICK ok \in BOOLEAN :
          /\ SetNonce(cur.round, cur.page, ok)
          /\ Sent(cur.page, ok)
          /\ replyLost' = IF ~ok /\ held' # held THEN replyLost \cup {cur.round}
                          ELSE replyLost
          /\ fault' = IF cur = [round |-> round, page |-> 0] /\ held'[0] # round
                      THEN "refused" ELSE fault
          /\ IF cur.page = LAST_NONCE_PAGE
             THEN /\ nonceRefused' = FALSE /\ attempt' = 1
                  /\ pc' = IF nonceRefused \/ ~ok THEN "signReset" ELSE "poll"
             ELSE /\ nonceRefused' = ((nonceRefused \/ ~ok) /\ cur.page # 0)
                  /\ pc' = "recv"
    BY Zenon DEF HandleNonce
  <1>2. Load(cur.round, cur.page) \/ (~ok /\ UNCHANGED signerVars)
    BY <1>1 DEF SetNonce
  <1>3. UNCHANGED <<sig, runs>>
    BY <1>2 DEF Load, signerVars
  <1>4. /\ held' # held => Load(cur.round, cur.page)
        /\ status' # status => Load(cur.round, cur.page)
    BY <1>2 DEF signerVars
  <1>5. pc = "page" /\ cur.round \in Rounds /\ cur.page \in NoncePages
    BY Basics DEF HandleNonce, Typed, Shapes
  <1> QED
    BY <1>1, <1>2, <1>3, <1>4, <1>5, Zenon DEF HandleNonce, Sent

LEMMA MissedStep ==
  ASSUME AuthAssumption, Always, [Next]_vars
  PROVE  Missed'
  <1>1. /\ Typed /\ NoneAhead /\ Noted /\ Ordered /\ Missed /\ SignerTypes
        /\ 0 \in NoncePages /\ LAST_NONCE_PAGE \in Nat /\ round \in Nat
        /\ \A n \in NoncePages : n \in Nat /\ held[n] \in Nat /\ held[n] <= round
    BY Basics DEF Always, Typed, TypeOK, NoneAhead
  <1>2. \A n \in Nat : Done(held[0], n) => Done(held[0], n)'
                       \/ held'[0] # held[0]
    BY <1>1, DoneKept
  <1>3. CASE ~nonceRefused' \/ held'[0] = 0
    BY <1>3 DEF Missed, Rounds
  <1>4. CASE UNCHANGED <<held, nonceRefused, replyLost>>
    BY <1>1, <1>2, <1>4 DEF Missed
  <1>5. ASSUME HandleReset \/ SignReset \/ EndReset
        PROVE  UNCHANGED <<held, nonceRefused, replyLost>> \/ held'[0] = 0
    BY <1>1, <1>5, WasReset DEF HandleReset, SignReset, EndReset, nonceVars, historyVars
  <1>6. ASSUME Unplug PROVE held'[0] = 0
    BY <1>1, <1>6 DEF Unplug
  <1>7. ASSUME SignPage PROVE ~nonceRefused'
    BY <1>1, <1>7 DEF SignPage, Noted, Signing, nonceVars
  <1>8. CASE HandleNonce
    <2>1. PICK ok \in BOOLEAN :
            /\ replyLost' = IF ~ok /\ held' # held THEN replyLost \cup {cur.round} ELSE replyLost
            /\ IF cur.page = LAST_NONCE_PAGE
               THEN nonceRefused' = FALSE
               ELSE nonceRefused' = ((nonceRefused \/ ~ok) /\ cur.page # 0) /\ pc' = "recv"
      BY <1>1, <1>8, Handled
    <2>2. /\ pc = "page" /\ cur.page \in NoncePages /\ cur.round \in 0..MaxRounds
          /\ cur.round \in Nat /\ UNCHANGED <<con, round, page, cmds>>
          /\ Past(cur.round, cur.page)
          /\ held' # held => Load(cur.round, cur.page)
      BY <1>1, <1>8, Handled, Basics DEF Rounds, consoleVars, Ordered
    <2>3. CASE cur.page \in {0, LAST_NONCE_PAGE}
      BY <1>3, <2>1, <2>3
    <2>4. CASE cur.page \notin {0, LAST_NONCE_PAGE}
      <3> SUFFICES ASSUME nonceRefused', held'[0] \in Rounds \ replyLost',
                          ~Done(held[0], LAST_NONCE_PAGE)', held'[0] = held[0]
                   PROVE  \E n \in NoncePages : Done(held[0], n)' /\ held'[n] # held[0]
        <4>1. held'[0] = held[0]
          BY <1>1, <2>2, <2>4, Loaded
        <4> QED BY <4>1 DEF Missed, Done, Past
      <3>1. \A n \in NoncePages : held'[n] = held[n] \/ (n = cur.page /\ held'[n] = cur.round)
        BY <1>1, <2>2, <2>4, Loaded
      <3>2. \A n \in Nat : Past(held[0], n) => Done(held[0], n)'
        BY <2>1, <2>2, <2>4 DEF Done, Past
      <3>3. replyLost \subseteq replyLost'
        BY <2>1
      <3>4. CASE nonceRefused
        <4>1. ~Done(held[0], LAST_NONCE_PAGE)
          BY <1>1, <1>2
        <4>2. PICK n \in NoncePages : Done(held[0], n) /\ held[n] # held[0]
          BY <1>1, <3>3, <3>4, <4>1 DEF Missed
        <4>3. n = cur.page => held[0] # cur.round
          BY <1>1, <2>2, <4>2 DEF Done, Before
        <4>4. Done(held[0], n)' /\ held'[n] # held[0]
          BY <1>1, <1>2, <3>1, <4>2, <4>3
        <4> QED BY <4>4
      <3>5. CASE ~nonceRefused
        <4>1. ~ok
          BY <2>1, <2>4, <3>5
        <4>2. Done(held[0], 0) /\ Done(held[cur.page], cur.page)
          BY <1>1, <2>2 DEF Ordered
        <4>3. held[0] <= cur.round /\ held[cur.page] < cur.round
          BY <1>1, <2>2, <4>2 DEF Done, Before
        <4>4. ~(held[0] < cur.round)
          BY <1>1, <2>2, <3>2, PastRound
        <4>5. held[0] = cur.round
          BY <1>1, <2>2, <4>3, <4>4
        <4>6. held' = held
          BY <2>1, <4>1, <4>5
        <4>7. PICK c \in NoncePages : c = cur.page
          BY <2>2
        <4>8. Done(held[0], c)' /\ held'[c] # held[0]
          BY <1>1, <2>2, <3>2, <4>3, <4>5, <4>6, <4>7
        <4> QED BY <4>8
      <3> QED BY <3>4, <3>5
    <2> QED BY <2>3, <2>4
  <1>9. ASSUME FetchPage PROVE UNCHANGED <<held, nonceRefused, replyLost>>
    BY <1>1, <1>9, FetchCases DEF nonceVars, historyVars
  <1>10. ASSUME Receive PROVE UNCHANGED <<held, nonceRefused, replyLost>>
    BY <1>1, <1>10, Received DEF signerVars, historyVars
  <1> QED
    BY <1>3, <1>4, <1>5, <1>6, <1>7, <1>8, <1>9, <1>10, Zenon DEF Next, Console, Task, GetReset,
       SetReport, GetState, GetSignature, SignStart, SignEnd, Serve, PollSigning, PollReady,
       PollTimeout, Publish, vars, signerVars, nonceVars, historyVars

\* What the runs of a round become.
LEMMA SpentType ==
  ASSUME AuthAssumption, Typed
  PROVE  \A r \in Rounds : Spent(r) \in Nat /\ Lost(r) \in {0, 1} /\ runs[r] \in Nat
                           /\ Due(r) \in {0, 1}
  BY Basics DEF Spent, Due, Lost

LEMMA SpentKept ==
  ASSUME AuthAssumption, Typed, UNCHANGED runs,
         status' = "loaded" => status = "loaded" /\ held'[0] = held[0]
  PROVE  \A r \in Rounds : Spent(r)' \in Nat /\ Spent(r)' <= Spent(r)
  <1> SUFFICES ASSUME NEW r \in Rounds PROVE Spent(r)' \in Nat /\ Spent(r)' <= Spent(r)
    OBVIOUS
  <1>1. runs[r] \in Nat
    BY SpentType
  <1> QED
    BY <1>1 DEF Spent, Due

LEMMA SpentLoaded ==
  ASSUME AuthAssumption, Typed, NEW q \in 0..MaxRounds, NEW n \in NoncePages, Load(q, n)
  PROVE  \A r \in Rounds :
           /\ Spent(r)' \in Nat /\ Spent(r)' <= Spent(r) + 1
           /\ \/ Spent(r)' <= Spent(r)
              \/ n = LAST_NONCE_PAGE /\ r = q /\ \A m \in NoncePages : held'[m] = q
  <1> SUFFICES ASSUME NEW r \in Rounds
               PROVE  /\ Spent(r)' \in Nat /\ Spent(r)' <= Spent(r) + 1
                      /\ \/ Spent(r)' <= Spent(r)
                         \/ n = LAST_NONCE_PAGE /\ r = q /\ \A m \in NoncePages : held'[m] = q
    OBVIOUS
  <1>1. runs[r] \in Nat /\ Due(r) \in {0, 1} /\ Due(r)' \in {0, 1} /\ UNCHANGED runs
        /\ 0 \in NoncePages
    BY SpentType, Loaded, Basics DEF Due
  <1>2. Spent(r) = runs[r] + Due(r) /\ Spent(r)' = runs[r] + Due(r)'
    BY <1>1 DEF Spent
  <1>3. \/ Due(r)' = 0 \/ Due(r)' = Due(r)
        \/ n = LAST_NONCE_PAGE /\ r = q /\ \A m \in NoncePages : held'[m] = q
    BY <1>1, Loaded DEF Due
  <1> QED
    BY <1>1, <1>2, <1>3

\* A step that neither begins to sign nor has another last page keeps the budget.
LEMMA BudgetFrame ==
  ASSUME AuthAssumption, Always, UNCHANGED Last, replyLost \subseteq replyLost',
         \A r \in Rounds : Spent(r)' \in Nat /\ Spent(r)' <= Spent(r),
         pc' = "page" /\ cur'.page = LAST_NONCE_PAGE => pc = "page" /\ cur.page = LAST_NONCE_PAGE,
         Signing' => Signing /\ UNCHANGED attempt,
         pc' \in {"signReset", "signPages"} => pc \in {"signReset", "signPages"}
  PROVE  Budget'
  <1>1. /\ Typed /\ Noted /\ Shapes /\ Budget /\ TaskTypes
        /\ \A r \in Rounds : Spent(r) \in Nat /\ Lost(r) \in {0, 1}
    BY SpentType DEF Always, Typed, TypeOK
  <1>2. attempt \in Nat /\ SIGN_ATTEMPTS \in Nat
    BY <1>1 DEF TaskTypes, AuthAssumption
  <1>3. \A r \in Rounds : Lost(r)' \in {0, 1} /\ Lost(r) <= Lost(r)'
    BY <1>1 DEF Lost
  <1>4. pc = "page" /\ cur.page = LAST_NONCE_PAGE => Last \in Rounds /\ Spent(Last) = 0
    BY <1>1 DEF Noted, Last, Shapes, Budget
  <1>5. \A r \in Rounds : r > Last' => Spent(r)' = 0
    BY <1>1 DEF Budget
  <1>6. pc' = "page" /\ cur'.page = LAST_NONCE_PAGE => Spent(Last)' = 0
    BY <1>1, <1>4
  <1>7. Signing' => Last' \in Rounds /\ attempt' >= 1 /\ Spent(Last)' <= attempt' + Lost(Last)'
    BY <1>1, <1>2, <1>3 DEF Budget
  <1>8. pc' \in {"signReset", "signPages"} => Spent(Last)' < attempt' + Lost(Last)'
    BY <1>1, <1>2, <1>3 DEF Budget, Signing
  <1>9. \A r \in Rounds : Spent(r)' <= SIGN_ATTEMPTS + Lost(r)'
    BY <1>1, <1>2, <1>3 DEF Budget
  <1> QED
    BY <1>5, <1>6, <1>7, <1>8, <1>9 DEF Budget

\* The last page of a nonce makes its round due at most; not at all if it is to
\* be signed again, unless a reply of that round was lost.
LEMMA BudgetOpened ==
  ASSUME AuthAssumption, Always, HandleNonce, cur.page = LAST_NONCE_PAGE
  PROVE  Budget'
  <1>1. /\ Typed /\ Noted /\ Budget /\ TaskTypes /\ Ordered /\ Missed
        /\ \A r \in Rounds : Spent(r) \in Nat /\ Lost(r) \in {0, 1}
        /\ LAST_NONCE_PAGE \in NoncePages \ {0} /\ LAST_NONCE_PAGE \in Nat /\ 0 \in NoncePages
        /\ \A n \in NoncePages : n \in Nat /\ held[n] \in Nat
    BY SpentType, Basics DEF Always, Typed, TypeOK
  <1>2. PICK ok \in BOOLEAN :
          /\ replyLost' = IF ~ok /\ held' # held THEN replyLost \cup {cur.round} ELSE replyLost
          /\ attempt' = 1
          /\ pc' = IF nonceRefused \/ ~ok THEN "signReset" ELSE "poll"
    BY <1>1, Handled
  <1>3. PICK x \in Rounds : x = cur.round
    BY <1>1, Handled
  <1>4. /\ pc = "page" /\ x \in 0..MaxRounds /\ x \in Nat
        /\ Last = x /\ Last' = x /\ UNCHANGED runs
        /\ held' # held => Load(x, LAST_NONCE_PAGE)
        /\ status' # status => Load(x, LAST_NONCE_PAGE)
    BY <1>1, <1>3, Handled DEF Last, Noted, Rounds
  <1>5. \A r \in Rounds :
          /\ Spent(r)' \in Nat /\ Spent(r)' <= Spent(r) + 1
          /\ \/ Spent(r)' <= Spent(r)
             \/ /\ r = x /\ Load(x, LAST_NONCE_PAGE)
                /\ \A m \in NoncePages : held'[m] = x
    <2>1. CASE Load(x, LAST_NONCE_PAGE)
      BY <1>1, <1>4, <2>1, SpentLoaded
    <2>2. CASE UNCHANGED <<held, status>>
      BY <1>1, <1>4, <2>2, SpentKept
    <2> QED BY <1>4, <2>1, <2>2
  <1>6. Spent(x) = 0 /\ Spent(x)' \in {0, 1}
    BY <1>1, <1>4, <1>5 DEF Budget
  <1>7. \A r \in Rounds : Lost(r)' \in {0, 1} /\ Lost(r) <= Lost(r)'
    BY <1>1, <1>2 DEF Lost
  <1>8. ASSUME pc' = "signReset", Load(x, LAST_NONCE_PAGE), \A m \in NoncePages : held'[m] = x
        PROVE  x \in replyLost'
    <2>1. held[LAST_NONCE_PAGE] # x /\ ~Done(x, LAST_NONCE_PAGE)
      BY <1>1, <1>3, <1>4 DEF Ordered, Done, Before
    <2>2. CASE ~ok
      BY <1>1, <1>2, <1>3, <1>8, <2>1, <2>2
    <2>3. CASE nonceRefused /\ x \notin replyLost
      <3>1. \A m \in NoncePages : m # LAST_NONCE_PAGE => held[m] = x
        BY <1>1, <1>4, <1>8, Loaded
      <3>2. PICK n \in NoncePages : Done(x, n) /\ held[n] # x
        BY <1>1, <2>1, <2>3, <3>1 DEF Missed
      <3> QED BY <2>1, <3>1, <3>2
    <2>4. replyLost \subseteq replyLost'
      BY <1>2
    <2> QED BY <1>2, <1>8, <2>2, <2>3, <2>4
  <1>9. pc' = "signReset" => Spent(x)' < 1 + Lost(x)'
    <2>1. x \in replyLost' => Lost(x)' = 1
      BY DEF Lost
    <2> QED BY <1>5, <1>6, <1>7, <1>8, <2>1
  <1>10. \A r \in Rounds : r > Last' => Spent(r)' = 0
    BY <1>1, <1>4, <1>5 DEF Budget
  <1>11. \A r \in Rounds : Spent(r)' <= SIGN_ATTEMPTS + Lost(r)'
    <2> SUFFICES ASSUME NEW r \in Rounds PROVE Spent(r)' <= SIGN_ATTEMPTS + Lost(r)'
      OBVIOUS
    <2>1. SIGN_ATTEMPTS \in Nat \ {0} /\ Spent(r) <= SIGN_ATTEMPTS + Lost(r)
      BY <1>1 DEF AuthAssumption, Budget
    <2>2. CASE r = x
      BY <1>6, <1>7, <2>1, <2>2
    <2>3. CASE r # x
      BY <1>1, <1>5, <1>7, <2>1, <2>3
    <2> QED BY <2>2, <2>3
  <1>12. Spent(x)' <= 1 + Lost(x)'
    BY <1>6, <1>7
  <1>13. attempt' = 1 /\ pc' \in {"signReset", "poll"}
    BY <1>2
  <1> QED
    BY <1>4, <1>9, <1>10, <1>11, <1>12, <1>13 DEF Budget

LEMMA BudgetStep ==
  ASSUME AuthAssumption, Always, [Next]_vars
  PROVE  Budget'
  <1>1. /\ Typed /\ Shapes /\ TaskTypes /\ SignerTypes /\ Noted /\ Ordered /\ Budget
        /\ LAST_NONCE_PAGE \in NoncePages /\ LAST_NONCE_PAGE \in Nat
        /\ attempt \in Nat /\ attempt <= SIGN_ATTEMPTS /\ SIGN_ATTEMPTS \in Nat \ {0}
        /\ \A r \in Rounds : Spent(r) \in Nat /\ Lost(r) \in {0, 1}
        /\ \A n \in NoncePages : n \in Nat /\ n <= LAST_NONCE_PAGE /\ nonce[n] \in Nat
    <2>1. /\ Typed /\ Shapes /\ TaskTypes /\ SignerTypes /\ Noted /\ Ordered /\ Budget
          /\ HistoryTypes
      BY DEF Always, Typed, TypeOK
    <2>2. /\ LAST_NONCE_PAGE \in NoncePages /\ LAST_NONCE_PAGE \in Nat
          /\ \A n \in NoncePages : n \in Nat /\ n <= LAST_NONCE_PAGE
      BY <2>1, AuthAssumption, Basics
    <2>3. SIGN_ATTEMPTS \in Nat \ {0} /\ MaxRounds \in Nat
      BY AuthAssumption DEF AuthAssumption
    <2>4. attempt \in 0..SIGN_ATTEMPTS /\ nonce \in [NoncePages -> 0..MaxRounds]
      BY <2>1 DEF TaskTypes
    <2>5. attempt \in Nat /\ attempt <= SIGN_ATTEMPTS
      BY <2>3, <2>4
    <2>6. \A n \in NoncePages : nonce[n] \in Nat
      BY <2>3, <2>4
    <2>7. \A r \in Rounds : Spent(r) \in Nat /\ Lost(r) \in {0, 1}
      BY <2>1, AuthAssumption, SpentType
    <2> QED BY <2>1, <2>2, <2>3, <2>5, <2>6, <2>7
  <1>2. ASSUME UNCHANGED runs, status' = "loaded" => status = "loaded" /\ held'[0] = held[0]
        PROVE  \A r \in Rounds : Spent(r)' \in Nat /\ Spent(r)' <= Spent(r)
    BY <1>1, <1>2, SpentKept
  <1>3. CASE \/ Serve \/ GetReset \/ SetReport \/ GetState \/ GetSignature \/ PollSigning
             \/ PollReady \/ PollTimeout \/ Publish \/ UNCHANGED vars
    <2>1. /\ UNCHANGED <<nonce, replyLost, held, status, runs>>
          /\ pc' = "page" => pc = "page" /\ UNCHANGED cur
          /\ Signing' => Signing /\ UNCHANGED attempt
          /\ pc' \in {"signReset", "signPages"} => pc \in {"signReset", "signPages"}
      BY <1>3, Zenon DEF Serve, GetReset, SetReport, GetState, GetSignature, PollSigning, PollReady,
         PollTimeout, Publish, vars, taskVars, nonceVars, signerVars, historyVars, Signing
    <2> QED BY <1>2, <2>1, BudgetFrame DEF Last
  <1>4. CASE Unplug
    BY <1>2, <1>4, BudgetFrame DEF Unplug, Last, nonceVars, historyVars, Signing
  <1>5. CASE HandleReset \/ SignReset \/ EndReset
    <2>1. /\ UNCHANGED <<nonce, replyLost, attempt>> /\ ResetSigner
          /\ pc' # "page" /\ (Signing' => Signing)
          /\ pc' \in {"signReset", "signPages"} => pc \in {"signReset", "signPages"}
      BY <1>5 DEF HandleReset, SignReset, EndReset, Signing, nonceVars, historyVars
    <2>2. UNCHANGED runs /\ (status' = "loaded" => status = "loaded" /\ held'[0] = held[0])
      BY <1>1, <2>1, WasReset
    <2> QED BY <1>2, <2>1, <2>2, BudgetFrame DEF Last
  <1>6. CASE SignStart
    <2>1. /\ status = "loaded" /\ status' = "signing"
          /\ UNCHANGED <<nonce, replyLost, held, pc, cur, attempt>>
          /\ runs' = [runs EXCEPT ![held[0]] = IF @ < RunCap THEN @ + 1 ELSE @]
      BY <1>6 DEF SignStart, taskVars, nonceVars, historyVars
    <2>2. ASSUME NEW r \in Rounds PROVE Spent(r)' \in Nat /\ Spent(r)' <= Spent(r)
      <3>1. runs[r] \in Nat /\ runs \in [Rounds -> 0..RunCap]
        BY <1>1, SpentType DEF SignerTypes
      <3>2. Due(r)' = 0 /\ runs'[r] \in Nat /\ Due(r) = IF held[0] = r THEN 1 ELSE 0
        BY <2>1, <3>1 DEF Due
      <3>3. runs'[r] <= runs[r] + (IF held[0] = r THEN 1 ELSE 0)
        BY <2>1, <3>1
      <3> QED BY <3>1, <3>2, <3>3 DEF Spent
    <2> QED BY <2>1, <2>2, BudgetFrame DEF Last, Signing
  <1>7. CASE SignEnd
    <2>1. status' = "ready" /\ UNCHANGED <<nonce, replyLost, runs, pc, cur, attempt>>
      BY <1>7 DEF SignEnd, taskVars, nonceVars, historyVars
    <2> QED BY <1>2, <2>1, BudgetFrame DEF Last, Signing
  <1>8. CASE Receive
    <2>1. /\ pc' \in {"reset", "page"} /\ UNCHANGED <<held, status, runs, replyLost>>
      BY <1>1, <1>8, Received DEF signerVars, historyVars
    <2>2. \A r \in Rounds : Spent(r)' = Spent(r) /\ Lost(r)' = Lost(r)
      BY <2>1 DEF Spent, Due, Lost
    <2>3. CASE UNCHANGED Last /\ ~(pc' = "page" /\ cur'.page = LAST_NONCE_PAGE)
      BY <1>2, <2>1, <2>3, BudgetFrame DEF Signing
    <2>4. CASE pc' = "page" /\ cur'.page = LAST_NONCE_PAGE
      <3>1. /\ cmds[1].type = "nonce" /\ cmds[1].round \in Rounds /\ cmds[1].round \in Nat
            /\ cmds[1].page = LAST_NONCE_PAGE /\ 1 \in 1..Len(cmds)
            /\ Last' = cmds[1].round
        BY <1>1, <1>8, <2>4, Received, CommandTaken DEF TaskTypes, Last, Rounds
      <3>2. Before(Last, LAST_NONCE_PAGE, cmds[1].round, LAST_NONCE_PAGE)
        BY <1>1, <3>1 DEF Ordered, Past, Last
      <3>3. Last < cmds[1].round /\ Last \in Nat
        BY <1>1, <3>2 DEF Before, Last
      <3>4. \A r \in Rounds : r >= cmds[1].round => Spent(r)' = 0
        BY <1>1, <2>2, <3>1, <3>3 DEF Budget, Rounds
      <3>5. Spent(Last)' = 0 /\ \A r \in Rounds : r > Last' => Spent(r)' = 0
        BY <3>1, <3>4 DEF Rounds
      <3>6. \A r \in Rounds : Spent(r)' <= SIGN_ATTEMPTS + Lost(r)'
        BY <1>1, <2>2 DEF Budget
      <3> QED BY <2>4, <3>5, <3>6 DEF Budget, Signing
    <2>5. \/ UNCHANGED Last /\ ~(pc' = "page" /\ cur'.page = LAST_NONCE_PAGE)
          \/ pc' = "page" /\ cur'.page = LAST_NONCE_PAGE
      BY <1>1, <1>8, Received DEF TaskTypes, Last
    <2> QED BY <2>3, <2>4, <2>5
  <1>9. CASE HandleNonce
    <2>1. CASE cur.page # LAST_NONCE_PAGE
      <3>1. /\ pc' = "recv" /\ UNCHANGED <<nonce, runs>> /\ replyLost \subseteq replyLost'
            /\ cur.round \in 0..MaxRounds /\ cur.page \in NoncePages
            /\ held' # held => Load(cur.round, cur.page)
            /\ status' # status => Load(cur.round, cur.page)
        BY <1>1, <1>9, <2>1, Handled DEF TaskTypes
      <3>2. CASE Load(cur.round, cur.page)
        <4>1. \A r \in Rounds : Spent(r)' \in Nat /\ Spent(r)' <= Spent(r)
          BY <1>1, <2>1, <3>1, <3>2, SpentLoaded
        <4> QED BY <3>1, <4>1, BudgetFrame DEF Last, Signing
      <3>3. CASE UNCHANGED <<held, status>>
        BY <1>2, <3>1, <3>3, BudgetFrame DEF Last, Signing
      <3> QED BY <3>1, <3>2, <3>3
    <2> QED BY <1>9, <2>1, BudgetOpened
  <1>10. CASE SignPage
    <2>1. /\ pc = "signPages" /\ i \in NoncePages /\ nonce[i] \in 0..MaxRounds
          /\ UNCHANGED <<nonce, attempt, replyLost>>
      BY <1>1, <1>10 DEF SignPage, Shapes, TaskTypes, nonceVars, historyVars
    <2>2. PICK ok \in BOOLEAN :
            /\ SetNonce(nonce[i], i, ok)
            /\ pc' \in {"recv", "signPages", "poll"}
            /\ pc' = "signPages" => i < LAST_NONCE_PAGE
      BY <1>10, <2>1, Zenon DEF SignPage
    <2>3. /\ Last \in Rounds /\ attempt >= 1 /\ Spent(Last) < attempt + Lost(Last)
          /\ UNCHANGED Last
      BY <1>1, <2>1 DEF Budget, Signing, Last
    <2>4. \A r \in Rounds :
            /\ Spent(r)' \in Nat /\ Spent(r)' <= Spent(r) + 1
            /\ Spent(r)' <= Spent(r) \/ (i = LAST_NONCE_PAGE /\ r = Last)
      <3>1. CASE Load(nonce[i], i)
        BY <1>1, <2>1, <3>1, SpentLoaded DEF Last
      <3>2. CASE UNCHANGED signerVars
        BY <1>1, <1>2, <3>2 DEF signerVars
      <3> QED BY <2>2, <3>1, <3>2 DEF SetNonce
    <2>5. \A r \in Rounds : Lost(r)' = Lost(r)
      BY <2>1 DEF Lost
    <2>6. Spent(Last)' <= attempt' + Lost(Last)'
      BY <1>1, <2>1, <2>3, <2>4, <2>5
    <2>7. pc' = "signPages" => Spent(Last)' < attempt' + Lost(Last)'
      BY <1>1, <2>1, <2>2, <2>3, <2>4, <2>5
    <2>8. \A r \in Rounds : Spent(r)' <= SIGN_ATTEMPTS + Lost(r)'
      <3> SUFFICES ASSUME NEW r \in Rounds PROVE Spent(r)' <= SIGN_ATTEMPTS + Lost(r)'
        OBVIOUS
      <3>1. Spent(r) <= SIGN_ATTEMPTS + Lost(r)
        BY <1>1 DEF Budget
      <3>2. CASE r = Last
        BY <1>1, <2>3, <2>4, <2>5, <3>2
      <3>3. CASE r # Last
        BY <1>1, <2>4, <2>5, <3>1, <3>3
      <3> QED BY <3>2, <3>3
    <2>9. \A r \in Rounds : r > Last' => Spent(r)' = 0
      <3>1. Last \in Nat
        BY <1>1 DEF Last
      <3> QED BY <1>1, <2>3, <2>4, <3>1 DEF Budget, Rounds
    <2> QED BY <2>1, <2>2, <2>3, <2>6, <2>7, <2>8, <2>9 DEF Budget, Signing
  <1>11. CASE FetchPage
    <2>1. /\ pc = "fetch" /\ UNCHANGED <<nonce, held, status, runs, replyLost>>
      BY <1>1, <1>11, FetchCases DEF nonceVars, historyVars
    <2>2. \A r \in Rounds : Spent(r)' \in Nat /\ Spent(r)' <= Spent(r)
      BY <1>2, <2>1
    <2>3. CASE UNCHANGED attempt /\ pc' \in {"fetch", "publish", "endReset"}
      BY <2>1, <2>2, <2>3, BudgetFrame DEF Signing, Last
    <2>4. CASE attempt < SIGN_ATTEMPTS /\ attempt' = attempt + 1 /\ pc' = "signReset"
      <3>1. /\ Last \in Rounds /\ UNCHANGED Last
            /\ Spent(Last) <= attempt + Lost(Last) /\ attempt >= 1
        BY <1>1, <2>1 DEF Budget, Signing, Last
      <3>2. \A r \in Rounds : Lost(r)' = Lost(r)
        BY <2>1 DEF Lost
      <3>3. Spent(Last)' < attempt' + Lost(Last)' /\ attempt' >= 1
        BY <1>1, <2>2, <2>4, <3>1, <3>2
      <3>4. \A r \in Rounds : Spent(r)' <= SIGN_ATTEMPTS + Lost(r)'
        BY <1>1, <2>2, <3>2 DEF Budget
      <3>5. Spent(Last)' <= attempt' + Lost(Last)'
        BY <1>1, <2>2, <2>4, <3>1, <3>2
      <3>6. \A r \in Rounds : r > Last' => Spent(r)' = 0
        BY <1>1, <2>2, <3>1 DEF Budget
      <3> QED BY <2>4, <3>1, <3>3, <3>4, <3>5, <3>6 DEF Budget
    <2>5. \/ UNCHANGED attempt /\ pc' \in {"fetch", "publish", "endReset"}
          \/ attempt < SIGN_ATTEMPTS /\ attempt' = attempt + 1 /\ pc' = "signReset"
      BY <1>1, <1>11, FetchCases DEF SignAgain
    <2> QED BY <2>3, <2>4, <2>5
  <1> QED
    BY <1>3, <1>4, <1>5, <1>6, <1>7, <1>8, <1>9, <1>10, <1>11, Zenon DEF Next, Console, Task

LEMMA AlwaysStep ==
  ASSUME AuthAssumption, Always, [Next]_vars
  PROVE  Always'
  BY TypedStep, NoneAheadStep, NothingHeldStep, NotedStep, OrderedStep, ResentStep, MissedStep,
     BudgetStep, Zenon DEF Always

LEMMA AlwaysInit == ASSUME AuthAssumption, Init PROVE Always
  <1>1. Typed /\ Len(cmds) = 0 /\ 0 \in NoncePages
    BY TypeInit, EmptySeq DEF Init, NoncePages, AuthAssumption
  <1>2. NoneAhead /\ NothingHeld /\ Noted /\ Ordered
    BY <1>1 DEF Init, NoneAhead, NothingHeld, Noted, Signing, Ordered, Done, Past, NoPage
  <1>3. Resent /\ Missed
    BY <1>1 DEF Init, Resent, Missed
  <1>4. Budget
    BY <1>1 DEF Init, Budget, Spent, Due, Lost, Signing, AuthAssumption
  <1> QED
    BY <1>1, <1>2, <1>3, <1>4 DEF Always

LEMMA AlwaysHolds == Spec => []Always
  <1>1. Init => Always
    BY AlwaysInit, AuthAssumption
  <1>2. Always /\ [Next]_vars => Always'
    BY AlwaysStep, AuthAssumption
  <1> QED
    BY <1>1, <1>2, PTL DEF Spec

(***************************************************************************)
(* A nonce page that the signer refused, other than the first, has been    *)
(* sent again by the time its signature is waited for, whatever pages CMD  *)
(* dropped, however the console's rounds overlap the signing and whatever  *)
(* the signer refuses: NONCE_REFUSED misses none of them.                  *)
(***************************************************************************)
THEOREM LaterAreResent == Spec => []LaterPagesResent
  <1>1. Always => LaterPagesResent
    BY DEF Always, Resent, LaterPagesResent
  <1> QED
    BY <1>1, AlwaysHolds, PTL

(***************************************************************************)
(* The signer makes at most SIGN_ATTEMPTS runs for a console nonce, and    *)
(* one more if it took a page of the console's and the reply was lost;     *)
(* with any number of rounds, overlapping or not, and any capacity of CMD. *)
(***************************************************************************)
THEOREM SigningIsBounded == Spec => []SigningBudget
  <1>1. Always => SigningBudget
    <2> SUFFICES ASSUME Always PROVE SigningBudget
      OBVIOUS
    <2>1. Typed /\ Budget
      BY DEF Always
    <2>2. \A r \in Rounds : Spent(r) <= SIGN_ATTEMPTS + Lost(r)
      BY <2>1 DEF Budget
    <2>3. \A r \in Rounds : runs[r] \in Nat /\ Spent(r) >= runs[r]
      BY <2>1, SpentType, AuthAssumption DEF Spent
    <2>4. SIGN_ATTEMPTS \in Nat
      BY AuthAssumption DEF AuthAssumption
    <2> QED BY <2>1, <2>2, <2>3, <2>4, SpentType, AuthAssumption DEF SigningBudget, Lost
  <1> QED
    BY <1>1, AlwaysHolds, PTL

-----------------------------------------------------------------------------
(* What holds of a round that is not at fault *)

\* What comes from the console's present round.
Mine(cmd) == cmd.type = "nonce" /\ cmd.round = round
CurMine == pc = "page" /\ cur.round = round

\* Pages of that round which the signer has not been sent: the console sends
\* them yet, they are queued, or the task is about to.
Pending(n) ==
  \/ con = "sending" /\ page <= n
  \/ \E k \in 1..Len(cmds) : Mine(cmds[k]) /\ cmds[k].page = n
  \/ CurMine /\ cur.page = n

Sending == Pending(LAST_NONCE_PAGE)
Begun == ~Pending(0)

\* The pages of the present round are behind everything else, in order; a last
\* page is of that round, so nothing is behind it.
InOrder ==
  /\ \A k, l \in 1..Len(cmds) :
       k < l /\ Mine(cmds[k]) => Mine(cmds[l]) /\ cmds[k].page < cmds[l].page
  /\ \A k \in 1..Len(cmds) : Mine(cmds[k]) => cmds[k].page < page
  /\ \A k \in 1..Len(cmds) :
       cmds[k].type = "nonce" /\ cmds[k].page = LAST_NONCE_PAGE => Mine(cmds[k])
  /\ CurMine => /\ cur.page < page
                /\ \A k \in 1..Len(cmds) : Mine(cmds[k]) /\ cur.page < cmds[k].page
  /\ pc = "page" /\ cur.page = LAST_NONCE_PAGE => CurMine
  /\ Signing => /\ cmds = <<>> /\ con # "sending"
                /\ round # 0 /\ nonce[LAST_NONCE_PAGE] = round

\* Nothing before the present round's pages is left to do.
NoneOlder ==
  /\ \A k \in 1..Len(cmds) : Mine(cmds[k])
  /\ pc # "reset" /\ (pc = "page" => CurMine)

\* Once a page of the round has been sent on.
Collected == (\E n \in NoncePages : ~Pending(n)) => NoneOlder

\* The task has had every page of the round, and will have the others ...
Complete ==
  /\ con = "sending" => Len(cmds) + LAST_NONCE_PAGE + 1 <= CmdCap + page
  /\ \A n \in NoncePages : Pending(n) \/ (Begun /\ nonce[n] = round)
  /\ Sending => \A n \in NoncePages : Pending(n) \/ nonceRefused \/ held[n] = round

\* ... or the signer has come in the middle of it, and has signed nothing else.
Own == sig \in {0, round}
Fresh == NoneOlder /\ Own /\ (status # "ready" => held[0] = round)

\* What it has while sign is under way: what sign has sent; then the whole nonce,
\* or no signature of another one; then only that nonce's signature.
Signed ==
  /\ pc = "signPages" =>
       /\ \A n \in NoncePages : n < i => held[n] = nonce[n]
       /\ i > 0 => status = "ready"
  /\ pc = "poll" =>
       /\ IF status = "ready" THEN Own ELSE held[0] = round
       /\ seen => status # "loaded"
  /\ pc \in {"fetch", "publish"} =>
       /\ Own /\ status = "ready"
       /\ \A k \in 1..Len(fetched) : fetched[k] = [round |-> round, page |-> k - 1]

\* What the console has been told and given.
Told ==
  /\ ready => /\ con # "sending" /\ (On => ~Signing /\ ~Sending)
              /\ \A k \in 1..SIGNATURE_PAGES :
                   signature[k] = [round |-> round, page |-> k - 1]
  /\ con = "polling" /\ ready => nextPage = 0
  /\ con \in {"sending", "polling"} => got = <<>>
  /\ con = "fetching" => ready /\ nextPage = Len(got)
  /\ Len(got) <= SIGNATURE_PAGES
  /\ \A k \in 1..Len(got) : got[k] = [round |-> round, page |-> k - 1]
  /\ ~ready => got = <<>>

Kept ==
  /\ On => InOrder /\ (Complete \/ Fresh) /\ Collected
  /\ Signed /\ Told

IInv == Always /\ (fault = "none" => Kept)

-----------------------------------------------------------------------------
(* What the actions do to the pages that are pending *)

\* What becomes of the pending pages.
LEMMA PendingAll ==
  ASSUME AuthAssumption, Typed, GetReset
  PROVE  \A n \in NoncePages : Pending(n)'
  BY Basics DEF GetReset, Pending

LEMMA PendingSent ==
  ASSUME AuthAssumption, Typed, SetReport
  PROVE  /\ \A n \in NoncePages : Pending(n)' => Pending(n)
         /\ \A n \in NoncePages : Len(cmds) < CmdCap /\ Pending(n) => Pending(n)'
  <1> SUFFICES ASSUME NEW n \in NoncePages
               PROVE  /\ Pending(n)' => Pending(n)
                      /\ Len(cmds) < CmdCap /\ Pending(n) => Pending(n)'
    OBVIOUS
  <1>1. /\ con = "sending" /\ round \in Rounds /\ page \in NoncePages /\ page' = page + 1
        /\ con' = IF page = LAST_NONCE_PAGE THEN "polling" ELSE "sending"
        /\ Send(Nonce(round, page)) /\ UNCHANGED <<round, pc, cur>>
    BY DEF SetReport, Typed, Shapes, taskVars
  <1>2. Nonce(round, page) \in Commands
    BY <1>1 DEF Commands
  <1>3. /\ Nonce(round, page).type = "nonce" /\ Nonce(round, page).round = round
        /\ Nonce(round, page).page = page
    BY NonceFields
  <1>4. page \in Nat /\ n \in Nat /\ n <= LAST_NONCE_PAGE /\ LAST_NONCE_PAGE \in Nat
        /\ Len(cmds) \in Nat
    BY Basics
  <1> HIDE DEF Nonce
  <1>5. ASSUME Pending(n)' PROVE Pending(n)
    <2>1. CASE con' = "sending" /\ page' <= n
      BY <1>1, <1>4, <2>1 DEF Pending
    <2>2. CASE \E k \in 1..Len(cmds') :
                 cmds'[k].type = "nonce" /\ cmds'[k].round = round /\ cmds'[k].page = n
      <3>1. PICK k \in 1..Len(cmds') :
                   cmds'[k].type = "nonce" /\ cmds'[k].round = round /\ cmds'[k].page = n
        BY <2>2
      <3>2. CASE Len(cmds') = Len(cmds) + 1 /\ cmds'[Len(cmds) + 1] = Nonce(round, page)
                 /\ \A l \in 1..Len(cmds) : cmds'[l] = cmds[l]
        <4>1. k \in 1..Len(cmds) \/ k = Len(cmds) + 1
          BY <1>4, <3>2
        <4>2. CASE k \in 1..Len(cmds)
          BY <3>1, <3>2, <4>2 DEF Pending, Mine
        <4>3. CASE k = Len(cmds) + 1
          <5>1. n = page
            BY <1>3, <3>1, <3>2, <4>3
          <5> QED BY <1>1, <1>4, <5>1 DEF Pending
        <4> QED BY <4>1, <4>2, <4>3
      <3>3. CASE cmds' = cmds
        BY <3>1, <3>3 DEF Pending, Mine
      <3> QED BY <1>1, <1>2, <3>2, <3>3, CommandSent
    <2>3. CASE CurMine' /\ cur'.page = n
      BY <1>1, <2>3 DEF Pending, CurMine
    <2> QED BY <1>1, <1>5, <2>1, <2>2, <2>3 DEF Pending, Mine
  <1>6. ASSUME Len(cmds) < CmdCap, Pending(n) PROVE Pending(n)'
    <2>1. /\ Len(cmds') = Len(cmds) + 1 /\ cmds'[Len(cmds) + 1] = Nonce(round, page)
          /\ \A k \in 1..Len(cmds) : cmds'[k] = cmds[k] /\ k \in 1..Len(cmds')
          /\ Len(cmds) + 1 \in 1..Len(cmds')
      BY <1>1, <1>2, <1>4, <1>6, CommandSent
    <2>2. CASE page = n
      BY <1>1, <1>3, <2>1, <2>2 DEF Pending, Mine
    <2>3. CASE page < n
      BY <1>1, <1>4, <2>3 DEF Pending
    <2>4. CASE \E k \in 1..Len(cmds) : Mine(cmds[k]) /\ cmds[k].page = n
      BY <1>1, <2>1, <2>4 DEF Pending, Mine
    <2>5. CASE CurMine /\ cur.page = n
      BY <1>1, <2>5 DEF Pending, CurMine
    <2> QED BY <1>1, <1>4, <1>6, <2>2, <2>3, <2>4, <2>5 DEF Pending
  <1> QED
    BY <1>5, <1>6

LEMMA PendingTaken ==
  ASSUME AuthAssumption, Typed, Receive
  PROVE  \A n \in NoncePages : Pending(n)' <=> Pending(n)
  <1> SUFFICES ASSUME NEW n \in NoncePages PROVE Pending(n)' <=> Pending(n)
    OBVIOUS
  <1>1. /\ 1 \in 1..Len(cmds) /\ Len(cmds') = Len(cmds) - 1 /\ Len(cmds) \in Nat
        /\ \A k \in 1..Len(cmds') : cmds'[k] = cmds[k + 1]
    BY CommandTaken, Basics
  <1>2. UNCHANGED <<con, page, round>> /\ pc = "recv"
    BY Received DEF consoleVars
  <1>3. CurMine' /\ cur'.page = n <=> Mine(cmds[1]) /\ cmds[1].page = n
    BY <1>2, Received DEF CurMine, Mine
  <1>4. \A k \in 1..Len(cmds') : k + 1 \in 1..Len(cmds)
    BY <1>1
  <1>5. \A k \in 1..Len(cmds) : k = 1 \/ \E l \in 1..Len(cmds') : cmds'[l] = cmds[k]
    <2>1. \A k \in 1..Len(cmds) :
            k # 1 => k - 1 \in 1..Len(cmds') /\ cmds'[k - 1] = cmds[k]
      BY <1>1
    <2> QED BY <2>1
  <1>6. ASSUME Pending(n) PROVE Pending(n)'
    BY <1>2, <1>3, <1>5, <1>6 DEF Pending, CurMine, Mine
  <1>7. ASSUME Pending(n)' PROVE Pending(n)
    BY <1>1, <1>2, <1>3, <1>4, <1>7 DEF Pending, CurMine, Mine
  <1> QED
    BY <1>6, <1>7

LEMMA PendingHandled ==
  ASSUME AuthAssumption, Typed, InOrder, HandleNonce
  PROVE  \A n \in NoncePages : Pending(n)' <=> Pending(n) /\ ~(CurMine /\ cur.page = n)
  <1>1. UNCHANGED <<con, page, round, cmds>> /\ pc = "page" /\ pc' # "page"
    BY DEF HandleNonce, consoleVars
  <1> QED
    BY <1>1, Basics DEF Pending, CurMine, InOrder, Mine

LEMMA PendingServed ==
  ASSUME AuthAssumption, Typed, Serve
  PROVE  \A n \in NoncePages : Pending(n)' <=> con = "sending" /\ page <= n
  BY EmptySeq DEF Serve, consoleVars, Pending, CurMine

LEMMA PendingSame ==
  ASSUME UNCHANGED <<round, page, cmds, cur>>, con' = "sending" <=> con = "sending",
         pc' = "page" <=> pc = "page", NEW n
  PROVE  Pending(n)' <=> Pending(n)
  BY Zenon DEF Pending, CurMine, Mine

-----------------------------------------------------------------------------
(* Every step keeps what holds of a round that is not at fault *)

LEMMA InOrderFrame ==
  ASSUME InOrder, UNCHANGED <<cmds, round, page, nonce>>,
         pc' = "page" => pc = "page" /\ cur' = cur,
         Signing' => Signing, con' = "sending" => con = "sending"
  PROVE  InOrder'
  BY DEF InOrder, CurMine, Mine, Signing

LEMMA InOrderStep ==
  ASSUME AuthAssumption, Always, Kept, [Next]_vars, ~GetReset, fault' = "none", On'
  PROVE  InOrder'
  <1>1. Typed /\ NoneAhead /\ Noted /\ Shapes /\ TaskTypes /\ (On => InOrder)
    BY DEF Always, Kept, Typed, TypeOK
  <1>2. /\ Len(cmds) \in Nat /\ round \in Nat /\ page \in Nat /\ cur.round \in Nat
        /\ cur.page \in Nat /\ LAST_NONCE_PAGE \in Nat
        /\ \A k \in 1..Len(cmds) :
             /\ cmds[k] \in Commands
             /\ cmds[k].type = "nonce" => cmds[k].round \in Nat /\ cmds[k].page \in Nat
                                          /\ cmds[k].page <= LAST_NONCE_PAGE
    BY <1>1, Basics, CommandKinds DEF Rounds
  <1>4. CASE SetReport
    <2>1. /\ con = "sending" /\ round \in Rounds /\ page \in NoncePages /\ page' = page + 1
          /\ Send(Nonce(round, page)) /\ UNCHANGED <<round, cur, pc, nonce>> /\ InOrder
      BY <1>1, <1>4 DEF SetReport, Shapes, taskVars, nonceVars, On
    <2>2. Nonce(round, page) \in Commands
      BY <2>1 DEF Commands
    <2>3. /\ Nonce(round, page).type = "nonce" /\ Nonce(round, page).round = round
          /\ Nonce(round, page).page = page
      BY NonceFields
    <2>4. /\ \A k, l \in 1..Len(cmds) :
               k < l /\ Mine(cmds[k]) => Mine(cmds[l]) /\ cmds[k].page < cmds[l].page
          /\ \A k \in 1..Len(cmds) : Mine(cmds[k]) => cmds[k].page < page + 1
          /\ \A k \in 1..Len(cmds) :
               cmds[k].type = "nonce" /\ cmds[k].page = LAST_NONCE_PAGE => Mine(cmds[k])
          /\ CurMine => /\ cur.page < page + 1
                        /\ \A k \in 1..Len(cmds) : Mine(cmds[k]) /\ cur.page < cmds[k].page
      BY <1>2, <2>1 DEF InOrder, Mine
    <2>5. /\ pc = "page" /\ cur.page = LAST_NONCE_PAGE => CurMine
          /\ ~Signing
      BY <2>1 DEF InOrder
    <2>6. CASE cmds' = cmds
      BY <2>1, <2>4, <2>5, <2>6 DEF InOrder, Mine, CurMine, Signing
    <2>7. CASE /\ Len(cmds') = Len(cmds) + 1 /\ cmds'[Len(cmds) + 1] = Nonce(round, page)
               /\ \A k \in 1..Len(cmds) : cmds'[k] = cmds[k]
      <3>1. \A k \in 1..Len(cmds') : k \in 1..Len(cmds) \/ k = Len(cmds) + 1
        BY <1>2, <2>7
      <3>2. /\ \A k \in 1..Len(cmds) : Mine(cmds[k]) => cmds[k].page < page
            /\ CurMine => cur.page < page
        BY <2>1 DEF InOrder
      <3>3. \A k, l \in 1..Len(cmds') :
              k < l /\ Mine(cmds'[k]) => Mine(cmds'[l]) /\ cmds'[k].page < cmds'[l].page
        <4> SUFFICES ASSUME NEW k \in 1..Len(cmds'), NEW l \in 1..Len(cmds'), k < l,
                            Mine(cmds'[k])
                     PROVE  Mine(cmds'[l]) /\ cmds'[k].page < cmds'[l].page
          OBVIOUS
        <4>1. k \in 1..Len(cmds)
          BY <1>2, <2>7
        <4>2. CASE l \in 1..Len(cmds)
          BY <2>4, <2>7, <4>1, <4>2
        <4>3. CASE l = Len(cmds) + 1
          BY <2>3, <2>7, <3>2, <4>1, <4>3 DEF Mine
        <4> QED BY <3>1, <4>2, <4>3
      <3>4. \A k \in 1..Len(cmds') : Mine(cmds'[k]) => cmds'[k].page < page + 1
        BY <1>2, <2>3, <2>4, <2>7, <3>1
      <3>5. \A k \in 1..Len(cmds') :
              cmds'[k].type = "nonce" /\ cmds'[k].page = LAST_NONCE_PAGE => Mine(cmds'[k])
        BY <2>3, <2>4, <2>7, <3>1 DEF Mine
      <3>6. CurMine => \A k \in 1..Len(cmds') : Mine(cmds'[k]) /\ cur.page < cmds'[k].page
        BY <2>3, <2>4, <2>7, <3>1, <3>2 DEF Mine
      <3> QED BY <2>1, <2>4, <2>5, <3>3, <3>4, <3>5, <3>6 DEF InOrder, Mine, CurMine, Signing
    <2> QED BY <1>1, <2>1, <2>2, <2>6, <2>7, CommandSent
  <1>5. CASE Serve
    BY <1>5, EmptySeq DEF Serve, InOrder, CurMine, Signing
  <1>6. CASE Unplug
    BY <1>6 DEF Unplug, On
  <1>7. CASE Receive
    <2>1. /\ 1 \in 1..Len(cmds) /\ Len(cmds') = Len(cmds) - 1
          /\ \A k \in 1..Len(cmds') : cmds'[k] = cmds[k + 1] /\ k + 1 \in 1..Len(cmds) /\ 1 < k + 1
      BY <1>1, <1>2, <1>7, CommandTaken
    <2>2. UNCHANGED <<round, page>> /\ InOrder /\ pc' \in {"reset", "page"}
      BY <1>1, <1>7, Received DEF consoleVars, On
    <2>3. pc' = "page" => /\ cur'.round = cmds[1].round /\ cur'.page = cmds[1].page
                          /\ cmds[1].type = "nonce"
      BY <1>1, <1>7, Received DEF TaskTypes
    <2>4. \A k, l \in 1..Len(cmds') :
            k < l /\ Mine(cmds'[k]) => Mine(cmds'[l]) /\ cmds'[k].page < cmds'[l].page
      <3> SUFFICES ASSUME NEW k \in 1..Len(cmds'), NEW l \in 1..Len(cmds'), k < l,
                          Mine(cmds'[k])
                   PROVE  Mine(cmds'[l]) /\ cmds'[k].page < cmds'[l].page
        OBVIOUS
      <3>1. k + 1 \in 1..Len(cmds) /\ l + 1 \in 1..Len(cmds) /\ k + 1 < l + 1
        BY <2>1
      <3> QED BY <2>1, <2>2, <3>1 DEF InOrder
    <2>5. ASSUME NEW k \in 1..Len(cmds')
          PROVE  /\ Mine(cmds'[k]) => cmds'[k].page < page
                 /\ cmds'[k].type = "nonce" /\ cmds'[k].page = LAST_NONCE_PAGE => Mine(cmds'[k])
      <3>1. k + 1 \in 1..Len(cmds) /\ cmds'[k] = cmds[k + 1]
        BY <2>1, <2>5
      <3> QED BY <2>2, <3>1 DEF InOrder
    <2>6. Mine(cmds[1]) => /\ cmds[1].page < page
                           /\ \A k \in 1..Len(cmds') : Mine(cmds'[k]) /\ cmds[1].page < cmds'[k].page
      BY <2>1, <2>2 DEF InOrder
    <2>7. cmds[1].type = "nonce" /\ cmds[1].page = LAST_NONCE_PAGE => Mine(cmds[1])
      BY <2>1, <2>2 DEF InOrder
    <2> QED BY <2>2, <2>3, <2>4, <2>5, <2>6, <2>7 DEF InOrder, Mine, CurMine, Signing
  <1>8. CASE HandleNonce
    <2>1. /\ UNCHANGED <<cmds, round, page, nonce, con>> /\ pc = "page" /\ InOrder
          /\ pc' \in {"recv", "signReset", "poll"} /\ (pc' # "recv" => cur.page = LAST_NONCE_PAGE)
      BY <1>1, <1>8, Zenon DEF HandleNonce, consoleVars, On
    <2>2. CASE pc' = "recv"
      BY <2>1, <2>2, InOrderFrame DEF Signing
    <2>3. CASE cur.page = LAST_NONCE_PAGE
      <3>1. CurMine /\ nonce[LAST_NONCE_PAGE] = round /\ round # 0
        <4>1. CurMine /\ nonce[LAST_NONCE_PAGE] = round
          BY <1>1, <2>1, <2>3 DEF InOrder, CurMine, Noted
        <4>2. round \in Rounds
          BY <1>1, <4>1 DEF Shapes, CurMine
        <4> QED BY <4>1, <4>2 DEF Rounds
      <3>2. ~(1 \in 1..Len(cmds))
        BY <1>2, <2>1, <2>3, <3>1 DEF InOrder, Mine
      <3>3. cmds = <<>>
        BY <1>1, <1>2, <3>2, Basics, EmptySeq
      <3>4. con # "sending"
        BY <1>1, <1>2, <2>1, <2>3, <3>1, Basics DEF InOrder, Shapes
      <3> QED BY <2>1, <3>1, <3>3, <3>4, EmptySeq DEF InOrder, CurMine, Mine
    <2> QED BY <2>1, <2>2, <2>3
  <1>9. CASE GetState \/ GetSignature
    BY <1>1, <1>9, InOrderFrame DEF GetState, GetSignature, taskVars, nonceVars, Signing, On
  <1>10. CASE HandleReset \/ EndReset \/ Publish \/ SignReset \/ PollSigning \/ PollReady \/ PollTimeout
    BY <1>1, <1>10, InOrderFrame DEF HandleReset, EndReset, Publish, SignReset, PollSigning,
       PollReady, PollTimeout, consoleVars, nonceVars, Signing, On
  <1>11. CASE SignPage
    <2>1. /\ pc = "signPages" /\ pc' \in {"recv", "signPages", "poll"}
          /\ UNCHANGED <<cmds, consoleVars, nonce>>
      BY <1>11 DEF SignPage, nonceVars
    <2> QED BY <1>1, <2>1, InOrderFrame DEF consoleVars, Signing, On
  <1>12. CASE FetchPage
    <2>1. /\ pc = "fetch" /\ pc' \in {"fetch", "publish", "signReset", "endReset"}
          /\ UNCHANGED <<cmds, consoleVars, nonce>>
      BY <1>1, <1>12, FetchCases DEF SignAgain, nonceVars
    <2> QED BY <1>1, <2>1, InOrderFrame DEF consoleVars, Signing, On
  <1>13. CASE UNCHANGED <<cmds, consoleVars, pc, cur, nonce>>
    BY <1>1, <1>13, InOrderFrame DEF consoleVars, Signing, On
  <1> QED
    BY <1>4, <1>5, <1>6, <1>7, <1>8, <1>9, <1>10, <1>11, <1>12, <1>13, Zenon
    DEF Next, Console, Task, SignStart, SignEnd, vars, taskVars, nonceVars

\* Nothing is pending while sign is under way.
LEMMA NonePending ==
  ASSUME InOrder, Signing
  PROVE  /\ \A n \in NoncePages : ~Pending(n)
         /\ cmds = <<>> /\ con # "sending" /\ pc \notin {"off", "recv", "reset", "page"}
  BY EmptySeq DEF InOrder, Signing, Pending, CurMine

\* Nothing older comes after a page of the round.
LEMMA NoneOlderSent ==
  ASSUME AuthAssumption, Typed, NoneOlder, SetReport
  PROVE  NoneOlder'
  <1>1. /\ Nonce(round, page) \in Commands /\ Mine(Nonce(round, page))
        /\ Send(Nonce(round, page)) /\ UNCHANGED <<round, pc, cur>>
    BY NonceFields DEF Mine, SetReport, Typed, Shapes, Commands, taskVars
  <1>2. \A k \in 1..Len(cmds') :
          cmds'[k] = Nonce(round, page) \/ (k \in 1..Len(cmds) /\ cmds'[k] = cmds[k])
    BY <1>1, CommandSent, Basics
  <1>3. \A k \in 1..Len(cmds') : Mine(cmds'[k])
    BY <1>1, <1>2 DEF NoneOlder
  <1> QED
    BY <1>1, <1>3 DEF NoneOlder, CurMine, Mine

LEMMA NoneOlderTaken ==
  ASSUME AuthAssumption, Typed, NoneOlder, Receive
  PROVE  Mine(cmds[1]) /\ NoneOlder'
  <1>1. /\ 1 \in 1..Len(cmds) /\ Len(cmds') = Len(cmds) - 1 /\ Len(cmds) \in Nat
        /\ \A k \in 1..Len(cmds') : cmds'[k] = cmds[k + 1]
    BY CommandTaken, Basics
  <1>2. \A k \in 1..Len(cmds') : k + 1 \in 1..Len(cmds)
    BY <1>1
  <1>3. Mine(cmds[1]) /\ \A k \in 1..Len(cmds') : Mine(cmds'[k])
    BY <1>1, <1>2 DEF NoneOlder
  <1> QED
    BY <1>3, Received DEF NoneOlder, CurMine, Mine, consoleVars

LEMMA CollectedStep ==
  ASSUME AuthAssumption, Always, Kept, [Next]_vars, ~GetReset, On'
  PROVE  Collected'
  <1>1. /\ Typed /\ Shapes
        /\ On => InOrder /\ (Complete \/ Fresh) /\ Collected
    BY DEF Always, Kept, Typed
  <1>2. /\ 0 \in NoncePages /\ \A n \in NoncePages : n \in Nat /\ n <= LAST_NONCE_PAGE
        /\ Len(cmds) \in Nat /\ page \in Nat /\ CmdCap \in Nat /\ LAST_NONCE_PAGE \in Nat
    BY <1>1, Basics
  <1>3. CASE SetReport
    <2>1. (Complete \/ Fresh) /\ Collected /\ con = "sending" /\ page \in NoncePages
      BY <1>1, <1>3 DEF SetReport, taskVars, On, Shapes
    <2>2. ASSUME NEW n \in NoncePages, ~Pending(n)' PROVE NoneOlder'
      <3>1. CASE Pending(n)
        <4>1. ~(Len(cmds) < CmdCap)
          BY <1>1, <1>3, <2>2, <3>1, PendingSent
        <4>2. ~Complete
          BY <1>2, <2>1, <4>1 DEF Complete
        <4> QED BY <1>1, <1>3, <2>1, <4>2, NoneOlderSent DEF Fresh
      <3>2. CASE ~Pending(n)
        BY <1>1, <1>3, <2>1, <3>2, NoneOlderSent DEF Collected
      <3> QED BY <3>1, <3>2
    <2> QED BY <2>2 DEF Collected
  <1>4. CASE Serve
    BY <1>4, EmptySeq DEF Serve, Collected, NoneOlder
  <1>5. CASE Unplug
    BY <1>5 DEF Unplug, On
  <1>6. CASE Receive
    <2>1. Collected
      BY <1>1, <1>6, Received DEF On
    <2>2. \A n \in NoncePages : Pending(n)' <=> Pending(n)
      BY <1>1, <1>6, PendingTaken
    <2>3. ASSUME NEW n \in NoncePages, ~Pending(n)' PROVE NoneOlder'
      <3>1. NoneOlder
        BY <2>1, <2>2, <2>3 DEF Collected
      <3> QED BY <1>1, <1>6, <3>1, NoneOlderTaken
    <2> QED BY <2>3 DEF Collected
  <1>7. CASE HandleReset
    <2>1. pc = "reset" /\ UNCHANGED <<cmds, consoleVars, cur>> /\ pc' = "recv" /\ Collected
      BY <1>1, <1>7 DEF HandleReset, On
    <2>2. \A n \in NoncePages : Pending(n)
      BY <2>1 DEF Collected, NoneOlder
    <2>3. \A n \in NoncePages : Pending(n)'
      BY <2>1, <2>2, PendingSame DEF consoleVars
    <2> QED BY <2>3 DEF Collected
  <1>8. CASE HandleNonce
    <2>1. /\ Collected /\ InOrder /\ pc = "page" /\ pc' \notin {"reset", "page"}
          /\ UNCHANGED <<cmds, round>>
      BY <1>1, <1>8, Zenon DEF HandleNonce, consoleVars, On
    <2>2. \A n \in NoncePages : Pending(n)' <=> Pending(n) /\ ~(CurMine /\ cur.page = n)
      BY <1>1, <1>8, <2>1, PendingHandled
    <2>3. ASSUME NEW n \in NoncePages, ~Pending(n)' PROVE NoneOlder'
      <3>1. ~Pending(n) \/ CurMine
        BY <2>2, <2>3
      <3>2. \A k \in 1..Len(cmds) : Mine(cmds[k])
        BY <2>1, <3>1 DEF Collected, NoneOlder, InOrder
      <3> QED BY <2>1, <3>2 DEF NoneOlder, Mine
    <2> QED BY <2>3 DEF Collected
  <1>9. CASE SignReset \/ SignPage \/ PollSigning \/ PollReady \/ PollTimeout \/ FetchPage
              \/ Publish \/ EndReset
    <2>1. Signing /\ UNCHANGED <<cmds, con>> /\ pc' \notin {"reset", "page"}
      BY <1>9, Zenon DEF SignReset, SignPage, PollSigning, PollReady, PollTimeout, FetchPage,
         SignAgain, Publish, EndReset, Signing, consoleVars
    <2>2. cmds' = <<>>
      BY <1>1, <2>1, NonePending DEF Signing, On
    <2>3. NoneOlder'
      BY <2>1, <2>2, EmptySeq DEF NoneOlder
    <2> QED BY <2>3 DEF Collected
  <1>10. CASE GetState \/ GetSignature \/ SignStart \/ SignEnd \/ UNCHANGED vars
    <2>1. /\ UNCHANGED <<round, page, cmds, cur, pc>>
          /\ con' = "sending" <=> con = "sending"
      BY <1>10 DEF GetState, GetSignature, SignStart, SignEnd, vars, consoleVars, taskVars
    <2>2. Collected
      BY <1>1, <2>1 DEF On
    <2>3. \A n : Pending(n)' <=> Pending(n)
      BY <2>1, PendingSame
    <2>4. NoneOlder => NoneOlder'
      BY <2>1 DEF NoneOlder, CurMine, Mine
    <2> QED BY <2>2, <2>3, <2>4 DEF Collected
  <1> QED
    BY <1>3, <1>4, <1>5, <1>6, <1>7, <1>8, <1>9, <1>10, Zenon DEF Next, Console, Task

LEMMA CompleteOrFreshStep ==
  ASSUME AuthAssumption, Always, Kept, [Next]_vars, ~GetReset, fault' = "none", On'
  PROVE  (Complete \/ Fresh)'
  <1>1. /\ Typed /\ NothingHeld /\ Noted /\ Shapes
        /\ On => InOrder /\ (Complete \/ Fresh) /\ Collected
    BY DEF Always, Kept, Typed
  <1>2. /\ 0 \in NoncePages /\ LAST_NONCE_PAGE \in NoncePages /\ LAST_NONCE_PAGE \in Nat \ {0}
        /\ Len(cmds) \in Nat /\ page \in Nat /\ CmdCap \in Nat /\ cur.page \in NoncePages
    BY <1>1, Basics
  <1>4. CASE SetReport
    <2>1. /\ On /\ con = "sending" /\ page \in NoncePages /\ page' = page + 1
          /\ UNCHANGED <<round, nonce, nonceRefused, held, sig, status>>
          /\ Send(Nonce(round, page)) /\ Nonce(round, page) \in Commands
      BY <1>1, <1>4 DEF SetReport, taskVars, nonceVars, signerVars, On, Shapes, Commands
    <2>2. CASE Complete
      <3>1. Len(cmds) + LAST_NONCE_PAGE + 1 <= CmdCap + page /\ Len(cmds) < CmdCap
        BY <1>2, <2>1, <2>2, Basics, <1>1 DEF Complete
      <3>2. Len(cmds') = Len(cmds) + 1
        BY <1>1, <2>1, <3>1, CommandSent
      <3>3. \A n \in NoncePages : Pending(n)' <=> Pending(n)
        BY <1>1, <1>4, <3>1, PendingSent
      <3>4. (Sending' <=> Sending) /\ (Begun' <=> Begun)
        BY <1>2, <3>3 DEF Sending, Begun
      <3>5. Len(cmds') + LAST_NONCE_PAGE + 1 <= CmdCap + page'
        BY <1>2, <2>1, <3>1, <3>2
      <3> QED BY <2>1, <2>2, <3>3, <3>4, <3>5 DEF Complete
    <2>3. CASE Fresh
      BY <1>1, <1>4, <2>1, <2>3, NoneOlderSent DEF Fresh, Own
    <2> QED BY <1>1, <2>1, <2>2, <2>3
  <1>5. CASE Serve
    BY <1>1, <1>5, EmptySeq DEF Serve, NothingHeld, signerVars, Fresh, Own, NoneOlder
  <1>6. CASE Unplug
    BY <1>6 DEF Unplug, On
  <1>7. CASE Receive
    <2>1. /\ On /\ Collected /\ UNCHANGED <<con, page, round, nonceRefused, held, sig, status>>
          /\ Len(cmds') = Len(cmds) - 1
      BY <1>1, <1>7, Received, CommandTaken DEF consoleVars, signerVars, On
    <2>2. CASE Complete
      <3>1. \A n \in NoncePages : Pending(n)' <=> Pending(n)
        BY <1>1, <1>7, PendingTaken
      <3>2. (Sending' <=> Sending) /\ (Begun' <=> Begun)
        BY <1>2, <3>1 DEF Sending, Begun
      <3>3. ASSUME NEW n \in NoncePages, ~Pending(n) PROVE nonce'[n] = round
        <4>1. Mine(cmds[1]) /\ nonce[n] = round
          BY <1>1, <1>7, <2>1, <2>2, <3>3, NoneOlderTaken DEF Collected, Complete
        <4>2. /\ cmds[1].type = "nonce" /\ cmds[1].round = round
              /\ nonce' = [nonce EXCEPT ![cmds[1].page] = round]
          BY <1>1, <1>7, <4>1, Received DEF Mine
        <4> QED BY <1>1, <3>3, <4>1, <4>2 DEF Typed, TypeOK, TaskTypes
      <3>4. con = "sending" => Len(cmds') + LAST_NONCE_PAGE + 1 <= CmdCap + page
        BY <1>2, <2>1, <2>2 DEF Complete
      <3> QED BY <2>1, <2>2, <3>1, <3>2, <3>3, <3>4 DEF Complete
    <2>3. CASE Fresh
      BY <1>1, <1>7, <2>1, <2>3, NoneOlderTaken DEF Fresh, Own
    <2> QED BY <1>1, <2>1, <2>2, <2>3
  <1>8. CASE HandleReset
    <2>1. /\ pc = "reset" /\ On /\ UNCHANGED <<cmds, consoleVars, cur>> /\ pc' = "recv"
      BY <1>8 DEF HandleReset, On
    <2>2. (\A n \in NoncePages : Pending(n)) /\ Complete
      BY <1>1, <2>1 DEF Collected, NoneOlder, Fresh
    <2>3. \A n \in NoncePages : Pending(n)'
      BY <2>1, <2>2, PendingSame DEF consoleVars
    <2> QED BY <2>1, <2>2, <2>3 DEF Complete, consoleVars
  <1>9. CASE HandleNonce
    <2>1. /\ Collected /\ InOrder /\ pc = "page" /\ pc' \notin {"reset", "page"}
          /\ UNCHANGED <<cmds, round, con, page, nonce>>
          /\ cur.round \in Rounds /\ cur.round \in 0..MaxRounds
      BY <1>1, <1>9 DEF HandleNonce, consoleVars, On, Shapes, Typed, TypeOK, TaskTypes
    <2>2. \A n \in NoncePages : Pending(n)' <=> Pending(n) /\ ~(CurMine /\ cur.page = n)
      BY <1>1, <1>9, <2>1, PendingHandled
    <2>3. PICK ok \in BOOLEAN : SetNonce(cur.round, cur.page, ok)
      BY <1>9, Zenon DEF HandleNonce
    <2>4. UNCHANGED sig
      BY <1>1, <1>2, <2>1, <2>3, Loaded DEF SetNonce, signerVars
    <2>5. CASE Complete
      <3>1. ASSUME NEW n \in NoncePages, ~Pending(n)' PROVE CurMine /\ Begun' /\ nonce[n] = round
        <4>1. CurMine
          BY <2>1, <2>2, <3>1 DEF Collected, NoneOlder
        <4>2. ~(con = "sending" /\ page <= 0) /\ \A k \in 1..Len(cmds) : cmds[k].page # 0
          BY <1>2, <2>1, <4>1 DEF InOrder, NoncePages
        <4>3. ~Pending(0)'
          BY <1>2, <2>1, <2>2, <4>1, <4>2 DEF Pending
        <4>4. nonce[cur.page] = round
          BY <1>1, <2>1, <4>1 DEF Noted, CurMine
        <4> QED BY <2>2, <2>5, <3>1, <4>1, <4>3, <4>4 DEF Complete, Begun
      <3>2. ASSUME Sending', NEW n \in NoncePages, ~Pending(n)'
            PROVE  nonceRefused' \/ held'[n] = round
        <4>1. CurMine /\ cur.round = round /\ cur.page # LAST_NONCE_PAGE /\ Sending
          BY <1>2, <2>2, <3>1, <3>2 DEF Sending, CurMine
        <4>2. PICK okay \in BOOLEAN :
                /\ SetNonce(cur.round, cur.page, okay)
                /\ nonceRefused' = ((nonceRefused \/ ~okay) /\ cur.page # 0)
          BY <1>9, <4>1, Zenon DEF HandleNonce
        <4>3. CASE n = cur.page
          <5>1. CASE okay
            BY <1>1, <1>2, <2>1, <4>1, <4>2, <4>3, <5>1, Loaded DEF SetNonce
          <5>2. CASE cur.page # 0 /\ ~okay
            BY <4>2, <5>2
          <5>3. CASE cur.page = 0
            <6>1. cur = [round |-> round, page |-> 0]
              BY <1>1, <4>1, <5>3 DEF Typed, TypeOK, TaskTypes
            <6>2. held'[0] = round
              BY <1>1, <1>9, <6>1, Handled
            <6> QED BY <4>3, <5>3, <6>2
          <5> QED BY <5>1, <5>2, <5>3
        <4>4. CASE n # cur.page
          <5>1. ~Pending(n)
            BY <2>2, <3>2, <4>4
          <5>2. Begun /\ (nonceRefused \/ held[n] = round)
            BY <2>5, <4>1, <5>1 DEF Complete
          <5>3. cur.page # 0
            BY <4>1, <5>2 DEF Begun, Pending
          <5>4. held'[n] = held[n]
            <6>1. held' # held => Load(cur.round, cur.page)
              BY <1>1, <1>9, Handled
            <6>2. CASE Load(cur.round, cur.page)
              <7>1. \A m \in NoncePages : m # cur.page => held'[m] = held[m]
                <8>1. cur.round \in 0..MaxRounds /\ cur.page \in NoncePages /\ cur.page # 0
                  BY <1>2, <2>1, <5>3
                <8> QED BY <1>1, <6>2, <8>1, Loaded
              <7> QED BY <4>4, <7>1
            <6> QED BY <6>1, <6>2
          <5> QED BY <4>2, <5>2, <5>3, <5>4
        <4> QED BY <4>3, <4>4
      <3>3. con' = "sending" => Len(cmds') + LAST_NONCE_PAGE + 1 <= CmdCap + page'
        BY <2>1, <2>5 DEF Complete
      <3>4. Complete'
        BY <2>1, <3>1, <3>2, <3>3 DEF Complete
      <3> QED BY <3>4
    <2>6. CASE Fresh
      <3>1. CurMine /\ NoneOlder' /\ Own'
        BY <2>1, <2>4, <2>6 DEF Fresh, NoneOlder, Mine, Own
      <3>2. status' # "ready" => held'[0] = round
        BY <1>1, <1>2, <2>1, <2>3, <2>6, <3>1, Loaded DEF SetNonce, signerVars, Fresh, CurMine
      <3> QED BY <2>1, <3>1, <3>2 DEF Fresh
    <2> QED BY <1>1, <2>1, <2>5, <2>6 DEF On
  <1>10. CASE SignReset \/ SignPage \/ PollSigning \/ PollReady \/ PollTimeout \/ FetchPage
              \/ Publish \/ EndReset
    <2>1. Signing /\ UNCHANGED <<cmds, con, page, round, nonce>> /\ pc' \notin {"reset", "page"}
      BY <1>10, Zenon DEF SignReset, SignPage, PollSigning, PollReady, PollTimeout, FetchPage,
         SignAgain, Publish, EndReset, Signing, consoleVars, nonceVars
    <2>2. InOrder /\ (Complete \/ Fresh)
      BY <1>1, <2>1 DEF Signing, On
    <2>3. cmds' = <<>> /\ con' # "sending" /\ \A n \in NoncePages : ~Pending(n)
      BY <2>1, <2>2, NonePending
    <2>4. NoneOlder' /\ \A n \in NoncePages : ~Pending(n)'
      BY <2>1, <2>3, EmptySeq DEF NoneOlder, Pending, CurMine
    <2>5. CASE Complete
      <3>1. \A n \in NoncePages : nonce'[n] = round
        BY <2>1, <2>3, <2>5 DEF Complete
      <3> QED BY <1>2, <2>1, <2>3, <2>4, <3>1 DEF Complete, Begun, Sending
    <2>6. CASE Fresh
      <3>1. /\ Own /\ (status # "ready" => held[0] = round)
            /\ nonce[LAST_NONCE_PAGE] = round
        BY <2>1, <2>2, <2>6 DEF Fresh, InOrder
      <3>2. UNCHANGED sig /\ (status' # "ready" => held'[0] = round)
        <4>1. CASE SignPage
          <5>1. /\ i \in NoncePages /\ nonce[i] \in 0..MaxRounds
            BY <1>1, <4>1 DEF SignPage, Shapes, Typed, TypeOK, TaskTypes
          <5>2. PICK ok \in BOOLEAN : SetNonce(nonce[i], i, ok)
            BY <4>1, Zenon DEF SignPage
          <5>3. CASE UNCHANGED signerVars
            BY <3>1, <5>3 DEF signerVars
          <5>4. CASE Load(nonce[i], i)
            BY <1>1, <1>2, <3>1, <5>1, <5>4, Loaded
          <5> QED BY <5>2, <5>3, <5>4 DEF SetNonce
        <4>2. CASE SignReset \/ EndReset
          BY <1>1, <3>1, <4>2, WasReset DEF SignReset, EndReset
        <4>3. CASE PollSigning \/ PollReady \/ PollTimeout \/ FetchPage \/ Publish
          BY <3>1, <4>3 DEF PollSigning, PollReady, PollTimeout, FetchPage, Publish, signerVars
        <4> QED BY <1>10, <4>1, <4>2, <4>3
      <3> QED BY <2>1, <2>4, <3>1, <3>2 DEF Fresh, Own
    <2> QED BY <2>2, <2>5, <2>6
  <1>11. CASE GetState \/ GetSignature \/ SignStart \/ SignEnd \/ UNCHANGED vars
    <2>1. /\ UNCHANGED <<round, page, cmds, cur, pc, nonce, nonceRefused, held>>
          /\ con' = "sending" <=> con = "sending"
      BY <1>11 DEF GetState, GetSignature, SignStart, SignEnd, vars, consoleVars, taskVars,
         nonceVars, signerVars
    <2>2. Complete \/ Fresh
      BY <1>1, <2>1 DEF On
    <2>3. \A n : Pending(n)' <=> Pending(n)
      BY <2>1, PendingSame
    <2>4. Complete => Complete'
      BY <2>1, <2>3 DEF Complete, Begun, Sending
    <2>5. CASE Fresh
      <3>1. NoneOlder'
        BY <2>1, <2>5 DEF Fresh, NoneOlder, CurMine, Mine
      <3>2. Own' /\ (status' # "ready" => held'[0] = round)
        BY <1>11, <2>1, <2>5 DEF Fresh, Own, GetState, GetSignature, SignStart, SignEnd, vars,
           signerVars
      <3> QED BY <2>1, <3>1, <3>2 DEF Fresh
    <2> QED BY <2>2, <2>4, <2>5
  <1> QED
    BY <1>4, <1>5, <1>6, <1>7, <1>8, <1>9, <1>10, <1>11, Zenon DEF Next, Console, Task

\* The last page of a round is the last that is left, and comes after the first.
LEMMA LastPage ==
  ASSUME AuthAssumption, Typed, InOrder, HandleNonce,
         cur.page = LAST_NONCE_PAGE
  PROVE  /\ CurMine /\ cur.round = round /\ round \in Rounds /\ Sending /\ Begun
         /\ \A n \in NoncePages : n # LAST_NONCE_PAGE => ~Pending(n)
         /\ \A n \in NoncePages : ~Pending(n)'
  <1>1. CurMine /\ pc = "page" /\ cur.round = round /\ round \in Rounds
    BY DEF HandleNonce, InOrder, CurMine, Typed, Shapes
  <1>2. /\ LAST_NONCE_PAGE \in NoncePages /\ 0 \in NoncePages /\ LAST_NONCE_PAGE \in Nat \ {0}
        /\ \A n \in NoncePages : n \in Nat /\ n <= LAST_NONCE_PAGE
        /\ page \in Nat /\ Len(cmds) \in Nat
    BY Basics
  <1>3. Sending
    BY <1>1 DEF Sending, Pending
  <1>4. ASSUME NEW n \in NoncePages, n # LAST_NONCE_PAGE PROVE ~Pending(n)
    <2>1. ~(con = "sending" /\ page <= n)
      BY <1>1, <1>2, <1>4 DEF InOrder
    <2>2. \A k \in 1..Len(cmds) : LAST_NONCE_PAGE < cmds[k].page
      BY <1>1 DEF InOrder
    <2>3. \A k \in 1..Len(cmds) : cmds[k].page # n
      <3> SUFFICES ASSUME NEW k \in 1..Len(cmds), cmds[k].page = n PROVE FALSE
        OBVIOUS
      <3>1. LAST_NONCE_PAGE < n
        BY <2>2
      <3>2. n \in Nat /\ n <= LAST_NONCE_PAGE /\ LAST_NONCE_PAGE \in Nat
        BY <1>2
      <3> QED BY <3>1, <3>2
    <2> QED BY <1>1, <1>4, <2>1, <2>3 DEF Pending
  <1>5. Begun
    BY <1>2, <1>4 DEF Begun
  <1>6. \A n \in NoncePages : ~Pending(n)'
    BY <1>1, <1>4, PendingHandled
  <1> QED
    BY <1>1, <1>3, <1>4, <1>5, <1>6

LEMMA SignedStep ==
  ASSUME AuthAssumption, Always, Kept, [Next]_vars, ~GetReset, fault' = "none"
  PROVE  Signed'
  <1>1. /\ Typed /\ Shapes /\ TaskTypes /\ SignerTypes /\ Signed
        /\ On => InOrder /\ (Complete \/ Fresh) /\ Collected
    BY DEF Always, Kept, Typed, TypeOK
  <1>2. /\ 0 \in NoncePages /\ LAST_NONCE_PAGE \in NoncePages /\ LAST_NONCE_PAGE \in Nat \ {0}
        /\ \A n \in NoncePages : n \in Nat /\ n <= LAST_NONCE_PAGE
    BY <1>1, Basics
  <1>3. CASE pc' \notin {"signPages", "poll", "fetch", "publish"}
    BY <1>3 DEF Signed
  <1>5. CASE SetReport
    <2>1. pc' = pc /\ con = "sending"
      BY <1>5 DEF SetReport, taskVars
    <2>2. pc' \notin {"signPages", "poll", "fetch", "publish"}
      BY <1>1, <2>1 DEF InOrder, Signing, On
    <2> QED BY <1>3, <2>2
  <1>6. CASE Serve \/ Unplug \/ Receive \/ HandleReset \/ Publish \/ EndReset \/ PollTimeout
    <2>1. pc' \notin {"signPages", "poll", "fetch", "publish"}
      BY <1>6, Zenon DEF Serve, Unplug, Receive, HandleReset, Publish, EndReset, PollTimeout
    <2> QED BY <1>3, <2>1
  <1>7. CASE HandleNonce
    <2>1. /\ pc = "page" /\ seen' = FALSE /\ UNCHANGED round
          /\ InOrder /\ (Complete \/ Fresh) /\ Collected
          /\ pc' \in {"recv", "signReset", "poll"}
      BY <1>1, <1>7, Zenon DEF HandleNonce, consoleVars, On
    <2>2. SUFFICES ASSUME pc' = "poll"
                   PROVE  IF status' = "ready" THEN Own' ELSE held'[0] = round
      BY <1>3, <2>1 DEF Signed
    <2>3. cur.page = LAST_NONCE_PAGE /\ ~nonceRefused /\ Load(cur.round, LAST_NONCE_PAGE)
      BY <1>7, <2>2, Zenon DEF HandleNonce, SetNonce
    <2>4. /\ CurMine /\ cur.round = round /\ round \in Rounds /\ Sending /\ Begun
          /\ \A n \in NoncePages : n # LAST_NONCE_PAGE => ~Pending(n)
      BY <1>1, <1>7, <2>1, <2>3, LastPage
    <2>6. round # 0 /\ round \in 0..MaxRounds
      BY <2>4 DEF Rounds
    <2>7. CASE Complete
      <3>1. \A n \in NoncePages : n # LAST_NONCE_PAGE => held[n] = round
        BY <2>3, <2>4, <2>7 DEF Complete
      <3>2. status' # "ready" /\ held'[0] = round
        BY <1>1, <1>2, <2>3, <2>4, <2>6, <3>1, Loaded
      <3> QED BY <3>2
    <2>8. CASE Fresh
      <3>1. Own /\ (status # "ready" => held[0] = round)
        BY <2>8 DEF Fresh
      <3>2. UNCHANGED sig /\ (status' # "ready" => held'[0] = round)
        BY <1>1, <1>2, <2>3, <2>4, <2>6, <3>1, Loaded
      <3> QED BY <2>1, <3>1, <3>2 DEF Own
    <2> QED BY <2>1, <2>7, <2>8
  <1>8. CASE SignReset
    <2>1. pc' = "signPages" /\ i' = 0
      BY <1>8 DEF SignReset
    <2> QED BY <1>2, <2>1 DEF Signed
  <1>9. CASE SignPage
    <2>1. /\ pc = "signPages" /\ i \in NoncePages /\ nonce[i] \in 0..MaxRounds
          /\ UNCHANGED <<round, nonce>> /\ seen' = FALSE
          /\ InOrder /\ (Complete \/ Fresh)
      BY <1>1, <1>9 DEF SignPage, Shapes, TaskTypes, consoleVars, nonceVars, On
    <2>2. PICK ok \in BOOLEAN :
            /\ SetNonce(nonce[i], i, ok)
            /\ IF ~ok THEN pc' = "recv" /\ i' = 0
               ELSE IF i < LAST_NONCE_PAGE THEN i' = i + 1 /\ UNCHANGED pc
               ELSE pc' = "poll" /\ i' = 0
      BY <1>9, Zenon DEF SignPage
    <2>3. CASE ~ok
      BY <1>3, <2>2, <2>3
    <2>4. CASE ok
      <3>1. Load(nonce[i], i)
        BY <2>2, <2>4 DEF SetNonce
      <3>2. /\ \A n \in NoncePages : n < i => held[n] = nonce[n]
            /\ i > 0 => status = "ready"
        BY <1>1, <2>1 DEF Signed
      <3>3. \A n \in NoncePages : n <= i => held'[n] = nonce[n]
        BY <1>1, <1>2, <2>1, <3>1, <3>2, Loaded
      <3>4. CASE i < LAST_NONCE_PAGE
        <4>1. i' = i + 1 /\ pc' = "signPages"
          BY <2>1, <2>2, <2>4, <3>4
        <4>2. status' = "ready"
          BY <1>1, <1>2, <2>1, <3>1, <3>2, <3>4, Loaded
        <4>3. \A n \in NoncePages : n < i' => held'[n] = nonce'[n]
          BY <1>2, <2>1, <3>3, <4>1
        <4> QED BY <4>1, <4>2, <4>3 DEF Signed
      <3>5. CASE i = LAST_NONCE_PAGE
        <4>1. pc' = "poll"
          BY <1>2, <2>2, <2>4, <3>5
        <4>3. nonce[LAST_NONCE_PAGE] = round /\ round # 0 /\ \A n \in NoncePages : ~Pending(n)
          BY <2>1, NonePending DEF InOrder, Signing
        <4>4. CASE Complete
          <5>1. \A n \in NoncePages : held'[n] = round
            BY <1>2, <3>3, <3>5, <4>3, <4>4 DEF Complete
          <5>2. status' = "loaded"
            BY <1>1, <1>2, <2>1, <3>1, <3>5, <4>3, <5>1, Loaded
          <5> QED BY <1>2, <2>1, <4>1, <5>1, <5>2 DEF Signed
        <4>5. CASE Fresh
          <5>1. Own /\ (status # "ready" => held[0] = round)
            BY <4>5 DEF Fresh
          <5>2. UNCHANGED sig /\ (status' # "ready" => held'[0] = round)
            BY <1>1, <1>2, <2>1, <3>1, <3>5, <4>3, <5>1, Loaded
          <5> QED BY <2>1, <4>1, <5>1, <5>2 DEF Signed, Own
        <4> QED BY <2>1, <4>4, <4>5
      <3> QED BY <1>2, <2>1, <3>4, <3>5
    <2> QED BY <2>3, <2>4
  <1>10. CASE PollSigning
    BY <1>1, <1>10 DEF PollSigning, Signed, Own, consoleVars, signerVars
  <1>11. CASE PollReady
    <2>1. status = "ready" /\ pc = "poll"
      BY <1>1, <1>11 DEF PollReady, Signed, SignerTypes
    <2>2. /\ pc' = "fetch" /\ fetched' = <<>>
          /\ UNCHANGED <<round, sig, status>> /\ Own
      BY <1>1, <1>11, <2>1 DEF PollReady, Signed, consoleVars, signerVars
    <2>3. \A k : k \notin 1..Len(fetched')
      BY <2>2, EmptySeq
    <2> QED BY <2>1, <2>2, <2>3 DEF Signed, Own
  <1>12. CASE FetchPage
    <2>1. /\ pc = "fetch" /\ Own /\ status = "ready" /\ Len(fetched) = i
          /\ UNCHANGED <<round, sig, status>>
          /\ \A k \in 1..Len(fetched) : fetched[k] = [round |-> round, page |-> k - 1]
      BY <1>1, <1>12, FetchCases DEF Signed, Shapes, consoleVars
    <2>2. CASE /\ fetched' = Append(fetched, [round |-> sig, page |-> i]) /\ sig # 0
               /\ i' = i + 1
               /\ pc' = IF i + 1 = SIGNATURE_PAGES THEN "publish" ELSE "fetch"
      <3>1. sig = round /\ i \in Nat /\ i <= SIGNATURE_PAGES
        BY <1>1, <2>1, <2>2, <1>12 DEF Own, Shapes, AuthAssumption, TaskTypes, NoncePages
      <3>2. [round |-> sig, page |-> i] \in Page /\ fetched \in Seq(Page)
        BY <1>1, <3>1 DEF Page, SignerTypes, TaskTypes, AuthAssumption
      <3>3. Len(fetched') = i + 1 /\ \A k \in 1..(i + 1) : fetched'[k] = [round |-> round, page |-> k - 1]
        BY <2>1, <2>2, <3>1, <3>2, AppendProperties
      <3> QED BY <2>1, <2>2, <3>3 DEF Signed, Own
    <2>3. CASE SignAgain
      <3>1. pc' \in {"signReset", "endReset"}
        BY <2>3 DEF SignAgain
      <3> QED BY <1>3, <3>1
    <2> QED BY <1>1, <1>12, <2>2, <2>3, FetchCases
  <1>13. CASE SignStart
    BY <1>1, <1>2, <1>13 DEF SignStart, Signed, taskVars, consoleVars, nonceVars
  <1>14. CASE SignEnd
    BY <1>1, <1>2, <1>14 DEF SignEnd, Signed, Own, taskVars, consoleVars, nonceVars
  <1>15. CASE GetState \/ GetSignature \/ UNCHANGED vars
    <2>1. UNCHANGED <<round, pc, i, seen, fetched, nonce, held, status, sig>>
      BY <1>15 DEF GetState, GetSignature, vars, consoleVars, taskVars, nonceVars, signerVars
    <2> QED BY <1>1, <2>1 DEF Signed, Own
  <1> QED
    BY <1>5, <1>6, <1>7, <1>8, <1>9, <1>10, <1>11, <1>12, <1>13, <1>14, <1>15, Zenon
    DEF Next, Console, Task

LEMMA ToldStep ==
  ASSUME AuthAssumption, Always, Kept, [Next]_vars, ~GetReset, fault' = "none"
  PROVE  Told'
  <1>1. /\ Typed /\ Shapes /\ Told /\ Signed
        /\ On => InOrder /\ (Complete \/ Fresh) /\ Collected
    BY DEF Always, Kept, Typed
  <1>2. /\ 0 \in NoncePages /\ LAST_NONCE_PAGE \in NoncePages /\ LAST_NONCE_PAGE \in Nat \ {0}
        /\ page \in Nat
    BY <1>1, Basics
  <1>3. CASE GetReset \/ SetReport
    <2>1. /\ ready' = FALSE /\ con' \in {"sending", "polling"} /\ got' = <<>>
      BY <1>1, <1>3 DEF GetReset, SetReport, Invalidate, Told
    <2>2. Len(got') = 0 /\ 1..Len(got') = {} /\ 0 <= SIGNATURE_PAGES
      BY <2>1, EmptySeq DEF AuthAssumption
    <2> QED BY <2>1, <2>2 DEF Told
  <1>4. CASE GetState
    <2>1. /\ con = "polling" /\ ready /\ con' = "fetching" /\ Len(got) = 0 /\ nextPage = 0
          /\ UNCHANGED <<round, page, got, stateVars, cmds, pc, cur>>
      BY <1>1, <1>4, EmptySeq DEF GetState, Told, taskVars
    <2>2. Sending' <=> Sending
      BY <2>1, PendingSame DEF Sending
    <2> QED BY <1>1, <2>1, <2>2 DEF Told, stateVars, On, Signing
  <1>5. CASE GetSignature
    <2>1. /\ con = "fetching" /\ ready /\ nextPage = Len(got)
          /\ con' \in {"fetching", "done", "idle"}
          /\ UNCHANGED <<round, page, ready, signature, cmds, pc, cur>>
      BY <1>1, <1>5 DEF GetSignature, Told, taskVars
    <2>2. Sending' <=> Sending
      BY <2>1, PendingSame DEF Sending
    <2>3. /\ Len(got') <= SIGNATURE_PAGES
          /\ \A k \in 1..Len(got') : got'[k] = [round |-> round, page |-> k - 1]
          /\ con' = "fetching" => nextPage' = Len(got')
      <3>1. CASE UNCHANGED <<got, nextPage>>
        BY <1>1, <2>1, <3>1 DEF Told
      <3>2. CASE /\ got' = Append(got, signature[nextPage + 1]) /\ nextPage < SIGNATURE_PAGES
                 /\ nextPage' = nextPage + 1
        <4>1. got \in Seq(Page) /\ SIGNATURE_PAGES \in Nat /\ Len(got) \in Nat /\ round \in 0..MaxRounds
          BY <1>1, LenProperties DEF Typed, TypeOK, ConsoleTypes, AuthAssumption
        <4>2. signature[Len(got) + 1] = [round |-> round, page |-> Len(got)]
          BY <1>1, <2>1, <3>2, <4>1 DEF Told
        <4>3. [round |-> round, page |-> Len(got)] \in Page
          BY <2>1, <3>2, <4>1 DEF Page
        <4>4. /\ Len(got') = Len(got) + 1 /\ got'[Len(got) + 1] = [round |-> round, page |-> Len(got)]
              /\ \A k \in 1..Len(got) : got'[k] = got[k]
          BY <2>1, <3>2, <4>1, <4>2, <4>3, AppendProperties
        <4>5. \A k \in 1..Len(got) : got[k] = [round |-> round, page |-> k - 1]
          BY <1>1 DEF Told
        <4> QED BY <2>1, <3>2, <4>1, <4>4, <4>5
      <3>3. \/ UNCHANGED <<got, nextPage>>
            \/ /\ got' = Append(got, signature[nextPage + 1]) /\ nextPage < SIGNATURE_PAGES
               /\ nextPage' = nextPage + 1
        BY <1>5 DEF GetSignature
      <3> QED BY <3>1, <3>2, <3>3
    <2> QED BY <1>1, <2>1, <2>2, <2>3 DEF Told, On, Signing
  <1>6. CASE Publish
    <2>1. /\ pc = "publish" /\ pc' = "recv" /\ ready' = TRUE /\ signature' = fetched /\ nextPage' = 0
          /\ UNCHANGED <<cmds, consoleVars>>
      BY <1>6 DEF Publish
    <2>2. InOrder /\ Signing /\ Len(fetched) = SIGNATURE_PAGES
      BY <1>1, <2>1 DEF On, Signing, Shapes
    <2>3. cmds = <<>> /\ con # "sending"
      BY <2>2 DEF InOrder
    <2>4. con # "fetching"
      BY <1>1, <2>1, <2>2 DEF Told, On
    <2>5. ~Sending'
      BY <2>1, <2>3, EmptySeq DEF Sending, Pending, CurMine, consoleVars
    <2>6. \A k \in 1..SIGNATURE_PAGES : signature'[k] = [round |-> round, page |-> k - 1]
      BY <1>1, <2>1, <2>2 DEF Signed
    <2> QED BY <1>1, <2>1, <2>3, <2>4, <2>5, <2>6 DEF Told, On, Signing, consoleVars
  <1>7. CASE /\ UNCHANGED <<consoleVars, stateVars>>
             /\ ready /\ On' => ~Signing' /\ ~Sending'
    BY <1>1, <1>7 DEF Told, consoleVars, stateVars
  <1>8. CASE Serve
    <2>1. pc' = "recv" /\ UNCHANGED <<consoleVars, stateVars>>
      BY <1>8 DEF Serve
    <2>2. ready => ~Sending'
      BY <1>1, <1>2, <1>8, PendingServed DEF Told, Sending
    <2> QED BY <1>7, <2>1, <2>2 DEF Signing
  <1>9. CASE Unplug
    BY <1>7, <1>9 DEF Unplug, On
  <1>10. CASE Receive
    <2>1. pc = "recv" /\ pc' \in {"reset", "page"} /\ UNCHANGED <<consoleVars, stateVars>>
      BY <1>1, <1>10, Received
    <2>2. Sending' <=> Sending
      BY <1>1, <1>2, <1>10, PendingTaken DEF Sending
    <2> QED BY <1>1, <1>7, <2>1, <2>2 DEF Told, On, Signing
  <1>11. CASE HandleReset
    <2>1. pc = "reset" /\ pc' = "recv" /\ UNCHANGED <<consoleVars, stateVars, cmds, cur>>
      BY <1>11 DEF HandleReset
    <2>2. Sending' <=> Sending
      BY <2>1, PendingSame DEF Sending, consoleVars
    <2> QED BY <1>1, <1>7, <2>1, <2>2 DEF Told, On, Signing
  <1>12. CASE HandleNonce
    <2>1. /\ pc = "page" /\ UNCHANGED <<consoleVars, stateVars, cmds>>
          /\ cur.page # LAST_NONCE_PAGE => pc' = "recv"
      BY <1>12, Zenon DEF HandleNonce
    <2>2. InOrder
      BY <1>1, <2>1 DEF On
    <2>3. Sending' => Sending
      BY <1>1, <1>2, <1>12, <2>2, PendingHandled DEF Sending
    <2>4. cur.page = LAST_NONCE_PAGE => Sending
      BY <2>1, <2>2 DEF InOrder, Sending, Pending
    <2> QED BY <1>1, <1>7, <2>1, <2>3, <2>4 DEF Told, On, Signing
  <1>13. CASE SignReset \/ SignPage \/ PollSigning \/ PollReady \/ PollTimeout \/ FetchPage \/ EndReset
    <2>1. Signing /\ On /\ UNCHANGED <<consoleVars, stateVars>>
      BY <1>13, Zenon DEF SignReset, SignPage, PollSigning, PollReady, PollTimeout, FetchPage,
         EndReset, Signing, On
    <2>2. ~ready
      BY <1>1, <2>1 DEF Told
    <2> QED BY <1>7, <2>1, <2>2
  <1>14. CASE SignStart \/ SignEnd \/ UNCHANGED vars
    <2>1. UNCHANGED <<consoleVars, stateVars, cmds, cur, pc>>
      BY <1>14 DEF SignStart, SignEnd, vars, taskVars
    <2>2. Sending' <=> Sending
      BY <2>1, PendingSame DEF Sending, consoleVars
    <2> QED BY <1>1, <1>7, <2>1, <2>2 DEF Told, On, Signing
  <1> QED
    BY <1>3, <1>4, <1>5, <1>6, <1>8, <1>9, <1>10, <1>11, <1>12, <1>13, <1>14, Zenon
    DEF Next, Console, Task

\* A round that starts when the task is done with the last one.
LEMMA StartStep ==
  ASSUME AuthAssumption, Always, GetReset, CaughtUp
  PROVE  Kept'
  <1>1. Typed /\ NoneAhead
    BY DEF Always
  <1>2. /\ Len(cmds) \in Nat /\ round \in Nat /\ cur.round \in Nat /\ LAST_NONCE_PAGE \in Nat
        /\ CmdCap \in Nat /\ 0 \in NoncePages /\ DOMAIN cmds = 1..Len(cmds)
        /\ \A k \in 1..Len(cmds) :
             cmds[k] \in Commands /\ (cmds[k].type = "nonce" => cmds[k].round \in Nat)
    BY <1>1, Basics, CommandKinds, LenProperties DEF Rounds
  <1>3. /\ con' = "sending" /\ round' = round + 1 /\ page' = 0 /\ got' = <<>> /\ ready' = FALSE
        /\ Send(Reset) /\ UNCHANGED <<pc, cur, nonce>>
        /\ Reset \in Commands /\ Reset.type # "nonce"
    BY DEF GetReset, Invalidate, taskVars, nonceVars, Commands, Reset
  <1>4. Told'
    <2>1. Len(got') = 0 /\ 1..Len(got') = {} /\ 0 <= SIGNATURE_PAGES
      BY <1>3, EmptySeq DEF AuthAssumption
    <2> QED BY <1>3, <2>1 DEF Told
  <1>5. Signed'
    BY <1>3 DEF CaughtUp, SigningDue, Signed
  <1>6. ASSUME On' PROVE InOrder' /\ Complete' /\ Collected'
    <2>1. /\ ~Signing /\ ~(pc = "page" /\ cur.page = LAST_NONCE_PAGE)
          /\ \A k \in 1..Len(cmds) :
               ~(cmds[k].type = "nonce" /\ cmds[k].page = LAST_NONCE_PAGE)
          /\ Len(cmds) + LAST_NONCE_PAGE + 2 <= CmdCap
      BY <1>2, <1>3, <1>6 DEF CaughtUp, SigningDue, Signing, On
    <2>2. /\ \A k \in 1..Len(cmds') :
               cmds'[k] = Reset \/ (k \in 1..Len(cmds) /\ cmds'[k] = cmds[k])
          /\ Len(cmds') \in Nat /\ Len(cmds') <= Len(cmds) + 1
      BY <1>1, <1>2, <1>3, CommandSent
    <2>3. \A k \in 1..Len(cmds') :
            /\ ~(cmds'[k].type = "nonce" /\ cmds'[k].round = round + 1)
            /\ ~(cmds'[k].type = "nonce" /\ cmds'[k].page = LAST_NONCE_PAGE)
      BY <1>1, <1>2, <1>3, <2>1, <2>2 DEF NoneAhead
    <2>4. cur.round # round + 1
      BY <1>1, <1>2 DEF NoneAhead
    <2>5. InOrder'
      BY <1>3, <2>1, <2>3, <2>4 DEF InOrder, Mine, CurMine, Signing
    <2>6. \A n \in NoncePages : Pending(n)'
      BY <1>1, PendingAll
    <2>7. Len(cmds') + LAST_NONCE_PAGE + 1 <= CmdCap + page'
      <3> SUFFICES ASSUME NEW l, l = Len(cmds') PROVE l + LAST_NONCE_PAGE + 1 <= CmdCap + page'
        OBVIOUS
      <3> QED BY <1>2, <1>3, <2>1, <2>2
    <2> QED BY <2>5, <2>6, <2>7 DEF Complete, Collected
  <1> QED
    BY <1>4, <1>5, <1>6 DEF Kept

\* A round at fault stays so.
LEMMA FaultStays ==
  ASSUME [Next]_vars, ~GetReset, fault' = "none"
  PROVE  fault = "none"
  <1>1. CASE HandleNonce
    BY <1>1, Zenon DEF HandleNonce
  <1>2. CASE UNCHANGED historyVars
    BY <1>2 DEF historyVars
  <1> QED
    BY <1>1, <1>2, Zenon DEF Next, Console, Task, SetReport, GetState, GetSignature, SignStart,
       SignEnd, Serve, Unplug, Receive, HandleReset, SignReset, SignPage, PollSigning, PollReady,
       PollTimeout, FetchPage, Publish, EndReset, vars

LEMMA KeptStep ==
  ASSUME AuthAssumption, IInv, [Next]_vars, fault' = "none"
  PROVE  Kept'
  <1>1. CASE GetReset
    <2>1. CaughtUp
      BY <1>1 DEF GetReset
    <2> QED BY <1>1, <2>1, StartStep DEF IInv
  <1>2. CASE ~GetReset
    <2>1. Always /\ Kept
      BY <1>2, FaultStays DEF IInv
    <2>2. On' => InOrder' /\ (Complete \/ Fresh)' /\ Collected'
      BY <1>2, <2>1, InOrderStep, CompleteOrFreshStep, CollectedStep
    <2>3. Signed' /\ Told'
      BY <1>2, <2>1, SignedStep, ToldStep
    <2> QED BY <2>2, <2>3 DEF Kept
  <1> QED
    BY <1>1, <1>2

LEMMA AlwaysIInv == Spec => []IInv
  <1>1. ASSUME Init PROVE Kept
    <2>1. Len(got) = 0 /\ 1..Len(got) = {} /\ 0 <= SIGNATURE_PAGES
      BY <1>1, EmptySeq, AuthAssumption DEF Init, AuthAssumption
    <2> QED BY <1>1, <2>1 DEF Init, Kept, On, Signed, Told
  <1>2. Init => IInv
    BY <1>1, AlwaysInit, AuthAssumption DEF IInv
  <1>3. IInv /\ [Next]_vars => IInv'
    BY KeptStep, AlwaysStep, AuthAssumption DEF IInv
  <1> QED
    BY <1>2, <1>3, PTL DEF Spec

-----------------------------------------------------------------------------
(* What the console is promised *)

\* The whole signature of a round is a sequence, known by its pages.
LEMMA WholeSeq ==
  ASSUME AuthAssumption, NEW r \in 0..MaxRounds
  PROVE  /\ WholeSignature(r) \in Seq(Page) /\ Len(WholeSignature(r)) = SIGNATURE_PAGES
         /\ \A k \in 1..SIGNATURE_PAGES : WholeSignature(r)[k] = [round |-> r, page |-> k - 1]
  <1>1. SIGNATURE_PAGES \in Nat
    BY DEF AuthAssumption
  <1>2. \A k \in 1..SIGNATURE_PAGES : [round |-> r, page |-> k - 1] \in Page
    BY <1>1 DEF Page
  <1>3. WholeSignature(r) \in [1..SIGNATURE_PAGES -> Page]
    BY <1>2 DEF WholeSignature
  <1>4. WholeSignature(r) \in Seq(Page) /\ Len(WholeSignature(r)) = SIGNATURE_PAGES
    BY <1>1, <1>3, SeqDef, LenProperties
  <1> QED
    BY <1>4 DEF WholeSignature

(***************************************************************************)
(* When the console may trust "ready": what publish_signature has stored   *)
(* is then the whole signature of the console's present nonce, if the      *)
(* round was started when the task was done with the last one and the      *)
(* signer took its first page.  It holds of such a round whatever happened *)
(* in the rounds before, which may have overlapped or been refused, and    *)
(* however often the signer is unplugged, refuses or loses other pages,    *)
(* gives a signature page twice or not at all, or does not answer in time. *)
(***************************************************************************)
THEOREM SignatureIsForNonce == Spec => []SignatureForNonce
  <1>1. ASSUME IInv PROVE SignatureForNonce
    <2> SUFFICES ASSUME ready, fault = "none" PROVE signature = WholeSignature(round)
      BY DEF SignatureForNonce
    <2>1. round \in 0..MaxRounds /\ signature \in Seq(Page) /\ Len(signature) = SIGNATURE_PAGES
      BY <1>1 DEF IInv, Always, Typed, TypeOK, ConsoleTypes, StateTypes, Shapes
    <2>2. /\ WholeSignature(round) \in Seq(Page) /\ Len(WholeSignature(round)) = SIGNATURE_PAGES
          /\ \A k \in 1..SIGNATURE_PAGES : WholeSignature(round)[k] = [round |-> round, page |-> k - 1]
      BY <2>1, WholeSeq, AuthAssumption
    <2>3. \A k \in 1..SIGNATURE_PAGES : signature[k] = WholeSignature(round)[k]
      BY <1>1, <2>2 DEF IInv, Kept, Told
    <2> QED BY <2>1, <2>2, <2>3, SeqEqual
  <1> QED
    BY <1>1, AlwaysIInv, PTL

-----------------------------------------------------------------------------
(* Auth implements AuthRounds *)

LEMMA RoundsStep ==
  ASSUME AuthAssumption, Always, Kept, [Next]_vars, ~GetReset, fault' = "none", fault = "none"
  PROVE  [Promised!Next]_(Promised!vars)
  <1>1. Typed /\ Shapes /\ Told /\ (On => InOrder)
    BY DEF Always, Kept, Typed
  <1>2. CASE UNCHANGED <<round, ready, got>>
    BY <1>2, Zenon DEF Promised!vars
  <1>3. CASE SetReport
    <2>1. con = "sending" /\ ready' = FALSE /\ UNCHANGED <<round, got>>
      BY <1>3, Zenon DEF SetReport, Invalidate
    <2>2. ~ready /\ ready \in BOOLEAN
      BY <1>1, <2>1, Zenon DEF Told, Typed, TypeOK, StateTypes
    <2>3. ready' = ready
      BY <2>1, <2>2
    <2> QED BY <1>2, <2>1, <2>3, Zenon
  <1>4. CASE GetSignature
    <2>1. ready /\ nextPage = Len(got) /\ UNCHANGED <<round, ready>>
      BY <1>1, <1>4, Zenon DEF GetSignature, Told
    <2>2. CASE nextPage < SIGNATURE_PAGES
      <3>1. got' = Append(got, signature[nextPage + 1])
        BY <1>4, <2>1, <2>2, Zenon DEF GetSignature
      <3>2. Len(got) \in Nat /\ SIGNATURE_PAGES \in Nat
        BY <1>1, LenProperties DEF Typed, TypeOK, ConsoleTypes, AuthAssumption
      <3>3. Len(got) + 1 \in 1..SIGNATURE_PAGES /\ (Len(got) + 1) - 1 = Len(got)
        BY <2>1, <2>2, <3>2
      <3>4. signature[Len(got) + 1] = [round |-> round, page |-> (Len(got) + 1) - 1]
        BY <1>1, <2>1, <3>3, Zenon DEF Told
      <3>5. got' = Append(got, [round |-> round, page |-> Len(got)]) /\ Len(got) < SIGNATURE_PAGES
        BY <2>1, <2>2, <3>1, <3>3, <3>4
      <3> QED BY <2>1, <3>5, Zenon DEF Promised!Next, Promised!Give
    <2>3. CASE ~(nextPage < SIGNATURE_PAGES)
      <3>1. UNCHANGED got
        BY <1>4, <2>3, Zenon DEF GetSignature
      <3> QED BY <1>2, <2>1, <3>1, Zenon
    <2> QED BY <2>2, <2>3, Zenon
  <1>5. CASE Publish
    <2>1. pc = "publish" /\ ready' = TRUE /\ UNCHANGED <<round, got>>
      BY <1>5, Zenon DEF Publish, consoleVars
    <2>2. Signing /\ On
      BY <2>1 DEF Signing, On
    <2>3. ~ready /\ got = <<>> /\ round # 0
      BY <1>1, <2>2, Zenon DEF Told, InOrder
    <2>4. round > 0
      BY <1>1, <2>3 DEF Typed, TypeOK, ConsoleTypes, AuthAssumption
    <2> QED BY <2>1, <2>3, <2>4, Zenon DEF Promised!Next, Promised!Sign
  <1> QED
    BY <1>2, <1>3, <1>4, <1>5, Zenon DEF Next, Console, Task, SignStart, SignEnd, Serve,
       Unplug, GetState, Receive, HandleReset, HandleNonce, SignReset, SignPage, PollSigning,
       PollReady, PollTimeout, FetchPage, EndReset, vars, consoleVars, stateVars

LEMMA StrayStep ==
  ASSUME [Next]_vars, ~GetReset, fault' # "none"
  PROVE  [Promised!Next]_(Promised!vars)
  <1>1. UNCHANGED round
    BY Zenon DEF Next, Console, Task, SetReport, GetState, GetSignature, SignStart, SignEnd, Serve,
       Unplug, Receive, HandleReset, HandleNonce, SignReset, SignPage, PollSigning, PollReady,
       PollTimeout, FetchPage, Publish, EndReset, vars, consoleVars
  <1>2. CASE fault # "none"
    BY <1>1, <1>2, Zenon DEF Promised!Next, Promised!Stray
  <1>3. CASE fault = "none"
    <2>1. HandleNonce
      BY <1>3, Zenon DEF Next, Console, Task, SetReport, GetState, GetSignature, SignStart, SignEnd,
         Serve, Unplug, Receive, HandleReset, SignReset, SignPage, PollSigning, PollReady,
         PollTimeout, FetchPage, Publish, EndReset, vars, historyVars
    <2>2. UNCHANGED <<round, ready, got>> /\ (fault' = "none") = FALSE
      BY <2>1, Zenon DEF HandleNonce, consoleVars, stateVars
    <2> QED BY <1>3, <2>2, Zenon DEF Promised!Next, Promised!Break
  <1> QED
    BY <1>2, <1>3

(***************************************************************************)
(* Auth implements AuthRounds: to the console a round that is not at fault *)
(* is signed once at most and the pages of its own signature are given in  *)
(* turn, each once, whatever happens to the signer, and whatever the       *)
(* rounds before it left behind in CMD, in STATE and in the signer.        *)
(***************************************************************************)
THEOREM RoundsImplemented == Spec => RoundsKept
  <1>1. Init => Promised!Init
    BY DEF Init, Promised!Init
  <1>2. ASSUME IInv, [Next]_vars PROVE [Promised!Next]_(Promised!vars)
    <2>1. CASE GetReset
      <3>1. round' = round + 1 /\ ready' = FALSE /\ got' = <<>> /\ (fault' = "none") \in BOOLEAN
        BY <2>1, Zenon DEF GetReset, Invalidate
      <3> QED BY <3>1, Zenon DEF Promised!Next, Promised!Ask
    <2>2. CASE ~GetReset /\ fault' = "none"
      <3>1. fault = "none"
        BY <1>2, <2>2, FaultStays
      <3> QED BY <1>2, <2>2, <3>1, RoundsStep, AuthAssumption DEF IInv
    <2>3. CASE ~GetReset /\ fault' # "none"
      BY <1>2, <2>3, StrayStep
    <2> QED BY <2>1, <2>2, <2>3
  <1>3. IInv /\ [Next]_vars => [Promised!Next]_(Promised!vars)
    BY <1>2
  <1> QED
    BY <1>1, <1>3, AlwaysIInv, PTL DEF Spec, RoundsKept, Promised!Spec
=============================================================================
