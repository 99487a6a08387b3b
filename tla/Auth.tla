-------------------------------- MODULE Auth --------------------------------
(***************************************************************************)
(* The console's authentication rounds, relayed to a signer                *)
(* (src/src/auth.rs).                                                      *)
(*                                                                         *)
(* Core 0 answers the console at once from STATE and queues what the       *)
(* console asked in CMD.  Core 1 takes these commands, passes the nonce    *)
(* pages on to the signer, has it sign again when a page of the signature  *)
(* is lost, and publishes a whole signature in STATE.                      *)
(*                                                                         *)
(* A nonce is named by the number of the console's round.  The console and *)
(* the signer are outside this repository; they do what the comments of    *)
(* auth.rs and docs/ps5-auth.md say of them.  A control transfer to the    *)
(* signer is one step, with every outcome it can have.                     *)
(***************************************************************************)
EXTENDS Naturals, Sequences

CONSTANTS
  LAST_NONCE_PAGE,   \* the last page of a nonce
  SIGNATURE_PAGES,   \* pages of a signature
  SIGN_ATTEMPTS,     \* signing runs per console nonce
  CmdCap,            \* capacity of CMD
  MaxRounds          \* bound: rounds the console starts

ASSUME AuthAssumption ==
  /\ LAST_NONCE_PAGE \in Nat \ {0} /\ SIGNATURE_PAGES \in Nat \ {0}
  /\ SIGN_ATTEMPTS \in Nat \ {0} /\ CmdCap \in Nat \ {0} /\ MaxRounds \in Nat

VARIABLES
  \* the console
  con,        \* what it does in its round
  round,      \* its round, 0 before the first
  page,       \* the next nonce page it sends
  got,        \* the signature pages it has read in this round
  fault,      \* history: what was wrong with its round: "none", "early" (the
              \* signer task was not done with the last one), "refused" (the
              \* signer did not take its first page)
  \* STATE and CMD
  ready, nextPage, signature, cmds,
  \* the signer task
  pc,         \* where it is; "off" while there is no signer
  cur,        \* the nonce page it acts on
  nonce,      \* NONCE: the round of each page kept to sign again
  nonceRefused, \* NONCE_REFUSED
  attempt, i, seen, fetched,
  unsent,     \* history: pages of the nonce the task works on that failed and
              \* were not sent since
  \* the signer
  held,       \* the round of each nonce page it holds
  status,     \* "ready", "loaded" (about to sign, F2 still says ready), "signing"
  sig,        \* the round its signature is of
  nextF1,     \* the next signature page it gives
  runs,       \* history: its signing runs for each round
  replyLost   \* history: the rounds of which it took a page of the console's
              \* and the reply was lost

consoleVars == <<con, round, page, got>>
stateVars == <<ready, nextPage, signature>>
taskVars == <<pc, cur, attempt, i, seen, fetched, unsent>>
nonceVars == <<nonce, nonceRefused>>
signerVars == <<held, status, sig, nextF1, runs>>
historyVars == <<fault, replyLost>>
vars == <<consoleVars, stateVars, cmds, taskVars, nonceVars, signerVars, historyVars>>

NoncePages == 0..LAST_NONCE_PAGE
Rounds == 1..MaxRounds
Reset == [type |-> "reset"]
Nonce(r, n) == [type |-> "nonce", round |-> r, page |-> n]
NoPage == [round |-> 0, page |-> 0]

\* Bound on the history variable runs.
RunCap == SIGN_ATTEMPTS + 2

Init ==
  /\ con = "idle" /\ round = 0 /\ page = 0 /\ got = <<>> /\ fault = "none"
  /\ ready = FALSE /\ nextPage = 0 /\ signature = <<>> /\ cmds = <<>>
  /\ pc = "off" /\ cur = NoPage /\ attempt = 0 /\ i = 0 /\ seen = FALSE
  /\ fetched = <<>> /\ unsent = {}
  /\ nonce = [n \in NoncePages |-> 0] /\ nonceRefused = FALSE
  /\ held = [n \in NoncePages |-> 0] /\ status = "ready"
  /\ sig = 0 /\ nextF1 = 0 /\ runs = [r \in Rounds |-> 0]
  /\ replyLost = {}

-----------------------------------------------------------------------------
(* Faulty variants, each a slip the code could have made; the properties    *)
(* below are confirmed to tell them from the real definitions.              *)

\* The queue takes one command too many.
SendOneMore(cmd) == cmds' = IF Len(cmds) <= CmdCap THEN Append(cmds, cmd) ELSE cmds

\* A new round leaves the last one's "ready".
InvalidatePage == nextPage' = 0 /\ UNCHANGED <<ready, signature>>

\* A stale "ready" is believed at once.
PollReadyAtOnce ==
  /\ pc = "poll" /\ status # "signing"
  /\ pc' = "fetch" /\ i' = 0 /\ fetched' = <<>>
  /\ UNCHANGED <<cur, attempt, seen, unsent, consoleVars, stateVars, cmds,
                 nonceVars, signerVars, historyVars>>

\* The attempts are counted from 0, or not counted at all.
SignOnceMore ==
  IF attempt <= SIGN_ATTEMPTS
  THEN attempt' = attempt + 1 /\ pc' = "signReset"
  ELSE UNCHANGED attempt /\ pc' = "endReset"

SignForEver == UNCHANGED attempt /\ pc' = "signReset"

-----------------------------------------------------------------------------
(* Core 0: the console's requests *)

\* send: dropped when the queue is full.
Send(cmd) == cmds' = IF Len(cmds) < CmdCap THEN Append(cmds, cmd) ELSE cmds

Invalidate == ready' = FALSE /\ nextPage' = 0 /\ UNCHANGED signature

\* The host side is signing, or will be once it has taken what is queued.
SigningDue ==
  \/ pc \in {"signReset", "signPages", "poll", "fetch", "publish", "endReset"}
  \/ pc = "page" /\ cur.page = LAST_NONCE_PAGE
  \/ \E k \in DOMAIN cmds : cmds[k].type = "nonce" /\ cmds[k].page = LAST_NONCE_PAGE

\* The task has kept up with the console: a round that starts now finds it done
\* with the last one, and room in CMD.  The console, about a minute from one
\* round to the next (docs/ps5-auth.md), mostly waits that long, but not for it.
CaughtUp ==
  \/ pc = "off"
  \/ ~SigningDue /\ Len(cmds) + LAST_NONCE_PAGE + 2 <= CmdCap

\* GET F3: the console starts a round, whatever became of the last one.
GetReset ==
  /\ round < MaxRounds
  /\ fault' = IF CaughtUp THEN "none" ELSE "early"
  /\ con' = "sending" /\ round' = round + 1 /\ page' = 0 /\ got' = <<>>
  /\ Invalidate
  /\ Send(Reset)
  /\ UNCHANGED <<taskVars, nonceVars, signerVars, replyLost>>

\* SET F0: one nonce page.
SetReport ==
  /\ con = "sending"
  /\ con' = IF page = LAST_NONCE_PAGE THEN "polling" ELSE "sending"
  /\ page' = page + 1
  /\ Invalidate
  /\ Send(Nonce(round, page))
  /\ UNCHANGED <<round, got, taskVars, nonceVars, signerVars, historyVars>>

\* GET F2 answered "ready"; while it says "signing" the console polls on.
GetState ==
  /\ con = "polling" /\ ready
  /\ con' = "fetching"
  /\ UNCHANGED <<round, page, got, stateVars, cmds, taskVars, nonceVars, signerVars, historyVars>>

\* GET F1: the next page, or no answer.
GetSignature ==
  /\ con = "fetching"
  /\ IF ready /\ nextPage < SIGNATURE_PAGES
     THEN /\ got' = Append(got, signature[nextPage + 1])
          /\ nextPage' = nextPage + 1
          /\ con' = IF Len(got') = SIGNATURE_PAGES THEN "done" ELSE "fetching"
     ELSE con' = "idle" /\ UNCHANGED <<got, nextPage>>
  /\ UNCHANGED <<round, page, ready, signature, cmds, taskVars, nonceVars, signerVars, historyVars>>

Console == GetReset \/ SetReport \/ GetState \/ GetSignature

-----------------------------------------------------------------------------
(* The signer *)

\* It signs only a nonce whose pages belong together (the last one has check
\* bytes).  A new page 0 starts a new nonce.
Load(r, n) ==
  LET pages == IF n = 0 THEN [m \in NoncePages |-> IF m = 0 THEN r ELSE 0]
               ELSE [held EXCEPT ![n] = r]
      whole == \A m \in NoncePages : pages[m] = r
  IN /\ held' = pages
     /\ status' = CASE n = LAST_NONCE_PAGE /\ whole /\ r # 0 -> "loaded"
                    [] n = 0 -> "ready"
                    [] OTHER -> status
     /\ UNCHANGED <<sig, nextF1, runs>>

\* set_nonce, with its result: taken; taken, the reply lost; or refused.
SetNonce(r, n, ok) ==
  \/ Load(r, n)
  \/ ~ok /\ UNCHANGED signerVars

\* reset_signer: it gives up its nonce pages and starts its old signature
\* over.  A reset that fails is not noticed.
ResetSigner ==
  \/ /\ held' = [n \in NoncePages |-> 0] /\ status' = "ready" /\ nextF1' = 0
     /\ UNCHANGED <<sig, runs>>
  \/ UNCHANGED signerVars

SignStart ==
  /\ status = "loaded"
  /\ status' = "signing"
  /\ runs' = [runs EXCEPT ![held[0]] = IF @ < RunCap THEN @ + 1 ELSE @]
  /\ UNCHANGED <<held, sig, nextF1, consoleVars, stateVars, cmds, taskVars, nonceVars, historyVars>>

SignEnd ==
  /\ status = "signing"
  /\ status' = "ready" /\ sig' = held[0] /\ nextF1' = 0
  /\ UNCHANGED <<held, runs, consoleVars, stateVars, cmds, taskVars, nonceVars, historyVars>>

-----------------------------------------------------------------------------
(* Core 1: the task that serves the signer *)

\* try_signer has had an answer; serve drops what was queued without a signer.
Serve ==
  /\ pc = "off"
  /\ pc' = "recv" /\ cmds' = <<>>
  /\ UNCHANGED <<cur, attempt, i, seen, fetched, unsent, consoleVars, stateVars,
                 nonceVars, signerVars, historyVars>>

\* The signer is unplugged: serve's future is dropped where it is; the
\* statics stay, the signer forgets everything.
Unplug ==
  /\ pc # "off"
  /\ pc' = "off" /\ cur' = NoPage /\ attempt' = 0 /\ i' = 0 /\ seen' = FALSE
  /\ fetched' = <<>> /\ unsent' = {}
  /\ held' = [n \in NoncePages |-> 0] /\ status' = "ready" /\ sig' = 0 /\ nextF1' = 0
  /\ UNCHANGED <<runs, consoleVars, stateVars, cmds, nonceVars, historyVars>>

\* serve takes a command; handle keeps a nonce page before it sends it on.
Receive ==
  /\ pc = "recv" /\ cmds # <<>>
  /\ cmds' = Tail(cmds)
  /\ IF Head(cmds).type = "reset"
     THEN pc' = "reset" /\ UNCHANGED <<cur, nonce, unsent>>
     ELSE /\ pc' = "page"
          /\ cur' = [round |-> Head(cmds).round, page |-> Head(cmds).page]
          /\ nonce' = [nonce EXCEPT ![Head(cmds).page] = Head(cmds).round]
          /\ unsent' = IF Head(cmds).page = 0 THEN {} ELSE unsent
  /\ UNCHANGED <<attempt, i, seen, fetched, nonceRefused, consoleVars, stateVars, signerVars, historyVars>>

HandleReset ==
  /\ pc = "reset"
  /\ ResetSigner
  /\ pc' = "recv"
  /\ UNCHANGED <<cur, attempt, i, seen, fetched, unsent, consoleVars, stateVars,
                 cmds, nonceVars, historyVars>>

Sent(n, ok) == unsent' = IF ok THEN unsent \ {n} ELSE unsent \cup {n}

\* A faulty variant: NONCE_REFUSED is read before the last page is sent.
HandleNonceEarly ==
  /\ pc = "page"
  /\ \E ok \in BOOLEAN :
       /\ SetNonce(cur.round, cur.page, ok)
       /\ Sent(cur.page, ok)
       /\ nonceRefused' = (cur.page # 0 /\ (~ok \/ (nonceRefused /\ cur.page # LAST_NONCE_PAGE)))
       /\ IF cur.page = LAST_NONCE_PAGE
          THEN attempt' = 1 /\ pc' = IF nonceRefused THEN "signReset" ELSE "poll"
          ELSE pc' = "recv" /\ UNCHANGED attempt
  /\ cur' = NoPage /\ seen' = FALSE
  /\ UNCHANGED <<i, fetched, nonce, consoleVars, stateVars, cmds, historyVars>>

\* handle, from set_nonce on.  After the last page, sign is entered.
HandleNonce ==
  /\ pc = "page"
  /\ \E ok \in BOOLEAN :
       LET refused == nonceRefused \/ ~ok IN
       /\ SetNonce(cur.round, cur.page, ok)
       /\ Sent(cur.page, ok)
       /\ replyLost' = IF ~ok /\ held' # held THEN replyLost \cup {cur.round}
                       ELSE replyLost
       /\ fault' = IF cur = [round |-> round, page |-> 0] /\ held'[0] # round
                   THEN "refused" ELSE fault
       /\ IF cur.page = LAST_NONCE_PAGE
          THEN /\ nonceRefused' = FALSE /\ attempt' = 1
               /\ pc' = IF refused THEN "signReset" ELSE "poll"
          ELSE /\ nonceRefused' = (refused /\ cur.page # 0)
               /\ pc' = "recv" /\ UNCHANGED attempt
  /\ cur' = NoPage /\ seen' = FALSE
  /\ UNCHANGED <<i, fetched, nonce, consoleVars, stateVars, cmds>>

\* sign: start over as the console does, F3 first ...
SignReset ==
  /\ pc = "signReset"
  /\ ResetSigner
  /\ pc' = "signPages" /\ i' = 0
  /\ UNCHANGED <<cur, attempt, seen, fetched, unsent, consoleVars, stateVars,
                 cmds, nonceVars, historyVars>>

\* ... then every nonce page; sign gives up when one is refused.
SignPage ==
  /\ pc = "signPages"
  /\ \E ok \in BOOLEAN :
       /\ SetNonce(nonce[i], i, ok)
       /\ unsent' = IF ok THEN unsent \ {i} ELSE {}
       /\ IF ~ok THEN pc' = "recv" /\ i' = 0
          ELSE IF i < LAST_NONCE_PAGE THEN i' = i + 1 /\ UNCHANGED pc
          ELSE pc' = "poll" /\ i' = 0
  /\ seen' = FALSE
  /\ UNCHANGED <<cur, attempt, fetched, consoleVars, stateVars, cmds, nonceVars, historyVars>>

\* fetch_signature: F2 says "signing".
PollSigning ==
  /\ pc = "poll" /\ status = "signing"
  /\ seen' = TRUE
  /\ UNCHANGED <<pc, cur, attempt, i, fetched, unsent, consoleVars, stateVars,
                 cmds, nonceVars, signerVars, historyVars>>

\* F2 says "ready".  Believed once "signing" was seen, or after
\* STALE_READY_GRACE; the signer starts to sign well before that.
PollReady ==
  /\ pc = "poll" /\ status # "signing"
  /\ seen \/ status # "loaded"
  /\ pc' = "fetch" /\ i' = 0 /\ fetched' = <<>>
  /\ UNCHANGED <<cur, attempt, seen, unsent, consoleVars, stateVars, cmds,
                 nonceVars, signerVars, historyVars>>

\* SIGNER_TIMEOUT: sign resets the signer and gives up.
PollTimeout ==
  /\ pc = "poll"
  /\ pc' = "endReset"
  /\ UNCHANGED <<cur, attempt, i, seen, fetched, unsent, consoleVars, stateVars,
                 cmds, nonceVars, signerVars, historyVars>>

\* What sign does when a page is lost.
SignAgain ==
  IF attempt < SIGN_ATTEMPTS
  THEN attempt' = attempt + 1 /\ pc' = "signReset"
  ELSE UNCHANGED attempt /\ pc' = "endReset"

\* GET F1: the signer steps its page on every GET it takes, also on one whose
\* reply is lost, and twice when the SETUP is sent again.
FetchPage ==
  /\ pc = "fetch"
  /\ \E taken \in 0..2, replied \in BOOLEAN :
       LET number == nextF1 + taken - 1
           good == taken > 0 /\ replied /\ sig # 0 /\ number < SIGNATURE_PAGES
                   /\ number = i IN
       /\ nextF1' = IF nextF1 + taken < SIGNATURE_PAGES THEN nextF1 + taken
                    ELSE SIGNATURE_PAGES
       /\ IF good
          THEN /\ fetched' = Append(fetched, [round |-> sig, page |-> number])
               /\ i' = i + 1 /\ UNCHANGED attempt
               /\ pc' = IF i + 1 = SIGNATURE_PAGES THEN "publish" ELSE "fetch"
          ELSE i' = 0 /\ fetched' = <<>> /\ SignAgain
  /\ UNCHANGED <<cur, seen, unsent, consoleVars, stateVars, cmds, nonceVars,
                 held, status, sig, runs, historyVars>>

\* The signature goes to the console, under the console's nonce id of now.
Publish ==
  /\ pc = "publish"
  /\ signature' = fetched /\ nextPage' = 0 /\ ready' = TRUE
  /\ pc' = "recv" /\ i' = 0 /\ fetched' = <<>>
  /\ UNCHANGED <<cur, attempt, seen, unsent, consoleVars, cmds, nonceVars, signerVars, historyVars>>

EndReset ==
  /\ pc = "endReset"
  /\ ResetSigner
  /\ pc' = "recv"
  /\ UNCHANGED <<cur, attempt, i, seen, fetched, unsent, consoleVars, stateVars,
                 cmds, nonceVars, historyVars>>

-----------------------------------------------------------------------------
Task ==
  \/ Receive \/ HandleReset \/ HandleNonce
  \/ SignReset \/ SignPage \/ PollSigning \/ PollReady \/ FetchPage
  \/ Publish \/ EndReset

Next == Console \/ SignStart \/ SignEnd \/ Serve \/ Unplug \/ Task \/ PollTimeout

Spec == Init /\ [][Next]_vars

(***************************************************************************)
(* The executor runs the task and its timers fire.  Nothing is assumed of  *)
(* the console, of the signer or of the outcome of a transfer.             *)
(***************************************************************************)
LiveSpec == Spec /\ WF_vars(Task) /\ WF_vars(PollTimeout)

-----------------------------------------------------------------------------
(* Properties *)

Page == [round : 0..MaxRounds, page : 0..SIGNATURE_PAGES]
Commands == {Reset} \cup {Nonce(r, n) : r \in Rounds, n \in NoncePages}

ConsoleTypes ==
  /\ con \in {"idle", "sending", "polling", "fetching", "done"}
  /\ round \in 0..MaxRounds /\ page \in 0..(LAST_NONCE_PAGE + 1)
  /\ got \in Seq(Page)

StateTypes ==
  /\ ready \in BOOLEAN /\ nextPage \in 0..SIGNATURE_PAGES
  /\ signature \in Seq(Page)
  /\ cmds \in Seq(Commands) /\ Len(cmds) <= CmdCap

TaskTypes ==
  /\ pc \in {"off", "recv", "reset", "page", "signReset", "signPages", "poll",
             "fetch", "publish", "endReset"}
  /\ cur \in [round : 0..MaxRounds, page : NoncePages]
  /\ attempt \in 0..SIGN_ATTEMPTS
  /\ i \in 0..SIGNATURE_PAGES \cup NoncePages
  /\ seen \in BOOLEAN /\ fetched \in Seq(Page)
  /\ unsent \subseteq NoncePages
  /\ nonce \in [NoncePages -> 0..MaxRounds] /\ nonceRefused \in BOOLEAN

SignerTypes ==
  /\ held \in [NoncePages -> 0..MaxRounds]
  /\ status \in {"ready", "loaded", "signing"}
  /\ sig \in 0..MaxRounds /\ nextF1 \in 0..SIGNATURE_PAGES
  /\ runs \in [Rounds -> 0..RunCap]

HistoryTypes == fault \in {"none", "early", "refused"} /\ replyLost \subseteq Rounds

TypeOK == ConsoleTypes /\ StateTypes /\ TaskTypes /\ SignerTypes /\ HistoryTypes

(***************************************************************************)
(* What the console is told to be ready is the whole signature of the      *)
(* nonce of its present round, its pages in order (auth.rs: "until all     *)
(* signature pages are fetched from it the console is told signing"), for  *)
(* a round that was started when the task was done with the last one and   *)
(* whose first page the signer took; whatever was wrong with the rounds    *)
(* before it, whatever becomes of its other pages and of the signer.       *)
(***************************************************************************)
WholeSignature(r) == [k \in 1..SIGNATURE_PAGES |-> [round |-> r, page |-> k - 1]]

SignatureForNonce == ready /\ fault = "none" => signature = WholeSignature(round)

(***************************************************************************)
(* The same of what a console reads that did not wait for the task         *)
(* (docs/ps5-auth.md: the bridge "answers F2 with signing until all 19     *)
(* signature pages are cached").  It fails: Publish puts the signature of  *)
(* the last round under the nonce id of the present one.                   *)
(***************************************************************************)
OwnSignatureRead ==
  con = "fetching" /\ fault # "refused" => signature = WholeSignature(round)

(***************************************************************************)
(* A round of the console is signed once at most; the console is then told *)
(* "ready" until it asks for the next round, and given the pages of that   *)
(* round's signature in turn, none skipped or repeated (auth.rs, module    *)
(* comment).  Nothing that the host side does meanwhile, and no late       *)
(* signature, takes that back or starts it over.  Promised of each round   *)
(* that is not at fault.                                                   *)
(***************************************************************************)
Promised == INSTANCE AuthRounds WITH Pages <- SIGNATURE_PAGES, kept <- fault = "none"

RoundsKept == Promised!Spec

(***************************************************************************)
(* A nonce page that the signer refused has been sent again by the time    *)
(* its signature is waited for (auth.rs, handle: "A page the signer        *)
(* refused is resent with all the others once the last one is in").  It    *)
(* fails for the first page.                                               *)
(***************************************************************************)
RefusedResent == pc \in {"poll", "fetch", "publish"} => unsent = {}

(***************************************************************************)
(* The same of every page but the first: NONCE_REFUSED misses none of      *)
(* them, whatever CMD dropped and however the rounds overlap.              *)
(***************************************************************************)
LaterPagesResent == pc \in {"poll", "fetch", "publish"} => unsent \subseteq {0}

(***************************************************************************)
(* The signer is made to sign a console nonce at most SIGN_ATTEMPTS times  *)
(* (auth.rs, SIGN_ATTEMPTS: "Signing runs per console nonce"), and once    *)
(* more when it took a page of the console's and only the reply was lost.  *)
(***************************************************************************)
SigningBudget ==
  \A r \in Rounds :
    runs[r] <= IF r \in replyLost THEN SIGN_ATTEMPTS + 1 ELSE SIGN_ATTEMPTS

(***************************************************************************)
(* The task gets back to the console's commands, whatever the signer does  *)
(* with the transfers.                                                     *)
(***************************************************************************)
BackToCommands == pc # "recv" /\ pc # "off" ~> pc \in {"recv", "off"}
=============================================================================
