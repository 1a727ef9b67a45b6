-------------------------------- MODULE Confirm --------------------------------
(***************************************************************************)
(* The confirmation on a hardware key: ConfirmationCoordinator with the    *)
(* ConfirmationBridge it owns. A run of runYubiKeyTest is a task that      *)
(* reads the key's public key, asks for a challenge and has the key sign   *)
(* it; the two card operations leave the main thread and come back         *)
(* whenever the card, or the human, is done with them.                     *)
(*                                                                         *)
(* Everything else is confined to the main thread: an action is what runs  *)
(* there between two awaits. A run whose challenge has expired is not      *)
(* cancelled. It comes back in the middle of another run.                  *)
(***************************************************************************)
CONSTANTS
  Runs,            \* runs; each stands for the action and the nonce it issues
                   \* too, and its name is used again once the task has ended
  Cards,           \* keys that may be plugged in
  None

ASSUME ConfirmAssumption == None \notin Runs \cup Cards

VARIABLES
  state,           \* ConfirmationCoordinator.state, as it is between handlers
  actionId,        \* the run whose challenge is pending or decided, or None
  clock,           \* of that challenge: "none" (deadline is nil), "running",
                   \* "due" (past deadline), "dead" (past the bridge's expiresAt)
  expiryTimer,     \* the timer of 0.25 s is scheduled
  pendingActions,  \* challenges that the bridge holds
  enrolled,        \* the enrolled public key, or None
  task,            \* what each run waits for: "none", "key", "touch" (the card is
                   \* to be touched), "signature" (touched, on its way back)
  touched          \* the card that signed the run's nonce, or None

vars == <<state, actionId, clock, expiryTimer, pendingActions, enrolled, task,
          touched>>

TypeOK ==
  /\ state \in {"idle", "connecting", "awaitingTouch", "approved", "rejected", "expired"}
  /\ actionId \in Runs \cup {None}
  /\ clock \in {"none", "running", "due", "dead"}
  /\ expiryTimer \in BOOLEAN
  /\ pendingActions \subseteq Runs
  /\ enrolled \in Cards \cup {None}
  /\ task \in [Runs -> {"none", "key", "touch", "signature"}]
  /\ touched \in [Runs -> Cards \cup {None}]

Init ==
  /\ state = "idle"
  /\ actionId = None
  /\ clock = "none"
  /\ expiryTimer = FALSE
  /\ pendingActions = {}
  /\ enrolled = None
  /\ task = [r \in Runs |-> "none"]
  /\ touched = [r \in Runs |-> None]

IsPending == state \in {"connecting", "awaitingTouch"}

\* secondsRemaining ?? 0 is zero.
TimeIsUp == clock # "running"

-----------------------------------------------------------------------------
(* The decision                                                            *)

Finish(verdict) ==
  /\ state' = verdict
  /\ expiryTimer' = FALSE

\* fail: nothing unless a confirmation is pending, whoever's it is.
Fail ==
  /\ IF IsPending THEN Finish("rejected") ELSE UNCHANGED <<state, expiryTimer>>
  /\ UNCHANGED <<actionId, clock, pendingActions, enrolled>>

\* verifyConfirmation for the pending challenge, of run r's signature.
Valid(r) ==
  /\ actionId \in pendingActions
  /\ clock # "dead"
  /\ r = actionId
  /\ touched[r] = enrolled

\* Mutant: the nonce can be used again.
VerifyKeepsNonce(r) == UNCHANGED pendingActions

\* The nonce is dropped when it is used and when it is found dead; a signature
\* that does not verify leaves it.
Verify(r) ==
  pendingActions' = IF Valid(r) \/ clock = "dead" THEN pendingActions \ {actionId}
                    ELSE pendingActions

\* Mutant: only an approval settles the state.
SubmitUnsettled(r) ==
  /\ IF actionId = None \/ ~IsPending
       THEN UNCHANGED <<state, expiryTimer, pendingActions>>
       ELSE /\ Verify(r)
            /\ IF Valid(r) THEN Finish("approved")
               ELSE state' = "verifying" /\ UNCHANGED expiryTimer
  /\ UNCHANGED <<actionId, clock, enrolled>>

\* submit: run r's signature is checked against the challenge that is pending
\* now, which need not be the one it was made for.
Submit(r) ==
  /\ IF actionId = None \/ ~IsPending
       THEN UNCHANGED <<state, expiryTimer, pendingActions>>
       ELSE /\ Verify(r)
            /\ Finish(IF Valid(r) THEN "approved"
                      ELSE IF TimeIsUp THEN "expired" ELSE "rejected")
  /\ UNCHANGED <<actionId, clock, enrolled>>

-----------------------------------------------------------------------------
(* A run                                                                   *)

\* runYubiKeyTest, with its reset.
RunYubiKeyTest(r) ==
  /\ ~IsPending
  /\ task[r] = "none"
  /\ state' = "connecting"
  /\ actionId' = None
  /\ clock' = "none"
  /\ expiryTimer' = FALSE
  /\ task' = [task EXCEPT ![r] = "key"]
  /\ touched' = [touched EXCEPT ![r] = None]
  /\ pendingActions' = pendingActions \ {r}
  /\ UNCHANGED enrolled

\* Mutant: the guard after the await is missing.
PublicKeyReadUnguarded(r, c) ==
  /\ task[r] = "key"
  /\ enrolled' = c
  /\ actionId' = r
  /\ pendingActions' = pendingActions \cup {r}
  /\ clock' = "running"
  /\ state' = "awaitingTouch"
  /\ expiryTimer' = TRUE
  /\ task' = [task EXCEPT ![r] = "touch"]
  /\ UNCHANGED touched

\* publicKey() returns card c's key. If a run is connecting, this one or a later
\* one, the key is enrolled and this run's challenge issued (begin).
PublicKeyRead(r, c) ==
  /\ task[r] = "key"
  /\ IF state = "connecting"
       THEN /\ enrolled' = c
            /\ actionId' = r
            /\ pendingActions' = pendingActions \cup {r}
            /\ clock' = "running"
            /\ state' = "awaitingTouch"
            /\ expiryTimer' = TRUE
            /\ task' = [task EXCEPT ![r] = "touch"]
       ELSE /\ task' = [task EXCEPT ![r] = "none"]
            /\ UNCHANGED <<state, actionId, clock, expiryTimer, pendingActions,
                           enrolled>>
  /\ UNCHANGED touched

\* The card signs run r's nonce; it may be another one than was enrolled.
Touch(r, c) ==
  /\ task[r] = "touch"
  /\ task' = [task EXCEPT ![r] = "signature"]
  /\ touched' = [touched EXCEPT ![r] = c]
  /\ UNCHANGED <<state, actionId, clock, expiryTimer, pendingActions, enrolled>>

\* signNonce() returns.
SignatureArrives(r) ==
  /\ task[r] = "signature"
  /\ task' = [task EXCEPT ![r] = "none"]
  /\ Submit(r)
  /\ UNCHANGED touched

\* Mutant: an error before the challenge is not reported.
CardErrorUnreported(r) ==
  /\ task[r] \in {"key", "touch"}
  /\ task' = [task EXCEPT ![r] = "none"]
  /\ IF task[r] = "touch" THEN Fail
     ELSE UNCHANGED <<state, actionId, clock, expiryTimer, pendingActions, enrolled>>
  /\ UNCHANGED touched

\* A card operation throws.
CardError(r) ==
  /\ task[r] \in {"key", "touch"}
  /\ task' = [task EXCEPT ![r] = "none"]
  /\ Fail
  /\ UNCHANGED touched

-----------------------------------------------------------------------------
(* Time                                                                    *)

\* The coordinator's deadline passes, then the bridge's, which it stamps later.
TimePasses ==
  /\ \/ clock = "running" /\ clock' = "due"
     \/ clock = "due" /\ clock' = "dead"
  /\ UNCHANGED <<state, actionId, expiryTimer, pendingActions, enrolled, task, touched>>

\* Mutant: the timer does not repeat.
TimerTickOnce ==
  /\ expiryTimer
  /\ IF IsPending /\ TimeIsUp THEN Finish("expired")
     ELSE expiryTimer' = FALSE /\ UNCHANGED state
  /\ UNCHANGED <<actionId, clock, pendingActions, enrolled, task, touched>>

\* The timer's closure.
TimerTick ==
  /\ expiryTimer
  /\ IF IsPending /\ TimeIsUp THEN Finish("expired") ELSE UNCHANGED <<state, expiryTimer>>
  /\ UNCHANGED <<actionId, clock, pendingActions, enrolled, task, touched>>

Next ==
  \/ \E r \in Runs :
       \/ RunYubiKeyTest(r) \/ SignatureArrives(r) \/ CardError(r)
       \/ \E c \in Cards : PublicKeyRead(r, c) \/ Touch(r, c)
  \/ TimePasses \/ TimerTick

\* Time passes and the main run loop fires the timer. Nothing is assumed of the
\* card or of the human.
Fairness == WF_vars(TimePasses) /\ WF_vars(TimerTick)

Spec == Init /\ [][Next]_vars /\ Fairness

-----------------------------------------------------------------------------
(* Properties                                                              *)

\* The panel never hangs without somebody who will settle it: while it connects
\* a task is reading the card, and while it waits for a touch the timer runs on a
\* challenge that has a deadline, whatever earlier runs did in the meantime.
NeverStuck ==
  /\ state = "connecting" => \E r \in Runs : task[r] = "key"
  /\ state = "awaitingTouch" => expiryTimer /\ clock # "none" /\ actionId # None

\* An approval was earned by a touch of the enrolled key for the action on
\* display, however many runs overlapped, and its nonce cannot be used again.
ApprovalIsEarned ==
  state = "approved" =>
    /\ actionId # None
    /\ touched[actionId] = enrolled
    /\ actionId \notin pendingActions

\* "a challenge nobody answers still clears the status-item icon on its own":
\* also when no card operation ever returns.
ChallengesExpire == state = "awaitingTouch" ~> state # "awaitingTouch"

\* What the coordinator does is an Approval: each request is decided once, and
\* approved only on its own, timely signature by the key enrolled for it.
Promise == INSTANCE Approval WITH
  Challenges <- Runs,
  Keys <- Cards,
  decision <- IF state = "connecting" THEN "asked"
              ELSE IF state = "awaitingTouch" THEN "open" ELSE state,
  challenge <- actionId,
  key <- enrolled,
  signatures <- {s \in Runs \X Cards : touched[s[1]] = s[2]},
  clock <- clock

RefinesApproval == Promise!Spec

\* "Safe to call late": the signature of a run that is over does not decide the
\* one that is on display.
LateSignatureHarmless ==
  [][\A r \in Runs : SignatureArrives(r) /\ r # actionId => state' = state]_vars
=============================================================================
