---------------------------- MODULE ConfirmProofs ----------------------------
(***************************************************************************)
(* The safety of Confirm for any number of runs and keys: its type         *)
(* invariant, the invariants that MCConfirm checks, and that it implements *)
(* Approval.                                                               *)
(***************************************************************************)
EXTENDS Confirm, TLAPS

\* Until a challenge is issued there is none on display and no timer runs, so
\* that a signature that comes back late has nothing to decide.
NothingToDecide == state = "connecting" => actionId = None /\ ~expiryTimer

\* A run's nonce is signed by its last step but one, and by that one only.
SignedOnce ==
  \A r \in Runs :
    /\ task[r] \in {"key", "touch"} => touched[r] = None
    /\ task[r] = "signature" => touched[r] \in Cards

\* The run that was approved is over: its card cannot be touched again.
ApprovedIsOver == state = "approved" => task[actionId] = "none"

IInv ==
  /\ TypeOK /\ NeverStuck /\ ApprovalIsEarned
  /\ NothingToDecide /\ SignedOnce /\ ApprovedIsOver

-----------------------------------------------------------------------------
(* The invariant                                                           *)

\* The invariant holds at first.
LEMMA InitIInv == Init => IInv
BY DEF Init, IInv, TypeOK, NeverStuck, ApprovalIsEarned, NothingToDecide, SignedOnce,
       ApprovedIsOver

\* Every step keeps the types.
LEMMA TypeStep == TypeOK /\ [Next]_vars => TypeOK'
<1>. SUFFICES ASSUME TypeOK, [Next]_vars PROVE TypeOK'
  OBVIOUS
<1>. USE DEF TypeOK
<1>1. ASSUME NEW r \in Runs, RunYubiKeyTest(r) PROVE TypeOK'
  BY <1>1 DEF RunYubiKeyTest
<1>2. ASSUME NEW r \in Runs, SignatureArrives(r) PROVE TypeOK'
  BY <1>2 DEF SignatureArrives, Submit, Verify, Finish
<1>3. ASSUME NEW r \in Runs, CardError(r) PROVE TypeOK'
  BY <1>3 DEF CardError, Fail, Finish
<1>4. ASSUME NEW r \in Runs, NEW c \in Cards, PublicKeyRead(r, c) PROVE TypeOK'
  <2>1. CASE state = "connecting"
    BY <1>4, <2>1 DEF PublicKeyRead
  <2>2. CASE state # "connecting"
    BY <1>4, <2>2 DEF PublicKeyRead
  <2>. QED BY <2>1, <2>2
<1>5. ASSUME NEW r \in Runs, NEW c \in Cards, Touch(r, c) PROVE TypeOK'
  BY <1>5 DEF Touch
<1>6. CASE TimePasses \/ TimerTick
  BY <1>6 DEF TimePasses, TimerTick, Finish
<1>7. CASE UNCHANGED vars
  BY <1>7 DEF vars
<1>. QED BY <1>1, <1>2, <1>3, <1>4, <1>5, <1>6, <1>7 DEF Next

\* Every step keeps the invariant.
LEMMA NextIInv == IInv /\ [Next]_vars => IInv'
<1>. SUFFICES ASSUME IInv, [Next]_vars PROVE IInv'
  OBVIOUS
<1>. DEFINE Rest == /\ NeverStuck /\ ApprovalIsEarned
                    /\ NothingToDecide /\ SignedOnce /\ ApprovedIsOver
<1>. USE ConfirmAssumption
     DEF IInv, TypeOK, NeverStuck, ApprovalIsEarned, NothingToDecide, SignedOnce, ApprovedIsOver
<1>1. ASSUME NEW r \in Runs, RunYubiKeyTest(r) PROVE Rest'
  BY <1>1 DEF RunYubiKeyTest
<1>2. ASSUME NEW r \in Runs, SignatureArrives(r) PROVE Rest'
  <2>1. CASE actionId = None \/ ~IsPending
    BY <1>2, <2>1 DEF SignatureArrives, Submit, IsPending
  <2>2. CASE actionId # None /\ IsPending /\ Valid(r)
    BY <1>2, <2>2 DEF SignatureArrives, Submit, IsPending, Verify, Valid, Finish
  <2>3. CASE actionId # None /\ IsPending /\ ~Valid(r)
    BY <1>2, <2>3 DEF SignatureArrives, Submit, IsPending, Finish
  <2>. QED BY <2>1, <2>2, <2>3
<1>3. ASSUME NEW r \in Runs, CardError(r) PROVE Rest'
  BY <1>3 DEF CardError, Fail, Finish, IsPending
<1>4. ASSUME NEW r \in Runs, NEW c \in Cards, PublicKeyRead(r, c) PROVE Rest'
  BY <1>4 DEF PublicKeyRead
<1>5. ASSUME NEW r \in Runs, NEW c \in Cards, Touch(r, c) PROVE Rest'
  BY <1>5 DEF Touch
<1>6. CASE TimePasses
  BY <1>6 DEF TimePasses
<1>7. CASE TimerTick
  BY <1>7 DEF TimerTick, Finish, IsPending
<1>8. CASE UNCHANGED vars
  BY <1>8 DEF vars
<1>9. Rest'
  BY <1>1, <1>2, <1>3, <1>4, <1>5, <1>6, <1>7, <1>8 DEF Next
<1>. QED BY <1>9, TypeStep

\* So it holds always.
LEMMA Invariance == Spec => []IInv
BY InitIInv, NextIInv, PTL DEF Spec

-----------------------------------------------------------------------------
(* What it shows                                                           *)

\* The variables of Confirm keep their types.
THEOREM TypeCorrect == Spec => []TypeOK
BY Invariance, PTL DEF IInv

\* While the panel waits there is a task that reads the card, or a timer on a
\* challenge with a deadline, however many runs have come back in between.
THEOREM PanelIsNeverStuck == Spec => []NeverStuck
BY Invariance, PTL DEF IInv

\* Whatever signatures, errors and keys of other runs arrive: what is approved was
\* signed by the enrolled key, and cannot be approved again.
THEOREM ApprovalsAreEarned == Spec => []ApprovalIsEarned
BY Invariance, PTL DEF IInv

-----------------------------------------------------------------------------
(* Confirm implements Approval                                             *)

Signatures == {s \in Runs \X Cards : touched[s[1]] = s[2]}

\* The first state is one of Approval.
LEMMA InitRefines == Init => Promise!Init
<1>. SUFFICES ASSUME Init PROVE Promise!Init
  OBVIOUS
<1>1. Signatures = {}
  BY ConfirmAssumption DEF Init, Signatures
<1>. QED BY <1>1 DEF Init, Promise!Init, Signatures

\* Every step is a step of Approval or leaves its state alone.
LEMMA StepRefines == IInv /\ [Next]_vars => [Promise!Next]_(Promise!vars)
<1>. SUFFICES ASSUME IInv, [Next]_vars PROVE [Promise!Next]_(Promise!vars)
  OBVIOUS
<1>. USE DEF IInv, TypeOK, Promise!vars
<1>1. ASSUME NEW r \in Runs, RunYubiKeyTest(r) PROVE Promise!Ask
  <2>1. Signatures' \in SUBSET Signatures
    BY <1>1, ConfirmAssumption DEF RunYubiKeyTest, Signatures
  <2>. QED BY <1>1, <2>1 DEF RunYubiKeyTest, IsPending, Promise!Ask, Promise!Pending, Signatures
<1>2. ASSUME NEW r \in Runs, SignatureArrives(r)
      PROVE  \/ Promise!Approve \/ Promise!Reject \/ Promise!Expire
             \/ UNCHANGED Promise!vars
  <2>0. touched' = touched /\ touched[r] \in Cards
    BY <1>2 DEF SignatureArrives, SignedOnce
  <2>1. CASE actionId = None \/ ~IsPending
    BY <1>2, <2>0, <2>1 DEF SignatureArrives, Submit
  <2>2. CASE actionId # None /\ IsPending
    <3>1. state = "awaitingTouch"
      BY <2>2 DEF IsPending, NothingToDecide
    <3>2. CASE Valid(r)
      <4>1. <<actionId, enrolled>> \in Signatures
        BY <2>0, <3>2 DEF Valid, Signatures
      <4>. QED BY <1>2, <2>0, <2>2, <3>1, <3>2, <4>1
               DEF SignatureArrives, Submit, Finish, Valid, Promise!Approve, Signatures
    <3>3. CASE ~Valid(r)
      BY <1>2, <2>0, <2>2, <3>1, <3>3
      DEF SignatureArrives, Submit, Finish, TimeIsUp, Promise!Reject, Promise!Expire, Promise!Pending
    <3>. QED BY <3>2, <3>3
  <2>. QED BY <2>1, <2>2
<1>3. ASSUME NEW r \in Runs, CardError(r) PROVE Promise!Reject \/ UNCHANGED Promise!vars
  BY <1>3 DEF CardError, Fail, Finish, IsPending, Promise!Reject, Promise!Pending
<1>4. ASSUME NEW r \in Runs, NEW c \in Cards, PublicKeyRead(r, c)
      PROVE  Promise!Issue(r, c) \/ UNCHANGED Promise!vars
  BY <1>4 DEF PublicKeyRead, Promise!Issue
<1>5. ASSUME NEW r \in Runs, NEW c \in Cards, Touch(r, c) PROVE Promise!Sign(r, c)
  <2>1. touched[r] = None /\ touched' = [touched EXCEPT ![r] = c]
    BY <1>5 DEF Touch, SignedOnce
  <2>2. Signatures' = Signatures \cup {<<r, c>>}
    BY <2>1, ConfirmAssumption DEF Signatures
  <2>. QED BY <1>5, <2>2 DEF Touch, Promise!Sign, Signatures
<1>6. CASE TimePasses
  BY <1>6 DEF TimePasses, Promise!TimePasses, Promise!Next
<1>7. CASE TimerTick
  BY <1>7 DEF TimerTick, Finish, IsPending, TimeIsUp, NothingToDecide,
              Promise!Expire, Promise!Next
<1>8. CASE UNCHANGED vars
  BY <1>8 DEF vars
<1>. QED BY <1>1, <1>2, <1>3, <1>4, <1>5, <1>6, <1>7, <1>8 DEF Next, Promise!Next

\* Each request is decided once, and approved only for a signature over its own
\* challenge by the key enrolled for it, before the challenge was dead.
THEOREM Refinement == Spec => RefinesApproval
BY InitRefines, StepRefines, Invariance, PTL DEF Spec, RefinesApproval, Promise!Spec
=============================================================================
