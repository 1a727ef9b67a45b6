------------------------------ MODULE MCConfirm ------------------------------
(* Confirm for TLC: three runs, so that an expired one meets a run that was  *)
(* itself failed by an earlier one; two keys, so that a wrong one is there.  *)
EXTENDS Confirm
=============================================================================
