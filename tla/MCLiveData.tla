----------------------------- MODULE MCLiveData -----------------------------
(***************************************************************************)
(* Instances of LiveData for TLC: three layers, one of each kind (flights  *)
(* are marked fresh and cached, correlations are neither, the reservoir's  *)
(* readings come from sensors), and the threads and clients of each run.   *)
(***************************************************************************)
EXTENDS LiveData, TLC

CONSTANTS flights, correlations, turimiquire, job, refresh, page, force, claw
=============================================================================
