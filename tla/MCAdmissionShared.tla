------------------------- MODULE MCAdmissionShared -------------------------
(***************************************************************************)
(* An embedding program awaits one request and then gathers two more: the  *)
(* first call left an (empty) slot dict in the caller's context, and the   *)
(* two tasks' copies of that context hold the same dict object.            *)
(***************************************************************************)
EXTENDS Admission

CONSTANTS t1, t2, t3

MCTask == {t1, t2, t3}
MCGathered == [t \in MCTask |-> IF t = t3 THEN t3 ELSE t1]
=============================================================================
