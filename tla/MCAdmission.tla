---------------------------- MODULE MCAdmission ----------------------------
(* Four callers on a route of two permits and two places in the queue.     *)
EXTENDS Admission

CONSTANTS t1, t2, t3, t4

MCTask == {t1, t2, t3, t4}
\* The server starts each request in a context nobody else has touched.
MCPrivate == [t \in MCTask |-> t]
=============================================================================
