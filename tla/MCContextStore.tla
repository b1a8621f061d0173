--------------------------- MODULE MCContextStore ---------------------------
(* Four requests, two of them in one session, and room for two of the three  *)
(* sessions; blobs of sizes 1, 1, 2 and 4, where one session holds 2 bytes,  *)
(* all of them 2, and an entry of 4 is refused.  With Ids every request has  *)
(* an id of its own; with SharedIds the two of s1 carry the same one.        *)
EXTENDS RequestRefs

CONSTANTS q1, q2, q3, q4, s1, s2, s3, b1, b2, b3, b4

Sizes == (b1 :> 1) @@ (b2 :> 1) @@ (b3 :> 2) @@ (b4 :> 4)
Sessions == (q1 :> s1) @@ (q2 :> s1) @@ (q3 :> s2) @@ (q4 :> s3)
Ids == [q \in Request |-> q]
SharedIds == [Ids EXCEPT ![q2] = q1]

\* q1 and q2 differ in nothing (same session, ids that go with them), nor do
\* b1 and b2, nor q3 in s2 and q4 in s3.
Twins ==
  Permutations({q1, q2}) \cup Permutations({b1, b2})
    \cup {(q3 :> q4) @@ (q4 :> q3) @@ (s2 :> s3) @@ (s3 :> s2)}
=============================================================================
