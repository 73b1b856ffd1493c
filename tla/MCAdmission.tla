---------------------------- MODULE MCAdmission ----------------------------
(* Small instances of Admission for TLC. *)
EXTENDS Admission, TLC

CONSTANTS q1, q2, q3, q4, q5, c1, c2, c3, k1, d1, d2

\* The first client repeats its request, the second uses the same key for two
\* requests, the third uses no key.
MCClientOf == (q1 :> c1) @@ (q2 :> c1) @@ (q3 :> c2) @@ (q4 :> c2) @@ (q5 :> c3)
MCKeyOf    == [q \in {q1, q2, q3, q4} |-> k1] @@ (q5 :> NoKey)
MCDigestOf == [q \in {q1, q2, q3, q5} |-> d1] @@ (q4 :> d2)
=============================================================================
