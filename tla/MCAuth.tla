------------------------------ MODULE MCAuth ------------------------------
(* Two requests at a time, two good passwords and a weak one.              *)
EXTENDS Auth, TLC

CONSTANTS r1, r2, p1, p2, weak
MCRequests == {r1, r2}
MCPasswords == {p1, p2, weak}
MCWeak == {weak}
Symmetry == Permutations(MCRequests) \cup Permutations({p1, p2})
=============================================================================
