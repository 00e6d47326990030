------------------------------- MODULE MCBoot -------------------------------
(* Boot on small instances. *)
EXTENDS Boot

MCReleases == {0, 1, 7, 12, 16, 21, 27, 30}
=============================================================================
