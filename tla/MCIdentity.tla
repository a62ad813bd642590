----------------------------- MODULE MCIdentity -----------------------------
(* Groups of requests, each with what it can meet: links next to other      *)
(* links, registration next to the Google sign-up and the administrator,    *)
(* Google flows next to unlinking and deletion, two profile edits, and the  *)
(* rate limiter on its own.                                                 *)
EXTENDS Identity, TLC

CONSTANTS s1, s2, e1, e2, e3, r1, r2

MCSubjectEmail == s1 :> e1 @@ s2 :> e2
MCMixes == {{"forgot", "resend", "verify", "reset", "expire"},
            {"PRIVATE_MODE", "register", "invite", "expire"},
            {"register", "google"},
            {"PRIVATE_MODE", "google"},
            {"google", "link", "unlink", "delete"},
            {"patch"},
            {"limiter"}}

\* Where claims are refuted, the requests they speak of are enough.
MCClaimMixes == {{"PRIVATE_MODE", "register", "invite", "forgot", "reset"}}

Symmetry == Permutations({r1, r2})
=============================================================================
