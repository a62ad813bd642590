----------------------------- MODULE MCSessions -----------------------------
(* One slot for sign-in and revocation requests and two for refreshes,     *)
(* each served by either of two processes: both a joiner of the in-flight  *)
(* map and a cross-process race, next to any other request.                *)
EXTENDS Sessions, TLC

CONSTANTS r1, r2, r3, d1

MCServes == r1 :> {"login", "logout_all", "change_password", "delete_account"}
            @@ r2 :> {"refresh"} @@ r3 :> {"refresh"}

MCServesLive == r1 :> {"login", "logout", "revoke_device", "reset_password",
                       "delete_account"}
                @@ r2 :> {"refresh"} @@ r3 :> {"refresh"}

\* The two refresh slots are interchangeable, and so are the processes up to
\* the arbitrary default of a request whose process does not matter.
Symmetry == Permutations({r2, r3})
=============================================================================
