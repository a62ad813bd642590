--------------------------- MODULE MCSessionClaims ---------------------------
(* ClaimReuse: one request at a time, a chain longer than the walk's cap.  *)
(* ClaimSweeps: two slots that sign in, refresh and replace passwords.     *)
EXTENDS SessionClaims

MCOnlyRefreshes == [r \in Req |-> {"login", "refresh"}]
MCSweeps == [r \in Req |-> {"login", "refresh", "change_password", "reset_password"}]
=============================================================================
