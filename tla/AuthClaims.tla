----------------------------- MODULE AuthClaims -----------------------------
(***************************************************************************)
(* A sentence of the documentation about sessions that some behaviour of    *)
(* AuthSessions breaks; its run is expected to end in a counterexample.      *)
(***************************************************************************)
EXTENDS AuthSessions

\* The bulk revocation of request r, made by operation op, commits in this step.
RevocationCommits(r, op) ==
  job[r].op = op /\ pc[r] = "rows" /\ pc'[r] = "idle"

\* docs/en/authentication.md:40, "On password change, all active sessions for the
\* user are revoked. User must re-login on every device": when changePassword has
\* revoked, no login made before the call with the old password is still alive.
PasswordChangeEndsSessions ==
  [][\A r \in Requests : RevocationCommits(r, "changePassword") =>
       \A s \in Sessions :
         state'[s] = "active" /\ owner'[s] = job[r].user /\ root'[s] <= job[r].mark
           => cred'[s] = password'[job[r].user]]_vars
=============================================================================
