------------------------------ MODULE SignInProps ------------------------------
(* What the sessions and the failure buckets of an account promise. *)
EXTENDS SignIn

Open(s) == sessions[s].status = "open"

\* One code of the device opens one session, even if two requests consumed one
\* challenge, and an open session from before a new password or a change of status
\* or role is one that was being signed in at the time, or that two overlapping
\* changes spared (totp.service.ts, local-users.service.ts, users.routes.ts).
SessionsSound ==
  /\ \A s \in Session : Open(s) => sessions[s].era = era \/ sessions[s].late
  /\ \A s, t \in {x \in Session : sessions[x] # Unused} :
       s # t /\ sessions[s].code # 0 => sessions[s].code # sessions[t].code

\* Whoever signed in as an administrator, by the role of the account or by
\* DEFAULT_ADMIN, is one as long as the session is open: a demotion ends the session
\* or finds it late, and a login never revokes a role the account kept since it was
\* read (auth.service.ts, users.routes.ts).
AdminSessionsHold ==
  \A s \in Session : Open(s) /\ sessions[s].admin /\ ~sessions[s].late => role = "admin"

\* Attempts that do not run together are all counted, and the one that reaches the
\* threshold locks the bucket: no attempt gets past that (lockout.service.ts).
FailuresCounted ==
  \A b \in Bucket :
    ~loose[b] =>
      /\ tried[b] <= Threshold[b]
      /\ Attempting(b) = {} => /\ Failures(lockout[b]) = tried[b]
                               /\ tried[b] = Threshold[b] => lockout[b].until # 0

\* A session that has ended never comes back, whatever renewal was under way; a
\* renewal never takes one past its absolute deadline, and shortens one only if
\* another renewal overtook it (auth.service.ts).
RenewalKeeps ==
  [][\A s \in Session :
       /\ sessions[s].status = "ended" => sessions'[s].status = "ended"
       /\ Open(s) /\ Open(s)' =>
            LET old == sessions[s].expires
                new == sessions'[s].expires
            IN  /\ new > old => new <= sessions[s].created + Absolute
                /\ new < old => \E q \in Request : req[q].pc = "renew" /\ req[q].stale]_vars
=============================================================================
