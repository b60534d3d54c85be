-------------------------------- MODULE SignIn --------------------------------
(***************************************************************************)
(* One account: sign-in with a password or through the identity provider,  *)
(* with an optional second step; the failure buckets, the sessions that    *)
(* sign-ins open, what ends them, and the account's role and status.       *)
(*                                                                         *)
(* A step is what runs between two awaits; a transaction is one step, and  *)
(* the sweep of expired challenges or sessions is part of the step after.  *)
(* Ids are random, so a session or a challenge never comes back.           *)
(*                                                                         *)
(* Left out: single-user mode, which ends in the same createSession; the   *)
(* exchange with the provider before its callback knows the user, group    *)
(* sync; rate limits, cookies, audit events, API tokens, step-up tokens,   *)
(* and managing devices (the account has one or none).                     *)
(***************************************************************************)
EXTENDS Naturals

CONSTANTS
  Request,      \* requests in flight
  Session,
  Challenge,
  None,         \* no lockout row, no challenge
  Threshold,    \* failures that lock a bucket
  LockFor,      \* windowMs
  ChallengeTtl, \* CHALLENGE_TTL_MS
  MaxAge,       \* the values of session.max_age
  Absolute,     \* SESSION_ABSOLUTE_LIFETIME_MS
  MaxClock,     \* bound on time
  MaxRequests   \* bound on requests

Bucket == {"local", "totp"}
Role   == {"admin", "user"}

ASSUME Parameters ==
  /\ Threshold \in [Bucket -> Nat \ {0}]
  /\ {LockFor, ChallengeTtl, Absolute, MaxClock, MaxRequests} \cup MaxAge \subseteq Nat

ASSUME NoRow == None \notin [failures : Nat, until : Nat]

VARIABLES
  clock,      \* time, and the timestep of the device's codes
  active,     \* users.status
  role,       \* users.role
  twoStep,    \* whether the account has a verified device
  era,        \* history: password resets and changes of status or role, promotions by a login aside
  lockout,    \* auth_lockouts, a row or None per bucket
  lastStep,   \* lastUsedTimestep of the device
  challenges, \* totp_challenges
  sessions,   \* sessions
  req,        \* the requests
  asked,      \* requests so far
  tried,      \* history: wrong attempts since a bucket was last emptied
  loose       \* history: whether some of them ran together, or one was cut short

ghost   == <<tried, loose>>
account == <<active, role, era, twoStep>>
vars    == <<clock, account, lockout, lastStep, challenges, sessions, req, asked, ghost>>

Idle == [pc |-> "idle"]

Unused == [status |-> "unused"]

Init ==
  /\ clock = 1
  /\ active = TRUE
  /\ twoStep \in BOOLEAN
  /\ era = 0
  /\ lockout = [b \in Bucket |-> None]
  /\ lastStep = 0
  /\ challenges = [c \in Challenge |-> Unused]
  /\ sessions = [s \in Session |-> Unused]
  /\ req = [q \in Request |-> Idle]
  /\ asked = 0
  /\ tried = [b \in Bucket |-> 0]
  /\ loose = [b \in Bucket |-> FALSE]
  /\ role \in Role

Goto(q, pc) == req' = [req EXCEPT ![q].pc = pc]
Done(q)     == req' = [req EXCEPT ![q] = Idle]

Ask(q, r) ==
  /\ asked < MaxRequests
  /\ req[q] = Idle
  /\ asked' = asked + 1
  /\ req' = [req EXCEPT ![q] = r]
  /\ UNCHANGED <<clock, account, lockout, lastStep, challenges, sessions, ghost>>

Tick ==
  /\ clock < MaxClock
  /\ clock' = clock + 1
  /\ UNCHANGED <<account, lockout, lastStep, challenges, sessions, req, asked, ghost>>

\* An error or a restart ends a request, perhaps before its failure is written.
Abandon(q) ==
  /\ req[q] # Idle
  /\ Done(q)
  /\ loose' = [b \in Bucket |-> loose[b] \/ (req[q].pc \in {"count", "write"} /\ req[q].bucket = b)]
  /\ UNCHANGED <<clock, account, lockout, lastStep, challenges, sessions, asked, tried>>

-----------------------------------------------------------------------------
(* Failure buckets *)

\* Requests between the gate of a bucket and the end of their attempt.
Attempting(b) == {q \in Request : req[q] # Idle /\ req[q].kind = "attempt" /\ req[q].bucket = b}

Locked(b) == lockout[b] # None /\ lockout[b].until > clock
Lapsed(b) == lockout[b] # None /\ lockout[b].until \in 1..clock

\* Where an attempt goes on if the bucket is not locked, and if it is.
Passed(r) ==
  CASE r.pc = "gate" /\ r.bucket = "local" -> "password"
    [] r.pc = "gate" /\ r.bucket = "totp"  -> "gateAgain"
    [] r.pc = "gateAgain"                  -> "code"
    [] r.pc = "recheck"                    -> "retry"

\* isLocked.  The TOTP route asks before and after verifyTotpCode, which asks itself.
IsLocked(q) ==
  LET r == req[q]
  IN  /\ r.pc \in {"gate", "gateAgain", "recheck"}
      /\ IF Lapsed(r.bucket) THEN req' = [req EXCEPT ![q].pc = "sweep", ![q].then = Passed(r)]
         ELSE IF ~Locked(r.bucket) THEN Goto(q, Passed(r))
         ELSE IF r.pc = "gateAgain" THEN Goto(q, "recheck")
         ELSE Done(q)
      /\ UNCHANGED <<clock, account, lockout, lastStep, challenges, sessions, asked, ghost>>

\* The row of a bucket goes, and with it the count of attempts; one who is still
\* attempting overlaps with those to come.
Emptied(q, b) ==
  /\ lockout' = [lockout EXCEPT ![b] = None]
  /\ tried' = [tried EXCEPT ![b] = 0]
  /\ loose' = [loose EXCEPT ![b] = Attempting(b) # {q}]

\* A lapsed row is deleted by key, whatever it holds by then.
Sweep(q) ==
  LET r == req[q]
  IN  /\ r.pc = "sweep"
      /\ Emptied(q, r.bucket)
      /\ Goto(q, r.then)
      /\ UNCHANGED <<clock, account, lastStep, challenges, sessions, asked>>

\* clearFailures
Clear(q) ==
  LET r == req[q]
  IN  /\ r.pc = "clear"
      /\ Emptied(q, r.bucket)
      /\ Goto(q, "open")
      /\ UNCHANGED <<clock, account, lastStep, challenges, sessions, asked>>

Overlapping(q, b) == loose' = [loose EXCEPT ![b] = @ \/ Attempting(b) # {q}]

\* The attempt was wrong; recordFailure follows.
Wrong(q, b) ==
  /\ Goto(q, "count")
  /\ tried' = [tried EXCEPT ![b] = @ + 1]
  /\ Overlapping(q, b)

Count(q) ==
  LET r == req[q]
  IN  /\ r.pc = "count"
      /\ req' = [req EXCEPT ![q].pc = "write", ![q].row = lockout[r.bucket]]
      /\ UNCHANGED <<clock, account, lockout, lastStep, challenges, sessions, asked, ghost>>

Failures(row) == IF row = None THEN 0 ELSE row.failures

\* Mutant: the first failure of a row is not counted.
RaisedLate(row, b) ==
  [failures |-> Failures(row), until |-> IF Failures(row) >= Threshold[b] THEN clock + LockFor ELSE 0]

\* The row after one more failure than the one read; until is 0 for NULL.
Raised(row, b) ==
  [failures |-> Failures(row) + 1, until |-> IF Failures(row) + 1 >= Threshold[b] THEN clock + LockFor ELSE 0]

\* An update finds no row if it went meanwhile; an insert fails if one came.
Write(q) ==
  LET r == req[q]
      next == IF r.bucket = "totp" THEN [req EXCEPT ![q].pc = "recheck"] ELSE [req EXCEPT ![q] = Idle]
  IN  /\ r.pc = "write"
      /\ \/ /\ (r.row = None) = (lockout[r.bucket] = None)
            /\ lockout' = [lockout EXCEPT ![r.bucket] = Raised(r.row, r.bucket)]
            /\ req' = next
         \/ /\ r.row # None /\ lockout[r.bucket] = None
            /\ req' = next
            /\ UNCHANGED lockout
         \/ /\ r.row = None /\ lockout[r.bucket] # None
            /\ Done(q)
            /\ UNCHANGED lockout
      /\ Overlapping(q, r.bucket)
      /\ UNCHANGED <<clock, account, lastStep, challenges, sessions, asked, tried>>

-----------------------------------------------------------------------------
(* Signing in *)

Attempt(b) ==
  [era |-> 0, code |-> 0, admin |-> FALSE, pc |-> "gate", bucket |-> b,
   kind |-> "attempt", then |-> "gate", row |-> None, challenge |-> None]

\* POST /account/auth/login-local
AskLogin(q) == Ask(q, Attempt("local"))

\* loginLocalUser reads the user; the password was that user's or another.
CheckPassword(q) ==
  LET r == req[q]
  IN  /\ r.pc = "password"
      /\ \/ /\ active
            /\ req' = [req EXCEPT ![q].pc = "clear", ![q].admin = role = "admin", ![q].era = era]
            /\ UNCHANGED ghost
         \/ Wrong(q, "local")
      /\ UNCHANGED <<clock, account, lockout, lastStep, challenges, sessions, asked>>

\* GET /account/auth/callback, once the provider has said who signs in.
AskCallback(q) ==
  Ask(q, [era |-> 0, code |-> 0, admin |-> FALSE, role |-> None, pc |-> "upsert",
          active |-> None, bucket |-> "oidc", kind |-> "callback"])

\* upsertUser reads the row ...
ReadUser(q) ==
  /\ req[q].pc = "upsert"
  /\ req' = [req EXCEPT ![q].pc = "bind", ![q].role = role, ![q].active = active, ![q].era = era]
  /\ UNCHANGED <<clock, account, lockout, lastStep, challenges, sessions, asked, ghost>>

\* Mutant: DEFAULT_ADMIN promotes nobody who is there already.
NotPromoted(current, listed) == current

RoleFor(current, listed) == IF listed THEN "admin" ELSE current

\* Open sessions that a change spares are late.
Spared == [s \in Session |-> IF sessions[s].status = "open" THEN [sessions[s] EXCEPT !.late = TRUE] ELSE sessions[s]]

\* ... and writes the role that follows from the one it read.  DEFAULT_ADMIN lists who
\* signs in or not (an email counts if verified, a restart may bring another list).
\* A change of role in between is undone; no session ends, even if the role is taken.
BindUser(q) ==
  LET r == req[q]
      taken == role = "admin" /\ role' # "admin"
  IN  \E listed \in BOOLEAN :
        /\ r.pc = "bind"
        /\ role' = RoleFor(r.role, listed)
        /\ era' = IF taken THEN era + 1 ELSE era
        /\ sessions' = IF taken THEN Spared ELSE sessions
        /\ IF r.active
             THEN req' = [req EXCEPT ![q].pc = "open", ![q].admin = listed \/ r.role = "admin"]
             ELSE Done(q)
        /\ UNCHANGED <<clock, active, twoStep, lockout, lastStep, challenges, asked, ghost>>

\* POST /account/auth/totp/verify with the code of a device whose clock is right or
\* one step ahead, or with a wrong one.
AskVerify(q, c) ==
  /\ challenges[c].status = "pending"
  /\ \E code \in {0, clock, clock + 1} :
       Ask(q, [Attempt("totp") EXCEPT !.pc = "take", !.challenge = c, !.code = code])

\* consumeTotpChallenge reads the challenge, then deletes it.
Take(q) ==
  LET r == req[q]
      c == challenges[r.challenge]
  IN  /\ r.pc = "take"
      /\ IF c.status = "pending" /\ c.expires > clock
           THEN req' = [req EXCEPT ![q].pc = "drop", ![q].admin = c.admin, ![q].era = c.era]
           ELSE Done(q)
      /\ UNCHANGED <<clock, account, lockout, lastStep, challenges, sessions, asked, ghost>>

Drop(q) ==
  LET r == req[q]
  IN  /\ r.pc = "drop"
      /\ challenges' = [challenges EXCEPT ![r.challenge] = [status |-> "gone"]]
      /\ Goto(q, "gate")
      /\ UNCHANGED <<clock, account, lockout, lastStep, sessions, asked, ghost>>

\* A code of this timestep or one next to it, later than the last one used.
Redeemable(code) == code # 0 /\ code + 1 >= clock /\ code <= clock + 1 /\ code > lastStep

\* The transaction of verifyTotpCode.
CheckCode(q) ==
  LET r == req[q]
  IN  /\ r.pc = "code"
      /\ IF Redeemable(r.code)
           THEN Goto(q, "clear") /\ lastStep' = r.code /\ UNCHANGED ghost
           ELSE Wrong(q, "totp") /\ UNCHANGED lastStep
      /\ UNCHANGED <<clock, account, lockout, challenges, sessions, asked>>

\* createTotpChallenge
Mint(c, r) ==
  /\ challenges[c] = Unused
  /\ challenges' = [challenges EXCEPT ![c] =
       [status |-> "pending", era |-> r.era, admin |-> r.admin, expires |-> clock + ChallengeTtl]]

Retry(q) ==
  /\ req[q].pc = "retry"
  /\ \E c \in Challenge : Mint(c, req[q])
  /\ Done(q)
  /\ UNCHANGED <<clock, account, lockout, lastStep, sessions, asked, ghost>>

\* The first step of a sign-in is done, and a second is to come.
OpenChallenge(q) ==
  /\ req[q].pc = "open" /\ req[q].bucket # "totp" /\ twoStep
  /\ \E c \in Challenge : Mint(c, req[q])
  /\ Done(q)
  /\ UNCHANGED <<clock, account, lockout, lastStep, sessions, asked, ghost>>

Ended(s) == [sessions[s] EXCEPT !.status = "ended"]

Expired(x) == x.expires <= clock \/ x.created + Absolute <= clock

\* createSession removes what has expired first.
OpenSession(q) ==
  LET r == req[q]
  IN  /\ r.pc = "open" /\ (r.bucket = "totp" \/ ~twoStep)
      /\ \E s \in Session, age \in MaxAge :
           /\ sessions[s] = Unused
           /\ sessions' = [t \in Session |->
                IF t = s THEN [status |-> "open", era |-> r.era, late |-> r.era # era, code |-> r.code, admin |-> r.admin,
                               expires |-> clock + age, created |-> clock, start |-> clock]
                ELSE IF sessions[t].status = "open" /\ Expired(sessions[t]) THEN Ended(t)
                ELSE sessions[t]]
      /\ Done(q)
      /\ UNCHANGED <<clock, account, lockout, lastStep, challenges, asked, ghost>>

-----------------------------------------------------------------------------
(* Using and ending sessions *)

\* oauthSessionAuthProvider reads the session with its user.
AskUse(q, s) ==
  /\ sessions[s].status = "open"
  /\ Ask(q, [pc |-> "session", stale |-> FALSE, kind |-> "use", session |-> s, read |-> Unused, at |-> 0])

\* More than half of the period has passed, and the deadline leaves room.
Due(x) == x.expires < x.created + Absolute /\ 2 * (clock - x.start) >= x.expires - x.start

ReadSession(q) ==
  LET x == sessions[req[q].session]
  IN  /\ req[q].pc = "session"
      /\ IF x.status = "ended" THEN Done(q)
         ELSE IF ~active \/ Expired(x) THEN Goto(q, "end")
         ELSE IF Due(x) THEN req' = [req EXCEPT ![q].pc = "renew", ![q].read = x, ![q].at = clock]
         ELSE Done(q)
      /\ UNCHANGED <<clock, account, lockout, lastStep, challenges, sessions, asked, ghost>>

Least(m, n) == IF m < n THEN m ELSE n

\* Mutant: the session is written back whether it is there or not.
Rewritten(s, x, next, at) == [x EXCEPT !.expires = next, !.start = at]

\* The update by id, which finds no row of a session that has ended.
Renewed(s, x, next, at) ==
  IF sessions[s].status = "open" THEN [sessions[s] EXCEPT !.expires = next, !.start = at] ELSE sessions[s]

\* renewSessionIfDue writes what follows from the row and the time it read.
Renew(q) ==
  LET r == req[q]
  IN  /\ r.pc = "renew"
      /\ \E age \in MaxAge :
           LET next == Least(r.at + age, r.read.created + Absolute)
           IN  IF next <= r.read.expires
                 THEN Done(q) /\ UNCHANGED sessions
                 ELSE /\ sessions' = [sessions EXCEPT ![r.session] = Renewed(r.session, r.read, next, r.at)]
                      /\ req' = [o \in Request |->
                                   IF o = q THEN Idle
                                   ELSE IF req[o].pc = "renew" /\ req[o].session = r.session
                                     THEN [req[o] EXCEPT !.stale = TRUE]
                                   ELSE req[o]]
      /\ UNCHANGED <<clock, account, lockout, lastStep, challenges, asked, ghost>>

EndSession(q) ==
  /\ req[q].pc = "end"
  /\ sessions' = [sessions EXCEPT ![req[q].session] = Ended(req[q].session)]
  /\ Done(q)
  /\ UNCHANGED <<clock, account, lockout, lastStep, challenges, asked, ghost>>

\* POST /account/auth/logout
Logout(s) ==
  /\ asked < MaxRequests
  /\ sessions[s].status = "open"
  /\ sessions' = [sessions EXCEPT ![s] = Ended(s)]
  /\ asked' = asked + 1
  /\ UNCHANGED <<clock, account, lockout, lastStep, challenges, req, ghost>>

\* Mutant: sessions outlive a new password.
NotPurged == sessions

Purged == [s \in Session |-> IF sessions[s].status = "open" THEN Ended(s) ELSE sessions[s]]

\* setUserPassword ends the sessions with the old password.
ResetPassword ==
  /\ asked < MaxRequests
  /\ era' = era + 1
  /\ sessions' = Purged
  /\ asked' = asked + 1
  /\ UNCHANGED <<clock, active, role, twoStep, lockout, lastStep, challenges, req, ghost>>

\* PATCH /account/users/:id sets the status, the role or both; what changes is judged
\* on a row read before.
AskChange(q) ==
  \E to \in BOOLEAN \cup {None}, as \in Role \cup {None} :
    /\ to # None \/ as # None
    /\ Ask(q, [role |-> as, pc |-> "change", active |-> to, kind |-> "change",
               changed |-> (to # None /\ to # active) \/ (as # None /\ as # role)])

Change(q) ==
  LET r == req[q]
      real == active' # active \/ role' # role
  IN  /\ r.pc = "change"
      /\ active' = IF r.active = None THEN active ELSE r.active
      /\ role' = IF r.role = None THEN role ELSE r.role
      /\ era' = IF real THEN era + 1 ELSE era
      /\ sessions' = IF r.changed THEN Purged ELSE IF real THEN Spared ELSE sessions
      /\ Done(q)
      /\ UNCHANGED <<clock, twoStep, lockout, lastStep, challenges, asked, ghost>>

-----------------------------------------------------------------------------

Asks(q) ==
  \/ AskLogin(q) \/ AskCallback(q) \/ AskChange(q)
  \/ \E c \in Challenge : AskVerify(q, c)
  \/ \E s \in Session : AskUse(q, s)

Steps(q) ==
  \/ IsLocked(q) \/ Sweep(q) \/ Clear(q) \/ Count(q) \/ Write(q)
  \/ CheckPassword(q) \/ Take(q) \/ Drop(q) \/ CheckCode(q) \/ Retry(q)
  \/ OpenChallenge(q) \/ OpenSession(q)
  \/ ReadSession(q) \/ Renew(q) \/ EndSession(q)
  \/ ReadUser(q) \/ BindUser(q) \/ Change(q) \/ Abandon(q)

Next ==
  \/ Tick
  \/ \E q \in Request : Asks(q) \/ Steps(q)
  \/ \E s \in Session : Logout(s)
  \/ ResetPassword

Spec == Init /\ [][Next]_vars
=============================================================================
