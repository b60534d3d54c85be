------------------------------ MODULE SignInProof ------------------------------
(***************************************************************************)
(* Proofs that sessions and failure counts keep their promises for any     *)
(* number of requests, sessions and challenges, any thresholds and any     *)
(* lifetimes.                                                              *)
(***************************************************************************)
EXTENDS SignInProps, TLAPS

Row == [failures : Nat, until : Nat]

Used == [status : {"open", "ended"}, created : Nat, start : Nat, expires : Nat,
         admin : BOOLEAN, era : Nat, late : BOOLEAN, code : Nat]

Pending == [status : {"pending"}, expires : Nat, admin : BOOLEAN, era : Nat]

LoginPc == {"gate", "sweep", "password", "count", "write", "clear", "open"}

Login == [kind : {"attempt"}, pc : LoginPc, bucket : {"local"}, then : {"gate", "password"},
          row : Row \cup {None}, admin : BOOLEAN, era : Nat, code : {0}, challenge : {None}]

VerifyPc == {"take", "drop", "gate", "sweep", "gateAgain", "code", "recheck", "retry",
             "count", "write", "clear", "open"}

Verify == [kind : {"attempt"}, pc : VerifyPc, bucket : {"totp"},
           then : {"gate", "gateAgain", "code", "retry"},
           row : Row \cup {None}, admin : BOOLEAN, era : Nat, code : Nat, challenge : Challenge]

Arrived == [kind : {"callback"}, pc : {"upsert"}, bucket : {"oidc"},
            role : {None}, active : {None}, admin : {FALSE}, era : {0}, code : {0}]

Known == [kind : {"callback"}, pc : {"bind", "open"}, bucket : {"oidc"},
          role : Role, active : BOOLEAN, admin : BOOLEAN, era : Nat, code : {0}]

Use == [kind : {"use"}, pc : {"session", "renew", "end"}, session : Session,
        read : Used \cup {Unused}, at : Nat, stale : BOOLEAN]

Patch == [kind : {"change"}, pc : {"change"}, active : BOOLEAN \cup {None},
          role : Role \cup {None}, changed : BOOLEAN]

Step == {Idle} \cup Login \cup Verify \cup Arrived \cup Known \cup Use \cup Patch

TypeInv ==
  /\ clock \in Nat \ {0}
  /\ active \in BOOLEAN
  /\ role \in Role
  /\ era \in Nat
  /\ lockout \in [Bucket -> Row \cup {None}]
  /\ lastStep \in Nat
  /\ challenges \in [Challenge -> Pending \cup {Unused, [status |-> "gone"]}]
  /\ sessions \in [Session -> Used \cup {Unused}]
  /\ req \in [Request -> Step]
  /\ tried \in [Bucket -> Nat]
  /\ loose \in [Bucket -> BOOLEAN]

\* Who uses a session uses one that was opened; a renewal knows its expiry, if no
\* other renewal overtook it.
UseInv ==
  \A q \in Request : req[q].pc \in {"session", "renew", "end"} =>
    /\ sessions[req[q].session] # Unused
    /\ req[q].pc = "renew" =>
         /\ req[q].read \in Used
         /\ req[q].read.created = sessions[req[q].session].created
         /\ ~req[q].stale /\ Open(req[q].session) => req[q].read.expires = sessions[req[q].session].expires

-----------------------------------------------------------------------------
(* Types *)

LEMMA Constants ==
  /\ LockFor \in Nat
  /\ ChallengeTtl \in Nat
  /\ Absolute \in Nat
  /\ \A age \in MaxAge : age \in Nat
BY Parameters

LEMMA Kinds ==
  ASSUME TypeInv, NEW q \in Request
  PROVE  /\ req[q] \in Step
         /\ req[q].pc = "password" => req[q] \in Login
         /\ req[q].pc \in {"take", "drop", "gateAgain", "code", "recheck", "retry"} => req[q] \in Verify
         /\ req[q].pc \in {"gate", "sweep", "count", "write", "clear"} => req[q] \in Login \cup Verify
         /\ req[q].pc = "open" => req[q] \in Login \cup Verify \cup Known
         /\ req[q].pc = "upsert" => req[q] \in Arrived
         /\ req[q].pc = "bind" => req[q] \in Known
         /\ req[q].pc \in {"session", "renew", "end"} => req[q] \in Use
         /\ req[q].pc = "change" => req[q] \in Patch
<1>1. req[q] \in Step
  BY DEF TypeInv
<1>2. /\ Idle.pc = "idle"
      /\ \A r \in Login : r.pc \in LoginPc
      /\ \A r \in Verify : r.pc \in VerifyPc
  BY DEF Idle, Login, Verify
<1>3. /\ \A r \in Arrived : r.pc = "upsert"
      /\ \A r \in Known : r.pc \in {"bind", "open"}
      /\ \A r \in Use : r.pc \in {"session", "renew", "end"}
      /\ \A r \in Patch : r.pc = "change"
  BY DEF Arrived, Known, Use, Patch
<1>4. \/ req[q] = Idle \/ req[q] \in Login \/ req[q] \in Verify \/ req[q] \in Arrived
      \/ req[q] \in Known \/ req[q] \in Use \/ req[q] \in Patch
  BY <1>1 DEF Step
<1> QED
  BY <1>1, <1>2, <1>3, <1>4 DEF LoginPc, VerifyPc

LEMMA InitTypes == Init => TypeInv
<1> SUFFICES ASSUME Init PROVE TypeInv
  OBVIOUS
<1>1. clock \in Nat \ {0} /\ era \in Nat /\ lastStep \in Nat
  BY DEF Init
<1>4. active \in BOOLEAN
  BY Zenon DEF Init
<1>5. role \in Role
  BY Zenon DEF Init
<1>2. /\ lockout \in [Bucket -> Row \cup {None}]
      /\ tried \in [Bucket -> Nat]
      /\ loose \in [Bucket -> BOOLEAN]
  BY DEF Init
<1>3. /\ challenges \in [Challenge -> Pending \cup {Unused, [status |-> "gone"]}]
      /\ sessions \in [Session -> Used \cup {Unused}]
      /\ req \in [Request -> Step]
  BY DEF Init, Step
<1> QED
  BY <1>1, <1>2, <1>3, <1>4, <1>5 DEF TypeInv

LEMMA AskTypes ==
  ASSUME TypeInv, NEW q \in Request, NEW r \in Step, Ask(q, r)
  PROVE  TypeInv'
BY DEF Ask, TypeInv, account, ghost

LEMMA AsksTypes ==
  ASSUME TypeInv, NEW q \in Request, Asks(q)
  PROVE  TypeInv'
<1>1. Attempt("local") \in Login
  BY DEF Attempt, Login, LoginPc
<1>2. CASE AskLogin(q)
  BY <1>1, <1>2, AskTypes DEF AskLogin, Step
<1>3. CASE AskCallback(q)
  <2> DEFINE r == [era |-> 0, code |-> 0, admin |-> FALSE, role |-> None, pc |-> "upsert",
                   active |-> None, bucket |-> "oidc", kind |-> "callback"]
  <2>1. r \in Arrived
    BY DEF Arrived
  <2>2. Ask(q, r)
    BY <1>3 DEF AskCallback
  <2> HIDE DEF r
  <2> QED
    BY <2>1, <2>2, AskTypes DEF Step
<1>4. CASE AskChange(q)
  <2> DEFINE r(to, as) == [role |-> as, pc |-> "change", active |-> to, kind |-> "change",
                           changed |-> (to # None /\ to # active) \/ (as # None /\ as # role)]
  <2> PICK to \in BOOLEAN \cup {None}, as \in Role \cup {None} : Ask(q, r(to, as))
    BY <1>4 DEF AskChange
  <2>1. r(to, as) \in Patch
    BY DEF Patch
  <2> HIDE DEF r
  <2> QED
    BY <2>1, AskTypes DEF Step
<1>5. ASSUME NEW c \in Challenge, AskVerify(q, c) PROVE TypeInv'
  <2> PICK code \in {0, clock, clock + 1} :
         Ask(q, [Attempt("totp") EXCEPT !.pc = "take", !.challenge = c, !.code = code])
    BY <1>5 DEF AskVerify
  <2> DEFINE r == [Attempt("totp") EXCEPT !.pc = "take", !.challenge = c, !.code = code]
  <2>1. r \in Verify
    <3>1. code \in Nat
      BY DEF TypeInv
    <3> QED
      BY <3>1 DEF Attempt, Verify, VerifyPc
  <2>2. Ask(q, r)
    OBVIOUS
  <2> HIDE DEF r
  <2> QED
    BY <2>1, <2>2, AskTypes DEF Step
<1>6. ASSUME NEW s \in Session, AskUse(q, s) PROVE TypeInv'
  <2> DEFINE r == [pc |-> "session", stale |-> FALSE, kind |-> "use", session |-> s, read |-> Unused, at |-> 0]
  <2>1. r \in Use
    BY DEF Use
  <2>2. Ask(q, r)
    BY <1>6 DEF AskUse
  <2> HIDE DEF r
  <2> QED
    BY <2>1, <2>2, AskTypes DEF Step
<1> QED
  BY <1>2, <1>3, <1>4, <1>5, <1>6 DEF Asks

\* A request that goes on keeps its type; Done makes it idle.
LEMMA MoveTypes ==
  ASSUME TypeInv, NEW q \in Request
  PROVE  /\ \A pc \in LoginPc : req[q] \in Login /\ Goto(q, pc) => req' \in [Request -> Step]
         /\ \A pc \in VerifyPc : req[q] \in Verify /\ Goto(q, pc) => req' \in [Request -> Step]
         /\ Done(q) => req' \in [Request -> Step]
<1>1. ASSUME NEW pc \in LoginPc, req[q] \in Login, Goto(q, pc) PROVE req' \in [Request -> Step]
  BY <1>1 DEF TypeInv, Goto, Step, Login
<1>2. ASSUME NEW pc \in VerifyPc, req[q] \in Verify, Goto(q, pc) PROVE req' \in [Request -> Step]
  BY <1>2 DEF TypeInv, Goto, Step, Verify
<1>3. ASSUME Done(q) PROVE req' \in [Request -> Step]
  BY <1>3 DEF TypeInv, Done, Step
<1> QED
  BY <1>1, <1>2, <1>3

LEMMA BucketTypes ==
  ASSUME TypeInv, NEW q \in Request, NEW b \in Bucket, Emptied(q, b)
  PROVE  /\ lockout' \in [Bucket -> Row \cup {None}]
         /\ tried' \in [Bucket -> Nat]
         /\ loose' \in [Bucket -> BOOLEAN]
BY DEF Emptied, TypeInv

LEMMA WrongTypes ==
  ASSUME TypeInv, NEW q \in Request, NEW b \in Bucket, Wrong(q, b), req[q] \in Login \cup Verify
  PROVE  /\ req' \in [Request -> Step]
         /\ tried' \in [Bucket -> Nat]
         /\ loose' \in [Bucket -> BOOLEAN]
<1>1. req' \in [Request -> Step]
  BY MoveTypes DEF Wrong, LoginPc, VerifyPc
<1>2. tried' \in [Bucket -> Nat] /\ loose' \in [Bucket -> BOOLEAN]
  BY DEF Wrong, Overlapping, TypeInv
<1> QED
  BY <1>1, <1>2

LEMMA RaisedType ==
  ASSUME TypeInv, NEW b \in Bucket, NEW row \in Row \cup {None}
  PROVE  /\ Raised(row, b) \in Row
         /\ Failures(row) \in Nat
         /\ Raised(row, b).failures = Failures(row) + 1
         /\ Raised(row, b).until = 0 <=> Raised(row, b).failures < Threshold[b]
<1>1. Failures(row) \in Nat
  BY DEF Failures, Row
<1>2. Threshold[b] \in Nat
  BY Parameters
<1>3. clock + LockFor \in Nat \ {0}
  BY Constants DEF TypeInv
<1> QED
  BY <1>1, <1>2, <1>3 DEF Raised, Row

LEMMA BucketStepTypes ==
  ASSUME TypeInv, NEW q \in Request,
         IsLocked(q) \/ Sweep(q) \/ Clear(q) \/ Count(q) \/ Write(q) \/ Abandon(q)
  PROVE  TypeInv'
<1> USE DEF account, ghost
<1>1. CASE IsLocked(q)
  <2>1. req[q].pc \in {"gate", "gateAgain", "recheck"}
    BY <1>1 DEF IsLocked
  <2> DEFINE next == Passed(req[q])
             swept == [req[q] EXCEPT !.pc = "sweep", !.then = next]
  <2>2. CASE req[q] \in Login
    <3>1. next = "password" /\ req[q].pc = "gate"
      BY <2>1, <2>2 DEF Passed, Login, LoginPc
    <3> HIDE DEF next
    <3>2. swept \in Step
      BY <2>2, <3>1 DEF Login, LoginPc, Step
    <3> HIDE DEF swept
    <3>3. req' = [req EXCEPT ![q] = swept] \/ Goto(q, next) \/ Done(q)
      BY <1>1, <3>1 DEF IsLocked, swept, next
    <3>4. req' \in [Request -> Step]
      BY <2>2, <3>1, <3>2, <3>3, MoveTypes DEF LoginPc, TypeInv
    <3> QED
      BY <1>1, <3>4 DEF IsLocked, TypeInv
  <2>3. CASE req[q] \in Verify
    <3>1. next \in {"gateAgain", "code", "retry"}
      BY <2>1, <2>3 DEF Passed, Verify, VerifyPc
    <3> HIDE DEF next
    <3>2. swept \in Step
      BY <2>3, <3>1 DEF Verify, VerifyPc, Step
    <3> HIDE DEF swept
    <3>3. req' = [req EXCEPT ![q] = swept] \/ Goto(q, next) \/ Goto(q, "recheck") \/ Done(q)
      BY <1>1 DEF IsLocked, swept, next
    <3>4. req' \in [Request -> Step]
      BY <2>3, <3>1, <3>2, <3>3, MoveTypes DEF VerifyPc, TypeInv
    <3> QED
      BY <1>1, <3>4 DEF IsLocked, TypeInv
  <2> QED
    BY <2>1, <2>2, <2>3, Kinds
<1>2. CASE Sweep(q)
  <2>1. req[q] \in Login \cup Verify
    BY <1>2, Kinds DEF Sweep
  <2>2. req' \in [Request -> Step]
    BY <1>2, <2>1, MoveTypes DEF Sweep, Login, LoginPc, Verify, VerifyPc
  <2>3. req[q].bucket \in Bucket
    BY <2>1 DEF Login, Verify, Bucket
  <2> QED
    BY <1>2, <2>2, <2>3, BucketTypes DEF Sweep, TypeInv
<1>3. CASE Clear(q)
  <2>1. req[q] \in Login \cup Verify
    BY <1>3, Kinds DEF Clear
  <2>2. req' \in [Request -> Step]
    BY <1>3, <2>1, MoveTypes DEF Clear, LoginPc, VerifyPc
  <2>3. req[q].bucket \in Bucket
    BY <2>1 DEF Login, Verify, Bucket
  <2> QED
    BY <1>3, <2>2, <2>3, BucketTypes DEF Clear, TypeInv
<1>4. CASE Count(q)
  <2>1. req[q] \in Login \cup Verify
    BY <1>4, Kinds DEF Count
  <2>5. lockout[req[q].bucket] \in Row \cup {None}
    BY <2>1 DEF Login, Verify, TypeInv, Bucket
  <2>2. [req[q] EXCEPT !.pc = "write", !.row = lockout[req[q].bucket]] \in Step
    BY <2>1, <2>5 DEF Login, LoginPc, Verify, VerifyPc, Step
  <2>3. req' = [req EXCEPT ![q] = [req[q] EXCEPT !.pc = "write", !.row = lockout[req[q].bucket]]]
    BY <1>4 DEF Count
  <2>4. req' \in [Request -> Step]
    BY <2>2, <2>3 DEF TypeInv
  <2> QED
    BY <1>4, <2>4 DEF Count, TypeInv
<1>5. CASE Write(q)
  <2>1. req[q] \in Login \cup Verify
    BY <1>5, Kinds DEF Write
  <2>2. req[q].bucket \in Bucket /\ req[q].row \in Row \cup {None}
    BY <2>1 DEF Login, Verify, Bucket
  <2>3. Raised(req[q].row, req[q].bucket) \in Row
    BY <2>2, RaisedType
  <2>4. req' \in [Request -> Step]
    <3>1. (req[q] \in Verify /\ Goto(q, "recheck")) \/ Done(q)
      BY <1>5, <2>1 DEF Write, Goto, Done, Login, Verify
    <3> QED
      BY <3>1, MoveTypes DEF VerifyPc
  <2>5. lockout' \in [Bucket -> Row \cup {None}]
    BY <1>5, <2>2, <2>3 DEF Write, TypeInv
  <2>6. loose' \in [Bucket -> BOOLEAN]
    BY <1>5 DEF Write, Overlapping, TypeInv
  <2> QED
    BY <1>5, <2>4, <2>5, <2>6 DEF Write, TypeInv
<1>6. CASE Abandon(q)
  <2>1. req' \in [Request -> Step]
    BY <1>6, MoveTypes DEF Abandon
  <2>2. loose' \in [Bucket -> BOOLEAN]
    BY <1>6 DEF Abandon, TypeInv
  <2> QED
    BY <1>6, <2>1, <2>2 DEF Abandon, TypeInv
<1> QED
  BY <1>1, <1>2, <1>3, <1>4, <1>5, <1>6

LEMMA SignInStepTypes ==
  ASSUME TypeInv, NEW q \in Request,
         CheckPassword(q) \/ ReadUser(q) \/ Take(q) \/ Drop(q) \/ CheckCode(q)
  PROVE  TypeInv'
<1> USE DEF account, ghost
<1>1. CASE CheckPassword(q)
  <2>1. req[q] \in Login
    BY <1>1, Kinds DEF CheckPassword
  <2>2. CASE Wrong(q, "local")
    <3>1. req' \in [Request -> Step] /\ tried' \in [Bucket -> Nat] /\ loose' \in [Bucket -> BOOLEAN]
      BY <2>1, <2>2, WrongTypes DEF Bucket
    <3> QED
      BY <1>1, <3>1 DEF CheckPassword, TypeInv
  <2>3. CASE req' = [req EXCEPT ![q].pc = "clear", ![q].admin = role = "admin", ![q].era = era] /\ UNCHANGED ghost
    <3>1. [req[q] EXCEPT !.pc = "clear", !.admin = role = "admin", !.era = era] \in Step
      BY <2>1 DEF Login, LoginPc, Step, TypeInv
    <3>2. req' = [req EXCEPT ![q] = [req[q] EXCEPT !.pc = "clear", !.admin = role = "admin", !.era = era]]
      BY <2>3
    <3>3. req' \in [Request -> Step]
      BY <3>1, <3>2 DEF TypeInv
    <3> QED
      BY <1>1, <2>3, <3>3 DEF CheckPassword, TypeInv
  <2> QED
    BY <1>1, <2>2, <2>3 DEF CheckPassword
<1>2. CASE ReadUser(q)
  <2>1. req[q] \in Arrived
    BY <1>2, Kinds DEF ReadUser
  <2> DEFINE r == [req[q] EXCEPT !.pc = "bind", !.role = role, !.active = active, !.era = era]
  <2>2. r \in Step
    BY <2>1 DEF Arrived, Known, Step, TypeInv
  <2>3. req' = [req EXCEPT ![q] = r]
    BY <1>2 DEF ReadUser
  <2> HIDE DEF r
  <2>4. req' \in [Request -> Step]
    BY <2>2, <2>3 DEF TypeInv
  <2> QED
    BY <1>2, <2>4 DEF ReadUser, TypeInv
<1>3. CASE Take(q)
  <2>1. req[q] \in Verify
    BY <1>3, Kinds DEF Take
  <2> DEFINE c == challenges[req[q].challenge]
             r == [req[q] EXCEPT !.pc = "drop", !.admin = c.admin, !.era = c.era]
  <2>2. CASE Done(q)
    BY <1>3, <2>2, MoveTypes DEF Take, TypeInv
  <2>3. CASE c.status = "pending" /\ req' = [req EXCEPT ![q] = r]
    <3>1. c \in Pending \cup {Unused, [status |-> "gone"]}
      BY <2>1 DEF Verify, TypeInv
    <3>2. c.era \in Nat /\ c.admin \in BOOLEAN
      BY <2>3, <3>1 DEF Pending, Unused
    <3>3. r \in Step
      BY <2>1, <3>2 DEF Verify, VerifyPc, Step
    <3> HIDE DEF r
    <3>4. req' \in [Request -> Step]
      BY <2>3, <3>3 DEF TypeInv
    <3> QED
      BY <1>3, <3>4 DEF Take, TypeInv
  <2> QED
    BY <1>3, <2>2, <2>3 DEF Take
<1>4. CASE Drop(q)
  <2>1. req[q] \in Verify
    BY <1>4, Kinds DEF Drop
  <2>2. req' \in [Request -> Step]
    BY <1>4, <2>1, MoveTypes DEF Drop, VerifyPc
  <2>3. challenges' \in [Challenge -> Pending \cup {Unused, [status |-> "gone"]}]
    BY <1>4 DEF Drop, TypeInv
  <2> QED
    BY <1>4, <2>2, <2>3 DEF Drop, TypeInv
<1>5. CASE CheckCode(q)
  <2>1. req[q] \in Verify
    BY <1>5, Kinds DEF CheckCode
  <2>2. CASE Redeemable(req[q].code)
    <3>1. lastStep' \in Nat
      BY <1>5, <2>1, <2>2 DEF CheckCode, Verify
    <3>2. req' \in [Request -> Step]
      BY <1>5, <2>1, <2>2, MoveTypes DEF CheckCode, VerifyPc
    <3> QED
      BY <1>5, <2>2, <3>1, <3>2 DEF CheckCode, TypeInv
  <2>3. CASE ~Redeemable(req[q].code)
    <3>1. req' \in [Request -> Step] /\ tried' \in [Bucket -> Nat] /\ loose' \in [Bucket -> BOOLEAN]
      BY <1>5, <2>1, <2>3, WrongTypes DEF CheckCode, Bucket
    <3> QED
      BY <1>5, <2>3, <3>1 DEF CheckCode, TypeInv
  <2> QED
    BY <2>2, <2>3
<1> QED
  BY <1>1, <1>2, <1>3, <1>4, <1>5

LEMMA MintTypes ==
  ASSUME TypeInv, NEW c \in Challenge, NEW r, r.era \in Nat, r.admin \in BOOLEAN, Mint(c, r)
  PROVE  challenges' \in [Challenge -> Pending \cup {Unused, [status |-> "gone"]}]
<1>1. [status |-> "pending", era |-> r.era, admin |-> r.admin, expires |-> clock + ChallengeTtl] \in Pending
  BY Constants DEF Pending, TypeInv
<1> QED
  BY <1>1 DEF Mint, TypeInv

LEMMA EndedType ==
  ASSUME TypeInv, NEW s \in Session, sessions[s] # Unused
  PROVE  /\ sessions[s] \in Used
         /\ Ended(s) \in Used
         /\ Ended(s).status = "ended"
         /\ Ended(s).code = sessions[s].code
         /\ Ended(s).created = sessions[s].created
         /\ Ended(s).expires = sessions[s].expires
<1>1. sessions[s] \in Used
  BY DEF TypeInv
<1> QED
  BY <1>1 DEF Ended, Used

LEMMA OpenIsUsed ==
  ASSUME TypeInv, NEW s \in Session
  PROVE  /\ Open(s) => sessions[s] # Unused
         /\ sessions[s].status = "ended" => sessions[s] # Unused
         /\ sessions[s] # Unused => sessions[s] \in Used
BY DEF Open, Unused, TypeInv

\* What a sign-in does to the sessions: it opens a new one and ends what has expired.
LEMMA OpenSessionEffect ==
  ASSUME TypeInv, NEW q \in Request, OpenSession(q)
  PROVE  \E s \in Session :
           /\ sessions[s] = Unused
           /\ sessions' \in [Session -> Used \cup {Unused}]
           /\ sessions'[s] \in Used
           /\ sessions'[s].status = "open"
           /\ sessions'[s].era = req[q].era
           /\ sessions'[s].admin = req[q].admin
           /\ req[q].era # era => sessions'[s].late
           /\ sessions'[s].code = req[q].code
           /\ \A t \in Session \ {s} :
                sessions'[t] = sessions[t] \/ (Open(t) /\ sessions'[t] = Ended(t))
<1> PICK s \in Session, age \in MaxAge :
      /\ sessions[s] = Unused
      /\ sessions' = [t \in Session |->
           IF t = s THEN [status |-> "open", era |-> req[q].era, late |-> req[q].era # era, code |-> req[q].code,
                          admin |-> req[q].admin, expires |-> clock + age, created |-> clock, start |-> clock]
           ELSE IF sessions[t].status = "open" /\ Expired(sessions[t]) THEN Ended(t)
           ELSE sessions[t]]
  BY DEF OpenSession
<1> DEFINE new == [status |-> "open", era |-> req[q].era, late |-> req[q].era # era, code |-> req[q].code,
                   admin |-> req[q].admin, expires |-> clock + age, created |-> clock, start |-> clock]
<1>1. req[q].era \in Nat /\ req[q].code \in Nat /\ req[q].admin \in BOOLEAN
  BY Kinds DEF OpenSession, Login, Verify, Known
<1>2. clock \in Nat /\ clock + age \in Nat
  BY Constants DEF TypeInv
<1>3. new \in Used
  BY <1>1, <1>2 DEF Used
<1>4. /\ new.status = "open"
      /\ new.era = req[q].era
      /\ new.admin = req[q].admin
      /\ req[q].era # era => new.late
      /\ new.code = req[q].code
  OBVIOUS
<1>5. sessions'[s] = new
  OBVIOUS
<1> HIDE DEF new
<1>6. \A t \in Session \ {s} :
        sessions'[t] = sessions[t] \/ (Open(t) /\ sessions'[t] = Ended(t))
  BY DEF Open
<1>7. \A t \in Session : sessions'[t] \in Used \cup {Unused}
  BY <1>3, <1>5, <1>6, EndedType, OpenIsUsed DEF TypeInv
<1>8. sessions' \in [Session -> Used \cup {Unused}]
  BY <1>7
<1> QED
  BY <1>3, <1>4, <1>5, <1>6, <1>8

\* Every open session ends, and nothing else changes.
LEMMA PurgedEffect ==
  ASSUME TypeInv
  PROVE  /\ Purged \in [Session -> Used \cup {Unused}]
         /\ \A s \in Session : Purged[s] = IF Open(s) THEN Ended(s) ELSE sessions[s]
<1>1. \A s \in Session : Purged[s] = IF Open(s) THEN Ended(s) ELSE sessions[s]
  BY DEF Purged, Open
<1>2. \A s \in Session : Purged[s] \in Used \cup {Unused}
  BY <1>1, EndedType, OpenIsUsed DEF TypeInv
<1> QED
  BY <1>1, <1>2 DEF Purged

Marked(s) == [sessions[s] EXCEPT !.late = TRUE]

\* Every open session becomes late, and nothing else changes.
LEMMA SparedEffect ==
  ASSUME TypeInv
  PROVE  /\ Spared \in [Session -> Used \cup {Unused}]
         /\ \A s \in Session : Spared[s] = IF Open(s) THEN Marked(s) ELSE sessions[s]
         /\ \A s \in Session : Open(s) => Marked(s).late
<1>1. \A s \in Session : Spared[s] = IF Open(s) THEN Marked(s) ELSE sessions[s]
  BY DEF Spared, Marked, Open
<1>2. ASSUME NEW s \in Session, Open(s) PROVE Marked(s) \in Used /\ Marked(s).late
  <2>1. sessions[s] \in Used
    BY <1>2, OpenIsUsed
  <2> QED
    BY <2>1 DEF Used, Marked
<1>3. \A s \in Session : Spared[s] \in Used \cup {Unused}
  BY <1>1, <1>2 DEF TypeInv
<1> QED
  BY <1>1, <1>2, <1>3 DEF Spared

\* What the second step of a callback does: it goes on with a role that it wrote, or
\* ends, and leaves the sessions late if it takes the role of an administrator.
LEMMA BindEffect ==
  ASSUME TypeInv, NEW q \in Request, BindUser(q)
  PROVE  /\ req[q] \in Known /\ req[q].pc = "bind"
         /\ req' \in [Request -> Step]
         /\ \A o \in Request \ {q} : req'[o] = req[o]
         /\ \/ req'[q] = Idle
            \/ /\ req'[q] \in Known /\ req'[q].pc = "open"
               /\ req'[q].code = 0 /\ req'[q].era = req[q].era
               /\ req'[q].admin => role' = "admin"
         /\ role' \in Role
         /\ \/ era' = era /\ sessions' = sessions /\ (role = "admin" => role' = "admin")
            \/ era' = era + 1 /\ sessions' = Spared
<1>1. req[q] \in Known /\ req[q].pc = "bind"
  BY Kinds DEF BindUser
<1> PICK listed \in BOOLEAN :
      /\ role' = RoleFor(req[q].role, listed)
      /\ era' = IF role = "admin" /\ role' # "admin" THEN era + 1 ELSE era
      /\ sessions' = IF role = "admin" /\ role' # "admin" THEN Spared ELSE sessions
      /\ IF req[q].active
           THEN req' = [req EXCEPT ![q].pc = "open", ![q].admin = listed \/ req[q].role = "admin"]
           ELSE Done(q)
  BY DEF BindUser
<1> DEFINE r == [req[q] EXCEPT !.pc = "open", !.admin = listed \/ req[q].role = "admin"]
<1>2. r \in Known /\ r.pc = "open" /\ r.code = 0 /\ r.era = req[q].era /\ r.admin = (listed \/ req[q].role = "admin")
  BY <1>1 DEF Known
<1>3. role' \in Role /\ ((listed \/ req[q].role = "admin") => role' = "admin")
  BY <1>1 DEF RoleFor, Role, Known
<1>4. req' = [req EXCEPT ![q] = r] \/ req' = [req EXCEPT ![q] = Idle]
  BY DEF Done
<1> HIDE DEF r
<1>5. /\ req' \in [Request -> Step]
      /\ \A o \in Request \ {q} : req'[o] = req[o]
      /\ req'[q] = r \/ req'[q] = Idle
  BY <1>2, <1>4 DEF TypeInv, Step
<1> QED
  BY <1>1, <1>2, <1>3, <1>5

\* What a renewal writes, and how it marks the ones it overtakes.
Extended(s, next, at) == [sessions[s] EXCEPT !.expires = next, !.start = at]

Overtaken(o) == [req[o] EXCEPT !.stale = TRUE]

\* A renewal changes an open session's period and marks the renewals it overtakes.
LEMMA RenewEffect ==
  ASSUME TypeInv, UseInv, NEW q \in Request, Renew(q)
  PROVE  /\ req[q] \in Use
         /\ req' \in [Request -> Step]
         /\ sessions' \in [Session -> Used \cup {Unused}]
         /\ \A t \in Session \ {req[q].session} : sessions'[t] = sessions[t]
         /\ \A o \in Request : \/ req'[o] = Idle
                               \/ req'[o] = req[o]
                               \/ /\ req[o].pc = "renew" /\ req'[o] = Overtaken(o)
         /\ \/ sessions' = sessions
            \/ \E next \in Nat, s \in Session :
                 /\ s = req[q].session
                 /\ Open(s)
                 /\ sessions'[s] = Extended(s, next, req[q].at)
                 /\ next > req[q].read.expires
                 /\ next <= req[q].read.created + Absolute
                 /\ req'[q] = Idle
                 /\ \A o \in Request : req[o].pc = "renew" /\ req[o].session = s =>
                      req'[o] = Idle \/ req'[o] = Overtaken(o)
<1>1. req[q] \in Use /\ req[q].pc = "renew"
  BY Kinds DEF Renew
<1>2. /\ req[q].read \in Used
      /\ sessions[req[q].session] # Unused
      /\ req[q].session \in Session
      /\ req[q].at \in Nat
  BY <1>1 DEF UseInv, Use
<1> DEFINE s == req[q].session
           next(age) == Least(req[q].at + age, req[q].read.created + Absolute)
<1> PICK age \in MaxAge :
      IF next(age) <= req[q].read.expires
        THEN Done(q) /\ UNCHANGED sessions
        ELSE /\ sessions' = [sessions EXCEPT ![s] = Renewed(s, req[q].read, next(age), req[q].at)]
             /\ req' = [o \in Request |->
                          IF o = q THEN Idle
                          ELSE IF req[o].pc = "renew" /\ req[o].session = s
                            THEN [req[o] EXCEPT !.stale = TRUE]
                          ELSE req[o]]
  BY DEF Renew
<1>3. next(age) \in Nat /\ next(age) <= req[q].read.created + Absolute
  BY <1>2, Constants DEF Least, Used
<1> DEFINE n == next(age)
<1>4. n \in Nat /\ n <= req[q].read.created + Absolute /\ req[q].read.expires \in Nat
  BY <1>2, <1>3 DEF Used
<1> HIDE DEF next
<1>5. CASE n <= req[q].read.expires
  <2>1. Done(q) /\ sessions' = sessions
    BY <1>5
  <2>2. req' \in [Request -> Step]
    BY <2>1, MoveTypes
  <2>3. \A o \in Request : req'[o] = Idle \/ req'[o] = req[o]
    BY <2>1 DEF Done, TypeInv
  <2>4. sessions' \in [Session -> Used \cup {Unused}]
    BY <2>1 DEF TypeInv
  <2> QED
    BY <1>1, <2>1, <2>2, <2>3, <2>4
<1>6. CASE ~(n <= req[q].read.expires)
  <2>1. /\ sessions' = [sessions EXCEPT ![s] = Renewed(s, req[q].read, n, req[q].at)]
        /\ req' = [o \in Request |->
                     IF o = q THEN Idle
                     ELSE IF req[o].pc = "renew" /\ req[o].session = s
                       THEN [req[o] EXCEPT !.stale = TRUE]
                     ELSE req[o]]
    BY <1>6
  <2>2. n > req[q].read.expires
    BY <1>4, <1>6
  <2> HIDE DEF n
  <2>3. ASSUME NEW o \in Request, req[o].pc = "renew" PROVE Overtaken(o) \in Step
    <3>1. req[o] \in Use
      BY <2>3, Kinds
    <3>2. Overtaken(o) \in Use
      BY <3>1 DEF Use, Overtaken
    <3> QED
      BY <3>2 DEF Step
  <2>4. \A o \in Request : req'[o] = IF o = q THEN Idle
                                    ELSE IF req[o].pc = "renew" /\ req[o].session = s
                                      THEN Overtaken(o)
                                    ELSE req[o]
    BY <2>1 DEF Overtaken
  <2>5. \A o \in Request : req'[o] \in Step
    BY <2>3, <2>4, Kinds DEF Step
  <2>6. req' \in [Request -> Step]
    BY <2>1, <2>5
  <2>7. sessions[s] \in Used /\ s \in Session
    BY <1>2 DEF TypeInv
  <2>8. Extended(s, n, req[q].at) \in Used
    BY <1>2, <1>4, <2>7 DEF Used, Extended
  <2>9. Renewed(s, req[q].read, n, req[q].at) = IF Open(s) THEN Extended(s, n, req[q].at) ELSE sessions[s]
    BY DEF Renewed, Open, Extended
  <2>10. /\ sessions' \in [Session -> Used \cup {Unused}]
         /\ \A t \in Session \ {s} : sessions'[t] = sessions[t]
         /\ sessions'[s] = Renewed(s, req[q].read, n, req[q].at)
    BY <2>1, <2>7, <2>8, <2>9 DEF TypeInv
  <2>11. CASE Open(s)
    <3>1. sessions'[s] = Extended(s, n, req[q].at)
      BY <2>9, <2>10, <2>11
    <3>2. req'[q] = Idle
      BY <2>4
    <3>3. \A o \in Request : req[o].pc = "renew" /\ req[o].session = s =>
            req'[o] = Idle \/ req'[o] = Overtaken(o)
      BY <2>4
    <3>4. \A o \in Request : \/ req'[o] = Idle
                            \/ req'[o] = req[o]
                            \/ /\ req[o].pc = "renew" /\ req'[o] = Overtaken(o)
      BY <2>4
    <3>5. s \in Session /\ s = req[q].session
      BY <2>7
    <3> HIDE DEF s
    <3>6. \E m \in Nat, t \in Session :
            /\ t = req[q].session
            /\ Open(t)
            /\ sessions'[t] = Extended(t, m, req[q].at)
            /\ m > req[q].read.expires
            /\ m <= req[q].read.created + Absolute
            /\ req'[q] = Idle
            /\ \A o \in Request : req[o].pc = "renew" /\ req[o].session = t =>
                 req'[o] = Idle \/ req'[o] = Overtaken(o)
      <4> USE <1>4, <3>5
      <4> WITNESS n \in Nat, s \in Session
      <4> QED
        BY <1>4, <2>2, <2>11, <3>1, <3>2, <3>3, <3>5
    <3> QED
      BY <1>1, <2>6, <2>10, <3>4, <3>5, <3>6
  <2>12. CASE ~Open(s)
    <3>1. sessions' = sessions
      BY <2>1, <2>9, <2>12 DEF TypeInv
    <3> QED
      BY <1>1, <2>4, <2>6, <2>10, <3>1
  <2> QED
    BY <2>11, <2>12
<1> QED
  BY <1>5, <1>6

\* A change of status or role ends the open sessions, or leaves them late.
LEMMA ChangeEffect ==
  ASSUME TypeInv, NEW q \in Request, Change(q)
  PROVE  /\ req[q] \in Patch
         /\ sessions' \in [Session -> Used \cup {Unused}]
         /\ \A s \in Session :
              \/ ~Open(s) /\ sessions'[s] = sessions[s]
              \/ Open(s) /\ sessions'[s] = Ended(s)
              \/ Open(s) /\ sessions'[s] = sessions[s] /\ era' = era
              \/ Open(s) /\ sessions'[s] = Marked(s)
<1>1. req[q] \in Patch
  BY Kinds DEF Change
<1>2. CASE req[q].changed
  <2>1. sessions' = Purged
    BY <1>2 DEF Change
  <2> QED
    BY <1>1, <2>1, PurgedEffect
<1>3. CASE ~req[q].changed /\ ~(active' # active \/ role' # role)
  <2>1. sessions' = sessions /\ era' = era
    BY <1>3 DEF Change
  <2> QED
    BY <1>1, <2>1 DEF TypeInv
<1>4. CASE ~req[q].changed /\ (active' # active \/ role' # role)
  <2>1. sessions' = Spared
    BY <1>4 DEF Change
  <2> QED
    BY <1>1, <2>1, SparedEffect
<1> QED
  BY <1>2, <1>3, <1>4

LEMMA SessionStepTypes ==
  ASSUME TypeInv, UseInv, NEW q \in Request,
         Retry(q) \/ OpenChallenge(q) \/ OpenSession(q) \/ ReadSession(q) \/ Renew(q) \/ EndSession(q) \/ Change(q)
         \/ BindUser(q)
  PROVE  TypeInv'
<1> USE DEF account, ghost
<1>1. CASE Retry(q)
  <2>1. req[q].era \in Nat /\ req[q].admin \in BOOLEAN
    BY <1>1, Kinds DEF Retry, Verify
  <2>2. req' \in [Request -> Step]
    BY <1>1, MoveTypes DEF Retry
  <2> QED
    BY <1>1, <2>1, <2>2, MintTypes DEF Retry, TypeInv
<1>2. CASE OpenChallenge(q)
  <2>1. req[q].era \in Nat /\ req[q].admin \in BOOLEAN
    BY <1>2, Kinds DEF OpenChallenge, Login, Verify, Known
  <2>2. req' \in [Request -> Step]
    BY <1>2, MoveTypes DEF OpenChallenge
  <2> QED
    BY <1>2, <2>1, <2>2, MintTypes DEF OpenChallenge, TypeInv
<1>3. CASE OpenSession(q)
  <2>1. req' \in [Request -> Step]
    BY <1>3, MoveTypes DEF OpenSession
  <2>2. sessions' \in [Session -> Used \cup {Unused}]
    BY <1>3, OpenSessionEffect
  <2> QED
    BY <1>3, <2>1, <2>2 DEF OpenSession, TypeInv
<1>4. CASE ReadSession(q)
  <2>1. req[q] \in Use
    BY <1>4, Kinds DEF ReadSession
  <2> DEFINE x == sessions[req[q].session]
             ended == [req[q] EXCEPT !.pc = "end"]
             due == [req[q] EXCEPT !.pc = "renew", !.read = x, !.at = clock]
  <2>2. ended \in Step /\ due \in Step
    BY <2>1 DEF Use, Step, TypeInv
  <2>3. Done(q) \/ req' = [req EXCEPT ![q] = ended] \/ req' = [req EXCEPT ![q] = due]
    BY <1>4 DEF ReadSession, Goto
  <2> HIDE DEF ended, due
  <2>4. req' \in [Request -> Step]
    BY <2>2, <2>3, MoveTypes DEF TypeInv
  <2> QED
    BY <1>4, <2>4 DEF ReadSession, TypeInv
<1>5. CASE Renew(q)
  BY <1>5, RenewEffect DEF Renew, TypeInv
<1>6. CASE EndSession(q)
  <2>1. req' \in [Request -> Step]
    BY <1>6, MoveTypes DEF EndSession
  <2>2. req[q].session \in Session /\ sessions[req[q].session] # Unused
    BY <1>6, Kinds DEF EndSession, Use, UseInv
  <2>3. sessions' \in [Session -> Used \cup {Unused}]
    BY <1>6, <2>2, EndedType DEF EndSession, TypeInv
  <2> QED
    BY <1>6, <2>1, <2>3 DEF EndSession, TypeInv
<1>7. CASE Change(q)
  <2>1. req[q] \in Patch /\ sessions' \in [Session -> Used \cup {Unused}]
    BY <1>7, ChangeEffect
  <2>2. req' \in [Request -> Step]
    BY <1>7, MoveTypes DEF Change
  <2>3. active' \in BOOLEAN
    <3>1. req[q].active \in BOOLEAN \cup {None}
      BY <2>1 DEF Patch
    <3> QED
      BY <1>7, <3>1 DEF Change, TypeInv
  <2>4. role' \in Role
    <3>1. req[q].role \in Role \cup {None}
      BY <2>1 DEF Patch
    <3> QED
      BY <1>7, <3>1 DEF Change, TypeInv
  <2>5. era' \in Nat
    BY <1>7 DEF Change, TypeInv
  <2>6. UNCHANGED <<clock, lockout, lastStep, challenges, tried, loose>>
    BY <1>7 DEF Change
  <2> QED
    BY <2>1, <2>2, <2>3, <2>4, <2>5, <2>6 DEF TypeInv
<1>8. CASE BindUser(q)
  <2>1. req' \in [Request -> Step] /\ role' \in Role
    BY <1>8, BindEffect
  <2>2. era' \in Nat /\ sessions' \in [Session -> Used \cup {Unused}]
    BY <1>8, BindEffect, SparedEffect DEF TypeInv
  <2>3. UNCHANGED <<clock, active, lockout, lastStep, challenges, tried, loose>>
    BY <1>8 DEF BindUser
  <2> QED
    BY <2>1, <2>2, <2>3 DEF TypeInv
<1> QED
  BY <1>1, <1>2, <1>3, <1>4, <1>5, <1>6, <1>7, <1>8

LEMMA TypesKept ==
  ASSUME TypeInv, UseInv, [Next]_vars
  PROVE  TypeInv'
<1> USE DEF account, ghost
<1>1. CASE Tick
  BY <1>1 DEF Tick, TypeInv
<1>2. ASSUME NEW q \in Request, Asks(q) PROVE TypeInv'
  BY <1>2, AsksTypes
<1>3. ASSUME NEW q \in Request, Steps(q) PROVE TypeInv'
  BY <1>3, BucketStepTypes, SignInStepTypes, SessionStepTypes DEF Steps
<1>4. ASSUME NEW s \in Session, Logout(s) PROVE TypeInv'
  <2>1. sessions' \in [Session -> Used \cup {Unused}]
    BY <1>4, EndedType, OpenIsUsed DEF Logout, TypeInv, Open
  <2> QED
    BY <1>4, <2>1 DEF Logout, TypeInv
<1>5. CASE ResetPassword
  BY <1>5, PurgedEffect DEF ResetPassword, TypeInv
<1>6. CASE UNCHANGED vars
  BY <1>6 DEF vars, TypeInv
<1> QED
  BY <1>1, <1>2, <1>3, <1>4, <1>5, <1>6 DEF Next

-----------------------------------------------------------------------------
(* What a step does to the requests and the sessions *)

\* A new request changes nothing else.
LEMMA AskEffect ==
  ASSUME TypeInv, NEW q \in Request, Asks(q)
  PROVE  /\ req[q] = Idle
         /\ \A o \in Request \ {q} : req'[o] = req[o]
         /\ UNCHANGED <<clock, active, role, era, lockout, lastStep, challenges, sessions, tried, loose>>
<1> DEFINE Same == /\ req[q] = Idle
                   /\ \A o \in Request \ {q} : req'[o] = req[o]
                   /\ UNCHANGED <<clock, active, role, era, lockout, lastStep, challenges, sessions, tried, loose>>
<1>1. ASSUME NEW r, Ask(q, r) PROVE Same
  BY <1>1 DEF Ask, TypeInv, account, ghost
<1> HIDE DEF Same
<1>2. ASSUME AskLogin(q) PROVE Same
  BY <1>1, <1>2 DEF AskLogin
<1>3. ASSUME AskCallback(q) PROVE Same
  BY <1>1, <1>3 DEF AskCallback
<1>4. ASSUME AskChange(q) PROVE Same
  BY <1>1, <1>4 DEF AskChange
<1>5. ASSUME NEW c \in Challenge, AskVerify(q, c) PROVE Same
  BY <1>1, <1>5 DEF AskVerify
<1>6. ASSUME NEW s \in Session, AskUse(q, s) PROVE Same
  BY <1>1, <1>6 DEF AskUse
<1>7. Same
  BY <1>2, <1>3, <1>4, <1>5, <1>6 DEF Asks
<1> QED
  BY <1>7 DEF Same

\* Only one request moves, except that a renewal marks others as stale.
LEMMA OthersStay ==
  ASSUME TypeInv, UseInv, NEW q \in Request, Asks(q) \/ Steps(q), ~Renew(q)
  PROVE  \A o \in Request \ {q} : req'[o] = req[o]
<1>1. CASE Asks(q)
  BY <1>1, AskEffect
<1>2. CASE BindUser(q)
  BY <1>2, BindEffect
<1>3. CASE CheckPassword(q) \/ Take(q) \/ CheckCode(q) \/ ReadUser(q)
  BY <1>3 DEF CheckPassword, Take, CheckCode, ReadUser, Wrong, Goto, Done, TypeInv
<1>4. CASE IsLocked(q) \/ Sweep(q) \/ Clear(q) \/ Count(q) \/ Write(q) \/ Drop(q) \/ Retry(q)
  BY <1>4 DEF IsLocked, Sweep, Clear, Count, Write, Drop, Retry, Goto, Done, TypeInv
<1>5. CASE \/ OpenChallenge(q) \/ OpenSession(q) \/ ReadSession(q) \/ EndSession(q) \/ Change(q) \/ Abandon(q)
  BY <1>5 DEF OpenChallenge, OpenSession, ReadSession, EndSession, Change, Abandon, Goto, Done, TypeInv
<1> QED
  BY <1>1, <1>2, <1>3, <1>4, <1>5 DEF Steps

\* What may become of a session in a step.
Fate(t) ==
  \/ sessions'[t] = sessions[t]
  \/ sessions[t] # Unused /\ sessions'[t] = Ended(t)
  \/ Open(t) /\ sessions'[t] = Marked(t)
  \/ \E q \in Request : Renew(q) /\ Open(t) /\ req[q].session = t
  \/ \E q \in Request : OpenSession(q) /\ sessions[t] = Unused

LEMMA Fates ==
  ASSUME TypeInv, UseInv, [Next]_vars, NEW t \in Session
  PROVE  Fate(t)
<1> USE DEF Fate
<1>1. CASE Tick \/ UNCHANGED vars
  BY <1>1 DEF Tick, vars
<1>2. ASSUME NEW q \in Request, Asks(q) PROVE Fate(t)
  <2>1. sessions' = sessions
    BY <1>2, AskEffect
  <2> QED
    BY <2>1
<1>3. ASSUME NEW q \in Request, Steps(q) PROVE Fate(t)
  <2>1. CASE OpenSession(q)
    BY <2>1, OpenSessionEffect, OpenIsUsed
  <2>2. CASE Renew(q)
    <3>1. CASE t # req[q].session
      BY <2>2, <3>1, RenewEffect
    <3>2. CASE t = req[q].session /\ Open(t)
      BY <2>2, <3>2
    <3>3. CASE t = req[q].session /\ ~Open(t)
      BY <2>2, <3>3, RenewEffect
    <3> QED
      BY <3>1, <3>2, <3>3
  <2>3. CASE EndSession(q)
    <3>1. req[q].session \in Session /\ sessions[req[q].session] # Unused
      BY <2>3, Kinds DEF EndSession, Use, UseInv
    <3>2. sessions'[t] = IF t = req[q].session THEN Ended(t) ELSE sessions[t]
      BY <2>3, <3>1 DEF EndSession, TypeInv
    <3> QED
      BY <3>1, <3>2
  <2>4. CASE Change(q)
    <3>1. \/ sessions'[t] = sessions[t]
          \/ Open(t) /\ sessions'[t] = Ended(t)
          \/ Open(t) /\ sessions'[t] = Marked(t)
      BY <2>4, ChangeEffect
    <3> QED
      BY <3>1, OpenIsUsed
  <2>5. CASE BindUser(q)
    BY <2>5, BindEffect, SparedEffect
  <2>6. CASE ~(OpenSession(q) \/ Renew(q) \/ EndSession(q) \/ Change(q) \/ BindUser(q))
    <3>1. UNCHANGED sessions
      BY <1>3, <2>6 DEF Steps, IsLocked, Sweep, Clear, Count, Write, CheckPassword, Take, Drop, CheckCode,
         Retry, OpenChallenge, ReadSession, ReadUser, Abandon
    <3> QED
      BY <3>1
  <2> QED
    BY <2>1, <2>2, <2>3, <2>4, <2>5, <2>6
<1>4. ASSUME NEW s \in Session, Logout(s) PROVE Fate(t)
  BY <1>4, OpenIsUsed DEF Logout, TypeInv, Open
<1>5. CASE ResetPassword
  BY <1>5, PurgedEffect, OpenIsUsed DEF ResetPassword
<1> QED
  BY <1>1, <1>2, <1>3, <1>4, <1>5 DEF Next

\* What a session keeps, whatever becomes of it.
LEMMA Keeps ==
  ASSUME TypeInv, UseInv, [Next]_vars, NEW t \in Session, sessions[t] # Unused
  PROVE  /\ sessions'[t] # Unused
         /\ sessions'[t].created = sessions[t].created
         /\ sessions'[t].code = sessions[t].code
         /\ sessions[t].status = "ended" => sessions'[t].status = "ended"
         /\ \/ sessions'[t].expires = sessions[t].expires
            \/ \E q \in Request : Renew(q) /\ Open(t) /\ req[q].session = t
<1>1. sessions[t] \in Used
  BY OpenIsUsed
<1>2. \A x \in Used : x # Unused
  BY DEF Used, Unused
<1>3. CASE sessions'[t] = sessions[t]
  BY <1>3
<1>4. CASE sessions'[t] = Ended(t)
  BY <1>2, <1>4, EndedType
<1>5. CASE Open(t) /\ sessions'[t] = Marked(t)
  BY <1>1, <1>2, <1>5 DEF Used, Open, Marked
<1>6. ASSUME NEW q \in Request, Renew(q), Open(t), req[q].session = t
      PROVE  /\ sessions'[t] # Unused
             /\ sessions'[t].created = sessions[t].created
             /\ sessions'[t].code = sessions[t].code
             /\ sessions[t].status # "ended"
  <2>1. sessions[t].status # "ended"
    BY <1>6 DEF Open
  <2>2. CASE sessions' = sessions
    BY <2>1, <2>2
  <2>3. CASE sessions' # sessions
    <3>1. PICK next \in Nat : sessions'[t] = Extended(t, next, req[q].at)
      BY <1>6, <2>3, RenewEffect
    <3>2. req[q].at \in Nat
      BY <1>6, RenewEffect DEF Use
    <3>3. sessions'[t] \in Used /\ sessions'[t].created = sessions[t].created /\ sessions'[t].code = sessions[t].code
      BY <1>1, <3>1, <3>2 DEF Used, Extended
    <3> QED
      BY <1>2, <2>1, <3>3
  <2> QED
    BY <2>2, <2>3
<1>7. CASE \E q \in Request : Renew(q) /\ Open(t) /\ req[q].session = t
  <2> PICK q \in Request : Renew(q) /\ Open(t) /\ req[q].session = t
    BY <1>7
  <2> QED
    BY <1>6
<1>8. \/ sessions'[t] = sessions[t]
      \/ sessions'[t] = Ended(t)
      \/ Open(t) /\ sessions'[t] = Marked(t)
      \/ \E q \in Request : Renew(q) /\ Open(t) /\ req[q].session = t
  BY Fates DEF Fate
<1> QED
  BY <1>3, <1>4, <1>5, <1>7, <1>8

\* Only two steps make a request use a session, and only one makes it hold the
\* user that it read.
LEMMA ToUse ==
  ASSUME TypeInv, UseInv, NEW q \in Request, Asks(q) \/ Steps(q), ~Renew(q),
         req'[q].pc \in {"session", "renew", "end", "bind"}
  PROVE  \/ (\E s \in Session : AskUse(q, s)) \/ ReadSession(q)
         \/ ReadUser(q)
<1> DEFINE Other == ~(req'[q].pc \in {"session", "renew", "end", "bind"})
<1>2. Done(q) => Other
  BY DEF Done, Idle, TypeInv
<1>3. \A pc : ~(pc \in {"session", "renew", "end", "bind"}) /\ req[q] \in Login \cup Verify \cup Known /\ Goto(q, pc) => Other
  BY DEF Goto, TypeInv, Login, Verify, Known
<1>4. CASE AskLogin(q)
  <2>1. req'[q].pc = "gate"
    BY <1>4 DEF AskLogin, Ask, Attempt, TypeInv
  <2> QED
    BY <2>1
<1>5. CASE AskCallback(q)
  <2>1. req'[q].pc = "upsert"
    BY <1>5 DEF AskCallback, Ask, TypeInv
  <2> QED
    BY <2>1
<1>6. CASE AskChange(q)
  <2>1. req'[q].pc = "change"
    BY <1>6 DEF AskChange, Ask, TypeInv
  <2> QED
    BY <2>1
<1>7. CASE \E c \in Challenge : AskVerify(q, c)
  <2>1. req'[q].pc = "take"
    BY <1>7 DEF AskVerify, Ask, Attempt, TypeInv
  <2> QED
    BY <2>1
<1>8. CASE IsLocked(q)
  <2>1. req[q] \in Login \cup Verify
    BY <1>8, Kinds DEF IsLocked
  <2>2. Passed(req[q]) \in {"password", "gateAgain", "code", "retry"}
    BY <1>8, <2>1 DEF IsLocked, Passed, Login, LoginPc, Verify, VerifyPc
  <2> DEFINE next == Passed(req[q])
  <2>3. next \in {"password", "gateAgain", "code", "retry"}
    BY <2>2
  <2>4. \/ req' = [req EXCEPT ![q].pc = "sweep", ![q].then = next]
        \/ Goto(q, next) \/ Goto(q, "recheck") \/ Done(q)
    BY <1>8 DEF IsLocked
  <2> HIDE DEF next
  <2>5. CASE req' = [req EXCEPT ![q].pc = "sweep", ![q].then = next]
    <3>1. req'[q].pc = "sweep"
      BY <2>1, <2>5 DEF TypeInv, Login, Verify
    <3> QED
      BY <3>1
  <2>6. CASE Goto(q, next)
    <3>1. ~(next \in {"session", "renew", "end", "bind"})
      BY <2>3
    <3> QED
      BY <1>3, <2>1, <2>6, <3>1
  <2> QED
    BY <1>2, <1>3, <2>1, <2>4, <2>5, <2>6
<1>9. CASE Sweep(q)
  <2>1. req[q] \in Login \cup Verify
    BY <1>9, Kinds DEF Sweep
  <2>2. ~(req[q].then \in {"session", "renew", "end", "bind"})
    BY <2>1 DEF Login, Verify
  <2> QED
    BY <1>3, <1>9, <2>1, <2>2 DEF Sweep
<1>10. CASE Clear(q)
  BY <1>3, <1>10, Kinds DEF Clear
<1>11. CASE Count(q)
  <2>1. req[q] \in Login \cup Verify
    BY <1>11, Kinds DEF Count
  <2>2. req'[q].pc = "write"
    BY <1>11, <2>1 DEF Count, TypeInv, Login, Verify
  <2> QED
    BY <2>2
<1>12. CASE Write(q)
  <2>1. req[q] \in Login \cup Verify
    BY <1>12, Kinds DEF Write
  <2>2. Goto(q, "recheck") \/ Done(q)
    BY <1>12 DEF Write, Goto, Done
  <2> QED
    BY <1>2, <1>3, <2>1, <2>2
<1>13. CASE CheckPassword(q)
  <2>1. req[q] \in Login \cup Verify
    BY <1>13, Kinds DEF CheckPassword, Login, Verify
  <2>2. req'[q].pc \in {"clear", "count"}
    BY <1>13, <2>1 DEF CheckPassword, Wrong, Goto, TypeInv, Login, Verify
  <2> QED
    BY <2>2
<1>14. CASE Take(q)
  <2>1. req[q] \in Verify
    BY <1>14, Kinds DEF Take
  <2>2. Done(q) \/ req'[q].pc = "drop"
    BY <1>14, <2>1 DEF Take, TypeInv, Verify
  <2> QED
    BY <1>2, <2>2
<1>15. CASE Drop(q)
  BY <1>3, <1>15, Kinds DEF Drop
<1>16. CASE CheckCode(q)
  BY <1>3, <1>16, Kinds DEF CheckCode, Wrong
<1>17. CASE Retry(q) \/ OpenChallenge(q) \/ OpenSession(q) \/ EndSession(q) \/ Change(q) \/ Abandon(q)
  BY <1>2, <1>17 DEF Retry, OpenChallenge, OpenSession, EndSession, Change, Abandon
<1>18. CASE BindUser(q)
  <2>1. req'[q].pc \in {"idle", "open"}
    BY <1>18, BindEffect DEF Idle
  <2> QED
    BY <2>1
<1> QED
  BY <1>4, <1>5, <1>6, <1>7, <1>8, <1>9, <1>10, <1>11, <1>12, <1>13, <1>14, <1>15, <1>16, <1>17, <1>18
     DEF Asks, Steps

\* What one request promises of the session it uses.
UseOf(q) ==
  req[q].pc \in {"session", "renew", "end"} =>
    /\ sessions[req[q].session] # Unused
    /\ req[q].pc = "renew" =>
         /\ req[q].read \in Used
         /\ req[q].read.created = sessions[req[q].session].created
         /\ ~req[q].stale /\ Open(req[q].session) => req[q].read.expires = sessions[req[q].session].expires

LEMMA UnmovedUse ==
  ASSUME TypeInv, UseInv, [Next]_vars, NEW o \in Request, req'[o] = req[o],
         req[o].pc = "renew" => \/ req[o].stale
                                \/ sessions'[req[o].session] = sessions[req[o].session]
                                \/ ~\E q \in Request : Renew(q)
  PROVE  UseOf(o)'
<1> SUFFICES ASSUME req[o].pc \in {"session", "renew", "end"}
             PROVE  UseOf(o)'
  BY DEF UseOf
<1> DEFINE s == req[o].session
<1>1. req[o] \in Use /\ s \in Session
  BY Kinds DEF Use
<1>2. sessions[s] # Unused
  BY DEF UseInv
<1> HIDE DEF s
<1>3. /\ sessions'[s] # Unused
      /\ sessions'[s].created = sessions[s].created
      /\ sessions[s].status = "ended" => sessions'[s].status = "ended"
      /\ \/ sessions'[s].expires = sessions[s].expires
         \/ \E q \in Request : Renew(q)
  BY <1>1, <1>2, Keeps
<1>4. sessions[s].status \in {"open", "ended"}
  BY <1>1, <1>2, OpenIsUsed DEF Used
<1>5. sessions'[s].status = "open" => sessions[s].status = "open"
  BY <1>3, <1>4
<1>6. CASE req[o].pc # "renew"
  BY <1>3, <1>6 DEF UseOf, s
<1>7. CASE req[o].pc = "renew"
  <2>1. /\ req[o].read \in Used
        /\ req[o].read.created = sessions[s].created
        /\ ~req[o].stale /\ Open(s) => req[o].read.expires = sessions[s].expires
    BY <1>7 DEF UseInv, s
  <2>2. ~req[o].stale => sessions'[s].expires = sessions[s].expires
    BY <1>3, <1>7 DEF s
  <2> QED
    BY <1>3, <1>5, <1>7, <2>1, <2>2 DEF UseOf, Open, s
<1> QED
  BY <1>6, <1>7

LEMMA RenewedUse ==
  ASSUME TypeInv, UseInv, [Next]_vars, NEW q \in Request, Renew(q), NEW o \in Request
  PROVE  UseOf(o)'
<1>1. CASE req'[o] = Idle
  BY <1>1 DEF UseOf, Idle
<1>2. CASE req[o].pc = "renew" /\ req'[o] = Overtaken(o)
  <2> DEFINE s == req[o].session
  <2>1. req[o] \in Use /\ s \in Session /\ sessions[s] # Unused
    BY <1>2, Kinds DEF Use, UseInv
  <2>2. req[o].read \in Used /\ req[o].read.created = sessions[s].created
    BY <1>2 DEF UseInv
  <2>3. req'[o].session = s /\ req'[o].read = req[o].read /\ req'[o].stale = TRUE
    BY <1>2, <2>1 DEF Overtaken, Use
  <2> HIDE DEF s
  <2>4. sessions'[s] # Unused /\ sessions'[s].created = sessions[s].created
    BY <2>1, Keeps
  <2> QED
    BY <2>2, <2>3, <2>4 DEF UseOf
<1>3. CASE req'[o] = req[o] /\ ~(req[o].pc = "renew" /\ req'[o] = Overtaken(o))
  <2>1. ASSUME req[o].pc = "renew" PROVE sessions'[req[o].session] = sessions[req[o].session]
    <3>1. req[o].session \in Session
      BY <2>1, Kinds DEF Use
    <3>2. CASE req[o].session # req[q].session
      BY <3>1, <3>2, RenewEffect
    <3>3. CASE req[o].session = req[q].session /\ sessions' # sessions
      <4>1. req'[o] = Idle \/ req'[o] = Overtaken(o)
        BY <2>1, <3>3, RenewEffect
      <4> QED
        BY <1>3, <2>1, <4>1 DEF Idle
    <3> QED
      BY <3>2, <3>3
  <2> QED
    BY <1>3, <2>1, UnmovedUse
<1> QED
  BY <1>1, <1>2, <1>3, RenewEffect

LEMMA UseKept ==
  ASSUME TypeInv, UseInv, [Next]_vars
  PROVE  UseInv'
<1>1. ASSUME NEW o \in Request PROVE UseOf(o)'
  <2>1. CASE \E q \in Request : Renew(q)
    BY <2>1, RenewedUse
  <2>2. CASE ~\E q \in Request : Renew(q)
    <3>1. CASE req'[o] = req[o]
      BY <2>2, <3>1, UnmovedUse
    <3>2. ASSUME NEW s \in Session, AskUse(o, s) PROVE UseOf(o)'
      <4>1. req'[o].pc = "session" /\ req'[o].session = s /\ sessions' = sessions
        BY <3>2 DEF AskUse, Ask, TypeInv
      <4> QED
        BY <3>2, <4>1, OpenIsUsed DEF AskUse, UseOf, Open
    <3>3. CASE ReadSession(o)
      <4> DEFINE s == req[o].session
      <4>1. req[o] \in Use /\ s \in Session /\ sessions[s] \in Used /\ sessions[s] # Unused
        BY <3>3, Kinds, OpenIsUsed DEF ReadSession, Use, UseInv
      <4>2. sessions' = sessions
        BY <3>3 DEF ReadSession
      <4>3. \/ req'[o] = Idle
            \/ req'[o] = [req[o] EXCEPT !.pc = "end"]
            \/ req'[o] = [req[o] EXCEPT !.pc = "renew", !.read = sessions[s], !.at = clock]
        BY <3>3 DEF ReadSession, Goto, Done, TypeInv
      <4>4. CASE req'[o] = Idle
        BY <4>4 DEF UseOf, Idle
      <4>5. CASE req'[o] = [req[o] EXCEPT !.pc = "end"]
        <5>1. req'[o].pc = "end" /\ req'[o].session = s
          BY <4>1, <4>5 DEF Use
        <5> QED
          BY <4>1, <4>2, <5>1 DEF UseOf
      <4>6. CASE req'[o] = [req[o] EXCEPT !.pc = "renew", !.read = sessions[s], !.at = clock]
        <5>1. req'[o].session = s /\ req'[o].read = sessions[s]
          BY <4>1, <4>6 DEF Use
        <5> QED
          BY <4>1, <4>2, <5>1 DEF UseOf
      <4> QED
        BY <4>3, <4>4, <4>5, <4>6
    <3>4. ASSUME NEW q \in Request, Asks(q) \/ Steps(q), req'[o] # req[o] PROVE UseOf(o)'
      <4>1. o = q
        BY <2>2, <3>4, OthersStay
      <4>2. CASE req'[o].pc \in {"session", "renew", "end"}
        <5>1. CASE ReadUser(o)
          <6>1. req[o] \in Arrived
            BY <5>1, Kinds DEF ReadUser
          <6>2. req'[o].pc = "bind"
            BY <5>1, <6>1 DEF ReadUser, TypeInv, Arrived
          <6> QED
            BY <4>2, <6>2
        <5> QED
          BY <2>2, <3>2, <3>3, <3>4, <4>1, <4>2, <5>1, ToUse
      <4>3. CASE ~(req'[o].pc \in {"session", "renew", "end"})
        BY <4>3 DEF UseOf
      <4> QED
        BY <4>2, <4>3
    <3>5. (\E q \in Request : Asks(q) \/ Steps(q)) \/ req' = req
      BY DEF Next, vars, Tick, Logout, ResetPassword
    <3> QED
      BY <3>1, <3>4, <3>5
  <2> QED
    BY <2>1, <2>2
<1> QED
  BY <1>1 DEF UseInv, UseOf

-----------------------------------------------------------------------------
(* What holds of every run *)

LEMMA TypesAlways == Spec => [](TypeInv /\ UseInv)
<1>1. Init => TypeInv /\ UseInv
  <2>1. Init => UseInv
    BY DEF Init, Idle, UseInv
  <2> QED
    BY <2>1, InitTypes
<1>2. (TypeInv /\ UseInv) /\ [Next]_vars => (TypeInv /\ UseInv)'
  BY TypesKept, UseKept
<1> QED
  BY <1>1, <1>2, PTL DEF Spec

\* Every variable keeps its type.
THEOREM SignInTypes == Spec => []TypeInv
BY TypesAlways, PTL

-----------------------------------------------------------------------------
(* Renewals *)

\* A session that has ended never comes back; a renewal keeps to the absolute
\* deadline and shortens a session only if another renewal overtook it.
THEOREM RenewalAlwaysKeeps == Spec => RenewalKeeps
<1> DEFINE Kept(s) ==
      /\ sessions[s].status = "ended" => sessions'[s].status = "ended"
      /\ Open(s) /\ Open(s)' =>
           LET old == sessions[s].expires
               new == sessions'[s].expires
           IN  /\ new > old => new <= sessions[s].created + Absolute
               /\ new < old => \E q \in Request : req[q].pc = "renew" /\ req[q].stale
<1>1. ASSUME TypeInv, UseInv, [Next]_vars, NEW s \in Session PROVE Kept(s)
  <2>1. sessions[s].status = "ended" => sessions'[s].status = "ended"
    BY <1>1, Keeps, OpenIsUsed
  <2>2. ASSUME Open(s)
        PROVE  /\ sessions'[s].expires > sessions[s].expires => sessions'[s].expires <= sessions[s].created + Absolute
               /\ sessions'[s].expires < sessions[s].expires => \E q \in Request : req[q].pc = "renew" /\ req[q].stale
    <3>1. sessions[s] \in Used /\ sessions[s] # Unused
      BY <1>1, <2>2, OpenIsUsed
    <3>2. sessions[s].expires \in Nat /\ sessions[s].created \in Nat
      BY <3>1 DEF Used
    <3>3. CASE sessions'[s].expires = sessions[s].expires
      BY <3>2, <3>3
    <3>4. ASSUME NEW q \in Request, Renew(q), req[q].session = s, sessions' # sessions
          PROVE  /\ sessions'[s].expires <= sessions[s].created + Absolute
                 /\ sessions'[s].expires < sessions[s].expires => req[q].pc = "renew" /\ req[q].stale
      <4>1. PICK next \in Nat :
              /\ sessions'[s] = Extended(s, next, req[q].at)
              /\ next > req[q].read.expires
              /\ next <= req[q].read.created + Absolute
        BY <1>1, <3>4, RenewEffect
      <4>2. sessions'[s].expires = next
        BY <3>1, <4>1 DEF Extended, Used
      <4>3. /\ req[q].pc = "renew"
            /\ req[q].read \in Used
            /\ req[q].read.created = sessions[s].created
            /\ ~req[q].stale => req[q].read.expires = sessions[s].expires
        BY <1>1, <2>2, <3>4 DEF Renew, UseInv
      <4>4. req[q].read.expires \in Nat
        BY <4>3 DEF Used
      <4> QED
        BY <3>2, <4>1, <4>2, <4>3, <4>4
    <3> QED
      BY <1>1, <3>1, <3>3, <3>4, Keeps
  <2> QED
    BY <2>1, <2>2
<1>2. TypeInv /\ UseInv /\ [Next]_vars => \A s \in Session : Kept(s)
  BY <1>1
<1>3. TypeInv /\ UseInv /\ [Next]_vars => [\A s \in Session : Kept(s)]_vars
  BY <1>2
<1> QED
  BY <1>3, TypesAlways, PTL DEF Spec, RenewalKeeps

-----------------------------------------------------------------------------
(* Sessions *)

\* An open session is of this era, or late.
EraInv == \A s \in Session : Open(s) => sessions[s].era = era \/ sessions[s].late

\* A request that has redeemed a code and has no session for it yet.
Redeemed(q) == req[q].pc \in {"clear", "open"} /\ req[q].code # 0

\* A code is not used again: not by another request, and not for a session.
CodeInv ==
  /\ \A q \in Request : Redeemed(q) => req[q].code <= lastStep
  /\ \A q, r \in Request : q # r /\ Redeemed(q) /\ Redeemed(r) => req[q].code # req[r].code
  /\ \A s \in Session : sessions[s] # Unused => sessions[s].code <= lastStep
  /\ \A q \in Request, s \in Session :
       Redeemed(q) /\ sessions[s] # Unused => sessions[s].code # req[q].code
  /\ \A s, t \in Session :
       s # t /\ sessions[s] # Unused /\ sessions[t] # Unused /\ sessions[s].code # 0
         => sessions[s].code # sessions[t].code

\* A step keeps the era and takes nobody's role of administrator, or a new era
\* begins and every session that stays open is late.
LEMMA EraEffect ==
  ASSUME TypeInv, UseInv, [Next]_vars
  PROVE  \/ era' = era /\ (role = "admin" => role' = "admin")
         \/ era' = era + 1 /\ \A s \in Session : Open(s)' => sessions'[s].late
<1> DEFINE Old == era' = era /\ (role = "admin" => role' = "admin")
           New == era' = era + 1 /\ \A s \in Session : Open(s)' => sessions'[s].late
<1>1. ASSUME sessions' = Purged PROVE \A s \in Session : ~Open(s)'
  BY <1>1, PurgedEffect, EndedType, OpenIsUsed DEF Open
<1>2. ASSUME sessions' = Spared PROVE \A s \in Session : Open(s)' => sessions'[s].late
  BY <1>2, SparedEffect DEF Open
<1>3. ASSUME NEW q \in Request, Change(q) PROVE Old \/ New
  <2>1. CASE ~(active' # active \/ role' # role)
    BY <1>3, <2>1 DEF Change
  <2>2. CASE active' # active \/ role' # role
    <3>1. era' = era + 1 /\ (sessions' = Purged \/ sessions' = Spared)
      BY <1>3, <2>2 DEF Change
    <3> QED
      BY <1>1, <1>2, <3>1
  <2> QED
    BY <2>1, <2>2
<1>4. ASSUME NEW q \in Request, BindUser(q) PROVE Old \/ New
  <2>1. Old \/ (era' = era + 1 /\ sessions' = Spared)
    BY <1>4, BindEffect
  <2> QED
    BY <1>2, <2>1
<1>5. ASSUME ResetPassword PROVE Old \/ New
  <2>1. era' = era + 1 /\ sessions' = Purged
    BY <1>5 DEF ResetPassword
  <2> QED
    BY <1>1, <2>1
<1>6. ASSUME NEW q \in Request, Asks(q) PROVE Old
  BY <1>6, AskEffect
<1>7. ASSUME NEW q \in Request, Steps(q), ~Change(q), ~BindUser(q) PROVE Old
  <2>1. UNCHANGED account
    BY <1>7 DEF Steps, IsLocked, Sweep, Clear, Count, Write, CheckPassword, Take, Drop, CheckCode, Retry,
         OpenChallenge, OpenSession, ReadSession, Renew, EndSession, ReadUser, Abandon
  <2> QED
    BY <2>1 DEF account
<1>8. ASSUME ~\E q \in Request : Asks(q) \/ Steps(q), ~ResetPassword PROVE Old
  BY <1>8 DEF Next, vars, Tick, Logout, account
<1> HIDE DEF Old, New
<1>9. Old \/ New
  <2>1. CASE \E q \in Request : Asks(q) \/ Steps(q)
    BY <1>3, <1>4, <1>6, <1>7, <2>1
  <2>2. CASE ~\E q \in Request : Asks(q) \/ Steps(q)
    BY <1>5, <1>8, <2>2
  <2> QED
    BY <2>1, <2>2
<1> QED
  BY <1>9 DEF Old, New

LEMMA EraKept ==
  ASSUME TypeInv, UseInv, EraInv, [Next]_vars
  PROVE  EraInv'
<1> USE DEF EraInv
<1>1. CASE era' = era
  <2>1. ASSUME NEW s \in Session, Open(s)' PROVE sessions'[s].era = era \/ sessions'[s].late
    <3>1. CASE sessions'[s] = sessions[s]
      BY <2>1, <3>1 DEF Open
    <3>2. CASE sessions[s] # Unused /\ sessions'[s] = Ended(s)
      BY <2>1, <3>2, EndedType DEF Open
    <3>3. CASE Open(s) /\ sessions'[s] = Marked(s)
      <4>1. sessions[s] \in Used
        BY <3>3, OpenIsUsed
      <4> QED
        BY <3>3, <4>1 DEF Marked, Used
    <3>4. ASSUME NEW q \in Request, Renew(q), Open(s), req[q].session = s
          PROVE  sessions'[s].era = era \/ sessions'[s].late
      <4>1. CASE sessions' = sessions
        BY <3>4, <4>1
      <4>2. CASE sessions' # sessions
        <5>1. PICK next \in Nat : sessions'[s] = Extended(s, next, req[q].at)
          BY <3>4, <4>2, RenewEffect
        <5>2. sessions[s] \in Used
          BY <3>4, OpenIsUsed
        <5>3. sessions'[s].era = sessions[s].era /\ sessions'[s].late = sessions[s].late
          BY <5>1, <5>2 DEF Extended, Used
        <5> QED
          BY <3>4, <5>3
      <4> QED
        BY <4>1, <4>2
    <3>5. ASSUME NEW q \in Request, OpenSession(q), sessions[s] = Unused
          PROVE  sessions'[s].era = era \/ sessions'[s].late
      <4>1. PICK t \in Session :
              /\ sessions'[t].era = req[q].era
              /\ req[q].era # era => sessions'[t].late
              /\ \A u \in Session \ {t} : sessions'[u] = sessions[u] \/ Open(u)
        BY <3>5, OpenSessionEffect
      <4>2. CASE s = t
        BY <4>1, <4>2
      <4>3. CASE s # t
        BY <2>1, <3>5, <4>1, <4>3 DEF Open, Unused
      <4> QED
        BY <4>2, <4>3
    <3> QED
      BY <3>1, <3>2, <3>3, <3>4, <3>5, Fates DEF Fate
  <2> QED
    BY <1>1, <2>1 DEF Open
<1>2. CASE era' = era + 1 /\ \A s \in Session : Open(s)' => sessions'[s].late
  BY <1>2 DEF Open
<1> QED
  BY <1>1, <1>2, EraEffect

\* How a request comes to hold a code: it redeems a new one, or held it before.
LEMMA ToRedeem ==
  ASSUME TypeInv, UseInv, NEW q \in Request, Asks(q) \/ Steps(q), ~Renew(q), Redeemed(q)'
  PROVE  \/ CheckCode(q) /\ Redeemable(req[q].code) /\ lastStep' = req[q].code /\ req'[q].code = req[q].code
         \/ Redeemed(q) /\ req'[q].code = req[q].code
<1> DEFINE Other == ~(req'[q].pc \in {"clear", "open"} /\ req'[q].code # 0)
<1>1. ~Other
  BY DEF Redeemed
<1>2. Done(q) => Other
  BY DEF Done, Idle, TypeInv
<1>3. \A pc : ~(pc \in {"clear", "open"}) /\ req[q] \in Login \cup Verify \cup Known /\ Goto(q, pc) => Other
  BY DEF Goto, TypeInv, Login, Verify, Known
<1>4. CASE Asks(q)
  <2>1. ASSUME NEW r, Ask(q, r), ~(r.pc \in {"clear", "open"}) PROVE Other
    BY <2>1 DEF Ask, TypeInv
  <2> HIDE DEF Other
  <2>2. CASE AskLogin(q)
    BY <1>1, <2>1, <2>2 DEF AskLogin, Attempt
  <2>3. CASE AskCallback(q)
    BY <1>1, <2>1, <2>3 DEF AskCallback
  <2>4. CASE AskChange(q)
    BY <1>1, <2>1, <2>4 DEF AskChange
  <2>5. ASSUME NEW c \in Challenge, AskVerify(q, c) PROVE FALSE
    <3>1. req'[q].pc = "take"
      BY <2>5 DEF AskVerify, Ask, Attempt, TypeInv
    <3> QED
      BY <1>1, <3>1 DEF Other
  <2>6. ASSUME NEW s \in Session, AskUse(q, s) PROVE FALSE
    BY <1>1, <2>1, <2>6 DEF AskUse
  <2> QED
    BY <1>4, <2>2, <2>3, <2>4, <2>5, <2>6 DEF Asks
<1>5. CASE IsLocked(q)
  <2>1. req[q] \in Login \cup Verify
    BY <1>5, Kinds DEF IsLocked
  <2>2. Passed(req[q]) \in {"password", "gateAgain", "code", "retry"}
    BY <1>5, <2>1 DEF IsLocked, Passed, Login, LoginPc, Verify, VerifyPc
  <2> DEFINE next == Passed(req[q])
  <2>3. next \in {"password", "gateAgain", "code", "retry"}
    BY <2>2
  <2>4. \/ req' = [req EXCEPT ![q].pc = "sweep", ![q].then = next]
        \/ Goto(q, next) \/ Goto(q, "recheck") \/ Done(q)
    BY <1>5 DEF IsLocked
  <2> HIDE DEF next
  <2>5. CASE req' = [req EXCEPT ![q].pc = "sweep", ![q].then = next]
    <3>1. req'[q].pc = "sweep"
      BY <2>1, <2>5 DEF TypeInv, Login, Verify
    <3> QED
      BY <1>1, <3>1
  <2>6. CASE Goto(q, next)
    <3>1. ~(next \in {"clear", "open"})
      BY <2>3
    <3> QED
      BY <1>1, <1>3, <2>1, <2>6, <3>1
  <2> QED
    BY <1>1, <1>2, <1>3, <2>1, <2>4, <2>5, <2>6
<1>6. CASE Sweep(q)
  <2>1. req[q] \in Login \cup Verify
    BY <1>6, Kinds DEF Sweep
  <2>2. ~(req[q].then \in {"clear", "open"})
    BY <2>1 DEF Login, Verify
  <2> QED
    BY <1>1, <1>3, <1>6, <2>1, <2>2 DEF Sweep
<1>7. CASE Clear(q)
  <2>1. req[q] \in Login \cup Verify
    BY <1>7, Kinds DEF Clear
  <2>2. req'[q].code = req[q].code
    BY <1>7, <2>1 DEF Clear, Goto, TypeInv, Login, Verify
  <2> QED
    BY <1>1, <1>7, <2>2 DEF Clear, Redeemed
<1>8. CASE Count(q)
  <2>1. req[q] \in Login \cup Verify
    BY <1>8, Kinds DEF Count
  <2>2. req'[q].pc = "write"
    BY <1>8, <2>1 DEF Count, TypeInv, Login, Verify
  <2> QED
    BY <1>1, <2>2
<1>9. CASE Write(q)
  <2>1. req[q] \in Login \cup Verify
    BY <1>9, Kinds DEF Write
  <2>2. Goto(q, "recheck") \/ Done(q)
    BY <1>9 DEF Write, Goto, Done
  <2> QED
    BY <1>1, <1>2, <1>3, <2>1, <2>2
<1>10. CASE CheckPassword(q)
  <2>1. req[q] \in Login
    BY <1>10, Kinds DEF CheckPassword
  <2>2. CASE Wrong(q, "local")
    BY <1>1, <1>3, <2>1, <2>2 DEF Wrong
  <2>3. CASE req' = [req EXCEPT ![q].pc = "clear", ![q].admin = role = "admin", ![q].era = era]
    <3>1. req'[q].code = 0
      BY <2>1, <2>3 DEF TypeInv, Login
    <3> QED
      BY <1>1, <3>1
  <2> QED
    BY <1>10, <2>2, <2>3 DEF CheckPassword
<1>11. CASE Take(q)
  <2>1. req[q] \in Verify
    BY <1>11, Kinds DEF Take
  <2>2. Done(q) \/ req'[q].pc = "drop"
    BY <1>11, <2>1 DEF Take, TypeInv, Verify
  <2> QED
    BY <1>1, <1>2, <2>2
<1>12. CASE Drop(q)
  BY <1>1, <1>3, <1>12, Kinds DEF Drop
<1>13. CASE CheckCode(q)
  <2>1. req[q] \in Verify
    BY <1>13, Kinds DEF CheckCode
  <2>2. CASE ~Redeemable(req[q].code)
    BY <1>1, <1>3, <1>13, <2>1, <2>2 DEF CheckCode, Wrong
  <2>3. CASE Redeemable(req[q].code)
    <3>1. Goto(q, "clear") /\ lastStep' = req[q].code
      BY <1>13, <2>3 DEF CheckCode
    <3>2. req'[q].code = req[q].code
      BY <2>1, <3>1 DEF Goto, TypeInv, Verify
    <3> QED
      BY <1>13, <2>3, <3>1, <3>2
  <2> QED
    BY <2>2, <2>3
<1>14. CASE Retry(q) \/ OpenChallenge(q) \/ OpenSession(q) \/ EndSession(q) \/ Change(q) \/ Abandon(q)
  BY <1>1, <1>2, <1>14 DEF Retry, OpenChallenge, OpenSession, EndSession, Change, Abandon
<1>15. CASE ReadUser(q)
  <2>1. req[q] \in Arrived
    BY <1>15, Kinds DEF ReadUser
  <2>2. req'[q].pc = "bind"
    BY <1>15, <2>1 DEF ReadUser, TypeInv, Arrived
  <2> QED
    BY <1>1, <2>2
<1>16. CASE BindUser(q)
  <2>1. req'[q].pc = "idle" \/ req'[q].code = 0
    BY <1>16, BindEffect DEF Idle
  <2> QED
    BY <1>1, <2>1
<1>17. CASE ReadSession(q)
  <2>1. req[q] \in Use
    BY <1>17, Kinds DEF ReadSession
  <2>2. req'[q].pc \in {"idle", "end", "renew"}
    BY <1>17, <2>1 DEF ReadSession, Goto, Done, Idle, TypeInv, Use
  <2> QED
    BY <1>1, <2>2
<1> QED
  BY <1>4, <1>5, <1>6, <1>7, <1>8, <1>9, <1>10, <1>11, <1>12, <1>13, <1>14, <1>15, <1>16, <1>17 DEF Steps

LEMMA RedeemedEffect ==
  ASSUME TypeInv, UseInv, [Next]_vars, NEW o \in Request, Redeemed(o)'
  PROVE  \/ CheckCode(o) /\ Redeemable(req[o].code) /\ lastStep' = req[o].code /\ req'[o].code = req[o].code
         \/ Redeemed(o) /\ req'[o].code = req[o].code
<1>1. CASE req'[o] = req[o]
  BY <1>1 DEF Redeemed
<1>2. ASSUME NEW q \in Request, Renew(q), req'[o] # req[o] PROVE FALSE
  <2>1. ASSUME req[o].pc = "renew", req'[o] = Overtaken(o) PROVE FALSE
    <3>1. req[o] \in Use
      BY <2>1, Kinds
    <3>2. req'[o].pc = "renew"
      BY <2>1, <3>1 DEF Use, Overtaken
    <3> QED
      BY <3>2 DEF Redeemed
  <2>2. req'[o] # Idle
    BY DEF Redeemed, Idle
  <2> QED
    BY <1>2, <2>1, <2>2, RenewEffect
<1>3. ASSUME NEW q \in Request, Asks(q) \/ Steps(q), ~Renew(q), req'[o] # req[o]
      PROVE  \/ CheckCode(o) /\ Redeemable(req[o].code) /\ lastStep' = req[o].code /\ req'[o].code = req[o].code
             \/ Redeemed(o) /\ req'[o].code = req[o].code
  <2>1. o = q
    BY <1>3, OthersStay
  <2> QED
    BY <1>3, <2>1, ToRedeem
<1>4. (\E q \in Request : Asks(q) \/ Steps(q)) \/ req' = req
  BY DEF Next, vars, Tick, Logout, ResetPassword
<1> QED
  BY <1>1, <1>2, <1>3, <1>4

\* Only a redeemed code moves the last step used.
LEMMA LastStepEffect ==
  ASSUME TypeInv, UseInv, [Next]_vars, ~\E q \in Request : CheckCode(q) /\ Redeemable(req[q].code)
  PROVE  lastStep' = lastStep
<1>1. ASSUME NEW q \in Request, Asks(q) PROVE lastStep' = lastStep
  BY <1>1, AskEffect
<1>2. ASSUME NEW q \in Request, CheckCode(q) PROVE lastStep' = lastStep
  BY <1>2 DEF CheckCode
<1>3. ASSUME NEW q \in Request, Steps(q), ~CheckCode(q) PROVE lastStep' = lastStep
  <2>1. ASSUME Change(q) \/ BindUser(q) PROVE lastStep' = lastStep
    BY <2>1 DEF Change, BindUser
  <2> QED
    BY <1>3, <2>1 DEF Steps, IsLocked, Sweep, Clear, Count, Write, CheckPassword, Take, Drop, Retry,
         OpenChallenge, OpenSession, ReadSession, Renew, EndSession, ReadUser, Abandon
<1> QED
  BY <1>1, <1>2, <1>3 DEF Next, vars, Tick, Logout, ResetPassword

\* A session that a step does not open keeps its code.
LEMMA CodeEffect ==
  ASSUME TypeInv, UseInv, [Next]_vars, NEW t \in Session,
         sessions[t] = Unused => ~\E q \in Request : OpenSession(q)
  PROVE  /\ sessions'[t] = Unused <=> sessions[t] = Unused
         /\ sessions[t] # Unused => sessions'[t].code = sessions[t].code
<1>1. CASE sessions[t] # Unused
  BY <1>1, Keeps
<1>2. CASE sessions[t] = Unused
  BY <1>2, Fates, OpenIsUsed DEF Fate
<1> QED
  BY <1>1, <1>2

LEMMA CodeKept ==
  ASSUME TypeInv, UseInv, CodeInv, [Next]_vars
  PROVE  CodeInv'
<1>1. ASSUME NEW q \in Request, CheckCode(q), Redeemable(req[q].code) PROVE CodeInv'
  <2>1. req[q] \in Verify
    BY <1>1, Kinds DEF CheckCode
  <2>2. sessions' = sessions /\ lastStep' = req[q].code /\ Goto(q, "clear")
    BY <1>1 DEF CheckCode
  <2>3. req'[q].code = req[q].code
    BY <2>1, <2>2 DEF Goto, TypeInv, Verify
  <2>4. \A o \in Request \ {q} : req'[o] = req[o]
    BY <2>2 DEF Goto, TypeInv
  <2>5. lastStep \in Nat /\ req[q].code \in Nat /\ req[q].code > lastStep
    BY <1>1, <2>1 DEF TypeInv, Redeemable, Verify
  <2>6. \A o \in Request \ {q} : Redeemed(o)' => Redeemed(o) /\ req'[o].code = req[o].code
    BY <2>4 DEF Redeemed
  <2>7. \A o \in Request : Redeemed(o) => req[o].code \in Nat /\ req[o].code <= lastStep
    BY Kinds DEF CodeInv, Redeemed, Login, Verify, Known
  <2>8. \A s \in Session : sessions[s] # Unused => sessions[s].code \in Nat /\ sessions[s].code <= lastStep
    BY OpenIsUsed DEF CodeInv, Used
  <2>9. \A o \in Request : Redeemed(o)' => req'[o].code <= lastStep'
    BY <2>2, <2>3, <2>5, <2>6, <2>7
  <2>10. \A o, r \in Request : o # r /\ Redeemed(o)' /\ Redeemed(r)' => req'[o].code # req'[r].code
    <3>1. ASSUME NEW o \in Request \ {q}, Redeemed(o)' PROVE req'[o].code # req'[q].code
      BY <2>3, <2>5, <2>6, <2>7, <3>1
    <3>2. ASSUME NEW o \in Request \ {q}, NEW r \in Request \ {q}, o # r, Redeemed(o)', Redeemed(r)'
          PROVE  req'[o].code # req'[r].code
      BY <2>6, <3>2 DEF CodeInv
    <3> QED
      BY <3>1, <3>2
  <2>11. \A s \in Session : sessions'[s] # Unused => sessions'[s].code <= lastStep'
    BY <2>2, <2>5, <2>8
  <2>12. \A o \in Request, s \in Session :
           Redeemed(o)' /\ sessions'[s] # Unused => sessions'[s].code # req'[o].code
    <3>1. ASSUME NEW s \in Session, sessions[s] # Unused PROVE sessions[s].code # req[q].code
      BY <2>5, <2>8, <3>1
    <3>2. ASSUME NEW o \in Request \ {q}, NEW s \in Session, Redeemed(o)', sessions[s] # Unused
          PROVE  sessions[s].code # req'[o].code
      BY <2>6, <3>2 DEF CodeInv
    <3> QED
      BY <2>2, <2>3, <3>1, <3>2
  <2>13. \A s, t \in Session :
           s # t /\ sessions'[s] # Unused /\ sessions'[t] # Unused /\ sessions'[s].code # 0
             => sessions'[s].code # sessions'[t].code
    BY <2>2 DEF CodeInv
  <2> HIDE DEF Redeemed
  <2> QED
    BY <2>9, <2>10, <2>11, <2>12, <2>13 DEF CodeInv
<1>2. CASE ~\E q \in Request : CheckCode(q) /\ Redeemable(req[q].code)
  <2>1. lastStep' = lastStep
    BY <1>2, LastStepEffect
  <2>2. \A o \in Request : Redeemed(o)' => Redeemed(o) /\ req'[o].code = req[o].code
    BY <1>2, RedeemedEffect
  <2>3. /\ \A o \in Request : Redeemed(o)' => req'[o].code <= lastStep'
        /\ \A o, r \in Request : o # r /\ Redeemed(o)' /\ Redeemed(r)' => req'[o].code # req'[r].code
    BY <2>1, <2>2 DEF CodeInv
  <2>4. ASSUME NEW q \in Request, OpenSession(q) PROVE CodeInv'
    <3>1. PICK s \in Session :
            /\ sessions[s] = Unused
            /\ sessions'[s].code = req[q].code
            /\ \A u \in Session \ {s} : sessions'[u] = sessions[u] \/ Open(u)
      BY <2>4, OpenSessionEffect
    <3>2. ~Redeemed(q)'
      BY <2>4 DEF OpenSession, Done, Redeemed, Idle, TypeInv
    <3>3. req[q].code # 0 => Redeemed(q)
      BY <2>4 DEF OpenSession, Redeemed
    <3>4. ASSUME NEW u \in Session \ {s}
          PROVE  /\ sessions'[u] # Unused => sessions[u] # Unused
                 /\ sessions[u] # Unused => sessions'[u].code = sessions[u].code
      BY <3>1, Keeps, OpenIsUsed
    <3>5. lastStep \in Nat
      BY DEF TypeInv
    <3>6. \A u \in Session : sessions'[u] # Unused => sessions'[u].code <= lastStep'
      <4>1. sessions'[s].code <= lastStep
        BY <3>1, <3>3, <3>5 DEF CodeInv
      <4> QED
        BY <2>1, <3>4, <4>1 DEF CodeInv
    <3>7. \A o \in Request, u \in Session :
            Redeemed(o)' /\ sessions'[u] # Unused => sessions'[u].code # req'[o].code
      <4>1. ASSUME NEW o \in Request, Redeemed(o)' PROVE sessions'[s].code # req'[o].code
        <5>1. o # q /\ Redeemed(o) /\ req'[o].code = req[o].code
          BY <2>2, <3>2, <4>1
        <5>2. req[o].code # 0
          BY <5>1 DEF Redeemed
        <5> QED
          BY <3>1, <3>3, <5>1, <5>2 DEF CodeInv
      <4>2. ASSUME NEW o \in Request, Redeemed(o)', NEW u \in Session \ {s}, sessions'[u] # Unused
            PROVE  sessions'[u].code # req'[o].code
        BY <2>2, <3>4, <4>2 DEF CodeInv
      <4> QED
        BY <4>1, <4>2
    <3>8. ASSUME NEW u \in Session \ {s}, sessions'[u] # Unused
          PROVE  /\ sessions'[u].code # 0 => sessions'[u].code # sessions'[s].code
                 /\ sessions'[s].code # 0 => sessions'[u].code # sessions'[s].code
      <4>1. sessions[u] # Unused /\ sessions'[u].code = sessions[u].code
        BY <3>4, <3>8
      <4>2. CASE req[q].code = 0
        BY <3>1, <4>2
      <4>3. CASE req[q].code # 0
        <5>1. sessions[u].code # req[q].code
          BY <3>3, <4>1, <4>3 DEF CodeInv
        <5> QED
          BY <3>1, <4>1, <5>1
      <4> QED
        BY <4>2, <4>3
    <3>9. ASSUME NEW u \in Session \ {s}, NEW t \in Session \ {s}, u # t,
                 sessions'[u] # Unused, sessions'[t] # Unused, sessions'[u].code # 0
          PROVE  sessions'[u].code # sessions'[t].code
      BY <3>4, <3>9 DEF CodeInv
    <3>10. \A u, t \in Session :
             u # t /\ sessions'[u] # Unused /\ sessions'[t] # Unused /\ sessions'[u].code # 0
               => sessions'[u].code # sessions'[t].code
      BY <3>8, <3>9
    <3> QED
      BY <2>3, <3>6, <3>7, <3>10 DEF CodeInv
  <2>5. CASE ~\E q \in Request : OpenSession(q)
    <3>1. ASSUME NEW t \in Session, sessions'[t] # Unused
          PROVE  sessions[t] # Unused /\ sessions'[t].code = sessions[t].code
      BY <2>5, <3>1, CodeEffect
    <3>2. \A s \in Session : sessions'[s] # Unused => sessions'[s].code <= lastStep'
      BY <2>1, <3>1 DEF CodeInv
    <3>3. \A o \in Request, s \in Session :
            Redeemed(o)' /\ sessions'[s] # Unused => sessions'[s].code # req'[o].code
      BY <2>2, <3>1 DEF CodeInv
    <3>4. \A s, t \in Session :
            s # t /\ sessions'[s] # Unused /\ sessions'[t] # Unused /\ sessions'[s].code # 0
              => sessions'[s].code # sessions'[t].code
      BY <3>1 DEF CodeInv
    <3> QED
      BY <2>3, <3>2, <3>3, <3>4 DEF CodeInv
  <2> QED
    BY <2>4, <2>5
<1> QED
  BY <1>1, <1>2

\* Sessions are of this era or late, and no two were opened with one code.
THEOREM SessionsStaySound == Spec => []SessionsSound
<1>1. Init => EraInv /\ CodeInv
  BY DEF Init, EraInv, CodeInv, Redeemed, Idle, Unused, Open
<1>2. TypeInv /\ UseInv /\ EraInv /\ CodeInv /\ [Next]_vars => EraInv' /\ CodeInv'
  BY EraKept, CodeKept
<1>3. EraInv /\ CodeInv => SessionsSound
  BY DEF EraInv, CodeInv, SessionsSound
<1> QED
  BY <1>1, <1>2, <1>3, TypesAlways, PTL DEF Spec

-----------------------------------------------------------------------------
(* Administrators *)

Signer(r) == r \in Login \cup Verify \cup Arrived \cup Known

\* Who signs in, or has a challenge or a session, as an administrator of this era is one.
AdminInv ==
  /\ \A q \in Request : Signer(req[q]) =>
       req[q].era <= era /\ (req[q].admin /\ req[q].era = era => role = "admin")
  /\ \A c \in Challenge : challenges[c].status = "pending" =>
       challenges[c].era <= era /\ (challenges[c].admin /\ challenges[c].era = era => role = "admin")
  /\ AdminSessionsHold

\* Where a request that signs in has its era and its role from.
From(o) ==
  \/ Signer(req[o]) /\ req'[o].admin = req[o].admin /\ req'[o].era = req[o].era
  \/ ~req'[o].admin /\ req'[o].era \in {0, era}
  \/ (req'[o].admin => role = "admin") /\ req'[o].era = era
  \/ \E c \in Challenge : /\ challenges[c].status = "pending"
                          /\ req'[o].admin = challenges[c].admin
                          /\ req'[o].era = challenges[c].era
  \/ Signer(req[o]) /\ req'[o].era = req[o].era /\ (req'[o].admin => role' = "admin")

LEMMA NoSigner ==
  ASSUME NEW r, r.pc \in {"idle", "change", "session", "renew", "end"}
  PROVE  ~Signer(r)
BY DEF Signer, Login, LoginPc, Verify, VerifyPc, Arrived, Known

LEMMA SignerEra ==
  ASSUME NEW r, Signer(r)
  PROVE  r.era \in Nat
<1>1. \A x \in Login : x.era \in Nat
  BY DEF Login
<1>2. \A x \in Verify : x.era \in Nat
  BY DEF Verify
<1>3. \A x \in Arrived : x.era \in Nat
  BY DEF Arrived
<1>4. \A x \in Known : x.era \in Nat
  BY DEF Known
<1> QED
  BY <1>1, <1>2, <1>3, <1>4 DEF Signer

LEMMA SignerKeeps ==
  ASSUME TypeInv, NEW q \in Request, req[q] \in Login \cup Verify, NEW pc,
         \/ Goto(q, pc)
         \/ \E x : req' = [req EXCEPT ![q].pc = pc, ![q].then = x]
         \/ \E x : req' = [req EXCEPT ![q].pc = pc, ![q].row = x]
  PROVE  From(q)
<1>1. req'[q].admin = req[q].admin /\ req'[q].era = req[q].era
  BY DEF Goto, TypeInv, Login, Verify
<1> QED
  BY <1>1 DEF From, Signer

LEMMA StepFrom ==
  ASSUME TypeInv, UseInv, NEW q \in Request, Asks(q) \/ Steps(q), ~Renew(q), Signer(req'[q])
  PROVE  From(q)
<1>1. ~Done(q)
  BY NoSigner DEF Done, Idle, TypeInv
<1>2. CASE Asks(q)
  <2>1. ASSUME NEW r, Ask(q, r) PROVE req'[q] = r
    BY <2>1 DEF Ask, TypeInv
  <2>2. CASE AskLogin(q)
    <3>1. req'[q] = Attempt("local")
      BY <2>1, <2>2 DEF AskLogin
    <3> QED
      BY <3>1 DEF Attempt, From
  <2>3. CASE AskCallback(q)
    <3>1. ~req'[q].admin /\ req'[q].era = 0
      BY <2>1, <2>3 DEF AskCallback
    <3> QED
      BY <3>1 DEF From
  <2>4. ASSUME NEW c \in Challenge, AskVerify(q, c) PROVE From(q)
    <3>1. PICK code \in {0, clock, clock + 1} :
            Ask(q, [Attempt("totp") EXCEPT !.pc = "take", !.challenge = c, !.code = code])
      BY <2>4 DEF AskVerify
    <3>2. ~req'[q].admin /\ req'[q].era = 0
      BY <3>1, <2>1 DEF Attempt
    <3> QED
      BY <3>2 DEF From
  <2>5. CASE AskChange(q)
    <3>1. req'[q].pc = "change"
      BY <2>1, <2>5 DEF AskChange
    <3> QED
      BY <3>1, NoSigner
  <2>6. ASSUME NEW s \in Session, AskUse(q, s) PROVE FALSE
    <3>1. req'[q].pc = "session"
      BY <2>1, <2>6 DEF AskUse
    <3> QED
      BY <3>1, NoSigner
  <2> QED
    BY <1>2, <2>2, <2>3, <2>4, <2>5, <2>6 DEF Asks
<1>3. CASE IsLocked(q)
  <2>1. req[q] \in Login \cup Verify
    BY <1>3, Kinds DEF IsLocked
  <2>2. \/ req' = [req EXCEPT ![q].pc = "sweep", ![q].then = Passed(req[q])]
        \/ Goto(q, Passed(req[q])) \/ Goto(q, "recheck")
    BY <1>1, <1>3 DEF IsLocked
  <2> QED
    BY <2>1, <2>2, SignerKeeps
<1>4. CASE Sweep(q) \/ Clear(q) \/ Drop(q)
  <2>1. req[q] \in Login \cup Verify
    BY <1>4, Kinds DEF Sweep, Clear, Drop
  <2>2. \E pc : Goto(q, pc)
    BY <1>4 DEF Sweep, Clear, Drop
  <2> QED
    BY <2>1, <2>2, SignerKeeps
<1>5. CASE Count(q) \/ Write(q)
  <2>1. req[q] \in Login \cup Verify
    BY <1>5, Kinds DEF Count, Write
  <2>2. req' = [req EXCEPT ![q].pc = "write", ![q].row = lockout[req[q].bucket]] \/ Goto(q, "recheck")
    BY <1>1, <1>5 DEF Count, Write, Goto, Done
  <2> QED
    BY <2>1, <2>2, SignerKeeps
<1>6. CASE CheckPassword(q)
  <2>1. req[q] \in Login
    BY <1>6, Kinds DEF CheckPassword
  <2>2. CASE Goto(q, "count")
    BY <2>1, <2>2, SignerKeeps
  <2>3. CASE req' = [req EXCEPT ![q].pc = "clear", ![q].admin = role = "admin", ![q].era = era]
    <3>1. (req'[q].admin => role = "admin") /\ req'[q].era = era
      BY <2>1, <2>3 DEF TypeInv, Login
    <3> QED
      BY <3>1 DEF From
  <2> QED
    BY <1>6, <2>2, <2>3 DEF CheckPassword, Wrong
<1>7. CASE Take(q)
  <2> DEFINE c == challenges[req[q].challenge]
  <2>1. req[q] \in Verify
    BY <1>7, Kinds DEF Take
  <2>2. req[q].challenge \in Challenge
    BY <2>1 DEF Verify
  <2>3. c.status = "pending" /\ req' = [req EXCEPT ![q].pc = "drop", ![q].admin = c.admin, ![q].era = c.era]
    BY <1>1, <1>7 DEF Take
  <2>4. req'[q].admin = c.admin /\ req'[q].era = c.era
    BY <2>1, <2>3 DEF TypeInv, Verify
  <2> QED
    BY <2>2, <2>3, <2>4 DEF From
<1>8. CASE CheckCode(q)
  <2>1. req[q] \in Verify
    BY <1>8, Kinds DEF CheckCode
  <2>2. Goto(q, "clear") \/ Goto(q, "count")
    BY <1>8 DEF CheckCode, Wrong
  <2> QED
    BY <2>1, <2>2, SignerKeeps
<1>9. CASE Retry(q) \/ OpenChallenge(q) \/ OpenSession(q) \/ EndSession(q) \/ Change(q) \/ Abandon(q)
  BY <1>1, <1>9 DEF Retry, OpenChallenge, OpenSession, EndSession, Change, Abandon
<1>10. CASE ReadSession(q)
  <2>1. req[q] \in Use
    BY <1>10, Kinds DEF ReadSession
  <2>2. req'[q].pc \in {"idle", "end", "renew"}
    BY <1>10, <2>1 DEF ReadSession, Goto, Done, Idle, TypeInv, Use
  <2> QED
    BY <2>2, NoSigner
<1>11. CASE ReadUser(q)
  <2>1. req[q] \in Arrived
    BY <1>11, Kinds DEF ReadUser
  <2>2. ~req'[q].admin /\ req'[q].era = era
    BY <1>11, <2>1 DEF ReadUser, TypeInv, Arrived
  <2> QED
    BY <2>2 DEF From
<1>12. CASE BindUser(q)
  <2>1. req'[q] # Idle
    BY NoSigner DEF Idle
  <2>2. Signer(req[q]) /\ req'[q].era = req[q].era /\ (req'[q].admin => role' = "admin")
    BY <1>12, <2>1, BindEffect DEF Signer
  <2> QED
    BY <2>2 DEF From
<1> QED
  BY <1>2, <1>3, <1>4, <1>5, <1>6, <1>7, <1>8, <1>9, <1>10, <1>11, <1>12 DEF Steps

LEMMA SignerFrom ==
  ASSUME TypeInv, UseInv, [Next]_vars, NEW o \in Request, Signer(req'[o])
  PROVE  From(o)
<1>1. CASE req'[o] = req[o]
  BY <1>1 DEF From
<1>2. ASSUME NEW q \in Request, Renew(q), req'[o] # req[o] PROVE FALSE
  <2>1. ASSUME req[o].pc = "renew", req'[o] = Overtaken(o) PROVE FALSE
    <3>1. req[o] \in Use
      BY <2>1, Kinds
    <3>2. req'[o].pc = "renew"
      BY <2>1, <3>1 DEF Use, Overtaken
    <3> QED
      BY <3>2, NoSigner
  <2>2. req'[o] # Idle
    BY NoSigner DEF Idle
  <2> QED
    BY <1>2, <2>1, <2>2, RenewEffect
<1>3. ASSUME NEW q \in Request, Asks(q) \/ Steps(q), ~Renew(q), req'[o] # req[o] PROVE From(o)
  <2>1. o = q
    BY <1>3, OthersStay
  <2> QED
    BY <1>3, <2>1, StepFrom
<1>4. (\E q \in Request : Asks(q) \/ Steps(q)) \/ req' = req
  BY DEF Next, vars, Tick, Logout, ResetPassword
<1> QED
  BY <1>1, <1>2, <1>3, <1>4

\* A challenge is new, and of a request that signs in, or as it was, or gone.
LEMMA ChallengeFrom ==
  ASSUME TypeInv, UseInv, [Next]_vars, NEW c \in Challenge, challenges'[c].status = "pending"
  PROVE  \/ challenges'[c] = challenges[c]
         \/ \E q \in Request : /\ Signer(req[q])
                               /\ challenges'[c].admin = req[q].admin
                               /\ challenges'[c].era = req[q].era
<1> DEFINE Fine == \/ challenges'[c] = challenges[c]
                   \/ \E q \in Request : /\ Signer(req[q])
                                         /\ challenges'[c].admin = req[q].admin
                                         /\ challenges'[c].era = req[q].era
<1>1. ASSUME challenges' = challenges PROVE Fine
  BY <1>1
<1>2. ASSUME NEW q \in Request, NEW d \in Challenge, Mint(d, req[q]), Signer(req[q]) PROVE Fine
  <2>1. CASE c = d
    BY <1>2, <2>1 DEF Mint, TypeInv
  <2>2. CASE c # d
    BY <1>2, <2>2 DEF Mint, TypeInv
  <2> QED
    BY <2>1, <2>2
<1>3. ASSUME NEW q \in Request, Drop(q) PROVE Fine
  <2>1. CASE c = req[q].challenge
    BY <1>3, <2>1 DEF Drop, TypeInv
  <2>2. CASE c # req[q].challenge
    BY <1>3, <2>2 DEF Drop, TypeInv
  <2> QED
    BY <2>1, <2>2
<1> HIDE DEF Fine
<1>4. ASSUME NEW q \in Request, Retry(q) PROVE Fine
  <2>1. Signer(req[q])
    BY <1>4, Kinds DEF Retry, Signer
  <2> QED
    BY <1>2, <1>4, <2>1 DEF Retry
<1>5. ASSUME NEW q \in Request, OpenChallenge(q) PROVE Fine
  <2>1. Signer(req[q])
    BY <1>5, Kinds DEF OpenChallenge, Signer
  <2> QED
    BY <1>2, <1>5, <2>1 DEF OpenChallenge
<1>6. ASSUME NEW q \in Request, Asks(q) PROVE Fine
  BY <1>1, <1>6, AskEffect
<1>7. ASSUME NEW q \in Request, Steps(q), ~Drop(q), ~Retry(q), ~OpenChallenge(q) PROVE Fine
  <2>1. ASSUME Change(q) \/ BindUser(q) PROVE challenges' = challenges
    BY <2>1 DEF Change, BindUser
  <2>2. challenges' = challenges
    BY <1>7, <2>1 DEF Steps, IsLocked, Sweep, Clear, Count, Write, CheckPassword, Take, CheckCode,
         OpenSession, ReadSession, Renew, EndSession, ReadUser, Abandon
  <2> QED
    BY <1>1, <2>2
<1>8. ASSUME ~\E q \in Request : Asks(q) \/ Steps(q) PROVE Fine
  BY <1>1, <1>8 DEF Next, vars, Tick, Logout, ResetPassword
<1> QED
  BY <1>3, <1>4, <1>5, <1>6, <1>7, <1>8 DEF Fine

\* A session that a step leaves open was open and in time, as an administrator's or
\* not, or is of a request that signs in.
LEMMA SessionFrom ==
  ASSUME TypeInv, UseInv, [Next]_vars, NEW s \in Session, Open(s)', ~sessions'[s].late
  PROVE  \/ Open(s) /\ ~sessions[s].late /\ sessions'[s].admin = sessions[s].admin
         \/ \E q \in Request : Signer(req[q]) /\ req[q].era = era /\ sessions'[s].admin = req[q].admin
<1>1. CASE sessions'[s] = sessions[s]
  BY <1>1 DEF Open
<1>2. CASE sessions[s] # Unused /\ sessions'[s] = Ended(s)
  BY <1>2, EndedType DEF Open
<1>3. CASE Open(s) /\ sessions'[s] = Marked(s)
  <2>1. sessions[s] \in Used
    BY <1>3, OpenIsUsed
  <2> QED
    BY <1>3, <2>1 DEF Marked, Used
<1>4. ASSUME NEW q \in Request, Renew(q), Open(s), req[q].session = s
      PROVE  ~sessions[s].late /\ sessions'[s].admin = sessions[s].admin
  <2>1. CASE sessions' = sessions
    BY <2>1
  <2>2. CASE sessions' # sessions
    <3>1. PICK next \in Nat : sessions'[s] = Extended(s, next, req[q].at)
      BY <1>4, <2>2, RenewEffect
    <3>2. sessions[s] \in Used
      BY <1>4, OpenIsUsed
    <3>3. sessions'[s].admin = sessions[s].admin /\ sessions'[s].late = sessions[s].late
      BY <3>1, <3>2 DEF Extended, Used
    <3> QED
      BY <3>3
  <2> QED
    BY <2>1, <2>2
<1>5. ASSUME NEW q \in Request, OpenSession(q), sessions[s] = Unused
      PROVE  Signer(req[q]) /\ req[q].era = era /\ sessions'[s].admin = req[q].admin
  <2>1. Signer(req[q])
    BY <1>5, Kinds DEF OpenSession, Signer
  <2>2. PICK t \in Session :
          /\ sessions'[t].admin = req[q].admin
          /\ req[q].era # era => sessions'[t].late
          /\ \A u \in Session \ {t} : sessions'[u] = sessions[u] \/ Open(u)
    BY <1>5, OpenSessionEffect
  <2>3. CASE s = t
    BY <2>1, <2>2, <2>3
  <2>4. CASE s # t
    BY <1>5, <2>2, <2>4 DEF Open, Unused
  <2> QED
    BY <2>3, <2>4
<1> QED
  BY <1>1, <1>2, <1>3, <1>4, <1>5, Fates DEF Fate

LEMMA AdminKept ==
  ASSUME TypeInv, UseInv, AdminInv, [Next]_vars
  PROVE  AdminInv'
<1>1. era \in Nat /\ era' \in Nat
  BY TypesKept DEF TypeInv
<1>2. ASSUME NEW o \in Request, Signer(req'[o])
      PROVE  /\ req'[o].era \in Nat /\ req'[o].era <= era
             /\ era' = era => (req'[o].admin /\ req'[o].era = era => role' = "admin")
  <2>1. role = "admin" /\ era' = era => role' = "admin"
    BY <1>1, EraEffect
  <2>2. req'[o].era \in Nat
    BY <1>2, SignerEra
  <2> QED
    BY <1>1, <1>2, <2>1, <2>2, SignerFrom DEF From, AdminInv
<1>3. ASSUME NEW c \in Challenge, challenges'[c].status = "pending"
      PROVE  /\ challenges'[c].era \in Nat /\ challenges'[c].era <= era
             /\ era' = era => (challenges'[c].admin /\ challenges'[c].era = era => role' = "admin")
  <2>1. role = "admin" /\ era' = era => role' = "admin"
    BY <1>1, EraEffect
  <2>2. challenges'[c].era \in Nat
    BY <1>3, TypesKept DEF TypeInv, Pending, Unused
  <2> QED
    BY <1>1, <1>3, <2>1, <2>2, ChallengeFrom DEF AdminInv
<1>4. ASSUME NEW s \in Session, Open(s)', sessions'[s].admin, ~sessions'[s].late PROVE role' = "admin"
  <2>1. role = "admin" => role' = "admin"
    BY <1>4, EraEffect
  <2> QED
    BY <1>4, <2>1, SessionFrom DEF AdminInv, AdminSessionsHold
<1>5. CASE era' = era
  BY <1>2, <1>3, <1>4, <1>5 DEF AdminInv, AdminSessionsHold
<1>6. CASE era' = era + 1
  <2>1. ASSUME NEW n, n <= era, n \in Nat PROVE n <= era' /\ n # era'
    BY <1>1, <1>6, <2>1
  <2> QED
    BY <1>2, <1>3, <1>4, <1>6, <2>1 DEF AdminInv, AdminSessionsHold
<1> QED
  BY <1>5, <1>6, EraEffect

\* Who signed in as an administrator is one as long as the session is open, unless
\* the sign-in or a change overlapped with a change.
THEOREM AdminSessionsAlwaysHold == Spec => []AdminSessionsHold
<1>1. Init => AdminInv
  <2> SUFFICES ASSUME Init PROVE AdminInv
    OBVIOUS
  <2>1. \A q \in Request : ~Signer(req[q])
    <3>1. Idle.pc = "idle"
      BY DEF Idle
    <3>2. ~Signer(Idle)
      BY <3>1, NoSigner
    <3>3. req = [q \in Request |-> Idle]
      BY DEF Init
    <3> QED
      BY <3>2, <3>3, Zenon
  <2>2. \A c \in Challenge : challenges[c].status # "pending"
    BY DEF Init, Unused
  <2>3. AdminSessionsHold
    BY DEF Init, Unused, AdminSessionsHold, Open
  <2> QED
    BY <2>1, <2>2, <2>3 DEF AdminInv
<1>2. TypeInv /\ UseInv /\ AdminInv /\ [Next]_vars => AdminInv'
  BY AdminKept
<1>3. AdminInv => AdminSessionsHold
  BY DEF AdminInv
<1> QED
  BY <1>1, <1>2, <1>3, TypesAlways, PTL DEF Spec

-----------------------------------------------------------------------------
(* Failures *)

\* A row is locked once its failures reach the threshold.
RowInv ==
  \A b \in Bucket : lockout[b] # None => (lockout[b].until = 0 <=> lockout[b].failures < Threshold[b])

\* Who has a failure to write, and who is past the gate.
Counting(q, b) == req[q].pc \in {"count", "write"} /\ req[q].bucket = b

Past(q, b) == req[q].pc \in {"password", "code", "count", "write"} /\ req[q].bucket = b

\* While attempts do not run together, at most one failure waits to be written,
\* by a request that knows the row; and nobody is past the gate of a full bucket.
CountInv(b) ==
  ~loose[b] =>
    /\ \A q, r \in Request : Counting(q, b) /\ Counting(r, b) => q = r
    /\ (\A q \in Request : ~Counting(q, b)) => tried[b] = Failures(lockout[b])
    /\ \A q \in Request : Counting(q, b) => tried[b] = Failures(lockout[b]) + 1
    /\ \A q \in Request : Counting(q, b) /\ req[q].pc = "write" => req[q].row = lockout[b]
    /\ \A q \in Request : Past(q, b) => Failures(lockout[b]) < Threshold[b]
    /\ Failures(lockout[b]) <= Threshold[b]

LEMMA FailuresType ==
  ASSUME TypeInv, NEW b \in Bucket
  PROVE  Failures(lockout[b]) \in Nat /\ Threshold[b] \in Nat \ {0} /\ tried[b] \in Nat
BY Parameters DEF TypeInv, Failures, Row

LEMMA PastAttempts ==
  ASSUME TypeInv, NEW b \in Bucket, NEW q \in Request
  PROVE  /\ Past(q, b) => q \in Attempting(b)
         /\ Counting(q, b) => Past(q, b)
         /\ req[q].pc \in {"gate", "sweep", "clear"} /\ req[q].bucket = b => q \in Attempting(b)
BY Kinds DEF Past, Counting, Attempting, Login, Verify, Idle

\* The bucket stays as it is, and no failure starts or stops waiting.
LEMMA FrameCount ==
  ASSUME TypeInv, NEW b \in Bucket, CountInv(b),
         lockout'[b] = lockout[b], tried'[b] = tried[b], loose'[b] = loose[b],
         \A o \in Request :
           /\ Counting(o, b)' <=> Counting(o, b)
           /\ Past(o, b)' => Past(o, b) \/ Failures(lockout[b]) < Threshold[b]
           /\ Counting(o, b)' /\ req'[o].pc = "write" =>
                req'[o].row = lockout[b] \/ (req[o].pc = "write" /\ req'[o].row = req[o].row)
  PROVE  CountInv(b)'
<1> SUFFICES ASSUME ~loose[b]
             PROVE  CountInv(b)'
  BY DEF CountInv
<1>1. Failures(lockout[b])' = Failures(lockout[b])
  BY DEF Failures
<1>2. \A q, r \in Request : Counting(q, b)' /\ Counting(r, b)' => q = r
  BY DEF CountInv
<1>3. (\A q \in Request : ~Counting(q, b)') => tried'[b] = Failures(lockout[b])
  BY DEF CountInv
<1>4. \A q \in Request : Counting(q, b)' => tried'[b] = Failures(lockout[b]) + 1
  BY DEF CountInv
<1>5. \A q \in Request : Counting(q, b)' /\ req'[q].pc = "write" => req'[q].row = lockout'[b]
  BY DEF CountInv
<1>6. \A q \in Request : Past(q, b)' => Failures(lockout[b]) < Threshold[b]
  BY DEF CountInv
<1>7. Failures(lockout[b]) <= Threshold[b]
  BY DEF CountInv
<1> HIDE DEF Counting, Past
<1> QED
  BY <1>1, <1>2, <1>3, <1>4, <1>5, <1>6, <1>7 DEF CountInv

\* A bucket is emptied by the only one who attempts, or attempts run together.
LEMMA EmptiedCount ==
  ASSUME TypeInv, NEW q \in Request, NEW b \in Bucket, Emptied(q, b),
         \A o \in Request \ {q} : req'[o] = req[o],
         ~Counting(q, b)'
  PROVE  CountInv(b)'
<1> SUFFICES ASSUME ~loose'[b]
             PROVE  CountInv(b)'
  BY DEF CountInv
<1>1. lockout'[b] = None /\ tried'[b] = 0 /\ Attempting(b) = {q}
  BY DEF Emptied, TypeInv
<1>2. Failures(lockout[b])' = 0
  BY <1>1 DEF Failures
<1>3. \A o \in Request \ {q} : ~Past(o, b)
  BY <1>1, PastAttempts
<1>4. \A o \in Request \ {q} : ~Past(o, b)' /\ ~Counting(o, b)'
  BY <1>3 DEF Past, Counting
<1>5. Threshold[b] \in Nat \ {0}
  BY Parameters
<1> QED
  BY <1>1, <1>2, <1>4, <1>5 DEF CountInv

\* A wrong attempt by the only one who attempts waits to be written.
LEMMA WrongCount ==
  ASSUME TypeInv, NEW q \in Request, NEW b \in Bucket, CountInv(b), Wrong(q, b), lockout' = lockout,
         req[q].pc \in {"password", "code"}, req[q].bucket = b
  PROVE  CountInv(b)'
<1> SUFFICES ASSUME ~loose'[b]
             PROVE  CountInv(b)'
  BY DEF CountInv
<1>1. ~loose[b] /\ Attempting(b) = {q}
  BY DEF Wrong, Overlapping, TypeInv
<1>2. /\ tried'[b] = tried[b] + 1
      /\ \A o \in Request \ {q} : req'[o] = req[o]
      /\ req'[q].pc = "count"
  <2>1. req[q] \in Login \cup Verify
    BY Kinds
  <2> QED
    BY <2>1 DEF Wrong, Goto, TypeInv, Login, Verify
<1>3. \A o \in Request : ~Counting(o, b)
  BY <1>1, PastAttempts DEF Counting
<1>4. \A o \in Request \ {q} : ~Past(o, b)' /\ ~Counting(o, b)'
  <2>1. \A o \in Request \ {q} : ~Past(o, b)
    BY <1>1, PastAttempts
  <2> QED
    BY <1>2, <1>3, <2>1 DEF Past, Counting
<1>5. /\ tried[b] = Failures(lockout[b])
      /\ Failures(lockout[b]) < Threshold[b]
      /\ Failures(lockout[b]) <= Threshold[b]
  BY <1>1, <1>3 DEF CountInv, Past
<1>6. Counting(q, b)'
  <2>1. req[q] \in Login \cup Verify
    BY Kinds
  <2> QED
    BY <2>1 DEF Wrong, Goto, TypeInv, Login, Verify, Counting
<1>7. Failures(lockout[b])' = Failures(lockout[b])
  BY DEF Failures
<1>8. req'[q].pc # "write"
  BY <1>2
<1> DEFINE n == Failures(lockout[b])
<1>9. n \in Nat /\ Threshold[b] \in Nat /\ tried[b] \in Nat
  BY FailuresType
<1>10. /\ \A o, r \in Request : Counting(o, b)' /\ Counting(r, b)' => o = r
       /\ \A o \in Request : Counting(o, b)' => tried'[b] = n + 1
       /\ \A o \in Request : Past(o, b)' => n < Threshold[b]
       /\ n <= Threshold[b]
       /\ ~(\A o \in Request : ~Counting(o, b)')
       /\ \A o \in Request : ~(Counting(o, b)' /\ req'[o].pc = "write")
  BY <1>2, <1>4, <1>5, <1>6, <1>8, <1>9
<1> HIDE DEF n, Counting, Past
<1> QED
  BY <1>7, <1>10 DEF CountInv, n

\* One who attempts alone writes its failure on the row that it counted from.
LEMMA WriteCount ==
  ASSUME TypeInv, NEW q \in Request, NEW b \in Bucket, CountInv(b), Write(q), req[q].bucket = b
  PROVE  CountInv(b)'
<1> SUFFICES ASSUME ~loose'[b]
             PROVE  CountInv(b)'
  BY DEF CountInv
<1>1. ~loose[b] /\ Attempting(b) = {q} /\ tried'[b] = tried[b]
  BY DEF Write, Overlapping, TypeInv
<1>2. req[q] \in Login \cup Verify /\ req[q].row \in Row \cup {None} /\ req[q].pc = "write"
  BY Kinds DEF Write, Login, Verify
<1>3. Counting(q, b) /\ Past(q, b)
  BY <1>2 DEF Counting, Past
<1> DEFINE n == Failures(lockout[b])
<1>4. /\ req[q].row = lockout[b]
      /\ tried[b] = n + 1
      /\ n < Threshold[b]
  BY <1>1, <1>2, <1>3 DEF CountInv
<1>5. lockout'[b] = Raised(req[q].row, b)
  BY <1>4 DEF Write, TypeInv
<1>6. lockout'[b] \in Row /\ lockout'[b].failures = n + 1
  BY <1>2, <1>4, <1>5, RaisedType
<1>7. lockout'[b] # None
  BY <1>6, NoRow DEF Row
<1>8. \A o \in Request : ~Past(o, b)' /\ ~Counting(o, b)'
  <2>1. Goto(q, "recheck") \/ Done(q)
    BY DEF Write, Goto, Done
  <2>2. \A o \in Request \ {q} : req'[o] = req[o]
    BY <2>1 DEF Goto, Done, TypeInv
  <2>3. req'[q].pc \in {"recheck", "idle"}
    BY <1>2, <2>1 DEF Goto, Done, Idle, TypeInv, Login, Verify
  <2>4. \A o \in Request \ {q} : ~Past(o, b) /\ ~Counting(o, b)
    BY <1>1, PastAttempts
  <2> QED
    BY <2>2, <2>3, <2>4 DEF Past, Counting
<1>9. n \in Nat /\ Threshold[b] \in Nat
  BY FailuresType
<1>10. Failures(lockout[b])' = n + 1
  BY <1>6, <1>7 DEF Failures
<1>11. tried'[b] = n + 1 /\ n + 1 <= Threshold[b]
  BY <1>1, <1>4, <1>9
<1> HIDE DEF n
<1> QED
  BY <1>8, <1>10, <1>11 DEF CountInv

\* Rows keep to the threshold, whoever writes them.
LEMMA RowKept ==
  ASSUME TypeInv, UseInv, RowInv, [Next]_vars
  PROVE  RowInv'
<1>1. ASSUME lockout' = lockout PROVE RowInv'
  BY <1>1 DEF RowInv
<1>2. ASSUME NEW q \in Request, NEW b \in Bucket, Emptied(q, b) PROVE RowInv'
  BY <1>2 DEF Emptied, RowInv, TypeInv
<1>3. ASSUME NEW q \in Request, Sweep(q) \/ Clear(q) PROVE RowInv'
  <2>1. req[q].bucket \in Bucket
    BY <1>3, Kinds DEF Sweep, Clear, Login, Verify, Bucket
  <2> QED
    BY <1>2, <1>3, <2>1 DEF Sweep, Clear
<1>4. ASSUME NEW q \in Request, Write(q) PROVE RowInv'
  <2>1. req[q].bucket \in Bucket /\ req[q].row \in Row \cup {None}
    BY <1>4, Kinds DEF Write, Login, Verify, Bucket
  <2> DEFINE b == req[q].bucket
             row == Raised(req[q].row, b)
  <2>2. row.until = 0 <=> row.failures < Threshold[b]
    BY <2>1, RaisedType
  <2>3. lockout' = lockout \/ lockout' = [lockout EXCEPT ![b] = row]
    BY <1>4 DEF Write
  <2>4. b \in Bucket
    BY <2>1
  <2> HIDE DEF b, row
  <2> QED
    BY <1>1, <2>2, <2>3, <2>4 DEF RowInv, TypeInv
<1>5. ASSUME NEW q \in Request, Asks(q) PROVE lockout' = lockout
  BY <1>5, AskEffect
<1>6. ASSUME NEW q \in Request, Steps(q), ~Sweep(q), ~Clear(q), ~Write(q) PROVE lockout' = lockout
  BY <1>6 DEF Steps, IsLocked, Count, CheckPassword, Take, Drop, CheckCode, Retry,
       OpenChallenge, OpenSession, ReadSession, Renew, EndSession, ReadUser, BindUser, Change, Abandon
<1>7. ASSUME ~\E q \in Request : Asks(q) \/ Steps(q) PROVE lockout' = lockout
  BY <1>7 DEF Next, vars, Tick, Logout, ResetPassword
<1> QED
  BY <1>1, <1>3, <1>4, <1>5, <1>6, <1>7

\* A step that leaves a bucket and those past its gate alone.
LEMMA QuietCount ==
  ASSUME TypeInv, NEW b \in Bucket, CountInv(b),
         lockout'[b] = lockout[b], tried'[b] = tried[b], loose'[b] = loose[b],
         \A o \in Request : req'[o] = req[o] \/ (~Past(o, b) /\ ~Past(o, b)')
  PROVE  CountInv(b)'
<1>1. ASSUME NEW o \in Request
      PROVE  /\ Counting(o, b)' <=> Counting(o, b)
             /\ Past(o, b)' => Past(o, b)
             /\ Counting(o, b)' => req'[o] = req[o]
  BY DEF Counting, Past
<1> QED
  BY <1>1, FrameCount

\* Where the requests are that do not attempt.
LEMMA QuietSteps ==
  ASSUME TypeInv, UseInv, NEW q \in Request,
         \/ Asks(q) \/ Take(q) \/ Drop(q) \/ Retry(q) \/ OpenChallenge(q) \/ OpenSession(q)
         \/ ReadSession(q) \/ EndSession(q) \/ ReadUser(q) \/ BindUser(q) \/ Change(q)
  PROVE  /\ lockout' = lockout /\ tried' = tried /\ loose' = loose
         /\ \A b \in Bucket, o \in Request : req'[o] = req[o] \/ (~Past(o, b) /\ ~Past(o, b)')
<1> DEFINE Quiet == /\ lockout' = lockout /\ tried' = tried /\ loose' = loose
                    /\ \A b \in Bucket, o \in Request : req'[o] = req[o] \/ (~Past(o, b) /\ ~Past(o, b)')
           Far(pc) == ~(pc \in {"password", "code", "count", "write"})
<1>1. ASSUME lockout' = lockout, tried' = tried, loose' = loose,
             \A o \in Request \ {q} : req'[o] = req[o],
             Far(req[q].pc), Far(req'[q].pc)
      PROVE  Quiet
  BY <1>1 DEF Past
<1>2. Far("idle") /\ Far("gate") /\ Far("upsert") /\ Far("change") /\ Far("take") /\ Far("session")
      /\ Far("drop") /\ Far("retry") /\ Far("open") /\ Far("renew") /\ Far("end") /\ Far("bind")
  OBVIOUS
<1>3. ASSUME Asks(q) PROVE Quiet
  <2>1. /\ lockout' = lockout /\ tried' = tried /\ loose' = loose /\ req[q] = Idle
        /\ \A o \in Request \ {q} : req'[o] = req[o]
    BY <1>3, AskEffect
  <2>2. req'[q].pc \in {"gate", "upsert", "change", "take", "session"}
    <3>1. AskLogin(q) => req'[q].pc = "gate"
      BY DEF AskLogin, Ask, Attempt, TypeInv
    <3>2. AskCallback(q) => req'[q].pc = "upsert"
      BY DEF AskCallback, Ask, TypeInv
    <3>3. AskChange(q) => req'[q].pc = "change"
      BY DEF AskChange, Ask, TypeInv
    <3>4. (\E c \in Challenge : AskVerify(q, c)) => req'[q].pc = "take"
      BY DEF AskVerify, Ask, Attempt, TypeInv
    <3>5. (\E s \in Session : AskUse(q, s)) => req'[q].pc = "session"
      BY DEF AskUse, Ask, TypeInv
    <3> QED
      BY <1>3, <3>1, <3>2, <3>3, <3>4, <3>5 DEF Asks
  <2>3. req[q].pc = "idle"
    BY <2>1 DEF Idle
  <2> QED
    BY <1>1, <1>2, <2>1, <2>2, <2>3
<1>4. ASSUME Done(q), Far(req[q].pc), lockout' = lockout, tried' = tried, loose' = loose PROVE Quiet
  <2>1. req'[q].pc = "idle" /\ \A o \in Request \ {q} : req'[o] = req[o]
    BY <1>4 DEF Done, Idle, TypeInv
  <2> QED
    BY <1>1, <1>2, <1>4, <2>1
<1>5. ASSUME Retry(q) \/ OpenChallenge(q) \/ OpenSession(q) \/ EndSession(q) \/ Change(q) PROVE Quiet
  <2>1. Done(q) /\ lockout' = lockout /\ tried' = tried /\ loose' = loose
    BY <1>5 DEF Retry, OpenChallenge, OpenSession, EndSession, Change, ghost
  <2>2. req[q].pc \in {"retry", "open", "end", "change"}
    BY <1>5 DEF Retry, OpenChallenge, OpenSession, EndSession, Change
  <2> QED
    BY <1>2, <1>4, <2>1, <2>2
<1>6. ASSUME Take(q) PROVE Quiet
  <2>1. req[q] \in Verify /\ req[q].pc = "take"
    BY <1>6, Kinds DEF Take
  <2>2. req'[q].pc \in {"drop", "idle"} /\ \A o \in Request \ {q} : req'[o] = req[o]
    BY <1>6, <2>1 DEF Take, Done, Idle, TypeInv, Verify
  <2>3. lockout' = lockout /\ tried' = tried /\ loose' = loose
    BY <1>6 DEF Take, ghost
  <2> QED
    BY <1>1, <1>2, <2>1, <2>2, <2>3
<1>7. ASSUME Drop(q) PROVE Quiet
  <2>1. req[q] \in Verify /\ req[q].pc = "drop"
    BY <1>7, Kinds DEF Drop
  <2>2. req'[q].pc = "gate" /\ \A o \in Request \ {q} : req'[o] = req[o]
    BY <1>7, <2>1 DEF Drop, Goto, TypeInv, Verify
  <2>3. lockout' = lockout /\ tried' = tried /\ loose' = loose
    BY <1>7 DEF Drop, ghost
  <2> QED
    BY <1>1, <1>2, <2>1, <2>2, <2>3
<1>8. ASSUME ReadSession(q) PROVE Quiet
  <2>1. req[q] \in Use /\ req[q].pc = "session"
    BY <1>8, Kinds DEF ReadSession
  <2>2. req'[q].pc \in {"end", "renew", "idle"} /\ \A o \in Request \ {q} : req'[o] = req[o]
    BY <1>8, <2>1 DEF ReadSession, Goto, Done, Idle, TypeInv, Use
  <2>3. lockout' = lockout /\ tried' = tried /\ loose' = loose
    BY <1>8 DEF ReadSession, ghost
  <2> QED
    BY <1>1, <1>2, <2>1, <2>2, <2>3
<1>9. ASSUME ReadUser(q) PROVE Quiet
  <2>1. req[q] \in Arrived /\ req[q].pc = "upsert"
    BY <1>9, Kinds DEF ReadUser
  <2>2. req'[q].pc = "bind" /\ \A o \in Request \ {q} : req'[o] = req[o]
    BY <1>9, <2>1 DEF ReadUser, TypeInv, Arrived
  <2>3. lockout' = lockout /\ tried' = tried /\ loose' = loose
    BY <1>9 DEF ReadUser, ghost
  <2> QED
    BY <1>1, <1>2, <2>1, <2>2, <2>3
<1>10. ASSUME BindUser(q) PROVE Quiet
  <2>1. req[q].pc = "bind"
    BY <1>10, BindEffect
  <2>2. req'[q].pc \in {"open", "idle"} /\ \A o \in Request \ {q} : req'[o] = req[o]
    BY <1>10, BindEffect DEF Idle
  <2>3. lockout' = lockout /\ tried' = tried /\ loose' = loose
    BY <1>10 DEF BindUser, ghost
  <2> QED
    BY <1>1, <1>2, <2>1, <2>2, <2>3
<1>11. Quiet
  <2> HIDE DEF Quiet
  <2> QED
    BY <1>3, <1>5, <1>6, <1>7, <1>8, <1>9, <1>10
<1> QED
  BY <1>11

\* A renewal is not past any gate.
LEMMA RenewQuiet ==
  ASSUME TypeInv, UseInv, NEW q \in Request, Renew(q), NEW b \in Bucket, NEW o \in Request
  PROVE  req'[o] = req[o] \/ (~Past(o, b) /\ ~Past(o, b)')
<1>1. CASE req[o].pc = "renew"
  <2>1. req[o] \in Use
    BY <1>1, Kinds
  <2>2. Overtaken(o).pc = "renew"
    BY <1>1, <2>1 DEF Overtaken, Use
  <2>3. req'[o] = Idle \/ req'[o] = req[o] \/ req'[o] = Overtaken(o)
    BY RenewEffect
  <2>4. req'[o].pc \in {"idle", "renew"}
    BY <1>1, <2>2, <2>3 DEF Idle
  <2> QED
    BY <1>1, <2>4 DEF Past
<1>2. CASE req[o].pc # "renew"
  <2>1. o # q
    BY <1>2 DEF Renew
  <2> QED
    BY <1>2, <2>1 DEF Renew, Done, TypeInv
<1> QED
  BY <1>1, <1>2

\* An attempt on one bucket leaves the other alone.
LEMMA OtherBucket ==
  ASSUME TypeInv, UseInv, NEW q \in Request, NEW b \in Bucket, CountInv(b), req[q].bucket # b,
         \/ IsLocked(q) \/ Sweep(q) \/ Clear(q) \/ Count(q) \/ Write(q)
         \/ CheckPassword(q) \/ CheckCode(q)
  PROVE  CountInv(b)'
<1>1. req[q] \in Login \cup Verify /\ req[q].bucket \in Bucket
  BY Kinds DEF IsLocked, Sweep, Clear, Count, Write, CheckPassword, CheckCode, Login, Verify, Bucket
<1>2. \A o \in Request \ {q} : req'[o] = req[o]
  <2>1. ~Renew(q)
    BY DEF Renew, IsLocked, Sweep, Clear, Count, Write, CheckPassword, CheckCode
  <2> QED
    BY <2>1, OthersStay DEF Steps
<1>3. req'[q] = Idle \/ req'[q].bucket = req[q].bucket
  <2>1. ASSUME NEW pc, Goto(q, pc) PROVE req'[q].bucket = req[q].bucket
    BY <1>1, <2>1 DEF Goto, TypeInv, Login, Verify
  <2>2. ASSUME IsLocked(q) PROVE req'[q] = Idle \/ req'[q].bucket = req[q].bucket
    <3> DEFINE next == Passed(req[q])
    <3>1. \/ req' = [req EXCEPT ![q].pc = "sweep", ![q].then = next]
          \/ Goto(q, next) \/ Goto(q, "recheck") \/ Done(q)
      BY <2>2 DEF IsLocked
    <3> HIDE DEF next
    <3> QED
      BY <1>1, <3>1 DEF Goto, Done, TypeInv, Login, Verify
  <2>3. ASSUME Sweep(q) \/ Clear(q) \/ CheckCode(q) PROVE req'[q].bucket = req[q].bucket
    BY <2>1, <2>3 DEF Sweep, Clear, CheckCode, Wrong
  <2>4. ASSUME Count(q) PROVE req'[q].bucket = req[q].bucket
    BY <1>1, <2>4 DEF Count, TypeInv, Login, Verify
  <2>5. ASSUME Write(q) PROVE req'[q] = Idle \/ req'[q].bucket = req[q].bucket
    <3>1. Goto(q, "recheck") \/ Done(q)
      BY <2>5 DEF Write, Goto, Done
    <3> QED
      BY <2>1, <3>1 DEF Done, TypeInv
  <2>6. ASSUME CheckPassword(q) PROVE req'[q].bucket = req[q].bucket
    <3>1. req' = [req EXCEPT ![q].pc = "clear", ![q].admin = role = "admin", ![q].era = era] => req'[q].bucket = req[q].bucket
      BY <1>1 DEF TypeInv, Login, Verify
    <3> QED
      BY <2>1, <2>6, <3>1 DEF CheckPassword, Wrong
  <2> QED
    BY <2>2, <2>3, <2>4, <2>5, <2>6
<1>4. ~Past(q, b) /\ ~Past(q, b)'
  BY <1>3 DEF Past, Idle
<1>5. lockout'[b] = lockout[b]
  BY <1>1 DEF IsLocked, Sweep, Clear, Count, Write, CheckPassword, CheckCode, Emptied, TypeInv
<1>6. tried'[b] = tried[b] /\ loose'[b] = loose[b]
  <2>1. ASSUME NEW c \in Bucket \ {b}, Wrong(q, c) \/ Emptied(q, c) PROVE tried'[b] = tried[b] /\ loose'[b] = loose[b]
    BY <2>1 DEF Wrong, Emptied, Overlapping, TypeInv
  <2>2. req[q].bucket \in Bucket \ {b}
    BY <1>1
  <2>3. CASE IsLocked(q) \/ Count(q)
    BY <2>3 DEF IsLocked, Count, ghost
  <2>4. CASE Sweep(q) \/ Clear(q)
    BY <2>1, <2>2, <2>4 DEF Sweep, Clear
  <2>5. CASE Write(q)
    BY <2>2, <2>5 DEF Write, Overlapping, TypeInv
  <2>6. CASE CheckPassword(q)
    <3>1. req[q].bucket = "local"
      BY <1>1, <2>6 DEF CheckPassword, Login, Verify, VerifyPc
    <3> QED
      BY <2>1, <2>2, <2>6, <3>1 DEF CheckPassword, ghost
  <2>7. CASE CheckCode(q)
    <3>1. req[q].bucket = "totp"
      BY <1>1, <2>7 DEF CheckCode, Login, LoginPc, Verify
    <3> QED
      BY <2>1, <2>2, <2>7, <3>1 DEF CheckCode, ghost
  <2> QED
    BY <2>3, <2>4, <2>5, <2>6, <2>7
<1> QED
  BY <1>2, <1>4, <1>5, <1>6, QuietCount

\* An attempt keeps the count of its own bucket.
LEMMA OwnBucket ==
  ASSUME TypeInv, UseInv, RowInv, NEW q \in Request, NEW b \in Bucket, CountInv(b), req[q].bucket = b,
         \/ IsLocked(q) \/ Sweep(q) \/ Clear(q) \/ Count(q) \/ Write(q)
         \/ CheckPassword(q) \/ CheckCode(q)
  PROVE  CountInv(b)'
<1>1. req[q] \in Login \cup Verify
  BY Kinds DEF IsLocked, Sweep, Clear, Count, Write, CheckPassword, CheckCode
<1>2. \A o \in Request \ {q} : req'[o] = req[o]
  <2>1. ~Renew(q)
    BY DEF Renew, IsLocked, Sweep, Clear, Count, Write, CheckPassword, CheckCode
  <2> QED
    BY <2>1, OthersStay DEF Steps
<1>3. ASSUME lockout'[b] = lockout[b], tried'[b] = tried[b], loose'[b] = loose[b],
             Counting(q, b)' <=> Counting(q, b),
             Past(q, b)' => Past(q, b) \/ Failures(lockout[b]) < Threshold[b],
             Counting(q, b)' /\ req'[q].pc = "write" =>
               req'[q].row = lockout[b] \/ (req[q].pc = "write" /\ req'[q].row = req[q].row)
      PROVE  CountInv(b)'
  <2>1. ASSUME NEW o \in Request
        PROVE  /\ Counting(o, b)' <=> Counting(o, b)
               /\ Past(o, b)' => Past(o, b) \/ Failures(lockout[b]) < Threshold[b]
               /\ Counting(o, b)' /\ req'[o].pc = "write" =>
                    req'[o].row = lockout[b] \/ (req[o].pc = "write" /\ req'[o].row = req[o].row)
    <3>1. CASE o = q
      BY <1>3, <3>1
    <3>2. CASE o # q
      <4>1. req'[o] = req[o]
        BY <1>2, <3>2
      <4>2. (Counting(o, b)' <=> Counting(o, b)) /\ (Past(o, b)' <=> Past(o, b))
        BY <4>1 DEF Counting, Past
      <4>3. req'[o].pc = "write" => req[o].pc = "write" /\ req'[o].row = req[o].row
        BY <4>1
      <4> QED
        BY <4>2, <4>3
    <3> QED
      BY <3>1, <3>2
  <2> QED
    BY <1>3, <2>1, FrameCount
<1>4. CASE IsLocked(q)
  <2>1. lockout' = lockout /\ tried' = tried /\ loose' = loose
    BY <1>4 DEF IsLocked, ghost
  <2>2. req[q].pc \in {"gate", "gateAgain", "recheck"}
    BY <1>4 DEF IsLocked
  <2> DEFINE next == Passed(req[q])
  <2>3. next \in {"password", "gateAgain", "code", "retry"}
    BY <1>1, <2>2 DEF Passed, Login, LoginPc, Verify, VerifyPc
  <2>4. \/ req' = [req EXCEPT ![q].pc = "sweep", ![q].then = next]
        \/ Goto(q, next) /\ ~Lapsed(b) /\ ~Locked(b)
        \/ Goto(q, "recheck") \/ Done(q)
    BY <1>4 DEF IsLocked
  <2> HIDE DEF next
  <2>5. \/ req'[q].pc \in {"sweep", "recheck", "idle"}
        \/ req'[q].pc = next /\ ~Lapsed(b) /\ ~Locked(b)
    BY <1>1, <2>4 DEF Goto, Done, Idle, TypeInv, Login, Verify
  <2>6. ~Counting(q, b) /\ ~Counting(q, b)'
    BY <2>2, <2>3, <2>5 DEF Counting
  <2>7. ~Lapsed(b) /\ ~Locked(b) => Failures(lockout[b]) < Threshold[b]
    <3>1. Threshold[b] \in Nat \ {0} /\ clock \in Nat
      BY Parameters DEF TypeInv
    <3>2. CASE lockout[b] = None
      BY <3>1, <3>2 DEF Failures
    <3>3. CASE lockout[b] # None
      <4>1. lockout[b] \in Row
        BY <3>3 DEF TypeInv
      <4>2. lockout[b].until \in Nat
        BY <4>1 DEF Row
      <4>3. ~Lapsed(b) /\ ~Locked(b) => lockout[b].until = 0
        BY <3>1, <3>3, <4>2 DEF Lapsed, Locked
      <4> QED
        BY <3>3, <4>3 DEF RowInv, Failures
    <3> QED
      BY <3>2, <3>3
  <2>8. Past(q, b)' => Failures(lockout[b]) < Threshold[b]
    BY <2>5, <2>7 DEF Past
  <2> QED
    BY <1>3, <2>1, <2>6, <2>8
<1>5. CASE Sweep(q) \/ Clear(q)
  <2>1. \E pc \in {"gate", "password", "gateAgain", "code", "retry", "open"} : Goto(q, pc)
    BY <1>1, <1>5 DEF Sweep, Clear, Login, Verify
  <2>2. req'[q].pc \in {"gate", "password", "gateAgain", "code", "retry", "open"}
    BY <1>1, <2>1 DEF Goto, TypeInv, Login, Verify
  <2>3. ~Counting(q, b)'
    BY <2>2 DEF Counting
  <2>4. Emptied(q, b)
    BY <1>5 DEF Sweep, Clear
  <2> QED
    BY <1>2, <2>3, <2>4, EmptiedCount
<1>6. CASE Count(q)
  <2>1. lockout' = lockout /\ tried' = tried /\ loose' = loose
    BY <1>6 DEF Count, ghost
  <2>2. req'[q].pc = "write" /\ req'[q].bucket = b /\ req'[q].row = lockout[b]
    BY <1>1, <1>6 DEF Count, TypeInv, Login, Verify
  <2>3. Counting(q, b) /\ Counting(q, b)' /\ Past(q, b)
    BY <1>6, <2>2 DEF Count, Counting, Past
  <2> QED
    BY <1>3, <2>1, <2>2, <2>3
<1>7. CASE Write(q)
  BY <1>7, WriteCount
<1>8. ASSUME req[q].pc \in {"password", "code"}, req'[q].pc = "clear",
             lockout' = lockout, tried' = tried, loose' = loose
      PROVE  CountInv(b)'
  <2>1. ~Counting(q, b) /\ ~Counting(q, b)' /\ ~Past(q, b)'
    BY <1>8 DEF Counting, Past
  <2> QED
    BY <1>3, <1>8, <2>1
<1>9. CASE CheckPassword(q)
  <2>1. b = "local" /\ req[q].pc = "password" /\ lockout' = lockout
    BY <1>1, <1>9 DEF CheckPassword, Login, Verify, VerifyPc
  <2>2. CASE Wrong(q, "local")
    BY <2>1, <2>2, WrongCount
  <2>3. CASE req' = [req EXCEPT ![q].pc = "clear", ![q].admin = role = "admin", ![q].era = era] /\ UNCHANGED ghost
    <3>1. req'[q].pc = "clear"
      BY <1>1, <2>3 DEF TypeInv, Login, Verify
    <3> QED
      BY <1>8, <2>1, <2>3, <3>1 DEF ghost
  <2> QED
    BY <1>9, <2>2, <2>3 DEF CheckPassword
<1>10. CASE CheckCode(q)
  <2>1. b = "totp" /\ req[q].pc = "code" /\ lockout' = lockout
    BY <1>1, <1>10 DEF CheckCode, Login, LoginPc, Verify
  <2>2. CASE Wrong(q, "totp")
    BY <2>1, <2>2, WrongCount
  <2>3. CASE Goto(q, "clear") /\ UNCHANGED ghost
    <3>1. req'[q].pc = "clear"
      BY <1>1, <2>3 DEF Goto, TypeInv, Login, Verify
    <3> QED
      BY <1>8, <2>1, <2>3, <3>1 DEF ghost
  <2> QED
    BY <1>10, <2>2, <2>3 DEF CheckCode
<1> QED
  BY <1>4, <1>5, <1>6, <1>7, <1>9, <1>10

\* A request cut short: its failure is lost, and the bucket known to be loose.
LEMMA AbandonCount ==
  ASSUME TypeInv, NEW q \in Request, NEW b \in Bucket, CountInv(b), Abandon(q)
  PROVE  CountInv(b)'
<1>1. /\ req'[q] = Idle
      /\ \A o \in Request \ {q} : req'[o] = req[o]
      /\ lockout' = lockout /\ tried' = tried
  BY DEF Abandon, Done, TypeInv
<1>2. loose'[b] = (loose[b] \/ Counting(q, b))
  BY DEF Abandon, Counting
<1>3. CASE Counting(q, b)
  BY <1>2, <1>3 DEF CountInv
<1>4. CASE ~Counting(q, b)
  <2>1. loose'[b] = loose[b]
    BY <1>2, <1>4 DEF TypeInv
  <2>2. ~Counting(q, b)' /\ ~Past(q, b)'
    BY <1>1 DEF Counting, Past, Idle
  <2>3. ASSUME NEW o \in Request \ {q}
        PROVE  /\ Counting(o, b)' <=> Counting(o, b)
               /\ Past(o, b)' => Past(o, b)
               /\ req'[o] = req[o]
    BY <1>1 DEF Counting, Past
  <2>4. ASSUME NEW o \in Request
        PROVE  /\ Counting(o, b)' <=> Counting(o, b)
               /\ Past(o, b)' => Past(o, b)
               /\ Counting(o, b)' => req'[o] = req[o]
    <3>1. CASE o = q
      BY <1>4, <2>2, <3>1
    <3>2. CASE o # q
      BY <2>3, <3>2
    <3> QED
      BY <3>1, <3>2
  <2> QED
    BY <1>1, <2>1, <2>4, FrameCount
<1> QED
  BY <1>3, <1>4

LEMMA CountKept ==
  ASSUME TypeInv, UseInv, RowInv, [Next]_vars, NEW b \in Bucket, CountInv(b)
  PROVE  CountInv(b)'
<1>1. ASSUME NEW q \in Request, Asks(q) PROVE CountInv(b)'
  BY <1>1, QuietSteps, QuietCount
<1>2. ASSUME NEW q \in Request, Renew(q) PROVE CountInv(b)'
  <2>1. lockout' = lockout /\ tried' = tried /\ loose' = loose
    BY <1>2 DEF Renew, ghost
  <2> QED
    BY <1>2, <2>1, RenewQuiet, QuietCount
<1>3. ASSUME NEW q \in Request, Abandon(q) PROVE CountInv(b)'
  BY <1>3, AbandonCount
<1>4. ASSUME NEW q \in Request, Steps(q), ~Renew(q), ~Abandon(q) PROVE CountInv(b)'
  <2>1. CASE \/ IsLocked(q) \/ Sweep(q) \/ Clear(q) \/ Count(q) \/ Write(q)
             \/ CheckPassword(q) \/ CheckCode(q)
    BY <2>1, OtherBucket, OwnBucket
  <2>2. CASE \/ Take(q) \/ Drop(q) \/ Retry(q) \/ OpenChallenge(q) \/ OpenSession(q)
             \/ ReadSession(q) \/ EndSession(q) \/ ReadUser(q) \/ BindUser(q) \/ Change(q)
    BY <2>2, QuietSteps, QuietCount
  <2> QED
    BY <1>4, <2>1, <2>2 DEF Steps
<1>5. CASE ~\E q \in Request : Asks(q) \/ Steps(q)
  <2>1. req' = req /\ lockout' = lockout /\ tried' = tried /\ loose' = loose
    BY <1>5 DEF Next, vars, Tick, Logout, ResetPassword, ghost
  <2> QED
    BY <2>1, QuietCount
<1> QED
  BY <1>1, <1>2, <1>3, <1>4, <1>5

\* Attempts that do not run together are all counted, and the bucket fills at the
\* threshold, after which nobody passes its gate.
THEOREM FailuresAlwaysCounted == Spec => []FailuresCounted
<1> DEFINE Counts == \A b \in Bucket : CountInv(b)
<1>1. Init => RowInv /\ Counts
  <2> SUFFICES ASSUME Init, NEW b \in Bucket
               PROVE  (lockout[b] # None => (lockout[b].until = 0 <=> lockout[b].failures < Threshold[b])) /\ CountInv(b)
    BY DEF RowInv
  <2>1. /\ lockout[b] = None /\ tried[b] = 0
        /\ \A q \in Request : ~Counting(q, b) /\ ~Past(q, b)
    BY DEF Init, Counting, Past, Idle
  <2>2. Failures(lockout[b]) = 0 /\ Threshold[b] \in Nat
    BY <2>1, Parameters DEF Failures
  <2> QED
    BY <2>1, <2>2 DEF CountInv
<1>2. TypeInv /\ UseInv /\ RowInv /\ Counts /\ [Next]_vars => RowInv' /\ Counts'
  BY RowKept, CountKept
<1>3. TypeInv /\ RowInv /\ Counts => FailuresCounted
  <2> SUFFICES ASSUME TypeInv, RowInv, Counts, NEW b \in Bucket, ~loose[b]
               PROVE  /\ tried[b] <= Threshold[b]
                      /\ Attempting(b) = {} => /\ Failures(lockout[b]) = tried[b]
                                               /\ tried[b] = Threshold[b] => lockout[b].until # 0
    BY DEF FailuresCounted
  <2>1. CountInv(b)
    OBVIOUS
  <2> HIDE DEF Counts
  <2>2. Failures(lockout[b]) \in Nat /\ Threshold[b] \in Nat \ {0} /\ tried[b] \in Nat
    BY FailuresType
  <2>3. tried[b] <= Threshold[b]
    <3>1. CASE \E q \in Request : Counting(q, b)
      BY <2>1, <2>2, <3>1, PastAttempts DEF CountInv
    <3>2. CASE ~\E q \in Request : Counting(q, b)
      BY <2>1, <3>2 DEF CountInv
    <3> QED
      BY <3>1, <3>2
  <2>4. ASSUME Attempting(b) = {}
        PROVE  Failures(lockout[b]) = tried[b]
    BY <2>1, <2>4, PastAttempts DEF CountInv
  <2>5. ASSUME Attempting(b) = {}, tried[b] = Threshold[b]
        PROVE  lockout[b].until # 0
    <3>1. lockout[b] # None
      BY <2>2, <2>4, <2>5 DEF Failures
    <3>2. lockout[b].failures = Threshold[b]
      BY <2>4, <2>5, <3>1 DEF Failures
    <3> QED
      BY <2>2, <3>1, <3>2 DEF RowInv
  <2> QED
    BY <2>3, <2>4, <2>5
<1> HIDE DEF Counts
<1> QED
  BY <1>1, <1>2, <1>3, TypesAlways, PTL DEF Spec
=============================================================================
