---------------------------- MODULE SignInProofs ----------------------------
(***************************************************************************)
(* Typing of SignIn, for any number of requests, sessions, challenges,     *)
(* links, passwords, secrets and ticks.                                    *)
(***************************************************************************)
EXTENDS SignIn, FiniteSetTheorems, TLAPS

\* The steps of the system, all the ways to be refused or to fail taken together.
Refuse(r) ==
  /\ Finish(r)
  /\ attempts' \in {attempts, TRUE}
  /\ UNCHANGED <<account, nextSecret, sessions, challenges, links, now, history>>

Start(r) ==
  \/ SignInBegin(r) \/ OAuthBegin(r) \/ TwoFactorBegin(r)
  \/ \E c \in Challenge : VerifyBegin(r, c)
  \/ \E l \in Link : ResetBegin(r, l)
  \/ \E s \in Session : ChangeBegin(r, s) \/ SignOutAllBegin(r, s)
  \/ \E s \in Session, n \in Step : ConfirmBegin(r, s, n)

\* Statements that write nothing another request can see, but their own row locks.
Walk(r) ==
  \/ ReadAccount(r) \/ OAuthTouch(r) \/ ClearFailures(r) \/ TouchUser(r)
  \/ ClaimLink(r) \/ WriteAccount(r) \/ EndSessions(r) \/ ClearAfterReset(r)

Work(r) ==
  \/ Attempt(r) \/ ClaimChallenge(r) \/ SpendCode(r) \/ MintToken(r)
  \/ CurrentAttempt(r) \/ ClearCurrent(r) \/ Commit(r)
  \/ SignOutAll(r) \/ StampCutoff(r) \/ ConfirmEnrolment(r) \/ RetireLinks(r)
  \/ \E s \in Session : OAuthOpen(r, s) \/ Open(r, s)
  \/ \E c \in Challenge : Issue(r, c)
  \/ \E n \in Step : VerifyCode(r, n)
  \/ \E l \in Link : InsertLink(r, l)

\* Steps of no request.
Ambient ==
  \/ \E s \in Session : SignOut(s)
  \/ \E c \in Challenge : ExpireChallenge(c)
  \/ \E l \in Link : ExpireLink(l)
  \/ Offer
  \/ Tick

LEMMA NextSteps ==
  ASSUME [Next]_vars
  PROVE  \/ \E r \in Request : Refuse(r) \/ Start(r) \/ Walk(r) \/ Work(r)
         \/ Ambient
         \/ UNCHANGED vars
<1>1. ASSUME NEW r \in Request,
             \/ GiveUp(r) \/ AttemptRefuse(r) \/ CodeRefuse(r) \/ CurrentRefuse(r)
      PROVE  Refuse(r)
  BY <1>1 DEF GiveUp, AttemptRefuse, CodeRefuse, CurrentRefuse, Refuse, rows, history
<1>2. ASSUME NEW r \in Request, Move(r)
      PROVE  Refuse(r) \/ Walk(r) \/ Work(r)
  BY <1>1, <1>2 DEF Move, Walk, Work, PasswordRefuse, ChallengeRefuse, SpendRefuse, LinkRefuse,
                    ConfirmRefuse
<1>3. ASSUME NEW r \in Request, Arrive(r)
      PROVE  Start(r) \/ Work(r)
  BY <1>3 DEF Arrive, Start, Work
<1>4. ASSUME NEW r \in Request, Fail(r)
      PROVE  Refuse(r)
  BY <1>1, <1>4 DEF Fail
<1>5. CASE UNCHANGED vars
  BY <1>5
<1>6. CASE \E r \in Request : Arrive(r) \/ Move(r) \/ Fail(r)
  BY <1>2, <1>3, <1>4, <1>6
<1>7. QED
  BY <1>5, <1>6 DEF Next, Ambient

-----------------------------------------------------------------------------
(* Records updated in some of their columns.                               *)

\* What stays the same of a request's knowledge through all its statements.
Like(i, j) ==
  /\ i.kind = j.kind /\ i.link = j.link /\ i.challenge = j.challenge
  /\ i.secret = j.secret /\ i.lastStep = j.lastStep

LEMMA JobWith ==
  ASSUME NEW j \in Job
  PROVE  /\ \A v \in Password : LET i == [j EXCEPT !.password = v]
              IN  i \in Job /\ Like(i, j) /\ i.session = j.session /\ i.step = j.step
         /\ \A n \in Step : LET i == [j EXCEPT !.step = n]
              IN  i \in Job /\ Like(i, j) /\ i.session = j.session /\ i.step = n
         /\ \A b \in BOOLEAN : LET i == [j EXCEPT !.cleared = b]
              IN  i \in Job /\ Like(i, j) /\ i.session = j.session /\ i.step = j.step
         /\ \A x \in Session : LET i == [j EXCEPT !.session = x]
              IN  i \in Job /\ Like(i, j) /\ i.session = x
         /\ \A x \in Session : LET i == [j EXCEPT !.session = x, !.cleared = FALSE]
              IN  i \in Job /\ Like(i, j) /\ i.session = x
         /\ \A t \in Time : LET i == [j EXCEPT !.at = t]
              IN  i \in Job /\ Like(i, j) /\ i.session = j.session
         /\ \A f \in SUBSET Session, d \in SUBSET Challenge, t \in Time :
              LET i == [j EXCEPT !.found = f, !.retired = d, !.at = t]
              IN  i \in Job /\ Like(i, j) /\ i.session = j.session
<1>1. \A v \in Password : LET i == [j EXCEPT !.password = v]
      IN  i \in Job /\ Like(i, j) /\ i.session = j.session /\ i.step = j.step
  BY DEF Job, Like
<1>2. \A n \in Step : LET i == [j EXCEPT !.step = n]
      IN  i \in Job /\ Like(i, j) /\ i.session = j.session /\ i.step = n
  BY DEF Job, Like
<1>3. \A b \in BOOLEAN : LET i == [j EXCEPT !.cleared = b]
      IN  i \in Job /\ Like(i, j) /\ i.session = j.session /\ i.step = j.step
  BY DEF Job, Like
<1>4. \A x \in Session : LET i == [j EXCEPT !.session = x]
      IN  i \in Job /\ Like(i, j) /\ i.session = x
  BY DEF Job, Like
<1>5. \A x \in Session : LET i == [j EXCEPT !.session = x, !.cleared = FALSE]
      IN  i \in Job /\ Like(i, j) /\ i.session = x
  BY DEF Job, Like
<1>6. \A t \in Time : LET i == [j EXCEPT !.at = t]
      IN  i \in Job /\ Like(i, j) /\ i.session = j.session
  BY DEF Job, Like
<1>7. \A f \in SUBSET Session, d \in SUBSET Challenge, t \in Time :
      LET i == [j EXCEPT !.found = f, !.retired = d, !.at = t]
      IN  i \in Job /\ Like(i, j) /\ i.session = j.session
  BY DEF Job, Like
<1>8. QED BY <1>1, <1>2, <1>3, <1>4, <1>5, <1>6, <1>7

LEMMA AccountWith ==
  ASSUME NEW a \in Account
  PROVE  /\ \A n \in Step : [a EXCEPT !.lastStep = n] \in Account
         /\ \A t \in Time \cup {0} : [a EXCEPT !.cutoff = t] \in Account
         /\ \A v \in Password : [a EXCEPT !.password = v] \in Account
         /\ \A v \in Password, t \in Time \cup {0} :
              [a EXCEPT !.password = v, !.cutoff = t] \in Account
         /\ \A t \in Time \cup {0} :
              [a EXCEPT !.secret = 0, !.enrolled = FALSE, !.lastStep = 0, !.cutoff = t]
                \in Account
         /\ \A x \in Secret : [a EXCEPT !.secret = x, !.enrolled = FALSE, !.lastStep = 0]
                \in Account
         /\ \A n \in Step : [a EXCEPT !.enrolled = TRUE, !.lastStep = n] \in Account
  BY DEF Account

LEMMA SessionWith ==
  ASSUME NEW x \in SessionRow
  PROVE  /\ [x EXCEPT !.status = "revoked"] \in SessionRow
         /\ \A v \in Password : [x EXCEPT !.password = v] \in SessionRow
         /\ \A t \in Time : [x EXCEPT !.iat = t] \in SessionRow
  BY DEF SessionRow

LEMMA TokenWith ==
  ASSUME NEW x \in Token
  PROVE  [x EXCEPT !.status = "spent"] \in Token /\ [x EXCEPT !.status = "expired"] \in Token
  BY DEF Token

-----------------------------------------------------------------------------
(* What a request at a statement has to know to run it.                    *)

Ending == {"current", "refund", "claim", "lock", "sessions", "tail", "commit"}

Fits(at, j) ==
  /\ at \in {"oauth.touch", "answered"} => j.session \in Session
  /\ at \in {"challenge", "code", "spend"} => j.challenge \in Challenge
  /\ at = "spend" => j.step > j.lastStep
  /\ at \in {"spend", "confirm"} => j.secret \in Secret /\ j.step \in Step
  /\ j.kind # None <=> at \in Ending
  /\ at \in {"claim", "tail"} => j.kind = "reset"
  /\ at \in {"current", "refund"} => j.kind = "change"
  /\ j.kind = "reset" => j.link \in Link /\ j.session = None
  /\ j.kind # "reset" => j.link = None
  /\ j.kind = "change" => j.session \in Session
  /\ j.kind = "twofactor" => j.session = None

JobFits(r) == Fits(pc[r], job[r])

\* Requests on their way to set a password; the bound leaves each of them one.
Setting == {r \in Request : job[r].kind \in {"reset", "change"}}

RoomLeft == account.password + Cardinality(Setting) <= MaxPassword + Cardinality(Request)

Typed == TypeOK /\ RoomLeft /\ \A r \in Request : JobFits(r)

\* The bounds, as the proofs use them.
LEMMA Bounds ==
  /\ MaxSession \in Nat /\ MaxSession > 0 /\ MaxPassword \in Nat /\ MaxPassword > 0
  /\ MaxTime \in Nat /\ MaxTime > 0
  /\ MaxChallenge \in Nat /\ MaxLink \in Nat /\ MaxSecret \in Nat
  /\ IsFiniteSet(Request) /\ Cardinality(Request) \in Nat
  /\ None \notin Nat /\ None \notin {"reset", "change", "twofactor"}
  BY BoundAssumption, RequestAssumption, NoneAssumption, FS_CardinalityType

LEMMA TypedInit == Init => Typed
<1> SUFFICES ASSUME Init PROVE Typed
  OBVIOUS
<1>1. TypeOK
  <2>1. 1 \in Password /\ 1 \in Time
    BY Bounds DEF Password, Time
  <2>2. account \in Account
    BY <2>1 DEF Init, Account
  <2>3. nextSecret \in 1..(MaxSecret + 1)
    BY Bounds DEF Init
  <2>4. sessions \in [Session -> SessionRow]
    BY DEF Init, NoSession, SessionRow
  <2>5. challenges \in [Challenge -> Token]
    BY DEF Init, Token
  <2>6. NoJob \in Job
    BY DEF NoJob, Job
  <2>7. /\ pc \in [Request -> Statement] /\ job \in [Request -> Job]
        /\ links \in [Link -> {"absent", "live", "expired", "used"}]
    BY <2>6 DEF Init, Statement
  <2>8. accepted \in [Code -> 0..2] /\ setBy \in [Password -> Link \cup {None}]
    BY DEF Init
  <2>9. attempts \in BOOLEAN /\ now \in Time /\ ended \subseteq Session
    BY <2>1 DEF Init
  <2>10. QED BY <2>2, <2>3, <2>4, <2>5, <2>7, <2>8, <2>9 DEF TypeOK
<1>2. \A r \in Request : JobFits(r)
  BY Bounds DEF Init, JobFits, Fits, NoJob, Ending
<1>3. Setting = {}
  BY Bounds DEF Init, Setting, NoJob
<1>4. RoomLeft
  BY <1>3, Bounds, FS_EmptySet, FS_CardinalityType DEF RoomLeft, Init
<1>5. QED BY <1>1, <1>2, <1>4 DEF Typed

LEMMA NoJobFits ==
  /\ NoJob \in Job
  /\ \A at \in {"idle", "attempt", "issue", "oauth.insert", "all.sessions", "all.cutoff",
                 "password", "clear", "user", "open", "link.insert"} :
       Fits(at, NoJob) /\ at \in Statement
<1>1. NoJob \in Job
  BY DEF NoJob, Job
<1>2. NoJob.kind = None /\ NoJob.link = None
  BY DEF NoJob
<1>3. QED BY <1>1, <1>2, Bounds DEF Fits, Ending, Statement

\* A request goes on to a statement it knows enough for; nobody else is moved.
OwnMove(r, to, j) ==
  /\ pc' = [pc EXCEPT ![r] = to]
  /\ job' = [job EXCEPT ![r] = j]
  /\ to \in Statement /\ j \in Job /\ Fits(to, j)

LEMMA Started ==
  ASSUME Typed, NEW r \in Request, Start(r)
  PROVE  \E to \in Statement, j \in Job : OwnMove(r, to, j)
<1> DEFINE Goal == \E to \in Statement, j \in Job : OwnMove(r, to, j)
<1>1. ASSUME NEW to \in Statement, NEW j \in Job, Begin(r, to, j), Fits(to, j)
      PROVE  Goal
  BY <1>1 DEF Begin, Goto, OwnMove
<1> SUFFICES Goal
  OBVIOUS
<1> HIDE DEF Goal
<1>2. CASE SignInBegin(r) \/ OAuthBegin(r) \/ \E s \in Session : SignOutAllBegin(r, s)
  <2>1. PICK to \in {"attempt", "issue", "oauth.insert", "all.sessions"} : Begin(r, to, NoJob)
    BY <1>2 DEF SignInBegin, OAuthBegin, SignOutAllBegin
  <2>2. to \in Statement /\ Fits(to, NoJob)
    BY NoJobFits
  <2>3. QED BY <2>1, <2>2, NoJobFits, <1>1
<1>3. CASE TwoFactorBegin(r)
  <2> DEFINE j == [NoJob EXCEPT !.kind = "twofactor"]
  <2>1. j \in Job /\ Fits("lock", j) /\ "lock" \in Statement
    BY Bounds DEF NoJob, Job, Fits, Ending, Statement
  <2>2. Begin(r, "lock", j)
    BY <1>3 DEF TwoFactorBegin
  <2> HIDE DEF j
  <2>3. QED BY <2>1, <2>2, <1>1
<1>4. CASE \E c \in Challenge : VerifyBegin(r, c)
  <2>1. PICK c \in Challenge : VerifyBegin(r, c)
    BY <1>4
  <2> DEFINE j == [NoJob EXCEPT !.challenge = c, !.password = challenges[c].password,
                                !.secret = IF account.enrolled THEN account.secret ELSE 0,
                                !.lastStep = account.lastStep]
  <2>2. /\ challenges[c].password \in Password \cup {0} /\ account.secret \in Secret \cup {0}
        /\ account.lastStep \in Step \cup {0}
    BY DEF Typed, TypeOK, Token, Account
  <2>3. j \in Job /\ Fits("challenge", j) /\ "challenge" \in Statement
    BY <2>2, Bounds DEF NoJob, Job, Fits, Ending, Statement
  <2>4. Begin(r, "challenge", j)
    BY <2>1 DEF VerifyBegin
  <2> HIDE DEF j
  <2>5. QED BY <2>3, <2>4, <1>1
<1>5. CASE \E l \in Link : ResetBegin(r, l)
  <2>1. PICK l \in Link : ResetBegin(r, l)
    BY <1>5
  <2> DEFINE j == [NoJob EXCEPT !.kind = "reset", !.link = l]
  <2>2. j \in Job /\ Fits("claim", j) /\ "claim" \in Statement
    BY Bounds DEF NoJob, Job, Fits, Ending, Statement
  <2>3. Begin(r, "claim", j)
    BY <2>1 DEF ResetBegin
  <2> HIDE DEF j
  <2>4. QED BY <2>2, <2>3, <1>1
<1>6. CASE \E s \in Session : ChangeBegin(r, s)
  <2>1. PICK s \in Session : ChangeBegin(r, s)
    BY <1>6
  <2> DEFINE j == [NoJob EXCEPT !.kind = "change", !.session = s]
  <2>2. j \in Job /\ Fits("current", j) /\ "current" \in Statement
    BY Bounds DEF NoJob, Job, Fits, Ending, Statement
  <2>3. Begin(r, "current", j)
    BY <2>1 DEF ChangeBegin
  <2> HIDE DEF j
  <2>4. QED BY <2>2, <2>3, <1>1
<1>7. CASE \E s \in Session, n \in Step : ConfirmBegin(r, s, n)
  <2>1. PICK s \in Session, n \in Step : ConfirmBegin(r, s, n)
    BY <1>7
  <2> DEFINE j == [NoJob EXCEPT !.secret = account.secret, !.step = n]
  <2>2. account.secret \in Secret
    BY <2>1 DEF ConfirmBegin, Typed, TypeOK, Account
  <2>3. j \in Job /\ Fits("confirm", j) /\ "confirm" \in Statement
    BY <2>2, Bounds DEF NoJob, Job, Fits, Ending, Statement
  <2>4. Begin(r, "confirm", j)
    BY <2>1 DEF ConfirmBegin
  <2> HIDE DEF j
  <2>5. QED BY <2>3, <2>4, <1>1
<1>8. QED
  BY <1>2, <1>3, <1>4, <1>5, <1>6, <1>7 DEF Start

LEMMA Moved ==
  ASSUME Typed, NEW r \in Request, Refuse(r) \/ Walk(r) \/ Work(r)
  PROVE  \E to \in Statement, j \in Job :
           OwnMove(r, to, j) /\ j.kind \in {job[r].kind, None}
<1> DEFINE Goal == \E to \in Statement, j \in Job :
                     OwnMove(r, to, j) /\ j.kind \in {job[r].kind, None}
<1>1. /\ job[r] \in Job /\ Fits(pc[r], job[r]) /\ now \in Time
      /\ pc \in [Request -> Statement] /\ job \in [Request -> Job]
  BY DEF Typed, TypeOK, JobFits
<1>2. job = [job EXCEPT ![r] = job[r]]
  BY <1>1
<1>3. CASE Finish(r)
  BY <1>3, NoJobFits DEF Finish, OwnMove, NoJob
\* It goes on with what it knows.
<1>4. CASE \/ Attempt(r) \/ ClaimChallenge(r) \/ SpendCode(r) \/ CurrentAttempt(r)
           \/ ClearCurrent(r) \/ TouchUser(r) \/ OAuthTouch(r) \/ ClaimLink(r)
           \/ WriteAccount(r) \/ RetireLinks(r)
  <2>1. UNCHANGED job
    BY <1>4 DEF Attempt, ClaimChallenge, SpendCode, CurrentAttempt, ClearCurrent, TouchUser,
                OAuthTouch, ClaimLink, WriteAccount, RetireLinks
  <2>2. PICK from, to \in Statement :
          /\ Goto(r, from, to)
          /\ \/ from = "attempt" /\ to = "password"
             \/ from = "challenge" /\ to = "code"
             \/ from = "spend" /\ to = "clear"
             \/ from = "current" /\ to = "refund"
             \/ from = "refund" /\ to = "lock"
             \/ from = "user" /\ to = "open"
             \/ from = "oauth.touch" /\ to = "answered"
             \/ from = "claim" /\ to = "lock"
             \/ from = "lock" /\ to = "sessions"
             \/ from = "idle" /\ to = "link.insert"
    BY <1>4 DEF Attempt, ClaimChallenge, SpendCode, CurrentAttempt, ClearCurrent, TouchUser,
                OAuthTouch, ClaimLink, WriteAccount, RetireLinks, Statement
  <2>3. Fits(to, job[r])
    BY <1>1, <2>2 DEF Goto, Fits, Ending
  <2>4. QED BY <1>1, <1>2, <2>1, <2>2, <2>3 DEF Goto, OwnMove
\* It learns something.
<1>5. ASSUME NEW from \in Statement, NEW to \in Statement, NEW j \in Job, Goto(r, from, to),
             job' = [job EXCEPT ![r] = j], Fits(to, j), j.kind = job[r].kind
      PROVE  Goal
  BY <1>5 DEF Goto, OwnMove
<1> SUFFICES Goal
  OBVIOUS
<1> HIDE DEF Goal
<1>6. CASE ReadAccount(r)
  <2> DEFINE j == [job[r] EXCEPT !.password = account.password]
             to == IF account.enrolled THEN "issue" ELSE "clear"
  <2>1. j \in Job /\ Like(j, job[r]) /\ j.session = job[r].session
    BY <1>1, JobWith DEF Typed, TypeOK, Account
  <2>2. Goto(r, "password", to) /\ job' = [job EXCEPT ![r] = j]
    BY <1>6, <1>1 DEF ReadAccount
  <2>3. to \in {"issue", "clear"}
    OBVIOUS
  <2> HIDE DEF j, to
  <2>4. Fits(to, j) /\ to \in Statement /\ "password" \in Statement
    BY <1>1, <2>1, <2>2, <2>3 DEF Fits, Like, Ending, Statement, Goto
  <2>5. QED BY <2>1, <2>2, <2>4, <1>5 DEF Like
<1>7. CASE ClearFailures(r) \/ ClearAfterReset(r)
  <2> DEFINE j == [job[r] EXCEPT !.cleared = attempts]
  <2>1. j \in Job /\ Like(j, job[r]) /\ j.session = job[r].session
    BY <1>1, JobWith DEF Typed, TypeOK
  <2>2. PICK from, to \in Statement :
          /\ Goto(r, from, to)
          /\ \/ from = "clear" /\ to = "user"
             \/ from = "tail" /\ to = "commit"
    BY <1>7 DEF ClearFailures, ClearAfterReset, Statement
  <2>3. job' = [job EXCEPT ![r] = j]
    BY <1>7, <1>1 DEF ClearFailures, ClearAfterReset
  <2> HIDE DEF j
  <2>4. Fits(to, j)
    BY <1>1, <2>1, <2>2 DEF Fits, Like, Ending, Goto
  <2>5. QED BY <2>1, <2>2, <2>3, <2>4, <1>5 DEF Like
<1>8. CASE EndSessions(r)
  <2> DEFINE f == {s \in Session : Live(s) /\ s # job[r].session}
             d == IF job[r].kind = "twofactor" THEN {c \in Challenge : Unspent(c)} ELSE {}
             j == [job[r] EXCEPT !.found = f, !.retired = d, !.at = now]
             to == IF job[r].kind = "reset" THEN "tail" ELSE "commit"
  <2>1. f \in SUBSET Session /\ d \in SUBSET Challenge
    OBVIOUS
  <2>2. Goto(r, "sessions", to) /\ job' = [job EXCEPT ![r] = j]
    BY <1>8, <1>1 DEF EndSessions
  <2>3. (to = "tail" /\ job[r].kind = "reset") \/ to = "commit"
    OBVIOUS
  <2> HIDE DEF f, d, to
  <2>4. j \in Job /\ Like(j, job[r]) /\ j.session = job[r].session
    <3>1. job[r] \in Job /\ now \in Time
      BY <1>1
    <3>2. \A g \in SUBSET Session, e \in SUBSET Challenge, t \in Time :
            LET i == [job[r] EXCEPT !.found = g, !.retired = e, !.at = t]
            IN  i \in Job /\ Like(i, job[r]) /\ i.session = job[r].session
      BY <3>1, JobWith
    <3>3. QED BY <2>1, <3>1, <3>2
  <2> HIDE DEF j
  <2>5. Fits(to, j) /\ to \in Statement /\ "sessions" \in Statement
    BY <1>1, <2>2, <2>3, <2>4 DEF Fits, Like, Ending, Statement, Goto
  <2>6. QED BY <2>2, <2>4, <2>5, <1>5 DEF Like
<1>9. CASE SignOutAll(r)
  <2> DEFINE j == [job[r] EXCEPT !.at = now]
  <2>1. j \in Job /\ Like(j, job[r]) /\ j.session = job[r].session
    BY <1>1, JobWith
  <2>2. Goto(r, "all.sessions", "all.cutoff") /\ job' = [job EXCEPT ![r] = j]
    BY <1>9, <1>1 DEF SignOutAll
  <2> HIDE DEF j
  <2>3. /\ Fits("all.cutoff", j) /\ "all.cutoff" \in Statement
        /\ "all.sessions" \in Statement
    BY <1>1, <2>1, <2>2 DEF Fits, Like, Ending, Statement, Goto
  <2>4. QED BY <2>1, <2>2, <2>3, <1>5 DEF Like
<1>10. CASE \E s \in Session : OAuthOpen(r, s)
  <2>1. PICK s \in Session : OAuthOpen(r, s)
    BY <1>10
  <2> DEFINE j == [job[r] EXCEPT !.session = s]
  <2>2. j \in Job /\ Like(j, job[r]) /\ j.session = s
    BY <1>1, JobWith
  <2>3. Goto(r, "oauth.insert", "oauth.touch") /\ job' = [job EXCEPT ![r] = j]
    BY <2>1, <1>1 DEF OAuthOpen
  <2> HIDE DEF j
  <2>4. /\ Fits("oauth.touch", j) /\ "oauth.touch" \in Statement
        /\ "oauth.insert" \in Statement
    BY <1>1, <2>2, <2>3, Bounds DEF Fits, Like, Ending, Statement, Goto
  <2>5. QED BY <2>2, <2>3, <2>4, <1>5 DEF Like
<1>11. CASE \E s \in Session : Open(r, s)
  <2>1. PICK s \in Session : Open(r, s)
    BY <1>11
  <2> DEFINE j == [job[r] EXCEPT !.session = s, !.cleared = FALSE]
  <2>2. j \in Job /\ Like(j, job[r]) /\ j.session = s
    BY <1>1, JobWith
  <2>3. Goto(r, "open", "answered") /\ job' = [job EXCEPT ![r] = j]
    BY <2>1, <1>1 DEF Open
  <2> HIDE DEF j
  <2>4. /\ Fits("answered", j) /\ "answered" \in Statement /\ "open" \in Statement
    BY <1>1, <2>2, <2>3, Bounds DEF Fits, Like, Ending, Statement, Goto
  <2>5. QED BY <2>2, <2>3, <2>4, <1>5 DEF Like
<1>12. CASE \E n \in Step : VerifyCode(r, n)
  <2>1. PICK n \in Step : VerifyCode(r, n)
    BY <1>12
  <2> DEFINE j == [job[r] EXCEPT !.step = n]
  <2>2. j \in Job /\ Like(j, job[r]) /\ j.session = job[r].session /\ j.step = n
    BY <1>1, JobWith
  <2>3. Goto(r, "code", "spend") /\ job' = [job EXCEPT ![r] = j]
    BY <2>1, <1>1 DEF VerifyCode
  <2>4. job[r].secret \in Secret /\ n > job[r].lastStep
    BY <1>1, <2>1 DEF VerifyCode, Job
  <2> HIDE DEF j
  <2>5. Fits("spend", j) /\ "spend" \in Statement /\ "code" \in Statement
    BY <1>1, <2>2, <2>3, <2>4 DEF Fits, Like, Ending, Statement, Goto
  <2>6. QED BY <2>2, <2>3, <2>5, <1>5 DEF Like
<1>13. CASE \/ MintToken(r) \/ Commit(r) \/ StampCutoff(r) \/ ConfirmEnrolment(r) \/ Refuse(r)
            \/ \E c \in Challenge : Issue(r, c)
            \/ \E l \in Link : InsertLink(r, l)
  <2>1. Finish(r)
    BY <1>13 DEF MintToken, Commit, StampCutoff, ConfirmEnrolment, Refuse, Issue, InsertLink
  <2>2. QED BY <2>1, <1>3 DEF Goal
<1>14. QED
  BY <1>4, <1>6, <1>7, <1>8, <1>9, <1>10, <1>11, <1>12, <1>13 DEF Walk, Work, Goal

-----------------------------------------------------------------------------
(* Who writes what.                                                        *)

LEMMA WalkKeeps ==
  ASSUME NEW r \in Request, Refuse(r) \/ Start(r) \/ Walk(r)
  PROVE  /\ UNCHANGED <<account, nextSecret, sessions, challenges, links, now, history>>
         /\ attempts' \in {attempts, TRUE}
<1>1. CASE Refuse(r)
  BY <1>1 DEF Refuse
<1>2. CASE Start(r)
  BY <1>2 DEF Start, Begin, rows, SignInBegin, OAuthBegin, TwoFactorBegin, VerifyBegin, ResetBegin,
              ChangeBegin, SignOutAllBegin, ConfirmBegin
<1>3. CASE Walk(r)
  BY <1>3 DEF Walk, rows, ReadAccount, OAuthTouch, ClearFailures, TouchUser, ClaimLink, WriteAccount,
              EndSessions, ClearAfterReset
<1>4. QED BY <1>1, <1>2, <1>3

LEMMA AccountKept ==
  ASSUME [Next]_vars
  PROVE  \/ UNCHANGED account
         \/ Offer
         \/ \E r \in Request :
              Commit(r) \/ SpendCode(r) \/ StampCutoff(r) \/ ConfirmEnrolment(r)
<1>1. ASSUME NEW r \in Request, Work(r)
      PROVE  \/ UNCHANGED account
             \/ Commit(r) \/ SpendCode(r) \/ StampCutoff(r) \/ ConfirmEnrolment(r)
  BY <1>1 DEF Work, Attempt, ClaimChallenge, MintToken, CurrentAttempt, ClearCurrent, SignOutAll,
              RetireLinks, OAuthOpen, Open, Issue, VerifyCode, InsertLink
<1>2. ASSUME Ambient
      PROVE  UNCHANGED account \/ Offer
  BY <1>2 DEF Ambient, SignOut, ExpireChallenge, ExpireLink, Tick, rows
<1>3. QED
  BY <1>1, <1>2, NextSteps, WalkKeeps DEF vars, rows

LEMMA SessionsKept ==
  ASSUME [Next]_vars
  PROVE  \/ UNCHANGED sessions
         \/ \E s \in Session : SignOut(s)
         \/ \E r \in Request : \/ Commit(r) \/ MintToken(r) \/ SignOutAll(r)
                              \/ \E s \in Session : OAuthOpen(r, s) \/ Open(r, s)
<1>1. ASSUME NEW r \in Request, Work(r)
      PROVE  \/ UNCHANGED sessions
             \/ Commit(r) \/ MintToken(r) \/ SignOutAll(r)
             \/ \E s \in Session : OAuthOpen(r, s) \/ Open(r, s)
  BY <1>1 DEF Work, Attempt, ClaimChallenge, SpendCode, CurrentAttempt, ClearCurrent, StampCutoff,
              ConfirmEnrolment, RetireLinks, Issue, VerifyCode, InsertLink
<1>2. ASSUME Ambient
      PROVE  UNCHANGED sessions \/ \E s \in Session : SignOut(s)
  BY <1>2 DEF Ambient, ExpireChallenge, ExpireLink, Offer, Tick, rows
<1>3. QED
  BY <1>1, <1>2, NextSteps, WalkKeeps DEF vars, rows

LEMMA TokensKept ==
  ASSUME [Next]_vars
  PROVE  /\ \/ UNCHANGED challenges
            \/ \E c \in Challenge : ExpireChallenge(c)
            \/ \E r \in Request : Commit(r) \/ ClaimChallenge(r)
                                 \/ \E c \in Challenge : Issue(r, c)
         /\ \/ UNCHANGED links
            \/ \E l \in Link : ExpireLink(l)
            \/ \E r \in Request : Commit(r) \/ RetireLinks(r)
                                 \/ \E l \in Link : InsertLink(r, l)
<1>1. ASSUME NEW r \in Request, Work(r)
      PROVE  /\ \/ UNCHANGED challenges
                \/ Commit(r) \/ ClaimChallenge(r) \/ \E c \in Challenge : Issue(r, c)
             /\ \/ UNCHANGED links
                \/ Commit(r) \/ RetireLinks(r) \/ \E l \in Link : InsertLink(r, l)
  BY <1>1 DEF Work, Attempt, ClaimChallenge, SpendCode, MintToken, CurrentAttempt, ClearCurrent,
              SignOutAll, StampCutoff, ConfirmEnrolment, RetireLinks, OAuthOpen, Open, Issue,
              VerifyCode, InsertLink
<1>2. ASSUME Ambient
      PROVE  /\ UNCHANGED challenges \/ \E c \in Challenge : ExpireChallenge(c)
             /\ UNCHANGED links \/ \E l \in Link : ExpireLink(l)
  BY <1>2 DEF Ambient, SignOut, ExpireChallenge, ExpireLink, Offer, Tick, rows
<1>3. QED
  BY <1>1, <1>2, NextSteps, WalkKeeps DEF vars, rows

LEMMA HistoryKept ==
  ASSUME [Next]_vars
  PROVE  /\ \/ UNCHANGED accepted
            \/ \E r \in Request : SpendCode(r) \/ ConfirmEnrolment(r)
         /\ UNCHANGED setBy \/ \E r \in Request : Commit(r)
         /\ UNCHANGED ended \/ \E r \in Request : Commit(r) \/ SignOutAll(r)
         /\ UNCHANGED nextSecret \/ Offer
         /\ UNCHANGED now \/ Tick
<1>1. ASSUME NEW r \in Request, Work(r)
      PROVE  /\ UNCHANGED accepted \/ SpendCode(r) \/ ConfirmEnrolment(r)
             /\ UNCHANGED setBy \/ Commit(r)
             /\ UNCHANGED ended \/ Commit(r) \/ SignOutAll(r)
             /\ UNCHANGED <<nextSecret, now>>
  BY <1>1 DEF Work, history, Attempt, ClaimChallenge, SpendCode, MintToken, CurrentAttempt,
              ClearCurrent, Commit, SignOutAll, StampCutoff, ConfirmEnrolment, RetireLinks,
              OAuthOpen, Open, Issue, VerifyCode, InsertLink
<1>2. ASSUME Ambient
      PROVE  /\ UNCHANGED history
             /\ UNCHANGED nextSecret \/ Offer
             /\ UNCHANGED now \/ Tick
  BY <1>2 DEF Ambient, SignOut, ExpireChallenge, ExpireLink, Offer, Tick, rows
<1>3. QED
  BY <1>1, <1>2, NextSteps, WalkKeeps DEF vars, rows, history

-----------------------------------------------------------------------------
(* What the steps write.                                                   *)

\* The passwords requests may still set are within the bound.
LEMMA NextPassword ==
  ASSUME Typed, NEW r \in Request, job[r].kind \in {"reset", "change"}
  PROVE  account.password + 1 \in Password
<1>1. r \in Setting /\ Setting \subseteq Request /\ account.password \in Password
  BY DEF Setting, Typed, TypeOK, Account
<1>2. IsFiniteSet(Setting) /\ Cardinality(Setting) \in Nat
  BY <1>1, Bounds, FS_Subset, FS_CardinalityType
<1>3. Cardinality(Setting) # 0
  BY <1>1, <1>2, FS_EmptySet
<1>4. account.password + Cardinality(Setting) <= MaxPassword + Cardinality(Request)
  BY DEF Typed, RoomLeft
<1>5. QED BY <1>1, <1>2, <1>3, <1>4, Bounds DEF Password

LEMMA ChangedTyped ==
  ASSUME Typed, NEW r \in Request, pc[r] = "commit"
  PROVE  Changed(r) \in Account
<1>1. account \in Account /\ job[r] \in Job /\ job[r].kind # None
  BY DEF Typed, TypeOK, JobFits, Fits, Ending
<1>2. job[r].at \in Time \cup {0} /\ job[r].kind \in {"reset", "change", "twofactor"}
  BY <1>1 DEF Job
<1>3. CASE job[r].kind = "reset"
  <2>1. account.password + 1 \in Password
    BY <1>3, NextPassword
  <2>2. Changed(r) = [account EXCEPT !.password = account.password + 1, !.cutoff = job[r].at]
    BY <1>3 DEF Changed
  <2>3. \A v \in Password, t \in Time \cup {0} :
          [account EXCEPT !.password = v, !.cutoff = t] \in Account
    BY <1>1, AccountWith
  <2>4. QED BY <1>2, <2>1, <2>2, <2>3
<1>4. CASE job[r].kind = "change"
  <2>1. account.password + 1 \in Password
    BY <1>4, NextPassword
  <2>2. Changed(r) = [account EXCEPT !.password = account.password + 1]
    BY <1>4 DEF Changed
  <2>3. QED BY <1>1, <2>1, <2>2, AccountWith
<1>5. CASE job[r].kind = "twofactor"
  <2>1. Changed(r) = [account EXCEPT !.secret = 0, !.enrolled = FALSE, !.lastStep = 0,
                                     !.cutoff = job[r].at]
    BY <1>5 DEF Changed
  <2>2. QED BY <1>1, <1>2, <2>1, AccountWith
<1>6. QED BY <1>2, <1>3, <1>4, <1>5

LEMMA AccountTyped ==
  ASSUME Typed, [Next]_vars
  PROVE  account' \in Account
<1>1. /\ account \in Account /\ nextSecret \in 1..(MaxSecret + 1)
      /\ \A r \in Request : job[r] \in Job /\ Fits(pc[r], job[r])
  BY DEF Typed, TypeOK, JobFits
<1>2. CASE \E r \in Request : Commit(r)
  BY <1>2, ChangedTyped DEF Commit
<1>3. CASE \E r \in Request : SpendCode(r)
  <2>1. PICK r \in Request : SpendCode(r)
    BY <1>3
  <2>2. account' = [account EXCEPT !.lastStep = job[r].step] /\ job[r].step \in Step
    BY <1>1, <2>1 DEF SpendCode, Fits, Goto
  <2>3. QED BY <1>1, <2>2, AccountWith
<1>4. CASE \E r \in Request : StampCutoff(r)
  <2>1. PICK r \in Request : StampCutoff(r)
    BY <1>4
  <2>2. account' = [account EXCEPT !.cutoff = job[r].at] /\ job[r].at \in Time \cup {0}
    BY <1>1, <2>1 DEF StampCutoff, Job
  <2>3. QED BY <1>1, <2>2, AccountWith
<1>5. CASE \E r \in Request : ConfirmEnrolment(r)
  <2>1. PICK r \in Request : ConfirmEnrolment(r)
    BY <1>5
  <2>2. /\ account' = [account EXCEPT !.enrolled = TRUE, !.lastStep = job[r].step]
        /\ job[r].step \in Step
    BY <1>1, <2>1 DEF ConfirmEnrolment, Fits
  <2>3. QED BY <1>1, <2>2, AccountWith
<1>6. CASE Offer
  <2>1. /\ account' = [account EXCEPT !.secret = nextSecret, !.enrolled = FALSE,
                                      !.lastStep = 0]
        /\ nextSecret \in Secret
    BY <1>1, <1>6, Bounds DEF Offer, Secret
  <2>2. QED BY <1>1, <2>1, AccountWith
<1>7. CASE UNCHANGED account
  BY <1>1, <1>7
<1>8. QED
  BY <1>2, <1>3, <1>4, <1>5, <1>6, <1>7, AccountKept

LEMMA SessionsTyped ==
  ASSUME Typed, [Next]_vars
  PROVE  sessions' \in [Session -> SessionRow]
<1>1. /\ sessions \in [Session -> SessionRow] /\ now \in Time
      /\ \A s \in Session : sessions[s] \in SessionRow
      /\ \A r \in Request : job[r] \in Job /\ Fits(pc[r], job[r])
  BY DEF Typed, TypeOK, JobFits
<1>2. ASSUME NEW r \in Request, Commit(r)
      PROVE  sessions' \in [Session -> SessionRow]
  <2>1. Changed(r).password \in Password
    <3>1. Changed(r) \in Account
      BY <1>2, ChangedTyped DEF Commit
    <3>2. QED BY <3>1 DEF Account
  <2>2. /\ \A s \in Session : [sessions[s] EXCEPT !.status = "revoked"] \in SessionRow
        /\ \A s \in Session : [sessions[s] EXCEPT !.password = Changed(r).password] \in SessionRow
    BY <1>1, <2>1, SessionWith
  <2>3. QED BY <1>1, <1>2, <2>2 DEF Commit
<1>3. ASSUME NEW r \in Request, MintToken(r)
      PROVE  sessions' \in [Session -> SessionRow]
  <2>1. \A s \in Session : [sessions[s] EXCEPT !.iat = now] \in SessionRow
    BY <1>1, SessionWith
  <2>2. job[r].session \in Session
    BY <1>1, <1>3 DEF MintToken, Fits
  <2>3. QED BY <1>1, <1>3, <2>1, <2>2 DEF MintToken
<1>4. ASSUME \/ \E r \in Request : SignOutAll(r)
             \/ \E s \in Session : SignOut(s)
      PROVE  sessions' \in [Session -> SessionRow]
  <2>1. \A s \in Session : [sessions[s] EXCEPT !.status = "revoked"] \in SessionRow
    BY <1>1, SessionWith
  <2>2. QED BY <1>1, <1>4, <2>1 DEF SignOutAll, SignOut
<1>5. ASSUME NEW r \in Request, NEW s \in Session, Opened(r, s)
      PROVE  sessions' \in [Session -> SessionRow]
  <2>1. job[r].challenge \in Challenge \cup {None} /\ job[r].password \in Password \cup {0}
    BY <1>1 DEF Job
  <2>2. [status |-> "live", iat |-> 0, challenge |-> job[r].challenge,
         password |-> job[r].password] \in SessionRow
    BY <2>1 DEF SessionRow
  <2>3. QED BY <1>1, <1>5, <2>2 DEF Opened
<1>6. ASSUME NEW r \in Request, NEW s \in Session, OAuthOpen(r, s) \/ Open(r, s)
      PROVE  sessions' \in [Session -> SessionRow]
  BY <1>5, <1>6 DEF OAuthOpen, Open
<1>7. QED
  BY <1>1, <1>2, <1>3, <1>4, <1>6, SessionsKept

LEMMA ChallengesTyped ==
  ASSUME Typed, [Next]_vars
  PROVE  challenges' \in [Challenge -> Token]
<1>1. /\ challenges \in [Challenge -> Token]
      /\ \A c \in Challenge : challenges[c] \in Token
      /\ \A r \in Request : job[r] \in Job
  BY DEF Typed, TypeOK
<1>2. \A c \in Challenge : /\ [challenges[c] EXCEPT !.status = "spent"] \in Token
                           /\ [challenges[c] EXCEPT !.status = "expired"] \in Token
  BY <1>1, TokenWith
<1>3. ASSUME NEW r \in Request, Commit(r) \/ ClaimChallenge(r)
      PROVE  challenges' \in [Challenge -> Token]
  <2> DEFINE spent(c) == [challenges[c] EXCEPT !.status = "spent"]
  <2>1. \/ challenges' = [c \in Challenge |-> IF c \in job[r].retired THEN spent(c)
                                             ELSE challenges[c]]
        \/ challenges' = [challenges EXCEPT ![job[r].challenge] = spent(job[r].challenge)]
    BY <1>3 DEF Commit, ClaimChallenge
  <2>2. \A c \in Challenge : spent(c) \in Token
    BY <1>2
  <2> HIDE DEF spent
  <2>3. QED BY <1>1, <2>1, <2>2
<1>4. ASSUME \E c \in Challenge : ExpireChallenge(c)
      PROVE  challenges' \in [Challenge -> Token]
  BY <1>1, <1>2, <1>4 DEF ExpireChallenge
<1>5. ASSUME NEW r \in Request, NEW c \in Challenge, Issue(r, c)
      PROVE  challenges' \in [Challenge -> Token]
  <2>1. [status |-> "live", password |-> job[r].password] \in Token
    BY <1>1 DEF Job, Token
  <2>2. QED BY <1>1, <1>2, <1>5, <2>1 DEF Issue
<1>6. QED
  BY <1>1, <1>3, <1>4, <1>5, TokensKept

LEMMA LinksTyped ==
  ASSUME Typed, [Next]_vars
  PROVE  links' \in [Link -> {"absent", "live", "expired", "used"}]
<1> DEFINE Goal == links' \in [Link -> {"absent", "live", "expired", "used"}]
<1>1. links \in [Link -> {"absent", "live", "expired", "used"}]
  BY DEF Typed, TypeOK
<1>2. CASE \E r \in Request : Commit(r) \/ RetireLinks(r) \/ \E l \in Link : InsertLink(r, l)
  BY <1>1, <1>2 DEF Commit, RetireLinks, InsertLink
<1>3. CASE \E l \in Link : ExpireLink(l)
  BY <1>1, <1>3 DEF ExpireLink
<1>4. QED BY <1>1, <1>2, <1>3, TokensKept

LEMMA AttemptsTyped ==
  ASSUME Typed, [Next]_vars
  PROVE  attempts' \in BOOLEAN
<1>1. attempts \in BOOLEAN
  BY DEF Typed, TypeOK
<1>2. ASSUME NEW r \in Request, Work(r)
      PROVE  attempts' \in BOOLEAN
  BY <1>1, <1>2 DEF Work, Attempt, ClaimChallenge, SpendCode, MintToken, CurrentAttempt,
              ClearCurrent, Commit, SignOutAll, StampCutoff, ConfirmEnrolment, RetireLinks,
              OAuthOpen, Open, Issue, VerifyCode, InsertLink
<1>3. ASSUME Ambient
      PROVE  attempts' \in BOOLEAN
  BY <1>1, <1>3 DEF Ambient, SignOut, ExpireChallenge, ExpireLink, Offer, Tick, rows
<1>4. ASSUME NEW r \in Request, Refuse(r) \/ Start(r) \/ Walk(r)
      PROVE  attempts' \in BOOLEAN
  BY <1>1, <1>4, WalkKeeps
<1>5. CASE UNCHANGED vars
  BY <1>1, <1>5 DEF vars, rows
<1>6. QED BY <1>2, <1>3, <1>4, <1>5, NextSteps

LEMMA HistoryTyped ==
  ASSUME Typed, [Next]_vars
  PROVE  /\ accepted' \in [Code -> 0..2]
         /\ setBy' \in [Password -> Link \cup {None}]
         /\ ended' \subseteq Session
         /\ nextSecret' \in 1..(MaxSecret + 1)
         /\ now' \in Time
<1>1. /\ accepted \in [Code -> 0..2] /\ setBy \in [Password -> Link \cup {None}]
      /\ ended \subseteq Session /\ nextSecret \in 1..(MaxSecret + 1) /\ now \in Time
      /\ \A r \in Request : job[r] \in Job /\ Fits(pc[r], job[r])
  BY DEF Typed, TypeOK, JobFits
<1>2. accepted' \in [Code -> 0..2]
  <2>1. ASSUME NEW r \in Request, Accept(job[r].secret, job[r].step)
        PROVE  accepted' \in [Code -> 0..2]
    <3> DEFINE x == <<job[r].secret, job[r].step>>
               n == IF accepted[x] = 2 THEN 2 ELSE accepted[x] + 1
    <3>1. accepted' = [accepted EXCEPT ![x] = n]
      BY <2>1 DEF Accept
    <3>2. x \in Code => n \in 0..2
      BY <1>1
    <3> HIDE DEF x, n
    <3>3. QED BY <1>1, <3>1, <3>2
  <2>2. QED BY <1>1, <2>1, HistoryKept DEF SpendCode, ConfirmEnrolment
<1>3. setBy' \in [Password -> Link \cup {None}]
  <2>1. ASSUME NEW r \in Request, Commit(r)
        PROVE  setBy' \in [Password -> Link \cup {None}]
    BY <1>1, <2>1 DEF Commit, Job
  <2>2. QED BY <1>1, <2>1, HistoryKept
<1>4. ended' \subseteq Session
  BY <1>1, HistoryKept DEF Commit, SignOutAll
<1>5. nextSecret' \in 1..(MaxSecret + 1)
  BY <1>1, HistoryKept, Bounds DEF Offer
<1>6. now' \in Time
  BY <1>1, HistoryKept, Bounds DEF Tick, Time
<1>7. QED BY <1>2, <1>3, <1>4, <1>5, <1>6

-----------------------------------------------------------------------------
(* Room for the passwords still to be set.                                 *)

LEMMA PasswordKept ==
  ASSUME Typed, [Next]_vars
  PROVE  \/ account'.password = account.password
         \/ \E r \in Request : /\ Commit(r)
                              /\ job[r].kind \in {"reset", "change"}
                              /\ account'.password = account.password + 1
<1>1. account \in Account
  BY DEF Typed, TypeOK
<1>2. ASSUME NEW r \in Request, Commit(r)
      PROVE  \/ account'.password = account.password
             \/ /\ job[r].kind \in {"reset", "change"}
                /\ account'.password = account.password + 1
  <2>1. account' = Changed(r)
    BY <1>2 DEF Commit
  <2>2. \/ job[r].kind \in {"reset", "change"} /\ Changed(r).password = account.password + 1
        \/ Changed(r).password = account.password
    BY <1>1 DEF Changed, Account
  <2>3. QED BY <2>1, <2>2
<1>3. ASSUME \/ Offer
             \/ \E r \in Request : SpendCode(r) \/ StampCutoff(r) \/ ConfirmEnrolment(r)
      PROVE  account'.password = account.password
  BY <1>1, <1>3 DEF Offer, SpendCode, StampCutoff, ConfirmEnrolment, Account
<1>4. QED BY <1>2, <1>3, AccountKept

\* A request's kind is settled when it begins, and dropped when it ends.
LEMMA SettingKept ==
  ASSUME Typed, [Next]_vars
  PROVE  \/ Setting' \subseteq Setting
         \/ /\ account.password < MaxPassword
            /\ account'.password = account.password
<1>1. job \in [Request -> Job]
  BY DEF Typed, TypeOK
<1>2. ASSUME NEW r \in Request, NEW j \in Job, job' = [job EXCEPT ![r] = j],
             j.kind \in {job[r].kind, None}
      PROVE  Setting' \subseteq Setting
  BY <1>1, <1>2, Bounds DEF Setting
<1>3. ASSUME NEW r \in Request, Refuse(r) \/ Walk(r) \/ Work(r)
      PROVE  Setting' \subseteq Setting
  <2>1. PICK to \in Statement, j \in Job : OwnMove(r, to, j) /\ j.kind \in {job[r].kind, None}
    BY <1>3, Moved
  <2>2. QED BY <2>1, <1>2 DEF OwnMove
<1>4. ASSUME NEW r \in Request, Start(r)
      PROVE  \/ Setting' \subseteq Setting
             \/ account.password < MaxPassword /\ account'.password = account.password
  <2>1. CASE \E l \in Link : ResetBegin(r, l)
    BY <2>1 DEF ResetBegin, RoomForPassword, Begin, rows
  <2>2. CASE \E s \in Session : ChangeBegin(r, s)
    BY <2>2 DEF ChangeBegin, RoomForPassword, Begin, rows
  <2>3. ASSUME NEW j \in Job, job' = [job EXCEPT ![r] = j], j.kind \in {None, "twofactor"}
        PROVE  Setting' \subseteq Setting
    BY <1>1, <2>3, Bounds DEF Setting
  <2>4. CASE \/ SignInBegin(r) \/ OAuthBegin(r) \/ TwoFactorBegin(r)
             \/ \E c \in Challenge : VerifyBegin(r, c)
             \/ \E s \in Session : SignOutAllBegin(r, s)
             \/ \E s \in Session, n \in Step : ConfirmBegin(r, s, n)
    <3>1. PICK to \in Statement, j \in Job : OwnMove(r, to, j)
      BY <1>4, Started
    <3>2. job'[r].kind \in {None, "twofactor"}
      <4>1. ASSUME NEW at, NEW i, Begin(r, at, i), i.kind \in {None, "twofactor"}
            PROVE  job'[r].kind \in {None, "twofactor"}
        BY <1>1, <4>1 DEF Begin
      <4>2. CASE SignInBegin(r) \/ OAuthBegin(r) \/ \E s \in Session : SignOutAllBegin(r, s)
        BY <4>1, <4>2 DEF SignInBegin, OAuthBegin, SignOutAllBegin, NoJob
      <4>3. CASE TwoFactorBegin(r)
        BY <4>1, <4>3 DEF TwoFactorBegin, NoJob
      <4>4. CASE \E c \in Challenge : VerifyBegin(r, c)
        BY <4>1, <4>4 DEF VerifyBegin, NoJob
      <4>5. CASE \E s \in Session, n \in Step : ConfirmBegin(r, s, n)
        BY <4>1, <4>5 DEF ConfirmBegin, NoJob
      <4>6. QED BY <2>4, <4>2, <4>3, <4>4, <4>5
    <3>3. job' = [job EXCEPT ![r] = j] /\ j = job'[r]
      BY <1>1, <3>1 DEF OwnMove
    <3>4. QED BY <2>3, <3>2, <3>3
  <2>5. QED BY <1>4, <2>1, <2>2, <2>4 DEF Start
<1>5. CASE UNCHANGED job
  BY <1>5 DEF Setting
<1>6. Ambient => UNCHANGED job
  BY DEF Ambient, SignOut, ExpireChallenge, ExpireLink, Offer, Tick
<1>7. UNCHANGED vars => UNCHANGED job
  BY DEF vars
<1>8. QED BY <1>3, <1>4, <1>5, <1>6, <1>7, NextSteps

LEMMA RoomKept ==
  ASSUME Typed, [Next]_vars
  PROVE  RoomLeft'
<1>1. /\ account.password \in Nat /\ account'.password \in Nat
      /\ account.password + Cardinality(Setting) <= MaxPassword + Cardinality(Request)
  <2>1. account.password \in Password /\ account'.password \in Password
    BY AccountTyped DEF Typed, TypeOK, Account
  <2>2. QED BY <2>1 DEF Typed, RoomLeft, Password
<1>2. /\ IsFiniteSet(Setting) /\ Cardinality(Setting) \in Nat
      /\ IsFiniteSet(Setting') /\ Cardinality(Setting') \in Nat
      /\ Cardinality(Setting') <= Cardinality(Request)
  <2>1. Setting \subseteq Request /\ Setting' \subseteq Request
    BY DEF Setting
  <2>2. QED BY <2>1, Bounds, FS_Subset, FS_CardinalityType
<1>3. Setting' \subseteq Setting => Cardinality(Setting') <= Cardinality(Setting)
  BY <1>2, FS_Subset
<1>4. ASSUME NEW r \in Request, Commit(r), job[r].kind \in {"reset", "change"}
      PROVE  Cardinality(Setting') <= Cardinality(Setting) - 1
  <2>1. Setting' \subseteq Setting \ {r} /\ r \in Setting
    BY <1>4, Bounds DEF Commit, Finish, Setting, NoJob, Typed, TypeOK
  <2>2. /\ IsFiniteSet(Setting \ {r})
        /\ Cardinality(Setting \ {r}) = Cardinality(Setting) - 1
    BY <2>1, <1>2, FS_RemoveElement
  <2>3. QED BY <2>1, <2>2, FS_Subset
<1>5. QED
  <2>1. CASE account'.password = account.password
    <3>1. CASE Setting' \subseteq Setting
      BY <1>1, <1>2, <1>3, <2>1, <3>1, Bounds DEF RoomLeft
    <3>2. CASE account.password < MaxPassword
      BY <1>1, <1>2, <2>1, <3>2, Bounds DEF RoomLeft
    <3>3. QED BY <3>1, <3>2, SettingKept
  <2>2. CASE \E r \in Request : /\ Commit(r)
                               /\ job[r].kind \in {"reset", "change"}
                               /\ account'.password = account.password + 1
    BY <1>1, <1>2, <1>4, <2>2, Bounds DEF RoomLeft
  <2>3. QED BY <2>1, <2>2, PasswordKept

LEMMA JobsTyped ==
  ASSUME Typed, [Next]_vars
  PROVE  /\ pc' \in [Request -> Statement]
         /\ job' \in [Request -> Job]
         /\ \A r \in Request : JobFits(r)'
<1> DEFINE Goal == /\ pc' \in [Request -> Statement]
                   /\ job' \in [Request -> Job]
                   /\ \A r \in Request : JobFits(r)'
<1>1. /\ pc \in [Request -> Statement] /\ job \in [Request -> Job]
      /\ \A r \in Request : Fits(pc[r], job[r])
  BY DEF Typed, TypeOK, JobFits
<1>2. ASSUME NEW r \in Request, NEW to \in Statement, NEW j \in Job, OwnMove(r, to, j)
      PROVE  Goal
  <2>1. pc' = [pc EXCEPT ![r] = to] /\ job' = [job EXCEPT ![r] = j] /\ Fits(to, j)
    BY <1>2 DEF OwnMove
  <2>2. \A q \in Request : Fits(pc'[q], job'[q])
    BY <1>1, <2>1
  <2>3. QED BY <1>1, <2>1, <2>2 DEF JobFits
<1>3. ASSUME pc' = pc, job' = job
      PROVE  Goal
  BY <1>1, <1>3 DEF JobFits
<1> SUFFICES Goal
  OBVIOUS
<1> HIDE DEF Goal
<1>4. Ambient => pc' = pc /\ job' = job
  BY DEF Ambient, SignOut, ExpireChallenge, ExpireLink, Offer, Tick
<1>5. UNCHANGED vars => pc' = pc /\ job' = job
  BY DEF vars
<1>6. ASSUME NEW r \in Request, Refuse(r) \/ Start(r) \/ Walk(r) \/ Work(r)
      PROVE  Goal
  <2>1. \E to \in Statement, j \in Job : OwnMove(r, to, j)
    <3>1. CASE Start(r)
      BY <3>1, Started
    <3>2. CASE Refuse(r) \/ Walk(r) \/ Work(r)
      BY <3>2, Moved
    <3>3. QED BY <1>6, <3>1, <3>2
  <2>2. QED BY <1>2, <2>1
<1>7. CASE Ambient \/ UNCHANGED vars
  BY <1>3, <1>4, <1>5, <1>7
<1>8. CASE \E r \in Request : Refuse(r) \/ Start(r) \/ Walk(r) \/ Work(r)
  BY <1>6, <1>8
<1>9. QED BY <1>7, <1>8, NextSteps

LEMMA TypedNext ==
  ASSUME Typed, [Next]_vars
  PROVE  Typed'
<1>1. TypeOK'
  BY AccountTyped, SessionsTyped, ChallengesTyped, LinksTyped, AttemptsTyped, HistoryTyped,
     JobsTyped DEF TypeOK
<1>2. QED BY <1>1, RoomKept, JobsTyped DEF Typed

(* Every state is well typed, and each request knows what the statement it  *)
(* is at reads from its job: the session it answers with, the challenge and *)
(* secret of its second factor, the link it redeems.  No run needs more     *)
(* passwords than one per request beyond the bound.                         *)
THEOREM Typing == Spec => [](TypeOK /\ Typed)
<1>1. Init => Typed
  BY TypedInit
<1>2. Typed /\ [Next]_vars => Typed'
  BY TypedNext
<1>3. Typed => TypeOK
  BY DEF Typed
<1>4. QED BY <1>1, <1>2, <1>3, PTL DEF Spec
=============================================================================
