---------------------------- MODULE SignInSafety ----------------------------
(***************************************************************************)
(* The safety of SignIn, for any number of requests, sessions, challenges, *)
(* links, passwords, secrets and ticks.                                    *)
(***************************************************************************)
EXTENDS SignInProofs

-----------------------------------------------------------------------------
(* Steps, seen from a request.                                             *)

Moves(r) == Refuse(r) \/ Start(r) \/ Walk(r) \/ Work(r)

\* The steps that bring a request to a statement.
Comes(r) ==
  /\ pc'[r] = "attempt" => SignInBegin(r)
  /\ pc'[r] = "password" => Attempt(r)
  /\ pc'[r] = "challenge" => \E c \in Challenge : VerifyBegin(r, c)
  /\ pc'[r] = "code" => ClaimChallenge(r)
  /\ pc'[r] = "spend" => \E n \in Step : VerifyCode(r, n)
  /\ pc'[r] = "clear" => SpendCode(r) \/ ReadAccount(r)
  /\ pc'[r] = "user" => ClearFailures(r)
  /\ pc'[r] = "open" => TouchUser(r)
  /\ pc'[r] = "oauth.insert" => OAuthBegin(r)
  /\ pc'[r] = "oauth.touch" => \E s \in Session : OAuthOpen(r, s)
  /\ pc'[r] = "answered" => OAuthTouch(r) \/ \E s \in Session : Open(r, s)
  /\ pc'[r] = "lock" => ClaimLink(r) \/ ClearCurrent(r) \/ TwoFactorBegin(r)
  /\ pc'[r] = "sessions" => WriteAccount(r)
  /\ pc'[r] \in {"tail", "commit"} => EndSessions(r) \/ ClearAfterReset(r)

LEMMA Coming ==
  ASSUME Typed, NEW r \in Request, Moves(r)
  PROVE  Comes(r)
<1>1. pc \in [Request -> Statement]
  BY DEF Typed, TypeOK
<1>2. CASE Refuse(r)
  BY <1>1, <1>2 DEF Refuse, Finish, Comes
<1>3. CASE Start(r)
  <2>1. ASSUME NEW to, NEW j, Begin(r, to, j)
        PROVE  pc'[r] = to
    BY <1>1, <2>1 DEF Begin, Goto
  <2>2. \/ \E c \in Challenge : VerifyBegin(r, c)
        \/ OAuthBegin(r)
        \/ SignInBegin(r) /\ pc'[r] = "attempt"
        \/ TwoFactorBegin(r) /\ pc'[r] = "lock"
        \/ pc'[r] \in {"claim", "current", "all.sessions", "confirm"}
    BY <1>3, <2>1 DEF Start, SignInBegin, TwoFactorBegin, ResetBegin, ChangeBegin,
                      SignOutAllBegin, ConfirmBegin
  <2>3. ASSUME NEW c \in Challenge, VerifyBegin(r, c)
        PROVE  pc'[r] = "challenge"
    BY <2>1, <2>3 DEF VerifyBegin
  <2>4. OAuthBegin(r) => pc'[r] \in {"issue", "oauth.insert"}
    BY <2>1 DEF OAuthBegin
  <2>5. QED BY <2>2, <2>3, <2>4 DEF Comes
<1>4. CASE Walk(r)
  BY <1>1, <1>4 DEF Walk, ReadAccount, OAuthTouch, ClearFailures, TouchUser, ClaimLink, WriteAccount,
                    EndSessions, ClearAfterReset, Goto, Comes
<1>5. CASE Work(r)
  <2>1. CASE \/ MintToken(r) \/ Commit(r) \/ StampCutoff(r) \/ ConfirmEnrolment(r)
             \/ \E c \in Challenge : Issue(r, c)
             \/ \E l \in Link : InsertLink(r, l)
    <3>1. Finish(r)
      BY <2>1 DEF MintToken, Commit, StampCutoff, ConfirmEnrolment, Issue, InsertLink
    <3>2. QED BY <1>1, <3>1 DEF Finish, Comes
  <2>2. CASE \/ Attempt(r) \/ ClaimChallenge(r) \/ SpendCode(r) \/ CurrentAttempt(r)
             \/ ClearCurrent(r) \/ SignOutAll(r) \/ RetireLinks(r)
    BY <1>1, <2>2 DEF Attempt, ClaimChallenge, SpendCode, CurrentAttempt, ClearCurrent, SignOutAll,
                      RetireLinks, Goto, Comes
  <2>3. CASE \/ \E s \in Session : OAuthOpen(r, s) \/ Open(r, s)
             \/ \E n \in Step : VerifyCode(r, n)
    <3>1. /\ \A s \in Session : OAuthOpen(r, s) => pc'[r] = "oauth.touch"
          /\ \A s \in Session : Open(r, s) => pc'[r] = "answered"
          /\ \A n \in Step : VerifyCode(r, n) => pc'[r] = "spend"
      BY <1>1 DEF OAuthOpen, Open, VerifyCode, Goto
    <3>2. QED BY <2>3, <3>1 DEF Comes
  <2>4. QED BY <1>5, <2>1, <2>2, <2>3 DEF Work
<1>6. QED BY <1>2, <1>3, <1>4, <1>5 DEF Moves

\* Everybody else stays where they are.
Others(r) == \A q \in Request \ {r} : pc'[q] = pc[q] /\ job'[q] = job[q]

LEMMA Stepping ==
  ASSUME Typed, [Next]_vars
  PROVE  \/ \E r \in Request : Moves(r) /\ Comes(r) /\ Others(r)
         \/ pc' = pc /\ job' = job /\ (Ambient \/ UNCHANGED vars)
<1>1. ASSUME NEW r \in Request, Moves(r)
      PROVE  Comes(r) /\ Others(r)
  <2>1. \E to \in Statement, j \in Job : OwnMove(r, to, j)
    <3>1. CASE Start(r)
      BY <3>1, Started
    <3>2. CASE Refuse(r) \/ Walk(r) \/ Work(r)
      BY <3>2, Moved
    <3>3. QED BY <1>1, <3>1, <3>2 DEF Moves
  <2>2. Others(r)
    BY <2>1 DEF OwnMove, Others, Typed, TypeOK
  <2>3. QED BY <1>1, <2>2, Coming
<1>2. Ambient => pc' = pc /\ job' = job
  BY DEF Ambient, SignOut, ExpireChallenge, ExpireLink, Offer, Tick
<1>3. UNCHANGED vars => pc' = pc /\ job' = job
  BY DEF vars
<1>4. \/ \E r \in Request : Moves(r)
      \/ Ambient
      \/ UNCHANGED vars
  BY NextSteps DEF Moves
<1>5. QED BY <1>1, <1>2, <1>3, <1>4

-----------------------------------------------------------------------------
(* What was signed out stays out.                                          *)

\* One transaction at a time holds the account's row.
UserExclusive ==
  \A q, r \in Request : UserHeld(q) /\ UserHeld(r) => q = r

Ended(r) == pc[r] \in {"tail", "commit"}

\* A session that a transaction ending them all has not found, and will not end,
\* came after it looked: its token is not minted, and cannot be before the
\* transaction lets go of the account.
Unminted(s) ==
  /\ sessions[s].iat = 0
  /\ \A q \in Request : pc[q] = "answered" => job[q].session # s

NoneEscapes ==
  \A r \in Request, s \in Session :
    Ended(r) /\ Live(s) /\ s \notin job[r].found /\ s # job[r].session => Unminted(s)

SessionsThere ==
  \A r \in Request :
    pc[r] \in {"oauth.touch", "answered"} => sessions[job[r].session].status # "absent"

EndedRevoked == \A s \in ended : sessions[s].status = "revoked"

EndingInv == UserExclusive /\ NoneEscapes /\ SessionsThere /\ EndedRevoked

LEMMA ExclusiveKept ==
  ASSUME Typed, UserExclusive, [Next]_vars
  PROVE  UserExclusive'
<1>1. CASE pc' = pc
  BY <1>1 DEF UserExclusive, UserHeld
<1>2. ASSUME NEW r \in Request, Comes(r), Others(r)
      PROVE  UserExclusive'
  <2>1. UserHeld(r)' => UserHeld(r) \/ UserFree(r)
    BY <1>2 DEF Comes, UserHeld, TouchUser, WriteAccount, EndSessions, ClearAfterReset, Goto
  <2>2. \A q \in Request \ {r} : UserHeld(q)' <=> UserHeld(q)
    BY <1>2 DEF Others, UserHeld
  <2>3. QED BY <2>1, <2>2 DEF UserExclusive, UserFree
<1>3. QED BY <1>1, <1>2, Stepping

\* A session's row, once there, stays; once revoked, it stays revoked.
LEMMA SessionsLast ==
  ASSUME Typed, [Next]_vars, NEW s \in Session
  PROVE  /\ sessions[s].status # "absent" => sessions'[s].status # "absent"
         /\ sessions[s].status = "revoked" => sessions'[s].status = "revoked"
<1>1. sessions \in [Session -> SessionRow] /\ \A t \in Session : sessions[t] \in SessionRow
  BY DEF Typed, TypeOK
<1>2. ASSUME NEW r \in Request, Commit(r)
      PROVE  sessions'[s].status \in {sessions[s].status, "revoked"}
  BY <1>1, <1>2 DEF Commit, SessionRow
<1>3. ASSUME NEW r \in Request, MintToken(r)
      PROVE  sessions'[s].status = sessions[s].status
  BY <1>1, <1>3 DEF MintToken, SessionRow
<1>4. ASSUME \/ \E r \in Request : SignOutAll(r)
             \/ \E t \in Session : SignOut(t)
      PROVE  sessions'[s].status \in {sessions[s].status, "revoked"}
  BY <1>1, <1>4 DEF SignOutAll, SignOut, SessionRow
<1>5. ASSUME NEW r \in Request, NEW t \in Session, OAuthOpen(r, t) \/ Open(r, t)
      PROVE  \/ sessions'[s] = sessions[s]
             \/ sessions[s].status = "absent" /\ sessions'[s].status = "live"
  BY <1>1, <1>5 DEF OAuthOpen, Open, Opened, Takes
<1>6. QED BY <1>2, <1>3, <1>4, <1>5, SessionsKept

LEMMA EscapesKept ==
  ASSUME Typed, EndingInv, [Next]_vars
  PROVE  NoneEscapes'
<1> SUFFICES ASSUME NEW r \in Request, NEW s \in Session,
                    Ended(r)', Live(s)', s \notin job'[r].found, s # job'[r].session
             PROVE  Unminted(s)'
  BY DEF NoneEscapes
<1>1. /\ sessions \in [Session -> SessionRow] /\ \A t \in Session : sessions[t] \in SessionRow
      /\ job \in [Request -> Job] /\ \A q \in Request : job[q] \in Job /\ Fits(pc[q], job[q])
  BY DEF Typed, TypeOK, JobFits
\* The transaction itself moves: it looks for sessions, or goes on.
<1>2. ASSUME Comes(r), Others(r)
      PROVE  Unminted(s)'
  <2>1. CASE EndSessions(r)
    <3>1. job'[r].found = {t \in Session : Live(t) /\ t # job[r].session}
          /\ job'[r].session = job[r].session /\ sessions' = sessions
      BY <1>1, <2>1 DEF EndSessions, rows, Job
    <3>2. QED BY <3>1 DEF Live
  <2>2. CASE ClearAfterReset(r)
    <3>1. /\ job'[r].found = job[r].found /\ job'[r].session = job[r].session
          /\ sessions' = sessions /\ Ended(r) /\ pc'[r] # "answered"
      BY <1>1, <2>2 DEF ClearAfterReset, rows, Job, Goto, Ended, Typed, TypeOK
    <3>2. Unminted(s)
      BY <3>1 DEF NoneEscapes, EndingInv, Live
    <3>3. QED BY <1>2, <3>1, <3>2 DEF Unminted, Others
  <2>3. QED BY <1>2, <2>1, <2>2 DEF Comes, Ended
\* Somebody else does, who cannot have the account's row.
<1>3. ASSUME NEW p \in Request \ {r}, Moves(p), Comes(p), Others(p)
      PROVE  Unminted(s)'
  <2>1. Ended(r) /\ job'[r] = job[r] /\ UserHeld(r)
    BY <1>3 DEF Others, Ended, UserHeld
  <2>2. ~UserHeld(p) /\ ~UserFree(p)
    BY <2>1 DEF UserExclusive, EndingInv, UserFree
  <2>3. pc'[p] # "answered"
    BY <1>3, <2>2 DEF Comes, OAuthTouch, Open, Goto, UserHeld
  <2>4. Live(s) => Unminted(s)
    BY <2>1 DEF NoneEscapes, EndingInv
  <2>5. ASSUME Unminted(s), sessions'[s].iat = 0
        PROVE  Unminted(s)'
    BY <1>3, <2>3, <2>5 DEF Unminted, Others
  <2>6. CASE sessions' = sessions
    BY <2>4, <2>5, <2>6 DEF Live, Unminted
  <2>7. CASE MintToken(p)
    <3>1. sessions'[s].status = sessions[s].status
      BY <1>1, <2>7 DEF MintToken, SessionRow
    <3>2. job[p].session # s
      BY <2>4, <2>7, <3>1 DEF MintToken, Live, Unminted
    <3>3. sessions'[s] = sessions[s]
      BY <1>1, <2>7, <3>2 DEF MintToken
    <3>4. QED BY <2>4, <2>5, <3>1, <3>3 DEF Live, Unminted
  <2>8. CASE SignOutAll(p)
    BY <1>1, <2>8 DEF SignOutAll, Live, SessionRow
  <2>9. ASSUME NEW t \in Session, OAuthOpen(p, t)
        PROVE  Unminted(s)'
    <3>1. CASE s = t
      <4>1. sessions[t].status = "absent" /\ sessions'[t].iat = 0
        BY <1>1, <2>9 DEF OAuthOpen, Opened, Takes
      <4>2. \A q \in Request : pc[q] = "answered" => job[q].session # s
        BY <3>1, <4>1 DEF SessionsThere, EndingInv
      <4>3. QED BY <1>3, <2>3, <3>1, <4>1, <4>2 DEF Unminted, Others
    <3>2. CASE s # t
      <4>1. sessions'[s] = sessions[s]
        BY <1>1, <2>9, <3>2 DEF OAuthOpen, Opened
      <4>2. QED BY <2>4, <2>5, <4>1 DEF Live, Unminted
    <3>3. QED BY <3>1, <3>2
  <2>10. \/ sessions' = sessions \/ MintToken(p) \/ SignOutAll(p)
         \/ \E t \in Session : OAuthOpen(p, t)
    <3>1. Work(p) => \/ sessions' = sessions
                     \/ MintToken(p) \/ SignOutAll(p) \/ \E t \in Session : OAuthOpen(p, t)
      BY <2>2 DEF Work, Attempt, ClaimChallenge, SpendCode, CurrentAttempt, ClearCurrent, Commit,
                  StampCutoff, ConfirmEnrolment, RetireLinks, Open, Goto, Issue, VerifyCode,
                  InsertLink, UserHeld
    <3>2. QED BY <1>3, <3>1, WalkKeeps DEF Moves
  <2>11. QED BY <2>6, <2>7, <2>8, <2>9, <2>10
\* Nobody does.
<1>4. ASSUME pc' = pc, job' = job, Ambient \/ UNCHANGED vars
      PROVE  Unminted(s)'
  <2>1. Live(s) => Unminted(s)
    BY <1>4 DEF NoneEscapes, EndingInv, Ended
  <2>2. sessions' = sessions \/ \E t \in Session : SignOut(t)
    BY <1>4 DEF Ambient, ExpireChallenge, ExpireLink, Offer, Tick, rows, vars
  <2>3. Live(s) /\ sessions'[s].iat = sessions[s].iat
    BY <1>1, <2>2 DEF SignOut, Live, SessionRow
  <2>4. QED BY <1>4, <2>1, <2>3 DEF Unminted
<1>5. QED BY <1>2, <1>3, <1>4, Stepping

LEMMA EndedKept ==
  ASSUME Typed, EndingInv, [Next]_vars
  PROVE  SessionsThere' /\ EndedRevoked'
<1>1. /\ sessions \in [Session -> SessionRow] /\ \A t \in Session : sessions[t] \in SessionRow
      /\ job \in [Request -> Job] /\ \A q \in Request : job[q] \in Job /\ Fits(pc[q], job[q])
      /\ ended \subseteq Session
  BY DEF Typed, TypeOK, JobFits
<1>2. SessionsThere'
  <2> SUFFICES ASSUME NEW r \in Request, pc'[r] \in {"oauth.touch", "answered"}
               PROVE  sessions'[job'[r].session].status # "absent"
    BY DEF SessionsThere
  <2>1. CASE pc'[r] = pc[r] /\ job'[r] = job[r]
    <3>1. job[r].session \in Session /\ sessions[job[r].session].status # "absent"
      BY <1>1, <2>1 DEF Fits, SessionsThere, EndingInv
    <3>2. QED BY <2>1, <3>1, SessionsLast
  <2>2. CASE OAuthTouch(r)
    <3>1. /\ job' = job /\ sessions' = sessions
          /\ sessions[job[r].session].status # "absent"
      BY <2>2 DEF OAuthTouch, rows, Goto, SessionsThere, EndingInv
    <3>2. QED BY <3>1
  <2>3. ASSUME NEW s \in Session, OAuthOpen(r, s) \/ Open(r, s)
        PROVE  sessions'[job'[r].session].status # "absent"
    <3>1. job'[r].session = s
      BY <1>1, <2>3 DEF OAuthOpen, Open, Job
    <3>2. sessions'[s].status = "live"
      BY <1>1, <2>3 DEF OAuthOpen, Open, Opened
    <3>3. QED BY <3>1, <3>2
  <2>4. QED BY <2>1, <2>2, <2>3, Stepping DEF Others, Comes
<1>3. EndedRevoked'
  <2>1. CASE ended' = ended
    BY <1>1, <2>1, SessionsLast DEF EndedRevoked, EndingInv
  <2>2. ASSUME NEW r \in Request, Commit(r)
        PROVE  EndedRevoked'
    <3>1. ASSUME NEW s \in Session, Honoured(s), s # job[r].session
          PROVE  sessions'[s].status = "revoked"
      <4>1. s \in job[r].found
        <5>1. sessions[s].iat # 0
          BY <3>1, Bounds DEF Honoured, Typed, TypeOK, Account, Time
        <5>2. QED BY <2>2, <3>1, <5>1 DEF NoneEscapes, EndingInv, Ended, Commit, Unminted, Honoured
      <4>2. QED BY <1>1, <2>2, <4>1 DEF Commit, SessionRow
    <3>2. QED BY <1>1, <2>2, <3>1, SessionsLast DEF EndedRevoked, EndingInv, Commit
  <2>3. ASSUME NEW r \in Request, SignOutAll(r)
        PROVE  EndedRevoked'
    <3>1. ASSUME NEW s \in Session, Honoured(s)
          PROVE  sessions'[s].status = "revoked"
      BY <1>1, <2>3, <3>1 DEF SignOutAll, Honoured, SessionRow
    <3>2. QED BY <1>1, <2>3, <3>1, SessionsLast DEF EndedRevoked, EndingInv, SignOutAll
  <2>4. QED BY <2>1, <2>2, <2>3, HistoryKept
<1>4. QED BY <1>2, <1>3

(* For any number of requests and sessions: a session in use when a reset, a *)
(* change of password or a sign-out everywhere ends them all is never        *)
(* honoured again.                                                           *)
THEOREM OutStaysOut == Spec => []SignedOutStaysOut
<1>1. Init => EndingInv
  BY Bounds DEF Init, EndingInv, UserExclusive, NoneEscapes, SessionsThere, EndedRevoked, UserHeld, Ended
<1>2. Typed /\ EndingInv /\ [Next]_vars => EndingInv'
  <2> SUFFICES ASSUME Typed, EndingInv, [Next]_vars
               PROVE  EndingInv'
    OBVIOUS
  <2>1. QED BY ExclusiveKept, EscapesKept, EndedKept DEF EndingInv
<1>3. Typed /\ EndingInv => SignedOutStaysOut
  BY DEF Typed, TypeOK, EndingInv, EndedRevoked, SignedOutStaysOut, Honoured, Live
<1>4. QED BY <1>1, <1>2, <1>3, Typing, PTL DEF Spec

-----------------------------------------------------------------------------
(* A challenge opens one session at most.                                  *)

Carries(r, c) ==
  pc[r] \in {"code", "spend", "clear", "user", "open"} /\ job[r].challenge = c

Spent(c) == challenges[c].status = "spent"

CarriedSpent == \A r \in Request, c \in Challenge : Carries(r, c) => Spent(c)

CarriedByOne ==
  \A q, r \in Request, c \in Challenge : Carries(q, c) /\ Carries(r, c) => q = r

OpenedSpent ==
  \A s \in Session, c \in Challenge :
    sessions[s].challenge = c => Spent(c) /\ \A r \in Request : ~Carries(r, c)

FirstFactorAlone ==
  \A r \in Request :
    pc[r] \in {"attempt", "password", "oauth.insert"} => job[r].challenge = None

ChallengeInv ==
  CarriedSpent /\ CarriedByOne /\ OpenedSpent /\ FirstFactorAlone /\ ChallengesOpenOne

\* A challenge that is spent stays spent.
LEMMA SpentLasts ==
  ASSUME Typed, [Next]_vars, NEW c \in Challenge, Spent(c)
  PROVE  Spent(c)'
<1>1. challenges \in [Challenge -> Token] /\ challenges[c] \in Token
  BY DEF Typed, TypeOK
<1>2. ASSUME NEW r \in Request, Commit(r) \/ ClaimChallenge(r)
      PROVE  Spent(c)'
  BY <1>1, <1>2 DEF Commit, ClaimChallenge, Spent, Token
<1>3. ASSUME NEW r \in Request, NEW d \in Challenge, Issue(r, d)
      PROVE  Spent(c)'
  BY <1>1, <1>3 DEF Issue, Takes, Spent, Token
<1>4. ASSUME NEW d \in Challenge, ExpireChallenge(d)
      PROVE  Spent(c)'
  BY <1>1, <1>4 DEF ExpireChallenge, Spent, Token
<1>5. QED BY <1>2, <1>3, <1>4, TokensKept DEF Spent

LEMMA AloneKept ==
  ASSUME Typed, FirstFactorAlone, [Next]_vars
  PROVE  FirstFactorAlone'
<1> SUFFICES ASSUME NEW r \in Request, pc'[r] \in {"attempt", "password", "oauth.insert"}
             PROVE  job'[r].challenge = None
  BY DEF FirstFactorAlone
<1>1. job \in [Request -> Job]
  BY DEF Typed, TypeOK
<1>2. CASE pc'[r] = pc[r] /\ job'[r] = job[r]
  BY <1>2 DEF FirstFactorAlone
<1>3. CASE Attempt(r)
  BY <1>3 DEF Attempt, Goto, FirstFactorAlone
<1>4. CASE SignInBegin(r) \/ OAuthBegin(r)
  <2>1. job' = [job EXCEPT ![r] = NoJob]
    BY <1>4 DEF SignInBegin, OAuthBegin, Begin
  <2>2. QED BY <1>1, <2>1 DEF NoJob
<1>5. QED BY <1>2, <1>3, <1>4, Stepping DEF Others, Comes

\* A challenge comes to be carried by being claimed, unspent, and then is spent.
LEMMA Claiming ==
  ASSUME Typed, FirstFactorAlone, NEW r \in Request, Comes(r), NEW c \in Challenge, Carries(r, c)'
  PROVE  Carries(r, c) \/ (ClaimChallenge(r) /\ ~Spent(c) /\ Spent(c)')
<1>1. /\ job \in [Request -> Job] /\ job[r] \in Job /\ challenges \in [Challenge -> Token]
      /\ challenges[c] \in Token
  BY DEF Typed, TypeOK
<1>2. CASE ClaimChallenge(r)
  BY <1>1, <1>2 DEF ClaimChallenge, Unspent, Spent, Carries, Token
<1>3. CASE ReadAccount(r)
  <2>1. job'[r].challenge = None
    BY <1>1, <1>3 DEF ReadAccount, Goto, FirstFactorAlone, Job
  <2>2. QED BY <2>1, Bounds DEF Carries, Challenge
<1>4. CASE SpendCode(r) \/ TouchUser(r)
  BY <1>4 DEF SpendCode, TouchUser, Goto, Carries
<1>5. CASE ClearFailures(r) \/ \E n \in Step : VerifyCode(r, n)
  <2>1. job'[r].challenge = job[r].challenge /\ pc[r] \in {"clear", "code"}
    BY <1>1, <1>5 DEF ClearFailures, VerifyCode, Goto, Job
  <2>2. QED BY <2>1 DEF Carries
<1>6. QED BY <1>2, <1>3, <1>4, <1>5 DEF Comes, Carries

LEMMA CarriedKept ==
  ASSUME Typed, ChallengeInv, [Next]_vars
  PROVE  CarriedSpent' /\ CarriedByOne'
<1>1. ASSUME NEW r \in Request, NEW c \in Challenge, Carries(r, c)'
      PROVE  \/ Carries(r, c)
             \/ /\ ~Spent(c) /\ Spent(c)'
                /\ \A q \in Request \ {r} : Carries(q, c)' <=> Carries(q, c)
  <2>1. CASE pc'[r] = pc[r] /\ job'[r] = job[r]
    BY <1>1, <2>1 DEF Carries
  <2>2. CASE Comes(r) /\ Others(r)
    <3>1. \A q \in Request \ {r} : Carries(q, c)' <=> Carries(q, c)
      BY <2>2 DEF Others, Carries
    <3>2. QED BY <1>1, <2>2, <3>1, Claiming DEF ChallengeInv
  <2>3. QED BY <2>1, <2>2, Stepping DEF Others
<1>2. CarriedSpent'
  BY <1>1, SpentLasts DEF CarriedSpent, ChallengeInv
<1>3. CarriedByOne'
  BY <1>1 DEF CarriedByOne, CarriedSpent, ChallengeInv
<1>4. QED BY <1>2, <1>3

\* A session has its challenge from the request that opened it.
LEMMA ChallengeColumn ==
  ASSUME Typed, [Next]_vars
  PROVE  \/ \A s \in Session : sessions'[s].challenge = sessions[s].challenge
         \/ \E r \in Request, s \in Session :
              /\ OAuthOpen(r, s) \/ Open(r, s)
              /\ sessions'[s].challenge = job[r].challenge
              /\ \A t \in Session \ {s} : sessions'[t].challenge = sessions[t].challenge
<1>1. sessions \in [Session -> SessionRow] /\ \A t \in Session : sessions[t] \in SessionRow
  BY DEF Typed, TypeOK
<1>2. ASSUME NEW r \in Request, Commit(r)
      PROVE  \A s \in Session : sessions'[s].challenge = sessions[s].challenge
  BY <1>1, <1>2 DEF Commit, SessionRow
<1>3. ASSUME \/ \E r \in Request : MintToken(r) \/ SignOutAll(r)
             \/ \E t \in Session : SignOut(t)
      PROVE  \A s \in Session : sessions'[s].challenge = sessions[s].challenge
  <2>1. CASE \E r \in Request : MintToken(r)
    BY <1>1, <2>1 DEF MintToken, SessionRow
  <2>2. CASE \E r \in Request : SignOutAll(r)
    BY <1>1, <2>2 DEF SignOutAll, SessionRow
  <2>3. CASE \E t \in Session : SignOut(t)
    BY <1>1, <2>3 DEF SignOut, SessionRow
  <2>4. QED BY <1>3, <2>1, <2>2, <2>3
<1>4. ASSUME NEW r \in Request, NEW s \in Session, OAuthOpen(r, s) \/ Open(r, s)
      PROVE  /\ sessions'[s].challenge = job[r].challenge
             /\ \A t \in Session \ {s} : sessions'[t].challenge = sessions[t].challenge
  BY <1>1, <1>4 DEF OAuthOpen, Open, Opened
<1>5. QED BY <1>2, <1>3, <1>4, SessionsKept

LEMMA OpenedKept ==
  ASSUME Typed, ChallengeInv, [Next]_vars
  PROVE  OpenedSpent' /\ ChallengesOpenOne'
<1>1. /\ \A s \in Session : /\ sessions[s].challenge \in Challenge \cup {None}
                            /\ sessions'[s].challenge \in Challenge \cup {None}
      /\ None \notin Challenge
  BY SessionsTyped, Bounds DEF Typed, TypeOK, SessionRow, Challenge
\* Nobody carries the challenge of a session that is there.
<1>2. ASSUME NEW s \in Session, NEW c \in Challenge, sessions[s].challenge = c, NEW q \in Request
      PROVE  Spent(c)' /\ ~Carries(q, c)'
  <2>1. Spent(c) /\ ~Carries(q, c)
    BY <1>2 DEF OpenedSpent, ChallengeInv
  <2>2. CASE pc'[q] = pc[q] /\ job'[q] = job[q]
    BY <2>1, <2>2, SpentLasts DEF Carries
  <2>3. CASE Comes(q)
    BY <2>1, <2>3, SpentLasts, Claiming DEF ChallengeInv
  <2>4. QED BY <2>2, <2>3, Stepping DEF Others
\* A session is opened with the challenge its request carried, if any.
<1>3. ASSUME NEW r \in Request, NEW s \in Session, NEW c \in Challenge,
             OAuthOpen(r, s) \/ Open(r, s), job[r].challenge = c
      PROVE  /\ Carries(r, c) /\ Spent(c)
             /\ \A q \in Request : ~Carries(q, c)'
  <2>1. Carries(r, c)
    BY <1>1, <1>3 DEF OAuthOpen, Open, Goto, Carries, FirstFactorAlone, ChallengeInv
  <2>2. Open(r, s)
    BY <1>1, <1>3 DEF OAuthOpen, Goto, FirstFactorAlone, ChallengeInv
  <2>3. \A q \in Request \ {r} : ~Carries(q, c)
    BY <2>1 DEF CarriedByOne, ChallengeInv
  <2>4. ~Carries(r, c)' /\ \A q \in Request \ {r} : pc'[q] = pc[q] /\ job'[q] = job[q]
    BY <2>2 DEF Open, Goto, Carries, Typed, TypeOK
  <2>5. QED BY <2>1, <2>3, <2>4 DEF Carries, CarriedSpent, ChallengeInv
<1>4. OpenedSpent'
  <2> SUFFICES ASSUME NEW s \in Session, NEW c \in Challenge, sessions'[s].challenge = c
               PROVE  Spent(c)' /\ \A q \in Request : ~Carries(q, c)'
    BY DEF OpenedSpent
  <2>1. CASE sessions[s].challenge = c
    <3>1. Spent(c)
      BY <2>1 DEF OpenedSpent, ChallengeInv
    <3>2. QED BY <1>2, <2>1, <3>1, SpentLasts
  <2>2. CASE sessions[s].challenge # c
    <3>1. PICK r \in Request : (OAuthOpen(r, s) \/ Open(r, s)) /\ job[r].challenge = c
      BY <2>2, ChallengeColumn
    <3>2. Spent(c) /\ \A q \in Request : ~Carries(q, c)'
      BY <1>3, <3>1
    <3>3. QED BY <3>2, SpentLasts
  <2>3. QED BY <2>1, <2>2
<1>5. ChallengesOpenOne'
  <2>1. CASE \A s \in Session : sessions'[s].challenge = sessions[s].challenge
    BY <2>1 DEF ChallengesOpenOne, ChallengeInv
  <2>2. ASSUME NEW r \in Request, NEW s \in Session,
               OAuthOpen(r, s) \/ Open(r, s),
               sessions'[s].challenge = job[r].challenge,
               \A t \in Session \ {s} : sessions'[t].challenge = sessions[t].challenge
        PROVE  ChallengesOpenOne'
    <3>1. ASSUME NEW t \in Session \ {s}, sessions'[s].challenge # None
          PROVE  sessions'[t].challenge # sessions'[s].challenge
      <4>1. Carries(r, job[r].challenge) /\ job[r].challenge \in Challenge
        BY <1>1, <1>3, <2>2, <3>1
      <4>2. sessions[t].challenge # job[r].challenge
        BY <4>1 DEF OpenedSpent, ChallengeInv
      <4>3. QED BY <2>2, <4>2
    <3>2. QED BY <2>2, <3>1 DEF ChallengesOpenOne, ChallengeInv
  <2>3. QED BY <2>1, <2>2, ChallengeColumn
<1>6. QED BY <1>4, <1>5

(* For any number of requests, challenges and sessions: a challenge, however *)
(* many tabs bring it, opens one session at most.                            *)
THEOREM ChallengeOpensOne == Spec => []ChallengesOpenOne
<1>1. Init => ChallengeInv
  BY Bounds DEF Init, ChallengeInv, CarriedSpent, CarriedByOne, OpenedSpent, FirstFactorAlone,
                ChallengesOpenOne, Carries, NoSession, Challenge
<1>2. Typed /\ ChallengeInv /\ [Next]_vars => ChallengeInv'
  <2> SUFFICES ASSUME Typed, ChallengeInv, [Next]_vars
               PROVE  ChallengeInv'
    OBVIOUS
  <2>1. FirstFactorAlone
    BY DEF ChallengeInv
  <2>2. QED BY <2>1, CarriedKept, OpenedKept, AloneKept DEF ChallengeInv
<1>3. ChallengeInv => ChallengesOpenOne
  BY DEF ChallengeInv
<1>4. QED BY <1>1, <1>2, <1>3, Typing, PTL DEF Spec

-----------------------------------------------------------------------------
(* The second factor.                                                      *)

\* A secret that is still to be offered is nobody's.
SecretsOffered ==
  /\ account.secret < nextSecret
  /\ \A r \in Request : job[r].secret < nextSecret
  /\ \A x \in Code : accepted[x] > 0 => x[1] < nextSecret

\* The counter is at or past every code of the account's secret.
CounterAhead ==
  account.secret # 0 =>
    \A n \in Step : accepted[<<account.secret, n>>] > 0 => n <= account.lastStep

\* It has moved exactly if the account is enrolled.
CounterTells ==
  IF account.enrolled THEN account.lastStep > 0 /\ account.secret # 0 ELSE account.lastStep = 0

\* So has the one a second step read, with the secret it read.
ReadEnrolled ==
  \A r \in Request :
    pc[r] \in {"challenge", "code", "spend"} /\ job[r].secret # 0 => job[r].lastStep > 0

CodeInv ==
  SecretsOffered /\ CounterAhead /\ CounterTells /\ ReadEnrolled /\ CodesSpentOnce /\ EnrolmentProved

Accepts(r) == SpendCode(r) \/ ConfirmEnrolment(r)

\* A code gets accepted for the secret a request has in hand.
LEMMA Accepting ==
  ASSUME Typed, NEW r \in Request, Accepts(r)
  PROVE  LET x == <<job[r].secret, job[r].step>>
         IN  /\ x \in Code /\ job[r].secret \in Secret /\ job[r].step \in Step
             /\ accepted'[x] > 0
             /\ accepted[x] = 0 => accepted'[x] = 1
             /\ \A y \in Code : y # x => accepted'[y] = accepted[y]
<1> DEFINE x == <<job[r].secret, job[r].step>>
           n == IF accepted[x] = 2 THEN 2 ELSE accepted[x] + 1
<1>1. job[r].secret \in Secret /\ job[r].step \in Step /\ accepted \in [Code -> 0..2]
  BY DEF Accepts, SpendCode, ConfirmEnrolment, Goto, Typed, TypeOK, JobFits, Fits
<1>2. x \in Code
  BY <1>1 DEF Code
<1>3. accepted' = [accepted EXCEPT ![x] = n]
  BY DEF Accepts, SpendCode, ConfirmEnrolment, Accept
<1>4. n > 0 /\ (accepted[x] = 0 => n = 1)
  BY <1>1, <1>2
<1> HIDE DEF x, n
<1>5. /\ accepted'[x] = n
      /\ \A y \in Code : y # x => accepted'[y] = accepted[y]
  BY <1>1, <1>2, <1>3
<1>6. QED BY <1>1, <1>2, <1>4, <1>5 DEF x

\* What can happen to the second factor.
Steady ==
  /\ account'.secret = account.secret /\ account'.enrolled = account.enrolled
  /\ account'.lastStep = account.lastStep

Reset ==
  /\ account'.secret = 0 /\ account'.enrolled = FALSE /\ account'.lastStep = 0
  /\ \E r \in Request : pc[r] = "commit" /\ job[r].kind = "twofactor"

Offered ==
  /\ account'.secret = nextSecret /\ account'.enrolled = FALSE /\ account'.lastStep = 0
  /\ nextSecret \in Secret /\ nextSecret' = nextSecret + 1
  /\ ~account.enrolled

Spends(r) ==
  /\ Accepts(r) /\ pc[r] = "spend"
  /\ account.lastStep = job[r].lastStep /\ job[r].step > job[r].lastStep
  /\ account'.secret = account.secret /\ account'.enrolled = account.enrolled
  /\ account'.lastStep = job[r].step

Confirms(r) ==
  /\ Accepts(r)
  /\ ~account.enrolled /\ account.secret = job[r].secret
  /\ account'.secret = account.secret /\ account'.enrolled = TRUE
  /\ account'.lastStep = job[r].step

LEMMA FactorSteps ==
  ASSUME Typed, [Next]_vars
  PROVE  \/ (Steady \/ Reset \/ Offered) /\ accepted' = accepted
         \/ \E r \in Request : Spends(r) \/ Confirms(r)
<1>1. /\ account \in Account /\ nextSecret \in 1..(MaxSecret + 1)
      /\ \A r \in Request : job[r] \in Job /\ Fits(pc[r], job[r])
  BY DEF Typed, TypeOK, JobFits
<1>2. ASSUME NEW r \in Request, SpendCode(r)
      PROVE  Spends(r)
  BY <1>1, <1>2 DEF SpendCode, StepUnspent, Goto, Fits, Spends, Accepts, Account
<1>3. ASSUME NEW r \in Request, ConfirmEnrolment(r)
      PROVE  Confirms(r)
  BY <1>1, <1>3 DEF ConfirmEnrolment, SamePending, Confirms, Accepts, Account
<1>4. ASSUME NEW r \in Request, Commit(r)
      PROVE  Steady \/ Reset
  <2>1. account' = Changed(r) /\ pc[r] = "commit"
    BY <1>4 DEF Commit
  <2>2. job[r].kind \in {"reset", "change", "twofactor"}
    BY <1>1, <2>1 DEF Fits, Ending, Job
  <2>3. CASE job[r].kind \in {"reset", "change"}
    BY <1>1, <2>1, <2>3 DEF Changed, Account, Steady
  <2>4. CASE job[r].kind = "twofactor"
    BY <1>1, <2>1, <2>4 DEF Changed, Account, Reset
  <2>5. QED BY <2>2, <2>3, <2>4
<1>5. ASSUME NEW r \in Request, StampCutoff(r)
      PROVE  Steady
  BY <1>1, <1>5 DEF StampCutoff, Account, Steady
<1>6. Offer => Offered
  BY <1>1, Bounds DEF Offer, MayOffer, Account, Secret, Offered
<1>7. UNCHANGED account => Steady
  BY DEF Steady
<1>8. \/ Steady \/ Reset \/ Offered
      \/ \E r \in Request : Spends(r) \/ Confirms(r)
  BY <1>2, <1>3, <1>4, <1>5, <1>6, <1>7, AccountKept
<1>9. accepted' = accepted \/ \E r \in Request : Spends(r) \/ Confirms(r)
  BY <1>2, <1>3, HistoryKept
<1>10. QED BY <1>8, <1>9

\* A second step can spend its code only while the account is enrolled.
LEMMA SpendsEnrolled ==
  ASSUME Typed, CodeInv, NEW r \in Request, Spends(r)
  PROVE  account.enrolled
<1>1. job[r].secret \in Secret
  BY Accepting DEF Spends
<1>2. job[r].lastStep > 0 /\ account.lastStep = job[r].lastStep
  BY <1>1 DEF Spends, ReadEnrolled, CodeInv, Secret
<1>3. QED BY <1>2 DEF CounterTells, CodeInv

LEMMA CountersKept ==
  ASSUME Typed, CodeInv, [Next]_vars
  PROVE  CounterAhead' /\ CounterTells' /\ CodesSpentOnce' /\ EnrolmentProved'
<1> DEFINE Goal == CounterAhead' /\ CounterTells' /\ CodesSpentOnce' /\ EnrolmentProved'
<1>1. /\ accepted \in [Code -> 0..2] /\ account.lastStep \in Nat /\ account.secret \in Nat
      /\ account.enrolled \in BOOLEAN
      /\ account.secret # 0 => account.secret \in Secret
  BY Bounds DEF Typed, TypeOK, Account, Secret, Step
<1>2. \A x \in Secret, n \in Step : <<x, n>> \in Code
  BY DEF Code
<1>3. CASE Steady /\ accepted' = accepted
  BY <1>3 DEF Steady, CodeInv, CounterAhead, CounterTells, CodesSpentOnce, EnrolmentProved
<1>4. CASE Reset /\ accepted' = accepted
  BY <1>4 DEF Reset, CounterAhead, CounterTells, CodesSpentOnce, EnrolmentProved
<1>5. CASE Offered /\ accepted' = accepted
  <2>1. \A n \in Step : accepted'[<<account'.secret, n>>] = 0
    <3>1. ASSUME NEW n \in Step
          PROVE  accepted[<<nextSecret, n>>] = 0
      <4> DEFINE x == <<nextSecret, n>>
      <4>1. x \in Code /\ x[1] = nextSecret
        BY <1>2, <1>5 DEF Offered
      <4>2. nextSecret \in Nat
        BY Bounds DEF Typed, TypeOK
      <4>3. ~(accepted[x] > 0)
        BY <4>1, <4>2 DEF SecretsOffered, CodeInv
      <4> HIDE DEF x
      <4>4. accepted[x] = 0
        BY <1>1, <4>1, <4>3
      <4>5. QED BY <4>4 DEF x
    <3>2. QED BY <1>5, <3>1 DEF Offered
  <2>2. QED
    BY <1>5, <2>1 DEF Offered, CounterAhead, CounterTells, CodesSpentOnce, EnrolmentProved
<1>6. ASSUME NEW r \in Request, Spends(r) \/ Confirms(r)
      PROVE  Goal
  <2> DEFINE x == <<job[r].secret, job[r].step>>
  <2>1. /\ x \in Code /\ job[r].secret \in Secret /\ job[r].step \in Step
        /\ accepted'[x] > 0
        /\ accepted[x] = 0 => accepted'[x] = 1
        /\ \A y \in Code : y # x => accepted'[y] = accepted[y]
    BY <1>6, Accepting DEF Spends, Confirms
  <2>2. /\ account'.secret = account.secret /\ account'.lastStep = job[r].step
        /\ account'.enrolled = TRUE /\ account.lastStep < job[r].step
        /\ account.secret \in Secret
        /\ Spends(r) => account.enrolled
    <3>1. Spends(r) => account.enrolled
      BY SpendsEnrolled
    <3>2. CASE Spends(r)
      BY <1>1, <2>1, <3>1, <3>2, Bounds DEF Spends, CounterTells, CodeInv, Step
    <3>3. CASE Confirms(r)
      BY <1>1, <2>1, <3>1, <3>3, Bounds DEF Confirms, CounterTells, CodeInv, Step
    <3>4. QED BY <1>6, <3>2, <3>3
  <2>3. \A n \in Step : <<account.secret, n>> \in Code
    BY <1>2, <2>2
  <2>4. \A n \in Step : accepted[<<account.secret, n>>] > 0 => n < job[r].step
    BY <1>1, <2>1, <2>2, Bounds DEF CounterAhead, CodeInv, Step, Secret
  <2>5. \A n \in Step :
          \/ <<account.secret, n>> = x /\ n = job[r].step
          \/ accepted'[<<account.secret, n>>] = accepted[<<account.secret, n>>]
    <3>1. ASSUME NEW n \in Step, <<account.secret, n>> = x
          PROVE  n = job[r].step
      BY <3>1
    <3>2. QED BY <2>1, <2>3, <3>1
  <2>6. CounterAhead'
    <3>1. ASSUME NEW n \in Step, accepted'[<<account.secret, n>>] > 0
          PROVE  n <= job[r].step
      BY <2>1, <2>4, <2>5, <3>1, Bounds DEF Step
    <3>2. QED BY <2>2, <3>1 DEF CounterAhead
  <2>7. CounterTells'
    BY <2>1, <2>2, Bounds DEF CounterTells, Step, Secret
  <2>8. CodesSpentOnce'
    <3>1. ASSUME NEW n \in Step
          PROVE  accepted'[<<account.secret, n>>] <= 1
      <4>1. CASE accepted'[<<account.secret, n>>] = accepted[<<account.secret, n>>]
        BY <2>2, <4>1, Bounds DEF CodesSpentOnce, CodeInv, Secret
      <4>2. CASE <<account.secret, n>> = x /\ n = job[r].step
        <5>1. ~(accepted[x] > 0)
          BY <2>1, <2>4, <4>2, Bounds DEF Step
        <5> HIDE DEF x
        <5>2. accepted[x] = 0
          BY <1>1, <2>1, <5>1
        <5>3. QED BY <2>1, <4>2, <5>2
      <4>3. QED BY <2>5, <4>1, <4>2
    <3>2. QED BY <2>2, <3>1 DEF CodesSpentOnce
  <2>9. EnrolmentProved'
    <3>1. CASE account.enrolled
      <4>1. PICK n \in Step : accepted[<<account.secret, n>>] > 0
        BY <3>1 DEF EnrolmentProved, CodeInv
      <4>2. accepted'[<<account.secret, n>>] > 0
        BY <2>1, <2>5, <4>1
      <4>3. QED BY <2>2, <4>2 DEF EnrolmentProved
    <3>2. CASE ~account.enrolled
      <4>1. x = <<account.secret, job[r].step>>
        BY <1>6, <2>2, <3>2 DEF Confirms
      <4>2. QED BY <2>1, <2>2, <4>1 DEF EnrolmentProved
    <3>3. QED BY <1>1, <3>1, <3>2
  <2>10. QED BY <2>6, <2>7, <2>8, <2>9
<1>7. QED BY <1>3, <1>4, <1>5, <1>6, FactorSteps


\* What a request knows of a secret it knows from the account.
LEMMA SecretRead ==
  ASSUME Typed, [Next]_vars, NEW r \in Request
  PROVE  \/ job'[r].secret = job[r].secret /\ job'[r].lastStep = job[r].lastStep
         \/ job'[r].secret = 0
         \/ /\ account.enrolled /\ job'[r].secret = account.secret
            /\ job'[r].lastStep = account.lastStep
         \/ pc'[r] = "confirm" /\ job'[r].secret = account.secret
<1> DEFINE Goal == \/ job'[r].secret = job[r].secret /\ job'[r].lastStep = job[r].lastStep
                   \/ job'[r].secret = 0
                   \/ /\ account.enrolled /\ job'[r].secret = account.secret
                      /\ job'[r].lastStep = account.lastStep
                   \/ pc'[r] = "confirm" /\ job'[r].secret = account.secret
<1>1. job \in [Request -> Job] /\ job[r] \in Job /\ pc \in [Request -> Statement]
  BY DEF Typed, TypeOK
<1>2. ASSUME NEW to, NEW j, Begin(r, to, j)
      PROVE  pc'[r] = to /\ job'[r] = j
  BY <1>1, <1>2 DEF Begin, Goto
<1>3. NoJob.secret = 0
  BY DEF NoJob
<1>4. CASE Finish(r)
  BY <1>1, <1>3, <1>4 DEF Finish
<1>5. CASE Refuse(r)
  BY <1>4, <1>5 DEF Refuse
<1>6. CASE Start(r)
  <2>1. CASE \/ SignInBegin(r) \/ OAuthBegin(r) \/ \E s \in Session : SignOutAllBegin(r, s)
    BY <1>2, <1>3, <2>1 DEF SignInBegin, OAuthBegin, SignOutAllBegin
  <2>2. CASE \/ TwoFactorBegin(r) \/ \E l \in Link : ResetBegin(r, l)
             \/ \E s \in Session : ChangeBegin(r, s)
    <3>1. /\ [NoJob EXCEPT !.kind = "twofactor"].secret = 0
          /\ \A l \in Link : [NoJob EXCEPT !.kind = "reset", !.link = l].secret = 0
          /\ \A t \in Session : [NoJob EXCEPT !.kind = "change", !.session = t].secret = 0
      BY DEF NoJob
    <3>2. \/ job'[r] = [NoJob EXCEPT !.kind = "twofactor"]
          \/ \E l \in Link : job'[r] = [NoJob EXCEPT !.kind = "reset", !.link = l]
          \/ \E t \in Session : job'[r] = [NoJob EXCEPT !.kind = "change", !.session = t]
      <4>1. CASE TwoFactorBegin(r)
        BY <1>2, <4>1 DEF TwoFactorBegin
      <4>2. CASE \E l \in Link : ResetBegin(r, l)
        BY <1>2, <4>2 DEF ResetBegin
      <4>3. CASE \E t \in Session : ChangeBegin(r, t)
        BY <1>2, <4>3 DEF ChangeBegin
      <4>4. QED BY <2>2, <4>1, <4>2, <4>3
    <3>3. job'[r].secret = 0
      BY <3>1, <3>2
    <3>4. QED BY <3>3
  <2>3. ASSUME NEW c \in Challenge, VerifyBegin(r, c)
        PROVE  Goal
    <3> DEFINE i == [NoJob EXCEPT !.challenge = c, !.password = challenges[c].password,
                                  !.secret = IF account.enrolled THEN account.secret ELSE 0,
                                  !.lastStep = account.lastStep]
    <3>1. /\ i.lastStep = account.lastStep
          /\ i.secret = IF account.enrolled THEN account.secret ELSE 0
      BY DEF NoJob
    <3>2. Begin(r, "challenge", i)
      BY <2>3 DEF VerifyBegin
    <3> HIDE DEF i
    <3>3. job'[r] = i
      BY <1>2, <3>2
    <3>4. QED BY <3>1, <3>3
  <2>4. ASSUME NEW s \in Session, NEW n \in Step, ConfirmBegin(r, s, n)
        PROVE  Goal
    <3> DEFINE i == [NoJob EXCEPT !.secret = account.secret, !.step = n]
    <3>1. i.secret = account.secret
      BY DEF NoJob
    <3>2. Begin(r, "confirm", i)
      BY <2>4 DEF ConfirmBegin
    <3> HIDE DEF i
    <3>3. job'[r] = i /\ pc'[r] = "confirm"
      BY <1>2, <3>2
    <3>4. QED BY <3>1, <3>3
  <2>5. QED BY <1>6, <2>1, <2>2, <2>3, <2>4 DEF Start
<1>7. CASE job'[r] = job[r]
  BY <1>7
<1>8. CASE Walk(r)
  BY <1>1, <1>8 DEF Walk, ReadAccount, OAuthTouch, ClearFailures, TouchUser, ClaimLink, WriteAccount,
                    EndSessions, ClearAfterReset, Job
<1>9. CASE Work(r)
  <2>1. CASE \/ MintToken(r) \/ Commit(r) \/ StampCutoff(r) \/ ConfirmEnrolment(r)
             \/ \E c \in Challenge : Issue(r, c)
             \/ \E l \in Link : InsertLink(r, l)
    BY <1>4, <2>1 DEF MintToken, Commit, StampCutoff, ConfirmEnrolment, Issue, InsertLink
  <2>2. CASE \/ Attempt(r) \/ ClaimChallenge(r) \/ SpendCode(r) \/ CurrentAttempt(r)
             \/ ClearCurrent(r) \/ RetireLinks(r)
    BY <2>2 DEF Attempt, ClaimChallenge, SpendCode, CurrentAttempt, ClearCurrent, RetireLinks
  <2>3. CASE \/ SignOutAll(r)
             \/ \E s \in Session : OAuthOpen(r, s) \/ Open(r, s)
             \/ \E n \in Step : VerifyCode(r, n)
    <3>1. CASE SignOutAll(r)
      BY <1>1, <3>1 DEF SignOutAll, Job
    <3>2. CASE \E s \in Session : OAuthOpen(r, s)
      BY <1>1, <3>2 DEF OAuthOpen, Job
    <3>3. CASE \E s \in Session : Open(r, s)
      BY <1>1, <3>3 DEF Open, Job
    <3>4. CASE \E n \in Step : VerifyCode(r, n)
      BY <1>1, <3>4 DEF VerifyCode, Job
    <3>5. QED BY <2>3, <3>1, <3>2, <3>3, <3>4
  <2>4. QED BY <1>9, <2>1, <2>2, <2>3 DEF Work
<1>10. QED BY <1>5, <1>6, <1>7, <1>8, <1>9, Stepping DEF Moves, Others

LEMMA OffersKept ==
  ASSUME Typed, CodeInv, [Next]_vars
  PROVE  SecretsOffered'
<1>1. /\ account.secret \in Nat /\ nextSecret \in Nat /\ nextSecret' \in Nat /\ nextSecret > 0
      /\ accepted \in [Code -> 0..2] /\ accepted' \in [Code -> 0..2]
      /\ \A r \in Request : job[r].secret \in Nat
      /\ account.secret < nextSecret
      /\ \A r \in Request : job[r].secret < nextSecret
  BY HistoryTyped, Bounds DEF Typed, TypeOK, Account, Secret, Job, SecretsOffered, CodeInv
<1>2. nextSecret' \in {nextSecret, nextSecret + 1}
  BY HistoryKept DEF Offer
<1>3. account'.secret < nextSecret'
  <2>1. \/ account'.secret \in {account.secret, 0}
        \/ account'.secret = nextSecret /\ nextSecret' = nextSecret + 1
    BY FactorSteps DEF Steady, Reset, Offered, Spends, Confirms
  <2>2. QED BY <1>1, <1>2, <2>1
<1>4. \A r \in Request : job'[r].secret < nextSecret'
  BY <1>1, <1>2, SecretRead
<1>5. ASSUME NEW x \in Code, accepted'[x] > 0
      PROVE  x[1] < nextSecret'
  <2>1. CASE accepted'[x] = accepted[x]
    <3>1. x[1] < nextSecret /\ x[1] \in Nat
      BY <1>5, <2>1, Bounds DEF SecretsOffered, CodeInv, Code, Secret
    <3>2. QED BY <1>1, <1>2, <3>1
  <2>2. ASSUME NEW r \in Request, Accepts(r), accepted'[x] # accepted[x]
        PROVE  x[1] < nextSecret'
    <3>1. x = <<job[r].secret, job[r].step>>
      BY <2>2, Accepting
    <3>2. QED BY <1>1, <1>2, <3>1
  <2>3. QED BY <2>1, <2>2, FactorSteps DEF Spends, Confirms
<1>6. QED BY <1>3, <1>4, <1>5 DEF SecretsOffered

LEMMA ReadKept ==
  ASSUME Typed, CodeInv, [Next]_vars
  PROVE  ReadEnrolled'
<1> SUFFICES ASSUME NEW r \in Request, pc'[r] \in {"challenge", "code", "spend"},
                    job'[r].secret # 0
             PROVE  job'[r].lastStep > 0
  BY DEF ReadEnrolled
<1>1. CASE /\ job'[r].secret = job[r].secret /\ job'[r].lastStep = job[r].lastStep
           /\ pc[r] \in {"challenge", "code", "spend"}
  BY <1>1 DEF ReadEnrolled, CodeInv
<1>2. CASE account.enrolled /\ job'[r].lastStep = account.lastStep
  BY <1>2 DEF CounterTells, CodeInv
<1>3. CASE \E c \in Challenge : VerifyBegin(r, c)
  <2>1. PICK c \in Challenge : VerifyBegin(r, c)
    BY <1>3
  <2>2. job'[r].secret # 0 => account.enrolled /\ job'[r].lastStep = account.lastStep
    BY <2>1 DEF VerifyBegin, Begin, NoJob, Typed, TypeOK
  <2>3. QED BY <1>2, <2>2
<1>4. CASE ClaimChallenge(r) \/ \E n \in Step : VerifyCode(r, n)
  <2>1. pc[r] \in {"challenge", "code"}
    BY <1>4 DEF ClaimChallenge, VerifyCode, Goto
  <2>2. QED BY <1>1, <1>2, <2>1, SecretRead
<1>5. CASE pc'[r] = pc[r] /\ job'[r] = job[r]
  BY <1>1, <1>5
<1>6. QED BY <1>3, <1>4, <1>5, Stepping DEF Others, Comes

LEMMA CodesHold == Spec => [](Typed /\ CodeInv)
<1>1. Init => CodeInv
  BY Bounds DEF Init, CodeInv, SecretsOffered, CounterAhead, CounterTells, ReadEnrolled,
                CodesSpentOnce, EnrolmentProved, NoJob
<1>2. Typed /\ CodeInv /\ [Next]_vars => CodeInv'
  <2> SUFFICES ASSUME Typed, CodeInv, [Next]_vars
               PROVE  CodeInv'
    OBVIOUS
  <2>1. QED BY CountersKept, OffersKept, ReadKept DEF CodeInv
<1>3. QED BY <1>1, <1>2, Typing, PTL DEF Spec

(* For any number of requests, secrets and ticks: a code, whoever brings it, *)
(* lets one request through.                                                 *)
THEOREM CodesAreSpent == Spec => []CodesSpentOnce
<1>1. CodeInv => CodesSpentOnce
  BY DEF CodeInv
<1>2. QED BY <1>1, CodesHold, PTL

(* For any number of requests and secrets: the secret an account is          *)
(* protected by is one somebody proved a code of.                            *)
THEOREM EnrolledProved == Spec => []EnrolmentProved
<1>1. CodeInv => EnrolmentProved
  BY DEF CodeInv
<1>2. QED BY <1>1, CodesHold, PTL

(* For any number of requests: only a reset takes an authenticator away.     *)
THEOREM EnrolledStays == Spec => EnrolmentSticks
<1>1. Typed /\ CodeInv /\ [Next]_vars =>
        [account.enrolled /\ ~account'.enrolled =>
           \E r \in Request : pc[r] = "commit" /\ job[r].kind = "twofactor"]_vars
  BY FactorSteps DEF Steady, Reset, Offered, Spends, Confirms
<1>2. QED BY <1>1, CodesHold, PTL DEF Spec, EnrolmentSticks

(* For any number of requests and secrets: no code of an old secret lets     *)
(* anybody through an account that is not enrolled anew.                     *)
THEOREM OldRefused == Spec => OldSecretRefused
<1>1. Typed /\ CodeInv /\ [Next]_vars =>
        [\A x \in Code : accepted'[x] # accepted[x] /\ x[1] # account.secret =>
           account.enrolled]_vars
  <2> SUFFICES ASSUME Typed, CodeInv, [Next]_vars, NEW x \in Code,
                      accepted'[x] # accepted[x], x[1] # account.secret
               PROVE  account.enrolled
    OBVIOUS
  <2>1. PICK r \in Request : Spends(r) \/ Confirms(r)
    BY FactorSteps
  <2>2. x = <<job[r].secret, job[r].step>>
    BY <2>1, Accepting DEF Spends, Confirms
  <2>3. ~Confirms(r)
    BY <2>2 DEF Confirms
  <2>4. QED BY <2>1, <2>3, SpendsEnrolled
<1>2. QED BY <1>1, CodesHold, PTL DEF Spec, OldSecretRefused

-----------------------------------------------------------------------------
(* A reset link sets one password.                                         *)

Redeeming(r, l) ==
  pc[r] \in {"lock", "sessions", "tail", "commit"} /\ job[r].link = l

RedeemedUsed == \A v \in Password, l \in Link : setBy[v] = l => links[l] = "used"

RedeemingClaimable == \A r \in Request, l \in Link : Redeeming(r, l) => Claimable(l)

RedeemedByOne ==
  \A q, r \in Request, l \in Link : Redeeming(q, l) /\ Redeeming(r, l) => q = r

LinkInv == RedeemedUsed /\ RedeemingClaimable /\ RedeemedByOne /\ LinksSetOne

\* A redeemed link is never live again.
LEMMA UsedLasts ==
  ASSUME Typed, [Next]_vars, NEW l \in Link, links[l] = "used"
  PROVE  links'[l] = "used"
<1>1. links \in [Link -> {"absent", "live", "expired", "used"}]
  BY DEF Typed, TypeOK
<1>2. ASSUME NEW r \in Request, Commit(r) \/ RetireLinks(r)
      PROVE  links'[l] = "used"
  BY <1>1, <1>2 DEF Commit, RetireLinks
<1>3. ASSUME NEW r \in Request, NEW m \in Link, InsertLink(r, m)
      PROVE  links'[l] = "used"
  BY <1>1, <1>3 DEF InsertLink, Takes
<1>4. ASSUME NEW m \in Link, ExpireLink(m)
      PROVE  links'[l] = "used"
  BY <1>1, <1>4 DEF ExpireLink
<1>5. QED BY <1>2, <1>3, <1>4, TokensKept

\* A link comes to be redeemed by being claimed, and nobody else has claimed it.
LEMMA Redeems ==
  ASSUME Typed, NEW r \in Request, Comes(r), NEW l \in Link, Redeeming(r, l)'
  PROVE  \/ Redeeming(r, l)
         \/ /\ ClaimLink(r) /\ Claimable(l)
            /\ \A q \in Request \ {r} : ~Redeeming(q, l)
<1>1. /\ job \in [Request -> Job] /\ job[r] \in Job /\ Fits(pc[r], job[r])
      /\ l # None
  BY Bounds DEF Typed, TypeOK, JobFits, Link
<1>2. CASE ClaimLink(r)
  BY <1>2 DEF ClaimLink, LinkReady, LinksHeld, Goto, Redeeming
<1>3. CASE ClearCurrent(r)
  BY <1>1, <1>3 DEF ClearCurrent, Goto, Fits, Redeeming
<1>4. CASE TwoFactorBegin(r)
  BY <1>1, <1>4 DEF TwoFactorBegin, Begin, NoJob, Redeeming
<1>5. CASE WriteAccount(r)
  BY <1>5 DEF WriteAccount, Goto, Redeeming
<1>6. CASE EndSessions(r) \/ ClearAfterReset(r)
  <2>1. job'[r].link = job[r].link /\ pc[r] \in {"sessions", "tail"}
    <3>1. CASE EndSessions(r)
      BY <1>1, <3>1 DEF EndSessions, Goto, Job
    <3>2. CASE ClearAfterReset(r)
      BY <1>1, <3>2 DEF ClearAfterReset, Goto, Job
    <3>3. QED BY <1>6, <3>1, <3>2
  <2>2. QED BY <2>1 DEF Redeeming
<1>7. QED BY <1>2, <1>3, <1>4, <1>5, <1>6 DEF Comes, Redeeming

LEMMA RedeemingKept ==
  ASSUME Typed, LinkInv, [Next]_vars
  PROVE  RedeemingClaimable' /\ RedeemedByOne'
<1>1. /\ links \in [Link -> {"absent", "live", "expired", "used"}]
      /\ job \in [Request -> Job] /\ pc \in [Request -> Statement]
  BY DEF Typed, TypeOK
<1>2. ASSUME NEW r \in Request, NEW l \in Link, Redeeming(r, l)'
      PROVE  /\ Claimable(l)
             /\ \/ Redeeming(r, l)
                \/ /\ ClaimLink(r)
                   /\ \A q \in Request \ {r} : ~Redeeming(q, l) /\ ~Redeeming(q, l)'
  <2>1. CASE pc'[r] = pc[r] /\ job'[r] = job[r]
    BY <1>2, <2>1 DEF Redeeming, RedeemingClaimable, LinkInv
  <2>2. CASE Comes(r) /\ Others(r)
    <3>1. \A q \in Request \ {r} : Redeeming(q, l)' <=> Redeeming(q, l)
      BY <2>2 DEF Others, Redeeming
    <3>2. Redeeming(r, l) => Claimable(l)
      BY DEF RedeemingClaimable, LinkInv
    <3>3. QED BY <1>2, <2>2, <3>1, <3>2, Redeems
  <2>3. QED BY <2>1, <2>2, Stepping DEF Others
<1>3. RedeemedByOne'
  BY <1>2 DEF RedeemedByOne, LinkInv
<1>4. ASSUME NEW r \in Request, NEW l \in Link, Redeeming(r, l)'
      PROVE  Claimable(l)'
  <2>1. Claimable(l)
    BY <1>2, <1>4
  <2>2. CASE links' = links
    BY <2>1, <2>2 DEF Claimable
  <2>3. ASSUME NEW m \in Link, ExpireLink(m)
        PROVE  Claimable(l)'
    BY <1>1, <2>1, <2>3 DEF ExpireLink, Claimable
  <2>4. ASSUME NEW q \in Request, NEW m \in Link, InsertLink(q, m)
        PROVE  Claimable(l)'
    BY <1>1, <2>1, <2>4 DEF InsertLink, Claimable, Takes
  <2>5. ASSUME NEW q \in Request, RetireLinks(q)
        PROVE  FALSE
    <3>1. Redeeming(r, l)
      BY <1>1, <1>2, <1>4, <2>5 DEF RetireLinks, ClaimLink, Goto
    <3>2. QED BY <2>1, <2>5, <3>1 DEF RetireLinks, LinksHeld, Redeeming
  <2>6. ASSUME NEW q \in Request, Commit(q)
        PROVE  Claimable(l)'
    <3>1. Redeeming(r, l) /\ q # r
      BY <1>1, <1>2, <1>4, <2>6 DEF Commit, Finish, ClaimLink, Goto, Redeeming
    <3>2. job[q].link # l
      BY <2>6, <3>1 DEF Commit, Redeeming, RedeemedByOne, LinkInv
    <3>3. links'[l] = links[l]
      BY <2>6, <3>2 DEF Commit
    <3>4. QED BY <2>1, <3>3 DEF Claimable
  <2>7. QED BY <2>2, <2>3, <2>4, <2>5, <2>6, TokensKept
<1>5. RedeemingClaimable'
  BY <1>4 DEF RedeemingClaimable
<1>6. QED BY <1>3, <1>5

LEMMA RedeemedKept ==
  ASSUME Typed, LinkInv, [Next]_vars
  PROVE  RedeemedUsed' /\ LinksSetOne'
<1>1. /\ setBy \in [Password -> Link \cup {None}] /\ None \notin Link
      /\ links \in [Link -> {"absent", "live", "expired", "used"}]
      /\ \A r \in Request : job[r] \in Job
  BY Bounds DEF Typed, TypeOK, Link
<1>2. CASE setBy' = setBy
  BY <1>2, UsedLasts DEF RedeemedUsed, LinksSetOne, LinkInv
<1>3. ASSUME NEW r \in Request, Commit(r), setBy' # setBy
      PROVE  RedeemedUsed' /\ LinksSetOne'
  <2> DEFINE p == Changed(r).password
  <2>1. setBy' = [setBy EXCEPT ![p] = job[r].link]
    BY <1>3 DEF Commit
  <2>2. \A l \in Link : job[r].link = l => links'[l] = "used"
    BY <1>1, <1>3 DEF Commit
  <2>3. \A l \in Link : job[r].link = l => links[l] # "used"
    BY <1>3 DEF Commit, Redeeming, RedeemingClaimable, LinkInv, Claimable
  <2>4. job[r].link \in Link \cup {None}
    BY <1>1 DEF Job
  <2> HIDE DEF p
  <2>5. RedeemedUsed'
    BY <1>1, <2>1, <2>2, <2>4, UsedLasts DEF RedeemedUsed, LinkInv
  <2>6. LinksSetOne'
    BY <1>1, <2>1, <2>3, <2>4 DEF LinksSetOne, RedeemedUsed, LinkInv
  <2>7. QED BY <2>5, <2>6
<1>4. QED BY <1>2, <1>3, HistoryKept

(* For any number of requests, links and passwords: a reset link sets one    *)
(* password, even from several tabs.                                         *)
THEOREM LinkSetsOne == Spec => []LinksSetOne
<1>1. Init => LinkInv
  BY Bounds DEF Init, LinkInv, RedeemedUsed, RedeemingClaimable, RedeemedByOne, LinksSetOne,
                Redeeming, Link
<1>2. Typed /\ LinkInv /\ [Next]_vars => LinkInv'
  <2> SUFFICES ASSUME Typed, LinkInv, [Next]_vars
               PROVE  LinkInv'
    OBVIOUS
  <2>1. QED BY RedeemingKept, RedeemedKept DEF LinkInv
<1>3. LinkInv => LinksSetOne
  BY DEF LinkInv
<1>4. QED BY <1>1, <1>2, <1>3, Typing, PTL DEF Spec
=============================================================================
