------------------------------- MODULE SignIn -------------------------------
(***************************************************************************)
(* One account and everything that proves who holds it: password and       *)
(* provider sign-ins, the second factor, password resets and changes, 2FA  *)
(* enrolment and reset, and the sessions that these open and end.          *)
(*                                                                         *)
(* As in Members, a request stops at every statement that another request  *)
(* can come between, its transaction's writes are all in its commit, and   *)
(* the rows it has locked follow from how far it has come.  What a request *)
(* has read of the account it keeps in job, however stale it gets: a slow  *)
(* password hash or a whole screen may lie between the read and its use.   *)
(***************************************************************************)
EXTENDS Naturals, FiniteSets

CONSTANTS
  Request,       \* concurrent requests
  None,
  MaxSession,    \* bounds: sessions, challenges and reset links ever made,
  MaxChallenge,
  MaxLink,
  MaxPassword,   \* passwords the account ever has, 2FA secrets it is ever
  MaxSecret,     \* offered,
  MaxTime        \* and ticks of the clock

ASSUME BoundAssumption ==
  /\ {MaxSession, MaxPassword, MaxTime} \subseteq Nat \ {0}
  /\ {MaxChallenge, MaxLink, MaxSecret} \subseteq Nat
ASSUME RequestAssumption == IsFiniteSet(Request)
ASSUME NoneAssumption == None \notin Nat \cup {"reset", "change", "twofactor"}

VARIABLES
  account,      \* the users row
  nextSecret,   \* secrets are random: never one that was offered before
  sessions,     \* sessions[s], the row, and when its token was minted
  challenges,   \* challenges[c], a proved first factor on its way to a code
  links,        \* links[l], a password reset link
  attempts,     \* whether login_attempts has a row for the address
  now,
  pc,           \* pc[r], the statement request r runs next
  job,          \* job[r], what it knows
  accepted,     \* history: accepted[x], how often code x was accepted
  setBy,        \* history: setBy[v], the reset link that set password v
  ended         \* history: sessions that were in use when all were ended

rows == <<account, nextSecret, sessions, challenges, links, attempts>>
history == <<accepted, setBy, ended>>
vars == <<rows, now, pc, job, history>>

Session == 1..MaxSession
Challenge == 1..MaxChallenge
Link == 1..MaxLink
\* In the order they are set, 0 for none; each request may set the last one.
Password == 1..(MaxPassword + Cardinality(Request))
Secret == 1..MaxSecret       \* in the order they are offered; 0 for none
Time == 1..MaxTime
Step == 1..(MaxTime + 1)     \* of the codes; 0 for none
Code == Secret \X Step

Account == [password: Password, secret: Secret \cup {0}, enrolled: BOOLEAN,
            lastStep: Step \cup {0}, cutoff: Time \cup {0}]
SessionRow == [status: {"absent", "live", "revoked"}, iat: Time \cup {0},
               challenge: Challenge \cup {None}, password: Password \cup {0}]
Token == [status: {"absent", "live", "expired", "spent"}, password: Password \cup {0}]
Job == [kind: {"reset", "change", "twofactor", None},
        session: Session \cup {None}, challenge: Challenge \cup {None}, link: Link \cup {None},
        password: Password \cup {0}, secret: Secret \cup {0}, lastStep: Step \cup {0},
        step: Step \cup {0}, at: Time \cup {0}, found: SUBSET Session,
        retired: SUBSET Challenge, cleared: BOOLEAN]

NoSession == [status |-> "absent", iat |-> 0, challenge |-> None, password |-> 0]
NoJob == [kind |-> None, session |-> None, challenge |-> None, link |-> None,
          password |-> 0, secret |-> 0, lastStep |-> 0, step |-> 0, at |-> 0,
          found |-> {}, retired |-> {}, cleared |-> FALSE]

Statement == {"idle", "attempt", "password", "issue", "challenge", "code", "spend",
              "clear", "user", "open", "oauth.insert", "oauth.touch", "answered",
              "current", "refund", "claim", "lock", "sessions", "tail", "commit",
              "all.sessions", "all.cutoff", "link.insert", "confirm"}

TypeOK ==
  /\ account \in Account
  /\ nextSecret \in 1..(MaxSecret + 1)
  /\ sessions \in [Session -> SessionRow]
  /\ challenges \in [Challenge -> Token]
  /\ links \in [Link -> {"absent", "live", "expired", "used"}]
  /\ attempts \in BOOLEAN
  /\ now \in Time
  /\ pc \in [Request -> Statement]
  /\ job \in [Request -> Job]
  /\ accepted \in [Code -> 0..2]
  /\ setBy \in [Password -> Link \cup {None}]
  /\ ended \subseteq Session

Init ==
  /\ account = [password |-> 1, secret |-> 0, enrolled |-> FALSE, lastStep |-> 0, cutoff |-> 0]
  /\ nextSecret = 1
  /\ sessions = [s \in Session |-> NoSession]
  /\ challenges = [c \in Challenge |-> [status |-> "absent", password |-> 0]]
  /\ links = [l \in Link |-> "absent"]
  /\ attempts = FALSE
  /\ now = 1
  /\ pc = [r \in Request |-> "idle"]
  /\ job = [r \in Request |-> NoJob]
  /\ accepted = [x \in Code |-> 0]
  /\ setBy = [v \in Password |-> None]
  /\ ended = {}

-----------------------------------------------------------------------------
(* What open transactions hold.                                            *)

UserHeld(s) == pc[s] \in {"open", "sessions", "tail", "commit"}
UserFree(r) == \A s \in Request \ {r} : ~UserHeld(s)

\* A DELETE that found the row of login_attempts holds it.
AttemptsHeld(s) == job[s].cleared
AttemptsFree(r) == \A s \in Request \ {r} : ~AttemptsHeld(s)

SessionsHeld(s) == IF pc[s] \in {"tail", "commit"} THEN job[s].found ELSE {}
ChallengesHeld(s) == IF pc[s] \in {"tail", "commit"} THEN job[s].retired ELSE {}
LinksHeld(s) == IF pc[s] \in {"lock", "sessions", "tail", "commit"} THEN {job[s].link} ELSE {}

-----------------------------------------------------------------------------
(* The gate: what checkSession makes of a token.                           *)

Live(s) == sessions[s].status = "live"

Honoured(s) == Live(s) /\ sessions[s].iat > account.cutoff

(* Codes: the steps around the present that verifyTotp looks at.           *)
Window == {n \in Step : n >= now - 1 /\ n <= now + 1}

-----------------------------------------------------------------------------

Goto(r, from, to) ==
  /\ pc[r] = from
  /\ pc' = [pc EXCEPT ![r] = to]

Begin(r, to, j) ==
  /\ Goto(r, "idle", to)
  /\ job' = [job EXCEPT ![r] = j]
  /\ UNCHANGED <<rows, now, history>>

\* The request is answered; what it held in memory goes.
Finish(r) ==
  /\ pc' = [pc EXCEPT ![r] = "idle"]
  /\ job' = [job EXCEPT ![r] = NoJob]

\* Answered, with nothing written or everything rolled back.
GiveUp(r) == Finish(r) /\ UNCHANGED <<rows, now, history>>

\* Ids are random; the model hands them out in order.
Takes(x, taken, all) == x \notin taken /\ \A y \in all : y < x => y \in taken

\* Bounds: a request that would insert a row arrives only while there is an id
\* left for it.
RoomForSession ==
  Cardinality({s \in Session : sessions[s].status = "absent"}) >
  Cardinality({r \in Request : pc[r] \in {"attempt", "password", "issue", "challenge", "code",
                                         "spend", "clear", "user", "open", "oauth.insert"}})
RoomForChallenge ==
  MaxSecret > 0 =>
  Cardinality({c \in Challenge : challenges[c].status = "absent"}) >
    Cardinality({r \in Request : pc[r] \in {"attempt", "password", "issue"}})
RoomForLink ==
  Cardinality({l \in Link : links[l] = "absent"}) >
  Cardinality({r \in Request : pc[r] = "link.insert"})
RoomForPassword == account.password < MaxPassword

-----------------------------------------------------------------------------
(* First factor: POST /auth/sign-in.  A wrong password ends in              *)
(* PasswordRefuse, an empty budget in AttemptRefuse.                        *)

SignInBegin(r) ==
  /\ RoomForSession
  /\ RoomForChallenge
  /\ Begin(r, "attempt", NoJob)

Attempt(r) ==
  /\ Goto(r, "attempt", "password")
  /\ AttemptsFree(r)
  /\ attempts' = TRUE
  /\ UNCHANGED <<account, nextSecret, sessions, challenges, links, now, job, history>>

AttemptRefuse(r) ==
  /\ pc[r] = "attempt"
  /\ AttemptsFree(r)
  /\ Finish(r)
  /\ attempts' = TRUE
  /\ UNCHANGED <<account, nextSecret, sessions, challenges, links, now, history>>

\* The row is read, the password compared with it; an enrolled account gets a
\* challenge and no session.
ReadAccount(r) ==
  /\ Goto(r, "password", IF account.enrolled THEN "issue" ELSE "clear")
  /\ job' = [job EXCEPT ![r].password = account.password]
  /\ UNCHANGED <<rows, now, history>>

PasswordRefuse(r) ==
  /\ pc[r] = "password"
  /\ GiveUp(r)

\* Expired challenges are deleted, live ones left.
Issue(r, c) ==
  /\ pc[r] = "issue"
  /\ job[r].password # 0 => AttemptsFree(r)
  /\ Takes(c, {d \in Challenge : challenges[d].status # "absent"}, Challenge)
  /\ challenges' = [d \in Challenge |->
       IF d = c THEN [status |-> "live", password |-> job[r].password]
       ELSE IF challenges[d].status = "expired" THEN [challenges[d] EXCEPT !.status = "spent"]
       ELSE challenges[d]]
  /\ Finish(r)
  /\ UNCHANGED <<account, nextSecret, sessions, links, attempts, now, history>>

-----------------------------------------------------------------------------
(* First factor: POST /auth/oauth/:provider.  Not one transaction: the      *)
(* session is there before the account is touched.                          *)

OAuthBegin(r) ==
  /\ RoomForSession
  /\ RoomForChallenge
  /\ Begin(r, IF account.enrolled THEN "issue" ELSE "oauth.insert", NoJob)

Opened(r, s) ==
  /\ Takes(s, {t \in Session : sessions[t].status # "absent"}, Session)
  /\ sessions' = [sessions EXCEPT ![s] =
       [status |-> "live", iat |-> 0,
        challenge |-> job[r].challenge, password |-> job[r].password]]

OAuthOpen(r, s) ==
  /\ Goto(r, "oauth.insert", "oauth.touch")
  /\ Opened(r, s)
  /\ job' = [job EXCEPT ![r].session = s]
  /\ UNCHANGED <<account, nextSecret, challenges, links, attempts, now, history>>

\* Mutant of OAuthTouch: the session is handed out before the account is touched.
OAuthTouchLater(r) ==
  /\ Goto(r, "oauth.touch", "answered")
  /\ UNCHANGED <<rows, now, job, history>>

OAuthTouch(r) ==
  /\ Goto(r, "oauth.touch", "answered")
  /\ UserFree(r)
  /\ UNCHANGED <<rows, now, job, history>>

-----------------------------------------------------------------------------
(* Second factor: POST /auth/2fa/verify.                                   *)

\* consumeChallenge reads the challenge and, in the same statement, the account
\* whose secret and counter the code will be held against.
VerifyBegin(r, c) ==
  /\ RoomForSession
  /\ challenges[c].status = "live"
  /\ Begin(r, "challenge",
           [NoJob EXCEPT !.challenge = c, !.password = challenges[c].password,
                         !.secret = IF account.enrolled THEN account.secret ELSE 0,
                         !.lastStep = account.lastStep])

\* Unspent: nobody has claimed it, a 2FA reset has not retired it.
Unspent(c) == challenges[c].status \in {"live", "expired"}

ChallengeReady(r) ==
  /\ pc[r] = "challenge"
  /\ \A s \in Request \ {r} : job[r].challenge \notin ChallengesHeld(s)

\* Mutant of ClaimChallenge: the challenge is checked and not marked.
ClaimChallengeUnmarked(r) ==
  /\ ChallengeReady(r)
  /\ Goto(r, "challenge", "code")
  /\ Unspent(job[r].challenge)
  /\ UNCHANGED <<rows, now, job, history>>

ClaimChallenge(r) ==
  /\ ChallengeReady(r)
  /\ Goto(r, "challenge", "code")
  /\ Unspent(job[r].challenge)
  /\ challenges' = [challenges EXCEPT ![job[r].challenge].status = "spent"]
  /\ UNCHANGED <<account, nextSecret, sessions, links, attempts, now, job, history>>

ChallengeRefuse(r) ==
  /\ ChallengeReady(r)
  /\ ~Unspent(job[r].challenge)
  /\ GiveUp(r)

\* The attempt is counted, then the code compared in memory.
VerifyCode(r, n) ==
  /\ Goto(r, "code", "spend")
  /\ AttemptsFree(r)
  /\ job[r].secret # 0
  /\ n \in Window
  /\ n > job[r].lastStep
  /\ attempts' = TRUE
  /\ job' = [job EXCEPT ![r].step = n]
  /\ UNCHANGED <<account, nextSecret, sessions, challenges, links, now, history>>

CodeRefuse(r) ==
  /\ pc[r] = "code"
  /\ AttemptsFree(r)
  /\ Finish(r)
  /\ attempts' = TRUE
  /\ UNCHANGED <<account, nextSecret, sessions, challenges, links, now, history>>

\* Mutant of StepUnspent: the counter is written without comparing it.
StepUnspentUnchecked(r) == TRUE

\* The counter is still what it was when it was read.
StepUnspent(r) == account.lastStep = job[r].lastStep

Accept(secret, n) ==
  accepted' = [accepted EXCEPT ![<<secret, n>>] = IF @ = 2 THEN 2 ELSE @ + 1]

SpendCode(r) ==
  /\ Goto(r, "spend", "clear")
  /\ UserFree(r)
  /\ StepUnspent(r)
  /\ account' = [account EXCEPT !.lastStep = job[r].step]
  /\ Accept(job[r].secret, job[r].step)
  /\ UNCHANGED <<nextSecret, sessions, challenges, links, attempts, now, job, setBy, ended>>

SpendRefuse(r) ==
  /\ pc[r] = "spend"
  /\ UserFree(r)
  /\ ~StepUnspent(r)
  /\ GiveUp(r)

-----------------------------------------------------------------------------
(* completeSignIn, one transaction: clear the failures, insert the session,  *)
(* touch the account, write the audit row.  Then the web mints the token.    *)

ClearFailures(r) ==
  /\ Goto(r, "clear", "user")
  /\ AttemptsFree(r)
  /\ job' = [job EXCEPT ![r].cleared = attempts]
  /\ UNCHANGED <<rows, now, history>>

TouchUser(r) ==
  /\ Goto(r, "user", "open")
  /\ UserFree(r)
  /\ UNCHANGED <<rows, now, job, history>>

Open(r, s) ==
  /\ Goto(r, "open", "answered")
  /\ Opened(r, s)
  /\ attempts' = (attempts /\ ~job[r].cleared)
  /\ job' = [job EXCEPT ![r].session = s, ![r].cleared = FALSE]
  /\ UNCHANGED <<account, nextSecret, challenges, links, now, history>>

MintToken(r) ==
  /\ pc[r] = "answered"
  /\ sessions' = [sessions EXCEPT ![job[r].session].iat = now]
  /\ Finish(r)
  /\ UNCHANGED <<account, nextSecret, challenges, links, attempts, now, history>>

-----------------------------------------------------------------------------
(* Transactions that end sessions: a password reset, one's own password     *)
(* change, an admin's reset of the second factor.                           *)

ResetBegin(r, l) ==
  /\ RoomForPassword
  /\ links[l] = "live"
  /\ Begin(r, "claim", [NoJob EXCEPT !.kind = "reset", !.link = l])

\* Mutant of Claimable: the claim does not ask for an unused link.
ClaimableWhenUsed(l) == links[l] # "absent"

Claimable(l) == links[l] \in {"live", "expired"}

LinkReady(r) ==
  /\ pc[r] = "claim"
  /\ \A s \in Request \ {r} : job[r].link \notin LinksHeld(s)

ClaimLink(r) ==
  /\ LinkReady(r)
  /\ Goto(r, "claim", "lock")
  /\ Claimable(job[r].link)
  /\ UNCHANGED <<rows, now, job, history>>

\* Mutant of LinkRefuse: a link that somebody has used meanwhile gets no answer.
LinkRefuseExpired(r) ==
  /\ LinkReady(r)
  /\ links[job[r].link] = "expired"
  /\ GiveUp(r)

LinkRefuse(r) ==
  /\ LinkReady(r)
  /\ ~Claimable(job[r].link)
  /\ GiveUp(r)

ChangeBegin(r, s) ==
  /\ RoomForPassword
  /\ Honoured(s)
  /\ Begin(r, "current", [NoJob EXCEPT !.kind = "change", !.session = s])

\* The current password costs an attempt; a right one, compared with the row the
\* gate had read, clears them.
CurrentAttempt(r) ==
  /\ Goto(r, "current", "refund")
  /\ AttemptsFree(r)
  /\ attempts' = TRUE
  /\ UNCHANGED <<account, nextSecret, sessions, challenges, links, now, job, history>>

ClearCurrent(r) ==
  /\ Goto(r, "refund", "lock")
  /\ AttemptsFree(r)
  /\ attempts' = FALSE
  /\ UNCHANGED <<account, nextSecret, sessions, challenges, links, now, job, history>>

CurrentRefuse(r) ==
  /\ pc[r] = "current"
  /\ AttemptsFree(r)
  /\ Finish(r)
  /\ attempts' = TRUE
  /\ UNCHANGED <<account, nextSecret, sessions, challenges, links, now, history>>

TwoFactorBegin(r) ==
  /\ account.enrolled
  /\ Begin(r, "lock", [NoJob EXCEPT !.kind = "twofactor"])

\* The first write to the account: the new hash, or the secret destroyed.
WriteAccount(r) ==
  /\ Goto(r, "lock", "sessions")
  /\ UserFree(r)
  /\ UNCHANGED <<rows, now, job, history>>

\* The UPDATEs that follow find what they end in a snapshot of their own.
EndSessions(r) ==
  /\ Goto(r, "sessions", IF job[r].kind = "reset" THEN "tail" ELSE "commit")
  /\ job' = [job EXCEPT
       ![r].found = {s \in Session : Live(s) /\ s # job[r].session},
       ![r].retired = IF job[r].kind = "twofactor" THEN {c \in Challenge : Unspent(c)} ELSE {},
       ![r].at = now]
  /\ UNCHANGED <<rows, now, history>>

ClearAfterReset(r) ==
  /\ Goto(r, "tail", "commit")
  /\ AttemptsFree(r)
  /\ job' = [job EXCEPT ![r].cleared = attempts]
  /\ UNCHANGED <<rows, now, history>>

\* Mutant of Changed: resetting the second factor leaves the counter.
ChangedButCounter(r) ==
  IF job[r].kind = "twofactor"
  THEN [account EXCEPT !.secret = 0, !.enrolled = FALSE, !.cutoff = job[r].at]
  ELSE [account EXCEPT !.password = @ + 1]

\* The account as each of them leaves it; changing one's own password stamps no
\* cutoff, the session it was changed from stays.
Changed(r) ==
  CASE job[r].kind = "reset" ->
         [account EXCEPT !.password = @ + 1, !.cutoff = job[r].at]
    [] job[r].kind = "change" ->
         [account EXCEPT !.password = @ + 1]
    [] OTHER ->
         [account EXCEPT !.secret = 0, !.enrolled = FALSE, !.lastStep = 0, !.cutoff = job[r].at]

Commit(r) ==
  /\ pc[r] = "commit"
  /\ Finish(r)
  /\ account' = Changed(r)
  /\ sessions' = [s \in Session |->
       IF s \in job[r].found THEN [sessions[s] EXCEPT !.status = "revoked"]
       ELSE IF s = job[r].session THEN [sessions[s] EXCEPT !.password = Changed(r).password]
       ELSE sessions[s]]
  /\ challenges' = [c \in Challenge |->
       IF c \in job[r].retired THEN [challenges[c] EXCEPT !.status = "spent"]
       ELSE challenges[c]]
  /\ links' = [l \in Link |-> IF l = job[r].link THEN "used" ELSE links[l]]
  /\ attempts' = (attempts /\ ~job[r].cleared)
  /\ setBy' = IF job[r].kind = "twofactor" THEN setBy
              ELSE [setBy EXCEPT ![Changed(r).password] = job[r].link]
  /\ ended' = ended \cup {s \in Session : Honoured(s) /\ s # job[r].session}
  /\ UNCHANGED <<nextSecret, now, accepted>>

-----------------------------------------------------------------------------
(* DELETE /api/account/sessions: two statements, no transaction; and the     *)
(* one-statement ways for a session to end.                                  *)

SignOutAllBegin(r, s) ==
  /\ Honoured(s)
  /\ Begin(r, "all.sessions", NoJob)

SignOutAll(r) ==
  /\ Goto(r, "all.sessions", "all.cutoff")
  /\ \A s \in Request \ {r} : \A t \in SessionsHeld(s) : ~Live(t)
  /\ sessions' = [s \in Session |->
       IF Live(s) THEN [sessions[s] EXCEPT !.status = "revoked"] ELSE sessions[s]]
  /\ ended' = ended \cup {s \in Session : Honoured(s)}
  /\ job' = [job EXCEPT ![r].at = now]
  /\ UNCHANGED <<account, nextSecret, challenges, links, attempts, now, accepted, setBy>>

\* Mutant of StampCutoff: a second is added, for the tokens minted within this one.
StampCutoffAhead(r) ==
  /\ pc[r] = "all.cutoff"
  /\ UserFree(r)
  /\ account' = [account EXCEPT !.cutoff = job[r].at + 1]
  /\ Finish(r)
  /\ UNCHANGED <<nextSecret, sessions, challenges, links, attempts, now, history>>

StampCutoff(r) ==
  /\ pc[r] = "all.cutoff"
  /\ UserFree(r)
  /\ account' = [account EXCEPT !.cutoff = job[r].at]
  /\ Finish(r)
  /\ UNCHANGED <<nextSecret, sessions, challenges, links, attempts, now, history>>

SignOut(s) ==
  /\ Live(s)
  /\ \A r \in Request : s \notin SessionsHeld(r)
  /\ sessions' = [sessions EXCEPT ![s].status = "revoked"]
  /\ UNCHANGED <<account, nextSecret, challenges, links, attempts, now, pc, job, history>>

-----------------------------------------------------------------------------
(* Reset links: createPasswordReset retires the open ones, then inserts.     *)

RetireLinks(r) ==
  /\ RoomForLink
  /\ Goto(r, "idle", "link.insert")
  /\ \A s \in Request : \A l \in Link : l \in LinksHeld(s) => ~Claimable(l)
  /\ links' = [l \in Link |-> IF Claimable(l) THEN "used" ELSE links[l]]
  /\ UNCHANGED <<account, nextSecret, sessions, challenges, attempts, now, job, history>>

InsertLink(r, l) ==
  /\ pc[r] = "link.insert"
  /\ Takes(l, {m \in Link : links[m] # "absent"}, Link)
  /\ links' = [links EXCEPT ![l] = "live"]
  /\ Finish(r)
  /\ UNCHANGED <<account, nextSecret, sessions, challenges, attempts, now, history>>

-----------------------------------------------------------------------------
(* Enrolment.  An offer replaces a pending secret, never an enrolled one.    *)

\* Mutant of MayOffer: an offer replaces an enrolled secret as well.
MayOfferAgain == TRUE

MayOffer == ~account.enrolled

Offer ==
  /\ \E s \in Session : sessions[s].iat > 0
  /\ nextSecret <= MaxSecret
  /\ \A r \in Request : ~UserHeld(r)
  /\ MayOffer
  /\ account' = [account EXCEPT !.secret = nextSecret, !.enrolled = FALSE, !.lastStep = 0]
  /\ nextSecret' = nextSecret + 1
  /\ UNCHANGED <<sessions, challenges, links, attempts, now, pc, job, history>>

\* The gate read the account, pending secret and all; the code is right for it.
ConfirmBegin(r, s, n) ==
  /\ Honoured(s)
  /\ account.secret # 0
  /\ ~account.enrolled
  /\ n \in Window
  /\ n > account.lastStep
  /\ Begin(r, "confirm", [NoJob EXCEPT !.secret = account.secret, !.step = n])

\* Mutant of SamePending: whichever secret is pending by now.
AnyPending(r) == account.secret # 0 /\ ~account.enrolled

\* Still pending, and still the secret the code was checked against.
SamePending(r) == account.secret = job[r].secret /\ ~account.enrolled

ConfirmEnrolment(r) ==
  /\ pc[r] = "confirm"
  /\ UserFree(r)
  /\ SamePending(r)
  /\ account' = [account EXCEPT !.enrolled = TRUE, !.lastStep = job[r].step]
  /\ Accept(job[r].secret, job[r].step)
  /\ Finish(r)
  /\ UNCHANGED <<nextSecret, sessions, challenges, links, attempts, now, setBy, ended>>

ConfirmRefuse(r) ==
  /\ pc[r] = "confirm"
  /\ UserFree(r)
  /\ ~SamePending(r)
  /\ GiveUp(r)

-----------------------------------------------------------------------------
(* Time, failure, and the database breaking a circle of two.                 *)

Tick ==
  /\ now < MaxTime
  /\ now' = now + 1
  /\ UNCHANGED <<rows, pc, job, history>>

ExpireChallenge(c) ==
  /\ challenges[c].status = "live"
  /\ challenges' = [challenges EXCEPT ![c].status = "expired"]
  /\ UNCHANGED <<account, nextSecret, sessions, links, attempts, now, pc, job, history>>

ExpireLink(l) ==
  /\ links[l] = "live"
  /\ links' = [links EXCEPT ![l] = "expired"]
  /\ UNCHANGED <<account, nextSecret, sessions, challenges, attempts, now, pc, job, history>>

\* A lost connection or reply, a crash, an audit row that cannot be written; and
\* a probe, which ends a sign-in once the password has been checked.
Fail(r) ==
  /\ pc[r] # "idle"
  /\ GiveUp(r)

Blockers(r) ==
  {s \in Request \ {r} :
     \/ pc[r] \in {"user", "lock", "spend", "oauth.touch", "all.cutoff", "confirm"} /\ UserHeld(s)
     \/ pc[r] \in {"attempt", "code", "clear", "current", "refund", "tail"} /\ AttemptsHeld(s)
     \/ pc[r] = "issue" /\ job[r].password # 0 /\ AttemptsHeld(s)
     \/ pc[r] = "claim" /\ job[r].link \in LinksHeld(s)}

DeadlockVictim(r) == (\E s \in Blockers(r) : r \in Blockers(s)) /\ Fail(r)

-----------------------------------------------------------------------------

Arrive(r) ==
  \/ SignInBegin(r) \/ OAuthBegin(r) \/ TwoFactorBegin(r) \/ RetireLinks(r)
  \/ \E c \in Challenge : VerifyBegin(r, c)
  \/ \E l \in Link : ResetBegin(r, l)
  \/ \E s \in Session : ChangeBegin(r, s) \/ SignOutAllBegin(r, s)
  \/ \E s \in Session, n \in Step : ConfirmBegin(r, s, n)

\* One request moves on its own.
Move(r) ==
  \/ Attempt(r) \/ AttemptRefuse(r) \/ ReadAccount(r) \/ PasswordRefuse(r)
  \/ OAuthTouch(r)
  \/ ClaimChallenge(r) \/ ChallengeRefuse(r) \/ CodeRefuse(r) \/ SpendCode(r) \/ SpendRefuse(r)
  \/ ClearFailures(r) \/ TouchUser(r) \/ MintToken(r)
  \/ ClaimLink(r) \/ LinkRefuse(r) \/ CurrentAttempt(r) \/ ClearCurrent(r)
  \/ CurrentRefuse(r)
  \/ WriteAccount(r) \/ EndSessions(r) \/ ClearAfterReset(r) \/ Commit(r)
  \/ SignOutAll(r) \/ StampCutoff(r) \/ ConfirmEnrolment(r) \/ ConfirmRefuse(r)
  \/ \E s \in Session : OAuthOpen(r, s) \/ Open(r, s)
  \/ \E c \in Challenge : Issue(r, c)
  \/ \E n \in Step : VerifyCode(r, n)
  \/ \E l \in Link : InsertLink(r, l)

Next ==
  \/ \E r \in Request : Arrive(r) \/ Move(r) \/ Fail(r)
  \/ \E s \in Session : SignOut(s)
  \/ \E c \in Challenge : ExpireChallenge(c)
  \/ \E l \in Link : ExpireLink(l)
  \/ Offer
  \/ Tick

Spec == Init /\ [][Next]_vars

\* As in Members: whoever waits for a lock gets its turn, deadlocks are broken.
Fairness == \A r \in Request : SF_vars(Move(r)) /\ WF_vars(DeadlockVictim(r))

FairSpec == Spec /\ Fairness

-----------------------------------------------------------------------------
(* What was signed out stays out: a session in use when a reset, a change   *)
(* of password or a sign-out everywhere ends them all is never honoured     *)
(* again, even one opened while that was under way (signOutEverywhere,      *)
(* sessions.ts; consumePasswordReset).                                      *)
SignedOutStaysOut == \A s \in ended : ~Honoured(s)

(* A code lets one request through: neither two tabs with the same code nor *)
(* the code that confirmed the enrolment opens a second session             *)
(* (consumeCode and confirmEnrolment share one counter, two-factor.ts).     *)
CodesSpentOnce ==
  account.secret # 0 => \A n \in Step : accepted[<<account.secret, n>>] <= 1

(* A challenge opens one session at most (consumeChallenge).                *)
ChallengesOpenOne ==
  \A s, t \in Session :
    sessions[s].challenge # None /\ sessions[s].challenge = sessions[t].challenge => s = t

(* The secret an account is protected by is one somebody proved a code of,  *)
(* though another tab replaced the pending one meanwhile (confirmEnrolment). *)
EnrolmentProved ==
  account.enrolled => \E n \in Step : accepted[<<account.secret, n>>] > 0

(* A reset link sets one password, even from two tabs (consumePasswordReset). *)
LinksSetOne ==
  \A v, w \in Password : setBy[v] # None /\ setBy[v] = setBy[w] => v = w

(* Only a reset takes an authenticator away: an offer made in another tab    *)
(* never wipes an enrolment (beginEnrolment).                                *)
EnrolmentSticks ==
  [][account.enrolled /\ ~account'.enrolled =>
       \E r \in Request : pc[r] = "commit" /\ job[r].kind = "twofactor"]_vars

(* A second step in flight when an admin resets the second factor is not     *)
(* completed against the old secret: only an account enrolled anew, and     *)
(* at the very step the request had read, could still let its code through  *)
(* (team.ts, consumeCode).                                                  *)
OldSecretRefused ==
  [][\A x \in Code : accepted'[x] # accepted[x] /\ x[1] # account.secret =>
       account.enrolled]_vars

(* Every request is answered: a sign-in and a reset, which lock the account  *)
(* and its attempts in opposite orders, do not hold each other up for ever.  *)
EveryRequestEnds == \A r \in Request : []<>(pc[r] = "idle")

(* After a reset nobody is in who proved only the old password               *)
(* (consumePasswordReset: leaving such a session alive "would defeat the     *)
(* entire point").                                                           *)
ResetCutsOff ==
  \A s \in Session : Honoured(s) => sessions[s].password \in {0, account.password}

(* Asking for a reset link twice does not leave two live ways in             *)
(* (createPasswordReset).                                                    *)
OneLinkLives ==
  \A l, m \in Link : links[l] = "live" /\ links[m] = "live" => l = m
=============================================================================
