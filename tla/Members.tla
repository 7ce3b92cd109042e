------------------------------ MODULE Members ------------------------------
(***************************************************************************)
(* The accounts of one deployment and the requests that change who may     *)
(* manage it: first-run setup, role change and removal, the life of an     *)
(* invitation, and the host's promote-admin command.                       *)
(*                                                                         *)
(* Requests run concurrently against PostgreSQL at READ COMMITTED.  A      *)
(* request is a process whose program counter stops at every statement     *)
(* that another request can come between.  What a transaction has written  *)
(* is invisible until it commits, so its writes are all in the commit      *)
(* action; which rows it has locked follows from how far it has come       *)
(* (RowsHeld, InvitesHeld), because the database drops them at the end.    *)
(***************************************************************************)
EXTENDS Naturals, FiniteSets

CONSTANTS
  Account,   \* users.id; FOR UPDATE locks rows in the order of this column
  Email,     \* addresses
  Invite,    \* invitations.id
  Request,   \* concurrent requests (and runs of the recovery command)
  None,      \* SQL NULL
  Recovery   \* whether an operator uses the recovery command on the host

ASSUME AccountAssumption == Account \subseteq Nat
ASSUME NoneAssumption == None \notin Account
ASSUME RecoveryAssumption == Recovery \in BOOLEAN

VARIABLES
  users,        \* users[a], the committed row of account a
  invitations,  \* invitations[i], the committed row of invitation i
  pc,           \* pc[r], the statement request r runs next
  job,          \* job[r], what request r was asked to do
  sweep,        \* sweep[r], live invitations the removal r found for its target
  taken,        \* taken[r], those of them it has updated (and so locked)
  cleared       \* history: cleared[a], what the removal of a found to cancel

vars == <<users, invitations, pc, job, sweep, taken, cleared>>
scan == <<sweep, taken, cleared>>

Role == {"admin", "member"}  \* "member" stands for every role below admin

NoUser == [status |-> "absent", role |-> "member", email |-> None, bySetup |-> FALSE]
NoInvite == [status |-> "absent", role |-> "member", email |-> None, user |-> None]
NoJob == [op |-> None, actor |-> None, target |-> None,
          role |-> "member", email |-> None, invite |-> None]

User == [status: {"absent", "active", "removed"}, role: Role,
         email: Email \cup {None}, bySetup: BOOLEAN]
Invitation == [status: {"absent", "pending", "expired", "redeemed", "revoked"},
               role: Role, email: Email \cup {None}, user: Account \cup {None}]
Job == [op: {"role", "remove", None}, actor: Account \cup {None},
        target: Account \cup {None}, role: Role,
        email: Email \cup {None}, invite: Invite \cup {None}]
Mutating == {"lock.first", "lock.second", "held", "role.commit", "sweep.read", "sweep"}
Redeeming == {"claim", "insert", "redeem.commit"}
Statement == {"idle", "setup.lock", "setup.check", "setup.commit",
              "lock.first", "lock.second", "held", "role.commit",
              "sweep.read", "sweep",
              "invite.member", "invite.pending", "invite.insert",
              "claim", "insert", "redeem.commit", "promote"}

TypeOK ==
  /\ users \in [Account -> User]
  /\ invitations \in [Invite -> Invitation]
  /\ pc \in [Request -> Statement]
  /\ job \in [Request -> Job]
  /\ sweep \in [Request -> SUBSET Invite]
  /\ taken \in [Request -> SUBSET Invite]
  /\ cleared \in [Account -> SUBSET Invite]

Init ==
  /\ users = [a \in Account |-> NoUser]
  /\ invitations = [i \in Invite |-> NoInvite]
  /\ pc = [r \in Request |-> "idle"]
  /\ job = [r \in Request |-> NoJob]
  /\ sweep = [r \in Request |-> {}]
  /\ taken = [r \in Request |-> {}]
  /\ cleared = [a \in Account |-> {}]

-----------------------------------------------------------------------------
(* What the committed rows say.                                            *)

Exists(a) == users[a].status # "absent"
Active(a) == users[a].status = "active"
IsAdmin(a) == Active(a) /\ users[a].role = "admin"
NobodyActive == \A a \in Account : ~Active(a)
Live(i) == invitations[i].status \in {"pending", "expired"}
Pending(i) == invitations[i].status = "pending"
AddressTaken(e) == \E a \in Account : Active(a) /\ users[a].email = e

(* What open transactions hold.                                            *)

\* Mutant: the actor's row first, whichever id is lower.
FirstActor(r) == job[r].actor

\* The two rows of a member mutation, in the order they are locked.
First(r) == IF job[r].actor < job[r].target THEN job[r].actor ELSE job[r].target
Second(r) == IF First(r) = job[r].actor THEN job[r].target ELSE job[r].actor

\* Mutant: the rows are read without FOR UPDATE.
RowsHeldNone(r) == {}

RowsHeld(r) ==
  CASE pc[r] = "lock.second" -> {First(r)}
    [] pc[r] \in {"held", "role.commit", "sweep.read", "sweep"} -> {First(r), Second(r)}
    [] OTHER -> {}

InvitesHeld(r) ==
  CASE pc[r] = "sweep" -> taken[r]
    [] pc[r] \in {"insert", "redeem.commit"} -> {job[r].invite}
    [] OTHER -> {}

RowFree(r, a) == \A s \in Request \ {r} : a \notin RowsHeld(s)
InviteFree(r, i) == \A s \in Request \ {r} : i \notin InvitesHeld(s)

\* Holds the one advisory lock of completeSetup.
InSetup(r) == pc[r] \in {"setup.check", "setup.commit"}

\* Request s has an uncommitted row that enters or leaves the unique index on
\* the address of active accounts, so an insert of the same address waits.
IndexHeld(s, e) ==
  \/ pc[s] \in {"setup.commit", "redeem.commit"} /\ job[s].email = e
  \/ pc[s] \in {"sweep.read", "sweep"} /\ users[job[s].target].email = e
AddressFree(r, e) == \A s \in Request \ {r} : ~IndexHeld(s, e)

\* Ids are random, so two open inserts never pick the same one.
Unused(a) ==
  /\ ~Exists(a)
  /\ \A s \in Request : pc[s] \in {"setup.commit", "redeem.commit"} => job[s].target # a

\* Bounds of the model: ids never run out in the code, so a request that would
\* insert a row arrives only while there is an id left for it.
RoomForAccount ==
  Cardinality({a \in Account : ~Exists(a)}) >
  Cardinality({s \in Request : pc[s] \in {"setup.lock", "setup.check", "setup.commit",
                                         "claim", "insert", "redeem.commit"}})
RoomForInvite ==
  Cardinality({i \in Invite : invitations[i].status = "absent"}) >
  Cardinality({s \in Request : pc[s] \in {"invite.member", "invite.pending", "invite.insert"}})

-----------------------------------------------------------------------------
(* Requests.                                                               *)

Goto(r, from, to) ==
  /\ pc[r] = from
  /\ pc' = [pc EXCEPT ![r] = to]

Begin(r, to, j) ==
  /\ Goto(r, "idle", to)
  /\ job' = [job EXCEPT ![r] = j]
  /\ UNCHANGED <<users, invitations, scan>>

\* The request is answered; what it held in memory goes.
Finish(r) ==
  /\ pc' = [pc EXCEPT ![r] = "idle"]
  /\ job' = [job EXCEPT ![r] = NoJob]
  /\ sweep' = [sweep EXCEPT ![r] = {}]
  /\ taken' = [taken EXCEPT ![r] = {}]

\* Answered, with nothing written or everything rolled back.
GiveUp(r) == Finish(r) /\ UNCHANGED <<users, invitations, cleared>>

\* The first-run page: the check outside the transaction is only advice.
SetupBegin(r, e) ==
  /\ RoomForAccount
  /\ NobodyActive
  /\ Begin(r, "setup.lock", [NoJob EXCEPT !.email = e])

\* Mutant: setup without its advisory lock.
SetupLockFree(r) ==
  /\ Goto(r, "setup.lock", "setup.check")
  /\ UNCHANGED <<users, invitations, job, scan>>

SetupLock(r) ==
  /\ Goto(r, "setup.lock", "setup.check")
  /\ \A s \in Request : ~InSetup(s)
  /\ UNCHANGED <<users, invitations, job, scan>>

\* Mutant: a refused setup leaves its transaction open.
SetupRefuseOpen(r) ==
  /\ pc[r] = "setup.check"
  /\ ~NobodyActive
  /\ UNCHANGED vars

SetupRefuse(r) ==
  /\ pc[r] = "setup.check"
  /\ ~NobodyActive
  /\ GiveUp(r)

SetupInsert(r, a) ==
  /\ Goto(r, "setup.check", "setup.commit")
  /\ NobodyActive
  /\ AddressFree(r, job[r].email)
  /\ Unused(a)
  /\ job' = [job EXCEPT ![r].target = a]
  /\ UNCHANGED <<users, invitations, scan>>

SetupCommit(r) ==
  /\ pc[r] = "setup.commit"
  /\ Finish(r)
  /\ users' = [users EXCEPT ![job[r].target] =
                 [status |-> "active", role |-> "admin",
                  email |-> job[r].email, bySetup |-> TRUE]]
  /\ UNCHANGED <<invitations, cleared>>

-----------------------------------------------------------------------------
(* Role change and removal.                                                *)

\* requireRole("admin") read the actor's row when the request arrived; nobody
\* acts on themselves.
MutateBegin(r, op, a, t, role) ==
  /\ IsAdmin(a)
  /\ a # t
  /\ Exists(t)
  /\ Begin(r, "lock.first",
           [NoJob EXCEPT !.op = op, !.actor = a, !.target = t, !.role = role])

LockFirst(r) ==
  /\ Goto(r, "lock.first", "lock.second")
  /\ RowFree(r, First(r))
  /\ UNCHANGED <<users, invitations, job, scan>>

LockSecond(r) ==
  /\ Goto(r, "lock.second", "held")
  /\ RowFree(r, Second(r))
  /\ UNCHANGED <<users, invitations, job, scan>>

\* Mutant: the actor is trusted from when the request arrived.
MayMutateStale(r) ==
  /\ Active(job[r].target)
  /\ job[r].op = "role" => users[job[r].target].role # job[r].role

\* What the locked rows allow: the actor still an active admin, the target
\* still active, and a role change that changes something.
MayMutate(r) ==
  /\ IsAdmin(job[r].actor)
  /\ Active(job[r].target)
  /\ job[r].op = "role" => users[job[r].target].role # job[r].role

MutateRefuse(r) ==
  /\ pc[r] = "held"
  /\ ~MayMutate(r)
  /\ GiveUp(r)

MutateDecide(r) ==
  /\ Goto(r, "held", IF job[r].op = "role" THEN "role.commit" ELSE "sweep.read")
  /\ MayMutate(r)
  /\ UNCHANGED <<users, invitations, job, scan>>

\* Mutant: the wrong value in the role column.
RoleCommitWrong(r) ==
  /\ pc[r] = "role.commit"
  /\ Finish(r)
  /\ users' = [users EXCEPT ![job[r].target].role = job[r].op]
  /\ UNCHANGED <<invitations, cleared>>

RoleCommit(r) ==
  /\ pc[r] = "role.commit"
  /\ Finish(r)
  /\ users' = [users EXCEPT ![job[r].target].role = job[r].role]
  /\ UNCHANGED <<invitations, cleared>>

\* The UPDATE of invitations scans once, then locks row by row; a row it had to
\* wait for is updated only if it is still live.
SweepRead(r) ==
  /\ Goto(r, "sweep.read", "sweep")
  /\ sweep' = [sweep EXCEPT ![r] =
                 {i \in Invite : Live(i) /\ invitations[i].email = users[job[r].target].email}]
  /\ taken' = [taken EXCEPT ![r] = {}]
  /\ UNCHANGED <<users, invitations, job, cleared>>

SweepTake(r, i) ==
  /\ pc[r] = "sweep"
  /\ i \in sweep[r] \ taken[r]
  /\ Live(i)
  /\ InviteFree(r, i)
  /\ taken' = [taken EXCEPT ![r] = @ \cup {i}]
  /\ UNCHANGED <<users, invitations, pc, job, sweep, cleared>>

RemoveCommit(r) ==
  /\ pc[r] = "sweep"
  /\ Finish(r)
  /\ \A i \in sweep[r] \ taken[r] : ~Live(i)
  /\ users' = [users EXCEPT ![job[r].target].status = "removed"]
  /\ invitations' = [i \in Invite |->
                       IF i \in taken[r] THEN [invitations[i] EXCEPT !.status = "revoked"]
                       ELSE invitations[i]]
  /\ cleared' = [cleared EXCEPT ![job[r].target] = sweep[r]]

-----------------------------------------------------------------------------
(* Invitations.                                                            *)

InviteBegin(r, a, e, role) ==
  /\ RoomForInvite
  /\ IsAdmin(a)
  /\ Begin(r, "invite.member",
           [NoJob EXCEPT !.actor = a, !.email = e, !.role = role])

\* createInvitation: two reads, then an insert, each its own transaction.
InviteCheckMember(r) ==
  /\ Goto(r, "invite.member", "invite.pending")
  /\ ~AddressTaken(job[r].email)
  /\ UNCHANGED <<users, invitations, job, scan>>

AlreadyInvited(e) == \E i \in Invite : Pending(i) /\ invitations[i].email = e

InviteCheckPending(r) ==
  /\ Goto(r, "invite.pending", "invite.insert")
  /\ ~AlreadyInvited(job[r].email)
  /\ UNCHANGED <<users, invitations, job, scan>>

InviteRefuse(r) ==
  /\ \/ pc[r] = "invite.member" /\ AddressTaken(job[r].email)
     \/ pc[r] = "invite.pending" /\ AlreadyInvited(job[r].email)
  /\ GiveUp(r)

\* The foreign key of createdBy waits for whoever has the inviter's row FOR UPDATE.
InviteInsert(r, i) ==
  /\ pc[r] = "invite.insert"
  /\ RowFree(r, job[r].actor)
  /\ Finish(r)
  /\ invitations[i].status = "absent"
  /\ invitations' = [invitations EXCEPT ![i] =
                       [status |-> "pending", role |-> job[r].role,
                        email |-> job[r].email, user |-> None]]
  /\ UNCHANGED <<users, cleared>>

\* Revoking and resending are one conditional UPDATE each; resending gives a
\* live invitation a new expiry, an expired one included.
SetInvite(i, status) ==
  /\ Live(i)
  /\ \A s \in Request : i \notin InvitesHeld(s)
  /\ invitations' = [invitations EXCEPT ![i].status = status]
  /\ UNCHANGED <<users, pc, job, scan>>

Revoke(i) == SetInvite(i, "revoked")
Resend(i) == SetInvite(i, "pending")

\* Time passes: expires_at is behind us.
Expire(i) ==
  /\ Pending(i)
  /\ invitations' = [invitations EXCEPT ![i].status = "expired"]
  /\ UNCHANGED <<users, pc, job, scan>>

\* lookupInvitation found the link good; the password is hashed meanwhile.
RedeemBegin(r, i) ==
  /\ RoomForAccount
  /\ Pending(i)
  /\ Begin(r, "claim", [NoJob EXCEPT !.invite = i, !.email = invitations[i].email,
                                     !.role = invitations[i].role])

\* Mutant: the claim does not ask whether the invitation was revoked.
ClaimableRevoked(i) == invitations[i].status \in {"pending", "revoked"}

\* The claim is conditional on the invitation being unused, unrevoked, in date.
Claimable(i) == Pending(i)

Claim(r) ==
  /\ Goto(r, "claim", "insert")
  /\ InviteFree(r, job[r].invite)
  /\ Claimable(job[r].invite)
  /\ UNCHANGED <<users, invitations, job, scan>>

ClaimRefuse(r) ==
  /\ pc[r] = "claim"
  /\ InviteFree(r, job[r].invite)
  /\ ~Claimable(job[r].invite)
  /\ GiveUp(r)

RedeemInsert(r, a) ==
  /\ Goto(r, "insert", "redeem.commit")
  /\ AddressFree(r, job[r].email)
  /\ ~AddressTaken(job[r].email)
  /\ Unused(a)
  /\ job' = [job EXCEPT ![r].target = a]
  /\ UNCHANGED <<users, invitations, scan>>

\* The address has an active account: the unique index refuses the row and the
\* whole transaction, the claim included, unwinds.
RedeemRefuse(r) ==
  /\ pc[r] = "insert"
  /\ AddressFree(r, job[r].email)
  /\ AddressTaken(job[r].email)
  /\ GiveUp(r)

RedeemCommit(r) ==
  /\ pc[r] = "redeem.commit"
  /\ Finish(r)
  /\ users' = [users EXCEPT ![job[r].target] =
                 [status |-> "active", role |-> job[r].role,
                  email |-> job[r].email, bySetup |-> FALSE]]
  /\ invitations' = [invitations EXCEPT ![job[r].invite].status = "redeemed",
                                        ![job[r].invite].user = job[r].target]
  /\ UNCHANGED cleared

-----------------------------------------------------------------------------
(* recover promote-admin: the account is read before the transaction opens. *)

PromoteBegin(r, t) ==
  /\ Recovery
  /\ Active(t)
  /\ ~IsAdmin(t)
  /\ Begin(r, "promote", [NoJob EXCEPT !.target = t])

\* Nothing the UPDATE waits for: the row, and the address when the row returns
\* to the index of active accounts.
PromoteReady(r) ==
  /\ pc[r] = "promote"
  /\ RowFree(r, job[r].target)
  /\ ~Active(job[r].target) => AddressFree(r, users[job[r].target].email)

PromoteCommit(r) ==
  /\ PromoteReady(r)
  /\ Active(job[r].target) \/ ~AddressTaken(users[job[r].target].email)
  /\ Finish(r)
  /\ users' = [users EXCEPT ![job[r].target].status = "active",
                            ![job[r].target].role = "admin"]
  /\ UNCHANGED <<invitations, cleared>>

PromoteRefuse(r) ==
  /\ PromoteReady(r)
  /\ ~Active(job[r].target) /\ AddressTaken(users[job[r].target].email)
  /\ GiveUp(r)

-----------------------------------------------------------------------------
(* Failure: a lost connection, a crash of the process, an audit row that    *)
(* cannot be written, or the database breaking a deadlock.  The transaction *)
(* rolls back and its locks go.                                             *)

Fail(r) ==
  /\ pc[r] # "idle"
  /\ GiveUp(r)

\* Who holds what r is waiting for.
Blockers(r) ==
  {s \in Request \ {r} :
     \/ pc[r] = "setup.lock" /\ InSetup(s)
     \/ pc[r] = "lock.first" /\ First(r) \in RowsHeld(s)
     \/ pc[r] = "lock.second" /\ Second(r) \in RowsHeld(s)
     \/ pc[r] = "sweep" /\ \E i \in sweep[r] \ taken[r] : Live(i) /\ i \in InvitesHeld(s)
     \/ pc[r] = "claim" /\ job[r].invite \in InvitesHeld(s)
     \/ pc[r] \in {"setup.check", "insert"} /\ IndexHeld(s, job[r].email)
     \/ pc[r] = "invite.insert" /\ job[r].actor \in RowsHeld(s)
     \/ pc[r] = "promote" /\ job[r].target \in RowsHeld(s)}

Deadlocked(r) == \E s \in Blockers(r) : r \in Blockers(s)

DeadlockVictim(r) == Deadlocked(r) /\ Fail(r)

\* One request moves on its own.
Step(r) ==
  \/ SetupLock(r) \/ SetupRefuse(r) \/ SetupCommit(r)
  \/ LockFirst(r) \/ LockSecond(r) \/ MutateRefuse(r) \/ MutateDecide(r)
  \/ RoleCommit(r) \/ SweepRead(r) \/ RemoveCommit(r)
  \/ InviteCheckMember(r) \/ InviteCheckPending(r) \/ InviteRefuse(r)
  \/ Claim(r) \/ ClaimRefuse(r) \/ RedeemRefuse(r) \/ RedeemCommit(r)
  \/ PromoteCommit(r) \/ PromoteRefuse(r)
  \/ \E a \in Account : SetupInsert(r, a) \/ RedeemInsert(r, a)
  \/ \E i \in Invite : SweepTake(r, i) \/ InviteInsert(r, i)

Arrive(r) ==
  \/ \E e \in Email : SetupBegin(r, e)
  \/ \E a, t \in Account, role \in Role :
       MutateBegin(r, "role", a, t, role) \/ MutateBegin(r, "remove", a, t, "member")
  \/ \E a \in Account, e \in Email, role \in Role : InviteBegin(r, a, e, role)
  \/ \E i \in Invite : RedeemBegin(r, i)
  \/ \E t \in Account : PromoteBegin(r, t)

Next ==
  \/ \E r \in Request : Arrive(r) \/ Step(r) \/ Fail(r)
  \/ \E i \in Invite : Revoke(i) \/ Resend(i) \/ Expire(i)

Spec == Init /\ [][Next]_vars

\* Node runs every request on, the database queues whoever waits for a lock, so
\* nobody is overtaken for ever, and it breaks deadlocks; nothing makes a
\* request arrive or fail.
Fairness == \A r \in Request : SF_vars(Step(r)) /\ WF_vars(DeadlockVictim(r))

FairSpec == Spec /\ Fairness

-----------------------------------------------------------------------------
(* Once a deployment has been set up, somebody can manage it: two admins    *)
(* removing or demoting each other never leave it without an active admin   *)
(* (lockActorAndTarget, members.ts).                                        *)
AlwaysManaged ==
  (\E a \in Account : Exists(a)) => \E a \in Account : IsAdmin(a)

(* The first-run page creates one account in the life of a deployment,      *)
(* however many people have it open (completeSetup, setup.ts).              *)
SetUpOnce ==
  \A a, b \in Account : users[a].bySetup /\ users[b].bySetup => a = b

(* A spent or revoked invitation stays so: it never makes a second account, *)
(* whatever was already under way when it died (the conditional claim of    *)
(* redeemInvitation, the guards of resend and revoke, invitations.ts).      *)
DeadInvitationsStayDead ==
  [][\A i \in Invite : invitations[i].status \in {"redeemed", "revoked"}
                        => invitations'[i] = invitations[i]]_vars

(* Removal leaves no way back: every live invitation to the address that    *)
(* the removal found is dead for good, even one being redeemed meanwhile    *)
(* (removeMember, members.ts).                                              *)
RemovalEndsInvitations ==
  \A a \in Account : \A i \in cleared[a] : invitations[i].status = "revoked"

(* A role change or a removal lands only while its actor is an active       *)
(* admin, not merely when the request arrived (members.ts:83-85).           *)
OnlyAdminsAct ==
  [][\A r \in Request :
       RoleCommit(r) \/ RemoveCommit(r) =>
         IsAdmin(job[r].actor) /\ users'[job[r].actor] = users[job[r].actor]]_vars

(* Two admins acting on each other queue rather than deadlock               *)
(* (lockActorAndTarget locks in id order).                                  *)
MutationsQueue ==
  \A r, s \in Request :
    /\ pc[r] \in {"lock.first", "lock.second"}
    /\ pc[s] \in {"lock.first", "lock.second"}
    => ~(s \in Blockers(r) /\ r \in Blockers(s))

(* Removal is for good: no row comes back, an address returns under a new   *)
(* account only (schema.ts; recover.ts says recovery cannot bring one back). *)
RemovedForGood ==
  [][\A a \in Account : users[a].status = "removed" => users'[a].status = "removed"]_vars

(* Every request is answered: waiting for a lock ends.                      *)
RequestsEnd == \A r \in Request : pc[r] # "idle" ~> pc[r] = "idle"

-----------------------------------------------------------------------------
(* What makes the properties inductive (proved in MembersProofs).          *)

\* What a request knows at each statement.
JobFits(r) ==
  /\ pc[r] \in Mutating =>
       /\ job[r].op \in {"role", "remove"}
       /\ job[r].actor \in Account /\ job[r].target \in Account
       /\ job[r].actor # job[r].target
  /\ pc[r] = "role.commit" => job[r].op = "role"
  /\ pc[r] \in {"setup.lock", "setup.check", "setup.commit",
                "invite.member", "invite.pending", "invite.insert"} \cup Redeeming
       => job[r].email \in Email
  /\ pc[r] \in {"setup.commit", "redeem.commit", "promote"} => job[r].target \in Account
  /\ pc[r] \in Redeeming => job[r].invite \in Invite
  /\ taken[r] \subseteq sweep[r]

JobShape == \A r \in Request : JobFits(r)

\* An invitation that exists has an address, and what a request redeems or
\* cancels exists.
RowShape ==
  /\ \A i \in Invite : invitations[i].status # "absent" => invitations[i].email \in Email
  /\ \A r \in Request :
       /\ pc[r] \in Redeeming => invitations[job[r].invite].status # "absent"
       /\ \A i \in sweep[r] : invitations[i].status # "absent"

RowsExclusive == \A r, s \in Request : r # s => RowsHeld(r) \cap RowsHeld(s) = {}

InvitesExclusive ==
  /\ \A r, s \in Request : r # s => InvitesHeld(r) \cap InvitesHeld(s) = {}
  /\ \A r \in Request : \A i \in InvitesHeld(r) : Live(i)

SetupExclusive == \A r, s \in Request : r # s => ~(InSetup(r) /\ InSetup(s))

\* An insert under way has an id nobody has, and no other insert has picked.
IdsFresh ==
  \A r \in Request : pc[r] \in {"setup.commit", "redeem.commit"} =>
    /\ ~Exists(job[r].target)
    /\ \A s \in Request \ {r} :
         pc[s] \in {"setup.commit", "redeem.commit"} => job[s].target # job[r].target

\* A member mutation and a promotion act on an account that exists.
TargetsExist ==
  \A r \in Request : pc[r] \in Mutating \cup {"promote"} => Exists(job[r].target)

\* What MutateDecide found stays true until the commit.
DecisionHolds ==
  \A r \in Request : pc[r] \in {"role.commit", "sweep.read", "sweep"} =>
    IsAdmin(job[r].actor) /\ Active(job[r].target)

\* Until the first account exists there is nothing but setups under way.
NothingBeforeSetup ==
  (\A a \in Account : ~Exists(a)) =>
    /\ \A i \in Invite : invitations[i].status = "absent"
    /\ \A r \in Request : pc[r] \in {"idle", "setup.lock", "setup.check", "setup.commit"}

SetupComesFirst ==
  /\ \A r \in Request : pc[r] = "setup.commit" => \A a \in Account : ~Exists(a)
  /\ \A a \in Account : users[a].bySetup => Exists(a)

\* The unique index: an insert under way has an address no active account and no
\* other insert has; a redemption inserts the invitation's own address.
AddressesFresh ==
  \A r \in Request : pc[r] = "redeem.commit" =>
    /\ ~AddressTaken(job[r].email)
    /\ \A s \in Request \ {r} :
         pc[s] \in {"setup.commit", "redeem.commit"} => job[s].email # job[r].email

RedeemsItsAddress ==
  \A r \in Request : pc[r] \in Redeeming =>
    /\ invitations[job[r].invite].status # "absent"
    /\ invitations[job[r].invite].email = job[r].email

\* What a removal found to cancel can only be cancelled while it waits.
SweepHolds ==
  \A r \in Request : pc[r] = "sweep" => \A i \in sweep[r] :
    /\ invitations[i].status \in {"pending", "expired", "revoked"}
    /\ invitations[i].email = users[job[r].target].email

IInv ==
  /\ TypeOK /\ JobShape /\ RowShape /\ RowsExclusive /\ InvitesExclusive /\ SetupExclusive
  /\ IdsFresh /\ TargetsExist /\ DecisionHolds /\ NothingBeforeSetup /\ SetupComesFirst
  /\ AlwaysManaged /\ SetUpOnce
  /\ AddressesFresh /\ RedeemsItsAddress /\ SweepHolds /\ RemovalEndsInvitations
=============================================================================
