---------------------------- MODULE MembersProofs ----------------------------
(***************************************************************************)
(* Proofs about Members, for any number of accounts, addresses,            *)
(* invitations and concurrent requests: typing, who may manage a           *)
(* deployment, and that a dead invitation stays dead.                      *)
(***************************************************************************)
EXTENDS Members, TLAPS

\* Every step of the system, the ways to be refused or to fail taken together.
Advance(r) ==
  \/ GiveUp(r)
  \/ SetupLock(r) \/ SetupCommit(r) \/ \E a \in Account : SetupInsert(r, a)
  \/ LockFirst(r) \/ LockSecond(r) \/ MutateDecide(r) \/ RoleCommit(r)
  \/ SweepRead(r) \/ RemoveCommit(r) \/ \E i \in Invite : SweepTake(r, i)
  \/ InviteCheckMember(r) \/ InviteCheckPending(r) \/ \E i \in Invite : InviteInsert(r, i)
  \/ Claim(r) \/ RedeemCommit(r) \/ \E a \in Account : RedeemInsert(r, a)
  \/ PromoteCommit(r)

Change(i) == Revoke(i) \/ Resend(i) \/ Expire(i)

LEMMA NextSteps ==
  ASSUME [Next]_vars
  PROVE  \/ \E r \in Request : Arrive(r) \/ Advance(r)
         \/ \E i \in Invite : Change(i)
         \/ UNCHANGED vars
  BY DEF Next, Step, Fail, Advance, Change, SetupRefuse, MutateRefuse, InviteRefuse,
         ClaimRefuse, RedeemRefuse, PromoteRefuse

\* Records updated in one column.
LEMMA JobWithTarget ==
  ASSUME NEW x \in Job, NEW a \in Account
  PROVE  LET j == [x EXCEPT !.target = a]
         IN  /\ j \in Job /\ j.target = a
             /\ j.email = x.email /\ j.invite = x.invite /\ j.role = x.role
  BY DEF Job, Role

LEMMA UserWith ==
  ASSUME NEW u \in User
  PROVE  /\ \A x \in Role : LET v == [u EXCEPT !.role = x]
                            IN  v \in User /\ v.role = x /\ v.status = u.status
                                /\ v.email = u.email /\ v.bySetup = u.bySetup
         /\ LET v == [u EXCEPT !.status = "removed"]
            IN  v \in User /\ v.role = u.role /\ v.status = "removed"
                /\ v.email = u.email /\ v.bySetup = u.bySetup
         /\ LET v == [u EXCEPT !.status = "active", !.role = "admin"]
            IN  v \in User /\ v.role = "admin" /\ v.status = "active"
                /\ v.email = u.email /\ v.bySetup = u.bySetup
  BY DEF User, Role

LEMMA InvitationWith ==
  ASSUME NEW v \in Invitation
  PROVE  /\ \A x \in {"pending", "expired", "revoked"} :
              LET w == [v EXCEPT !.status = x]
              IN  w \in Invitation /\ w.status = x /\ w.email = v.email
         /\ \A a \in Account :
              LET w == [v EXCEPT !.status = "redeemed", !.user = a]
              IN  w \in Invitation /\ w.status = "redeemed" /\ w.email = v.email
  BY DEF Invitation, Role

-----------------------------------------------------------------------------
(* A request changes nothing of another request's own.                     *)

Keeps(s) ==
  pc'[s] = pc[s] /\ job'[s] = job[s] /\ sweep'[s] = sweep[s] /\ taken'[s] = taken[s]

LEMMA OthersKeep ==
  ASSUME TypeOK, NEW r \in Request, Arrive(r) \/ Advance(r), NEW s \in Request \ {r}
  PROVE  Keeps(s)
<1>1. CASE Arrive(r)
  BY <1>1 DEF TypeOK, Keeps, Arrive, Begin, Goto, scan, SetupBegin, MutateBegin, InviteBegin,
              RedeemBegin, PromoteBegin
<1>2. CASE Advance(r)
  <2>1. \/ Finish(r)
        \/ /\ \E to \in Statement : pc' = [pc EXCEPT ![r] = to]
           /\ UNCHANGED <<job, sweep, taken>>
        \/ /\ \E to \in Statement : pc' = [pc EXCEPT ![r] = to]
           /\ \E j : job' = [job EXCEPT ![r] = j]
           /\ UNCHANGED <<sweep, taken>>
        \/ SweepRead(r)
        \/ \E i \in Invite : SweepTake(r, i)
    BY <1>2 DEF Advance, Goto, GiveUp, scan, SetupLock, SetupCommit, Statement,
                SetupInsert, LockFirst, LockSecond, MutateDecide, RoleCommit,
                RemoveCommit, InviteCheckMember, InviteCheckPending, InviteInsert,
                Claim, RedeemCommit, RedeemInsert, PromoteCommit
  <2>2. QED BY <2>1 DEF TypeOK, Keeps, Finish, SweepRead, SweepTake, Goto
<1>3. QED BY <1>1, <1>2

(* The requests that write account rows, invitation rows, or neither.      *)
LEMMA RowsKept ==
  ASSUME NEW r \in Request, Arrive(r) \/ Advance(r)
  PROVE  /\ \/ UNCHANGED users
            \/ SetupCommit(r) \/ RoleCommit(r) \/ RemoveCommit(r) \/ RedeemCommit(r)
            \/ PromoteCommit(r)
         /\ \/ UNCHANGED invitations
            \/ RemoveCommit(r) \/ RedeemCommit(r) \/ \E i \in Invite : InviteInsert(r, i)
         /\ UNCHANGED cleared \/ RemoveCommit(r)
<1>1. CASE Arrive(r)
  BY <1>1 DEF Arrive, Begin, scan, SetupBegin, MutateBegin, InviteBegin, RedeemBegin,
              PromoteBegin
<1>2. CASE Advance(r)
  BY <1>2 DEF Advance, GiveUp, scan, SetupLock, SetupCommit, SetupInsert, LockFirst,
              LockSecond, MutateDecide, RoleCommit, SweepRead, SweepTake,
              InviteCheckMember, InviteCheckPending, InviteInsert, Claim,
              RedeemInsert, RedeemCommit, PromoteCommit
<1>3. QED BY <1>1, <1>2

-----------------------------------------------------------------------------
(* Every variable keeps its type, a request at a statement has what the     *)
(* statement needs, and a row that exists has an address.                   *)

Typed == TypeOK /\ JobShape /\ RowShape

LEMMA TypedInit == Init => Typed
  BY DEF Init, Typed, TypeOK, JobShape, JobFits, RowShape, Exists, User, Invitation, Job,
         NoUser, NoInvite, NoJob, Role, Statement, Mutating, Redeeming

\* What a request does to its own variables.
LEMMA OwnStep ==
  ASSUME Typed, NEW r \in Request, Arrive(r) \/ Advance(r)
  PROVE  /\ pc' \in [Request -> Statement] /\ job' \in [Request -> Job]
         /\ sweep' \in [Request -> SUBSET Invite] /\ taken' \in [Request -> SUBSET Invite]
         /\ JobFits(r)'
<1> USE DEF Typed, TypeOK, JobFits, JobShape, Statement, Mutating, Redeeming
<1> DEFINE Goal == /\ pc' \in [Request -> Statement] /\ job' \in [Request -> Job]
                   /\ sweep' \in [Request -> SUBSET Invite]
                   /\ taken' \in [Request -> SUBSET Invite]
                   /\ JobFits(r)'
<1>1. NoJob \in Job
  BY DEF NoJob, Job, Role
<1>2. ASSUME NEW to \in {"setup.lock", "lock.first", "invite.member", "claim", "promote"},
             NEW j \in Job, Begin(r, to, j),
             to \in {"setup.lock", "invite.member", "claim"} => j.email \in Email,
             to = "claim" => j.invite \in Invite,
             to = "promote" => j.target \in Account,
             to = "lock.first" => /\ j.op \in {"role", "remove"} /\ j.actor # j.target
                                  /\ j.actor \in Account /\ j.target \in Account
      PROVE  Goal
  BY <1>2 DEF Begin, Goto, scan
<1>3. ASSUME Arrive(r) PROVE Goal
  <2> HIDE DEF Goal
  <2>1. CASE \E e \in Email : SetupBegin(r, e)
    <3>1. PICK e \in Email : SetupBegin(r, e)
      BY <2>1
    <3> DEFINE j == [NoJob EXCEPT !.email = e]
    <3>2. j \in Job /\ j.email = e
      BY DEF NoJob, Job, Role
    <3>3. Begin(r, "setup.lock", j)
      BY <3>1 DEF SetupBegin
    <3> HIDE DEF j
    <3>4. QED BY <3>2, <3>3, <1>2
  <2>2. CASE \E a, t \in Account, role \in Role :
               MutateBegin(r, "role", a, t, role) \/ MutateBegin(r, "remove", a, t, "member")
    <3>1. PICK op \in {"role", "remove"}, a \in Account, t \in Account, role \in Role :
            MutateBegin(r, op, a, t, role)
      BY <2>2 DEF Role
    <3> DEFINE j == [NoJob EXCEPT !.op = op, !.actor = a, !.target = t, !.role = role]
    <3>2. j \in Job /\ j.op = op /\ j.actor = a /\ j.target = t
      BY DEF NoJob, Job
    <3>3. Begin(r, "lock.first", j) /\ a # t
      BY <3>1 DEF MutateBegin
    <3> HIDE DEF j
    <3>4. QED BY <3>2, <3>3, <1>2
  <2>3. CASE \E a \in Account, e \in Email, role \in Role : InviteBegin(r, a, e, role)
    <3>1. PICK a \in Account, e \in Email, role \in Role : InviteBegin(r, a, e, role)
      BY <2>3
    <3> DEFINE j == [NoJob EXCEPT !.actor = a, !.email = e, !.role = role]
    <3>2. j \in Job /\ j.email = e
      BY DEF NoJob, Job
    <3>3. Begin(r, "invite.member", j)
      BY <3>1 DEF InviteBegin
    <3> HIDE DEF j
    <3>4. QED BY <3>2, <3>3, <1>2
  <2>4. CASE \E i \in Invite : RedeemBegin(r, i)
    <3>1. PICK i \in Invite : RedeemBegin(r, i)
      BY <2>4
    <3>2. invitations[i].email \in Email /\ invitations[i].role \in Role
      BY <3>1 DEF RedeemBegin, Pending, RowShape, Invitation
    <3> DEFINE j == [NoJob EXCEPT !.invite = i, !.email = invitations[i].email,
                                  !.role = invitations[i].role]
    <3>3. j \in Job /\ j.invite = i /\ j.email = invitations[i].email
      BY <3>2 DEF NoJob, Job
    <3>4. Begin(r, "claim", j)
      BY <3>1 DEF RedeemBegin
    <3> HIDE DEF j
    <3>5. QED BY <3>2, <3>3, <3>4, <1>2
  <2>5. CASE \E t \in Account : PromoteBegin(r, t)
    <3>1. PICK t \in Account : PromoteBegin(r, t)
      BY <2>5
    <3> DEFINE j == [NoJob EXCEPT !.target = t]
    <3>2. j \in Job /\ j.target = t
      BY DEF NoJob, Job, Role
    <3>3. Begin(r, "promote", j)
      BY <3>1 DEF PromoteBegin
    <3> HIDE DEF j
    <3>4. QED BY <3>2, <3>3, <1>2
  <2>6. QED BY <1>3, <2>1, <2>2, <2>3, <2>4, <2>5 DEF Arrive
<1>4. ASSUME Advance(r) PROVE Goal
  <2>1. CASE Finish(r)
    BY <2>1, <1>1 DEF Finish
  <2>2. CASE SetupLock(r) \/ InviteCheckMember(r) \/ InviteCheckPending(r) \/ Claim(r)
             \/ LockFirst(r) \/ LockSecond(r) \/ MutateDecide(r)
    <3>1. UNCHANGED <<job, sweep, taken>>
      BY <2>2 DEF SetupLock, InviteCheckMember, InviteCheckPending, Claim, LockFirst,
                  LockSecond, MutateDecide, scan
    <3>2. PICK from, to \in Statement :
            /\ Goto(r, from, to)
            /\ \/ from = "setup.lock" /\ to = "setup.check"
               \/ from = "invite.member" /\ to = "invite.pending"
               \/ from = "invite.pending" /\ to = "invite.insert"
               \/ from = "claim" /\ to = "insert"
               \/ from = "lock.first" /\ to = "lock.second"
               \/ from = "lock.second" /\ to = "held"
               \/ from = "held" /\ to = "role.commit" /\ job[r].op = "role"
               \/ from = "held" /\ to = "sweep.read"
      BY <2>2 DEF SetupLock, InviteCheckMember, InviteCheckPending, Claim, LockFirst,
                  LockSecond, MutateDecide
    <3>3. QED BY <3>1, <3>2 DEF Goto
  <2>3. CASE \E a \in Account : SetupInsert(r, a) \/ RedeemInsert(r, a)
    <3>1. PICK a \in Account : SetupInsert(r, a) \/ RedeemInsert(r, a)
      BY <2>3
    <3> DEFINE j == [job[r] EXCEPT !.target = a]
    <3>2. /\ j \in Job /\ j.target = a /\ j.email = job[r].email
          /\ j.invite = job[r].invite
      BY JobWithTarget
    <3>3. job' = [job EXCEPT ![r] = j] /\ UNCHANGED <<sweep, taken>>
      BY <3>1 DEF SetupInsert, RedeemInsert, scan
    <3> HIDE DEF j
    <3>4. CASE SetupInsert(r, a)
      BY <3>2, <3>3, <3>4 DEF SetupInsert, Goto
    <3>5. CASE RedeemInsert(r, a)
      BY <3>2, <3>3, <3>5 DEF RedeemInsert, Goto
    <3>6. QED BY <3>1, <3>4, <3>5
  <2>4. CASE SweepRead(r)
    BY <2>4 DEF SweepRead, Goto
  <2>5. CASE \E i \in Invite : SweepTake(r, i)
    BY <2>5 DEF SweepTake
  <2> HIDE DEF Goal
  <2>6. QED
    BY <1>4, <2>1, <2>2, <2>3, <2>4, <2>5
    DEF Advance, GiveUp, SetupCommit, RoleCommit, RemoveCommit, InviteInsert, RedeemCommit,
        PromoteCommit
<1>5. QED BY <1>3, <1>4

LEMMA UsersTyped ==
  ASSUME Typed, NEW r \in Request, Arrive(r) \/ Advance(r)
  PROVE  users' \in [Account -> User]
<1>1. users \in [Account -> User] /\ job[r] \in Job /\ JobFits(r)
  BY DEF Typed, TypeOK, JobShape
<1>2. ASSUME NEW a \in Account, NEW u \in User, users' = [users EXCEPT ![a] = u]
      PROVE  users' \in [Account -> User]
  BY <1>1, <1>2
<1>3. CASE SetupCommit(r)
  <2>1. job[r].target \in Account /\ job[r].email \in Email
    BY <1>1, <1>3 DEF SetupCommit, JobFits
  <2> DEFINE u == [status |-> "active", role |-> "admin",
                   email |-> job[r].email, bySetup |-> TRUE]
  <2>2. u \in User
    BY <2>1 DEF User, Role
  <2>3. users' = [users EXCEPT ![job[r].target] = u]
    BY <1>3 DEF SetupCommit
  <2> HIDE DEF u
  <2>4. QED BY <2>1, <2>2, <2>3, <1>2
<1>4. CASE RedeemCommit(r)
  <2>1. job[r].target \in Account /\ job[r].email \in Email /\ job[r].role \in Role
    BY <1>1, <1>4 DEF RedeemCommit, JobFits, Job, Redeeming
  <2> DEFINE u == [status |-> "active", role |-> job[r].role,
                   email |-> job[r].email, bySetup |-> FALSE]
  <2>2. u \in User
    BY <2>1 DEF User
  <2>3. users' = [users EXCEPT ![job[r].target] = u]
    BY <1>4 DEF RedeemCommit
  <2> HIDE DEF u
  <2>4. QED BY <2>1, <2>2, <2>3, <1>2
<1>5. CASE RoleCommit(r)
  <2>1. job[r].target \in Account /\ job[r].role \in Role
    BY <1>1, <1>5 DEF RoleCommit, JobFits, Job, Mutating
  <2>2. [users[job[r].target] EXCEPT !.role = job[r].role] \in User
    BY <1>1, <2>1, UserWith
  <2>3. QED BY <2>1, <2>2, <1>2, <1>5 DEF RoleCommit
<1>6. CASE RemoveCommit(r)
  <2>1. job[r].target \in Account
    BY <1>1, <1>6 DEF RemoveCommit, JobFits, Mutating
  <2>2. [users[job[r].target] EXCEPT !.status = "removed"] \in User
    BY <1>1, <2>1, UserWith
  <2>3. QED BY <2>1, <2>2, <1>2, <1>6 DEF RemoveCommit
<1>7. CASE PromoteCommit(r)
  <2>1. job[r].target \in Account
    BY <1>1, <1>7 DEF PromoteCommit, PromoteReady, JobFits
  <2>2. [users[job[r].target] EXCEPT !.status = "active", !.role = "admin"] \in User
    BY <1>1, <2>1, UserWith
  <2>3. users' = [users EXCEPT ![job[r].target] =
                    [users[job[r].target] EXCEPT !.status = "active", !.role = "admin"]]
    BY <1>1, <1>7, <2>1 DEF PromoteCommit
  <2>4. QED BY <2>1, <2>2, <2>3, <1>2
<1>8. QED BY <1>1, <1>3, <1>4, <1>5, <1>6, <1>7, RowsKept

\* The invitation rows a request leaves behind.
LEMMA InvitationsTyped ==
  ASSUME Typed, NEW r \in Request, Arrive(r) \/ Advance(r)
  PROVE  /\ invitations' \in [Invite -> Invitation]
         /\ \A i \in Invite : invitations'[i].status # "absent" => invitations'[i].email \in Email
         /\ \A i \in Invite : invitations[i].status # "absent" => invitations'[i].status # "absent"
<1> DEFINE Good(i, v) ==
             /\ v \in Invitation
             /\ v.status # "absent" => v.email \in Email
             /\ invitations[i].status # "absent" => v.status # "absent"
<1>1. /\ invitations \in [Invite -> Invitation] /\ job[r] \in Job /\ JobFits(r)
      /\ \A i \in Invite : Good(i, invitations[i])
      /\ taken[r] \subseteq Invite
      /\ \A i \in taken[r] : invitations[i].status # "absent"
      /\ pc[r] = "redeem.commit" => invitations[job[r].invite].status # "absent"
  BY DEF Typed, TypeOK, JobShape, JobFits, RowShape, Redeeming
<1>2. SUFFICES \A i \in Invite : Good(i, invitations'[i]) /\ DOMAIN invitations' = Invite
                                 /\ invitations' = [k \in Invite |-> invitations'[k]]
  <2>1. invitations' = [k \in Invite |-> invitations'[k]]
    BY <1>1, RowsKept DEF RemoveCommit, RedeemCommit, InviteInsert
  <2>2. QED BY <1>2, <2>1
<1>3. CASE RemoveCommit(r)
  <2>1. \A i \in Invite : Good(i, invitations'[i])
    <3>1. TAKE i \in Invite
    <3>2. CASE i \in taken[r]
      <4> DEFINE w == [invitations[i] EXCEPT !.status = "revoked"]
      <4>1. w \in Invitation /\ w.status = "revoked" /\ w.email = invitations[i].email
        BY <1>1, InvitationWith
      <4>2. invitations'[i] = w
        BY <1>3, <3>2 DEF RemoveCommit
      <4> HIDE DEF w
      <4>3. QED BY <1>1, <3>2, <4>1, <4>2
    <3>3. CASE i \notin taken[r]
      <4>1. invitations'[i] = invitations[i]
        BY <1>3, <3>3 DEF RemoveCommit
      <4>2. QED BY <1>1, <4>1
    <3>4. QED BY <3>2, <3>3
  <2>2. QED BY <2>1, <1>3 DEF RemoveCommit
<1>4. CASE RedeemCommit(r)
  <2>1. job[r].invite \in Invite /\ job[r].target \in Account
    BY <1>1, <1>4 DEF RedeemCommit, JobFits, Redeeming
  <2> DEFINE w == [invitations[job[r].invite] EXCEPT !.status = "redeemed",
                                                     !.user = job[r].target]
  <2>2. w \in Invitation /\ w.status = "redeemed" /\ w.email = invitations[job[r].invite].email
    BY <1>1, <2>1, InvitationWith
  <2>3. invitations' = [invitations EXCEPT ![job[r].invite] = w]
    BY <1>1, <1>4, <2>1 DEF RedeemCommit
  <2>4. pc[r] = "redeem.commit"
    BY <1>4 DEF RedeemCommit
  <2> HIDE DEF w
  <2>5. QED BY <1>1, <2>1, <2>2, <2>3, <2>4
<1>5. CASE \E i \in Invite : InviteInsert(r, i)
  <2>1. PICK k \in Invite : InviteInsert(r, k)
    BY <1>5
  <2> DEFINE w == [status |-> "pending", role |-> job[r].role,
                   email |-> job[r].email, user |-> None]
  <2>2. w \in Invitation /\ w.status = "pending" /\ w.email \in Email
    BY <1>1, <2>1 DEF InviteInsert, JobFits, Job, Invitation
  <2>3. invitations' = [invitations EXCEPT ![k] = w]
    BY <2>1 DEF InviteInsert
  <2> HIDE DEF w
  <2>4. QED BY <1>1, <2>2, <2>3
<1>6. CASE UNCHANGED invitations
  BY <1>1, <1>6
<1> HIDE DEF Good
<1>7. QED BY <1>3, <1>4, <1>5, <1>6, RowsKept

\* An invitation revoked, resent or run out on its own.
LEMMA ChangeSteps ==
  ASSUME Typed, NEW i \in Invite, Change(i)
  PROVE  /\ UNCHANGED <<users, pc, job, sweep, taken, cleared>>
         /\ \A k \in Invite \ {i} : invitations'[k] = invitations[k]
         /\ Live(i) /\ invitations'[i].status \in {"pending", "expired", "revoked"}
         /\ invitations'[i].email = invitations[i].email
         /\ invitations'[i].status # "expired" => \A s \in Request : i \notin InvitesHeld(s)
         /\ invitations' \in [Invite -> Invitation]
<1>1. invitations \in [Invite -> Invitation]
  BY DEF Typed, TypeOK
<1>2. PICK x \in {"pending", "expired", "revoked"} :
        /\ invitations' = [invitations EXCEPT ![i] = [invitations[i] EXCEPT !.status = x]]
        /\ Live(i) /\ UNCHANGED <<users, pc, job, scan>>
        /\ x # "expired" => \A s \in Request : i \notin InvitesHeld(s)
  BY <1>1 DEF Change, Revoke, Resend, SetInvite, Expire, Pending, Live
<1> DEFINE w == [invitations[i] EXCEPT !.status = x]
<1>3. w \in Invitation /\ w.status = x /\ w.email = invitations[i].email
  BY <1>1, InvitationWith
<1>4. invitations' = [invitations EXCEPT ![i] = w]
  BY <1>2
<1> HIDE DEF w
<1>5. QED BY <1>1, <1>2, <1>3, <1>4 DEF scan

\* What a request redeems or cancels exists.
LEMMA KnowsStep ==
  ASSUME Typed, NEW r \in Request, Arrive(r) \/ Advance(r)
  PROVE  /\ pc'[r] \in Redeeming => invitations'[job'[r].invite].status # "absent"
         /\ \A i \in sweep'[r] : invitations'[i].status # "absent"
<1>1. CASE Arrive(r)
  <2>1. /\ UNCHANGED <<invitations, sweep>>
        /\ \/ pc'[r] \notin Redeeming
           \/ \E i \in Invite : RedeemBegin(r, i)
    BY <1>1 DEF Arrive, Begin, Goto, scan, SetupBegin, MutateBegin, InviteBegin, RedeemBegin,
                PromoteBegin, Redeeming, Typed, TypeOK
  <2>2. CASE \E i \in Invite : RedeemBegin(r, i)
    <3>1. PICK i \in Invite : RedeemBegin(r, i)
      BY <2>2
    <3>2. job'[r].invite = i
      BY <3>1 DEF RedeemBegin, Begin, Typed, TypeOK, NoJob
    <3>3. QED BY <2>1, <3>1, <3>2 DEF RedeemBegin, Pending, Typed, RowShape
  <2>3. QED BY <2>1, <2>2 DEF Typed, RowShape
<1>2. CASE Finish(r)
  BY <1>2 DEF Finish, Typed, TypeOK, Redeeming
<1>3. CASE SweepRead(r)
  BY <1>3 DEF SweepRead, Goto, Live, Typed, TypeOK, Redeeming
<1>4. CASE \E a \in Account : SetupInsert(r, a) \/ RedeemInsert(r, a)
  <2>1. PICK a \in Account : SetupInsert(r, a) \/ RedeemInsert(r, a)
    BY <1>4
  <2>2. /\ job' = [job EXCEPT ![r] = [job[r] EXCEPT !.target = a]]
        /\ UNCHANGED <<invitations, sweep>>
        /\ pc'[r] \in Redeeming => pc[r] \in Redeeming
    BY <2>1 DEF SetupInsert, RedeemInsert, Goto, scan, Typed, TypeOK, Redeeming
  <2> DEFINE j == [job[r] EXCEPT !.target = a]
  <2>3. j.invite = job[r].invite
    BY JobWithTarget DEF Typed, TypeOK
  <2>4. job'[r] = j
    BY <2>2 DEF Typed, TypeOK
  <2> HIDE DEF j
  <2>5. QED BY <2>2, <2>3, <2>4 DEF Typed, RowShape
<1>5. CASE /\ UNCHANGED <<job, sweep, invitations>>
           /\ pc'[r] \in Redeeming => pc[r] \in Redeeming
  BY <1>5 DEF Typed, RowShape
<1>6. CASE Advance(r)
  BY <1>2, <1>3, <1>4, <1>5, <1>6
  DEF Advance, GiveUp, Goto, scan, SetupLock, SetupCommit, LockFirst, LockSecond, MutateDecide,
      RoleCommit, RemoveCommit, SweepTake, InviteCheckMember, InviteCheckPending, InviteInsert,
      Claim, RedeemCommit, PromoteCommit, Typed, TypeOK, Redeeming
<1>7. QED BY <1>1, <1>6

LEMMA TypedStep ==
  ASSUME Typed, [Next]_vars
  PROVE  Typed'
<1>1. CASE UNCHANGED vars
  BY <1>1 DEF vars, Typed, TypeOK, JobShape, JobFits, RowShape
<1>2. CASE \E i \in Invite : Change(i)
  <2>1. PICK i \in Invite : Change(i)
    BY <1>2
  <2>2. JobShape'
    BY <2>1, ChangeSteps DEF Typed, JobShape, JobFits
  <2>3. \A k \in Invite : /\ invitations[k].status # "absent" => invitations'[k].status # "absent"
                          /\ invitations'[k].status # "absent" => invitations'[k].email \in Email
    BY <2>1, ChangeSteps DEF Typed, RowShape, Live
  <2>4. \A s \in Request : /\ sweep[s] \subseteq Invite
                           /\ pc[s] \in Redeeming => job[s].invite \in Invite
    BY DEF Typed, TypeOK, JobShape, JobFits
  <2>5. RowShape'
    <3>1. UNCHANGED <<pc, job, sweep>>
      BY <2>1, ChangeSteps
    <3>2. ASSUME NEW s \in Request
          PROVE  /\ pc[s] \in Redeeming => invitations'[job[s].invite].status # "absent"
                 /\ \A k \in sweep[s] : invitations'[k].status # "absent"
      BY <2>3, <2>4 DEF Typed, RowShape
    <3>3. QED BY <2>3, <3>1, <3>2 DEF RowShape
  <2>6. QED BY <2>1, <2>2, <2>5, ChangeSteps DEF Typed, TypeOK
<1>3. CASE \E r \in Request : Arrive(r) \/ Advance(r)
  <2>1. PICK r \in Request : Arrive(r) \/ Advance(r)
    BY <1>3
  <2>2. JobShape' /\ RowShape'
    <3> DEFINE Knows(s) == /\ pc[s] \in Redeeming => invitations[job[s].invite].status # "absent"
                           /\ \A i \in sweep[s] : invitations[i].status # "absent"
    <3>1. JobFits(r)'
      BY <2>1, OwnStep
    <3>2. ASSUME NEW s \in Request \ {r} PROVE JobFits(s)' /\ Knows(s)'
      <4>1. Keeps(s) /\ JobFits(s) /\ Knows(s) /\ sweep[s] \subseteq Invite
        BY <2>1, OthersKeep DEF Typed, TypeOK, JobShape, RowShape
      <4>2. QED BY <2>1, <4>1, InvitationsTyped DEF Keeps, JobFits, Redeeming
    <3>3. Knows(r)'
      BY <2>1, KnowsStep
    <3>4. QED BY <2>1, <3>1, <3>2, <3>3, InvitationsTyped DEF JobShape, RowShape
  <2>3. cleared' \in [Account -> SUBSET Invite]
    <3>1. CASE RemoveCommit(r)
      <4>1. cleared' = [cleared EXCEPT ![job[r].target] = sweep[r]]
        BY <3>1 DEF RemoveCommit
      <4>2. QED BY <4>1 DEF Typed, TypeOK
    <3>2. QED BY <2>1, <3>1, RowsKept DEF Typed, TypeOK
  <2>4. QED
    BY <2>1, <2>2, <2>3, OwnStep, UsersTyped, InvitationsTyped DEF Typed, TypeOK
<1>4. QED BY <1>1, <1>2, <1>3, NextSteps

(* Every variable keeps its type, whatever requests do.                    *)
THEOREM Typing == Spec => []TypeOK
<1>1. Typed /\ [Next]_vars => Typed'
  BY TypedStep
<1>2. Typed => TypeOK
  BY DEF Typed
<1>3. QED BY TypedInit, <1>1, <1>2, PTL DEF Spec

-----------------------------------------------------------------------------
(* Who may manage a deployment. *)

\* What a request writes to the account table.
Wrote(r) ==
  LET t == job[r].target IN
  /\ t \in Account
  /\ \A b \in Account \ {t} : users'[b] = users[b]
  /\ \/ /\ SetupCommit(r)
        /\ users'[t].status = "active" /\ users'[t].role = "admin"
     \/ /\ RedeemCommit(r)
        /\ users'[t].status = "active" /\ users'[t].bySetup = FALSE
        /\ users'[t].email = job[r].email
     \/ /\ RoleCommit(r)
        /\ users'[t].status = users[t].status /\ users'[t].bySetup = users[t].bySetup
        /\ users'[t].email = users[t].email
     \/ /\ RemoveCommit(r)
        /\ users'[t].status = "removed" /\ users'[t].bySetup = users[t].bySetup
        /\ users'[t].email = users[t].email
     \/ /\ PromoteCommit(r)
        /\ users'[t].status = "active" /\ users'[t].role = "admin"
        /\ users'[t].bySetup = users[t].bySetup /\ users'[t].email = users[t].email

LEMMA UsersStep ==
  ASSUME Typed, NEW r \in Request, Arrive(r) \/ Advance(r)
  PROVE  UNCHANGED users \/ Wrote(r)
<1> DEFINE t == job[r].target
<1>1. users \in [Account -> User] /\ job[r] \in Job /\ JobFits(r)
  BY DEF Typed, TypeOK, JobShape
<1>2. CASE SetupCommit(r)
  <2>1. t \in Account
    BY <1>1, <1>2 DEF SetupCommit, JobFits
  <2> QED BY <1>1, <1>2, <2>1 DEF SetupCommit, Wrote
<1>3. CASE RedeemCommit(r)
  <2>1. t \in Account
    BY <1>1, <1>3 DEF RedeemCommit, JobFits
  <2> QED BY <1>1, <1>3, <2>1 DEF RedeemCommit, Wrote
<1>4. CASE RoleCommit(r)
  <2>1. t \in Account /\ job[r].role \in Role
    BY <1>1, <1>4 DEF RoleCommit, JobFits, Mutating, Job
  <2> DEFINE u == [users[t] EXCEPT !.role = job[r].role]
  <2>2. u.status = users[t].status /\ u.bySetup = users[t].bySetup /\ u.email = users[t].email
    <3>1. users[t] \in User
      BY <1>1, <2>1
    <3>2. QED BY <2>1, <3>1, UserWith
  <2>3. users' = [users EXCEPT ![t] = u]
    BY <1>4 DEF RoleCommit
  <2> HIDE DEF u
  <2>4. QED BY <1>1, <1>4, <2>1, <2>2, <2>3 DEF Wrote
<1>5. CASE RemoveCommit(r)
  <2>1. t \in Account
    BY <1>1, <1>5 DEF RemoveCommit, JobFits, Mutating
  <2> DEFINE u == [users[t] EXCEPT !.status = "removed"]
  <2>2. u.status = "removed" /\ u.bySetup = users[t].bySetup /\ u.email = users[t].email
    BY <1>1, <2>1, UserWith
  <2>3. users' = [users EXCEPT ![t] = u]
    BY <1>5 DEF RemoveCommit
  <2> HIDE DEF u
  <2>4. QED BY <1>1, <1>5, <2>1, <2>2, <2>3 DEF Wrote
<1>6. CASE PromoteCommit(r)
  <2>1. t \in Account
    BY <1>1, <1>6 DEF PromoteCommit, PromoteReady, JobFits
  <2> DEFINE u == [users[t] EXCEPT !.status = "active", !.role = "admin"]
  <2>2. /\ u.status = "active" /\ u.role = "admin"
        /\ u.bySetup = users[t].bySetup /\ u.email = users[t].email
    BY <1>1, <2>1, UserWith
  <2>3. users' = [users EXCEPT ![t] = u]
    BY <1>1, <1>6, <2>1 DEF PromoteCommit
  <2> HIDE DEF u
  <2>4. QED BY <1>1, <1>6, <2>1, <2>2, <2>3 DEF Wrote
<1>7. QED BY <1>2, <1>3, <1>4, <1>5, <1>6, RowsKept

\* An account, once there, is never deleted.
LEMMA ExistsStays ==
  ASSUME Typed, TargetsExist, NEW r \in Request, Arrive(r) \/ Advance(r), NEW a \in Account
  PROVE  /\ Exists(a) => Exists(a)'
         /\ Exists(a)' /\ ~Exists(a) => a = job[r].target /\ (SetupCommit(r) \/ RedeemCommit(r))
<1>1. CASE UNCHANGED users
  BY <1>1 DEF Exists
<1>2. CASE Wrote(r)
  <2>1. PICK t \in Account : t = job[r].target
    BY <1>2 DEF Wrote
  <2>2. CASE a # t
    BY <1>2, <2>1, <2>2 DEF Wrote, Exists
  <2>3. CASE a = t
    <3>1. ~(SetupCommit(r) \/ RedeemCommit(r)) => RoleCommit(r) \/ Exists(t)
      BY <1>2, <2>1 DEF Wrote, TargetsExist, RemoveCommit, PromoteCommit, PromoteReady, Mutating
    <3>2. \/ SetupCommit(r) \/ RedeemCommit(r)
          \/ users'[t].status \in {"active", "removed", users[t].status}
      BY <1>2, <2>1 DEF Wrote
    <3>3. SetupCommit(r) \/ RedeemCommit(r) => users'[t].status = "active"
      BY <1>2, <2>1 DEF Wrote, SetupCommit, RedeemCommit, RoleCommit, RemoveCommit, PromoteCommit, PromoteReady
    <3>4. RoleCommit(r) => users'[t].status = users[t].status
      BY <1>2, <2>1 DEF Wrote, SetupCommit, RedeemCommit, RoleCommit, RemoveCommit, PromoteCommit, PromoteReady
    <3>5. QED BY <2>1, <2>3, <3>1, <3>2, <3>3, <3>4 DEF Exists
  <2>4. QED BY <2>2, <2>3
<1>3. QED BY <1>1, <1>2, UsersStep

-----------------------------------------------------------------------------
(* Locks exclude: the rows of two mutations, the advisory lock of setup.   *)

\* Where a request can go in one step.
LEMMA Moves ==
  ASSUME Typed, NEW r \in Request, Arrive(r) \/ Advance(r)
  PROVE  \/ pc'[r] = "idle"
         \/ Arrive(r) /\ pc[r] = "idle"
              /\ pc'[r] \in {"setup.lock", "lock.first", "invite.member", "claim", "promote"}
         \/ SetupLock(r) /\ pc'[r] = "setup.check"
         \/ pc[r] = "setup.check" /\ pc'[r] = "setup.commit"
              /\ \E a \in Account : SetupInsert(r, a) /\ job'[r].target = a
         \/ LockFirst(r) /\ pc'[r] = "lock.second" /\ job'[r] = job[r]
         \/ LockSecond(r) /\ pc'[r] = "held" /\ job'[r] = job[r]
         \/ MutateDecide(r) /\ pc'[r] \in {"role.commit", "sweep.read"} /\ job'[r] = job[r]
         \/ SweepRead(r) /\ pc'[r] = "sweep" /\ job'[r] = job[r]
         \/ (\E i \in Invite : SweepTake(r, i)) /\ UNCHANGED <<pc, job>>
         \/ pc[r] \in {"invite.member", "invite.pending"} /\ job'[r] = job[r]
              /\ pc'[r] \in {"invite.pending", "invite.insert"}
         \/ Claim(r) /\ pc'[r] = "insert" /\ job'[r] = job[r]
         \/ pc[r] = "insert" /\ pc'[r] = "redeem.commit"
              /\ \E a \in Account : RedeemInsert(r, a) /\ job'[r].target = a
<1>1. pc \in [Request -> Statement] /\ job \in [Request -> Job]
  BY DEF Typed, TypeOK
<1>2. CASE Arrive(r)
  BY <1>1, <1>2 DEF Arrive, Begin, Goto, SetupBegin, MutateBegin, InviteBegin, RedeemBegin,
                    PromoteBegin
<1>3. CASE Finish(r)
  BY <1>1, <1>3 DEF Finish
<1>4. CASE \E a \in Account : SetupInsert(r, a) \/ RedeemInsert(r, a)
  <2>1. PICK a \in Account : SetupInsert(r, a) \/ RedeemInsert(r, a)
    BY <1>4
  <2>2. job' = [job EXCEPT ![r] = [job[r] EXCEPT !.target = a]]
    BY <2>1 DEF SetupInsert, RedeemInsert
  <2> DEFINE j == [job[r] EXCEPT !.target = a]
  <2>3. j.target = a /\ job' = [job EXCEPT ![r] = j]
    BY <1>1, <2>2, JobWithTarget
  <2> HIDE DEF j
  <2>4. job'[r].target = a
    BY <1>1, <2>3
  <2>5. \/ SetupInsert(r, a) /\ pc[r] = "setup.check" /\ pc'[r] = "setup.commit"
        \/ RedeemInsert(r, a) /\ pc[r] = "insert" /\ pc'[r] = "redeem.commit"
    BY <1>1, <2>1 DEF SetupInsert, RedeemInsert, Goto
  <2>6. QED BY <2>4, <2>5
<1>5. CASE SetupLock(r) \/ LockFirst(r) \/ LockSecond(r) \/ MutateDecide(r) \/ SweepRead(r)
           \/ InviteCheckMember(r) \/ InviteCheckPending(r) \/ Claim(r)
           \/ \E i \in Invite : SweepTake(r, i)
  BY <1>1, <1>5 DEF SetupLock, LockFirst, LockSecond, MutateDecide, SweepRead, Goto,
                    InviteCheckMember, InviteCheckPending, Claim, SweepTake, scan
<1>6. CASE Advance(r)
  BY <1>3, <1>4, <1>5, <1>6
  DEF Advance, GiveUp, SetupCommit, RoleCommit, RemoveCommit, InviteInsert, RedeemCommit,
      PromoteCommit
<1>7. QED BY <1>2, <1>6

LEMMA RowsExclusiveStep ==
  ASSUME Typed, RowsExclusive, [Next]_vars
  PROVE  RowsExclusive'
<1>1. ASSUME NEW r \in Request, Arrive(r) \/ Advance(r) PROVE RowsExclusive'
  <2>1. \A s \in Request \ {r} : RowsHeld(s)' = RowsHeld(s)
    BY <1>1, OthersKeep DEF Typed, Keeps, RowsHeld, First, Second
  <2>2. \A s \in Request \ {r} : RowsHeld(r)' \cap RowsHeld(s) = {}
    <3>1. CASE pc'[r] \notin {"lock.second", "held", "role.commit", "sweep.read", "sweep"}
      BY <3>1 DEF RowsHeld
    <3>2. CASE LockFirst(r) /\ pc'[r] = "lock.second" /\ job'[r] = job[r]
      BY <3>2 DEF LockFirst, RowFree, RowsHeld, First
    <3>3. CASE LockSecond(r) /\ pc'[r] = "held" /\ job'[r] = job[r]
      <4>1. RowsHeld(r) = {First(r)} /\ \A s \in Request \ {r} : Second(r) \notin RowsHeld(s)
        BY <3>3 DEF LockSecond, Goto, RowsHeld, RowFree
      <4>2. RowsHeld(r)' = {First(r), Second(r)}
        BY <3>3 DEF RowsHeld, First, Second
      <4>3. QED BY <4>1, <4>2 DEF RowsExclusive
    <3>4. CASE /\ MutateDecide(r) \/ SweepRead(r) \/ \E i \in Invite : SweepTake(r, i)
               /\ pc'[r] \in {"role.commit", "sweep.read", "sweep"}
               /\ job'[r] = job[r]
      BY <3>4 DEF MutateDecide, SweepRead, SweepTake, RowsHeld, First, Second, RowsExclusive, Goto
    <3>5. QED BY <1>1, <3>1, <3>2, <3>3, <3>4, Moves DEF SweepTake
  <2>3. QED BY <2>1, <2>2 DEF RowsExclusive
<1>2. ASSUME NEW i \in Invite, Change(i) PROVE RowsExclusive'
  BY <1>2, ChangeSteps DEF RowsExclusive, RowsHeld, First, Second
<1>3. CASE UNCHANGED vars
  BY <1>3 DEF vars, RowsExclusive, RowsHeld, First, Second
<1>4. QED BY <1>1, <1>2, <1>3, NextSteps

LEMMA SetupExclusiveStep ==
  ASSUME Typed, SetupExclusive, [Next]_vars
  PROVE  SetupExclusive'
<1>1. ASSUME NEW r \in Request, Arrive(r) \/ Advance(r) PROVE SetupExclusive'
  <2>1. \A s \in Request \ {r} : InSetup(s)' = InSetup(s)
    BY <1>1, OthersKeep DEF Typed, Keeps, InSetup
  <2>2. InSetup(r)' => InSetup(r) \/ \A s \in Request : ~InSetup(s)
    BY <1>1, Moves DEF InSetup, SetupLock, SweepTake
  <2>3. QED BY <2>1, <2>2 DEF SetupExclusive
<1>2. ASSUME NEW i \in Invite, Change(i) PROVE SetupExclusive'
  BY <1>2, ChangeSteps DEF SetupExclusive, InSetup
<1>3. CASE UNCHANGED vars
  BY <1>3 DEF vars, SetupExclusive, InSetup
<1>4. QED BY <1>1, <1>2, <1>3, NextSteps

-----------------------------------------------------------------------------
(* The accounts: a new one gets an id nobody has, and what a mutation was   *)
(* allowed to do stays allowed while it holds its two rows.                 *)

Inserting(r) == pc[r] \in {"setup.commit", "redeem.commit"}

LEMMA TargetKnown ==
  ASSUME Typed, NEW r \in Request,
         pc[r] \in Mutating \cup {"setup.commit", "redeem.commit", "promote"}
  PROVE  job[r].target \in Account
<1>1. JobFits(r)
  BY DEF Typed, JobShape
<1>2. QED BY <1>1 DEF JobFits

LEMMA IdsFreshStep ==
  ASSUME Typed, IdsFresh, TargetsExist, [Next]_vars
  PROVE  IdsFresh'
<1>1. ASSUME NEW r \in Request, Arrive(r) \/ Advance(r) PROVE IdsFresh'
  <2>1. \A s \in Request \ {r} : pc'[s] = pc[s] /\ job'[s] = job[s]
    BY <1>1, OthersKeep DEF Typed, Keeps
  <2>2. \A s \in Request : Inserting(s) => job[s].target \in Account
    BY TargetKnown DEF Inserting
  <2>3. CASE Inserting(r)'
    <3>1. PICK a \in Account :
            (SetupInsert(r, a) \/ RedeemInsert(r, a)) /\ job'[r].target = a
      BY <1>1, <2>3, Moves DEF Inserting, SweepTake
    <3>2. job'[r].target = a /\ Unused(a)
      BY <3>1 DEF SetupInsert, RedeemInsert
    <3>3. UNCHANGED users
      BY <3>1 DEF SetupInsert, RedeemInsert
    <3>4. QED BY <2>1, <2>2, <3>2, <3>3 DEF IdsFresh, Unused, Exists
  <2>4. CASE ~Inserting(r)'
    <3>1. ASSUME NEW s \in Request \ {r}, Inserting(s) PROVE ~Exists(job[s].target)'
      <4>1. SetupCommit(r) \/ RedeemCommit(r) => Inserting(r)
        BY DEF SetupCommit, RedeemCommit, Inserting
      <4>2. ~Exists(job[s].target) /\ (Inserting(r) => job[r].target # job[s].target)
        BY <3>1 DEF IdsFresh, Inserting
      <4>3. ~(job[s].target = job[r].target /\ (SetupCommit(r) \/ RedeemCommit(r)))
        BY <4>1, <4>2
      <4>4. \A a \in Account : Exists(a)' /\ ~Exists(a) =>
              a = job[r].target /\ (SetupCommit(r) \/ RedeemCommit(r))
        BY <1>1, ExistsStays
      <4>5. ~users'[job[s].target].status # "absent"
        BY <2>2, <3>1, <4>2, <4>3, <4>4 DEF Exists
      <4>6. QED BY <4>5, <2>1 DEF Exists
    <3>2. QED BY <2>1, <2>4, <3>1 DEF IdsFresh, Inserting
  <2>5. QED BY <2>3, <2>4
<1>2. ASSUME NEW i \in Invite, Change(i) PROVE IdsFresh'
  BY <1>2, ChangeSteps DEF IdsFresh, Exists
<1>3. CASE UNCHANGED vars
  BY <1>3 DEF vars, IdsFresh, Exists
<1>4. QED BY <1>1, <1>2, <1>3, NextSteps

LEMMA ActingBegins ==
  ASSUME Typed, NEW r \in Request, Arrive(r), pc'[r] \in {"lock.first", "promote"}
  PROVE  \E t \in Account, x \in Job :
           Exists(t) /\ x.target = t /\ job' = [job EXCEPT ![r] = x]
<1>1. CASE \E op \in {"role", "remove"}, a, t \in Account, role \in Role :
             MutateBegin(r, op, a, t, role)
  <2>1. PICK op \in {"role", "remove"}, a \in Account, t \in Account, role \in Role :
          MutateBegin(r, op, a, t, role)
    BY <1>1
  <2> DEFINE x == [NoJob EXCEPT !.op = op, !.actor = a, !.target = t, !.role = role]
  <2>2. x \in Job /\ x.target = t
    BY DEF NoJob, Job
  <2>3. job' = [job EXCEPT ![r] = x] /\ Exists(t)
    BY <2>1 DEF MutateBegin, Begin
  <2> HIDE DEF x
  <2>4. QED BY <2>2, <2>3
<1>2. CASE \E t \in Account : PromoteBegin(r, t)
  <2>1. PICK t \in Account : PromoteBegin(r, t)
    BY <1>2
  <2> DEFINE x == [NoJob EXCEPT !.target = t]
  <2>2. x \in Job /\ x.target = t
    BY DEF NoJob, Job, Role
  <2>3. job' = [job EXCEPT ![r] = x] /\ Exists(t)
    BY <2>1 DEF PromoteBegin, Begin, Active, Exists
  <2> HIDE DEF x
  <2>4. QED BY <2>2, <2>3
<1>3. ~ \/ \E e \in Email : SetupBegin(r, e)
        \/ \E a \in Account, e \in Email, role \in Role : InviteBegin(r, a, e, role)
        \/ \E i \in Invite : RedeemBegin(r, i)
  BY DEF SetupBegin, InviteBegin, RedeemBegin, Begin, Goto, Typed, TypeOK
<1>4. QED BY <1>1, <1>2, <1>3 DEF Arrive, Role

LEMMA TargetsExistStep ==
  ASSUME Typed, TargetsExist, [Next]_vars
  PROVE  TargetsExist'
<1> DEFINE Acting(r) == pc[r] \in Mutating \cup {"promote"}
<1>1. ASSUME NEW r \in Request, Arrive(r) \/ Advance(r) PROVE TargetsExist'
  <2>1. \A s \in Request \ {r} : pc'[s] = pc[s] /\ job'[s] = job[s]
    BY <1>1, OthersKeep DEF Typed, Keeps
  <2>2. \A s \in Request : Acting(s) => job[s].target \in Account
    BY TargetKnown
  <2>3. \A a \in Account : Exists(a) => Exists(a)'
    BY <1>1, ExistsStays
  <2>4. Acting(r)' => job'[r].target \in Account /\ Exists(job'[r].target)
    <3>1. CASE Arrive(r)
      <4>1. pc'[r] \in {"setup.lock", "invite.member", "claim", "lock.first", "promote"}
        BY <3>1 DEF Arrive, Begin, Goto, SetupBegin, MutateBegin, InviteBegin, RedeemBegin,
                    PromoteBegin, Typed, TypeOK
      <4>2. CASE pc'[r] \in {"lock.first", "promote"}
        <5>1. PICK t \in Account, x \in Job :
                Exists(t) /\ x.target = t /\ job' = [job EXCEPT ![r] = x]
          BY <3>1, <4>2, ActingBegins
        <5>2. QED BY <5>1 DEF Typed, TypeOK
      <4>3. QED BY <4>1, <4>2 DEF Mutating
    <3>2. CASE ~Arrive(r)
      <4>1. Acting(r)' => Acting(r) /\ job'[r] = job[r]
        BY <1>1, <3>2, Moves DEF Mutating, LockFirst, LockSecond, MutateDecide, SweepRead,
                    SweepTake, Goto
      <4>2. QED BY <2>2, <4>1 DEF TargetsExist
    <3>3. QED BY <3>1, <3>2
  <2>5. ASSUME NEW s \in Request, Acting(s)' PROVE Exists(job[s].target)'
    <3>1. CASE s = r
      BY <2>3, <2>4, <2>5, <3>1 DEF Exists
    <3>2. CASE s # r
      BY <2>1, <2>2, <2>3, <2>5, <3>2 DEF Exists, TargetsExist
    <3>3. QED BY <3>1, <3>2
  <2>6. QED BY <2>5 DEF TargetsExist
<1>2. ASSUME NEW i \in Invite, Change(i) PROVE TargetsExist'
  BY <1>2, ChangeSteps DEF TargetsExist, Exists
<1>3. CASE UNCHANGED vars
  BY <1>3 DEF vars, TargetsExist, Exists
<1>4. QED BY <1>1, <1>2, <1>3, NextSteps

Decided(r) == pc[r] \in {"role.commit", "sweep.read", "sweep"}

\* What a decided mutation knows: it holds the rows of its actor and its target.
LEMMA DecidedHolds ==
  ASSUME Typed, NEW r \in Request, Decided(r)
  PROVE  /\ job[r].actor \in Account /\ job[r].target \in Account
         /\ job[r].actor # job[r].target
         /\ RowsHeld(r) = {job[r].actor, job[r].target}
<1>1. JobFits(r)
  BY DEF Typed, JobShape
<1>2. job[r].actor \in Account /\ job[r].target \in Account /\ job[r].actor # job[r].target
  BY <1>1 DEF JobFits, Decided, Mutating
<1>3. RowsHeld(r) = {job[r].actor, job[r].target}
  BY <1>2 DEF RowsHeld, First, Second, Decided
<1>4. QED BY <1>2, <1>3

LEMMA DecisionHoldsStep ==
  ASSUME Typed, RowsExclusive, IdsFresh, TargetsExist, DecisionHolds, [Next]_vars
  PROVE  DecisionHolds'
<1>1. ASSUME NEW r \in Request, Arrive(r) \/ Advance(r) PROVE DecisionHolds'
  <2>1. \A s \in Request \ {r} : pc'[s] = pc[s] /\ job'[s] = job[s]
    BY <1>1, OthersKeep DEF Typed, Keeps
  <2>2. ASSUME NEW s \in Request \ {r}, Decided(s)
        PROVE  \A a \in RowsHeld(s) : users'[a] = users[a]
    <3>1. CASE UNCHANGED users
      BY <3>1
    <3>2. CASE Wrote(r)
      <4>1. CASE SetupCommit(r) \/ RedeemCommit(r)
        <5>1. ~Exists(job[r].target)
          BY <4>1 DEF SetupCommit, RedeemCommit, IdsFresh
        <5>2. Exists(job[s].actor) /\ Exists(job[s].target)
          BY <2>2 DEF DecisionHolds, Decided, IsAdmin, Active, Exists
        <5>3. job[r].target \notin RowsHeld(s)
          BY <2>2, <5>1, <5>2, DecidedHolds
        <5>4. QED BY <2>2, <3>2, <5>3, DecidedHolds DEF Wrote
      <4>2. CASE RoleCommit(r) \/ RemoveCommit(r)
        <5>1. Decided(r)
          BY <4>2 DEF RoleCommit, RemoveCommit, Decided
        <5>2. job[r].target \notin RowsHeld(s)
          BY <5>1, DecidedHolds DEF RowsExclusive
        <5>3. QED BY <2>2, <3>2, <5>2, DecidedHolds DEF Wrote
      <4>3. CASE PromoteCommit(r)
        <5>1. job[r].target \notin RowsHeld(s)
          BY <4>3 DEF PromoteCommit, PromoteReady, RowFree
        <5>2. QED BY <2>2, <3>2, <5>1, DecidedHolds DEF Wrote
      <4>4. QED BY <3>2, <4>1, <4>2, <4>3 DEF Wrote
    <3>3. QED BY <1>1, <3>1, <3>2, UsersStep
  <2>3. ASSUME NEW s \in Request \ {r}, Decided(s)'
        PROVE  IsAdmin(job[s].actor)' /\ Active(job[s].target)'
    <3>1. Decided(s) /\ job'[s] = job[s]
      BY <2>1, <2>3 DEF Decided
    <3>2. IsAdmin(job[s].actor) /\ Active(job[s].target)
      BY <3>1 DEF DecisionHolds, Decided
    <3>3. users'[job[s].actor] = users[job[s].actor] /\ users'[job[s].target] = users[job[s].target]
      BY <3>1, <2>2, DecidedHolds
    <3>4. QED BY <3>1, <3>2, <3>3 DEF IsAdmin, Active
  <2>4. ASSUME Decided(r)'
        PROVE  IsAdmin(job[r].actor)' /\ Active(job[r].target)'
    <3>1. /\ job'[r] = job[r] /\ UNCHANGED users
          /\ MutateDecide(r) \/ Decided(r)
      BY <1>1, <2>4, Moves DEF Decided, MutateDecide, SweepRead, SweepTake, Goto
    <3>2. IsAdmin(job[r].actor) /\ Active(job[r].target)
      BY <3>1 DEF MutateDecide, MayMutate, DecisionHolds, Decided
    <3>3. QED BY <3>1, <3>2 DEF IsAdmin, Active
  <2>5. QED BY <2>3, <2>4 DEF DecisionHolds, Decided
<1>2. ASSUME NEW i \in Invite, Change(i) PROVE DecisionHolds'
  BY <1>2, ChangeSteps DEF DecisionHolds, IsAdmin, Active
<1>3. CASE UNCHANGED vars
  BY <1>3 DEF vars, DecisionHolds, IsAdmin, Active
<1>4. QED BY <1>1, <1>2, <1>3, NextSteps

-----------------------------------------------------------------------------
(* Setting up, and keeping an admin.                                       *)

\* Nobody but a first-run setup makes anything while there are no accounts.
LEMMA BeforeSetup ==
  ASSUME Typed, NothingBeforeSetup, NEW r \in Request, Arrive(r) \/ Advance(r),
         \A a \in Account : ~Exists(a)
  PROVE  /\ pc[r] \in {"idle", "setup.lock", "setup.check", "setup.commit"}
         /\ pc'[r] \in {"idle", "setup.lock", "setup.check", "setup.commit"}
         /\ UNCHANGED invitations
<1>1. /\ \A i \in Invite : invitations[i].status = "absent"
      /\ pc[r] \in {"idle", "setup.lock", "setup.check", "setup.commit"}
  BY DEF NothingBeforeSetup
<1>2. CASE Arrive(r)
  <2>1. PICK e \in Email : SetupBegin(r, e)
    BY <1>1, <1>2 DEF Arrive, MutateBegin, InviteBegin, RedeemBegin, PromoteBegin, Pending,
                      IsAdmin, Active, Exists
  <2>2. QED BY <1>1, <2>1 DEF SetupBegin, Begin, Goto, Typed, TypeOK
<1>3. CASE ~Arrive(r)
  <2>1. pc'[r] \in {"idle", "setup.lock", "setup.check", "setup.commit"}
    BY <1>1, <1>3, Moves DEF LockFirst, LockSecond, MutateDecide, SweepRead, SweepTake,
                             Goto, Claim
  <2>2. UNCHANGED invitations
    BY <1>1, RowsKept DEF RemoveCommit, RedeemCommit, InviteInsert
  <2>3. QED BY <1>1, <2>1, <2>2
<1>4. QED BY <1>2, <1>3

LEMMA NothingBeforeSetupStep ==
  ASSUME Typed, TargetsExist, NothingBeforeSetup, [Next]_vars
  PROVE  NothingBeforeSetup'
<1>1. ASSUME NEW r \in Request, Arrive(r) \/ Advance(r) PROVE NothingBeforeSetup'
  <2>1. SUFFICES ASSUME \A a \in Account : ~Exists(a)'
                 PROVE  /\ \A i \in Invite : invitations'[i].status = "absent"
                        /\ \A s \in Request :
                             pc'[s] \in {"idle", "setup.lock", "setup.check", "setup.commit"}
    BY DEF NothingBeforeSetup, Exists
  <2>2. \A a \in Account : ~Exists(a)
    BY <1>1, <2>1, ExistsStays
  <2>3. \A s \in Request \ {r} : pc'[s] = pc[s]
    BY <1>1, OthersKeep DEF Typed, Keeps
  <2>4. QED BY <1>1, <2>2, <2>3, BeforeSetup DEF NothingBeforeSetup
<1>2. ASSUME NEW i \in Invite, Change(i) PROVE NothingBeforeSetup'
  <2>1. Live(i) /\ UNCHANGED <<users, pc>>
    BY <1>2, ChangeSteps
  <2>2. ~\A a \in Account : ~Exists(a)
    BY <2>1 DEF NothingBeforeSetup, Live
  <2>3. QED BY <2>1, <2>2 DEF NothingBeforeSetup, Exists
<1>3. CASE UNCHANGED vars
  BY <1>3 DEF vars, NothingBeforeSetup, Exists
<1>4. QED BY <1>1, <1>2, <1>3, NextSteps

LEMMA AlwaysManagedStep ==
  ASSUME Typed, IdsFresh, DecisionHolds, NothingBeforeSetup, AlwaysManaged, [Next]_vars
  PROVE  AlwaysManaged'
<1>1. ASSUME NEW r \in Request, Wrote(r) PROVE AlwaysManaged'
  <2> DEFINE t == job[r].target
  <2>1. CASE SetupCommit(r) \/ PromoteCommit(r)
    <3>1. t \in Account /\ users'[t].status = "active" /\ users'[t].role = "admin"
      BY <1>1, <2>1 DEF Wrote, SetupCommit, PromoteCommit, PromoteReady, RedeemCommit,
                        RoleCommit, RemoveCommit
    <3>2. QED BY <3>1 DEF AlwaysManaged, IsAdmin, Active
  <2>2. CASE RoleCommit(r) \/ RemoveCommit(r)
    <3>1. Decided(r)
      BY <2>2 DEF RoleCommit, RemoveCommit, Decided
    <3>2. job[r].actor \in Account /\ job[r].actor # t /\ IsAdmin(job[r].actor)
      BY <3>1, DecidedHolds DEF DecisionHolds, Decided
    <3>3. users'[job[r].actor] = users[job[r].actor]
      BY <1>1, <3>2 DEF Wrote
    <3>4. QED BY <3>2, <3>3 DEF AlwaysManaged, IsAdmin, Active
  <2>3. CASE RedeemCommit(r)
    <3>1. ~Exists(t)
      BY <2>3 DEF RedeemCommit, IdsFresh
    <3>2. CASE \E a \in Account : Exists(a)
      <4>1. PICK a \in Account : IsAdmin(a)
        BY <3>2 DEF AlwaysManaged
      <4>2. a # t
        BY <3>1, <4>1 DEF IsAdmin, Active, Exists
      <4>3. users'[a] = users[a]
        BY <1>1, <4>2 DEF Wrote
      <4>4. QED BY <4>1, <4>3 DEF AlwaysManaged, IsAdmin, Active
    <3>3. CASE ~\E a \in Account : Exists(a)
      <4>1. FALSE
        BY <2>3, <3>3 DEF RedeemCommit, NothingBeforeSetup
      <4>2. QED BY <4>1
    <3>4. QED BY <3>2, <3>3
  <2>4. QED BY <1>1, <2>1, <2>2, <2>3 DEF Wrote
<1>2. CASE UNCHANGED users
  BY <1>2 DEF AlwaysManaged, IsAdmin, Active, Exists
<1>3. QED BY <1>1, <1>2, NextSteps, UsersStep, ChangeSteps DEF vars

LEMMA SetupComesFirstStep ==
  ASSUME Typed, SetupExclusive, NothingBeforeSetup, SetupComesFirst, AlwaysManaged, [Next]_vars
  PROVE  SetupComesFirst'
<1>1. ASSUME NEW r \in Request, Arrive(r) \/ Advance(r), NEW s \in Request,
             pc'[s] = "setup.commit"
      PROVE  \A a \in Account : ~Exists(a)'
  <2>1. CASE s = r
    <3>1. (\E a \in Account : SetupInsert(r, a)) \/ (pc[r] = "setup.commit" /\ UNCHANGED users)
      BY <1>1, <2>1, Moves DEF SweepTake
    <3>2. CASE \E a \in Account : SetupInsert(r, a)
      <4>1. NobodyActive /\ UNCHANGED users
        BY <3>2 DEF SetupInsert
      <4>2. QED BY <4>1 DEF AlwaysManaged, NobodyActive, IsAdmin, Exists
    <3>3. CASE pc[r] = "setup.commit" /\ UNCHANGED users
      BY <3>3 DEF SetupComesFirst, Exists
    <3>4. QED BY <3>1, <3>2, <3>3
  <2>2. CASE s # r
    <3>1. pc[s] = "setup.commit"
      BY <1>1, <2>2, OthersKeep DEF Typed, Keeps
    <3>2. \A a \in Account : ~Exists(a)
      BY <3>1 DEF SetupComesFirst
    <3>3. pc[r] \in {"idle", "setup.lock"}
      BY <2>2, <3>1, <3>2 DEF NothingBeforeSetup, SetupExclusive, InSetup
    <3>4. ~Wrote(r)
      BY <3>3 DEF Wrote, SetupCommit, RedeemCommit, RoleCommit, RemoveCommit, PromoteCommit,
                  PromoteReady
    <3>5. QED BY <1>1, <3>2, <3>4, UsersStep DEF Exists
  <2>3. QED BY <2>1, <2>2
<1>2. ASSUME NEW r \in Request, Wrote(r), NEW a \in Account, users'[a].bySetup
      PROVE  Exists(a)'
  <2>1. CASE a # job[r].target
    BY <1>2, <2>1 DEF Wrote, SetupComesFirst, Exists
  <2>2. CASE a = job[r].target
    BY <1>2, <2>2 DEF Wrote, SetupComesFirst, Exists
  <2>3. QED BY <2>1, <2>2
<1>3. CASE \E r \in Request : Arrive(r) \/ Advance(r)
  <2>1. PICK r \in Request : Arrive(r) \/ Advance(r)
    BY <1>3
  <2>2. \A a \in Account : users'[a].bySetup => users'[a].status # "absent"
    BY <2>1, <1>2, UsersStep DEF SetupComesFirst, Exists
  <2>3. \A s \in Request : pc'[s] = "setup.commit" =>
                             \A a \in Account : users'[a].status = "absent"
    BY <2>1, <1>1 DEF Exists
  <2>4. QED BY <2>2, <2>3 DEF SetupComesFirst, Exists
<1>4. CASE UNCHANGED <<users, pc>>
  BY <1>4 DEF SetupComesFirst, Exists
<1>5. QED BY <1>3, <1>4, NextSteps, ChangeSteps DEF vars

LEMMA SetUpOnceStep ==
  ASSUME Typed, SetupComesFirst, SetUpOnce, [Next]_vars
  PROVE  SetUpOnce'
<1>1. ASSUME NEW r \in Request, Wrote(r) PROVE SetUpOnce'
  <2>1. CASE SetupCommit(r)
    <3>1. \A a \in Account : ~users[a].bySetup
      BY <2>1 DEF SetupCommit, SetupComesFirst
    <3>2. \A a \in Account : users'[a].bySetup => a = job[r].target
      BY <1>1, <3>1 DEF Wrote
    <3>3. QED BY <3>2 DEF SetUpOnce
  <2>2. CASE ~SetupCommit(r)
    <3>1. \A a \in Account : users'[a].bySetup => users[a].bySetup
      BY <1>1, <2>2 DEF Wrote
    <3>2. QED BY <3>1 DEF SetUpOnce
  <2>3. QED BY <2>1, <2>2
<1>2. CASE UNCHANGED users
  BY <1>2 DEF SetUpOnce
<1>3. QED BY <1>1, <1>2, NextSteps, UsersStep, ChangeSteps DEF vars

-----------------------------------------------------------------------------
(* The invariant of the accounts.                                          *)

Managed ==
  /\ Typed /\ RowsExclusive /\ SetupExclusive /\ IdsFresh /\ TargetsExist /\ DecisionHolds
  /\ NothingBeforeSetup /\ SetupComesFirst /\ AlwaysManaged /\ SetUpOnce

LEMMA ManagedInit == Init => Managed
<1> SUFFICES ASSUME Init PROVE Managed
  OBVIOUS
<1>1. Typed
  BY TypedInit
<1>2. \A r \in Request : pc[r] = "idle"
  BY DEF Init
<1>3. \A a \in Account : ~Exists(a) /\ ~users[a].bySetup
  BY DEF Init, NoUser, Exists
<1>4. RowsExclusive
  BY <1>2 DEF RowsExclusive, RowsHeld
<1>5. NothingBeforeSetup
  BY <1>2 DEF NothingBeforeSetup, Init, NoInvite
<1>6. SetupExclusive /\ IdsFresh /\ TargetsExist /\ DecisionHolds
  BY <1>2 DEF SetupExclusive, InSetup, IdsFresh, TargetsExist, DecisionHolds, Mutating
<1>7. SetupComesFirst /\ AlwaysManaged /\ SetUpOnce
  BY <1>2, <1>3 DEF SetupComesFirst, AlwaysManaged, SetUpOnce
<1>8. QED BY <1>1, <1>4, <1>5, <1>6, <1>7 DEF Managed

LEMMA ManagedStep ==
  ASSUME Managed, [Next]_vars
  PROVE  Managed'
  BY TypedStep, RowsExclusiveStep, SetupExclusiveStep, IdsFreshStep, TargetsExistStep,
     DecisionHoldsStep, NothingBeforeSetupStep, SetupComesFirstStep, AlwaysManagedStep,
     SetUpOnceStep
  DEF Managed

(* Once a deployment has been set up, somebody can manage it, whatever      *)
(* admins do to each other at the same moment (members.ts).                *)
THEOREM SomebodyManages == Spec => []AlwaysManaged
<1>1. Managed /\ [Next]_vars => Managed'
  BY ManagedStep
<1>2. Managed => AlwaysManaged
  BY DEF Managed
<1>3. QED BY ManagedInit, <1>1, <1>2, PTL DEF Spec

(* First-run setup makes one account in the life of a deployment, however   *)
(* many people have the page open (setup.ts).                              *)
THEOREM OneSetup == Spec => []SetUpOnce
<1>1. Managed /\ [Next]_vars => Managed'
  BY ManagedStep
<1>2. Managed => SetUpOnce
  BY DEF Managed
<1>3. QED BY ManagedInit, <1>1, <1>2, PTL DEF Spec

(* A role change or a removal lands only while its actor is an active       *)
(* admin, and leaves the actor's row alone (members.ts).                   *)
THEOREM AdminsAct == Spec => OnlyAdminsAct
<1> DEFINE Lands == \A r \in Request : RoleCommit(r) \/ RemoveCommit(r) =>
                      IsAdmin(job[r].actor) /\ users'[job[r].actor] = users[job[r].actor]
<1>1. ASSUME Managed, [Next]_vars PROVE [Lands]_vars
  <2>1. ASSUME NEW r \in Request, RoleCommit(r) \/ RemoveCommit(r)
        PROVE  IsAdmin(job[r].actor) /\ users'[job[r].actor] = users[job[r].actor]
    <3>1. Decided(r)
      BY <2>1 DEF RoleCommit, RemoveCommit, Decided
    <3>2. /\ job[r].actor \in Account /\ job[r].actor # job[r].target
          /\ IsAdmin(job[r].actor)
      BY <1>1, <3>1, DecidedHolds DEF Managed, DecisionHolds, Decided
    <3>3. users'[job[r].actor] = users[job[r].actor]
      <4>1. users \in [Account -> User]
        BY <1>1 DEF Managed, Typed, TypeOK
      <4>2. QED BY <2>1, <3>2, <4>1 DEF RoleCommit, RemoveCommit
    <3>4. QED BY <3>2, <3>3
  <2>2. QED BY <2>1
<1>2. Managed /\ [Next]_vars => Managed'
  BY ManagedStep
<1>3. QED BY ManagedInit, <1>1, <1>2, PTL DEF Spec, OnlyAdminsAct

(* Two admins acting on each other queue for the two rows: neither waits    *)
(* for the other while the other waits for it (members.ts).                *)
THEOREM MutationsTakeTurns == Spec => []MutationsQueue
<1>1. Managed => MutationsQueue
  <2>1. SUFFICES ASSUME Managed, NEW r \in Request, NEW s \in Request,
                        pc[r] \in {"lock.first", "lock.second"},
                        pc[s] \in {"lock.first", "lock.second"},
                        s \in Blockers(r), r \in Blockers(s)
                 PROVE  FALSE
    BY DEF MutationsQueue
  <2>2. pc[r] = "lock.second" /\ pc[s] = "lock.second"
    BY <2>1 DEF Blockers, RowsHeld
  <2>3. Second(r) = First(s) /\ Second(s) = First(r)
    BY <2>1, <2>2 DEF Blockers, RowsHeld
  <2>4. ASSUME NEW q \in Request, pc[q] = "lock.second"
        PROVE  First(q) \in Nat /\ Second(q) \in Nat /\ First(q) < Second(q)
    <3>1. JobFits(q)
      BY <2>1 DEF Managed, Typed, JobShape
    <3>2. /\ job[q].actor \in Nat /\ job[q].target \in Nat
          /\ job[q].actor # job[q].target
      BY <3>1, <2>4, AccountAssumption DEF JobFits, Mutating
    <3>3. QED BY <3>2 DEF First, Second
  <2>5. QED BY <2>2, <2>3, <2>4
<1>2. Managed /\ [Next]_vars => Managed'
  BY ManagedStep
<1>3. QED BY ManagedInit, <1>1, <1>2, PTL DEF Spec

-----------------------------------------------------------------------------
(* A dead invitation stays dead, and a removal leaves none alive. *)

\* What a request writes to the invitation table.
WroteInvite(r, i) ==
  \/ invitations'[i] = invitations[i] /\ (RemoveCommit(r) => i \notin taken[r])
  \/ /\ RemoveCommit(r) /\ i \in taken[r] /\ i \in InvitesHeld(r)
     /\ invitations'[i].status = "revoked" /\ invitations'[i].email = invitations[i].email
  \/ /\ RedeemCommit(r) /\ i = job[r].invite /\ i \in InvitesHeld(r)
     /\ invitations'[i].status = "redeemed" /\ invitations'[i].email = invitations[i].email
  \/ /\ InviteInsert(r, i)
     /\ invitations[i].status = "absent" /\ invitations'[i].status = "pending"

LEMMA InvitesStep ==
  ASSUME Typed, NEW r \in Request, Arrive(r) \/ Advance(r), NEW i \in Invite
  PROVE  WroteInvite(r, i)
<1>1. /\ invitations \in [Invite -> Invitation] /\ JobFits(r)
  BY DEF Typed, TypeOK, JobShape
<1>2. CASE RemoveCommit(r)
  <2>1. CASE i \in taken[r]
    <3> DEFINE w == [invitations[i] EXCEPT !.status = "revoked"]
    <3>1. w.status = "revoked" /\ w.email = invitations[i].email
      BY <1>1, InvitationWith
    <3>2. invitations'[i] = w /\ i \in InvitesHeld(r)
      BY <1>2, <2>1 DEF RemoveCommit, InvitesHeld
    <3> HIDE DEF w
    <3>3. QED BY <1>2, <2>1, <3>1, <3>2 DEF WroteInvite
  <2>2. CASE i \notin taken[r]
    BY <1>2, <2>2 DEF RemoveCommit, WroteInvite
  <2>3. QED BY <2>1, <2>2
<1>3. CASE RedeemCommit(r)
  <2>1. job[r].invite \in Invite /\ job[r].target \in Account
    BY <1>1, <1>3 DEF RedeemCommit, JobFits, Redeeming
  <2> DEFINE w == [invitations[job[r].invite] EXCEPT !.status = "redeemed",
                                                     !.user = job[r].target]
  <2>2. w.status = "redeemed" /\ w.email = invitations[job[r].invite].email
    <3>1. invitations[job[r].invite] \in Invitation
      BY <1>1, <2>1
    <3>2. QED BY <2>1, <3>1, InvitationWith
  <2>3. invitations' = [invitations EXCEPT ![job[r].invite] = w]
    BY <1>1, <1>3, <2>1 DEF RedeemCommit
  <2>4. pc[r] = "redeem.commit" /\ ~RemoveCommit(r)
    BY <1>3 DEF RedeemCommit, RemoveCommit
  <2> HIDE DEF w
  <2>5. QED BY <1>1, <1>3, <2>1, <2>2, <2>3, <2>4 DEF WroteInvite, InvitesHeld
<1>4. CASE \E k \in Invite : InviteInsert(r, k)
  <2>1. PICK k \in Invite : InviteInsert(r, k)
    BY <1>4
  <2>2. ~RemoveCommit(r)
    BY <2>1 DEF InviteInsert, RemoveCommit
  <2>3. CASE i = k
    BY <1>1, <2>1, <2>3 DEF InviteInsert, WroteInvite
  <2>4. CASE i # k
    BY <1>1, <2>1, <2>2, <2>4 DEF InviteInsert, WroteInvite
  <2>5. QED BY <2>3, <2>4
<1>5. CASE UNCHANGED invitations /\ ~RemoveCommit(r)
  BY <1>5 DEF WroteInvite
<1>6. QED BY <1>2, <1>3, <1>4, <1>5, RowsKept

LEMMA InvitesExclusiveStep ==
  ASSUME Typed, InvitesExclusive, [Next]_vars
  PROVE  InvitesExclusive'
<1>1. ASSUME NEW r \in Request, Arrive(r) \/ Advance(r) PROVE InvitesExclusive'
  <2>1. \A s \in Request \ {r} : InvitesHeld(s)' = InvitesHeld(s)
    BY <1>1, OthersKeep DEF Typed, Keeps, InvitesHeld
  <2>2. \A s \in Request : InvitesHeld(s) \subseteq Invite
    BY DEF Typed, TypeOK, JobShape, JobFits, InvitesHeld, Redeeming
  <2>3. \/ InvitesHeld(r)' \subseteq InvitesHeld(r) /\ UNCHANGED invitations
        \/ InvitesHeld(r)' = {}
        \/ \E i \in Invite : /\ InvitesHeld(r)' \subseteq InvitesHeld(r) \cup {i}
                             /\ InviteFree(r, i) /\ Live(i) /\ UNCHANGED invitations
    <3>1. CASE pc'[r] \notin {"sweep", "insert", "redeem.commit"}
      BY <3>1 DEF InvitesHeld
    <3>2. CASE SweepRead(r)
      BY <3>2 DEF SweepRead, InvitesHeld, Goto, Typed, TypeOK
    <3>3. CASE \E i \in Invite : SweepTake(r, i)
      BY <3>3 DEF SweepTake, InvitesHeld, Typed, TypeOK
    <3>4. CASE Claim(r) /\ pc'[r] = "insert" /\ job'[r] = job[r]
      <4>1. job[r].invite \in Invite
        BY <3>4 DEF Claim, Goto, Typed, JobShape, JobFits, Redeeming
      <4>2. InvitesHeld(r)' = {job[r].invite}
        BY <3>4 DEF InvitesHeld
      <4>3. QED BY <3>4, <4>1, <4>2 DEF Claim, Claimable, Pending, Live
    <3>5. CASE \E a \in Account : RedeemInsert(r, a) /\ pc'[r] = "redeem.commit"
      <4>1. PICK a \in Account : RedeemInsert(r, a)
        BY <3>5
      <4> DEFINE j == [job[r] EXCEPT !.target = a]
      <4>2. j.invite = job[r].invite
        BY JobWithTarget DEF Typed, TypeOK
      <4>3. job'[r] = j
        BY <4>1 DEF RedeemInsert, Typed, TypeOK
      <4> HIDE DEF j
      <4>4. QED BY <3>5, <4>1, <4>2, <4>3 DEF RedeemInsert, InvitesHeld, Goto
    <3>6. QED BY <1>1, <3>1, <3>2, <3>3, <3>4, <3>5, Moves
  <2>4. \A s \in Request \ {r} : \A i \in InvitesHeld(s) : invitations'[i] = invitations[i]
    BY <1>1, <2>2, InvitesStep DEF WroteInvite, InvitesExclusive, Live
  <2>5. \A i \in InvitesHeld(r)' : i \in Invite /\ Live(i)'
    BY <2>2, <2>3 DEF InvitesExclusive, Live
  <2>6. \A s \in Request \ {r} : InvitesHeld(r)' \cap InvitesHeld(s) = {}
    BY <2>3 DEF InvitesExclusive, InviteFree
  <2>7. \A s \in Request : \A i \in InvitesHeld(s)' : Live(i)'
    BY <2>1, <2>4, <2>5 DEF InvitesExclusive, Live
  <2>8. QED BY <2>1, <2>6, <2>7 DEF InvitesExclusive
<1>2. ASSUME NEW i \in Invite, Change(i) PROVE InvitesExclusive'
  <2>1. \A s \in Request : InvitesHeld(s)' = InvitesHeld(s)
    BY <1>2, ChangeSteps DEF InvitesHeld
  <2>2. \A s \in Request : \A k \in InvitesHeld(s) : Live(k)'
    <3>1. \A s \in Request : InvitesHeld(s) \subseteq Invite
      BY DEF Typed, TypeOK, JobShape, JobFits, InvitesHeld, Redeeming
    <3>2. QED BY <1>2, <3>1, ChangeSteps DEF InvitesExclusive, Live
  <2>3. QED BY <2>1, <2>2 DEF InvitesExclusive
<1>3. CASE UNCHANGED vars
  BY <1>3 DEF vars, InvitesExclusive, InvitesHeld, Live
<1>4. QED BY <1>1, <1>2, <1>3, NextSteps

(* A spent or revoked invitation stays as it is, whatever was under way     *)
(* when it died (invitations.ts).                                          *)
THEOREM DeadStayDead == Spec => DeadInvitationsStayDead
<1> DEFINE Stay == \A i \in Invite : invitations[i].status \in {"redeemed", "revoked"}
                                       => invitations'[i] = invitations[i]
           Inv == Typed /\ InvitesExclusive
<1>1. ASSUME Inv, [Next]_vars PROVE Stay
  <2>1. ASSUME NEW r \in Request, Arrive(r) \/ Advance(r) PROVE Stay
    BY <1>1, <2>1, InvitesStep DEF WroteInvite, InvitesExclusive, Live
  <2>2. ASSUME NEW i \in Invite, Change(i) PROVE Stay
    BY <1>1, <2>2, ChangeSteps DEF Live
  <2>3. CASE UNCHANGED vars
    BY <2>3 DEF vars
  <2>4. QED BY <1>1, <2>1, <2>2, <2>3, NextSteps
<1>2. Inv /\ [Next]_vars => Inv'
  BY TypedStep, InvitesExclusiveStep
<1>3. Init => Inv
  BY TypedInit DEF Init, InvitesExclusive, InvitesHeld
<1> HIDE DEF Inv
<1>4. Inv /\ [Next]_vars => [Stay]_vars
  BY <1>1
<1>5. QED BY <1>2, <1>3, <1>4, PTL DEF Spec, DeadInvitationsStayDead

-----------------------------------------------------------------------------
(* Addresses: they never change, and an insert under way has one that no    *)
(* active account and no other insert has.                                 *)

LEMMA AddressesStay ==
  ASSUME Managed, InvitesExclusive, [Next]_vars
  PROVE  /\ \A a \in Account : Exists(a) => users'[a].email = users[a].email
         /\ \A i \in Invite : invitations[i].status # "absent" =>
              invitations'[i].email = invitations[i].email
<1>1. ASSUME NEW r \in Request, Wrote(r), NEW a \in Account, Exists(a)
      PROVE  users'[a].email = users[a].email
  <2>1. SetupCommit(r) \/ RedeemCommit(r) => ~Exists(job[r].target)
    BY DEF Managed, IdsFresh, SetupCommit, RedeemCommit
  <2>2. QED BY <1>1, <2>1 DEF Wrote
<1>2. ASSUME NEW r \in Request, Arrive(r) \/ Advance(r), NEW i \in Invite,
             invitations[i].status # "absent"
      PROVE  invitations'[i].email = invitations[i].email
  BY <1>2, InvitesStep DEF WroteInvite, Managed
<1>3. QED BY <1>1, <1>2, NextSteps, UsersStep, ChangeSteps DEF vars, Managed, Live

LEMMA RedeemsItsAddressStep ==
  ASSUME Managed, InvitesExclusive, RedeemsItsAddress, [Next]_vars
  PROVE  RedeemsItsAddress'
<1> DEFINE Fits(j) == /\ j.invite \in Invite
                      /\ invitations[j.invite].status # "absent"
                      /\ invitations[j.invite].email = j.email
<1>1. \A s \in Request : pc[s] \in Redeeming => Fits(job[s])
  <2>1. ASSUME NEW s \in Request, pc[s] \in Redeeming PROVE job[s].invite \in Invite
    BY <2>1 DEF Managed, Typed, JobShape, JobFits
  <2>2. QED BY <2>1 DEF RedeemsItsAddress
<1>2. ASSUME NEW s \in Request, pc'[s] \in Redeeming,
             \E j \in Job : Fits(j) /\ j.invite = job'[s].invite /\ j.email = job'[s].email
      PROVE  /\ invitations'[job'[s].invite].status # "absent"
             /\ invitations'[job'[s].invite].email = job'[s].email
  <2>1. Typed' /\ RowShape'
    BY TypedStep DEF Managed, Typed
  <2>2. invitations'[job'[s].invite].status # "absent"
    BY <1>2, <2>1 DEF RowShape
  <2>3. QED BY <1>2, <2>2, AddressesStay
<1>3. ASSUME NEW r \in Request, Arrive(r) \/ Advance(r), NEW s \in Request, pc'[s] \in Redeeming
      PROVE  \E j \in Job : Fits(j) /\ j.invite = job'[s].invite /\ j.email = job'[s].email
  <2> HIDE DEF Fits
  <2>1. job \in [Request -> Job]
    BY DEF Managed, Typed, TypeOK
  <2>2. CASE s # r
    <3>1. pc[s] \in Redeeming /\ job'[s] = job[s]
      BY <1>3, <2>2, OthersKeep DEF Managed, Typed, Keeps
    <3>2. QED BY <1>1, <2>1, <3>1
  <2>3. CASE s = r /\ Arrive(r)
    <3>1. PICK i \in Invite : RedeemBegin(r, i)
      BY <1>3, <2>3 DEF Arrive, Begin, Goto, SetupBegin, MutateBegin, InviteBegin, RedeemBegin,
                        PromoteBegin, Redeeming, Managed, Typed, TypeOK
    <3> DEFINE j == [NoJob EXCEPT !.invite = i, !.email = invitations[i].email,
                                  !.role = invitations[i].role]
    <3>2. invitations[i].status = "pending" /\ invitations[i].email \in Email
      BY <3>1 DEF RedeemBegin, Pending, Managed, Typed, RowShape
    <3>3. invitations[i].role \in Role
      BY DEF Managed, Typed, TypeOK, Invitation
    <3>4. j \in Job /\ j.invite = i /\ j.email = invitations[i].email
      BY <3>2, <3>3 DEF NoJob, Job
    <3>5. job'[r] = j
      BY <2>1, <3>1 DEF RedeemBegin, Begin
    <3> HIDE DEF j
    <3>6. QED BY <2>3, <3>2, <3>4, <3>5 DEF Fits
  <2>4. CASE s = r /\ ~Arrive(r)
    <3>1. CASE Claim(r) /\ job'[r] = job[r]
      BY <1>1, <2>1, <2>4, <3>1 DEF Claim, Goto, Redeeming
    <3>2. CASE pc[r] = "insert" /\ \E a \in Account : RedeemInsert(r, a)
      <4>1. PICK a \in Account : RedeemInsert(r, a)
        BY <3>2
      <4> DEFINE j == [job[r] EXCEPT !.target = a]
      <4>2. j \in Job /\ j.invite = job[r].invite /\ j.email = job[r].email
        BY <2>1, JobWithTarget
      <4>3. job'[r] = j
        BY <2>1, <4>1 DEF RedeemInsert
      <4>4. Fits(job[r])
        BY <1>1, <3>2 DEF Redeeming
      <4> HIDE DEF j
      <4>5. QED BY <2>4, <4>2, <4>3, <4>4 DEF Fits
    <3>3. QED
      BY <1>3, <2>4, <3>1, <3>2, Moves DEF Managed, Redeeming, SweepTake
  <2>5. QED BY <2>2, <2>3, <2>4
<1>4. CASE \E r \in Request : Arrive(r) \/ Advance(r)
  BY <1>2, <1>3, <1>4 DEF RedeemsItsAddress
<1>5. CASE UNCHANGED <<pc, job>>
  <2>1. \A s \in Request : pc'[s] \in Redeeming =>
          \E j \in Job : Fits(j) /\ j.invite = job'[s].invite /\ j.email = job'[s].email
    BY <1>1, <1>5 DEF Managed, Typed, TypeOK
  <2>2. QED BY <1>2, <2>1 DEF RedeemsItsAddress
<1>6. QED BY <1>4, <1>5, NextSteps, ChangeSteps DEF vars, Managed

LEMMA AddressesFreshStep ==
  ASSUME Managed, InvitesExclusive, AddressesFresh, [Next]_vars
  PROVE  AddressesFresh'
<1>1. ASSUME NEW r \in Request, Arrive(r) \/ Advance(r), NEW e \in Email, ~AddressTaken(e),
             SetupCommit(r) \/ RedeemCommit(r) => job[r].email # e,
             PromoteCommit(r) =>
               Active(job[r].target) \/ users[job[r].target].email # e
      PROVE  ~AddressTaken(e)'
  <2>1. CASE UNCHANGED users
    BY <1>1, <2>1 DEF AddressTaken, Active
  <2>2. CASE Wrote(r)
    <3>1. ASSUME NEW a \in Account, users'[a].status = "active", users'[a].email = e
          PROVE  FALSE
      <4>1. a = job[r].target
        BY <1>1, <2>2, <3>1 DEF Wrote, AddressTaken, Active
      <4>2. CASE SetupCommit(r)
        <5>1. users'[a].email = job[r].email
          BY <4>1, <4>2, <2>2 DEF SetupCommit, Wrote, Managed, Typed, TypeOK
        <5>2. QED BY <1>1, <3>1, <4>2, <5>1
      <4>3. CASE RedeemCommit(r)
        BY <1>1, <2>2, <3>1, <4>1, <4>3
        DEF Wrote, SetupCommit, RedeemCommit, RoleCommit, RemoveCommit, PromoteCommit, PromoteReady
      <4>4. CASE RoleCommit(r) \/ RemoveCommit(r)
        BY <1>1, <2>2, <3>1, <4>1, <4>4
        DEF Wrote, SetupCommit, RedeemCommit, RoleCommit, RemoveCommit, PromoteCommit,
            PromoteReady, AddressTaken, Active
      <4>5. CASE PromoteCommit(r)
        BY <1>1, <2>2, <3>1, <4>1, <4>5
        DEF Wrote, SetupCommit, RedeemCommit, RoleCommit, RemoveCommit, PromoteCommit,
            PromoteReady, AddressTaken, Active
      <4>6. QED BY <2>2, <4>2, <4>3, <4>4, <4>5 DEF Wrote
    <3>2. QED BY <3>1 DEF AddressTaken, Active
  <2>3. QED BY <1>1, <2>1, <2>2, UsersStep DEF Managed
<1>2. ASSUME NEW r \in Request, Arrive(r) \/ Advance(r), NEW s \in Request \ {r},
             pc[s] = "redeem.commit"
      PROVE  /\ ~AddressTaken(job[s].email)'
             /\ Inserting(r)' => job'[r].email # job[s].email
  <2>1. /\ job[s].email \in Email /\ ~AddressTaken(job[s].email)
        /\ Inserting(r) => job[r].email # job[s].email
        /\ IndexHeld(s, job[s].email)
    BY <1>2 DEF Managed, Typed, JobShape, JobFits, Redeeming, AddressesFresh, Inserting, IndexHeld
  <2>2. job'[s] = job[s]
    BY <1>2, OthersKeep DEF Managed, Typed, Keeps
  <2>3. SetupCommit(r) \/ RedeemCommit(r) => job[r].email # job[s].email
    BY <2>1 DEF SetupCommit, RedeemCommit, Inserting
  <2>4. PromoteCommit(r) => Active(job[r].target) \/ users[job[r].target].email # job[s].email
    BY <1>2, <2>1 DEF PromoteCommit, PromoteReady, AddressFree
  <2>5. ~AddressTaken(job[s].email)'
    <3> DEFINE e == job[s].email
    <3>1. e \in Email /\ ~AddressTaken(e)
      BY <2>1
    <3>2. /\ SetupCommit(r) \/ RedeemCommit(r) => job[r].email # e
          /\ PromoteCommit(r) => Active(job[r].target) \/ users[job[r].target].email # e
      BY <2>3, <2>4
    <3>3. ~\E a \in Account : users'[a].status = "active" /\ users'[a].email = e
      <4> HIDE DEF e
      <4>1. QED BY <1>1, <1>2, <3>1, <3>2 DEF AddressTaken, Active
    <3>4. QED BY <2>2, <3>3 DEF AddressTaken, Active
  <2>6. ASSUME Inserting(r)' PROVE job'[r].email # job[s].email
    <3>1. PICK a \in Account : SetupInsert(r, a) \/ RedeemInsert(r, a)
      BY <1>2, <2>6, Moves DEF Inserting, SweepTake, Managed
    <3>2. job'[r].email = job[r].email
      <4> DEFINE j == [job[r] EXCEPT !.target = a]
      <4>1. j.email = job[r].email
        BY JobWithTarget DEF Managed, Typed, TypeOK
      <4>2. job'[r] = j
        BY <3>1 DEF SetupInsert, RedeemInsert, Managed, Typed, TypeOK
      <4> HIDE DEF j
      <4>3. QED BY <4>1, <4>2
    <3>3. ~IndexHeld(s, job[r].email)
      BY <1>2, <3>1 DEF SetupInsert, RedeemInsert, AddressFree
    <3>4. QED BY <2>1, <3>2, <3>3
  <2>7. QED BY <2>5, <2>6
<1>3. ASSUME NEW r \in Request, Arrive(r) \/ Advance(r), pc'[r] = "redeem.commit"
      PROVE  ~AddressTaken(job[r].email)'
  <2>1. PICK a \in Account : RedeemInsert(r, a)
    BY <1>3, Moves DEF SweepTake, Managed
  <2> DEFINE j == [job[r] EXCEPT !.target = a]
  <2>2. j.email = job[r].email
    BY JobWithTarget DEF Managed, Typed, TypeOK
  <2>3. job'[r] = j
    BY <2>1 DEF RedeemInsert, Managed, Typed, TypeOK
  <2> HIDE DEF j
  <2>4. ~AddressTaken(job[r].email) /\ UNCHANGED users
    BY <2>1 DEF RedeemInsert
  <2>5. QED BY <2>2, <2>3, <2>4 DEF AddressTaken, Active
<1>4. ASSUME NEW r \in Request, Arrive(r) \/ Advance(r) PROVE AddressesFresh'
  <2>1. \A s \in Request \ {r} : pc'[s] = pc[s] /\ job'[s] = job[s]
    BY <1>4, OthersKeep DEF Managed, Typed, Keeps
  <2>2. ASSUME NEW s \in Request, pc'[s] = "redeem.commit"
        PROVE  ~AddressTaken(job[s].email)'
    <3>1. CASE s = r
      BY <1>3, <1>4, <2>2, <3>1
    <3>2. CASE s # r
      <4>1. pc[s] = "redeem.commit" /\ job'[s] = job[s]
        BY <2>1, <2>2, <3>2
      <4>2. QED BY <1>2, <1>4, <3>2, <4>1
    <3>3. QED BY <3>1, <3>2
  <2>3. ASSUME NEW s \in Request, NEW q \in Request \ {s},
               pc'[s] = "redeem.commit", pc'[q] \in {"setup.commit", "redeem.commit"}
        PROVE  job'[q].email # job'[s].email
    <3>1. CASE s # r /\ q # r
      BY <2>1, <2>3, <3>1 DEF AddressesFresh
    <3>2. CASE q = r
      <4>1. s # r /\ pc[s] = "redeem.commit" /\ job'[s] = job[s]
        BY <2>1, <2>3, <3>2
      <4>2. QED BY <1>2, <1>4, <2>3, <3>2, <4>1 DEF Inserting
    <3>3. CASE s = r
      <4>1. q # r /\ pc[q] \in {"setup.commit", "redeem.commit"} /\ job'[q] = job[q]
        BY <2>1, <2>3, <3>3
      <4>2. PICK a \in Account : RedeemInsert(r, a)
        BY <1>4, <2>3, <3>3, Moves DEF SweepTake, Managed
      <4>3. job'[r].email = job[r].email
        <5> DEFINE j == [job[r] EXCEPT !.target = a]
        <5>1. j.email = job[r].email
          BY JobWithTarget DEF Managed, Typed, TypeOK
        <5>2. job'[r] = j
          BY <4>2 DEF RedeemInsert, Managed, Typed, TypeOK
        <5> HIDE DEF j
        <5>3. QED BY <5>1, <5>2
      <4>4. ~IndexHeld(q, job[r].email)
        BY <4>1, <4>2 DEF RedeemInsert, AddressFree
      <4>5. QED BY <3>3, <4>1, <4>3, <4>4 DEF IndexHeld
    <3>4. QED BY <3>1, <3>2, <3>3
  <2>4. QED BY <2>2, <2>3 DEF AddressesFresh
<1>5. CASE UNCHANGED <<users, pc, job>>
  BY <1>5 DEF AddressesFresh, AddressTaken, Active
<1>6. QED BY <1>4, <1>5, NextSteps, ChangeSteps DEF vars, Managed

-----------------------------------------------------------------------------
(* Removal: what it found to cancel nobody can redeem, because the address  *)
(* belongs to an active account until the removal commits.                 *)

LEMMA SweepHoldsStep ==
  ASSUME Managed, InvitesExclusive, RedeemsItsAddress, AddressesFresh, SweepHolds, [Next]_vars
  PROVE  SweepHolds'
<1> DEFINE Ends == {"pending", "expired", "revoked"}
<1>1. ASSUME NEW s \in Request, pc[s] = "sweep", NEW i \in sweep[s],
             NEW r \in Request, Arrive(r) \/ Advance(r)
      PROVE  invitations'[i].status \in Ends
  <2>1. /\ i \in Invite /\ invitations[i].status \in Ends
        /\ invitations[i].email = users[job[s].target].email
    BY <1>1 DEF SweepHolds, Managed, Typed, TypeOK
  <2>2. ~(RedeemCommit(r) /\ i = job[r].invite)
    <3>1. SUFFICES ASSUME RedeemCommit(r), i = job[r].invite PROVE FALSE
      OBVIOUS
    <3>2. pc[r] = "redeem.commit"
      BY <3>1 DEF RedeemCommit
    <3>3. users[job[s].target].email = job[r].email
      BY <2>1, <3>1, <3>2 DEF RedeemsItsAddress, Redeeming
    <3>4. Active(job[s].target) /\ job[s].target \in Account
      BY <1>1, DecidedHolds DEF Managed, DecisionHolds, Decided
    <3>5. QED BY <3>2, <3>3, <3>4 DEF AddressesFresh, AddressTaken
  <2>3. WroteInvite(r, i)
    BY <1>1, <2>1, InvitesStep DEF Managed
  <2>4. QED BY <2>1, <2>2, <2>3 DEF WroteInvite
<1>2. ASSUME NEW s \in Request, pc[s] = "sweep", NEW i \in sweep[s], [Next]_vars
      PROVE  /\ invitations'[i].status \in Ends
             /\ invitations'[i].email = users'[job[s].target].email
  <2>1. /\ i \in Invite /\ invitations[i].status \in Ends
        /\ invitations[i].email = users[job[s].target].email
    BY <1>2 DEF SweepHolds, Managed, Typed, TypeOK
  <2>2. invitations'[i].status \in Ends
    BY <1>1, <1>2, <2>1, NextSteps, ChangeSteps DEF vars, Managed
  <2>3. job[s].target \in Account /\ Exists(job[s].target)
    BY <1>2, TargetKnown DEF Managed, TargetsExist, Mutating
  <2>4. QED BY <2>1, <2>2, <2>3, AddressesStay
<1>3. ASSUME NEW r \in Request, Arrive(r) \/ Advance(r), NEW s \in Request, pc'[s] = "sweep",
             NEW i \in sweep'[s]
      PROVE  /\ invitations'[i].status \in Ends
             /\ invitations'[i].email = users'[job'[s].target].email
  <2>1. CASE SweepRead(r) /\ s = r
    BY <1>3, <2>1 DEF SweepRead, Live, Managed, Typed, TypeOK
  <2>2. CASE pc[s] = "sweep" /\ sweep'[s] = sweep[s] /\ job'[s] = job[s]
    BY <1>2, <1>3, <2>2
  <2>3. CASE s # r
    BY <1>3, <2>2, <2>3, OthersKeep DEF Managed, Typed, Keeps
  <2>4. CASE s = r /\ ~SweepRead(r)
    <3>1. \E k \in Invite : SweepTake(r, k)
      BY <1>3, <2>4, Moves DEF Managed
    <3>2. pc[r] = "sweep" /\ sweep'[r] = sweep[r] /\ job'[r] = job[r]
      BY <3>1 DEF SweepTake
    <3>3. QED BY <2>2, <2>4, <3>2
  <2>5. QED BY <2>1, <2>3, <2>4
<1>4. CASE \E r \in Request : Arrive(r) \/ Advance(r)
  BY <1>3, <1>4 DEF SweepHolds
<1>5. CASE UNCHANGED <<pc, job, sweep>>
  BY <1>2, <1>5 DEF SweepHolds
<1>6. QED BY <1>4, <1>5, NextSteps, ChangeSteps DEF vars, Managed

LEMMA RemovalStep ==
  ASSUME Managed, InvitesExclusive, SweepHolds, RemovalEndsInvitations, [Next]_vars
  PROVE  RemovalEndsInvitations'
<1>1. ASSUME NEW i \in Invite, invitations[i].status = "revoked"
      PROVE  invitations'[i].status = "revoked"
  <2>1. ASSUME NEW r \in Request, Arrive(r) \/ Advance(r)
        PROVE  invitations'[i].status = "revoked"
    BY <1>1, <2>1, InvitesStep DEF WroteInvite, Managed, InvitesExclusive, Live
  <2>2. QED BY <1>1, <2>1, NextSteps, ChangeSteps DEF vars, Managed, Live
<1>2. ASSUME NEW r \in Request, RemoveCommit(r), NEW i \in sweep[r]
      PROVE  invitations'[i].status = "revoked"
  <2>1. i \in Invite /\ invitations[i].status \in {"pending", "expired", "revoked"}
    BY <1>2 DEF RemoveCommit, SweepHolds, Managed, Typed, TypeOK
  <2>2. Advance(r)
    BY <1>2 DEF Advance
  <2>3. CASE i \in taken[r]
    <3>1. WroteInvite(r, i)
      BY <2>1, <2>2, InvitesStep DEF Managed
    <3>2. ~RedeemCommit(r) /\ ~InviteInsert(r, i)
      BY <1>2 DEF RemoveCommit, RedeemCommit, InviteInsert
    <3>3. QED BY <1>2, <2>3, <3>1, <3>2 DEF WroteInvite
  <2>4. CASE i \notin taken[r]
    <3>1. invitations[i].status = "revoked"
      BY <1>2, <2>1, <2>4 DEF RemoveCommit, Live
    <3>2. QED BY <1>1, <2>1, <3>1
  <2>5. QED BY <2>3, <2>4
<1>3. ASSUME NEW r \in Request, RemoveCommit(r) PROVE RemovalEndsInvitations'
  <2>1. cleared \in [Account -> SUBSET Invite] /\ cleared' = [cleared EXCEPT ![job[r].target] = sweep[r]]
    BY <1>3 DEF RemoveCommit, Managed, Typed, TypeOK
  <2>2. ASSUME NEW a \in Account, NEW i \in cleared'[a]
        PROVE  invitations'[i].status = "revoked"
    <3>1. i \in sweep[r] \/ (i \in cleared[a] /\ i \in Invite)
      BY <2>1, <2>2
    <3>2. QED BY <1>1, <1>2, <1>3, <3>1 DEF RemovalEndsInvitations
  <2>3. QED BY <2>2 DEF RemovalEndsInvitations
<1>4. CASE UNCHANGED cleared
  <2>1. cleared \in [Account -> SUBSET Invite]
    BY DEF Managed, Typed, TypeOK
  <2>2. QED BY <1>1, <1>4, <2>1 DEF RemovalEndsInvitations
<1>5. QED BY <1>3, <1>4, NextSteps, RowsKept, ChangeSteps DEF vars, Managed

-----------------------------------------------------------------------------
(* The whole invariant.                                                    *)

LEMMA IInvInit == Init => IInv
<1> SUFFICES ASSUME Init PROVE IInv
  OBVIOUS
<1>1. Managed
  BY ManagedInit
<1>2. \A r \in Request : pc[r] = "idle"
  BY DEF Init
<1>3. InvitesExclusive /\ RedeemsItsAddress /\ AddressesFresh /\ SweepHolds
  BY <1>2 DEF InvitesExclusive, InvitesHeld, RedeemsItsAddress, Redeeming, AddressesFresh,
              SweepHolds
<1>4. RemovalEndsInvitations
  BY DEF Init, RemovalEndsInvitations
<1>5. QED BY <1>1, <1>3, <1>4 DEF IInv, Managed, Typed

LEMMA IInvStep ==
  ASSUME IInv, [Next]_vars
  PROVE  IInv'
<1>1. Managed
  BY DEF IInv, Managed, Typed
<1>2. Managed'
  BY <1>1, ManagedStep
<1>3. /\ InvitesExclusive /\ RedeemsItsAddress /\ AddressesFresh /\ SweepHolds
      /\ RemovalEndsInvitations /\ Typed
  BY <1>1 DEF IInv, Managed
<1>4. InvitesExclusive'
  BY <1>3, InvitesExclusiveStep
<1>5. RedeemsItsAddress' /\ AddressesFresh'
  BY <1>1, <1>3, RedeemsItsAddressStep, AddressesFreshStep
<1>6. SweepHolds' /\ RemovalEndsInvitations'
  BY <1>1, <1>3, SweepHoldsStep, RemovalStep
<1>7. QED BY <1>2, <1>4, <1>5, <1>6 DEF IInv, Managed, Typed

(* Removal leaves no way back: every live invitation to the address that    *)
(* the removal found is revoked for good (members.ts).                     *)
THEOREM RemovalIsFinal == Spec => []RemovalEndsInvitations
<1>1. IInv /\ [Next]_vars => IInv'
  BY IInvStep
<1>2. IInv => RemovalEndsInvitations
  BY DEF IInv
<1>3. QED BY IInvInit, <1>1, <1>2, PTL DEF Spec
=============================================================================
