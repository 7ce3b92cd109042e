---------------------------- MODULE ProviderLinks ----------------------------
(***************************************************************************)
(* Signing in with a provider (POST /auth/oauth/:provider, users.ts): an   *)
(* identity the provider vouches for is matched to an account, by its id   *)
(* or else by its address, and is linked to the account it is matched to   *)
(* by address.  Accounts come by invitation and go by removal meanwhile;   *)
(* how those work inside is Members' subject, and each is one step here.   *)
(*                                                                         *)
(* One provider stands for both: each has a column of its own.  A session  *)
(* stands for the challenge that an enrolled account is sent first.        *)
(***************************************************************************)
EXTENDS Naturals, FiniteSets

CONSTANTS
  UserRow,        \* rows of users
  Address,
  Identity,       \* accounts at the provider
  Caller,         \* requests
  NoOne           \* null

ASSUME LinksAssumption == NoOne \notin Identity /\ NoOne \notin Address /\ NoOne \notin UserRow

VARIABLES
  users,
  calls,          \* calls[c]: the statement a request is at, and what it has read
  opened,         \* the session that the last step opened, if it did
  vouched         \* history: the addresses that each identity has proved

linksVars == <<users, calls, opened, vouched>>

NoSession == [user |-> NoOne, as |-> NoOne, late |-> FALSE]
NoUser == [status |-> "unused", email |-> NoOne, googleId |-> NoOne]

\* gone is history: the accounts removed before the request began.
NoCall == [at |-> "idle", as |-> NoOne, email |-> NoOne, user |-> NoOne, gone |-> {}]

LinksInit ==
  /\ users = [u \in UserRow |-> NoUser]
  /\ calls = [c \in Caller |-> NoCall]
  /\ opened = NoSession
  /\ vouched = {}

Active(email) == {u \in UserRow : users[u].status = "active" /\ users[u].email = email}
Holders(i) == {u \in UserRow : users[u].googleId = i}
Gone == {u \in UserRow : users[u].status = "removed"}

Answered(c) == calls' = [calls EXCEPT ![c] = NoCall]
GoesTo(c, at, u) == calls' = [calls EXCEPT ![c].at = at, ![c].user = u]

-----------------------------------------------------------------------------
(* Provider sign-in: verifyOAuthToken, upsertOAuthUser, createSession. *)

\* The provider may have no verified address to give.
SignInWith(c, i, email) ==
  /\ calls[c].at = "idle"
  /\ calls' = [calls EXCEPT ![c] =
       [at |-> "provider", as |-> i, email |-> email, user |-> NoOne, gone |-> Gone]]
  /\ vouched' = vouched \cup ({<<i, email>>} \ {<<i, NoOne>>})
  /\ UNCHANGED users
  /\ opened' = NoSession

ByProvider(c) ==
  /\ calls[c].at = "provider"
  /\ \/ \E u \in Holders(calls[c].as) :
          IF users[u].status = "active" THEN GoesTo(c, "open", u) ELSE Answered(c)
     \/ /\ Holders(calls[c].as) = {}
        /\ IF calls[c].email # NoOne THEN GoesTo(c, "address", NoOne) ELSE Answered(c)
  /\ UNCHANGED <<users, vouched>>
  /\ opened' = NoSession

\* Mutant: the address is looked up among removed accounts too.
ByAddressOfAny(c) ==
  /\ calls[c].at = "address"
  /\ \/ \E u \in UserRow : users[u].email = calls[c].email /\ GoesTo(c, "link", u)
     \/ {u \in UserRow : users[u].email = calls[c].email} = {} /\ Answered(c)
  /\ UNCHANGED <<users, vouched>>
  /\ opened' = NoSession

\* findUserByEmail(): an active account; never a new one.
ByAddress(c) ==
  /\ calls[c].at = "address"
  /\ \/ \E u \in Active(calls[c].email) : GoesTo(c, "link", u)
     \/ Active(calls[c].email) = {} /\ Answered(c)
  /\ UNCHANGED <<users, vouched>>
  /\ opened' = NoSession

\* The UPDATE goes by the row's id alone, and fails on the unique column.
Link(c) ==
  /\ calls[c].at = "link"
  /\ IF Holders(calls[c].as) \subseteq {calls[c].user}
     THEN /\ users' = [users EXCEPT ![calls[c].user].googleId = calls[c].as]
          /\ GoesTo(c, "open", calls[c].user)
     ELSE Answered(c) /\ UNCHANGED users
  /\ opened' = NoSession
  /\ UNCHANGED vouched

Open(c) ==
  /\ calls[c].at = "open"
  /\ opened' = [user |-> calls[c].user, as |-> calls[c].as,
                late |-> calls[c].user \in calls[c].gone]
  /\ Answered(c)
  /\ UNCHANGED <<users, vouched>>

-----------------------------------------------------------------------------
(* Invitations and removal. *)

\* With a password; or with the identity, which has to prove the invitation's
\* address, and whose session is a statement after the transaction.
Redeem(c, u, email, i) ==
  /\ calls[c].at = "idle"
  /\ users[u].status = "unused"
  /\ Active(email) = {}
  /\ i # NoOne => Holders(i) = {}
  /\ users' = [users EXCEPT ![u] = [status |-> "active", email |-> email, googleId |-> i]]
  /\ IF i = NoOne
     THEN UNCHANGED <<calls, vouched>>
     ELSE /\ calls' = [calls EXCEPT ![c] =
               [at |-> "open", as |-> i, email |-> email, user |-> u, gone |-> Gone]]
          /\ vouched' = vouched \cup {<<i, email>>}
  /\ opened' = NoSession

RemoveUser(u) ==
  /\ users[u].status = "active"
  /\ users' = [users EXCEPT ![u].status = "removed", ![u].googleId = NoOne]
  /\ opened' = NoSession
  /\ UNCHANGED <<calls, vouched>>

LinksNext ==
  \/ \E c \in Caller :
       \/ \E i \in Identity, email \in Address \cup {NoOne} : SignInWith(c, i, email)
       \/ ByProvider(c) \/ ByAddress(c) \/ Link(c) \/ Open(c)
       \/ \E u \in UserRow, email \in Address, i \in Identity \cup {NoOne} : Redeem(c, u, email, i)
  \/ \E u \in UserRow : RemoveUser(u)

LinksSpec == LinksInit /\ [][LinksNext]_linksVars

-----------------------------------------------------------------------------
LinksTypeOK ==
  /\ users \in [UserRow -> [status: {"unused", "active", "removed"},
                            email: Address \cup {NoOne}, googleId: Identity \cup {NoOne}]]
  /\ calls \in [Caller ->
       [at: {"idle", "provider", "address", "link", "open"}, as: Identity \cup {NoOne},
        email: Address \cup {NoOne}, user: UserRow \cup {NoOne}, gone: SUBSET UserRow]]
  /\ opened \in [user: UserRow \cup {NoOne}, as: Identity \cup {NoOne}, late: BOOLEAN]
  /\ vouched \subseteq Identity \X Address

\* Whoever gets in with an identity has proved the address of the account by
\* it, at some time, whoever else's identity the account has held since; and no
\* account that had been removed when they asked is opened to them, though its
\* row, its address and perhaps an identity are still there (users.ts:24-31,
\* 103-109).
OnlyOwnersGetIn ==
  /\ opened # NoSession => <<opened.as, users[opened.user].email>> \in vouched /\ ~opened.late
  /\ \A u \in UserRow :
       users[u].googleId # NoOne => <<users[u].googleId, users[u].email>> \in vouched

\* A removed account holds no identity: the column is unique over all rows, and
\* a kept one would collide with the sign-in of the account that its person is
\* invited to next (members.ts:168-170).
RemovedHoldNothing ==
  \A u \in UserRow : users[u].status = "removed" => users[u].googleId = NoOne
=============================================================================
