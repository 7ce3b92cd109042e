------------------------------ MODULE MCSignIn ------------------------------
(* SignIn for TLC: symmetry, and a state to start from besides the fresh   *)
(* account, which would use up a session to enrol.                         *)
EXTENDS SignIn, TLC

\* Requests are told apart by nothing but their names (safety only).
Requests == Permutations(Request)

\* The account is enrolled, by the first code of its first secret.
Enrolled ==
  /\ account = [password |-> 1, secret |-> 1, enrolled |-> TRUE, lastStep |-> 1, cutoff |-> 0]
  /\ nextSecret = 2
  /\ sessions = [s \in Session |-> NoSession]
  /\ challenges = [c \in Challenge |-> [status |-> "absent", password |-> 0]]
  /\ links = [l \in Link |-> "absent"]
  /\ attempts = FALSE
  /\ now = 1
  /\ pc = [r \in Request |-> "idle"]
  /\ job = [r \in Request |-> NoJob]
  /\ accepted = [x \in Code |-> IF x = <<1, 1>> THEN 1 ELSE 0]
  /\ setBy = [v \in Password |-> None]
  /\ ended = {}

EitherSpec == (Init \/ Enrolled) /\ [][Next]_vars
=============================================================================
