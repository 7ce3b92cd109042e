----------------------------- MODULE MCMembers -----------------------------
(* Members for TLC, with symmetry; and the snapshots of the metrics routes, *)
(* which share nothing with them: `focus` is the part that runs.            *)
EXTENDS Members, Snapshots, TLC

CONSTANTS e1, e2, total

VARIABLE focus

\* Every route reads the same query of the store; every length is a few ticks.
OneQuery == [k \in Key |-> {total}]
TwoTicks == [k \in Key |-> 2]

Symmetry == Permutations(Request) \cup Permutations(Email) \cup Permutations(Invite)

BothInit == focus \in {"members", "snapshots"} /\ Init /\ SnapshotInit

BothNext ==
  /\ UNCHANGED focus
  /\ \/ focus = "members" /\ Next /\ UNCHANGED snapshotVars
     \/ focus = "snapshots" /\ SnapshotNext /\ UNCHANGED vars

BothSpec == BothInit /\ [][BothNext]_<<focus, vars, snapshotVars>>
=============================================================================
