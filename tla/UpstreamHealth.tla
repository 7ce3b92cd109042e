--------------------------- MODULE UpstreamHealth ---------------------------
(***************************************************************************)
(* The health of one upstream on one chain (upstream-health.ts), put       *)
(* together from three answers of the store - the routers' blocked gauge,  *)
(* block polls that succeeded and block polls that failed - and from the   *)
(* interfaces the configuration declares.                                  *)
(*                                                                         *)
(* The store gives the samples of an answer in any order.  A signal is one *)
(* interface as one scraped router sees it.                                *)
(***************************************************************************)
EXTENDS Integers, FiniteSets

CONSTANTS
  Iface, Instance,
  MaxSamples    \* bound: samples in the three answers together

VARIABLES
  given,        \* the samples of the three answers
  expected,     \* the interfaces that are configured
  unread,       \* samples still to add
  signals,      \* the Map of signals: keys, and what is known of each
  unmerged,     \* keys still to merge, and configured interfaces still to look at
  upstream      \* the row

healthVars == <<given, expected, unread, signals, unmerged, upstream>>

\* Blocked is a gauge of 1, open of 0; nan is no number.  Of polls only whether
\* there were any matters.
Sample ==
  [kind: {"gauge"}, of: Iface \X Instance, value: {"blocked", "open", "nan"}]
  \cup [kind: {"ok", "failed"}, of: Iface \X Instance, value: {"some", "none"}]

Rank == [operational |-> 0, unknown |-> 1, unhealthy |-> 2]
Measured == [blocked |-> "unhealthy", open |-> "operational", nan |-> "unknown"]
NoSignal == [on |-> FALSE, gauge |-> "none", ok |-> FALSE, failed |-> FALSE]
NoVerdict == [health |-> "unknown", resolved |-> FALSE]

HealthInit ==
  /\ given \in {{}} \cup {{f[n] : n \in 1..MaxSamples} : f \in [1..MaxSamples -> Sample]}
  /\ expected \in SUBSET Iface
  /\ given # {} \/ expected # {}
  /\ unread = given
  /\ signals = [k \in Iface \X Instance |-> NoSignal]
  /\ unmerged = [keys |-> {s.of : s \in given}, ifaces |-> expected]
  /\ upstream = NoVerdict

\* add(): the gauges, then the polls that succeeded, then those that failed.
Comes(s) ==
  LET before == CASE s.kind = "gauge" -> {} [] s.kind = "ok" -> {"gauge"}
                  [] s.kind = "failed" -> {"gauge", "ok"}
  IN  s \in unread /\ \A r \in unread : r.kind \notin before

Worse(gauge, measured) == gauge = "none" \/ Rank[measured] > Rank[gauge]

Noted(old, s) ==
  CASE s.kind = "gauge" ->
         IF Worse(old.gauge, Measured[s.value])
         THEN [old EXCEPT !.on = TRUE, !.gauge = Measured[s.value]] ELSE [old EXCEPT !.on = TRUE]
    [] s.kind = "ok" -> [old EXCEPT !.on = TRUE, !.ok = @ \/ s.value = "some"]
    [] s.kind = "failed" -> [old EXCEPT !.on = TRUE, !.failed = @ \/ s.value = "some"]

AddSample(s) ==
  /\ Comes(s)
  /\ unread' = unread \ {s}
  /\ signals' = [signals EXCEPT ![s.of] = Noted(@, s)]
  /\ UNCHANGED <<given, expected, unmerged, upstream>>

\* What a signal says.  That the router has not blocked it says nothing alone.
Says(sig) ==
  CASE sig.gauge = "unhealthy" -> "unhealthy"
    [] sig.gauge # "unhealthy" /\ sig.failed /\ ~sig.ok -> "unhealthy"
    [] sig.gauge # "unhealthy" /\ sig.ok -> "operational"
    [] OTHER -> "unknown"

\* Mutant: the last verdict stands.
WorstAsLast(verdict) == [health |-> verdict, resolved |-> TRUE]

\* merge(): the first verdict, and then any that is worse.
Worst(verdict) ==
  [health |-> IF ~upstream.resolved \/ Rank[verdict] > Rank[upstream.health]
              THEN verdict ELSE upstream.health,
   resolved |-> TRUE]

MergeSignal(k) ==
  /\ unread = {}
  /\ k \in unmerged.keys
  /\ upstream' = Worst(Says(signals[k]))
  /\ unmerged' = [unmerged EXCEPT !.keys = @ \ {k}]
  /\ UNCHANGED <<given, expected, unread, signals>>

\* A configured interface that no signal is about.
MergeConfigured(i) ==
  /\ unread = {} /\ unmerged.keys = {}
  /\ i \in unmerged.ifaces
  /\ upstream' = IF \E n \in Instance : signals[<<i, n>>].on THEN upstream ELSE Worst("unknown")
  /\ unmerged' = [unmerged EXCEPT !.ifaces = @ \ {i}]
  /\ UNCHANGED <<given, expected, unread, signals>>

HealthNext ==
  \/ \E s \in unread : AddSample(s)
  \/ \E k \in unmerged.keys : MergeSignal(k)
  \/ \E i \in unmerged.ifaces : MergeConfigured(i)

HealthSpec == HealthInit /\ [][HealthNext]_healthVars

Done == unread = {} /\ unmerged.keys = {} /\ unmerged.ifaces = {}

HealthTypeOK ==
  /\ unread \subseteq given
  /\ signals \in [Iface \X Instance ->
       [on: BOOLEAN, gauge: {"none"} \cup DOMAIN Rank, ok: BOOLEAN, failed: BOOLEAN]]
  /\ upstream \in [health: DOMAIN Rank, resolved: BOOLEAN]

\* In whatever order the samples come, an interface that works does not hide
\* another one, or another router's view of it, that is blocked or whose polls
\* all fail; and the row is green only when polls succeed for all that is seen
\* and all that is configured is seen (upstream-health.ts:39-40, 148-153).
HealthIsWorst ==
  LET has(kind, k, value) == [kind |-> kind, of |-> k, value |-> value] \in given
      seen == {s.of : s \in given}
      down(k) == \/ has("gauge", k, "blocked")
                 \/ has("failed", k, "some") /\ ~has("ok", k, "some")
      covered == \A i \in expected : \E n \in Instance : <<i, n>> \in seen
  IN  Done => upstream.health =
        IF \E k \in seen : down(k) THEN "unhealthy"
        ELSE IF seen # {} /\ covered /\ \A k \in seen : has("ok", k, "some") THEN "operational"
        ELSE "unknown"
=============================================================================
