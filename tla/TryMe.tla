------------------------------- MODULE TryMe -------------------------------
(***************************************************************************)
(* The try-me drawer (try-me/drawer.tsx): one request, sent through the    *)
(* router, straight to an upstream, or both ways to compare.  A send keeps *)
(* the request it was started with; the reader may select another command, *)
(* transport or target while it is on its way, and may then send again.    *)
(***************************************************************************)
CONSTANTS
  Command,        \* the methods of the catalog
  Subscription,   \* those that are offered over a socket only
  Foreign,        \* those of another internal path than the upstream serves
  Sending         \* sends at once (bound)

ASSUME CommandAssumption == Subscription \subseteq Command /\ Foreign \subseteq Command

VARIABLES
  drawerRow,      \* the props: whether it has a socket, what the api can dial, its tier
  controls,          \* what the controls say
  shown,          \* the result: its status, the request it answers, the pair compared
  comparing,
  wsPhase,
  sends,          \* sends[s], the one on its way and the request it was started with
  latest          \* history: the last one started

drawerVars == <<drawerRow, controls, shown, comparing, wsPhase, sends, latest>>

Transport == {"http", "ws"}
Via == {"router", "upstream"}
Request == [command: Command, transport: Transport]

\* A request at most: of and pair are empty where the code has null.
Blank == [status |-> "idle", of |-> {}, pair |-> {}]
AtRest == [on |-> FALSE, both |-> FALSE, leg |-> "router", of |-> {}, socket |-> "none"]

DrawerTypeOK ==
  /\ drawerRow \in [ws: BOOLEAN, direct: SUBSET Transport, backup: BOOLEAN]
  /\ controls \in [command: Command, transport: Transport, target: Via]
  /\ shown \in [status: {"idle", "loading", "ok", "error"},
                of: SUBSET Request, pair: SUBSET Request]
  /\ comparing \in BOOLEAN
  /\ wsPhase \in {"none", "connecting", "open"}
  /\ sends \in [Sending -> [on: BOOLEAN, both: BOOLEAN, leg: Via, of: SUBSET Request,
                            socket: {"none", "connecting", "open", "shut"}]]
  /\ latest \in SUBSET Sending

\* flat: a subscription can only fail over plain HTTP.
Offered(t) == IF t = "ws" THEN Command ELSE Command \ Subscription

Selected == [command |-> controls.command, transport |-> controls.transport]

\* The direct leg can be dialed on the transport, and is chosen (onDirect).
OnDirect == controls.target = "upstream" /\ controls.transport \in drawerRow.direct
PinRefused == drawerRow.backup
PathRefused == OnDirect /\ controls.command \in Foreign

\* A backup opens on the direct leg where there is one (initialTargetFor).
DrawerInit ==
  /\ drawerRow \in [ws: BOOLEAN, direct: SUBSET Transport, backup: BOOLEAN]
  /\ \E t \in IF drawerRow.ws THEN Transport ELSE {"http"} :
       \E c \in Offered(t) :
         controls = [command |-> c, transport |-> t,
                  target |-> IF drawerRow.backup /\ t \in drawerRow.direct
                             THEN "upstream" ELSE "router"]
  /\ shown = Blank
  /\ comparing = FALSE
  /\ wsPhase = "none"
  /\ sends = [s \in Sending |-> AtRest]
  /\ latest = {}

\* resetResult(): what is on its way stays on its way, and comparing stays.
ResetResult(status) == shown' = [Blank EXCEPT !.status = status]

Select(c) ==
  /\ c \in Offered(controls.transport)
  /\ controls' = [controls EXCEPT !.command = c]
  /\ ResetResult("idle") /\ wsPhase' = "none"
  /\ UNCHANGED <<drawerRow, comparing, sends, latest>>

\* switchTransport() and the effects of the render that follows: a command that
\* is no longer offered snaps to a default, and a target to the router.
SwitchTransport(t) ==
  /\ drawerRow.ws /\ t # controls.transport
  /\ \E c \in Offered(t) :
       /\ controls.command \in Offered(t) => c = controls.command
       /\ controls' = [command |-> c, transport |-> t,
                    target |-> IF t \in drawerRow.direct THEN controls.target ELSE "router"]
  /\ ResetResult("idle") /\ wsPhase' = "none"
  /\ UNCHANGED <<drawerRow, comparing, sends, latest>>

SetTarget(via) ==
  /\ IF via = "upstream" THEN controls.transport \in drawerRow.direct ELSE ~PinRefused
  /\ controls' = [controls EXCEPT !.target = via]
  /\ UNCHANGED <<drawerRow, shown, comparing, wsPhase, sends, latest>>

\* fireViaRouter() and fireDirect(): the browser's own socket, or the api's.
Socket(leg, t) == IF leg = "router" /\ t = "ws" THEN "connecting" ELSE "none"

Fire(s, both, leg) ==
  /\ ~sends[s].on
  /\ sends' = [sends EXCEPT ![s] =
       [on |-> TRUE, both |-> both, leg |-> leg, of |-> {Selected},
        socket |-> Socket(leg, controls.transport)]]
  /\ latest' = {s}
  /\ ResetResult("loading")
  /\ wsPhase' = IF controls.transport = "ws" THEN "connecting" ELSE "none"
  /\ UNCHANGED <<drawerRow, controls>>

Send(s) ==
  /\ shown.status # "loading"
  /\ ~(PinRefused /\ ~OnDirect) /\ ~PathRefused
  /\ Fire(s, FALSE, IF OnDirect THEN "upstream" ELSE "router")
  /\ UNCHANGED comparing

\* compareBoth(), the router first.
Compare(s) ==
  /\ shown.status # "loading"
  /\ OnDirect /\ ~PinRefused /\ ~PathRefused
  /\ Fire(s, TRUE, "router")
  /\ comparing' = TRUE

OverSocket(s) == \E r \in sends[s].of : r.transport = "ws"

SocketOpens(s) ==
  /\ sends[s].on /\ sends[s].socket = "connecting"
  /\ sends' = [sends EXCEPT ![s].socket = "open"]
  /\ wsPhase' = "open"
  /\ UNCHANGED <<drawerRow, controls, shown, comparing, latest>>

\* onclose with wasClean, before a message: the timer is cleared and nobody is told.
SocketShut(s) ==
  /\ sends[s].on /\ sends[s].socket = "open"
  /\ sends' = [sends EXCEPT ![s].socket = "shut"]
  /\ UNCHANGED <<drawerRow, controls, shown, comparing, wsPhase, latest>>

Settle(s) ==
  /\ sends' = [sends EXCEPT ![s] = AtRest]
  /\ UNCHANGED <<drawerRow, controls, latest>>

\* applyOutcome(): a pair that is shown stays.
Show(s, status) == shown' = [shown EXCEPT !.status = status, !.of = sends[s].of]

\* An answer, an error frame, or a timeout; a socket's has its own phase to end.
RouterAnswers(s) ==
  /\ sends[s].on /\ ~sends[s].both
  /\ sends[s].leg = "router" /\ sends[s].socket # "shut"
  /\ \E status \in {"ok", "error"} : Show(s, status)
  /\ wsPhase' = IF OverSocket(s) THEN "none" ELSE wsPhase
  /\ UNCHANGED comparing
  /\ Settle(s)

\* The second leg dials what the first one did, whatever is selected by now.
RouterHalf(s) ==
  /\ sends[s].on /\ sends[s].both
  /\ sends[s].leg = "router" /\ sends[s].socket # "shut"
  /\ sends' = [sends EXCEPT ![s].leg = "upstream", ![s].socket = "none"]
  /\ wsPhase' = IF OverSocket(s) THEN "connecting" ELSE wsPhase
  /\ UNCHANGED <<drawerRow, controls, shown, comparing, latest>>

UpstreamAnswers(s) ==
  /\ sends[s].on /\ ~sends[s].both /\ sends[s].leg = "upstream"
  /\ \E status \in {"ok", "error"} : Show(s, status)
  /\ wsPhase' = "none"
  /\ UNCHANGED comparing
  /\ Settle(s)

PairAnswers(s) ==
  /\ sends[s].on /\ sends[s].both /\ sends[s].leg = "upstream"
  /\ \E status \in {"ok", "error"} :
       shown' = [status |-> status, of |-> sends[s].of, pair |-> sends[s].of]
  /\ wsPhase' = "none"
  /\ comparing' = FALSE
  /\ Settle(s)

\* Mutant: comparing ends with an answer only.
FailsComparing(s) ==
  /\ sends[s].on /\ sends[s].socket = "none"
  /\ Show(s, "error")
  /\ wsPhase' = "none"
  /\ UNCHANGED comparing
  /\ Settle(s)

\* The fetch throws: no connection, or the api refuses.  A socket never does.
Fails(s) ==
  /\ sends[s].on /\ sends[s].socket = "none"
  /\ Show(s, "error")
  /\ wsPhase' = "none"
  /\ comparing' = (comparing /\ ~sends[s].both)
  /\ Settle(s)

DrawerNext ==
  \/ \E c \in Command : Select(c)
  \/ \E t \in Transport : SwitchTransport(t)
  \/ \E via \in Via : SetTarget(via)
  \/ \E s \in Sending :
       \/ Send(s) \/ Compare(s)
       \/ SocketOpens(s) \/ SocketShut(s)
       \/ RouterAnswers(s) \/ RouterHalf(s) \/ UpstreamAnswers(s) \/ PairAnswers(s)
       \/ Fails(s)

DrawerSpec == DrawerInit /\ [][DrawerNext]_drawerVars

\* No spinner outlives what it spins for, however selections and sends overlap:
\* "Sending" stays for the last send only while that send is unanswered (so an
\* answer always frees the button), "Comparing" only while a comparison is on
\* its way, and the socket's tag only while a call over a socket is.
SpinnersTrue ==
  /\ shown.status = "loading" => \E s \in latest : sends[s].on
  /\ comparing => \E s \in Sending : sends[s].on /\ sends[s].both
  /\ wsPhase # "none" => \E s \in Sending : sends[s].on /\ OverSocket(s)

\* Nothing is sent that could not land, in whatever order the controls are
\* turned: a backup is never asked for through the router, an upstream never
\* over a transport or for a path it does not serve, and no subscription goes
\* over plain HTTP.
SendsCanLand ==
  \A s \in Sending : sends[s].on =>
    /\ sends[s].leg = "router" => ~drawerRow.backup
    /\ sends[s].leg = "upstream" \/ sends[s].both =>
         \A r \in sends[s].of : r.transport \in drawerRow.direct /\ r.command \notin Foreign
    /\ \A r \in sends[s].of : r.transport = "http" => r.command \notin Subscription

\* What the drawer says of a send is so, and what it sends can land.
DrawerHolds == SpinnersTrue /\ SendsCanLand

\* "A result belongs to the exact (command, transport) that produced it"
\* (resetResult, drawer.tsx:697).
ResultBelongs == \A r \in shown.of \cup shown.pair : r = Selected
=============================================================================
