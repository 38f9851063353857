------------------------------ MODULE Dashboard ------------------------------
(***************************************************************************)
(* The page /dashboard: a refresh every five seconds, clicks on rows, and  *)
(* the answers of the API, which may overtake each other.                  *)
(*                                                                         *)
(* Every activation of refresh, loadJobDetail or loadWorkerDetail that     *)
(* waits for an answer is an open call.  The answer is computed by the API *)
(* at one moment and received at a later one.  The parallel fetches of one *)
(* call are taken together, and its jobs and workers tables are taken with *)
(* the cards.                                                              *)
(***************************************************************************)
EXTENDS Naturals

CONSTANTS
    Panels,    \* in the order of refresh: 1 is the job detail, 2 the worker detail
    Rows,      \* ids that can be clicked
    Calls,     \* bound: calls that are open together
    MaxData,   \* bound: changes of the data
    NULL

\* The page has these two panels.
ASSUME PanelsAssumption == Panels \subseteq {1, 2}
ASSUME DataAssumption == MaxData \in Nat
ASSUME DashboardNull == NULL \notin Rows

VARIABLES
    data,      \* version of what the API would answer
    api,       \* "up" or "down"
    selected,  \* selectedJobId, selectedWorkerId
    panel,     \* content of the detail panels
    cards,     \* version of the metric cards
    banner,    \* display of error-banner: "none" or "block"
    call       \* the open calls

vars == <<data, api, selected, panel, cards, banner, call>>

Hint == [shows |-> "hint", row |-> NULL, version |-> 0]
Loading == [shows |-> "loading", row |-> NULL, version |-> 0]
Failure == [shows |-> "error", row |-> NULL, version |-> 0]
Detail(r, v) == [shows |-> "detail", row |-> r, version |-> v]
Content == {Hint, Loading, Failure} \cup {Detail(r, v) : r \in Rows, v \in 0 .. MaxData}

\* panel 0 is the first part of refresh: the cards and the tables.
Idle == [state |-> "closed", by |-> "click", panel |-> 0, row |-> NULL, version |-> 0]
Awaiting(by, p, r) ==
    [state |-> "waiting", by |-> by, panel |-> p, row |-> r, version |-> 0]
Call == [state : {"closed", "waiting", "answered", "failed"}, by : {"refresh", "click"},
         panel : {0} \cup Panels, row : Rows \cup {NULL}, version : 0 .. MaxData]

Init ==
    /\ data = 0
    /\ api = "up"
    /\ selected = [p \in Panels |-> NULL]
    /\ panel = [p \in Panels |-> Hint]
    /\ cards = 0
    /\ banner = "none"
    /\ call = [c \in Calls |-> Idle]

-----------------------------------------------------------------------------
(* The API.                                                                *)

Change ==
    /\ data < MaxData
    /\ data' = data + 1
    /\ UNCHANGED <<api, selected, panel, cards, banner, call>>

Toggle ==
    /\ api' = IF api = "up" THEN "down" ELSE "up"
    /\ UNCHANGED <<data, selected, panel, cards, banner, call>>

Respond(c) ==
    /\ call[c].state = "waiting"
    /\ call' = [call EXCEPT ![c].state = IF api = "up" THEN "answered" ELSE "failed",
                            ![c].version = IF api = "up" THEN data ELSE 0]
    /\ UNCHANGED <<data, api, selected, panel, cards, banner>>

-----------------------------------------------------------------------------
(* The page.                                                               *)

\* selectJob, selectWorker
Click(p, r, c) ==
    /\ call[c].state = "closed"
    /\ selected' = [selected EXCEPT ![p] = r]
    /\ panel' = [panel EXCEPT ![p] = Loading]
    /\ call' = [call EXCEPT ![c] = Awaiting("click", p, r)]
    /\ UNCHANGED <<data, api, cards, banner>>

\* Faulty: the banner stays.
StartQuietly(c) ==
    /\ call[c].state = "closed"
    /\ call' = [call EXCEPT ![c] = Awaiting("refresh", 0, NULL)]
    /\ UNCHANGED <<data, api, selected, panel, cards, banner>>

StartRefresh(c) ==
    /\ call[c].state = "closed"
    /\ banner' = "none"
    /\ call' = [call EXCEPT ![c] = Awaiting("refresh", 0, NULL)]
    /\ UNCHANGED <<data, api, selected, panel, cards>>

\* Faulty: details are not reloaded.
NoneToReload(p) == {}

\* Faulty: a panel that shows some detail is not reloaded.
OnlyEmptyToReload(p) == {q \in Panels : q > p /\ selected[q] # NULL /\ panel[q].shows # "detail"}

\* Faulty: a detail is loaded although nothing is selected.
AllToReload(p) == {q \in Panels : q > p}

\* The panels that refresh has still to reload after part p.
ToReload(p) == {q \in Panels : q > p /\ selected[q] # NULL}

\* The next part of refresh, if any; shown is what the panels show before it.
Continue(c, p, shown) ==
    IF ToReload(p) = {} THEN
        /\ panel' = shown
        /\ call' = [call EXCEPT ![c] = Idle]
    ELSE LET q == CHOOSE q \in ToReload(p) : \A s \in ToReload(p) : q <= s
         IN  /\ panel' = [shown EXCEPT ![q] = Loading]
             /\ call' = [call EXCEPT ![c] = Awaiting("refresh", q, selected[q])]

ReceiveCards(c) ==
    /\ call[c].state = "answered" /\ call[c].panel = 0
    /\ cards' = call[c].version
    /\ Continue(c, 0, panel)
    /\ UNCHANGED <<data, api, selected, banner>>

RefreshFails(c) ==
    /\ call[c].state = "failed" /\ call[c].panel = 0
    /\ banner' = "block"
    /\ call' = [call EXCEPT ![c] = Idle]
    /\ UNCHANGED <<data, api, selected, panel, cards>>

\* Faulty: a failure is not shown.
RenderedIfAny(k) ==
    IF k.state = "failed" THEN panel[k.panel] ELSE Detail(k.row, k.version)

\* loadJobDetail and loadWorkerDetail render whatever they were called for.
Rendered(k) == IF k.state = "failed" THEN Failure ELSE Detail(k.row, k.version)

ReceiveDetail(c) ==
    /\ call[c].state \in {"answered", "failed"} /\ call[c].panel # 0
    /\ LET k == call[c]
           shown == [panel EXCEPT ![k.panel] = Rendered(k)]
       IN  \/ k.by = "refresh" /\ Continue(c, k.panel, shown)
           \/ k.by = "click" /\ panel' = shown /\ call' = [call EXCEPT ![c] = Idle]
    /\ UNCHANGED <<data, api, selected, cards, banner>>

-----------------------------------------------------------------------------
Receive(c) == ReceiveCards(c) \/ RefreshFails(c) \/ ReceiveDetail(c)

Next ==
    \/ Change \/ Toggle
    \/ \E c \in Calls : Respond(c) \/ StartRefresh(c) \/ Receive(c)
    \/ \E p \in Panels, r \in Rows, c \in Calls : Click(p, r, c)

Spec == Init /\ [][Next]_vars

\* Every fetch is answered or fails, every answer is received, and the timer
\* fires again and again, however many calls are open.
Fairness ==
    /\ \A c \in Calls : WF_vars(Respond(c)) /\ WF_vars(Receive(c))
    /\ SF_vars(\E c \in Calls : StartRefresh(c))

FairSpec == Spec /\ Fairness

-----------------------------------------------------------------------------
\* The types of the variables.
TypeOK ==
    /\ data \in 0 .. MaxData
    /\ api \in {"up", "down"}
    /\ selected \in [Panels -> Rows \cup {NULL}]
    /\ panel \in [Panels -> Content]
    /\ cards \in 0 .. MaxData
    /\ banner \in {"none", "block"}
    /\ call \in [Calls -> Call]

\* A panel that says "Loading" is never stuck: some open call will render it.
LoadingEnds ==
    \A p \in Panels : panel[p] = Loading => \E c \in Calls : call[c].state # "closed" /\ call[c].panel = p

StableApi == <>[](api = "up")

\* However answers overtake each other, a selection that is left alone is what
\* its panel shows in the end, again after each reload.
SelectionWins ==
    StableApi => \A p \in Panels, r \in Rows :
        <>[](selected[p] = r) => /\ <>[](panel[p] = Loading \/ panel[p].row = r)
                                 /\ []<>(panel[p].row = r)

\* Data that no longer changes is shown in the end: a late answer to an old
\* call does not stay.
ShowsLatestData ==
    StableApi => \A v \in 0 .. MaxData : <>[](data = v) =>
        /\ <>[](cards = v)
        /\ \A p \in Panels : <>[](panel[p].shows = "detail" => panel[p].version = v)

\* The error banner goes away once the API answers again.
BannerClears == StableApi => <>[](banner = "none")
=============================================================================
