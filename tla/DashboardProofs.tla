--------------------------- MODULE DashboardProofs ---------------------------
(***************************************************************************)
(* No panel of the page is left loading, for any rows and any number of    *)
(* open calls.                                                             *)
(***************************************************************************)
EXTENDS Dashboard, TLAPS

\* A call for a panel was made for a row: refresh looks at the selection first.
CallsOK == \A c \in Calls : call[c].panel # 0 => call[c].row \in Rows

IInv == TypeOK /\ CallsOK /\ LoadingEnds

\* The calls that the page makes have the type of calls.
LEMMA IdleCall == Idle \in Call /\ Idle.panel = 0 /\ Idle.state = "closed"
BY DataAssumption DEF Idle, Call

LEMMA AwaitingCall ==
    ASSUME NEW by \in {"refresh", "click"}, NEW p \in {0} \cup Panels, NEW r \in Rows \cup {NULL}
    PROVE  /\ Awaiting(by, p, r) \in Call
           /\ Awaiting(by, p, r).panel = p
           /\ Awaiting(by, p, r).row = r
           /\ Awaiting(by, p, r).state = "waiting"
BY DataAssumption DEF Awaiting, Call

\* The contents of panels that are not details have the type of contents.
LEMMA ContentTypes == Hint \in Content /\ Loading \in Content /\ Failure \in Content /\ Hint # Loading
BY DEF Content, Hint, Loading

\* What is built from constants is the same in the next state.
LEMMA Rigid == Content' = Content /\ Call' = Call /\ Loading' = Loading
BY DEF Content, Call, Loading, Hint, Failure, Detail

\* The next panel to reload is one that exists and has a selection.
LEMMA NextPanel ==
    ASSUME TypeOK, NEW p \in {0} \cup Panels, ToReload(p) # {}
    PROVE  LET q == CHOOSE q \in ToReload(p) : \A s \in ToReload(p) : q <= s
           IN  q \in Panels /\ q # 0 /\ selected[q] \in Rows
<1>1. ToReload(p) \subseteq {1, 2}
  BY PanelsAssumption DEF ToReload
<1>2. \E q \in ToReload(p) : \A s \in ToReload(p) : q <= s
  BY <1>1
<1> QED
  BY <1>1, <1>2 DEF ToReload, TypeOK

\* Going on to the next part of a refresh, or ending it, leaves no panel stuck,
\* provided that the part that ends leaves none.
LEMMA ContinueIInv ==
    ASSUME IInv, NEW c \in Calls, NEW p \in {0} \cup Panels, NEW shown \in [Panels -> Content],
           call[c].state # "closed", call[c].panel = p,
           \A r \in Panels : shown[r] = Loading => panel[r] = Loading /\ r # p,
           Continue(c, p, shown),
           data' \in 0 .. MaxData, api' \in {"up", "down"}, selected' = selected,
           cards' \in 0 .. MaxData, banner' \in {"none", "block"}
    PROVE  IInv'
<1>1. CASE ToReload(p) = {}
  <2>1. TypeOK' /\ CallsOK'
    BY <1>1, IdleCall, Rigid DEF Continue, IInv, TypeOK, CallsOK
  <2>2. LoadingEnds'
    BY <1>1, IdleCall, Rigid DEF Continue, IInv, TypeOK, LoadingEnds
  <2> QED
    BY <2>1, <2>2 DEF IInv
<1>2. CASE ToReload(p) # {}
  <2> DEFINE q == CHOOSE q \in ToReload(p) : \A s \in ToReload(p) : q <= s
  <2>1. q \in Panels /\ q # 0 /\ selected[q] \in Rows
    BY <1>2, NextPanel DEF IInv
  <2>2. /\ panel' = [shown EXCEPT ![q] = Loading]
        /\ call' = [call EXCEPT ![c] = Awaiting("refresh", q, selected[q])]
    BY <1>2 DEF Continue
  <2> HIDE DEF q
  <2> DEFINE k == Awaiting("refresh", q, selected[q])
  <2>3. k \in Call /\ k.panel = q /\ k.row = selected[q] /\ k.state = "waiting"
    <3>1. q \in {0} \cup Panels /\ selected[q] \in Rows \cup {NULL}
      BY <2>1
    <3> QED
      BY <3>1, AwaitingCall
  <2> HIDE DEF k
  <2>4. TypeOK' /\ CallsOK'
    BY <2>1, <2>2, <2>3, ContentTypes, Rigid DEF k, IInv, TypeOK, CallsOK
  <2>5. LoadingEnds'
    BY <2>1, <2>2, <2>3, Rigid DEF k, IInv, TypeOK, LoadingEnds
  <2> QED
    BY <2>4, <2>5 DEF IInv
<1> QED
  BY <1>1, <1>2

\* What an answered call renders is never "Loading".
LEMMA RenderedContent ==
    ASSUME IInv, NEW c \in Calls, call[c].panel # 0
    PROVE  Rendered(call[c]) \in Content /\ Rendered(call[c]) # Loading
BY DEF IInv, TypeOK, CallsOK, Call, Rendered, Content, Failure, Detail, Loading

\* The page as it is loaded.
LEMMA InitIInv == Init => IInv
BY DataAssumption, IdleCall, ContentTypes, Rigid DEF Init, IInv, TypeOK, CallsOK, LoadingEnds

\* The invariant is inductive.
LEMMA NextIInv == IInv /\ [Next]_vars => IInv'
<1> SUFFICES ASSUME IInv, [Next]_vars PROVE IInv'
  OBVIOUS
<1>1. ASSUME Change PROVE IInv'
  BY <1>1, DataAssumption, Rigid DEF Change, IInv, TypeOK, CallsOK, LoadingEnds
<1>2. ASSUME Toggle PROVE IInv'
  BY <1>2, Rigid DEF Toggle, IInv, TypeOK, CallsOK, LoadingEnds
<1>3. ASSUME NEW c \in Calls, Respond(c) PROVE IInv'
  <2>1. PICK k : /\ call' = [call EXCEPT ![c] = k]
                 /\ k.panel = call[c].panel /\ k.row = call[c].row /\ k.state # "closed"
                 /\ k \in Call
    <3> DEFINE k == [call[c] EXCEPT !.state = IF api = "up" THEN "answered" ELSE "failed",
                                    !.version = IF api = "up" THEN data ELSE 0]
    <3>1. call[c] \in Call
      BY DEF IInv, TypeOK
    <3>2. k.panel = call[c].panel /\ k.row = call[c].row /\ k.state # "closed" /\ k \in Call
      <4>1. CASE api = "up"
        BY <3>1, <4>1 DEF Call, IInv, TypeOK
      <4>2. CASE api # "up"
        <5>1. k = [call[c] EXCEPT !.state = "failed", !.version = 0] /\ 0 \in 0 .. MaxData
          BY <4>2, DataAssumption
        <5> QED
          BY <3>1, <5>1 DEF Call
      <4> QED
        BY <4>1, <4>2
    <3>3. call' = [call EXCEPT ![c] = k]
      BY <1>3 DEF Respond, IInv, TypeOK
    <3> QED
      BY <3>2, <3>3
  <2>2. UNCHANGED <<data, api, selected, panel, cards, banner>>
    BY <1>3 DEF Respond
  <2> QED
    BY <2>1, <2>2, Rigid DEF IInv, TypeOK, CallsOK, LoadingEnds
<1>4. ASSUME NEW p \in Panels, NEW r \in Rows, NEW c \in Calls, Click(p, r, c) PROVE IInv'
  <2> DEFINE k == Awaiting("click", p, r)
  <2>1. k \in Call /\ k.panel = p /\ k.row = r /\ k.state = "waiting"
    BY <1>4, AwaitingCall
  <2> HIDE DEF k
  <2>2. TypeOK' /\ CallsOK'
    BY <1>4, <2>1, ContentTypes, Rigid DEF k, Click, IInv, TypeOK, CallsOK
  <2>3. LoadingEnds'
    BY <1>4, <2>1, Rigid DEF k, Click, IInv, TypeOK, LoadingEnds
  <2> QED
    BY <2>2, <2>3 DEF IInv
<1>5. ASSUME NEW c \in Calls, StartRefresh(c) PROVE IInv'
  BY <1>5, AwaitingCall, Rigid DEF StartRefresh, IInv, TypeOK, CallsOK, LoadingEnds
<1>6. ASSUME NEW c \in Calls, ReceiveCards(c) PROVE IInv'
  <2>1. call[c].version \in 0 .. MaxData /\ panel \in [Panels -> Content] /\ 0 \notin Panels
    BY PanelsAssumption DEF IInv, TypeOK, Call
  <2> QED
    BY <1>6, <2>1, ContinueIInv DEF ReceiveCards, IInv, TypeOK
<1>7. ASSUME NEW c \in Calls, RefreshFails(c) PROVE IInv'
  <2>1. 0 \notin Panels
    BY PanelsAssumption
  <2> QED
    BY <1>7, <2>1, IdleCall, Rigid DEF RefreshFails, IInv, TypeOK, CallsOK, LoadingEnds
<1>8. ASSUME NEW c \in Calls, ReceiveDetail(c) PROVE IInv'
  <2> DEFINE p == call[c].panel
             shown == [panel EXCEPT ![p] = Rendered(call[c])]
  <2>1. p \in Panels /\ call[c].state # "closed"
    BY <1>8 DEF ReceiveDetail, IInv, TypeOK, Call
  <2>2. shown \in [Panels -> Content]
    BY <1>8, <2>1, RenderedContent DEF ReceiveDetail, IInv, TypeOK
  <2>3. \A r \in Panels : shown[r] = Loading => panel[r] = Loading /\ r # p
    BY <1>8, <2>1, RenderedContent DEF ReceiveDetail, IInv, TypeOK
  <2>4. CASE Continue(c, p, shown)
    <3>1. UNCHANGED <<data, api, selected, cards, banner>>
      BY <1>8 DEF ReceiveDetail
    <3>2. data' \in 0 .. MaxData /\ api' \in {"up", "down"}
      BY <3>1 DEF IInv, TypeOK
    <3>3. cards' \in 0 .. MaxData /\ banner' \in {"none", "block"}
      BY <3>1 DEF IInv, TypeOK
    <3> HIDE DEF shown
    <3> QED
      BY <2>1, <2>2, <2>3, <2>4, <3>1, <3>2, <3>3, ContinueIInv
  <2>5. CASE panel' = shown /\ call' = [call EXCEPT ![c] = Idle]
    <3>1. TypeOK' /\ CallsOK'
      BY <1>8, <2>2, <2>5, IdleCall, Rigid DEF ReceiveDetail, IInv, TypeOK, CallsOK
    <3>2. LoadingEnds'
      BY <1>8, <2>1, <2>3, <2>5, IdleCall, Rigid DEF IInv, TypeOK, LoadingEnds
    <3> QED
      BY <3>1, <3>2 DEF IInv
  <2> QED
    BY <1>8, <2>4, <2>5 DEF ReceiveDetail
<1>9. CASE UNCHANGED vars
  BY <1>9, Rigid DEF vars, IInv, TypeOK, CallsOK, LoadingEnds
<1> QED
  BY <1>1, <1>2, <1>3, <1>4, <1>5, <1>6, <1>7, <1>8, <1>9 DEF Next, Receive

\* No panel is stuck at "Loading": not by overlapping refreshes, not by clicks,
\* not by an API that goes down between the parts of a refresh.
THEOREM NeverStuck == Spec => []LoadingEnds
<1>1. IInv => LoadingEnds
  BY DEF IInv
<1> QED
  BY InitIInv, NextIInv, <1>1, PTL DEF Spec

\* The page, its open calls and the API keep their types: a panel shows nothing
\* but the hint, the loading text, the failure or some row's detail.
THEOREM TypeCorrect == Spec => []TypeOK
<1>1. IInv => TypeOK
  BY DEF IInv
<1> QED
  BY InitIInv, NextIInv, <1>1, PTL DEF Spec
=============================================================================
