-------------------------- MODULE EpicsPageProofs ---------------------------
(***************************************************************************)
(* Proofs about EpicsPage for any projects, epics and stories and any      *)
(* number of calls.                                                        *)
(***************************************************************************)
EXTENDS EpicsPage, TLAPS

-----------------------------------------------------------------------------
(* The inductive invariant.                                                *)

CallOf(V) == [n : V, op : V, key : V, project : V, phase : V, net : V, arg : V, old : V, answer : V]

(* A handler that waits is a record; one that waits for a preview is about
   an epic.                                                                *)
EpicCallShape(c) ==
  /\ \E V : c \in CallOf(V)
  /\ c.op = "preview" => c.key \in Epics

(* previewFetchInFlightRef holds only fetches that are under way.          *)
Underway(e, p) == \E c \in Previewing(calls) : c.key = e /\ c.project = p
InFlightUnderway == \A e \in Epics : \A p \in Projects \cup {NoProject} : <<p, e>> \in inFlight => Underway(e, p)

(* The same of any set of fetches and of calls.                            *)
FlightCarried(flight, cs) ==
  \A e \in Epics : \A p \in Projects \cup {NoProject} :
    <<p, e>> \in flight => \E c \in Previewing(cs) : c.key = e /\ c.project = p

(* An unfolded epic without stories to show is being fetched.              *)
SpinnersUnderway ==
  \A e \in expanded \cap Rows(view) : previews[e].kind \in {"idle", "loading"} => Underway(e, selected)

PreviewsShape ==
  /\ DOMAIN previews = Epics /\ previews = [e \in Epics |-> previews[e]]
  /\ \A e \in Epics : \E k, t : previews[e] = [kind |-> k, stories |-> t]

PreviewRecords(loaded) == \A e \in Epics : \E k, t : loaded[e] = [kind |-> k, stories |-> t]
AllShaped(cs) == \A c \in cs : EpicCallShape(c)

EpicsInv ==
  /\ page = "epics"
  /\ selected \in Projects \cup {NoProject}
  /\ expanded \subseteq Epics
  /\ PreviewsShape
  /\ \A c \in calls : EpicCallShape(c)
  /\ InFlightUnderway
  /\ SpinnersUnderway

-----------------------------------------------------------------------------
(* Calls.                                                                  *)

LEMMA NewShape ==
  ASSUME NEW op, NEW k, NEW p, NEW ph, NEW a, op = "preview" => k \in Epics
  PROVE  \E d : /\ d = EpicCall(op, k, p, ph, a) /\ EpicCallShape(d)
                /\ d.op = op /\ d.key = k /\ d.project = p
<1>1. PICK d : d = EpicCall(op, k, p, ph, a)
  OBVIOUS
<1>2. PICK m, o, v : m = started /\ o = NoEpicArg /\ v = NoView
  OBVIOUS
<1>3. d = [n |-> m, op |-> op, key |-> k, project |-> p, phase |-> ph, net |-> "sent", arg |-> a, old |-> o, answer |-> v]
  BY <1>1, <1>2 DEF EpicCall, NewCall
<1>4. d \in CallOf({m, op, k, p, ph, "sent", a, o, v}) /\ d.op = op /\ d.key = k /\ d.project = p
  BY <1>3 DEF CallOf
<1> QED BY <1>1, <1>4 DEF EpicCallShape

LEMMA EpicAdvanceShape ==
  ASSUME NEW c, EpicCallShape(c), NEW phase
  PROVE  LET d == Advance(c, phase)
         IN  EpicCallShape(d) /\ d.op = c.op /\ d.key = c.key /\ d.project = c.project
<1>1. PICK V : c \in CallOf(V)
  BY DEF EpicCallShape
<1>2. PICK W : W = V \cup {phase, "sent"}
  OBVIOUS
<1> DEFINE d == Advance(c, phase)
<1>3. d \in CallOf(W) /\ d.op = c.op /\ d.key = c.key /\ d.project = c.project
  BY <1>1, <1>2 DEF CallOf, Advance
<1> HIDE DEF d
<1>4. EpicCallShape(d)
  BY <1>3 DEF EpicCallShape
<1> QED BY <1>3, <1>4 DEF d

(* Nothing but calls changes, and no fetch of a preview is lost.           *)
LEMMA OnlyCalls ==
  ASSUME EpicsInv, \A c \in calls' : EpicCallShape(c),
         \A c \in Previewing(calls) : \E d \in Previewing(calls') : d.key = c.key /\ d.project = c.project,
         UNCHANGED <<page, selected, view, expanded, previews, inFlight>>
  PROVE  EpicsInv'
<1>1. \A e, p : Underway(e, p) => Underway(e, p)'
  BY DEF Underway
<1>2. InFlightUnderway' /\ SpinnersUnderway'
  BY <1>1 DEF EpicsInv, InFlightUnderway, SpinnersUnderway
<1>3. PreviewsShape'
  BY DEF EpicsInv, PreviewsShape
<1> QED BY <1>2, <1>3 DEF EpicsInv

LEMMA EpicsReplaceInv ==
  ASSUME EpicsInv, NEW c \in calls, NEW d, Replace(c, d),
         EpicCallShape(d), d.op = c.op, d.key = c.key, d.project = c.project,
         UNCHANGED <<page, selected, view, expanded, previews, inFlight>>
  PROVE  EpicsInv'
<1>1. \A x \in calls' : EpicCallShape(x)
  BY DEF EpicsInv, Replace
<1>2. \A x \in Previewing(calls) : \E y \in Previewing(calls') : y.key = x.key /\ y.project = x.project
  BY DEF Previewing, Replace
<1> QED BY <1>1, <1>2, OnlyCalls

(* The preview effect fetches what is missing, of rows, unfolded epics,
   previews and fetches under way of any render: what is shown after it is
   what it was given, or nothing.                                          *)
LEMMA EpicsEnsureInv ==
  ASSUME NEW p \in Projects \cup {NoProject}, NEW v, NEW open \in SUBSET Epics, NEW loaded, NEW flight, NEW kept,
         EnsurePreviews(p, v, open, loaded, flight, kept),
         AllShaped(kept), PreviewRecords(loaded), FlightCarried(flight, kept),
         page' = "epics", selected' = p, expanded' \subseteq open,
         expanded' = {} \/ Rows(view') = Rows(v)
  PROVE  EpicsInv'
<1> DEFINE missing == {e \in open \cap Rows(v) : loaded[e].kind # "ready" /\ <<p, e>> \notin flight}
<1>1. missing \subseteq Epics
  OBVIOUS
<1>2. PICK new : /\ new = {EpicCall("preview", e, p, "fetch", NoEpicArg) : e \in missing}
                 /\ calls' = kept \cup new
  BY DEF EnsurePreviews
<1>3. \A e \in missing : \E d \in new : EpicCallShape(d) /\ d.op = "preview" /\ d.key = e /\ d.project = p
  <2> SUFFICES ASSUME NEW e \in missing
               PROVE  \E d \in new : EpicCallShape(d) /\ d.op = "preview" /\ d.key = e /\ d.project = p
    OBVIOUS
  <2>1. PICK a : a = NoEpicArg
    OBVIOUS
  <2>2. PICK d : d = EpicCall("preview", e, p, "fetch", a) /\ EpicCallShape(d) /\ d.op = "preview" /\ d.key = e /\ d.project = p
    BY <1>1, NewShape
  <2>3. d \in new
    BY <1>2, <2>1, <2>2
  <2> QED BY <2>2, <2>3
<1>4. \A d \in new : EpicCallShape(d)
  <2> SUFFICES ASSUME NEW d \in new PROVE EpicCallShape(d)
    OBVIOUS
  <2>1. PICK e \in missing : d = EpicCall("preview", e, p, "fetch", NoEpicArg)
    BY <1>2
  <2>2. PICK a : a = NoEpicArg
    OBVIOUS
  <2>3. d = EpicCall("preview", e, p, "fetch", a)
    BY <2>1, <2>2
  <2> QED BY <1>1, <2>3, NewShape
<1>5. previews' = [e \in Epics |-> IF e \in missing THEN Preview("loading", NoItems) ELSE loaded[e]]
        /\ inFlight' = flight \cup {<<p, e>> : e \in missing}
  BY DEF EnsurePreviews
<1>6. \A e \in missing : Underway(e, p)'
  BY <1>2, <1>3 DEF Underway, Previewing
<1>7. \A e \in Epics : \A q \in Projects \cup {NoProject} : <<q, e>> \in flight => Underway(e, q)'
  BY <1>2 DEF Underway, Previewing, FlightCarried
<1>8. InFlightUnderway'
  <2> SUFFICES ASSUME NEW e \in Epics, NEW q \in Projects \cup {NoProject}, <<q, e>> \in inFlight'
               PROVE  Underway(e, q)'
    BY DEF InFlightUnderway
  <2>1. CASE <<q, e>> \in flight
    BY <2>1, <1>7
  <2>2. CASE <<q, e>> \notin flight
    <3>1. PICK x \in missing : <<q, e>> = <<p, x>>
      BY <2>2, <1>5
    <3> HIDE DEF missing
    <3>2. q = p /\ e \in missing
      BY <3>1
    <3> QED BY <3>2, <1>6
  <2> QED BY <2>1, <2>2
<1>9. PreviewsShape'
  <2>1. DOMAIN previews' = Epics /\ previews' = [e \in Epics |-> previews'[e]]
    BY <1>5
  <2>2. ASSUME NEW e \in Epics PROVE \E k, t : previews'[e] = [kind |-> k, stories |-> t]
    <3> HIDE DEF missing
    <3>1. CASE e \in missing
      <4>1. PICK t : t = NoItems
        OBVIOUS
      <4>2. previews'[e] = [kind |-> "loading", stories |-> t]
        BY <3>1, <4>1, <1>5 DEF Preview
      <4> QED BY <4>2
    <3>2. CASE e \notin missing
      <4>1. previews'[e] = loaded[e]
        BY <3>2, <1>5
      <4> QED BY <4>1 DEF PreviewRecords
    <3> QED BY <3>1, <3>2
  <2> QED BY <2>1, <2>2 DEF PreviewsShape
<1>10. SpinnersUnderway'
  <2> SUFFICES ASSUME NEW e \in expanded' \cap Rows(view'), previews'[e].kind \in {"idle", "loading"}
               PROVE  Underway(e, p)'
    BY DEF SpinnersUnderway, Rows
  <2>0. e \in open \cap Rows(v)
    OBVIOUS
  <2>1. CASE e \in missing
    BY <2>1, <1>6
  <2>2. CASE e \notin missing
    <3>1. loaded[e].kind # "ready"
      BY <1>5, <2>0, <2>2
    <3>2. <<p, e>> \in flight
      BY <2>0, <2>2, <3>1
    <3> QED BY <1>7, <2>0, <3>2
  <2> QED BY <2>1, <2>2
<1>11. \A c \in calls' : EpicCallShape(c)
  BY <1>2, <1>4 DEF AllShaped
<1> HIDE DEF missing
<1> QED BY <1>8, <1>9, <1>10, <1>11 DEF EpicsInv

(* The effect after a step of the selected project.                        *)
LEMMA EpicsShowInv ==
  ASSUME EpicsInv, NEW v, NEW open \in SUBSET Epics, NEW kept \in SUBSET calls,
         Previewing(kept) = Previewing(calls), EnsurePreviews(selected, v, open, previews, inFlight, kept),
         view' = v, expanded' = open, UNCHANGED <<page, selected>>
  PROVE  EpicsInv'
<1>1. PICK p \in Projects \cup {NoProject} : p = selected
  BY DEF EpicsInv
<1>2. PICK loaded, flight : loaded = previews /\ flight = inFlight
  OBVIOUS
<1>3. EnsurePreviews(p, v, open, loaded, flight, kept)
  BY <1>1, <1>2
<1>4. AllShaped(kept) /\ PreviewRecords(loaded) /\ FlightCarried(flight, kept)
  BY <1>2 DEF EpicsInv, PreviewsShape, InFlightUnderway, Underway, AllShaped, PreviewRecords, FlightCarried
<1>5. page' = "epics" /\ selected' = p /\ expanded' \subseteq open /\ Rows(view') = Rows(v)
  BY <1>1 DEF EpicsInv, Rows
<1> QED BY <1>3, <1>4, <1>5, EpicsEnsureInv

-----------------------------------------------------------------------------
(* Every step preserves the invariant.                                     *)

LEMMA EpicsInitInv == EpicsInit => EpicsInv
<1> SUFFICES ASSUME EpicsInit PROVE EpicsInv
  OBVIOUS
<1> USE DEF EpicsInit, Mount
<1>1. PreviewsShape
  BY DEF PreviewsShape, Idle, Preview
<1> QED BY <1>1 DEF EpicsInv, InFlightUnderway, SpinnersUnderway

(* A request begins, and perhaps an earlier load is dropped.               *)
LEMMA EpicsStartInv ==
  ASSUME EpicsInv, NEW kept \in SUBSET calls, Previewing(kept) = Previewing(calls),
         NEW op, NEW k, NEW p, NEW ph, NEW a, op # "preview",
         calls' = kept \cup {EpicCall(op, k, p, ph, a)},
         UNCHANGED <<page, selected, view, expanded, previews, inFlight>>
  PROVE  EpicsInv'
<1>1. PICK d : d = EpicCall(op, k, p, ph, a) /\ EpicCallShape(d) /\ d.op = op
  BY NewShape
<1>2. \A x \in calls' : EpicCallShape(x)
  BY <1>1 DEF EpicsInv
<1>3. Previewing(calls) \subseteq Previewing(calls')
  BY DEF Previewing
<1> QED BY <1>2, <1>3, OnlyCalls

LEMMA EpicsUserInv ==
  ASSUME EpicsInv, EpicsUser, page' = page
  PROVE  EpicsInv'
<1>1. ASSUME NEW p \in Projects \cup {NoProject}, SelectEpicsProject(p) PROVE EpicsInv'
  <2>1. PICK v, kept, loaded, flight : /\ v = view /\ kept = Loading(p, filter)
                                       /\ loaded = [e \in Epics |-> Idle] /\ flight = {}
    OBVIOUS
  <2>2. PICK open \in SUBSET Epics : open = expanded
    BY DEF EpicsInv
  <2>3. EnsurePreviews(p, v, open, loaded, flight, kept) /\ selected' = p /\ expanded' = {}
    BY <1>1, <2>1, <2>2 DEF SelectEpicsProject
  <2>4. AllShaped(kept)
    <3>1. PICK a : a = EpicArg(filter, NoEpic, NoEpic)
      OBVIOUS
    <3>2. PICK d : d = EpicCall("load", NoKey, p, "fetch", a) /\ EpicCallShape(d)
      BY NewShape
    <3>3. \A c \in kept : c \in calls \/ c = d
      BY <2>1, <3>1, <3>2 DEF Loading
    <3> QED BY <3>2, <3>3 DEF EpicsInv, AllShaped
  <2>5. PreviewRecords(loaded)
    BY <2>1 DEF Idle, Preview, PreviewRecords
  <2>6. FlightCarried(flight, kept)
    BY <2>1 DEF FlightCarried
  <2>7. page' = "epics"
    BY DEF EpicsInv
  <2> QED BY <2>3, <2>4, <2>5, <2>6, <2>7, EpicsEnsureInv
<1>2. CASE SetEpicsFilter
  <2> USE <1>2 DEF SetEpicsFilter, Loading
  <2> DEFINE kept == {c \in calls : c.op # "load"}
  <2>1. Previewing(kept) = Previewing(calls)
    BY DEF Previewing
  <2>2. PICK a, p : a = EpicArg(filter', NoEpic, NoEpic) /\ p = selected
    OBVIOUS
  <2>3. selected # NoProject
    BY DEF EpicsViewKind
  <2>4. calls' = kept \cup {EpicCall("load", NoKey, p, "fetch", a)}
    BY <2>2, <2>3
  <2> QED BY <2>1, <2>4, EpicsStartInv
<1>3. CASE RefreshEpics
  <2>1. PICK a, p : a = NoEpicArg /\ p = selected
    OBVIOUS
  <2> QED BY <1>3, <2>1, EpicsStartInv DEF RefreshEpics
<1>4. CASE ConfirmDeleteEpic
  <2>1. PICK a, p, e : a = NoEpicArg /\ p = selected /\ e = deleting.epic
    OBVIOUS
  <2> QED BY <1>4, <2>1, EpicsStartInv DEF ConfirmDeleteEpic
<1>5. CASE CancelDeleteEpic
  BY <1>5, OnlyCalls DEF CancelDeleteEpic, pageVars, EpicsInv
<1>6. ASSUME NEW e \in Epics, HandleToggleExpand(e) PROVE EpicsInv'
  <2>1. PICK open \in SUBSET Epics : open = expanded'
    BY <1>6 DEF HandleToggleExpand, EpicsInv
  <2>2. PICK v : v = view
    OBVIOUS
  <2>3. PICK kept \in SUBSET calls : kept = calls
    OBVIOUS
  <2>4. EnsurePreviews(selected, v, open, previews, inFlight, kept) /\ view' = v /\ UNCHANGED selected
    BY <1>6, <2>1, <2>2, <2>3 DEF HandleToggleExpand
  <2> QED BY <2>1, <2>3, <2>4, EpicsShowInv
<1>7. ASSUME NEW e \in Epics, OpenDeleteEpic(e) PROVE EpicsInv'
  BY <1>7, OnlyCalls DEF OpenDeleteEpic, pageVars, EpicsInv
<1>8. ASSUME NEW e \in Epics, NEW s \in EpicStories, NEW to \in Epics, MoveToEpic(e, s, to) PROVE EpicsInv'
  <2>1. PICK a, p : a = EpicArg(filter, e, to) /\ p = selected
    OBVIOUS
  <2> QED BY <1>8, <2>1, EpicsStartInv DEF MoveToEpic
<1>9. ASSUME NEW e \in Epics, NEW s \in EpicStories, NEW status \in EpicStatuses,
             HandleChangeStoryStatus(e, s, status)
      PROVE  EpicsInv'
  <2>1. PICK a, p : a = EpicArg(filter, e, status) /\ p = selected
    OBVIOUS
  <2> QED BY <1>9, <2>1, EpicsStartInv DEF HandleChangeStoryStatus
<1> QED BY <1>1, <1>2, <1>3, <1>4, <1>5, <1>6, <1>7, <1>8, <1>9 DEF EpicsUser

LEMMA EpicsServerInv ==
  ASSUME EpicsInv, EpicsServer, page' = page
  PROVE  EpicsInv'
<1>1. PICK c \in calls : EpicsFetchAnswered(c) \/ EpicsWriteAnswered(c)
  BY DEF EpicsServer
<1>2. PICK net, v : Answered(c, net, v)
  BY <1>1 DEF EpicsFetchAnswered, EpicsWriteAnswered
<1>3. PICK d : d = [c EXCEPT !.net = net, !.answer = v]
  OBVIOUS
<1>4. EpicCallShape(d) /\ d.op = c.op /\ d.key = c.key /\ d.project = c.project
  <2>1. PICK V : c \in CallOf(V)
    BY DEF EpicsInv, EpicCallShape
  <2>2. PICK W : W = V \cup {net, v}
    OBVIOUS
  <2>3. d \in CallOf(W) /\ d.op = c.op /\ d.key = c.key /\ d.project = c.project
    BY ONLY <1>3, <2>1, <2>2 DEF CallOf
  <2>4. c.op = "preview" => c.key \in Epics
    BY DEF EpicsInv, EpicCallShape
  <2>5. (\E U : d \in CallOf(U)) /\ (d.op = "preview" => d.key \in Epics)
    BY ONLY <2>3, <2>4
  <2> QED BY ONLY <2>3, <2>5 DEF EpicCallShape
<1>5. Replace(c, d)
  BY <1>2, <1>3 DEF Answered
<1>6. UNCHANGED <<page, selected, view, expanded, previews, inFlight>>
  BY <1>1 DEF EpicsFetchAnswered, EpicsWriteAnswered
<1> QED BY <1>4, <1>5, <1>6, EpicsReplaceInv

(* A handler that ends without touching the previews.                      *)
LEMMA EpicsEndInv ==
  ASSUME EpicsInv, NEW c \in calls, c.op # "preview", calls' = calls \ {c},
         UNCHANGED <<page, selected, view, expanded, previews, inFlight>>
  PROVE  EpicsInv'
<1>1. \A x \in calls' : EpicCallShape(x)
  BY DEF EpicsInv
<1>2. \A x \in Previewing(calls) : x \in Previewing(calls')
  BY DEF Previewing
<1> QED BY <1>1, <1>2, OnlyCalls

LEMMA EpicsHandlerInv ==
  ASSUME EpicsInv, EpicsHandlers, page' = page
  PROVE  EpicsInv'
<1> SUFFICES ASSUME NEW c \in calls,
                    \/ OverviewLoaded(c) \/ OverviewRefreshed(c) \/ PreviewLoaded(c)
                    \/ EpicStatusDone(c) \/ EpicMoved(c) \/ EpicDeleted(c)
             PROVE  EpicsInv'
  BY DEF EpicsHandlers
<1>1. ASSUME c.op # "preview", ShowRows(c), UNCHANGED <<selected, expanded>> PROVE EpicsInv'
  <2>1. PICK kept \in SUBSET calls : kept = calls \ {c}
    OBVIOUS
  <2>0. Previewing(kept) = Previewing(calls)
    <3>1. c.op # "preview"
      BY <1>1
    <3> QED BY ONLY <3>1, <2>1 DEF Previewing
  <2>2. PICK v : v = c.answer
    OBVIOUS
  <2>3. PICK open \in SUBSET Epics : open = expanded
    BY DEF EpicsInv
  <2>4. EnsurePreviews(selected, v, open, previews, inFlight, kept) /\ view' = v
    BY <1>1, <2>1, <2>2, <2>3 DEF ShowRows
  <2>5. expanded' = open /\ UNCHANGED <<page, selected>>
    BY <1>1, <2>3
  <2> QED BY <2>0, <2>1, <2>3, <2>4, <2>5, EpicsShowInv
<1>2. CASE OverviewLoaded(c)
  <2>1. CASE c.net = "ok"
    BY <1>1, <1>2, <2>1 DEF OverviewLoaded
  <2>2. CASE c.net # "ok"
    <3>1. view' = View("error", c.project, NoItems) /\ calls' = calls \ {c}
            /\ UNCHANGED <<selected, expanded, previews, inFlight>> /\ c.op = "load"
      BY <1>2, <2>2 DEF OverviewLoaded
    <3>2. Rows(view') = {}
      BY <3>1 DEF Rows, View
    <3>3. \A e, p : Underway(e, p) => Underway(e, p)'
      BY <3>1 DEF Underway, Previewing
    <3>4. SpinnersUnderway'
      BY <3>2 DEF SpinnersUnderway, Rows
    <3>5. InFlightUnderway' /\ PreviewsShape'
      BY <3>1, <3>3 DEF EpicsInv, InFlightUnderway, PreviewsShape
    <3> QED BY <3>1, <3>4, <3>5 DEF EpicsInv
  <2> QED BY <2>1, <2>2
<1>3. CASE OverviewRefreshed(c)
  <2>1. CASE c.net = "ok"
    BY <1>1, <1>3, <2>1 DEF OverviewRefreshed
  <2>2. CASE c.net # "ok"
    BY <1>3, <2>2, EpicsEndInv DEF OverviewRefreshed
  <2> QED BY <2>1, <2>2
<1>4. CASE PreviewLoaded(c)
  <2> USE <1>4 DEF PreviewLoaded
  <2>0. c.key \in Epics
    BY DEF EpicsInv, EpicCallShape
  <2>1. \A e, p : Underway(e, p) /\ <<p, e>> # <<c.project, c.key>> => Underway(e, p)'
    BY DEF Underway, Previewing
  <2>2. InFlightUnderway'
    BY <2>1 DEF EpicsInv, InFlightUnderway
  <2>3. CASE c.project # selected
    <3>1. SpinnersUnderway' /\ PreviewsShape'
      BY <2>1, <2>3 DEF EpicsInv, SpinnersUnderway, PreviewsShape
    <3> QED BY <2>2, <3>1 DEF EpicsInv
  <2>4. CASE c.project = selected
    <3>1. PICK new : /\ previews' = [previews EXCEPT ![c.key] = new]
                     /\ \E t : new = [kind |-> "ready", stories |-> t] \/ new = [kind |-> "error", stories |-> t]
      BY <2>4 DEF Preview
    <3>2. new.kind \in {"ready", "error"} /\ \E k, t : new = [kind |-> k, stories |-> t]
      BY <3>1
    <3>3. previews'[c.key] = new /\ DOMAIN previews' = Epics /\ \A e \in Epics \ {c.key} : previews'[e] = previews[e]
      BY <2>0, <3>1 DEF EpicsInv, PreviewsShape
    <3>4. previews' = [e \in Epics |-> previews'[e]]
      BY <3>1 DEF EpicsInv, PreviewsShape
    <3>5. PreviewsShape'
      <4>1. \A e \in Epics : \E k, t : previews[e] = [kind |-> k, stories |-> t]
        BY DEF EpicsInv, PreviewsShape
      <4>2. \A e \in Epics : previews'[e] = new \/ previews'[e] = previews[e]
        BY <3>3
      <4>3. \A e \in Epics : \E k, t : previews'[e] = [kind |-> k, stories |-> t]
        BY ONLY <3>2, <4>1, <4>2, Zenon
      <4> QED BY <3>3, <3>4, <4>3 DEF PreviewsShape
    <3>6. SpinnersUnderway'
      BY <2>1, <3>2, <3>3 DEF EpicsInv, SpinnersUnderway
    <3> QED BY <2>2, <3>5, <3>6 DEF EpicsInv
  <2> QED BY <2>3, <2>4
<1>5. CASE EpicStatusDone(c)
  <2> USE <1>5 DEF EpicStatusDone
  <2>1. c.op = "status" /\ calls' = calls \ {c} /\ UNCHANGED <<selected, view, expanded, inFlight>>
    OBVIOUS
  <2>2. DOMAIN previews' = Epics /\ previews' = [e \in Epics |-> previews'[e]]
    BY DEF EpicsInv, PreviewsShape
  <2>3. \A e \in Epics : (\E k, t : previews'[e] = [kind |-> k, stories |-> t]) /\ previews'[e].kind = previews[e].kind
    <3> SUFFICES ASSUME NEW e \in Epics
                 PROVE  (\E k, t : previews'[e] = [kind |-> k, stories |-> t]) /\ previews'[e].kind = previews[e].kind
      OBVIOUS
    <3>1. PICK k, t : previews[e] = [kind |-> k, stories |-> t]
      BY DEF EpicsInv, PreviewsShape
    <3>2. PICK e0 : e0 = c.arg.epic
      OBVIOUS
    <3>3. previews'[e] = previews[e]
            \/ previews'[e] = [previews[e] EXCEPT !.stories = [previews[e].stories EXCEPT ![c.key] = c.arg.value]]
      BY <3>2 DEF EpicsInv, PreviewsShape
    <3>4. PICK u : u = [previews[e].stories EXCEPT ![c.key] = c.arg.value]
      OBVIOUS
    <3>5. [previews[e] EXCEPT !.stories = u] = [kind |-> k, stories |-> u]
      <4>1. PICK x : x = previews[e] /\ x \in [kind : {k}, stories : {t, u}]
        BY <3>1
      <4> QED BY <3>1, <4>1
    <3> QED BY <3>1, <3>3, <3>4, <3>5
  <2>4. \A e, p : Underway(e, p) => Underway(e, p)'
    BY <2>1 DEF Underway, Previewing
  <2>5. InFlightUnderway' /\ SpinnersUnderway' /\ PreviewsShape'
    BY <2>1, <2>2, <2>3, <2>4 DEF EpicsInv, InFlightUnderway, SpinnersUnderway, PreviewsShape
  <2> QED BY <2>1, <2>5 DEF EpicsInv
<1>6. ASSUME c.op # "preview", Await(c, "fetch") \/ calls' = calls \ {c},
             UNCHANGED <<selected, view, expanded, previews, inFlight>>
      PROVE  EpicsInv'
  <2>1. CASE calls' = calls \ {c}
    BY <1>6, <2>1, EpicsEndInv
  <2>2. CASE Await(c, "fetch")
    <3>1. PICK d : d = Advance(c, "fetch")
      OBVIOUS
    <3>2. EpicCallShape(d) /\ d.op = c.op /\ d.key = c.key /\ d.project = c.project
      BY <3>1, EpicAdvanceShape DEF EpicsInv
    <3>3. Replace(c, d)
      BY <2>2, <3>1 DEF Await
    <3> QED BY <1>6, <3>2, <3>3, EpicsReplaceInv
  <2> QED BY <1>6, <2>1, <2>2
<1>7. CASE EpicMoved(c)
  BY <1>6, <1>7 DEF EpicMoved
<1>8. CASE EpicDeleted(c)
  BY <1>6, <1>8 DEF EpicDeleted
<1> QED BY <1>2, <1>3, <1>4, <1>5, <1>7, <1>8

LEMMA EpicsNextInv == EpicsInv /\ [EpicsNext]_epicsVars => EpicsInv'
<1> SUFFICES ASSUME EpicsInv, [EpicsNext]_epicsVars PROVE EpicsInv'
  OBVIOUS
<1>1. CASE EpicsNext
  BY <1>1, EpicsUserInv, EpicsServerInv, EpicsHandlerInv DEF EpicsNext, Mounted
<1>2. CASE UNCHANGED epicsVars
  BY <1>2, OnlyCalls DEF epicsVars, pageVars, EpicsInv
<1> QED BY <1>1, <1>2

-----------------------------------------------------------------------------
(* What the overview promises.                                             *)

(* The inductive invariant of the previews, for any epics, filters and
   number of calls (ensurePreviewLoaded and the effects around it).        *)
THEOREM EpicsInvariance == EpicsSpec => []EpicsInv
<1>1. EpicsInit => EpicsInv
  BY EpicsInitInv
<1>2. EpicsInv /\ [EpicsNext]_epicsVars => EpicsInv'
  BY EpicsNextInv
<1> QED BY <1>1, <1>2, PTL DEF EpicsSpec

(* An unfolded epic never shows its spinner without a fetch under way for the
   selected project, however often the user leaves the project and returns
   (previewFetchInFlightRef of epics-overview/page.tsx).                   *)
THEOREM SpinnersEnd == EpicsSpec => []PreviewSpinnerEnds
<1>1. EpicsInv => PreviewSpinnerEnds
  BY DEF EpicsInv, SpinnersUnderway, Underway, PreviewSpinnerEnds
<1> QED BY <1>1, EpicsInvariance, PTL

-----------------------------------------------------------------------------
(* The previews and the server.                                            *)

EpicServerShape ==
  srv \in [parent : [EpicStories -> Epics \cup {NoEpic}], status : [EpicStories -> EpicStatuses], epics : SUBSET Epics]

StoriesKnown ==
  /\ \A e \in Epics : DOMAIN previews[e].stories \subseteq EpicStories
  /\ \A c \in calls : c.op = "preview" /\ c.net = "ok" => DOMAIN c.answer.items \subseteq EpicStories

\* What the operations send, one request after another; a story that is moved is told.
EpicSendsItsPhases(c) ==
  /\ c.op \in {"load", "refresh", "preview"} => c.phase = "fetch"
  /\ c.op = "status" => c.phase = "status" /\ c.key \in EpicStories /\ c.arg.epic \in Epics /\ c.arg.value \in EpicStatuses
  /\ c.op = "move" => c.phase \in {"move", "fetch"} /\ c.key \in hazy /\ c.key \in EpicStories /\ c.arg.value \in Epics
  /\ c.op = "deleteEpic" => c.phase \in {"delete", "fetch"}
  /\ c.op \in {"load", "refresh", "preview", "status", "move", "deleteEpic"}

StatusOf(c, s) == c.op = "status" /\ c.key = s
Brings(c, s) == c.op = "preview" /\ c.net = "ok" /\ s \in DOMAIN c.answer.items

\* The epics whose preview has the story, or is about to have it or to be patched.
Holds(e, s) ==
  \/ s \in DOMAIN previews[e].stories
  \/ \E c \in calls : Brings(c, s) /\ c.key = e
  \/ \E c \in calls : StatusOf(c, s) /\ c.arg.epic = e

\* No change of the story has been made that the page was not yet told of.
Settled(s) == \A c \in calls : StatusOf(c, s) => c.net # "ok"

\* A story nobody moved is in the preview of one epic at most, though its epic may have
\* been deleted, and has one change under way at most.  The previews in hand and the one
\* that is shown have what the server has, until the server makes the change and the page
\* hears of it.
PreviewAgrees(s) ==
  /\ \A e \in Epics : Holds(e, s) => srv.parent[s] \in {e, NoEpic} /\ \A d \in Epics : Holds(d, s) => d = e
  /\ \A c, d \in calls : StatusOf(c, s) /\ StatusOf(d, s) => d = c
  /\ \A c \in calls : StatusOf(c, s) /\ c.net = "ok" => srv.status[s] = c.arg.value
  /\ \A c \in calls : Brings(c, s) /\ Settled(s) => c.answer.items[s] = srv.status[s]
  /\ \A e \in Epics : s \in DOMAIN previews[e].stories /\ Settled(s) => previews[e].stories[s] = srv.status[s]

PreviewsAgree ==
  /\ EpicServerShape /\ StoriesKnown
  /\ \A c \in calls : EpicSendsItsPhases(c)
  /\ \A s \in EpicStories \ hazy : PreviewAgrees(s)

LEMMA EpicAnswerFields ==
  ASSUME NEW c, EpicCallShape(c), NEW net, NEW v
  PROVE  LET d == [c EXCEPT !.net = net, !.answer = v]
         IN  /\ d.op = c.op /\ d.key = c.key /\ d.project = c.project /\ d.phase = c.phase /\ d.arg = c.arg
             /\ d.net = net /\ d.answer = v
<1>1. PICK V : c \in CallOf(V)
  BY DEF EpicCallShape
<1> QED BY ONLY <1>1 DEF CallOf

LEMMA EpicAdvanceFields ==
  ASSUME NEW c, EpicCallShape(c), NEW phase
  PROVE  LET d == Advance(c, phase)
         IN  /\ d.op = c.op /\ d.key = c.key /\ d.project = c.project /\ d.phase = phase /\ d.arg = c.arg
             /\ d.net = "sent"
<1>1. PICK V : c \in CallOf(V)
  BY DEF EpicCallShape
<1> QED BY ONLY <1>1 DEF CallOf, Advance

\* A call as it begins.
LEMMA NewFields ==
  ASSUME NEW op, NEW k, NEW p, NEW ph, NEW a, NEW d, d = EpicCall(op, k, p, ph, a)
  PROVE  d.op = op /\ d.key = k /\ d.project = p /\ d.phase = ph /\ d.arg = a /\ d.net = "sent"
<1>1. PICK m, o, v : m = started /\ o = NoEpicArg /\ v = NoView
  OBVIOUS
<1>2. d = [n |-> m, op |-> op, key |-> k, project |-> p, phase |-> ph, net |-> "sent", arg |-> a, old |-> o, answer |-> v]
  BY <1>1 DEF EpicCall, NewCall
<1> QED BY ONLY <1>2

\* The server, the changes of stories and the previews in hand stay; previews may be
\* dropped, and fetched.
LEMMA QuietAgrees ==
  ASSUME PreviewsAgree, UNCHANGED srv, hazy \subseteq hazy',
         \A c \in calls' : EpicSendsItsPhases(c)',
         \A e \in Epics : previews'[e] = previews[e] \/ DOMAIN previews'[e].stories = {},
         \A c \in calls' : c.op = "status" => c \in calls,
         \A c \in calls : c.op = "status" => c \in calls',
         \A c \in calls' : c.op = "preview" /\ c.net = "ok" => c \in calls
  PROVE  PreviewsAgree'
<1>1. EpicServerShape'
  BY DEF PreviewsAgree, EpicServerShape
<1>2. ASSUME NEW s \in EpicStories \ hazy' PROVE PreviewAgrees(s)'
  <2>1. PreviewAgrees(s)
    BY DEF PreviewsAgree
  <2>2. \A c \in calls' : StatusOf(c, s) \/ Brings(c, s) => c \in calls
    BY DEF StatusOf, Brings
  <2>3. \A e \in Epics : Holds(e, s)' => Holds(e, s)
    BY <2>2 DEF Holds
  <2>4. \A c, d \in calls' : StatusOf(c, s) /\ StatusOf(d, s) => d = c
    BY <2>1, <2>2 DEF PreviewAgrees
  <2>5. \A e \in Epics : s \in DOMAIN previews'[e].stories => previews'[e] = previews[e]
    OBVIOUS
  <2>6. Settled(s)' => Settled(s)
    BY DEF Settled, StatusOf
  <2>7. \A e \in Epics : s \in DOMAIN previews'[e].stories /\ Settled(s)' => previews'[e].stories[s] = srv'.status[s]
    BY <2>1, <2>5, <2>6 DEF PreviewAgrees
  <2>8. \A e \in Epics : Holds(e, s)' => srv'.parent[s] \in {e, NoEpic} /\ \A d \in Epics : Holds(d, s)' => d = e
    BY <2>1, <2>3 DEF PreviewAgrees
  <2>9. /\ \A c \in calls' : Brings(c, s) /\ Settled(s)' => c.answer.items[s] = srv'.status[s]
        /\ \A c \in calls' : StatusOf(c, s) /\ c.net = "ok" => srv'.status[s] = c.arg.value
    BY <2>1, <2>2, <2>6 DEF PreviewAgrees
  <2> QED BY <2>4, <2>7, <2>8, <2>9 DEF PreviewAgrees, StatusOf, Brings
<1>3. StoriesKnown'
  BY DEF PreviewsAgree, StoriesKnown
<1> QED BY <1>1, <1>2, <1>3 DEF PreviewsAgree

LEMMA SendsStays ==
  ASSUME NEW c, EpicSendsItsPhases(c), hazy \subseteq hazy'
  PROVE  EpicSendsItsPhases(c)'
BY DEF EpicSendsItsPhases

\* A request begins that is no change of a story's status, and perhaps a load is dropped.
LEMMA StartAgrees ==
  ASSUME PreviewsAgree, NEW kept \in SUBSET calls, \A c \in calls \ kept : c.op = "load",
         NEW op \in {"load", "refresh", "move", "deleteEpic"}, NEW k, NEW p, NEW ph, NEW a,
         calls' = kept \cup {EpicCall(op, k, p, ph, a)},
         op \in {"load", "refresh"} => ph = "fetch",
         op = "move" => ph = "move" /\ k \in hazy' /\ k \in EpicStories /\ a.value \in Epics,
         op = "deleteEpic" => ph = "delete", hazy \subseteq hazy', UNCHANGED srv,
         \A e \in Epics : previews'[e] = previews[e] \/ DOMAIN previews'[e].stories = {}
  PROVE  PreviewsAgree'
<1>1. PICK d : d = EpicCall(op, k, p, ph, a)
  OBVIOUS
<1>2. d.op = op /\ d.key = k /\ d.phase = ph /\ d.arg = a
  BY ONLY <1>1, NewFields
<1>3. calls' = kept \cup {d}
  BY <1>1
<1>4. EpicSendsItsPhases(d)'
  BY <1>2 DEF EpicSendsItsPhases
<1>5. \A c \in calls' : EpicSendsItsPhases(c)'
  BY <1>3, <1>4, SendsStays DEF PreviewsAgree
<1> QED BY <1>2, <1>3, <1>5, QuietAgrees

\* The preview effect, of any render: what it fetches is not in hand yet.
LEMMA EnsureAgrees ==
  ASSUME PreviewsAgree, NEW p, NEW v, NEW open, NEW loaded, NEW flight, NEW kept,
         EnsurePreviews(p, v, open, loaded, flight, kept), UNCHANGED <<srv, hazy>>,
         \A c \in kept : EpicSendsItsPhases(c),
         \A c \in kept : c.op = "status" \/ (c.op = "preview" /\ c.net = "ok") => c \in calls,
         \A c \in calls : c.op = "status" => c \in kept,
         \A e \in Epics : loaded[e] = previews[e] \/ DOMAIN loaded[e].stories = {}
  PROVE  PreviewsAgree'
<1> DEFINE missing == {e \in open \cap Rows(v) : loaded[e].kind # "ready" /\ <<p, e>> \notin flight}
<1>1. PICK new : /\ new = {EpicCall("preview", e, p, "fetch", NoEpicArg) : e \in missing}
                 /\ calls' = kept \cup new
  BY DEF EnsurePreviews
<1>2. \A d \in new : d.op = "preview" /\ d.phase = "fetch" /\ d.net = "sent"
  <2> SUFFICES ASSUME NEW d \in new PROVE d.op = "preview" /\ d.phase = "fetch" /\ d.net = "sent"
    OBVIOUS
  <2>1. PICK e \in missing : d = EpicCall("preview", e, p, "fetch", NoEpicArg)
    BY <1>1
  <2>2. PICK a : a = NoEpicArg
    OBVIOUS
  <2>3. d = EpicCall("preview", e, p, "fetch", a)
    BY <2>1, <2>2
  <2> QED BY ONLY <2>3, NewFields
<1>3. previews' = [e \in Epics |-> IF e \in missing THEN Preview("loading", NoItems) ELSE loaded[e]]
  BY DEF EnsurePreviews
<1>4. \A c \in calls' : EpicSendsItsPhases(c)'
  <2>1. \A d \in new : EpicSendsItsPhases(d)'
    BY <1>2 DEF EpicSendsItsPhases
  <2> QED BY <1>1, <2>1, SendsStays
<1>5. \A e \in Epics : previews'[e] = previews[e] \/ DOMAIN previews'[e].stories = {}
  BY <1>3 DEF Preview, NoItems
<1>6. /\ \A c \in calls' : c.op = "status" => c \in calls
      /\ \A c \in calls : c.op = "status" => c \in calls'
      /\ \A c \in calls' : c.op = "preview" /\ c.net = "ok" => c \in calls
  BY <1>1, <1>2
<1> HIDE DEF missing
<1> QED BY <1>4, <1>5, <1>6, QuietAgrees

\* The effect after a step of the selected project.
LEMMA ShowAgrees ==
  ASSUME PreviewsAgree, NEW v, NEW open, NEW kept \in SUBSET calls,
         \A c \in calls \ kept : c.op \notin {"status", "preview"},
         EnsurePreviews(selected, v, open, previews, inFlight, kept), UNCHANGED <<srv, hazy>>
  PROVE  PreviewsAgree'
<1>1. PICK p, loaded, flight : p = selected /\ loaded = previews /\ flight = inFlight
  OBVIOUS
<1>2. EnsurePreviews(p, v, open, loaded, flight, kept)
  BY <1>1
<1>3. /\ \A c \in kept : EpicSendsItsPhases(c)
      /\ \A e \in Epics : loaded[e] = previews[e]
  BY <1>1 DEF PreviewsAgree
<1> QED BY <1>2, <1>3, EnsureAgrees

\* Something is fetched, or changed, or ends, that is no preview and no change of a status.
LEMMA OtherCallAgrees ==
  ASSUME EpicsInv, PreviewsAgree, NEW c \in calls, c.op \notin {"status", "preview"},
         UNCHANGED <<srv, previews, hazy>>,
         \/ calls' = calls \ {c}
         \/ Await(c, "fetch") /\ c.op \in {"move", "deleteEpic"}
         \/ \E net, v : Answered(c, net, v)
  PROVE  PreviewsAgree'
<1>1. CASE calls' = calls \ {c}
  <2>1. \A x \in calls' : EpicSendsItsPhases(x)'
    BY <1>1, SendsStays DEF PreviewsAgree
  <2> QED BY <1>1, <2>1, QuietAgrees
<1>2. ASSUME NEW d, d.op = c.op, EpicSendsItsPhases(d)', calls' = (calls \ {c}) \cup {d} PROVE PreviewsAgree'
  <2>1. \A x \in calls' : EpicSendsItsPhases(x)'
    BY <1>2, SendsStays DEF PreviewsAgree
  <2> QED BY <1>2, <2>1, QuietAgrees
<1>3. EpicSendsItsPhases(c) /\ EpicCallShape(c)
  BY DEF PreviewsAgree, EpicsInv
<1>4. CASE Await(c, "fetch") /\ c.op \in {"move", "deleteEpic"}
  <2>1. PICK d : d = Advance(c, "fetch")
    OBVIOUS
  <2>2. d.op = c.op /\ d.key = c.key /\ d.phase = "fetch" /\ d.arg = c.arg
    BY ONLY <1>3, <2>1, EpicAdvanceFields
  <2>3. EpicSendsItsPhases(d)'
    BY <1>3, <1>4, <2>2 DEF EpicSendsItsPhases
  <2> QED BY <1>2, <1>4, <2>1, <2>2, <2>3 DEF Await, Replace
<1>5. ASSUME NEW net, NEW v, Answered(c, net, v) PROVE PreviewsAgree'
  <2>1. PICK d : d = [c EXCEPT !.net = net, !.answer = v]
    OBVIOUS
  <2>2. d.op = c.op /\ d.key = c.key /\ d.phase = c.phase /\ d.arg = c.arg
    BY ONLY <1>3, <2>1, EpicAnswerFields
  <2>3. EpicSendsItsPhases(d)'
    BY <1>3, <2>2 DEF EpicSendsItsPhases
  <2> QED BY <1>2, <1>5, <2>1, <2>2, <2>3 DEF Answered, Replace
<1> QED BY <1>1, <1>4, <1>5

\* A change of a status begins; one that meets no fetch of a preview and no other change
\* of the story is alone.
LEMMA StatusBeginsAgrees ==
  ASSUME EpicsInv, PreviewsAgree, NEW e \in Epics, NEW s \in EpicStories, NEW status \in EpicStatuses,
         HandleChangeStoryStatus(e, s, status)
  PROVE  PreviewsAgree'
<1>1. PICK d : d = EpicCall("status", s, selected, "status", EpicArg(filter, e, status))
  OBVIOUS
<1>2. d.op = "status" /\ d.key = s /\ d.phase = "status" /\ d.arg = EpicArg(filter, e, status) /\ d.net = "sent"
  <2>1. PICK a, p : a = EpicArg(filter, e, status) /\ p = selected
    OBVIOUS
  <2>2. d = EpicCall("status", s, p, "status", a)
    BY <1>1, <2>1
  <2>3. d.op = "status" /\ d.key = s /\ d.phase = "status" /\ d.arg = a /\ d.net = "sent"
    BY ONLY <2>2, NewFields
  <2> QED BY <2>1, <2>3
<1>3. d.arg.epic = e /\ d.arg.value = status
  BY <1>2 DEF EpicArg
<1>4. calls' = calls \cup {d} /\ UNCHANGED <<srv, previews>> /\ hazy \subseteq hazy' /\ s \in DOMAIN previews[e].stories
      /\ (CallsOf(s) # {} => s \in hazy')
  BY <1>1 DEF HandleChangeStoryStatus, Previewed
<1>5. \A c \in calls' : EpicSendsItsPhases(c)'
  <2>1. EpicSendsItsPhases(d)'
    BY <1>2, <1>3 DEF EpicSendsItsPhases
  <2> QED BY <1>4, <2>1, SendsStays DEF PreviewsAgree
<1>6. ASSUME NEW t \in EpicStories \ hazy' PROVE PreviewAgrees(t)'
  <2>1. PreviewAgrees(t)
    BY <1>4 DEF PreviewsAgree
  <2>2. StatusOf(d, t) => t = s /\ \A c \in calls : ~StatusOf(c, t)
    BY <1>2, <1>4 DEF StatusOf, CallsOf
  <2>3. \A x : Holds(x, t)' => Holds(x, t)
    BY <1>2, <1>3, <1>4, <2>2 DEF Holds, Brings, StatusOf
  <2>4. (\A x, y \in calls' : StatusOf(x, t) /\ StatusOf(y, t) => y = x) /\ (Settled(t)' => Settled(t))
    BY <1>4, <2>1, <2>2 DEF PreviewAgrees, Settled, StatusOf
  <2>5. \A x \in Epics : Holds(x, t)' => srv'.parent[t] \in {x, NoEpic} /\ \A y \in Epics : Holds(y, t)' => y = x
    BY <1>4, <2>1, <2>3 DEF PreviewAgrees
  <2>6. /\ \A c \in calls' : Brings(c, t) /\ Settled(t)' => c.answer.items[t] = srv'.status[t]
        /\ \A c \in calls' : StatusOf(c, t) /\ c.net = "ok" => srv'.status[t] = c.arg.value
    BY <1>2, <1>4, <2>1, <2>4 DEF PreviewAgrees, Brings
  <2>7. \A x \in Epics : t \in DOMAIN previews'[x].stories /\ Settled(t)' => previews'[x].stories[t] = srv'.status[t]
    BY <1>4, <2>1, <2>4 DEF PreviewAgrees
  <2> QED BY <2>4, <2>5, <2>6, <2>7 DEF PreviewAgrees, StatusOf, Brings
<1>7. EpicServerShape'
  BY <1>4 DEF PreviewsAgree, EpicServerShape
<1>8. StoriesKnown'
  BY <1>2, <1>4 DEF PreviewsAgree, StoriesKnown
<1> QED BY <1>5, <1>6, <1>7, <1>8 DEF PreviewsAgree

LEMMA EpicUserAgrees ==
  ASSUME EpicsInv, PreviewsAgree, EpicsUser
  PROVE  PreviewsAgree'
<1> DEFINE kept == {c \in calls : c.op # "load"}
<1>1. ASSUME NEW p \in Projects \cup {NoProject}, SelectEpicsProject(p) PROVE PreviewsAgree'
  <2>1. PICK v, open, loaded, flight, left : /\ v = view /\ open = expanded /\ loaded = [e \in Epics |-> Idle]
                                             /\ flight = {} /\ left = Loading(p, filter)
    OBVIOUS
  <2>2. EnsurePreviews(p, v, open, loaded, flight, left) /\ UNCHANGED <<srv, hazy>>
    BY <1>1, <2>1 DEF SelectEpicsProject
  <2>3. PICK a : a = EpicArg(filter, NoEpic, NoEpic)
    OBVIOUS
  <2>4. PICK d : d = EpicCall("load", NoKey, p, "fetch", a)
    OBVIOUS
  <2>5. d.op = "load" /\ d.phase = "fetch"
    BY ONLY <2>4, NewFields
  <2>6. kept \subseteq left /\ left \subseteq kept \cup {d}
    BY <2>1, <2>3, <2>4 DEF Loading
  <2>7. /\ \A c \in left : EpicSendsItsPhases(c)
        /\ \A c \in left : c.op = "status" \/ (c.op = "preview" /\ c.net = "ok") => c \in calls
        /\ \A c \in calls : c.op = "status" => c \in left
    BY <2>5, <2>6 DEF PreviewsAgree, EpicSendsItsPhases
  <2>8. \A e \in Epics : DOMAIN loaded[e].stories = {}
    BY <2>1 DEF Idle, Preview, NoItems
  <2> QED BY <2>2, <2>7, <2>8, EnsureAgrees
<1>2. CASE SetEpicsFilter
  <2>1. PICK a, p : a = EpicArg(filter', NoEpic, NoEpic) /\ p = selected
    OBVIOUS
  <2>2. calls' = kept \cup {EpicCall("load", NoKey, p, "fetch", a)}
    BY <1>2, <2>1 DEF SetEpicsFilter, Loading, EpicsViewKind
  <2>3. UNCHANGED <<srv, previews, hazy>>
    BY <1>2 DEF SetEpicsFilter
  <2>4. PICK left \in SUBSET calls : left = kept
    OBVIOUS
  <2>5. \A c \in calls \ left : c.op = "load"
    BY <2>4
  <2> HIDE DEF kept
  <2> QED BY <2>2, <2>3, <2>4, <2>5, StartAgrees
<1>3. CASE RefreshEpics
  <2>1. PICK a, p : a = NoEpicArg /\ p = selected
    OBVIOUS
  <2> QED BY <1>3, <2>1, StartAgrees DEF RefreshEpics
<1>4. CASE ConfirmDeleteEpic
  <2>1. PICK a, p, e : a = NoEpicArg /\ p = selected /\ e = deleting.epic
    OBVIOUS
  <2> QED BY <1>4, <2>1, StartAgrees DEF ConfirmDeleteEpic
<1>5. CASE UNCHANGED <<srv, previews, hazy, calls>>
  <2>1. \A c \in calls' : EpicSendsItsPhases(c)'
    BY <1>5, SendsStays DEF PreviewsAgree
  <2> QED BY <1>5, <2>1, QuietAgrees
<1>6. ASSUME NEW e \in Epics, HandleToggleExpand(e) PROVE PreviewsAgree'
  <2>1. PICK v, open : v = view /\ open = expanded'
    OBVIOUS
  <2>2. PICK left \in SUBSET calls : left = calls
    OBVIOUS
  <2>3. EnsurePreviews(selected, v, open, previews, inFlight, left) /\ UNCHANGED <<srv, hazy>>
    BY <1>6, <2>1, <2>2 DEF HandleToggleExpand
  <2> QED BY <2>2, <2>3, ShowAgrees
<1>7. ASSUME NEW e \in Epics, NEW s \in EpicStories, NEW to \in Epics, MoveToEpic(e, s, to) PROVE PreviewsAgree'
  <2>1. PICK a, p : a = EpicArg(filter, e, to) /\ p = selected
    OBVIOUS
  <2>2. a.value = to
    BY <2>1 DEF EpicArg
  <2>3. /\ calls' = calls \cup {EpicCall("move", s, p, "move", a)} /\ hazy' = hazy \cup {s}
        /\ UNCHANGED <<srv, previews>>
    BY <1>7, <2>1 DEF MoveToEpic
  <2> QED BY <2>2, <2>3, StartAgrees
<1>8. ASSUME CancelDeleteEpic \/ \E e \in Epics : OpenDeleteEpic(e) PROVE PreviewsAgree'
  BY <1>5, <1>8 DEF CancelDeleteEpic, OpenDeleteEpic, pageVars
<1> QED BY <1>1, <1>2, <1>3, <1>4, <1>6, <1>7, <1>8, StatusBeginsAgrees DEF EpicsUser

\* A preview is taken at the server.
LEMMA EpicFetchAnswerAgrees ==
  ASSUME EpicsInv, PreviewsAgree, NEW c \in calls, EpicsFetchAnswered(c)
  PROVE  PreviewsAgree'
<1>0. EpicSendsItsPhases(c) /\ EpicCallShape(c)
  BY DEF PreviewsAgree, EpicsInv
<1>1. Fetching(c) /\ UNCHANGED <<srv, previews, hazy>>
  BY DEF EpicsFetchAnswered
<1>2. c.op # "status"
  BY <1>0, <1>1 DEF EpicSendsItsPhases, Fetching
<1>3. PICK net, v : Answered(c, net, v) /\ (net = "ok" /\ c.op = "preview" => v = FetchStoriesPreview(c.project, c.key))
  <2>1. PICK v : v = IF c.op = "preview" THEN FetchStoriesPreview(c.project, c.key) ELSE FetchOverview(c.project, c.arg.filter)
    OBVIOUS
  <2>2. PICK w : w = NoView
    OBVIOUS
  <2>3. CASE Answered(c, "ok", v)
    BY <2>1, <2>3
  <2>4. CASE Answered(c, "failed", w)
    BY <2>4
  <2> QED BY <2>1, <2>2, <2>3, <2>4 DEF EpicsFetchAnswered
<1>4. CASE c.op # "preview"
  BY <1>1, <1>2, <1>3, <1>4, OtherCallAgrees
<1>5. CASE c.op = "preview"
  <2>1. PICK d : d = [c EXCEPT !.net = net, !.answer = v]
    OBVIOUS
  <2>2. d.op = "preview" /\ d.key = c.key /\ d.phase = c.phase /\ d.arg = c.arg /\ d.net = net /\ d.answer = v
    BY ONLY <1>0, <1>5, <2>1, EpicAnswerFields
  <2>3. calls' = (calls \ {c}) \cup {d} /\ c.key \in Epics
    BY <1>0, <1>3, <1>5, <2>1 DEF Answered, Replace, EpicCallShape
  <2>4. \A x \in calls' : EpicSendsItsPhases(x)'
    <3>1. EpicSendsItsPhases(d)'
      BY <1>0, <1>5, <2>2 DEF EpicSendsItsPhases
    <3> QED BY <1>1, <2>3, <3>1, SendsStays DEF PreviewsAgree
  <2>5. ASSUME NEW s \in EpicStories \ hazy' PROVE PreviewAgrees(s)'
    <3>1. PreviewAgrees(s)
      BY <1>1 DEF PreviewsAgree
    <3>2. Brings(d, s) => srv.parent[s] = c.key /\ v.items[s] = srv.status[s]
      BY <1>3, <1>5, <2>2 DEF Brings, FetchStoriesPreview, View
    <3>3. \A e : Holds(e, s)' => Holds(e, s) \/ (Brings(d, s) /\ e = c.key)
      BY <1>1, <2>2, <2>3 DEF Holds, StatusOf, Brings
    <3>4. \A e \in Epics : Holds(e, s)' => srv'.parent[s] \in {e, NoEpic}
      BY <1>1, <3>1, <3>2, <3>3 DEF PreviewAgrees
    <3>5. ASSUME NEW e \in Epics, NEW f \in Epics, Holds(e, s)', Holds(f, s)' PROVE f = e
      <4>1. CASE Brings(d, s)
        BY <1>1, <2>3, <3>2, <3>4, <3>5, <4>1, EpicsAssumption
      <4>2. CASE ~Brings(d, s)
        BY <3>1, <3>3, <3>5, <4>2 DEF PreviewAgrees
      <4> QED BY <4>1, <4>2
    <3>6. (\A x, y \in calls' : StatusOf(x, s) /\ StatusOf(y, s) => y = x) /\ (Settled(s)' => Settled(s))
      BY <1>2, <2>2, <2>3, <3>1 DEF PreviewAgrees, Settled, StatusOf
    <3>7. /\ \A x \in calls' : Brings(x, s) /\ Settled(s)' => x.answer.items[s] = srv'.status[s]
          /\ \A x \in calls' : StatusOf(x, s) /\ x.net = "ok" => srv'.status[s] = x.arg.value
      BY <1>1, <2>2, <2>3, <3>1, <3>2, <3>6 DEF PreviewAgrees, StatusOf
    <3>8. \A e \in Epics : s \in DOMAIN previews'[e].stories /\ Settled(s)' => previews'[e].stories[s] = srv'.status[s]
      BY <1>1, <3>1, <3>6 DEF PreviewAgrees
    <3> QED BY <3>4, <3>5, <3>6, <3>7, <3>8 DEF PreviewAgrees, StatusOf, Brings
  <2>6. EpicServerShape'
    BY <1>1 DEF PreviewsAgree, EpicServerShape
  <2>7. StoriesKnown'
    <3>1. net = "ok" => DOMAIN d.answer.items \subseteq EpicStories
      BY <1>3, <1>5, <2>2 DEF FetchStoriesPreview, View
    <3> QED BY <1>1, <2>2, <2>3, <3>1 DEF PreviewsAgree, StoriesKnown
  <2> QED BY <2>4, <2>5, <2>6, <2>7 DEF PreviewsAgree
<1> QED BY <1>4, <1>5

\* What a write changes on the server.
LEMMA EpicWriteIs ==
  ASSUME EpicServerShape, NEW c, EpicSendsItsPhases(c), Writing(c), srv' = EpicWrite(c)
  PROVE  /\ EpicServerShape'
         /\ \A s \in EpicStories : c.op # "status" \/ s # c.key => srv'.status[s] = srv.status[s]
         /\ c.op = "status" => srv'.status[c.key] = c.arg.value
         /\ \A s \in EpicStories : c.op # "move" \/ s # c.key => srv'.parent[s] \in {srv.parent[s], NoEpic}
<1>1. /\ srv = [parent |-> srv.parent, status |-> srv.status, epics |-> srv.epics]
      /\ srv.parent \in [EpicStories -> Epics \cup {NoEpic}] /\ srv.status \in [EpicStories -> EpicStatuses]
      /\ srv.epics \in SUBSET Epics
  BY DEF EpicServerShape
<1>2. CASE c.op = "status"
  <2>1. c.phase = "status" /\ c.key \in EpicStories /\ c.arg.value \in EpicStatuses
    BY <1>2 DEF EpicSendsItsPhases
  <2>2. PICK f : f = [srv.status EXCEPT ![c.key] = c.arg.value]
    OBVIOUS
  <2>3. srv' = [srv EXCEPT !.status = f]
    BY <2>1, <2>2 DEF EpicWrite
  <2>4. srv' = [parent |-> srv.parent, status |-> f, epics |-> srv.epics]
    BY <1>1, <2>3
  <2>5. f \in [EpicStories -> EpicStatuses] /\ f[c.key] = c.arg.value
        /\ \A s \in EpicStories : s # c.key => f[s] = srv.status[s]
    BY <1>1, <2>1, <2>2
  <2> QED BY <1>1, <1>2, <2>4, <2>5 DEF EpicServerShape
<1>3. CASE c.op = "move"
  <2>1. c.phase = "move" /\ c.key \in EpicStories /\ c.arg.value \in Epics
    BY <1>3 DEF EpicSendsItsPhases, Writing
  <2>2. PICK f : f = [srv.parent EXCEPT ![c.key] = c.arg.value]
    OBVIOUS
  <2>3. srv' = [srv EXCEPT !.parent = f]
    BY <2>1, <2>2 DEF EpicWrite
  <2>4. srv' = [parent |-> f, status |-> srv.status, epics |-> srv.epics]
    BY <1>1, <2>3
  <2>5. f \in [EpicStories -> Epics \cup {NoEpic}] /\ \A s \in EpicStories : s # c.key => f[s] = srv.parent[s]
    BY <1>1, <2>1, <2>2
  <2> QED BY <1>1, <1>3, <2>4, <2>5 DEF EpicServerShape
<1>4. CASE c.op = "deleteEpic"
  <2>1. c.phase = "delete"
    BY <1>4 DEF EpicSendsItsPhases, Writing
  <2>2. PICK f, es : f = [s \in EpicStories |-> IF srv.parent[s] = c.key THEN NoEpic ELSE srv.parent[s]]
                     /\ es = srv.epics \ {c.key}
    OBVIOUS
  <2>3. srv' = [srv EXCEPT !.epics = es, !.parent = f]
    BY <2>1, <2>2 DEF EpicWrite
  <2>4. srv' = [[srv EXCEPT !.epics = es] EXCEPT !.parent = f]
    BY <1>1, <2>3
  <2>5. [srv EXCEPT !.epics = es] = [parent |-> srv.parent, status |-> srv.status, epics |-> es]
    BY <1>1
  <2>6. srv' = [parent |-> f, status |-> srv.status, epics |-> es]
    BY <2>4, <2>5
  <2>7. f \in [EpicStories -> Epics \cup {NoEpic}] /\ es \in SUBSET Epics
        /\ \A s \in EpicStories : f[s] \in {srv.parent[s], NoEpic}
    BY <1>1, <2>2
  <2> QED BY <1>1, <1>4, <2>6, <2>7 DEF EpicServerShape
<1> QED BY <1>2, <1>3, <1>4 DEF EpicSendsItsPhases, Writing

LEMMA EpicWriteAnswerAgrees ==
  ASSUME EpicsInv, PreviewsAgree, NEW c \in calls, EpicsWriteAnswered(c)
  PROVE  PreviewsAgree'
<1>1. EpicSendsItsPhases(c) /\ EpicCallShape(c) /\ EpicServerShape
  BY DEF PreviewsAgree, EpicsInv
<1>2. Writing(c) /\ c.net = "sent" /\ UNCHANGED previews /\ hazy \subseteq hazy'
  BY DEF EpicsWriteAnswered
<1>3. PICK net \in {"ok", "failed"} : Answered(c, net, NoView)
        /\ \/ srv' = EpicWrite(c) /\ (net = "failed" => {c.key} \cap EpicStories \subseteq hazy')
           \/ net = "failed" /\ UNCHANGED srv
  BY DEF EpicsWriteAnswered
<1>4. PICK d : d = [c EXCEPT !.net = net, !.answer = NoView]
  OBVIOUS
<1>5. d.op = c.op /\ d.key = c.key /\ d.phase = c.phase /\ d.arg = c.arg /\ d.net = net
  <2>1. PICK v : v = NoView
    OBVIOUS
  <2>2. d = [c EXCEPT !.net = net, !.answer = v]
    BY <1>4, <2>1
  <2> QED BY ONLY <1>1, <2>2, EpicAnswerFields
<1>6. calls' = (calls \ {c}) \cup {d} /\ c.op # "preview"
  BY <1>1, <1>2, <1>3, <1>4 DEF Answered, Replace, EpicSendsItsPhases, Writing
<1>7. \A x \in calls' : EpicSendsItsPhases(x)'
  <2>1. EpicSendsItsPhases(d)'
    BY <1>1, <1>2, <1>5 DEF EpicSendsItsPhases
  <2> QED BY <1>2, <1>6, <2>1, SendsStays DEF PreviewsAgree
<1>8. /\ EpicServerShape'
      /\ \A s \in EpicStories : c.op # "status" \/ s # c.key => srv'.status[s] = srv.status[s]
      /\ c.op = "status" /\ net = "ok" => srv'.status[c.key] = c.arg.value
      /\ \A s \in EpicStories : c.op # "move" \/ s # c.key => srv'.parent[s] \in {srv.parent[s], NoEpic}
      /\ c.op = "status" /\ net = "failed" /\ c.key \notin hazy' => UNCHANGED srv
  <2>1. CASE UNCHANGED srv /\ net = "failed"
    BY <1>1, <2>1 DEF EpicServerShape
  <2>2. CASE srv' = EpicWrite(c) /\ (net = "failed" => {c.key} \cap EpicStories \subseteq hazy')
    BY <1>1, <1>2, <2>2, EpicWriteIs DEF EpicSendsItsPhases
  <2> QED BY <1>3, <2>1, <2>2
<1>9. ASSUME NEW s \in EpicStories \ hazy' PROVE PreviewAgrees(s)'
  <2>1. PreviewAgrees(s)
    BY <1>2 DEF PreviewsAgree
  <2>2. c.op # "move" \/ s # c.key
    BY <1>1, <1>2 DEF EpicSendsItsPhases
  <2>3. \A e : Holds(e, s)' => Holds(e, s)
    BY <1>2, <1>5, <1>6 DEF Holds, StatusOf, Brings
  <2>4. \A e \in Epics : Holds(e, s)' => srv'.parent[s] \in {e, NoEpic} /\ \A f \in Epics : Holds(f, s)' => f = e
    BY <1>8, <2>1, <2>2, <2>3 DEF PreviewAgrees
  <2>5. \A x, y \in calls' : StatusOf(x, s) /\ StatusOf(y, s) => y = x
    BY <1>5, <1>6, <2>1 DEF PreviewAgrees, StatusOf
  <2>6. CASE c.op = "status" /\ s = c.key
    <3>1. StatusOf(c, s) /\ StatusOf(d, s) /\ \A x \in calls' : StatusOf(x, s) => x = d
      BY <1>5, <1>6, <2>5, <2>6 DEF StatusOf
    <3>2. Settled(s) /\ \A x \in calls' : Brings(x, s) => x \in calls
      BY <1>2, <1>5, <1>6, <2>1, <3>1 DEF PreviewAgrees, Brings, Settled
    <3>3. Settled(s)' => UNCHANGED srv
      BY <1>3, <1>5, <1>6, <1>8, <2>6, <3>1 DEF Settled
    <3>4. net = "ok" => srv'.status[s] = d.arg.value
      BY <1>5, <1>8, <2>6
    <3>5. \A x \in calls' : Brings(x, s) /\ Settled(s)' => x.answer.items[s] = srv'.status[s]
      BY <2>1, <3>2, <3>3 DEF PreviewAgrees
    <3>6. \A e \in Epics : s \in DOMAIN previews'[e].stories /\ Settled(s)' => previews'[e].stories[s] = srv'.status[s]
      BY <1>2, <2>1, <3>2, <3>3 DEF PreviewAgrees
    <3> QED BY <1>5, <2>4, <2>5, <3>1, <3>4, <3>5, <3>6 DEF PreviewAgrees, StatusOf, Brings
  <2>7. CASE ~(c.op = "status" /\ s = c.key)
    <3>1. srv'.status[s] = srv.status[s] /\ ~StatusOf(c, s) /\ ~StatusOf(d, s) /\ ~Brings(d, s)
      BY <1>5, <1>6, <1>8, <2>7 DEF StatusOf, Brings
    <3>2. Settled(s)' => Settled(s)
      BY <1>6, <3>1 DEF Settled
    <3>3. /\ \A x \in calls' : Brings(x, s) /\ Settled(s)' => x.answer.items[s] = srv'.status[s]
          /\ \A x \in calls' : StatusOf(x, s) /\ x.net = "ok" => srv'.status[s] = x.arg.value
      BY <1>6, <2>1, <3>1, <3>2 DEF PreviewAgrees
    <3>4. \A e \in Epics : s \in DOMAIN previews'[e].stories /\ Settled(s)' => previews'[e].stories[s] = srv'.status[s]
      BY <1>2, <2>1, <3>1, <3>2 DEF PreviewAgrees
    <3> QED BY <2>4, <2>5, <3>3, <3>4 DEF PreviewAgrees, StatusOf, Brings
  <2> QED BY <2>6, <2>7
<1>10. StoriesKnown'
  BY <1>2, <1>5, <1>6 DEF PreviewsAgree, StoriesKnown
<1> QED BY <1>7, <1>8, <1>9, <1>10 DEF PreviewsAgree

LEMMA PreviewLoadedAgrees ==
  ASSUME EpicsInv, PreviewsAgree, NEW c \in calls, PreviewLoaded(c)
  PROVE  PreviewsAgree'
<1>1. c.op = "preview" /\ calls' = calls \ {c} /\ UNCHANGED <<srv, hazy>> /\ c.key \in Epics
  BY DEF PreviewLoaded, EpicsInv, EpicCallShape
<1>2. \A x \in calls' : EpicSendsItsPhases(x)'
  BY <1>1, SendsStays DEF PreviewsAgree
<1>3. \A e \in Epics : \/ previews'[e] = previews[e]
                       \/ DOMAIN previews'[e].stories = {}
                       \/ e = c.key /\ c.net = "ok" /\ previews'[e].stories = c.answer.items
  <2>1. CASE c.project # selected
    BY <2>1 DEF PreviewLoaded
  <2>2. CASE c.project = selected
    <3>1. PICK new : new = IF c.net = "ok" THEN Preview("ready", c.answer.items) ELSE Preview("error", NoItems)
      OBVIOUS
    <3>2. previews' = [previews EXCEPT ![c.key] = new]
      BY <2>2, <3>1 DEF PreviewLoaded
    <3>3. \A e \in Epics : previews'[e] = IF e = c.key THEN new ELSE previews[e]
      BY <3>2 DEF EpicsInv, PreviewsShape
    <3>4. (c.net = "ok" /\ new.stories = c.answer.items) \/ DOMAIN new.stories = {}
      BY <3>1 DEF Preview, NoItems
    <3> QED BY <3>3, <3>4
  <2> QED BY <2>1, <2>2
<1>4. ASSUME NEW s \in EpicStories \ hazy' PROVE PreviewAgrees(s)'
  <2>1. PreviewAgrees(s)
    BY <1>1 DEF PreviewsAgree
  <2>2. \A e \in Epics : s \in DOMAIN previews'[e].stories =>
          \/ previews'[e] = previews[e]
          \/ e = c.key /\ Brings(c, s) /\ previews'[e].stories[s] = c.answer.items[s]
    BY <1>1, <1>3 DEF Brings
  <2>3. \A e \in Epics : Holds(e, s)' => Holds(e, s)
    BY <1>1, <2>2 DEF Holds
  <2>4. \A e \in Epics : Holds(e, s)' => srv'.parent[s] \in {e, NoEpic} /\ \A f \in Epics : Holds(f, s)' => f = e
    BY <1>1, <2>1, <2>3 DEF PreviewAgrees
  <2>5. Settled(s)' => Settled(s)
    BY <1>1 DEF Settled, StatusOf
  <2>6. \A e \in Epics : s \in DOMAIN previews'[e].stories /\ Settled(s)' => previews'[e].stories[s] = srv'.status[s]
    BY <1>1, <2>1, <2>2, <2>5 DEF PreviewAgrees
  <2>7. \A x \in calls' : Brings(x, s) /\ Settled(s)' => x.answer.items[s] = srv'.status[s]
    BY <1>1, <2>1, <2>5 DEF PreviewAgrees
  <2>8. /\ \A x, y \in calls' : StatusOf(x, s) /\ StatusOf(y, s) => y = x
        /\ \A x \in calls' : StatusOf(x, s) /\ x.net = "ok" => srv'.status[s] = x.arg.value
    BY <1>1, <2>1 DEF PreviewAgrees
  <2> QED BY <2>4, <2>6, <2>7, <2>8 DEF PreviewAgrees, StatusOf, Brings
<1>5. EpicServerShape'
  BY <1>1 DEF PreviewsAgree, EpicServerShape
<1>6. StoriesKnown'
  <2>1. c.net = "ok" => DOMAIN c.answer.items \subseteq EpicStories
    BY <1>1 DEF PreviewsAgree, StoriesKnown
  <2>2. \A e \in Epics : DOMAIN previews'[e].stories \subseteq EpicStories
    BY <1>3, <2>1 DEF PreviewsAgree, StoriesKnown
  <2> QED BY <1>1, <2>2 DEF PreviewsAgree, StoriesKnown
<1> QED BY <1>2, <1>4, <1>5, <1>6 DEF PreviewsAgree

LEMMA StatusDoneAgrees ==
  ASSUME EpicsInv, PreviewsAgree, NEW c \in calls, EpicStatusDone(c)
  PROVE  PreviewsAgree'
<1>1. c.op = "status" /\ calls' = calls \ {c} /\ UNCHANGED srv /\ hazy' = hazy \cup Outdated(c)
  BY DEF EpicStatusDone
<1>2. \A x \in calls' : EpicSendsItsPhases(x)'
  BY <1>1, SendsStays DEF PreviewsAgree
<1>3. PICK at, value : at = c.arg.epic /\ value = c.arg.value
  OBVIOUS
<1>4. ASSUME NEW e \in Epics
      PROVE  \/ previews'[e] = previews[e] /\ (c.net # "ok" \/ e # at \/ c.key \notin DOMAIN previews[e].stories)
             \/ /\ e = at /\ c.net = "ok" /\ previews'[e].stories = [previews[e].stories EXCEPT ![c.key] = value]
                /\ c.key \in DOMAIN previews[e].stories
  <2>1. CASE c.net = "ok" /\ c.key \in DOMAIN previews[at].stories
    <3>1. PICK f : f = [previews[e].stories EXCEPT ![c.key] = value]
      OBVIOUS
    <3>2. previews' = [previews EXCEPT ![at].stories[c.key] = value]
      BY <1>3, <2>1 DEF EpicStatusDone
    <3>3. CASE e # at
      BY <3>2, <3>3 DEF EpicsInv, PreviewsShape
    <3>4. CASE e = at
      <4>1. previews'[e] = [previews[e] EXCEPT !.stories = f]
        BY <3>1, <3>2, <3>4 DEF EpicsInv, PreviewsShape
      <4>2. PICK k, t : previews[e] = [kind |-> k, stories |-> t]
        BY DEF EpicsInv, PreviewsShape
      <4>3. previews'[e].stories = f
        BY <4>1, <4>2
      <4> QED BY <2>1, <3>1, <3>4, <4>3
    <3> QED BY <3>3, <3>4
  <2>2. CASE ~(c.net = "ok" /\ c.key \in DOMAIN previews[at].stories)
    BY <1>3, <2>2 DEF EpicStatusDone
  <2> QED BY <2>1, <2>2
<1>5. ASSUME NEW s \in EpicStories \ hazy' PROVE PreviewAgrees(s)'
  <2>1. PreviewAgrees(s)
    BY <1>1 DEF PreviewsAgree
  <2>2. \A e \in Epics : DOMAIN previews'[e].stories = DOMAIN previews[e].stories
    BY <1>4
  <2>3. \A e \in Epics : Holds(e, s)' => Holds(e, s)
    BY <1>1, <2>2 DEF Holds
  <2>4. \A e \in Epics : Holds(e, s)' => srv'.parent[s] \in {e, NoEpic} /\ \A f \in Epics : Holds(f, s)' => f = e
    BY <1>1, <2>1, <2>3 DEF PreviewAgrees
  <2>5. /\ \A x, y \in calls' : StatusOf(x, s) /\ StatusOf(y, s) => y = x
        /\ \A x \in calls' : StatusOf(x, s) /\ x.net = "ok" => srv'.status[s] = x.arg.value
    BY <1>1, <2>1 DEF PreviewAgrees
  <2>6. ASSUME NEW e \in Epics, s \in DOMAIN previews'[e].stories, Settled(s)'
        PROVE  previews'[e].stories[s] = srv'.status[s]
    <3>1. s \in DOMAIN previews[e].stories
      BY <2>2, <2>6
    <3>2. CASE s = c.key
      <4>1. StatusOf(c, s) /\ (at \in Epics => Holds(at, s)) /\ Holds(e, s)
        BY <1>1, <1>3, <3>1, <3>2 DEF StatusOf, Holds
      <4>2. \A x \in calls : StatusOf(x, s) => x = c
        BY <2>1, <4>1 DEF PreviewAgrees
      <4>3. CASE c.net # "ok"
        <5>1. previews[e].stories[s] = srv.status[s]
          BY <2>1, <3>1, <4>2, <4>3 DEF PreviewAgrees, Settled
        <5> QED BY <1>1, <1>4, <4>3, <5>1
      <4>4. CASE c.net = "ok"
        <5>1. e = at
          <6>1. at \in Epics
            BY <1>1, <1>3 DEF PreviewsAgree, EpicSendsItsPhases
          <6> QED BY <2>1, <2>6, <4>1, <6>1 DEF PreviewAgrees
        <5>2. previews'[e].stories[s] = value
          BY <1>4, <3>1, <3>2, <4>4, <5>1
        <5>3. srv.status[s] = value
          BY <1>3, <2>1, <4>1, <4>4 DEF PreviewAgrees
        <5> QED BY <1>1, <5>2, <5>3
      <4> QED BY <4>3, <4>4
    <3>3. CASE s # c.key
      <4>1. Settled(s)
        BY <1>1, <2>6, <3>3 DEF Settled, StatusOf
      <4>2. previews[e].stories[s] = srv.status[s]
        BY <2>1, <3>1, <4>1 DEF PreviewAgrees
      <4>3. previews'[e].stories[s] = previews[e].stories[s]
        BY <1>4, <3>1, <3>3
      <4> QED BY <1>1, <4>2, <4>3
    <3> QED BY <3>2, <3>3
  <2>7. ASSUME NEW x \in calls', Brings(x, s), Settled(s)' PROVE x.answer.items[s] = srv'.status[s]
    <3>1. CASE s = c.key /\ c.net = "ok"
      <4>1. srv.status[s] = c.arg.value
        BY <1>1, <2>1, <3>1 DEF PreviewAgrees, StatusOf
      <4>2. x \in calls /\ x \notin OlderPreviews(c)
        BY <1>1, <1>5, <2>7, <3>1 DEF Outdated
      <4>3. x.answer.items[s] = c.arg.value
        BY <2>7, <3>1, <4>2 DEF OlderPreviews, Previewing, Brings
      <4> QED BY <1>1, <4>1, <4>3
    <3>2. CASE ~(s = c.key /\ c.net = "ok")
      <4>1. Settled(s)
        BY <1>1, <2>7, <3>2 DEF Settled, StatusOf
      <4> QED BY <1>1, <2>1, <2>7, <4>1 DEF PreviewAgrees
    <3> QED BY <3>1, <3>2
  <2> QED BY <2>4, <2>5, <2>6, <2>7 DEF PreviewAgrees, StatusOf, Brings
<1>6. EpicServerShape'
  BY <1>1 DEF PreviewsAgree, EpicServerShape
<1>7. StoriesKnown'
  <2>1. \A e \in Epics : DOMAIN previews'[e].stories = DOMAIN previews[e].stories
    BY <1>4
  <2> QED BY <1>1, <2>1 DEF PreviewsAgree, StoriesKnown
<1> QED BY <1>2, <1>5, <1>6, <1>7 DEF PreviewsAgree

LEMMA EpicHandlerAgrees ==
  ASSUME EpicsInv, PreviewsAgree, EpicsHandlers
  PROVE  PreviewsAgree'
<1> SUFFICES ASSUME NEW c \in calls,
                    \/ OverviewLoaded(c) \/ OverviewRefreshed(c) \/ PreviewLoaded(c)
                    \/ EpicStatusDone(c) \/ EpicMoved(c) \/ EpicDeleted(c)
             PROVE  PreviewsAgree'
  BY DEF EpicsHandlers
<1>1. ASSUME c.op \notin {"status", "preview"}, ShowRows(c), UNCHANGED <<srv, hazy>> PROVE PreviewsAgree'
  <2>1. PICK v, open : v = c.answer /\ open = expanded
    OBVIOUS
  <2>2. PICK kept \in SUBSET calls : kept = calls \ {c}
    OBVIOUS
  <2>3. EnsurePreviews(selected, v, open, previews, inFlight, kept)
    BY <1>1, <2>1, <2>2 DEF ShowRows
  <2> QED BY <1>1, <2>2, <2>3, ShowAgrees
<1>2. CASE OverviewLoaded(c)
  BY <1>1, <1>2, OtherCallAgrees DEF OverviewLoaded
<1>3. CASE OverviewRefreshed(c)
  BY <1>1, <1>3, OtherCallAgrees DEF OverviewRefreshed
<1>4. CASE EpicMoved(c)
  BY <1>4, OtherCallAgrees DEF EpicMoved
<1>5. CASE EpicDeleted(c)
  BY <1>5, OtherCallAgrees DEF EpicDeleted
<1> QED BY <1>2, <1>3, <1>4, <1>5, PreviewLoadedAgrees, StatusDoneAgrees

LEMMA EpicStepAgrees == EpicsInv /\ PreviewsAgree /\ [EpicsNext]_epicsVars => PreviewsAgree'
<1>1. ASSUME PreviewsAgree, UNCHANGED epicsVars PROVE PreviewsAgree'
  <2>1. UNCHANGED <<calls, srv, previews, hazy>>
    BY <1>1 DEF epicsVars, pageVars
  <2>2. \A c \in calls' : EpicSendsItsPhases(c)'
    BY <1>1, <2>1, SendsStays DEF PreviewsAgree
  <2> QED BY <1>1, <2>1, <2>2, QuietAgrees
<1>2. ASSUME EpicsInv, PreviewsAgree, EpicsServer PROVE PreviewsAgree'
  BY <1>2, EpicFetchAnswerAgrees, EpicWriteAnswerAgrees DEF EpicsServer
<1> QED BY <1>1, <1>2, EpicUserAgrees, EpicHandlerAgrees DEF EpicsNext

LEMMA AgreesStart == EpicsInit => PreviewsAgree
<1> SUFFICES ASSUME EpicsInit PROVE PreviewsAgree
  OBVIOUS
<1>1. calls = {} /\ \A e \in Epics : DOMAIN previews[e].stories = {}
  BY DEF EpicsInit, Idle, Preview, NoItems
<1>2. EpicServerShape
  BY EpicsAssumption DEF EpicsInit, EpicServerShape
<1> QED BY <1>1, <1>2 DEF PreviewsAgree, PreviewAgrees, Holds, StoriesKnown

LEMMA PreviewsAlways == EpicsSpec => []PreviewsAgree
BY AgreesStart, EpicStepAgrees, EpicsInvariance, PTL DEF EpicsSpec

(* Once every answer is in, a preview, which is fetched once and then patched
   in place (updateCachedStory of epics-overview/page.tsx), shows its
   stories' statuses as the server has them, in whatever order fetches and
   changes were answered, but for stories that moved, were changed twice at
   once, whose change was lost, or that an answer taken before a change was
   shown for after it.                                                     *)
THEOREM PreviewsAreCurrent == EpicsSpec => []PreviewAgreesWhenQuiet
<1>1. PreviewsAgree => PreviewAgreesWhenQuiet
  <2> SUFFICES ASSUME PreviewsAgree, calls = {}, NEW e \in Epics, NEW s \in DOMAIN previews[e].stories \ hazy
               PROVE  previews[e].stories[s] = srv.status[s]
    BY DEF PreviewAgreesWhenQuiet
  <2>1. s \in EpicStories
    BY DEF PreviewsAgree, StoriesKnown
  <2> QED BY <2>1 DEF PreviewsAgree, PreviewAgrees, Settled
<1> QED BY <1>1, PreviewsAlways, PTL

-----------------------------------------------------------------------------
(* The types of the overview.                                              *)

RowsTypes(v) == v.kind \in {"no-project", "loading", "ok", "error"} /\ Rows(v) \subseteq Epics

(* What a refetch brings.                                                  *)
BringsRows(c) == c.op # "preview" /\ Fetching(c) /\ c.net = "ok" => RowsTypes(c.answer)

PreviewKinds == \A e \in Epics : previews[e].kind \in {"idle", "loading", "ready", "error"}
FlightTypes == inFlight \subseteq (Projects \cup {NoProject}) \X Epics
DialogTypes == deleting \in [epic : Epics \cup {NoEpic}, submitting : BOOLEAN] /\ moving \in BOOLEAN
StoryTypes == pending \subseteq EpicStories /\ hazy \subseteq EpicStories

EpicTypes ==
  /\ RowsTypes(view) /\ \A c \in calls : BringsRows(c)
  /\ PreviewKinds /\ FlightTypes /\ DialogTypes /\ StoryTypes

LEMMA EpicTypesStart == EpicsInit => EpicTypes
<1> SUFFICES ASSUME EpicsInit PROVE EpicTypes
  OBVIOUS
<1>1. RowsTypes(view)
  BY DEF EpicsInit, Mount, NoView, View, Rows, RowsTypes
<1>2. PreviewKinds
  BY DEF EpicsInit, Idle, Preview, PreviewKinds
<1>3. DialogTypes
  BY DEF EpicsInit, Closed, DialogTypes
<1> QED BY <1>1, <1>2, <1>3 DEF EpicsInit, Mount, EpicTypes, FlightTypes, StoryTypes

(* The preview effect, of any render.                                      *)
LEMMA EnsureTypes ==
  ASSUME NEW p \in Projects \cup {NoProject}, NEW v, NEW open \in SUBSET Epics, NEW loaded, NEW flight, NEW kept,
         EnsurePreviews(p, v, open, loaded, flight, kept), flight \subseteq (Projects \cup {NoProject}) \X Epics,
         \A e \in Epics : loaded[e].kind \in {"idle", "loading", "ready", "error"},
         \A c \in kept : BringsRows(c)
  PROVE  PreviewKinds' /\ FlightTypes' /\ \A c \in calls' : BringsRows(c)
<1> DEFINE missing == {e \in open \cap Rows(v) : loaded[e].kind # "ready" /\ <<p, e>> \notin flight}
<1>1. missing \subseteq Epics
  OBVIOUS
<1>2. /\ calls' = kept \cup {EpicCall("preview", e, p, "fetch", NoEpicArg) : e \in missing}
      /\ previews' = [e \in Epics |-> IF e \in missing THEN Preview("loading", NoItems) ELSE loaded[e]]
      /\ inFlight' = flight \cup {<<p, e>> : e \in missing}
  BY DEF EnsurePreviews
<1> HIDE DEF missing
<1>3. PreviewKinds'
  <2>1. Preview("loading", NoItems).kind = "loading"
    BY DEF Preview
  <2> QED BY <1>2, <2>1 DEF PreviewKinds
<1>4. FlightTypes'
  BY <1>1, <1>2 DEF FlightTypes
<1>7. ASSUME NEW c \in calls' PROVE BringsRows(c)
  <2>1. CASE c \in kept
    BY <2>1
  <2>2. ASSUME NEW e \in missing, c = EpicCall("preview", e, p, "fetch", NoEpicArg) PROVE BringsRows(c)
    <3>1. PICK a : a = NoEpicArg
      OBVIOUS
    <3>2. c.op = "preview"
      BY <2>2, <3>1, NewFields
    <3> QED BY <3>2 DEF BringsRows
  <2> QED BY <1>2, <1>7, <2>1, <2>2
<1> QED BY <1>3, <1>4, <1>7

(* The effect after a step of the selected project.                        *)
LEMMA ShowTypes ==
  ASSUME EpicsInv, EpicTypes, NEW v, NEW open \in SUBSET Epics, NEW kept \in SUBSET calls,
         EnsurePreviews(selected, v, open, previews, inFlight, kept)
  PROVE  PreviewKinds' /\ FlightTypes' /\ \A c \in calls' : BringsRows(c)
<1>1. PICK p \in Projects \cup {NoProject} : p = selected
  BY DEF EpicsInv
<1>2. PICK loaded, flight : loaded = previews /\ flight = inFlight
  OBVIOUS
<1>3. EnsurePreviews(p, v, open, loaded, flight, kept)
  BY <1>1, <1>2
<1>4. /\ flight \subseteq (Projects \cup {NoProject}) \X Epics
      /\ \A e \in Epics : loaded[e].kind \in {"idle", "loading", "ready", "error"}
      /\ \A c \in kept : BringsRows(c)
  BY <1>2 DEF EpicTypes, FlightTypes, PreviewKinds
<1> QED BY <1>3, <1>4, EnsureTypes

(* A step that leaves the previews alone.                                  *)
LEMMA StillTypes ==
  ASSUME EpicTypes, UNCHANGED <<previews, inFlight>>, RowsTypes(view'), DialogTypes', StoryTypes',
         \A c \in calls' : c \in calls \/ BringsRows(c)
  PROVE  EpicTypes'
BY DEF EpicTypes, PreviewKinds, FlightTypes, RowsTypes, BringsRows, Rows, Fetching

LEMMA BegunTypes ==
  ASSUME EpicTypes, NEW kept \in SUBSET calls, NEW op, NEW k, NEW p, NEW ph, NEW a,
         calls' = kept \cup {EpicCall(op, k, p, ph, a)},
         UNCHANGED <<previews, inFlight>>, RowsTypes(view'), DialogTypes', StoryTypes'
  PROVE  EpicTypes'
<1>1. PICK d : d = EpicCall(op, k, p, ph, a)
  OBVIOUS
<1>2. BringsRows(d)
  <2>1. d.net = "sent"
    BY <1>1, NewFields
  <2> QED BY <2>1 DEF BringsRows
<1> QED BY <1>1, <1>2, StillTypes

LEMMA EpicUserTypes ==
  ASSUME EpicsInv, EpicTypes, PreviewsAgree, EpicsUser PROVE EpicTypes'
<1>1. RowsTypes(view) /\ DialogTypes /\ StoryTypes /\ expanded \subseteq Epics
  BY DEF EpicsInv, EpicTypes
<1>2. ASSUME NEW p \in Projects \cup {NoProject}, SelectEpicsProject(p) PROVE EpicTypes'
  <2>1. RowsTypes(view')
    BY <1>2 DEF SelectEpicsProject, NoView, View, Rows, RowsTypes
  <2>2. PreviewKinds' /\ FlightTypes' /\ \A c \in calls' : BringsRows(c)
    <3>1. PICK a : a = EpicArg(filter, NoEpic, NoEpic)
      OBVIOUS
    <3>2. PICK d : d = EpicCall("load", NoKey, p, "fetch", a)
      OBVIOUS
    <3>3. d.net = "sent"
      BY <3>2, NewFields
    <3>4. PICK v, kept, loaded, flight : /\ v = view /\ kept = Loading(p, filter)
                                         /\ loaded = [e \in Epics |-> Idle] /\ flight = {}
      OBVIOUS
    <3>5. PICK open \in SUBSET Epics : open = expanded
      BY <1>1
    <3>6. \A c \in kept : c \in calls \/ c = d
      BY <3>1, <3>2, <3>4 DEF Loading
    <3>7. \A c \in kept : BringsRows(c)
      BY <3>3, <3>6 DEF EpicTypes, BringsRows
    <3>8. \A e \in Epics : loaded[e].kind \in {"idle", "loading", "ready", "error"}
      BY <3>4 DEF Idle, Preview
    <3>9. EnsurePreviews(p, v, open, loaded, flight, kept) /\ flight \subseteq (Projects \cup {NoProject}) \X Epics
      BY <1>2, <3>4, <3>5 DEF SelectEpicsProject
    <3> QED BY <3>7, <3>8, <3>9, EnsureTypes
  <2>4. DialogTypes' /\ StoryTypes'
    BY <1>1, <1>2 DEF SelectEpicsProject, DialogTypes, StoryTypes
  <2>5. RowsTypes(view)'
    BY <2>1 DEF RowsTypes, Rows
  <2>6. (\A c \in calls : BringsRows(c))'
    BY <2>2 DEF BringsRows, RowsTypes, Rows, Fetching
  <2> QED BY <2>2, <2>4, <2>5, <2>6 DEF EpicTypes
<1>3. CASE SetEpicsFilter
  <2>1. PICK a, p : a = EpicArg(filter', NoEpic, NoEpic) /\ p = selected
    OBVIOUS
  <2>2. selected # NoProject
    BY <1>3 DEF SetEpicsFilter, EpicsViewKind
  <2>3. calls' = {c \in calls : c.op # "load"} \cup {EpicCall("load", NoKey, p, "fetch", a)}
    BY <1>3, <2>1, <2>2 DEF SetEpicsFilter, Loading
  <2>4. RowsTypes(view') /\ DialogTypes' /\ StoryTypes'
    BY <1>1, <1>3 DEF SetEpicsFilter, DialogTypes, StoryTypes
  <2>5. PICK kept \in SUBSET calls : kept = {c \in calls : c.op # "load"}
    OBVIOUS
  <2>6. calls' = kept \cup {EpicCall("load", NoKey, p, "fetch", a)} /\ UNCHANGED <<previews, inFlight>>
    BY <1>3, <2>3, <2>5 DEF SetEpicsFilter
  <2> QED BY <2>4, <2>5, <2>6, BegunTypes
<1>4. CASE RefreshEpics
  <2>1. PICK a, p : a = NoEpicArg /\ p = selected
    OBVIOUS
  <2>2. RowsTypes(view') /\ DialogTypes' /\ StoryTypes'
    BY <1>1, <1>4 DEF RefreshEpics, DialogTypes, StoryTypes
  <2> QED BY <1>4, <2>1, <2>2, BegunTypes DEF RefreshEpics
<1>5. CASE ConfirmDeleteEpic
  <2>1. PICK a, p, e : a = NoEpicArg /\ p = selected /\ e = deleting.epic
    OBVIOUS
  <2>2. RowsTypes(view') /\ DialogTypes' /\ StoryTypes'
    BY <1>1, <1>5 DEF ConfirmDeleteEpic, DialogTypes, StoryTypes
  <2> QED BY <1>5, <2>1, <2>2, BegunTypes DEF ConfirmDeleteEpic
<1>6. ASSUME NEW e \in Epics, OpenDeleteEpic(e) PROVE EpicTypes'
  <2>1. deleting' \in [epic : Epics \cup {NoEpic}, submitting : BOOLEAN]
    BY <1>6 DEF OpenDeleteEpic
  <2>2. UNCHANGED <<view, selected, expanded, moving, pending, hazy, calls, previews, inFlight>>
    BY <1>6 DEF OpenDeleteEpic, pageVars
  <2>3. RowsTypes(view') /\ DialogTypes' /\ StoryTypes'
    BY <1>1, <2>1, <2>2 DEF DialogTypes, StoryTypes
  <2> QED BY <2>2, <2>3, StillTypes
<1>7. CASE CancelDeleteEpic
  <2>1. RowsTypes(view') /\ DialogTypes' /\ StoryTypes'
    BY <1>1, <1>7 DEF CancelDeleteEpic, pageVars, DialogTypes, StoryTypes, Closed
  <2> QED BY <1>7, <2>1, StillTypes DEF CancelDeleteEpic, pageVars
<1>8. ASSUME NEW e \in Epics, HandleToggleExpand(e) PROVE EpicTypes'
  <2>1. PICK open \in SUBSET Epics : open = expanded'
    BY <1>1, <1>8 DEF HandleToggleExpand
  <2>2. PICK v : v = view
    OBVIOUS
  <2>3. PICK kept \in SUBSET calls : kept = calls
    OBVIOUS
  <2>4. EnsurePreviews(selected, v, open, previews, inFlight, kept)
    BY <1>8, <2>1, <2>2, <2>3 DEF HandleToggleExpand
  <2>5. PreviewKinds' /\ FlightTypes' /\ \A c \in calls' : BringsRows(c)
    BY <2>4, ShowTypes
  <2>6. RowsTypes(view)' /\ DialogTypes' /\ StoryTypes'
    BY <1>1, <1>8 DEF HandleToggleExpand, RowsTypes, Rows, DialogTypes, StoryTypes
  <2>7. (\A c \in calls : BringsRows(c))'
    BY <2>5 DEF BringsRows, RowsTypes, Rows, Fetching
  <2> QED BY <2>5, <2>6, <2>7 DEF EpicTypes
<1>9. ASSUME NEW e \in Epics, NEW s \in EpicStories, NEW to \in Epics, MoveToEpic(e, s, to) PROVE EpicTypes'
  <2>1. PICK a, p : a = EpicArg(filter, e, to) /\ p = selected
    OBVIOUS
  <2>2. RowsTypes(view') /\ DialogTypes' /\ StoryTypes'
    BY <1>1, <1>9 DEF MoveToEpic, DialogTypes, StoryTypes
  <2> QED BY <1>9, <2>1, <2>2, BegunTypes DEF MoveToEpic
<1>10. ASSUME NEW e \in Epics, NEW s \in EpicStories, NEW status \in EpicStatuses, HandleChangeStoryStatus(e, s, status)
       PROVE  EpicTypes'
  <2>1. PICK a, p : a = EpicArg(filter, e, status) /\ p = selected
    OBVIOUS
  <2>2. RowsTypes(view') /\ DialogTypes' /\ StoryTypes'
    BY <1>1, <1>10 DEF HandleChangeStoryStatus, DialogTypes, StoryTypes
  <2> QED BY <1>10, <2>1, <2>2, BegunTypes DEF HandleChangeStoryStatus
<1> QED BY <1>2, <1>3, <1>4, <1>5, <1>6, <1>7, <1>8, <1>9, <1>10 DEF EpicsUser

LEMMA EpicServerTypes ==
  ASSUME EpicsInv, EpicTypes, PreviewsAgree, EpicsServer PROVE EpicTypes'
<1>1. PICK c \in calls : EpicsFetchAnswered(c) \/ EpicsWriteAnswered(c)
  BY DEF EpicsServer
<1>2. EpicCallShape(c)
  BY DEF EpicsInv
<1>3. RowsTypes(view') /\ DialogTypes' /\ StoryTypes' /\ UNCHANGED <<previews, inFlight>>
  <2>1. hazy' \subseteq EpicStories
    BY <1>1 DEF EpicsFetchAnswered, EpicsWriteAnswered, EpicTypes, StoryTypes
  <2> QED BY <1>1, <2>1 DEF EpicsFetchAnswered, EpicsWriteAnswered, EpicTypes, DialogTypes, StoryTypes
<1>4. PICK net, v : /\ Answered(c, net, v)
                    /\ Fetching(c) /\ c.op # "preview" /\ net = "ok" => v = FetchOverview(c.project, c.arg.filter)
  BY <1>1 DEF EpicsFetchAnswered, EpicsWriteAnswered, Writing, Fetching
<1>5. PICK d : d = [c EXCEPT !.net = net, !.answer = v]
  OBVIOUS
<1>6. d.op = c.op /\ d.phase = c.phase /\ d.net = net /\ d.answer = v
  BY <1>2, <1>5, EpicAnswerFields
<1>7. RowsTypes(FetchOverview(c.project, c.arg.filter))
  BY DEF PreviewsAgree, EpicServerShape, FetchOverview, View, RowsTypes, Rows
<1>8. BringsRows(d)
  BY <1>4, <1>6, <1>7 DEF BringsRows, Fetching
<1>9. \A x \in calls' : x \in calls \/ BringsRows(x)
  BY <1>4, <1>5, <1>8 DEF Answered, Replace
<1> QED BY <1>3, <1>9, StillTypes

LEMMA EpicHandlerTypes ==
  ASSUME EpicsInv, EpicTypes, PreviewsAgree, EpicsHandlers PROVE EpicTypes'
<1>1. PICK c \in calls :
        \/ OverviewLoaded(c) \/ OverviewRefreshed(c) \/ PreviewLoaded(c)
        \/ EpicStatusDone(c) \/ EpicMoved(c) \/ EpicDeleted(c)
  BY DEF EpicsHandlers
<1>2. EpicCallShape(c) /\ EpicSendsItsPhases(c) /\ BringsRows(c)
  BY DEF EpicsInv, PreviewsAgree, EpicTypes
<1>3. RowsTypes(view) /\ DialogTypes /\ StoryTypes /\ expanded \subseteq Epics
  BY DEF EpicsInv, EpicTypes
<1>4. /\ UNCHANGED <<selected, expanded>> /\ moving' \in BOOLEAN
      /\ pending' \subseteq pending
      /\ deleting' \in [epic : Epics \cup {NoEpic}, submitting : BOOLEAN]
  <2>1. moving \in BOOLEAN /\ deleting \in [epic : Epics \cup {NoEpic}, submitting : BOOLEAN]
    BY <1>3 DEF DialogTypes
  <2>2. CASE EpicDeleted(c)
    <3>1. [deleting EXCEPT !.submitting = FALSE] \in [epic : Epics \cup {NoEpic}, submitting : BOOLEAN]
      BY <2>1
    <3>2. Closed \in [epic : Epics \cup {NoEpic}, submitting : BOOLEAN]
      BY DEF Closed
    <3> QED BY <2>1, <2>2, <3>1, <3>2 DEF EpicDeleted
  <2>3. CASE EpicMoved(c)
    BY <2>1, <2>3 DEF EpicMoved
  <2>4. CASE OverviewLoaded(c) \/ PreviewLoaded(c) \/ EpicStatusDone(c)
    BY <2>1, <2>4 DEF OverviewLoaded, PreviewLoaded, EpicStatusDone
  <2>5. CASE OverviewRefreshed(c)
    <3>1. moving' \in BOOLEAN
      BY <2>5 DEF OverviewRefreshed
    <3> QED BY <2>1, <2>5, <3>1 DEF OverviewRefreshed
  <2> QED BY <1>1, <2>2, <2>3, <2>4, <2>5
<1>5. DialogTypes' /\ (hazy' \subseteq hazy \cup EpicStories => StoryTypes')
  BY <1>3, <1>4 DEF DialogTypes, StoryTypes
<1>6. ASSUME ShowRows(c), c.op # "preview", Fetching(c), c.net = "ok", UNCHANGED hazy PROVE EpicTypes'
  <2>1. PICK v : v = c.answer /\ RowsTypes(v)
    BY <1>2, <1>6 DEF BringsRows
  <2>2. PICK open \in SUBSET Epics : open = expanded
    BY <1>3
  <2>0. PICK kept \in SUBSET calls : kept = calls \ {c}
    OBVIOUS
  <2>3. EnsurePreviews(selected, v, open, previews, inFlight, kept) /\ view' = v
    BY <1>6, <2>0, <2>1, <2>2 DEF ShowRows
  <2>4. PreviewKinds' /\ FlightTypes' /\ StoryTypes' /\ \A x \in calls' : BringsRows(x)
    BY <1>5, <1>6, <2>3, ShowTypes
  <2>5. RowsTypes(view)'
    BY <2>1, <2>3 DEF RowsTypes, Rows
  <2>6. (\A x \in calls : BringsRows(x))'
    BY <2>4 DEF BringsRows, RowsTypes, Rows, Fetching
  <2> QED BY <1>5, <2>4, <2>5, <2>6 DEF EpicTypes
<1>7. ASSUME UNCHANGED <<previews, inFlight, hazy>>, calls' = calls \ {c} \/ Await(c, "fetch"),
             view' = view \/ view' = View("error", c.project, NoItems)
      PROVE  EpicTypes'
  <2>1. RowsTypes(view')
    BY <1>3, <1>7 DEF View, RowsTypes, Rows
  <2>2. PICK d : d = Advance(c, "fetch")
    OBVIOUS
  <2>3. d.net = "sent"
    BY <1>2, <2>2, EpicAdvanceFields
  <2>4. BringsRows(d)
    BY <2>3 DEF BringsRows
  <2>5. \A x \in calls' : x \in calls \/ BringsRows(x)
    BY <1>7, <2>2, <2>4 DEF Await, Replace
  <2>6. StoryTypes'
    BY <1>3, <1>5, <1>7 DEF StoryTypes
  <2> QED BY <1>5, <1>7, <2>1, <2>5, <2>6, StillTypes
<1>8. CASE OverviewLoaded(c)
  <2>1. c.op = "load" /\ Fetching(c)
    BY <1>2, <1>8 DEF OverviewLoaded, EpicSendsItsPhases, Fetching
  <2> QED BY <1>6, <1>7, <1>8, <2>1 DEF OverviewLoaded
<1>9. CASE OverviewRefreshed(c)
  <2>1. c.op # "preview" /\ Fetching(c)
    BY <1>9 DEF OverviewRefreshed, Fetching
  <2> QED BY <1>6, <1>7, <1>9, <2>1 DEF OverviewRefreshed
<1>10. CASE EpicMoved(c)
  BY <1>7, <1>10 DEF EpicMoved
<1>11. CASE EpicDeleted(c)
  BY <1>7, <1>11 DEF EpicDeleted
<1>12. ASSUME calls' = calls \ {c}, UNCHANGED view, hazy' \subseteq hazy \cup EpicStories, PreviewKinds', FlightTypes' PROVE EpicTypes'
  <2>1. StoryTypes' /\ RowsTypes(view)'
    BY <1>3, <1>5, <1>12 DEF StoryTypes, RowsTypes, Rows
  <2>2. (\A x \in calls : BringsRows(x))'
    BY <1>12 DEF EpicTypes, BringsRows, RowsTypes, Rows, Fetching
  <2> QED BY <1>5, <1>12, <2>1, <2>2 DEF EpicTypes
<1>13. CASE PreviewLoaded(c)
  <2>1. PreviewKinds'
    <3>1. \A t : Preview("ready", t).kind = "ready" /\ Preview("error", t).kind = "error"
      BY DEF Preview
    <3>2. \A e \in Epics : \/ previews'[e] = previews[e]
                           \/ \E t : previews'[e] \in {Preview("ready", t), Preview("error", t)}
      BY <1>13 DEF PreviewLoaded, EpicsInv, PreviewsShape
    <3> QED BY <3>1, <3>2 DEF EpicTypes, PreviewKinds
  <2>2. FlightTypes'
    BY <1>13 DEF PreviewLoaded, EpicTypes, FlightTypes
  <2> QED BY <1>12, <1>13, <2>1, <2>2 DEF PreviewLoaded
<1>14. CASE EpicStatusDone(c)
  <2>1. PICK e0 : e0 = c.arg.epic
    OBVIOUS
  <2>2. \A e \in Epics : previews'[e].kind = previews[e].kind
    <3> SUFFICES ASSUME NEW e \in Epics PROVE previews'[e].kind = previews[e].kind
      OBVIOUS
    <3>1. PICK k, t : previews[e] = [kind |-> k, stories |-> t]
      BY DEF EpicsInv, PreviewsShape
    <3>2. PICK u : u = [previews[e].stories EXCEPT ![c.key] = c.arg.value]
      OBVIOUS
    <3>3. previews'[e] = previews[e] \/ previews'[e] = [previews[e] EXCEPT !.stories = u]
      BY <1>14, <2>1, <3>2 DEF EpicStatusDone, EpicsInv, PreviewsShape
    <3>4. [previews[e] EXCEPT !.stories = u].kind = k
      <4>1. PICK x : x = previews[e] /\ x \in [kind : {k}, stories : {t, u}]
        BY <3>1
      <4> QED BY <3>1, <4>1
    <3> QED BY <3>1, <3>3, <3>4
  <2>3. PreviewKinds' /\ FlightTypes'
    BY <1>14, <2>2 DEF EpicStatusDone, EpicTypes, PreviewKinds, FlightTypes
  <2>4. hazy' \subseteq hazy \cup EpicStories
    BY <1>2, <1>14 DEF EpicStatusDone, Outdated, EpicSendsItsPhases
  <2> QED BY <1>12, <1>14, <2>3, <2>4 DEF EpicStatusDone
<1> QED BY <1>1, <1>8, <1>9, <1>10, <1>11, <1>13, <1>14

LEMMA EpicTypesStep == EpicsInv /\ PreviewsAgree /\ EpicTypes /\ [EpicsNext]_epicsVars => EpicTypes'
<1>1. ASSUME EpicTypes, UNCHANGED epicsVars PROVE EpicTypes'
  BY <1>1 DEF epicsVars, pageVars, EpicTypes, RowsTypes, Rows, BringsRows, Fetching, PreviewKinds,
              FlightTypes, DialogTypes, StoryTypes
<1> QED BY <1>1, EpicUserTypes, EpicServerTypes, EpicHandlerTypes DEF EpicsNext

LEMMA EpicTypesSay == EpicsInv /\ PreviewsAgree /\ EpicTypes => EpicsTypeOK
BY DEF EpicsInv, PreviewsAgree, EpicServerShape, StoriesKnown, EpicTypes, RowsTypes, PreviewKinds, FlightTypes, DialogTypes,
       StoryTypes, EpicsTypeOK

(* Types: the rows, the previews and the fetches under way are about epics,
   though rows are installed whatever is selected by the time they arrive
   (refreshCurrentView), and a switch of project starts fetches for the new
   project, or for none, from the rows of the old one.                     *)
THEOREM EpicsTypeCorrect == EpicsSpec => []EpicsTypeOK
BY EpicTypesSay, EpicsInvariance, PreviewsAlways, EpicTypesStart, EpicTypesStep, PTL DEF EpicsSpec
=============================================================================
