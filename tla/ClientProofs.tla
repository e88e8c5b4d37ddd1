---------------------------- MODULE ClientProofs -----------------------------
(***************************************************************************)
(* Proofs about the clients of the API that have no module of proofs of    *)
(* their own: the command line, the run timeline, the work-item workspace, *)
(* the backlog page and the list page.  Each is proved by itself, for any  *)
(* invocations, runs, projects, stories, boards and rows and any number of *)
(* calls; the pages' handlers have their shape in common.                  *)
(***************************************************************************)
EXTENDS BacklogPage, StoryDetail, TimelinePage, ListPage, Cli, FiniteSetTheorems, TLAPS

-----------------------------------------------------------------------------
(* Handlers.                                                               *)

\* What a handler that waits is made of.
CallShape(c) ==
    c = [n |-> c.n, op |-> c.op, key |-> c.key, project |-> c.project, phase |-> c.phase, net |-> c.net,
         arg |-> c.arg, old |-> c.old, answer |-> c.answer]

LEMMA NetShape ==
  ASSUME NEW c, CallShape(c), NEW net
  PROVE  [c EXCEPT !.net = net] =
           [n |-> c.n, op |-> c.op, key |-> c.key, project |-> c.project, phase |-> c.phase,
            net |-> net, arg |-> c.arg, old |-> c.old, answer |-> c.answer]
BY DEF CallShape

LEMMA AnswerShape ==
  ASSUME NEW c, CallShape(c), NEW answer
  PROVE  [c EXCEPT !.answer = answer] =
           [n |-> c.n, op |-> c.op, key |-> c.key, project |-> c.project, phase |-> c.phase,
            net |-> c.net, arg |-> c.arg, old |-> c.old, answer |-> answer]
BY DEF CallShape

\* A call keeps what it is about when its answer arrives.
LEMMA AnsweredShape ==
  ASSUME NEW c, CallShape(c), NEW net, NEW answer
  PROVE  [c EXCEPT !.net = net, !.answer = answer] =
           [n |-> c.n, op |-> c.op, key |-> c.key, project |-> c.project, phase |-> c.phase,
            net |-> net, arg |-> c.arg, old |-> c.old, answer |-> answer]
<1>1. [c EXCEPT !.net = net, !.answer = answer] = [[c EXCEPT !.net = net] EXCEPT !.answer = answer]
  BY DEF CallShape
<1> DEFINE d == [c EXCEPT !.net = net]
<1>2. d = [n |-> c.n, op |-> c.op, key |-> c.key, project |-> c.project, phase |-> c.phase,
           net |-> net, arg |-> c.arg, old |-> c.old, answer |-> c.answer]
  BY NetShape
<1> HIDE DEF d
<1>3. CallShape(d) /\ d.n = c.n /\ d.op = c.op /\ d.key = c.key /\ d.project = c.project
      /\ d.phase = c.phase /\ d.net = net /\ d.arg = c.arg /\ d.old = c.old
  BY <1>2 DEF CallShape
<1>4. [d EXCEPT !.answer = answer] =
        [n |-> d.n, op |-> d.op, key |-> d.key, project |-> d.project, phase |-> d.phase,
         net |-> d.net, arg |-> d.arg, old |-> d.old, answer |-> answer]
  BY <1>3, AnswerShape
<1>5. [c EXCEPT !.net = net, !.answer = answer] = [d EXCEPT !.answer = answer]
  BY <1>1 DEF d
<1> QED BY <1>3, <1>4, <1>5

LEMMA AwaitShape ==
  ASSUME NEW c, CallShape(c), NEW phase
  PROVE  Advance(c, phase) =
           [n |-> c.n, op |-> c.op, key |-> c.key, project |-> c.project, phase |-> phase,
            net |-> "sent", arg |-> c.arg, old |-> c.old, answer |-> c.answer]
<1> DEFINE d == [c EXCEPT !.phase = phase]
<1>1. d = [n |-> c.n, op |-> c.op, key |-> c.key, project |-> c.project, phase |-> phase,
           net |-> c.net, arg |-> c.arg, old |-> c.old, answer |-> c.answer]
  BY DEF CallShape
<1>2. Advance(c, phase) = [d EXCEPT !.net = "sent"]
  BY <1>1 DEF Advance, CallShape
<1> HIDE DEF d
<1> QED BY <1>1, <1>2

-----------------------------------------------------------------------------
(* The command line.                                                       *)

\* Where the request is, by where the action's code is.
WireInv ==
    /\ pc \notin {"sent", "answered", "failed", "exited"} => wire = None
    /\ pc = "answered" => wire = "applied"
    /\ pc = "failed" =>
         /\ err \in {"usage", "http", "transport"}
         /\ err = "usage" => wire = None
         /\ err = "http" => wire \in {None, "refused", "cutShort"}
    /\ pc = "exited" =>
         /\ exitCode \in {0, 1, 2, 3}
         /\ exitCode = 0 => wire = "applied" \/ request = NoRequest
         /\ exitCode = 1 => wire = None
         /\ exitCode = 2 => wire \in {None, "refused", "cutShort"}
    /\ pc # "exited" => exitCode = Running
    /\ wire = None => request = NoRequest

LEMMA CliInitWire == ASSUME CliInit PROVE WireInv
BY DEF CliInit, WireInv, Running, None

LEMMA CliNextWire == ASSUME WireInv, [CliNext]_cliVars PROVE WireInv'
<1> USE DEF WireInv, Running, None
<1>1. CASE RefuseCommandLine \/ TakeTarget \/ SendLookup \/ ResolveTarget
  BY <1>1 DEF RefuseCommandLine, TakeTarget, SendLookup, ResolveTarget, Fail
<1>2. CASE SendRequest
  BY <1>2 DEF SendRequest, Fail
<1>3. CASE ReceiveAnswer \/ ReceiveHttpError \/ LoseAnswer \/ PrintAndExit
  BY <1>3 DEF ReceiveAnswer, ReceiveHttpError, LoseAnswer, PrintAndExit, Fail
<1>4. CASE ExitWithError
  BY <1>4 DEF ExitWithError, ExitCodeForError
<1>5. CASE Poll \/ TailBatch \/ AnswerLookup \/ AnswerPoll
  BY <1>5 DEF Poll, TailBatch, AnswerLookup, AnswerPoll
<1>6. CASE ServerApplies \/ ServerCutShort \/ ServerRefuses \/ OthersChange
  BY <1>6 DEF ServerApplies, ServerCutShort, ServerRefuses, OthersChange
<1>7. CASE \E at \in Times : AppendRow(at)
  BY <1>7 DEF AppendRow
<1>8. CASE UNCHANGED cliVars
  BY <1>8 DEF cliVars
<1> QED
  BY <1>1, <1>2, <1>3, <1>4, <1>5, <1>6, <1>7, <1>8 DEF CliNext, CliCommand, CliEnvironment

\* Wherever the server stops in a request and whenever the answer is lost, the exit code
\* tells a script whether the change is made, was never asked for, is settled by an error
\* that may have followed a commit, or is still open (errors.ts, and the order of the
\* checks, the lookup, the request and the printing in every action).
THEOREM ExitCodes == CliSpec => []ExitCodeTellsEffect
<1>1. CliInit => WireInv
  BY CliInitWire
<1>2. WireInv /\ [CliNext]_cliVars => WireInv'
  BY CliNextWire
<1>3. WireInv => ExitCodeTellsEffect
  BY DEF WireInv, ExitCodeTellsEffect, Mutating, NoRequest, None, Running
<1> QED BY <1>1, <1>2, <1>3, PTL DEF CliSpec

\* Any non-empty choice of the times a tail has seen has a latest one: what
\* newestOccurredAt computes exists.
Latest(T, t) == t \in T /\ \A u \in T : u <= t
TimesOf(rows, fallback) == {r.at : r \in rows} \cup {fallback}
Bounded(S) == S \subseteq Nat /\ \A T \in SUBSET S : T # {} => \E t \in T : Latest(T, t)

Printable(cursor) == {r \in tail.rows : r.at < cursor}

\* Rows older than what the client was answered are printed, about to be, or hidden.
TailInv ==
    /\ tail = [rows |-> tail.rows, cursor |-> tail.cursor, seen |-> tail.seen, printed |-> tail.printed,
               repeated |-> tail.repeated, hidden |-> tail.hidden, polls |-> tail.polls]
    /\ tail.repeated = FALSE /\ tail.printed = tail.seen
    /\ Bounded(TimesOf(tail.rows, tail.cursor))
    /\ pc = "pollAnswered" => found \subseteq tail.rows
    /\ Printable(AnsweredUpTo) \subseteq
         tail.printed \cup tail.hidden \cup (IF pc = "pollAnswered" THEN found ELSE {})

\* The times of more rows, one of them new.
LEMMA BoundedMore ==
  ASSUME NEW S, Bounded(S), NEW n \in Nat
  PROVE  Bounded(S \cup {n})
<1> SUFFICES ASSUME NEW T \in SUBSET (S \cup {n}), T # {}
             PROVE  \E t \in T : Latest(T, t)
  BY DEF Bounded
<1>1. CASE T \ {n} = {}
  BY <1>1 DEF Latest
<1>2. CASE T \ {n} # {}
  <2>1. PICK t \in T \ {n} : Latest(T \ {n}, t)
    BY <1>2 DEF Bounded
  <2>2. T \subseteq Nat
    BY DEF Bounded
  <2>3. CASE t <= n /\ n \in T
    <3>1. \A u \in T : u <= n
      BY <2>1, <2>2, <2>3 DEF Latest
    <3> QED BY <2>3, <3>1 DEF Latest
  <2>4. CASE ~(t <= n /\ n \in T)
    <3>1. \A u \in T : u <= t
      BY <2>1, <2>2, <2>4 DEF Latest
    <3> QED BY <2>1, <3>1 DEF Latest
  <2> QED BY <2>3, <2>4
<1> QED BY <1>1, <1>2

LEMMA BoundedLess == ASSUME NEW S, Bounded(S), NEW T \in SUBSET S PROVE Bounded(T)
BY DEF Bounded

\* newestOccurredAt returns one of the times it is given, none of them later.
LEMMA Newest ==
  ASSUME NEW rows, NEW fallback, Bounded(TimesOf(rows, fallback))
  PROVE  /\ NewestOccurredAt(rows, fallback) \in TimesOf(rows, fallback)
         /\ \A u \in TimesOf(rows, fallback) : u <= NewestOccurredAt(rows, fallback)
<1> DEFINE T == TimesOf(rows, fallback)
<1>1. \E t \in T : \A u \in T : u <= t
  BY DEF Bounded, Latest, TimesOf
<1>2. NewestOccurredAt(rows, fallback) = CHOOSE t \in T : \A u \in T : u <= t
  BY DEF NewestOccurredAt, TimesOf
<1> HIDE DEF T
<1>3. /\ NewestOccurredAt(rows, fallback) \in T
      /\ \A u \in T : u <= NewestOccurredAt(rows, fallback)
  BY <1>1, <1>2
<1> QED BY <1>3 DEF T

LEMMA CliInitTail == ASSUME CliInit PROVE TailInv
<1>1. tail = [rows |-> {}, cursor |-> inv.after, seen |-> {}, printed |-> {}, repeated |-> FALSE,
              hidden |-> {}, polls |-> 0] /\ pc = "start" /\ inv.after \in Nat
  BY CliAssumption DEF CliInit
<1>2. TimesOf(tail.rows, tail.cursor) = {inv.after}
  BY <1>1 DEF TimesOf
<1>3. Bounded({inv.after})
  <2> SUFFICES ASSUME NEW T \in SUBSET {inv.after}, T # {} PROVE Latest(T, inv.after)
    BY <1>1 DEF Bounded, Latest
  <2> QED BY <1>1 DEF Latest
<1> QED BY <1>1, <1>2, <1>3 DEF TailInv, Printable

\* A step that leaves the tail as it is.
LEMMA TailQuiet ==
  ASSUME TailInv, tail' = tail, pc # "pollAnswered", pc' # "pollAnswered"
  PROVE  TailInv'
BY DEF TailInv, AnsweredUpTo, Printable

LEMMA TailAppend ==
  ASSUME TailInv, NEW at \in Times, AppendRow(at)
  PROVE  TailInv'
<1> DEFINE row == [id |-> Cardinality(tail.rows) + 1, at |-> at]
<1>1. /\ tail'.rows = tail.rows \cup {row} /\ tail'.cursor = tail.cursor
      /\ tail'.seen = tail.seen /\ tail'.printed = tail.printed /\ tail'.repeated = tail.repeated
      /\ tail'.hidden = IF at < AnsweredUpTo THEN tail.hidden \cup {row} ELSE tail.hidden
      /\ tail' = [rows |-> tail'.rows, cursor |-> tail'.cursor, seen |-> tail'.seen, printed |-> tail'.printed,
                  repeated |-> tail'.repeated, hidden |-> tail'.hidden, polls |-> tail'.polls]
  BY DEF AppendRow, TailInv
<1>2. pc' = pc /\ found' = found
  BY DEF AppendRow
<1>3. row.at = at
  OBVIOUS
<1> HIDE DEF row
<1>4. AnsweredUpTo' = AnsweredUpTo
  BY <1>1, <1>2 DEF AnsweredUpTo
<1>5. Bounded(TimesOf(tail.rows, tail.cursor)')
  <2>1. TimesOf(tail.rows, tail.cursor)' = TimesOf(tail.rows, tail.cursor) \cup {at}
    BY <1>1, <1>3 DEF TimesOf
  <2>2. at \in Nat
    BY CliAssumption
  <2> QED BY <2>1, <2>2, BoundedMore DEF TailInv
<1>6. Printable(AnsweredUpTo)' \subseteq Printable(AnsweredUpTo) \cup (IF at < AnsweredUpTo THEN {row} ELSE {})
  BY <1>1, <1>3, <1>4 DEF Printable
<1> QED BY <1>1, <1>2, <1>5, <1>6 DEF TailInv

LEMMA TailAnswer ==
  ASSUME TailInv, AnswerPoll
  PROVE  TailInv'
<1>1. PICK rows \in SUBSET TimelineRows(tail.cursor) :
        /\ found' = rows
        /\ tail' = [tail EXCEPT !.hidden = @ \cup (TimelineRows(tail.cursor) \ rows)]
  BY DEF AnswerPoll
<1>2. /\ tail'.rows = tail.rows /\ tail'.cursor = tail.cursor
      /\ tail'.seen = tail.seen /\ tail'.printed = tail.printed /\ tail'.repeated = tail.repeated
      /\ tail'.hidden = tail.hidden \cup (TimelineRows(tail.cursor) \ rows)
      /\ tail' = [rows |-> tail'.rows, cursor |-> tail'.cursor, seen |-> tail'.seen, printed |-> tail'.printed,
                  repeated |-> tail'.repeated, hidden |-> tail'.hidden, polls |-> tail'.polls]
  BY <1>1 DEF TailInv
<1>3. pc = "pollSent" /\ pc' = "pollAnswered"
  BY DEF AnswerPoll
<1>4. Bounded(TimesOf(tail.rows, tail.cursor)')
  BY <1>2 DEF TailInv
<1>5. tail.rows \subseteq Printable(tail.cursor) \cup TimelineRows(tail.cursor)
  <2> SUFFICES ASSUME NEW r \in tail.rows
               PROVE  r.at < tail.cursor \/ r.at >= tail.cursor
    BY DEF Printable, TimelineRows
  <2>1. r.at \in Nat /\ tail.cursor \in Nat
    BY DEF TailInv, Bounded, TimesOf
  <2> QED BY <2>1
<1>6. Printable(tail.cursor) \subseteq tail.printed \cup tail.hidden
  BY <1>3 DEF TailInv, AnsweredUpTo
<1>7. tail.rows \subseteq tail.printed \cup tail'.hidden \cup rows
  BY <1>2, <1>5, <1>6
<1>8. Printable(AnsweredUpTo)' \subseteq tail.rows /\ rows \subseteq tail.rows
  BY <1>2 DEF Printable, TimelineRows
<1> QED BY <1>1, <1>2, <1>3, <1>4, <1>7, <1>8 DEF TailInv

LEMMA TailPrint ==
  ASSUME TailInv, TailBatch
  PROVE  TailInv'
<1> DEFINE newest == NewestOccurredAt(found, tail.cursor)
<1>1. /\ tail'.rows = tail.rows /\ tail'.cursor = newest
      /\ tail'.seen = tail.seen \cup (found \ tail.seen) /\ tail'.printed = tail.printed \cup (found \ tail.seen)
      /\ tail'.repeated = (tail.repeated \/ (found \ tail.seen) \cap tail.printed # {})
      /\ tail'.hidden = tail.hidden
      /\ tail' = [rows |-> tail'.rows, cursor |-> tail'.cursor, seen |-> tail'.seen, printed |-> tail'.printed,
                  repeated |-> tail'.repeated, hidden |-> tail'.hidden, polls |-> tail'.polls]
  BY DEF TailBatch, TailInv
<1>2. pc = "pollAnswered" /\ pc' \in {"exited", "poll"} /\ found \subseteq tail.rows
  BY DEF TailBatch, TailInv
<1>3. AnsweredUpTo = newest /\ AnsweredUpTo' = newest
  BY <1>1, <1>2 DEF AnsweredUpTo
<1>4. newest \in TimesOf(tail.rows, tail.cursor)
  <2>1. TimesOf(found, tail.cursor) \in SUBSET TimesOf(tail.rows, tail.cursor)
    BY <1>2 DEF TimesOf
  <2>2. Bounded(TimesOf(found, tail.cursor))
    BY <2>1, BoundedLess DEF TailInv
  <2> QED BY <2>1, <2>2, Newest
<1> HIDE DEF newest
<1>5. Bounded(TimesOf(tail.rows, tail.cursor)')
  <2>1. TimesOf(tail.rows, tail.cursor)' \in SUBSET TimesOf(tail.rows, tail.cursor)
    BY <1>1, <1>4 DEF TimesOf
  <2> QED BY <2>1, BoundedLess DEF TailInv
<1>6. tail'.repeated = FALSE /\ tail'.printed = tail'.seen
  BY <1>1 DEF TailInv
<1>7. Printable(AnsweredUpTo)' = Printable(AnsweredUpTo)
  BY <1>1, <1>3 DEF Printable
<1>8. Printable(AnsweredUpTo) \subseteq tail.printed \cup tail.hidden \cup found
  BY <1>2 DEF TailInv
<1>9. tail'.printed = tail.printed \cup found
  BY <1>1 DEF TailInv
<1> QED BY <1>1, <1>2, <1>5, <1>6, <1>7, <1>8, <1>9 DEF TailInv

LEMMA CliNextTail == ASSUME TailInv, [CliNext]_cliVars PROVE TailInv'
<1>1. CASE RefuseCommandLine \/ TakeTarget \/ SendLookup \/ ResolveTarget
  BY <1>1, TailQuiet DEF RefuseCommandLine, TakeTarget, SendLookup, ResolveTarget, Fail
<1>2. CASE SendRequest \/ ReceiveAnswer \/ ReceiveHttpError \/ LoseAnswer \/ PrintAndExit
  BY <1>2, TailQuiet DEF SendRequest, ReceiveAnswer, ReceiveHttpError, LoseAnswer, PrintAndExit, Fail
<1>3. CASE ExitWithError \/ Poll \/ AnswerLookup \/ OthersChange
  BY <1>3, TailQuiet DEF ExitWithError, Poll, AnswerLookup, OthersChange
<1>4. CASE ServerApplies \/ ServerCutShort \/ ServerRefuses \/ UNCHANGED cliVars
  BY <1>4 DEF ServerApplies, ServerCutShort, ServerRefuses, cliVars, TailInv, AnsweredUpTo, Printable
<1>5. CASE TailBatch \/ AnswerPoll \/ \E at \in Times : AppendRow(at)
  BY <1>5, TailPrint, TailAnswer, TailAppend
<1> QED
  BY <1>1, <1>2, <1>3, <1>4, <1>5 DEF CliNext, CliCommand, CliEnvironment

\* However rows are dated and batches cut, run tail prints no row twice and misses none
\* that was not hidden from it (run.ts, tail).
THEOREM TailPrintsOnce == CliSpec => []TailPrintsEachRowOnce
<1>1. CliInit => TailInv
  BY CliInitTail
<1>2. TailInv /\ [CliNext]_cliVars => TailInv'
  BY CliNextTail
<1>3. TailInv => TailPrintsEachRowOnce
  BY DEF TailInv, TailPrintsEachRowOnce, Printable, AnsweredUpTo
<1> QED BY <1>1, <1>2, <1>3, PTL DEF CliSpec

-----------------------------------------------------------------------------
(* The run timeline.                                                       *)

\* Unless the last answer was for another selection, the events in hand are right or a
\* load that will make them so is under way.
Awaits(cs, r, f) == \E c \in EventLoads(cs) : c.key = r /\ c.arg = f
TimelineInv ==
    page = "timeline" =>
    /\ raced \in BOOLEAN
    /\ ~raced /\ chosenRun # NoKey =>
         events \in {EventsOf(chosenRun, statusFilter), FailedEvents} \/ Awaits(calls, chosenRun, statusFilter)

LEMMA TimelineCallFields ==
  ASSUME NEW op, NEW r, NEW phase, NEW f
  PROVE  /\ TimelineCall(op, r, phase, f).key = r /\ TimelineCall(op, r, phase, f).arg = f
         /\ TimelineCall(op, r, phase, f).phase = phase
BY DEF TimelineCall, NewCall

\* A load of events for what is selected, or the clearing of them.
LEMMA LoadKeepsTimeline ==
  ASSUME NEW op, NEW r, NEW f, NEW kept, LoadTimeline(op, r, f, kept), raced \in BOOLEAN,
         chosenRun' = r, statusFilter' = f
  PROVE  TimelineInv'
<1> DEFINE load == TimelineCall(op, r, "timeline", f)
<1>1. load.key = r /\ load.arg = f /\ load.phase = "timeline"
  BY TimelineCallFields
<1>2. raced' \in BOOLEAN /\ (r # NoKey => calls' = kept \cup {load})
  BY DEF LoadTimeline
<1> HIDE DEF load
<1>3. r # NoKey => Awaits(calls', r, f)
  BY <1>1, <1>2 DEF Awaits, EventLoads
<1> QED BY <1>2, <1>3 DEF TimelineInv, Awaits

LEMMA RunsKeepTimeline ==
  ASSUME TimelineInv, page = "timeline", NEW c \in calls, RunsLoaded(c)
  PROVE  TimelineInv'
<1> DEFINE load == TimelineCall("timeline", chosenRun', "timeline", statusFilter)
           more == TimelineCall("refresh", c.key, "timeline", c.arg)
           rest == calls \ {c}
           moved == chosenRun' # chosenRun
           effect == IF moved /\ chosenRun' # NoKey THEN rest \cup {load} ELSE rest
<1>1. load.key = chosenRun' /\ load.arg = statusFilter /\ load.phase = "timeline"
  BY TimelineCallFields
<1>2. c.phase = "runs" /\ statusFilter' = statusFilter
  BY DEF RunsLoaded
<1>3. /\ effect \subseteq calls'
      /\ raced' = raced \/ raced' = (raced \/ c.op = "refresh")
      /\ ~raced' /\ raced \in BOOLEAN => ~raced /\ events' = IF moved /\ chosenRun' = NoKey THEN NoEvents ELSE events
  <2>1. CASE c.op = "refresh" /\ c.key # NoKey
    <3>1. calls' = effect \cup {more} /\ raced' = raced /\ events' = IF moved /\ chosenRun' = NoKey THEN NoEvents ELSE events
      BY <2>1 DEF RunsLoaded
    <3> HIDE DEF effect, more
    <3> QED BY <3>1
  <2>2. CASE ~(c.op = "refresh" /\ c.key # NoKey)
    <3>1. /\ calls' = effect /\ raced' = (raced \/ c.op = "refresh")
          /\ events' = IF c.op = "refresh" \/ (moved /\ chosenRun' = NoKey) THEN NoEvents ELSE events
      BY <2>2 DEF RunsLoaded
    <3> HIDE DEF effect, moved
    <3> QED BY <3>1
  <2> QED BY <2>1, <2>2
<1>4. raced \in BOOLEAN /\ raced' \in BOOLEAN
  BY <1>3 DEF TimelineInv
<1>5. rest \subseteq calls'
  BY <1>3
<1>6. ASSUME ~raced', chosenRun' # NoKey, moved PROVE Awaits(calls', chosenRun', statusFilter)
  <2>1. load \in calls'
    BY <1>3, <1>6
  <2> HIDE DEF load
  <2> QED BY <1>1, <2>1 DEF Awaits, EventLoads
<1>7. ASSUME ~raced', chosenRun' # NoKey, ~moved
      PROVE  events' \in {EventsOf(chosenRun, statusFilter), FailedEvents} \/ Awaits(calls', chosenRun, statusFilter)
  <2>1. ~raced /\ events' = events /\ chosenRun' = chosenRun
    BY <1>3, <1>4, <1>7
  <2>2. Awaits(calls, chosenRun, statusFilter) => Awaits(calls', chosenRun, statusFilter)
    BY <1>2, <1>5 DEF Awaits, EventLoads
  <2> QED BY <1>7, <2>1, <2>2 DEF TimelineInv
<1> QED BY <1>2, <1>4, <1>6, <1>7 DEF TimelineInv

LEMMA TimelineNextInv == ASSUME TimelineInv, [TimelineNext]_timelineVars PROVE TimelineInv'
<1>1. CASE UNCHANGED timelineVars
  BY <1>1 DEF timelineVars, pageVars, TimelineInv
<1> SUFFICES ASSUME TimelineNext PROVE TimelineInv'
  BY <1>1
<1>2. page = "timeline" /\ page' = page
  BY DEF TimelineNext, Mounted
<1>3. ASSUME NEW f \in Filters, SetStatus(f) PROVE TimelineInv'
  <2>1. PICK r : r = chosenRun
    OBVIOUS
  <2> QED BY <1>2, <1>3, <2>1, LoadKeepsTimeline DEF SetStatus, TimelineInv
<1>4. ASSUME NEW r \in TimelineRuns, SelectRun(r) PROVE TimelineInv'
  <2>1. PICK f : f = statusFilter
    OBVIOUS
  <2> QED BY <1>2, <1>4, <2>1, LoadKeepsTimeline DEF SelectRun, TimelineInv
<1>7. CASE RefreshEvents
  <2>1. PICK r, f : r = chosenRun /\ f = statusFilter
    OBVIOUS
  <2> QED BY <1>2, <1>7, <2>1, LoadKeepsTimeline DEF RefreshEvents, TimelineInv
<1>5. CASE RefreshRuns
  <2>1. calls \subseteq calls' /\ UNCHANGED <<chosenRun, statusFilter, events, raced>>
    BY <1>5 DEF RefreshRuns
  <2>2. Awaits(calls, chosenRun, statusFilter) => Awaits(calls', chosenRun, statusFilter)
    BY <2>1 DEF Awaits, EventLoads
  <2> QED BY <1>2, <2>1, <2>2 DEF TimelineInv
<1>6. ASSUME NEW c \in calls, TimelineLoaded(c)
      PROVE  TimelineInv'
  <2>1. /\ events' \in {EventsOf(c.key, c.arg), FailedEvents} /\ UNCHANGED <<chosenRun, statusFilter>>
        /\ raced' = (c.key # chosenRun \/ c.arg # statusFilter)
    BY <1>6 DEF TimelineLoaded
  <2> QED BY <1>2, <2>1 DEF TimelineInv
<1> QED
  BY <1>2, <1>3, <1>4, <1>5, <1>6, <1>7, RunsKeepTimeline DEF TimelineNext, TimelineUser, TimelineHandlers

\* For any runs, filters and overlapping loads: when every answer is in, the events shown
\* are those of the selected run under the filter that is set, unless the answer for an
\* earlier selection came last, or a refresh without a selection cleared them
\* (control-plane/timeline/page.tsx, loadRuns and loadTimeline).
THEOREM EventsOfTheRun == TimelineSpec => []EventsBelongToRun
<1>1. TimelineInit => TimelineInv
  BY DEF TimelineInit, TimelineInv
<1>2. TimelineInv /\ [TimelineNext]_timelineVars => TimelineInv'
  BY TimelineNextInv
<1>3. TimelineInv => EventsBelongToRun
  BY DEF TimelineInv, EventsBelongToRun, Awaits, EventLoads
<1> QED BY <1>1, <1>2, <1>3, PTL DEF TimelineSpec

-----------------------------------------------------------------------------
(* The work-item workspace: its drafts.                                    *)

DetailShape(d) ==
    d = [kind |-> d.kind, for |-> d.for, story |-> d.story, text |-> d.text, labels |-> d.labels, tasks |-> d.tasks]
DraftShape(d) == d = [for |-> d.for, text |-> d.text, typed |-> d.typed]
\* What a handler carries: a save its draft, a load the story it was asked for, a write's
\* answer its own story.
CallInv(c) ==
    /\ CallShape(c)
    /\ c.net \in {"sent", "ok", "failed"}
    /\ c.op = "load" => Fetching(c)
    /\ c.op = "save" => c.arg.draft.for = c.key
    /\ c.op = "load" /\ c.net = "ok" =>
         DetailShape(c.answer) /\ c.answer.kind = "ok" /\ c.answer.for = c.key /\ c.answer.story = c.key
    /\ c.op \in {"save", "status"} /\ c.net = "ok" => c.answer.story = c.key

\* The draft is the loaded story's while one is shown, and typed in only then.
DraftInv ==
    page = "detail" =>
    /\ DetailShape(detail) /\ DraftShape(draft)
    /\ draft.typed \in BOOLEAN
    /\ draft.typed => shown # NoKey
    /\ Active => draft.for = detail.story
    /\ \A c \in calls : CallInv(c)

TypedKept ==
    draft.typed /\ ~draft'.typed =>
      \/ \E c \in calls \ calls' : c.op \in {"save", "deleteItem"} \/ c.key # shown
      \/ shown' = NoKey
      \/ calls' = calls /\ draft'.text = detail.text
      \/ draft.for # shown

LEMMA BlankShape ==
  /\ DetailShape(Blank) /\ DraftShape(NoDraft) /\ Blank.kind = "loading"
  /\ NoDraft.typed = FALSE
BY DEF DetailShape, DraftShape, Blank, NoDraft

LEMMA DetailCallInv ==
  ASSUME NEW op, NEW s, NEW phase, NEW id, NEW status, op = "save" => draft.for = s,
         op = "load" => phase = "fetch"
  PROVE  /\ CallInv(DetailCall(op, s, phase, id, status))
         /\ DetailCall(op, s, phase, id, status).op = op
         /\ DetailCall(op, s, phase, id, status).key = s
BY DEF CallInv, CallShape, DetailCall, NewCall, DetailArg, Fetching

\* A render leaves the draft with the loaded story.
LEMMA RenderKeeps ==
  ASSUME NEW s, NEW d, NEW dr, NEW cs, NEW fresh, Render(s, d, dr, cs, fresh),
         DetailShape(d), DraftShape(dr), dr.typed \in BOOLEAN, dr.typed => s # NoKey,
         \A c \in cs : CallInv(c)
  PROVE  /\ DetailShape(detail') /\ DraftShape(draft') /\ draft'.typed \in BOOLEAN
         /\ draft'.typed => shown' # NoKey
         /\ Active' => draft'.for = detail'.story
         /\ \A c \in calls' : CallInv(c)
         /\ draft' = dr \/ (ActiveItem(s, d) /\ dr.for # d.story)
         /\ cs \subseteq calls' \cup {c \in cs : c.op = "labels"}
         /\ \A c \in calls' : c \in cs \/ c.op = "labels"
<1> DEFINE active == ActiveItem(s, d)
           kept == IF active /\ ~fresh THEN cs ELSE {c \in cs : c.op # "labels"}
           load == DetailCall("labels", d.story, "fetch", NoKey, "TODO")
<1>1. /\ shown' = s /\ detail' = d
      /\ draft' = IF active /\ dr.for # d.story THEN ToStoryDraft(d) ELSE dr
      /\ calls' = IF active /\ fresh THEN kept \cup {load} ELSE kept
  BY DEF Render
<1>2. CallInv(load)
  BY DetailCallInv
<1>3. ToStoryDraft(d).for = d.story /\ DraftShape(ToStoryDraft(d)) /\ ToStoryDraft(d).typed = FALSE
  BY DEF ToStoryDraft, DraftShape
<1>4. Active' = ActiveItem(s, d)
  BY <1>1 DEF Active, ActiveItem
<1>5. kept \subseteq cs
  OBVIOUS
<1>6. \A c \in calls' : CallInv(c)
  <2> HIDE DEF load, kept, active
  <2> QED BY <1>1, <1>2, <1>5
<1>7. cs \subseteq calls' \cup {c \in cs : c.op = "labels"}
  <2> HIDE DEF load, active
  <2> QED BY <1>1
<1>10. \A c \in calls' : c \in cs \/ c.op = "labels"
  <2>1. load.op = "labels"
    BY DetailCallInv
  <2> HIDE DEF load, kept, active
  <2> QED BY <1>1, <1>5, <2>1
<1>8. CASE ActiveItem(s, d) /\ dr.for # d.story
  <2>1. draft' = ToStoryDraft(d)
    BY <1>1, <1>8
  <2> HIDE DEF load, kept, active
  <2> QED BY <1>1, <1>3, <1>6, <1>7, <1>8, <1>10, <2>1
<1>9. CASE ~(ActiveItem(s, d) /\ dr.for # d.story)
  <2>1. draft' = dr
    BY <1>1, <1>9
  <2>2. ActiveItem(s, d) => dr.for = d.story
    BY <1>9
  <2> HIDE DEF load, kept, active
  <2> QED BY <1>1, <1>4, <1>6, <1>7, <1>10, <2>1, <2>2
<1> QED BY <1>8, <1>9

\* A step that keeps the story, its draft and the call records.
LEMMA DraftQuiet ==
  ASSUME DraftInv, page = "detail", page' = page, shown' = shown, draft' = draft,
         DetailShape(detail'), detail'.for = detail.for, detail'.kind = detail.kind,
         detail'.story = detail.story,
         \A c \in calls' : CallInv(c)
  PROVE  DraftInv' /\ TypedKept
BY DEF DraftInv, TypedKept, Active, ActiveItem, CallInv, CallShape, DetailShape, Fetching

LEMMA TasksShape ==
  ASSUME NEW d, DetailShape(d), NEW t, NEW e, e = [d EXCEPT !.tasks = t]
  PROVE  DetailShape(e) /\ e.for = d.for /\ e.kind = d.kind /\ e.story = d.story
BY DEF DetailShape

LEMMA AnsweredInv ==
  ASSUME NEW c, CallInv(c), NEW net \in {"ok", "failed"}, NEW answer,
         net = "ok" =>
           /\ c.op = "load" => DetailShape(answer) /\ answer.kind = "ok" /\ answer.for = c.key /\ answer.story = c.key
           /\ c.op \in {"save", "status"} => answer.story = c.key
  PROVE  CallInv([c EXCEPT !.net = net, !.answer = answer])
<1> DEFINE e == [c EXCEPT !.net = net, !.answer = answer]
<1>1. e = [n |-> c.n, op |-> c.op, key |-> c.key, project |-> c.project, phase |-> c.phase,
           net |-> net, arg |-> c.arg, old |-> c.old, answer |-> answer]
  <2>1. CallShape(c)
    BY DEF CallInv
  <2> QED BY <2>1, AnsweredShape
<1> HIDE DEF e
<1>2. CallInv(e)
  BY <1>1 DEF CallInv, CallShape, Fetching
<1> QED BY <1>2 DEF e

\* A render from calls the page had, or opened.
LEMMA RenderStep ==
  ASSUME DraftInv, page = "detail", page' = page,
         NEW s, NEW d, NEW dr, NEW cs, NEW fresh, Render(s, d, dr, cs, fresh),
         DetailShape(d), DraftShape(dr), dr.typed \in BOOLEAN, dr.typed => s # NoKey,
         \A c \in cs : CallInv(c)
  PROVE  DraftInv'
BY RenderKeeps DEF DraftInv

LEMMA OpenKeeps ==
  ASSUME DraftInv, page = "detail", page' = page, NEW s \in DetailStories, OpenDetail(s)
  PROVE  DraftInv' /\ TypedKept
<1> DEFINE load == DetailCall("load", s, "fetch", NoKey, "TODO")
<1>1. Render(s, detail, draft, calls \cup {load}, TRUE) /\ ~draft.typed
  BY DEF OpenDetail, DraftInv
<1>2. CallInv(load)
  BY DetailCallInv
<1>3. \A c \in calls \cup {load} : CallInv(c)
  BY <1>2 DEF DraftInv
<1> HIDE DEF load
<1>4. DraftInv'
  BY <1>1, <1>3, RenderStep DEF DraftInv
<1> QED BY <1>1, <1>4 DEF TypedKept

LEMMA CloseKeeps ==
  ASSUME DraftInv, page = "detail", page' = page, NEW cs \in SUBSET calls,
         Render(NoKey, detail, NoDraft, cs, FALSE)
  PROVE  DraftInv' /\ TypedKept
<1>1. \A c \in cs : CallInv(c)
  BY DEF DraftInv
<1>2. DraftInv'
  BY <1>1, BlankShape, RenderStep DEF DraftInv
<1>3. shown' = NoKey
  BY DEF Render
<1> QED BY <1>2, <1>3 DEF TypedKept

LEMMA WriteKeeps ==
  ASSUME DraftInv, page = "detail", page' = page,
         NEW op, NEW id, NEW status, SendWrite(op, id, status), op = "save" => Active, op # "load",
         shown' = shown, draft' = draft,
         detail' = detail \/ \E t : detail' = [detail EXCEPT !.tasks = t]
  PROVE  DraftInv' /\ TypedKept
<1>1. CallInv(DetailCall(op, detail.story, op, id, status))
  BY DetailCallInv DEF DraftInv
<1>2. \A c \in calls' : CallInv(c)
  BY <1>1 DEF SendWrite, DraftInv
<1>3. /\ DetailShape(detail') /\ detail'.for = detail.for /\ detail'.kind = detail.kind
      /\ detail'.story = detail.story
  BY TasksShape DEF DraftInv
<1> QED BY <1>2, <1>3, DraftQuiet

LEMMA EditKeeps ==
  ASSUME DraftInv, page = "detail", page' = page,
         CancelChanges \/ \E x \in Texts : UpdateDraft(x)
  PROVE  DraftInv' /\ TypedKept
<1>1. UNCHANGED <<shown, detail, calls>> /\ Active
  BY DEF CancelChanges, UpdateDraft, pageVars, Unsaved
<1>2. Active'
  BY <1>1 DEF Active, ActiveItem
<1>3. shown # NoKey
  BY <1>1 DEF Active, ActiveItem
<1>4. CASE CancelChanges
  <2>1. draft' = [[for |-> detail.story, text |-> detail.text, typed |-> FALSE] EXCEPT !.for = draft.for]
    BY <1>4 DEF CancelChanges, ToStoryDraft
  <2>2. draft' = [for |-> draft.for, text |-> detail.text, typed |-> FALSE]
    BY <2>1
  <2>3. draft'.for = draft.for /\ draft'.text = detail.text /\ draft'.typed = FALSE /\ DraftShape(draft')
    BY <2>2 DEF DraftShape
  <2> QED BY <1>1, <1>2, <2>3 DEF DraftInv, TypedKept, CallInv, CallShape, DetailShape, Fetching
<1>5. ASSUME NEW x \in Texts, UpdateDraft(x)
      PROVE  DraftInv' /\ TypedKept
  <2>1. draft' = [[draft EXCEPT !.text = x] EXCEPT !.typed = TRUE]
    BY <1>5 DEF UpdateDraft, DraftInv, DraftShape
  <2>2. draft' = [for |-> draft.for, text |-> x, typed |-> TRUE]
    BY <2>1 DEF DraftInv, DraftShape
  <2>3. draft'.for = draft.for /\ draft'.typed = TRUE /\ DraftShape(draft')
    BY <2>2 DEF DraftShape
  <2> QED BY <1>1, <1>2, <1>3, <2>3 DEF DraftInv, TypedKept, CallInv, CallShape, DetailShape, Fetching
<1> QED BY <1>4, <1>5

LEMMA FetchAnswerKeeps ==
  ASSUME DraftInv, page = "detail", page' = page, NEW c \in calls, DetailFetchAnswered(c)
  PROVE  DraftInv' /\ TypedKept
<1>1. CallInv(c) /\ c.op = "load"
  BY DEF DraftInv, DetailFetchAnswered
<1>2. \/ calls' = (calls \ {c}) \cup {[c EXCEPT !.net = "ok", !.answer = Snapshot(c.key)]}
      \/ calls' = (calls \ {c}) \cup {[c EXCEPT !.net = "failed", !.answer = Blank]}
  BY DEF DetailFetchAnswered, Answered, Replace
<1>5. /\ DetailShape(Snapshot(c.key)) /\ Snapshot(c.key).kind = "ok"
      /\ Snapshot(c.key).for = c.key /\ Snapshot(c.key).story = c.key
  BY DEF Snapshot, Blank, DetailShape
<1>6. CallInv([c EXCEPT !.net = "ok", !.answer = Snapshot(c.key)])
  BY <1>1, <1>5, AnsweredInv
<1>7. CallInv([c EXCEPT !.net = "failed", !.answer = Blank])
  BY <1>1, AnsweredInv
<1>9. \A d \in calls' : CallInv(d)
  BY <1>2, <1>6, <1>7 DEF DraftInv
<1>8. UNCHANGED <<shown, draft, detail>>
  BY DEF DetailFetchAnswered
<1> QED BY <1>8, <1>9, DraftQuiet DEF DraftInv

LEMMA WriteAnswerKeeps ==
  ASSUME DraftInv, page = "detail", page' = page, NEW c \in calls, DetailWriteAnswered(c)
  PROVE  DraftInv' /\ TypedKept
<1>1. CallInv(c) /\ c.op # "load"
  BY DEF DraftInv, CallInv, DetailWriteAnswered, Writing, Fetching
<1>0. PICK answer : answer = WriteAnswer(c)
  OBVIOUS
<1>2. \/ calls' = (calls \ {c}) \cup {[c EXCEPT !.net = "ok", !.answer = answer]}
      \/ calls' = (calls \ {c}) \cup {[c EXCEPT !.net = "failed", !.answer = Blank]}
  BY <1>0 DEF DetailWriteAnswered, Answered, Replace
<1>5. c.op \in {"save", "status"} => answer.story = c.key
  BY <1>0 DEF WriteAnswer, Blank
<1>6. CallInv([c EXCEPT !.net = "ok", !.answer = answer])
  BY <1>1, <1>5, AnsweredInv
<1>7. CallInv([c EXCEPT !.net = "failed", !.answer = Blank])
  BY <1>1, AnsweredInv
<1>9. \A d \in calls' : CallInv(d)
  BY <1>2, <1>6, <1>7 DEF DraftInv
<1>8. UNCHANGED <<shown, draft, detail>>
  BY DEF DetailWriteAnswered
<1> QED BY <1>8, <1>9, DraftQuiet DEF DraftInv

\* The draft goes only with its story, or for a story that is not the one shown.
LEMMA LoadedKeeps ==
  ASSUME DraftInv, page = "detail", page' = page, NEW c \in calls, StoryLoaded(c)
  PROVE  DraftInv' /\ TypedKept
<1> DEFINE failed == [Blank EXCEPT !.kind = "error", !.for = c.key]
           d == IF c.net = "ok" THEN c.answer ELSE failed
<1>1. Render(shown, d, draft, calls \ {c}, TRUE) /\ c.op = "load"
  BY DEF StoryLoaded
<1>2. CallInv(c)
  BY DEF DraftInv
<1>3. failed = [[Blank EXCEPT !.kind = "error"] EXCEPT !.for = c.key]
  BY DEF Blank
<1>4. DetailShape(failed) /\ failed.kind = "error"
  <2> DEFINE error == [Blank EXCEPT !.kind = "error"]
  <2>1. error = [kind |-> "error", for |-> NoKey, story |-> NoKey, text |-> NoKey,
                 labels |-> {}, tasks |-> NoTasks]
    BY DEF Blank
  <2> HIDE DEF error
  <2>2. [error EXCEPT !.for = c.key] =
          [kind |-> "error", for |-> c.key, story |-> NoKey, text |-> NoKey, labels |-> {}, tasks |-> NoTasks]
    BY <2>1
  <2>3. failed = [error EXCEPT !.for = c.key]
    BY <1>3 DEF error
  <2> HIDE DEF failed
  <2> QED BY <2>2, <2>3 DEF DetailShape
<1>5. DetailShape(d) /\ (d.kind = "ok" => d.story = d.for)
  <2>1. CASE c.net = "ok"
    BY <1>1, <1>2, <2>1 DEF CallInv
  <2>2. CASE c.net # "ok"
    BY <1>4, <2>2
  <2> QED BY <2>1, <2>2
<1> HIDE DEF d
<1>6. \A e \in calls \ {c} : CallInv(e)
  BY DEF DraftInv
<1>7. DraftInv'
  BY <1>1, <1>5, <1>6, RenderStep DEF DraftInv
<1>8. draft' = draft \/ (ActiveItem(shown, d) /\ draft.for # d.story)
  BY <1>1, <1>5, <1>6, RenderKeeps DEF DraftInv
<1>9. TypedKept
  BY <1>5, <1>8 DEF TypedKept, ActiveItem
<1> QED BY <1>7, <1>9

LEMMA SavedKeeps ==
  ASSUME DraftInv, page = "detail", page' = page, NEW c \in calls, StorySaved(c)
  PROVE  DraftInv' /\ TypedKept
<1> DEFINE saved == [detail EXCEPT !.story = c.answer.story, !.text = c.answer.text, !.labels = {}]
           mine == [for |-> c.answer.story, text |-> c.answer.text, typed |-> FALSE]
           d == IF c.net = "ok" /\ detail.kind = "ok" THEN saved ELSE detail
           dr == IF c.net = "ok" /\ c.op = "save" THEN mine ELSE draft
<1>1. Render(shown, d, dr, calls \ {c}, c.net = "ok") /\ c.op \in {"save", "status"}
  BY DEF StorySaved
<1>2. CallInv(c) /\ DetailShape(detail) /\ DraftShape(draft)
  BY DEF DraftInv
<1>3. saved = [kind |-> detail.kind, for |-> detail.for, story |-> c.answer.story, text |-> c.answer.text,
               labels |-> {}, tasks |-> detail.tasks]
  <2>1. saved = [[[detail EXCEPT !.story = c.answer.story] EXCEPT !.text = c.answer.text] EXCEPT !.labels = {}]
    BY <1>2 DEF DetailShape
  <2> DEFINE one == [detail EXCEPT !.story = c.answer.story]
             two == [one EXCEPT !.text = c.answer.text]
  <2>2. one = [kind |-> detail.kind, for |-> detail.for, story |-> c.answer.story, text |-> detail.text,
               labels |-> detail.labels, tasks |-> detail.tasks]
    BY <1>2 DEF DetailShape
  <2> HIDE DEF one
  <2>3. two = [kind |-> detail.kind, for |-> detail.for, story |-> c.answer.story, text |-> c.answer.text,
               labels |-> detail.labels, tasks |-> detail.tasks]
    BY <2>2
  <2>4. saved = [two EXCEPT !.labels = {}]
    BY <2>1 DEF one, two
  <2> HIDE DEF two
  <2> QED BY <2>3, <2>4
<1>4. DetailShape(saved) /\ saved.story = c.answer.story
  BY <1>3 DEF DetailShape
<1>5. DraftShape(mine) /\ mine.typed = FALSE
  BY DEF DraftShape
<1> HIDE DEF saved, mine
<1>6. /\ DetailShape(d) /\ DraftShape(dr) /\ dr.typed \in BOOLEAN
      /\ dr.typed => shown # NoKey
  BY <1>2, <1>4, <1>5 DEF DraftInv
<1>7. \A e \in calls \ {c} : CallInv(e)
  BY DEF DraftInv
<1>8. c.net = "ok" => c.answer.story = c.key
  BY <1>1, <1>2 DEF CallInv
<1>9. ActiveItem(shown, d) /\ d # saved => draft.for = d.story
  BY DEF DraftInv, Active
<1>10. d = saved => (d.story = c.answer.story /\ c.net = "ok") \/ d = detail
  BY <1>4
<1>11. c.op = "status" => dr = draft
  OBVIOUS
<1> HIDE DEF d, dr
<1>12. DraftInv'
  BY <1>1, <1>6, <1>7, RenderStep
<1>13. /\ draft' = dr \/ (ActiveItem(shown, d) /\ dr.for # d.story)
       /\ \A e \in calls' : e \in calls \ {c} \/ e.op = "labels"
  BY <1>1, <1>6, <1>7, RenderKeeps
<1>14. c \in calls \ calls'
  BY <1>1, <1>13
<1>15. TypedKept
  <2>1. CASE c.op = "save"
    BY <1>14, <2>1 DEF TypedKept
  <2>2. CASE c.op = "status" /\ c.key # shown
    BY <1>14, <2>2 DEF TypedKept
  <2>3. CASE c.op = "status" /\ c.key = shown
    <3>1. draft' = draft \/ (ActiveItem(shown, d) /\ draft.for # d.story)
      BY <1>11, <1>13, <2>3
    <3>2. CASE d = saved /\ d # detail
      BY <1>8, <1>10, <2>3, <3>1, <3>2 DEF TypedKept
    <3>3. CASE d = detail
      BY <3>1, <3>3 DEF TypedKept, DraftInv, Active
    <3>4. CASE d # saved
      BY <1>9, <3>1, <3>4 DEF TypedKept
    <3> QED BY <3>2, <3>3, <3>4
  <2> QED BY <1>1, <2>1, <2>2, <2>3
<1> QED BY <1>12, <1>15

LEMMA DeletedKeeps ==
  ASSUME DraftInv, page = "detail", page' = page, NEW c \in calls, ItemDeleted(c)
  PROVE  DraftInv' /\ TypedKept
<1>1. CASE c.net = "ok"
  <2>1. Render(NoKey, detail, NoDraft, {d \in calls \ {c} : ~Fetching(d)}, FALSE)
    BY <1>1 DEF ItemDeleted
  <2> QED BY <2>1, CloseKeeps
<1>2. CASE c.net # "ok"
  <2>1. calls' = calls \ {c} /\ UNCHANGED <<shown, detail, draft>>
    BY <1>2 DEF ItemDeleted
  <2> QED BY <2>1, DraftQuiet DEF DraftInv
<1> QED BY <1>1, <1>2

LEMMA SmallAnswersKeep ==
  ASSUME DraftInv, page = "detail", page' = page, NEW c \in calls,
         LabelsLoaded(c) \/ LabelDone(c) \/ TaskDone(c)
  PROVE  DraftInv' /\ TypedKept
<1>1. calls' = calls \ {c} /\ UNCHANGED <<shown, draft>>
  BY DEF LabelsLoaded, LabelDone, TaskDone
<1>2. detail' = detail \/ detail' = [detail EXCEPT !.tasks = TasksAfter(c, detail.tasks)]
  BY DEF LabelsLoaded, LabelDone, TaskDone
<1>3. /\ DetailShape(detail') /\ detail'.for = detail.for /\ detail'.kind = detail.kind
      /\ detail'.story = detail.story
  BY <1>2, TasksShape DEF DraftInv
<1>4. \A d \in calls' : CallInv(d)
  BY <1>1 DEF DraftInv
<1> QED BY <1>1, <1>3, <1>4, DraftQuiet

LEMMA UserKeeps ==
  ASSUME DraftInv, page = "detail", page' = page, DetailUser
  PROVE  DraftInv' /\ TypedKept
<1>1. ASSUME NEW s \in DetailStories, OpenDetail(s) PROVE DraftInv' /\ TypedKept
  BY <1>1, OpenKeeps
<1>2. ASSUME NEW s \in DetailStories, NEW x \in Texts, ChangedElsewhere(s, x) PROVE DraftInv' /\ TypedKept
  <2>1. UNCHANGED <<calls, shown, detail, draft>>
    BY <1>2 DEF ChangedElsewhere
  <2> QED BY <2>1, DraftQuiet DEF DraftInv
<1>3. CASE CloseDetail
  BY <1>3, CloseKeeps DEF CloseDetail
<1>4. CASE CancelChanges \/ \E x \in Texts : UpdateDraft(x)
  BY <1>4, EditKeeps
<1>5. CASE DeleteItem
  <2>1. SendWrite("deleteItem", NoKey, "TODO") /\ UNCHANGED <<shown, detail, draft>>
    BY <1>5 DEF DeleteItem
  <2> QED BY <2>1, WriteKeeps
<1>6. CASE CreateTask
  <2>1. /\ SendWrite("createTask", Temp, "TODO") /\ UNCHANGED <<shown, draft>>
        /\ detail' = [detail EXCEPT !.tasks = SetTask(detail.tasks, Temp, "TODO")]
    BY <1>6 DEF CreateTask
  <2> QED BY <2>1, WriteKeeps
<1>7. ASSUME NEW op \in {"save", "status"}, SaveOrChangeStatus(op) PROVE DraftInv' /\ TypedKept
  <2>1. SendWrite(op, NoKey, "TODO") /\ Active /\ UNCHANGED <<shown, detail, draft>>
    BY <1>7 DEF SaveOrChangeStatus
  <2> QED BY <2>1, WriteKeeps
<1>8. ASSUME NEW x \in Labels, AttachLabel(x) PROVE DraftInv' /\ TypedKept
  <2>1. SendWrite("attach", x, "TODO") /\ UNCHANGED <<shown, detail, draft>>
    BY <1>8 DEF AttachLabel
  <2> QED BY <2>1, WriteKeeps
<1>9. ASSUME NEW x \in Labels, DetachLabel(x) PROVE DraftInv' /\ TypedKept
  <2>1. SendWrite("detach", x, "TODO") /\ UNCHANGED <<shown, detail, draft>>
    BY <1>9 DEF DetachLabel
  <2> QED BY <2>1, WriteKeeps
<1>10. ASSUME NEW t, DeleteTask(t) PROVE DraftInv' /\ TypedKept
  <2>1. /\ SendWrite("deleteTask", t, "TODO") /\ UNCHANGED <<shown, draft>>
        /\ detail' = [detail EXCEPT !.tasks = DropTask(detail.tasks, t)]
    BY <1>10 DEF DeleteTask
  <2> QED BY <2>1, WriteKeeps
<1>11. ASSUME NEW t, NEW status, PatchTask(t, status) PROVE DraftInv' /\ TypedKept
  <2>1. /\ UNCHANGED <<shown, draft>>
        /\ detail' = [detail EXCEPT !.tasks = [detail.tasks EXCEPT ![t] = status]]
        /\ SendWrite("patchTask", t, status) \/ UNCHANGED calls
    BY <1>11 DEF PatchTask
  <2>2. CASE SendWrite("patchTask", t, status)
    BY <2>1, <2>2, WriteKeeps
  <2>3. CASE UNCHANGED calls
    BY <2>1, <2>3, TasksShape, DraftQuiet DEF DraftInv
  <2> QED BY <2>1, <2>2, <2>3
<1> QED BY <1>1, <1>2, <1>3, <1>4, <1>5, <1>6, <1>7, <1>8, <1>9, <1>10, <1>11 DEF DetailUser

LEMMA DraftStep == DraftInv /\ [DetailNext]_detailVars => DraftInv' /\ [TypedKept]_detailVars
<1> SUFFICES ASSUME DraftInv, [DetailNext]_detailVars PROVE DraftInv' /\ [TypedKept]_detailVars
  OBVIOUS
<1>1. CASE UNCHANGED detailVars
  BY <1>1 DEF detailVars, pageVars, DraftInv, CallInv, Fetching, CallShape, DetailShape, DraftShape, Active, ActiveItem
<1>2. CASE DetailNext
  <2>1. page = "detail" /\ page' = page
    BY <1>2 DEF DetailNext, Mounted
  <2>2. CASE DetailUser
    BY <2>1, <2>2, UserKeeps
  <2>3. CASE DetailAnswers
    <3>1. PICK c \in calls :
            \/ DetailFetchAnswered(c) \/ DetailWriteAnswered(c) \/ StoryLoaded(c) \/ LabelsLoaded(c)
            \/ StorySaved(c) \/ ItemDeleted(c) \/ LabelDone(c) \/ TaskDone(c)
      BY <2>3 DEF DetailAnswers
    <3> QED BY <2>1, <3>1, FetchAnswerKeeps, WriteAnswerKeeps, LoadedKeeps, SavedKeeps, DeletedKeeps, SmallAnswersKeep
  <2> QED BY <1>2, <2>2, <2>3 DEF DetailNext
<1> QED BY <1>1, <1>2

LEMMA DraftStart == DetailInit => DraftInv
BY BlankShape DEF DetailInit, DraftInv, Active, ActiveItem, NoDraft

LEMMA DraftAlways == DetailSpec => []DraftInv
BY DraftStart, DraftStep, PTL DEF DetailSpec

\* Whichever stories are opened, saved, deleted and closed, and in whatever order the
\* answers come: a save sends the draft of the very story it is sent to.
THEOREM SavesOwnDraft == DetailSpec => []SavesItsOwnDraft
<1>1. DraftInv => SavesItsOwnDraft
  BY DEF DraftInv, SavesItsOwnDraft, CallInv
<1> QED BY <1>1, DraftAlways, PTL

\* What the user typed survives every load, status change, label and task of its story.
THEOREM TypedTextKept == DetailSpec => TypedTextStays
<1>1. DraftInv /\ [DetailNext]_detailVars => [TypedKept]_detailVars
  BY DraftStep
<1> QED BY <1>1, DraftAlways, PTL DEF DetailSpec, TypedTextStays, TypedKept

-----------------------------------------------------------------------------
(* The workspace and the server.                                           *)

FunctionOn(f, S) == f = [x \in S |-> f[x]]
DetailServer ==
    /\ srv = [there |-> srv.there, text |-> srv.text, labels |-> srv.labels, tasks |-> srv.tasks]
    /\ FunctionOn(srv.text, DetailStories) /\ FunctionOn(srv.labels, DetailStories)
    /\ FunctionOn(srv.tasks, DetailStories)
    /\ \A s \in DetailStories : FunctionOn(srv.tasks[s], DOMAIN srv.tasks[s]) /\ DOMAIN srv.tasks[s] \subseteq TaskIds

DetailWrites == {"save", "status", "deleteItem", "attach", "detach", "createTask", "patchTask", "deleteTask"}
\* A load is for the story on show; only the labels are fetched beside it.
DetailOp(c) ==
    /\ c.op \in DetailWrites \cup {"load", "labels"}
    /\ c.op = "labels" => Fetching(c)
    /\ c.op = "load" => c.key = shown /\ shown # NoKey
    /\ c.op = "createTask" => c.arg.id = Temp

\* The requests that bear on a side of the story.
OnSide(x) == {c \in calls : x \in SidesOf(c.op)}

\* A side that nobody excused has one request out at most, for the story on show; without
\* one it is as the server has it, and with one it is what the answer will set right.
TextAgrees ==
    /\ \A c, d \in OnSide("text") : c = d
    /\ \A c \in OnSide("text") :
         /\ c.key = shown
         /\ c.op \in {"load", "save", "status"} /\ c.net = "ok" => c.answer.text = srv.text[shown]
    /\ Active /\ (\A c \in OnSide("text") : c.op # "load") => detail.story = shown
    /\ Active /\ (\A c \in OnSide("text") : c.op # "load" /\ ~(c.op = "save" /\ c.net = "ok")) =>
         detail.text = srv.text[shown]

TasksCall(c) ==
    /\ c.op = "createTask" /\ c.net # "ok" => detail.tasks = SetTask(srv.tasks[shown], Temp, "TODO")
    /\ c.op = "createTask" /\ c.net = "ok" =>
         detail.tasks = SetTask(DropTask(srv.tasks[shown], c.answer.story), Temp, "TODO")
    /\ c.op = "createTask" /\ c.net = "ok" =>
         c.answer.story \in DOMAIN srv.tasks[shown] /\ srv.tasks[shown][c.answer.story] = "TODO"
    /\ c.op \in {"patchTask", "deleteTask"} /\ c.net # "ok" => c.old.tasks = srv.tasks[shown]
    /\ c.op = "patchTask" => c.arg.id \in DOMAIN srv.tasks[shown] /\ c.arg.id \in DOMAIN c.old.tasks
    /\ c.op = "patchTask" => detail.tasks = SetTask(srv.tasks[shown], c.arg.id, c.arg.status)
    /\ c.op = "patchTask" /\ c.net = "ok" => srv.tasks[shown][c.arg.id] = c.arg.status
    /\ c.op = "deleteTask" => detail.tasks = DropTask(srv.tasks[shown], c.arg.id)
    /\ c.op = "deleteTask" /\ c.net = "ok" => c.arg.id \notin DOMAIN srv.tasks[shown]
TasksAgree ==
    /\ \A c, d \in OnSide("tasks") : c = d
    /\ \A c \in OnSide("tasks") :
         /\ c.key = shown
         /\ c.op = "load" /\ c.net = "ok" => c.answer.tasks = srv.tasks[shown]
         /\ c.op # "load" /\ Active => TasksCall(c)
    /\ Active /\ OnSide("tasks") = {} => detail.tasks = srv.tasks[shown]

LabelsCall(c) ==
    /\ c.op \in {"attach", "detach"} /\ c.net = "ok" => labels.set = srv.labels[shown]
    /\ c.op \in {"attach", "detach"} /\ c.net # "ok" => c.old.labels = srv.labels[shown]
    /\ c.op = "attach" /\ c.net = "sent" => labels.set = srv.labels[shown] \cup {c.arg.id}
    /\ c.op = "detach" /\ c.net = "sent" => labels.set = srv.labels[shown] \ {c.arg.id}
    /\ c.op = "labels" => detail.labels = srv.labels[shown]
    /\ c.op \in {"save", "status", "deleteItem"} => labels.set = srv.labels[shown]
LabelsAgree ==
    /\ \A c, d \in OnSide("labels") : c = d \/ {c.op, d.op} = {"load", "labels"}
    /\ \A c \in OnSide("labels") :
         /\ c.op # "labels" => c.key = shown
         /\ c.op = "load" /\ c.net = "ok" => c.answer.labels = srv.labels[shown]
    /\ Active /\ (\A c \in OnSide("labels") : c.op # "load") => \A c \in OnSide("labels") : LabelsCall(c)
    /\ Active /\ OnSide("labels") = {} => labels.set = srv.labels[shown]

Clear(x) == shown # NoKey /\ <<x, shown>> \notin blurred

SidesAgree ==
    page = "detail" =>
    /\ shown \in DetailStories \cup {NoKey} /\ DetailServer
    /\ labels = [of |-> labels.of, set |-> labels.set]
    /\ \A c \in calls : DetailOp(c)
    /\ Clear("text") => TextAgrees
    /\ Clear("tasks") => TasksAgree
    /\ Clear("labels") => LabelsAgree

LEMMA SidesAre ==
  ASSUME NEW op \in DetailWrites \cup {"load", "labels"}
  PROVE  /\ "text" \in SidesOf(op) <=> op \in {"load", "save", "status", "deleteItem"}
         /\ "tasks" \in SidesOf(op) <=> op \in {"load", "createTask", "patchTask", "deleteTask"}
         /\ "labels" \in SidesOf(op) <=>
              op \in {"load", "labels", "save", "status", "deleteItem", "attach", "detach"}
<1>1. CASE op = "load"
  BY <1>1 DEF SidesOf, Sides
<1>2. CASE op \in {"save", "status", "deleteItem"}
  BY <1>2 DEF SidesOf, Sides
<1>3. CASE op \in {"labels", "attach", "detach"}
  BY <1>3 DEF SidesOf, Sides
<1>4. CASE op \in {"createTask", "patchTask", "deleteTask"}
  BY <1>4 DEF SidesOf, Sides
<1> QED BY <1>1, <1>2, <1>3, <1>4 DEF DetailWrites

\* What a step must leave alone for a side to stay as it is.
LEMMA TextQuiet ==
  ASSUME Clear("text") => TextAgrees, shown' = shown, blurred \subseteq blurred', OnSide("text")' = OnSide("text"),
         Active' => Active, detail'.story = detail.story, detail'.text = detail.text,
         srv'.text[shown] = srv.text[shown]
  PROVE  Clear("text")' => TextAgrees'
<1> SUFFICES ASSUME Clear("text")' PROVE TextAgrees'
  OBVIOUS
<1>1. TextAgrees
  BY DEF Clear
<1> QED BY <1>1 DEF TextAgrees

LEMMA TasksQuiet ==
  ASSUME Clear("tasks") => TasksAgree, shown' = shown, blurred \subseteq blurred', OnSide("tasks")' = OnSide("tasks"),
         Active' => Active, detail'.tasks = detail.tasks,
         srv'.tasks[shown] = srv.tasks[shown]
  PROVE  Clear("tasks")' => TasksAgree'
<1> SUFFICES ASSUME Clear("tasks")' PROVE TasksAgree'
  OBVIOUS
<1>1. TasksAgree
  BY DEF Clear
<1>2. \A c : TasksCall(c) => TasksCall(c)'
  BY DEF TasksCall, SetTask, DropTask
<1> QED BY <1>1, <1>2 DEF TasksAgree

LEMMA LabelsQuiet ==
  ASSUME Clear("labels") => LabelsAgree, shown' = shown, blurred \subseteq blurred', OnSide("labels")' = OnSide("labels"),
         Active' => Active, detail'.labels = detail.labels, labels'.set = labels.set,
         srv'.labels[shown] = srv.labels[shown]
  PROVE  Clear("labels")' => LabelsAgree'
<1> SUFFICES ASSUME Clear("labels")' PROVE LabelsAgree'
  OBVIOUS
<1>1. LabelsAgree
  BY DEF Clear
<1>2. \A c : LabelsCall(c) => LabelsCall(c)'
  BY DEF LabelsCall
<1> QED BY <1>1, <1>2 DEF LabelsAgree

\* The requests of a side when one begins, ends or is answered.
LEMMA OnAdded ==
  ASSUME NEW d, calls' = calls \cup {d}, NEW x
  PROVE  /\ x \in SidesOf(d.op) => OnSide(x)' = OnSide(x) \cup {d}
         /\ x \notin SidesOf(d.op) => OnSide(x)' = OnSide(x)
BY DEF OnSide

LEMMA OnRemoved ==
  ASSUME NEW c \in calls, calls' = calls \ {c}, NEW x
  PROVE  /\ x \in SidesOf(c.op) => OnSide(x)' = OnSide(x) \ {c}
         /\ x \notin SidesOf(c.op) => OnSide(x)' = OnSide(x)
BY DEF OnSide

LEMMA OnReplaced ==
  ASSUME NEW c \in calls, NEW e, e.op = c.op, calls' = (calls \ {c}) \cup {e}, NEW x
  PROVE  /\ x \in SidesOf(c.op) => OnSide(x)' = (OnSide(x) \ {c}) \cup {e}
         /\ x \notin SidesOf(c.op) => OnSide(x)' = OnSide(x)
BY DEF OnSide

\* A render changes only which labels are being fetched.
LEMMA RenderCalls ==
  ASSUME NEW s, NEW d, NEW dr, NEW cs, NEW fresh, Render(s, d, dr, cs, fresh),
         \A c \in cs : DetailOp(c)'
  PROVE  /\ shown' = s /\ detail' = d
         /\ \A c \in calls' : DetailOp(c)'
         /\ \A c : c.op # "labels" => (c \in calls' <=> c \in cs)
         /\ ActiveItem(s, d) /\ ~fresh => calls' = cs
         /\ ~ActiveItem(s, d) => \A c \in calls' : c.op # "labels"
         /\ ActiveItem(s, d) /\ fresh => \E l \in calls' : l.op = "labels" /\ \A c \in calls' : c.op = "labels" => c = l
<1> DEFINE active == ActiveItem(s, d)
           kept == IF active /\ ~fresh THEN cs ELSE {c \in cs : c.op # "labels"}
<1>0. PICK load : load = DetailCall("labels", d.story, "fetch", NoKey, "TODO")
  OBVIOUS
<1>1. /\ shown' = s /\ detail' = d
      /\ calls' = IF active /\ fresh THEN kept \cup {load} ELSE kept
  BY <1>0 DEF Render
<1>2. load.op = "labels" /\ Fetching(load)
  BY <1>0 DEF DetailCall, NewCall, Fetching
<1>3. \A c \in cs : DetailOp(c)'
  OBVIOUS
<1>4. DetailOp(load)'
  BY <1>2 DEF DetailOp, Fetching
<1>5. \A c \in calls' : c \in cs \/ c = load
  BY <1>1
<1> QED BY <1>1, <1>2, <1>3, <1>4, <1>5

LEMMA OpStays ==
  ASSUME NEW c, DetailOp(c), shown' = shown
  PROVE  DetailOp(c)'
BY DEF DetailOp, Fetching

LEMMA DetailCallFields ==
  ASSUME NEW op, NEW s, NEW phase, NEW id, NEW status, NEW d, d = DetailCall(op, s, phase, id, status)
  PROVE  /\ d.op = op /\ d.key = s /\ d.phase = phase /\ d.net = "sent"
         /\ d.arg.id = id /\ d.arg.status = status
         /\ op \in {"patchTask", "deleteTask"} => d.old.tasks = detail.tasks
         /\ op \in {"attach", "detach"} => d.old.labels = labels.set
BY DEF DetailCall, NewCall, DetailArg, Previous

LEMMA OpenAgrees ==
  ASSUME DraftInv, SidesAgree, page = "detail", page' = page, NEW s \in DetailStories, OpenDetail(s)
  PROVE  SidesAgree'
<1>1. PICK load : load = DetailCall("load", s, "fetch", NoKey, "TODO")
  OBVIOUS
<1>2. load.op = "load" /\ load.key = s /\ load.phase = "fetch" /\ load.net = "sent"
  BY <1>1, DetailCallFields
<1>3. shown = NoKey /\ UNCHANGED srv /\ Render(s, detail, draft, calls \cup {load}, TRUE) /\ shown' = s
  BY <1>1 DEF OpenDetail, Render
<1>4. s # NoKey
  BY DetailAssumption
<1>5. \A c \in calls \cup {load} : DetailOp(c)'
  BY <1>2, <1>3, <1>4 DEF SidesAgree, DetailOp, Fetching
<1>6. PICK cs : cs = calls \cup {load}
  OBVIOUS
<1>7. /\ detail' = detail /\ \A c \in calls' : DetailOp(c)'
      /\ \A c : c.op # "labels" => (c \in calls' <=> c \in cs)
      /\ ActiveItem(s, detail) => \E l \in calls' : l.op = "labels" /\ \A c \in calls' : c.op = "labels" => c = l
      /\ ~ActiveItem(s, detail) => \A c \in calls' : c.op # "labels"
  <2>1. PICK d, dr, fresh : d = detail /\ dr = draft /\ fresh = TRUE
    OBVIOUS
  <2>2. Render(s, d, dr, cs, fresh) /\ fresh /\ \A c \in cs : DetailOp(c)'
    BY <1>3, <1>5, <1>6, <2>1
  <2> HIDE <2>1
  <2>3. detail' = d /\ \A c \in calls' : DetailOp(c)'
    BY <2>2, RenderCalls
  <2>4. \A c : c.op # "labels" => (c \in calls' <=> c \in cs)
    BY <2>2, RenderCalls
  <2>5. ActiveItem(s, d) /\ fresh => \E l \in calls' : l.op = "labels" /\ \A c \in calls' : c.op = "labels" => c = l
    BY <2>2, RenderCalls
  <2>6. ~ActiveItem(s, d) => \A c \in calls' : c.op # "labels"
    BY <2>2, RenderCalls
  <2> QED BY <2>1, <2>2, <2>3, <2>4, <2>5, <2>6
<1>8. labels' = [of |-> labels'.of, set |-> labels'.set]
  BY DEF OpenDetail, SidesAgree, LabelsOf
<1>9. \A x \in Sides : <<x, s>> \notin blurred' => OnSide(x) = {}
  <2> SUFFICES ASSUME NEW x \in Sides, <<x, s>> \notin blurred', NEW c \in OnSide(x) PROVE FALSE
    OBVIOUS
  <2>1. c \in calls /\ x \in SidesOf(c.op)
    BY DEF OnSide
  <2>2. x \in Touched(calls)
    BY <2>1 DEF Touched
  <2>3. calls # {} /\ blurred' = blurred \cup Blur(s, Touched(calls))
    BY <2>1 DEF OpenDetail
  <2> QED BY <2>2, <2>3 DEF Blur
<1>10. \A c \in calls' : DetailOp(c)' /\ c.op \in DetailWrites \cup {"load", "labels"}
  BY <1>7 DEF DetailOp
<1>11. \A x \in Sides : <<x, s>> \notin blurred' => \A c \in OnSide(x)' : c = load \/ c.op = "labels"
  BY <1>6, <1>7, <1>9 DEF OnSide
<1>12. load \in calls' /\ \A x \in Sides : load \in OnSide(x)'
  BY <1>2, <1>6, <1>7 DEF OnSide, SidesOf
<1>13. \A c \in calls' : c.op = "labels" => "text" \notin SidesOf(c.op) /\ "tasks" \notin SidesOf(c.op)
  BY SidesAre
<1>14. Clear("text")' => TextAgrees'
  <2> SUFFICES ASSUME Clear("text")' PROVE TextAgrees'
    OBVIOUS
  <2>1. OnSide("text")' = {load}
    BY <1>3, <1>11, <1>12, <1>13 DEF Clear, OnSide, Sides
  <2> QED BY <1>2, <1>3, <2>1 DEF TextAgrees
<1>15. Clear("tasks")' => TasksAgree'
  <2> SUFFICES ASSUME Clear("tasks")' PROVE TasksAgree'
    OBVIOUS
  <2>1. OnSide("tasks")' = {load}
    BY <1>3, <1>11, <1>12, <1>13 DEF Clear, OnSide, Sides
  <2> QED BY <1>2, <1>3, <2>1 DEF TasksAgree
<1>16. Clear("labels")' => LabelsAgree'
  <2> SUFFICES ASSUME Clear("labels")' PROVE LabelsAgree'
    OBVIOUS
  <2>1. \A c \in OnSide("labels")' : c = load \/ c.op = "labels"
    BY <1>3, <1>11 DEF Clear, Sides
  <2>2. \A c, d \in OnSide("labels")' : c.op = "labels" /\ d.op = "labels" => c = d
    BY <1>7 DEF OnSide
  <2>3. \A c, d \in OnSide("labels")' : c = d \/ {c.op, d.op} = {"load", "labels"}
    BY <1>2, <2>1, <2>2
  <2>4. load \in OnSide("labels")'
    BY <1>12 DEF Sides
  <2> QED BY <1>2, <1>3, <2>1, <2>3, <2>4 DEF LabelsAgree
<1>17. DetailServer'
  BY <1>3 DEF SidesAgree, DetailServer
<1> QED BY <1>3, <1>7, <1>8, <1>14, <1>15, <1>16, <1>17 DEF SidesAgree

\* Nothing is shown any more.
LEMMA CloseAgrees ==
  ASSUME DraftInv, SidesAgree, page = "detail", page' = page, NEW cs \in SUBSET calls, \A c \in cs : ~Fetching(c),
         Render(NoKey, detail, NoDraft, cs, FALSE), ResetDetail, UNCHANGED srv
  PROVE  SidesAgree'
<1>1. \A c \in cs : DetailOp(c) /\ c.op # "load"
  BY DEF DraftInv, CallInv, SidesAgree
<1>2. \A c \in cs : DetailOp(c)'
  BY <1>1 DEF DetailOp, Fetching
<1>3. shown' = NoKey /\ \A c \in calls' : DetailOp(c)'
  BY <1>2, RenderCalls
<1>4. labels' = [of |-> labels'.of, set |-> labels'.set]
  BY DEF ResetDetail, LabelsOf
<1>5. DetailServer'
  BY DEF SidesAgree, DetailServer
<1> QED BY <1>3, <1>4, <1>5 DEF SidesAgree, Clear

LEMMA OthersQuiet ==
  ASSUME DraftInv, SidesAgree, page = "detail", page' = page,
         UNCHANGED <<srv, calls, shown, detail, labels>>, blurred \subseteq blurred'
  PROVE  SidesAgree'
<1>1. Active' => Active
  BY DEF Active, ActiveItem
<1>2. \A x : OnSide(x)' = OnSide(x)
  BY DEF OnSide
<1>3. DetailServer' /\ \A c \in calls' : DetailOp(c)'
  BY OpStays DEF SidesAgree, DetailServer
<1>4. Clear("text")' => TextAgrees'
  BY <1>1, <1>2, TextQuiet DEF SidesAgree
<1>5. Clear("tasks")' => TasksAgree'
  BY <1>1, <1>2, TasksQuiet DEF SidesAgree
<1>6. Clear("labels")' => LabelsAgree'
  BY <1>1, <1>2, LabelsQuiet DEF SidesAgree
<1> QED BY <1>3, <1>4, <1>5, <1>6 DEF SidesAgree

LEMMA ElsewhereAgrees ==
  ASSUME DraftInv, SidesAgree, page = "detail", page' = page, NEW s \in DetailStories, NEW x \in Texts,
         ChangedElsewhere(s, x)
  PROVE  SidesAgree'
<1>1. UNCHANGED <<calls, shown, detail, labels>> /\ blurred' = blurred \cup Blur(s, {"text"})
  BY DEF ChangedElsewhere
<1>2. PICK f : f = [srv.text EXCEPT ![s] = x]
  OBVIOUS
<1>3. srv' = [srv EXCEPT !.text = f]
  BY <1>2 DEF ChangedElsewhere
<1>4. srv' = [there |-> srv.there, text |-> f, labels |-> srv.labels, tasks |-> srv.tasks]
  BY <1>3 DEF SidesAgree, DetailServer
<1>5. FunctionOn(f, DetailStories) /\ \A y \in DetailStories : y # s => f[y] = srv.text[y]
  BY <1>2 DEF SidesAgree, DetailServer, FunctionOn
<1>6. DetailServer'
  BY <1>4, <1>5 DEF SidesAgree, DetailServer, FunctionOn
<1>7. Active' => Active
  BY <1>1 DEF Active, ActiveItem
<1>8. \A y : OnSide(y)' = OnSide(y)
  BY <1>1 DEF OnSide
<1>9. \A c \in calls' : DetailOp(c)'
  BY <1>1, OpStays DEF SidesAgree
<1>10. Clear("text")' => TextAgrees'
  <2>1. CASE shown # s /\ shown # NoKey
    <3>1. srv'.text[shown] = srv.text[shown]
      BY <1>4, <1>5, <2>1 DEF SidesAgree
    <3> QED BY <1>1, <1>7, <1>8, <3>1, TextQuiet DEF SidesAgree
  <2>2. CASE shown = s \/ shown = NoKey
    BY <1>1, <2>2 DEF Clear, Blur
  <2> QED BY <2>1, <2>2
<1>11. Clear("tasks")' => TasksAgree'
  BY <1>1, <1>4, <1>7, <1>8, TasksQuiet DEF SidesAgree
<1>12. Clear("labels")' => LabelsAgree'
  BY <1>1, <1>4, <1>7, <1>8, LabelsQuiet DEF SidesAgree
<1> QED BY <1>1, <1>6, <1>9, <1>10, <1>11, <1>12 DEF SidesAgree

-----------------------------------------------------------------------------
LEMMA TasksFields ==
  ASSUME NEW d, DetailShape(d), NEW t, NEW e, e = [d EXCEPT !.tasks = t]
  PROVE  e.tasks = t /\ e.for = d.for /\ e.kind = d.kind /\ e.story = d.story /\ e.text = d.text /\ e.labels = d.labels
BY DEF DetailShape

\* A write that begins has the sides that stay clear for itself.
Began(op, d) ==
    /\ d.op = op /\ d.net = "sent"
    /\ calls' = calls \cup {d} /\ \A c \in calls' : DetailOp(c)'
    /\ blurred \subseteq blurred'
    /\ \A x \in SidesOf(op) : Clear(x)' => Clear(x) /\ OnSide(x) = {} /\ OnSide(x)' = {d} /\ d.key = shown
    /\ \A x \in Sides : x \notin SidesOf(op) => OnSide(x)' = OnSide(x)

LEMMA WriteBegins ==
  ASSUME SidesAgree, page = "detail", NEW op \in DetailWrites, NEW id, NEW status, SendWrite(op, id, status),
         op = "createTask" => id = Temp, shown' = shown
  PROVE  \E d : /\ Began(op, d) /\ d.arg.id = id /\ d.arg.status = status
                /\ op \in {"patchTask", "deleteTask"} => d.old.tasks = detail.tasks
                /\ op \in {"attach", "detach"} => d.old.labels = labels.set
<1>1. PICK d : d = DetailCall(op, detail.story, op, id, status)
  OBVIOUS
<1>0. PICK s : s = detail.story
  OBVIOUS
<1>2. d = DetailCall(op, s, op, id, status)
  BY <1>0, <1>1
<1>3. /\ d.op = op /\ d.key = s /\ d.phase = op /\ d.net = "sent"
      /\ d.arg.id = id /\ d.arg.status = status
      /\ op \in {"patchTask", "deleteTask"} => d.old.tasks = detail.tasks
      /\ op \in {"attach", "detach"} => d.old.labels = labels.set
  BY <1>2, DetailCallFields
<1>4. calls' = calls \cup {d}
  BY <1>1 DEF SendWrite
<1>5. DetailOp(d)'
  BY <1>3 DEF DetailOp, DetailWrites
<1>6. \A c \in calls' : DetailOp(c)'
  BY <1>4, <1>5, OpStays DEF SidesAgree
<1>7. PICK same : same = SidesOf(op) \cap Touched(calls)
  OBVIOUS
<1>8. blurred' = blurred \cup (IF same = {} /\ s = shown THEN {} ELSE Blur(shown, Sides))
  BY <1>0, <1>7 DEF SendWrite
<1>9. op \in DetailWrites \cup {"load", "labels"} /\ SidesOf(op) \subseteq Sides
  BY DEF SidesOf, Sides, DetailWrites
<1>10. ASSUME NEW x \in SidesOf(op), Clear(x)'
       PROVE  Clear(x) /\ OnSide(x) = {} /\ OnSide(x)' = {d} /\ d.key = shown
  <2>1. <<x, shown>> \notin blurred' /\ shown # NoKey
    BY <1>10 DEF Clear
  <2>2. same = {} /\ s = shown
    BY <1>8, <1>9, <2>1 DEF Blur
  <2>3. OnSide(x) = {}
    BY <1>7, <2>2 DEF OnSide, Touched
  <2>4. OnSide(x)' = {d}
    BY <1>3, <1>4, <2>3, OnAdded
  <2> QED BY <1>3, <1>8, <2>1, <2>2, <2>3, <2>4 DEF Clear
<1>11. \A x \in Sides : x \notin SidesOf(op) => OnSide(x)' = OnSide(x)
  BY <1>3, <1>4, OnAdded
<1>12. Began(op, d)
  BY <1>3, <1>4, <1>6, <1>8, <1>10, <1>11 DEF Began
<1> QED BY <1>3, <1>12

LEMMA TextBegins ==
  ASSUME SidesAgree, page = "detail", NEW op \in {"save", "status", "deleteItem"}, NEW d, Began(op, d),
         UNCHANGED <<srv, shown, detail>>
  PROVE  Clear("text")' => TextAgrees'
<1> SUFFICES ASSUME Clear("text")' PROVE TextAgrees'
  OBVIOUS
<1>1. "text" \in SidesOf(op)
  BY SidesAre DEF DetailWrites
<1>2. Clear("text") /\ OnSide("text") = {} /\ OnSide("text")' = {d} /\ d.key = shown /\ d.op = op /\ d.net = "sent"
  BY <1>1 DEF Began
<1>3. Active' = Active
  BY DEF Active, ActiveItem
<1> QED BY <1>2, <1>3 DEF SidesAgree, TextAgrees

LEMMA LabelsBegin ==
  ASSUME SidesAgree, page = "detail", NEW op \in {"save", "status", "deleteItem", "attach", "detach"}, NEW d, Began(op, d),
         UNCHANGED <<srv, shown, detail>>,
         op \in {"save", "status", "deleteItem"} => labels'.set = labels.set,
         op = "attach" => labels'.set = labels.set \cup {d.arg.id} /\ d.old.labels = labels.set,
         op = "detach" => labels'.set = labels.set \ {d.arg.id} /\ d.old.labels = labels.set
  PROVE  Clear("labels")' => LabelsAgree'
<1> SUFFICES ASSUME Clear("labels")' PROVE LabelsAgree'
  OBVIOUS
<1>1. "labels" \in SidesOf(op)
  BY SidesAre DEF DetailWrites
<1>2. Clear("labels") /\ OnSide("labels") = {} /\ OnSide("labels")' = {d} /\ d.key = shown /\ d.op = op /\ d.net = "sent"
  BY <1>1 DEF Began
<1>3. Active' = Active
  BY DEF Active, ActiveItem
<1>4. Active => labels.set = srv.labels[shown]
  BY <1>2 DEF SidesAgree, LabelsAgree
<1>5. Active' => LabelsCall(d)'
  BY <1>2, <1>3, <1>4 DEF LabelsCall
<1> QED BY <1>2, <1>3, <1>5 DEF LabelsAgree

LEMMA TasksBegin ==
  ASSUME SidesAgree, page = "detail", NEW op \in {"createTask", "patchTask", "deleteTask"}, NEW d, Began(op, d),
         UNCHANGED <<srv, shown>>, Active' => Active,
         Active /\ detail.tasks = srv.tasks[shown] => TasksCall(d)'
  PROVE  Clear("tasks")' => TasksAgree'
<1> SUFFICES ASSUME Clear("tasks")' PROVE TasksAgree'
  OBVIOUS
<1>1. "tasks" \in SidesOf(op)
  BY SidesAre DEF DetailWrites
<1>2. Clear("tasks") /\ OnSide("tasks") = {} /\ OnSide("tasks")' = {d} /\ d.key = shown /\ d.op = op /\ d.net = "sent"
  BY <1>1 DEF Began
<1>3. Active => detail.tasks = srv.tasks[shown]
  BY <1>2 DEF SidesAgree, TasksAgree
<1> QED BY <1>2, <1>3 DEF TasksAgree

LEMMA SaveAgrees ==
  ASSUME DraftInv, SidesAgree, page = "detail", page' = page, NEW op \in {"save", "status", "deleteItem"},
         SendWrite(op, NoKey, "TODO"), UNCHANGED <<srv, shown, detail, labels>>
  PROVE  SidesAgree'
<1>1. PICK d : Began(op, d)
  BY WriteBegins DEF DetailWrites
<1>2. Clear("text")' => TextAgrees'
  BY <1>1, TextBegins
<1>3. Clear("labels")' => LabelsAgree'
  BY <1>1, LabelsBegin
<1>4. OnSide("tasks")' = OnSide("tasks") /\ blurred \subseteq blurred' /\ \A c \in calls' : DetailOp(c)'
  BY <1>1, SidesAre DEF Began, Sides, DetailWrites
<1>5. Clear("tasks")' => TasksAgree'
  BY <1>4, TasksQuiet DEF SidesAgree, Active, ActiveItem
<1> QED BY <1>2, <1>3, <1>4, <1>5 DEF SidesAgree, DetailServer

LEMMA LabelAgrees ==
  ASSUME DraftInv, SidesAgree, page = "detail", page' = page, NEW x, AttachLabel(x) \/ DetachLabel(x)
  PROVE  SidesAgree'
<1>1. PICK op \in {"attach", "detach"} :
        /\ SendWrite(op, x, "TODO") /\ UNCHANGED <<srv, shown, detail>>
        /\ labels' = [labels EXCEPT !.set = IF op = "attach" THEN labels.set \cup {x} ELSE labels.set \ {x}]
  BY DEF AttachLabel, DetachLabel
<1>2. PICK d : Began(op, d) /\ d.arg.id = x /\ d.old.labels = labels.set
  BY <1>1, WriteBegins DEF DetailWrites
<1>3. labels' = [of |-> labels.of, set |-> IF op = "attach" THEN labels.set \cup {x} ELSE labels.set \ {x}]
  BY <1>1 DEF SidesAgree
<1>4. Clear("labels")' => LabelsAgree'
  BY <1>1, <1>2, <1>3, LabelsBegin
<1>5. /\ OnSide("tasks")' = OnSide("tasks") /\ OnSide("text")' = OnSide("text")
      /\ blurred \subseteq blurred' /\ \A c \in calls' : DetailOp(c)'
  BY <1>2, SidesAre DEF Began, Sides, DetailWrites
<1>6. Active' = Active
  BY <1>1 DEF Active, ActiveItem
<1>7. Clear("tasks")' => TasksAgree'
  BY <1>1, <1>5, <1>6, TasksQuiet DEF SidesAgree
<1>8. Clear("text")' => TextAgrees'
  BY <1>1, <1>5, <1>6, TextQuiet DEF SidesAgree
<1>9. DetailServer'
  BY <1>1 DEF SidesAgree, DetailServer
<1> QED BY <1>1, <1>3, <1>4, <1>5, <1>7, <1>8, <1>9 DEF SidesAgree

-----------------------------------------------------------------------------
\* A step that changes the tasks on show.
LEMMA TaskStep ==
  ASSUME DraftInv, SidesAgree, page = "detail", page' = page, NEW t, detail' = [detail EXCEPT !.tasks = t],
         UNCHANGED <<srv, shown, labels>>, blurred \subseteq blurred', \A c \in calls' : DetailOp(c)',
         OnSide("text")' = OnSide("text"), OnSide("labels")' = OnSide("labels"), Clear("tasks")' => TasksAgree'
  PROVE  SidesAgree'
<1>1. /\ detail'.for = detail.for /\ detail'.kind = detail.kind /\ detail'.story = detail.story
      /\ detail'.text = detail.text /\ detail'.labels = detail.labels
  BY TasksFields DEF DraftInv
<1>2. Active' = Active
  BY <1>1 DEF Active, ActiveItem
<1>3. Clear("text")' => TextAgrees'
  BY <1>1, <1>2, TextQuiet DEF SidesAgree
<1>4. Clear("labels")' => LabelsAgree'
  BY <1>1, <1>2, LabelsQuiet DEF SidesAgree
<1> QED BY <1>3, <1>4 DEF SidesAgree, DetailServer

LEMMA TaskWriteAgrees ==
  ASSUME DraftInv, SidesAgree, page = "detail", page' = page, NEW op \in {"createTask", "patchTask", "deleteTask"},
         NEW d, Began(op, d), NEW t, detail' = [detail EXCEPT !.tasks = t], UNCHANGED <<srv, shown, labels>>,
         Active /\ detail.tasks = srv.tasks[shown] /\ detail'.tasks = t => TasksCall(d)'
  PROVE  SidesAgree'
<1>1. /\ detail'.for = detail.for /\ detail'.kind = detail.kind /\ detail'.tasks = t
  BY TasksFields DEF DraftInv
<1>2. Active' => Active
  BY <1>1 DEF Active, ActiveItem
<1>3. Clear("tasks")' => TasksAgree'
  BY <1>1, <1>2, TasksBegin
<1>4. /\ OnSide("labels")' = OnSide("labels") /\ OnSide("text")' = OnSide("text")
      /\ blurred \subseteq blurred' /\ \A c \in calls' : DetailOp(c)'
  BY SidesAre DEF Began, Sides, DetailWrites
<1> QED BY <1>3, <1>4, TaskStep

LEMMA ShownTasks ==
  ASSUME SidesAgree, page = "detail", Active
  PROVE  /\ shown \in DetailStories
         /\ FunctionOn(srv.tasks[shown], DOMAIN srv.tasks[shown]) /\ DOMAIN srv.tasks[shown] \subseteq TaskIds
BY DEF SidesAgree, DetailServer, Active, ActiveItem

LEMMA CreateAgrees ==
  ASSUME DraftInv, SidesAgree, page = "detail", page' = page, CreateTask
  PROVE  SidesAgree'
<1>1. /\ SendWrite("createTask", Temp, "TODO") /\ UNCHANGED <<srv, shown, labels>>
      /\ detail' = [detail EXCEPT !.tasks = SetTask(detail.tasks, Temp, "TODO")]
  BY DEF CreateTask
<1>2. PICK d : Began("createTask", d)
  BY <1>1, WriteBegins DEF DetailWrites
<1>3. PICK t : t = SetTask(detail.tasks, Temp, "TODO")
  OBVIOUS
<1>4. d.op = "createTask" /\ d.net = "sent"
  BY <1>2 DEF Began
<1>5. detail.tasks = srv.tasks[shown] /\ detail'.tasks = t => TasksCall(d)'
  BY <1>1, <1>3, <1>4 DEF TasksCall, SetTask
<1> QED BY <1>1, <1>2, <1>3, <1>5, TaskWriteAgrees

LEMMA PatchAgrees ==
  ASSUME DraftInv, SidesAgree, page = "detail", page' = page, NEW t, NEW status, PatchTask(t, status)
  PROVE  SidesAgree'
<1>1. PICK f : f = [detail.tasks EXCEPT ![t] = status]
  OBVIOUS
<1>2. /\ detail' = [detail EXCEPT !.tasks = f] /\ UNCHANGED <<srv, shown, labels>>
      /\ Active /\ t \in DOMAIN detail.tasks
  BY <1>1 DEF PatchTask, DraftInv, DetailShape
<1>3. CASE SendWrite("patchTask", t, status)
  <2>1. PICK d : Began("patchTask", d) /\ d.arg.id = t /\ d.arg.status = status /\ d.old.tasks = detail.tasks
    BY <1>2, <1>3, WriteBegins DEF DetailWrites
  <2>2. d.op = "patchTask" /\ d.net = "sent"
    BY <2>1 DEF Began
  <2>3. ASSUME detail.tasks = srv.tasks[shown], detail'.tasks = f PROVE TasksCall(d)'
    <3>1. FunctionOn(detail.tasks, DOMAIN detail.tasks)
      BY <1>2, <2>3, ShownTasks
    <3>2. f = SetTask(detail.tasks, t, status)
      BY <1>1, <1>2, <3>1 DEF SetTask, FunctionOn
    <3> QED BY <1>2, <2>1, <2>2, <2>3, <3>2 DEF TasksCall, SetTask
  <2> QED BY <1>2, <2>1, <2>3, TaskWriteAgrees
<1>4. CASE blurred' = blurred \cup Blur(shown, {"tasks"}) /\ calls' = calls
  <2>1. \A x : OnSide(x)' = OnSide(x)
    BY <1>4 DEF OnSide
  <2>2. \A c \in calls' : DetailOp(c)'
    BY <1>2, <1>4, OpStays DEF SidesAgree
  <2>3. ~Clear("tasks")'
    BY <1>2, <1>4 DEF Clear, Blur
  <2> QED BY <1>2, <1>4, <2>1, <2>2, <2>3, TaskStep
<1> QED BY <1>3, <1>4 DEF PatchTask

LEMMA DropAgrees ==
  ASSUME DraftInv, SidesAgree, page = "detail", page' = page, NEW t, DeleteTask(t)
  PROVE  SidesAgree'
<1>1. /\ SendWrite("deleteTask", t, "TODO") /\ UNCHANGED <<srv, shown, labels>>
      /\ detail' = [detail EXCEPT !.tasks = DropTask(detail.tasks, t)]
  BY DEF DeleteTask
<1>2. PICK d : Began("deleteTask", d) /\ d.arg.id = t /\ d.old.tasks = detail.tasks
  BY <1>1, WriteBegins DEF DetailWrites
<1>3. PICK f : f = DropTask(detail.tasks, t)
  OBVIOUS
<1>4. d.op = "deleteTask" /\ d.net = "sent"
  BY <1>2 DEF Began
<1>5. detail.tasks = srv.tasks[shown] /\ detail'.tasks = f => TasksCall(d)'
  BY <1>1, <1>2, <1>3, <1>4 DEF TasksCall, DropTask
<1> QED BY <1>1, <1>2, <1>3, <1>5, TaskWriteAgrees

-----------------------------------------------------------------------------
\* The answer to a call.
AnswerOf(c, e, net, answer) ==
    /\ e.op = c.op /\ e.key = c.key /\ e.phase = c.phase /\ e.arg = c.arg /\ e.old = c.old
    /\ e.net = net /\ e.answer = answer

LEMMA AnsweredFields ==
  ASSUME NEW c, CallShape(c), NEW net, NEW answer, Answered(c, net, answer)
  PROVE  \E e : calls' = (calls \ {c}) \cup {e} /\ AnswerOf(c, e, net, answer)
<1>1. PICK e : e = [c EXCEPT !.net = net, !.answer = answer]
  OBVIOUS
<1>2. e = [n |-> c.n, op |-> c.op, key |-> c.key, project |-> c.project, phase |-> c.phase,
           net |-> net, arg |-> c.arg, old |-> c.old, answer |-> answer]
  BY <1>1, AnsweredShape
<1>3. AnswerOf(c, e, net, answer)
  BY <1>2 DEF AnswerOf
<1>4. calls' = (calls \ {c}) \cup {e}
  BY <1>1 DEF Answered, Replace
<1> QED BY <1>3, <1>4

LEMMA FetchAnswerAgrees ==
  ASSUME DraftInv, SidesAgree, page = "detail", page' = page, NEW c \in calls, DetailFetchAnswered(c)
  PROVE  SidesAgree'
<1>1. PICK net, answer : Answered(c, net, answer) /\ (net = "ok" => answer = Snapshot(c.key))
  <2>1. PICK snap, blank, failed : snap = Snapshot(c.key) /\ blank = Blank /\ failed = "failed"
    OBVIOUS
  <2>2. Answered(c, "ok", snap) \/ Answered(c, failed, blank)
    BY <2>1 DEF DetailFetchAnswered
  <2>3. CASE Answered(c, "ok", snap)
    BY <2>1, <2>3
  <2>4. CASE Answered(c, failed, blank)
    BY <2>1, <2>4
  <2> QED BY <2>2, <2>3, <2>4
<1>2. CallShape(c)
  BY DEF DraftInv, CallInv
<1>7. PICK e : calls' = (calls \ {c}) \cup {e} /\ AnswerOf(c, e, net, answer)
  BY <1>1, <1>2, AnsweredFields
<1>3. c.op = "load" /\ UNCHANGED <<srv, shown, detail, labels, blurred>>
  BY DEF DetailFetchAnswered
<1>4. /\ e.op = "load" /\ e.key = c.key /\ e.phase = c.phase /\ e.arg = c.arg
      /\ e.net = net /\ e.answer = answer
  BY <1>3, <1>7 DEF AnswerOf
<1>5. c.key = shown /\ shown # NoKey
  BY <1>3 DEF SidesAgree, DetailOp
<1>6. net = "ok" => /\ answer.text = srv.text[shown] /\ answer.tasks = srv.tasks[shown]
                    /\ answer.labels = srv.labels[shown]
  BY <1>1, <1>5 DEF Snapshot
<1>8. /\ \A d \in calls' : DetailOp(d)'
      /\ \A x \in Sides : OnSide(x)' = (OnSide(x) \ {c}) \cup {e} /\ c \in OnSide(x)
  <2>1. DetailOp(e)'
    BY <1>3, <1>4, <1>5 DEF DetailOp
  <2>2. \A x \in Sides : x \in SidesOf(c.op)
    BY <1>3 DEF SidesOf
  <2>3. \A x \in Sides : OnSide(x)' = (OnSide(x) \ {c}) \cup {e}
    BY <1>3, <1>4, <1>7, <2>2, OnReplaced
  <2> QED BY <1>3, <1>7, <2>1, <2>2, <2>3, OpStays DEF SidesAgree, OnSide
<1>9. \A x : Clear(x)' => Clear(x)
  BY <1>3 DEF Clear
<1>10. Clear("text")' => TextAgrees'
  <2> SUFFICES ASSUME Clear("text")' PROVE TextAgrees'
    OBVIOUS
  <2>1. OnSide("text")' = {e}
    BY <1>8, <1>9 DEF SidesAgree, TextAgrees, Sides
  <2> QED BY <1>3, <1>4, <1>5, <1>6, <2>1 DEF TextAgrees
<1>11. Clear("tasks")' => TasksAgree'
  <2> SUFFICES ASSUME Clear("tasks")' PROVE TasksAgree'
    OBVIOUS
  <2>1. OnSide("tasks")' = {e}
    BY <1>8, <1>9 DEF SidesAgree, TasksAgree, Sides
  <2> QED BY <1>3, <1>4, <1>5, <1>6, <2>1 DEF TasksAgree
<1>12. Clear("labels")' => LabelsAgree'
  <2> SUFFICES ASSUME Clear("labels")' PROVE LabelsAgree'
    OBVIOUS
  <2>1. LabelsAgree /\ OnSide("labels")' = (OnSide("labels") \ {c}) \cup {e} /\ c \in OnSide("labels")
    BY <1>8, <1>9 DEF SidesAgree, Sides
  <2>2. \A d \in OnSide("labels") \ {c} : d.op = "labels"
    BY <1>3, <2>1 DEF LabelsAgree
  <2>3. \A a, b \in OnSide("labels")' : a = b \/ {a.op, b.op} = {"load", "labels"}
    <3>1. \A a, b \in OnSide("labels") \ {c} : a = b
      BY <2>1, <2>2 DEF LabelsAgree
    <3> QED BY <1>4, <2>1, <2>2, <3>1
  <2> QED BY <1>3, <1>4, <1>5, <1>6, <2>1, <2>2, <2>3 DEF LabelsAgree
<1> QED BY <1>3, <1>8, <1>10, <1>11, <1>12 DEF SidesAgree, DetailServer

-----------------------------------------------------------------------------
\* What a write does to the server.
LEMMA Applied ==
  ASSUME DetailServer, NEW c, c.op \in DetailWrites, Apply(c)
  PROVE  /\ srv' = [there |-> srv'.there, text |-> srv'.text, labels |-> srv'.labels, tasks |-> srv'.tasks]
         /\ srv'.there \subseteq srv.there
         /\ IF c.op = "save" THEN srv'.text = [srv.text EXCEPT ![c.key] = c.arg.draft.text] ELSE srv'.text = srv.text
         /\ IF c.op = "attach" THEN srv'.labels = [srv.labels EXCEPT ![c.key] = @ \cup {c.arg.id}]
            ELSE IF c.op = "detach" THEN srv'.labels = [srv.labels EXCEPT ![c.key] = @ \ {c.arg.id}]
            ELSE srv'.labels = srv.labels
         /\ IF c.op = "createTask" THEN srv'.tasks = [srv.tasks EXCEPT ![c.key] = SetTask(@, NewTaskId(c.key), "TODO")]
            ELSE IF c.op = "patchTask"
            THEN srv'.tasks = [x \in DetailStories |-> IF c.arg.id \in DOMAIN srv.tasks[x]
                                 THEN SetTask(srv.tasks[x], c.arg.id, c.arg.status) ELSE srv.tasks[x]]
            ELSE IF c.op = "deleteTask" THEN srv'.tasks = [x \in DetailStories |-> DropTask(srv.tasks[x], c.arg.id)]
            ELSE srv'.tasks = srv.tasks
<1>1. srv = [there |-> srv.there, text |-> srv.text, labels |-> srv.labels, tasks |-> srv.tasks]
  BY DEF DetailServer
<1>2. CASE c.op = "save"
  <2>1. PICK f : f = [srv.text EXCEPT ![c.key] = c.arg.draft.text]
    OBVIOUS
  <2>2. srv' = [srv EXCEPT !.text = f]
    BY <1>2, <2>1 DEF Apply
  <2>3. srv' = [there |-> srv.there, text |-> f, labels |-> srv.labels, tasks |-> srv.tasks]
    BY <1>1, <2>2
  <2> QED BY <1>2, <2>1, <2>3
<1>3. CASE c.op = "deleteItem"
  <2>1. PICK f : f = srv.there \ {c.key}
    OBVIOUS
  <2>2. srv' = [srv EXCEPT !.there = f]
    BY <1>3, <2>1 DEF Apply
  <2>3. srv' = [there |-> f, text |-> srv.text, labels |-> srv.labels, tasks |-> srv.tasks]
    BY <1>1, <2>2
  <2> QED BY <1>3, <2>1, <2>3
<1>4. CASE c.op = "attach"
  <2>1. PICK f : f = [srv.labels EXCEPT ![c.key] = @ \cup {c.arg.id}]
    OBVIOUS
  <2>2. srv' = [srv EXCEPT !.labels = f]
    BY <1>4, <2>1 DEF Apply
  <2>3. srv' = [there |-> srv.there, text |-> srv.text, labels |-> f, tasks |-> srv.tasks]
    BY <1>1, <2>2
  <2> QED BY <1>4, <2>1, <2>3
<1>5. CASE c.op = "detach"
  <2>1. PICK f : f = [srv.labels EXCEPT ![c.key] = @ \ {c.arg.id}]
    OBVIOUS
  <2>2. srv' = [srv EXCEPT !.labels = f]
    BY <1>5, <2>1 DEF Apply
  <2>3. srv' = [there |-> srv.there, text |-> srv.text, labels |-> f, tasks |-> srv.tasks]
    BY <1>1, <2>2
  <2> QED BY <1>5, <2>1, <2>3
<1>6. CASE c.op = "createTask"
  <2>1. PICK f : f = [srv.tasks EXCEPT ![c.key] = SetTask(@, NewTaskId(c.key), "TODO")]
    OBVIOUS
  <2>2. srv' = [srv EXCEPT !.tasks = f]
    BY <1>6, <2>1 DEF Apply
  <2>3. srv' = [there |-> srv.there, text |-> srv.text, labels |-> srv.labels, tasks |-> f]
    BY <1>1, <2>2
  <2> QED BY <1>6, <2>1, <2>3
<1>7. CASE c.op = "patchTask"
  <2>1. PICK f : f = [x \in DetailStories |-> IF c.arg.id \in DOMAIN srv.tasks[x]
                        THEN SetTask(srv.tasks[x], c.arg.id, c.arg.status) ELSE srv.tasks[x]]
    OBVIOUS
  <2>2. srv' = [srv EXCEPT !.tasks = f]
    BY <1>1, <1>7, <2>1 DEF Apply
  <2>3. srv' = [there |-> srv.there, text |-> srv.text, labels |-> srv.labels, tasks |-> f]
    BY <1>1, <2>2
  <2> QED BY <1>7, <2>1, <2>3
<1>8. CASE c.op = "deleteTask"
  <2>1. PICK f : f = [x \in DetailStories |-> DropTask(srv.tasks[x], c.arg.id)]
    OBVIOUS
  <2>2. srv' = [srv EXCEPT !.tasks = f]
    BY <1>1, <1>8, <2>1 DEF Apply
  <2>3. srv' = [there |-> srv.there, text |-> srv.text, labels |-> srv.labels, tasks |-> f]
    BY <1>1, <2>2
  <2> QED BY <1>8, <2>1, <2>3
<1>9. CASE c.op = "status"
  BY <1>1, <1>9 DEF Apply
<1> QED BY <1>2, <1>3, <1>4, <1>5, <1>6, <1>7, <1>8, <1>9 DEF DetailWrites

\* A new task's id is nobody's yet.
LEMMA NewTask ==
  ASSUME CanCreate, NEW s
  PROVE  NewTaskId(s) \in TaskIds /\ \A x \in DetailStories : NewTaskId(s) \notin DOMAIN srv.tasks[x]
BY DEF CanCreate, NewTaskId

LEMMA ServerStays ==
  ASSUME DetailServer, NEW c, c.op \in DetailWrites, Apply(c), c.op = "createTask" => CanCreate
  PROVE  DetailServer'
<1>1. FunctionOn(srv.text, DetailStories) /\ FunctionOn(srv.labels, DetailStories) /\ FunctionOn(srv.tasks, DetailStories)
  BY DEF DetailServer
<1>2. FunctionOn(srv'.text, DetailStories)
  BY <1>1, Applied DEF FunctionOn
<1>3. FunctionOn(srv'.labels, DetailStories)
  BY <1>1, Applied DEF FunctionOn
<1>4. FunctionOn(srv'.tasks, DetailStories)
  BY <1>1, Applied DEF FunctionOn
<1>5. ASSUME NEW s \in DetailStories
      PROVE  FunctionOn(srv'.tasks[s], DOMAIN srv'.tasks[s]) /\ DOMAIN srv'.tasks[s] \subseteq TaskIds
  <2>1. FunctionOn(srv.tasks[s], DOMAIN srv.tasks[s]) /\ DOMAIN srv.tasks[s] \subseteq TaskIds
    BY DEF DetailServer
  <2>2. CASE c.op = "createTask"
    <3>1. srv'.tasks = [srv.tasks EXCEPT ![c.key] = SetTask(@, NewTaskId(c.key), "TODO")]
      BY <2>2, Applied
    <3>2. NewTaskId(c.key) \in TaskIds
      BY <2>2, NewTask
    <3>3. CASE s = c.key
      <4>1. srv'.tasks[s] = SetTask(srv.tasks[s], NewTaskId(c.key), "TODO")
        BY <1>1, <3>1, <3>3 DEF FunctionOn
      <4> QED BY <2>1, <3>2, <4>1 DEF SetTask, FunctionOn
    <3>4. CASE s # c.key
      <4>1. srv'.tasks[s] = srv.tasks[s]
        BY <1>1, <3>1, <3>4 DEF FunctionOn
      <4> QED BY <2>1, <4>1
    <3> QED BY <3>3, <3>4
  <2>3. CASE c.op = "patchTask"
    <3>1. srv'.tasks[s] = IF c.arg.id \in DOMAIN srv.tasks[s]
                          THEN SetTask(srv.tasks[s], c.arg.id, c.arg.status) ELSE srv.tasks[s]
      BY <2>3, Applied
    <3> QED BY <2>1, <3>1 DEF SetTask, FunctionOn
  <2>4. CASE c.op = "deleteTask"
    <3>1. srv'.tasks[s] = DropTask(srv.tasks[s], c.arg.id)
      BY <2>4, Applied
    <3> QED BY <2>1, <3>1 DEF DropTask, FunctionOn
  <2>5. CASE c.op \notin {"createTask", "patchTask", "deleteTask"}
    <3>1. srv'.tasks = srv.tasks
      BY <2>5, Applied
    <3> QED BY <2>1, <3>1
  <2> QED BY <2>2, <2>3, <2>4, <2>5
<1>6. srv' = [there |-> srv'.there, text |-> srv'.text, labels |-> srv'.labels, tasks |-> srv'.tasks]
  BY Applied
<1> QED BY <1>2, <1>3, <1>4, <1>5, <1>6 DEF DetailServer

-----------------------------------------------------------------------------
\* The answer to a write, side by side.  It was carried out and answered, or refused, or
\* its answer was lost.
Carried(c, net, answer) ==
    /\ Apply(c) /\ (c.op = "createTask" => CanCreate) /\ net = "ok" /\ answer = WriteAnswer(c) /\ blurred' = blurred
WriteRefused(net) == net = "failed" /\ srv' = srv /\ blurred' = blurred
AnswerLost(c, net) ==
    Apply(c) /\ (c.op = "createTask" => CanCreate) /\ net = "failed" /\ blurred' = blurred \cup Blur(c.key, Sides)

LEMMA TextAnswered ==
  ASSUME SidesAgree, page = "detail", NEW c \in calls, c.op \in {"save", "status", "deleteItem"}, c.net = "sent",
         NEW e, NEW net, NEW answer, AnswerOf(c, e, net, answer), calls' = (calls \ {c}) \cup {e},
         UNCHANGED <<shown, detail, labels>>,
         Carried(c, net, answer) \/ WriteRefused(net) \/ AnswerLost(c, net)
  PROVE  Clear("text")' => TextAgrees'
<1> SUFFICES ASSUME Clear("text")' PROVE TextAgrees'
  OBVIOUS
<1>1. "text" \in SidesOf(c.op) /\ c.op \in DetailWrites
  BY SidesAre DEF DetailWrites
<1>2. blurred \subseteq blurred'
  BY DEF Carried, WriteRefused, AnswerLost
<1>3. TextAgrees /\ shown # NoKey /\ DetailServer /\ <<"text", shown>> \notin blurred'
  BY <1>2 DEF Clear, SidesAgree
<1>4. c.key = shown /\ c \in OnSide("text")
  BY <1>1, <1>3 DEF OnSide, TextAgrees
<1>5. OnSide("text") = {c}
  BY <1>3, <1>4 DEF TextAgrees
<1>6. /\ e.op = c.op /\ e.key = c.key /\ e.net = net /\ e.answer = answer
  BY DEF AnswerOf
<1>7. OnSide("text")' = {e}
  BY <1>1, <1>5, <1>6, OnReplaced
<1>8. Active' = Active
  BY DEF Active, ActiveItem
<1>9. CASE Carried(c, net, answer)
  <2>1. c.op # "save" => srv'.text = srv.text
    BY <1>1, <1>3, <1>9, Applied DEF Carried
  <2>2. answer = [[Blank EXCEPT !.story = c.key] EXCEPT !.text = srv'.text[c.key]]
    BY <1>9 DEF Carried, WriteAnswer, Blank
  <2>3. PICK one, text : one = [Blank EXCEPT !.story = c.key] /\ text = srv'.text[c.key]
    OBVIOUS
  <2>4. one = [kind |-> "loading", for |-> NoKey, story |-> c.key, text |-> NoKey, labels |-> {}, tasks |-> NoTasks]
    BY <2>3 DEF Blank
  <2>5. answer = [one EXCEPT !.text = text]
    BY <2>2, <2>3
  <2>6. answer.text = srv'.text[shown]
    BY <1>4, <2>3, <2>4, <2>5
  <2> QED BY <1>3, <1>4, <1>5, <1>6, <1>7, <1>8, <1>9, <2>1, <2>6 DEF TextAgrees, Carried
<1>10. CASE WriteRefused(net)
  BY <1>3, <1>4, <1>5, <1>6, <1>7, <1>8, <1>10 DEF TextAgrees, WriteRefused
<1>11. CASE AnswerLost(c, net)
  BY <1>3, <1>4, <1>11 DEF AnswerLost, Blur, Sides
<1> QED BY <1>9, <1>10, <1>11

LEMMA LabelsAnswered ==
  ASSUME SidesAgree, page = "detail", NEW c \in calls, c.net = "sent",
         c.op \in {"save", "status", "deleteItem", "attach", "detach"},
         NEW e, NEW net, NEW answer, AnswerOf(c, e, net, answer), calls' = (calls \ {c}) \cup {e},
         UNCHANGED <<shown, detail, labels>>,
         Carried(c, net, answer) \/ WriteRefused(net) \/ AnswerLost(c, net)
  PROVE  Clear("labels")' => LabelsAgree'
<1> SUFFICES ASSUME Clear("labels")' PROVE LabelsAgree'
  OBVIOUS
<1>1. "labels" \in SidesOf(c.op) /\ c.op \in DetailWrites
  BY SidesAre DEF DetailWrites
<1>2. blurred \subseteq blurred'
  BY DEF Carried, WriteRefused, AnswerLost
<1>3. LabelsAgree /\ shown \in DetailStories /\ DetailServer /\ <<"labels", shown>> \notin blurred'
  BY <1>2 DEF Clear, SidesAgree
<1>4. c.key = shown /\ c \in OnSide("labels")
  BY <1>1, <1>3 DEF OnSide, LabelsAgree
<1>5. OnSide("labels") = {c}
  BY <1>3, <1>4 DEF LabelsAgree
<1>6. /\ e.op = c.op /\ e.key = c.key /\ e.net = net /\ e.answer = answer /\ e.arg = c.arg /\ e.old = c.old
  BY DEF AnswerOf
<1>7. OnSide("labels")' = {e}
  BY <1>1, <1>5, <1>6, OnReplaced
<1>8. Active' = Active
  BY DEF Active, ActiveItem
<1>12. Active => LabelsCall(c)
  BY <1>3, <1>5 DEF LabelsAgree
<1>9. CASE Carried(c, net, answer)
  <2>1. /\ c.op \in {"save", "status", "deleteItem"} => srv'.labels = srv.labels
        /\ c.op = "attach" => srv'.labels = [srv.labels EXCEPT ![c.key] = @ \cup {c.arg.id}]
        /\ c.op = "detach" => srv'.labels = [srv.labels EXCEPT ![c.key] = @ \ {c.arg.id}]
    BY <1>1, <1>3, <1>9, Applied DEF Carried
  <2>2. /\ c.op = "attach" => srv'.labels[shown] = srv.labels[shown] \cup {c.arg.id}
        /\ c.op = "detach" => srv'.labels[shown] = srv.labels[shown] \ {c.arg.id}
    BY <1>3, <1>4, <2>1 DEF DetailServer, FunctionOn
  <2>3. Active' => LabelsCall(e)'
    BY <1>6, <1>8, <1>9, <1>12, <2>1, <2>2 DEF LabelsCall, Carried
  <2> QED BY <1>4, <1>6, <1>7, <1>8, <2>3 DEF LabelsAgree
<1>10. CASE WriteRefused(net)
  <2>1. Active' => LabelsCall(e)'
    BY <1>6, <1>8, <1>10, <1>12 DEF LabelsCall, WriteRefused
  <2> QED BY <1>4, <1>6, <1>7, <1>8, <2>1 DEF LabelsAgree
<1>11. CASE AnswerLost(c, net)
  BY <1>3, <1>4, <1>11 DEF AnswerLost, Blur, Sides
<1> QED BY <1>9, <1>10, <1>11

LEMMA TasksAnswered ==
  ASSUME SidesAgree, page = "detail", NEW c \in calls, c.net = "sent",
         c.op \in {"createTask", "patchTask", "deleteTask"},
         NEW e, NEW net, NEW answer, AnswerOf(c, e, net, answer), calls' = (calls \ {c}) \cup {e},
         UNCHANGED <<shown, detail, labels>>,
         Carried(c, net, answer) \/ WriteRefused(net) \/ AnswerLost(c, net)
  PROVE  Clear("tasks")' => TasksAgree'
<1> SUFFICES ASSUME Clear("tasks")' PROVE TasksAgree'
  OBVIOUS
<1>1. "tasks" \in SidesOf(c.op) /\ c.op \in DetailWrites
  BY SidesAre DEF DetailWrites
<1>2. blurred \subseteq blurred'
  BY DEF Carried, WriteRefused, AnswerLost
<1>3. TasksAgree /\ shown \in DetailStories /\ DetailServer /\ <<"tasks", shown>> \notin blurred'
  BY <1>2 DEF Clear, SidesAgree
<1>4. c.key = shown /\ c \in OnSide("tasks")
  BY <1>1, <1>3 DEF OnSide, TasksAgree
<1>5. OnSide("tasks") = {c}
  BY <1>3, <1>4 DEF TasksAgree
<1>6. /\ e.op = c.op /\ e.key = c.key /\ e.net = net /\ e.answer = answer /\ e.arg = c.arg /\ e.old = c.old
  BY DEF AnswerOf
<1>7. OnSide("tasks")' = {e}
  BY <1>1, <1>5, <1>6, OnReplaced
<1>8. Active' = Active
  BY DEF Active, ActiveItem
<1>12. Active => TasksCall(c)
  BY <1>3, <1>4 DEF TasksAgree
<1>13. FunctionOn(srv.tasks[shown], DOMAIN srv.tasks[shown]) /\ DOMAIN srv.tasks[shown] \subseteq TaskIds
  BY <1>3 DEF DetailServer
<1>9. CASE Carried(c, net, answer)
  <2>1. CASE c.op = "createTask"
    <3>1. PICK t : t = NewTaskId(c.key)
      OBVIOUS
    <3>2. answer.story = t
      BY <1>9, <2>1, <3>1 DEF Carried, WriteAnswer, Blank
    <3>3. t \notin DOMAIN srv.tasks[shown]
      BY <1>3, <1>9, <2>1, <3>1, NewTask DEF Carried
    <3>4. srv'.tasks = [srv.tasks EXCEPT ![c.key] = SetTask(@, t, "TODO")]
      BY <1>1, <1>3, <1>9, <2>1, <3>1, Applied DEF Carried
    <3>5. srv'.tasks[shown] = SetTask(srv.tasks[shown], t, "TODO")
      BY <1>3, <1>4, <3>4 DEF DetailServer, FunctionOn
    <3>6. DropTask(srv'.tasks[shown], t) = srv.tasks[shown]
      BY <1>13, <3>3, <3>5 DEF SetTask, DropTask, FunctionOn
    <3>7. t \in DOMAIN srv'.tasks[shown] /\ srv'.tasks[shown][t] = "TODO"
      BY <3>5 DEF SetTask
    <3>8. Active => detail.tasks = SetTask(srv.tasks[shown], Temp, "TODO")
      BY <1>12, <2>1 DEF TasksCall
    <3>9. Active' => TasksCall(e)'
      <4>1. SetTask(DropTask(srv.tasks[shown], e.answer.story), Temp, "TODO")' =
              SetTask(DropTask(srv'.tasks[shown'], e.answer.story), Temp, "TODO")
        BY DEF SetTask, DropTask
      <4> QED BY <1>6, <1>8, <1>9, <2>1, <3>2, <3>6, <3>7, <3>8, <4>1 DEF TasksCall, Carried
    <3> QED BY <1>4, <1>6, <1>7, <2>1, <3>9 DEF TasksAgree
  <2>2. CASE c.op = "patchTask"
    <3>1. PICK t, status : t = c.arg.id /\ status = c.arg.status
      OBVIOUS
    <3>2. srv'.tasks[shown] = IF t \in DOMAIN srv.tasks[shown] THEN SetTask(srv.tasks[shown], t, status)
                              ELSE srv.tasks[shown]
      BY <1>1, <1>3, <1>9, <2>2, <3>1, Applied DEF Carried
    <3>3. ASSUME Active PROVE TasksCall(e)'
      <4>1. /\ t \in DOMAIN srv.tasks[shown] /\ t \in DOMAIN c.old.tasks
            /\ detail.tasks = SetTask(srv.tasks[shown], t, status)
        BY <1>12, <2>2, <3>1, <3>3 DEF TasksCall
      <4>2. srv'.tasks[shown] = SetTask(srv.tasks[shown], t, status)
        BY <3>2, <4>1
      <4>3. /\ t \in DOMAIN srv'.tasks[shown] /\ srv'.tasks[shown][t] = status
            /\ SetTask(srv'.tasks[shown], t, status) = SetTask(srv.tasks[shown], t, status)
        BY <4>2 DEF SetTask
      <4>4. SetTask(srv.tasks[shown], t, status)' = SetTask(srv'.tasks[shown], t, status)
        BY DEF SetTask
      <4> QED BY <1>6, <1>9, <2>2, <3>1, <4>1, <4>3, <4>4 DEF TasksCall, Carried
    <3> QED BY <1>4, <1>6, <1>7, <1>8, <2>2, <3>3 DEF TasksAgree
  <2>3. CASE c.op = "deleteTask"
    <3>1. PICK t : t = c.arg.id
      OBVIOUS
    <3>2. srv'.tasks[shown] = DropTask(srv.tasks[shown], t)
      BY <1>1, <1>3, <1>9, <2>3, <3>1, Applied DEF Carried
    <3>3. ASSUME Active PROVE TasksCall(e)'
      <4>1. detail.tasks = DropTask(srv.tasks[shown], t)
        BY <1>12, <2>3, <3>1, <3>3 DEF TasksCall
      <4>3. /\ t \notin DOMAIN srv'.tasks[shown]
            /\ DropTask(srv'.tasks[shown], t) = DropTask(srv.tasks[shown], t)
        BY <3>2 DEF DropTask
      <4>4. DropTask(srv.tasks[shown], t)' = DropTask(srv'.tasks[shown], t)
        BY DEF DropTask
      <4> QED BY <1>6, <1>9, <2>3, <3>1, <4>1, <4>3, <4>4 DEF TasksCall, Carried
    <3> QED BY <1>4, <1>6, <1>7, <1>8, <2>3, <3>3 DEF TasksAgree
  <2> QED BY <2>1, <2>2, <2>3
<1>10. CASE WriteRefused(net)
  <2>1. Active' => TasksCall(e)'
    <3> SUFFICES ASSUME Active PROVE TasksCall(e)'
      BY <1>8
    <3>1. TasksCall(c)
      BY <1>12
    <3> QED BY <1>6, <1>10, <3>1 DEF TasksCall, WriteRefused, SetTask, DropTask
  <2> QED BY <1>4, <1>6, <1>7, <1>8, <2>1 DEF TasksAgree
<1>11. CASE AnswerLost(c, net)
  BY <1>3, <1>4, <1>11 DEF AnswerLost, Blur, Sides
<1> QED BY <1>9, <1>10, <1>11

LEMMA WriteAnswerAgrees ==
  ASSUME DraftInv, SidesAgree, page = "detail", page' = page, NEW c \in calls, DetailWriteAnswered(c)
  PROVE  SidesAgree'
<1>1. /\ CallShape(c) /\ DetailOp(c) /\ c.net = "sent" /\ Writing(c) /\ DetailServer
      /\ UNCHANGED <<shown, detail, labels>>
  BY DEF DraftInv, CallInv, SidesAgree, DetailWriteAnswered
<1>2. c.op \in DetailWrites
  BY <1>1 DEF DetailOp, DraftInv, CallInv, Writing, Fetching
<1>3. PICK net, answer :
        Answered(c, net, answer) /\ (Carried(c, net, answer) \/ WriteRefused(net) \/ AnswerLost(c, net))
  <2>1. PICK got, blank, ok, failed : got = WriteAnswer(c) /\ blank = Blank /\ ok = "ok" /\ failed = "failed"
    OBVIOUS
  <2>2. CASE Carried(c, ok, got) /\ Answered(c, ok, got)
    BY <2>2
  <2>3. CASE WriteRefused(failed) /\ Answered(c, failed, blank)
    BY <2>3
  <2>4. CASE AnswerLost(c, failed) /\ Answered(c, failed, blank)
    BY <2>4
  <2> QED BY <2>1, <2>2, <2>3, <2>4 DEF DetailWriteAnswered, Carried, WriteRefused, AnswerLost
<1>4. PICK e : calls' = (calls \ {c}) \cup {e} /\ AnswerOf(c, e, net, answer)
  BY <1>1, <1>3, AnsweredFields
<1>5. \A d \in calls' : DetailOp(d)'
  <2>1. DetailOp(e)'
    BY <1>1, <1>2, <1>4 DEF AnswerOf, DetailOp, DetailWrites, Fetching
  <2> QED BY <1>1, <1>4, <2>1, OpStays DEF SidesAgree
<1>6. blurred \subseteq blurred' /\ (Apply(c) \/ srv' = srv)
  BY <1>3 DEF Carried, WriteRefused, AnswerLost
<1>7. DetailServer'
  BY <1>1, <1>2, <1>3, ServerStays DEF Carried, WriteRefused, AnswerLost, DetailServer
<1>8. Active' = Active
  BY <1>1 DEF Active, ActiveItem
<1>9. \A x : x \notin SidesOf(c.op) => OnSide(x)' = OnSide(x)
  BY <1>4, OnReplaced DEF AnswerOf
<1>10. Clear("text")' => TextAgrees'
  <2>1. CASE c.op \in {"save", "status", "deleteItem"}
    BY <1>1, <1>3, <1>4, <2>1, TextAnswered
  <2>2. CASE c.op \notin {"save", "status", "deleteItem"}
    <3>1. srv'.text = srv.text
      BY <1>1, <1>2, <1>6, <2>2, Applied
    <3>2. OnSide("text")' = OnSide("text")
      BY <1>2, <1>9, <2>2, SidesAre DEF DetailWrites
    <3> QED BY <1>1, <1>6, <1>8, <3>1, <3>2, TextQuiet DEF SidesAgree
  <2> QED BY <2>1, <2>2
<1>11. Clear("tasks")' => TasksAgree'
  <2>1. CASE c.op \in {"createTask", "patchTask", "deleteTask"}
    BY <1>1, <1>3, <1>4, <2>1, TasksAnswered
  <2>2. CASE c.op \notin {"createTask", "patchTask", "deleteTask"}
    <3>1. srv'.tasks = srv.tasks
      BY <1>1, <1>2, <1>6, <2>2, Applied
    <3>2. OnSide("tasks")' = OnSide("tasks")
      BY <1>2, <1>9, <2>2, SidesAre DEF DetailWrites
    <3> QED BY <1>1, <1>6, <1>8, <3>1, <3>2, TasksQuiet DEF SidesAgree
  <2> QED BY <2>1, <2>2
<1>12. Clear("labels")' => LabelsAgree'
  <2>1. CASE c.op \in {"save", "status", "deleteItem", "attach", "detach"}
    BY <1>1, <1>3, <1>4, <2>1, LabelsAnswered
  <2>2. CASE c.op \notin {"save", "status", "deleteItem", "attach", "detach"}
    <3>1. srv'.labels = srv.labels
      BY <1>1, <1>2, <1>6, <2>2, Applied
    <3>2. OnSide("labels")' = OnSide("labels")
      BY <1>2, <1>9, <2>2, SidesAre DEF DetailWrites
    <3> QED BY <1>1, <1>6, <1>8, <3>1, <3>2, LabelsQuiet DEF SidesAgree
  <2> QED BY <2>1, <2>2
<1> QED BY <1>1, <1>5, <1>7, <1>10, <1>11, <1>12 DEF SidesAgree

-----------------------------------------------------------------------------
\* The handlers.
LEMMA LoadedAgrees ==
  ASSUME DraftInv, SidesAgree, page = "detail", page' = page, NEW c \in calls, StoryLoaded(c)
  PROVE  SidesAgree'
<1>1. /\ CallInv(c) /\ DetailOp(c) /\ c.op = "load" /\ c.net # "sent" /\ c.key = shown /\ shown # NoKey
      /\ UNCHANGED <<srv, blurred>>
  BY DEF DraftInv, SidesAgree, StoryLoaded, DetailOp
<1>2. PICK d : d = IF c.net = "ok" THEN c.answer ELSE [Blank EXCEPT !.kind = "error", !.for = c.key]
  OBVIOUS
<1>3. Render(shown, d, draft, calls \ {c}, TRUE)
  BY <1>2 DEF StoryLoaded
<1>4. c.net # "ok" => d.kind = "error"
  <2>1. PICK one : one = [Blank EXCEPT !.kind = "error"]
    OBVIOUS
  <2>2. one = [kind |-> "error", for |-> NoKey, story |-> NoKey, text |-> NoKey, labels |-> {}, tasks |-> NoTasks]
    BY <2>1 DEF Blank
  <2>3. [Blank EXCEPT !.kind = "error", !.for = c.key] = [one EXCEPT !.for = c.key]
    BY <2>1 DEF Blank
  <2> QED BY <1>2, <2>2, <2>3
<1>5. PICK s, dr, fresh, cs : s = shown /\ dr = draft /\ fresh = TRUE /\ cs = calls \ {c}
  OBVIOUS
<1>6. Render(s, d, dr, cs, fresh) /\ fresh
  BY <1>3, <1>5
<1>7. \A a \in cs : DetailOp(a)'
  <2>1. shown' = shown
    BY <1>3 DEF Render
  <2> QED BY <1>5, <2>1, OpStays DEF SidesAgree
<1>8. shown' = shown /\ detail' = d /\ \A a \in calls' : DetailOp(a)'
  BY <1>5, <1>6, <1>7, RenderCalls
<1>9. \A a : a.op # "labels" => (a \in calls' <=> a \in cs)
  BY <1>6, <1>7, RenderCalls
<1>10. ActiveItem(s, d) /\ fresh => \E l \in calls' : l.op = "labels" /\ \A a \in calls' : a.op = "labels" => a = l
  BY <1>6, <1>7, RenderCalls
<1>11. ~ActiveItem(s, d) => \A a \in calls' : a.op # "labels"
  BY <1>6, <1>7, RenderCalls
<1>12. \A a \in calls : a.op = "labels" => "text" \notin SidesOf(a.op) /\ "tasks" \notin SidesOf(a.op)
  BY SidesAre
<1>13. \A x : Clear(x)' => Clear(x)
  BY <1>1, <1>8 DEF Clear
<1>14. c.net = "ok" => d = c.answer /\ d.kind = "ok" /\ d.for = shown /\ d.story = shown
  BY <1>1, <1>2 DEF CallInv
<1>15. Active' <=> ActiveItem(s, d)
  BY <1>5, <1>8 DEF Active, ActiveItem
<1>16. Active' => c.net = "ok"
  BY <1>4, <1>15 DEF ActiveItem
<1>17. \A x \in Sides : c \in OnSide(x)
  BY <1>1 DEF OnSide, SidesOf
<1>18. \A x \in {"text", "tasks"} : OnSide(x) = {c} => OnSide(x)' = {}
  <2>1. \A a \in calls' : a.op = "labels" => "text" \notin SidesOf(a.op) /\ "tasks" \notin SidesOf(a.op)
    BY SidesAre
  <2> QED BY <1>5, <1>9, <2>1 DEF OnSide
<1>19. Clear("text")' => TextAgrees'
  <2> SUFFICES ASSUME Clear("text")' PROVE TextAgrees'
    OBVIOUS
  <2>1. TextAgrees /\ c \in OnSide("text")
    BY <1>13, <1>17 DEF SidesAgree, Sides
  <2>2. OnSide("text")' = {}
    BY <1>18, <2>1 DEF TextAgrees
  <2>3. Active' => detail'.story = shown' /\ detail'.text = srv'.text[shown']
    BY <1>1, <1>8, <1>14, <1>16, <2>1 DEF TextAgrees
  <2> QED BY <2>2, <2>3 DEF TextAgrees
<1>20. Clear("tasks")' => TasksAgree'
  <2> SUFFICES ASSUME Clear("tasks")' PROVE TasksAgree'
    OBVIOUS
  <2>1. TasksAgree /\ c \in OnSide("tasks")
    BY <1>13, <1>17 DEF SidesAgree, Sides
  <2>2. OnSide("tasks")' = {}
    BY <1>18, <2>1 DEF TasksAgree
  <2>3. Active' => detail'.tasks = srv'.tasks[shown']
    BY <1>1, <1>8, <1>14, <1>16, <2>1 DEF TasksAgree
  <2> QED BY <2>2, <2>3 DEF TasksAgree
<1>21. Clear("labels")' => LabelsAgree'
  <2> SUFFICES ASSUME Clear("labels")' PROVE LabelsAgree'
    OBVIOUS
  <2>1. LabelsAgree /\ c \in OnSide("labels")
    BY <1>13, <1>17 DEF SidesAgree, Sides
  <2>2. \A a \in OnSide("labels") : a = c \/ a.op = "labels"
    BY <1>1, <2>1 DEF LabelsAgree
  <2>3. \A a \in OnSide("labels")' : a.op = "labels"
    BY <1>5, <1>9, <2>2 DEF OnSide
  <2>4. \A a, b \in OnSide("labels")' : a = b
    BY <1>6, <1>10, <1>11, <2>3 DEF OnSide
  <2>5. Active' => OnSide("labels")' # {}
    <3> SUFFICES ASSUME Active' PROVE OnSide("labels")' # {}
      OBVIOUS
    <3>1. PICK l \in calls' : l.op = "labels"
      BY <1>6, <1>10, <1>15
    <3>2. "labels" \in SidesOf(l.op)
      BY <3>1, SidesAre
    <3> QED BY <3>2 DEF OnSide
  <2>6. Active' => detail'.labels = srv'.labels[shown']
    BY <1>1, <1>8, <1>14, <1>16, <2>1 DEF LabelsAgree
  <2>7. Active' => \A a \in OnSide("labels")' : LabelsCall(a)'
    BY <2>3, <2>6 DEF LabelsCall
  <2> QED BY <2>3, <2>4, <2>5, <2>7 DEF LabelsAgree
<1>22. labels' = [of |-> labels'.of, set |-> labels'.set]
  BY DEF StoryLoaded, SidesAgree, LabelsOf
<1>23. DetailServer' /\ shown' \in DetailStories \cup {NoKey}
  BY <1>1, <1>8 DEF SidesAgree, DetailServer
<1> QED BY <1>8, <1>19, <1>20, <1>21, <1>22, <1>23 DEF SidesAgree

LEMMA LabelsLoadedAgrees ==
  ASSUME DraftInv, SidesAgree, page = "detail", page' = page, NEW c \in calls, LabelsLoaded(c)
  PROVE  SidesAgree'
<1>1. /\ c.op = "labels" /\ calls' = calls \ {c} /\ UNCHANGED <<srv, shown, detail>> /\ blurred \subseteq blurred'
  BY DEF LabelsLoaded
<1>2. \A a \in calls' : DetailOp(a)'
  BY <1>1, OpStays DEF SidesAgree
<1>3. OnSide("text")' = OnSide("text") /\ OnSide("tasks")' = OnSide("tasks") /\ c \in OnSide("labels")
  <2>1. "text" \notin SidesOf(c.op) /\ "tasks" \notin SidesOf(c.op) /\ "labels" \in SidesOf(c.op)
    BY <1>1, SidesAre
  <2> QED BY <1>1, <2>1, OnRemoved DEF OnSide
<1>4. Active' = Active
  BY <1>1 DEF Active, ActiveItem
<1>5. Clear("text")' => TextAgrees'
  BY <1>1, <1>3, <1>4, TextQuiet DEF SidesAgree
<1>6. Clear("tasks")' => TasksAgree'
  BY <1>1, <1>3, <1>4, TasksQuiet DEF SidesAgree
<1>7. labels' = [labels EXCEPT !.set = detail.labels] \/ labels' = labels
  BY DEF LabelsLoaded
<1>8. labels' = [of |-> labels'.of, set |-> labels'.set]
  BY <1>7 DEF SidesAgree
<1>9. Clear("labels")' => LabelsAgree'
  <2> SUFFICES ASSUME Clear("labels")' PROVE LabelsAgree'
    OBVIOUS
  <2>1. labels' = [labels EXCEPT !.set = detail.labels]
    BY <1>1 DEF LabelsLoaded, Clear, Blur
  <2>2. labels'.set = detail.labels
    BY <2>1 DEF SidesAgree
  <2>3. LabelsAgree
    BY <1>1 DEF SidesAgree, Clear
  <2>4. \A a \in OnSide("labels")' : a \in OnSide("labels") /\ a # c /\ a.op = "load"
    BY <1>1, <1>3, <2>3 DEF LabelsAgree, OnSide
  <2>5. Active /\ OnSide("labels")' = {} => detail.labels = srv.labels[shown]
    <3> SUFFICES ASSUME Active, OnSide("labels")' = {} PROVE detail.labels = srv.labels[shown]
      OBVIOUS
    <3>1. \A a \in OnSide("labels") : a.op # "load"
      BY <1>1 DEF OnSide
    <3>2. LabelsCall(c)
      BY <1>3, <2>3, <3>1 DEF LabelsAgree
    <3> QED BY <1>1, <3>2 DEF LabelsCall
  <2> QED BY <1>1, <1>4, <2>2, <2>3, <2>4, <2>5 DEF LabelsAgree
<1> QED BY <1>1, <1>2, <1>5, <1>6, <1>8, <1>9 DEF SidesAgree, DetailServer

LEMMA SavedAgrees ==
  ASSUME DraftInv, SidesAgree, page = "detail", page' = page, NEW c \in calls, StorySaved(c)
  PROVE  SidesAgree'
<1>1. /\ CallInv(c) /\ DetailShape(detail) /\ DetailOp(c) /\ c.op \in {"save", "status"} /\ c.net # "sent"
      /\ UNCHANGED <<srv, labels>> /\ shown' = shown
      /\ blurred' = IF c.net = "ok" THEN blurred \cup Blur(shown, {"labels"}) ELSE blurred
  BY DEF DraftInv, SidesAgree, StorySaved, Render
<1>2. PICK one, two, saved : /\ one = [detail EXCEPT !.story = c.answer.story]
                             /\ two = [one EXCEPT !.text = c.answer.text] /\ saved = [two EXCEPT !.labels = {}]
  OBVIOUS
<1>3. one = [kind |-> detail.kind, for |-> detail.for, story |-> c.answer.story, text |-> detail.text,
             labels |-> detail.labels, tasks |-> detail.tasks]
  BY <1>1, <1>2 DEF DetailShape
<1>4. two = [kind |-> detail.kind, for |-> detail.for, story |-> c.answer.story, text |-> c.answer.text,
             labels |-> detail.labels, tasks |-> detail.tasks]
  BY <1>2, <1>3
<1>5. /\ saved.story = c.answer.story /\ saved.text = c.answer.text /\ saved.tasks = detail.tasks
      /\ saved.for = detail.for /\ saved.kind = detail.kind
  BY <1>2, <1>4
<1>6. PICK d : d = IF c.net = "ok" /\ detail.kind = "ok" THEN saved ELSE detail
  OBVIOUS
<1>7. PICK dr, cs, s, fresh : Render(s, d, dr, cs, fresh) /\ cs = calls \ {c} /\ s = shown /\ fresh = (c.net = "ok")
  <2>1. [detail EXCEPT !.story = c.answer.story, !.text = c.answer.text, !.labels = {}] = saved
    BY <1>1, <1>2 DEF DetailShape
  <2>2. \E dr : Render(shown, d, dr, calls \ {c}, c.net = "ok")
    BY <1>6, <2>1 DEF StorySaved
  <2> QED BY <2>2
<1>8. \A a \in cs : DetailOp(a)'
  BY <1>1, <1>7, OpStays DEF SidesAgree
<1>9. detail' = d /\ \A a \in calls' : DetailOp(a)'
  BY <1>7, <1>8, RenderCalls
<1>10. \A a : a.op # "labels" => (a \in calls' <=> a \in cs)
  BY <1>7, <1>8, RenderCalls
<1>11. ActiveItem(s, d) /\ ~fresh => calls' = cs
  BY <1>7, <1>8, RenderCalls
<1>12. /\ d.for = detail.for /\ d.kind = detail.kind /\ d.tasks = detail.tasks
       /\ c.net # "ok" => d = detail
       /\ c.net = "ok" /\ detail.kind = "ok" => d.story = c.answer.story /\ d.text = c.answer.text
  BY <1>5, <1>6
<1>13. Active' = Active /\ (Active <=> ActiveItem(s, d)) /\ (Active => detail.kind = "ok")
  BY <1>1, <1>7, <1>9, <1>12 DEF Active, ActiveItem
<1>14. \A a : (a \in calls' \/ a \in calls) /\ a.op = "labels" => "text" \notin SidesOf(a.op) /\ "tasks" \notin SidesOf(a.op)
  BY SidesAre
<1>15. "text" \in SidesOf(c.op) /\ "labels" \in SidesOf(c.op) /\ "tasks" \notin SidesOf(c.op)
  BY <1>1, SidesAre DEF DetailWrites
<1>16. \A x : Clear(x)' => Clear(x)
  BY <1>1 DEF Clear
<1>17. Clear("text")' => TextAgrees'
  <2> SUFFICES ASSUME Clear("text")' PROVE TextAgrees'
    OBVIOUS
  <2>1. TextAgrees /\ c \in OnSide("text")
    BY <1>15, <1>16 DEF SidesAgree, OnSide
  <2>2. OnSide("text") = {c} /\ c.key = shown
    BY <2>1 DEF TextAgrees
  <2>3. OnSide("text")' = {}
    BY <1>7, <1>10, <1>14, <2>2 DEF OnSide
  <2>4. CASE c.net = "ok"
    <3>1. c.answer.story = shown /\ c.answer.text = srv.text[shown]
      BY <1>1, <2>1, <2>2, <2>4 DEF CallInv, TextAgrees
    <3> QED BY <1>1, <1>9, <1>12, <1>13, <2>3, <2>4, <3>1 DEF TextAgrees
  <2>5. CASE c.net # "ok"
    BY <1>1, <1>9, <1>12, <1>13, <2>1, <2>2, <2>3, <2>5 DEF TextAgrees
  <2> QED BY <2>4, <2>5
<1>18. Clear("tasks")' => TasksAgree'
  <2>1. OnSide("tasks")' = OnSide("tasks")
    BY <1>7, <1>10, <1>14, <1>15 DEF OnSide
  <2> QED BY <1>1, <1>9, <1>12, <1>13, <2>1, TasksQuiet DEF SidesAgree
<1>19. Clear("labels")' => LabelsAgree'
  <2> SUFFICES ASSUME Clear("labels")' PROVE LabelsAgree'
    OBVIOUS
  <2>1. c.net # "ok"
    BY <1>1 DEF Clear, Blur
  <2>2. LabelsAgree /\ c \in OnSide("labels")
    BY <1>15, <1>16 DEF SidesAgree, OnSide
  <2>3. OnSide("labels") = {c}
    BY <1>1, <2>2 DEF LabelsAgree
  <2>4. Active => OnSide("labels")' = {} /\ labels.set = srv.labels[shown]
    <3>1. Active => calls' = calls \ {c}
      BY <1>7, <1>11, <1>13, <2>1
    <3>2. Active => LabelsCall(c)
      BY <1>1, <2>2, <2>3 DEF LabelsAgree
    <3> QED BY <1>1, <2>3, <3>1, <3>2 DEF LabelsCall, OnSide
  <2>5. \A a \in OnSide("labels")' : a.op = "labels"
    BY <1>7, <1>10, <2>3 DEF OnSide
  <2>6. ~Active => OnSide("labels")' = {}
    <3>1. ~Active => \A a \in calls' : a.op # "labels"
      BY <1>7, <1>8, <1>13, RenderCalls
    <3> QED BY <2>5, <3>1 DEF OnSide
  <2> QED BY <1>1, <1>13, <2>4, <2>6 DEF LabelsAgree
<1>20. DetailServer' /\ shown' \in DetailStories \cup {NoKey} /\ labels' = [of |-> labels'.of, set |-> labels'.set]
  BY <1>1 DEF SidesAgree, DetailServer
<1> QED BY <1>9, <1>17, <1>18, <1>19, <1>20 DEF SidesAgree

\* A write that ends without a render.
LEMMA EndsAgree ==
  ASSUME DraftInv, SidesAgree, page = "detail", page' = page, NEW c \in calls, calls' = calls \ {c},
         UNCHANGED <<srv, shown, blurred>>
  PROVE  /\ \A a \in calls' : DetailOp(a)'
         /\ \A x : Clear(x)' = Clear(x)
         /\ \A x : x \notin SidesOf(c.op) => OnSide(x)' = OnSide(x)
         /\ \A x : OnSide(x) = {c} => OnSide(x)' = {}
         /\ DetailServer' /\ shown' \in DetailStories \cup {NoKey}
<1>1. \A a \in calls' : DetailOp(a)'
  BY OpStays DEF SidesAgree
<1>2. \A x : x \notin SidesOf(c.op) => OnSide(x)' = OnSide(x)
  BY DEF OnSide
<1> QED BY <1>1, <1>2 DEF Clear, OnSide, SidesAgree, DetailServer

LEMMA DeletedAgrees ==
  ASSUME DraftInv, SidesAgree, page = "detail", page' = page, NEW c \in calls, ItemDeleted(c)
  PROVE  SidesAgree'
<1>1. CASE c.net = "ok"
  <2>1. PICK cs : cs = {d \in calls \ {c} : ~Fetching(d)}
    OBVIOUS
  <2>2. Render(NoKey, detail, NoDraft, cs, FALSE) /\ ResetDetail /\ UNCHANGED srv
    BY <1>1, <2>1 DEF ItemDeleted
  <2>3. cs \in SUBSET calls /\ \A d \in cs : ~Fetching(d)
    BY <2>1
  <2> QED BY <2>2, <2>3, CloseAgrees
<1>2. CASE c.net # "ok"
  <2>1. /\ c.op = "deleteItem" /\ calls' = calls \ {c}
        /\ UNCHANGED <<srv, shown, detail, labels, blurred>>
    BY <1>2 DEF ItemDeleted
  <2>2. /\ \A a \in calls' : DetailOp(a)'
        /\ \A x : Clear(x)' = Clear(x)
        /\ \A x : x \notin SidesOf(c.op) => OnSide(x)' = OnSide(x)
        /\ \A x : OnSide(x) = {c} => OnSide(x)' = {}
        /\ DetailServer' /\ shown' \in DetailStories \cup {NoKey}
    BY <2>1, EndsAgree
  <2>3. "text" \in SidesOf(c.op) /\ "labels" \in SidesOf(c.op) /\ "tasks" \notin SidesOf(c.op)
    BY <2>1, SidesAre DEF DetailWrites
  <2>4. Active' = Active
    BY <2>1 DEF Active, ActiveItem
  <2>5. Clear("text")' => TextAgrees'
    <3> SUFFICES ASSUME Clear("text")' PROVE TextAgrees'
      OBVIOUS
    <3>1. TextAgrees /\ c \in OnSide("text")
      BY <2>2, <2>3 DEF SidesAgree, OnSide
    <3>2. OnSide("text") = {c}
      BY <3>1 DEF TextAgrees
    <3> QED BY <2>1, <2>2, <2>4, <3>1, <3>2 DEF TextAgrees
  <2>6. Clear("labels")' => LabelsAgree'
    <3> SUFFICES ASSUME Clear("labels")' PROVE LabelsAgree'
      OBVIOUS
    <3>1. LabelsAgree /\ c \in OnSide("labels")
      BY <2>2, <2>3 DEF SidesAgree, OnSide
    <3>2. OnSide("labels") = {c}
      BY <2>1, <3>1 DEF LabelsAgree
    <3>3. Active => LabelsCall(c)
      BY <2>1, <3>1, <3>2 DEF LabelsAgree
    <3> QED BY <2>1, <2>2, <2>4, <3>2, <3>3 DEF LabelsAgree, LabelsCall
  <2>7. Clear("tasks")' => TasksAgree'
    BY <2>1, <2>2, <2>3, <2>4, TasksQuiet DEF SidesAgree
  <2> QED BY <2>1, <2>2, <2>5, <2>6, <2>7 DEF SidesAgree
<1> QED BY <1>1, <1>2

LEMMA LabelDoneAgrees ==
  ASSUME DraftInv, SidesAgree, page = "detail", page' = page, NEW c \in calls, LabelDone(c)
  PROVE  SidesAgree'
<1>1. /\ c.op \in {"attach", "detach"} /\ c.net # "sent" /\ calls' = calls \ {c}
      /\ UNCHANGED <<srv, shown, detail, blurred>>
      /\ labels' = IF c.net = "ok" THEN labels ELSE [labels EXCEPT !.set = c.old.labels]
  BY DEF LabelDone
<1>2. /\ \A a \in calls' : DetailOp(a)'
      /\ \A x : Clear(x)' = Clear(x)
      /\ \A x : x \notin SidesOf(c.op) => OnSide(x)' = OnSide(x)
      /\ \A x : OnSide(x) = {c} => OnSide(x)' = {}
      /\ DetailServer' /\ shown' \in DetailStories \cup {NoKey}
  BY <1>1, EndsAgree
<1>3. "text" \notin SidesOf(c.op) /\ "labels" \in SidesOf(c.op) /\ "tasks" \notin SidesOf(c.op)
  BY <1>1, SidesAre DEF DetailWrites
<1>4. Active' = Active
  BY <1>1 DEF Active, ActiveItem
<1>5. labels' = [of |-> labels'.of, set |-> labels'.set] /\ labels'.set = IF c.net = "ok" THEN labels.set ELSE c.old.labels
  BY <1>1 DEF SidesAgree
<1>6. Clear("labels")' => LabelsAgree'
  <2> SUFFICES ASSUME Clear("labels")' PROVE LabelsAgree'
    OBVIOUS
  <2>1. LabelsAgree /\ c \in OnSide("labels")
    BY <1>2, <1>3 DEF SidesAgree, OnSide
  <2>2. OnSide("labels") = {c}
    BY <1>1, <2>1 DEF LabelsAgree
  <2>3. Active => LabelsCall(c)
    BY <1>1, <2>1, <2>2 DEF LabelsAgree
  <2>4. Active => labels'.set = srv.labels[shown]
    BY <1>1, <1>5, <2>3 DEF LabelsCall
  <2> QED BY <1>1, <1>2, <1>4, <2>2, <2>4 DEF LabelsAgree
<1>7. Clear("text")' => TextAgrees'
  BY <1>1, <1>2, <1>3, <1>4, TextQuiet DEF SidesAgree
<1>8. Clear("tasks")' => TasksAgree'
  BY <1>1, <1>2, <1>3, <1>4, TasksQuiet DEF SidesAgree
<1> QED BY <1>1, <1>2, <1>5, <1>6, <1>7, <1>8 DEF SidesAgree

\* The answer sets the tasks right.
LEMMA TasksSetRight ==
  ASSUME DraftInv, SidesAgree, page = "detail", Active, NEW c, TasksCall(c), c.net # "sent",
         c.op \in {"createTask", "patchTask", "deleteTask"}, DetailOp(c)
  PROVE  TasksAfter(c, detail.tasks) = srv.tasks[shown]
<1>1. PICK f : f = srv.tasks[shown]
  OBVIOUS
<1>2. FunctionOn(f, DOMAIN f) /\ Temp \notin DOMAIN f
  BY <1>1, ShownTasks, DetailAssumption
<1>3. CASE c.op = "createTask"
  <2>1. c.arg.id = Temp
    BY <1>3 DEF DetailOp
  <2>2. CASE c.net = "ok"
    <3>1. PICK t : t = c.answer.story
      OBVIOUS
    <3>2. t \in DOMAIN f /\ f[t] = "TODO" /\ detail.tasks = SetTask(DropTask(f, t), Temp, "TODO")
      BY <1>1, <1>3, <2>2, <3>1 DEF TasksCall
    <3>3. Temp \in DOMAIN detail.tasks
      BY <3>2 DEF SetTask
    <3>4. TasksAfter(c, detail.tasks) = SetTask(DropTask(detail.tasks, Temp), t, "TODO")
      BY <1>3, <2>1, <2>2, <3>1, <3>3 DEF TasksAfter
    <3>5. DropTask(detail.tasks, Temp) = DropTask(f, t)
      BY <1>2, <3>2 DEF SetTask, DropTask, FunctionOn
    <3>6. SetTask(DropTask(f, t), t, "TODO") = f
      BY <1>2, <3>2 DEF SetTask, DropTask, FunctionOn
    <3> QED BY <1>1, <3>4, <3>5, <3>6
  <2>3. CASE c.net # "ok"
    <3>1. detail.tasks = SetTask(f, Temp, "TODO")
      BY <1>1, <1>3, <2>3 DEF TasksCall
    <3>2. Temp \in DOMAIN detail.tasks
      BY <3>1 DEF SetTask
    <3>3. TasksAfter(c, detail.tasks) = DropTask(detail.tasks, Temp)
      BY <1>3, <2>1, <2>3, <3>2 DEF TasksAfter
    <3>4. DropTask(detail.tasks, Temp) = f
      BY <1>2, <3>1 DEF SetTask, DropTask, FunctionOn
    <3> QED BY <1>1, <3>3, <3>4
  <2> QED BY <2>2, <2>3
<1>4. CASE c.op = "patchTask"
  <2>1. PICK t, status : t = c.arg.id /\ status = c.arg.status
    OBVIOUS
  <2>2. /\ t \in DOMAIN f /\ t \in DOMAIN c.old.tasks /\ detail.tasks = SetTask(f, t, status)
        /\ c.net = "ok" => f[t] = status
        /\ c.net # "ok" => c.old.tasks = f
    BY <1>1, <1>4, <2>1 DEF TasksCall
  <2>3. t \in DOMAIN detail.tasks
    BY <2>2 DEF SetTask
  <2>4. PICK v : v = IF c.net = "ok" THEN status ELSE c.old.tasks[t]
    OBVIOUS
  <2>5. TasksAfter(c, detail.tasks) = SetTask(detail.tasks, t, v)
    BY <1>4, <2>1, <2>3, <2>4 DEF TasksAfter
  <2>6. v = f[t]
    BY <2>2, <2>4
  <2>7. SetTask(detail.tasks, t, v) = f
    BY <1>2, <2>2, <2>6 DEF SetTask, FunctionOn
  <2> QED BY <1>1, <2>5, <2>7
<1>5. CASE c.op = "deleteTask"
  <2>1. PICK t : t = c.arg.id
    OBVIOUS
  <2>2. /\ detail.tasks = DropTask(f, t)
        /\ c.net = "ok" => t \notin DOMAIN f
        /\ c.net # "ok" => c.old.tasks = f
    BY <1>1, <1>5, <2>1 DEF TasksCall
  <2>3. TasksAfter(c, detail.tasks) = IF c.net = "ok" THEN detail.tasks ELSE c.old.tasks
    BY <1>5 DEF TasksAfter
  <2>4. c.net = "ok" => DropTask(f, t) = f
    BY <1>2, <2>2 DEF DropTask, FunctionOn
  <2> QED BY <1>1, <2>2, <2>3, <2>4
<1> QED BY <1>3, <1>4, <1>5

LEMMA TaskDoneAgrees ==
  ASSUME DraftInv, SidesAgree, page = "detail", page' = page, NEW c \in calls, TaskDone(c)
  PROVE  SidesAgree'
<1>1. /\ c.op \in {"createTask", "patchTask", "deleteTask"} /\ c.net # "sent" /\ calls' = calls \ {c}
      /\ UNCHANGED <<srv, shown, labels, blurred>> /\ DetailOp(c)
  BY DEF TaskDone, SidesAgree
<1>2. PICK t : t = IF detail.kind = "ok" THEN TasksAfter(c, detail.tasks) ELSE detail.tasks
  OBVIOUS
<1>3. detail' = [detail EXCEPT !.tasks = t]
  BY <1>2 DEF TaskDone, DraftInv, DetailShape
<1>4. /\ \A a \in calls' : DetailOp(a)'
      /\ \A x : Clear(x)' = Clear(x)
      /\ \A x : x \notin SidesOf(c.op) => OnSide(x)' = OnSide(x)
      /\ \A x : OnSide(x) = {c} => OnSide(x)' = {}
  BY <1>1, EndsAgree
<1>5. "text" \notin SidesOf(c.op) /\ "labels" \notin SidesOf(c.op) /\ "tasks" \in SidesOf(c.op)
  BY <1>1, SidesAre DEF DetailWrites
<1>6. detail'.for = detail.for /\ detail'.kind = detail.kind /\ detail'.tasks = t
  BY <1>3, TasksFields DEF DraftInv
<1>7. Active' = Active /\ (Active => detail.kind = "ok")
  BY <1>1, <1>6 DEF Active, ActiveItem
<1>8. Clear("tasks")' => TasksAgree'
  <2> SUFFICES ASSUME Clear("tasks")' PROVE TasksAgree'
    OBVIOUS
  <2>1. TasksAgree /\ c \in OnSide("tasks")
    BY <1>4, <1>5 DEF SidesAgree, OnSide
  <2>2. OnSide("tasks") = {c}
    BY <2>1 DEF TasksAgree
  <2>3. Active => t = srv.tasks[shown]
    <3> SUFFICES ASSUME Active PROVE t = srv.tasks[shown]
      OBVIOUS
    <3>1. TasksCall(c)
      BY <1>1, <2>1 DEF TasksAgree
    <3> QED BY <1>1, <1>2, <1>7, <3>1, TasksSetRight
  <2> QED BY <1>1, <1>4, <1>6, <1>7, <2>2, <2>3 DEF TasksAgree
<1> QED BY <1>1, <1>3, <1>4, <1>5, <1>8, TaskStep

LEMMA UserAgrees ==
  ASSUME DraftInv, SidesAgree, page = "detail", page' = page, DetailUser
  PROVE  SidesAgree'
<1>1. ASSUME NEW s \in DetailStories, OpenDetail(s) PROVE SidesAgree'
  BY <1>1, OpenAgrees
<1>2. ASSUME NEW s \in DetailStories, NEW x \in Texts, ChangedElsewhere(s, x) PROVE SidesAgree'
  BY <1>2, ElsewhereAgrees
<1>3. CASE CloseDetail
  <2>1. PICK cs : cs = {c \in calls : ~Fetching(c)}
    OBVIOUS
  <2>2. Render(NoKey, detail, NoDraft, cs, FALSE) /\ ResetDetail /\ UNCHANGED srv
    BY <1>3, <2>1 DEF CloseDetail
  <2>3. cs \in SUBSET calls /\ \A d \in cs : ~Fetching(d)
    BY <2>1
  <2> QED BY <2>2, <2>3, CloseAgrees
<1>4. CASE CancelChanges \/ \E x \in Texts : UpdateDraft(x)
  <2>1. UNCHANGED <<srv, calls, shown, detail, labels, blurred>>
    BY <1>4 DEF CancelChanges, UpdateDraft, pageVars
  <2> QED BY <2>1, OthersQuiet
<1>5. CASE DeleteItem
  <2>1. SendWrite("deleteItem", NoKey, "TODO") /\ UNCHANGED <<srv, shown, detail, labels>>
    BY <1>5 DEF DeleteItem
  <2> QED BY <2>1, SaveAgrees
<1>6. ASSUME NEW op \in {"save", "status"}, SaveOrChangeStatus(op) PROVE SidesAgree'
  <2>1. SendWrite(op, NoKey, "TODO") /\ UNCHANGED <<srv, shown, detail, labels>>
    BY <1>6 DEF SaveOrChangeStatus
  <2> QED BY <2>1, SaveAgrees
<1>7. CASE CreateTask
  BY <1>7, CreateAgrees
<1>8. ASSUME NEW x, AttachLabel(x) \/ DetachLabel(x) PROVE SidesAgree'
  BY <1>8, LabelAgrees
<1>9. ASSUME NEW t, DeleteTask(t) PROVE SidesAgree'
  BY <1>9, DropAgrees
<1>10. ASSUME NEW t, NEW status, PatchTask(t, status) PROVE SidesAgree'
  BY <1>10, PatchAgrees
<1> QED BY <1>1, <1>2, <1>3, <1>4, <1>5, <1>6, <1>7, <1>8, <1>9, <1>10 DEF DetailUser

LEMMA SidesStep == DraftInv /\ SidesAgree /\ [DetailNext]_detailVars => SidesAgree'
<1> SUFFICES ASSUME DraftInv, SidesAgree, [DetailNext]_detailVars PROVE SidesAgree'
  OBVIOUS
<1>1. CASE UNCHANGED detailVars
  <2>1. UNCHANGED <<page, srv, calls, shown, detail, labels, blurred>>
    BY <1>1 DEF detailVars, pageVars
  <2>2. page # "detail" => SidesAgree'
    BY <2>1 DEF SidesAgree
  <2> QED BY <2>1, <2>2, OthersQuiet
<1>2. CASE DetailNext
  <2>1. page = "detail" /\ page' = page
    BY <1>2 DEF DetailNext, Mounted
  <2>2. CASE DetailUser
    BY <2>1, <2>2, UserAgrees
  <2>3. CASE DetailAnswers
    <3>1. PICK c \in calls :
            \/ DetailFetchAnswered(c) \/ DetailWriteAnswered(c) \/ StoryLoaded(c) \/ LabelsLoaded(c)
            \/ StorySaved(c) \/ ItemDeleted(c) \/ LabelDone(c) \/ TaskDone(c)
      BY <2>3 DEF DetailAnswers
    <3> QED BY <2>1, <3>1, FetchAnswerAgrees, WriteAnswerAgrees, LoadedAgrees, LabelsLoadedAgrees, SavedAgrees,
               DeletedAgrees, LabelDoneAgrees, TaskDoneAgrees
  <2> QED BY <1>2, <2>2, <2>3 DEF DetailNext
<1> QED BY <1>1, <1>2

LEMMA SidesStart == DetailInit => SidesAgree
<1> SUFFICES ASSUME DetailInit PROVE SidesAgree
  OBVIOUS
<1>1. shown = NoKey /\ calls = {} /\ labels = LabelsOf(NoKey, {})
  BY DEF DetailInit
<1>2. srv \in [there : SUBSET DetailStories, text : [DetailStories -> Texts],
               labels : [DetailStories -> SUBSET Labels], tasks : [DetailStories -> StoredTasks]]
  BY DetailAssumption DEF DetailInit
<1>3. \A f \in StoredTasks : FunctionOn(f, DOMAIN f) /\ DOMAIN f \subseteq TaskIds
  BY DEF StoredTasks, FunctionOn
<1>4. DetailServer
  BY <1>2, <1>3 DEF DetailServer, FunctionOn
<1> QED BY <1>1, <1>4 DEF SidesAgree, Clear, LabelsOf

\* Whatever the user opens, changes and closes, and in whatever order the answers come: an
\* open story whose requests are all answered shows the server's text, labels and tasks.
\* Excused is only what the property excuses: sides whose requests overlapped or went to
\* another story, whose answer was lost or that was changed elsewhere, the labels after a
\* save or without those to choose from, and a task whose patch was not sent.
THEOREM DetailIsCurrent == DetailSpec => []DetailAgreesWhenQuiet
<1>1. SidesAgree => DetailAgreesWhenQuiet
  BY DEF SidesAgree, DetailAgreesWhenQuiet, Clear, TextAgrees, TasksAgree, LabelsAgree, OnSide, Active, ActiveItem
<1> QED BY <1>1, DraftAlways, SidesStart, SidesStep, PTL DEF DetailSpec

-----------------------------------------------------------------------------
(* The backlog page: its stories.                                          *)

BacklogPhases == {"fetch", "status", "assignee", "delete", "add", "remove", "deleteBoard", "start", "complete", "close", "swap"}

IsPlan(p) == p = [from |-> p.from, to |-> p.to, left |-> p.left]

\* A move takes a story off its board only after the target took it: the target takes a
\* story that is on no board, and so one that was taken off.
StoryCall(c) ==
    /\ CallShape(c) /\ IsPlan(c.arg) /\ c.phase \in BacklogPhases
    /\ c.phase = "swap" <=> c.op = "orphan" \/ (c.op = "swap" /\ ~Fetching(c))
    /\ c.phase = "remove" => c.key[2] \in taken
    /\ c.phase = "add" /\ c.net = "ok" => c.key[2] \in taken
    /\ c.phase = "complete" /\ c.op # "sprint" => c.arg.from # c.arg.to
    /\ c.op = "swap" /\ (Fetching(c) \/ c.net = "ok") => c.arg.left = {}
    /\ c.op = "orphan" => c.net = "sent"

ServerShape ==
    /\ srv = [boards |-> srv.boards, where |-> srv.where, done |-> srv.done]
    /\ srv.boards = [b \in DOMAIN srv.boards |-> srv.boards[b]]
    /\ \A b \in DOMAIN srv.boards :
         srv.boards[b] = [kind |-> srv.boards[b].kind, status |-> srv.boards[b].status, rank |-> srv.boards[b].rank]
    /\ srv.where = [s \in DOMAIN srv.where |-> srv.where[s]]
    /\ NoBoard \notin DOMAIN srv.boards
    /\ DefaultBoard \in DOMAIN srv.boards /\ srv.boards[DefaultBoard].kind = "BACKLOG"

TakenKept == \A s \in DOMAIN srv.where : srv.where[s] = NoBoard => s \in taken

\* A story is out of reach on a closed sprint, and on one a completion is about to close:
\* what is open there has a reason.
Lost(b, half) ==
  b \in DOMAIN srv.boards /\ Sprint(srv.boards[b]) /\ (srv.boards[b].status = "CLOSED" \/ b \in half)
Reachable(half) == \A s \in DOMAIN srv.where \ (srv.done \cup late) : ~Lost(srv.where[s], half)

StoriesKept == TakenKept /\ Reachable(HalfCompleted)

\* A step that gives no board another rank.
RanksStay ==
    /\ DOMAIN srv'.boards \subseteq DOMAIN srv.boards
    /\ \A b \in DOMAIN srv'.boards : srv'.boards[b].rank = srv.boards[b].rank

\* Nor one that names a story or a board the server did not have.
RowsStay ==
    /\ DOMAIN srv'.where \subseteq DOMAIN srv.where
    /\ \A s \in DOMAIN srv'.where :
         srv'.where[s] = srv.where[s] \/ srv'.where[s] \in DOMAIN srv.boards \cup {NoBoard}
    /\ srv.done \subseteq DOMAIN srv.where => srv'.done \subseteq DOMAIN srv'.where

StoriesInv ==
    page = "backlog" => ServerShape /\ StoriesKept /\ \A c \in calls : StoryCall(c)

LEMMA StoriesStart == BacklogInit => StoriesInv
<1> SUFFICES ASSUME BacklogInit PROVE ServerShape /\ StoriesKept /\ calls = {}
  BY DEF StoriesInv
<1>1. PICK i \in InitialBacklogs : srv = i
  BY DEF BacklogInit
<1>2. /\ srv = [boards |-> srv.boards, where |-> srv.where, done |-> srv.done]
      /\ srv.boards \in [DOMAIN srv.boards -> [kind : {"BACKLOG", "SPRINT"}, status : {"OPEN", "ACTIVE", "CLOSED"}, rank : Nat]]
      /\ srv.where \in [DOMAIN srv.where -> DOMAIN srv.boards \cup {NoBoard}]
      /\ DOMAIN srv.boards \subseteq Boards
      /\ DefaultBoard \in DOMAIN srv.boards /\ srv.boards[DefaultBoard].kind = "BACKLOG"
      /\ NoBoard \notin Boards
  BY <1>1, BacklogAssumption
<1>3. ServerShape
  BY <1>2 DEF ServerShape
<1>4. TakenKept
  BY DEF BacklogInit, TakenKept
<1>5. HalfCompleted = {}
  BY DEF BacklogInit, HalfCompleted
<1>6. Reachable({})
  BY DEF BacklogInit, Reachable, Lost, ClosedSprint, Sprint
<1> QED BY <1>3, <1>4, <1>5, <1>6 DEF BacklogInit, StoriesKept

\* Of a board only its status changes.
LEMMA StatusShape ==
  ASSUME ServerShape, NEW b \in DOMAIN srv.boards, NEW status, NEW boards,
         boards = [srv.boards EXCEPT ![b].status = status]
  PROVE  /\ DOMAIN boards = DOMAIN srv.boards
         /\ boards = [x \in DOMAIN boards |-> boards[x]]
         /\ boards[b] = [kind |-> srv.boards[b].kind, status |-> status, rank |-> srv.boards[b].rank]
         /\ \A x \in DOMAIN boards \ {b} : boards[x] = srv.boards[x]
BY DEF ServerShape

LEMMA RankShape ==
  ASSUME ServerShape, NEW b \in DOMAIN srv.boards, NEW rank, NEW boards,
         boards = [srv.boards EXCEPT ![b].rank = rank]
  PROVE  /\ DOMAIN boards = DOMAIN srv.boards
         /\ boards = [x \in DOMAIN boards |-> boards[x]]
         /\ boards[b] = [kind |-> srv.boards[b].kind, status |-> srv.boards[b].status, rank |-> rank]
         /\ \A x \in DOMAIN boards \ {b} : boards[x] = srv.boards[x]
BY DEF ServerShape

\* No completion is about to close another sprint.
LEMMA HalfLess ==
  ASSUME closing' \subseteq HalfCompleted, \A c \in calls' : c \in calls \/ c.phase # "close" \/ c.net # "sent"
  PROVE  HalfCompleted' \subseteq HalfCompleted
BY DEF HalfCompleted

LEMMA ReachStays ==
  ASSUME Reachable(HalfCompleted), HalfCompleted' \subseteq HalfCompleted, UNCHANGED <<srv, late>>
  PROVE  Reachable(HalfCompleted)'
BY DEF Reachable, Lost, Sprint

\* No board gets out of reach, and no story comes to one that is.
LEMMA ReachKept ==
  ASSUME NEW half, \A b : Lost(b, half)' => Lost(b, HalfCompleted),
         \A s \in DOMAIN srv'.where \ (srv'.done \cup late') : ~Lost(srv'.where[s], HalfCompleted)
  PROVE  Reachable(half)'
BY DEF Reachable

LEMMA MovedShape ==
  ASSUME ServerShape, NEW from, NEW to, NEW after, after = NonDoneMoved(from, to)
  PROVE  /\ after = [boards |-> srv.boards, where |-> after.where, done |-> srv.done]
         /\ after.where = [s \in DOMAIN srv.where |-> IF srv.where[s] = from /\ s \notin srv.done THEN to ELSE srv.where[s]]
<1> DEFINE where == [s \in DOMAIN srv.where |-> IF srv.where[s] = from /\ s \notin srv.done THEN to ELSE srv.where[s]]
<1>1. after = [srv EXCEPT !.where = where]
  BY DEF NonDoneMoved, ServerShape
<1> HIDE DEF where
<1>2. after = [boards |-> srv.boards, where |-> where, done |-> srv.done]
  BY <1>1 DEF ServerShape
<1> QED BY <1>2 DEF where

\* The first commit of a completion takes every open story out of the sprint.
LEMMA MovingKeeps ==
  ASSUME ServerShape, NEW from \in DOMAIN srv.boards, NEW to \in DOMAIN srv.boards,
         srv' = NonDoneMoved(from, to), taken \subseteq taken', late \subseteq late', TakenKept,
         Reachable(HalfCompleted), NEW half, half \subseteq HalfCompleted \cup {from},
         \/ from # to /\ ~Lost(to, HalfCompleted)
         \/ {s \in DOMAIN srv.where : srv.where[s] = from} \subseteq late'
  PROVE  ServerShape' /\ TakenKept' /\ Reachable(half)' /\ RanksStay /\ RowsStay
<1>1. /\ srv' = [boards |-> srv.boards, where |-> srv'.where, done |-> srv.done]
      /\ srv'.where = [s \in DOMAIN srv.where |-> IF srv.where[s] = from /\ s \notin srv.done THEN to ELSE srv.where[s]]
  <2>1. PICK x : x = srv'
    OBVIOUS
  <2>2. x = NonDoneMoved(from, to)
    BY <2>1
  <2>3. /\ x = [boards |-> srv.boards, where |-> x.where, done |-> srv.done]
        /\ x.where = [s \in DOMAIN srv.where |-> IF srv.where[s] = from /\ s \notin srv.done THEN to ELSE srv.where[s]]
    BY <2>2, MovedShape
  <2> QED BY <2>1, <2>3
<1>2. srv'.boards = srv.boards /\ srv'.done = srv.done /\ DOMAIN srv'.where = DOMAIN srv.where
  BY <1>1
<1>3. \A s \in DOMAIN srv.where :
        srv'.where[s] = IF srv.where[s] = from /\ s \notin srv.done THEN to ELSE srv.where[s]
  BY <1>1
<1>4. srv'.where = [s \in DOMAIN srv'.where |-> srv'.where[s]]
  BY <1>1
<1>5. ServerShape'
  BY <1>1, <1>2, <1>4 DEF ServerShape
<1>6. TakenKept'
  BY <1>2, <1>3 DEF TakenKept, ServerShape
<1>7. ASSUME NEW s \in DOMAIN srv.where \ (srv.done \cup late'), NEW x, x = srv'.where[s] PROVE ~Lost(x, half)'
  <2>1. CASE srv.where[s] = from
    <3>1. srv'.where[s] = to /\ from # to /\ ~Lost(to, HalfCompleted)
      BY <1>3, <1>7, <2>1
    <3> QED BY <1>2, <1>7, <3>1 DEF Lost
  <2>2. CASE srv.where[s] # from
    <3>1. srv'.where[s] = srv.where[s]
      BY <1>3, <1>7, <2>2
    <3>2. ~Lost(srv.where[s], HalfCompleted)
      BY <1>7 DEF Reachable
    <3> QED BY <1>2, <1>7, <2>2, <3>1, <3>2 DEF Lost
  <2> QED BY <2>1, <2>2
<1>8. Reachable(half)'
  BY <1>2, <1>7 DEF Reachable
<1>9. RanksStay
  BY <1>2 DEF RanksStay
<1>10. RowsStay
  BY <1>2, <1>3 DEF RowsStay
<1> QED BY <1>5, <1>6, <1>8, <1>9, <1>10

\* The second commit closes a sprint whose open stories have a reason.
LEMMA ClosingKeeps ==
  ASSUME ServerShape, NEW from \in DOMAIN srv.boards, from \in HalfCompleted,
         srv' = SprintClosed(from), taken \subseteq taken', late \subseteq late', TakenKept,
         Reachable(HalfCompleted), NEW half, half \subseteq HalfCompleted
  PROVE  ServerShape' /\ TakenKept' /\ Reachable(half)' /\ RanksStay /\ RowsStay
<1>1. srv' = [srv EXCEPT !.boards = [srv.boards EXCEPT ![from].status = "CLOSED"]]
  BY DEF SprintClosed, ServerShape
<1>2. PICK boards : boards = [srv.boards EXCEPT ![from].status = "CLOSED"]
  OBVIOUS
<1>3. srv' = [boards |-> boards, where |-> srv.where, done |-> srv.done]
  BY <1>1, <1>2 DEF ServerShape
<1>4. srv'.boards = boards /\ srv'.where = srv.where /\ srv'.done = srv.done
  BY <1>3
<1>5. /\ DOMAIN boards = DOMAIN srv.boards
      /\ boards = [x \in DOMAIN boards |-> boards[x]]
      /\ boards[from] = [kind |-> srv.boards[from].kind, status |-> "CLOSED", rank |-> srv.boards[from].rank]
      /\ \A x \in DOMAIN boards \ {from} : boards[x] = srv.boards[x]
  BY <1>2, StatusShape
<1>6. ServerShape'
  <2>1. \A b \in DOMAIN boards : boards[b] = [kind |-> boards[b].kind, status |-> boards[b].status, rank |-> boards[b].rank]
    BY <1>5 DEF ServerShape
  <2>2. boards[DefaultBoard].kind = "BACKLOG"
    BY <1>5 DEF ServerShape
  <2> QED BY <1>3, <1>4, <1>5, <2>1, <2>2 DEF ServerShape
<1>7. TakenKept'
  BY <1>4 DEF TakenKept
<1>8. \A b : Lost(b, half)' => Lost(b, HalfCompleted)
  BY <1>4, <1>5 DEF Lost, Sprint
<1>9. \A s \in DOMAIN srv'.where \ (srv'.done \cup late') : ~Lost(srv'.where[s], HalfCompleted)
  BY <1>4 DEF Reachable
<1>10. Reachable(half)'
  BY <1>8, <1>9, ReachKept
<1>11. RanksStay
  BY <1>4, <1>5 DEF RanksStay
<1>12. RowsStay
  BY <1>4 DEF RowsStay
<1> QED BY <1>6, <1>7, <1>10, <1>11, <1>12

\* A write the server accepts.
LEMMA WriteKeepsStories ==
  ASSUME ServerShape, StoriesKept, NEW c, StoryCall(c), c.phase \notin {"fetch", "swap"},
         Accepts(c), srv' = Effect(c), late' = late \cup LateFor(c),
         taken' = IF c.phase = "deleteBoard"
                  THEN taken \cup {s \in DOMAIN srv.where : srv.where[s] = c.arg.from} ELSE taken,
         NEW half, half \subseteq HalfCompleted \cup (IF c.phase = "complete" THEN {c.arg.from} ELSE {}),
         c.phase = "close" => c.arg.from \in HalfCompleted
  PROVE  ServerShape' /\ TakenKept' /\ Reachable(half)' /\ RanksStay /\ RowsStay /\ (c.phase = "add" => c.key[2] \in taken')
<1> DEFINE from == c.arg.from
           to == c.arg.to
           s == c.key[2]
<1>1. taken \subseteq taken' /\ late \subseteq late' /\ TakenKept /\ Reachable(HalfCompleted)
  BY DEF StoriesKept
<1>0. \A b : OutOfReach(b) <=> Lost(b, HalfCompleted)
  BY DEF OutOfReach, Lost
<1>9. ASSUME c.phase # "complete", srv'.boards = srv.boards
      PROVE  \A b : Lost(b, half)' => Lost(b, HalfCompleted)
  BY <1>9 DEF Lost
<1>2. CASE c.phase = "status"
  <2>1. s \in DOMAIN srv.where
    BY <1>2 DEF Accepts
  <2>2. PICK done : /\ srv' = [srv EXCEPT !.done = done]
                    /\ (\A x \in srv.done \ done : x = s) /\ \A x \in done \ srv.done : x = s
    BY <1>2 DEF Effect
  <2>3. srv' = [boards |-> srv.boards, where |-> srv.where, done |-> done]
    BY <2>2 DEF ServerShape
  <2>4. srv'.boards = srv.boards /\ srv'.where = srv.where /\ srv'.done = done
    BY <2>3
  <2>5. ServerShape'
    BY <2>3, <2>4 DEF ServerShape
  <2>6. Lost(srv.where[s], HalfCompleted) => s \in late'
    BY <1>0, <1>2 DEF LateFor
  <2>7. TakenKept'
    BY <1>1, <2>4 DEF TakenKept
  <2>8. \A x \in DOMAIN srv'.where \ (srv'.done \cup late') : ~Lost(srv'.where[x], HalfCompleted)
    BY <1>1, <2>2, <2>4, <2>6 DEF Reachable
  <2>9. Reachable(half)'
    BY <1>2, <1>9, <2>4, <2>8, ReachKept
  <2> QED BY <1>2, <2>1, <2>2, <2>4, <2>5, <2>7, <2>9 DEF RanksStay, RowsStay
<1>3. CASE c.phase = "assignee"
  <2>1. srv' = srv
    BY <1>3 DEF Effect
  <2>2. \A x \in DOMAIN srv'.where \ (srv'.done \cup late') : ~Lost(srv'.where[x], HalfCompleted)
    BY <1>1, <2>1 DEF Reachable
  <2>3. Reachable(half)'
    BY <1>3, <1>9, <2>1, <2>2, ReachKept
  <2> QED BY <1>1, <1>3, <2>1, <2>3 DEF ServerShape, TakenKept, RanksStay, RowsStay
<1>4. CASE c.phase = "delete"
  <2> DEFINE off == [srv EXCEPT !.where = Removed(srv.where, s)]
  <2>1. off = [boards |-> srv.boards, where |-> Removed(srv.where, s), done |-> srv.done]
    BY DEF ServerShape
  <2>2. srv' = [off EXCEPT !.done = srv.done \ {s}]
    BY <1>4, <2>1 DEF Effect, ServerShape
  <2> HIDE DEF off
  <2>3. srv' = [boards |-> srv.boards, where |-> Removed(srv.where, s), done |-> srv.done \ {s}]
    BY <2>1, <2>2
  <2>4. srv'.boards = srv.boards /\ srv'.where = Removed(srv.where, s) /\ srv'.done = srv.done \ {s}
    BY <2>3
  <2>5. /\ DOMAIN srv'.where = DOMAIN srv.where \ {s}
        /\ \A x \in DOMAIN srv'.where : srv'.where[x] = srv.where[x]
        /\ srv'.where = [x \in DOMAIN srv'.where |-> srv'.where[x]]
    BY <2>4 DEF Removed
  <2>6. ServerShape'
    BY <2>3, <2>4, <2>5 DEF ServerShape
  <2>7. TakenKept'
    BY <1>1, <2>4, <2>5 DEF TakenKept
  <2>8. \A x \in DOMAIN srv'.where \ (srv'.done \cup late') : ~Lost(srv'.where[x], HalfCompleted)
    BY <1>1, <2>4, <2>5 DEF Reachable
  <2>9. Reachable(half)'
    BY <1>4, <1>9, <2>4, <2>8, ReachKept
  <2> QED BY <1>4, <2>4, <2>5, <2>6, <2>7, <2>9 DEF RanksStay, RowsStay
<1>5. CASE c.phase \in {"add", "remove"}
  <2>1. PICK b : srv' = [srv EXCEPT !.where = [srv.where EXCEPT ![s] = b]] /\ b = (IF c.phase = "add" THEN to ELSE NoBoard)
    BY <1>5 DEF Effect, ServerShape
  <2>2. srv' = [boards |-> srv.boards, where |-> [srv.where EXCEPT ![s] = b], done |-> srv.done]
    BY <2>1 DEF ServerShape
  <2>3. srv'.boards = srv.boards /\ srv'.where = [srv.where EXCEPT ![s] = b] /\ srv'.done = srv.done
    BY <2>2
  <2>4. s \in DOMAIN srv.where
    BY <1>5 DEF Accepts
  <2>5. /\ DOMAIN srv'.where = DOMAIN srv.where /\ srv'.where[s] = b
        /\ \A x \in DOMAIN srv.where \ {s} : srv'.where[x] = srv.where[x]
        /\ srv'.where = [x \in DOMAIN srv'.where |-> srv'.where[x]]
    BY <2>3, <2>4 DEF ServerShape
  <2>6. ServerShape'
    BY <2>2, <2>3, <2>5 DEF ServerShape
  <2>7. s \in taken
    BY <1>1, <1>5, <2>4 DEF Accepts, StoryCall, TakenKept
  <2>8. Lost(b, HalfCompleted) => s \in late'
    <3>1. CASE c.phase = "add"
      BY <1>0, <2>1, <3>1 DEF LateFor
    <3>2. CASE c.phase = "remove"
      BY <2>1, <3>2 DEF Lost, ServerShape
    <3> QED BY <1>5, <3>1, <3>2
  <2>9. TakenKept'
    BY <1>1, <2>3, <2>5, <2>7 DEF TakenKept
  <2>11. \A x \in DOMAIN srv'.where \ (srv'.done \cup late') : ~Lost(srv'.where[x], HalfCompleted)
    BY <1>1, <2>3, <2>5, <2>8 DEF Reachable
  <2>12. Reachable(half)'
    BY <1>5, <1>9, <2>3, <2>11, ReachKept
  <2>10. RowsStay
    <3>1. b \in DOMAIN srv.boards \cup {NoBoard}
      BY <1>5, <2>1 DEF Accepts
    <3> QED BY <2>3, <2>5, <3>1 DEF RowsStay
  <2> QED BY <1>1, <2>3, <2>6, <2>7, <2>9, <2>10, <2>12 DEF RanksStay
<1>6. CASE c.phase = "deleteBoard"
  <2> DEFINE where == [x \in DOMAIN srv.where |-> IF srv.where[x] = from THEN NoBoard ELSE srv.where[x]]
             gone == [srv EXCEPT !.boards = Removed(srv.boards, from)]
  <2>1. gone = [boards |-> Removed(srv.boards, from), where |-> srv.where, done |-> srv.done]
    BY DEF ServerShape
  <2>2. srv' = [gone EXCEPT !.where = where]
    BY <1>6, <2>1 DEF Effect, ServerShape
  <2> HIDE DEF gone
  <2>3. srv' = [boards |-> Removed(srv.boards, from), where |-> where, done |-> srv.done]
    BY <2>1, <2>2
  <2>4. srv'.boards = Removed(srv.boards, from) /\ srv'.where = where /\ srv'.done = srv.done
    BY <2>3
  <2>5. /\ DOMAIN srv'.boards = DOMAIN srv.boards \ {from}
        /\ \A x \in DOMAIN srv'.boards : srv'.boards[x] = srv.boards[x]
        /\ srv'.boards = [x \in DOMAIN srv'.boards |-> srv'.boards[x]]
    BY <2>4 DEF Removed
  <2>6. /\ DOMAIN srv'.where = DOMAIN srv.where
        /\ \A x \in DOMAIN srv.where : srv'.where[x] = IF srv.where[x] = from THEN NoBoard ELSE srv.where[x]
        /\ srv'.where = [x \in DOMAIN srv'.where |-> srv'.where[x]]
    BY <2>4
  <2>7. from # DefaultBoard
    BY <1>6 DEF Accepts
  <2> HIDE DEF where
  <2>8. ServerShape'
    BY <2>3, <2>4, <2>5, <2>6, <2>7 DEF ServerShape
  <2>9. TakenKept'
    BY <1>1, <1>6, <2>6 DEF TakenKept
  <2>10. \A b : Lost(b, half)' => Lost(b, HalfCompleted)
    BY <1>6, <2>5 DEF Lost
  <2>11. \A x \in DOMAIN srv'.where \ (srv'.done \cup late') : ~Lost(srv'.where[x], HalfCompleted)
    <3>1. ~Lost(NoBoard, HalfCompleted)
      BY DEF Lost, ServerShape
    <3> QED BY <1>1, <2>4, <2>6, <3>1 DEF Reachable
  <2>12. Reachable(half)'
    BY <2>10, <2>11, ReachKept
  <2> QED BY <1>6, <2>4, <2>5, <2>6, <2>8, <2>9, <2>12 DEF RanksStay, RowsStay
<1>7. CASE c.phase = "start"
  <2>1. from \in DOMAIN srv.boards
    BY <1>7 DEF Accepts
  <2>2. srv' = [srv EXCEPT !.boards = [srv.boards EXCEPT ![from].status = "ACTIVE"]]
    BY <1>7 DEF Effect, ServerShape
  <2>3. PICK boards : boards = [srv.boards EXCEPT ![from].status = "ACTIVE"]
    OBVIOUS
  <2>4. srv' = [boards |-> boards, where |-> srv.where, done |-> srv.done]
    BY <2>2, <2>3 DEF ServerShape
  <2>5. srv'.boards = boards /\ srv'.where = srv.where /\ srv'.done = srv.done
    BY <2>4
  <2>6. /\ DOMAIN boards = DOMAIN srv.boards
        /\ boards = [x \in DOMAIN boards |-> boards[x]]
        /\ boards[from] = [kind |-> srv.boards[from].kind, status |-> "ACTIVE", rank |-> srv.boards[from].rank]
        /\ \A x \in DOMAIN boards \ {from} : boards[x] = srv.boards[x]
    BY <2>1, <2>3, StatusShape
  <2>7. ServerShape'
    <3>1. \A b \in DOMAIN boards : boards[b] = [kind |-> boards[b].kind, status |-> boards[b].status, rank |-> boards[b].rank]
      BY <2>6 DEF ServerShape
    <3>2. boards[DefaultBoard].kind = "BACKLOG"
      BY <2>6 DEF ServerShape
    <3> QED BY <2>4, <2>5, <2>6, <3>1, <3>2 DEF ServerShape
  <2>8. \A b : Lost(b, half)' => Lost(b, HalfCompleted)
    BY <1>7, <2>5, <2>6 DEF Lost, Sprint
  <2>11. \A x \in DOMAIN srv'.where \ (srv'.done \cup late') : ~Lost(srv'.where[x], HalfCompleted)
    BY <1>1, <2>5 DEF Reachable
  <2>12. Reachable(half)'
    BY <2>8, <2>11, ReachKept
  <2>9. TakenKept'
    BY <1>1, <2>5 DEF TakenKept
  <2>10. RanksStay
    BY <2>5, <2>6 DEF RanksStay
  <2> QED BY <1>7, <2>5, <2>7, <2>9, <2>10, <2>12 DEF RowsStay
<1>8. CASE c.phase = "complete"
  <2>1. from \in DOMAIN srv.boards /\ to \in DOMAIN srv.boards
    BY <1>8 DEF Accepts
  <2>2. srv' = NonDoneMoved(from, to)
    BY <1>8 DEF Effect
  <2>3. \/ from # to /\ ~Lost(to, HalfCompleted)
        \/ {x \in DOMAIN srv.where : srv.where[x] = from} \subseteq late'
    BY <1>0, <1>8 DEF LateFor, StoryCall
  <2>4. half \subseteq HalfCompleted \cup {from}
    BY <1>8
  <2> HIDE DEF from, to
  <2>5. ServerShape' /\ TakenKept' /\ Reachable(half)' /\ RanksStay /\ RowsStay
    BY <1>1, <2>1, <2>2, <2>3, <2>4, MovingKeeps
  <2> QED BY <1>8, <2>5
<1>10. CASE c.phase = "close"
  <2>1. from \in DOMAIN srv.boards /\ from \in HalfCompleted /\ half \subseteq HalfCompleted
    BY <1>10 DEF Accepts
  <2>2. srv' = SprintClosed(from)
    BY <1>10 DEF Effect
  <2> HIDE DEF from
  <2>3. ServerShape' /\ TakenKept' /\ Reachable(half)' /\ RanksStay /\ RowsStay
    BY <1>1, <2>1, <2>2, ClosingKeeps
  <2> QED BY <1>10, <2>3
<1> QED BY <1>2, <1>3, <1>4, <1>5, <1>6, <1>7, <1>8, <1>10 DEF StoryCall, BacklogPhases

\* What a write the server accepts leaves of boards and rows.
LEMMA WriteKeepsRows ==
  ASSUME StoriesInv, page = "backlog", NEW c \in calls, c.phase \notin {"fetch", "swap"}, c.net = "sent",
         Accepts(c), srv' = Effect(c), late' = late \cup LateFor(c),
         taken' = IF c.phase = "deleteBoard"
                  THEN taken \cup {s \in DOMAIN srv.where : srv.where[s] = c.arg.from} ELSE taken
  PROVE  RanksStay /\ RowsStay
<1>1. ServerShape /\ StoriesKept /\ StoryCall(c)
  BY DEF StoriesInv
<1>2. c.phase = "close" => c.arg.from \in HalfCompleted
  BY DEF HalfCompleted
<1>3. PICK half : half = {}
  OBVIOUS
<1>4. half \subseteq HalfCompleted \cup (IF c.phase = "complete" THEN {c.arg.from} ELSE {})
  BY <1>3
<1> QED BY <1>1, <1>2, <1>4, WriteKeepsStories

\* Nor does another client move a board, or name a row.
LEMMA OthersKeepRows ==
  ASSUME StoriesInv, page = "backlog", OthersChangeBacklog PROVE RanksStay /\ RowsStay
<1>1. ASSUME NEW b, srv' = NonDoneMoved(b, DefaultBoard) PROVE RanksStay /\ RowsStay
  <2>1. PICK x : x = srv'
    OBVIOUS
  <2>2. x = NonDoneMoved(b, DefaultBoard)
    BY <1>1, <2>1
  <2>3. /\ x = [boards |-> srv.boards, where |-> x.where, done |-> srv.done]
        /\ x.where = [s \in DOMAIN srv.where |-> IF srv.where[s] = b /\ s \notin srv.done THEN DefaultBoard ELSE srv.where[s]]
    BY <2>2, MovedShape DEF StoriesInv
  <2>4. DefaultBoard \in DOMAIN srv.boards
    BY DEF StoriesInv, ServerShape
  <2>5. srv'.boards = srv.boards /\ srv'.done = srv.done /\ DOMAIN srv'.where = DOMAIN srv.where
    BY <2>1, <2>3
  <2>6. \A s \in DOMAIN srv.where :
          srv'.where[s] = IF srv.where[s] = b /\ s \notin srv.done THEN DefaultBoard ELSE srv.where[s]
    BY <2>1, <2>3
  <2> QED BY <2>4, <2>5, <2>6 DEF RanksStay, RowsStay
<1>2. ASSUME NEW s \in DOMAIN srv.where, NEW b, b = NoBoard \/ b \in DOMAIN srv.boards,
             srv' = [srv EXCEPT !.where[s] = b]
      PROVE  RanksStay /\ RowsStay
  <2>1. srv' = [srv EXCEPT !.where = [srv.where EXCEPT ![s] = b]]
    BY <1>2 DEF StoriesInv, ServerShape
  <2>2. srv' = [boards |-> srv.boards, where |-> [srv.where EXCEPT ![s] = b], done |-> srv.done]
    BY <2>1 DEF StoriesInv, ServerShape
  <2>3. srv'.boards = srv.boards /\ srv'.where = [srv.where EXCEPT ![s] = b] /\ srv'.done = srv.done
    BY <2>2
  <2>4. /\ DOMAIN srv'.where = DOMAIN srv.where /\ srv'.where[s] = b
        /\ \A x \in DOMAIN srv.where \ {s} : srv'.where[x] = srv.where[x]
    BY <2>3 DEF StoriesInv, ServerShape
  <2> QED BY <1>2, <2>3, <2>4 DEF RanksStay, RowsStay
<1> QED BY <1>1, <1>2 DEF OthersChangeBacklog

\* Nor does a completion that closes its sprint.
LEMMA ClosingKeepsRows ==
  ASSUME StoriesInv, page = "backlog", NEW b, CompletionCloses(b) PROVE RanksStay /\ RowsStay
<1>1. b \in HalfCompleted /\ UNCHANGED <<taken, late>>
  BY DEF CompletionCloses, HalfCompleted
<1>2. ServerShape /\ TakenKept /\ Reachable(HalfCompleted)
  BY DEF StoriesInv, StoriesKept
<1>3. CASE UNCHANGED srv
  BY <1>3 DEF RanksStay, RowsStay
<1>4. CASE b \in DOMAIN srv.boards /\ srv' = SprintClosed(b)
  <2>1. PICK half : half = {}
    OBVIOUS
  <2>2. half \subseteq HalfCompleted
    BY <2>1
  <2>3. taken \subseteq taken' /\ late \subseteq late'
    BY <1>1
  <2>4. b \in DOMAIN srv.boards /\ b \in HalfCompleted /\ srv' = SprintClosed(b)
    BY <1>1, <1>4
  <2>5. ServerShape /\ TakenKept /\ Reachable(HalfCompleted)
    BY <1>2
  <2>6. RanksStay /\ RowsStay
    BY <2>2, <2>3, <2>4, <2>5, ClosingKeeps
  <2> QED BY <2>6
<1> QED BY <1>3, <1>4 DEF CompletionCloses

LEMMA OrphanShape ==
  ASSUME NEW c, CallShape(c)
  PROVE  [c EXCEPT !.op = "orphan", !.key = NoKey, !.net = "sent"] =
           [n |-> c.n, op |-> "orphan", key |-> NoKey, project |-> c.project, phase |-> c.phase,
            net |-> "sent", arg |-> c.arg, old |-> c.old, answer |-> c.answer]
<1> DEFINE d == [c EXCEPT !.op = "orphan"]
           e == [d EXCEPT !.key = NoKey]
<1>1. d = [n |-> c.n, op |-> "orphan", key |-> c.key, project |-> c.project, phase |-> c.phase,
           net |-> c.net, arg |-> c.arg, old |-> c.old, answer |-> c.answer]
  BY DEF CallShape
<1> HIDE DEF d
<1>2. e = [n |-> c.n, op |-> "orphan", key |-> NoKey, project |-> c.project, phase |-> c.phase,
           net |-> c.net, arg |-> c.arg, old |-> c.old, answer |-> c.answer]
  BY <1>1
<1>3. [c EXCEPT !.op = "orphan", !.key = NoKey, !.net = "sent"] = [e EXCEPT !.net = "sent"]
  BY DEF CallShape, d, e
<1> HIDE DEF e
<1> QED BY <1>2, <1>3

\* The rank writes of a swap that have no answer yet.
LEMMA LeftShape ==
  ASSUME NEW c, CallShape(c), NEW left
  PROVE  LET d == [c EXCEPT !.arg.left = left]
         IN  d = [n |-> c.n, op |-> c.op, key |-> c.key, project |-> c.project, phase |-> c.phase,
                  net |-> c.net, arg |-> [c.arg EXCEPT !.left = left], old |-> c.old, answer |-> c.answer]
BY DEF CallShape

\* What a handler may go on with.
LEMMA AnsweredStory ==
  ASSUME NEW c, StoryCall(c), c.phase # "swap", NEW net \in {"ok", "failed"}, NEW answer,
         net = "ok" /\ c.phase = "add" => c.key[2] \in taken', taken \subseteq taken',
         c.op = "swap" => c.arg.left = {}
  PROVE  StoryCall([c EXCEPT !.net = net, !.answer = answer])'
<1> DEFINE e == [c EXCEPT !.net = net, !.answer = answer]
<1>1. e = [n |-> c.n, op |-> c.op, key |-> c.key, project |-> c.project, phase |-> c.phase,
           net |-> net, arg |-> c.arg, old |-> c.old, answer |-> answer]
  BY AnsweredShape DEF StoryCall
<1> HIDE DEF e
<1>2. StoryCall(e)'
  BY <1>1 DEF StoryCall, CallShape, Fetching, IsPlan
<1> QED BY <1>2 DEF e

LEMMA StoryCallStays ==
  ASSUME NEW c, StoryCall(c), taken \subseteq taken' PROVE StoryCall(c)'
BY DEF StoryCall, CallShape, Fetching, IsPlan

\* What begins or goes on is no completion that has moved its stories.
Fresh(c) == StoryCall(c) /\ (c.phase # "close" \/ c.net # "sent")

\* A step of the page alone.
LEMMA PageKeepsStories ==
  ASSUME StoriesInv, page = "backlog", page' = page, UNCHANGED <<srv, taken, closing, late>>,
         \A c \in calls' : c \in calls \/ Fresh(c)
  PROVE  StoriesInv'
<1>1. HalfCompleted' \subseteq HalfCompleted
  <2>1. closing' \subseteq HalfCompleted
    BY DEF HalfCompleted
  <2>2. \A c \in calls' : c \in calls \/ c.phase # "close" \/ c.net # "sent"
    BY DEF Fresh
  <2> QED BY <2>1, <2>2, HalfLess
<1>2. ServerShape' /\ TakenKept'
  BY DEF StoriesInv, StoriesKept, ServerShape, TakenKept
<1>3. Reachable(HalfCompleted)'
  BY <1>1, ReachStays DEF StoriesInv, StoriesKept
<1>4. ASSUME NEW c \in calls' PROVE StoryCall(c)'
  BY <1>4, StoryCallStays DEF StoriesInv, Fresh
<1> QED BY <1>2, <1>3, <1>4 DEF StoriesInv, StoriesKept

LEMMA PlanIs ==
  /\ \A from, to, left :
       LET p == Plan(from, to, left)
       IN  IsPlan(p) /\ p.from = from /\ p.to = to /\ p.left = left
  /\ IsPlan(NoPlan)
BY DEF Plan, IsPlan, NoPlan

\* A handler begins.
LEMMA BegunStory ==
  ASSUME NEW op, NEW key, NEW p, NEW phase \in BacklogPhases \ {"remove", "close"}, NEW arg, IsPlan(arg), NEW old,
         phase = "swap" <=> op = "swap", op # "orphan",
         phase = "complete" /\ op # "sprint" => arg.from # arg.to
  PROVE  Fresh(NewCall(op, key, p, phase, arg, old))
BY DEF Fresh, StoryCall, NewCall, CallShape, Fetching

LEMMA BeginKeepsStories ==
  ASSUME StoriesInv, page = "backlog", page' = page, UNCHANGED <<srv, taken, closing, late>>,
         NEW op, NEW key, NEW phase \in BacklogPhases \ {"remove", "close"}, NEW arg, IsPlan(arg), Begin(op, key, phase, arg),
         phase = "swap" <=> op = "swap", op # "orphan",
         phase = "complete" /\ op # "sprint" => arg.from # arg.to
  PROVE  StoriesInv'
<1>1. Fresh(NewCall(op, key, selected, phase, arg, NoPlan))
  BY BegunStory
<1> QED BY <1>1, PageKeepsStories DEF Begin

LEMMA UserKeepsStories ==
  ASSUME StoriesInv, page = "backlog", page' = page, BacklogUser PROVE StoriesInv'
<1> USE DEF BacklogPhases
<1>1. ASSUME NEW p, SelectBacklogProject(p) PROVE StoriesInv'
  <2>1. Fresh(NewCall("load", NoKey, p, "fetch", NoPlan, NoPlan))
    BY BegunStory, PlanIs
  <2> QED BY <1>1, <2>1, PageKeepsStories DEF SelectBacklogProject
<1>2. CASE RefreshBacklog
  BY <1>2, BeginKeepsStories, PlanIs DEF RefreshBacklog
<1>3. ASSUME NEW s, NEW op, ChangeStory(s, op) PROVE StoriesInv'
  BY <1>3, BeginKeepsStories, PlanIs DEF ChangeStory
<1>4. ASSUME NEW s, DeleteStory(s) PROVE StoriesInv'
  BY <1>4, BeginKeepsStories, PlanIs DEF DeleteStory
<1>5. ASSUME NEW s, NEW to, MoveToBacklog(s, to) PROVE StoriesInv'
  <2>1. PICK plan : Begin("move", <<"story", s>>, "add", plan) /\ IsPlan(plan)
    BY <1>5, PlanIs DEF MoveToBacklog
  <2> QED BY <1>5, <2>1, BeginKeepsStories DEF MoveToBacklog
<1>6. ASSUME NEW b, NEW direction, MoveBoard(b, direction) PROVE StoriesInv'
  <2>1. PICK plan : Begin("swap", <<"board", b>>, "swap", plan) /\ IsPlan(plan)
    BY <1>6, PlanIs DEF MoveBoard
  <2> QED BY <1>6, <2>1, BeginKeepsStories DEF MoveBoard
<1>7. ASSUME NEW b, OpenStart(b) \/ OpenComplete(b) \/ OpenDelete(b) \/ ChooseTarget(b) \/ CloseDialog
      PROVE  StoriesInv'
  BY <1>7, PageKeepsStories DEF OpenStart, OpenComplete, OpenDelete, ChooseTarget, CloseDialog, Open, pageVars
<1>8. CASE ConfirmSprint
  <2>1. PICK phase \in {"start", "complete"} :
              \E plan : Begin("sprint", <<"sprint", dialog.board>>, phase, plan) /\ IsPlan(plan)
    <3>1. PICK phase : phase = IF dialog.kind = "start" THEN "start" ELSE "complete"
      OBVIOUS
    <3> QED BY <1>8, <3>1, PlanIs DEF ConfirmSprint
  <2> QED BY <1>8, <2>1, BeginKeepsStories DEF ConfirmSprint
<1>9. CASE ConfirmComplete
  <2>1. Begin("complete", <<"sprint", dialog.board>>, "complete", Plan(dialog.board, dialog.target, {}))
    BY <1>9 DEF ConfirmComplete
  <2>2. dialog.board # dialog.target
    BY <1>9 DEF ConfirmComplete, CompleteTargets
  <2>3. PICK plan : plan = Plan(dialog.board, dialog.target, {})
    OBVIOUS
  <2>4. PICK key : key = <<"sprint", dialog.board>>
    OBVIOUS
  <2>5. Begin("complete", key, "complete", plan) /\ plan.from # plan.to /\ IsPlan(plan)
    BY <2>1, <2>2, <2>3, <2>4, PlanIs
  <2> QED BY <1>9, <2>5, BeginKeepsStories DEF ConfirmComplete
<1>10. CASE ConfirmDelete
  <2>1. PICK plan, key : Begin("deleteBoard", key, "deleteBoard", plan) /\ IsPlan(plan)
    BY <1>10, PlanIs DEF ConfirmDelete
  <2> QED BY <1>10, <2>1, BeginKeepsStories DEF ConfirmDelete
<1> QED BY <1>1, <1>2, <1>3, <1>4, <1>5, <1>6, <1>7, <1>8, <1>9, <1>10 DEF BacklogUser

LEMMA WriteAnsweredStories ==
  ASSUME StoriesInv, page = "backlog", page' = page, NEW c \in calls, BacklogWriteAnswered(c)
  PROVE  StoriesInv'
<1>1. StoryCall(c) /\ c.phase \notin {"fetch", "swap"} /\ c.op # "swap" /\ c.net = "sent"
  BY DEF BacklogWriteAnswered, StoriesInv, StoryCall, Writing, Fetching
<1>2. PICK ok, failed : /\ ok = [c EXCEPT !.net = "ok", !.answer = NoView]
                       /\ failed = [c EXCEPT !.net = "failed", !.answer = NoView]
  OBVIOUS
<1>3. ok.net = "ok" /\ failed.net = "failed"
  BY <1>1, <1>2, AnsweredShape DEF StoryCall
<1>4. calls' = (calls \ {c}) \cup {ok} \/ calls' = (calls \ {c}) \cup {failed}
  BY <1>2 DEF BacklogWriteAnswered, Answered, Replace
<1>5. HalfCompleted' \subseteq HalfCompleted
  <2>1. closing' = closing \/ (c.phase = "close" /\ closing' = closing \cup {c.arg.from})
    BY DEF BacklogWriteAnswered
  <2>2. closing' \subseteq HalfCompleted
    BY <1>1, <2>1 DEF HalfCompleted
  <2>3. \A d \in calls' : d \in calls \/ d.phase # "close" \/ d.net # "sent"
    BY <1>3, <1>4
  <2> QED BY <2>2, <2>3, HalfLess
<1>6. PICK half : half = HalfCompleted'
  OBVIOUS
<1>7. /\ half \subseteq HalfCompleted \cup (IF c.phase = "complete" THEN {c.arg.from} ELSE {})
      /\ c.phase = "close" => c.arg.from \in HalfCompleted
  BY <1>1, <1>5, <1>6 DEF HalfCompleted
<1>8. ASSUME ~(UNCHANGED <<srv, taken, late>> /\ Answered(c, "failed", NoView))
      PROVE  /\ Accepts(c) /\ srv' = Effect(c) /\ late' = late \cup LateFor(c)
             /\ taken' = IF c.phase = "deleteBoard"
                         THEN taken \cup {s \in DOMAIN srv.where : srv.where[s] = c.arg.from} ELSE taken
  BY <1>8 DEF BacklogWriteAnswered
<1>9. ASSUME ~(UNCHANGED <<srv, taken, late>> /\ Answered(c, "failed", NoView))
      PROVE  /\ ServerShape' /\ TakenKept' /\ Reachable(half)' /\ taken \subseteq taken'
             /\ c.phase = "add" => c.key[2] \in taken'
  <2>1. taken \subseteq taken'
    BY <1>8, <1>9
  <2>2. /\ Accepts(c) /\ srv' = Effect(c) /\ late' = late \cup LateFor(c)
        /\ taken' = IF c.phase = "deleteBoard"
                    THEN taken \cup {s \in DOMAIN srv.where : srv.where[s] = c.arg.from} ELSE taken
    BY <1>8, <1>9
  <2>3. ServerShape /\ StoriesKept
    BY DEF StoriesInv
  <2> QED BY <1>1, <1>7, <2>1, <2>2, <2>3, WriteKeepsStories
<1>10. ServerShape' /\ TakenKept' /\ taken \subseteq taken'
  <2>1. CASE UNCHANGED <<srv, taken, late>> /\ Answered(c, "failed", NoView)
    BY <2>1 DEF StoriesInv, StoriesKept, ServerShape, TakenKept
  <2> QED BY <1>9, <2>1
<1>11. Reachable(HalfCompleted)'
  <2>1. CASE UNCHANGED <<srv, taken, late>> /\ Answered(c, "failed", NoView)
    BY <1>5, <2>1, ReachStays DEF StoriesInv, StoriesKept
  <2>2. CASE Reachable(half)'
    BY <1>6, <2>2 DEF Reachable, Lost
  <2> QED BY <1>9, <2>1, <2>2
<1>12. calls' = (calls \ {c}) \cup {ok} => (c.phase = "add" => c.key[2] \in taken')
  <2>1. CASE UNCHANGED <<srv, taken, late>> /\ Answered(c, "failed", NoView)
    <3>1. calls' = (calls \ {c}) \cup {failed} /\ failed \in calls'
      BY <1>2, <2>1 DEF Answered, Replace
    <3>4. CASE calls' = (calls \ {c}) \cup {ok}
      <4>1. failed \in (calls \ {c}) \cup {ok} /\ failed # ok
        BY <1>3, <3>1, <3>4
      <4>2. failed \in calls /\ failed # c
        BY <4>1
      <4>3. ok \in (calls \ {c}) \cup {failed} /\ ok # failed
        BY <1>3, <3>1, <3>4
      <4>4. ok \in calls
        BY <4>3
      <4>5. StoryCall(ok) /\ ok.phase = c.phase /\ ok.key = c.key
        <5>1. StoryCall(ok)
          BY <4>4 DEF StoriesInv
        <5>2. ok = [n |-> c.n, op |-> c.op, key |-> c.key, project |-> c.project, phase |-> c.phase,
                    net |-> "ok", arg |-> c.arg, old |-> c.old, answer |-> NoView]
          <6>1. PICK net, none : net = "ok" /\ none = NoView
            OBVIOUS
          <6> QED BY <1>1, <1>2, <6>1, AnsweredShape DEF StoryCall
        <5> QED BY <5>1, <5>2
      <4> QED BY <1>3, <1>10, <4>5 DEF StoryCall
    <3> QED BY <3>4
  <2> QED BY <1>9, <2>1
<1>13. StoryCall(failed)'
  BY <1>1, <1>2, <1>10, AnsweredStory
<1>14. (c.phase = "add" => c.key[2] \in taken') => StoryCall(ok)'
  BY <1>1, <1>2, <1>10, AnsweredStory
<1>15. \A d \in calls \ {c} : StoryCall(d)'
  BY <1>10, StoryCallStays DEF StoriesInv
<1>16. \A d \in calls' : StoryCall(d)'
  BY <1>4, <1>12, <1>13, <1>14, <1>15
<1> QED BY <1>10, <1>11, <1>16 DEF StoriesInv, StoriesKept

\* The first commit of a completion the page waits for.
LEMMA MovesKeepStories ==
  ASSUME StoriesInv, page = "backlog", page' = page, NEW c \in calls, CompletionMoves(c)
  PROVE  StoriesInv'
<1>1. /\ StoryCall(c) /\ c.phase = "complete" /\ c.net = "sent" /\ Accepts(c) /\ srv' = Effect(c)
      /\ late' = late \cup LateFor(c) /\ taken' = taken /\ closing' = closing /\ Await(c, "close")
  BY DEF CompletionMoves, StoriesInv
<1>2. PICK e : e = Advance(c, "close")
  OBVIOUS
<1>3. e = [n |-> c.n, op |-> c.op, key |-> c.key, project |-> c.project, phase |-> "close",
           net |-> "sent", arg |-> c.arg, old |-> c.old, answer |-> c.answer]
  BY <1>1, <1>2, AwaitShape DEF StoryCall
<1>4. calls' = (calls \ {c}) \cup {e}
  BY <1>1, <1>2 DEF Await, Replace
<1>5. HalfCompleted' \subseteq HalfCompleted \cup {c.arg.from}
  BY <1>1, <1>3, <1>4 DEF HalfCompleted
<1>6. PICK half : half = HalfCompleted'
  OBVIOUS
<1>7. half \subseteq HalfCompleted \cup (IF c.phase = "complete" THEN {c.arg.from} ELSE {})
  BY <1>1, <1>5, <1>6
<1>8. ServerShape /\ StoriesKept
  BY DEF StoriesInv
<1>9. c.phase # "swap" /\ c.op # "swap"
  BY <1>1 DEF StoryCall, Fetching
<1>10. ServerShape' /\ TakenKept' /\ Reachable(half)'
  BY <1>1, <1>7, <1>8, <1>9, WriteKeepsStories
<1>11. Reachable(HalfCompleted)'
  BY <1>6, <1>10 DEF Reachable, Lost
<1>12. StoryCall(e)
  BY <1>1, <1>3 DEF StoryCall, CallShape, Fetching, IsPlan, BacklogPhases
<1>13. \A d \in calls' : StoryCall(d)'
  BY <1>1, <1>4, <1>12, StoryCallStays DEF StoriesInv
<1> QED BY <1>10, <1>11, <1>13 DEF StoriesInv, StoriesKept

\* The second commit, or the death, of one the page does not wait for.
LEMMA ClosesKeepStories ==
  ASSUME StoriesInv, page = "backlog", page' = page, NEW b, CompletionCloses(b)
  PROVE  StoriesInv'
<1>1. b \in closing /\ closing' = closing \ {b} /\ UNCHANGED <<calls, taken, late>>
  BY DEF CompletionCloses
<1>2. b \in HalfCompleted /\ HalfCompleted' \subseteq HalfCompleted
  BY <1>1 DEF HalfCompleted
<1>3. ServerShape /\ TakenKept /\ Reachable(HalfCompleted)
  BY DEF StoriesInv, StoriesKept
<1>4. ServerShape' /\ TakenKept' /\ Reachable(HalfCompleted)'
  <2>1. CASE UNCHANGED srv
    <3>1. ServerShape' /\ TakenKept'
      BY <1>1, <1>3, <2>1 DEF ServerShape, TakenKept
    <3> QED BY <1>1, <1>2, <1>3, <2>1, <3>1, ReachStays
  <2>2. CASE b \in DOMAIN srv.boards /\ srv' = SprintClosed(b)
    <3>1. PICK half : half = HalfCompleted'
      OBVIOUS
    <3>2. ServerShape' /\ TakenKept' /\ Reachable(half)'
      BY <1>1, <1>2, <1>3, <2>2, <3>1, ClosingKeeps
    <3> QED BY <3>1, <3>2 DEF Reachable, Lost
  <2> QED BY <2>1, <2>2 DEF CompletionCloses
<1>5. \A d \in calls' : StoryCall(d)'
  BY <1>1, StoryCallStays DEF StoriesInv
<1> QED BY <1>4, <1>5 DEF StoriesInv, StoriesKept

LEMMA FetchAnsweredStories ==
  ASSUME StoriesInv, page = "backlog", page' = page, NEW c \in calls, BacklogFetchAnswered(c)
  PROVE  StoriesInv'
<1>1. StoryCall(c) /\ c.phase = "fetch" /\ UNCHANGED <<srv, taken, closing, late>>
  BY DEF BacklogFetchAnswered, StoriesInv, Fetching
<1>2. PICK view_ : view_ = FetchBacklogData(c.project)
  OBVIOUS
<1>3. \/ calls' = (calls \ {c}) \cup {[c EXCEPT !.net = "failed", !.answer = NoView]}
      \/ calls' = (calls \ {c}) \cup {[c EXCEPT !.net = "ok", !.answer = view_]}
  BY <1>2 DEF BacklogFetchAnswered, Answered, Replace
<1>4. c.op = "swap" => c.arg.left = {}
  BY <1>1 DEF StoryCall, Fetching
<1>5. StoryCall([c EXCEPT !.net = "failed", !.answer = NoView])'
  BY <1>1, <1>4, AnsweredStory
<1>6. StoryCall([c EXCEPT !.net = "ok", !.answer = view_])'
  BY <1>1, <1>4, AnsweredStory
<1>9. /\ [c EXCEPT !.net = "failed", !.answer = NoView].phase = "fetch"
      /\ [c EXCEPT !.net = "ok", !.answer = view_].phase = "fetch"
  BY <1>1, AnsweredShape DEF StoryCall
<1>7. Fresh([c EXCEPT !.net = "failed", !.answer = NoView])
  BY <1>1, <1>5, <1>9 DEF Fresh, StoryCall, CallShape, Fetching, IsPlan
<1>8. Fresh([c EXCEPT !.net = "ok", !.answer = view_])
  BY <1>1, <1>6, <1>9 DEF Fresh, StoryCall, CallShape, Fetching, IsPlan
<1> QED BY <1>1, <1>3, <1>7, <1>8, PageKeepsStories

\* What is left of a swap after one of its rank writes is answered.
AfterRank(c, w, ok) ==
    LET d == [c EXCEPT !.arg.left = @ \ {w}]
    IN  IF c.op = "orphan" THEN IF d.arg.left = {} THEN {} ELSE {d}
        ELSE IF ~ok THEN {[d EXCEPT !.net = "failed"]}
        ELSE IF d.arg.left = {} THEN {[d EXCEPT !.net = "ok"]} ELSE {d}

LEMMA RankCalls ==
  ASSUME NEW c, CallShape(c), NEW left, c.arg.left = left, NEW w, NEW ok,
         IsPlan(c.arg)
  PROVE  \A e \in AfterRank(c, w, ok) :
           /\ e = [n |-> c.n, op |-> c.op, key |-> c.key, project |-> c.project, phase |-> c.phase,
                   net |-> e.net, arg |-> [c.arg EXCEPT !.left = left \ {w}], old |-> c.old, answer |-> c.answer]
           /\ e.arg.left = left \ {w}
           /\ c.op = "orphan" => e.net = c.net
           /\ c.op # "orphan" => e.net = IF ~ok THEN "failed" ELSE IF left \ {w} = {} THEN "ok" ELSE c.net
<1> DEFINE arg == [c.arg EXCEPT !.left = left \ {w}]
           d == [c EXCEPT !.arg.left = @ \ {w}]
<1>1. d = [n |-> c.n, op |-> c.op, key |-> c.key, project |-> c.project, phase |-> c.phase,
           net |-> c.net, arg |-> arg, old |-> c.old, answer |-> c.answer]
  BY DEF CallShape
<1>2. arg.left = left \ {w}
  BY DEF IsPlan
<1> HIDE DEF arg
<1>3. AfterRank(c, w, ok) =
        IF c.op = "orphan" THEN IF d.arg.left = {} THEN {} ELSE {d}
        ELSE IF ~ok THEN {[d EXCEPT !.net = "failed"]}
        ELSE IF d.arg.left = {} THEN {[d EXCEPT !.net = "ok"]} ELSE {d}
  BY DEF AfterRank
<1> HIDE DEF d
<1>4. \A net : [d EXCEPT !.net = net] =
          [n |-> c.n, op |-> c.op, key |-> c.key, project |-> c.project, phase |-> c.phase,
           net |-> net, arg |-> arg, old |-> c.old, answer |-> c.answer]
  BY <1>1
<1>5. SUFFICES ASSUME NEW e \in AfterRank(c, w, ok)
               PROVE  /\ e = [n |-> c.n, op |-> c.op, key |-> c.key, project |-> c.project, phase |-> c.phase,
                              net |-> e.net, arg |-> arg, old |-> c.old, answer |-> c.answer]
                      /\ e.arg.left = left \ {w}
                      /\ c.op = "orphan" => e.net = c.net
                      /\ c.op # "orphan" => e.net = IF ~ok THEN "failed" ELSE IF left \ {w} = {} THEN "ok" ELSE c.net
  BY DEF arg
<1>6. \/ e = d /\ (c.op = "orphan" \/ (ok /\ left \ {w} # {}))
      \/ e = [d EXCEPT !.net = "failed"] /\ c.op # "orphan" /\ ~ok
      \/ e = [d EXCEPT !.net = "ok"] /\ c.op # "orphan" /\ ok /\ left \ {w} = {}
  BY <1>1, <1>2, <1>3
<1> QED BY <1>1, <1>2, <1>4, <1>6

LEMMA RankWrittenStories ==
  ASSUME StoriesInv, page = "backlog", page' = page, NEW c \in calls, BacklogRankAnswered(c)
  PROVE  StoriesInv'
<1>1. PICK w \in c.arg.left : \E ok \in BOOLEAN : RankWritten(c, w, ok)
  BY DEF BacklogRankAnswered
<1>2. PICK ok \in BOOLEAN : RankWritten(c, w, ok)
  BY <1>1
<1>3. StoryCall(c) /\ c.phase = "swap" /\ c.op \in {"swap", "orphan"} /\ c.net = "sent"
  BY DEF StoriesInv, BacklogRankAnswered
<1>4. UNCHANGED <<taken, closing, late>>
  BY <1>2 DEF RankWritten
<1>6. calls' = (calls \ {c}) \cup AfterRank(c, w, ok)
  BY <1>2 DEF RankWritten, AfterRank
<1>7. ASSUME NEW e \in AfterRank(c, w, ok) PROVE StoryCall(e) /\ e.phase = "swap"
  <2> DEFINE left == c.arg.left \ {w}
             arg == [c.arg EXCEPT !.left = left]
  <2>1. CallShape(c) /\ IsPlan(c.arg)
    BY <1>3 DEF StoryCall
  <2>2. /\ e = [n |-> c.n, op |-> c.op, key |-> c.key, project |-> c.project, phase |-> c.phase,
                net |-> e.net, arg |-> arg, old |-> c.old, answer |-> c.answer]
        /\ e.arg.left = left
        /\ c.op = "orphan" => e.net = c.net
        /\ c.op # "orphan" => e.net = IF ~ok THEN "failed" ELSE IF left = {} THEN "ok" ELSE c.net
    <3>1. PICK before : before = c.arg.left
      OBVIOUS
    <3>2. \A x \in AfterRank(c, w, ok) :
            /\ x = [n |-> c.n, op |-> c.op, key |-> c.key, project |-> c.project, phase |-> c.phase,
                    net |-> x.net, arg |-> [c.arg EXCEPT !.left = before \ {w}], old |-> c.old, answer |-> c.answer]
            /\ x.arg.left = before \ {w}
            /\ c.op = "orphan" => x.net = c.net
            /\ c.op # "orphan" => x.net = IF ~ok THEN "failed" ELSE IF before \ {w} = {} THEN "ok" ELSE c.net
      BY <2>1, <3>1, RankCalls
    <3> QED BY <1>7, <3>1, <3>2
  <2>3. IsPlan(arg)
    BY <2>1 DEF IsPlan
  <2> HIDE DEF arg, left
  <2>4. CallShape(e) /\ e.op = c.op /\ e.phase = c.phase /\ e.arg = arg
    BY <2>2 DEF CallShape
  <2> QED BY <1>3, <2>2, <2>3, <2>4 DEF StoryCall, Fetching, BacklogPhases
<1>10. HalfCompleted' \subseteq HalfCompleted
  <2>1. closing' \subseteq HalfCompleted
    BY <1>4 DEF HalfCompleted
  <2>2. \A d \in calls' : d \in calls \/ d.phase # "close" \/ d.net # "sent"
    BY <1>6, <1>7
  <2> QED BY <2>1, <2>2, HalfLess
<1>11. PICK half : half = HalfCompleted'
  OBVIOUS
<1>5. ServerShape' /\ TakenKept' /\ Reachable(half)'
  <2>1. CASE ~ok
    <3>1. UNCHANGED srv
      BY <1>2, <2>1 DEF RankWritten
    <3>2. ServerShape' /\ TakenKept'
      BY <1>4, <3>1 DEF StoriesInv, ServerShape, StoriesKept, TakenKept
    <3>3. Reachable(HalfCompleted)'
      BY <1>4, <1>10, <3>1, ReachStays DEF StoriesInv, StoriesKept
    <3> QED BY <1>11, <3>2, <3>3 DEF Reachable, Lost
  <2>2. CASE ok
    <3>1. w[1] \in DOMAIN srv.boards /\ srv' = [srv EXCEPT !.boards = [srv.boards EXCEPT ![w[1]].rank = w[2]]]
      BY <1>2, <2>2 DEF RankWritten, StoriesInv, ServerShape
    <3>2. PICK boards : boards = [srv.boards EXCEPT ![w[1]].rank = w[2]]
      OBVIOUS
    <3>3. srv' = [boards |-> boards, where |-> srv.where, done |-> srv.done]
      BY <3>1, <3>2 DEF StoriesInv, ServerShape
    <3>4. srv'.boards = boards /\ srv'.where = srv.where /\ srv'.done = srv.done
      BY <3>3
    <3>5. /\ DOMAIN boards = DOMAIN srv.boards
          /\ boards = [x \in DOMAIN boards |-> boards[x]]
          /\ boards[w[1]] = [kind |-> srv.boards[w[1]].kind, status |-> srv.boards[w[1]].status, rank |-> w[2]]
          /\ \A x \in DOMAIN boards \ {w[1]} : boards[x] = srv.boards[x]
      BY <3>1, <3>2, RankShape DEF StoriesInv
    <3>6. ServerShape'
      <4>1. \A b \in DOMAIN boards : boards[b] = [kind |-> boards[b].kind, status |-> boards[b].status, rank |-> boards[b].rank]
        BY <3>5 DEF StoriesInv, ServerShape
      <4>2. boards[DefaultBoard].kind = "BACKLOG"
        BY <3>5 DEF StoriesInv, ServerShape
      <4> QED BY <3>3, <3>4, <3>5, <4>1, <4>2 DEF StoriesInv, ServerShape
    <3>7. \A b : Lost(b, half)' => Lost(b, HalfCompleted)
      BY <1>10, <1>11, <3>4, <3>5 DEF Lost, Sprint
    <3>8. TakenKept'
      BY <1>4, <3>4 DEF StoriesInv, StoriesKept, TakenKept
    <3>9. \A s \in DOMAIN srv'.where \ (srv'.done \cup late') : ~Lost(srv'.where[s], HalfCompleted)
      BY <1>4, <3>4 DEF StoriesInv, StoriesKept, Reachable
    <3>10. Reachable(half)'
      BY <3>7, <3>9, ReachKept
    <3> QED BY <3>6, <3>8, <3>10
  <2> QED BY <2>1, <2>2
<1>9. Reachable(HalfCompleted)'
  BY <1>5, <1>11 DEF Reachable, Lost
<1>8. \A e \in calls' : StoryCall(e)'
  BY <1>4, <1>6, <1>7, StoryCallStays DEF StoriesInv
<1> QED BY <1>5, <1>8, <1>9 DEF StoriesInv, StoriesKept

LEMMA OthersKeepStories ==
  ASSUME StoriesInv, page = "backlog", page' = page, OthersChangeBacklog PROVE StoriesInv'
<1>1. UNCHANGED calls /\ taken \subseteq taken' /\ late \subseteq late'
  BY DEF OthersChangeBacklog
<1>2. ServerShape /\ TakenKept /\ Reachable(HalfCompleted)
  BY DEF StoriesInv, StoriesKept
<1>3. PICK half : half = HalfCompleted'
  OBVIOUS
<1>4. ServerShape' /\ TakenKept' /\ Reachable(half)'
  <2>1. CASE \E b \in DOMAIN srv.boards :
               /\ ActiveSprint(srv.boards[b]) /\ srv' = NonDoneMoved(b, DefaultBoard) /\ closing' = closing \cup {b}
    <3>1. PICK b \in DOMAIN srv.boards :
             ActiveSprint(srv.boards[b]) /\ srv' = NonDoneMoved(b, DefaultBoard) /\ closing' = closing \cup {b}
      BY <2>1
    <3>2. DefaultBoard \in DOMAIN srv.boards /\ b # DefaultBoard /\ ~Lost(DefaultBoard, HalfCompleted)
      BY <1>2, <3>1 DEF ServerShape, ActiveSprint, Lost, Sprint
    <3>3. half \subseteq HalfCompleted \cup {b}
      BY <1>1, <1>3, <3>1 DEF HalfCompleted
    <3> QED BY <1>1, <1>2, <3>1, <3>2, <3>3, MovingKeeps
  <2>2. ASSUME NEW s \in DOMAIN srv.where, NEW b, b = NoBoard \/ b \in DOMAIN srv.boards,
               srv' = [srv EXCEPT !.where[s] = b], taken' = taken \cup {s},
               late' = IF OutOfReach(b) THEN late \cup {s} ELSE late, closing' = closing
        PROVE  ServerShape' /\ TakenKept' /\ Reachable(half)'
    <3>1. srv' = [srv EXCEPT !.where = [srv.where EXCEPT ![s] = b]]
      BY <1>2, <2>2 DEF ServerShape
    <3>2. srv' = [boards |-> srv.boards, where |-> [srv.where EXCEPT ![s] = b], done |-> srv.done]
      BY <1>2, <3>1 DEF ServerShape
    <3>3. srv'.boards = srv.boards /\ srv'.where = [srv.where EXCEPT ![s] = b] /\ srv'.done = srv.done
      BY <3>2
    <3>4. /\ DOMAIN srv'.where = DOMAIN srv.where /\ srv'.where[s] = b
          /\ \A x \in DOMAIN srv.where \ {s} : srv'.where[x] = srv.where[x]
          /\ srv'.where = [x \in DOMAIN srv'.where |-> srv'.where[x]]
      BY <1>2, <3>3 DEF ServerShape
    <3>5. ServerShape'
      BY <1>2, <3>2, <3>3, <3>4 DEF ServerShape
    <3>6. TakenKept'
      BY <1>2, <2>2, <3>3, <3>4 DEF TakenKept
    <3>7. half = HalfCompleted
      BY <1>1, <1>3, <2>2 DEF HalfCompleted
    <3>8. Lost(b, HalfCompleted) => s \in late'
      BY <2>2 DEF OutOfReach, Lost
    <3>9. \A x \in DOMAIN srv'.where \ (srv'.done \cup late') : ~Lost(srv'.where[x], HalfCompleted)
      BY <1>1, <1>2, <3>3, <3>4, <3>8 DEF Reachable
    <3>10. \A x : Lost(x, half)' => Lost(x, HalfCompleted)
      BY <3>3, <3>7 DEF Lost
    <3>11. Reachable(half)'
      BY <3>9, <3>10, ReachKept
    <3> QED BY <3>5, <3>6, <3>11
  <2> QED BY <2>1, <2>2 DEF OthersChangeBacklog
<1>5. Reachable(HalfCompleted)'
  BY <1>3, <1>4 DEF Reachable, Lost
<1>6. \A d \in calls' : StoryCall(d)'
  BY <1>1, StoryCallStays DEF StoriesInv
<1> QED BY <1>4, <1>5, <1>6 DEF StoriesInv, StoriesKept

LEMMA HandlersKeepStories ==
  ASSUME StoriesInv, page = "backlog", page' = page, NEW c \in calls,
         BacklogFetched(c) \/ BacklogWritten(c) \/ BacklogWriteFailed(c)
  PROVE  StoriesInv'
<1>1. StoryCall(c) /\ UNCHANGED <<srv, taken, closing, late>>
  BY DEF StoriesInv, BacklogFetched, BacklogWritten, BacklogWriteFailed
<1>2. CASE BacklogWritten(c)
  <2>1. PICK phase \in {"remove", "fetch"} : Await(c, phase) /\ (phase = "remove" <=> c.phase = "add")
    BY <1>2 DEF BacklogWritten
  <2>2. c.net = "ok" /\ ~Fetching(c)
    BY <1>2 DEF BacklogWritten, Writing, Fetching
  <2>3. Advance(c, phase) =
           [n |-> c.n, op |-> c.op, key |-> c.key, project |-> c.project, phase |-> phase,
            net |-> "sent", arg |-> c.arg, old |-> c.old, answer |-> c.answer]
    BY <1>1, AwaitShape DEF StoryCall
  <2>4. PICK e : e = Advance(c, phase)
    OBVIOUS
  <2>5. Fresh(e)
    BY <1>1, <2>1, <2>2, <2>3, <2>4 DEF Fresh, StoryCall, CallShape, Fetching, IsPlan, BacklogPhases
  <2> QED BY <1>1, <2>1, <2>4, <2>5, PageKeepsStories DEF Await, Replace
<1>3. CASE FinishBacklogCall(c) /\ (c.op = "swap" => Fetching(c) \/ c.net = "failed")
  <2>1. PICK e : e = [c EXCEPT !.op = "orphan", !.key = NoKey, !.net = "sent"]
    OBVIOUS
  <2>2. c.op = "swap" /\ c.arg.left # {} => Fresh(e)
    BY <1>1, <2>1, OrphanShape DEF Fresh, StoryCall, CallShape, Fetching, IsPlan
  <2>3. \A d \in calls' : d \in calls \/ (d = e /\ c.op = "swap" /\ c.arg.left # {})
    BY <1>3, <2>1 DEF FinishBacklogCall
  <2> QED BY <1>1, <2>2, <2>3, PageKeepsStories
<1> QED BY <1>2, <1>3 DEF BacklogFetched, BacklogWriteFailed

LEMMA StoriesStep == StoriesInv /\ [BacklogNext]_backlogVars => StoriesInv'
<1> SUFFICES ASSUME StoriesInv, [BacklogNext]_backlogVars PROVE StoriesInv'
  OBVIOUS
<1>1. CASE UNCHANGED backlogVars
  <2>1. UNCHANGED <<page, calls, srv, taken, closing, late>>
    BY <1>1 DEF backlogVars, pageVars
  <2>2. CASE page = "backlog"
    BY <2>1, <2>2, PageKeepsStories
  <2> QED BY <2>1, <2>2 DEF StoriesInv
<1>2. CASE BacklogNext
  <2>1. page = "backlog" /\ page' = page
    BY <1>2 DEF BacklogNext, Mounted
  <2> QED BY <1>2, <2>1, UserKeepsStories, FetchAnsweredStories, MovesKeepStories, WriteAnsweredStories, RankWrittenStories,
             OthersKeepStories, ClosesKeepStories, HandlersKeepStories DEF BacklogNext, BacklogServer, BacklogHandlers
<1> QED BY <1>1, <1>2

LEMMA StoriesAlways == BacklogSpec => []StoriesInv
BY StoriesStart, StoriesStep, PTL DEF BacklogSpec

\* Whatever fails between the two requests of a move, and whatever overtakes them: a story
\* on no board was on none at first, or another client took it off, or its board is gone.
THEOREM NoStoryLost == BacklogSpec => []MoveNeverLosesStory
<1>1. StoriesInv => MoveNeverLosesStory
  BY DEF StoriesInv, StoriesKept, TakenKept, MoveNeverLosesStory
<1> QED BY <1>1, StoriesAlways, PTL

\* However many sprints are completed, and wherever a completion stops between its two
\* transactions: an open story without a recorded reason is on no closed sprint.
THEOREM OpenStoriesVisible == BacklogSpec => []OpenStoriesStayVisible
<1>1. StoriesInv => OpenStoriesStayVisible
  BY DEF StoriesInv, StoriesKept, Reachable, Lost, OpenStoriesStayVisible, ClosedSprint
<1> QED BY <1>1, StoriesAlways, PTL

-----------------------------------------------------------------------------
(* The backlog page: the ranks of its boards.                              *)

Written(left) == {w[1] : w \in left}

\* The ranks the boards will have, once the writes that are left are made, are apart.
Apart(left) ==
    LET rest == DOMAIN srv.boards \ Written(left)
    IN  /\ \A w, v \in left : w[1] = v[1] \/ w[2] = v[2] => w = v
        /\ \A w \in left : \A b \in rest : srv.boards[b].rank # w[2]
        /\ \A a, b \in rest : a # b => srv.boards[a].rank # srv.boards[b].rank

\* A swap that is bound to fail: one of its boards is gone.
Doomed(left) == \E w \in left : w[1] \notin DOMAIN srv.boards

InSwap(c) == c.op \in {"swap", "orphan"} /\ c.phase = "swap" /\ c.net = "sent"
Calm(c) == c.op # "orphan" /\ ~(c.op = "swap" /\ c.phase = "swap")

RanksInv ==
    page = "backlog" /\ ~torn =>
    /\ \A c \in calls : c.op # "orphan" /\ (c.op = "swap" /\ c.phase = "swap" => c.net # "failed")
    /\ \A c, d \in calls : InSwap(c) /\ InSwap(d) => c = d
    /\ \A c \in calls : InSwap(c) => Doomed(c.arg.left) \/ Apart(c.arg.left)
    /\ (\A c \in calls : ~InSwap(c)) => Apart({})

LEMMA RanksStart == BacklogInit => RanksInv
BY DEF BacklogInit, RanksInv, Apart, Written

LEMMA ApartStays ==
  ASSUME RanksStay, NEW left, Doomed(left) \/ Apart(left)
  PROVE  (Doomed(left) \/ Apart(left))' /\ (left = {} => Apart(left)')
<1>1. CASE Doomed(left)
  BY <1>1 DEF Doomed, RanksStay
<1>2. CASE Apart(left)
  <2>1. Apart(left)'
    BY <1>2 DEF Apart, RanksStay, Written
  <2> QED BY <2>1
<1> QED BY <1>1, <1>2

\* A step that begins, ends and answers no swap.
LEMMA QuietRanks ==
  ASSUME RanksInv, page = "backlog", page' = page, torn' = torn, RanksStay,
         ~torn => \A c \in calls' : c \in calls \/ Calm(c),
         \A c \in calls : InSwap(c) => c \in calls'
  PROVE  RanksInv'
<1> SUFFICES ASSUME ~torn
             PROVE  /\ \A c \in calls' : c.op # "orphan" /\ (c.op = "swap" /\ c.phase = "swap" => c.net # "failed")
                    /\ \A c, d \in calls' : InSwap(c) /\ InSwap(d) => c = d
                    /\ \A c \in calls' : InSwap(c) => (Doomed(c.arg.left) \/ Apart(c.arg.left))'
                    /\ (\A c \in calls' : ~InSwap(c)) => Apart({})'
  BY DEF RanksInv, InSwap
<1>1. \A c \in calls' : c \in calls \/ (Calm(c) /\ ~InSwap(c))
  BY DEF Calm, InSwap
<1>2. \A c \in calls' : c.op # "orphan" /\ (c.op = "swap" /\ c.phase = "swap" => c.net # "failed")
  BY <1>1 DEF RanksInv, Calm
<1>3. \A c, d \in calls' : InSwap(c) /\ InSwap(d) => c = d
  BY <1>1 DEF RanksInv
<1>4. ASSUME NEW c \in calls', InSwap(c) PROVE (Doomed(c.arg.left) \/ Apart(c.arg.left))'
  <2>1. Doomed(c.arg.left) \/ Apart(c.arg.left)
    BY <1>1, <1>4 DEF RanksInv
  <2> QED BY <2>1, ApartStays
<1>5. ASSUME \A c \in calls' : ~InSwap(c) PROVE Apart({})'
  <2>1. Apart({})
    BY <1>5 DEF RanksInv
  <2> QED BY <2>1, ApartStays
<1> QED BY <1>2, <1>3, <1>4, <1>5

LEMMA UnchangedRanks == UNCHANGED srv => RanksStay
BY DEF RanksStay

LEMMA BeginRanks ==
  ASSUME RanksInv, page = "backlog", page' = page, UNCHANGED <<srv, torn>>,
         NEW op, NEW key, NEW phase, NEW arg, Begin(op, key, phase, arg), op \notin {"swap", "orphan"}
  PROVE  RanksInv'
<1>1. Calm(NewCall(op, key, selected, phase, arg, NoPlan))
  BY DEF NewCall, Calm
<1>2. PICK c : c = NewCall(op, key, selected, phase, arg, NoPlan)
  OBVIOUS
<1> QED BY <1>1, <1>2, QuietRanks, UnchangedRanks DEF Begin

LEMMA OtherBoard ==
  ASSUME NEW b, NEW direction \in {"top", "up", "down", "bottom"}, NEW a \in SwapTargets(b, direction)
  PROVE  a # b
BY DEF SwapTargets

\* A swap begins.
LEMMA MoveBoardRanks ==
  ASSUME RanksInv, page = "backlog", page' = page,
         NEW b, NEW direction \in {"top", "up", "down", "bottom"}, MoveBoard(b, direction)
  PROVE  RanksInv'
<1>1. PICK a \in SwapTargets(b, direction) :
        /\ Begin("swap", <<"board", b>>, "swap", Plan(b, a, {<<b, Rank(a)>>, <<a, Rank(b)>>}))
        /\ torn' = (torn \/ Swapping \/ \E x \in DOMAIN srv.boards \cap {a, b} : srv.boards[x].rank # Rank(x))
  BY DEF MoveBoard
<1>2. a # b
  BY OtherBoard
<1>3. PICK ra : ra = Rank(a)
  OBVIOUS
<1>4. PICK rb : rb = Rank(b)
  OBVIOUS
<1> DEFINE left == {<<b, ra>>, <<a, rb>>}
<1>5. PICK c : c = NewCall("swap", <<"board", b>>, selected, "swap", Plan(b, a, left), NoPlan)
  OBVIOUS
<1>6. c.op = "swap" /\ c.phase = "swap" /\ c.net = "sent" /\ c.arg.left = left
  BY <1>5 DEF NewCall, Plan
<1>7. calls' = calls \cup {c} /\ UNCHANGED srv
  BY <1>1, <1>3, <1>4, <1>5 DEF Begin, MoveBoard
<1> SUFFICES ASSUME ~torn' PROVE RanksInv'
  BY DEF RanksInv
<1>8. /\ ~torn /\ \A d \in calls : ~InSwap(d)
      /\ \A x \in DOMAIN srv.boards \cap {a, b} : srv.boards[x].rank = Rank(x)
  BY <1>1 DEF Swapping, InSwap
<1>9. Apart({})
  BY <1>8 DEF RanksInv
<1>10. Doomed(left) \/ Apart(left)
  <2>1. CASE a \in DOMAIN srv.boards /\ b \in DOMAIN srv.boards
    <3>1. srv.boards[a].rank = ra /\ srv.boards[b].rank = rb
      BY <1>3, <1>4, <1>8, <2>1
    <3>2. \A x, y \in DOMAIN srv.boards : x # y => srv.boards[x].rank # srv.boards[y].rank
      BY <1>9 DEF Apart, Written
    <3>3. Written(left) = {a, b}
      BY DEF Written
    <3>4. \A w, v \in left : w[1] = v[1] \/ w[2] = v[2] => w = v
      BY <1>2, <2>1, <3>1, <3>2
    <3>5. \A w \in left : \A x \in DOMAIN srv.boards \ {a, b} : srv.boards[x].rank # w[2]
      BY <2>1, <3>1, <3>2
    <3> HIDE DEF left
    <3> QED BY <3>2, <3>3, <3>4, <3>5 DEF Apart
  <2>2. CASE ~(a \in DOMAIN srv.boards /\ b \in DOMAIN srv.boards)
    <3>1. <<b, ra>>[1] = b /\ <<a, rb>>[1] = a
      OBVIOUS
    <3> QED BY <2>2, <3>1 DEF Doomed
  <2> QED BY <2>1, <2>2
<1>11. (Doomed(c.arg.left) \/ Apart(c.arg.left))'
  <2> HIDE DEF left
  <2>1. RanksStay
    BY <1>7 DEF RanksStay
  <2> QED BY <1>6, <1>10, <2>1, ApartStays
<1> HIDE DEF left
<1>12. \A d \in calls' : InSwap(d) => d = c
  BY <1>7, <1>8
<1>13. InSwap(c) /\ c \in calls'
  BY <1>6, <1>7 DEF InSwap
<1>14. \A d \in calls' : d.op # "orphan" /\ (d.op = "swap" /\ d.phase = "swap" => d.net # "failed")
  BY <1>6, <1>7, <1>8 DEF RanksInv
<1> QED BY <1>11, <1>12, <1>13, <1>14 DEF RanksInv, InSwap

\* One of the writes of the swap is made: the ranks to come stay as they are.
LEMMA ApartWritten ==
  ASSUME ServerShape, NEW left, NEW w \in left, w[1] \in DOMAIN srv.boards,
         srv' = [srv EXCEPT !.boards[w[1]].rank = w[2]], Doomed(left) \/ Apart(left)
  PROVE  (Doomed(left \ {w}) \/ Apart(left \ {w}))'
<1>1. PICK boards : boards = [srv.boards EXCEPT ![w[1]].rank = w[2]]
  OBVIOUS
<1>2. srv' = [boards |-> boards, where |-> srv.where, done |-> srv.done]
  BY <1>1 DEF ServerShape
<1>3. srv'.boards = boards
  BY <1>2
<1>4. /\ DOMAIN boards = DOMAIN srv.boards
      /\ boards[w[1]].rank = w[2]
      /\ \A x \in DOMAIN boards \ {w[1]} : boards[x] = srv.boards[x]
  <2>1. /\ DOMAIN boards = DOMAIN srv.boards
        /\ boards[w[1]] = [kind |-> srv.boards[w[1]].kind, status |-> srv.boards[w[1]].status, rank |-> w[2]]
        /\ \A x \in DOMAIN boards \ {w[1]} : boards[x] = srv.boards[x]
    BY <1>1, RankShape
  <2> QED BY <2>1
<1>5. CASE Doomed(left)
  BY <1>3, <1>4, <1>5 DEF Doomed
<1>6. CASE Apart(left)
  <2> DEFINE rest == DOMAIN srv.boards \ Written(left)
             more == DOMAIN srv.boards \ Written(left \ {w})
  <2>1. \A u, v \in left : u[1] = v[1] \/ u[2] = v[2] => u = v
    BY <1>6 DEF Apart
  <2>2. \A b \in more : b = w[1] \/ b \in rest
    BY DEF Written
  <2>3. \A b \in rest : b # w[1] /\ boards[b].rank = srv.boards[b].rank
    BY <1>4 DEF Written
  <2>4. \A u \in left : \A b \in rest : boards[b].rank # u[2]
    BY <1>6, <2>3 DEF Apart
  <2>5. \A a, b \in rest : a # b => boards[a].rank # boards[b].rank
    BY <1>6, <2>3 DEF Apart
  <2> HIDE DEF rest, more
  <2>6. \A u \in left \ {w} : \A b \in more : boards[b].rank # u[2]
    BY <1>4, <2>1, <2>2, <2>4
  <2>7. \A a, b \in more : a # b => boards[a].rank # boards[b].rank
    BY <1>4, <2>2, <2>4, <2>5
  <2>8. Apart(left \ {w})'
    BY <1>3, <1>4, <2>1, <2>6, <2>7 DEF Apart, more, Written
  <2> QED BY <2>8
<1> QED BY <1>5, <1>6

LEMMA RankWrittenRanks ==
  ASSUME RanksInv, StoriesInv, page = "backlog", page' = page, NEW c \in calls, BacklogRankAnswered(c)
  PROVE  RanksInv'
<1>1. PICK w \in c.arg.left : \E ok \in BOOLEAN : RankWritten(c, w, ok)
  BY DEF BacklogRankAnswered
<1>2. PICK ok \in BOOLEAN : RankWritten(c, w, ok)
  BY <1>1
<1> SUFFICES ASSUME ~torn' PROVE RanksInv'
  BY DEF RanksInv
<1>3. ~torn /\ ok
  BY <1>2 DEF RankWritten
<1>4. StoryCall(c) /\ InSwap(c) /\ c.op = "swap" /\ ServerShape
  BY <1>3 DEF StoriesInv, BacklogRankAnswered, RanksInv, InSwap
<1> DEFINE left == c.arg.left \ {w}
<1>5. calls' = (calls \ {c}) \cup AfterRank(c, w, ok)
  BY <1>2 DEF RankWritten, AfterRank
<1>6. w[1] \in DOMAIN srv.boards /\ srv' = [srv EXCEPT !.boards[w[1]].rank = w[2]]
  BY <1>2, <1>3 DEF RankWritten
<1>7. (Doomed(left) \/ Apart(left))'
  <2>1. Doomed(c.arg.left) \/ Apart(c.arg.left)
    BY <1>3, <1>4 DEF RanksInv
  <2> QED BY <1>4, <1>6, <2>1, ApartWritten
<1>8. \A d \in calls \ {c} : ~InSwap(d)
  BY <1>3, <1>4 DEF RanksInv
<1>9. \A e \in AfterRank(c, w, ok) :
        e.op = "swap" /\ e.phase = "swap" /\ e.arg.left = left /\ e.net = IF left = {} THEN "ok" ELSE "sent"
  <2>1. CallShape(c) /\ IsPlan(c.arg) /\ c.phase = "swap" /\ c.net = "sent"
    BY <1>4 DEF StoryCall, InSwap
  <2>2. ASSUME NEW e \in AfterRank(c, w, ok)
        PROVE  /\ e = [n |-> c.n, op |-> c.op, key |-> c.key, project |-> c.project, phase |-> c.phase,
                       net |-> e.net, arg |-> [c.arg EXCEPT !.left = left], old |-> c.old, answer |-> c.answer]
               /\ e.arg.left = left
               /\ c.op # "orphan" => e.net = IF ~ok THEN "failed" ELSE IF left = {} THEN "ok" ELSE c.net
    BY <2>1, <2>2, RankCalls
  <2> HIDE DEF left
  <2>3. \A e \in AfterRank(c, w, ok) : e.op = c.op /\ e.phase = c.phase
    BY <2>2
  <2> QED BY <1>3, <1>4, <2>1, <2>2, <2>3
<1>10. /\ \A d, e \in AfterRank(c, w, ok) : d = e
       /\ \E e : e \in AfterRank(c, w, ok)
  BY <1>3, <1>4 DEF AfterRank
<1>11. left = {} => Apart({})'
  BY <1>7 DEF Doomed
<1> HIDE DEF left
<1>12. \A d \in calls' : d.op # "orphan" /\ (d.op = "swap" /\ d.phase = "swap" => d.net # "failed")
  BY <1>3, <1>5, <1>9 DEF RanksInv
<1>13. \A d \in calls' : InSwap(d) => d \in AfterRank(c, w, ok) /\ left # {}
  BY <1>5, <1>8, <1>9 DEF InSwap
<1>14. (\A d \in calls' : ~InSwap(d)) => left = {}
  BY <1>5, <1>9, <1>10 DEF InSwap
<1>15. \A d \in calls' : InSwap(d) => (Doomed(d.arg.left) \/ Apart(d.arg.left))'
  BY <1>7, <1>9, <1>13
<1> QED BY <1>10, <1>11, <1>12, <1>13, <1>14, <1>15 DEF RanksInv, InSwap

LEMMA WriteAnsweredRanks ==
  ASSUME RanksInv, StoriesInv, page = "backlog", page' = page, NEW c \in calls, BacklogWriteAnswered(c)
  PROVE  RanksInv'
<1>1. StoryCall(c) /\ c.phase \notin {"fetch", "swap"} /\ c.op \notin {"swap", "orphan"} /\ c.net = "sent" /\ UNCHANGED torn
  BY DEF BacklogWriteAnswered, StoriesInv, StoryCall, Writing, Fetching
<1>2. RanksStay
  <2>1. CASE UNCHANGED srv
    BY <2>1, UnchangedRanks
  <2>2. CASE ~UNCHANGED srv
    <3>1. /\ Accepts(c) /\ srv' = Effect(c) /\ late' = late \cup LateFor(c)
          /\ taken' = IF c.phase = "deleteBoard"
                      THEN taken \cup {s \in DOMAIN srv.where : srv.where[s] = c.arg.from} ELSE taken
      BY <2>2 DEF BacklogWriteAnswered
    <3> QED BY <1>1, <3>1, WriteKeepsRows
  <2> QED BY <2>1, <2>2
<1>3. \/ calls' = (calls \ {c}) \cup {[c EXCEPT !.net = "failed", !.answer = NoView]}
      \/ calls' = (calls \ {c}) \cup {[c EXCEPT !.net = "ok", !.answer = NoView]}
  BY DEF BacklogWriteAnswered, Answered, Replace
<1>4. \A net : Calm([c EXCEPT !.net = net, !.answer = NoView])
  <2> TAKE net
  <2>1. [c EXCEPT !.net = net, !.answer = NoView] =
           [n |-> c.n, op |-> c.op, key |-> c.key, project |-> c.project, phase |-> c.phase,
            net |-> net, arg |-> c.arg, old |-> c.old, answer |-> NoView]
    BY <1>1, AnsweredShape DEF StoryCall
  <2> QED BY <1>1, <2>1 DEF Calm
<1> DEFINE ok == [c EXCEPT !.net = "ok", !.answer = NoView]
           failed == [c EXCEPT !.net = "failed", !.answer = NoView]
<1>7. Calm(ok) /\ Calm(failed)
  BY <1>4
<1> HIDE DEF ok, failed
<1>5. \A d \in calls' : d \in calls \/ Calm(d)
  BY <1>3, <1>7 DEF ok, failed
<1>6. \A d \in calls : InSwap(d) => d \in calls'
  BY <1>1, <1>3 DEF InSwap
<1> QED BY <1>1, <1>2, <1>5, <1>6, QuietRanks

LEMMA FetchAnsweredRanks ==
  ASSUME RanksInv, StoriesInv, page = "backlog", page' = page, NEW c \in calls, BacklogFetchAnswered(c)
  PROVE  RanksInv'
<1>1. StoryCall(c) /\ c.phase = "fetch" /\ c.op # "orphan" /\ UNCHANGED <<srv, torn>>
  BY DEF BacklogFetchAnswered, StoriesInv, StoryCall, Fetching
<1>2. PICK answer : answer = FetchBacklogData(c.project)
  OBVIOUS
<1>3. \/ calls' = (calls \ {c}) \cup {[c EXCEPT !.net = "failed", !.answer = NoView]}
      \/ calls' = (calls \ {c}) \cup {[c EXCEPT !.net = "ok", !.answer = answer]}
  BY <1>2 DEF BacklogFetchAnswered, Answered, Replace
<1>4. \A net, some : Calm([c EXCEPT !.net = net, !.answer = some])
  <2> TAKE net, some
  <2>1. [c EXCEPT !.net = net, !.answer = some] =
           [n |-> c.n, op |-> c.op, key |-> c.key, project |-> c.project, phase |-> c.phase,
            net |-> net, arg |-> c.arg, old |-> c.old, answer |-> some]
    BY <1>1, AnsweredShape DEF StoryCall
  <2> QED BY <1>1, <2>1 DEF Calm
<1> DEFINE ok == [c EXCEPT !.net = "ok", !.answer = answer]
           failed == [c EXCEPT !.net = "failed", !.answer = NoView]
<1>7. Calm(ok) /\ Calm(failed)
  BY <1>4
<1> HIDE DEF ok, failed
<1>5. \A d \in calls' : d \in calls \/ Calm(d)
  BY <1>3, <1>7 DEF ok, failed
<1>6. \A d \in calls : InSwap(d) => d \in calls'
  BY <1>1, <1>3 DEF InSwap
<1> QED BY <1>1, <1>5, <1>6, QuietRanks, UnchangedRanks

LEMMA HandlersRanks ==
  ASSUME RanksInv, StoriesInv, page = "backlog", page' = page, NEW c \in calls,
         BacklogFetched(c) \/ BacklogWritten(c) \/ BacklogWriteFailed(c)
  PROVE  RanksInv'
<1>1. StoryCall(c) /\ UNCHANGED <<srv, torn>>
  BY DEF StoriesInv, BacklogFetched, BacklogWritten, BacklogWriteFailed
<1>2. CASE BacklogWritten(c)
  <2>1. PICK phase \in {"remove", "fetch"} : Await(c, phase)
    BY <1>2 DEF BacklogWritten
  <2>2. c.net = "ok" /\ c.op # "orphan"
    BY <1>1, <1>2 DEF BacklogWritten, StoryCall
  <2>3. PICK e : e = Advance(c, phase)
    OBVIOUS
  <2>4. e = [n |-> c.n, op |-> c.op, key |-> c.key, project |-> c.project, phase |-> phase,
             net |-> "sent", arg |-> c.arg, old |-> c.old, answer |-> c.answer]
    BY <1>1, <2>3, AwaitShape DEF StoryCall
  <2>5. Calm(e)
    BY <2>1, <2>2, <2>4 DEF Calm
  <2>6. calls' = (calls \ {c}) \cup {e}
    BY <2>1, <2>3 DEF Await, Replace
  <2>7. \A d \in calls : InSwap(d) => d \in calls'
    BY <2>2, <2>6 DEF InSwap
  <2> QED BY <1>1, <2>5, <2>6, <2>7, QuietRanks, UnchangedRanks
<1>3. CASE FinishBacklogCall(c) /\ ((Fetching(c) /\ c.net # "sent") \/ (Writing(c) /\ c.net = "failed"))
  <2>1. ~torn => calls' = calls \ {c}
    BY <1>1, <1>3 DEF FinishBacklogCall, RanksInv, StoryCall, Fetching, Writing
  <2>2. ~InSwap(c)
    BY <1>3 DEF InSwap
  <2>3. \A d \in calls : d # c => d \in calls'
    BY <1>3 DEF FinishBacklogCall
  <2> QED BY <1>1, <2>1, <2>2, <2>3, QuietRanks, UnchangedRanks
<1> QED BY <1>2, <1>3 DEF BacklogFetched, BacklogWriteFailed

LEMMA UserRanks ==
  ASSUME RanksInv, page = "backlog", page' = page, BacklogUser PROVE RanksInv'
<1>1. ASSUME NEW p, SelectBacklogProject(p) PROVE RanksInv'
  <2>1. PICK c : c = NewCall("load", NoKey, p, "fetch", NoPlan, NoPlan)
    OBVIOUS
  <2>2. Calm(c)
    BY <2>1 DEF NewCall, Calm
  <2>3. \A d \in calls' : d \in calls \/ d = c
    BY <1>1, <2>1 DEF SelectBacklogProject
  <2>4. \A d \in calls : InSwap(d) => d \in calls'
    BY <1>1 DEF SelectBacklogProject, InSwap
  <2>5. UNCHANGED <<srv, torn>>
    BY <1>1 DEF SelectBacklogProject
  <2> QED BY <2>2, <2>3, <2>4, <2>5, QuietRanks, UnchangedRanks
<1>2. ASSUME NEW b, NEW direction \in {"top", "up", "down", "bottom"}, MoveBoard(b, direction) PROVE RanksInv'
  BY <1>2, MoveBoardRanks
<1>3. ASSUME NEW b, OpenStart(b) \/ OpenComplete(b) \/ OpenDelete(b) \/ ChooseTarget(b) \/ CloseDialog
      PROVE  RanksInv'
  <2>1. UNCHANGED <<calls, srv, torn>>
    BY <1>3 DEF OpenStart, OpenComplete, OpenDelete, ChooseTarget, CloseDialog, Open, pageVars
  <2> QED BY <2>1, QuietRanks, UnchangedRanks
<1>4. ASSUME NEW op, op \notin {"swap", "orphan"}, NEW key, NEW phase, NEW arg, Begin(op, key, phase, arg),
             UNCHANGED <<srv, torn>>
      PROVE  RanksInv'
  BY <1>4, BeginRanks
<1>5. CASE RefreshBacklog
  BY <1>4, <1>5 DEF RefreshBacklog
<1>6. ASSUME NEW s, NEW op, ChangeStory(s, op) PROVE RanksInv'
  BY <1>4, <1>6 DEF ChangeStory
<1>7. ASSUME NEW s, DeleteStory(s) PROVE RanksInv'
  BY <1>4, <1>7 DEF DeleteStory
<1>8. ASSUME NEW s, NEW to, MoveToBacklog(s, to) PROVE RanksInv'
  <2>1. PICK plan : Begin("move", <<"story", s>>, "add", plan)
    BY <1>8 DEF MoveToBacklog
  <2> QED BY <1>4, <1>8, <2>1 DEF MoveToBacklog
<1>9. CASE ConfirmSprint \/ ConfirmComplete \/ ConfirmDelete
  <2>1. PICK op \in {"sprint", "complete", "deleteBoard"} : \E key, phase, plan : Begin(op, key, phase, plan)
    BY <1>9 DEF ConfirmSprint, ConfirmComplete, ConfirmDelete
  <2>2. UNCHANGED <<srv, torn>>
    BY <1>9 DEF ConfirmSprint, ConfirmComplete, ConfirmDelete
  <2> QED BY <1>4, <2>1, <2>2
<1> QED BY <1>1, <1>2, <1>3, <1>5, <1>6, <1>7, <1>8, <1>9 DEF BacklogUser

LEMMA OthersRanks ==
  ASSUME RanksInv, StoriesInv, page = "backlog", page' = page, OthersChangeBacklog PROVE RanksInv'
<1>1. UNCHANGED <<calls, torn>>
  BY DEF OthersChangeBacklog
<1>2. RanksStay
  BY OthersKeepRows
<1> QED BY <1>1, <1>2, QuietRanks

LEMMA MovesRanks ==
  ASSUME RanksInv, StoriesInv, page = "backlog", page' = page, NEW c \in calls, CompletionMoves(c)
  PROVE  RanksInv'
<1>1. /\ StoryCall(c) /\ c.phase = "complete" /\ c.net = "sent" /\ Accepts(c) /\ srv' = Effect(c)
      /\ late' = late \cup LateFor(c) /\ taken' = taken /\ torn' = torn /\ Await(c, "close")
  BY DEF CompletionMoves, StoriesInv
<1>2. RanksStay
  BY <1>1, WriteKeepsRows
<1>3. PICK e : e = Advance(c, "close")
  OBVIOUS
<1>4. e.op = c.op /\ e.phase = "close"
  BY <1>1, <1>3, AwaitShape DEF StoryCall
<1>5. Calm(e) /\ ~InSwap(c)
  BY <1>1, <1>4 DEF StoryCall, Calm, InSwap
<1>6. calls' = (calls \ {c}) \cup {e}
  BY <1>1, <1>3 DEF Await, Replace
<1> QED BY <1>1, <1>2, <1>5, <1>6, QuietRanks

LEMMA ClosesRanks ==
  ASSUME RanksInv, StoriesInv, page = "backlog", page' = page, NEW b, CompletionCloses(b) PROVE RanksInv'
<1>1. UNCHANGED <<calls, torn>>
  BY DEF CompletionCloses
<1>2. RanksStay
  BY ClosingKeepsRows
<1> QED BY <1>1, <1>2, QuietRanks

LEMMA RanksStep == StoriesInv /\ RanksInv /\ [BacklogNext]_backlogVars => RanksInv'
<1> SUFFICES ASSUME StoriesInv, RanksInv, [BacklogNext]_backlogVars PROVE RanksInv'
  OBVIOUS
<1>1. CASE UNCHANGED backlogVars
  BY <1>1 DEF backlogVars, pageVars, RanksInv, Apart, Doomed, Written, InSwap
<1>2. CASE BacklogNext
  <2>1. page = "backlog" /\ page' = page
    BY <1>2 DEF BacklogNext, Mounted
  <2> QED BY <1>2, <2>1, UserRanks, FetchAnsweredRanks, MovesRanks, WriteAnsweredRanks, RankWrittenRanks,
             OthersRanks, ClosesRanks, HandlersRanks DEF BacklogNext, BacklogServer, BacklogHandlers
<1> QED BY <1>1, <1>2

LEMMA RanksAlways == BacklogSpec => []RanksInv
BY StoriesAlways, RanksStart, RanksStep, PTL DEF BacklogSpec

\* Boards change places by two requests each, and are deleted under way: while no write
\* is lost and no swap meets another, no two boards are left with one rank.
THEOREM RanksDistinct == BacklogSpec => []BoardRanksDistinct
<1>1. RanksInv => BoardRanksDistinct
  <2> SUFFICES ASSUME RanksInv, page = "backlog", ~torn, ~Swapping
               PROVE  \A a, b \in DOMAIN srv.boards : a # b => srv.boards[a].rank # srv.boards[b].rank
    BY DEF BoardRanksDistinct
  <2>1. Apart({})
    BY DEF RanksInv, InSwap, Swapping
  <2> QED BY <2>1 DEF Apart, Written
<1> QED BY <1>1, RanksAlways, PTL

-----------------------------------------------------------------------------
(* The list page.                                                          *)

ListShape(c) ==
    /\ CallShape(c)
    /\ c.arg = [from |-> c.arg.from, to |-> c.arg.to, boards |-> c.arg.boards]
    /\ Writing(c) => c.op \notin {"load", "refresh"}

\* What is listed is what the server has, for the project it was fetched for.
ListAgrees ==
    view.kind \in {"ok", "empty"} =>
      /\ view.items = RowsIn(view.project)
      /\ offered.any => offered = FetchOffer(view.project)

\* A change that was made, in full or in half, and has still to bring its refetch: not yet
\* taken, or one that the server has not gone beyond.
Refetches(c) ==
    /\ c.op \notin {"load", "refresh"}
    /\ IF Fetching(c) THEN c.net = "ok" => Current(c)
                      ELSE c.net = "ok" \/ (c.phase = "remove" /\ c.net = "sent")
SomeRefetches(cs) == \E c \in cs : Refetches(c)

ListInv ==
    page = "list" =>
    /\ \A c \in calls : ListShape(c)
    /\ ~muddled => ListAgrees \/ SomeRefetches(calls)

LEMMA ListStart == ListInit => ListInv
BY DEF ListInit, Mount, ListInv, ListAgrees, NoView, View

\* While the server's rows stay, so does what is said of them.
LEMMA ListStays ==
  ASSUME UNCHANGED srv
  PROVE  /\ \A c : Refetches(c) => Refetches(c)'
         /\ UNCHANGED <<view, offered>> => (ListAgrees => ListAgrees')
<1>1. \A p : RowsIn(p)' = RowsIn(p) /\ FetchOffer(p)' = FetchOffer(p) /\ FetchList(p)' = FetchList(p)
  BY DEF RowsIn, FetchOffer, FetchList
<1>2. \A c : Refetches(c) => Refetches(c)'
  BY <1>1 DEF Refetches, Current, Fetching
<1>3. UNCHANGED <<view, offered>> => (ListAgrees => ListAgrees')
  BY <1>1 DEF ListAgrees
<1> QED BY <1>2, <1>3

\* No change brings its refetch to an end.
LEMMA ListMore ==
  ASSUME ListInv, page = "list", UNCHANGED <<view, srv, offered, muddled>>,
         \A c \in calls' : c \in calls \/ ListShape(c),
         \A c \in calls : Refetches(c) => c \in calls'
  PROVE  ListInv'
<1>1. \A c : ListShape(c)' <=> ListShape(c)
  BY DEF ListShape, CallShape, Writing
<1>2. \A c \in calls : Refetches(c) => c \in calls' /\ Refetches(c)'
  BY ListStays
<1>3. ListAgrees => ListAgrees'
  BY ListStays
<1> QED BY <1>1, <1>2, <1>3 DEF ListInv, SomeRefetches

LEMMA BeginListKeeps ==
  ASSUME ListInv, page = "list", NEW op, NEW r, NEW phase, NEW arg,
         BeginList(op, r, phase, arg), UNCHANGED <<view, srv, offered>>,
         arg = [from |-> arg.from, to |-> arg.to, boards |-> arg.boards],
         phase = "fetch" \/ op \notin {"load", "refresh"}
  PROVE  ListInv'
<1>1. PICK c : c = ListCall(op, r, selected, phase, arg)
  OBVIOUS
<1>2. calls' = calls \cup {c} /\ UNCHANGED muddled
  BY <1>1 DEF BeginList
<1>3. ListShape(c)
  BY <1>1 DEF ListShape, ListCall, NewCall, CallShape, Writing
<1> QED BY <1>2, <1>3, ListMore

LEMMA SelectListKeeps ==
  ASSUME ListInv, page = "list", NEW p, SelectListProject(p)
  PROVE  ListInv'
<1>1. PICK c : c = ListCall("load", NoKey, p, "fetch", NoListArg)
  OBVIOUS
<1>2. /\ calls' \subseteq calls \cup {c} /\ \A d \in calls : d.op # "load" => d \in calls'
      /\ UNCHANGED <<view, srv, offered, muddled>>
  BY <1>1 DEF SelectListProject
<1>3. ListShape(c)
  BY <1>1 DEF ListShape, ListCall, NewCall, CallShape, Writing, NoListArg, ListArg
<1>4. \A d \in calls : Refetches(d) => d \in calls'
  BY <1>2 DEF Refetches
<1> QED BY <1>2, <1>3, <1>4, ListMore

LEMMA ListUserKeeps ==
  ASSUME ListInv, page = "list", page' = page, ListUser PROVE ListInv'
<1>1. ASSUME NEW op, NEW r, NEW phase, NEW arg, RunWithPending(op, r, phase, arg),
             arg = [from |-> arg.from, to |-> arg.to, boards |-> arg.boards], op \notin {"load", "refresh"}
      PROVE  ListInv'
  BY <1>1, BeginListKeeps DEF RunWithPending
<1>2. NoListArg = [from |-> NoListArg.from, to |-> NoListArg.to, boards |-> NoListArg.boards]
  BY DEF NoListArg, ListArg
<1>3. CASE RefreshList
  BY <1>2, <1>3, BeginListKeeps DEF RefreshList
<1>4. ASSUME NEW r, NEW op \in {"status", "assignee", "delete"}, ChangeRow(r, op) PROVE ListInv'
  BY <1>1, <1>2, <1>4 DEF ChangeRow
<1>5. ASSUME NEW r, NEW b, HandleMoveToBacklog(r, b) PROVE ListInv'
  <2>1. PICK arg : arg = ListArg(OnBoard(r), b, NoOffer)
    OBVIOUS
  <2> QED BY <1>1, <1>5, <2>1 DEF HandleMoveToBacklog, ListArg
<1>6. ASSUME NEW r, HandleMoveToEpic(r) PROVE ListInv'
  BY <1>2, <1>6, BeginListKeeps DEF HandleMoveToEpic
<1>7. ASSUME NEW r, OthersTakeOff(r) PROVE ListInv'
  <2>1. calls' = calls /\ muddled' = TRUE
    BY <1>7 DEF OthersTakeOff
  <2>2. \A c : ListShape(c)' <=> ListShape(c)
    BY DEF ListShape, CallShape, Writing
  <2> QED BY <2>1, <2>2 DEF ListInv
<1> QED BY <1>3, <1>4, <1>5, <1>6, <1>7, SelectListKeeps DEF ListUser

\* A handler goes on as another one.
LEMMA ListGoesOn ==
  ASSUME ListInv, page = "list", NEW c \in calls, NEW e, ListShape(e), UNCHANGED <<view, offered>>,
         calls' = (calls \ {c}) \cup {e}, muddled => muddled',
         ~muddled' => Refetches(e)' \/ (UNCHANGED srv /\ ~Refetches(c))
  PROVE  ListInv'
<1>1. \A d : ListShape(d)' <=> ListShape(d)
  BY DEF ListShape, CallShape, Writing
<1>2. ASSUME ~muddled' PROVE ListAgrees' \/ SomeRefetches(calls)'
  <2>1. CASE Refetches(e)'
    BY <2>1 DEF SomeRefetches
  <2>2. CASE UNCHANGED srv /\ ~Refetches(c)
    <3>1. (ListAgrees => ListAgrees') /\ \A d : Refetches(d) => Refetches(d)'
      BY <2>2, ListStays
    <3> QED BY <1>2, <2>2, <3>1 DEF ListInv, SomeRefetches
  <2> QED BY <1>2, <2>1, <2>2
<1> QED BY <1>1, <1>2 DEF ListInv, SomeRefetches

\* The answer to a fetch carries the rows and, beside them, the boards.
LEMMA BothAnswered ==
  ASSUME NEW c, CallShape(c), c.arg = [from |-> c.arg.from, to |-> c.arg.to, boards |-> c.arg.boards],
         NEW answer, NEW b, NEW e, e = [c EXCEPT !.net = "ok", !.answer = answer, !.arg.boards = b]
  PROVE  e = [n |-> c.n, op |-> c.op, key |-> c.key, project |-> c.project, phase |-> c.phase, net |-> "ok",
              arg |-> [from |-> c.arg.from, to |-> c.arg.to, boards |-> b], old |-> c.old, answer |-> answer]
<1> DEFINE d == [c EXCEPT !.net = "ok", !.answer = answer]
<1>1. d = [n |-> c.n, op |-> c.op, key |-> c.key, project |-> c.project, phase |-> c.phase,
           net |-> "ok", arg |-> c.arg, old |-> c.old, answer |-> answer]
  BY AnsweredShape
<1>2. e = [d EXCEPT !.arg = [c.arg EXCEPT !.boards = b]]
  BY <1>1 DEF CallShape
<1> HIDE DEF d
<1>3. [c.arg EXCEPT !.boards = b] = [from |-> c.arg.from, to |-> c.arg.to, boards |-> b]
  OBVIOUS
<1> QED BY <1>1, <1>2, <1>3

LEMMA ListFetchAnswerKeeps ==
  ASSUME ListInv, page = "list", page' = page, NEW c \in calls, ListFetchAnswered(c)
  PROVE  ListInv'
<1>1. Fetching(c) /\ c.net = "sent" /\ UNCHANGED <<view, srv, offered, muddled>>
  BY DEF ListFetchAnswered
<1>2. ListShape(c)
  BY DEF ListInv
<1>3. CASE Answered(c, "failed", NoView)
  <2>1. PICK e : e = [c EXCEPT !.net = "failed", !.answer = NoView]
    OBVIOUS
  <2>2. e = [n |-> c.n, op |-> c.op, key |-> c.key, project |-> c.project, phase |-> c.phase,
             net |-> "failed", arg |-> c.arg, old |-> c.old, answer |-> NoView]
    BY <2>1, <1>2, AnsweredShape DEF ListShape
  <2>3. ListShape(e)
    BY <1>2, <2>2 DEF ListShape, CallShape, Writing
  <2>4. Refetches(c) => Refetches(e)'
    BY <1>1, <2>2 DEF Refetches, Fetching
  <2>5. calls' = (calls \ {c}) \cup {e}
    BY <1>3, <2>1 DEF Answered, Replace
  <2> QED BY <1>1, <2>3, <2>4, <2>5, ListGoesOn
<1>4. ASSUME NEW boards \in {FetchOffer(c.project), Offer(c.project, FALSE, NoItems)},
             Replace(c, [c EXCEPT !.net = "ok", !.answer = FetchList(c.project), !.arg.boards = boards])
      PROVE  ListInv'
  <2>1. PICK answer, b : answer = FetchList(c.project) /\ b = boards
    OBVIOUS
  <2>2. PICK e : e = [c EXCEPT !.net = "ok", !.answer = answer, !.arg.boards = b]
    OBVIOUS
  <2>3. e = [n |-> c.n, op |-> c.op, key |-> c.key, project |-> c.project, phase |-> c.phase, net |-> "ok",
             arg |-> [from |-> c.arg.from, to |-> c.arg.to, boards |-> b], old |-> c.old, answer |-> answer]
    <3>1. CallShape(c) /\ c.arg = [from |-> c.arg.from, to |-> c.arg.to, boards |-> c.arg.boards]
      BY <1>2 DEF ListShape
    <3> QED BY <2>2, <3>1, BothAnswered
  <2>4. ListShape(e)
    BY <1>1, <1>2, <2>3 DEF ListShape, CallShape, Writing, Fetching
  <2>5. e.answer = FetchList(e.project) /\ (e.arg.boards.any => e.arg.boards = FetchOffer(e.project))
    BY <2>1, <2>3 DEF Offer
  <2>6. Current(e)
    BY <2>5 DEF Current
  <2>7. Refetches(c) => Refetches(e)'
    <3>1. Refetches(c) => Refetches(e)
      BY <1>1, <2>3, <2>6 DEF Refetches, Fetching
    <3> QED BY <1>1, <3>1, ListStays
  <2>8. calls' = (calls \ {c}) \cup {e}
    BY <1>4, <2>1, <2>2 DEF Replace
  <2> QED BY <1>1, <2>4, <2>7, <2>8, ListGoesOn
<1> QED BY <1>3, <1>4 DEF ListFetchAnswered

LEMMA ListWriteAnswerKeeps ==
  ASSUME ListInv, page = "list", page' = page, NEW c \in calls, ListWriteAnswered(c)
  PROVE  ListInv'
<1>1. Writing(c) /\ c.net = "sent" /\ UNCHANGED <<view, offered>> /\ (muddled => muddled')
  <2>1. Writing(c) /\ c.net = "sent" /\ UNCHANGED <<view, offered>>
    BY DEF ListWriteAnswered
  <2>2. muddled' = TRUE \/ muddled' = muddled \/ muddled' = (muddled \/ c.phase = "remove")
    BY DEF ListWriteAnswered
  <2>3. ASSUME muddled PROVE muddled'
    <3>1. CASE muddled' = TRUE
      BY <3>1
    <3>2. CASE muddled' = muddled
      BY <2>3, <3>2
    <3>3. CASE muddled' = (muddled \/ c.phase = "remove")
      <4>1. (muddled \/ c.phase = "remove") = TRUE
        BY <2>3
      <4> QED BY <3>3, <4>1
    <3> QED BY <2>2, <3>1, <3>2, <3>3
  <2> QED BY <2>1, <2>3
<1>2. ListShape(c)
  BY DEF ListInv
<1>3. PICK net \in {"ok", "failed"} :
        /\ Answered(c, net, NoView)
        /\ net = "failed" /\ ~muddled' => UNCHANGED srv /\ c.phase # "remove"
  BY DEF ListWriteAnswered
<1>4. PICK e : e = [c EXCEPT !.net = net, !.answer = NoView]
  OBVIOUS
<1>5. e = [n |-> c.n, op |-> c.op, key |-> c.key, project |-> c.project, phase |-> c.phase,
           net |-> net, arg |-> c.arg, old |-> c.old, answer |-> NoView]
  BY <1>2, <1>4, AnsweredShape DEF ListShape
<1>6. ListShape(e)
  BY <1>2, <1>5 DEF ListShape, CallShape, Writing
<1>7. net = "ok" => Refetches(e)'
  BY <1>1, <1>2, <1>5 DEF Refetches, ListShape, Writing, Fetching
<1>8. c.phase # "remove" => ~Refetches(c)
  BY <1>1 DEF Refetches, Writing, Fetching
<1>9. calls' = (calls \ {c}) \cup {e}
  BY <1>3, <1>4 DEF Answered, Replace
<1> QED BY <1>1, <1>3, <1>6, <1>7, <1>8, <1>9, ListGoesOn

LEMMA ListWrittenKeeps ==
  ASSUME ListInv, page = "list", page' = page, NEW c \in calls, ListWritten(c)
  PROVE  ListInv'
<1>1. PICK phase \in {"remove", "fetch"} : Await(c, phase)
  BY DEF ListWritten
<1>2. Writing(c) /\ UNCHANGED <<view, srv, offered, muddled>>
  BY DEF ListWritten
<1>3. PICK e : e = Advance(c, phase)
  OBVIOUS
<1>4. ListShape(c)
  BY DEF ListInv
<1>5. e = [n |-> c.n, op |-> c.op, key |-> c.key, project |-> c.project, phase |-> phase,
           net |-> "sent", arg |-> c.arg, old |-> c.old, answer |-> c.answer]
  BY <1>3, <1>4, AwaitShape DEF ListShape
<1>6. ListShape(e) /\ Refetches(e)'
  BY <1>2, <1>4, <1>5 DEF ListShape, CallShape, Writing, Fetching, Refetches
<1>7. calls' = (calls \ {c}) \cup {e}
  BY <1>1, <1>3 DEF Await, Replace
<1> QED BY <1>2, <1>6, <1>7, ListGoesOn

\* A handler ends: refused, with the answer to its refetch, or without one.
LEMMA ListEndKeeps ==
  ASSUME ListInv, page = "list", page' = page, NEW c \in calls,
         ListWriteFailed(c) \/ ListFetched(c) \/ ListFetchFailed(c)
  PROVE  ListInv'
<1>1. calls' = calls \ {c} /\ UNCHANGED srv
  BY DEF ListWriteFailed, ListFetched, ListFetchFailed, EndRow
<1>2. \A d : ListShape(d)' <=> ListShape(d)
  BY DEF ListShape, CallShape, Writing
<1>3. \A d : Refetches(d) => Refetches(d)'
  BY <1>1, ListStays
<1>4. ASSUME ~muddled' PROVE ListAgrees' \/ SomeRefetches(calls)'
  <2>1. CASE ListWriteFailed(c)
    <3>1. ~Refetches(c) /\ UNCHANGED <<view, offered, muddled>>
      BY <2>1 DEF ListWriteFailed, Refetches, Writing, Fetching
    <3>2. ListAgrees => ListAgrees'
      BY <1>1, <3>1, ListStays
    <3> QED BY <1>1, <1>3, <1>4, <3>1, <3>2 DEF ListInv, SomeRefetches
  <2>2. CASE ListFetched(c)
    <3>1. Current(c) /\ view' = c.answer /\ offered' = c.arg.boards
      BY <1>4, <2>2 DEF ListFetched
    <3>2. view'.items = RowsIn(c.project) /\ view'.project = c.project
      BY <3>1 DEF Current, FetchList, View
    <3>3. offered'.any => offered' = FetchOffer(c.project)
      BY <3>1 DEF Current
    <3>4. RowsIn(c.project)' = RowsIn(c.project) /\ FetchOffer(c.project)' = FetchOffer(c.project)
      BY <1>1 DEF RowsIn, FetchOffer
    <3> QED BY <3>2, <3>3, <3>4 DEF ListAgrees
  <2>3. CASE ListFetchFailed(c)
    <3>1. ~muddled /\ c.op \in {"load", "refresh"} /\ UNCHANGED offered
      BY <1>4, <2>3 DEF ListFetchFailed, ListInv
    <3>2. ~Refetches(c)
      BY <3>1 DEF Refetches
    <3>3. CASE c.op = "load"
      <4>1. view'.kind = "error"
        BY <2>3, <3>3 DEF ListFetchFailed, View
      <4> QED BY <4>1 DEF ListAgrees
    <3>4. CASE c.op # "load"
      <4>1. UNCHANGED view
        BY <2>3, <3>4 DEF ListFetchFailed
      <4>2. ListAgrees => ListAgrees'
        BY <1>1, <3>1, <4>1, ListStays
      <4> QED BY <1>1, <1>3, <3>1, <3>2, <4>2 DEF ListInv, SomeRefetches
    <3> QED BY <3>3, <3>4
  <2> QED BY <2>1, <2>2, <2>3
<1> QED BY <1>1, <1>2, <1>4 DEF ListInv, SomeRefetches

LEMMA ListStep == ListInv /\ [ListNext]_listVars => ListInv'
<1> SUFFICES ASSUME ListInv, [ListNext]_listVars PROVE ListInv'
  OBVIOUS
<1>1. CASE UNCHANGED listVars
  <2>1. UNCHANGED <<page, view, calls, srv, offered, muddled>>
    BY <1>1 DEF listVars, pageVars
  <2>2. page = "list" => ListInv'
    BY <2>1, ListMore
  <2> QED BY <2>1, <2>2 DEF ListInv
<1>2. CASE ListNext
  <2>1. page = "list" /\ page' = page
    BY <1>2 DEF ListNext, Mounted
  <2>2. CASE ListAnswers
    BY <2>1, <2>2, ListFetchAnswerKeeps, ListWriteAnswerKeeps, ListWrittenKeeps, ListEndKeeps DEF ListAnswers
  <2> QED BY <1>2, <2>1, <2>2, ListUserKeeps DEF ListNext
<1> QED BY <1>1, <1>2

LEMMA ListAlways == ListSpec => []ListInv
BY ListStart, ListStep, PTL DEF ListSpec

\* However a project is looked through and its rows changed, and whichever requests
\* overlap: once every answer is in, what is listed is what the server has, unless an
\* answer out of date was shown last, a change was lost, in full or in half, its refetch
\* failed, or another client changed something (list/page.tsx, runWithPending).
THEOREM ListIsCurrent == ListSpec => []ListAgreesWhenQuiet
<1>1. ListInv => ListAgreesWhenQuiet
  BY DEF ListInv, ListAgrees, SomeRefetches, ListAgreesWhenQuiet, ViewKind
<1> QED BY <1>1, ListAlways, PTL

-----------------------------------------------------------------------------
(* What the clients hold has its type.                                     *)

\* Where the id comes from: the command line, or a row the lookup was answered.
CliTypes ==
    /\ CliTypeOK
    /\ inv \in Invocations
    /\ \A it \in items : it.id \in Ids
    /\ pc = "lookupAnswered" => \A it \in found : it.id \in Ids

LEMMA CliInitTypes == ASSUME CliInit PROVE CliTypes
BY CliAssumption DEF CliInit, CliTypes, CliTypeOK, Running

\* Every step of the command line and of the server keeps the types.
LEMMA CliNextTypes == ASSUME CliTypes, [CliNext]_cliVars PROVE CliTypes'
<1> USE DEF CliTypes, CliTypeOK
<1>1. CASE RefuseCommandLine \/ TakeTarget \/ SendLookup
  BY <1>1, CliAssumption DEF RefuseCommandLine, TakeTarget, SendLookup, Fail
<1>2. CASE ResolveTarget
  <2>1. CASE Cardinality(found) = 1
    <3>1. found # {}
      BY <2>1, FS_EmptySet
    <3>2. (CHOOSE r \in found : TRUE) \in found
      BY <3>1
    <3> QED BY <1>2, <2>1, <3>2 DEF ResolveTarget
  <2>2. CASE Cardinality(found) # 1
    BY <1>2, <2>2 DEF ResolveTarget, Fail
  <2> QED BY <2>1, <2>2
<1>3. CASE SendRequest
  BY <1>3 DEF SendRequest, Fail
<1>4. CASE ReceiveAnswer \/ ReceiveHttpError \/ LoseAnswer \/ PrintAndExit \/ ExitWithError
  BY <1>4 DEF ReceiveAnswer, ReceiveHttpError, LoseAnswer, PrintAndExit, ExitWithError, ExitCodeForError, Fail
<1>5. CASE Poll \/ TailBatch \/ AnswerPoll
  BY <1>5 DEF Poll, TailBatch, AnswerPoll
<1>6. CASE AnswerLookup
  BY <1>6 DEF AnswerLookup, Matches
<1>7. CASE ServerApplies \/ ServerCutShort \/ OthersChange
  <2>1. \A it \in items' : it.id \in Ids
    <3>1. CASE CarryOut
      BY <3>1 DEF CarryOut
    <3>2. CASE OthersChange
      BY <3>2 DEF OthersChange
    <3> QED BY <1>7, <3>1, <3>2 DEF ServerApplies, ServerCutShort
  <2> QED BY <1>7, <2>1 DEF ServerApplies, ServerCutShort, OthersChange
<1>8. CASE ServerRefuses \/ (\E at \in Times : AppendRow(at))
  BY <1>8 DEF ServerRefuses, AppendRow
<1>9. CASE UNCHANGED cliVars
  BY <1>9 DEF cliVars
<1> QED
  BY <1>1, <1>2, <1>3, <1>4, <1>5, <1>6, <1>7, <1>8, <1>9 DEF CliNext, CliCommand, CliEnvironment

\* For any commands, items and answers: the id a command works on is one it was given or
\* one the lookup was answered, and its exit code is one of errors.ts.
THEOREM CliTypeCorrect == CliSpec => []CliTypeOK
<1>1. CliInit => CliTypes
  BY CliInitTypes
<1>2. CliTypes /\ [CliNext]_cliVars => CliTypes'
  BY CliNextTypes
<1>3. CliTypes => CliTypeOK
  BY DEF CliTypes
<1> QED BY <1>1, <1>2, <1>3, PTL DEF CliSpec
\* What a handler of the timeline carries.
TimelineShape(c) ==
    /\ c.phase \in {"runs", "timeline"} /\ c.arg \in Filters
    /\ c.key \in TimelineRuns \cup {NoKey}

TimelineTypes ==
    page = "timeline" => TimelineTypeOK /\ \A c \in calls : TimelineShape(c)

LEMMA TimelineCallTypes ==
  ASSUME NEW op, NEW r \in TimelineRuns \cup {NoKey}, NEW phase \in {"runs", "timeline"}, NEW f \in Filters
  PROVE  TimelineShape(TimelineCall(op, r, phase, f))
BY DEF TimelineShape, TimelineCall, NewCall

LEMMA EventsTypes ==
  /\ \A r \in TimelineRuns \cup {NoKey}, f \in Filters :
       EventsOf(r, f) \in [run : TimelineRuns \cup {NoKey}, filter : Filters, ok : BOOLEAN]
  /\ NoEvents \in [run : TimelineRuns \cup {NoKey}, filter : Filters, ok : BOOLEAN]
  /\ FailedEvents \in [run : TimelineRuns \cup {NoKey}, filter : Filters, ok : BOOLEAN]
BY DEF EventsOf, NoEvents, FailedEvents, Filters

LEMMA TimelineInitTypes == ASSUME TimelineInit PROVE TimelineTypes
<1>1. \A c \in calls : TimelineShape(c)
  BY TimelineCallTypes DEF TimelineInit, Filters
<1>2. AnyStatus \in Filters /\ 0 \in 0..MaxCalls
  BY PageAssumption DEF Filters
<1>3. events \in [run : TimelineRuns \cup {NoKey}, filter : Filters, ok : BOOLEAN]
  BY EventsTypes DEF TimelineInit
<1> QED BY <1>1, <1>2, <1>3 DEF TimelineInit, Mount, TimelineTypes, TimelineTypeOK

LEMMA TimelineLoadTypes ==
  ASSUME NEW op, NEW r \in TimelineRuns \cup {NoKey}, NEW f \in Filters, NEW kept,
         LoadTimeline(op, r, f, kept), \A c \in kept : TimelineShape(c),
         timelineLoading \in BOOLEAN, raced \in BOOLEAN,
         events \in [run : TimelineRuns \cup {NoKey}, filter : Filters, ok : BOOLEAN]
  PROVE  /\ \A c \in calls' : TimelineShape(c)
         /\ timelineLoading' \in BOOLEAN /\ raced' \in BOOLEAN
         /\ events' \in [run : TimelineRuns \cup {NoKey}, filter : Filters, ok : BOOLEAN]
<1> DEFINE call == TimelineCall(op, r, "timeline", f)
<1>1. TimelineShape(call)
  BY TimelineCallTypes
<1>2. raced' \in BOOLEAN
  BY DEF LoadTimeline
<1>3. IF r = NoKey THEN calls' = kept /\ events' = NoEvents /\ UNCHANGED timelineLoading
      ELSE calls' = kept \cup {call} /\ timelineLoading' = TRUE /\ UNCHANGED events
  BY DEF LoadTimeline
<1> HIDE DEF call
<1> QED BY <1>1, <1>2, <1>3, EventsTypes

\* The runs that were listed: one of them is selected, if there are any.
LEMMA RunsTypes ==
  ASSUME TimelineTypes, page = "timeline", page' = page, NEW c \in calls, RunsLoaded(c)
  PROVE  TimelineTypes'
<1> USE DEF TimelineTypes
<1> DEFINE load == TimelineCall("timeline", chosenRun', "timeline", statusFilter)
           more == TimelineCall("refresh", c.key, "timeline", c.arg)
           rest == calls \ {c}
           moved == chosenRun' # chosenRun
           effect == IF moved /\ chosenRun' # NoKey THEN rest \cup {load} ELSE rest
<1>1. PICK listed \in SUBSET TimelineRuns : runRows' = listed /\ chosenRun' = NextChoice(listed)
  BY DEF RunsLoaded
<1>2. chosenRun' \in (IF runRows' = {} THEN {NoKey} ELSE runRows')
  <2>1. CASE listed = {}
    BY <1>1, <2>1 DEF NextChoice
  <2>2. CASE listed # {}
    <3>1. (CHOOSE r \in listed : TRUE) \in listed
      BY <2>2
    <3> QED BY <1>1, <2>2, <3>1 DEF NextChoice
  <2> QED BY <2>1, <2>2
<1>3. chosenRun' \in TimelineRuns \cup {NoKey} /\ statusFilter \in Filters
  BY <1>1, <1>2 DEF TimelineTypeOK
<1>4. TimelineShape(load)
  <2>1. PICK r : r = chosenRun'
    OBVIOUS
  <2> QED BY <1>3, <2>1, TimelineCallTypes
<1>5. TimelineShape(more)
  BY TimelineCallTypes DEF TimelineShape
<1>6. \A d \in effect : TimelineShape(d)
  <2> HIDE DEF load
  <2> QED BY <1>4
<1>7. /\ \A d \in calls' : TimelineShape(d)
      /\ timelineLoading' \in BOOLEAN /\ raced' \in BOOLEAN /\ events' \in {events, NoEvents}
  <2>1. CASE c.op = "refresh" /\ c.key # NoKey
    <3>1. /\ calls' = effect \cup {more} /\ timelineLoading' = TRUE
          /\ events' = IF moved /\ chosenRun' = NoKey THEN NoEvents ELSE events
          /\ raced' = raced
      BY <2>1 DEF RunsLoaded
    <3>2. raced \in BOOLEAN
      BY DEF TimelineTypeOK
    <3> HIDE DEF effect, more
    <3> QED BY <1>5, <1>6, <3>1, <3>2
  <2>2. CASE ~(c.op = "refresh" /\ c.key # NoKey)
    <3>1. /\ calls' = effect /\ timelineLoading' = (timelineLoading \/ effect # rest)
          /\ events' = IF c.op = "refresh" \/ (moved /\ chosenRun' = NoKey) THEN NoEvents ELSE events
          /\ raced' = (raced \/ c.op = "refresh")
      BY <2>2 DEF RunsLoaded
    <3>2. timelineLoading \in BOOLEAN /\ raced \in BOOLEAN
      BY DEF TimelineTypeOK
    <3> HIDE DEF effect, rest
    <3> QED BY <1>6, <3>1, <3>2
  <2> QED BY <2>1, <2>2
<1>8. /\ UNCHANGED <<selected, view, pending, started, srv, statusFilter>> /\ runsLoading' = FALSE
  BY DEF RunsLoaded
<1> HIDE DEF load, more, rest, effect
<1> QED BY <1>1, <1>2, <1>7, <1>8, EventsTypes DEF TimelineTypeOK

LEMMA TimelineNextTypes == ASSUME TimelineTypes, [TimelineNext]_timelineVars PROVE TimelineTypes'
<1> USE DEF TimelineTypes
<1>1. CASE UNCHANGED timelineVars
  BY <1>1 DEF timelineVars, pageVars, TimelineTypeOK
<1> SUFFICES ASSUME TimelineNext PROVE TimelineTypes'
  BY <1>1
<1>2. page = "timeline" /\ page' = page
  BY DEF TimelineNext, Mounted
<1>3. /\ chosenRun \in TimelineRuns \cup {NoKey} /\ statusFilter \in Filters /\ timelineLoading \in BOOLEAN /\ raced \in BOOLEAN
      /\ events \in [run : TimelineRuns \cup {NoKey}, filter : Filters, ok : BOOLEAN]
      /\ \A c \in calls : TimelineShape(c)
  BY <1>2 DEF TimelineTypeOK
<1>4. ASSUME Start PROVE started' \in 0..MaxCalls
  BY <1>2, <1>4, PageAssumption DEF Start, TimelineTypeOK
<1>5. ASSUME NEW f \in Filters, SetStatus(f) PROVE TimelineTypes'
  <2> DEFINE call == TimelineCall("runs", NoKey, "runs", f)
  <2>1. \A c \in calls \cup {call} : TimelineShape(c)
    <3>1. TimelineShape(call)
      BY TimelineCallTypes
    <3> HIDE DEF call
    <3> QED BY <1>3, <3>1
  <2>2. LoadTimeline("timeline", chosenRun, f, calls \cup {call})
    BY <1>5 DEF SetStatus
  <2> HIDE DEF call
  <2>3. /\ \A c \in calls' : TimelineShape(c)
        /\ timelineLoading' \in BOOLEAN /\ raced' \in BOOLEAN
        /\ events' \in [run : TimelineRuns \cup {NoKey}, filter : Filters, ok : BOOLEAN]
    BY <1>3, <2>1, <2>2, TimelineLoadTypes
  <2>4. Start /\ UNCHANGED <<selected, view, pending, srv, runRows, chosenRun>> /\ runsLoading' = TRUE
          /\ statusFilter' = f
    BY <1>5 DEF SetStatus
  <2>5. started' \in 0..MaxCalls
    BY <1>4, <2>4
  <2> QED BY <1>2, <2>3, <2>4, <2>5 DEF TimelineTypeOK
<1>6. ASSUME NEW r \in TimelineRuns, SelectRun(r) PROVE TimelineTypes'
  <2>1. LoadTimeline("timeline", r, statusFilter, calls)
    BY <1>6 DEF SelectRun
  <2>2. /\ \A c \in calls' : TimelineShape(c)
        /\ timelineLoading' \in BOOLEAN /\ raced' \in BOOLEAN
        /\ events' \in [run : TimelineRuns \cup {NoKey}, filter : Filters, ok : BOOLEAN]
    BY <1>3, <2>1, TimelineLoadTypes
  <2> QED BY <1>2, <1>4, <1>6, <2>2 DEF SelectRun, TimelineTypeOK
<1>7. CASE RefreshEvents
  <2>1. LoadTimeline("timeline", chosenRun, statusFilter, calls)
    BY <1>7 DEF RefreshEvents
  <2>2. /\ \A c \in calls' : TimelineShape(c)
        /\ timelineLoading' \in BOOLEAN /\ raced' \in BOOLEAN
        /\ events' \in [run : TimelineRuns \cup {NoKey}, filter : Filters, ok : BOOLEAN]
    BY <1>3, <2>1, TimelineLoadTypes
  <2> QED BY <1>2, <1>4, <1>7, <2>2 DEF RefreshEvents, TimelineTypeOK
<1>8. CASE RefreshRuns
  <2>1. \A c \in calls' : TimelineShape(c)
    BY <1>3, <1>8, TimelineCallTypes DEF RefreshRuns
  <2> QED BY <1>2, <1>4, <1>8, <2>1 DEF RefreshRuns, TimelineTypeOK
<1>9. ASSUME NEW c \in calls, TimelineLoaded(c) PROVE TimelineTypes'
  <2>1. c.key \in TimelineRuns \cup {NoKey} /\ c.arg \in Filters
    BY <1>3 DEF TimelineShape
  <2>2. /\ calls' = calls \ {c} /\ timelineLoading' = FALSE
        /\ events' \in {EventsOf(c.key, c.arg), FailedEvents}
        /\ UNCHANGED <<selected, view, pending, started, srv, statusFilter, runRows, chosenRun, runsLoading>>
        /\ raced' \in BOOLEAN
    BY <1>9 DEF TimelineLoaded
  <2>3. events' \in [run : TimelineRuns \cup {NoKey}, filter : Filters, ok : BOOLEAN]
    BY <2>1, <2>2, EventsTypes
  <2> QED BY <1>2, <1>3, <2>2, <2>3 DEF TimelineTypeOK
<1> QED
  BY <1>2, <1>5, <1>6, <1>7, <1>8, <1>9, RunsTypes DEF TimelineNext, TimelineUser, TimelineHandlers

\* The run timeline, for any runs, filters and order of the answers: whenever runs are
\* listed one of them is selected, and none when none is.
THEOREM TimelineTypeCorrect == TimelineSpec => []TimelineTypeOK
<1>1. TimelineInit => TimelineTypes
  BY TimelineInitTypes
<1>2. TimelineTypes /\ [TimelineNext]_timelineVars => TimelineTypes'
  BY TimelineNextTypes
<1>3. TimelineTypes => TimelineTypeOK
  BY DEF TimelineTypes, TimelineTypeOK
<1> QED BY <1>1, <1>2, <1>3, PTL DEF TimelineSpec
\* Lists of tasks: functions on some of the ids.
ListsOn(S) == UNION {[D -> TaskStatuses] : D \in SUBSET S}

LEMMA ListIs ==
  ASSUME NEW S, NEW f
  PROVE  f \in ListsOn(S) <=>
           /\ FunctionOn(f, DOMAIN f) /\ DOMAIN f \subseteq S
           /\ \A t \in DOMAIN f : f[t] \in TaskStatuses
BY DEF ListsOn, FunctionOn

LEMMA ListsAre ==
  /\ TaskLists = ListsOn(TaskIds \cup {Temp}) /\ StoredTasks = ListsOn(TaskIds)
  /\ StoredTasks \subseteq TaskLists /\ NoTasks \in TaskLists
<1>1. TaskLists = ListsOn(TaskIds \cup {Temp}) /\ StoredTasks = ListsOn(TaskIds)
  BY DEF TaskLists, StoredTasks, ListsOn
<1>2. ListsOn(TaskIds) \subseteq ListsOn(TaskIds \cup {Temp})
  BY ListIs
<1>3. NoTasks \in ListsOn(TaskIds \cup {Temp})
  BY ListIs DEF NoTasks, FunctionOn
<1> QED BY <1>1, <1>2, <1>3

LEMMA SetTaskTypes ==
  ASSUME NEW S, NEW f \in ListsOn(S), NEW t \in S, NEW status \in TaskStatuses
  PROVE  SetTask(f, t, status) \in ListsOn(S)
<1>1. /\ FunctionOn(f, DOMAIN f) /\ DOMAIN f \subseteq S
      /\ \A x \in DOMAIN f : f[x] \in TaskStatuses
  BY ListIs
<1>2. PICK g : g = SetTask(f, t, status)
  OBVIOUS
<1>3. /\ FunctionOn(g, DOMAIN g) /\ DOMAIN g \subseteq S
      /\ \A x \in DOMAIN g : g[x] \in TaskStatuses
  BY <1>1, <1>2 DEF SetTask, FunctionOn
<1> QED BY <1>2, <1>3, ListIs

LEMMA DropTaskTypes ==
  ASSUME NEW S, NEW f \in ListsOn(S), NEW t
  PROVE  DropTask(f, t) \in ListsOn(S)
<1>1. /\ FunctionOn(f, DOMAIN f) /\ DOMAIN f \subseteq S
      /\ \A x \in DOMAIN f : f[x] \in TaskStatuses
  BY ListIs
<1>2. PICK g : g = DropTask(f, t)
  OBVIOUS
<1>3. /\ FunctionOn(g, DOMAIN g) /\ DOMAIN g \subseteq S
      /\ \A x \in DOMAIN g : g[x] \in TaskStatuses
  BY <1>1, <1>2 DEF DropTask, FunctionOn
<1> QED BY <1>2, <1>3, ListIs

\* What a story as loaded, a draft and a handler carry.
LoadedTypes(d) ==
    /\ d.kind \in {"loading", "ok", "error"} /\ d.for \in DetailKeys /\ d.story \in DetailKeys
    /\ d.text \in Texts \cup {NoKey} /\ d.tasks \in TaskLists /\ d.labels \subseteq Labels
    /\ d.kind = "ok" => d.story \in DetailStories /\ d.text \in Texts
DraftTypes(d) ==
    /\ d \in [for : DetailKeys, text : Texts \cup {NoKey}, typed : BOOLEAN]
    /\ d.for # NoKey => d.text \in Texts
TaskOps == {"createTask", "patchTask", "deleteTask"}
RequestTypes(c) ==
    /\ c.key \in DetailStories /\ c.arg.status \in TaskStatuses
    /\ c.op = "save" => c.arg.draft.text \in Texts
    /\ c.op \in {"attach", "detach"} => c.arg.id \in Labels /\ c.old.labels \subseteq Labels
    /\ c.op \in TaskOps => c.arg.id \in TaskIds \cup {Temp}
    /\ c.op \in {"patchTask", "deleteTask"} => c.old.tasks \in TaskLists
    /\ c.op = "patchTask" => c.arg.id \in DOMAIN c.old.tasks
AnswerTypes(op, answer) ==
    /\ op = "load" => LoadedTypes(answer)
    /\ op \in {"save", "status"} => answer.story \in DetailStories /\ answer.text \in Texts
    /\ op = "createTask" => answer.story \in TaskIds
HandlerTypes(c) == RequestTypes(c) /\ (c.net = "ok" => AnswerTypes(c.op, c.answer))

ServerTypes ==
    /\ srv.text \in [DetailStories -> Texts] /\ srv.there \subseteq DetailStories
    /\ srv.labels \in [DetailStories -> SUBSET Labels] /\ srv.tasks \in [DetailStories -> StoredTasks]
\* What lies beside the story, its draft and the requests.
BesideTypes ==
    /\ busy \subseteq {"saving", "deleting", "creating"} /\ marks \subseteq Labels \cup TaskIds \cup {Temp}
    /\ labels \in [of : DetailKeys, set : SUBSET Labels] /\ available \in BOOLEAN
    /\ blurred \subseteq Sides \X DetailKeys
PageTypes == selected = NoProject /\ view = NoView /\ pending = {} /\ started \in 0..MaxCalls

DetailTypes ==
    page = "detail" =>
    /\ PageTypes /\ ServerTypes /\ BesideTypes
    /\ shown \in DetailKeys /\ LoadedTypes(detail) /\ DraftTypes(draft)
    /\ \A c \in calls : HandlerTypes(c)

LEMMA DetailTypesSay == DetailTypes => DetailTypeOK
BY DEF DetailTypes, DetailTypeOK, PageTypes, ServerTypes, BesideTypes, LoadedTypes, DraftTypes

LEMMA BlankTypes == LoadedTypes(Blank) /\ DraftTypes(NoDraft)
BY ListsAre DEF LoadedTypes, DraftTypes, Blank, NoDraft, DetailKeys

LEMMA BlurTypes ==
  ASSUME NEW s \in DetailKeys, NEW sides \in SUBSET Sides
  PROVE  Blur(s, sides) \subseteq Sides \X DetailKeys
BY DEF Blur

LEMMA TouchedTypes ==
  ASSUME SidesAgree, page = "detail"
  PROVE  Touched(calls) \subseteq Sides
<1>1. \A op \in DetailWrites \cup {"load", "labels"} : SidesOf(op) \subseteq Sides
  BY DEF SidesOf, Sides, DetailWrites
<1>2. \A c \in calls : c.op \in DetailWrites \cup {"load", "labels"}
  BY DEF SidesAgree, DetailOp
<1> QED BY <1>1, <1>2 DEF Touched

LEMMA DetailCallTypes ==
  ASSUME NEW op, NEW s \in DetailStories, NEW phase, NEW id, NEW status \in TaskStatuses,
         op = "save" => draft.text \in Texts,
         op \in {"attach", "detach"} => id \in Labels /\ labels.set \subseteq Labels,
         op \in TaskOps => id \in TaskIds \cup {Temp},
         op \in {"patchTask", "deleteTask"} => detail.tasks \in TaskLists,
         op = "patchTask" => id \in DOMAIN detail.tasks
  PROVE  HandlerTypes(DetailCall(op, s, phase, id, status))
BY DEF HandlerTypes, RequestTypes, DetailCall, NewCall, DetailArg, Previous, TaskOps

\* A render from typed requests.
LEMMA RenderTypes ==
  ASSUME NEW s \in DetailKeys, NEW d, NEW dr, NEW cs, NEW fresh, Render(s, d, dr, cs, fresh),
         LoadedTypes(d), DraftTypes(dr), \A c \in cs : HandlerTypes(c)
  PROVE  /\ shown' = s /\ detail' = d /\ DraftTypes(draft')
         /\ \A c \in calls' : HandlerTypes(c)
<1> DEFINE active == ActiveItem(s, d)
           kept == IF active /\ ~fresh THEN cs ELSE {c \in cs : c.op # "labels"}
<1>0. PICK load : load = DetailCall("labels", d.story, "fetch", NoKey, "TODO")
  OBVIOUS
<1>1. /\ shown' = s /\ detail' = d
      /\ calls' = IF active /\ fresh THEN kept \cup {load} ELSE kept
      /\ draft' = IF active /\ dr.for # d.story THEN ToStoryDraft(d) ELSE dr
  BY <1>0 DEF Render
<1>2. active => d.story \in DetailStories /\ d.text \in Texts
  BY DEF ActiveItem, LoadedTypes
<1>3. active => HandlerTypes(load)
  <2> SUFFICES ASSUME active PROVE HandlerTypes(load)
    OBVIOUS
  <2>1. PICK story \in DetailStories : story = d.story
    BY <1>2
  <2>2. load = DetailCall("labels", story, "fetch", NoKey, "TODO") /\ "TODO" \in TaskStatuses
    BY <1>0, <2>1 DEF TaskStatuses
  <2> QED BY <2>2, DetailCallTypes DEF TaskOps
<1>4. \A c \in calls' : HandlerTypes(c)
  BY <1>1, <1>3
<1>5. active => DraftTypes(ToStoryDraft(d))
  BY <1>2 DEF DraftTypes, ToStoryDraft, LoadedTypes
<1> QED BY <1>1, <1>4, <1>5

\* A write leaves for the story that is loaded.
Sendable(op, id) ==
    /\ op = "save" => draft.text \in Texts
    /\ op \in {"attach", "detach"} => id \in Labels
    /\ op \in TaskOps => id \in TaskIds \cup {Temp}
    /\ op = "patchTask" => id \in DOMAIN detail.tasks

LEMMA SendTypes ==
  ASSUME DetailTypes, SidesAgree, page = "detail", Active, NEW op \in DetailWrites, NEW id, NEW status \in TaskStatuses,
         SendWrite(op, id, status), Sendable(op, id)
  PROVE  /\ \A c \in calls' : HandlerTypes(c)
         /\ started' \in 0..MaxCalls /\ blurred' \subseteq Sides \X DetailKeys
<1>1. /\ detail.story \in DetailStories /\ detail.tasks \in TaskLists /\ labels.set \subseteq Labels
      /\ \A c \in calls : HandlerTypes(c)
      /\ shown \in DetailKeys /\ blurred \subseteq Sides \X DetailKeys /\ started \in 0..MaxCalls
  BY DEF DetailTypes, LoadedTypes, Active, ActiveItem, BesideTypes, PageTypes
<1>2. PICK s \in DetailStories : s = detail.story
  BY <1>1
<1>3. PICK d : d = DetailCall(op, s, op, id, status)
  OBVIOUS
<1>4. HandlerTypes(d)
  <2>1. /\ op = "save" => draft.text \in Texts
        /\ op \in {"attach", "detach"} => id \in Labels
        /\ op \in TaskOps => id \in TaskIds \cup {Temp}
        /\ op = "patchTask" => id \in DOMAIN detail.tasks
    BY DEF Sendable
  <2>2. op \in {"attach", "detach"} => id \in Labels /\ labels.set \subseteq Labels
    BY <1>1, <2>1
  <2>3. op \in {"patchTask", "deleteTask"} => detail.tasks \in TaskLists
    BY <1>1
  <2> QED BY <1>2, <1>3, <2>1, <2>2, <2>3, DetailCallTypes
<1>5. calls' = calls \cup {d} /\ Start
  BY <1>2, <1>3 DEF SendWrite
<1>6. blurred' \subseteq Sides \X DetailKeys
  <2>1. Blur(shown, Sides) \subseteq Sides \X DetailKeys
    BY <1>1 DEF Blur
  <2>2. blurred' = blurred \/ blurred' = blurred \cup Blur(shown, Sides)
    BY DEF SendWrite
  <2> QED BY <1>1, <2>1, <2>2
<1>7. started' \in 0..MaxCalls
  BY <1>1, <1>5, PageAssumption DEF Start
<1> QED BY <1>1, <1>4, <1>5, <1>6, <1>7
LEMMA DetailStartTypes == ASSUME DetailInit PROVE DetailTypes
<1>1. srv \in [there : SUBSET DetailStories, text : [DetailStories -> Texts],
               labels : [DetailStories -> SUBSET Labels], tasks : [DetailStories -> StoredTasks]]
  BY DetailAssumption DEF DetailInit
<1>2. ServerTypes
  BY <1>1 DEF ServerTypes
<1>3. BesideTypes
  BY DEF DetailInit, BesideTypes, LabelsOf, DetailKeys
<1>4. PageTypes
  BY PageAssumption DEF DetailInit, Mount, PageTypes
<1> QED BY <1>2, <1>3, <1>4, BlankTypes DEF DetailInit, DetailTypes, DetailKeys

\* What a step of the workspace leaves alone.
LEMMA DetailTypesStay ==
  ASSUME DetailTypes, page = "detail", page' = page, UNCHANGED <<selected, view, pending>>,
         started' \in 0..MaxCalls, ServerTypes', BesideTypes',
         shown' \in DetailKeys, LoadedTypes(detail'), DraftTypes(draft'), \A c \in calls' : HandlerTypes(c)
  PROVE  DetailTypes'
BY DEF DetailTypes, PageTypes

LEMMA OpenTypes ==
  ASSUME DetailTypes, SidesAgree, page = "detail", page' = page, NEW s \in DetailStories, OpenDetail(s)
  PROVE  DetailTypes'
<1>1. /\ PageTypes /\ ServerTypes /\ BesideTypes /\ LoadedTypes(detail) /\ DraftTypes(draft)
      /\ \A c \in calls : HandlerTypes(c)
  BY DEF DetailTypes
<1>2. PICK load : load = DetailCall("load", s, "fetch", NoKey, "TODO")
  OBVIOUS
<1>3. HandlerTypes(load)
  <2>1. "TODO" \in TaskStatuses
    BY DEF TaskStatuses
  <2> QED BY <1>2, <2>1, DetailCallTypes DEF TaskOps
<1>4. PICK d, dr, cs, fresh : d = detail /\ dr = draft /\ cs = calls \cup {load} /\ fresh = TRUE
  OBVIOUS
<1>5. Render(s, d, dr, cs, fresh)
  BY <1>2, <1>4 DEF OpenDetail
<1>6. s \in DetailKeys /\ LoadedTypes(d) /\ DraftTypes(dr) /\ \A c \in cs : HandlerTypes(c)
  BY <1>1, <1>3, <1>4 DEF DetailKeys
<1>7. /\ shown' = s /\ detail' = d /\ DraftTypes(draft')
      /\ \A c \in calls' : HandlerTypes(c)
  BY <1>5, <1>6, RenderTypes
<1>8. started' \in 0..MaxCalls
  BY <1>1, PageAssumption DEF OpenDetail, Start, PageTypes
<1>9. blurred' \subseteq Sides \X DetailKeys
  <2>1. Touched(calls) \subseteq Sides
    BY TouchedTypes
  <2>2. Blur(s, Touched(calls)) \subseteq Sides \X DetailKeys
    BY <1>6, <2>1 DEF Blur
  <2> QED BY <1>1, <2>2 DEF OpenDetail, BesideTypes
<1>10. labels' \in [of : DetailKeys, set : SUBSET Labels]
  <2>1. srv.labels[s] \in SUBSET Labels /\ labels \in [of : DetailKeys, set : SUBSET Labels]
    BY <1>1 DEF ServerTypes, BesideTypes
  <2> QED BY <1>6, <2>1 DEF OpenDetail, LabelsOf
<1>11. /\ marks' \subseteq marks /\ UNCHANGED <<selected, view, pending, srv, busy, available>>
  BY DEF OpenDetail
<1>12. BesideTypes' /\ ServerTypes'
  BY <1>1, <1>9, <1>10, <1>11 DEF BesideTypes, ServerTypes
<1> QED BY <1>4, <1>6, <1>7, <1>8, <1>11, <1>12, DetailTypesStay

\* The dialog closes: its requests for reading are dropped with what they were for.
LEMMA ClosedTypes ==
  ASSUME DetailTypes, page = "detail", page' = page, NEW cs \in SUBSET calls,
         Render(NoKey, detail, NoDraft, cs, FALSE), ResetDetail,
         UNCHANGED <<selected, view, pending, started, srv, blurred>>,
         busy' \subseteq busy
  PROVE  DetailTypes'
<1>1. /\ PageTypes /\ ServerTypes /\ BesideTypes /\ LoadedTypes(detail)
      /\ \A c \in calls : HandlerTypes(c)
  BY DEF DetailTypes
<1>2. PICK s, d, dr, fresh : s = NoKey /\ d = detail /\ dr = NoDraft /\ fresh = FALSE
  OBVIOUS
<1>3. Render(s, d, dr, cs, fresh)
  BY <1>2
<1>4. s \in DetailKeys /\ LoadedTypes(d) /\ DraftTypes(dr) /\ \A c \in cs : HandlerTypes(c)
  BY <1>1, <1>2, BlankTypes DEF DetailKeys
<1>5. /\ shown' = s /\ detail' = d /\ DraftTypes(draft')
      /\ \A c \in calls' : HandlerTypes(c)
  BY <1>3, <1>4, RenderTypes
<1>6. BesideTypes' /\ ServerTypes'
  BY <1>1 DEF BesideTypes, ServerTypes, ResetDetail, LabelsOf, DetailKeys
<1> QED BY <1>1, <1>4, <1>5, <1>6, DetailTypesStay DEF PageTypes

LEMMA WriteTypes ==
  ASSUME DetailTypes, SidesAgree, page = "detail", page' = page,
         \/ \E s \in DetailStories, x \in Texts : ChangedElsewhere(s, x)
         \/ CancelChanges \/ DeleteItem \/ (\E x \in Texts : UpdateDraft(x))
         \/ \E op \in {"save", "status"} : SaveOrChangeStatus(op)
         \/ \E x \in Labels : AttachLabel(x) \/ DetachLabel(x)
  PROVE  DetailTypes'
<1>1. /\ PageTypes /\ ServerTypes /\ BesideTypes /\ LoadedTypes(detail) /\ DraftTypes(draft)
      /\ shown \in DetailKeys /\ \A c \in calls : HandlerTypes(c)
  BY DEF DetailTypes
<1>2. Active => detail.story \in DetailStories /\ detail.text \in Texts
  BY <1>1 DEF LoadedTypes, Active, ActiveItem
<1>3. "TODO" \in TaskStatuses
  BY DEF TaskStatuses
<1>4. ASSUME NEW s \in DetailStories, NEW x \in Texts, ChangedElsewhere(s, x) PROVE DetailTypes'
  <2>1. ServerTypes'
    <3>1. PICK f : f = [srv.text EXCEPT ![s] = x]
      OBVIOUS
    <3>2. srv' = [srv EXCEPT !.text = f]
      BY <1>4, <3>1 DEF ChangedElsewhere
    <3>3. srv = [there |-> srv.there, text |-> srv.text, labels |-> srv.labels, tasks |-> srv.tasks]
      BY DEF SidesAgree, DetailServer
    <3>4. srv' = [there |-> srv.there, text |-> f, labels |-> srv.labels, tasks |-> srv.tasks]
      BY <3>2, <3>3
    <3>5. f \in [DetailStories -> Texts]
      BY <1>1, <3>1 DEF ServerTypes
    <3> QED BY <1>1, <3>4, <3>5 DEF ServerTypes
  <2>2. blurred' \subseteq Sides \X DetailKeys
    BY <1>1, <1>4 DEF ChangedElsewhere, Blur, Sides, DetailKeys, BesideTypes
  <2>3. started' \in 0..MaxCalls
    BY <1>1, <1>4, PageAssumption DEF ChangedElsewhere, Start, PageTypes
  <2>4. UNCHANGED <<selected, view, pending, calls, shown, detail, draft, busy, marks, labels, available>>
    BY <1>4 DEF ChangedElsewhere
  <2>5. BesideTypes'
    BY <1>1, <2>2, <2>4 DEF BesideTypes
  <2> QED BY <1>1, <2>1, <2>3, <2>4, <2>5, DetailTypesStay
<1>5. CASE CancelChanges \/ \E x \in Texts : UpdateDraft(x)
  <2>1. DraftTypes(draft')
    <3>1. draft \in [for : DetailKeys, text : Texts \cup {NoKey}, typed : BOOLEAN]
      BY <1>1 DEF DraftTypes
    <3>2. CASE CancelChanges
      BY <1>2, <3>1, <3>2 DEF CancelChanges, Unsaved, ToStoryDraft, DraftTypes
    <3>3. CASE \E x \in Texts : UpdateDraft(x)
      BY <3>1, <3>3 DEF UpdateDraft, DraftTypes
    <3> QED BY <1>5, <3>2, <3>3
  <2>2. UNCHANGED <<selected, view, pending, started, srv, calls, shown, detail, busy, marks, labels, available, blurred>>
    BY <1>5 DEF CancelChanges, UpdateDraft, pageVars
  <2>3. BesideTypes' /\ ServerTypes'
    BY <1>1, <2>2 DEF BesideTypes, ServerTypes
  <2> QED BY <1>1, <2>1, <2>2, <2>3, DetailTypesStay DEF PageTypes
<1>6. ASSUME NEW op \in {"save", "status", "deleteItem"}, NEW flag \in {"saving", "deleting"},
             Active, SendWrite(op, NoKey, "TODO"), busy' = busy \cup {flag},
             op = "save" => draft.text \in Texts,
             UNCHANGED <<selected, view, pending, srv, shown, detail, draft, marks, labels, available>>
      PROVE  DetailTypes'
  <2>1. PICK id, status : status \in TaskStatuses /\ id = NoKey /\ status = "TODO"
    BY <1>3
  <2>2. SendWrite(op, id, status) /\ op \in DetailWrites /\ Sendable(op, id)
    BY <1>6, <2>1 DEF DetailWrites, TaskOps, Sendable
  <2>3. /\ \A c \in calls' : HandlerTypes(c)
        /\ started' \in 0..MaxCalls /\ blurred' \subseteq Sides \X DetailKeys
    BY <1>6, <2>1, <2>2, SendTypes
  <2>4. BesideTypes' /\ ServerTypes'
    BY <1>1, <1>6, <2>3 DEF BesideTypes, ServerTypes
  <2> QED BY <1>1, <1>6, <2>3, <2>4, DetailTypesStay
<1>7. CASE DeleteItem
  BY <1>6, <1>7 DEF DeleteItem
<1>8. ASSUME NEW op \in {"save", "status"}, SaveOrChangeStatus(op) PROVE DetailTypes'
  <2>1. op = "save" => draft.text \in Texts
    BY <1>1, <1>8 DEF SaveOrChangeStatus, Unsaved, DraftTypes
  <2>2. /\ Active /\ SendWrite(op, NoKey, "TODO") /\ busy' = busy \cup {"saving"}
        /\ UNCHANGED <<selected, view, pending, srv, shown, detail, draft, marks, labels, available>>
    BY <1>8 DEF SaveOrChangeStatus
  <2> QED BY <1>6, <2>1, <2>2
<1>9. ASSUME NEW x \in Labels, AttachLabel(x) \/ DetachLabel(x) PROVE DetailTypes'
  <2>1. PICK op \in {"attach", "detach"}, status \in TaskStatuses :
          status = "TODO" /\ SendWrite(op, x, status)
    <3>1. PICK at, de, status : status \in TaskStatuses /\ at = "attach" /\ de = "detach" /\ status = "TODO"
      BY <1>3
    <3>2. SendWrite(at, x, status) \/ SendWrite(de, x, status)
      BY <1>9, <3>1 DEF AttachLabel, DetachLabel
    <3> QED BY <3>1, <3>2
  <2>2. op \in DetailWrites /\ Sendable(op, x) /\ Active
    BY <1>9, <2>1 DEF DetailWrites, TaskOps, Sendable, AttachLabel, DetachLabel
  <2>3. /\ \A c \in calls' : HandlerTypes(c)
        /\ started' \in 0..MaxCalls /\ blurred' \subseteq Sides \X DetailKeys
    BY <2>1, <2>2, SendTypes
  <2>4. labels' \in [of : DetailKeys, set : SUBSET Labels]
    BY <1>1, <1>9 DEF AttachLabel, DetachLabel, BesideTypes
  <2>5. /\ UNCHANGED <<selected, view, pending, srv, shown, detail, draft, busy, available>>
        /\ marks' = marks \cup {x}
    BY <1>9 DEF AttachLabel, DetachLabel
  <2>6. BesideTypes' /\ ServerTypes'
    BY <1>1, <2>3, <2>4, <2>5 DEF BesideTypes, ServerTypes
  <2> QED BY <1>1, <2>3, <2>5, <2>6, DetailTypesStay
<1> QED BY <1>4, <1>5, <1>7, <1>8, <1>9

LEMMA TaskTypes ==
  ASSUME DetailTypes, DraftInv, SidesAgree, page = "detail", page' = page,
         NEW tasks \in TaskLists, detail' = [detail EXCEPT !.tasks = tasks]
  PROVE  LoadedTypes(detail')
<1>1. DetailShape(detail) /\ LoadedTypes(detail)
  BY DEF DetailTypes, DraftInv
<1>2. PICK e : e = [detail EXCEPT !.tasks = tasks]
  OBVIOUS
<1>3. /\ e.tasks = tasks /\ e.for = detail.for /\ e.kind = detail.kind
      /\ e.story = detail.story /\ e.text = detail.text /\ e.labels = detail.labels
  BY <1>1, <1>2, TasksFields
<1> QED BY <1>1, <1>2, <1>3 DEF LoadedTypes

LEMMA TaskWriteTypes ==
  ASSUME DetailTypes, DraftInv, SidesAgree, page = "detail", page' = page,
         \/ CreateTask
         \/ \E t \in TaskIds \cup {Temp} : DeleteTask(t) \/ \E status \in TaskStatuses : PatchTask(t, status)
  PROVE  DetailTypes'
<1>1. /\ PageTypes /\ ServerTypes /\ BesideTypes /\ LoadedTypes(detail) /\ DraftTypes(draft)
      /\ shown \in DetailKeys /\ \A c \in calls : HandlerTypes(c)
      /\ detail.tasks \in TaskLists
  BY DEF DetailTypes, LoadedTypes
<1>2. "TODO" \in TaskStatuses /\ Temp \in TaskIds \cup {Temp} /\ TaskLists = ListsOn(TaskIds \cup {Temp})
  BY ListsAre DEF TaskStatuses
<1>3. CASE CreateTask
  <2>1. PICK op, id, status : status \in TaskStatuses /\ op = "createTask" /\ id = Temp /\ status = "TODO"
    BY <1>2
  <2>2. SendWrite(op, id, status) /\ op \in DetailWrites /\ Active /\ id \in TaskIds \cup {Temp}
    BY <1>2, <1>3, <2>1 DEF CreateTask, DetailWrites
  <2>3. Sendable(op, id)
    BY <2>1, <2>2 DEF Sendable, TaskOps
  <2>4. /\ \A c \in calls' : HandlerTypes(c)
        /\ started' \in 0..MaxCalls /\ blurred' \subseteq Sides \X DetailKeys
    BY <2>1, <2>2, <2>3, SendTypes
  <2>5. PICK f : f = SetTask(detail.tasks, id, status)
    OBVIOUS
  <2>6. f \in TaskLists
    BY <1>1, <1>2, <2>1, <2>2, <2>5, SetTaskTypes
  <2>7. detail' = [detail EXCEPT !.tasks = f]
    BY <1>3, <2>1, <2>5 DEF CreateTask
  <2>8. LoadedTypes(detail')
    BY <2>6, <2>7, TaskTypes
  <2>9. /\ UNCHANGED <<selected, view, pending, srv, shown, draft, marks, labels, available>>
        /\ busy' = busy \cup {"creating"}
    BY <1>3 DEF CreateTask
  <2>10. BesideTypes' /\ ServerTypes'
    BY <1>1, <2>4, <2>9 DEF BesideTypes, ServerTypes
  <2> QED BY <1>1, <2>4, <2>8, <2>9, <2>10, DetailTypesStay
<1>4. ASSUME NEW t \in TaskIds \cup {Temp}, DeleteTask(t) PROVE DetailTypes'
  <2>1. PICK op, status : status \in TaskStatuses /\ op = "deleteTask" /\ status = "TODO"
    BY <1>2
  <2>2. SendWrite(op, t, status) /\ op \in DetailWrites /\ Active
    BY <1>4, <2>1 DEF DeleteTask, DetailWrites
  <2>3. Sendable(op, t)
    BY <2>1 DEF Sendable, TaskOps
  <2>4. /\ \A c \in calls' : HandlerTypes(c)
        /\ started' \in 0..MaxCalls /\ blurred' \subseteq Sides \X DetailKeys
    BY <2>1, <2>2, <2>3, SendTypes
  <2>5. PICK f : f = DropTask(detail.tasks, t)
    OBVIOUS
  <2>6. f \in TaskLists
    BY <1>1, <1>2, <2>5, DropTaskTypes
  <2>7. detail' = [detail EXCEPT !.tasks = f]
    BY <1>4, <2>5 DEF DeleteTask
  <2>8. LoadedTypes(detail')
    BY <2>6, <2>7, TaskTypes
  <2>9. /\ UNCHANGED <<selected, view, pending, srv, shown, draft, busy, labels, available>>
        /\ marks' = marks \cup {t}
    BY <1>4 DEF DeleteTask
  <2>10. BesideTypes' /\ ServerTypes'
    BY <1>1, <2>4, <2>9 DEF BesideTypes, ServerTypes
  <2> QED BY <1>1, <2>4, <2>8, <2>9, <2>10, DetailTypesStay
<1>5. ASSUME NEW t \in TaskIds \cup {Temp}, NEW status \in TaskStatuses, PatchTask(t, status) PROVE DetailTypes'
  <2>1. PICK f : f = [detail.tasks EXCEPT ![t] = status]
    OBVIOUS
  <2>2. f \in TaskLists
    <3>1. /\ FunctionOn(detail.tasks, DOMAIN detail.tasks) /\ DOMAIN detail.tasks \subseteq TaskIds \cup {Temp}
          /\ \A x \in DOMAIN detail.tasks : detail.tasks[x] \in TaskStatuses
      BY <1>1, <1>2, ListIs
    <3>2. /\ FunctionOn(f, DOMAIN f) /\ DOMAIN f \subseteq TaskIds \cup {Temp}
          /\ \A x \in DOMAIN f : f[x] \in TaskStatuses
      BY <2>1, <3>1 DEF FunctionOn
    <3> QED BY <1>2, <3>2, ListIs
  <2>3. detail' = [detail EXCEPT !.tasks = f] /\ t \in DOMAIN detail.tasks /\ Active
    BY <1>5, <2>1 DEF PatchTask
  <2>4. LoadedTypes(detail')
    BY <2>2, <2>3, TaskTypes
  <2>5. UNCHANGED <<selected, view, pending, srv, shown, draft, busy, labels, available>>
    BY <1>5 DEF PatchTask
  <2>6. CASE marks' = marks \cup {t} /\ SendWrite("patchTask", t, status)
    <3>1. PICK op : op = "patchTask"
      OBVIOUS
    <3>2. SendWrite(op, t, status) /\ op \in DetailWrites
      BY <2>6, <3>1 DEF DetailWrites
    <3>3. Sendable(op, t)
      BY <2>3, <3>1 DEF Sendable, TaskOps
    <3>4. /\ \A c \in calls' : HandlerTypes(c)
          /\ started' \in 0..MaxCalls /\ blurred' \subseteq Sides \X DetailKeys
      BY <2>3, <3>2, <3>3, SendTypes
    <3>5. BesideTypes' /\ ServerTypes'
      BY <1>1, <2>5, <2>6, <3>4 DEF BesideTypes, ServerTypes
    <3> QED BY <1>1, <2>4, <2>5, <3>4, <3>5, DetailTypesStay
  <2>7. CASE blurred' = blurred \cup Blur(shown, {"tasks"}) /\ UNCHANGED <<calls, started, marks>>
    <3>1. blurred' \subseteq Sides \X DetailKeys
      BY <1>1, <2>7 DEF Blur, Sides, BesideTypes
    <3>2. BesideTypes' /\ ServerTypes'
      BY <1>1, <2>5, <2>7, <3>1 DEF BesideTypes, ServerTypes
    <3> QED BY <1>1, <2>4, <2>5, <2>7, <3>2, DetailTypesStay DEF PageTypes
  <2> QED BY <1>5, <2>6, <2>7 DEF PatchTask
<1> QED BY <1>3, <1>4, <1>5


LEMMA LoadedAnswerTypes ==
  ASSUME DraftInv, SidesAgree, DetailTypes, page = "detail", page' = page, NEW c \in calls, DetailFetchAnswered(c)
  PROVE  DetailTypes'
<1>1. PICK net, answer : Answered(c, net, answer) /\ (net = "ok" => answer = Snapshot(c.key))
  <2>1. PICK snap, blank, failed, ok : snap = Snapshot(c.key) /\ blank = Blank /\ failed = "failed" /\ ok = "ok"
    OBVIOUS
  <2>2. CASE Answered(c, ok, snap)
    BY <2>1, <2>2
  <2>3. CASE Answered(c, failed, blank)
    BY <2>1, <2>3
  <2> QED BY <2>1, <2>2, <2>3 DEF DetailFetchAnswered
<1>2. CallShape(c) /\ HandlerTypes(c)
  BY DEF DraftInv, CallInv, DetailTypes
<1>3. PICK e : calls' = (calls \ {c}) \cup {e} /\ AnswerOf(c, e, net, answer)
  BY <1>1, <1>2, AnsweredFields
<1>4. c.op = "load" /\ UNCHANGED <<selected, view, pending, started, srv, shown, detail, draft, busy, marks, labels, available, blurred>>
  BY DEF DetailFetchAnswered
<1>5. /\ PageTypes /\ ServerTypes /\ BesideTypes /\ LoadedTypes(detail) /\ DraftTypes(draft) /\ shown \in DetailKeys
      /\ \A d \in calls : HandlerTypes(d)
  BY DEF DetailTypes
<1>6. c.key \in DetailStories
  BY <1>2 DEF HandlerTypes, RequestTypes
<1>7. LoadedTypes(Snapshot(c.key))
  <2>1. /\ srv.text[c.key] \in Texts /\ srv.labels[c.key] \subseteq Labels /\ srv.tasks[c.key] \in StoredTasks
    BY <1>5, <1>6 DEF ServerTypes
  <2> QED BY <1>6, <2>1, ListsAre DEF LoadedTypes, Snapshot, DetailKeys
<1>8. HandlerTypes(e)
  <2>1. RequestTypes(e)
    BY <1>2, <1>3 DEF AnswerOf, HandlerTypes, RequestTypes
  <2>2. e.net = "ok" => LoadedTypes(e.answer)
    BY <1>1, <1>3, <1>7 DEF AnswerOf
  <2>3. e.op = "load"
    BY <1>3, <1>4 DEF AnswerOf
  <2> QED BY <2>1, <2>2, <2>3 DEF HandlerTypes, AnswerTypes
<1>9. \A d \in calls' : HandlerTypes(d)
  BY <1>3, <1>5, <1>8
<1>10. BesideTypes' /\ ServerTypes'
  BY <1>4, <1>5 DEF BesideTypes, ServerTypes
<1> QED BY <1>4, <1>5, <1>9, <1>10, DetailTypesStay DEF PageTypes

\* The server's lists after a write.
LEMMA AppliedTypes ==
  ASSUME DetailServer, ServerTypes, NEW c, c.op \in DetailWrites, RequestTypes(c), Apply(c),
         c.op = "createTask" => CanCreate
  PROVE  ServerTypes'
<1>1. /\ srv.text \in [DetailStories -> Texts] /\ srv.there \subseteq DetailStories
      /\ srv.labels \in [DetailStories -> SUBSET Labels] /\ srv.tasks \in [DetailStories -> StoredTasks]
      /\ StoredTasks = ListsOn(TaskIds)
  BY ListsAre DEF ServerTypes
<1>2. srv'.text \in [DetailStories -> Texts]
  <2>1. c.op = "save" => c.arg.draft.text \in Texts
    BY DEF RequestTypes
  <2>2. IF c.op = "save" THEN srv'.text = [srv.text EXCEPT ![c.key] = c.arg.draft.text] ELSE srv'.text = srv.text
    BY Applied
  <2> QED BY <1>1, <2>1, <2>2
<1>3. srv'.labels \in [DetailStories -> SUBSET Labels]
  <2>1. c.op \in {"attach", "detach"} => c.arg.id \in Labels
    BY DEF RequestTypes
  <2>2. IF c.op = "attach" THEN srv'.labels = [srv.labels EXCEPT ![c.key] = srv.labels[c.key] \cup {c.arg.id}]
        ELSE IF c.op = "detach" THEN srv'.labels = [srv.labels EXCEPT ![c.key] = srv.labels[c.key] \ {c.arg.id}]
        ELSE srv'.labels = srv.labels
    BY Applied
  <2>3. c.key \in DetailStories
    BY DEF RequestTypes
  <2> QED BY <1>1, <2>1, <2>2, <2>3
<1>4. srv'.tasks \in [DetailStories -> StoredTasks]
  <2>1. "TODO" \in TaskStatuses /\ c.arg.status \in TaskStatuses
    BY DEF RequestTypes, TaskStatuses
  <2>2. CASE c.op = "createTask"
    <3>1. srv'.tasks = [srv.tasks EXCEPT ![c.key] = SetTask(srv.tasks[c.key], NewTaskId(c.key), "TODO")]
      BY <2>2, Applied
    <3>2. PICK s, ids, new, todo : s = c.key /\ ids = TaskIds /\ new = NewTaskId(c.key) /\ todo = "TODO"
      OBVIOUS
    <3>3. new \in ids /\ todo \in TaskStatuses /\ s \in DetailStories
      BY <2>1, <2>2, <3>2, NewTask DEF RequestTypes
    <3>4. srv.tasks[s] \in ListsOn(ids)
      BY <1>1, <3>2, <3>3
    <3>5. PICK f \in ListsOn(ids) : f = srv.tasks[s]
      BY <3>4
    <3>6. SetTask(f, new, todo) \in ListsOn(ids)
      BY <3>3, <3>5, SetTaskTypes
    <3>7. srv'.tasks = [srv.tasks EXCEPT ![s] = SetTask(f, new, todo)]
      BY <3>1, <3>2, <3>5
    <3> QED BY <1>1, <3>2, <3>6, <3>7
  <2>3. CASE c.op = "patchTask"
    <3>1. srv'.tasks = [x \in DetailStories |-> IF c.arg.id \in DOMAIN srv.tasks[x]
                          THEN SetTask(srv.tasks[x], c.arg.id, c.arg.status) ELSE srv.tasks[x]]
      BY <2>3, Applied
    <3>2. ASSUME NEW x \in DetailStories, c.arg.id \in DOMAIN srv.tasks[x]
          PROVE  SetTask(srv.tasks[x], c.arg.id, c.arg.status) \in StoredTasks
      <4>1. PICK f, ids, t, status :
              f = srv.tasks[x] /\ ids = TaskIds /\ t = c.arg.id /\ status = c.arg.status
        OBVIOUS
      <4>2. f \in ListsOn(ids) /\ status \in TaskStatuses /\ t \in DOMAIN f
        BY <1>1, <2>1, <3>2, <4>1
      <4>3. t \in ids
        BY <4>2, ListIs
      <4>4. SetTask(f, t, status) \in ListsOn(ids)
        BY <4>2, <4>3, SetTaskTypes
      <4> QED BY <1>1, <4>1, <4>4
    <3> QED BY <1>1, <3>1, <3>2
  <2>4. CASE c.op = "deleteTask"
    <3>1. srv'.tasks = [x \in DetailStories |-> DropTask(srv.tasks[x], c.arg.id)]
      BY <2>4, Applied
    <3>2. ASSUME NEW x \in DetailStories PROVE DropTask(srv.tasks[x], c.arg.id) \in StoredTasks
      <4>1. PICK f, ids, t : f = srv.tasks[x] /\ ids = TaskIds /\ t = c.arg.id
        OBVIOUS
      <4>2. f \in ListsOn(ids)
        BY <1>1, <4>1
      <4>3. DropTask(f, t) \in ListsOn(ids)
        BY <4>2, DropTaskTypes
      <4> QED BY <1>1, <4>1, <4>3
    <3> QED BY <3>1, <3>2
  <2>5. CASE c.op \notin {"createTask", "patchTask", "deleteTask"}
    <3>1. srv'.tasks = srv.tasks
      BY <2>5, Applied
    <3> QED BY <1>1, <3>1
  <2> QED BY <2>2, <2>3, <2>4, <2>5
<1>5. srv'.there \subseteq srv.there
  BY Applied
<1> QED BY <1>1, <1>2, <1>3, <1>4, <1>5 DEF ServerTypes

LEMMA WrittenTypes ==
  ASSUME DraftInv, SidesAgree, DetailTypes, page = "detail", page' = page, NEW c \in calls, DetailWriteAnswered(c)
  PROVE  DetailTypes'
<1>1. /\ CallShape(c) /\ DetailOp(c) /\ Writing(c) /\ DetailServer /\ HandlerTypes(c)
      /\ UNCHANGED <<selected, view, pending, started, shown, detail, draft, busy, marks, labels, available>>
  BY DEF DraftInv, CallInv, SidesAgree, DetailTypes, DetailWriteAnswered
<1>2. c.op \in DetailWrites
  BY <1>1 DEF DetailOp, DraftInv, CallInv, Writing, Fetching
<1>3. PICK net, answer :
        Answered(c, net, answer) /\ (Carried(c, net, answer) \/ WriteRefused(net) \/ AnswerLost(c, net))
  <2>1. PICK got, blank, ok, failed : got = WriteAnswer(c) /\ blank = Blank /\ ok = "ok" /\ failed = "failed"
    OBVIOUS
  <2>2. CASE Carried(c, ok, got) /\ Answered(c, ok, got)
    BY <2>2
  <2>3. CASE WriteRefused(failed) /\ Answered(c, failed, blank)
    BY <2>3
  <2>4. CASE AnswerLost(c, failed) /\ Answered(c, failed, blank)
    BY <2>4
  <2> QED BY <2>1, <2>2, <2>3, <2>4 DEF DetailWriteAnswered, Carried, WriteRefused, AnswerLost
<1>4. PICK e : calls' = (calls \ {c}) \cup {e} /\ AnswerOf(c, e, net, answer)
  BY <1>1, <1>3, AnsweredFields
<1>5. /\ PageTypes /\ ServerTypes /\ BesideTypes /\ LoadedTypes(detail) /\ DraftTypes(draft) /\ shown \in DetailKeys
      /\ \A d \in calls : HandlerTypes(d)
  BY DEF DetailTypes
<1>6. RequestTypes(c) /\ c.key \in DetailStories
  BY <1>1 DEF HandlerTypes, RequestTypes
<1>7. ServerTypes'
  <2>1. CASE WriteRefused(net)
    BY <1>5, <2>1 DEF WriteRefused, ServerTypes
  <2>2. CASE Apply(c) /\ (c.op = "createTask" => CanCreate)
    BY <1>1, <1>2, <1>5, <1>6, <2>2, AppliedTypes
  <2> QED BY <1>3, <2>1, <2>2 DEF Carried, AnswerLost
<1>8. net = "ok" => AnswerTypes(c.op, answer)
  <2> SUFFICES ASSUME net = "ok" PROVE AnswerTypes(c.op, answer)
    OBVIOUS
  <2>1. (c.op = "createTask" => CanCreate) /\ answer = WriteAnswer(c)
    BY <1>3 DEF Carried, WriteRefused, AnswerLost
  <2>2. srv'.text[c.key] \in Texts
    BY <1>6, <1>7 DEF ServerTypes
  <2>3. CASE c.op = "createTask"
    <3>1. PICK new : new = NewTaskId(c.key)
      OBVIOUS
    <3>2. new \in TaskIds
      BY <2>1, <2>3, <3>1, NewTask
    <3>3. answer = [Blank EXCEPT !.story = new]
      BY <2>1, <2>3, <3>1 DEF WriteAnswer
    <3>4. answer.story = new
      BY <3>3 DEF Blank
    <3> QED BY <2>3, <3>2, <3>4 DEF AnswerTypes
  <2>4. CASE c.op # "createTask"
    <3>1. PICK s, text : s = c.key /\ text = srv'.text[c.key]
      OBVIOUS
    <3>2. answer = [Blank EXCEPT !.story = s, !.text = text]
      BY <2>1, <2>4, <3>1 DEF WriteAnswer
    <3>3. answer.story = s /\ answer.text = text
      BY <3>2 DEF Blank
    <3>4. c.op # "load"
      BY <1>2 DEF DetailWrites
    <3> QED BY <1>6, <2>2, <2>4, <3>1, <3>3, <3>4 DEF AnswerTypes
  <2> QED BY <2>3, <2>4
<1>9. HandlerTypes(e)
  <2>1. RequestTypes(e)
    BY <1>6, <1>4 DEF AnswerOf, RequestTypes
  <2>2. e.op = c.op /\ e.answer = answer /\ e.net = net
    BY <1>4 DEF AnswerOf
  <2> QED BY <1>8, <2>1, <2>2 DEF HandlerTypes
<1>10. \A d \in calls' : HandlerTypes(d)
  BY <1>4, <1>5, <1>9
<1>11. BesideTypes'
  <2>1. blurred' \subseteq Sides \X DetailKeys
    <3>1. Blur(c.key, Sides) \subseteq Sides \X DetailKeys
      BY <1>6 DEF Blur, DetailKeys
    <3> QED BY <1>3, <1>5, <3>1 DEF Carried, WriteRefused, AnswerLost, BesideTypes
  <2> QED BY <1>1, <1>5, <2>1 DEF BesideTypes
<1> QED BY <1>1, <1>5, <1>7, <1>10, <1>11, DetailTypesStay DEF PageTypes

LEMMA DetailLoadTypes ==
  ASSUME DetailTypes, page = "detail", page' = page, NEW c \in calls, StoryLoaded(c)
  PROVE  DetailTypes'
<1>1. /\ PageTypes /\ ServerTypes /\ BesideTypes /\ LoadedTypes(detail) /\ DraftTypes(draft) /\ shown \in DetailKeys
      /\ (\A d \in calls : HandlerTypes(d)) /\ HandlerTypes(c)
  BY DEF DetailTypes
<1>2. c.key \in DetailStories
  BY <1>1 DEF HandlerTypes, RequestTypes
<1>3. PICK key, error, d : key = c.key /\ error = "error"
        /\ d = IF c.net = "ok" THEN c.answer ELSE [Blank EXCEPT !.kind = error, !.for = key]
  OBVIOUS
<1>4. LoadedTypes(d)
  <2>1. CASE c.net = "ok"
    BY <1>1, <1>3, <2>1 DEF StoryLoaded, HandlerTypes, AnswerTypes
  <2>2. CASE c.net # "ok"
    <3>1. PICK b : b = [Blank EXCEPT !.kind = error]
      OBVIOUS
    <3>2. b = [kind |-> error, for |-> NoKey, story |-> NoKey, text |-> NoKey, labels |-> {}, tasks |-> NoTasks]
      BY <3>1 DEF Blank
    <3>3. [b EXCEPT !.for = key] =
            [kind |-> error, for |-> key, story |-> NoKey, text |-> NoKey, labels |-> {}, tasks |-> NoTasks]
      BY <3>2
    <3>4. d = [b EXCEPT !.for = key]
      BY <1>3, <2>2, <3>1 DEF Blank
    <3> QED BY <1>2, <1>3, <3>3, <3>4, ListsAre DEF LoadedTypes, DetailKeys
  <2> QED BY <2>1, <2>2
<1> DEFINE loaded == IF c.net = "ok" THEN c.answer ELSE [Blank EXCEPT !.kind = "error", !.for = c.key]
<1>12. d = loaded
  BY <1>3
<1>13. /\ Render(shown, loaded, draft, calls \ {c}, TRUE)
       /\ labels' = IF loaded.labels = {} THEN labels ELSE LabelsOf(c.key, loaded.labels)
       /\ available' = (available /\ loaded.kind = "ok")
       /\ UNCHANGED <<selected, view, pending, started, srv, busy, marks, blurred>>
  BY DEF StoryLoaded
<1> HIDE DEF loaded
<1>5. /\ Render(shown, d, draft, calls \ {c}, TRUE)
      /\ labels' = IF d.labels = {} THEN labels ELSE LabelsOf(c.key, d.labels)
      /\ available' = (available /\ d.kind = "ok")
      /\ UNCHANGED <<selected, view, pending, started, srv, busy, marks, blurred>>
  BY <1>12, <1>13
<1>6. PICK s, dr, cs, fresh : s = shown /\ dr = draft /\ cs = calls \ {c} /\ fresh = TRUE
  OBVIOUS
<1>7. Render(s, d, dr, cs, fresh)
  BY <1>5, <1>6
<1>8. s \in DetailKeys /\ DraftTypes(dr) /\ \A e \in cs : HandlerTypes(e)
  BY <1>1, <1>6
<1>9. /\ shown' = s /\ detail' = d /\ DraftTypes(draft')
      /\ \A e \in calls' : HandlerTypes(e)
  BY <1>4, <1>7, <1>8, RenderTypes
<1>10. labels' \in [of : DetailKeys, set : SUBSET Labels]
  <2>1. d.labels \subseteq Labels /\ labels \in [of : DetailKeys, set : SUBSET Labels]
    BY <1>1, <1>4 DEF LoadedTypes, BesideTypes
  <2> QED BY <1>2, <1>5, <2>1 DEF LabelsOf, DetailKeys
<1>11. BesideTypes' /\ ServerTypes'
  BY <1>1, <1>5, <1>10 DEF BesideTypes, ServerTypes
<1> QED BY <1>1, <1>4, <1>5, <1>8, <1>9, <1>11, DetailTypesStay DEF PageTypes

LEMMA SaveTypes ==
  ASSUME DraftInv, DetailTypes, page = "detail", page' = page, NEW c \in calls, StorySaved(c)
  PROVE  DetailTypes'
<1>1. /\ PageTypes /\ ServerTypes /\ BesideTypes /\ LoadedTypes(detail) /\ DraftTypes(draft) /\ shown \in DetailKeys
      /\ (\A d \in calls : HandlerTypes(d)) /\ HandlerTypes(c) /\ DetailShape(detail)
  BY DEF DetailTypes, DraftInv
<1>2. PICK story, text : story = c.answer.story /\ text = c.answer.text
  OBVIOUS
<1>3. c.net = "ok" => story \in DetailStories /\ text \in Texts
  BY <1>1, <1>2 DEF StorySaved, HandlerTypes, AnswerTypes
<1>4. PICK none, d : none = {} /\ d = IF c.net = "ok" /\ detail.kind = "ok"
                      THEN [detail EXCEPT !.story = story, !.text = text, !.labels = none] ELSE detail
  OBVIOUS
<1>5. PICK dr : dr = IF c.net = "ok" /\ c.op = "save" THEN [for |-> story, text |-> text, typed |-> FALSE] ELSE draft
  OBVIOUS
<1>6. LoadedTypes(d)
  <2>1. CASE c.net = "ok" /\ detail.kind = "ok"
    <3>1. PICK one : one = [detail EXCEPT !.story = story]
      OBVIOUS
    <3>2. one = [kind |-> detail.kind, for |-> detail.for, story |-> story, text |-> detail.text,
                 labels |-> detail.labels, tasks |-> detail.tasks]
      BY <1>1, <3>1 DEF DetailShape
    <3>3. PICK two : two = [one EXCEPT !.text = text]
      OBVIOUS
    <3>4. two = [kind |-> detail.kind, for |-> detail.for, story |-> story, text |-> text,
                 labels |-> detail.labels, tasks |-> detail.tasks]
      BY <3>2, <3>3
    <3>5. [two EXCEPT !.labels = none] =
            [kind |-> detail.kind, for |-> detail.for, story |-> story, text |-> text, labels |-> none, tasks |-> detail.tasks]
      BY <3>4
    <3>6. d = [two EXCEPT !.labels = none]
      BY <1>1, <1>4, <2>1, <3>1, <3>3 DEF DetailShape
    <3> QED BY <1>1, <1>3, <1>4, <2>1, <3>5, <3>6 DEF LoadedTypes, DetailKeys
  <2>2. CASE ~(c.net = "ok" /\ detail.kind = "ok")
    BY <1>1, <1>4, <2>2
  <2> QED BY <2>1, <2>2
<1>7. DraftTypes(dr)
  BY <1>1, <1>3, <1>5 DEF DraftTypes, DetailKeys
<1>8. /\ Render(shown, d, dr, calls \ {c}, c.net = "ok")
      /\ busy' = busy \ {"saving"} /\ blurred' \in {blurred, blurred \cup Blur(shown, {"labels"})}
      /\ UNCHANGED <<selected, view, pending, started, srv, marks, labels, available>>
  BY <1>2, <1>4, <1>5 DEF StorySaved
<1>9. PICK s, cs, fresh : s = shown /\ cs = calls \ {c} /\ fresh = (c.net = "ok")
  OBVIOUS
<1>10. Render(s, d, dr, cs, fresh)
  BY <1>8, <1>9
<1>11. s \in DetailKeys /\ \A e \in cs : HandlerTypes(e)
  BY <1>1, <1>9
<1>12. /\ shown' = s /\ detail' = d /\ DraftTypes(draft')
       /\ \A e \in calls' : HandlerTypes(e)
  BY <1>6, <1>7, <1>10, <1>11, RenderTypes
<1>13. blurred' \subseteq Sides \X DetailKeys
  BY <1>1, <1>8 DEF Blur, Sides, BesideTypes
<1>14. BesideTypes' /\ ServerTypes'
  BY <1>1, <1>8, <1>13 DEF BesideTypes, ServerTypes
<1> QED BY <1>1, <1>6, <1>8, <1>11, <1>12, <1>14, DetailTypesStay DEF PageTypes

LEMMA SmallTypes ==
  ASSUME DetailTypes, page = "detail", page' = page, NEW c \in calls,
         LabelsLoaded(c) \/ ItemDeleted(c) \/ LabelDone(c)
  PROVE  DetailTypes'
<1>1. /\ PageTypes /\ ServerTypes /\ BesideTypes /\ LoadedTypes(detail) /\ DraftTypes(draft) /\ shown \in DetailKeys
      /\ (\A d \in calls : HandlerTypes(d)) /\ HandlerTypes(c)
  BY DEF DetailTypes
<1>2. CASE LabelsLoaded(c)
  <2>1. labels' \in [of : DetailKeys, set : SUBSET Labels]
    <3>1. detail.labels \subseteq Labels /\ labels \in [of : DetailKeys, set : SUBSET Labels]
      BY <1>1 DEF LoadedTypes, BesideTypes
    <3> QED BY <1>2, <3>1 DEF LabelsLoaded
  <2>2. blurred' \subseteq Sides \X DetailKeys
    BY <1>1, <1>2 DEF LabelsLoaded, Blur, Sides, BesideTypes
  <2>3. /\ calls' = calls \ {c} /\ available' \in BOOLEAN
        /\ UNCHANGED <<selected, view, pending, started, srv, shown, detail, draft, busy, marks>>
    BY <1>2 DEF LabelsLoaded
  <2>4. BesideTypes' /\ ServerTypes'
    BY <1>1, <2>1, <2>2, <2>3 DEF BesideTypes, ServerTypes
  <2> QED BY <1>1, <2>3, <2>4, DetailTypesStay DEF PageTypes
<1>3. CASE LabelDone(c)
  <2>1. c.old.labels \subseteq Labels
    BY <1>1, <1>3 DEF LabelDone, HandlerTypes, RequestTypes
  <2>2. labels' \in [of : DetailKeys, set : SUBSET Labels]
    BY <1>1, <1>3, <2>1 DEF LabelDone, BesideTypes
  <2>3. /\ calls' = calls \ {c} /\ marks' \subseteq marks
        /\ UNCHANGED <<selected, view, pending, started, srv, shown, detail, draft, busy, available, blurred>>
    BY <1>3 DEF LabelDone
  <2>4. BesideTypes' /\ ServerTypes'
    BY <1>1, <2>2, <2>3 DEF BesideTypes, ServerTypes
  <2> QED BY <1>1, <2>3, <2>4, DetailTypesStay DEF PageTypes
<1>4. CASE ItemDeleted(c)
  <2>1. CASE c.net = "ok"
    <3>1. PICK cs : cs = {d \in calls \ {c} : ~Fetching(d)}
      OBVIOUS
    <3>2. cs \in SUBSET calls /\ Render(NoKey, detail, NoDraft, cs, FALSE) /\ ResetDetail
      BY <1>4, <2>1, <3>1 DEF ItemDeleted
    <3>3. busy' \subseteq busy /\ UNCHANGED <<selected, view, pending, started, srv, blurred>>
      BY <1>4 DEF ItemDeleted
    <3> QED BY <3>2, <3>3, ClosedTypes
  <2>2. CASE c.net # "ok"
    <3>1. /\ calls' = calls \ {c} /\ busy' \subseteq busy
          /\ UNCHANGED <<selected, view, pending, started, srv, blurred, shown, detail, draft, marks, labels, available>>
      BY <1>4, <2>2 DEF ItemDeleted
    <3>2. BesideTypes' /\ ServerTypes'
      BY <1>1, <3>1 DEF BesideTypes, ServerTypes
    <3> QED BY <1>1, <3>1, <3>2, DetailTypesStay DEF PageTypes
  <2> QED BY <2>1, <2>2
<1> QED BY <1>2, <1>3, <1>4

\* The tasks a handler leaves.
LEMMA AfterTypes ==
  ASSUME NEW c, RequestTypes(c), c.net = "ok" => AnswerTypes(c.op, c.answer), NEW tasks \in TaskLists, c.op \in TaskOps
  PROVE  TasksAfter(c, tasks) \in TaskLists
<1>1. PICK ids, t, todo : ids = TaskIds \cup {Temp} /\ t = c.arg.id /\ todo = "TODO"
  OBVIOUS
<1>2. TaskLists = ListsOn(ids) /\ todo \in TaskStatuses
  BY <1>1, ListsAre DEF TaskStatuses
<1>3. c.op \in {"createTask", "patchTask", "deleteTask"} /\ t \in ids
  BY <1>1 DEF TaskOps, RequestTypes
<1>4. CASE t \notin DOMAIN tasks /\ c.op # "deleteTask"
  BY <1>1, <1>4 DEF TasksAfter
<1>5. CASE c.op = "createTask" /\ t \in DOMAIN tasks
  <2>1. DropTask(tasks, t) \in ListsOn(ids)
    BY <1>2, DropTaskTypes
  <2>2. c.net = "ok" => SetTask(DropTask(tasks, t), c.answer.story, "TODO") \in ListsOn(ids)
    <3> SUFFICES ASSUME c.net = "ok" PROVE SetTask(DropTask(tasks, t), c.answer.story, "TODO") \in ListsOn(ids)
      OBVIOUS
    <3>1. PICK new, f : new = c.answer.story /\ f = DropTask(tasks, t)
      OBVIOUS
    <3>2. new \in ids /\ f \in ListsOn(ids)
      BY <1>1, <1>5, <2>1, <3>1 DEF AnswerTypes
    <3>3. SetTask(f, new, todo) \in ListsOn(ids)
      BY <1>2, <3>2, SetTaskTypes
    <3> QED BY <1>1, <3>1, <3>3
  <2>3. TasksAfter(c, tasks) = IF c.net = "ok" THEN SetTask(DropTask(tasks, t), c.answer.story, "TODO") ELSE DropTask(tasks, t)
    BY <1>1, <1>5 DEF TasksAfter
  <2> QED BY <1>2, <2>1, <2>2, <2>3
<1>6. CASE c.op = "patchTask" /\ t \in DOMAIN tasks
  <2>1. /\ c.old.tasks \in ListsOn(ids) /\ t \in DOMAIN c.old.tasks /\ c.arg.status \in TaskStatuses
    BY <1>1, <1>2, <1>6 DEF RequestTypes
  <2>2. c.old.tasks[t] \in TaskStatuses
    BY <2>1, ListIs
  <2>3. PICK status : status = IF c.net = "ok" THEN c.arg.status ELSE c.old.tasks[t]
    OBVIOUS
  <2>4. status \in TaskStatuses
    BY <2>1, <2>2, <2>3
  <2>5. SetTask(tasks, t, status) \in ListsOn(ids)
    BY <1>2, <1>3, <2>4, SetTaskTypes
  <2>6. TasksAfter(c, tasks) = SetTask(tasks, t, status)
    BY <1>1, <1>6, <2>3 DEF TasksAfter
  <2> QED BY <1>2, <2>5, <2>6
<1>7. CASE c.op = "deleteTask"
  <2>1. c.old.tasks \in TaskLists
    BY <1>7 DEF RequestTypes
  <2>2. TasksAfter(c, tasks) = IF c.net = "ok" THEN tasks ELSE c.old.tasks
    BY <1>7 DEF TasksAfter
  <2> QED BY <2>1, <2>2
<1> QED BY <1>3, <1>4, <1>5, <1>6, <1>7

LEMMA TaskDoneTypes ==
  ASSUME DraftInv, SidesAgree, DetailTypes, page = "detail", page' = page, NEW c \in calls, TaskDone(c)
  PROVE  DetailTypes'
<1>1. /\ PageTypes /\ ServerTypes /\ BesideTypes /\ LoadedTypes(detail) /\ DraftTypes(draft) /\ shown \in DetailKeys
      /\ (\A d \in calls : HandlerTypes(d)) /\ HandlerTypes(c) /\ detail.tasks \in TaskLists
  BY DEF DetailTypes, LoadedTypes
<1>2. PICK tasks, after : tasks = detail.tasks /\ after = TasksAfter(c, tasks)
  OBVIOUS
<1>3. after \in TaskLists
  <2>1. c.op \in TaskOps /\ RequestTypes(c) /\ (c.net = "ok" => AnswerTypes(c.op, c.answer)) /\ tasks \in TaskLists
    BY <1>1, <1>2 DEF TaskDone, TaskOps, HandlerTypes
  <2> QED BY <1>2, <2>1, AfterTypes
<1>4. LoadedTypes(detail')
  <2>1. CASE detail.kind = "ok"
    <3>1. detail' = [detail EXCEPT !.tasks = after]
      BY <1>2, <2>1 DEF TaskDone
    <3> QED BY <1>3, <3>1, TaskTypes
  <2>2. CASE detail.kind # "ok"
    BY <1>1, <2>2 DEF TaskDone
  <2> QED BY <2>1, <2>2
<1>5. /\ calls' = calls \ {c} /\ marks' \subseteq marks /\ busy' \subseteq busy
      /\ UNCHANGED <<selected, view, pending, started, srv, shown, draft, labels, available, blurred>>
  BY DEF TaskDone
<1>6. BesideTypes' /\ ServerTypes'
  BY <1>1, <1>5 DEF BesideTypes, ServerTypes
<1> QED BY <1>1, <1>4, <1>5, <1>6, DetailTypesStay DEF PageTypes

LEMMA DetailTypesStep ==
  DraftInv /\ SidesAgree /\ DetailTypes /\ [DetailNext]_detailVars => DetailTypes'
<1> SUFFICES ASSUME DraftInv, SidesAgree, DetailTypes, [DetailNext]_detailVars PROVE DetailTypes'
  OBVIOUS
<1>1. CASE UNCHANGED detailVars
  BY <1>1 DEF detailVars, pageVars, DetailTypes, PageTypes, ServerTypes, BesideTypes
<1>2. CASE DetailNext
  <2>1. page = "detail" /\ page' = page
    BY <1>2 DEF DetailNext, Mounted
  <2>2. CASE DetailUser
    <3>1. ASSUME NEW s \in DetailStories, OpenDetail(s) PROVE DetailTypes'
      BY <2>1, <3>1, OpenTypes
    <3>2. CASE CloseDetail
      <4>1. PICK cs : cs = {c \in calls : ~Fetching(c)}
        OBVIOUS
      <4>2. /\ cs \in SUBSET calls /\ Render(NoKey, detail, NoDraft, cs, FALSE) /\ ResetDetail
            /\ busy' \subseteq busy /\ UNCHANGED <<selected, view, pending, started, srv, blurred>>
        BY <3>2, <4>1 DEF CloseDetail
      <4> QED BY <2>1, <4>2, ClosedTypes
    <3>3. CASE \/ \E s \in DetailStories, x \in Texts : ChangedElsewhere(s, x)
               \/ CancelChanges \/ DeleteItem \/ (\E x \in Texts : UpdateDraft(x))
               \/ \E op \in {"save", "status"} : SaveOrChangeStatus(op)
               \/ \E x \in Labels : AttachLabel(x) \/ DetachLabel(x)
      BY <2>1, <3>3, WriteTypes
    <3>4. CASE \/ CreateTask
               \/ \E t \in TaskIds \cup {Temp} : DeleteTask(t) \/ \E status \in TaskStatuses : PatchTask(t, status)
      BY <2>1, <3>4, TaskWriteTypes
    <3> QED BY <2>2, <3>1, <3>2, <3>3, <3>4 DEF DetailUser
  <2>3. CASE DetailAnswers
    <3>1. PICK c \in calls :
            \/ DetailFetchAnswered(c) \/ DetailWriteAnswered(c) \/ StoryLoaded(c) \/ LabelsLoaded(c)
            \/ StorySaved(c) \/ ItemDeleted(c) \/ LabelDone(c) \/ TaskDone(c)
      BY <2>3 DEF DetailAnswers
    <3> QED BY <2>1, <3>1, LoadedAnswerTypes, WrittenTypes, DetailLoadTypes, SaveTypes, SmallTypes, TaskDoneTypes
  <2> QED BY <1>2, <2>2, <2>3 DEF DetailNext
<1> QED BY <1>1, <1>2

\* The workspace keeps its types whichever story a late answer or a late handler puts in
\* the place of the one shown: the lists of tasks hold a status for each task they name,
\* with a refused patch as with a refused deletion put back by its handler.
THEOREM DetailTypeCorrect == DetailSpec => []DetailTypeOK
BY DraftAlways, SidesStart, SidesStep, DetailStartTypes, DetailTypesStep, DetailTypesSay, PTL DEF DetailSpec
\* What the list page holds, shows, and takes from an answer.
RowsView(v) == v.kind \in {"no-project", "ok", "empty", "error"} /\ DOMAIN v.items \subseteq ListRows
OfferTypes(o) == o.project \in Projects \cup {NoProject} /\ DOMAIN o.on \subseteq ListRows
ListServer ==
    /\ srv = [status |-> srv.status, on |-> srv.on]
    /\ FunctionOn(srv.status, DOMAIN srv.status) /\ FunctionOn(srv.on, DOMAIN srv.on)
    /\ DOMAIN srv.status \subseteq ListRows /\ DOMAIN srv.on = DOMAIN srv.status
    /\ \A r \in DOMAIN srv.on : srv.on[r] \in ListBoards \cup {NoKey}
RowCall(c) ==
    /\ CallShape(c) /\ c.arg = [from |-> c.arg.from, to |-> c.arg.to, boards |-> c.arg.boards]
    /\ c.project \in Projects \cup {NoProject}
    /\ c.phase = "add" => c.arg.to \in ListBoards
    /\ OfferTypes(c.arg.boards)
    /\ Fetching(c) /\ c.net = "ok" => RowsView(c.answer)
ListBeside ==
    /\ selected \in Projects \cup {NoProject} /\ started \in 0..MaxCalls /\ pending \subseteq ListRows
    /\ epicsOf \in Projects \cup {NoProject} /\ muddled \in BOOLEAN

ListTypes ==
    page = "list" =>
    /\ ListBeside /\ ListServer /\ RowsView(view) /\ OfferTypes(offered)
    /\ \A c \in calls : RowCall(c)

LEMMA ListTypesSay == ListTypes => ListTypeOK
BY DEF ListTypes, ListTypeOK, ListBeside, ListServer, RowsView, OfferTypes

LEMMA NoRows ==
  /\ RowsView(NoView) /\ OfferTypes(NoOffer) /\ RowsView(View("error", selected, NoItems))
  /\ NoListArg = [from |-> NoListArg.from, to |-> NoListArg.to, boards |-> NoListArg.boards]
  /\ NoListArg.boards = NoOffer
BY DEF RowsView, OfferTypes, NoView, NoOffer, View, Offer, NoItems, NoListArg, ListArg

LEMMA ListStartTypes == ASSUME ListInit PROVE ListTypes
<1>1. PICK S \in SUBSET ListRows : srv \in [status : [S -> RowStatuses], on : [S -> ListBoards \cup {NoKey}]]
  BY ListAssumption DEF ListInit
<1>2. ListServer
  <2>1. srv.status \in [S -> RowStatuses] /\ srv.on \in [S -> ListBoards \cup {NoKey}]
    BY <1>1
  <2>2. srv = [status |-> srv.status, on |-> srv.on]
    BY <1>1
  <2>3. DOMAIN srv.status = S /\ DOMAIN srv.on = S
    BY <2>1
  <2> QED BY <2>1, <2>2, <2>3 DEF ListServer, FunctionOn
<1>3. ListBeside
  <2>1. muddled \in BOOLEAN
    BY DEF ListInit
  <2>2. started \in 0..MaxCalls
    BY PageAssumption DEF ListInit, Mount
  <2> QED BY <2>1, <2>2 DEF ListInit, Mount, ListBeside
<1> QED BY <1>2, <1>3, NoRows DEF ListInit, Mount, ListTypes

\* What the page is told when it fetches.
LEMMA FetchedTypes ==
  ASSUME ListServer, NEW p \in Projects \cup {NoProject}
  PROVE  RowsView(FetchList(p)) /\ OfferTypes(FetchOffer(p)) /\ OfferTypes(Offer(p, FALSE, NoItems))
<1>1. DOMAIN RowsIn(p) \subseteq ListRows
  BY DEF RowsIn, ListServer
<1>2. RowsView(FetchList(p))
  BY <1>1 DEF FetchList, RowsView, View
<1>3. OfferTypes(Offer(p, FALSE, NoItems))
  BY DEF OfferTypes, Offer, NoItems
<1>4. OfferTypes(FetchOffer(p))
  BY <1>3 DEF FetchOffer, OfferTypes, Offer, ListServer
<1> QED BY <1>2, <1>3, <1>4

\* A step that keeps the server's rows.
LEMMA ListTypesStay ==
  ASSUME ListTypes, page = "list", page' = page, srv' = srv, ListBeside', RowsView(view'), OfferTypes(offered'),
         \A c \in calls' : RowCall(c)
  PROVE  ListTypes'
BY DEF ListTypes, ListServer, FunctionOn

LEMMA RowCallTypes ==
  ASSUME NEW op, NEW r, NEW p \in Projects \cup {NoProject}, NEW phase, NEW arg,
         arg = [from |-> arg.from, to |-> arg.to, boards |-> arg.boards],
         OfferTypes(arg.boards), phase = "add" => arg.to \in ListBoards
  PROVE  RowCall(ListCall(op, r, p, phase, arg))
BY DEF RowCall, ListCall, NewCall, CallShape

LEMMA BeginTypes ==
  ASSUME ListTypes, page = "list", page' = page, NEW op, NEW r, NEW phase, NEW arg,
         BeginList(op, r, phase, arg), UNCHANGED <<selected, view, srv, offered, epicsOf>>, pending' \subseteq ListRows,
         arg = [from |-> arg.from, to |-> arg.to, boards |-> arg.boards],
         OfferTypes(arg.boards), phase = "add" => arg.to \in ListBoards
  PROVE  ListTypes'
<1>1. ListBeside /\ RowsView(view) /\ OfferTypes(offered) /\ \A c \in calls : RowCall(c)
  BY DEF ListTypes
<1>2. PICK p \in Projects \cup {NoProject} : p = selected
  BY <1>1 DEF ListBeside
<1>3. PICK c : c = ListCall(op, r, p, phase, arg)
  OBVIOUS
<1>4. RowCall(c)
  BY <1>3, RowCallTypes
<1>5. calls' = calls \cup {c} /\ Start /\ muddled' \in BOOLEAN
  BY <1>1, <1>2, <1>3 DEF BeginList, ListBeside
<1>6. ListBeside'
  BY <1>1, <1>5, PageAssumption DEF ListBeside, Start
<1> QED BY <1>1, <1>4, <1>5, <1>6, ListTypesStay

LEMMA ListUserTypes ==
  ASSUME ListTypes, page = "list", page' = page, ListUser PROVE ListTypes'
<1>1. ListBeside /\ ListServer /\ RowsView(view) /\ OfferTypes(offered) /\ \A c \in calls : RowCall(c)
  BY DEF ListTypes
<1>2. ASSUME NEW op, NEW r \in ListRows, NEW phase, NEW arg, RunWithPending(op, r, phase, arg),
             arg = [from |-> arg.from, to |-> arg.to, boards |-> arg.boards],
             OfferTypes(arg.boards), phase = "add" => arg.to \in ListBoards
      PROVE  ListTypes'
  <2>1. BeginList(op, r, phase, arg) /\ UNCHANGED <<selected, view, srv, offered, epicsOf>> /\ pending' \subseteq ListRows
    BY <1>1, <1>2 DEF RunWithPending, ListBeside
  <2> QED BY <1>2, <2>1, BeginTypes
<1>3. CASE RefreshList
  <2>1. PICK op, r, phase, arg : op = "refresh" /\ r = NoKey /\ phase = "fetch" /\ arg = NoListArg
    OBVIOUS
  <2>2. /\ BeginList(op, r, phase, arg) /\ UNCHANGED <<selected, view, srv, offered, epicsOf>> /\ pending' \subseteq ListRows
        /\ phase # "add"
    BY <1>1, <1>3, <2>1 DEF RefreshList, ListBeside
  <2>3. arg = [from |-> arg.from, to |-> arg.to, boards |-> arg.boards] /\ OfferTypes(arg.boards)
    BY <2>1, NoRows
  <2> QED BY <2>2, <2>3, BeginTypes
<1>4. ASSUME NEW r \in ListRows, NEW op \in {"status", "assignee", "delete"}, ChangeRow(r, op) PROVE ListTypes'
  <2>1. PICK arg : arg = NoListArg
    OBVIOUS
  <2>2. arg = [from |-> arg.from, to |-> arg.to, boards |-> arg.boards] /\ OfferTypes(arg.boards)
    BY <2>1, NoRows
  <2>3. RunWithPending(op, r, op, arg) /\ op # "add"
    BY <1>4, <2>1 DEF ChangeRow
  <2> QED BY <1>2, <2>2, <2>3
<1>5. ASSUME NEW r \in ListRows, NEW b \in ListBoards, HandleMoveToBacklog(r, b) PROVE ListTypes'
  <2>1. PICK op, phase, arg : op = "move" /\ phase = "add" /\ arg = ListArg(OnBoard(r), b, NoOffer)
    OBVIOUS
  <2>2. arg = [from |-> arg.from, to |-> arg.to, boards |-> arg.boards] /\ arg.boards = NoOffer /\ arg.to \in ListBoards
    BY <2>1 DEF ListArg
  <2>3. RunWithPending(op, r, phase, arg) /\ OfferTypes(arg.boards)
    BY <1>5, <2>1, <2>2, NoRows DEF HandleMoveToBacklog
  <2> QED BY <1>2, <2>2, <2>3
<1>6. ASSUME NEW r \in ListRows, HandleMoveToEpic(r) PROVE ListTypes'
  <2>1. PICK op, arg : op = "epic" /\ arg = NoListArg
    OBVIOUS
  <2>2. /\ BeginList(op, r, op, arg) /\ UNCHANGED <<selected, view, srv, offered, epicsOf>> /\ pending' \subseteq ListRows
        /\ op # "add"
    BY <1>1, <1>6, <2>1 DEF HandleMoveToEpic, ListBeside
  <2>3. arg = [from |-> arg.from, to |-> arg.to, boards |-> arg.boards] /\ OfferTypes(arg.boards)
    BY <2>1, NoRows
  <2> QED BY <2>2, <2>3, BeginTypes
<1>7. ASSUME NEW r \in ListRows, OthersTakeOff(r) PROVE ListTypes'
  <2>1. PICK f : f = [srv.on EXCEPT ![r] = NoKey]
    OBVIOUS
  <2>2. srv' = [srv EXCEPT !.on = f]
    BY <1>7, <2>1 DEF OthersTakeOff
  <2>3. srv' = [status |-> srv.status, on |-> f]
    BY <1>1, <2>2 DEF ListServer
  <2>4. FunctionOn(f, DOMAIN f) /\ DOMAIN f = DOMAIN srv.on /\ \A x \in DOMAIN f : f[x] \in ListBoards \cup {NoKey}
    BY <1>1, <2>1 DEF ListServer, FunctionOn
  <2>5. ListServer'
    BY <1>1, <2>3, <2>4 DEF ListServer, FunctionOn
  <2>6. ListBeside' /\ UNCHANGED <<view, offered, calls>>
    BY <1>1, <1>7, PageAssumption DEF OthersTakeOff, Start, ListBeside
  <2> QED BY <1>1, <2>5, <2>6 DEF ListTypes
<1>8. ASSUME NEW p \in Projects \cup {NoProject}, SelectListProject(p) PROVE ListTypes'
  <2>1. PICK c : c = ListCall("load", NoKey, p, "fetch", NoListArg)
    OBVIOUS
  <2>2. RowCall(c)
    <3>1. PICK op, r, phase, arg : op = "load" /\ r = NoKey /\ phase = "fetch" /\ arg = NoListArg
      OBVIOUS
    <3>2. arg = [from |-> arg.from, to |-> arg.to, boards |-> arg.boards] /\ OfferTypes(arg.boards) /\ phase # "add"
      BY <3>1, NoRows
    <3>3. c = ListCall(op, r, p, phase, arg)
      BY <2>1, <3>1
    <3> QED BY <3>2, <3>3, RowCallTypes
  <2>3. calls' \subseteq calls \cup {c}
    BY <1>8, <2>1 DEF SelectListProject
  <2>4. ListBeside'
    BY <1>1, <1>8, PageAssumption DEF SelectListProject, Start, ListBeside
  <2>5. UNCHANGED <<view, srv, offered>>
    BY <1>8 DEF SelectListProject
  <2>6. \A d \in calls' : RowCall(d)
    BY <1>1, <2>2, <2>3
  <2> QED BY <1>1, <2>4, <2>5, <2>6, ListTypesStay
<1> QED BY <1>3, <1>4, <1>5, <1>6, <1>7, <1>8 DEF ListUser

LEMMA ListFetchTypes ==
  ASSUME ListTypes, page = "list", page' = page, NEW c \in calls, ListFetchAnswered(c) PROVE ListTypes'
<1>1. /\ ListBeside /\ ListServer /\ RowsView(view) /\ OfferTypes(offered) /\ RowCall(c)
      /\ \A d \in calls : RowCall(d)
  BY DEF ListTypes
<1>2. UNCHANGED <<selected, view, pending, started, srv, offered, epicsOf, muddled>> /\ Fetching(c)
  BY DEF ListFetchAnswered
<1>3. ListBeside'
  BY <1>1, <1>2 DEF ListBeside
<1>4. ASSUME NEW e, calls' = (calls \ {c}) \cup {e}, RowCall(e) PROVE ListTypes'
  BY <1>1, <1>2, <1>3, <1>4, ListTypesStay
<1>5. CASE Answered(c, "failed", NoView)
  <2>1. PICK net, answer : net = "failed" /\ answer = NoView
    OBVIOUS
  <2>2. PICK e : e = [c EXCEPT !.net = net, !.answer = answer]
    OBVIOUS
  <2>3. e = [n |-> c.n, op |-> c.op, key |-> c.key, project |-> c.project, phase |-> c.phase,
             net |-> net, arg |-> c.arg, old |-> c.old, answer |-> answer]
    BY <1>1, <2>2, AnsweredShape DEF RowCall
  <2>4. RowCall(e)
    BY <1>1, <2>1, <2>3 DEF RowCall, CallShape
  <2>5. calls' = (calls \ {c}) \cup {e}
    BY <1>5, <2>1, <2>2 DEF Answered, Replace
  <2> QED BY <1>4, <2>4, <2>5
<1>6. ASSUME NEW boards \in {FetchOffer(c.project), Offer(c.project, FALSE, NoItems)},
             Replace(c, [c EXCEPT !.net = "ok", !.answer = FetchList(c.project), !.arg.boards = boards])
      PROVE  ListTypes'
  <2>1. PICK answer, b : answer = FetchList(c.project) /\ b = boards
    OBVIOUS
  <2>2. PICK e : e = [c EXCEPT !.net = "ok", !.answer = answer, !.arg.boards = b]
    OBVIOUS
  <2>3. e = [n |-> c.n, op |-> c.op, key |-> c.key, project |-> c.project, phase |-> c.phase, net |-> "ok",
             arg |-> [from |-> c.arg.from, to |-> c.arg.to, boards |-> b], old |-> c.old, answer |-> answer]
    <3>1. CallShape(c) /\ c.arg = [from |-> c.arg.from, to |-> c.arg.to, boards |-> c.arg.boards]
      BY <1>1 DEF RowCall
    <3> QED BY <2>2, <3>1, BothAnswered
  <2>4. RowsView(answer) /\ OfferTypes(b)
    <3>1. PICK p \in Projects \cup {NoProject} : p = c.project
      BY <1>1 DEF RowCall
    <3>2. RowsView(FetchList(p)) /\ OfferTypes(FetchOffer(p)) /\ OfferTypes(Offer(p, FALSE, NoItems))
      BY <1>1, FetchedTypes
    <3> QED BY <2>1, <3>1, <3>2
  <2>5. RowCall(e)
    BY <1>1, <2>3, <2>4 DEF RowCall, CallShape
  <2>6. calls' = (calls \ {c}) \cup {e}
    BY <1>6, <2>1, <2>2 DEF Replace
  <2> QED BY <1>4, <2>5, <2>6
<1> QED BY <1>5, <1>6 DEF ListFetchAnswered

\* The server's rows after a write.
LEMMA ListWriteTypes ==
  ASSUME ListServer, NEW c, RowCall(c), ListAccepts(c), srv' \in ListWrite(c)
  PROVE  ListServer'
<1>1. CASE c.phase = "status"
  <2>1. PICK x \in RowStatuses : srv' = [srv EXCEPT !.status[c.key] = x]
    BY <1>1 DEF ListWrite
  <2>2. PICK f : f = [srv.status EXCEPT ![c.key] = x]
    OBVIOUS
  <2>3. srv' = [srv EXCEPT !.status = f]
    BY <2>1, <2>2
  <2>4. srv' = [status |-> f, on |-> srv.on]
    BY <2>3 DEF ListServer
  <2>5. FunctionOn(f, DOMAIN f) /\ DOMAIN f = DOMAIN srv.status
    BY <2>2 DEF ListServer, FunctionOn
  <2> QED BY <2>4, <2>5 DEF ListServer, FunctionOn
<1>2. CASE c.phase = "delete"
  <2>1. PICK f, g : f = Without(srv.status, c.key) /\ g = Without(srv.on, c.key)
    OBVIOUS
  <2>2. PICK one : one = [srv EXCEPT !.status = f]
    OBVIOUS
  <2>3. one = [status |-> f, on |-> srv.on]
    BY <2>2 DEF ListServer
  <2>4. srv' = [one EXCEPT !.on = g]
    BY <1>2, <2>1, <2>2 DEF ListWrite, ListServer
  <2>5. srv' = [status |-> f, on |-> g]
    BY <2>3, <2>4
  <2>6. /\ FunctionOn(f, DOMAIN f) /\ DOMAIN f = DOMAIN srv.status \ {c.key}
        /\ FunctionOn(g, DOMAIN g) /\ DOMAIN g = DOMAIN srv.on \ {c.key}
        /\ \A r \in DOMAIN g : g[r] = srv.on[r]
    BY <2>1 DEF FunctionOn, Without
  <2> QED BY <2>5, <2>6 DEF ListServer, FunctionOn
<1>3. CASE c.phase \in {"add", "remove"}
  <2>1. PICK b \in ListBoards \cup {NoKey} : srv' = [srv EXCEPT !.on[c.key] = b]
    BY <1>3 DEF ListWrite, RowCall
  <2>2. PICK f : f = [srv.on EXCEPT ![c.key] = b]
    OBVIOUS
  <2>3. srv' = [srv EXCEPT !.on = f]
    BY <2>1, <2>2
  <2>4. srv' = [status |-> srv.status, on |-> f]
    BY <2>3 DEF ListServer
  <2>5. FunctionOn(f, DOMAIN f) /\ DOMAIN f = DOMAIN srv.on /\ \A r \in DOMAIN f : f[r] \in ListBoards \cup {NoKey}
    BY <2>2 DEF ListServer, FunctionOn
  <2> QED BY <2>4, <2>5 DEF ListServer, FunctionOn
<1>4. CASE c.phase \notin {"status", "delete", "add", "remove"}
  <2>1. srv' = srv
    BY <1>4 DEF ListWrite
  <2> QED BY <2>1 DEF ListServer, FunctionOn
<1> QED BY <1>1, <1>2, <1>3, <1>4

LEMMA ListWrittenTypes ==
  ASSUME ListTypes, page = "list", page' = page, NEW c \in calls, ListWriteAnswered(c) PROVE ListTypes'
<1>1. /\ ListBeside /\ ListServer /\ RowsView(view) /\ OfferTypes(offered) /\ RowCall(c)
      /\ \A d \in calls : RowCall(d)
  BY DEF ListTypes
<1>2. UNCHANGED <<selected, view, pending, started, offered, epicsOf>> /\ Writing(c) /\ muddled' \in BOOLEAN
  BY <1>1 DEF ListWriteAnswered, ListBeside
<1>3. PICK net, answer : Answered(c, net, answer)
  <2>1. PICK ok, failed, none : ok = "ok" /\ failed = "failed" /\ none = NoView
    OBVIOUS
  <2>2. Answered(c, ok, none) \/ Answered(c, failed, none)
    BY <2>1 DEF ListWriteAnswered
  <2> QED BY <2>2
<1>4. ListServer'
  <2>1. CASE ListAccepts(c) /\ srv' \in ListWrite(c)
    BY <1>1, <2>1, ListWriteTypes
  <2>2. CASE srv' = srv
    BY <1>1, <2>2 DEF ListServer, FunctionOn
  <2> QED BY <2>1, <2>2 DEF ListWriteAnswered
<1>5. PICK e : e = [c EXCEPT !.net = net, !.answer = answer]
  OBVIOUS
<1>6. e = [n |-> c.n, op |-> c.op, key |-> c.key, project |-> c.project, phase |-> c.phase,
           net |-> net, arg |-> c.arg, old |-> c.old, answer |-> answer]
  BY <1>1, <1>5, AnsweredShape DEF RowCall
<1>7. RowCall(e)
  BY <1>1, <1>2, <1>6 DEF RowCall, CallShape, Fetching, Writing
<1>8. calls' = (calls \ {c}) \cup {e}
  BY <1>3, <1>5 DEF Answered, Replace
<1>9. ListBeside'
  BY <1>1, <1>2 DEF ListBeside
<1> QED BY <1>1, <1>2, <1>4, <1>7, <1>8, <1>9 DEF ListTypes

LEMMA ListHandledTypes ==
  ASSUME ListTypes, page = "list", page' = page, NEW c \in calls,
         ListWritten(c) \/ ListWriteFailed(c) \/ ListFetched(c) \/ ListFetchFailed(c)
  PROVE  ListTypes'
<1>1. /\ ListBeside /\ ListServer /\ RowsView(view) /\ OfferTypes(offered) /\ RowCall(c)
      /\ \A d \in calls : RowCall(d)
  BY DEF ListTypes
<1>2. CASE ListWritten(c)
  <2>1. PICK phase \in {"remove", "fetch"} : Await(c, phase)
    BY <1>2 DEF ListWritten
  <2>2. PICK e : e = Advance(c, phase)
    OBVIOUS
  <2>3. e = [n |-> c.n, op |-> c.op, key |-> c.key, project |-> c.project, phase |-> phase,
             net |-> "sent", arg |-> c.arg, old |-> c.old, answer |-> c.answer]
    BY <1>1, <2>2, AwaitShape DEF RowCall
  <2>4. RowCall(e)
    BY <1>1, <2>3 DEF RowCall, CallShape
  <2>5. calls' = (calls \ {c}) \cup {e}
    BY <2>1, <2>2 DEF Await, Replace
  <2>6. UNCHANGED <<selected, view, pending, started, srv, offered, epicsOf, muddled>>
    BY <1>2 DEF ListWritten
  <2>7. ListBeside'
    BY <1>1, <2>6 DEF ListBeside
  <2> QED BY <1>1, <2>4, <2>5, <2>6, <2>7, ListTypesStay
<1>3. CASE ListWriteFailed(c) \/ ListFetched(c) \/ ListFetchFailed(c)
  <2>1. calls' = calls \ {c} /\ pending' \subseteq pending /\ UNCHANGED <<selected, started, srv>>
    BY <1>3 DEF ListWriteFailed, ListFetched, ListFetchFailed, EndRow
  <2>2. muddled' \in BOOLEAN /\ epicsOf' \in Projects \cup {NoProject}
    BY <1>1, <1>3 DEF ListWriteFailed, ListFetched, ListFetchFailed, ListBeside, RowCall
  <2>3. OfferTypes(offered')
    BY <1>1, <1>3 DEF ListWriteFailed, ListFetched, ListFetchFailed, RowCall
  <2>4. RowsView(view')
    <3>1. \A p : RowsView(View("error", p, NoItems))
      BY DEF RowsView, View, NoItems
    <3> QED BY <1>1, <1>3, <3>1 DEF ListWriteFailed, ListFetched, ListFetchFailed, RowCall
  <2>5. ListBeside'
    BY <1>1, <2>1, <2>2 DEF ListBeside
  <2> QED BY <1>1, <2>1, <2>3, <2>4, <2>5, ListTypesStay
<1> QED BY <1>2, <1>3

LEMMA ListTypesStep == ListTypes /\ [ListNext]_listVars => ListTypes'
<1> SUFFICES ASSUME ListTypes, [ListNext]_listVars PROVE ListTypes'
  OBVIOUS
<1>1. CASE UNCHANGED listVars
  BY <1>1 DEF listVars, pageVars, ListTypes, ListBeside, ListServer, FunctionOn
<1>2. CASE ListNext
  <2>1. page = "list" /\ page' = page
    BY <1>2 DEF ListNext, Mounted
  <2>2. CASE ListAnswers
    BY <2>1, <2>2, ListFetchTypes, ListWrittenTypes, ListHandledTypes DEF ListAnswers
  <2> QED BY <1>2, <2>1, <2>2, ListUserTypes DEF ListNext
<1> QED BY <1>1, <1>2

\* A row is on a board only while it is a row, whichever of a move, a deletion and another
\* client's change comes between the two writes of a move; and the page shows only rows.
THEOREM ListTypeCorrect == ListSpec => []ListTypeOK
BY ListStartTypes, ListTypesStep, ListTypesSay, PTL DEF ListSpec
-----------------------------------------------------------------------------
(* The backlog page: its types.                                            *)

\* What the page shows, and what the server answers: of its boards their ranks count.
ViewTypes(v) ==
    /\ v.kind \in {"no-project", "ok", "empty", "error"}
    /\ v.kind = "ok" => /\ DOMAIN v.items.boards \subseteq Boards
                        /\ \A b \in DOMAIN v.items.boards : v.items.boards[b].rank \in Nat

ScreenTypes ==
    /\ selected \in Projects \cup {NoProject} /\ ViewTypes(view)
    /\ dialog.board \in Boards \cup {NoBoard} /\ torn \in BOOLEAN

RowTypes ==
    /\ DOMAIN srv.boards \subseteq Boards /\ \A b \in DOMAIN srv.boards : srv.boards[b].rank \in Nat
    /\ DOMAIN srv.where \subseteq BacklogStories
    /\ \A s \in DOMAIN srv.where : srv.where[s] \in Boards \cup {NoBoard}
    /\ srv.done \subseteq DOMAIN srv.where

GhostTypes == taken \subseteq BacklogStories /\ late \subseteq BacklogStories /\ closing \subseteq Boards

BacklogCallTypes(c) ==
    /\ c.phase = "swap" => c.arg.left \subseteq Boards \X Nat
    /\ c.phase = "close" => c.arg.from \in Boards
    /\ Fetching(c) /\ c.net = "ok" => ViewTypes(c.answer)

BacklogTypes ==
    page = "backlog" => ScreenTypes /\ RowTypes /\ GhostTypes /\ \A c \in calls : BacklogCallTypes(c)

LEMMA BacklogTypesStart == BacklogInit => BacklogTypes
<1> SUFFICES ASSUME BacklogInit PROVE ScreenTypes /\ RowTypes /\ GhostTypes /\ calls = {}
  BY DEF BacklogTypes
<1>1. PICK i \in InitialBacklogs : srv = i
  BY DEF BacklogInit
<1>2. /\ srv.boards \in [DOMAIN srv.boards -> [kind : {"BACKLOG", "SPRINT"}, status : {"OPEN", "ACTIVE", "CLOSED"}, rank : Nat]]
      /\ srv.where \in [DOMAIN srv.where -> DOMAIN srv.boards \cup {NoBoard}]
      /\ DOMAIN srv.boards \subseteq Boards /\ DOMAIN srv.where \subseteq BacklogStories /\ srv.done \subseteq DOMAIN srv.where
  BY <1>1, BacklogAssumption
<1>3. RowTypes
  BY <1>2 DEF RowTypes
<1>4. GhostTypes
  BY <1>2 DEF GhostTypes, BacklogInit
<1>5. torn \in BOOLEAN
  BY DEF BacklogInit
<1>6. ViewTypes(view) /\ dialog.board = NoBoard /\ selected = NoProject
  BY DEF BacklogInit, Mount, NoView, View, ViewTypes, NoDialog
<1> QED BY <1>3, <1>4, <1>5, <1>6 DEF ScreenTypes, BacklogInit

\* A step that names no story and no board the server did not have.
LEMMA RowsKept == ASSUME RowTypes, ServerShape, RanksStay, RowsStay PROVE RowTypes'
BY DEF RowTypes, ServerShape, RanksStay, RowsStay

\* A step of the page alone.
LEMMA PageKeepsTypes ==
  ASSUME BacklogTypes, page = "backlog", page' = page, UNCHANGED <<srv, taken, closing, late>>, ScreenTypes',
         \A c \in calls' : c \in calls \/ BacklogCallTypes(c)
  PROVE  BacklogTypes'
BY DEF BacklogTypes, RowTypes, GhostTypes, BacklogCallTypes, Fetching, ViewTypes

LEMMA BeginKeepsTypes ==
  ASSUME BacklogTypes, page = "backlog", page' = page, UNCHANGED <<srv, taken, closing, late>>, ScreenTypes',
         NEW op, NEW key, NEW phase, NEW arg, Begin(op, key, phase, arg),
         phase = "swap" => arg.left \subseteq Boards \X Nat, phase # "close"
  PROVE  BacklogTypes'
<1>1. PICK c : c = NewCall(op, key, selected, phase, arg, NoPlan)
  OBVIOUS
<1>2. BacklogCallTypes(c)
  BY <1>1 DEF NewCall, BacklogCallTypes
<1>3. calls' = calls \cup {c}
  BY <1>1 DEF Begin
<1> QED BY <1>2, <1>3, PageKeepsTypes

\* The controls of the boards are those of boards the server knows.
LEMMA ShownTypes ==
  ASSUME BacklogTypes, page = "backlog", ViewKind = "ok"
  PROVE  Shown \subseteq Boards /\ \A b \in Shown : Rank(b) \in Nat
BY DEF BacklogTypes, ScreenTypes, ViewTypes, ViewKind, Shown, Rank

LEMMA SwapTargetShown ==
  ASSUME NEW b, NEW direction \in {"top", "up", "down", "bottom"}, NEW a \in SwapTargets(b, direction)
  PROVE  a \in Shown
BY DEF SwapTargets, Moveable

LEMMA UserKeepsTypes ==
  ASSUME BacklogTypes, page = "backlog", page' = page, BacklogUser PROVE BacklogTypes'
<1> DEFINE still == UNCHANGED <<selected, view, dialog, torn>>
<1>1. ASSUME still PROVE ScreenTypes'
  BY <1>1 DEF BacklogTypes, ScreenTypes, ViewTypes
<1> HIDE DEF still
<1>2. ASSUME NEW p \in Projects \cup {NoProject}, SelectBacklogProject(p) PROVE BacklogTypes'
  <2>1. PICK c : c = NewCall("load", NoKey, p, "fetch", NoPlan, NoPlan)
    OBVIOUS
  <2>2. BacklogCallTypes(c)
    BY <2>1 DEF NewCall, BacklogCallTypes
  <2>3. ScreenTypes'
    BY <1>2 DEF SelectBacklogProject, BacklogTypes, ScreenTypes, ViewTypes
  <2>4. \A d \in calls' : d \in calls \/ d = c
    BY <1>2, <2>1 DEF SelectBacklogProject
  <2> QED BY <1>2, <2>2, <2>3, <2>4, PageKeepsTypes DEF SelectBacklogProject
<1>3. ASSUME still, UNCHANGED <<srv, taken, closing, late>>, NEW op, NEW key, NEW phase, NEW arg,
             Begin(op, key, phase, arg), phase \notin {"swap", "close"}
      PROVE  BacklogTypes'
  BY <1>1, <1>3, BeginKeepsTypes
<1>4. CASE RefreshBacklog
  BY <1>3, <1>4 DEF RefreshBacklog, still
<1>5. ASSUME NEW s, NEW op, ChangeStory(s, op) PROVE BacklogTypes'
  <2>1. PICK key : key = <<"story", s>>
    OBVIOUS
  <2> QED BY <1>3, <1>5, <2>1 DEF ChangeStory, still
<1>6. ASSUME NEW s, DeleteStory(s) PROVE BacklogTypes'
  <2>1. PICK key : key = <<"delete", s>>
    OBVIOUS
  <2> QED BY <1>3, <1>6, <2>1 DEF DeleteStory, still
<1>7. ASSUME NEW s, NEW to, MoveToBacklog(s, to) PROVE BacklogTypes'
  <2>1. PICK key, plan : Begin("move", key, "add", plan)
    BY <1>7 DEF MoveToBacklog
  <2> QED BY <1>3, <1>7, <2>1 DEF MoveToBacklog, still
<1>8. ASSUME NEW b \in Boards, NEW direction \in {"top", "up", "down", "bottom"}, MoveBoard(b, direction) PROVE BacklogTypes'
  <2>1. PICK a \in SwapTargets(b, direction) :
          /\ Begin("swap", <<"board", b>>, "swap", Plan(b, a, {<<b, Rank(a)>>, <<a, Rank(b)>>}))
          /\ torn' = (torn \/ Swapping \/ \E x \in DOMAIN srv.boards \cap {a, b} : srv.boards[x].rank # Rank(x))
    BY <1>8 DEF MoveBoard
  <2>2. a \in Shown /\ b \in Shown /\ ViewKind = "ok"
    BY <1>8, SwapTargetShown DEF MoveBoard, Ready
  <2>3. a \in Boards /\ Rank(a) \in Nat /\ Rank(b) \in Nat
    BY <2>2, ShownTypes
  <2>4. PICK ra : ra = Rank(a)
    OBVIOUS
  <2>5. PICK rb : rb = Rank(b)
    OBVIOUS
  <2>6. PICK plan : plan = Plan(b, a, {<<b, ra>>, <<a, rb>>})
    OBVIOUS
  <2>7. PICK key : key = <<"board", b>>
    OBVIOUS
  <2>8. Begin("swap", key, "swap", plan)
    BY <2>1, <2>4, <2>5, <2>6, <2>7
  <2>9. plan.left \subseteq Boards \X Nat
    BY <2>3, <2>4, <2>5, <2>6 DEF Plan
  <2>10. torn' \in BOOLEAN
    BY <2>1
  <2>11. ScreenTypes'
    BY <1>8, <2>10 DEF MoveBoard, BacklogTypes, ScreenTypes, ViewTypes
  <2> QED BY <1>8, <2>8, <2>9, <2>11, BeginKeepsTypes DEF MoveBoard
<1>9. ASSUME NEW kind, NEW b \in Boards \cup {NoBoard}, NEW into, Open(kind, b, into) PROVE BacklogTypes'
  <2>1. ScreenTypes'
    BY <1>9 DEF Open, pageVars, BacklogTypes, ScreenTypes, ViewTypes
  <2> QED BY <1>9, <2>1, PageKeepsTypes DEF Open, pageVars
<1>10. ASSUME NEW b \in Boards, OpenStart(b) \/ OpenComplete(b) \/ OpenDelete(b) PROVE BacklogTypes'
  <2>1. \E kind, into : Open(kind, b, into)
    BY <1>10 DEF OpenStart, OpenComplete, OpenDelete
  <2> QED BY <1>9, <2>1
<1>11. ASSUME NEW b, ChooseTarget(b) PROVE BacklogTypes'
  <2>1. dialog.board \in Boards \cup {NoBoard}
    BY DEF BacklogTypes, ScreenTypes
  <2>2. PICK x : x = dialog.board
    OBVIOUS
  <2>3. Open("complete", x, b)
    BY <1>11, <2>2 DEF ChooseTarget
  <2> QED BY <1>9, <2>1, <2>2, <2>3
<1>12. CASE CloseDialog
  BY <1>9, <1>12 DEF CloseDialog
<1>13. ASSUME NEW op, NEW key, NEW phase, NEW arg, Begin(op, key, phase, arg), phase \notin {"swap", "close"},
              UNCHANGED <<selected, view, torn, srv, taken, closing, late>>, dialog' = dialog \/ dialog' = NoDialog
       PROVE  BacklogTypes'
  <2>1. NoDialog.board = NoBoard
    BY DEF NoDialog
  <2>2. ScreenTypes'
    BY <1>13, <2>1 DEF BacklogTypes, ScreenTypes, ViewTypes
  <2> QED BY <1>13, <2>2, BeginKeepsTypes
<1>14. CASE ConfirmSprint
  <2>1. PICK key, phase, plan : Begin("sprint", key, phase, plan) /\ phase \in {"start", "complete"}
    <3>1. PICK phase : phase = IF dialog.kind = "start" THEN "start" ELSE "complete"
      OBVIOUS
    <3>2. \E key, plan : Begin("sprint", key, phase, plan)
      BY <1>14, <3>1 DEF ConfirmSprint
    <3> QED BY <3>1, <3>2
  <2> QED BY <1>13, <1>14, <2>1 DEF ConfirmSprint
<1>15. CASE ConfirmComplete
  <2>1. PICK key, plan : Begin("complete", key, "complete", plan)
    BY <1>15 DEF ConfirmComplete
  <2> QED BY <1>13, <1>15, <2>1 DEF ConfirmComplete
<1>16. CASE ConfirmDelete
  <2>1. PICK key, plan : Begin("deleteBoard", key, "deleteBoard", plan)
    BY <1>16 DEF ConfirmDelete
  <2> QED BY <1>13, <1>16, <2>1 DEF ConfirmDelete
<1> QED BY <1>2, <1>4, <1>5, <1>6, <1>7, <1>8, <1>10, <1>11, <1>12, <1>14, <1>15, <1>16 DEF BacklogUser

LEMMA FetchAnsweredTypes ==
  ASSUME StoriesInv, BacklogTypes, page = "backlog", page' = page, NEW c \in calls, BacklogFetchAnswered(c)
  PROVE  BacklogTypes'
<1>1. CallShape(c) /\ c.phase = "fetch" /\ UNCHANGED <<srv, taken, closing, late>>
  BY DEF BacklogFetchAnswered, StoriesInv, StoryCall, Fetching
<1>2. PICK v : v = FetchBacklogData(c.project)
  OBVIOUS
<1>3. ViewTypes(v)
  <2> DEFINE seen == {b \in DOMAIN srv.boards : c.project = BoardProject /\ ~ClosedSprint(srv.boards[b])}
             boards == [b \in seen |-> srv.boards[b]]
             listed == [boards |-> boards,
                       where  |-> [s \in {t \in DOMAIN srv.where : srv.where[t] \in seen} |-> srv.where[s]],
                       done   |-> srv.done]
  <2>1. v = IF seen = {} THEN View("empty", c.project, NoItems) ELSE View("ok", c.project, listed)
    BY <1>2 DEF FetchBacklogData
  <2>2. listed.boards = boards
    OBVIOUS
  <2>3. DOMAIN boards \subseteq Boards /\ \A b \in DOMAIN boards : boards[b].rank \in Nat
    BY DEF BacklogTypes, RowTypes
  <2> HIDE DEF seen, boards, listed
  <2> QED BY <2>1, <2>2, <2>3 DEF View, ViewTypes
<1>4. \/ calls' = (calls \ {c}) \cup {[c EXCEPT !.net = "failed", !.answer = NoView]}
      \/ calls' = (calls \ {c}) \cup {[c EXCEPT !.net = "ok", !.answer = v]}
  BY <1>2 DEF BacklogFetchAnswered, Answered, Replace
<1>5. PICK e : calls' = (calls \ {c}) \cup {e} /\ (\/ e = [c EXCEPT !.net = "failed", !.answer = NoView]
                                                 \/ e = [c EXCEPT !.net = "ok", !.answer = v])
  BY <1>4
<1>6. BacklogCallTypes(e)
  <2>1. PICK none : none = NoView
    OBVIOUS
  <2>2. PICK net, a : e = [c EXCEPT !.net = net, !.answer = a] /\ (net # "failed" => a = v)
    BY <1>5, <2>1
  <2>3. e = [n |-> c.n, op |-> c.op, key |-> c.key, project |-> c.project, phase |-> c.phase,
             net |-> net, arg |-> c.arg, old |-> c.old, answer |-> a]
    BY <1>1, <2>2, AnsweredShape
  <2> QED BY <1>1, <1>3, <2>2, <2>3 DEF BacklogCallTypes
<1>7. ScreenTypes'
  BY DEF BacklogFetchAnswered, BacklogTypes, ScreenTypes, ViewTypes
<1> QED BY <1>1, <1>5, <1>6, <1>7, PageKeepsTypes

LEMMA WriteAnsweredTypes ==
  ASSUME StoriesInv, BacklogTypes, page = "backlog", page' = page, NEW c \in calls, BacklogWriteAnswered(c)
  PROVE  BacklogTypes'
<1>1. StoryCall(c) /\ c.phase \notin {"fetch", "swap"} /\ c.net = "sent"
  BY DEF BacklogWriteAnswered, StoriesInv, StoryCall, Writing, Fetching
<1>8. closing' \subseteq Boards
  <2>1. closing' = closing \/ (c.phase = "close" /\ closing' = closing \cup {c.arg.from})
    BY DEF BacklogWriteAnswered
  <2> QED BY <2>1 DEF BacklogTypes, GhostTypes, BacklogCallTypes
<1>2. RowTypes' /\ GhostTypes'
  <2>1. CASE UNCHANGED <<srv, taken, late>>
    BY <1>8, <2>1 DEF BacklogTypes, RowTypes, GhostTypes
  <2>2. CASE ~UNCHANGED <<srv, taken, late>>
    <3>1. /\ Accepts(c) /\ srv' = Effect(c) /\ late' = late \cup LateFor(c)
          /\ taken' = IF c.phase = "deleteBoard"
                      THEN taken \cup {s \in DOMAIN srv.where : srv.where[s] = c.arg.from} ELSE taken
      BY <2>2 DEF BacklogWriteAnswered
    <3>6. RanksStay /\ RowsStay
      BY <1>1, <3>1, WriteKeepsRows
    <3>2. RanksStay /\ RowsStay /\ ServerShape
      BY <3>6 DEF StoriesInv
    <3>3. RowTypes'
      BY <3>2, RowsKept DEF BacklogTypes
    <3>4. LateFor(c) \subseteq DOMAIN srv.where
      BY <1>1, <3>1 DEF LateFor, Accepts
    <3>5. GhostTypes'
      BY <1>8, <3>1, <3>4 DEF BacklogTypes, RowTypes, GhostTypes
    <3> QED BY <3>3, <3>5
  <2> QED BY <2>1, <2>2
<1>3. PICK e, net : calls' = (calls \ {c}) \cup {e} /\ e = [c EXCEPT !.net = net, !.answer = NoView]
  BY DEF BacklogWriteAnswered, Answered, Replace
<1>4. e = [n |-> c.n, op |-> c.op, key |-> c.key, project |-> c.project, phase |-> c.phase,
           net |-> net, arg |-> c.arg, old |-> c.old, answer |-> NoView]
  <2>1. PICK a : a = NoView
    OBVIOUS
  <2> QED BY <1>1, <1>3, <2>1, AnsweredShape DEF StoryCall
<1>5. BacklogCallTypes(e)
  BY <1>1, <1>4 DEF BacklogTypes, BacklogCallTypes, Fetching
<1>6. ScreenTypes'
  BY DEF BacklogWriteAnswered, BacklogTypes, ScreenTypes, ViewTypes
<1>7. \A d \in calls' : BacklogCallTypes(d)'
  BY <1>3, <1>5 DEF BacklogTypes, BacklogCallTypes, Fetching, ViewTypes
<1> QED BY <1>2, <1>6, <1>7 DEF BacklogTypes

LEMMA MovesKeepTypes ==
  ASSUME StoriesInv, BacklogTypes, page = "backlog", page' = page, NEW c \in calls, CompletionMoves(c)
  PROVE  BacklogTypes'
<1>1. /\ StoryCall(c) /\ c.phase = "complete" /\ c.net = "sent" /\ Accepts(c) /\ srv' = Effect(c)
      /\ late' = late \cup LateFor(c) /\ Await(c, "close")
      /\ UNCHANGED <<selected, view, dialog, taken, closing, torn>>
  BY DEF CompletionMoves, StoriesInv
<1>2. RanksStay /\ RowsStay
  BY <1>1, WriteKeepsRows
<1>3. RowTypes'
  BY <1>2, RowsKept DEF StoriesInv, BacklogTypes
<1>4. LateFor(c) \subseteq DOMAIN srv.where
  BY <1>1 DEF LateFor
<1>5. GhostTypes'
  BY <1>1, <1>4 DEF BacklogTypes, RowTypes, GhostTypes
<1>6. ScreenTypes'
  BY <1>1 DEF BacklogTypes, ScreenTypes, ViewTypes
<1>7. c.arg.from \in Boards
  BY <1>1 DEF Accepts, BacklogTypes, RowTypes
<1>8. PICK e : e = Advance(c, "close")
  OBVIOUS
<1>9. e.phase = "close" /\ e.arg = c.arg
  BY <1>1, <1>8, AwaitShape DEF StoryCall
<1>10. BacklogCallTypes(e)
  BY <1>7, <1>9 DEF BacklogCallTypes, Fetching
<1>11. calls' = (calls \ {c}) \cup {e}
  BY <1>1, <1>8 DEF Await, Replace
<1>12. \A d \in calls' : BacklogCallTypes(d)'
  BY <1>10, <1>11 DEF BacklogTypes, BacklogCallTypes, Fetching, ViewTypes
<1> QED BY <1>3, <1>5, <1>6, <1>12 DEF BacklogTypes

LEMMA ClosesKeepTypes ==
  ASSUME StoriesInv, BacklogTypes, page = "backlog", page' = page, NEW b, CompletionCloses(b) PROVE BacklogTypes'
<1>1. closing' = closing \ {b} /\ UNCHANGED <<selected, view, calls, dialog, taken, late, torn>>
  BY DEF CompletionCloses
<1>2. RanksStay /\ RowsStay
  BY ClosingKeepsRows
<1>3. RowTypes' /\ GhostTypes'
  BY <1>1, <1>2, RowsKept DEF StoriesInv, BacklogTypes, GhostTypes
<1>4. ScreenTypes'
  BY <1>1 DEF BacklogTypes, ScreenTypes, ViewTypes
<1>5. \A d \in calls' : BacklogCallTypes(d)'
  BY <1>1 DEF BacklogTypes, BacklogCallTypes, Fetching, ViewTypes
<1> QED BY <1>3, <1>4, <1>5 DEF BacklogTypes

LEMMA RankFields ==
  ASSUME NEW c, CallShape(c), IsPlan(c.arg), NEW w, NEW ok, NEW e \in AfterRank(c, w, ok)
  PROVE  e.arg.left = c.arg.left \ {w} /\ e.phase = c.phase
<1>0. PICK left, arg : left = c.arg.left \ {w} /\ arg = [c.arg EXCEPT !.left = left]
  OBVIOUS
<1>1. arg = [c.arg EXCEPT !.left = c.arg.left \ {w}] /\ arg.left = left
  <2>1. c.arg = [from |-> c.arg.from, to |-> c.arg.to, left |-> c.arg.left]
    BY DEF IsPlan
  <2> QED BY <1>0, <2>1
<1>2. PICK d : d = [c EXCEPT !.arg.left = @ \ {w}]
  OBVIOUS
<1>3. d = [n |-> c.n, op |-> c.op, key |-> c.key, project |-> c.project, phase |-> c.phase,
           net |-> c.net, arg |-> arg, old |-> c.old, answer |-> c.answer]
  BY <1>1, <1>2 DEF CallShape
<1>4. PICK net : e = d \/ e = [d EXCEPT !.net = net]
  BY <1>2 DEF AfterRank
<1>5. [d EXCEPT !.net = net] = [n |-> c.n, op |-> c.op, key |-> c.key, project |-> c.project, phase |-> c.phase,
                                net |-> net, arg |-> arg, old |-> c.old, answer |-> c.answer]
  BY <1>3
<1>6. e.arg = arg /\ e.phase = c.phase
  BY <1>3, <1>4, <1>5
<1> QED BY <1>0, <1>1, <1>6

LEMMA RankWrittenTypes ==
  ASSUME StoriesInv, BacklogTypes, page = "backlog", page' = page, NEW c \in calls, BacklogRankAnswered(c)
  PROVE  BacklogTypes'
<1>1. PICK w \in c.arg.left : \E ok \in BOOLEAN : RankWritten(c, w, ok)
  BY DEF BacklogRankAnswered
<1>2. PICK ok \in BOOLEAN : RankWritten(c, w, ok)
  BY <1>1
<1>3. StoryCall(c) /\ c.phase = "swap" /\ c.arg.left \subseteq Boards \X Nat
  BY DEF StoriesInv, BacklogRankAnswered, BacklogTypes, BacklogCallTypes
<1>4. w[1] \in Boards /\ w[2] \in Nat
  BY <1>3
<1>5. RowTypes'
  <2>1. CASE ~ok
    <3>1. UNCHANGED srv
      BY <1>2, <2>1 DEF RankWritten
    <3> QED BY <3>1 DEF BacklogTypes, RowTypes
  <2>2. CASE ok
    <3>1. w[1] \in DOMAIN srv.boards /\ srv' = [srv EXCEPT !.boards = [srv.boards EXCEPT ![w[1]].rank = w[2]]]
      BY <1>2, <2>2 DEF RankWritten, StoriesInv, ServerShape
    <3>2. PICK boards : boards = [srv.boards EXCEPT ![w[1]].rank = w[2]]
      OBVIOUS
    <3>3. srv' = [boards |-> boards, where |-> srv.where, done |-> srv.done]
      BY <3>1, <3>2 DEF StoriesInv, ServerShape
    <3>4. srv'.boards = boards /\ srv'.where = srv.where /\ srv'.done = srv.done
      BY <3>3
    <3>5. /\ DOMAIN boards = DOMAIN srv.boards
          /\ boards[w[1]] = [kind |-> srv.boards[w[1]].kind, status |-> srv.boards[w[1]].status, rank |-> w[2]]
          /\ \A x \in DOMAIN boards \ {w[1]} : boards[x] = srv.boards[x]
      BY <3>1, <3>2, RankShape DEF StoriesInv
    <3>6. \A b \in DOMAIN boards : boards[b].rank \in Nat
      BY <1>4, <3>5 DEF BacklogTypes, RowTypes
    <3> QED BY <3>4, <3>5, <3>6 DEF BacklogTypes, RowTypes
  <2> QED BY <2>1, <2>2
<1>6. GhostTypes'
  BY <1>2 DEF RankWritten, BacklogTypes, GhostTypes
<1>7. calls' = (calls \ {c}) \cup AfterRank(c, w, ok)
  BY <1>2 DEF RankWritten, AfterRank
<1>8. ASSUME NEW e \in AfterRank(c, w, ok) PROVE BacklogCallTypes(e)
  <2>1. PICK left : left = c.arg.left
    OBVIOUS
  <2>2. CallShape(c) /\ IsPlan(c.arg)
    BY <1>3 DEF StoryCall
  <2>3. e.arg.left = left \ {w} /\ e.phase = c.phase
    BY <1>8, <2>1, <2>2, RankFields
  <2> QED BY <1>3, <2>1, <2>3 DEF BacklogCallTypes, Fetching
<1>9. ScreenTypes'
  <2>1. torn' \in BOOLEAN
    BY <1>2 DEF RankWritten
  <2> QED BY <1>2, <2>1 DEF RankWritten, BacklogTypes, ScreenTypes, ViewTypes
<1>10. \A d \in calls' : BacklogCallTypes(d)'
  BY <1>7, <1>8 DEF BacklogTypes, BacklogCallTypes, Fetching, ViewTypes
<1> QED BY <1>5, <1>6, <1>9, <1>10 DEF BacklogTypes

LEMMA OthersKeepTypes ==
  ASSUME StoriesInv, BacklogTypes, page = "backlog", page' = page, OthersChangeBacklog PROVE BacklogTypes'
<1>1. UNCHANGED <<selected, view, calls, dialog, torn>>
  BY DEF OthersChangeBacklog
<1>2. RanksStay /\ RowsStay
  BY OthersKeepRows
<1>3. RowTypes'
  BY <1>2, RowsKept DEF StoriesInv, BacklogTypes
<1>4. GhostTypes'
  <2>1. taken' \subseteq taken \cup DOMAIN srv.where /\ late' \subseteq late \cup DOMAIN srv.where
    BY DEF OthersChangeBacklog
  <2>2. closing' \subseteq closing \cup DOMAIN srv.boards
    BY DEF OthersChangeBacklog
  <2> QED BY <2>1, <2>2 DEF BacklogTypes, RowTypes, GhostTypes
<1>5. ScreenTypes'
  BY <1>1 DEF BacklogTypes, ScreenTypes, ViewTypes
<1>6. \A d \in calls' : BacklogCallTypes(d)'
  BY <1>1 DEF BacklogTypes, BacklogCallTypes, Fetching, ViewTypes
<1> QED BY <1>3, <1>4, <1>5, <1>6 DEF BacklogTypes

LEMMA HandlersKeepTypes ==
  ASSUME StoriesInv, BacklogTypes, page = "backlog", page' = page, NEW c \in calls,
         BacklogFetched(c) \/ BacklogWritten(c) \/ BacklogWriteFailed(c)
  PROVE  BacklogTypes'
<1>1. StoryCall(c) /\ BacklogCallTypes(c) /\ UNCHANGED <<selected, srv, taken, closing, late, torn>>
  BY DEF StoriesInv, BacklogTypes, BacklogFetched, BacklogWritten, BacklogWriteFailed
<1>2. ScreenTypes'
  <2>1. ViewTypes(View("error", c.project, NoItems))
    BY DEF ViewTypes, View
  <2>2. ViewTypes(view')
    <3>1. CASE BacklogFetched(c)
      BY <1>1, <2>1, <3>1 DEF BacklogFetched, BacklogTypes, ScreenTypes, BacklogCallTypes
    <3>2. CASE ~BacklogFetched(c)
      BY <3>2 DEF BacklogWritten, BacklogWriteFailed, BacklogTypes, ScreenTypes
    <3> QED BY <3>1, <3>2
  <2>3. dialog' = dialog \/ dialog' = NoDialog
    BY DEF BacklogFetched, BacklogWritten, BacklogWriteFailed
  <2>4. NoDialog.board = NoBoard
    BY DEF NoDialog
  <2> QED BY <1>1, <2>2, <2>3, <2>4 DEF BacklogTypes, ScreenTypes, ViewTypes
<1>3. CASE BacklogWritten(c)
  <2>1. PICK phase \in {"remove", "fetch"} : Await(c, phase)
    BY <1>3 DEF BacklogWritten
  <2>2. Advance(c, phase) =
           [n |-> c.n, op |-> c.op, key |-> c.key, project |-> c.project, phase |-> phase,
            net |-> "sent", arg |-> c.arg, old |-> c.old, answer |-> c.answer]
    BY <1>1, AwaitShape DEF StoryCall
  <2>3. PICK e : e = Advance(c, phase)
    OBVIOUS
  <2>4. BacklogCallTypes(e)
    BY <2>1, <2>2, <2>3 DEF BacklogCallTypes
  <2> QED BY <1>1, <1>2, <2>1, <2>3, <2>4, PageKeepsTypes DEF Await, Replace
<1>4. CASE FinishBacklogCall(c) /\ (c.op = "swap" => Fetching(c) \/ c.net = "failed")
  <2>1. PICK e : e = [c EXCEPT !.op = "orphan", !.key = NoKey, !.net = "sent"]
    OBVIOUS
  <2>2. c.op = "swap" /\ c.arg.left # {} => BacklogCallTypes(e)
    BY <1>1, <2>1, OrphanShape DEF StoryCall, BacklogCallTypes, Fetching
  <2>3. \A d \in calls' : d \in calls \/ (d = e /\ c.op = "swap" /\ c.arg.left # {})
    BY <1>4, <2>1 DEF FinishBacklogCall
  <2> QED BY <1>1, <1>2, <2>2, <2>3, PageKeepsTypes
<1> QED BY <1>3, <1>4 DEF BacklogFetched, BacklogWriteFailed

LEMMA BacklogTypesStep == StoriesInv /\ BacklogTypes /\ [BacklogNext]_backlogVars => BacklogTypes'
<1> SUFFICES ASSUME StoriesInv, BacklogTypes, [BacklogNext]_backlogVars PROVE BacklogTypes'
  OBVIOUS
<1>1. CASE UNCHANGED backlogVars
  BY <1>1 DEF backlogVars, pageVars, BacklogTypes, ScreenTypes, RowTypes, GhostTypes, BacklogCallTypes, ViewTypes, Fetching
<1>2. CASE BacklogNext
  <2>1. page = "backlog" /\ page' = page
    BY <1>2 DEF BacklogNext, Mounted
  <2> QED BY <1>2, <2>1, UserKeepsTypes, FetchAnsweredTypes, MovesKeepTypes, WriteAnsweredTypes, RankWrittenTypes,
             OthersKeepTypes, ClosesKeepTypes, HandlersKeepTypes DEF BacklogNext, BacklogServer, BacklogHandlers
<1> QED BY <1>1, <1>2

LEMMA BacklogTypesSay == BacklogTypes => BacklogTypeOK
BY DEF BacklogTypes, ScreenTypes, RowTypes, GhostTypes, BacklogCallTypes, ViewTypes, BacklogTypeOK

\* Whatever other clients take away under it, the page stays within the boards and stories
\* there are, and every rank it sends is a number: what it reads from the board a move
\* changes places with is a rank of a board it shows, however old the view is.
THEOREM BacklogTypeCorrect == BacklogSpec => []BacklogTypeOK
BY BacklogTypesSay, StoriesAlways, BacklogTypesStart, BacklogTypesStep, PTL DEF BacklogSpec
=============================================================================
