-------------------------------- MODULE Cli --------------------------------
(***************************************************************************)
(* One invocation of the `mc` command line (src/apps/cli/src): the options *)
(* commander hands to an action, the target lookup, the body, the single   *)
(* request, the answer or the abort by the client's own timer, the output  *)
(* and the exit code; and `mc run tail`, which polls.  Other clients of    *)
(* the API change the items while the invocation runs.                     *)
(*                                                                         *)
(* The data is abstract: an item is an id with a key, a type and a         *)
(* project; a query or a body is a function from field names to values.    *)
(* Table layout and wording are left out.                                  *)
(***************************************************************************)
EXTENDS Naturals, FiniteSets, TLC

CONSTANTS
    Ids,          \* work item ids
    Keys,         \* values of the key field
    InitialItems, \* the sets of items the server may start with
    Invocations,  \* the command lines a shell may give
    MaxRows,      \* bound: timeline rows a run gets
    Times,        \* occurred_at values, numbers
    MaxPolls,     \* bound: polls of a tail that has no --max-polls
    NoId          \* "no id"

ASSUME CliAssumption ==
    /\ NoId \notin Ids /\ Times \subseteq Nat /\ MaxRows \in Nat /\ MaxPolls \in Nat
    /\ \A i \in Invocations : i.after \in Nat /\ i.id \in Ids \cup {NoId}
    /\ \A set \in InitialItems : \A it \in set : it.id \in Ids

VARIABLES
    inv,       \* the invocation: resource, verb and options
    pc,        \* where the action's code is
    found,     \* the rows of the lookup's answer
    target,    \* the id the action works on
    request,   \* the request the action sent
    wire,      \* the request as the server has it: absent, waiting, applied, refused, or cut short by an
               \* error after a commit
    err,       \* the class of the error thrown
    exitCode,  \* process.exit's argument, or Running
    items,     \* the server's items
    matched,   \* ghost: every item the selector matched when the lookup was answered
    tail       \* run tail: server rows, cursor, seenIds, printed rows, polls

cliVars == <<inv, pc, found, target, request, wire, err, exitCode, items, matched, tail>>

Running == 99
None == "none"
NoFields == [f \in {} |-> ""]
NoRequest == [method |-> None, route |-> None, id |-> NoId, body |-> NoFields]

-----------------------------------------------------------------------------
(* Resources and verbs *)

Resources == {"project", "agent", "label", "backlog", "work-item", "story", "task", "epic"}
WorkItemResources == {"work-item", "story", "task", "epic"}
DefaultQuery(res) ==
    CASE res = "story" -> ("type" :> "STORY")
      [] res = "task"  -> ("type" :> "TASK")
      [] res = "epic"  -> ("type" :> "EPIC")
      [] OTHER         -> NoFields

\* The verbs every planning resource has.
StandardVerbs == {"list", "get", "create", "update", "delete"}
BacklogVerbs == {"start", "complete", "transition-kind", "add-item", "remove-item", "active-sprint"}
LabelVerbs == {"attach", "detach"}
EpicVerbs == {"overview", "stories", "children"}
TaskVerbs == {"assign", "unassign", "assignments", "children"}
StoryVerbs == {"children"}
AgentVerbs == {"sync"}
ObsVerbs == {"costs", "requests-list", "requests-models", "import-run", "import-status"}
RunVerbs == {"submit", "status", "metrics", "tail"}

Commands ==
    (Resources \X StandardVerbs) \cup ({"backlog"} \X BacklogVerbs)
      \cup ({"label"} \X LabelVerbs) \cup ({"epic"} \X EpicVerbs)
      \cup ({"task"} \X TaskVerbs) \cup ({"story"} \X StoryVerbs)
      \cup ({"agent"} \X AgentVerbs) \cup ({"obs"} \X ObsVerbs)
      \cup ({"run"} \X RunVerbs) \cup {<<"health", "health">>}

\* The verbs that name their target by --id or by selectors.
TargetVerbs == {"get", "update", "delete", "assign", "unassign", "assignments"}

\* Options commander itself insists on (requiredOption).
NeedsIdOption(v) == v \in {"start", "complete", "transition-kind", "add-item", "remove-item",
                           "attach", "detach", "children", "submit", "status", "tail"}

Method(v) ==
    CASE v = "update" -> "PATCH"
      [] v \in {"delete", "remove-item", "detach", "unassign"} -> "DELETE"
      [] v \in {"create", "start", "complete", "transition-kind", "add-item", "attach",
                "sync", "assign", "import-run", "submit"} -> "POST"
      [] OTHER -> "GET"

Mutating(r) == r.method \in {"POST", "PATCH", "DELETE"}

-----------------------------------------------------------------------------
(* Options *)

\* --filter/--by/--set give field=value expressions; one without a field is an error,
\* so are two values for one field.
PairsOk(pairs) == \A p, q \in pairs : p[1] # "" /\ (p[1] = q[1] => p[2] = q[2])
PairsFields(pairs) ==
    [k \in {p[1] : p \in pairs} |-> (CHOOSE p \in pairs : p[1] = k)[2]]

\* The convenience options; an empty value is no filter at all.
ConvenienceOk(conv) ==
    /\ ~({"project_id", "project_key"} \subseteq DOMAIN conv)
    /\ ~({"parent_id", "parent_key"} \subseteq DOMAIN conv)
ConvenienceQuery(conv) == [k \in {f \in DOMAIN conv : conv[f] # ""} |-> conv[k]]

MergeOk(a, b) == \A k \in DOMAIN a \cap DOMAIN b : a[k] = b[k]
MergeQuery(a, b) == b @@ a

QueryOk(i) ==
    /\ PairsOk(i.by)
    /\ ConvenienceOk(i.conv)
    /\ MergeOk(PairsFields(i.by), ConvenienceQuery(i.conv))
\* No resource asks for a project in its path (requiredContext is empty for each of
\* them), so the selectors keep their project_id.
BuildSelectorQuery(i) == MergeQuery(PairsFields(i.by), ConvenienceQuery(i.conv))

\* start, complete and transition-kind take a project for scope validation.
ProjectScopeOk(i) == ~({"project_id", "project_key"} \subseteq DOMAIN i.conv)

\* What the action checks before it looks at the environment and the network.
PreChecksOk(i) ==
    CASE NeedsIdOption(i.verb)    -> i.id # NoId
      [] i.verb = "delete"        -> i.yes
      [] i.verb = "active-sprint" -> /\ ConvenienceOk(i.conv)
                                     /\ {"project_id", "project_key"} \cap DOMAIN ConvenienceQuery(i.conv) # {}
      [] i.verb = "overview"      -> ConvenienceOk(i.conv)
      [] i.verb = "stories"       -> /\ ConvenienceOk(i.conv)
                                     /\ {"parent_id", "parent_key"} \cap DOMAIN ConvenienceQuery(i.conv) # {}
      [] OTHER                    -> TRUE

\* normalizeEpicOverviewSort: each token, without its sign, has an alias.
SortAliases == {"priority", "progress", "updated", "blocked"}
EpicOverviewSortOk(sort) == sort \subseteq SortAliases

\* What it checks of the query after that, before any request leaves.
EarlyQueryOk(i) ==
    CASE i.verb \in {"list", "stories"} -> QueryOk(i)
      [] i.verb = "overview"            -> EpicOverviewSortOk(i.sort)
      [] i.verb \in TargetVerbs         ->
            i.id = NoId => QueryOk(i) /\ DOMAIN BuildSelectorQuery(i) # {}
      [] i.verb \in {"start", "complete", "transition-kind"} -> ProjectScopeOk(i)
      [] OTHER -> TRUE

-----------------------------------------------------------------------------
(* Bodies *)

\* A JSON-looking --set value that does not parse is refused; digits become a number.
CoerceOk(v) == v # "{malformed"
CoerceValue(v) == IF v = "7" THEN "number" ELSE v
IsText(v) == v # "number" /\ v # ""

PayloadOk(p) ==
    /\ p.json # "absent" \/ p.file # "absent" \/ p.sets # {} \/ p.setFiles # {}
    /\ p.json = "absent" \/ p.file = "absent"
    /\ {p.json, p.file} \subseteq {"absent", "object"}
    /\ PairsOk(p.sets) /\ \A s \in p.sets : CoerceOk(s[2])
    /\ PairsOk(p.setFiles) /\ \A s \in p.setFiles : s[2] # "" /\ s[2] # "unreadable"

\* --set overrides the object, --set-file overrides both.
BuildPayload(p) ==
    LET base == IF "object" \in {p.json, p.file} THEN p.fields ELSE NoFields
        sets == PairsFields(p.sets)
    IN  PairsFields(p.setFiles) @@ [k \in DOMAIN sets |-> CoerceValue(sets[k])] @@ base

LegacyAliases == {"epic_id", "story_id"}
AliasesOk(body) ==
    /\ Cardinality(LegacyAliases \cap DOMAIN body) <= 1
    /\ LegacyAliases \cap DOMAIN body # {} => "parent_id" \notin DOMAIN body
NormalizeWorkItemPayload(body) ==
    IF LegacyAliases \cap DOMAIN body = {} THEN body
    ELSE LET legacy == CHOOSE f \in LegacyAliases \cap DOMAIN body : TRUE
         IN  [f \in (DOMAIN body \ LegacyAliases) \cup {"parent_id"} |->
                 IF f = "parent_id" THEN body[legacy] ELSE body[f]]

WorkItemBody(i) ==
    IF i.res \in WorkItemResources THEN NormalizeWorkItemPayload(BuildPayload(i.payload))
    ELSE BuildPayload(i.payload)
BodyOk(i) ==
    /\ PayloadOk(i.payload)
    /\ i.res \in WorkItemResources => AliasesOk(BuildPayload(i.payload))

CreateRequest(i) ==
    [method |-> "POST", route |-> i.res, id |-> NoId,
     body |-> WorkItemBody(i) @@ DefaultQuery(i.res)]

\* `backlog update --set kind=...` goes to the lifecycle endpoint, alone.
IsKindTransition(i) == i.res = "backlog" /\ "kind" \in DOMAIN BuildPayload(i.payload)
UpdateOk(i) ==
    /\ BodyOk(i)
    /\ IsKindTransition(i) =>
         /\ DOMAIN BuildPayload(i.payload) = {"kind"}
         /\ ProjectScopeOk(i)
         /\ IsText(BuildPayload(i.payload)["kind"])
UpdateRequest(i, id) ==
    IF IsKindTransition(i)
    THEN [method |-> "POST", route |-> "transition-kind", id |-> id, body |-> BuildPayload(i.payload)]
    ELSE [method |-> "PATCH", route |-> i.res, id |-> id, body |-> WorkItemBody(i)]

BodyBuilds(i) ==
    CASE i.verb = "create" -> BodyOk(i)
      [] i.verb = "update" -> UpdateOk(i)
      [] OTHER             -> TRUE

BuildRequest(i, id) ==
    CASE i.verb = "create" -> CreateRequest(i)
      [] i.verb = "update" -> UpdateRequest(i, id)
      [] OTHER -> [method |-> Method(i.verb), id |-> id, body |-> NoFields,
                   route |-> IF i.verb \in StandardVerbs THEN i.res ELSE i.verb]

-----------------------------------------------------------------------------
(* The action of a command *)

CliInit ==
    /\ inv \in Invocations
    /\ pc = "start"
    /\ found = {} /\ matched = {} /\ target = NoId /\ request = NoRequest /\ wire = None
    /\ err = None /\ exitCode = Running
    /\ items \in InitialItems
    /\ tail = [rows |-> {}, cursor |-> inv.after, seen |-> {}, printed |-> {}, repeated |-> FALSE,
               hidden |-> {}, polls |-> 0]

Fail(class) == pc' = "failed" /\ err' = class

UsesSelector(i) == i.verb \in TargetVerbs /\ i.id = NoId

\* An option parser, a check before the first request, or the configuration
\* (--output, --timeout-seconds or their environment variables) refuses the line.
RefuseCommandLine ==
    /\ pc = "start"
    /\ ~(PreChecksOk(inv) /\ inv.configOk /\ EarlyQueryOk(inv))
    /\ Fail("usage")
    /\ UNCHANGED <<inv, found, target, request, wire, exitCode, items, matched, tail>>

Accepted == PreChecksOk(inv) /\ inv.configOk /\ EarlyQueryOk(inv)

\* --id, or a command without a selector: no lookup.
TakeTarget ==
    /\ pc = "start" /\ Accepted /\ ~UsesSelector(inv)
    /\ target' = inv.id
    /\ pc' = IF inv.verb = "tail" THEN "poll" ELSE "target"
    /\ UNCHANGED <<inv, found, request, wire, err, exitCode, items, matched, tail>>

SendLookup ==
    /\ pc = "start" /\ Accepted /\ UsesSelector(inv)
    /\ pc' = "lookupSent"
    /\ UNCHANGED <<inv, found, target, request, wire, err, exitCode, items, matched, tail>>

\* The selectors win over the alias's own type filter.
LookupQuery(i) == MergeQuery(DefaultQuery(i.res), BuildSelectorQuery(i))
Matches(q) == {it \in items : \A f \in DOMAIN q \cap {"key", "type"} : it[f] = q[f]}

LookupLimit == 2

\* The list endpoint answers at most LookupLimit of the rows that match.
AnswerLookup ==
    /\ pc = "lookupSent"
    /\ matched' = Matches(LookupQuery(inv))
    /\ \E rows \in SUBSET matched' :
         /\ Cardinality(rows) <= LookupLimit
         /\ Cardinality(rows) < LookupLimit => rows = matched'
         /\ found' = rows
    /\ pc' = "lookupAnswered"
    /\ UNCHANGED <<inv, target, request, wire, err, exitCode, items, tail>>

\* ensureSingleMatch: none and several are errors.
ResolveTarget ==
    /\ pc = "lookupAnswered"
    /\ IF Cardinality(found) = 1
       THEN target' = (CHOOSE r \in found : TRUE).id /\ pc' = "target" /\ UNCHANGED err
       ELSE Fail("usage") /\ UNCHANGED target
    /\ UNCHANGED <<inv, found, request, wire, exitCode, items, matched, tail>>

\* The body is built after the target is known; only then does the request leave.
SendRequest ==
    /\ pc = "target"
    /\ IF BodyBuilds(inv)
       THEN /\ request' = BuildRequest(inv, target)
            /\ wire' = "waiting" /\ pc' = "sent" /\ UNCHANGED err
       ELSE Fail("usage") /\ UNCHANGED <<request, wire>>
    /\ UNCHANGED <<inv, found, target, exitCode, items, matched, tail>>

-----------------------------------------------------------------------------
(* The API server and its other clients *)

OnItem(r) == r.route \in WorkItemResources /\ r.id # NoId

\* What the server commits of a request: a missing item, or a new one without a type,
\* leaves nothing to commit.
CarryOut ==
    /\ OnItem(request) => \E it \in items : it.id = request.id
    /\ request.method = "POST" /\ request.route \in WorkItemResources => "type" \in DOMAIN request.body
    /\ \/ /\ request.method = "DELETE" /\ OnItem(request)
          /\ items' = {it \in items : it.id # request.id}
       \/ /\ request.method = "POST" /\ request.route \in WorkItemResources
          /\ \E id \in Ids, k \in Keys :
               /\ \A it \in items : it.id # id
               /\ items' = items \cup {[id |-> id, key |-> k, type |-> request.body["type"]]}
       \/ /\ ~(request.method \in {"DELETE", "POST"} /\ request.route \in WorkItemResources)
          /\ UNCHANGED items

\* It may be carried out after the client gave up.
ServerApplies ==
    /\ wire = "waiting" /\ CarryOut
    /\ wire' = "applied"
    /\ UNCHANGED <<inv, pc, found, target, request, err, exitCode, matched, tail>>

\* Most handlers commit in each call of a repository, and answer an error when what comes
\* after a commit fails: the next transaction, a hook, or the row read back and not found.
\* What was committed stays.
ServerCutShort ==
    /\ wire = "waiting" /\ Mutating(request) /\ CarryOut
    /\ wire' = "cutShort"
    /\ UNCHANGED <<inv, pc, found, target, request, err, exitCode, matched, tail>>

\* Refused before any commit.
ServerRefuses ==
    /\ wire = "waiting"
    /\ wire' = "refused"
    /\ UNCHANGED <<inv, pc, found, target, request, err, exitCode, items, matched, tail>>

\* Another client creates or deletes an item between the lookup and the request that
\* relies on it (before the lookup it is another initial state).
OthersChange ==
    /\ pc \in {"lookupAnswered", "target"} /\ UsesSelector(inv)
    /\ \/ \E it \in items : items' = items \ {it}
       \/ \E id \in Ids, k \in Keys, t \in {"STORY", "TASK"} :
            /\ \A it \in items : it.id # id
            /\ items' = items \cup {[id |-> id, key |-> k, type |-> t]}
    /\ UNCHANGED <<inv, pc, found, target, request, wire, err, exitCode, matched, tail>>

-----------------------------------------------------------------------------
(* Answers, the timer and the exit code *)

ReceiveAnswer ==
    /\ pc = "sent" /\ wire = "applied"
    /\ pc' = "answered"
    /\ UNCHANGED <<inv, found, target, request, wire, err, exitCode, items, matched, tail>>

\* A status that is not 2xx is an ApiHttpError, for the lookup as for the request.
ReceiveHttpError ==
    /\ \/ pc \in {"lookupSent", "pollSent"}
       \/ pc = "sent" /\ wire \in {"refused", "cutShort"}
    /\ Fail("http")
    /\ UNCHANGED <<inv, found, target, request, wire, exitCode, items, matched, tail>>

\* The abort timer, or the connection failing: what the server does with the request
\* is not known.
LoseAnswer ==
    /\ pc \in {"lookupSent", "sent", "pollSent"}
    /\ Fail("transport")
    /\ UNCHANGED <<inv, found, target, request, wire, exitCode, items, matched, tail>>

PrintAndExit ==
    /\ pc = "answered"
    /\ pc' = "exited" /\ exitCode' = 0
    /\ UNCHANGED <<inv, found, target, request, wire, err, items, matched, tail>>

\* Mutant: a transport error exits like an API error.
ExitCodeMerged(class) == IF class \in {"http", "transport"} THEN 2 ELSE 1

ExitCodeForError(class) ==
    CASE class = "http" -> 2 [] class = "transport" -> 3 [] OTHER -> 1

ExitWithError ==
    /\ pc = "failed"
    /\ pc' = "exited" /\ exitCode' = ExitCodeForError(err)
    /\ UNCHANGED <<inv, found, target, request, wire, err, items, matched, tail>>

-----------------------------------------------------------------------------
(* mc run tail *)

NewestOccurredAt(rows, fallback) ==
    CHOOSE t \in {r.at : r \in rows} \cup {fallback} :
        \A u \in {r.at : r \in rows} \cup {fallback} : u <= t

\* The cursor as of the rows the client has been answered so far.
AnsweredUpTo == IF pc = "pollAnswered" THEN NewestOccurredAt(found, tail.cursor) ELSE tail.cursor

\* The run gets a timeline row; one dated before the cursor will never be asked for.
AppendRow(at) ==
    /\ inv.verb = "tail" /\ exitCode = Running
    /\ Cardinality(tail.rows) < MaxRows
    /\ LET row == [id |-> Cardinality(tail.rows) + 1, at |-> at]
       IN  tail' = [tail EXCEPT !.rows = @ \cup {row},
                                !.hidden = IF at < AnsweredUpTo THEN @ \cup {row} ELSE @]
    /\ UNCHANGED <<inv, pc, found, target, request, wire, err, exitCode, items, matched>>

Poll ==
    /\ pc = "poll" /\ tail.polls < MaxPolls
    /\ pc' = "pollSent"
    /\ UNCHANGED <<inv, found, target, request, wire, err, exitCode, items, matched, tail>>

\* Mutant: rows after the cursor only.
RowsAfter(cursor) == {r \in tail.rows : r.at > cursor}

\* The timeline endpoint: rows not older than the cursor, the newest `limit` of them.
TimelineRows(cursor) == {r \in tail.rows : r.at >= cursor}
AnswerPoll ==
    /\ pc = "pollSent"
    /\ \E rows \in SUBSET TimelineRows(tail.cursor) :
         /\ Cardinality(rows) <= inv.limit
         /\ Cardinality(rows) < inv.limit => rows = TimelineRows(tail.cursor)
         /\ \A r \in rows, o \in TimelineRows(tail.cursor) \ rows : o.at <= r.at
         /\ found' = rows
         /\ tail' = [tail EXCEPT !.hidden = @ \cup (TimelineRows(tail.cursor) \ rows)]
    /\ pc' = "pollAnswered"
    /\ UNCHANGED <<inv, target, request, wire, err, exitCode, items, matched>>

\* The cursor moves to the newest row of the batch, rows seen before are dropped, the
\* others are printed; then the loop ends or sleeps.
TailBatch ==
    /\ pc = "pollAnswered"
    /\ LET fresh == found \ tail.seen
       IN  tail' = [tail EXCEPT !.cursor = NewestOccurredAt(found, @), !.seen = @ \cup fresh,
                                !.repeated = @ \/ fresh \cap tail.printed # {},
                                !.printed = @ \cup fresh, !.polls = @ + 1]
    /\ IF inv.once \/ tail.polls + 1 >= inv.maxPolls
       THEN pc' = "exited" /\ exitCode' = 0
       ELSE pc' = "poll" /\ UNCHANGED exitCode
    /\ UNCHANGED <<inv, found, target, request, wire, err, items, matched>>

-----------------------------------------------------------------------------
CliCommand ==
    \/ RefuseCommandLine \/ TakeTarget \/ SendLookup \/ ResolveTarget \/ SendRequest
    \/ ReceiveAnswer \/ ReceiveHttpError \/ LoseAnswer \/ PrintAndExit \/ ExitWithError
    \/ Poll \/ TailBatch

CliEnvironment ==
    \/ AnswerLookup \/ AnswerPoll \/ ServerApplies \/ ServerCutShort \/ ServerRefuses \/ OthersChange
    \/ \E at \in Times : AppendRow(at)

CliNext == CliCommand \/ CliEnvironment

CliSpec == CliInit /\ [][CliNext]_cliVars

-----------------------------------------------------------------------------
(* Properties *)

\* Types.
CliTypeOK ==
    /\ pc \in {"start", "lookupSent", "lookupAnswered", "target", "sent", "answered", "failed",
               "exited", "poll", "pollSent", "pollAnswered"}
    /\ target \in Ids \cup {NoId}
    /\ wire \in {None, "waiting", "applied", "refused", "cutShort"}
    /\ err \in {None, "usage", "http", "transport"}
    /\ exitCode \in {Running, 0, 1, 2, 3}

\* The exit code tells a script what it may do next: after 0 the change is made; after 1
\* (usage) the change was never asked for, also when a lookup came first; after 2 (API
\* error) the server has done with it and does no more, though it may have committed part
\* of it, or all, before it failed; only after 3 (transport) may the change still be made.
\* errors.ts maps the classes; the order of the checks, the lookup, the request and the
\* printing in every action decides it.
ExitCodeTellsEffect ==
    /\ exitCode = 0 /\ Mutating(request) => wire = "applied"
    /\ exitCode = 1 => wire = None /\ ~Mutating(request)
    /\ exitCode = 2 => wire \in {None, "refused", "cutShort"}

\* run tail prints no row twice, and none older than its cursor is missing unless a
\* full batch cut it off or it came late, dated before rows already answered: rows that share the
\* cursor's timestamp are asked for again and told apart by their ids.
TailPrintsEachRowOnce ==
    pc \in {"poll", "exited"} =>
        /\ ~tail.repeated
        /\ \A r \in tail.rows : r.at < tail.cursor => r \in tail.printed \cup tail.hidden
=============================================================================
