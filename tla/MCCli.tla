------------------------------- MODULE MCCli -------------------------------
(***************************************************************************)
(* Command lines for the model checker: every command once, the verbs that *)
(* take a target with several selectors, and the bodies that tell the      *)
(* checks on a payload apart.                                              *)
(***************************************************************************)
EXTENDS Cli

CONSTANTS i1, i2, k1, k2

Nothing == [json |-> "absent", file |-> "absent", fields |-> NoFields, sets |-> {}, setFiles |-> {}]

BaseLine(res, verb) ==
    [res |-> res, verb |-> verb, yes |-> TRUE,
     id |-> IF verb \in TargetVerbs \/ NeedsIdOption(verb) THEN i1 ELSE NoId, by |-> {}, conv |-> NoFields, sort |-> {},
     payload |-> Nothing, configOk |-> TRUE, limit |-> 1, once |-> TRUE, maxPolls |-> 1, after |-> 0]

Sets(pairs) == [Nothing EXCEPT !.sets = pairs]
Object(kind, fields) == [Nothing EXCEPT !.json = kind, !.fields = fields]

Payloads ==
    { Nothing, Sets({<<"title", "x">>}), Sets({<<"epic_id", "e">>}), Sets({<<"kind", "SPRINT">>}),
      Sets({<<"kind", "7">>}), Sets({<<"kind", "SPRINT">>, <<"title", "x">>}),
      Sets({<<"title", "x">>, <<"title", "y">>}), Sets({<<"", "x">>}), Sets({<<"title", "{malformed">>}),
      Object("malformed", NoFields), Object("object", ("epic_id" :> "e") @@ ("story_id" :> "s")),
      [Object("object", ("story_id" :> "s")) EXCEPT !.sets = {<<"parent_id", "p">>}],
      [Object("object", ("title" :> "x")) EXCEPT !.file = "object"],
      [Nothing EXCEPT !.setFiles = {<<"title", "unreadable">>}],
      [Sets({<<"type", "TASK">>}) EXCEPT !.setFiles = {<<"story_id", "s">>}] }

Selectors ==
    { [id |-> i1, by |-> {}, conv |-> NoFields],
      [id |-> NoId, by |-> {}, conv |-> NoFields],
      [id |-> NoId, by |-> {}, conv |-> ("key" :> "")],
      [id |-> NoId, by |-> {<<"key", k1>>}, conv |-> NoFields],
      [id |-> NoId, by |-> {<<"type", "TASK">>}, conv |-> ("key" :> k1)],
      [id |-> NoId, by |-> {<<"key", k1>>}, conv |-> ("key" :> k2)],
      [id |-> NoId, by |-> {}, conv |-> ("project_id" :> "p") @@ ("project_key" :> "P")],
      [id |-> NoId, by |-> {}, conv |-> ("status" :> "TODO")] }

Select(line, s) == [line EXCEPT !.id = s.id, !.by = s.by, !.conv = s.conv]

Item(id, key, type) == [id |-> id, key |-> key, type |-> type]
MCInitialItems ==
    { {}, {Item(i1, k1, "STORY")}, {Item(i1, k1, "STORY"), Item(i2, k1, "STORY")},
      {Item(i1, k1, "STORY"), Item(i2, k1, "TASK")}, {Item(i1, k2, "STORY"), Item(i2, k1, "STORY")} }

MCInvocations ==
    {BaseLine(c[1], c[2]) : c \in Commands}
    \cup {Select(BaseLine("story", v), s) : v \in {"get", "delete"}, s \in Selectors}
    \cup {Select(BaseLine("task", v), s) : v \in {"assign", "assignments", "unassign"}, s \in Selectors}
    \cup {[BaseLine(r, "create") EXCEPT !.payload = p, !.id = NoId] :
             r \in {"story", "task", "backlog"}, p \in Payloads}
    \cup {[Select(BaseLine(r, "update"), s) EXCEPT !.payload = p] :
             r \in {"story", "backlog"}, p \in Payloads,
             s \in {t \in Selectors : t.id = i1 \/ t.by = {<<"key", k1>>}}}
    \cup {[BaseLine("label", "attach") EXCEPT !.id = NoId],
          [BaseLine("story", "delete") EXCEPT !.yes = FALSE],
          [BaseLine("agent", "list") EXCEPT !.configOk = FALSE],
          [BaseLine("epic", "overview") EXCEPT !.sort = {"progress", "rank"}],
          [BaseLine("epic", "stories") EXCEPT !.conv = ("parent_key" :> "MC-1")],
          [BaseLine("backlog", "active-sprint") EXCEPT !.conv = ("project_key" :> "MC")],
          [BaseLine("backlog", "start") EXCEPT !.conv = ("project_id" :> "p") @@ ("project_key" :> "P")]}
    \cup {[BaseLine("run", "tail") EXCEPT !.once = FALSE, !.limit = l, !.maxPolls = m, !.after = a] :
             l \in {1, 2}, m \in {2, 9}, a \in {0, 1}}
=============================================================================
