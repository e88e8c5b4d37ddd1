---------------------------- MODULE FormDialogs ----------------------------
(***************************************************************************)
(* The form dialogs of the planning pages: epics (epic-form-dialog.tsx),   *)
(* boards (backlog-create-board-dialog.tsx, backlog-edit-dialog.tsx) and   *)
(* stories (story-form.tsx).  A form shows a draft, saves it and closes    *)
(* when the save is answered.  Escape closes a form even while it saves,   *)
(* and the answer then meets whatever is open by then.                     *)
(*                                                                         *)
(* A draft is what the properties tell apart: the record its values were   *)
(* seeded from and the opening of the form it was last typed in.  Lists of *)
(* options, texts and layout are left out; the page's refresh after a save *)
(* is in the modules of the pages.                                         *)
(***************************************************************************)
EXTENDS PlanningPage

CONSTANTS
    FormEpics, FormBoards     \* what the edit forms may be opened for

ASSUME FormsAssumption == NoKey \notin FormEpics \cup FormBoards

VARIABLES
    forms,       \* what each form shows; it stays when the form is closed
    saving,      \* isSaving, isCreating, isSubmitting
    escaped,     \* ghost: openings the user dismissed while they were saving
    hit,         \* ghost: the answer to a save closed an opening other than its own
    crossed      \* ghost: the epic form was shown another epic while it was open

formVars == <<pageVars, forms, saving, escaped, hit, crossed>>

FormKinds == {"createEpic", "editEpic", "createBoard", "editBoard", "createStory"}
Records == FormEpics \cup FormBoards \cup {NoKey}
Untyped == MaxCalls       \* no opening has this number
FormOpen == {k \in FormKinds : forms[k].open}

ShutForm == [open |-> FALSE, opening |-> 0, record |-> NoKey, seed |-> NoKey, typed |-> Untyped]
Seeded(r) == [open |-> TRUE, opening |-> started, record |-> r, seed |-> r, typed |-> Untyped]
SetForm(k, f) == forms' = [forms EXCEPT ![k] = f]

-----------------------------------------------------------------------------
(* Opening, typing, closing *)

FormsInit ==
    /\ Mount("forms") /\ selected = NoProject /\ calls = {}
    /\ srv = [orphans |-> 0, values |-> [r \in FormEpics \cup FormBoards |-> r]]
    /\ forms = [k \in FormKinds |-> ShutForm] /\ saving = [k \in FormKinds |-> FALSE]
    /\ escaped = {} /\ hit = {} /\ crossed = FALSE

\* The board forms keep their draft while they are closed: createBoard until resetForm,
\* editBoard for the board of draftForId.  The epic form seeds its values when it
\* opens; the story form is mounted anew, with an isSubmitting of its own.
OpenForm(k, r) ==
    /\ FormOpen = {} /\ k # "editEpic" /\ Start
    /\ r \in IF k = "editBoard" THEN FormBoards ELSE {NoKey}
    /\ SetForm(k, IF k = "createBoard" \/ (k = "editBoard" /\ forms[k].seed = r)
                  THEN [forms[k] EXCEPT !.open = TRUE, !.opening = started, !.record = r]
                  ELSE Seeded(r))
    /\ saving' = [saving EXCEPT !["createStory"] = IF k = "createStory" THEN FALSE ELSE @]
    /\ UNCHANGED <<selected, view, pending, calls, srv, escaped, hit, crossed>>

\* handleEditEpic: the form opens when fetchEpicDetail is answered; nothing keeps a
\* second request from starting.
HandleEditEpic(r) ==
    /\ FormOpen = {} /\ Start
    /\ calls' = calls \cup {NewCall("editEpic", r, selected, "fetch", ShutForm, NoKey)}
    /\ UNCHANGED <<selected, view, pending, srv, forms, saving, escaped, hit, crossed>>

\* Mutant: an open form turns into the form of the other epic.
EditReopens(c) ==
    /\ Fetching(c) /\ c.net # "sent"
    /\ calls' = calls \ {c}
    /\ IF c.net = "failed" THEN UNCHANGED forms ELSE SetForm(c.op, [Seeded(c.key) EXCEPT !.opening = c.n])
    /\ UNCHANGED <<selected, view, pending, started, srv, saving, escaped, hit, crossed>>

\* A form that is open already takes the epic but not its values: the effect seeds on
\* the open transition only.
EditOpens(c) ==
    /\ Fetching(c) /\ c.net # "sent"
    /\ calls' = calls \ {c}
    /\ IF c.net = "failed" THEN UNCHANGED <<forms, crossed>>
       ELSE IF forms[c.op].open
            THEN SetForm(c.op, [forms[c.op] EXCEPT !.record = c.key]) /\ crossed' = (crossed \/ forms[c.op].record # c.key)
            ELSE SetForm(c.op, [Seeded(c.key) EXCEPT !.opening = c.n]) /\ UNCHANGED crossed
    /\ UNCHANGED <<selected, view, pending, started, srv, saving, escaped, hit>>

\* The fields are disabled while a form saves, but for those of the edited board.
TypeIn(k) ==
    /\ k \in FormOpen /\ (saving[k] => k = "editBoard")
    /\ SetForm(k, [forms[k] EXCEPT !.typed = forms[k].opening])
    /\ UNCHANGED <<pageVars, saving, escaped, hit, crossed>>

HandleDiscard ==
    /\ "editBoard" \in FormOpen /\ forms["editBoard"].typed # Untyped
    /\ SetForm("editBoard", [forms["editBoard"] EXCEPT !.typed = Untyped])
    /\ UNCHANGED <<pageVars, saving, escaped, hit, crossed>>

\* Mutant: closing keeps what was typed.
ShutOnly(k) == [forms[k] EXCEPT !.open = FALSE]

\* Cancel, Escape or a click outside; a changed board asks first.  resetForm and
\* executeClose drop the drafts of the board forms.
Shut(k) ==
    CASE k = "createBoard" -> [forms[k] EXCEPT !.open = FALSE, !.typed = Untyped]
      [] k = "editBoard"   -> [forms[k] EXCEPT !.open = FALSE, !.seed = NoKey, !.typed = Untyped]
      [] OTHER             -> [forms[k] EXCEPT !.open = FALSE]
CloseForm(k) ==
    /\ k \in FormOpen
    /\ SetForm(k, Shut(k))
    /\ escaped' = IF saving[k] THEN escaped \cup {forms[k].opening} ELSE escaped
    /\ UNCHANGED <<pageVars, saving, hit, crossed>>

-----------------------------------------------------------------------------
(* Saving *)

\* handleSubmit and handleSave, past their validation.  Only a changed board is saved;
\* the other forms need a title or a name.
SubmitForm(k) ==
    /\ k \in FormOpen /\ ~saving[k] /\ (k # "editEpic" => forms[k].typed # Untyped) /\ Start
    /\ saving' = [saving EXCEPT ![k] = TRUE]
    /\ calls' = calls \cup {NewCall(k, forms[k].record, selected, "save", forms[k], NoKey)}
    /\ UNCHANGED <<selected, view, pending, srv, forms, escaped, hit, crossed>>

FormFetchAnswered(c) ==
    /\ Fetching(c) /\ c.net = "sent"
    /\ \E net \in {"ok", "failed"} : Answered(c, net, NoView)
    /\ UNCHANGED <<selected, view, pending, started, srv, forms, saving, escaped, hit, crossed>>

\* A save is made or refused, and one that was made may be reported as failed.  A story
\* is created first and attached to its backlog next.
Write(c) ==
    srv' = IF c.key # NoKey THEN [srv EXCEPT !.values[c.key] = c.arg.seed] ELSE
           CASE c.op = "createStory" /\ c.phase = "save" -> [srv EXCEPT !.orphans = @ + 1]
             [] c.op = "createStory" /\ c.phase = "attach" -> [srv EXCEPT !.orphans = @ - 1]
             [] OTHER -> srv
FormWriteAnswered(c) ==
    /\ Writing(c) /\ c.net = "sent"
    /\ \/ Write(c) /\ \E net \in {"ok", "failed"} : Answered(c, net, NoView)
       \/ Answered(c, "failed", NoView) /\ UNCHANGED srv
    /\ UNCHANGED <<selected, view, pending, started, forms, saving, escaped, hit, crossed>>

StoryCreated(c) ==
    /\ c.op = "createStory" /\ c.phase = "save" /\ c.net = "ok"
    /\ Await(c, "attach")
    /\ UNCHANGED <<selected, view, pending, started, srv, forms, saving, escaped, hit, crossed>>

\* isSubmitting belongs to a story form that is gone once it was closed.
SaveEnds(c) ==
    /\ calls' = calls \ {c}
    /\ saving' = IF c.op = "createStory" /\ forms[c.op].opening # c.arg.opening THEN saving
                 ELSE [saving EXCEPT ![c.op] = FALSE]

\* The form of this kind closes, whichever opening the save came from.
SaveDone(c) ==
    /\ c.net = "ok" /\ c.phase = IF c.op = "createStory" THEN "attach" ELSE "save"
    /\ SetForm(c.op, Shut(c.op))
    /\ IF forms[c.op].open /\ forms[c.op].opening # c.arg.opening
       THEN hit' = hit \cup {[by |-> c.arg.opening, closed |-> forms[c.op].opening]}
       ELSE UNCHANGED hit
    /\ SaveEnds(c)
    /\ UNCHANGED <<selected, view, pending, started, srv, escaped, crossed>>

SaveFailed(c) ==
    /\ Writing(c) /\ c.net = "failed"
    /\ SaveEnds(c)
    /\ UNCHANGED <<selected, view, pending, started, srv, forms, escaped, hit, crossed>>

-----------------------------------------------------------------------------
FormsUser ==
    \/ \E k \in FormKinds :
         \/ \E r \in Records : OpenForm(k, r)
         \/ TypeIn(k) \/ CloseForm(k) \/ SubmitForm(k)
    \/ \E r \in FormEpics : HandleEditEpic(r)
    \/ HandleDiscard
FormsAnswers ==
    \E c \in calls : FormFetchAnswered(c) \/ FormWriteAnswered(c) \/ EditOpens(c) \/ StoryCreated(c) \/ SaveDone(c) \/ SaveFailed(c)
FormsNext == Mounted("forms") /\ (FormsUser \/ FormsAnswers)
FormsSpec == FormsInit /\ [][FormsNext]_formVars

-----------------------------------------------------------------------------
(* Properties *)

Form == [open : BOOLEAN, opening : 0..MaxCalls, record : Records, seed : Records, typed : 0..MaxCalls]

\* Types.
FormsTypeOK ==
    page = "forms" =>
    /\ selected = NoProject /\ view = NoView /\ pending = {} /\ started \in 0..MaxCalls
    /\ srv.values \in [FormEpics \cup FormBoards -> Records] /\ srv.orphans \in Nat
    /\ forms \in [FormKinds -> Form] /\ saving \in [FormKinds -> BOOLEAN]
    /\ escaped \subseteq 0..MaxCalls /\ hit \subseteq [by : 0..MaxCalls, closed : 0..MaxCalls] /\ crossed \in BOOLEAN
    /\ calls \subseteq [n : Nat, op : FormKinds, key : Records, project : {NoProject},
                        phase : {"fetch", "save", "attach"}, net : {"sent", "ok", "failed"},
                        arg : Form, old : {NoKey}, answer : {NoView}]

\* A save carries what its form was opened for: values seeded from the record it is sent
\* to, and typing of the same opening, never a draft that was dismissed.  The epic form
\* is excused once it was shown another epic while it was open.
SavesWhatItOpened ==
    page = "forms" => \A c \in {d \in calls : Writing(d)} :
        /\ c.arg.seed = c.key \/ (c.op = "editEpic" /\ crossed)
        /\ c.arg.typed \in {Untyped, c.arg.opening}

\* An answer closes a form it does not belong to only when the opening it was saved
\* from had ended before: the user dismissed that one while it was saving, or an answer
\* closed it that was not its own either.  No answer does so unless the user has dismissed
\* a form while it was saving.
Ended(n) == n \in escaped \/ \E h \in hit : h.closed = n
ClosesOnlyAfterEscape ==
    /\ \A h \in hit : Ended(h.by)
    /\ hit # {} => escaped # {}
=============================================================================
