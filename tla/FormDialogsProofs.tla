------------------------- MODULE FormDialogsProofs --------------------------
(***************************************************************************)
(* Proofs about FormDialogs for any epics and boards and any number of     *)
(* openings and saves.                                                     *)
(***************************************************************************)
EXTENDS FormDialogs, FiniteSetTheorems, TLAPS

-----------------------------------------------------------------------------
(* The inductive invariant.                                                *)

SaveCall == [n : Nat, op : FormKinds, key : Records, project : {NoProject},
             phase : {"fetch", "save", "attach"}, net : {"sent", "ok", "failed"},
             arg : Form, old : {NoKey}, answer : {NoView}]

(* A form was opened before now, and an open one holds nothing that was
   typed into an earlier opening or seeded from another record; a board form
   was emptied when it closed.                                             *)
FormShape(k) ==
  /\ forms[k].open =>
       /\ forms[k].opening < started
       /\ forms[k].typed \in {Untyped, forms[k].opening}
       /\ forms[k].seed = forms[k].record \/ (k = "editEpic" /\ crossed)
  /\ ~forms[k].open =>
       /\ k \in {"createBoard", "editBoard"} => forms[k].typed = Untyped
       /\ k = "editBoard" => forms[k].seed = NoKey
  /\ k = "createBoard" => forms[k].seed = NoKey

SaveShape(c) ==
  /\ c \in SaveCall
  /\ c.n < started
  /\ c.phase = "fetch" => c.op = "editEpic"
  /\ Writing(c) =>
       /\ c.arg.opening < started
       /\ c.arg.seed = c.key \/ (c.op = "editEpic" /\ crossed)
       /\ c.arg.typed \in {Untyped, c.arg.opening}

(* The saving flag of a form is that of its present owner: only the story
   form is mounted anew each time.                                         *)
Owner(c) == c.op # "createStory" \/ forms[c.op].opening = c.arg.opening
OneOwner ==
  \A c \in calls : Writing(c) /\ Owner(c) =>
    /\ saving[c.op] = TRUE
    /\ \A d \in calls : Writing(d) /\ d.op = c.op /\ Owner(d) => d = c

(* A save outlives its opening only if the user dismissed that while it was
   saving, or an answer closed it that was not its own.                    *)
Outlived ==
  \A c \in calls : Writing(c) =>
    \/ Ended(c.arg.opening)
    \/ forms[c.op].open /\ forms[c.op].opening = c.arg.opening

TypesInv ==
  /\ selected = NoProject /\ started \in 0..MaxCalls
  /\ forms \in [FormKinds -> Form] /\ saving \in [FormKinds -> BOOLEAN]

FormsInv ==
  /\ page = "forms"
  /\ TypesInv
  /\ \A k \in FormKinds : FormShape(k)
  /\ \A c \in calls : SaveShape(c)
  /\ OneOwner
  /\ Outlived
  /\ ClosesOnlyAfterEscape

-----------------------------------------------------------------------------
(* Every step preserves the invariant.                                     *)

LEMMA Numbers == Untyped \in 0..MaxCalls /\ 0 \in 0..MaxCalls
BY PageAssumption DEF Untyped

LEMMA FormsInitInv == FormsInit => FormsInv
<1> SUFFICES ASSUME FormsInit PROVE FormsInv
  OBVIOUS
<1> USE DEF FormsInit, Mount
<1>1. ShutForm \in Form
  BY PageAssumption DEF ShutForm, Form, Records, Untyped
<1>2. TypesInv
  BY <1>1, PageAssumption DEF TypesInv
<1>3. \A k \in FormKinds : FormShape(k)
  BY DEF FormShape, ShutForm
<1> QED BY <1>2, <1>3 DEF FormsInv, OneOwner, Outlived, ClosesOnlyAfterEscape

(* Nothing is ever forgotten of what ended an opening.                     *)
LEMMA EndedStays ==
  ASSUME escaped \subseteq escaped', hit \subseteq hit'
  PROVE  /\ \A n : Ended(n) => Ended(n)'
         /\ hit' = hit /\ ClosesOnlyAfterEscape => ClosesOnlyAfterEscape'
BY DEF Ended, ClosesOnlyAfterEscape

(* Opening a form while none is open: every save under way was dismissed.  *)
LEMMA FormsOpenInv ==
  ASSUME FormsInv, NEW k \in FormKinds, NEW r \in Records, OpenForm(k, r), page' = page
  PROVE  FormsInv'
<1> USE DEF FormsInv, TypesInv
<1>1. started' = started + 1 /\ started' \in 0..MaxCalls /\ started \in 0..MaxCalls
  BY PageAssumption DEF OpenForm, Start
<1> DEFINE g == IF k = "createBoard" \/ (k = "editBoard" /\ forms[k].seed = r)
                THEN [forms[k] EXCEPT !.open = TRUE, !.opening = started, !.record = r]
                ELSE Seeded(r)
<1>2. forms' = [forms EXCEPT ![k] = g]
  BY DEF OpenForm, SetForm
<1>3. ~forms[k].open /\ \A j \in FormKinds : ~forms[j].open
  BY DEF OpenForm, FormOpen
<1>4. /\ g \in Form /\ g.opening = started /\ g.open /\ g.typed = Untyped
      /\ g.seed = g.record
      /\ k = "createBoard" => g.seed = NoKey
  <2>1. CASE k = "createBoard"
    <3>1. r = NoKey
      BY <2>1 DEF OpenForm
    <3>2. forms[k].typed = Untyped /\ forms[k].seed = NoKey
      BY <1>3, <2>1 DEF FormShape
    <3> QED BY <2>1, <3>1, <3>2, <1>1 DEF Form
  <2>2. CASE k # "createBoard"
    <3>1. ~(k = "editBoard" /\ forms[k].seed = r)
      <4>1. CASE k = "editBoard"
        <5>1. r \in FormBoards
          BY <4>1 DEF OpenForm
        <5>2. forms[k].seed = NoKey
          BY <4>1, <1>3 DEF FormShape
        <5> QED BY <5>1, <5>2, FormsAssumption
      <4> QED BY <4>1
    <3>2. g = Seeded(r)
      BY <2>2, <3>1
    <3> HIDE DEF g
    <3>3. Seeded(r) \in Form
      BY <1>1, PageAssumption DEF Seeded, Form, Untyped
    <3>4. Seeded(r).open = TRUE /\ Seeded(r).opening = started /\ Seeded(r).typed = Untyped
            /\ Seeded(r).seed = r /\ Seeded(r).record = r
      BY DEF Seeded
    <3> QED BY <2>2, <3>2, <3>3, <3>4
  <2> QED BY <2>1, <2>2
<1> HIDE DEF g
<1>5. forms' \in [FormKinds -> Form]
  BY <1>2, <1>4
<1>6. saving' \in [FormKinds -> BOOLEAN]
  BY DEF OpenForm
<1>7. (\A j \in FormKinds : FormShape(j))'
  BY <1>1, <1>2, <1>3, <1>4 DEF FormShape, OpenForm, Untyped
<1>8. (\A c \in calls : SaveShape(c))'
  BY <1>1 DEF SaveShape, OpenForm, SaveCall, Form, Writing, Untyped
<1>9. \A c \in calls : c.op \in FormKinds /\ (Writing(c) => c.arg.opening \in Nat /\ c.arg.opening < started)
  BY DEF SaveShape, SaveCall, Form
<1>10. OneOwner'
  <2> SUFFICES ASSUME NEW c \in calls, Writing(c), Owner(c)'
               PROVE  /\ saving'[c.op] = TRUE
                      /\ \A d \in calls : Writing(d) /\ d.op = c.op /\ Owner(d)' => d = c
    BY DEF OneOwner, OpenForm, Writing
  <2>1. forms'[c.op].opening = IF c.op = k THEN started ELSE forms[c.op].opening
    BY <1>2, <1>4, <1>9
  <2>2. ~(c.op = k /\ k = "createStory")
    <3>1. c.arg.opening # started
      BY <1>1, <1>9
    <3> QED BY <2>1, <3>1 DEF Owner
  <2>3. saving'[c.op] = saving[c.op]
    BY <1>9, <2>2 DEF OpenForm
  <2>4. \A d \in calls : d.op = c.op => (Owner(d)' <=> Owner(d))
    BY <2>1, <2>2 DEF Owner
  <2> QED BY <2>3, <2>4 DEF OneOwner
<1>11. Outlived'
  BY <1>3, <1>9 DEF Outlived, Ended, OpenForm, Writing
<1> QED BY <1>1, <1>5, <1>6, <1>7, <1>8, <1>10, <1>11 DEF OpenForm, ClosesOnlyAfterEscape, Ended

(* An answered epic: an open form keeps its opening and its values.        *)
LEMMA FormsEditInv ==
  ASSUME FormsInv, NEW c \in calls, EditOpens(c), page' = page
  PROVE  FormsInv'
<1> USE DEF FormsInv, TypesInv
<1>0. SaveShape(c) /\ c.op = "editEpic" /\ c.op \in FormKinds /\ c.key \in Records /\ c.n \in 0..MaxCalls
        /\ c.n < started
  <2>1. SaveShape(c) /\ c.phase = "fetch"
    BY DEF EditOpens, Fetching
  <2> QED BY <2>1, PageAssumption DEF SaveShape, SaveCall, FormKinds
<1>1. calls' = calls \ {c} /\ UNCHANGED <<selected, started, saving, escaped, hit>>
  BY DEF EditOpens
<1>2. \A k \in FormKinds \ {c.op} : forms'[k] = forms[k]
  BY <1>0 DEF EditOpens, SetForm
<1>3. crossed => crossed'
  BY DEF EditOpens
<1>4. (\A d \in calls : SaveShape(d))'
  BY <1>1, <1>3 DEF SaveShape, Writing
<1>5. OneOwner'
  BY <1>0, <1>1, <1>2 DEF OneOwner, Owner, Writing, SaveShape, SaveCall
<1>6. CASE forms' = forms
  <2>1. (\A k \in FormKinds : FormShape(k))'
    BY <1>1, <1>3, <1>6 DEF FormShape, Untyped
  <2>2. Outlived'
    BY <1>1, <1>6 DEF Outlived, Ended, Writing
  <2> QED BY <1>1, <1>4, <1>5, <1>6, <2>1, <2>2 DEF ClosesOnlyAfterEscape, Ended
<1>7. CASE c.net # "failed" /\ forms[c.op].open
  <2> DEFINE f == [forms[c.op] EXCEPT !.record = c.key]
  <2>1. forms' = [forms EXCEPT ![c.op] = f] /\ crossed' = (crossed \/ forms[c.op].record # c.key)
    BY <1>7 DEF EditOpens, SetForm
  <2>2. f \in Form /\ f.open = forms[c.op].open /\ f.opening = forms[c.op].opening /\ f.typed = forms[c.op].typed
          /\ f.seed = forms[c.op].seed /\ f.record = c.key
    BY <1>0 DEF Form
  <2> HIDE DEF f
  <2>3. forms' \in [FormKinds -> Form] /\ forms'[c.op] = f
    BY <1>0, <2>1, <2>2
  <2>4. (\A k \in FormKinds : FormShape(k))'
    <3>1. ASSUME NEW k \in FormKinds, k # c.op PROVE FormShape(k)'
      BY <1>1, <1>2, <1>3, <3>1 DEF FormShape, Untyped
    <3>2. f.seed = f.record \/ crossed'
      BY <1>0, <1>7, <2>1, <2>2 DEF FormShape
    <3>3. FormShape("editEpic")'
      BY <1>0, <1>1, <1>7, <2>2, <2>3, <3>2 DEF FormShape, Untyped
    <3> QED BY <1>0, <3>1, <3>3
  <2>5. \A k \in FormKinds : forms'[k].open = forms[k].open /\ forms'[k].opening = forms[k].opening
    BY <1>2, <2>2, <2>3
  <2>6. Outlived'
    BY <1>1, <2>5 DEF Outlived, Ended, Writing, SaveShape, SaveCall
  <2> QED BY <1>1, <1>4, <1>5, <2>3, <2>4, <2>6 DEF ClosesOnlyAfterEscape, Ended
<1>8. CASE c.net # "failed" /\ ~forms[c.op].open
  <2> DEFINE f == [Seeded(c.key) EXCEPT !.opening = c.n]
  <2>1. forms' = [forms EXCEPT ![c.op] = f]
    BY <1>8 DEF EditOpens, SetForm
  <2>2. f \in Form /\ f.open = TRUE /\ f.opening = c.n /\ f.typed = Untyped /\ f.seed = c.key /\ f.record = c.key
    BY <1>0, Numbers DEF Form, Seeded
  <2> HIDE DEF f
  <2>3. forms' \in [FormKinds -> Form] /\ forms'[c.op] = f
    BY <1>0, <2>1, <2>2
  <2>4. (\A k \in FormKinds : FormShape(k))'
    <3>1. ASSUME NEW k \in FormKinds, k # c.op PROVE FormShape(k)'
      BY <1>1, <1>2, <1>3, <3>1 DEF FormShape, Untyped
    <3>2. FormShape("editEpic")'
      BY <1>0, <1>1, <2>2, <2>3 DEF FormShape, Untyped
    <3> QED BY <1>0, <3>1, <3>2
  <2>5. Outlived'
    BY <1>1, <1>2, <1>8 DEF Outlived, Ended, Writing, SaveShape, SaveCall
  <2> QED BY <1>1, <1>4, <1>5, <2>3, <2>4, <2>5 DEF ClosesOnlyAfterEscape, Ended
<1> QED BY <1>6, <1>7, <1>8 DEF EditOpens

(* The steps that change one form without opening it.                      *)
LEMMA FormsDraftInv ==
  ASSUME FormsInv, page' = page, HandleDiscard \/ \E k \in FormKinds : TypeIn(k)
  PROVE  FormsInv'
<1> USE DEF FormsInv, TypesInv
<1>1. PICK k \in FormOpen : \E t \in {Untyped, forms[k].opening} :
        forms' = [forms EXCEPT ![k] = [forms[k] EXCEPT !.typed = t]] /\ UNCHANGED <<pageVars, saving, escaped, hit, crossed>>
  BY DEF HandleDiscard, TypeIn, SetForm
<1>10. PICK t \in {Untyped, forms[k].opening} :
        forms' = [forms EXCEPT ![k] = [forms[k] EXCEPT !.typed = t]] /\ UNCHANGED <<pageVars, saving, escaped, hit, crossed>>
  BY <1>1
<1> DEFINE f == [forms[k] EXCEPT !.typed = t]
<1>2. k \in FormKinds /\ forms[k].open
  BY DEF FormOpen
<1>3. f \in Form /\ f.open = forms[k].open /\ f.opening = forms[k].opening /\ f.typed = t
        /\ f.seed = forms[k].seed /\ f.record = forms[k].record
  BY <1>2, Numbers DEF Form
<1>4. forms' = [forms EXCEPT ![k] = f]
  BY <1>10
<1> HIDE DEF f
<1>5. forms' \in [FormKinds -> Form] /\ forms'[k] = f /\ \A j \in FormKinds \ {k} : forms'[j] = forms[j]
  BY <1>2, <1>3, <1>4
<1>6. (\A j \in FormKinds : FormShape(j))'
  BY <1>1, <1>2, <1>3, <1>5 DEF FormShape, Untyped, pageVars
<1>7. (\A c \in calls : SaveShape(c))'
  BY <1>1 DEF SaveShape, Writing, pageVars
<1>8. \A j \in FormKinds : forms'[j].open = forms[j].open /\ forms'[j].opening = forms[j].opening
  BY <1>3, <1>5
<1>9. OneOwner' /\ Outlived'
  BY <1>1, <1>8 DEF OneOwner, Owner, Outlived, Ended, Writing, SaveShape, SaveCall, pageVars
<1> QED BY <1>1, <1>5, <1>6, <1>7, <1>9 DEF pageVars, ClosesOnlyAfterEscape, Ended

(* A closed form keeps its opening.                                        *)
LEMMA ShutForms ==
  ASSUME FormsInv, NEW k \in FormKinds, forms' = [forms EXCEPT ![k] = Shut(k)],
         UNCHANGED <<started, crossed>>
  PROVE  /\ forms' \in [FormKinds -> Form] /\ (\A j \in FormKinds : FormShape(j))'
         /\ \A j \in FormKinds : forms'[j].opening = forms[j].opening
         /\ \A j \in FormKinds \ {k} : forms'[j] = forms[j]
<1> USE DEF FormsInv, TypesInv
<1> DEFINE f == Shut(k)
<1>1. /\ f \in Form /\ f.open = FALSE /\ f.opening = forms[k].opening
      /\ k \in {"createBoard", "editBoard"} => f.typed = Untyped
      /\ k = "editBoard" => f.seed = NoKey
      /\ k = "createBoard" => f.seed = forms[k].seed
  <2>1. CASE k = "createBoard"
    BY <2>1, Numbers DEF Shut, Form
  <2>2. CASE k = "editBoard"
    BY <2>2, Numbers DEF Shut, Form, Records
  <2>3. CASE k \notin {"createBoard", "editBoard"}
    BY <2>3, PageAssumption DEF Shut, Form
  <2> QED BY <2>1, <2>2, <2>3
<1>2. forms'[k] = f /\ \A j \in FormKinds \ {k} : forms'[j] = forms[j]
  OBVIOUS
<1> HIDE DEF f
<1>3. forms' \in [FormKinds -> Form]
  BY <1>1, <1>2
<1>4. (\A j \in FormKinds : FormShape(j))'
  BY <1>1, <1>2 DEF FormShape, Untyped
<1> QED BY <1>1, <1>2, <1>3, <1>4

LEMMA FormsCloseInv ==
  ASSUME FormsInv, NEW k \in FormKinds, CloseForm(k), page' = page
  PROVE  FormsInv'
<1> USE DEF FormsInv, TypesInv
<1>1. /\ forms' \in [FormKinds -> Form] /\ (\A j \in FormKinds : FormShape(j))'
      /\ \A j \in FormKinds : forms'[j].opening = forms[j].opening
      /\ \A j \in FormKinds \ {k} : forms'[j] = forms[j]
  BY ShutForms DEF CloseForm, SetForm, pageVars
<1>2. (\A c \in calls : SaveShape(c))'
  BY DEF SaveShape, Writing, CloseForm, pageVars
<1>3. OneOwner'
  BY <1>1 DEF OneOwner, Owner, Writing, SaveShape, SaveCall, CloseForm, pageVars
<1>4. escaped \subseteq escaped' /\ (saving[k] => forms[k].opening \in escaped') /\ hit' = hit
  BY DEF CloseForm
<1>6. (\A n : Ended(n) => Ended(n)') /\ ClosesOnlyAfterEscape'
  BY <1>4, EndedStays
<1>5. Outlived'
  <2> SUFFICES ASSUME NEW c \in calls, Writing(c), ~Ended(c.arg.opening)'
               PROVE  forms'[c.op].open /\ forms'[c.op].opening = c.arg.opening
    BY DEF Outlived, Writing, CloseForm, pageVars
  <2>1. forms[c.op].open /\ forms[c.op].opening = c.arg.opening
    BY <1>6 DEF Outlived
  <2>2. saving[c.op] = TRUE /\ c.op \in FormKinds
    BY <2>1 DEF OneOwner, Owner, SaveShape, SaveCall
  <2>3. c.op # k
    BY <1>4, <2>1, <2>2 DEF Ended
  <2> QED BY <1>1, <2>1, <2>2, <2>3
<1> QED BY <1>1, <1>2, <1>3, <1>5, <1>6 DEF CloseForm, pageVars

LEMMA FormsSubmitInv ==
  ASSUME FormsInv, NEW k \in FormKinds, SubmitForm(k), page' = page
  PROVE  FormsInv'
<1> USE DEF FormsInv, TypesInv
<1>0. PICK d : d = NewCall(k, forms[k].record, selected, "save", forms[k], NoKey)
  OBVIOUS
<1>1. calls' = calls \cup {d} /\ saving' = [saving EXCEPT ![k] = TRUE]
        /\ UNCHANGED <<selected, forms, escaped, hit, crossed>>
  BY <1>0 DEF SubmitForm
<1>2. started' = started + 1 /\ started' \in 0..MaxCalls
  BY PageAssumption DEF SubmitForm, Start
<1>3. forms[k].open /\ FormShape(k) /\ forms[k] \in Form /\ saving[k] = FALSE
  BY DEF SubmitForm, FormOpen
<1>4. d \in SaveCall /\ d.op = k /\ Writing(d) /\ d.arg = forms[k] /\ d.key = forms[k].record /\ d.n = started
        /\ d.phase = "save"
  BY <1>0, <1>3, PageAssumption DEF NewCall, SaveCall, Writing, Form
<1>5. \A c \in calls : c.n < started /\ c.n \in Nat /\ (Writing(c) => c.arg.opening \in Nat /\ c.arg.opening < started)
  BY DEF SaveShape, SaveCall, Form
<1>6. (\A j \in FormKinds : FormShape(j))'
  BY <1>1, <1>2 DEF FormShape, Untyped, Form
<1>7. (\A c \in calls : SaveShape(c))'
  <2>1. ASSUME NEW c \in calls PROVE SaveShape(c)'
    BY <1>1, <1>2, <1>5 DEF SaveShape, Writing, Untyped
  <2>2. SaveShape(d)'
    BY <1>1, <1>2, <1>3, <1>4, PageAssumption DEF SaveShape, FormShape, Form, Untyped, Writing
  <2> QED BY <1>1, <2>1, <2>2
<1>8. \A c \in calls : Writing(c) /\ Owner(c) => c.op # k
  BY <1>3 DEF OneOwner
<1>9. OneOwner'
  <2>1. Owner(d)' /\ saving'[k] = TRUE
    BY <1>1, <1>4 DEF Owner
  <2>2. \A c \in calls : (Owner(c)' <=> Owner(c)) /\ (Writing(c)' <=> Writing(c))
    BY <1>1 DEF Owner, Writing
  <2> QED BY <1>1, <1>4, <1>8, <2>1, <2>2 DEF OneOwner, Writing
<1>10. Outlived'
  BY <1>1, <1>3, <1>4 DEF Outlived, Ended, Writing
<1> QED BY <1>1, <1>2, <1>6, <1>7, <1>9, <1>10 DEF ClosesOnlyAfterEscape, Ended

(* An answer on its way, or the next request of a story's creation.        *)
LEMMA FormsNetInv ==
  ASSUME FormsInv, NEW c \in calls, FormFetchAnswered(c) \/ FormWriteAnswered(c) \/ StoryCreated(c), page' = page
  PROVE  FormsInv'
<1> USE DEF FormsInv, TypesInv
<1>1. SaveShape(c)
  OBVIOUS
<1>2. PICK d : /\ Replace(c, d) /\ SaveShape(d)
               /\ d.op = c.op /\ d.arg = c.arg /\ (Writing(d) <=> Writing(c))
  <2>1. ASSUME NEW net \in {"ok", "failed"}, Answered(c, net, NoView)
        PROVE  \E d : /\ Replace(c, d) /\ SaveShape(d)
                      /\ d.op = c.op /\ d.arg = c.arg /\ (Writing(d) <=> Writing(c))
    <3> DEFINE d == [c EXCEPT !.net = net, !.answer = NoView]
    <3>1. Replace(c, d)
      BY <2>1 DEF Answered
    <3>2. d \in SaveCall /\ d.op = c.op /\ d.arg = c.arg /\ d.phase = c.phase /\ d.n = c.n /\ d.key = c.key
      BY <1>1 DEF SaveShape, SaveCall
    <3> HIDE DEF d
    <3>3. SaveShape(d)
      BY <1>1, <3>2 DEF SaveShape, Writing
    <3> QED BY <3>1, <3>2, <3>3 DEF Writing
  <2>2. ASSUME StoryCreated(c)
        PROVE  \E d : /\ Replace(c, d) /\ SaveShape(d)
                      /\ d.op = c.op /\ d.arg = c.arg /\ (Writing(d) <=> Writing(c))
    <3> DEFINE d == Advance(c, "attach")
    <3>1. Replace(c, d)
      BY <2>2 DEF StoryCreated, Await
    <3>2. d \in SaveCall /\ d.op = c.op /\ d.arg = c.arg /\ d.phase = "attach" /\ d.n = c.n /\ d.key = c.key
      BY <1>1 DEF SaveShape, SaveCall, Advance
    <3>3. c.phase = "save"
      BY <2>2 DEF StoryCreated
    <3> HIDE DEF d
    <3>4. SaveShape(d)
      BY <1>1, <3>2, <3>3 DEF SaveShape, Writing
    <3> QED BY <3>1, <3>2, <3>3, <3>4 DEF Writing
  <2> QED BY <2>1, <2>2 DEF FormFetchAnswered, FormWriteAnswered
<1>3. UNCHANGED <<selected, started, forms, saving, escaped, hit, crossed>>
  BY DEF FormFetchAnswered, FormWriteAnswered, StoryCreated
<1>4. calls' = (calls \ {c}) \cup {d}
  BY <1>2 DEF Replace
<1>5. (\A k \in FormKinds : FormShape(k))' /\ (\A x \in calls : SaveShape(x))'
  BY <1>2, <1>3, <1>4 DEF FormShape, SaveShape, Untyped, Writing
<1>6. Owner(d) <=> Owner(c)
  BY <1>2 DEF Owner
<1>7. OneOwner'
  <2>1. \A x : (Owner(x)' <=> Owner(x)) /\ (Writing(x)' <=> Writing(x))
    BY <1>3 DEF Owner, Writing
  <2> QED BY <1>2, <1>3, <1>4, <1>6, <2>1 DEF OneOwner
<1>8. Outlived'
  BY <1>2, <1>3, <1>4 DEF Outlived, Ended, Writing
<1> QED BY <1>3, <1>5, <1>7, <1>8 DEF ClosesOnlyAfterEscape, Ended

(* A save ends: it takes its flag along, unless its form is gone.          *)
LEMMA FormsEndsInv ==
  ASSUME FormsInv, NEW c \in calls, Writing(c), SaveEnds(c),
         \A k \in FormKinds : forms'[k].opening = forms[k].opening
  PROVE  OneOwner' /\ saving' \in [FormKinds -> BOOLEAN]
<1> USE DEF FormsInv, TypesInv
<1>1. c.op \in FormKinds /\ \A d \in calls : d.op \in FormKinds
  BY DEF SaveShape, SaveCall
<1>2. calls' = calls \ {c}
  BY DEF SaveEnds
<1>3. \A d \in calls : (Owner(d)' <=> Owner(d)) /\ (Writing(d)' <=> Writing(d))
  BY <1>1 DEF Owner, Writing
<1>4. CASE Owner(c)
  <2>1. saving' = [saving EXCEPT ![c.op] = FALSE]
    BY <1>4 DEF SaveEnds, Owner
  <2>2. \A d \in calls \ {c} : Writing(d) /\ Owner(d) => d.op # c.op
    BY <1>4 DEF OneOwner
  <2>3. \A d \in calls \ {c} : Writing(d) /\ Owner(d) => saving'[d.op] = saving[d.op]
    BY <1>1, <2>1, <2>2
  <2> QED BY <1>2, <1>3, <2>1, <2>3 DEF OneOwner
<1>5. CASE ~Owner(c)
  <2>1. saving' = saving
    BY <1>5 DEF SaveEnds, Owner
  <2> QED BY <1>2, <1>3, <2>1 DEF OneOwner
<1> QED BY <1>4, <1>5

LEMMA FormsFailedInv ==
  ASSUME FormsInv, NEW c \in calls, SaveFailed(c), page' = page
  PROVE  FormsInv'
<1> USE DEF FormsInv, TypesInv
<1>1. UNCHANGED <<selected, started, forms, escaped, hit, crossed>> /\ calls' = calls \ {c} /\ Writing(c)
  BY DEF SaveFailed, SaveEnds
<1>2. OneOwner' /\ saving' \in [FormKinds -> BOOLEAN]
  BY <1>1, FormsEndsInv DEF SaveFailed
<1>3. (\A k \in FormKinds : FormShape(k))' /\ (\A x \in calls : SaveShape(x))'
  BY <1>1 DEF FormShape, SaveShape, Untyped, Writing
<1>4. Outlived'
  BY <1>1 DEF Outlived, Ended, Writing
<1> QED BY <1>1, <1>2, <1>3, <1>4 DEF ClosesOnlyAfterEscape, Ended

(* A save is done: if it closes an opening that is not its own, its own had
   ended, and so has the other one now.                                    *)
LEMMA FormsDoneInv ==
  ASSUME FormsInv, NEW c \in calls, SaveDone(c), page' = page
  PROVE  FormsInv'
<1> USE DEF FormsInv, TypesInv
<1>1. UNCHANGED <<selected, started, crossed>> /\ calls' = calls \ {c} /\ Writing(c)
  BY DEF SaveDone, SaveEnds, Writing
<1>2. c.op \in FormKinds /\ \A d \in calls : d.op \in FormKinds
  BY DEF SaveShape, SaveCall
<1>3. /\ forms' \in [FormKinds -> Form] /\ (\A j \in FormKinds : FormShape(j))'
      /\ \A j \in FormKinds : forms'[j].opening = forms[j].opening
      /\ \A j \in FormKinds \ {c.op} : forms'[j] = forms[j]
  BY <1>2, ShutForms DEF SaveDone, SetForm
<1>4. OneOwner' /\ saving' \in [FormKinds -> BOOLEAN]
  BY <1>1, <1>3, FormsEndsInv DEF SaveDone
<1>5. (\A x \in calls : SaveShape(x))'
  BY <1>1 DEF SaveShape, Writing
<1>6. /\ escaped' = escaped /\ hit \subseteq hit'
      /\ \A h \in hit' \ hit : h.by = c.arg.opening /\ forms[c.op].open /\ forms[c.op].opening # c.arg.opening
  BY DEF SaveDone
<1>9. \A n : Ended(n) => Ended(n)'
  BY <1>6, EndedStays
<1>7. ClosesOnlyAfterEscape'
  <2>1. ASSUME NEW h \in hit' PROVE Ended(h.by)'
    <3>1. Ended(h.by)
      BY <1>1, <1>6 DEF Outlived, ClosesOnlyAfterEscape
    <3> QED BY <1>9, <3>1
  <2>2. hit' # {} => escaped # {}
    BY <1>1, <1>6 DEF Outlived, ClosesOnlyAfterEscape, Ended
  <2> QED BY <1>6, <2>1, <2>2 DEF ClosesOnlyAfterEscape, Ended
<1>8. Outlived'
  <2> SUFFICES ASSUME NEW d \in calls \ {c}, Writing(d), ~Ended(d.arg.opening)'
               PROVE  forms'[d.op].open /\ forms'[d.op].opening = d.arg.opening
    BY <1>1 DEF Outlived, Writing
  <2>1. forms[d.op].open /\ forms[d.op].opening = d.arg.opening
    BY <1>9 DEF Outlived
  <2>2. Owner(d) /\ saving[d.op] = TRUE
    BY <2>1 DEF OneOwner, Owner
  <2>3. d.op # c.op
    <3> SUFFICES ASSUME d.op = c.op PROVE FALSE
      OBVIOUS
    <3>1. ~Owner(c)
      BY <1>1, <2>2 DEF OneOwner
    <3>2. forms[c.op].opening # c.arg.opening
      BY <3>1 DEF Owner
    <3>3. hit' = hit \cup {[by |-> c.arg.opening, closed |-> forms[c.op].opening]}
      BY <2>1, <3>2 DEF SaveDone
    <3>4. PICK h \in hit' : h = [by |-> c.arg.opening, closed |-> forms[c.op].opening]
      BY <3>3
    <3>5. h.closed = d.arg.opening
      BY <2>1, <3>4
    <3> QED BY <3>4, <3>5 DEF Ended
  <2> QED BY <1>2, <1>3, <2>1, <2>3
<1> QED BY <1>1, <1>3, <1>4, <1>5, <1>7, <1>8

LEMMA FormsNextInv == FormsInv /\ [FormsNext]_formVars => FormsInv'
<1> SUFFICES ASSUME FormsInv, [FormsNext]_formVars PROVE FormsInv'
  OBVIOUS
<1>1. CASE UNCHANGED formVars
  <2> USE <1>1 DEF formVars, pageVars
  <2>1. (\A k \in FormKinds : FormShape(k))' /\ (\A x \in calls : SaveShape(x))'
    BY DEF FormsInv, FormShape, SaveShape, Untyped, Writing
  <2>2. OneOwner' /\ Outlived' /\ TypesInv'
    BY DEF FormsInv, OneOwner, Owner, Outlived, Ended, Writing, TypesInv
  <2> QED BY <2>1, <2>2 DEF FormsInv, ClosesOnlyAfterEscape, Ended
<1>2. CASE FormsNext
  <2>1. page' = page
    BY <1>2 DEF FormsNext, Mounted
  <2>2. ASSUME NEW r \in FormEpics, HandleEditEpic(r) PROVE FormsInv'
    <3> DEFINE d == NewCall("editEpic", r, selected, "fetch", ShutForm, NoKey)
    <3> USE DEF FormsInv, TypesInv
    <3>1. calls' = calls \cup {d} /\ UNCHANGED <<selected, forms, saving, escaped, hit, crossed>>
            /\ started' = started + 1 /\ started' \in 0..MaxCalls
      BY <2>2, PageAssumption DEF HandleEditEpic, Start
    <3>2. d \in SaveCall /\ ~Writing(d) /\ d.n = started /\ d.phase = "fetch" /\ d.op = "editEpic"
      BY PageAssumption DEF NewCall, SaveCall, Writing, Form, ShutForm, Records, FormKinds, Untyped
    <3> HIDE DEF d
    <3>3. \A c \in calls : c.n < started /\ c.n \in Nat /\ (Writing(c) => c.arg.opening \in Nat /\ c.arg.opening < started)
      BY DEF SaveShape, SaveCall, Form
    <3>4. (\A k \in FormKinds : FormShape(k))'
      BY <3>1 DEF FormShape, Untyped, Form
    <3>5. (\A c \in calls : SaveShape(c))'
      BY <3>1, <3>2, <3>3 DEF SaveShape, Writing, Untyped
    <3>6. OneOwner'
      <4>1. \A x : (Owner(x)' <=> Owner(x)) /\ (Writing(x)' <=> Writing(x))
        BY <3>1 DEF Owner, Writing
      <4> QED BY <3>1, <3>2, <4>1 DEF OneOwner
    <3>7. Outlived'
      BY <3>1, <3>2 DEF Outlived, Ended, Writing
    <3> QED BY <2>1, <3>1, <3>4, <3>5, <3>6, <3>7 DEF ClosesOnlyAfterEscape, Ended
  <2> QED
    BY <1>2, <2>1, <2>2, FormsOpenInv, FormsDraftInv, FormsCloseInv, FormsSubmitInv, FormsEditInv, FormsNetInv, FormsDoneInv, FormsFailedInv
    DEF FormsNext, FormsUser, FormsAnswers
<1> QED BY <1>1, <1>2

-----------------------------------------------------------------------------
(* What the forms promise.                                                 *)

(* The inductive invariant of the form dialogs, for any number of openings
   and saves (the five dialogs of components/planning and backlog).        *)
THEOREM FormsInvariance == FormsSpec => []FormsInv
<1>1. FormsInit => FormsInv
  BY FormsInitInv
<1>2. FormsInv /\ [FormsNext]_formVars => FormsInv'
  BY FormsNextInv
<1> QED BY <1>1, <1>2, PTL DEF FormsSpec

(* A save never carries a draft that was dismissed, nor, unless the epic form
   was shown another epic while open, the values of another record (the
   seeding effects of the dialogs).                                        *)
THEOREM DraftsMatchRecords == FormsSpec => []SavesWhatItOpened
<1>1. FormsInv => SavesWhatItOpened
  BY DEF FormsInv, SaveShape, SavesWhatItOpened
<1> QED BY <1>1, FormsInvariance, PTL

(* An answer closes an opening that is not its own only if the opening it was
   saved from had ended: dismissed by the user while it was saving, or closed
   by an answer not its own; and only if the user dismissed some form while it
   was saving (handleOpenChange and the onSuccess of each dialog).         *)
THEOREM LateAnswersWereDismissed == FormsSpec => []ClosesOnlyAfterEscape
<1>1. FormsInv => ClosesOnlyAfterEscape
  BY DEF FormsInv
<1> QED BY <1>1, FormsInvariance, PTL

-----------------------------------------------------------------------------
(* The types of the forms.  What a form says of the server is a matter of
   counting: a story's creation adds a story without a backlog before it
   takes one away, however many creations overlap and however many of their
   answers are lost.                                                       *)

(* A creation under way that has made its story and not yet attached it.   *)
Owing(c) ==
  /\ c.op = "createStory"
  /\ (c.phase = "save" /\ c.net = "ok") \/ (c.phase = "attach" /\ c.net = "sent")
OwedStories == {c \in calls : Owing(c)}

Promised == IsFiniteSet(OwedStories) /\ srv.orphans \in Int /\ Cardinality(OwedStories) <= srv.orphans

(* A story is created for no record.                                       *)
StoryForms ==
  /\ forms["createStory"].record = NoKey
  /\ \A c \in calls : c.op = "createStory" => c.key = NoKey

FormServerTypes ==
  /\ srv = [orphans |-> srv.orphans, values |-> srv.values]
  /\ srv.values \in [FormEpics \cup FormBoards -> Records]

EndsTypes ==
  /\ escaped \subseteq 0..MaxCalls /\ hit \subseteq [by : 0..MaxCalls, closed : 0..MaxCalls]
  /\ crossed \in BOOLEAN

FormScreenTypes == view = NoView /\ pending = {} /\ EndsTypes

FormTypes == FormServerTypes /\ FormScreenTypes /\ Promised /\ StoryForms

LEMMA FormTypesStart == FormsInit => FormTypes
<1> SUFFICES ASSUME FormsInit PROVE FormTypes
  OBVIOUS
<1>1. OwedStories = {}
  BY DEF FormsInit, OwedStories
<1>2. IsFiniteSet(OwedStories) /\ Cardinality(OwedStories) = 0
  BY <1>1, FS_EmptySet
<1>3. Promised
  <2>1. srv.orphans = 0
    BY DEF FormsInit
  <2> QED BY <1>2, <2>1 DEF Promised
<1>4. FormServerTypes
  <2>1. [r \in FormEpics \cup FormBoards |-> r] \in [FormEpics \cup FormBoards -> Records]
    BY DEF Records
  <2> QED BY <2>1 DEF FormsInit, FormServerTypes
<1>5. StoryForms
  BY DEF FormsInit, StoryForms, FormKinds, ShutForm
<1>6. FormScreenTypes
  BY DEF FormsInit, Mount, FormScreenTypes, EndsTypes
<1> QED BY <1>3, <1>4, <1>5, <1>6 DEF FormTypes

(* A step in which no creation makes or attaches its story.                *)
LEMMA OwedShrinks ==
  ASSUME Promised, OwedStories' \subseteq OwedStories, UNCHANGED srv PROVE Promised'
<1>1. IsFiniteSet(OwedStories') /\ Cardinality(OwedStories') <= Cardinality(OwedStories)
  BY FS_Subset DEF Promised
<1>2. Cardinality(OwedStories') \in Nat /\ Cardinality(OwedStories) \in Nat
  BY <1>1, FS_CardinalityType DEF Promised
<1> QED BY <1>1, <1>2 DEF Promised

LEMMA QuietOwed ==
  ASSUME Promised, UNCHANGED srv, \A c \in calls' : c \in calls \/ ~Owing(c) PROVE Promised'
<1>1. OwedStories' \subseteq OwedStories
  BY DEF OwedStories, Owing
<1> QED BY <1>1, OwedShrinks

(* A creation makes its story, goes on to attach it, or attaches it.       *)
LEMMA OwedMoves ==
  ASSUME Promised, NEW c \in calls, NEW d, calls' = (calls \ {c}) \cup {d}, srv'.orphans \in Int,
         \/ srv'.orphans = srv.orphans + 1
         \/ srv'.orphans = srv.orphans /\ Owing(c)
         \/ srv'.orphans = srv.orphans - 1 /\ Owing(c) /\ ~Owing(d)
  PROVE  Promised'
<1> DEFINE rest == OwedStories \ {c}
<1>1. IsFiniteSet(rest) /\ Cardinality(rest) = IF c \in OwedStories THEN Cardinality(OwedStories) - 1 ELSE Cardinality(OwedStories)
  BY FS_RemoveElement DEF Promised
<1>2. IsFiniteSet(rest \cup {d}) /\ Cardinality(rest \cup {d}) = IF d \in rest THEN Cardinality(rest) ELSE Cardinality(rest) + 1
  BY <1>1, FS_AddElement
<1>3. OwedStories' \subseteq rest \cup {d} /\ (~Owing(d) => OwedStories' \subseteq rest)
  BY DEF OwedStories, Owing
<1>4. Owing(c) => c \in OwedStories
  BY DEF OwedStories
<1>5. Cardinality(OwedStories) \in Nat /\ Cardinality(rest) \in Nat /\ Cardinality(rest \cup {d}) \in Nat
  BY <1>1, <1>2, FS_CardinalityType DEF Promised
<1> HIDE DEF rest
<1>6. /\ IsFiniteSet(OwedStories') /\ Cardinality(OwedStories') <= Cardinality(rest \cup {d})
      /\ ~Owing(d) => Cardinality(OwedStories') <= Cardinality(rest)
  BY <1>1, <1>2, <1>3, FS_Subset
<1>7. Cardinality(OwedStories') \in Nat
  BY <1>6, FS_CardinalityType
<1>8. Cardinality(OwedStories') <= srv'.orphans
  BY <1>1, <1>2, <1>4, <1>5, <1>6, <1>7 DEF Promised
<1> QED BY <1>6, <1>8 DEF Promised

(* A save that is made.                                                    *)
LEMMA FormWriteTypes ==
  ASSUME FormsInv, FormTypes, NEW c \in calls, Write(c)
  PROVE  /\ FormServerTypes' /\ srv'.orphans \in Int
         /\ c.op # "createStory" => srv'.orphans = srv.orphans
         /\ c.op = "createStory" /\ c.phase = "save" => srv'.orphans = srv.orphans + 1
         /\ c.op = "createStory" /\ c.phase = "attach" => srv'.orphans = srv.orphans - 1
<1>1. c.key \in Records /\ c.arg.seed \in Records /\ srv.orphans \in Int /\ (c.op = "createStory" => c.key = NoKey)
  BY DEF FormsInv, SaveShape, SaveCall, Form, FormTypes, Promised, StoryForms
<1>2. CASE c.key # NoKey
  <2>1. PICK values : values = [srv.values EXCEPT ![c.key] = c.arg.seed]
    OBVIOUS
  <2>2. values \in [FormEpics \cup FormBoards -> Records]
    BY <1>1, <2>1 DEF FormTypes, FormServerTypes
  <2>3. srv' = [srv EXCEPT !.values = values]
    BY <1>2, <2>1 DEF Write, FormTypes, FormServerTypes
  <2>4. srv' = [orphans |-> srv.orphans, values |-> values]
    BY <2>3 DEF FormTypes, FormServerTypes
  <2>5. srv'.orphans = srv.orphans /\ srv'.values = values
    BY <2>4
  <2>6. FormServerTypes'
    BY <2>2, <2>4, <2>5 DEF FormServerTypes
  <2> QED BY <1>1, <1>2, <2>5, <2>6
<1>3. ASSUME NEW n \in Int, srv' = [srv EXCEPT !.orphans = n] PROVE FormServerTypes' /\ srv'.orphans = n
  <2>1. srv' = [orphans |-> n, values |-> srv.values]
    BY <1>3 DEF FormTypes, FormServerTypes
  <2>2. srv'.orphans = n /\ srv'.values = srv.values
    BY <2>1
  <2> QED BY <2>1, <2>2 DEF FormTypes, FormServerTypes
<1>4. CASE c.op = "createStory" /\ c.phase = "save" /\ c.key = NoKey
  <2>1. PICK n \in Int : n = srv.orphans + 1
    BY <1>1
  <2>2. srv' = [srv EXCEPT !.orphans = n]
    BY <1>4, <2>1 DEF Write
  <2>3. FormServerTypes' /\ srv'.orphans = n
    BY <1>3, <2>2
  <2> QED BY <1>4, <2>1, <2>3
<1>5. CASE c.op = "createStory" /\ c.phase = "attach" /\ c.key = NoKey
  <2>1. PICK n \in Int : n = srv.orphans - 1
    BY <1>1
  <2>2. srv' = [srv EXCEPT !.orphans = n]
    BY <1>5, <2>1 DEF Write
  <2>3. FormServerTypes' /\ srv'.orphans = n
    BY <1>3, <2>2
  <2> QED BY <1>5, <2>1, <2>3
<1>6. CASE c.key = NoKey /\ ~(c.op = "createStory" /\ c.phase \in {"save", "attach"})
  <2>1. srv' = srv
    BY <1>6 DEF Write
  <2> QED BY <1>1, <1>6, <2>1 DEF FormTypes, FormServerTypes
<1> QED BY <1>1, <1>2, <1>4, <1>5, <1>6

(* An answer that leaves the rest of the page alone.                       *)
LEMMA NetTypes ==
  ASSUME FormsInv, FormTypes, NEW c \in calls, FormFetchAnswered(c) \/ FormWriteAnswered(c) \/ StoryCreated(c)
  PROVE  FormTypes'
<1>1. SaveShape(c) /\ srv.orphans \in Int
  BY DEF FormsInv, FormTypes, Promised
<1>2. ASSUME NEW d, calls' = (calls \ {c}) \cup {d}, d.op = c.op, d.key = c.key
      PROVE  FormScreenTypes' /\ StoryForms'
  BY <1>2 DEF FormFetchAnswered, FormWriteAnswered, StoryCreated, FormTypes, FormScreenTypes, StoryForms, EndsTypes
<1>3. ASSUME NEW net \in {"ok", "failed"}, NEW d, d = [c EXCEPT !.net = net, !.answer = NoView]
      PROVE  d.op = c.op /\ d.key = c.key /\ d.phase = c.phase /\ d.net = net
  BY <1>1, <1>3 DEF SaveShape, SaveCall
<1>4. ASSUME NEW net \in {"ok", "failed"}, Answered(c, net, NoView), UNCHANGED srv, Fetching(c) \/ net = "failed"
      PROVE  FormTypes'
  <2>1. PICK d : d = [c EXCEPT !.net = net, !.answer = NoView]
    OBVIOUS
  <2>2. calls' = (calls \ {c}) \cup {d}
    BY <1>4, <2>1 DEF Answered, Replace
  <2>3. d.op = c.op /\ d.key = c.key /\ d.phase = c.phase /\ d.net = net
    BY <1>3, <2>1
  <2>4. ~Owing(d)
    BY <1>4, <2>3 DEF Owing, Fetching
  <2>5. Promised'
    BY <1>4, <2>2, <2>4, QuietOwed DEF FormTypes
  <2> QED BY <1>2, <1>4, <2>2, <2>3, <2>5 DEF FormTypes, FormServerTypes
<1>5. ASSUME NEW net \in {"ok", "failed"}, Answered(c, net, NoView), Write(c), Writing(c), c.net = "sent"
      PROVE  FormTypes'
  <2>1. PICK d : d = [c EXCEPT !.net = net, !.answer = NoView]
    OBVIOUS
  <2>2. calls' = (calls \ {c}) \cup {d}
    BY <1>5, <2>1 DEF Answered, Replace
  <2>3. d.op = c.op /\ d.key = c.key /\ d.phase = c.phase /\ d.net = net
    BY <1>3, <2>1
  <2>4. /\ FormServerTypes' /\ srv'.orphans \in Int
        /\ c.op # "createStory" => srv'.orphans = srv.orphans
        /\ c.op = "createStory" /\ c.phase = "save" => srv'.orphans = srv.orphans + 1
        /\ c.op = "createStory" /\ c.phase = "attach" => srv'.orphans = srv.orphans - 1
    BY <1>5, FormWriteTypes
  <2>5. Promised'
    <3>1. CASE c.op # "createStory"
      <4>1. ~Owing(d)
        BY <2>3, <3>1 DEF Owing
      <4>2. OwedStories' \subseteq OwedStories
        BY <2>2, <4>1 DEF OwedStories, Owing
      <4>3. IsFiniteSet(OwedStories') /\ Cardinality(OwedStories') <= Cardinality(OwedStories)
        BY <4>2, FS_Subset DEF FormTypes, Promised
      <4>4. Cardinality(OwedStories') \in Nat /\ Cardinality(OwedStories) \in Nat
        BY <4>3, FS_CardinalityType DEF FormTypes, Promised
      <4> QED BY <2>4, <3>1, <4>3, <4>4 DEF FormTypes, Promised
    <3>2. CASE c.op = "createStory" /\ c.phase = "save"
      <4>1. srv'.orphans = srv.orphans + 1
        BY <2>4, <3>2
      <4> QED BY <2>2, <2>4, <4>1, OwedMoves DEF FormTypes
    <3>3. CASE c.op = "createStory" /\ c.phase = "attach"
      <4>1. srv'.orphans = srv.orphans - 1
        BY <2>4, <3>3
      <4>2. Owing(c) /\ ~Owing(d)
        BY <1>5, <2>3, <3>3 DEF Owing
      <4> QED BY <2>2, <2>4, <4>1, <4>2, OwedMoves DEF FormTypes
    <3> QED BY <1>1, <1>5, <3>1, <3>2, <3>3 DEF SaveShape, SaveCall, Writing
  <2> QED BY <1>2, <2>2, <2>3, <2>4, <2>5 DEF FormTypes
<1>6. CASE StoryCreated(c)
  <2>1. PICK d : d = Advance(c, "attach")
    OBVIOUS
  <2>2. calls' = (calls \ {c}) \cup {d} /\ UNCHANGED srv
    BY <1>6, <2>1 DEF StoryCreated, Await, Replace
  <2>3. d.op = c.op /\ d.key = c.key
    BY <1>1, <2>1 DEF SaveShape, SaveCall, Advance
  <2>4. Owing(c)
    BY <1>6 DEF StoryCreated, Owing
  <2>5. Promised'
    BY <1>1, <2>2, <2>4, OwedMoves DEF FormTypes
  <2> QED BY <1>2, <2>2, <2>3, <2>5 DEF FormTypes, FormServerTypes
<1>7. CASE FormFetchAnswered(c)
  BY <1>4, <1>7 DEF FormFetchAnswered
<1>8. CASE FormWriteAnswered(c)
  BY <1>4, <1>5, <1>8 DEF FormWriteAnswered
<1> QED BY <1>6, <1>7, <1>8

(* A step that sends nothing to the server.                                *)
LEMMA FormPageTypes ==
  ASSUME FormTypes, UNCHANGED <<view, pending, srv>>, EndsTypes',
         forms'["createStory"].record = NoKey,
         \A c \in calls' : c \in calls \/ (~Owing(c) /\ (c.op = "createStory" => c.key = NoKey))
  PROVE  FormTypes'
<1>1. Promised'
  BY QuietOwed DEF FormTypes
<1> QED BY <1>1 DEF FormTypes, FormServerTypes, FormScreenTypes, StoryForms

LEMMA ShutRecord ==
  ASSUME FormsInv, NEW k \in FormKinds PROVE Shut(k).record = forms[k].record
<1>1. forms[k] \in Form
  BY DEF FormsInv, TypesInv
<1>2. CASE k = "createBoard"
  BY <1>1, <1>2 DEF Shut, Form
<1>3. CASE k = "editBoard"
  BY <1>1, <1>3 DEF Shut, Form
<1>4. CASE k \notin {"createBoard", "editBoard"}
  BY <1>1, <1>4 DEF Shut, Form
<1> QED BY <1>2, <1>3, <1>4

LEMMA FormTypesStep == FormsInv /\ FormTypes /\ [FormsNext]_formVars => FormTypes'
<1> SUFFICES ASSUME FormsInv, FormTypes, [FormsNext]_formVars PROVE FormTypes'
  OBVIOUS
<1>1. /\ EndsTypes /\ forms["createStory"].record = NoKey
      /\ "createStory" \in FormKinds /\ forms \in [FormKinds -> Form]
  BY DEF FormTypes, FormScreenTypes, StoryForms, FormsInv, TypesInv, FormKinds
<1>2. CASE UNCHANGED formVars
  BY <1>1, <1>2, FormPageTypes DEF formVars, pageVars, EndsTypes
<1>3. ASSUME NEW k \in FormKinds, NEW r \in Records, OpenForm(k, r) PROVE FormTypes'
  <2>1. PICK g : forms' = [forms EXCEPT ![k] = g] /\ (k = "createStory" => g = Seeded(r) /\ r = NoKey)
    BY <1>3 DEF OpenForm, SetForm
  <2>2. forms'["createStory"].record = NoKey
    BY <1>1, <2>1 DEF Seeded
  <2> QED BY <1>1, <1>3, <2>2, FormPageTypes DEF OpenForm, EndsTypes
<1>4. ASSUME NEW k \in FormKinds, TypeIn(k) \/ HandleDiscard PROVE FormTypes'
  <2>1. PICK j \in FormKinds : \E t : forms' = [forms EXCEPT ![j] = [forms[j] EXCEPT !.typed = t]]
    BY <1>4 DEF TypeIn, HandleDiscard, SetForm, FormOpen
  <2>2. forms'["createStory"].record = NoKey
    BY <1>1, <2>1 DEF Form
  <2> QED BY <1>1, <1>4, <2>2, FormPageTypes DEF TypeIn, HandleDiscard, pageVars, EndsTypes
<1>5. ASSUME NEW k \in FormKinds, forms' = [forms EXCEPT ![k] = Shut(k)] PROVE forms'["createStory"].record = NoKey
  BY <1>1, <1>5, ShutRecord
<1>6. ASSUME NEW k \in FormKinds, CloseForm(k) PROVE FormTypes'
  <2>1. forms'["createStory"].record = NoKey
    BY <1>5, <1>6 DEF CloseForm, SetForm
  <2>2. forms[k].opening \in 0..MaxCalls
    BY <1>1 DEF Form
  <2>3. EndsTypes'
    BY <1>1, <1>6, <2>2 DEF CloseForm, EndsTypes
  <2> QED BY <1>1, <1>6, <2>1, <2>3, FormPageTypes DEF CloseForm, pageVars
<1>7. ASSUME NEW k \in FormKinds, SubmitForm(k) PROVE FormTypes'
  <2>1. PICK d : d = NewCall(k, forms[k].record, selected, "save", forms[k], NoKey)
    OBVIOUS
  <2>2. calls' = calls \cup {d}
    BY <1>7, <2>1 DEF SubmitForm
  <2>3. ~Owing(d) /\ d.op = k /\ d.key = forms[k].record
    BY <2>1 DEF NewCall, Owing
  <2> QED BY <1>1, <1>7, <2>2, <2>3, FormPageTypes DEF SubmitForm, EndsTypes
<1>8. ASSUME NEW r \in FormEpics, HandleEditEpic(r) PROVE FormTypes'
  <2>1. PICK d : d = NewCall("editEpic", r, selected, "fetch", ShutForm, NoKey)
    OBVIOUS
  <2>2. calls' = calls \cup {d}
    BY <1>8, <2>1 DEF HandleEditEpic
  <2>3. ~Owing(d) /\ d.op # "createStory"
    BY <2>1 DEF NewCall, Owing
  <2> QED BY <1>1, <1>8, <2>2, <2>3, FormPageTypes DEF HandleEditEpic, EndsTypes
<1>9. ASSUME NEW c \in calls, EditOpens(c) PROVE FormTypes'
  <2>1. c.op = "editEpic"
    BY <1>9 DEF FormsInv, SaveShape, EditOpens, Fetching
  <2>2. forms' = forms \/ \E f : forms' = [forms EXCEPT !["editEpic"] = f]
    BY <1>9, <2>1 DEF EditOpens, SetForm
  <2>3. forms'["createStory"].record = NoKey
    BY <1>1, <2>2
  <2>4. EndsTypes'
    BY <1>1, <1>9 DEF EditOpens, EndsTypes
  <2> QED BY <1>1, <1>9, <2>3, <2>4, FormPageTypes DEF EditOpens
<1>10. ASSUME NEW c \in calls, SaveDone(c) PROVE FormTypes'
  <2>1. SaveShape(c)
    BY DEF FormsInv
  <2>2. c.op \in FormKinds /\ c.arg.opening \in 0..MaxCalls
    BY <2>1 DEF SaveShape, SaveCall, Form
  <2>3. forms'["createStory"].record = NoKey
    BY <1>5, <1>10, <2>2 DEF SaveDone, SetForm
  <2>4. forms[c.op].opening \in 0..MaxCalls
    BY <1>1, <2>2 DEF Form
  <2>5. EndsTypes'
    BY <1>1, <1>10, <2>2, <2>4 DEF SaveDone, EndsTypes
  <2> QED BY <1>1, <1>10, <2>3, <2>5, FormPageTypes DEF SaveDone, SaveEnds
<1>11. ASSUME NEW c \in calls, SaveFailed(c) PROVE FormTypes'
  BY <1>1, <1>11, FormPageTypes DEF SaveFailed, SaveEnds, EndsTypes
<1>12. CASE FormsNext
  <2>1. CASE FormsUser
    <3>1. CASE \E k \in FormKinds : TypeIn(k) \/ CloseForm(k) \/ SubmitForm(k) \/ \E r \in Records : OpenForm(k, r)
      BY <1>3, <1>4, <1>6, <1>7, <3>1
    <3>2. CASE \E r \in FormEpics : HandleEditEpic(r)
      BY <1>8, <3>2
    <3>3. CASE HandleDiscard
      BY <1>1, <1>4, <3>3
    <3> QED BY <2>1, <3>1, <3>2, <3>3 DEF FormsUser
  <2>2. CASE FormsAnswers
    BY <1>9, <1>10, <1>11, <2>2, NetTypes DEF FormsAnswers
  <2> QED BY <1>12, <2>1, <2>2 DEF FormsNext
<1> QED BY <1>2, <1>12

LEMMA FormTypesSay == FormsInv /\ FormTypes => FormsTypeOK
<1> SUFFICES ASSUME FormsInv, FormTypes PROVE FormsTypeOK
  OBVIOUS
<1>1. Cardinality(OwedStories) \in Nat
  BY FS_CardinalityType DEF FormTypes, Promised
<1>2. srv.orphans \in Nat
  BY <1>1 DEF FormTypes, Promised
<1>3. calls \subseteq SaveCall
  BY DEF FormsInv, SaveShape
<1> QED BY <1>2, <1>3 DEF FormsInv, TypesInv, FormTypes, FormServerTypes, FormScreenTypes, SaveCall, FormsTypeOK, EndsTypes

(* Types, of which one is a count: the stories on no backlog are at least the
   creations that have made their story and are about to attach it, so the
   count of them never falls below zero, whichever answers are lost
   (create-story-dialog's two requests).                                   *)
THEOREM FormsTypeCorrect == FormsSpec => []FormsTypeOK
BY FormTypesSay, FormsInvariance, FormTypesStart, FormTypesStep, PTL DEF FormsSpec
=============================================================================
