--------------------------- MODULE WritingStyles ---------------------------
(***************************************************************************)
(* The writing styles a text is polished and a report generated in, the    *)
(* templates and reports that name them, and the built-in rows an empty    *)
(* database is given by whichever route is called first.                   *)
(*                                                                         *)
(* No handler here uses a transaction: every statement is a step, and      *)
(* statements of other requests, a client that goes away and a restart of  *)
(* the server come in between.                                             *)
(***************************************************************************)
EXTENDS Naturals, FiniteSets, Sequences

CONSTANTS
  NStyles,        \* bound: ids of ai_styles (AUTOINCREMENT)
  NTemplates,     \* bound: ids of templates
  Keys,           \* keys a style can be given
  Builtin,        \* keys of the built-in styles; the first is the default one
  NoKey,
  Requests,
  MaxCalls        \* bound: calls served

ASSUME StylesAssumption ==
  /\ NStyles \in Nat /\ NTemplates \in Nat /\ MaxCalls \in Nat
  /\ Builtin \in Seq(Keys) /\ Builtin # <<>> /\ Len(Builtin) <= NStyles
  /\ \A i, j \in 1..Len(Builtin) : Builtin[i] = Builtin[j] => i = j
  /\ NoKey \notin Keys

VARIABLES
  style,          \* ai_styles
  template,       \* templates: the style each names
  override,       \* reports.ai_style_override of a report
  systemPrompts,  \* keys of system_prompts
  seeded,         \* Seeder.seeded of the server process
  untouched,      \* no style was written but by a seeding that ran to its end
  request,        \* requests between their statements
  calls           \* how many were begun

tables == <<style, template, override, systemPrompts>>
vars == <<tables, seeded, untouched, request, calls>>

Styles == 1..NStyles
Templates == 1..NTemplates
Formal == Builtin[1]
builtinSystemPrompts == <<"check", "generate">>

Style == [state : {"absent", "live", "deleted"}, key : Keys \union {NoKey}, isDefault : BOOLEAN]
Template == [state : {"absent", "live", "deleted"}, aiStyle : Keys \union {NoKey}]
Marks == {"keep", "yes", "no"}    \* isDefault of a body: absent, true, false

Request ==
  [op : {"idle", "seed", "seedForAI", "update", "clearDefaults", "setDefault", "count",
         "clearReports", "resetTemplates", "deleteStyle",
         "saveTemplate", "deleteTemplate", "cloneTemplate"},
   id : Nat, key : Keys \union {NoKey}, mark : Marks,
   row : Nat,               \* next built-in row, or rows counted
   late : SUBSET Templates] \* templates saved since it reset theirs
Idle == [op |-> "idle", id |-> 0, key |-> NoKey, mark |-> "keep", row |-> 0, late |-> {}]

LiveStyles == {s \in Styles : style[s].state = "live"}
LiveTemplates == {t \in Templates : template[t].state = "live"}
Defaults == {s \in LiveStyles : style[s].isDefault}
Fresh(S, rows) == {i \in S : rows[i].state = "absent" /\ \A j \in S : j < i => rows[j].state # "absent"}

TypeOK ==
  /\ style \in [Styles -> Style]
  /\ template \in [Templates -> Template]
  /\ override \in Keys \union {NoKey}
  /\ systemPrompts \subseteq {"check", "generate"}
  /\ seeded \in BOOLEAN /\ untouched \in BOOLEAN
  /\ request \in [Requests -> Request]
  /\ calls \in 0..MaxCalls
  /\ \A s, u \in LiveStyles : style[s].key = style[u].key => s = u

NoStyle == [state |-> "absent", key |-> NoKey, isDefault |-> FALSE]
BuiltinStyle(i) == [state |-> "live", key |-> Builtin[i], isDefault |-> i = 1]

\* A new database, or one whose styles an earlier process has seeded.
Init ==
  /\ \/ style = [s \in Styles |-> NoStyle] /\ systemPrompts = {}
     \/ /\ style = [s \in Styles |-> IF s <= Len(Builtin) THEN BuiltinStyle(s) ELSE NoStyle]
        /\ systemPrompts = {"check", "generate"}
  /\ template = [t \in Templates |-> [state |-> "absent", aiStyle |-> NoKey]]
  /\ override \in {NoKey, Formal, Builtin[Len(Builtin)]}
  /\ seeded = FALSE
  /\ untouched = TRUE
  /\ request = [r \in Requests |-> Idle]
  /\ calls = 0

At(r, op) == request[r].op = op
Held(r) == request[r]
Goto(r, held) == request' = [request EXCEPT ![r] = held]
Finish(r) == Goto(r, Idle)

\* A call begins.
Begin(r, held) == At(r, "idle") /\ Goto(r, held)

(***************************************************************************)
(* Queries.                                                                *)
(***************************************************************************)
CountAIStyles == Cardinality(LiveStyles)
GetAIStyleByKey(key) == {s \in LiveStyles : style[s].key = key}
GetDefaultAIStyle == {s \in Defaults : \A u \in Defaults : s <= u}

InsertAIStyle(key, isDefault) ==
  IF GetAIStyleByKey(key) # {} THEN UNCHANGED style
  ELSE \E s \in Fresh(Styles, style) :
         style' = [style EXCEPT ![s] = [state |-> "live", key |-> key, isDefault |-> isDefault]]

\* COALESCE keeps what the body leaves out; a taken key is an error.
UpdateAIStyle(s, key, mark) ==
  IF s \notin LiveStyles \/ (key # NoKey /\ GetAIStyleByKey(key) \ {s} # {}) THEN UNCHANGED style
  ELSE style' = [style EXCEPT
         ![s].key = IF key = NoKey THEN @ ELSE key,
         ![s].isDefault = IF mark = "keep" THEN @ ELSE mark = "yes"]

ClearAIStyleDefaults == [s \in Styles |-> [style[s] EXCEPT !.isDefault = FALSE]]

SetAIStyleDefault(s) ==
  IF s \in LiveStyles THEN [style EXCEPT ![s].isDefault = TRUE] ELSE style

ClearReportStyleOverride(key) == IF override = key THEN NoKey ELSE override

\* Mutant: templates keep the key of the style.
KeepTemplateStyle(key) == template
ResetTemplateStyle(key) ==
  [t \in Templates |-> IF t \in LiveTemplates /\ template[t].aiStyle = key
                       THEN [template[t] EXCEPT !.aiStyle = Formal] ELSE template[t]]

DeleteAIStyle(s) == [style EXCEPT ![s].state = IF s \in LiveStyles THEN "deleted" ELSE @]

InsertSystemPrompt(key) == systemPrompts \union {key}

\* The style a key is read as: the row of the key, the default row, or the
\* built-in text compiled into the server.
ResolveStyle(key) ==
  IF GetAIStyleByKey(key) # {} THEN GetAIStyleByKey(key) ELSE GetDefaultAIStyle

(***************************************************************************)
(* Seeding.  The prompt routes do it once in a process, under a mutex, stop *)
(* at the first error and then fill in the system prompts; the routes that  *)
(* call the model, and the one that opens a generation session, do it      *)
(* whenever they count no styles, and skip a row that is there; a failed    *)
(* statement ends it (Abandon).                                             *)
(***************************************************************************)
EnsureSeeds(r) ==
  /\ ~seeded /\ \A q \in Requests : ~At(q, "seed")
  /\ Begin(r, [Idle EXCEPT !.op = "seed",
               !.row = IF CountAIStyles = 0 THEN 1 ELSE Len(Builtin) + 1])
  /\ UNCHANGED <<tables, seeded, untouched>>

EnsureSeedsForAI(r) ==
  /\ CountAIStyles = 0
  /\ Begin(r, [Idle EXCEPT !.op = "seedForAI", !.row = 1])
  /\ UNCHANGED <<tables, seeded, untouched>>

\* Mutant: the prompt routes' loop ends one row early.
AllButLastBuiltin == Len(Builtin) - 1
LastBuiltin == Len(Builtin)

SeedStyle(r) ==
  LET held == Held(r)
      key == Builtin[held.row]
      last == IF At(r, "seed") THEN LastBuiltin ELSE Len(Builtin)
  IN /\ At(r, "seed") \/ At(r, "seedForAI")
     /\ held.row <= Len(Builtin)
     /\ InsertAIStyle(key, held.row = 1)
     /\ IF At(r, "seedForAI")
          THEN IF held.row = last THEN Finish(r) ELSE Goto(r, [held EXCEPT !.row = @ + 1])
          ELSE Goto(r, [held EXCEPT !.row =
                 IF GetAIStyleByKey(key) # {} \/ held.row >= last THEN Len(Builtin) + 1 ELSE @ + 1])
     /\ UNCHANGED <<template, override, systemPrompts, seeded, untouched>>

SeedSystemPrompt(r) ==
  LET held == Held(r)
      i == held.row - Len(Builtin)
  IN /\ At(r, "seed") /\ i \in 1..Len(builtinSystemPrompts)
     /\ systemPrompts' = InsertSystemPrompt(builtinSystemPrompts[i])
     /\ IF i = Len(builtinSystemPrompts) THEN Finish(r) ELSE Goto(r, [held EXCEPT !.row = @ + 1])
     /\ seeded' = (i = Len(builtinSystemPrompts))
     /\ UNCHANGED <<style, template, override, untouched>>

(***************************************************************************)
(* Styles.                                                                 *)
(***************************************************************************)
CreateStyle(key, isDefault) ==
  /\ InsertAIStyle(key, isDefault)
  /\ untouched' = FALSE
  /\ UNCHANGED <<template, override, systemPrompts, seeded, request>>

UpdateStyleBegins(r, s, key, mark) ==
  /\ s \in LiveStyles
  /\ Begin(r, [Idle EXCEPT !.op = "update", !.id = s, !.key = key, !.mark = mark])
  /\ UNCHANGED <<tables, seeded, untouched>>

UpdateStyle(r) ==
  /\ At(r, "update")
  /\ UpdateAIStyle(Held(r).id, Held(r).key, Held(r).mark)
  /\ untouched' = FALSE
  /\ Finish(r)
  /\ UNCHANGED <<template, override, systemPrompts, seeded>>

SetDefaultBegins(r, s) ==
  /\ s \in LiveStyles
  /\ Begin(r, [Idle EXCEPT !.op = "clearDefaults", !.id = s])
  /\ UNCHANGED <<tables, seeded, untouched>>

ClearDefaults(r) ==
  /\ At(r, "clearDefaults")
  /\ style' = ClearAIStyleDefaults
  /\ untouched' = FALSE
  /\ Goto(r, [Held(r) EXCEPT !.op = "setDefault"])
  /\ UNCHANGED <<template, override, systemPrompts, seeded>>

SetDefault(r) ==
  /\ At(r, "setDefault")
  /\ style' = SetAIStyleDefault(Held(r).id)
  /\ Finish(r)
  /\ UNCHANGED <<template, override, systemPrompts, seeded, untouched>>

DeleteStyleBegins(r, s) ==
  /\ s \in LiveStyles
  /\ Begin(r, [Idle EXCEPT !.op = "count", !.id = s, !.key = style[s].key,
               !.mark = IF style[s].isDefault THEN "yes" ELSE "no"])
  /\ UNCHANGED <<tables, seeded, untouched>>

LastStyle(count) == count <= 1

RefuseOrDelete(r) ==
  /\ At(r, "count")
  /\ IF LastStyle(CountAIStyles) \/ Held(r).mark = "yes" THEN Finish(r)
     ELSE Goto(r, [Held(r) EXCEPT !.op = "clearReports", !.row = CountAIStyles])
  /\ UNCHANGED <<tables, seeded, untouched>>

ClearReports(r) ==
  /\ At(r, "clearReports")
  /\ override' = ClearReportStyleOverride(Held(r).key)
  /\ Goto(r, [Held(r) EXCEPT !.op = "resetTemplates"])
  /\ UNCHANGED <<style, template, systemPrompts, seeded, untouched>>

ResetTemplates(r) ==
  /\ At(r, "resetTemplates")
  /\ template' = ResetTemplateStyle(Held(r).key)
  /\ Goto(r, [Held(r) EXCEPT !.op = "deleteStyle", !.late = {}])
  /\ UNCHANGED <<style, override, systemPrompts, seeded, untouched>>

DeleteStyle(r) ==
  /\ At(r, "deleteStyle")
  /\ style' = DeleteAIStyle(Held(r).id)
  /\ untouched' = FALSE
  /\ Finish(r)
  /\ UNCHANGED <<template, override, systemPrompts, seeded>>

(***************************************************************************)
(* Templates.  A key is checked for its form only.                         *)
(***************************************************************************)
SavedBy(r, t) ==
  [q \in Requests |-> IF q = r THEN Idle
                      ELSE IF At(q, "idle") THEN Idle
                      ELSE [request[q] EXCEPT !.late = @ \union {t}]]

InsertTemplate(r, key) ==
  \E t \in Fresh(Templates, template) :
    /\ template' = [template EXCEPT ![t] = [state |-> "live", aiStyle |-> key]]
    /\ request' = SavedBy(r, t)
    /\ UNCHANGED <<style, override, systemPrompts, seeded, untouched>>

CreateTemplate(r, key) == At(r, "idle") /\ InsertTemplate(r, key)

\* A template that is saved without a style keeps the one it had when read.
UpdateTemplateBegins(r, t, key) ==
  /\ t \in LiveTemplates
  /\ Begin(r, [Idle EXCEPT !.op = "saveTemplate", !.id = t,
               !.key = IF key = NoKey THEN template[t].aiStyle ELSE key])
  /\ UNCHANGED <<tables, seeded, untouched>>

SaveTemplate(r) ==
  LET t == Held(r).id
  IN /\ At(r, "saveTemplate")
     /\ template' = IF t \in LiveTemplates THEN [template EXCEPT ![t].aiStyle = Held(r).key] ELSE template
     /\ request' = SavedBy(r, t)
     /\ UNCHANGED <<style, override, systemPrompts, seeded, untouched>>

DeleteTemplateBegins(r, t) ==
  /\ t \in LiveTemplates
  /\ Begin(r, [Idle EXCEPT !.op = "deleteTemplate", !.id = t])
  /\ UNCHANGED <<tables, seeded, untouched>>

DeleteTemplate(r) ==
  /\ At(r, "deleteTemplate")
  /\ template' = [template EXCEPT ![Held(r).id].state = "deleted"]
  /\ Finish(r)
  /\ UNCHANGED <<style, override, systemPrompts, seeded, untouched>>

\* The source is a template of the user, or an official one, which names a
\* built-in style.
CloneBegins(r, key) ==
  /\ key \in {template[t].aiStyle : t \in LiveTemplates} \union {Builtin[i] : i \in 1..Len(Builtin)}
  /\ Begin(r, [Idle EXCEPT !.op = "cloneTemplate", !.key = key])
  /\ UNCHANGED <<tables, seeded, untouched>>

CloneTemplate(r) == At(r, "cloneTemplate") /\ InsertTemplate(r, Held(r).key)

(***************************************************************************)
(* A client goes away, or the server stops.                                *)
(***************************************************************************)
Seeding(r) == (At(r, "seed") \/ At(r, "seedForAI")) /\ Held(r).row <= Len(Builtin)

\* The cancelled statement fails; the seeder takes that for the end.
Abandon(r) ==
  /\ ~At(r, "idle")
  /\ untouched' = (untouched /\ ~Seeding(r))
  /\ seeded' = (seeded \/ At(r, "seed"))
  /\ Finish(r)
  /\ UNCHANGED tables

Restart ==
  /\ request' = [r \in Requests |-> Idle]
  /\ untouched' = (untouched /\ \A r \in Requests : ~Seeding(r))
  /\ seeded' = FALSE
  /\ UNCHANGED tables

Calls ==
  \/ \E key \in Keys, isDefault \in BOOLEAN : CreateStyle(key, isDefault)
  \/ \E r \in Requests :
       \/ EnsureSeeds(r) \/ EnsureSeedsForAI(r)
       \/ \E s \in Styles :
            \/ \E key \in Keys : UpdateStyleBegins(r, s, key, "keep")
            \/ \E mark \in {"yes", "no"} : UpdateStyleBegins(r, s, NoKey, mark)
            \/ SetDefaultBegins(r, s) \/ DeleteStyleBegins(r, s)
       \/ \E key \in Keys : CreateTemplate(r, key) \/ CloneBegins(r, key)
       \/ \E t \in Templates :
            \/ \E key \in Keys \union {NoKey} : UpdateTemplateBegins(r, t, key)
            \/ DeleteTemplateBegins(r, t)
  \/ Restart

Statements(r) ==
  \/ SeedStyle(r) \/ SeedSystemPrompt(r) \/ UpdateStyle(r)
  \/ ClearDefaults(r) \/ SetDefault(r)
  \/ RefuseOrDelete(r) \/ ClearReports(r) \/ ResetTemplates(r) \/ DeleteStyle(r)
  \/ SaveTemplate(r) \/ DeleteTemplate(r) \/ CloneTemplate(r)
  \/ Abandon(r)

Next ==
  \/ calls < MaxCalls /\ calls' = calls + 1 /\ Calls
  \/ UNCHANGED calls /\ \E r \in Requests : Statements(r)

Spec == Init /\ [][Next]_vars

(***************************************************************************)
(* Properties.                                                             *)
(***************************************************************************)
\* Not kept by the code: there is exactly one default style (src/CONTEXT.md:344), whenever there
\* is a style and no call is between two statements.
ExactlyOneDefault ==
  LiveStyles # {} /\ (\A r \in Requests : At(r, "idle")) => Cardinality(Defaults) = 1

\* No report or template names a style that was deleted under the key it was
\* read by, but those saved after the deletion had reset theirs (ADR-0005)
\* and, as they are reset to it, those that name the first built-in style.
DeletedStyleIsReleased ==
  [][\A r \in Requests : At(r, "deleteStyle") /\ style' # style =>
       /\ override # Held(r).key
       /\ \A t \in LiveTemplates :
            template[t].aiStyle = Held(r).key => t \in Held(r).late \/ Held(r).key = Formal]_vars

\* Unless somebody else wrote styles or a seeding was cut off, the table is
\* empty or holds every built-in style and the first is the default one,
\* however the two ways of seeding it overlap.
SeedingIsComplete ==
  untouched /\ (\A r \in Requests : ~Seeding(r)) =>
    \/ LiveStyles = {}
    \/ /\ \A i \in 1..Len(Builtin) : GetAIStyleByKey(Builtin[i]) # {}
       /\ ResolveStyle(NoKey) = GetAIStyleByKey(Formal) /\ Cardinality(Defaults) = 1

(***************************************************************************)
(* The inductive invariant.                                                *)
(***************************************************************************)
Deleting == {"count", "clearReports", "resetTemplates", "deleteStyle"}

HeldValuesAreSound ==
  \A r \in Requests :
    /\ At(r, "seed") => Held(r).row \in 1..Len(Builtin) + Len(builtinSystemPrompts)
    /\ At(r, "seedForAI") => Held(r).row \in 1..Len(Builtin)
    /\ At(r, "saveTemplate") => Held(r).id \in Templates
    /\ At(r, "setDefault") => ~untouched
    /\ Held(r).op \in Deleting => Held(r).key \in Keys

OneSeeder == \A r, q \in Requests : At(r, "seed") /\ At(q, "seed") => r = q

\* What a deletion has released by each of its statements.
ReleasedSoFar ==
  \A r \in Requests :
    /\ At(r, "resetTemplates") \/ At(r, "deleteStyle") => override # Held(r).key
    /\ At(r, "deleteStyle") =>
         \A t \in LiveTemplates :
           template[t].aiStyle = Held(r).key => t \in Held(r).late \/ Held(r).key = Formal

Present == {i \in 1..Len(Builtin) : GetAIStyleByKey(Builtin[i]) # {}}

\* A seeding that will not find its next row there inserts all that are
\* missing, and one for the model whatever it finds.
Completes(r) == Seeding(r) /\ (At(r, "seedForAI") \/ Held(r).row \notin Present)

\* The styles are the first so many built-in rows, as many as a seeding that is
\* under way has behind it or more, and unless there are none or all one of the
\* seedings goes on to the end.
SeededSoFar ==
  untouched =>
    /\ \A s \in LiveStyles : \E i \in 1..Len(Builtin) :
         style[s].key = Builtin[i] /\ (style[s].isDefault <=> i = 1)
    /\ \A i \in Present, j \in 1..Len(Builtin) : j < i => j \in Present
    /\ \A r \in Requests : Seeding(r) =>
         \A j \in 1..Len(Builtin) : j < Held(r).row => j \in Present
    /\ Present = {} \/ Present = 1..Len(Builtin) \/ \E r \in Requests : Completes(r)

IndInv ==
  /\ TypeOK
  /\ \A s \in LiveStyles : style[s].key \in Keys
  /\ HeldValuesAreSound
  /\ OneSeeder
  /\ ReleasedSoFar
  /\ SeededSoFar

\* The tables are of their types, keys are unique, a deletion and a seeding have
\* done by each statement what they should, and a seeding that is over is
\* complete.
WellFormed == IndInv /\ SeedingIsComplete
=============================================================================
