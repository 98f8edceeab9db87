-------------------------- MODULE SessionTranscript --------------------------
(***************************************************************************)
(* The transcript of one generation session: the message parts that its    *)
(* streams, its user and the application append, and the page that shows   *)
(* them.  GenerationTurns has the life of a turn and leaves the parts out; *)
(* here a turn is what its stream hears from the model and what of that is *)
(* stored, in which place and by which statement.                          *)
(*                                                                         *)
(* Every SQL statement outside a transaction is an action.  A stopped turn *)
(* frees its session before its stream notices, so two streams may write   *)
(* one transcript.  What the model says is numbered: a stored text is the  *)
(* sequence of the numbers of its pieces.  Left out, as other modules have *)
(* them: whether a turn that did not complete was stopped or failed, with  *)
(* the part for its error; the acceptance of proposals; the source         *)
(* revision and the baseline; the content of queries; times.               *)
(***************************************************************************)
EXTENDS Naturals, FiniteSets, Sequences, SequencesExt

CONSTANTS
  MaxTurn,        \* bound: turns of the session
  MaxEvents,      \* bound: pieces and tool calls of all turns
  MaxSteps,       \* maxSteps in engine.go (6)
  MaxIncidents    \* bound: refreshed queries, direct edits, failed statements, crashes and deletions

ASSUME TranscriptAssumption ==
  /\ {MaxTurn, MaxEvents, MaxIncidents} \subseteq Nat
  /\ MaxSteps \in Nat \ {0}

VARIABLES
  created,        \* whether the session's row exists
  part,           \* generation_message_parts of the session, in the order of their ids
  gone,           \* how many of the parts were deleted with the report
  turn,           \* generation_turns: status
  proposal,       \* generation_proposals, in the order of their ids
  stream,         \* StreamTurn of each turn
  said,           \* pieces and tool calls that streams have received
  stopping,       \* the stop request between its statements
  page,           \* the session's page: rows read, and what they refer to that is still owed
  broken,         \* turns of which a statement failed
  notes,          \* refreshed queries, recorded direct edits and deletions of the report
  faults          \* failed statements and crashes

rows == <<created, part, gone, turn, proposal>>
vars == <<rows, stream, said, stopping, page, broken, notes, faults>>

Turns == 1..MaxTurn
Session == 0                              \* the turn of a part that has none
Terminal == {"completed", "cut"}          \* cut: aborted or failed
Writers == {"text", "reasoning"}
Queries == {"query"}
Tools == Queries \union {"propose"}
Heard == SeqOf(1..MaxEvents, MaxEvents)

Part ==
  [turn : Turns \union {Session}, sequence : Nat \ {0},
   kind : {"system", "user", "status", "call", "result", "direct-edit"} \union Writers,
   content : Heard,                       \* the pieces, or the call, it is about
   of : {"none", "working"} \union Terminal \union Tools,
   proposal : Nat]                        \* data.proposalId

\* What a part of a kind is of.
OfKind(kind) ==
  CASE kind = "status" -> {"working"} \union Terminal
    [] kind \in {"call", "result"} -> Tools
    [] OTHER -> {"none"}

Proposal == [turn : Turns, cites : SUBSET Nat]

Running == {"running", "tools", "answering"}
Closing == {"flush", "finishRow", "finishPart"}

Stream ==
  [pc : {"none", "returned", "lost"} \union Running \union Closing,
   step : 0..MaxSteps,
   heard : [Writers -> Heard], id : [Writers -> Nat],      \* the two throttledParts
   calls : Seq([n : 1..MaxEvents, tool : Tools]),
   requested : BOOLEAN, proposed : Nat,
   ending : {"none"} \union Terminal]

NoStream ==
  [pc |-> "none", step |-> 0, heard |-> [w \in Writers |-> <<>>],
   id |-> [w \in Writers |-> 0], calls |-> <<>>, requested |-> FALSE, proposed |-> 0,
   ending |-> "none"]

NoPage == [read |-> 0, parts |-> {}, ended |-> {}, proposals |-> {}]
NotStopping == [pc |-> "idle", turn |-> Session]

TypeOK ==
  /\ created \in BOOLEAN
  /\ part \in Seq(Part) /\ \A i \in DOMAIN part : part[i].of \in OfKind(part[i].kind)
  /\ gone \in 0..Len(part)
  /\ turn \in [Turns -> {"none", "working"} \union Terminal]
  /\ proposal \in Seq(Proposal)
  /\ stream \in [Turns -> Stream]
  /\ said \in 0..MaxEvents
  /\ stopping \in [pc : {"idle", "row", "part"}, turn : Turns \union {Session}]
  /\ page \in [read : 0..3, parts : SUBSET Turns, ended : SUBSET Turns, proposals : SUBSET Nat]
  /\ broken \subseteq Turns
  /\ notes \in 0..MaxIncidents
  /\ faults \in 0..MaxIncidents

Init ==
  /\ created = FALSE
  /\ part = <<>>
  /\ gone = 0
  /\ turn = [t \in Turns |-> "none"]
  /\ proposal = <<>>
  /\ stream = [t \in Turns |-> NoStream]
  /\ said = 0
  /\ stopping = NotStopping
  /\ page = NoPage
  /\ broken = {}
  /\ notes = 0
  /\ faults = 0

(***************************************************************************)
(* Statements.  The rows of a deleted report stay in the variables as they *)
(* were, and no statement sees them: the first gone parts, the turns and   *)
(* the proposals.                                                          *)
(***************************************************************************)
Deleted == gone > 0
OnRecord(parts) == {i \in DOMAIN parts : i > gone}

SequencesOf(parts) == {parts[i].sequence : i \in OnRecord(parts)}
LatestSequence(parts) == Max({0} \union SequencesOf(parts))
NextSequence(parts) == LatestSequence(parts) + 1

\* A part of turn t, inserted behind the parts there are.
InsertPart(parts, t, kind, content, of, p) ==
  Append(parts, [turn |-> t, sequence |-> NextSequence(parts), kind |-> kind,
                 content |-> content, of |-> of, proposal |-> p])

\* Mutant of UpdatePartContent: a piece replaces the content.
UpdateWithPiece(parts, i, content) == [parts EXCEPT ![i].content = <<Last(content)>>]
UpdatePartContent(parts, i, content) ==
  IF i \in OnRecord(parts) THEN [parts EXCEPT ![i].content = content] ELSE parts

UpdateStatusPart(parts, t, status) ==
  [i \in DOMAIN parts |-> IF parts[i].kind = "status" /\ parts[i].turn = t
                          THEN [parts[i] EXCEPT !.of = status] ELSE parts[i]]

ProposalByTurn(t) == {p \in DOMAIN proposal : proposal[p].turn = t}
WorkingTurns == {t \in Turns : turn[t] = "working"}
Unused == {t \in Turns : turn[t] = "none"}

\* Mutants of SessionToolResults: only what the user refreshed, and all but that.
RefreshedResults(parts) == {i \in DOMAIN parts : parts[i].kind = "result" /\ parts[i].turn = Session}
CalledResults(parts) ==
  {i \in DOMAIN parts : parts[i].kind = "result" /\ parts[i].of \in Queries /\ parts[i].turn # Session}

\* The results of history queries that are on record: their parts.
SessionToolResults(parts) == {i \in DOMAIN parts : parts[i].kind = "result" /\ parts[i].of \in Queries}

(***************************************************************************)
(* The session and its turns begin.                                        *)
(***************************************************************************)
SystemParts ==
  [i \in 1..4 |-> [turn |-> Session, sequence |-> i, kind |-> "system", content |-> <<>>,
                   of |-> "none", proposal |-> 0]]

CreateSession ==
  /\ ~created
  /\ created' = TRUE
  /\ part' = SystemParts
  /\ UNCHANGED <<gone, turn, proposal, stream, said, stopping, page, broken, notes, faults>>

\* A statement fails: the turn is broken.
Outcomes == IF notes + faults < MaxIncidents THEN BOOLEAN ELSE {TRUE}
Record(t, ok) ==
  /\ faults' = IF ok THEN faults ELSE faults + 1
  /\ broken' = IF ok THEN broken ELSE broken \union {t}

\* StartGenerationTurn's transaction, then the session is read again for the
\* model; when that fails the turn is left without a stream.
StartTurn(t) ==
  /\ created /\ ~Deleted
  /\ WorkingTurns = {}
  /\ t \in Unused /\ \A u \in Unused : t <= u
  /\ turn' = [turn EXCEPT ![t] = "working"]
  /\ part' = InsertPart(InsertPart(part, t, "user", <<>>, "none", 0), t, "status", <<>>, "working", 0)
  /\ \E ok \in Outcomes :
       /\ Record(t, ok)
       /\ stream' = [stream EXCEPT ![t] = IF ok THEN [@ EXCEPT !.pc = "running", !.step = 1]
                                          ELSE [@ EXCEPT !.pc = "lost"]]
  /\ UNCHANGED <<created, gone, proposal, said, stopping, page, notes>>

(***************************************************************************)
(* A model step: RunStep emits pieces of text and of reasoning, and calls. *)
(***************************************************************************)
At(t, pcs) == stream[t].pc \in pcs

\* A stream that is to be flushed and finished, of which only its writers matter.
EndWith(s, ending) ==
  [NoStream EXCEPT !.pc = "flush", !.ending = ending, !.heard = s.heard, !.id = s.id]

\* What a stream goes on with when the statement it ran succeeded, or failed.
Proceed(t, ok, next) ==
  stream' = [stream EXCEPT ![t] = IF ok THEN next ELSE EndWith(next, "cut")]

\* The piece is stored, or kept until half a second has passed: a writer
\* inserts its part with the first piece and rewrites the part's content.
Delta(t, w) ==
  LET s == stream[t]
      heard == [s EXCEPT !.heard[w] = Append(@, said + 1)]
      text == heard.heard[w]
  IN /\ At(t, {"running"}) /\ said < MaxEvents
     /\ said' = said + 1
     /\ \E ok \in Outcomes :
          /\ Record(t, ok)
          /\ \/ /\ s.id[w] = 0
                /\ part' = IF ok THEN InsertPart(part, t, w, text, "none", 0) ELSE part
                /\ Proceed(t, ok, IF ok THEN [heard EXCEPT !.id[w] = Len(part) + 1] ELSE heard)
             \/ /\ s.id[w] # 0
                /\ part' = IF ok THEN UpdatePartContent(part, s.id[w], text) ELSE part
                /\ Proceed(t, ok, heard)
             \/ /\ s.id[w] # 0 /\ ok
                /\ part' = part
                /\ Proceed(t, ok, heard)
     /\ UNCHANGED <<created, gone, turn, proposal, stopping, page, notes>>

ToolCall(t, tool) ==
  LET s == stream[t]
  IN /\ At(t, {"running"}) /\ said < MaxEvents
     /\ said' = said + 1
     /\ \E ok \in Outcomes :
          /\ Record(t, ok)
          /\ part' = IF ok THEN InsertPart(part, t, "call", <<said + 1>>, tool, 0) ELSE part
          /\ Proceed(t, ok, [s EXCEPT !.calls = Append(@, [n |-> said + 1, tool |-> tool])])
     /\ UNCHANGED <<created, gone, turn, proposal, stopping, page, notes>>

\* The model's step is over.
EndStep(t) ==
  /\ At(t, {"running"})
  /\ stream' = [stream EXCEPT
       ![t] = IF @.calls = <<>> THEN EndWith(@, "completed") ELSE [@ EXCEPT !.pc = "tools"]]
  /\ UNCHANGED <<rows, said, stopping, page, broken, notes, faults>>

\* The provider fails, the stream is cancelled or its client is gone.
Break(t) ==
  /\ At(t, {"running"})
  /\ stream' = [stream EXCEPT ![t] = EndWith(@, "cut")]
  /\ UNCHANGED <<rows, said, stopping, page, broken, notes, faults>>

(***************************************************************************)
(* The step's calls, one after the other: a proposal is created in a       *)
(* transaction of its own, the result of the call is stored after it.      *)
(***************************************************************************)
\* The proposal of a turn that has none cites the results on record.
CreateProposal(t) ==
  /\ At(t, {"tools"}) /\ Head(stream[t].calls).tool = "propose"
  /\ stream[t].proposed = 0 /\ ~Deleted /\ turn[t] = "working" /\ ProposalByTurn(t) = {}
  /\ proposal' = Append(proposal, [turn |-> t, cites |-> SessionToolResults(part)])
  /\ stream' = [stream EXCEPT ![t].pc = "answering", ![t].proposed = Len(proposal) + 1]
  /\ UNCHANGED <<created, gone, part, turn, said, stopping, page, broken, notes, faults>>

\* Mutant of AfterCalls: a proposal ends the turn at once.
AfterProposal(s) ==
  IF Len(s.calls) > 1 /\ ~s.requested THEN [s EXCEPT !.pc = "tools", !.calls = Tail(@)]
  ELSE IF s.requested \/ s.step >= MaxSteps
  THEN EndWith(s, "completed")
  ELSE [s EXCEPT !.pc = "running", !.step = @ + 1, !.calls = <<>>]

\* After its last call a stream ends, or asks the model again.
AfterCalls(s) ==
  IF Len(s.calls) > 1 THEN [s EXCEPT !.pc = "tools", !.calls = Tail(@)]
  ELSE IF s.requested \/ s.step >= MaxSteps
  THEN EndWith(s, "completed")
  ELSE [s EXCEPT !.pc = "running", !.step = @ + 1, !.calls = <<>>]

\* The call's result is stored and sent: that of a query, of the proposal just
\* created, or why the call is refused (its input, a second proposal, a turn
\* that has ended, a session that is gone).
WriteToolResult(t) ==
  LET s == stream[t]
      call == Head(s.calls)
      done == [s EXCEPT !.requested = @ \/ call.tool = "propose"]
  IN /\ At(t, {"tools", "answering"})
     /\ \E ok \in Outcomes, sent \in BOOLEAN :
          /\ Record(t, ok)
          /\ part' = IF ok THEN InsertPart(part, t, "result", <<call.n>>, call.tool,
                                           IF s.pc = "answering" THEN s.proposed ELSE 0)
                     ELSE part
          /\ Proceed(t, ok, IF sent THEN AfterCalls(done) ELSE EndWith(s, "cut"))
     /\ UNCHANGED <<created, gone, turn, proposal, said, stopping, page, notes>>

(***************************************************************************)
(* The end of a stream: both writers are flushed, the turn is finished.    *)
(* What fails on the way of a completed turn fails the turn; what fails    *)
(* after that is ignored.                                                  *)
(***************************************************************************)
\* Mutant of Flush: only a completed turn is flushed.
FlushCompleted(t) ==
  LET s == stream[t]
  IN /\ At(t, {"flush"})
     /\ Record(t, TRUE)
     /\ part' = [i \in DOMAIN part |->
          IF s.ending = "completed" /\ i > gone /\ \E w \in Writers : s.id[w] = i
          THEN [part[i] EXCEPT !.content = s.heard[part[i].kind]] ELSE part[i]]
     /\ Proceed(t, TRUE, [s EXCEPT !.pc = "finishRow"])
     /\ UNCHANGED <<created, gone, turn, proposal, said, stopping, page, notes>>

Flush(t) ==
  LET s == stream[t]
      Owed == {w \in Writers : s.id[w] # 0}
  IN /\ At(t, {"flush"})
     /\ \E failed \in SUBSET Owed :
          /\ Cardinality(failed) <= 1 /\ (failed # {} => FALSE \in Outcomes)
          /\ Record(t, failed = {})
          /\ part' = [i \in DOMAIN part |->
               IF i > gone /\ \E w \in Owed \ failed : s.id[w] = i
               THEN [part[i] EXCEPT !.content = s.heard[part[i].kind]] ELSE part[i]]
          /\ Proceed(t, failed = {} \/ s.ending # "completed", [s EXCEPT !.pc = "finishRow"])
     /\ UNCHANGED <<created, gone, turn, proposal, said, stopping, page, notes>>

Returned(s) == [NoStream EXCEPT !.pc = "returned", !.heard = s.heard, !.id = s.id]

\* A statement of finishGenerationTurn: when it fails, a completed turn is
\* flushed and finished again as a failed one.
Finish(t, here, next, turns, parts) ==
  LET s == stream[t]
  IN /\ At(t, {here}) /\ ~Deleted
     /\ \E ok \in Outcomes :
          /\ Record(t, ok)
          /\ turn' = IF ok THEN turns ELSE turn
          /\ part' = IF ok THEN parts ELSE part
          /\ Proceed(t, ok \/ s.ending # "completed",
                     IF ok /\ next # "returned" THEN [s EXCEPT !.pc = next] ELSE Returned(s))
     /\ UNCHANGED <<created, gone, proposal, said, stopping, page, notes>>

FinishRow(t) ==
  Finish(t, "finishRow", "finishPart", [turn EXCEPT ![t] = stream[t].ending], part)

FinishPart(t) ==
  Finish(t, "finishPart", "returned", turn, UpdateStatusPart(part, t, stream[t].ending))

\* finishGenerationTurn finds no turn and has nothing to do, or it had found it
\* and fails at its next statement that needs the row.
FinishDeleted(t) ==
  /\ At(t, {"finishRow", "finishPart"}) /\ Deleted
  /\ \E found \in BOOLEAN :
       Proceed(t, ~found \/ stream[t].ending # "completed", Returned(stream[t]))
  /\ UNCHANGED <<rows, said, stopping, page, broken, notes, faults>>

(***************************************************************************)
(* The user stops a turn, refreshes a query, edits the final that a        *)
(* proposal made, and deletes the report.                                  *)
(***************************************************************************)
\* The turn is seen working; its stream is cancelled, which it may not notice.
StopTurn(t) ==
  /\ stopping.pc = "idle" /\ ~Deleted /\ turn[t] = "working"
  /\ stopping' = [pc |-> "row", turn |-> t]
  /\ UNCHANGED <<rows, said, stream, page, broken, notes, faults>>

StopRow ==
  /\ stopping.pc = "row" /\ ~Deleted
  /\ turn' = [turn EXCEPT ![stopping.turn] = "cut"]
  /\ stopping' = [stopping EXCEPT !.pc = "part"]
  /\ UNCHANGED <<created, gone, part, proposal, stream, said, page, broken, notes, faults>>

StopPart ==
  /\ stopping.pc = "part" /\ ~Deleted
  /\ part' = UpdateStatusPart(part, stopping.turn, "cut")
  /\ stopping' = NotStopping
  /\ UNCHANGED <<created, gone, turn, proposal, stream, said, page, broken, notes, faults>>

\* The turn to stop is not found any more.
StopDeleted ==
  /\ stopping.pc # "idle" /\ Deleted
  /\ stopping' = NotStopping
  /\ UNCHANGED <<rows, stream, said, page, broken, notes, faults>>

\* A query of the session is run again; its result is a part of no turn.  The
\* session was read before, and may be gone when the result is stored.
Refresh ==
  /\ SessionToolResults(part) # {} /\ notes + faults < MaxIncidents
  /\ notes' = notes + 1
  /\ \E i \in SessionToolResults(part) :
       part' = InsertPart(part, Session, "result", <<>>, part[i].of, 0)
  /\ UNCHANGED <<created, gone, turn, proposal, stream, said, stopping, page, broken, faults>>

\* A final that a proposal of the session made is edited: the transaction that
\* saves it records the edit in the session.
RecordDirectEdit ==
  /\ proposal # <<>> /\ ~Deleted
  /\ notes + faults < MaxIncidents
  /\ notes' = notes + 1
  /\ part' = InsertPart(part, Session, "direct-edit", <<>>, "none", 0)
  /\ UNCHANGED <<created, gone, turn, proposal, stream, said, stopping, page, broken, faults>>

\* The report is deleted: one transaction removes its proposals, parts, turns and
\* sessions.  That no proposal is accepted was read before it; streams go on.
DeleteReport ==
  /\ created /\ ~Deleted
  /\ notes + faults < MaxIncidents
  /\ notes' = notes + 1
  /\ gone' = Len(part)
  /\ UNCHANGED <<created, part, turn, proposal, stream, said, stopping, page, broken, faults>>

\* The process dies: its streams, its stop request and its page with it.
Crash ==
  /\ notes + faults < MaxIncidents
  /\ faults' = faults + 1
  /\ stream' = [t \in Turns |-> IF At(t, Running \union Closing)
                                THEN [NoStream EXCEPT !.pc = "lost"] ELSE stream[t]]
  /\ stopping' = NotStopping
  /\ page' = NoPage
  /\ UNCHANGED <<rows, said, broken, notes>>

(***************************************************************************)
(* The session's page: its rows are read by one statement after the other. *)
(***************************************************************************)
\* The parts refer to turns, to turns that are over and to proposals.
WithParts ==
  [page EXCEPT !.parts = {part[i].turn : i \in OnRecord(part)} \ {Session},
               !.ended = {t \in Turns : \E i \in OnRecord(part) :
                            part[i].kind = "status" /\ part[i].turn = t /\ part[i].of \in Terminal},
               !.proposals = {part[i].proposal : i \in OnRecord(part)} \ {0}]

\* What the page owes is paid by the rows there are.
WithTurns ==
  IF Deleted THEN page
  ELSE [page EXCEPT !.parts = @ \intersect Unused, !.ended = {t \in @ : turn[t] \notin Terminal}]

WithProposals ==
  IF Deleted THEN page ELSE [page EXCEPT !.proposals = @ \ DOMAIN proposal]

\* Mutant of PageReads: the turns before the parts.
TurnsFirst == <<"turns", "parts", "proposals">>

\* The order of the page's reads.
PageReads == <<"parts", "turns", "proposals">>

With(rowset) ==
  CASE rowset = "parts" -> WithParts
    [] rowset = "turns" -> WithTurns
    [] rowset = "proposals" -> WithProposals

\* The session's row, read before its parts, is there.
ReadPage ==
  /\ page.read < Len(PageReads)
  /\ page.read = 0 => created /\ ~Deleted
  /\ page' = [With(PageReads[page.read + 1]) EXCEPT !.read = page.read + 1]
  /\ UNCHANGED <<rows, stream, said, stopping, broken, notes, faults>>

ClosePage ==
  /\ page.read = Len(PageReads)
  /\ page' = NoPage
  /\ UNCHANGED <<rows, stream, said, stopping, broken, notes, faults>>

(***************************************************************************)
(* The specification.                                                      *)
(***************************************************************************)
StreamStep(t) ==
  \/ \E w \in Writers : Delta(t, w)
  \/ \E tool \in Tools : ToolCall(t, tool)
  \/ EndStep(t) \/ Break(t)
  \/ CreateProposal(t) \/ WriteToolResult(t)
  \/ Flush(t)
  \/ FinishRow(t) \/ FinishPart(t) \/ FinishDeleted(t)

Next ==
  \/ CreateSession
  \/ \E t \in Turns : StartTurn(t) \/ StreamStep(t) \/ StopTurn(t)
  \/ StopRow \/ StopPart \/ StopDeleted
  \/ Refresh \/ RecordDirectEdit \/ DeleteReport
  \/ Crash
  \/ ReadPage \/ ClosePage

Spec == Init /\ [][Next]_vars

(***************************************************************************)
(* Properties.                                                             *)
(***************************************************************************)
\* A stream that has returned and none of whose statements failed has left all
\* that it heard on record, however its turn ended: completed, failed, stopped
\* or disconnected (the forced flushes of StreamTurn and of its fail).  Of a part
\* that was deleted nothing is asked.
ReturnedTurnsKeepWhatTheyHeard ==
  \A t \in Turns \ broken, w \in Writers :
    LET s == stream[t]
    IN At(t, {"returned"}) /\ s.heard[w] # <<>> /\ s.id[w] \notin 1..gone => part[s.id[w]].content = s.heard[w]

Of(t, kind) == {i \in DOMAIN part : part[i].turn = t /\ part[i].kind = kind}
Answers(j, i) == part[j].content = part[i].content /\ part[j].of = part[i].of

\* The results of a completed turn are the results of its calls, each once,
\* after its call and in the order of the calls (the loop over
\* result.ToolCalls).
CompletedTurnsAnswerTheirCalls ==
  \A t \in Turns : turn[t] = "completed" =>
    /\ \A i \in Of(t, "call") : \E j \in Of(t, "result") : Answers(j, i)
    /\ \A j \in Of(t, "result") : \E i \in Of(t, "call") : i < j /\ Answers(j, i)
    /\ \A i, k \in Of(t, "call"), j, l \in Of(t, "result") :
         Answers(j, i) /\ Answers(l, k) => (i < k <=> j < l)

\* A proposal cites the query results that were on record: all that preceded the
\* call for the proposal, of its turn, of other turns and refreshed (what the
\* model was given, engine.go:446-447, is among them), those its turn was given
\* later, for calls of the same step, and none that came after its own result
\* (sessionToolResults, read in the transaction that creates the proposal).
QueryResults == {j \in DOMAIN part : part[j].kind = "result" /\ part[j].of \in Queries}

ProposalsCiteWhatWasRead ==
  \A p \in DOMAIN proposal :
    LET t == proposal[p].turn
        cites == proposal[p].cites
    IN \A i \in Of(t, "result"), k \in Of(t, "call") :
         part[i].proposal = p /\ k < i /\ Answers(i, k) =>
           /\ \A j \in QueryResults : j < k \/ (j < i /\ part[j].turn = t) => j \in cites
           /\ \A j \in cites : j \in QueryResults /\ j < i

\* The page, read piecemeal while turns run, is closed under its references: it
\* has the turn of every part and the proposal of every result it shows, and a
\* turn whose status part says it is over is not shown as working.  A page that
\* the report's deletion interrupts is not.
PageIsBacked ==
  page.read = Len(PageReads) /\ ~Deleted =>
    page.parts = {} /\ page.ended = {} /\ page.proposals = {}

\* The transcript only grows, but for the deletion of its report, which takes all
\* of it: a new part's sequence is beyond those of all the parts on record, a part
\* keeps its place, its turn and its kind, and a stored text only becomes longer,
\* whichever of two streams of the session writes it.
TranscriptOnlyGrows ==
  [][/\ OnRecord(part) \subseteq OnRecord(part)' \/ OnRecord(part)' = {}
     /\ \A i \in OnRecord(part) \intersect OnRecord(part)' :
          /\ [part'[i] EXCEPT !.content = <<>>, !.of = "none"]
               = [part[i] EXCEPT !.content = <<>>, !.of = "none"]
          /\ IsPrefix(part[i].content, part'[i].content)
          /\ part[i].of = part'[i].of \/ part[i].kind = "status"
     /\ \A i \in OnRecord(part)' \ OnRecord(part) :
          \A m \in SequencesOf(part) : m < part'[i].sequence]_<<part, gone>>

(***************************************************************************)
(* The inductive invariant.                                                *)
(***************************************************************************)
\* The parts are numbered without a gap, from one again after a deletion; without
\* a session there is nothing.
Place(i) == IF i > gone THEN i - gone ELSE i
PartsAreNumbered ==
  /\ ~created => part = <<>> /\ proposal = <<>> /\ \A t \in Turns : turn[t] = "none"
  /\ \A i \in DOMAIN part : part[i].sequence = Place(i)

\* What refers to a turn refers to one that began; what says that it is over,
\* or is about to, to one that is.
TurnsAreKnown ==
  /\ \A t \in Turns : turn[t] = "none" => stream[t] = NoStream
  /\ \A i \in DOMAIN part :
       /\ part[i].turn # Session => turn[part[i].turn] # "none"
       /\ part[i].kind = "status" => part[i].turn # Session
       /\ part[i].of \in Terminal => turn[part[i].turn] \in Terminal
  /\ \A t \in Turns : At(t, Closing) => stream[t].ending \in Terminal
  /\ \A t \in Turns : At(t, {"finishPart"}) => turn[t] \in Terminal
  /\ stopping.pc # "idle" => stopping.turn \in Turns /\ turn[stopping.turn] # "none"
  /\ stopping.pc = "part" => turn[stopping.turn] \in Terminal

\* A writer's part is its own, and has what the writer heard or, until it is
\* flushed, a beginning of it.
Finishing == {"finishRow", "finishPart", "returned"}
OwnsItsPart(t, w) ==
  LET heard == stream[t].heard[w]
      i == stream[t].id[w]
  IN /\ Len(heard) <= said
     /\ i # 0 =>
          /\ i \in Of(t, w) /\ IsPrefix(part[i].content, heard)
          /\ t \notin broken /\ At(t, Finishing) /\ i > gone => part[i].content = heard
     /\ i = 0 /\ t \notin broken => heard = <<>>

WritersOwnTheirParts == \A t \in Turns, w \in Writers : OwnsItsPart(t, w)

Asked(t, k, i) == part[i].content = <<stream[t].calls[k].n>> /\ part[i].of = stream[t].calls[k].tool

\* A proposal is of the turn that answers with it; until the answer is stored it
\* cites the results that preceded its call and those of its turn.
ProposalsAreKnown ==
  /\ \A i \in DOMAIN part : part[i].proposal \in {0} \union DOMAIN proposal
  /\ \A t \in Turns :
       LET s == stream[t]
       IN /\ At(t, {"tools", "answering"}) => s.calls # <<>>
          /\ At(t, {"answering"}) =>
               /\ s.proposed \in DOMAIN proposal /\ Head(s.calls).tool = "propose"
               /\ proposal[s.proposed].turn = t
               /\ proposal[s.proposed].cites \subseteq QueryResults
               /\ \A j \in QueryResults :
                    part[j].turn = t \/ (\E k \in Of(t, "call") : Asked(t, 1, k) /\ j < k)
                    => j \in proposal[s.proposed].cites

\* The calls of a turn, and the results of them, are stored in the order of
\* their numbers.
NumbersItsCalls(t) ==
  /\ \A i \in Of(t, "call") \union Of(t, "result") : \E n \in 1..said : part[i].content = <<n>>
  /\ \A i, k \in Of(t, "call") : i < k => part[i].content[1] < part[k].content[1]
  /\ \A j, l \in Of(t, "result") : j < l => part[j].content[1] < part[l].content[1]
  /\ \A j \in Of(t, "result") : \E i \in Of(t, "call") : i < j /\ Answers(j, i)

CallsAreNumbered == \A t \in Turns : NumbersItsCalls(t)

Answered(t, i) == \E j \in Of(t, "result") : Answers(j, i)

\* While a stream runs, the calls it holds are the ones without a result, the
\* latest; when it has ended well there are none.
AnswersItsCalls(t) ==
  LET pending == DOMAIN stream[t].calls
  IN /\ At(t, Running) =>
          /\ turn[t] # "completed"
          /\ \A i \in Of(t, "call") : Answered(t, i) \/ \E k \in pending : Asked(t, k, i)
          /\ \A k \in pending :
               /\ \E i \in Of(t, "call") : Asked(t, k, i)
               /\ \A j \in Of(t, "result") : part[j].content[1] < stream[t].calls[k].n
               /\ \A l \in pending : k < l => stream[t].calls[k].n < stream[t].calls[l].n
     /\ turn[t] = "completed" \/ (At(t, Closing) /\ stream[t].ending = "completed") =>
          \A i \in Of(t, "call") : Answered(t, i)

CallsAreAnswered == \A t \in Turns : AnswersItsCalls(t)

\* What the page still owes is on record, unless the report was deleted.
PageFollows ==
  /\ page.read = 0 => page = NoPage
  /\ ~Deleted =>
       /\ page.read > 0 => page.proposals \subseteq DOMAIN proposal
       /\ page.read = 1 => /\ \A t \in page.parts : turn[t] # "none"
                           /\ \A t \in page.ended : turn[t] \in Terminal
       /\ page.read > 1 => page.parts = {} /\ page.ended = {}
       /\ page.read > 2 => page.proposals = {}

IndInv ==
  /\ TypeOK
  /\ PartsAreNumbered
  /\ TurnsAreKnown
  /\ WritersOwnTheirParts
  /\ ProposalsAreKnown /\ ProposalsCiteWhatWasRead
  /\ CallsAreNumbered /\ CallsAreAnswered
  /\ PageFollows

\* The tables are of their types, and a completed turn has answered its calls.
WellFormed == IndInv /\ CompletedTurnsAnswerTheirCalls

\* Not kept by the code, CONTEXT.md:252-253: what a turn said, called and was answered is on record in
\* the order in which it happened.
PartsFollowWhatHappened ==
  \A i \in DOMAIN part, j \in DOMAIN part :
    /\ i < j /\ part[i].turn = part[j].turn
    /\ {part[i].kind, part[j].kind} \subseteq Writers \union {"call"}
    => \A k \in DOMAIN part[i].content, l \in DOMAIN part[j].content :
         part[i].content[k] < part[j].content[l]
=============================================================================
