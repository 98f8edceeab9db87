-------------------------- MODULE GenerationTurns --------------------------
(***************************************************************************)
(* The life of a generation turn: internal/engine plus the stop and        *)
(* archive routes.  A POST .../turns request prepares a turn row, streams  *)
(* the model's steps, executes the tool calls and closes the turn; a stop  *)
(* request, an archive request, a regeneration of the source draft and the *)
(* acceptance of a proposal may run between any two of its statements.     *)
(*                                                                         *)
(* Granularity: serve opens SQLite with one connection, so one SQL         *)
(* statement outside a transaction, or one InTx / InImmediateTx body, is   *)
(* one action.  Message parts are reduced to the status part and the error *)
(* part of a turn; text, reasoning and tool parts are left out.            *)
(***************************************************************************)
EXTENDS Integers, FiniteSets

CONSTANTS
  Sessions,       \* generation sessions of one report variant
  Requests,       \* slots for concurrent POST .../turns requests
  Stoppers,       \* slots for concurrent POST .../stop requests
  Archivers,      \* slots for concurrent POST .../archive requests
  MaxTurn,        \* bound: turn rows ever inserted
  MaxProposal,    \* bound: proposal rows ever inserted
  MaxRevision,    \* bound: source revisions of the variant
  MaxSteps,       \* maxSteps in engine.go (6)
  MaxCalls,       \* bound: propose calls in one model step
  MaxFaults       \* bound: failed SQL statements and crashes

ASSUME BoundsAssumption ==
  /\ Sessions # {}
  /\ MaxTurn \in Nat /\ MaxProposal \in Nat /\ MaxRevision \in Nat \ {0}
  /\ MaxSteps \in Nat \ {0} /\ MaxCalls \in Nat /\ MaxFaults \in Nat

VARIABLES
  revision,       \* report_variants.source_revision
  session,        \* generation_sessions: status and source_revision
  turn,           \* generation_turns: session and status
  lastTurn,       \* AUTOINCREMENT counter of generation_turns
  statusPart,     \* the turn's part of type 'status'
  errorPart,      \* whether the turn has a part of type 'error'
  proposal,       \* generation_proposals: session, turn, status, source_revision
  lastProposal,   \* AUTOINCREMENT counter of generation_proposals
  pc,             \* where each turns request is
  sessionOf,      \* the session of each turns request
  turnOf,         \* the turn of each turns request
  step,           \* model step of the loop in StreamTurn
  calls,          \* propose calls of this step still to execute
  requested,      \* requestedPropose
  proposed,       \* StreamTurn's local: this turn has its proposal
  ending,         \* status being written by finishGenerationTurn
  cancelled,      \* the stream's context is cancelled
  gone,           \* the client of the stream is gone
  registry,       \* Registry.cancels: turns with a controller
  stopPc,         \* where each stop request is
  stopTurn,       \* the turn of each stop request
  archiving,      \* archive requests past their check, with their session
  faults          \* failed statements and crashes so far

tables == <<revision, session, turn, lastTurn, statusPart, errorPart,
            proposal, lastProposal>>
loopVars == <<step, calls, requested, proposed>>
streamVars == <<pc, sessionOf, turnOf, loopVars, ending, cancelled, gone, registry>>
stopVars == <<stopPc, stopTurn>>
vars == <<tables, streamVars, stopVars, archiving, faults>>

NoTurn == 0
TurnId == 1..MaxTurn
ProposalId == 1..MaxProposal
Terminal == {"completed", "aborted", "failed"}
TurnStatus == {"none", "working"} \cup Terminal
Streaming == {"running", "tools", "closing"}
Finishing == {"finish", "finishPart", "finishError"}
Owning == {"prepared", "return"} \cup Streaming \cup Finishing

TablesType ==
  /\ revision \in 1..MaxRevision
  /\ session \in [Sessions -> [status : {"active", "archived"}, rev : 1..MaxRevision]]
  /\ lastTurn \in 0..MaxTurn
  /\ turn \in [TurnId -> [session : Sessions, status : TurnStatus]]
  /\ statusPart \in [TurnId -> TurnStatus]
  /\ errorPart \in [TurnId -> BOOLEAN]
  /\ lastProposal \in 0..MaxProposal
  /\ proposal \in [ProposalId ->
       [session : Sessions, turn : TurnId \cup {NoTurn}, rev : 0..MaxRevision,
        status : {"none", "pending", "accepted", "superseded"}]]

LoopType ==
  /\ step \in [Requests -> 0..MaxSteps]
  /\ calls \in [Requests -> 0..MaxCalls]
  /\ requested \in [Requests -> BOOLEAN]
  /\ proposed \in [Requests -> BOOLEAN]

StreamsType ==
  /\ pc \in [Requests -> {"idle", "loaded"} \cup Owning]
  /\ sessionOf \in [Requests -> Sessions]
  /\ turnOf \in [Requests -> TurnId \cup {NoTurn}]
  /\ ending \in [Requests -> {"none"} \cup Terminal]
  /\ cancelled \in [Requests -> BOOLEAN]
  /\ gone \in [Requests -> BOOLEAN]
  /\ registry \subseteq TurnId

StopsType ==
  /\ stopPc \in [Stoppers -> {"idle", "cancel", "finish", "finishPart"}]
  /\ stopTurn \in [Stoppers -> TurnId \cup {NoTurn}]
  /\ archiving \subseteq Archivers \X Sessions

TypeOK ==
  TablesType /\ LoopType /\ StreamsType /\ StopsType /\ faults \in 0..MaxFaults

AnySession == CHOOSE s \in Sessions : TRUE

Init ==
  /\ revision = 1
  /\ session = [s \in Sessions |-> [status |-> "active", rev |-> 1]]
  /\ lastTurn = 0
  /\ turn = [t \in TurnId |-> [session |-> AnySession, status |-> "none"]]
  /\ statusPart = [t \in TurnId |-> "none"]
  /\ errorPart = [t \in TurnId |-> FALSE]
  /\ lastProposal = 0
  /\ proposal = [p \in ProposalId |-> [session |-> AnySession, turn |-> NoTurn,
                                       rev |-> 0, status |-> "none"]]
  /\ pc = [r \in Requests |-> "idle"]
  /\ sessionOf = [r \in Requests |-> AnySession]
  /\ turnOf = [r \in Requests |-> NoTurn]
  /\ step = [r \in Requests |-> 0]
  /\ calls = [r \in Requests |-> 0]
  /\ requested = [r \in Requests |-> FALSE]
  /\ proposed = [r \in Requests |-> FALSE]
  /\ ending = [r \in Requests |-> "none"]
  /\ cancelled = [r \in Requests |-> FALSE]
  /\ gone = [r \in Requests |-> FALSE]
  /\ registry = {}
  /\ stopPc = [k \in Stoppers |-> "idle"]
  /\ stopTurn = [k \in Stoppers |-> NoTurn]
  /\ archiving = {}
  /\ faults = 0

(***************************************************************************)
(* Helpers.                                                                *)
(***************************************************************************)
SourceIsCurrent(s) == session[s].rev = revision

\* Mutant: the check for a turn in progress is dropped.
HasWorkingTurnUnchecked(s) == FALSE

HasWorkingTurn(s) ==
  \E t \in TurnId : turn[t].session = s /\ turn[t].status = "working"

Goto(r, from, to) == pc[r] = from /\ pc' = [pc EXCEPT ![r] = to]


PartEnded(t, status) == [statusPart EXCEPT ![t] = status]

\* An SQL statement returns an error, or the process dies: both are counted.
Fault == faults < MaxFaults /\ faults' = faults + 1

(***************************************************************************)
(* PrepareTurn: load the session, then insert the turn in one transaction. *)
(***************************************************************************)
\* loadDetail and the checks made on the row it returned: the status that
\* startGenerationTurn tests is the one read here.
LoadSession(r, s) ==
  /\ Goto(r, "idle", "loaded")
  /\ SourceIsCurrent(s)
  /\ session[s].status = "active"
  /\ sessionOf' = [sessionOf EXCEPT ![r] = s]
  /\ UNCHANGED <<tables, turnOf, loopVars, ending, cancelled, gone, registry,
                 stopVars, archiving, faults>>

\* The transaction of startGenerationTurn; the first part inserted after the
\* user's message is the status part.
StartTurn(r) ==
  /\ Goto(r, "loaded", "prepared")
  /\ SourceIsCurrent(sessionOf[r])
  /\ ~HasWorkingTurn(sessionOf[r])
  /\ lastTurn < MaxTurn
  /\ lastTurn' = lastTurn + 1
  /\ turn' = [turn EXCEPT ![lastTurn + 1] =
                [session |-> sessionOf[r], status |-> "working"]]
  /\ statusPart' = [statusPart EXCEPT ![lastTurn + 1] = "working"]
  /\ turnOf' = [turnOf EXCEPT ![r] = lastTurn + 1]
  /\ UNCHANGED <<revision, session, errorPart, proposal, lastProposal, sessionOf,
                 loopVars, ending, cancelled, gone, registry, stopVars, archiving, faults>>

\* SOURCE_REVISION_CONFLICT or TURN_IN_PROGRESS: the transaction is rolled back.
RejectTurn(r) ==
  /\ Goto(r, "loaded", "idle")
  /\ ~SourceIsCurrent(sessionOf[r]) \/ HasWorkingTurn(sessionOf[r])
  /\ UNCHANGED <<tables, sessionOf, turnOf, loopVars, ending, cancelled, gone, registry,
                 stopVars, archiving, faults>>

\* The second loadDetail fails after the turn is committed: the request is
\* answered with an error and nobody streams the turn.
ReloadFails(r) ==
  /\ Goto(r, "prepared", "idle")
  /\ Fault
  /\ turnOf' = [turnOf EXCEPT ![r] = NoTurn]
  /\ UNCHANGED <<tables, sessionOf, loopVars, ending, cancelled, gone, registry,
                 stopVars, archiving>>

(***************************************************************************)
(* StreamTurn: register the controller, loop over model steps, finish.     *)
(***************************************************************************)
RegisterStream(r) ==
  /\ Goto(r, "prepared", "running")
  /\ registry' = registry \cup {turnOf[r]}
  /\ step' = [step EXCEPT ![r] = 1]
  /\ UNCHANGED <<tables, sessionOf, turnOf, calls, requested, proposed, ending,
                 cancelled, gone, stopVars, archiving, faults>>

\* RunStep returns a result: n propose calls, q says whether it made history
\* queries; a step without tool calls ends the loop.  It may do so even after
\* the context was cancelled, when the response had been read by then.
ProviderReturns(r) ==
  \E n \in 0..MaxCalls, q \in BOOLEAN :
    /\ Goto(r, "running", IF n = 0 /\ ~q THEN "closing" ELSE "tools")
    /\ calls' = [calls EXCEPT ![r] = n]
    /\ requested' = [requested EXCEPT ![r] = (n > 0)]
    /\ UNCHANGED <<tables, sessionOf, turnOf, step, proposed, ending, cancelled, gone,
                   registry, stopVars, archiving, faults>>

\* createGenerationProposal commits: it re-reads the session, the variant and
\* the turn, supersedes the pending proposal and inserts the new one.
NoProposalOf(t) == \A p \in 1..lastProposal : proposal[p].turn # t

\* Mutant: a turn that has ended meanwhile is not refused.
MayProposeLate(t, s) == SourceIsCurrent(s) /\ turn[t].session = s /\ NoProposalOf(t)

MayPropose(t, s) ==
  /\ SourceIsCurrent(s)
  /\ turn[t].status = "working" /\ turn[t].session = s
  /\ NoProposalOf(t)

\* Mutant: nothing is superseded.
SupersedesNothing(s, p) == FALSE

Supersedes(s, p) == proposal[p].session = s /\ proposal[p].status = "pending"

ProposeFinal(r) ==
  /\ pc[r] = "tools" /\ calls[r] > 0
  /\ ~proposed[r]
  /\ MayPropose(turnOf[r], sessionOf[r])
  /\ lastProposal < MaxProposal
  /\ lastProposal' = lastProposal + 1
  /\ proposal' = [p \in ProposalId |->
       IF p = lastProposal + 1
         THEN [session |-> sessionOf[r], turn |-> turnOf[r],
               rev |-> session[sessionOf[r]].rev, status |-> "pending"]
       ELSE IF Supersedes(sessionOf[r], p)
         THEN [proposal[p] EXCEPT !.status = "superseded"]
       ELSE proposal[p]]
  /\ proposed' = [proposed EXCEPT ![r] = TRUE]
  /\ calls' = [calls EXCEPT ![r] = @ - 1]
  /\ UNCHANGED <<revision, session, turn, lastTurn, statusPart, errorPart, pc, sessionOf,
                 turnOf, step, requested, ending, cancelled, gone, registry,
                 stopVars, archiving, faults>>

\* The call is answered with a tool error: invalid input, a second proposal of
\* the turn, or a refusal of createGenerationProposal.
ProposeRefused(r) ==
  /\ pc[r] = "tools" /\ calls[r] > 0
  /\ calls' = [calls EXCEPT ![r] = @ - 1]
  /\ UNCHANGED <<tables, pc, sessionOf, turnOf, step, requested, proposed, ending,
                 cancelled, gone, registry, stopVars, archiving, faults>>


\* All calls executed: stop after a propose request or at the step limit.
LastStep(r) == requested[r] \/ step[r] >= MaxSteps

NextStep(r) ==
  /\ calls[r] = 0
  /\ \/ /\ LastStep(r)
        /\ Goto(r, "tools", "closing")
        /\ UNCHANGED step
     \/ /\ ~LastStep(r)
        /\ Goto(r, "tools", "running")
        /\ step' = [step EXCEPT ![r] = @ + 1]
  /\ UNCHANGED <<tables, sessionOf, turnOf, calls, requested, proposed, ending, cancelled,
                 gone, registry, stopVars, archiving, faults>>

\* The loop is left: its locals are not read any more.
LeaveLoop(r) ==
  /\ step' = [step EXCEPT ![r] = 0]
  /\ calls' = [calls EXCEPT ![r] = 0]
  /\ requested' = [requested EXCEPT ![r] = FALSE]
  /\ proposed' = [proposed EXCEPT ![r] = FALSE]

\* fail(): aborted when the context is cancelled or the client gone.
FailStatus(r) == IF cancelled[r] \/ gone[r] THEN "aborted" ELSE "failed"

\* Mutant: the provider runs on the request's context, which a stop does not cancel.
ProviderSeesDisconnect(r) == gone[r]

ProviderSeesCancel(r) == cancelled[r]

\* The provider honours the cancelled context, or a send finds the client gone.
StreamAborts(r) ==
  /\ \/ Goto(r, "running", "finish") /\ ProviderSeesCancel(r)
     \/ Goto(r, "tools", "finish") /\ gone[r]
  /\ ending' = [ending EXCEPT ![r] = "aborted"]
  /\ LeaveLoop(r)
  /\ UNCHANGED <<tables, sessionOf, turnOf, cancelled, gone, registry,
                 stopVars, archiving, faults>>

\* The provider, a part write or the last flush fails for another reason.
StreamErrs(r) ==
  /\ \E from \in Streaming : Goto(r, from, "finish")
  /\ ending' = [ending EXCEPT ![r] = FailStatus(r)]
  /\ LeaveLoop(r)
  /\ UNCHANGED <<tables, sessionOf, turnOf, cancelled, gone, registry,
                 stopVars, archiving, faults>>

\* Both writers are flushed: finish as completed, whatever happened meanwhile.
StreamCompletes(r) ==
  /\ Goto(r, "closing", "finish")
  /\ ending' = [ending EXCEPT ![r] = "completed"]
  /\ LeaveLoop(r)
  /\ UNCHANGED <<tables, sessionOf, turnOf, cancelled, gone, registry,
                 stopVars, archiving, faults>>

\* r.Context() is done, or a write to the client fails.
ClientDisconnects(r) ==
  /\ pc[r] \in Streaming \cup Finishing
  /\ ~gone[r]
  /\ gone' = [gone EXCEPT ![r] = TRUE]
  /\ cancelled' = [cancelled EXCEPT ![r] = TRUE]
  /\ UNCHANGED <<tables, pc, sessionOf, turnOf, loopVars, ending, registry,
                 stopVars, archiving, faults>>

(***************************************************************************)
(* finishGenerationTurn, called by the stream: the turn row, the status    *)
(* part and the error part are separate statements outside a transaction,  *)
(* and the row is overwritten whatever its status is by then.              *)
(***************************************************************************)
\* Mutant: the row is written with the request's context, cancelled by a disconnect.
FinishTurnOnRequestContext(r) ==
  /\ Goto(r, "finish", "finishPart")
  /\ turn' = IF gone[r] THEN turn ELSE [turn EXCEPT ![turnOf[r]].status = ending[r]]
  /\ UNCHANGED <<revision, session, lastTurn, statusPart, errorPart, proposal, lastProposal,
                 sessionOf, turnOf, loopVars, ending, cancelled, gone, registry,
                 stopVars, archiving, faults>>

FinishTurn(r) ==
  /\ Goto(r, "finish", "finishPart")
  /\ turn' = [turn EXCEPT ![turnOf[r]].status = ending[r]]
  /\ UNCHANGED <<revision, session, lastTurn, statusPart, errorPart, proposal, lastProposal,
                 sessionOf, turnOf, loopVars, ending, cancelled, gone, registry,
                 stopVars, archiving, faults>>

FinishStatusPart(r) ==
  /\ Goto(r, "finishPart", IF ending[r] = "failed" THEN "finishError" ELSE "return")
  /\ statusPart' = PartEnded(turnOf[r], ending[r])
  /\ UNCHANGED <<revision, session, turn, lastTurn, errorPart, proposal, lastProposal,
                 sessionOf, turnOf, loopVars, ending, cancelled, gone, registry,
                 stopVars, archiving, faults>>

FinishErrorPart(r) ==
  /\ Goto(r, "finishError", "return")
  /\ errorPart' = [errorPart EXCEPT ![turnOf[r]] = TRUE]
  /\ UNCHANGED <<revision, session, turn, lastTurn, statusPart, proposal, lastProposal,
                 sessionOf, turnOf, loopVars, ending, cancelled, gone, registry,
                 stopVars, archiving, faults>>

\* A statement of finishGenerationTurn fails, perhaps the read that follows the
\* status part: a completing stream tries again through fail(), which ignores
\* the errors of its own attempt.
FinishFails(r) ==
  /\ Fault
  /\ \E from \in Finishing :
       Goto(r, from, IF ending[r] = "completed" THEN "finish" ELSE "return")
  /\ ending' = [ending EXCEPT ![r] = IF @ = "completed" THEN FailStatus(r) ELSE @]
  /\ \/ UNCHANGED statusPart
     \/ /\ pc[r] = "finishPart"
        /\ statusPart' = PartEnded(turnOf[r], ending[r])
  /\ UNCHANGED <<revision, session, turn, lastTurn, errorPart, proposal, lastProposal,
                 sessionOf, turnOf, loopVars, cancelled, gone, registry,
                 stopVars, archiving>>

\* StreamTurn returns: the deferred Registry.delete; its locals are gone.
StreamReturns(r) ==
  /\ Goto(r, "return", "idle")
  /\ registry' = registry \ {turnOf[r]}
  /\ turnOf' = [turnOf EXCEPT ![r] = NoTurn]
  /\ ending' = [ending EXCEPT ![r] = "none"]
  /\ cancelled' = [cancelled EXCEPT ![r] = FALSE]
  /\ gone' = [gone EXCEPT ![r] = FALSE]
  /\ UNCHANGED <<tables, sessionOf, loopVars, stopVars, archiving, faults>>

(***************************************************************************)
(* StopTurn.  It reads the turn, cancels the controller when the registry  *)
(* has one, and finishes the turn as aborted without reading it again.     *)
(***************************************************************************)
StopRead(k, t) ==
  /\ stopPc[k] = "idle"
  /\ turn[t].status = "working"
  /\ stopPc' = [stopPc EXCEPT ![k] = "cancel"]
  /\ stopTurn' = [stopTurn EXCEPT ![k] = t]
  /\ UNCHANGED <<tables, streamVars, archiving, faults>>

\* Mutant: the stop gives up when the registry has no controller for the turn.
StopCancelRegistered(k) ==
  /\ stopPc[k] = "cancel"
  /\ stopPc' = [stopPc EXCEPT ![k] = IF stopTurn[k] \in registry THEN "finish" ELSE "idle"]
  /\ cancelled' = [r \in Requests |->
       cancelled[r] \/ (stopTurn[k] \in registry /\ turnOf[r] = stopTurn[k])]
  /\ UNCHANGED <<tables, pc, sessionOf, turnOf, loopVars, ending, gone, registry, stopTurn,
                 archiving, faults>>

StopCancel(k) ==
  /\ stopPc[k] = "cancel"
  /\ stopPc' = [stopPc EXCEPT ![k] = "finish"]
  /\ cancelled' = [r \in Requests |->
       cancelled[r] \/ (stopTurn[k] \in registry /\ turnOf[r] = stopTurn[k])]
  /\ UNCHANGED <<tables, pc, sessionOf, turnOf, loopVars, ending, gone, registry, stopTurn,
                 archiving, faults>>

StopFinishTurn(k) ==
  /\ stopPc[k] = "finish"
  /\ stopPc' = [stopPc EXCEPT ![k] = "finishPart"]
  /\ turn' = [turn EXCEPT ![stopTurn[k]].status = "aborted"]
  /\ UNCHANGED <<revision, session, lastTurn, statusPart, errorPart, proposal, lastProposal,
                 streamVars, stopTurn, archiving, faults>>

StopFinishPart(k) ==
  /\ stopPc[k] = "finishPart"
  /\ stopPc' = [stopPc EXCEPT ![k] = "idle"]
  /\ stopTurn' = [stopTurn EXCEPT ![k] = NoTurn]
  /\ statusPart' = PartEnded(stopTurn[k], "aborted")
  /\ UNCHANGED <<revision, session, turn, lastTurn, errorPart, proposal, lastProposal,
                 streamVars, archiving, faults>>

\* A statement of the stop request fails: STOP_ERROR, nothing is undone.
StopFails(k) ==
  /\ stopPc[k] \in {"finish", "finishPart"}
  /\ Fault
  /\ stopPc' = [stopPc EXCEPT ![k] = "idle"]
  /\ stopTurn' = [stopTurn EXCEPT ![k] = NoTurn]
  /\ UNCHANGED <<tables, streamVars, archiving>>

(***************************************************************************)
(* archiveSessionHandler: the check and the update are two statements.     *)
(***************************************************************************)
ArchiveCheck(a, s) ==
  /\ \A u \in Sessions : <<a, u>> \notin archiving
  /\ ~HasWorkingTurn(s)
  /\ archiving' = archiving \cup {<<a, s>>}
  /\ UNCHANGED <<tables, streamVars, stopVars, faults>>

ArchiveWrite(a, s) ==
  /\ <<a, s>> \in archiving
  /\ session' = [session EXCEPT ![s].status = "archived"]
  /\ archiving' = archiving \ {<<a, s>>}
  /\ UNCHANGED <<revision, turn, lastTurn, statusPart, errorPart, proposal, lastProposal,
                 streamVars, stopVars, faults>>

(***************************************************************************)
(* The other writers of these rows, each one transaction: the source draft *)
(* is regenerated, the user accepts a proposal.                            *)
(***************************************************************************)
RegenerateSource ==
  /\ revision < MaxRevision
  /\ revision' = revision + 1
  /\ UNCHANGED <<session, turn, lastTurn, statusPart, errorPart, proposal, lastProposal,
                 streamVars, stopVars, archiving, faults>>

AcceptProposal(p) ==
  /\ p <= lastProposal
  /\ proposal[p].status # "superseded"
  /\ SourceIsCurrent(proposal[p].session)
  /\ proposal[p].rev = session[proposal[p].session].rev
  /\ proposal' = [proposal EXCEPT ![p].status = "accepted"]
  /\ UNCHANGED <<revision, session, turn, lastTurn, statusPart, errorPart, lastProposal,
                 streamVars, stopVars, archiving, faults>>

\* The process dies and is started again: the tables survive, the requests,
\* the registry and the contexts do not.  Nothing repairs turns at start.
Crash ==
  /\ Fault
  /\ pc' = [r \in Requests |-> "idle"]
  /\ turnOf' = [r \in Requests |-> NoTurn]
  /\ step' = [r \in Requests |-> 0]
  /\ calls' = [r \in Requests |-> 0]
  /\ requested' = [r \in Requests |-> FALSE]
  /\ proposed' = [r \in Requests |-> FALSE]
  /\ ending' = [r \in Requests |-> "none"]
  /\ cancelled' = [r \in Requests |-> FALSE]
  /\ gone' = [r \in Requests |-> FALSE]
  /\ registry' = {}
  /\ stopPc' = [k \in Stoppers |-> "idle"]
  /\ stopTurn' = [k \in Stoppers |-> NoTurn]
  /\ archiving' = {}
  /\ UNCHANGED <<tables, sessionOf>>

-----------------------------------------------------------------------------
StreamStep(r) ==
  \/ RegisterStream(r) \/ ProviderReturns(r)
  \/ ProposeFinal(r) \/ ProposeRefused(r) \/ NextStep(r)
  \/ StreamAborts(r) \/ StreamErrs(r) \/ StreamCompletes(r)
  \/ FinishTurn(r) \/ FinishStatusPart(r) \/ FinishErrorPart(r) \/ FinishFails(r)
  \/ StreamReturns(r)

StopStep(k) ==
  \/ StopCancel(k) \/ StopFinishTurn(k) \/ StopFinishPart(k) \/ StopFails(k)

Next ==
  \/ \E r \in Requests, s \in Sessions : LoadSession(r, s)
  \/ \E r \in Requests : StartTurn(r) \/ RejectTurn(r) \/ ReloadFails(r)
                         \/ StreamStep(r) \/ ClientDisconnects(r)
  \/ \E k \in Stoppers, t \in TurnId : StopRead(k, t)
  \/ \E k \in Stoppers : StopStep(k)
  \/ \E a \in Archivers, s \in Sessions : ArchiveCheck(a, s) \/ ArchiveWrite(a, s)
  \/ \E p \in ProposalId : AcceptProposal(p)
  \/ RegenerateSource
  \/ Crash

Spec == Init /\ [][Next]_vars

(***************************************************************************)
(* Fairness.  The statements of a running handler are executed, and a      *)
(* provider call returns once its context is cancelled (aiclient binds     *)
(* every HTTP call to it).  Nothing makes a provider answer: aiclient sets *)
(* no timeout, so ProviderReturns is not fair.                             *)
(***************************************************************************)
StreamProgress(r) ==
  \/ RegisterStream(r) \/ ProposeFinal(r) \/ ProposeRefused(r) \/ NextStep(r)
  \/ StreamAborts(r) \/ StreamCompletes(r)
  \/ FinishTurn(r) \/ FinishStatusPart(r) \/ FinishErrorPart(r) \/ StreamReturns(r)

StopProgress(k) == StopCancel(k) \/ StopFinishTurn(k) \/ StopFinishPart(k)

FairSpec ==
  /\ Spec
  /\ \A r \in Requests : WF_vars(StreamProgress(r))
  /\ \A k \in Stoppers : WF_vars(StopProgress(k))

-----------------------------------------------------------------------------
(***************************************************************************)
(* Properties.                                                             *)
(***************************************************************************)

\* A session never has two turns in progress, however requests, stops, late
\* streams and restarts interleave: startGenerationTurn's re-check inside the
\* BEGIN IMMEDIATE transaction, and no writer brings an ended turn back.
OneWorkingTurn ==
  \A t, u \in TurnId :
    turn[t].status = "working" /\ turn[u].status = "working" /\ t # u
      => turn[t].session # turn[u].session

\* The proposals of a session follow the order of its turns and no turn has
\* two: a stream that goes on after its turn was stopped cannot slip a proposal
\* behind those of the next turn (createGenerationProposal's turn checks).
ProposalsFollowTurns ==
  \A p, q \in 1..lastProposal :
    p < q /\ proposal[p].session = proposal[q].session
      => proposal[p].turn < proposal[q].turn

\* A pending proposal is the latest one of its session: the preview the user
\* reviews is never an older one left behind by a supersede.
PendingIsLatest ==
  \A p, q \in 1..lastProposal :
    p < q /\ proposal[p].session = proposal[q].session
      => proposal[p].status # "pending"

Owned(t) == \E r \in Requests : turnOf[r] = t

\* Without a failed statement or a crash no turn is left in progress with
\* nobody streaming it, whatever stops, disconnects and provider errors do.
NoHangingTurn ==
  \A t \in TurnId : turn[t].status = "working" /\ ~Owned(t) => faults > 0

BeingFinished(t) ==
  \/ \E r \in Requests : turnOf[r] = t /\ pc[r] \in Finishing
  \/ \E k \in Stoppers : stopTurn[k] = t /\ stopPc[k] = "finishPart"

\* Once nobody is between the statements of finishGenerationTurn, the status
\* part says "working" exactly when the turn does (they may still disagree on
\* which end it was), unless a statement failed or the process died.
StatusPartSettles ==
  \A t \in TurnId :
    ~BeingFinished(t) /\ faults = 0
      => (statusPart[t] = "working" <=> turn[t].status = "working")

\* An ended turn stays ended, and gets no proposal any more, although its
\* stream may still be executing tool calls.
KeepsEndedTurns ==
  \A t \in TurnId :
    turn[t].status \in Terminal
      => /\ turn'[t].status \in Terminal
         /\ \A p \in 1..lastProposal' : proposal'[p].turn = t => p <= lastProposal

EndedTurnIsOver == [][KeepsEndedTurns]_vars

\* A stream whose context is cancelled returns, even while it is executing
\* tools with the uncancelled store context.
CancelledStreamReturns ==
  \A r \in Requests : cancelled[r] ~> pc[r] = "idle"

\* Once statements stop failing, a stop request ends its turn, also a turn that
\* no stream owns any more after a crash: the only way to unblock its session.
StopEndsTurn ==
  \A k \in Stoppers, t \in TurnId :
    (stopPc[k] = "cancel" /\ stopTurn[k] = t /\ faults = MaxFaults)
      ~> turn[t].status # "working"

\* The turns of a session, seen without their streams: one holder at a time,
\* one proposal each, the latest proposal under review.
Exclusion == INSTANCE TurnExclusion WITH
  begun    <- lastTurn,
  active   <- [s \in Sessions |->
                {t \in TurnId : turn[t].session = s /\ turn[t].status = "working"}],
  answered <- {proposal[p].turn : p \in 1..lastProposal},
  preview  <- [s \in Sessions |-> {proposal[p].turn : p \in
                {q \in 1..lastProposal : proposal[q].session = s
                                         /\ proposal[q].status = "pending"}}]

ImplementsExclusion == Exclusion!Spec

\* The sessions, seen without their turns: what ReportVariants takes for granted
\* of a session.
ProposalsOf(s, status) ==
  {p \in 1..lastProposal : proposal[p].session = s /\ proposal[p].status = status}

Review == INSTANCE SessionReview WITH
  opened   <- Sessions,
  current  <- {s \in Sessions : SourceIsCurrent(s)},
  last     <- lastProposal,
  pending  <- [s \in Sessions |-> ProposalsOf(s, "pending")],
  accepted <- [s \in Sessions |-> ProposalsOf(s, "accepted")]

ImplementsReview == Review!Spec

\* Both views of the sessions are kept by every step of a stream, a stop, an
\* archiving, a regeneration and an acceptance, and by a restart.
Implements == ImplementsExclusion /\ ImplementsReview

(***************************************************************************)
(* The inductive invariant: the safety invariants above and what they need *)
(* to be preserved by every step.                                          *)
(***************************************************************************)
RowsFollowCounter ==
  \A t \in TurnId : turn[t].status # "none" <=> t <= lastTurn

HoldersHaveRows ==
  /\ \A r \in Requests : IF pc[r] \in Owning THEN turnOf[r] \in 1..lastTurn
                                           ELSE turnOf[r] = NoTurn
  /\ \A k \in Stoppers : stopPc[k] # "idle" => stopTurn[k] \in 1..lastTurn

FinishersKnowTheirEnd ==
  \A r \in Requests : pc[r] \in Finishing => ending[r] \in Terminal

WorkingIsLatest ==
  \A t, u \in TurnId :
    /\ turn[t].status = "working" /\ turn[u].status # "none"
    /\ turn[t].session = turn[u].session
    => u <= t

ProposalsHaveTurns ==
  \A p \in 1..lastProposal :
    /\ proposal[p].turn \in 1..lastTurn
    /\ proposal[p].session = turn[proposal[p].turn].session

\* No session is of a draft to come, and a proposal is written with a status.
SessionsAreOfDrafts ==
  /\ \A s \in Sessions : session[s].rev <= revision
  /\ \A p \in 1..lastProposal : proposal[p].status # "none"

WrittenEndsStay ==
  /\ \A r \in Requests :
       /\ pc[r] \in {"finishPart", "finishError", "return"} /\ faults = 0
       => turn[turnOf[r]].status # "working"
  /\ \A r \in Requests :
       /\ pc[r] = "finishError" /\ faults = 0
       => statusPart[turnOf[r]] # "working"
  /\ \A k \in Stoppers :
       stopPc[k] = "finishPart" => turn[stopTurn[k]].status # "working"

\* What the statements of every handler keep together: rows and counters agree,
\* a running handler has a row and knows which end it is writing, the turn in
\* progress is the newest of its session, and a written end is never undone.
IndInv ==
  /\ TypeOK
  /\ RowsFollowCounter
  /\ HoldersHaveRows
  /\ FinishersKnowTheirEnd
  /\ WorkingIsLatest
  /\ ProposalsHaveTurns
  /\ SessionsAreOfDrafts
  /\ ProposalsFollowTurns
  /\ PendingIsLatest
  /\ NoHangingTurn
  /\ WrittenEndsStay
  /\ StatusPartSettles

\* sessions.go:623 refuses to archive while the AI is generating; the refusal is
\* tested before the update, so an archived session can have a turn in progress.
ArchivedSessionIsQuiet ==
  \A s \in Sessions : session[s].status = "archived" => ~HasWorkingTurn(s)

\* engine.go:269 promises that the turn is finished when StreamTurn returns;
\* fail() drops the error of finishGenerationTurn.
ReturnedStreamIsFinished ==
  \A r \in Requests : pc[r] = "return" => turn[turnOf[r]].status # "working"

\* engine.go:198 says a turn that is not working is returned as it is; the
\* stream may complete it between the read and the write of StopTurn.
StopLeavesEndedTurnAlone ==
  [][\A k \in Stoppers :
       stopPc[k] = "finish" /\ stopPc'[k] = "finishPart"
         => turn[stopTurn[k]].status = "working"]_vars
=============================================================================
