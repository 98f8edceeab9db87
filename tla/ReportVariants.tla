--------------------------- MODULE ReportVariants ---------------------------
(***************************************************************************)
(* One weekly report and its two audience variants: creation, regeneration *)
(* of the source drafts, generation sessions with their proposals,         *)
(* acceptance, the direct write of a final and deletion.                   *)
(*                                                                         *)
(* A handler that reads rows first and writes them later is two actions    *)
(* with the rows it read kept in between; a transaction is one action.     *)
(* Texts are tokens that say where a text came from: the draft of a        *)
(* version of the week's events, a proposal, a user's edit for a source    *)
(* revision (0: the client named none), or a report from before variants.  *)
(***************************************************************************)
EXTENDS Integers, FiniteSets

CONSTANTS
  Requests,       \* slots for concurrent requests with a read and a write
  MaxFacts,       \* bound: versions of the week's events
  MaxRevision,    \* bound: source revisions
  MaxSession,     \* bound: generation sessions
  MaxProposal     \* bound: proposals

ASSUME BoundsAssumption ==
  /\ MaxFacts \in Nat /\ MaxRevision \in Nat \ {0}
  /\ MaxSession \in Nat /\ MaxProposal \in Nat

VARIABLES
  legacy,         \* the report is older than audience variants (never changes)
  report,         \* the row of reports: absent, live or deleted
  facts,          \* version of the week's events; 0 has none
  content,        \* reports.content, read by search and legacy clients
  variant,        \* report_variants: revision 0 when there is no row
  snapshots,      \* report_event_snapshots: revision and version of the events
  session,        \* generation_sessions
  lastSession,    \* AUTOINCREMENT counter of generation_sessions
  proposal,       \* generation_proposals
  lastProposal,   \* AUTOINCREMENT counter of generation_proposals
  request         \* requests between their read and their write

tables == <<legacy, report, facts, content, variant, snapshots, session, lastSession,
            proposal, lastProposal>>
vars == <<tables, request>>

Audiences == {"leadership", "personal"}
SessionId == 1..MaxSession
ProposalId == 1..MaxProposal
NoProposal == 0

Text == [kind : {"none", "draft", "proposal", "edit", "legacy"}, of : Audiences, n : Nat]
NoText == [kind |-> "none", of |-> "personal", n |-> 0]
Draft(a, n) == [kind |-> "draft", of |-> a, n |-> n]
Edit(a, n) == [kind |-> "edit", of |-> a, n |-> n]
LegacyText == [kind |-> "legacy", of |-> "personal", n |-> 0]

Variant == [source : Text, revision : 0..MaxRevision, final : Text,
            status : {"none", "current", "stale"}, accepted : 0..MaxProposal]
NewVariant(source, revision) ==
  [source |-> source, revision |-> revision, final |-> NoText, status |-> "none",
   accepted |-> NoProposal]
NoVariant == NewVariant(NoText, 0)

Session == [live : BOOLEAN, of : Audiences, rev : 0..MaxRevision, source : Text,
            baseline : Text]
NoSession == [live |-> FALSE, of |-> "personal", rev |-> 0, source |-> NoText,
              baseline |-> NoText]

NoRow == [session |-> 0, rev |-> 0, status |-> "none"]

\* What a handler holds between its read and its write: the version of the
\* events, or what it uses of a variant's row (a save: the revision named by
\* the client, or 0).
Request == [op : {"idle", "create", "regenerate", "open", "save", "saveLegacy", "delete"},
            of : Audiences, facts : 0..MaxFacts, rev : 0..MaxRevision,
            source : Text, final : Text, accepted : 0..MaxProposal]
Idle == [op |-> "idle", of |-> "personal", facts |-> 0, rev |-> 0,
         source |-> NoText, final |-> NoText, accepted |-> NoProposal]

TypeOK ==
  /\ legacy \in BOOLEAN
  /\ report \in {"absent", "live", "deleted"}
  /\ facts \in 0..MaxFacts
  /\ content \in Text
  /\ variant \in [Audiences -> Variant]
  /\ \A a \in Audiences : variant[a].accepted <= lastProposal
  /\ snapshots \subseteq (1..MaxRevision) \X (0..MaxFacts)
  /\ session \in [SessionId -> Session]
  /\ lastSession \in 0..MaxSession
  /\ proposal \in [ProposalId ->
       [session : 0..MaxSession, rev : 0..MaxRevision,
        status : {"none", "pending", "accepted", "superseded"}]]
  /\ lastProposal \in 0..MaxProposal
  /\ request \in [Requests -> Request]

Init ==
  /\ legacy \in BOOLEAN
  /\ report = IF legacy THEN "live" ELSE "absent"
  /\ facts \in 0..MaxFacts
  /\ content = IF legacy THEN LegacyText ELSE NoText
  /\ variant = [a \in Audiences |-> NoVariant]
  /\ snapshots = {}
  /\ session = [s \in SessionId |-> NoSession]
  /\ lastSession = 0
  /\ proposal = [p \in ProposalId |-> NoRow]
  /\ lastProposal = 0
  /\ request = [r \in Requests |-> Idle]

(***************************************************************************)
(* Helpers.                                                                *)
(***************************************************************************)
Begin(r, held) ==
  /\ request[r].op = "idle"
  /\ request' = [request EXCEPT ![r] = held]
  /\ UNCHANGED tables

End(r, op) ==
  /\ request[r].op = op
  /\ request' = [request EXCEPT ![r] = Idle]

\* Mutant: the revision is not incremented.
NextRevisionUnbumped ==
  IF variant["personal"].revision >= variant["leadership"].revision
    THEN variant["personal"].revision
    ELSE variant["leadership"].revision

NextRevision ==
  IF variant["personal"].revision >= variant["leadership"].revision
    THEN variant["personal"].revision + 1
    ELSE variant["leadership"].revision + 1

\* Mutant: the final stays current.
FinalKept(final) == IF final = NoText THEN "none" ELSE "current"
FinalAfter(final) == IF final = NoText THEN "none" ELSE "stale"

\* Mutant: reports.content follows whichever audience was written last.
MirrorsEveryAudience(a) == TRUE
MirrorsContent(a) == a = "personal"

\* reports.content after a final of audience a is set.
ContentAfter(a, text) == IF MirrorsContent(a) THEN text ELSE content

SessionIsCurrent(s) ==
  session[s].live /\ variant[session[s].of].revision = session[s].rev

(***************************************************************************)
(* createReportHandler and CreateReportWithSourceDrafts: the events are    *)
(* read before the transaction that writes the report, its snapshots and   *)
(* both variants.                                                          *)
(***************************************************************************)
CreateRead(r) ==
  /\ report = "absent"
  /\ Begin(r, [Idle EXCEPT !.op = "create", !.facts = facts])

CreateWrite(r) ==
  /\ report = "absent"
  /\ End(r, "create")
  /\ report' = "live"
  /\ variant' = [a \in Audiences |-> NewVariant(Draft(a, request[r].facts), 1)]
  /\ snapshots' = {<<1, request[r].facts>>}
  /\ content' = Draft("personal", request[r].facts)
  /\ UNCHANGED <<legacy, facts, session, lastSession, proposal, lastProposal>>

(***************************************************************************)
(* RegenerateSourceDrafts: the next revision is computed inside the        *)
(* transaction, from events read before it.  The last statement updates    *)
(* the report's row, so after a deletion everything is rolled back.        *)
(***************************************************************************)
RegenerateRead(r) ==
  /\ report = "live"
  /\ Begin(r, [Idle EXCEPT !.op = "regenerate", !.facts = facts])

ReportIsThere == report = "live"

RegenerateWrite(r) ==
  /\ ReportIsThere
  /\ End(r, "regenerate")
  /\ NextRevision <= MaxRevision
  /\ snapshots' = snapshots \cup {<<NextRevision, request[r].facts>>}
  /\ variant' = [a \in Audiences |->
       [variant[a] EXCEPT !.source = Draft(a, request[r].facts),
                          !.revision = NextRevision,
                          !.status = FinalAfter(variant[a].final)]]
  /\ content' = Draft("personal", request[r].facts)
  /\ UNCHANGED <<legacy, report, facts, session, lastSession, proposal, lastProposal>>

(***************************************************************************)
(* createGenerationSession: the variant's row is read with the bundle, the *)
(* session is inserted without reading it again.  The table has no foreign *)
(* key: the insert succeeds although the report was deleted.               *)
(***************************************************************************)
OpenRead(r, a) ==
  /\ report = "live"
  /\ variant[a].revision # 0
  /\ variant[a].source.n # 0        \* EMPTY_SOURCE_DRAFT
  /\ Begin(r, [Idle EXCEPT !.op = "open", !.of = a, !.rev = variant[a].revision,
                           !.source = variant[a].source, !.final = variant[a].final])

\* Mutant: the session is bound to the revision of the moment.
RevisionOfNow(r) == variant[request[r].of].revision
RevisionRead(r) == request[r].rev

OpenWrite(r) ==
  /\ End(r, "open")
  /\ lastSession < MaxSession
  /\ lastSession' = lastSession + 1
  /\ session' = [session EXCEPT ![lastSession + 1] =
       [live |-> TRUE, of |-> request[r].of, rev |-> RevisionRead(r),
        source |-> request[r].source, baseline |-> request[r].final]]
  /\ UNCHANGED <<legacy, report, facts, content, variant, snapshots, proposal, lastProposal>>

\* createGenerationProposal, seen without its turn (see GenerationTurns).
\* Mutant: accepted proposals are superseded as well.
SupersedesAccepted(p, s) == proposal[p].session = s
Supersedes(p, s) == proposal[p].session = s /\ proposal[p].status = "pending"

Propose(s) ==
  /\ SessionIsCurrent(s)
  /\ lastProposal < MaxProposal
  /\ lastProposal' = lastProposal + 1
  /\ proposal' = [p \in ProposalId |->
       IF p = lastProposal + 1
         THEN [session |-> s, rev |-> session[s].rev, status |-> "pending"]
       ELSE IF Supersedes(p, s) THEN [proposal[p] EXCEPT !.status = "superseded"]
       ELSE proposal[p]]
  /\ UNCHANGED <<legacy, report, facts, content, variant, snapshots, session, lastSession,
                 request>>

(***************************************************************************)
(* acceptGenerationProposal: everything in one transaction.  A proposal    *)
(* may be accepted again.                                                  *)
(***************************************************************************)
ProposalText(p) == [kind |-> "proposal", of |-> session[proposal[p].session].of, n |-> p]

\* Mutant: a proposal for an older draft is accepted.
MayAcceptStale(p) ==
  /\ proposal[p].status \in {"pending", "accepted"}
  /\ session[proposal[p].session].live

MayAccept(p) ==
  /\ proposal[p].status \in {"pending", "accepted"}
  /\ SessionIsCurrent(proposal[p].session)
  /\ proposal[p].rev = session[proposal[p].session].rev

Accept(p) ==
  /\ MayAccept(p)
  /\ LET s == proposal[p].session
         a == session[s].of
         text == ProposalText(p)
     IN /\ variant' = [variant EXCEPT ![a] =
             [@ EXCEPT !.final = text, !.status = "current", !.accepted = p]]
        /\ session' = [session EXCEPT ![s].baseline = text]
        /\ content' = ContentAfter(a, text)
  /\ proposal' = [proposal EXCEPT ![p].status = "accepted"]
  /\ UNCHANGED <<legacy, report, facts, snapshots, lastSession, lastProposal, request>>

(***************************************************************************)
(* saveFinalHandler: the variant is read and the client's source revision  *)
(* compared before the transaction; neither is looked at again.  A         *)
(* personal final without a variant's row is a legacy report: only         *)
(* reports.content is written, outside a transaction.                      *)
(***************************************************************************)
SaveRead(r, a, said) ==
  /\ report = "live"
  /\ variant[a].revision # 0
  /\ said \in {0, variant[a].revision}
  /\ Begin(r, [Idle EXCEPT !.op = "save", !.of = a, !.rev = said,
                           !.accepted = variant[a].accepted])

\* recordDirectEditAfterAcceptedProposal: the session of the accepted proposal
\* the handler read gets the new final as its baseline, if both still exist.
BaselineEdited(held, text) ==
  IF held.accepted = NoProposal \/ proposal[held.accepted].status = "none"
    THEN session
    ELSE [session EXCEPT ![proposal[held.accepted].session].baseline = text]

SaveWrite(r) ==
  /\ report = "live"
  /\ End(r, "save")
  /\ LET a == request[r].of
         text == Edit(a, request[r].rev)
     IN /\ variant' = [variant EXCEPT ![a] = [@ EXCEPT !.final = text, !.status = "current"]]
        /\ content' = ContentAfter(a, text)
        /\ session' = BaselineEdited(request[r], text)
  /\ UNCHANGED <<legacy, report, facts, snapshots, lastSession, proposal, lastProposal>>

SaveLegacyRead(r) ==
  /\ report = "live"
  /\ variant["personal"].revision = 0
  /\ Begin(r, [Idle EXCEPT !.op = "saveLegacy"])

SaveLegacyWrite(r) ==
  /\ report = "live"
  /\ End(r, "saveLegacy")
  /\ content' = Edit("personal", 0)
  /\ UNCHANGED <<legacy, report, facts, variant, snapshots, session, lastSession,
                 proposal, lastProposal>>

(***************************************************************************)
(* deleteReportHandler: an accepted proposal forbids the deletion; the     *)
(* guard is evaluated before the transaction that deletes every row.       *)
(***************************************************************************)
DeleteRead(r) ==
  /\ report = "live"
  /\ \A p \in ProposalId : proposal[p].status # "accepted"
  /\ Begin(r, [Idle EXCEPT !.op = "delete"])

DeleteWrite(r) ==
  /\ report = "live"
  /\ End(r, "delete")
  /\ report' = "deleted"
  /\ variant' = [a \in Audiences |-> NoVariant]
  /\ snapshots' = {}
  /\ session' = [s \in SessionId |-> NoSession]
  /\ proposal' = [p \in ProposalId |-> NoRow]
  /\ content' = NoText
  /\ UNCHANGED <<legacy, facts, lastSession, lastProposal>>

\* A statement fails, the process dies, or the report is gone by the time of
\* the write: nothing is written.
GiveUp(r) ==
  /\ request[r].op # "idle"
  /\ request' = [request EXCEPT ![r] = Idle]
  /\ UNCHANGED tables

\* The week's events are edited, deleted or collected.
EventsChange ==
  /\ facts < MaxFacts
  /\ facts' = facts + 1
  /\ UNCHANGED <<legacy, report, content, variant, snapshots, session, lastSession,
                 proposal, lastProposal, request>>

-----------------------------------------------------------------------------
RequestStep(r) ==
  \/ CreateRead(r) \/ CreateWrite(r)
  \/ RegenerateRead(r) \/ RegenerateWrite(r)
  \/ \E a \in Audiences : OpenRead(r, a)
  \/ OpenWrite(r)
  \/ \E a \in Audiences, said \in 0..MaxRevision : SaveRead(r, a, said)
  \/ SaveWrite(r)
  \/ SaveLegacyRead(r) \/ SaveLegacyWrite(r)
  \/ DeleteRead(r) \/ DeleteWrite(r)
  \/ GiveUp(r)

Next ==
  \/ \E r \in Requests : RequestStep(r)
  \/ \E s \in SessionId : Propose(s)
  \/ \E p \in ProposalId : Accept(p)
  \/ EventsChange

Spec == Init /\ [][Next]_vars

-----------------------------------------------------------------------------
(***************************************************************************)
(* Properties.                                                             *)
(***************************************************************************)

\* reports.content, which search and older clients read, is the personal final
\* when it is current and the personal draft otherwise, although four handlers
\* write it in transactions of their own.  (A legacy report has no variant to
\* compare with, and its unconditional write can race with a regeneration.)
ContentMirrorsPersonal ==
  report = "live" /\ ~legacy
    => content = IF variant["personal"].status = "current"
                   THEN variant["personal"].final ELSE variant["personal"].source

OfAudience(text, a) == text.kind = "none" \/ text.of = a

\* No text written for one audience reaches the other: drafts, finals, the
\* drafts and baselines sessions show the model, and reports.content (ADR-0007),
\* whatever request wrote it and however long ago it read the variant.
AudienceIsolation ==
  /\ \A a \in Audiences : OfAudience(variant[a].source, a) /\ OfAudience(variant[a].final, a)
  /\ \A s \in SessionId : OfAudience(session[s].source, session[s].of)
                          /\ OfAudience(session[s].baseline, session[s].of)
  /\ OfAudience(content, "personal")

\* An accepted final that is marked current was generated from the draft the
\* variant shows: same revision, same source text, however many regenerations
\* ran between the session, the proposal and its acceptance.
AcceptedFinalIsGrounded ==
  \A a \in Audiences :
    variant[a].status = "current" /\ variant[a].final.kind = "proposal"
      => LET p == variant[a].final.n
             s == proposal[p].session
         IN /\ proposal[p].rev = variant[a].revision
            /\ session[s].of = a
            /\ session[s].source = variant[a].source

\* Regenerations that overlap never share a revision, and the draft of a
\* revision is the one its event snapshots give.
DraftsMatchSnapshots ==
  /\ \A x, y \in snapshots : x[1] = y[1] => x = y
  /\ \A a \in Audiences : variant[a].revision # 0
       => <<variant[a].revision, variant[a].source.n>> \in snapshots

\* The draft a session captured stays the draft of the revision it names, also
\* when the session was inserted after a regeneration: its snapshots explain it.
SessionKeepsItsDraft ==
  \A s \in SessionId :
    session[s].live /\ report = "live"
      => /\ <<session[s].rev, session[s].source.n>> \in snapshots
         /\ session[s].source = Draft(session[s].of, session[s].source.n)

\* As long as the report exists, the proposal a variant was accepted from is
\* still there, still accepted, and belongs to a session of that audience.
AuditRecordHolds ==
  \A a \in Audiences :
    variant[a].accepted # NoProposal
      => LET p == variant[a].accepted
         IN /\ proposal[p].status = "accepted"
            /\ session[proposal[p].session].live
            /\ session[proposal[p].session].of = a

\* A request that was on its way when the report was deleted brings no variant,
\* snapshot or proposal back.
NothingOutlivesReport ==
  report = "deleted"
    => /\ snapshots = {}
       /\ \A a \in Audiences : variant[a] = NoVariant
       /\ \A p \in ProposalId : proposal[p] = NoRow

\* What a reader is promised: finals survive redrafts as stale ones, and one
\* step publishes for one audience.
Finals == INSTANCE AudienceFinals WITH
  revision <- NextRevision - 1,
  final    <- [a \in Audiences |-> variant[a].final],
  fresh    <- {a \in Audiences : variant[a].status = "current"}

ImplementsFinals == Finals!Spec

\* The sessions, seen without the variants: what GenerationTurns takes for
\* granted of a session, but that they are opened, and taken away with the report.
ProposalsOf(s, status) ==
  {p \in ProposalId : proposal[p].session = s /\ proposal[p].status = status}

Review == INSTANCE SessionReview WITH
  Sessions <- SessionId,
  opened   <- 1..lastSession,
  current  <- {s \in SessionId : SessionIsCurrent(s)},
  last     <- lastProposal,
  pending  <- [s \in SessionId |-> ProposalsOf(s, "pending")],
  accepted <- [s \in SessionId |-> ProposalsOf(s, "accepted")]

ImplementsReview == Review!Spec

\* Both views are kept, the reader's of the finals and the turns' of the
\* sessions, by every request between its read and its write.
Implements == ImplementsFinals /\ ImplementsReview

(***************************************************************************)
(* Properties the code does not keep.                                      *)
(***************************************************************************)

\* final.go:154 answers 409 to a final written for an older draft; a
\* regeneration between the check and the transaction lets it in as current.
CheckedFinalIsCurrent ==
  \A a \in Audiences :
    LET text == variant[a].final
    IN variant[a].status = "current" /\ text.kind = "edit" /\ text.n # 0
         => text.n = variant[a].revision

\* CONTEXT.md:261: a session whose proposal became the final is never deleted
\* physically; the guard of the deletion is older than its transaction.
AcceptedRecordIsKept ==
  [][(\E p \in ProposalId : proposal[p].status = "accepted") => report' # "deleted"]_vars

\* CONTEXT.md:273: the content of a legacy report is its personal final, and
\* CONTEXT.md:171 keeps a final when the draft is regenerated.
LegacyFinalIsKept ==
  [][report = "live" /\ report' = "live" /\ variant["personal"].revision = 0
       => \/ content' = content
          \/ content'.kind = "edit"
          \/ variant'["personal"].final = content]_vars

(***************************************************************************)
(* The inductive invariant: the safety properties above and what their     *)
(* preservation needs.                                                     *)
(***************************************************************************)
\* Both audiences have a row or none, with one revision; rows exist only while
\* the report does, and a report that is not legacy always has them.
RowsFollowReport ==
  /\ variant["personal"].revision = variant["leadership"].revision
  /\ report # "live" => /\ \A a \in Audiences : variant[a] = NoVariant
                        /\ snapshots = {}
                        /\ \A p \in ProposalId : proposal[p] = NoRow
  /\ report = "absent" => \A s \in SessionId : ~session[s].live
  /\ report = "live" /\ ~legacy => variant["personal"].revision # 0
  /\ \A a \in Audiences : variant[a].revision = 0 => variant[a] = NoVariant

\* Drafts are drafts, and no snapshot is of a later revision.
DraftsAreDrafts ==
  /\ \A a \in Audiences : variant[a].revision # 0
       => variant[a].source = Draft(a, variant[a].source.n)
  /\ \A x \in snapshots : x[1] <= variant["personal"].revision

\* A proposal has a session of its revision, and a final says which it is.
ProposalsHaveSessions ==
  /\ \A s \in SessionId : session[s].live => s <= lastSession /\ session[s].rev # 0
  /\ \A p \in ProposalId : proposal[p].status # "none"
       => /\ p <= lastProposal
          /\ proposal[p].session \in SessionId
          /\ session[proposal[p].session].live
  /\ \A a \in Audiences : variant[a].final.kind = "proposal"
       => /\ variant[a].final.n \in ProposalId
          /\ proposal[variant[a].final.n].status # "none"

\* What a request still holds fits the rows it will be written to.
HeldFits(held) ==
  /\ held.op = "open"
       => /\ held.rev # 0 /\ report # "absent"
          /\ held.source = Draft(held.of, held.source.n)
          /\ OfAudience(held.final, held.of)
          /\ report = "live" => <<held.rev, held.source.n>> \in snapshots
  /\ held.op = "saveLegacy" => legacy
  /\ held.op = "save" /\ report = "live" => variant[held.of].revision # 0
  /\ held.op = "save" /\ held.accepted # NoProposal
       => /\ held.accepted <= lastProposal
          /\ proposal[held.accepted].status # "none"
               => session[proposal[held.accepted].session].of = held.of

\* What the handlers keep together, requests on their way included.
IndInv ==
  /\ TypeOK
  /\ RowsFollowReport
  /\ DraftsAreDrafts
  /\ ProposalsHaveSessions
  /\ \A r \in Requests : HeldFits(request[r])
  /\ ContentMirrorsPersonal
  /\ AudienceIsolation
  /\ AcceptedFinalIsGrounded
  /\ DraftsMatchSnapshots
  /\ SessionKeepsItsDraft
  /\ AuditRecordHolds
  /\ NothingOutlivesReport
=============================================================================
