------------------------ MODULE ReportVariants_proofs ------------------------
(***************************************************************************)
(* Proofs about ReportVariants: the inductive invariant, the safety        *)
(* properties it contains, and its two abstract specifications.            *)
(***************************************************************************)
EXTENDS ReportVariants, TLAPS

LEMMA Texts ==
  /\ NoText \in Text /\ LegacyText \in Text
  /\ \A a \in Audiences, n \in Nat : Draft(a, n) \in Text /\ Edit(a, n) \in Text
BY DEF Text, NoText, LegacyText, Draft, Edit, Audiences

LEMMA TextFields ==
  \A a, n : /\ Draft(a, n).kind = "draft" /\ Draft(a, n).of = a /\ Draft(a, n).n = n
            /\ Edit(a, n).kind = "edit" /\ Edit(a, n).of = a /\ Edit(a, n).n = n
BY DEF Draft, Edit

LEMMA Rows ==
  /\ NoVariant \in Variant
  /\ NoSession \in Session
  /\ Idle \in Request
BY Texts, BoundsAssumption
DEF Variant, NoVariant, NewVariant, Session, NoSession, Request, Idle, Audiences, NoProposal

-----------------------------------------------------------------------------
(***************************************************************************)
(* The initial states.                                                     *)
(***************************************************************************)
LEMMA InitIndInv == Init => IndInv
<1> SUFFICES ASSUME Init PROVE IndInv
  OBVIOUS
<1> USE DEF Init
<1>1. TypeOK
  BY Texts, Rows, BoundsAssumption DEF TypeOK, NoVariant, NewVariant, NoRow, NoProposal
<1>2. RowsFollowReport /\ DraftsAreDrafts /\ ProposalsHaveSessions
  BY DEF RowsFollowReport, DraftsAreDrafts, ProposalsHaveSessions, NoVariant, NewVariant, NoSession,
         NoRow, NoText, Audiences
<1>3. \A r \in Requests : HeldFits(request[r])
  BY DEF HeldFits, Idle
<1>4. ContentMirrorsPersonal /\ AudienceIsolation
  BY DEF ContentMirrorsPersonal, AudienceIsolation, OfAudience, NoVariant, NewVariant, NoSession,
         NoText, LegacyText, Audiences
<1>5. AcceptedFinalIsGrounded /\ DraftsMatchSnapshots /\ SessionKeepsItsDraft
  BY DEF AcceptedFinalIsGrounded, DraftsMatchSnapshots, SessionKeepsItsDraft, NoVariant, NewVariant,
         NoSession, NoText, Audiences
<1>6. AuditRecordHolds /\ NothingOutlivesReport
  BY DEF AuditRecordHolds, NothingOutlivesReport, NoVariant, NewVariant, NoProposal, Audiences
<1> QED
  BY <1>1, <1>2, <1>3, <1>4, <1>5, <1>6 DEF IndInv

-----------------------------------------------------------------------------
(***************************************************************************)
(* A step that writes no table.                                            *)
(***************************************************************************)
LEMMA HoldKeepsIndInv ==
  ASSUME IndInv, NEW r \in Requests, NEW held \in Request, HeldFits(held),
         request' = [request EXCEPT ![r] = held], UNCHANGED tables
  PROVE  IndInv'
<1> USE DEF tables
<1>1. TypeOK'
  BY DEF IndInv, TypeOK
<1>2. (RowsFollowReport /\ DraftsAreDrafts /\ ProposalsHaveSessions)'
  BY DEF IndInv, RowsFollowReport, DraftsAreDrafts, ProposalsHaveSessions
<1>3. \A q \in Requests : HeldFits(request[q])'
  BY DEF IndInv, TypeOK, HeldFits
<1>4. (ContentMirrorsPersonal /\ AudienceIsolation)'
  BY DEF IndInv, ContentMirrorsPersonal, AudienceIsolation
<1>5. (AcceptedFinalIsGrounded /\ DraftsMatchSnapshots /\ SessionKeepsItsDraft)'
  BY DEF IndInv, AcceptedFinalIsGrounded, DraftsMatchSnapshots, SessionKeepsItsDraft
<1>6. (AuditRecordHolds /\ NothingOutlivesReport)'
  BY DEF IndInv, AuditRecordHolds, NothingOutlivesReport
<1> QED
  BY <1>1, <1>2, <1>3, <1>4, <1>5, <1>6 DEF IndInv

LEMMA IdleFits == HeldFits(Idle)
BY DEF HeldFits, Idle

\* The first halves of the handlers, and a request that gives up.
LEMMA ReadsKeepIndInv ==
  ASSUME IndInv, NEW r \in Requests,
         \/ CreateRead(r) \/ RegenerateRead(r)
         \/ \E a \in Audiences : OpenRead(r, a)
         \/ \E a \in Audiences, said \in 0..MaxRevision : SaveRead(r, a, said)
         \/ SaveLegacyRead(r) \/ DeleteRead(r) \/ GiveUp(r)
  PROVE  IndInv'
<1>a. facts \in 0..MaxFacts
  BY DEF IndInv, TypeOK
<1>1. CASE CreateRead(r)
  <2> DEFINE held == [Idle EXCEPT !.op = "create", !.facts = facts]
  <2>1. held \in Request /\ HeldFits(held)
    BY <1>a, Rows DEF Request, HeldFits, Idle
  <2> QED
    BY <1>1, <2>1, HoldKeepsIndInv DEF CreateRead, Begin
<1>2. CASE RegenerateRead(r)
  <2> DEFINE held == [Idle EXCEPT !.op = "regenerate", !.facts = facts]
  <2>1. held \in Request /\ HeldFits(held)
    BY <1>a, Rows DEF Request, HeldFits, Idle
  <2> QED
    BY <1>2, <2>1, HoldKeepsIndInv DEF RegenerateRead, Begin
<1>3. CASE \E a \in Audiences : OpenRead(r, a)
  <2>1. PICK a \in Audiences : OpenRead(r, a)
    BY <1>3
  <2> DEFINE held == [Idle EXCEPT !.op = "open", !.of = a, !.rev = variant[a].revision,
                                  !.source = variant[a].source, !.final = variant[a].final]
  <2>2. variant[a] \in Variant
    BY DEF IndInv, TypeOK
  <2>3. held \in Request
    BY <2>2, Rows DEF Request, Idle, Variant
  <2>4. HeldFits(held)
    BY <2>1, <2>2 DEF HeldFits, Idle, OpenRead, IndInv, DraftsAreDrafts, AudienceIsolation,
                      DraftsMatchSnapshots
  <2> QED
    BY <2>1, <2>3, <2>4, HoldKeepsIndInv DEF OpenRead, Begin
<1>4. CASE \E a \in Audiences, said \in 0..MaxRevision : SaveRead(r, a, said)
  <2>1. PICK a \in Audiences, said \in 0..MaxRevision : SaveRead(r, a, said)
    BY <1>4
  <2> DEFINE held == [Idle EXCEPT !.op = "save", !.of = a, !.rev = said,
                                  !.accepted = variant[a].accepted]
  <2>2. variant[a] \in Variant
    BY DEF IndInv, TypeOK
  <2>3. held \in Request
    BY <2>2, Rows DEF Request, Idle, Variant
  <2>4. HeldFits(held)
    <3>1. variant[a].revision # 0
      BY <2>1 DEF SaveRead
    <3>2. held.op = "save" /\ held.of = a /\ held.accepted = variant[a].accepted
      BY DEF Idle
    <3> QED
      BY <3>1, <3>2, <2>2 DEF HeldFits, IndInv, TypeOK, AuditRecordHolds
  <2> QED
    BY <2>1, <2>3, <2>4, HoldKeepsIndInv DEF SaveRead, Begin
<1>5. CASE SaveLegacyRead(r)
  <2> DEFINE held == [Idle EXCEPT !.op = "saveLegacy"]
  <2>1. held \in Request /\ HeldFits(held)
    <3>1. report = "live" /\ variant["personal"].revision = 0
      BY <1>5 DEF SaveLegacyRead
    <3>2. legacy
      BY <3>1, BoundsAssumption DEF IndInv, RowsFollowReport
    <3> QED
      BY <3>2, Rows DEF Request, HeldFits, Idle
  <2> QED
    BY <1>5, <2>1, HoldKeepsIndInv DEF SaveLegacyRead, Begin
<1>6. CASE DeleteRead(r)
  <2> DEFINE held == [Idle EXCEPT !.op = "delete"]
  <2>1. held \in Request /\ HeldFits(held)
    BY Rows DEF Request, HeldFits, Idle
  <2> QED
    BY <1>6, <2>1, HoldKeepsIndInv DEF DeleteRead, Begin
<1>7. CASE GiveUp(r)
  BY <1>7, Rows, IdleFits, HoldKeepsIndInv DEF GiveUp
<1> QED
  BY <1>1, <1>2, <1>3, <1>4, <1>5, <1>6, <1>7

-----------------------------------------------------------------------------
(***************************************************************************)
(* The writes, one lemma per handler.                                      *)
(***************************************************************************)
LEMMA NewVariants ==
  ASSUME NEW source \in Text, NEW rev \in 0..MaxRevision
  PROVE  /\ NewVariant(source, rev) \in Variant
         /\ NewVariant(source, rev) = [source |-> source, revision |-> rev, final |-> NoText,
                                       status |-> "none", accepted |-> NoProposal]
<1>1. NoProposal \in 0..MaxProposal
  BY BoundsAssumption DEF NoProposal
<1> QED
  BY <1>1, Texts DEF Variant, NewVariant

LEMMA HeldTypes ==
  ASSUME IndInv, NEW r \in Requests
  PROVE  /\ request[r] \in Request
         /\ request[r].facts \in 0..MaxFacts
         /\ request[r].facts \in Nat
<1>1. request[r] \in Request
  BY DEF IndInv, TypeOK
<1>2. request[r].facts \in 0..MaxFacts
  BY <1>1 DEF Request
<1> QED
  BY <1>1, <1>2, BoundsAssumption

\* The other requests hold what they held, and a finished one holds nothing.
LEMMA EndedRequest ==
  ASSUME IndInv, NEW r \in Requests, NEW op, End(r, op)
  PROVE  /\ request' \in [Requests -> Request]
         /\ \A q \in Requests : request'[q] = Idle \/ request'[q] = request[q]
         /\ request'[r] = Idle
BY Rows DEF IndInv, TypeOK, End

\* What the requests hold still fits if each kind of held row does.
LEMMA RequestsStillFit ==
  ASSUME IndInv,
         \A q \in Requests : request'[q] = Idle \/ request'[q] = request[q],
         \A held \in Request : HeldFits(held) => HeldFits(held)'
  PROVE  \A q \in Requests : HeldFits(request[q])'
<1> SUFFICES ASSUME NEW q \in Requests PROVE HeldFits(request[q])'
  OBVIOUS
<1>1. CASE request'[q] = Idle
  BY <1>1 DEF HeldFits, Idle
<1>2. CASE request'[q] = request[q]
  <2>1. HeldFits(request[q]) /\ request[q] \in Request
    BY HeldTypes DEF IndInv
  <2> DEFINE h == request[q]
  <2>2. h \in Request /\ HeldFits(h)
    BY <2>1
  <2> QED
    BY <1>2, <2>2 DEF HeldFits
<1> QED
  BY <1>1, <1>2

LEMMA CreateWriteKeepsIndInv ==
  ASSUME IndInv, NEW r \in Requests, CreateWrite(r)
  PROVE  IndInv'
<1> DEFINE f == request[r].facts
<1>a. f \in 0..MaxFacts /\ f \in Nat
  BY HeldTypes
<1>b. /\ \A a \in Audiences : Draft(a, f) \in Text
      /\ 1 \in 0..MaxRevision /\ 1 \in 1..MaxRevision
  BY <1>a, Texts, BoundsAssumption
<1>c. /\ report = "absent" /\ report' = "live"
      /\ variant' = [a \in Audiences |-> NewVariant(Draft(a, f), 1)]
      /\ snapshots' = {<<1, f>>}
      /\ content' = Draft("personal", f)
      /\ UNCHANGED <<legacy, facts, session, lastSession, proposal, lastProposal>>
  BY DEF CreateWrite
<1>d. /\ variant' \in [Audiences -> Variant]
      /\ \A a \in Audiences :
           variant'[a] = [source |-> Draft(a, f), revision |-> 1, final |-> NoText,
                          status |-> "none", accepted |-> NoProposal]
  BY <1>b, <1>c, NewVariants
<1>e. \A p \in ProposalId : proposal[p] = NoRow
  BY <1>c DEF IndInv, RowsFollowReport
<1>f. /\ request' \in [Requests -> Request]
      /\ \A q \in Requests : request'[q] = Idle \/ request'[q] = request[q]
  BY EndedRequest DEF CreateWrite
<1>1. TypeOK'
  <2>1. \A a \in Audiences : variant'[a].accepted <= lastProposal'
    <3>1. lastProposal' \in Nat
      BY <1>c, BoundsAssumption DEF IndInv, TypeOK
    <3>2. \A a \in Audiences : variant'[a].accepted = 0
      BY <1>d DEF NoProposal
    <3> QED
      BY <3>1, <3>2
  <2>2. content' \in Text /\ snapshots' \subseteq (1..MaxRevision) \X (0..MaxFacts)
    BY <1>a, <1>b, <1>c DEF Audiences
  <2> QED
    BY <2>1, <2>2, <1>c, <1>d, <1>f DEF IndInv, TypeOK
<1>2. (RowsFollowReport /\ DraftsAreDrafts)'
  BY <1>c, <1>d DEF RowsFollowReport, DraftsAreDrafts, Draft, Audiences
<1>3. ProposalsHaveSessions'
  <2>1. \A a \in Audiences : variant'[a].final.kind # "proposal"
    BY <1>d DEF NoText
  <2> QED
    BY <1>c, <2>1 DEF IndInv, ProposalsHaveSessions
<1>4. \A q \in Requests : HeldFits(request[q])'
  <2>1. ASSUME NEW h \in Request, HeldFits(h) PROVE HeldFits(h)'
    <3>1. h.of \in Audiences
      BY DEF Request
    <3>2. h.op = "save" /\ h.accepted # NoProposal => h.accepted \in ProposalId
      BY BoundsAssumption DEF Request, NoProposal, ProposalId
    <3>3. variant'[h.of].revision # 0
      BY <3>1, <1>d
    <3>4. h.op = "save" /\ h.accepted # NoProposal
            => h.accepted <= lastProposal' /\ proposal'[h.accepted].status = "none"
      BY <2>1, <3>2, <1>c, <1>e DEF HeldFits, NoRow
    <3>5. h.op # "open"
      BY <2>1, <1>c DEF HeldFits
    <3>6. h.op = "saveLegacy" => legacy
      BY <2>1 DEF HeldFits
    <3> QED
      BY <1>c, <3>3, <3>4, <3>5, <3>6 DEF HeldFits
  <2> QED
    BY <2>1, <1>f, RequestsStillFit
<1>5. (ContentMirrorsPersonal /\ AudienceIsolation)'
  BY <1>c, <1>d DEF IndInv, ContentMirrorsPersonal, AudienceIsolation, OfAudience, NoText,
                    Draft, Audiences
<1>6. (AcceptedFinalIsGrounded /\ DraftsMatchSnapshots)'
  <2>1. AcceptedFinalIsGrounded'
    BY <1>d DEF AcceptedFinalIsGrounded
  <2>2. DraftsMatchSnapshots'
    <3>1. \A a \in Audiences : variant'[a].revision = 1 /\ variant'[a].source.n = f
      BY <1>d DEF Draft
    <3> QED
      BY <3>1, <1>c DEF DraftsMatchSnapshots
  <2> QED
    BY <2>1, <2>2
<1>7. SessionKeepsItsDraft'
  BY <1>c DEF IndInv, RowsFollowReport, SessionKeepsItsDraft
<1>8. AuditRecordHolds'
  BY <1>d DEF AuditRecordHolds
<1>9. NothingOutlivesReport'
  BY <1>c DEF NothingOutlivesReport
<1> QED
  BY <1>1, <1>2, <1>3, <1>4, <1>5, <1>6, <1>7, <1>8, <1>9 DEF IndInv

LEMMA NextRevisionIsNext ==
  ASSUME IndInv
  PROVE  /\ NextRevision \in Nat \ {0}
         /\ \A a \in Audiences : NextRevision = variant[a].revision + 1
<1>1. \A a \in Audiences : variant[a].revision \in 0..MaxRevision
  BY DEF IndInv, TypeOK, Variant
<1>2. /\ variant["personal"].revision \in Nat
      /\ variant["personal"].revision = variant["leadership"].revision
  BY <1>1, BoundsAssumption DEF IndInv, RowsFollowReport, Audiences
<1> QED
  BY <1>2 DEF NextRevision, Audiences

LEMMA RegenerateWriteKeepsIndInv ==
  ASSUME IndInv, NEW r \in Requests, RegenerateWrite(r)
  PROVE  IndInv'
<1> DEFINE f == request[r].facts
           nr == NextRevision
<1>a. f \in 0..MaxFacts /\ f \in Nat
  BY HeldTypes
<1>b. /\ report = "live" /\ nr <= MaxRevision
      /\ variant' = [a \in Audiences |->
           [variant[a] EXCEPT !.source = Draft(a, f), !.revision = nr,
                              !.status = FinalAfter(variant[a].final)]]
      /\ snapshots' = snapshots \cup {<<nr, f>>}
      /\ content' = Draft("personal", f)
      /\ UNCHANGED <<legacy, report, facts, session, lastSession, proposal, lastProposal>>
  BY DEF RegenerateWrite, ReportIsThere
<1>s. snapshots' = snapshots \cup {<<nr, f>>}
  BY <1>b
<1>c. /\ nr \in 0..MaxRevision /\ nr \in 1..MaxRevision
      /\ \A a \in Audiences : nr = variant[a].revision + 1
  <2>1. nr <= MaxRevision
    BY <1>b
  <2>2. nr \in Nat \ {0} /\ \A a \in Audiences : nr = variant[a].revision + 1
    BY NextRevisionIsNext
  <2>3. nr \in 0..MaxRevision /\ nr \in 1..MaxRevision
    BY <2>1, <2>2, BoundsAssumption
  <2> QED
    BY <2>2, <2>3
<1>d. \A a \in Audiences : variant[a] \in Variant
  BY DEF IndInv, TypeOK
<1>e. \A a \in Audiences : /\ variant'[a].source = Draft(a, f)
                           /\ variant'[a].revision = nr
                           /\ variant'[a].final = variant[a].final
                           /\ variant'[a].accepted = variant[a].accepted
  BY <1>b, <1>d DEF Variant
<1>f. \A a \in Audiences : variant'[a].status # "current"
  BY <1>b, <1>d DEF Variant, FinalAfter
<1>g. \A a \in Audiences : Draft(a, f) \in Text
  BY <1>a, Texts
<1>h. /\ request' \in [Requests -> Request]
      /\ \A q \in Requests : request'[q] = Idle \/ request'[q] = request[q]
  BY EndedRequest DEF RegenerateWrite
<1>1. TypeOK'
  <2>1. variant' \in [Audiences -> Variant]
    <3> SUFFICES ASSUME NEW a \in Audiences
                 PROVE  [variant[a] EXCEPT !.source = Draft(a, f), !.revision = nr,
                            !.status = FinalAfter(variant[a].final)] \in Variant
      BY <1>b
    <3> QED
      BY <1>c, <1>d, <1>g DEF Variant, FinalAfter
  <2>2. \A a \in Audiences : variant'[a].accepted <= lastProposal'
    BY <1>b, <1>e DEF IndInv, TypeOK
  <2>3. content' \in Text
    BY <1>b, <1>g DEF Audiences
  <2>4. snapshots' \subseteq (1..MaxRevision) \X (0..MaxFacts)
    BY <1>a, <1>c, <1>s DEF IndInv, TypeOK
  <2> QED
    BY <2>1, <2>2, <2>3, <2>4, <1>b, <1>h DEF IndInv, TypeOK
<1>2. RowsFollowReport'
  <2>1. nr # 0
    BY NextRevisionIsNext
  <2> QED
    BY <2>1, <1>b, <1>e DEF RowsFollowReport, Audiences
<1>3. DraftsAreDrafts'
  <2>1. \A x \in snapshots' : x[1] <= nr
    <3>1. \A x \in snapshots : x[1] \in 1..MaxRevision /\ x[1] <= variant["personal"].revision
      BY DEF IndInv, TypeOK, DraftsAreDrafts
    <3>2. nr = variant["personal"].revision + 1 /\ nr \in Nat
          /\ variant["personal"].revision \in 0..MaxRevision
      BY <1>c, <1>d, NextRevisionIsNext DEF Audiences, Variant
    <3>3. \A x \in snapshots : x[1] <= nr
      BY <3>1, <3>2, BoundsAssumption
    <3> QED
      BY <3>2, <3>3, <1>s
  <2>2. \A a \in Audiences : variant'[a].source = Draft(a, variant'[a].source.n)
    BY <1>e, TextFields
  <2> QED
    BY <2>1, <2>2, <1>e DEF DraftsAreDrafts, Audiences
<1>4. ProposalsHaveSessions'
  BY <1>b, <1>e DEF IndInv, ProposalsHaveSessions
<1>5. \A q \in Requests : HeldFits(request[q])'
  <2>1. ASSUME NEW h \in Request, HeldFits(h) PROVE HeldFits(h)'
    <3>1. \A a \in Audiences : variant'[a].revision # 0
      BY <1>e, NextRevisionIsNext
    <3>2. h.of \in Audiences
      BY DEF Request
    <3> QED
      BY <2>1, <3>1, <3>2, <1>b DEF HeldFits
  <2> QED
    BY <2>1, <1>h, RequestsStillFit
<1>6. ContentMirrorsPersonal'
  BY <1>b, <1>e, <1>f DEF ContentMirrorsPersonal, Audiences
<1>7. AudienceIsolation'
  <2>1. OfAudience(content', "personal")
    BY <1>b DEF OfAudience, Draft
  <2>2. \A a \in Audiences : OfAudience(variant'[a].source, a)
    BY <1>e, TextFields DEF OfAudience
  <2> QED
    BY <2>1, <2>2, <1>b, <1>e DEF IndInv, AudienceIsolation, OfAudience
<1>8. AcceptedFinalIsGrounded'
  BY <1>f DEF AcceptedFinalIsGrounded
<1>9. DraftsMatchSnapshots'
  <2>1. \A x \in snapshots : x[1] # nr
    <3>1. \A x \in snapshots : x[1] \in 1..MaxRevision /\ x[1] <= variant["personal"].revision
      BY DEF IndInv, TypeOK, DraftsAreDrafts
    <3>2. nr = variant["personal"].revision + 1
          /\ variant["personal"].revision \in 0..MaxRevision
      BY <1>c, <1>d DEF Audiences, Variant
    <3> QED
      BY <3>1, <3>2
  <2>2. \A x, y \in snapshots : x[1] = y[1] => x = y
    BY DEF IndInv, DraftsMatchSnapshots
  <2>3. \A x, y \in snapshots' : x[1] = y[1] => x = y
    BY <2>1, <2>2, <1>s
  <2>4. \A a \in Audiences : variant'[a].revision = nr /\ variant'[a].source.n = f
    BY <1>e, TextFields
  <2> QED
    <3>1. \A a \in Audiences : <<variant'[a].revision, variant'[a].source.n>> \in snapshots'
      BY <2>4, <1>s
    <3> QED
      BY <2>3, <3>1 DEF DraftsMatchSnapshots
<1>10. SessionKeepsItsDraft'
  BY <1>b DEF IndInv, SessionKeepsItsDraft
<1>11. AuditRecordHolds' /\ NothingOutlivesReport'
  <2>1. AuditRecordHolds'
    BY ZenonT(40), <1>b, <1>e DEF IndInv, AuditRecordHolds
  <2>2. NothingOutlivesReport'
    BY <1>b DEF NothingOutlivesReport
  <2> QED
    BY <2>1, <2>2
<1> QED
  BY <1>1, <1>2, <1>3, <1>4, <1>5, <1>6, <1>7, <1>8, <1>9, <1>10, <1>11 DEF IndInv

LEMMA OpenWriteKeepsIndInv ==
  ASSUME IndInv, NEW r \in Requests, OpenWrite(r)
  PROVE  IndInv'
<1> DEFINE held == request[r]
           new == [live |-> TRUE, of |-> held.of, rev |-> held.rev, source |-> held.source,
                   baseline |-> held.final]
           id == lastSession + 1
<1>a. /\ lastSession < MaxSession /\ lastSession' = id
      /\ session' = [session EXCEPT ![id] = new]
      /\ UNCHANGED <<legacy, report, facts, content, variant, snapshots, proposal, lastProposal>>
  BY DEF OpenWrite, RevisionRead
<1>b. id \in SessionId /\ id \in 0..MaxSession
  BY <1>a, BoundsAssumption DEF IndInv, TypeOK, SessionId
<1>c. /\ held \in Request /\ held.op = "open" /\ HeldFits(held)
  BY HeldTypes DEF IndInv, OpenWrite, End
<1>d. /\ held.rev # 0 /\ report # "absent"
      /\ held.source = Draft(held.of, held.source.n)
      /\ OfAudience(held.final, held.of)
      /\ report = "live" => <<held.rev, held.source.n>> \in snapshots
  BY <1>c DEF HeldFits
<1>e. /\ new \in Session /\ new.live /\ new.of = held.of /\ new.rev = held.rev
      /\ new.source = held.source /\ new.baseline = held.final
  BY <1>c DEF Session, Request
<1>f. /\ session' \in [SessionId -> Session]
      /\ session'[id] = new
      /\ \A s \in SessionId : s # id => session'[s] = session[s]
  BY <1>a, <1>b, <1>e DEF IndInv, TypeOK
<1>g. \A p \in ProposalId : proposal[p].status # "none"
        => proposal[p].session \in SessionId /\ proposal[p].session # id
  <2>1. \A p \in ProposalId : proposal[p].status # "none"
          => proposal[p].session \in SessionId /\ proposal[p].session <= lastSession
    BY DEF IndInv, ProposalsHaveSessions
  <2>2. lastSession \in Nat
    BY BoundsAssumption DEF IndInv, TypeOK
  <2> QED
    BY <2>1, <2>2 DEF SessionId
<1>h. /\ request' \in [Requests -> Request]
      /\ \A q \in Requests : request'[q] = Idle \/ request'[q] = request[q]
  BY EndedRequest DEF OpenWrite
<1>1. TypeOK'
  BY <1>a, <1>b, <1>f, <1>h DEF IndInv, TypeOK
<1>2. (RowsFollowReport /\ DraftsAreDrafts)'
  BY <1>a, <1>d DEF IndInv, RowsFollowReport, DraftsAreDrafts
<1>3. ProposalsHaveSessions'
  <2>1. \A s \in SessionId : session'[s].live => s <= lastSession' /\ session'[s].rev # 0
    <3>1. \A s \in SessionId : session[s].live => s <= lastSession /\ session[s].rev # 0
      BY DEF IndInv, ProposalsHaveSessions
    <3>2. lastSession \in Nat
      BY BoundsAssumption DEF IndInv, TypeOK
    <3> QED
      BY <1>a, <1>d, <1>e, <1>f, <3>1, <3>2 DEF SessionId
  <2>2. \A p \in ProposalId : proposal[p].status # "none"
          => /\ p <= lastProposal
             /\ session'[proposal[p].session].live
    BY <1>f, <1>g DEF IndInv, ProposalsHaveSessions
  <2>3. \A a \in Audiences : variant[a].final.kind = "proposal"
          => /\ variant[a].final.n \in ProposalId
             /\ proposal[variant[a].final.n].status # "none"
    BY DEF IndInv, ProposalsHaveSessions
  <2> QED
    BY <1>a, <1>g, <2>1, <2>2, <2>3 DEF ProposalsHaveSessions
<1>4. \A q \in Requests : HeldFits(request[q])'
  <2>1. ASSUME NEW h \in Request, HeldFits(h) PROVE HeldFits(h)'
    <3>1. h.accepted # NoProposal => h.accepted \in ProposalId
      BY BoundsAssumption DEF Request, NoProposal, ProposalId
    <3> QED
      BY <1>a, <1>f, <1>g, <2>1, <3>1 DEF HeldFits
  <2> QED
    BY <2>1, <1>h, RequestsStillFit
<1>5. ContentMirrorsPersonal'
  BY <1>a DEF IndInv, ContentMirrorsPersonal
<1>6. AudienceIsolation'
  <2>1. OfAudience(new.source, new.of) /\ OfAudience(new.baseline, new.of)
    BY <1>d, <1>e, TextFields DEF OfAudience
  <2> QED
    BY <1>a, <1>f, <2>1 DEF IndInv, AudienceIsolation, OfAudience
<1>7. AcceptedFinalIsGrounded'
  <2> SUFFICES ASSUME NEW a \in Audiences, variant[a].status = "current",
                      variant[a].final.kind = "proposal"
               PROVE  LET p == variant[a].final.n
                          s == proposal[p].session
                      IN /\ proposal[p].rev = variant[a].revision
                         /\ session'[s].of = a
                         /\ session'[s].source = variant[a].source
    BY <1>a DEF AcceptedFinalIsGrounded
  <2>1. variant[a].final.n \in ProposalId /\ proposal[variant[a].final.n].status # "none"
    BY DEF IndInv, ProposalsHaveSessions
  <2>2. session'[proposal[variant[a].final.n].session] = session[proposal[variant[a].final.n].session]
    BY <2>1, <1>f, <1>g
  <2> QED
    BY <2>2 DEF IndInv, AcceptedFinalIsGrounded
<1>8. DraftsMatchSnapshots'
  BY <1>a DEF IndInv, DraftsMatchSnapshots
<1>9. SessionKeepsItsDraft'
  <2>1. report = "live" => /\ <<new.rev, new.source.n>> \in snapshots
                           /\ new.source = Draft(new.of, new.source.n)
    BY <1>d, <1>e
  <2> QED
    BY <1>a, <1>f, <2>1 DEF IndInv, SessionKeepsItsDraft
<1>10. AuditRecordHolds'
  <2>1. \A a \in Audiences : variant[a].accepted # NoProposal => variant[a].accepted \in ProposalId
    BY BoundsAssumption DEF IndInv, TypeOK, Variant, NoProposal, ProposalId
  <2> QED
    BY <1>a, <1>f, <1>g, <2>1 DEF IndInv, AuditRecordHolds
<1>11. NothingOutlivesReport'
  BY <1>a DEF IndInv, NothingOutlivesReport
<1> QED
  BY <1>1, <1>2, <1>3, <1>4, <1>5, <1>6, <1>7, <1>8, <1>9, <1>10, <1>11 DEF IndInv

LEMMA ProposeKeepsIndInv ==
  ASSUME IndInv, NEW s \in SessionId, Propose(s)
  PROVE  IndInv'
<1> DEFINE new == [session |-> s, rev |-> session[s].rev, status |-> "pending"]
           id == lastProposal + 1
<1>a. /\ lastProposal < MaxProposal /\ lastProposal' = id
      /\ proposal' = [p \in ProposalId |->
           IF p = id THEN new
           ELSE IF Supersedes(p, s) THEN [proposal[p] EXCEPT !.status = "superseded"]
           ELSE proposal[p]]
      /\ UNCHANGED <<legacy, report, facts, content, variant, snapshots, session, lastSession, request>>
  BY DEF Propose
<1>b. /\ id \in ProposalId /\ id \in 0..MaxProposal
      /\ lastProposal \in Nat
  BY <1>a, BoundsAssumption DEF IndInv, TypeOK, ProposalId
<1>c. /\ session[s].live /\ session[s] \in Session
      /\ variant[session[s].of].revision = session[s].rev
  BY DEF Propose, SessionIsCurrent, IndInv, TypeOK
<1>d. report = "live"
  <2>1. session[s].rev # 0 /\ session[s].of \in Audiences
    BY <1>c DEF IndInv, ProposalsHaveSessions, Session
  <2>2. NoVariant.revision = 0
    BY DEF NoVariant, NewVariant
  <2> QED
    BY <1>c, <2>1, <2>2 DEF IndInv, RowsFollowReport
<1> DEFINE Row == [session : 0..MaxSession, rev : 0..MaxRevision,
                   status : {"none", "pending", "accepted", "superseded"}]
<1>e. /\ new \in Row /\ new.session = s /\ new.rev = session[s].rev /\ new.status = "pending"
  BY <1>c, BoundsAssumption DEF Session, SessionId
<1>f. \A p \in ProposalId : p # id
        => /\ proposal'[p] \in Row
           /\ proposal'[p].session = proposal[p].session
           /\ proposal'[p].rev = proposal[p].rev
           /\ \/ proposal'[p].status = proposal[p].status
              \/ proposal[p].status = "pending" /\ proposal'[p].status = "superseded"
  <2> SUFFICES ASSUME NEW p \in ProposalId, p # id
               PROVE  /\ proposal'[p] \in Row
                      /\ proposal'[p].session = proposal[p].session
                      /\ proposal'[p].rev = proposal[p].rev
                      /\ \/ proposal'[p].status = proposal[p].status
                         \/ proposal[p].status = "pending" /\ proposal'[p].status = "superseded"
    OBVIOUS
  <2>1. proposal[p] \in Row
    BY DEF IndInv, TypeOK
  <2>2. CASE Supersedes(p, s)
    <3>1. proposal'[p] = [proposal[p] EXCEPT !.status = "superseded"]
      BY <1>a, <2>2
    <3> QED
      BY <2>1, <2>2, <3>1 DEF Supersedes
  <2>3. CASE ~Supersedes(p, s)
    BY <1>a, <2>1, <2>3
  <2> QED
    BY <2>2, <2>3
<1>g. proposal'[id] = new
  BY <1>a, <1>b
<1>h. \A p \in ProposalId : proposal[p].status # "none" => p # id
  BY <1>b DEF IndInv, ProposalsHaveSessions
<1>1. TypeOK'
  <2>1. proposal' \in [ProposalId -> Row]
    <3>1. \A p \in ProposalId : proposal'[p] \in Row
      BY <1>e, <1>f, <1>g
    <3> QED
      BY <1>a, <3>1
  <2>2. \A a \in Audiences : variant'[a].accepted <= lastProposal'
    <3>1. \A a \in Audiences : variant[a].accepted \in 0..MaxProposal
                               /\ variant[a].accepted <= lastProposal
      BY DEF IndInv, TypeOK, Variant
    <3> QED
      BY <1>a, <1>b, <3>1
  <2> QED
    BY <1>a, <1>b, <2>1, <2>2 DEF IndInv, TypeOK
<1>2. (RowsFollowReport /\ DraftsAreDrafts)'
  BY <1>a, <1>d DEF IndInv, RowsFollowReport, DraftsAreDrafts
<1>3. ProposalsHaveSessions'
  <2>1. \A p \in ProposalId : proposal'[p].status # "none"
          => /\ p <= lastProposal'
             /\ proposal'[p].session \in SessionId
             /\ session[proposal'[p].session].live
    <3>1. \A p \in ProposalId : proposal[p].status # "none"
            => /\ p <= lastProposal
               /\ proposal[p].session \in SessionId
               /\ session[proposal[p].session].live
      BY DEF IndInv, ProposalsHaveSessions
    <3>2. \A p \in ProposalId : p # id /\ proposal'[p].status # "none"
            => proposal[p].status # "none"
      BY <1>f
    <3> QED
      BY <1>a, <1>b, <1>c, <1>e, <1>f, <1>g, <3>1, <3>2 DEF ProposalId
  <2>2. \A t \in SessionId : session[t].live => t <= lastSession /\ session[t].rev # 0
    BY DEF IndInv, ProposalsHaveSessions
  <2>3. \A a \in Audiences : variant[a].final.kind = "proposal"
          => /\ variant[a].final.n \in ProposalId
             /\ proposal'[variant[a].final.n].status # "none"
    BY <1>f, <1>h DEF IndInv, ProposalsHaveSessions
  <2> QED
    BY <1>a, <2>1, <2>2, <2>3 DEF ProposalsHaveSessions
<1>4. \A q \in Requests : HeldFits(request[q])'
  <2>1. ASSUME NEW h \in Request, HeldFits(h) PROVE HeldFits(h)'
    <3>1. h.op = "save" /\ h.accepted # NoProposal
            => h.accepted \in ProposalId /\ h.accepted <= lastProposal
      BY <2>1, BoundsAssumption DEF HeldFits, Request, NoProposal, ProposalId
    <3>2. h.op = "save" /\ h.accepted # NoProposal
            => h.accepted # id /\ h.accepted <= lastProposal'
      BY <3>1, <1>a, <1>b DEF ProposalId
    <3> QED
      BY <1>a, <1>f, <2>1, <3>1, <3>2 DEF HeldFits
  <2> QED
    BY <1>a, <2>1, RequestsStillFit
<1>5. (ContentMirrorsPersonal /\ AudienceIsolation)'
  BY <1>a DEF IndInv, ContentMirrorsPersonal, AudienceIsolation
<1>6. AcceptedFinalIsGrounded'
  <2> SUFFICES ASSUME NEW a \in Audiences, variant[a].status = "current",
                      variant[a].final.kind = "proposal"
               PROVE  LET p == variant[a].final.n
                          t == proposal'[p].session
                      IN /\ proposal'[p].rev = variant[a].revision
                         /\ session[t].of = a
                         /\ session[t].source = variant[a].source
    BY ZenonT(40), <1>a DEF AcceptedFinalIsGrounded
  <2>1. variant[a].final.n \in ProposalId /\ variant[a].final.n # id
    BY <1>h DEF IndInv, ProposalsHaveSessions
  <2>2. /\ proposal'[variant[a].final.n].session = proposal[variant[a].final.n].session
        /\ proposal'[variant[a].final.n].rev = proposal[variant[a].final.n].rev
    BY <2>1, <1>f
  <2> QED
    BY <2>2 DEF IndInv, AcceptedFinalIsGrounded
<1>7. (DraftsMatchSnapshots /\ SessionKeepsItsDraft)'
  BY <1>a DEF IndInv, DraftsMatchSnapshots, SessionKeepsItsDraft
<1>8. AuditRecordHolds'
  <2>1. \A a \in Audiences : variant[a].accepted # NoProposal => variant[a].accepted \in ProposalId
    BY BoundsAssumption DEF IndInv, TypeOK, Variant, NoProposal, ProposalId
  <2>2. \A p \in ProposalId : proposal[p].status = "accepted"
          => /\ proposal'[p].status = "accepted"
             /\ proposal'[p].session = proposal[p].session
    BY <1>f, <1>h
  <2> QED
    <3>1. variant' = variant /\ session' = session /\ report' = report
      BY <1>a
    <3>2. AuditRecordHolds
      BY DEF IndInv
    <3> QED
      BY <2>1, <2>2, <3>1, <3>2 DEF AuditRecordHolds
<1>9. NothingOutlivesReport'
  BY <1>a, <1>d DEF NothingOutlivesReport
<1> QED
  BY <1>1, <1>2, <1>3, <1>4, <1>5, <1>6, <1>7, <1>8, <1>9 DEF IndInv

LEMMA AcceptKeepsIndInv ==
  ASSUME IndInv, NEW p \in ProposalId, Accept(p)
  PROVE  IndInv'
<1> DEFINE s == proposal[p].session
           a == session[s].of
           text == ProposalText(p)
<1>a. /\ proposal[p].status \in {"pending", "accepted"}
      /\ session[s].live /\ variant[a].revision = session[s].rev
      /\ proposal[p].rev = session[s].rev
  BY DEF Accept, MayAccept, SessionIsCurrent
<1>b. /\ variant' = [variant EXCEPT ![a] =
           [@ EXCEPT !.final = text, !.status = "current", !.accepted = p]]
      /\ session' = [session EXCEPT ![s].baseline = text]
      /\ content' = ContentAfter(a, text)
      /\ proposal' = [proposal EXCEPT ![p].status = "accepted"]
      /\ UNCHANGED <<legacy, report, facts, snapshots, lastSession, lastProposal, request>>
  BY DEF Accept
<1>c. s \in SessionId /\ p <= lastProposal
  BY <1>a DEF IndInv, ProposalsHaveSessions
<1>d. session[s] \in Session /\ a \in Audiences
  BY <1>c DEF IndInv, TypeOK, Session
<1>e. report = "live"
  BY <1>a DEF IndInv, RowsFollowReport, NoRow
<1>f. text.kind = "proposal" /\ text.of = a /\ text.n = p /\ text \in Text
  <2>1. p \in Nat
    BY DEF ProposalId
  <2> QED
    BY <2>1, <1>d DEF ProposalText, Text
<1>g. /\ variant[a] \in Variant
      /\ \A b \in Audiences : b # a => variant'[b] = variant[b]
      /\ variant'[a] = [variant[a] EXCEPT !.final = text, !.status = "current", !.accepted = p]
  BY <1>b, <1>d DEF IndInv, TypeOK
<1>h. /\ variant'[a].source = variant[a].source /\ variant'[a].revision = variant[a].revision
      /\ variant'[a].final = text /\ variant'[a].status = "current" /\ variant'[a].accepted = p
      /\ variant'[a] \in Variant
  <2>1. p \in 0..MaxProposal
    BY BoundsAssumption DEF ProposalId
  <2> QED
    BY <2>1, <1>f, <1>g DEF Variant
<1>i. /\ session' \in [SessionId -> Session]
      /\ session'[s].baseline = text
      /\ \A t \in SessionId : /\ session'[t].live = session[t].live
                              /\ session'[t].of = session[t].of
                              /\ session'[t].rev = session[t].rev
                              /\ session'[t].source = session[t].source
                              /\ t # s => session'[t].baseline = session[t].baseline
  BY <1>b, <1>c, <1>f DEF IndInv, TypeOK, Session
<1> DEFINE Row == [session : 0..MaxSession, rev : 0..MaxRevision,
                   status : {"none", "pending", "accepted", "superseded"}]
<1>j. /\ proposal' \in [ProposalId -> Row]
      /\ proposal'[p].status = "accepted"
      /\ \A q \in ProposalId : /\ proposal'[q].session = proposal[q].session
                               /\ proposal'[q].rev = proposal[q].rev
                               /\ q # p => proposal'[q].status = proposal[q].status
  BY <1>b DEF IndInv, TypeOK
<1>1. TypeOK'
  <2>1. variant' \in [Audiences -> Variant]
    <3>1. \A b \in Audiences : variant'[b] \in Variant
      BY <1>g, <1>h DEF IndInv, TypeOK
    <3>2. variant' = [b \in Audiences |-> variant'[b]]
      BY <1>b DEF IndInv, TypeOK
    <3> QED
      BY <3>1, <3>2
  <2>2. \A b \in Audiences : variant'[b].accepted <= lastProposal'
    BY <1>b, <1>c, <1>g, <1>h DEF IndInv, TypeOK
  <2>3. content' \in Text
    BY <1>b, <1>f DEF ContentAfter, IndInv, TypeOK
  <2> QED
    BY <2>1, <2>2, <2>3, <1>b, <1>i, <1>j DEF IndInv, TypeOK
<1>2. RowsFollowReport'
  <2>1. \A b \in Audiences : variant'[b].revision = variant[b].revision
    BY <1>g, <1>h
  <2>2. variant[a].revision # 0
    BY <1>a, <1>c DEF IndInv, ProposalsHaveSessions
  <2>3. \A b \in Audiences : variant[b].revision # 0
    BY <2>2, <1>d DEF IndInv, RowsFollowReport, Audiences
  <2>4. variant["personal"].revision = variant["leadership"].revision
    BY DEF IndInv, RowsFollowReport
  <2> QED
    BY <2>1, <2>3, <2>4, <1>b, <1>e DEF RowsFollowReport, Audiences
<1>3. DraftsAreDrafts'
  <2>1. \A b \in Audiences : variant'[b].revision = variant[b].revision
                             /\ variant'[b].source = variant[b].source
    BY <1>g, <1>h
  <2> QED
    BY <2>1, <1>b DEF IndInv, DraftsAreDrafts, Audiences
<1>4. ProposalsHaveSessions'
  <2>1. \A t \in SessionId : session'[t].live => t <= lastSession' /\ session'[t].rev # 0
    <3>1. \A t \in SessionId : session[t].live => t <= lastSession /\ session[t].rev # 0
      BY DEF IndInv, ProposalsHaveSessions
    <3>2. lastSession' = lastSession
      BY <1>b
    <3> QED
      BY <1>i, <3>1, <3>2
  <2>2. \A q \in ProposalId : proposal'[q].status # "none" => proposal[q].status # "none"
    BY <1>a, <1>j
  <2>3. \A q \in ProposalId : proposal'[q].status # "none"
          => /\ q <= lastProposal'
             /\ proposal'[q].session \in SessionId
             /\ session'[proposal'[q].session].live
    BY <2>2, <1>b, <1>i, <1>j DEF IndInv, ProposalsHaveSessions
  <2>4. \A q \in ProposalId : proposal[q].status # "none" => proposal'[q].status # "none"
    BY <1>j
  <2>5. \A b \in Audiences : variant'[b].final.kind = "proposal"
          => /\ variant'[b].final.n \in ProposalId
             /\ proposal'[variant'[b].final.n].status # "none"
    <3> SUFFICES ASSUME NEW b \in Audiences, variant'[b].final.kind = "proposal"
                 PROVE  /\ variant'[b].final.n \in ProposalId
                        /\ proposal'[variant'[b].final.n].status # "none"
      OBVIOUS
    <3>1. CASE b = a
      <4>1. variant'[b].final.n = p
        BY <3>1, <1>f, <1>h
      <4> QED
        BY <4>1, <1>j
    <3>2. CASE b # a
      <4>1. variant'[b] = variant[b]
        BY <3>2, <1>g
      <4> QED
        BY <4>1, <2>4 DEF IndInv, ProposalsHaveSessions
    <3> QED
      BY <3>1, <3>2
  <2> QED
    BY <2>1, <2>3, <2>5 DEF ProposalsHaveSessions
<1>5. \A q \in Requests : HeldFits(request[q])'
  <2>1. ASSUME NEW h \in Request, HeldFits(h) PROVE HeldFits(h)'
    <3>1. h.op = "save" /\ h.accepted # NoProposal => h.accepted \in ProposalId
      BY BoundsAssumption DEF Request, NoProposal, ProposalId
    <3>2. \A q \in ProposalId : proposal'[q].status # "none"
            => /\ proposal[q].status # "none"
               /\ session'[proposal'[q].session].of = session[proposal[q].session].of
      BY <1>a, <1>i, <1>j DEF IndInv, ProposalsHaveSessions
    <3>3. h.of \in Audiences /\ variant'[h.of].revision = variant[h.of].revision
      BY <1>g, <1>h DEF Request
    <3> QED
      BY <1>b, <2>1, <3>1, <3>2, <3>3 DEF HeldFits
  <2> QED
    BY <1>b, <2>1, RequestsStillFit
<1>6. ContentMirrorsPersonal'
  <2>1. CASE a = "personal"
    BY <2>1, <1>b, <1>h DEF ContentMirrorsPersonal, ContentAfter, MirrorsContent
  <2>2. CASE a # "personal"
    <3>1. variant'["personal"] = variant["personal"] /\ content' = content
      BY <2>2, <1>b, <1>g DEF ContentAfter, MirrorsContent, Audiences
    <3> QED
      BY <3>1, <1>b DEF IndInv, ContentMirrorsPersonal
  <2> QED
    BY <2>1, <2>2
<1>7. AudienceIsolation'
  <2>1. OfAudience(text, a)
    BY <1>f DEF OfAudience
  <2>2. \A b \in Audiences : OfAudience(variant'[b].source, b) /\ OfAudience(variant'[b].final, b)
    BY <2>1, <1>g, <1>h DEF IndInv, AudienceIsolation
  <2>3. \A t \in SessionId : OfAudience(session'[t].source, session'[t].of)
                             /\ OfAudience(session'[t].baseline, session'[t].of)
    BY <2>1, <1>i DEF IndInv, AudienceIsolation
  <2>4. OfAudience(content', "personal")
    BY <2>1, <1>b DEF ContentAfter, MirrorsContent, IndInv, AudienceIsolation
  <2> QED
    BY <2>2, <2>3, <2>4 DEF AudienceIsolation, OfAudience
<1>8. AcceptedFinalIsGrounded'
  <2>1. session[s].source = variant[a].source
    <3>1. /\ <<session[s].rev, session[s].source.n>> \in snapshots
          /\ session[s].source = Draft(a, session[s].source.n)
      BY <1>a, <1>c, <1>e DEF IndInv, SessionKeepsItsDraft
    <3>2. variant[a].revision # 0
      BY <1>a, <1>c DEF IndInv, ProposalsHaveSessions
    <3>3. /\ <<variant[a].revision, variant[a].source.n>> \in snapshots
          /\ variant[a].source = Draft(a, variant[a].source.n)
      BY <3>2, <1>d DEF IndInv, DraftsMatchSnapshots, DraftsAreDrafts
    <3>4. \A x, y \in snapshots : x[1] = y[1] => x = y
      BY DEF IndInv, DraftsMatchSnapshots
    <3>5. session[s].source.n = variant[a].source.n
      BY <3>1, <3>3, <3>4, <1>a
    <3> QED
      BY <3>1, <3>3, <3>5
  <2> SUFFICES ASSUME NEW b \in Audiences, variant'[b].status = "current",
                      variant'[b].final.kind = "proposal"
               PROVE  LET q == variant'[b].final.n
                          t == proposal'[q].session
                      IN /\ proposal'[q].rev = variant'[b].revision
                         /\ session'[t].of = b
                         /\ session'[t].source = variant'[b].source
    BY DEF AcceptedFinalIsGrounded
  <2>2. CASE b = a
    <3>1. /\ variant'[b].final.n = p /\ variant'[b].revision = variant[a].revision
          /\ variant'[b].source = variant[a].source
      BY <2>2, <1>f, <1>h
    <3>2. proposal'[p].rev = proposal[p].rev /\ proposal'[p].session = s
      BY <1>j
    <3>3. session'[s].of = a /\ session'[s].source = session[s].source
      BY <1>c, <1>i
    <3> QED
      BY <2>1, <2>2, <3>1, <3>2, <3>3, <1>a
  <2>3. CASE b # a
    <3>1. variant'[b] = variant[b]
      BY <2>3, <1>g
    <3> DEFINE q == variant[b].final.n
    <3>2. q \in ProposalId /\ proposal[q].session \in SessionId
      BY <3>1 DEF IndInv, ProposalsHaveSessions
    <3>3. /\ proposal[q].rev = variant[b].revision
          /\ session[proposal[q].session].of = b
          /\ session[proposal[q].session].source = variant[b].source
      BY <3>1 DEF IndInv, AcceptedFinalIsGrounded
    <3>4. proposal'[q].rev = proposal[q].rev /\ proposal'[q].session = proposal[q].session
      BY <3>2, <1>j
    <3>5. /\ session'[proposal[q].session].of = session[proposal[q].session].of
          /\ session'[proposal[q].session].source = session[proposal[q].session].source
      BY <3>2, <1>i
    <3> QED
      BY <3>1, <3>3, <3>4, <3>5
  <2> QED
    BY <2>2, <2>3
<1>9. DraftsMatchSnapshots'
  <2>1. \A b \in Audiences : variant'[b].revision = variant[b].revision
                             /\ variant'[b].source = variant[b].source
    BY <1>g, <1>h
  <2>2. \A b \in Audiences : variant'[b].revision # 0
          => <<variant'[b].revision, variant'[b].source.n>> \in snapshots
    BY <2>1 DEF IndInv, DraftsMatchSnapshots
  <2>3. \A x, y \in snapshots : x[1] = y[1] => x = y
    BY DEF IndInv, DraftsMatchSnapshots
  <2> QED
    BY <2>2, <2>3, <1>b DEF DraftsMatchSnapshots
<1>10. SessionKeepsItsDraft'
  <2>1. SessionKeepsItsDraft
    BY DEF IndInv
  <2>2. report' = report /\ snapshots' = snapshots
    BY <1>b
  <2> QED
    BY <1>i, <2>1, <2>2 DEF SessionKeepsItsDraft
<1>11. AuditRecordHolds'
  <2> SUFFICES ASSUME NEW b \in Audiences, variant'[b].accepted # NoProposal
               PROVE  LET q == variant'[b].accepted
                      IN /\ proposal'[q].status = "accepted"
                         /\ session'[proposal'[q].session].live
                         /\ session'[proposal'[q].session].of = b
    BY DEF AuditRecordHolds
  <2>1. CASE b = a
    BY ZenonT(40), <2>1, <1>a, <1>c, <1>h, <1>i, <1>j
  <2>2. CASE b # a
    <3> DEFINE q == variant[b].accepted
    <3>1. variant'[b] = variant[b] /\ variant[b] \in Variant
      BY <2>2, <1>g DEF IndInv, TypeOK
    <3>2. q \in ProposalId
      BY <3>1, BoundsAssumption DEF Variant, NoProposal, ProposalId
    <3>3. /\ proposal[q].status = "accepted"
          /\ session[proposal[q].session].live
          /\ session[proposal[q].session].of = b
      BY <3>1 DEF IndInv, AuditRecordHolds
    <3>4. proposal[q].session \in SessionId
      BY <3>2, <3>3 DEF IndInv, ProposalsHaveSessions
    <3> QED
      BY <3>1, <3>2, <3>3, <3>4, <1>i, <1>j
  <2> QED
    BY <2>1, <2>2
<1>12. NothingOutlivesReport'
  BY <1>b, <1>e DEF NothingOutlivesReport
<1> QED
  BY <1>1, <1>2, <1>3, <1>4, <1>5, <1>6, <1>7, <1>8, <1>9, <1>10, <1>11, <1>12 DEF IndInv

LEMMA SaveWriteKeepsIndInv ==
  ASSUME IndInv, NEW r \in Requests, SaveWrite(r)
  PROVE  IndInv'
<1> DEFINE held == request[r]
           a == held.of
           text == Edit(a, held.rev)
<1>a. /\ report = "live"
      /\ variant' = [variant EXCEPT ![a] = [@ EXCEPT !.final = text, !.status = "current"]]
      /\ content' = ContentAfter(a, text)
      /\ session' = BaselineEdited(held, text)
      /\ UNCHANGED <<legacy, report, facts, snapshots, lastSession, proposal, lastProposal>>
  BY DEF SaveWrite
<1>b. held \in Request /\ HeldFits(held) /\ held.op = "save"
  BY HeldTypes DEF IndInv, SaveWrite, End
<1>c. /\ a \in Audiences /\ held.rev \in Nat
      /\ held.accepted # NoProposal => held.accepted \in ProposalId
  BY <1>b, BoundsAssumption DEF Request, NoProposal, ProposalId
<1>d. text \in Text /\ text.kind = "edit" /\ text.of = a
  BY <1>c, Texts, TextFields
<1>e. /\ variant[a] \in Variant
      /\ \A b \in Audiences : b # a => variant'[b] = variant[b]
      /\ variant'[a] = [variant[a] EXCEPT !.final = text, !.status = "current"]
  BY <1>a, <1>c DEF IndInv, TypeOK
<1>f. /\ variant'[a].source = variant[a].source /\ variant'[a].revision = variant[a].revision
      /\ variant'[a].final = text /\ variant'[a].status = "current"
      /\ variant'[a].accepted = variant[a].accepted
      /\ variant'[a] \in Variant
  BY <1>d, <1>e DEF Variant
<1>g. /\ session' \in [SessionId -> Session]
      /\ \A t \in SessionId : /\ session'[t].live = session[t].live
                              /\ session'[t].of = session[t].of
                              /\ session'[t].rev = session[t].rev
                              /\ session'[t].source = session[t].source
                              /\ \/ session'[t].baseline = session[t].baseline
                                 \/ session'[t].baseline = text /\ session[t].of = a
  <2>1. CASE held.accepted = NoProposal \/ proposal[held.accepted].status = "none"
    BY <1>a, <2>1 DEF BaselineEdited, IndInv, TypeOK
  <2>2. CASE held.accepted # NoProposal /\ proposal[held.accepted].status # "none"
    <3> DEFINE s == proposal[held.accepted].session
    <3>1. s \in SessionId /\ session[s].of = a
      BY <1>b, <1>c, <2>2 DEF HeldFits, IndInv, ProposalsHaveSessions
    <3>2. session' = [session EXCEPT ![s].baseline = text]
      BY <1>a, <2>2 DEF BaselineEdited
    <3> QED
      BY ZenonT(40), <1>d, <3>1, <3>2 DEF IndInv, TypeOK, Session
  <2> QED
    BY <2>1, <2>2
<1>h. /\ request' \in [Requests -> Request]
      /\ \A q \in Requests : request'[q] = Idle \/ request'[q] = request[q]
  BY EndedRequest DEF SaveWrite
<1>i. \A b \in Audiences : /\ variant'[b].revision = variant[b].revision
                           /\ variant'[b].source = variant[b].source
                           /\ variant'[b].accepted = variant[b].accepted
  BY <1>e, <1>f
<1>1. TypeOK'
  <2>1. variant' \in [Audiences -> Variant]
    <3>1. \A b \in Audiences : variant'[b] \in Variant
      BY <1>e, <1>f DEF IndInv, TypeOK
    <3>2. variant' = [b \in Audiences |-> variant'[b]]
      BY <1>a DEF IndInv, TypeOK
    <3> QED
      BY <3>1, <3>2
  <2>2. \A b \in Audiences : variant'[b].accepted <= lastProposal'
    BY <1>a, <1>i DEF IndInv, TypeOK
  <2>3. content' \in Text
    BY <1>a, <1>d DEF ContentAfter, IndInv, TypeOK
  <2> QED
    BY <2>1, <2>2, <2>3, <1>a, <1>g, <1>h DEF IndInv, TypeOK
<1>2. RowsFollowReport'
  <2>1. variant[a].revision # 0
    BY <1>a, <1>b DEF HeldFits
  <2>2. \A b \in Audiences : variant[b].revision # 0
    BY <2>1, <1>c DEF IndInv, RowsFollowReport, Audiences
  <2>3. variant["personal"].revision = variant["leadership"].revision
    BY DEF IndInv, RowsFollowReport
  <2> QED
    BY <2>2, <2>3, <1>a, <1>i DEF RowsFollowReport, Audiences
<1>3. DraftsAreDrafts'
  BY <1>a, <1>i DEF IndInv, DraftsAreDrafts, Audiences
<1>4. ProposalsHaveSessions'
  <2>1. \A t \in SessionId : session'[t].live => t <= lastSession' /\ session'[t].rev # 0
    BY <1>a, <1>g DEF IndInv, ProposalsHaveSessions
  <2>2. \A q \in ProposalId : proposal'[q].status # "none"
          => /\ q <= lastProposal'
             /\ proposal'[q].session \in SessionId
             /\ session'[proposal'[q].session].live
    BY <1>a, <1>g DEF IndInv, ProposalsHaveSessions
  <2>3. \A b \in Audiences : variant'[b].final.kind = "proposal"
          => /\ variant'[b].final.n \in ProposalId
             /\ proposal'[variant'[b].final.n].status # "none"
    <3> SUFFICES ASSUME NEW b \in Audiences, variant'[b].final.kind = "proposal"
                 PROVE  /\ variant'[b].final.n \in ProposalId
                        /\ proposal'[variant'[b].final.n].status # "none"
      OBVIOUS
    <3>1. variant'[b] = variant[b]
      BY <1>d, <1>e, <1>f
    <3> QED
      BY <3>1, <1>a DEF IndInv, ProposalsHaveSessions
  <2> QED
    BY <2>1, <2>2, <2>3 DEF ProposalsHaveSessions
<1>5. \A q \in Requests : HeldFits(request[q])'
  <2>1. ASSUME NEW h \in Request, HeldFits(h) PROVE HeldFits(h)'
    <3>1. h.of \in Audiences /\ (h.accepted # NoProposal => h.accepted \in ProposalId)
      BY BoundsAssumption DEF Request, NoProposal, ProposalId
    <3>2. \A q \in ProposalId : proposal[q].status # "none"
            => session'[proposal[q].session].of = session[proposal[q].session].of
      BY <1>g DEF IndInv, ProposalsHaveSessions
    <3> QED
      BY <2>1, <3>1, <3>2, <1>a, <1>i DEF HeldFits
  <2> QED
    BY <2>1, <1>h, RequestsStillFit
<1>6. ContentMirrorsPersonal'
  <2>1. CASE a = "personal"
    BY <2>1, <1>a, <1>f DEF ContentMirrorsPersonal, ContentAfter, MirrorsContent
  <2>2. CASE a # "personal"
    <3>1. variant'["personal"] = variant["personal"] /\ content' = content
      BY <2>2, <1>a, <1>e DEF ContentAfter, MirrorsContent, Audiences
    <3> QED
      BY <3>1, <1>a DEF IndInv, ContentMirrorsPersonal
  <2> QED
    BY <2>1, <2>2
<1>7. AudienceIsolation'
  <2>1. OfAudience(text, a)
    BY <1>d DEF OfAudience
  <2>2. \A b \in Audiences : OfAudience(variant'[b].source, b) /\ OfAudience(variant'[b].final, b)
    BY <2>1, <1>e, <1>f DEF IndInv, AudienceIsolation
  <2>3. \A t \in SessionId : OfAudience(session'[t].source, session'[t].of)
                             /\ OfAudience(session'[t].baseline, session'[t].of)
    BY <2>1, <1>g DEF IndInv, AudienceIsolation
  <2>4. OfAudience(content', "personal")
    BY <2>1, <1>a DEF ContentAfter, MirrorsContent, IndInv, AudienceIsolation
  <2> QED
    BY <2>2, <2>3, <2>4 DEF AudienceIsolation, OfAudience
<1>8. AcceptedFinalIsGrounded'
  <2> SUFFICES ASSUME NEW b \in Audiences, variant'[b].status = "current",
                      variant'[b].final.kind = "proposal"
               PROVE  LET q == variant'[b].final.n
                          t == proposal'[q].session
                      IN /\ proposal'[q].rev = variant'[b].revision
                         /\ session'[t].of = b
                         /\ session'[t].source = variant'[b].source
    BY DEF AcceptedFinalIsGrounded
  <2>1. variant'[b] = variant[b]
    BY <1>d, <1>e, <1>f
  <2> DEFINE q == variant[b].final.n
  <2>2. q \in ProposalId /\ proposal[q].session \in SessionId
    BY <2>1 DEF IndInv, ProposalsHaveSessions
  <2>3. /\ proposal[q].rev = variant[b].revision
        /\ session[proposal[q].session].of = b
        /\ session[proposal[q].session].source = variant[b].source
    BY <2>1 DEF IndInv, AcceptedFinalIsGrounded
  <2> QED
    BY <2>1, <2>2, <2>3, <1>a, <1>g
<1>9. DraftsMatchSnapshots'
  <2>1. \A b \in Audiences : variant'[b].revision # 0
          => <<variant'[b].revision, variant'[b].source.n>> \in snapshots
    BY <1>i DEF IndInv, DraftsMatchSnapshots
  <2>2. \A x, y \in snapshots : x[1] = y[1] => x = y
    BY DEF IndInv, DraftsMatchSnapshots
  <2> QED
    BY <2>1, <2>2, <1>a DEF DraftsMatchSnapshots
<1>10. SessionKeepsItsDraft'
  <2>1. SessionKeepsItsDraft
    BY DEF IndInv
  <2>2. report' = report /\ snapshots' = snapshots
    BY <1>a
  <2> QED
    BY <1>g, <2>1, <2>2 DEF SessionKeepsItsDraft
<1>11. AuditRecordHolds'
  <2> SUFFICES ASSUME NEW b \in Audiences, variant'[b].accepted # NoProposal
               PROVE  LET q == variant'[b].accepted
                      IN /\ proposal'[q].status = "accepted"
                         /\ session'[proposal'[q].session].live
                         /\ session'[proposal'[q].session].of = b
    BY DEF AuditRecordHolds
  <2> DEFINE q == variant[b].accepted
  <2>1. q \in ProposalId /\ variant'[b].accepted = q
    BY <1>i, BoundsAssumption DEF IndInv, TypeOK, Variant, NoProposal, ProposalId
  <2>2. /\ proposal[q].status = "accepted"
        /\ session[proposal[q].session].live
        /\ session[proposal[q].session].of = b
    BY <2>1 DEF IndInv, AuditRecordHolds
  <2>3. proposal[q].session \in SessionId
    BY <2>1, <2>2 DEF IndInv, ProposalsHaveSessions
  <2>4. proposal' = proposal /\ session'[proposal[q].session].live
        /\ session'[proposal[q].session].of = b
    BY <2>2, <2>3, <1>a, <1>g
  <2> QED
    BY <2>1, <2>2, <2>4
<1>12. NothingOutlivesReport'
  BY <1>a DEF NothingOutlivesReport
<1> QED
  BY <1>1, <1>2, <1>3, <1>4, <1>5, <1>6, <1>7, <1>8, <1>9, <1>10, <1>11, <1>12 DEF IndInv

LEMMA SaveLegacyWriteKeepsIndInv ==
  ASSUME IndInv, NEW r \in Requests, SaveLegacyWrite(r)
  PROVE  IndInv'
<1>a. /\ content' = Edit("personal", 0)
      /\ UNCHANGED <<legacy, report, facts, variant, snapshots, session, lastSession, proposal,
                     lastProposal>>
  BY DEF SaveLegacyWrite
<1>b. legacy
  BY DEF IndInv, HeldFits, SaveLegacyWrite, End
<1>c. /\ request' \in [Requests -> Request]
      /\ \A q \in Requests : request'[q] = Idle \/ request'[q] = request[q]
  BY EndedRequest DEF SaveLegacyWrite
<1>d. content' \in Text /\ OfAudience(content', "personal")
  BY <1>a, Texts, TextFields DEF OfAudience, Audiences
<1>1. TypeOK'
  BY <1>a, <1>c, <1>d DEF IndInv, TypeOK
<1>2. (RowsFollowReport /\ DraftsAreDrafts /\ ProposalsHaveSessions)'
  BY <1>a DEF IndInv, RowsFollowReport, DraftsAreDrafts, ProposalsHaveSessions
<1>3. \A q \in Requests : HeldFits(request[q])'
  <2>1. ASSUME NEW h \in Request, HeldFits(h) PROVE HeldFits(h)'
    BY <1>a, <2>1 DEF HeldFits
  <2> QED
    BY <1>c, <2>1, RequestsStillFit
<1>4. ContentMirrorsPersonal'
  BY <1>a, <1>b DEF ContentMirrorsPersonal
<1>5. AudienceIsolation'
  BY <1>a, <1>d DEF IndInv, AudienceIsolation, OfAudience
<1>6. (AcceptedFinalIsGrounded /\ DraftsMatchSnapshots /\ SessionKeepsItsDraft)'
  BY <1>a DEF IndInv, AcceptedFinalIsGrounded, DraftsMatchSnapshots, SessionKeepsItsDraft
<1>7. (AuditRecordHolds /\ NothingOutlivesReport)'
  BY <1>a DEF IndInv, AuditRecordHolds, NothingOutlivesReport
<1> QED
  BY <1>1, <1>2, <1>3, <1>4, <1>5, <1>6, <1>7 DEF IndInv

LEMMA DeleteWriteKeepsIndInv ==
  ASSUME IndInv, NEW r \in Requests, DeleteWrite(r)
  PROVE  IndInv'
<1>a. /\ report' = "deleted" /\ snapshots' = {} /\ content' = NoText
      /\ variant' = [a \in Audiences |-> NoVariant]
      /\ session' = [s \in SessionId |-> NoSession]
      /\ proposal' = [p \in ProposalId |-> NoRow]
      /\ UNCHANGED <<legacy, facts, lastSession, lastProposal>>
  BY DEF DeleteWrite
<1>b. /\ request' \in [Requests -> Request]
      /\ \A q \in Requests : request'[q] = Idle \/ request'[q] = request[q]
  BY EndedRequest DEF DeleteWrite
<1>c. /\ \A a \in Audiences : variant'[a] = NoVariant
      /\ \A s \in SessionId : session'[s] = NoSession
      /\ \A p \in ProposalId : proposal'[p] = NoRow
  BY <1>a
<1>d. /\ NoVariant.revision = 0 /\ NoVariant.accepted = NoProposal
      /\ NoVariant.source = NoText /\ NoVariant.final = NoText /\ NoVariant.status = "none"
      /\ NoRow.status = "none" /\ NoText.kind = "none"
      /\ ~NoSession.live /\ NoSession.source = NoText /\ NoSession.baseline = NoText
  BY DEF NoVariant, NewVariant, NoRow, NoText, NoSession
<1>1. TypeOK'
  <2>1. variant' \in [Audiences -> Variant] /\ session' \in [SessionId -> Session]
    BY <1>a, Rows
  <2>2. \A a \in Audiences : variant'[a].accepted <= lastProposal'
    <3>1. lastProposal' \in Nat
      BY <1>a, BoundsAssumption DEF IndInv, TypeOK
    <3>2. \A a \in Audiences : variant'[a].accepted = 0
      BY <1>c, <1>d DEF NoProposal
    <3> QED
      BY <3>1, <3>2
  <2>3. proposal' \in [ProposalId -> [session : 0..MaxSession, rev : 0..MaxRevision,
                          status : {"none", "pending", "accepted", "superseded"}]]
    BY <1>a, BoundsAssumption DEF NoRow
  <2> QED
    BY <2>1, <2>2, <2>3, <1>a, <1>b, Texts DEF IndInv, TypeOK
<1>2. RowsFollowReport'
  BY <1>a, <1>c, <1>d DEF RowsFollowReport, Audiences
<1>3. DraftsAreDrafts'
  BY <1>a, <1>c, <1>d DEF DraftsAreDrafts
<1>4. ProposalsHaveSessions'
  <2>1. \A a \in Audiences : variant'[a].final.kind # "proposal"
    BY <1>c, <1>d
  <2> QED
    BY <2>1, <1>c, <1>d DEF ProposalsHaveSessions
<1>5. \A q \in Requests : HeldFits(request[q])'
  <2>1. ASSUME NEW h \in Request, HeldFits(h) PROVE HeldFits(h)'
    <3>1. h.op = "save" /\ h.accepted # NoProposal => h.accepted \in ProposalId
      BY BoundsAssumption DEF Request, NoProposal, ProposalId
    <3> QED
      BY <1>a, <1>c, <1>d, <2>1, <3>1 DEF HeldFits
  <2> QED
    BY <1>b, <2>1, RequestsStillFit
<1>6. ContentMirrorsPersonal'
  BY <1>a DEF ContentMirrorsPersonal
<1>7. AudienceIsolation'
  BY <1>a, <1>c, <1>d DEF AudienceIsolation, OfAudience
<1>8. AcceptedFinalIsGrounded'
  BY <1>c, <1>d DEF AcceptedFinalIsGrounded
<1>9. DraftsMatchSnapshots'
  BY <1>a, <1>c, <1>d DEF DraftsMatchSnapshots
<1>10. SessionKeepsItsDraft'
  BY <1>c, <1>d DEF SessionKeepsItsDraft
<1>11. (AuditRecordHolds /\ NothingOutlivesReport)'
  BY <1>a, <1>c, <1>d DEF AuditRecordHolds, NothingOutlivesReport
<1> QED
  BY <1>1, <1>2, <1>3, <1>4, <1>5, <1>6, <1>7, <1>8, <1>9, <1>10, <1>11 DEF IndInv

LEMMA EventsChangeKeepsIndInv ==
  ASSUME IndInv, EventsChange
  PROVE  IndInv'
<1>a. /\ facts' \in 0..MaxFacts
      /\ UNCHANGED <<legacy, report, content, variant, snapshots, session, lastSession, proposal,
                     lastProposal, request>>
  BY BoundsAssumption DEF EventsChange, IndInv, TypeOK
<1>1. TypeOK'
  BY <1>a DEF IndInv, TypeOK
<1>2. (RowsFollowReport /\ DraftsAreDrafts /\ ProposalsHaveSessions)'
  BY <1>a DEF IndInv, RowsFollowReport, DraftsAreDrafts, ProposalsHaveSessions
<1>3. \A q \in Requests : HeldFits(request[q])'
  BY <1>a DEF IndInv, HeldFits
<1>4. (ContentMirrorsPersonal /\ AudienceIsolation)'
  BY <1>a DEF IndInv, ContentMirrorsPersonal, AudienceIsolation
<1>5. (AcceptedFinalIsGrounded /\ DraftsMatchSnapshots /\ SessionKeepsItsDraft)'
  BY <1>a DEF IndInv, AcceptedFinalIsGrounded, DraftsMatchSnapshots, SessionKeepsItsDraft
<1>6. (AuditRecordHolds /\ NothingOutlivesReport)'
  BY <1>a DEF IndInv, AuditRecordHolds, NothingOutlivesReport
<1> QED
  BY <1>1, <1>2, <1>3, <1>4, <1>5, <1>6 DEF IndInv

-----------------------------------------------------------------------------
(***************************************************************************)
(* Every step, and the theorems.                                           *)
(***************************************************************************)
LEMMA NextKeepsIndInv ==
  ASSUME IndInv, [Next]_vars
  PROVE  IndInv'
<1>1. ASSUME NEW r \in Requests, RequestStep(r) PROVE IndInv'
  BY <1>1, ReadsKeepIndInv, CreateWriteKeepsIndInv, RegenerateWriteKeepsIndInv,
     OpenWriteKeepsIndInv, SaveWriteKeepsIndInv, SaveLegacyWriteKeepsIndInv,
     DeleteWriteKeepsIndInv DEF RequestStep
<1>2. CASE UNCHANGED vars
  <2> USE <1>2 DEF vars, tables
  <2>1. TypeOK'
    BY DEF IndInv, TypeOK
  <2>2. (RowsFollowReport /\ DraftsAreDrafts /\ ProposalsHaveSessions)'
    BY DEF IndInv, RowsFollowReport, DraftsAreDrafts, ProposalsHaveSessions
  <2>3. \A q \in Requests : HeldFits(request[q])'
    BY DEF IndInv, HeldFits
  <2>4. (ContentMirrorsPersonal /\ AudienceIsolation)'
    BY DEF IndInv, ContentMirrorsPersonal, AudienceIsolation
  <2>5. (AcceptedFinalIsGrounded /\ DraftsMatchSnapshots /\ SessionKeepsItsDraft)'
    BY DEF IndInv, AcceptedFinalIsGrounded, DraftsMatchSnapshots, SessionKeepsItsDraft
  <2>6. (AuditRecordHolds /\ NothingOutlivesReport)'
    BY DEF IndInv, AuditRecordHolds, NothingOutlivesReport
  <2> QED
    BY <2>1, <2>2, <2>3, <2>4, <2>5, <2>6 DEF IndInv
<1> QED
  BY <1>1, <1>2, ProposeKeepsIndInv, AcceptKeepsIndInv, EventsChangeKeepsIndInv DEF Next

\* What the handlers keep together holds in every reachable state, for every
\* number of concurrent requests and every bound, legacy report or not.
THEOREM IndInvHolds == Spec => []IndInv
BY InitIndInv, NextKeepsIndInv, PTL DEF Spec

\* Type correctness; among it, a variant never names a proposal not handed out.
THEOREM TypeOKHolds == Spec => []TypeOK
<1>1. IndInv => TypeOK
  BY DEF IndInv
<1> QED
  BY <1>1, IndInvHolds, PTL

\* reports.content follows the personal variant.
THEOREM ContentMirrorsPersonalHolds == Spec => []ContentMirrorsPersonal
<1>1. IndInv => ContentMirrorsPersonal
  BY DEF IndInv
<1> QED
  BY <1>1, IndInvHolds, PTL

\* No text of one audience reaches the other.
THEOREM AudienceIsolationHolds == Spec => []AudienceIsolation
<1>1. IndInv => AudienceIsolation
  BY DEF IndInv
<1> QED
  BY <1>1, IndInvHolds, PTL

\* An accepted final marked current comes from the draft the variant shows.
THEOREM AcceptedFinalIsGroundedHolds == Spec => []AcceptedFinalIsGrounded
<1>1. IndInv => AcceptedFinalIsGrounded
  BY DEF IndInv
<1> QED
  BY <1>1, IndInvHolds, PTL

\* Revisions are unique and their snapshots explain the drafts.
THEOREM DraftsMatchSnapshotsHolds == Spec => []DraftsMatchSnapshots
<1>1. IndInv => DraftsMatchSnapshots
  BY DEF IndInv
<1> QED
  BY <1>1, IndInvHolds, PTL

\* A session keeps the draft of the revision it names.
THEOREM SessionKeepsItsDraftHolds == Spec => []SessionKeepsItsDraft
<1>1. IndInv => SessionKeepsItsDraft
  BY DEF IndInv
<1> QED
  BY <1>1, IndInvHolds, PTL

\* The audit record of an accepted final stays.
THEOREM AuditRecordHoldsAlways == Spec => []AuditRecordHolds
<1>1. IndInv => AuditRecordHolds
  BY DEF IndInv
<1> QED
  BY <1>1, IndInvHolds, PTL

\* Nothing but a late session survives the report.
THEOREM NothingOutlivesReportHolds == Spec => []NothingOutlivesReport
<1>1. IndInv => NothingOutlivesReport
  BY DEF IndInv
<1> QED
  BY <1>1, IndInvHolds, PTL

-----------------------------------------------------------------------------
(***************************************************************************)
(* ReportVariants implements AudienceFinals.                               *)
(***************************************************************************)
LEMMA InitRefines == Init => Finals!Init
<1> SUFFICES ASSUME Init PROVE Finals!Init
  OBVIOUS
<1>1. \A a \in Audiences : /\ variant[a].final = NoText /\ variant[a].status = "none"
                           /\ variant[a].revision = 0
  BY DEF Init, NoVariant, NewVariant
<1>2. NextRevision - 1 = 0
  BY <1>1 DEF NextRevision, Audiences
<1>3. [a \in Audiences |-> variant[a].final] = [a \in Audiences |-> NoText]
  BY <1>1
<1>4. {a \in Audiences : variant[a].status = "current"} = {}
  BY <1>1
<1> QED
  BY <1>2, <1>3, <1>4 DEF Finals!Init

LEMMA SameVariantStutters ==
  ASSUME variant' = variant
  PROVE  UNCHANGED Finals!vars
BY DEF Finals!vars, NextRevision

LEMMA RevisionIs ==
  ASSUME IndInv
  PROVE  \A a \in Audiences : NextRevision - 1 = variant[a].revision
<1>1. \A a \in Audiences : variant[a].revision \in Nat /\ NextRevision = variant[a].revision + 1
  BY NextRevisionIsNext, BoundsAssumption DEF IndInv, TypeOK, Variant
<1> QED
  BY <1>1

LEMMA CreateRefines ==
  ASSUME IndInv, NEW r \in Requests, CreateWrite(r)
  PROVE  Finals!Redraft
<1>1. \A a \in Audiences : variant[a].final = NoText /\ variant[a].revision = 0
  BY DEF IndInv, RowsFollowReport, CreateWrite, NoVariant, NewVariant
<1>2. \A a \in Audiences : /\ variant'[a].final = NoText /\ variant'[a].revision = 1
                           /\ variant'[a].status = "none"
  BY DEF CreateWrite, NewVariant
<1>3. NextRevision - 1 = 0 /\ (NextRevision - 1)' = 1
  BY <1>1, <1>2 DEF NextRevision, Audiences
<1>4. [a \in Audiences |-> variant'[a].final] = [a \in Audiences |-> variant[a].final]
  BY <1>1, <1>2
<1>5. {a \in Audiences : variant'[a].status = "current"} = {}
  BY <1>2
<1> QED
  BY <1>3, <1>4, <1>5 DEF Finals!Redraft

LEMMA RegenerateRefines ==
  ASSUME IndInv, NEW r \in Requests, RegenerateWrite(r)
  PROVE  Finals!Redraft
<1> DEFINE nr == NextRevision
<1>1. \A a \in Audiences : variant[a] \in Variant
  BY DEF IndInv, TypeOK
<1>2. \A a \in Audiences : /\ variant'[a].final = variant[a].final
                           /\ variant'[a].revision = nr
                           /\ variant'[a].status # "current"
  BY <1>1 DEF RegenerateWrite, FinalAfter, Variant
<1>3. nr \in Nat
  BY NextRevisionIsNext
<1>4. NextRevision' = nr + 1
  BY <1>2, <1>3 DEF NextRevision, Audiences
<1>5. (NextRevision - 1)' = (NextRevision - 1) + 1
  BY <1>3, <1>4
<1>6. [a \in Audiences |-> variant'[a].final] = [a \in Audiences |-> variant[a].final]
  BY <1>2
<1>7. {a \in Audiences : variant'[a].status = "current"} = {}
  BY <1>2
<1> QED
  BY <1>5, <1>6, <1>7 DEF Finals!Redraft

LEMMA DeleteRefines ==
  ASSUME IndInv, NEW r \in Requests, DeleteWrite(r)
  PROVE  Finals!Withdraw
<1>1. \A a \in Audiences : /\ variant'[a].final = NoText /\ variant'[a].revision = 0
                           /\ variant'[a].status = "none"
  BY DEF DeleteWrite, NoVariant, NewVariant
<1>2. (NextRevision - 1)' = 0
  BY <1>1 DEF NextRevision, Audiences
<1>3. [a \in Audiences |-> variant'[a].final] = [a \in Audiences |-> NoText]
  BY <1>1
<1>4. {a \in Audiences : variant'[a].status = "current"} = {}
  BY <1>1
<1> QED
  BY <1>2, <1>3, <1>4 DEF Finals!Withdraw

\* A final that is set, by an acceptance or a direct write.
LEMMA SetFinalRefines ==
  ASSUME IndInv, NEW a \in Audiences,
         variant[a].revision # 0,
         \A b \in Audiences : b # a => variant'[b] = variant[b],
         variant'[a].revision = variant[a].revision,
         variant'[a].final # NoText, variant'[a].status = "current"
  PROVE  Finals!Publish(a)
<1>1. NextRevision - 1 = variant[a].revision /\ (NextRevision - 1)' = variant[a].revision
  <2>1. \A b \in Audiences : variant'[b].revision = variant[b].revision
    OBVIOUS
  <2>2. NextRevision' = NextRevision
    BY <2>1 DEF NextRevision, Audiences
  <2> QED
    BY <2>2, RevisionIs
<1>2. variant[a].revision > 0
  BY BoundsAssumption DEF IndInv, TypeOK, Variant
<1> DEFINE fin == [b \in Audiences |-> variant[b].final]
<1>3. fin'[a] # NoText /\ fin' = [fin EXCEPT ![a] = fin'[a]]
  OBVIOUS
<1>4. {b \in Audiences : variant'[b].status = "current"}
        = {b \in Audiences : variant[b].status = "current"} \cup {a}
  OBVIOUS
<1>5. NextRevision - 1 > 0 /\ (NextRevision - 1)' = NextRevision - 1
  BY <1>1, <1>2
<1> QED
  BY <1>3, <1>4, <1>5 DEF Finals!Publish

LEMMA AcceptRefines ==
  ASSUME IndInv, NEW p \in ProposalId, Accept(p)
  PROVE  \E a \in Audiences : Finals!Publish(a)
<1> DEFINE s == proposal[p].session
           a == session[s].of
           text == ProposalText(p)
<1>1. /\ proposal[p].status # "none" /\ session[s].live
      /\ variant[a].revision = session[s].rev
      /\ variant' = [variant EXCEPT ![a] =
           [@ EXCEPT !.final = text, !.status = "current", !.accepted = p]]
  BY DEF Accept, MayAccept, SessionIsCurrent
<1>2. s \in SessionId
  BY <1>1 DEF IndInv, ProposalsHaveSessions
<1>3. a \in Audiences /\ variant[a].revision # 0
  BY <1>1, <1>2 DEF IndInv, TypeOK, Session, ProposalsHaveSessions
<1>4. text # NoText
  <2>1. text.kind = "proposal" /\ NoText.kind = "none"
    BY DEF ProposalText, NoText
  <2> QED
    BY <2>1
<1>5. /\ variant[a] \in Variant
      /\ \A b \in Audiences : b # a => variant'[b] = variant[b]
      /\ variant'[a] = [variant[a] EXCEPT !.final = text, !.status = "current", !.accepted = p]
  BY <1>1, <1>3 DEF IndInv, TypeOK
<1>6. /\ variant'[a].revision = variant[a].revision
      /\ variant'[a].final = text /\ variant'[a].status = "current"
  BY <1>5 DEF Variant
<1>7. PICK c \in Audiences : c = a
  BY <1>3
<1>8. Finals!Publish(c)
  BY <1>3, <1>4, <1>5, <1>6, <1>7, SetFinalRefines
<1> QED
  BY <1>8

LEMMA SaveRefines ==
  ASSUME IndInv, NEW r \in Requests, SaveWrite(r)
  PROVE  \E a \in Audiences : Finals!Publish(a)
<1> DEFINE a == request[r].of
           text == Edit(a, request[r].rev)
<1>1. /\ report = "live"
      /\ variant' = [variant EXCEPT ![a] = [@ EXCEPT !.final = text, !.status = "current"]]
  BY DEF SaveWrite
<1>2. request[r] \in Request /\ HeldFits(request[r]) /\ request[r].op = "save"
  BY HeldTypes DEF IndInv, SaveWrite, End
<1>3. a \in Audiences /\ variant[a].revision # 0
  BY <1>1, <1>2 DEF HeldFits, Request
<1>4. text # NoText
  <2>1. text.kind = "edit" /\ NoText.kind = "none"
    BY DEF Edit, NoText
  <2> QED
    BY <2>1
<1>5. /\ variant[a] \in Variant
      /\ \A b \in Audiences : b # a => variant'[b] = variant[b]
      /\ variant'[a] = [variant[a] EXCEPT !.final = text, !.status = "current"]
  BY <1>1, <1>3 DEF IndInv, TypeOK
<1>6. /\ variant'[a].revision = variant[a].revision
      /\ variant'[a].final = text /\ variant'[a].status = "current"
  BY <1>5 DEF Variant
<1>7. PICK c \in Audiences : c = a
  BY <1>3
<1>8. Finals!Publish(c)
  BY <1>3, <1>4, <1>5, <1>6, <1>7, SetFinalRefines
<1> QED
  BY <1>8

LEMMA StepRefines ==
  ASSUME IndInv, [Next]_vars
  PROVE  [Finals!Next]_(Finals!vars)
<1>1. ASSUME NEW r \in Requests, RequestStep(r) PROVE [Finals!Next]_(Finals!vars)
  <2>1. CASE CreateWrite(r) \/ RegenerateWrite(r) \/ DeleteWrite(r)
    BY <2>1, CreateRefines, RegenerateRefines, DeleteRefines DEF Finals!Next
  <2>2. CASE SaveWrite(r)
    BY <2>2, SaveRefines DEF Finals!Next
  <2>3. CASE \/ CreateRead(r) \/ RegenerateRead(r)
             \/ \E a \in Audiences : OpenRead(r, a)
             \/ \E a \in Audiences, said \in 0..MaxRevision : SaveRead(r, a, said)
             \/ SaveLegacyRead(r) \/ DeleteRead(r) \/ GiveUp(r)
    <3>1. UNCHANGED tables
      BY <2>3 DEF CreateRead, RegenerateRead, OpenRead, SaveRead, SaveLegacyRead, DeleteRead,
                  GiveUp, Begin
    <3> QED
      BY <3>1, SameVariantStutters DEF tables
  <2>4. CASE OpenWrite(r) \/ SaveLegacyWrite(r)
    BY <2>4, SameVariantStutters DEF OpenWrite, SaveLegacyWrite
  <2> QED
    BY <1>1, <2>1, <2>2, <2>3, <2>4 DEF RequestStep
<1>2. ASSUME NEW s \in SessionId, Propose(s) PROVE [Finals!Next]_(Finals!vars)
  BY <1>2, SameVariantStutters DEF Propose
<1>3. ASSUME NEW p \in ProposalId, Accept(p) PROVE [Finals!Next]_(Finals!vars)
  BY <1>3, AcceptRefines DEF Finals!Next
<1>4. CASE EventsChange
  BY <1>4, SameVariantStutters DEF EventsChange
<1>5. CASE UNCHANGED vars
  BY <1>5, SameVariantStutters DEF vars, tables
<1> QED
  BY <1>1, <1>2, <1>3, <1>4, <1>5 DEF Next

\* Every behaviour of the report's handlers is one of the abstract finals.
THEOREM Refinement == Spec => ImplementsFinals
BY InitRefines, StepRefines, IndInvHolds, PTL DEF Spec, ImplementsFinals, Finals!Spec

-----------------------------------------------------------------------------
(***************************************************************************)
(* ReportVariants implements SessionReview: the sessions it opens, redraws *)
(* and deletes are the ones GenerationTurns takes for granted.             *)
(***************************************************************************)
revCurrent == {s \in SessionId : SessionIsCurrent(s)}
revPending == [s \in SessionId |-> ProposalsOf(s, "pending")]
revAccepted == [s \in SessionId |-> ProposalsOf(s, "accepted")]
revVars == <<1..lastSession, revCurrent, lastProposal, revPending, revAccepted>>

\* What a session is of is not changed by a step that keeps its row's key
\* fields and the revisions.
LEMMA CurrentStays ==
  ASSUME IndInv,
         \A s \in SessionId : /\ session'[s].live = session[s].live
                              /\ session'[s].of = session[s].of
                              /\ session'[s].rev = session[s].rev,
         \A a \in Audiences : variant'[a].revision = variant[a].revision
  PROVE  revCurrent' = revCurrent
<1>1. \A s \in SessionId : session[s].of \in Audiences
  BY DEF IndInv, TypeOK, Session
<1>2. \A s \in SessionId : SessionIsCurrent(s)' <=> SessionIsCurrent(s)
  BY <1>1 DEF SessionIsCurrent
<1> QED
  BY <1>2 DEF revCurrent

LEMMA SameProposals ==
  ASSUME UNCHANGED proposal
  PROVE  UNCHANGED <<revPending, revAccepted>>
BY DEF revPending, revAccepted, ProposalsOf

\* A step that leaves the sessions, the proposals and the revisions alone.
LEMMA QuietReviews ==
  ASSUME UNCHANGED <<variant, session, lastSession, proposal, lastProposal>>
  PROVE  UNCHANGED revVars
BY SameProposals DEF revVars, revCurrent, SessionIsCurrent

LEMMA InitReviews == Init => Review!Init
<1> SUFFICES ASSUME Init PROVE Review!Init
  OBVIOUS
<1>1. \A p \in ProposalId : proposal[p].status = "none"
  BY DEF Init, NoRow
<1>2. \A s \in SessionId : ProposalsOf(s, "pending") = {} /\ ProposalsOf(s, "accepted") = {}
  BY <1>1 DEF ProposalsOf
<1>3. \A s \in SessionId : ~SessionIsCurrent(s)
  BY DEF Init, SessionIsCurrent, NoSession
<1>4. {s \in SessionId : SessionIsCurrent(s)} = {}
  BY <1>3
<1>5. lastProposal = 0 /\ 1..lastSession = {}
  BY DEF Init
<1> QED
  BY <1>2, <1>4, <1>5 DEF Review!Init

\* Before the report there is no session: its creation leaves them alone.
LEMMA CreateReviews ==
  ASSUME IndInv, NEW r \in Requests, CreateWrite(r)
  PROVE  UNCHANGED revVars
<1>1. \A s \in SessionId : ~session[s].live
  BY DEF CreateWrite, IndInv, RowsFollowReport
<1>2. /\ session' = session /\ proposal' = proposal
      /\ lastSession' = lastSession /\ lastProposal' = lastProposal
  BY DEF CreateWrite
<1>3. revCurrent = {} /\ revCurrent' = {}
  BY <1>1, <1>2 DEF revCurrent, SessionIsCurrent
<1> QED
  BY <1>2, <1>3, SameProposals DEF revVars

\* A regeneration outdates every session: each is of a revision that has a
\* snapshot, and the next revision has none yet.
LEMMA RegenerateReviews ==
  ASSUME IndInv, NEW r \in Requests, RegenerateWrite(r)
  PROVE  Review!Redraft
<1>1. ASSUME NEW s \in SessionId, session[s].live
      PROVE  session[s].rev # NextRevision
  <2>1. <<session[s].rev, session[s].source.n>> \in snapshots
    BY <1>1 DEF IndInv, SessionKeepsItsDraft, RegenerateWrite, ReportIsThere
  <2>2. \A x \in snapshots : x[1] <= variant["personal"].revision
    BY DEF IndInv, DraftsAreDrafts
  <2>3. session[s].rev <= variant["personal"].revision
    BY <2>1, <2>2
  <2>4. variant["personal"].revision \in Nat
        /\ NextRevision = variant["personal"].revision + 1
    BY NextRevisionIsNext, BoundsAssumption DEF IndInv, TypeOK, Variant, Audiences
  <2>5. session[s].rev \in Nat
    BY BoundsAssumption DEF IndInv, TypeOK, Session
  <2> QED
    BY <2>3, <2>4, <2>5
<1>2. /\ session' = session /\ proposal' = proposal
      /\ lastSession' = lastSession /\ lastProposal' = lastProposal
      /\ \A a \in Audiences : variant'[a].revision = NextRevision
  <2>1. \A a \in Audiences : variant[a] \in Variant
    BY DEF IndInv, TypeOK
  <2> QED
    BY <2>1 DEF RegenerateWrite, Variant
<1>3. \A s \in SessionId : session[s].of \in Audiences
  BY DEF IndInv, TypeOK, Session
<1>4. \A s \in SessionId : ~SessionIsCurrent(s)'
  BY <1>1, <1>2, <1>3 DEF SessionIsCurrent
<1>5. revCurrent' = {}
  BY <1>4 DEF revCurrent
<1> QED
  BY <1>2, <1>5, SameProposals DEF Review!Redraft, revCurrent, revPending, revAccepted

\* A session is inserted once; it may be of an older draft by then, and the
\* report may be gone.
LEMMA OpenReviews ==
  ASSUME IndInv, NEW r \in Requests, OpenWrite(r)
  PROVE  \E s \in SessionId : Review!Open(s)
<1> DEFINE n == lastSession + 1
<1>1. /\ n \in SessionId /\ n \notin 1..lastSession /\ 1..lastSession' = 1..lastSession \cup {n}
      /\ UNCHANGED <<variant, proposal, lastProposal>>
      /\ \A s \in SessionId : s # n => session'[s] = session[s]
  BY BoundsAssumption DEF OpenWrite, IndInv, TypeOK, SessionId
<1>2. ~session[n].live
  BY <1>1, BoundsAssumption DEF IndInv, ProposalsHaveSessions, TypeOK, SessionId
<1>3. \A s \in SessionId : s # n => (SessionIsCurrent(s)' <=> SessionIsCurrent(s))
  BY <1>1 DEF SessionIsCurrent
<1>4. ~SessionIsCurrent(n)
  BY <1>2 DEF SessionIsCurrent
<1>5. revCurrent' = revCurrent \/ revCurrent' = revCurrent \cup {n}
  BY <1>1, <1>3, <1>4 DEF revCurrent
<1> QED
  BY <1>1, <1>5, SameProposals DEF Review!Open, revCurrent, revPending, revAccepted

LEMMA ProposeReviews ==
  ASSUME IndInv, NEW s \in SessionId, Propose(s)
  PROVE  Review!Propose(s)
<1> DEFINE n == lastProposal + 1
<1>1. /\ n \in ProposalId /\ lastProposal' = n
      /\ proposal' = [p \in ProposalId |->
           IF p = n THEN [session |-> s, rev |-> session[s].rev, status |-> "pending"]
           ELSE IF Supersedes(p, s) THEN [proposal[p] EXCEPT !.status = "superseded"]
           ELSE proposal[p]]
  BY BoundsAssumption DEF Propose, IndInv, TypeOK, ProposalId
<1>2. proposal'[n].session = s /\ proposal'[n].status = "pending"
  BY <1>1
<1>3. ASSUME NEW p \in ProposalId, p # n
      PROVE  /\ proposal'[p].session = proposal[p].session
             /\ proposal'[p].status = IF Supersedes(p, s) THEN "superseded"
                                                          ELSE proposal[p].status
  <2>1. proposal[p] \in [session : 0..MaxSession, rev : 0..MaxRevision,
                         status : {"none", "pending", "accepted", "superseded"}]
    BY DEF IndInv, TypeOK
  <2>2. proposal'[p] = IF Supersedes(p, s) THEN [proposal[p] EXCEPT !.status = "superseded"]
                                           ELSE proposal[p]
    BY <1>1, <1>3
  <2> QED
    BY <2>1, <2>2
<1>4. proposal[n].status = "none"
  <2>1. proposal[n].status # "none" => n <= lastProposal
    BY <1>1 DEF IndInv, ProposalsHaveSessions
  <2> QED
    BY <2>1 DEF IndInv, TypeOK
<1>5. s \in revCurrent /\ revCurrent' = revCurrent
  BY DEF Propose, revCurrent, SessionIsCurrent
<1>6. ASSUME NEW u \in SessionId
      PROVE  ProposalsOf(u, "pending")' = IF u = s THEN {n} ELSE ProposalsOf(u, "pending")
  BY <1>1, <1>2, <1>3, <1>4 DEF ProposalsOf, Supersedes
<1>7. ASSUME NEW u \in SessionId
      PROVE  ProposalsOf(u, "accepted")' = ProposalsOf(u, "accepted")
  BY <1>1, <1>2, <1>3, <1>4 DEF ProposalsOf, Supersedes
<1>8. revPending' = [revPending EXCEPT ![s] = {n}]
  BY <1>6 DEF revPending
<1>9. revAccepted' = revAccepted
  BY <1>7 DEF revAccepted
<1>10. UNCHANGED lastSession
  BY DEF Propose
<1> QED
  BY <1>1, <1>5, <1>8, <1>9, <1>10 DEF Review!Propose, revCurrent, revPending, revAccepted

\* An acceptance takes the proposal under review, or repeats one made before.
LEMMA AcceptReviews ==
  ASSUME IndInv, NEW p \in ProposalId, NEW s \in SessionId, s = proposal[p].session, Accept(p)
  PROVE  Review!Accept(s) \/ UNCHANGED revVars
<1>1. /\ proposal[p].status \in {"pending", "accepted"} /\ SessionIsCurrent(s)
      /\ proposal' = [proposal EXCEPT ![p].status = "accepted"]
      /\ UNCHANGED <<lastSession, lastProposal>>
  BY DEF Accept, MayAccept
<1>2. ASSUME NEW q \in ProposalId
      PROVE  /\ proposal'[q].session = proposal[q].session
             /\ proposal'[q].status = IF q = p THEN "accepted" ELSE proposal[q].status
  <2>1. proposal[q] \in [session : 0..MaxSession, rev : 0..MaxRevision,
                         status : {"none", "pending", "accepted", "superseded"}]
    BY DEF IndInv, TypeOK
  <2> QED
    BY <1>1, <2>1 DEF IndInv, TypeOK
<1>3. revCurrent' = revCurrent
  <2>1. \A u \in SessionId : /\ session'[u].live = session[u].live
                             /\ session'[u].of = session[u].of
                             /\ session'[u].rev = session[u].rev
    BY DEF Accept, IndInv, TypeOK, Session
  <2>2. \A a \in Audiences : variant'[a].revision = variant[a].revision
    BY DEF Accept, IndInv, TypeOK, Variant
  <2> QED
    BY <2>1, <2>2, CurrentStays
<1>4. s \in revCurrent
  BY <1>1 DEF revCurrent
<1>5. CASE proposal[p].status = "pending"
  <2>1. ASSUME NEW u \in SessionId
        PROVE  /\ ProposalsOf(u, "pending")' =
                     IF u = s THEN ProposalsOf(s, "pending") \ {p} ELSE ProposalsOf(u, "pending")
               /\ ProposalsOf(u, "accepted")' =
                     IF u = s THEN ProposalsOf(s, "accepted") \cup {p}
                              ELSE ProposalsOf(u, "accepted")
    BY <1>2, <1>5 DEF ProposalsOf
  <2>2. p \in revPending[s]
    BY <1>5 DEF revPending, ProposalsOf
  <2>3. revPending' = [revPending EXCEPT ![s] = @ \ {p}]
    BY <2>1 DEF revPending
  <2>4. revAccepted' = [revAccepted EXCEPT ![s] = @ \cup {p}]
    BY <2>1 DEF revAccepted
  <2> QED
    BY <1>1, <1>3, <1>4, <2>2, <2>3, <2>4
    DEF Review!Accept, revCurrent, revPending, revAccepted
<1>6. CASE proposal[p].status = "accepted"
  <2>1. \A u \in SessionId : /\ ProposalsOf(u, "pending")' = ProposalsOf(u, "pending")
                             /\ ProposalsOf(u, "accepted")' = ProposalsOf(u, "accepted")
    BY <1>2, <1>6 DEF ProposalsOf
  <2> QED
    BY <1>1, <1>3, <2>1 DEF revVars, revPending, revAccepted
<1> QED
  BY <1>1, <1>5, <1>6

\* A direct write of a final edits baselines only.
LEMMA SaveReviews ==
  ASSUME IndInv, NEW r \in Requests, SaveWrite(r)
  PROVE  UNCHANGED revVars
<1>1. \A u \in SessionId : /\ session'[u].live = session[u].live
                           /\ session'[u].of = session[u].of
                           /\ session'[u].rev = session[u].rev
  BY DEF SaveWrite, BaselineEdited, IndInv, TypeOK, Session
<1>2. \A a \in Audiences : variant'[a].revision = variant[a].revision
  BY DEF SaveWrite, IndInv, TypeOK, Variant
<1>3. UNCHANGED <<lastSession, proposal, lastProposal>>
  BY DEF SaveWrite
<1> QED
  BY <1>1, <1>2, <1>3, CurrentStays, SameProposals DEF revVars

LEMMA DeleteReviews ==
  ASSUME IndInv, NEW r \in Requests, DeleteWrite(r)
  PROVE  Review!Withdraw
<1>1. \A s \in SessionId : ~SessionIsCurrent(s)'
  BY DEF DeleteWrite, SessionIsCurrent, NoSession
<1>2. {s \in SessionId : SessionIsCurrent(s)}' = {}
  BY <1>1
<1>3. \A p \in ProposalId : proposal'[p].status = "none"
  BY DEF DeleteWrite, NoRow
<1>4. \A s \in SessionId : /\ ProposalsOf(s, "pending")' = {}
                           /\ ProposalsOf(s, "accepted")' = {}
  BY <1>3 DEF ProposalsOf
<1>5. UNCHANGED <<lastSession, lastProposal>>
  BY DEF DeleteWrite
<1> QED
  BY <1>2, <1>4, <1>5 DEF Review!Withdraw

LEMMA StepReviews ==
  ASSUME IndInv, [Next]_vars
  PROVE  [Review!Next]_revVars
<1>1. ASSUME NEW r \in Requests, RequestStep(r) PROVE [Review!Next]_revVars
  <2>1. CASE CreateWrite(r) \/ SaveWrite(r)
    BY <2>1, CreateReviews, SaveReviews
  <2>2. CASE RegenerateWrite(r) \/ OpenWrite(r) \/ DeleteWrite(r)
    BY <2>2, RegenerateReviews, OpenReviews, DeleteReviews DEF Review!Next
  <2>3. CASE \/ CreateRead(r) \/ RegenerateRead(r)
             \/ \E a \in Audiences : OpenRead(r, a)
             \/ \E a \in Audiences, said \in 0..MaxRevision : SaveRead(r, a, said)
             \/ SaveLegacyRead(r) \/ DeleteRead(r) \/ GiveUp(r)
    <3>1. UNCHANGED tables
      BY <2>3 DEF CreateRead, RegenerateRead, OpenRead, SaveRead, SaveLegacyRead, DeleteRead,
                  GiveUp, Begin
    <3> QED
      BY <3>1, QuietReviews DEF tables
  <2>4. CASE SaveLegacyWrite(r)
    BY <2>4, QuietReviews DEF SaveLegacyWrite
  <2> QED
    BY <1>1, <2>1, <2>2, <2>3, <2>4 DEF RequestStep
<1>2. ASSUME NEW s \in SessionId, Propose(s) PROVE [Review!Next]_revVars
  BY <1>2, ProposeReviews DEF Review!Next
<1>3. ASSUME NEW p \in ProposalId, Accept(p) PROVE [Review!Next]_revVars
  <2>1. PICK s \in SessionId : s = proposal[p].session
    BY <1>3 DEF Accept, MayAccept, IndInv, ProposalsHaveSessions
  <2>2. Review!Accept(s) \/ UNCHANGED revVars
    BY <1>3, <2>1, AcceptReviews
  <2> QED
    BY <2>2 DEF Review!Next
<1>4. CASE EventsChange
  BY <1>4, QuietReviews DEF EventsChange
<1>5. CASE UNCHANGED vars
  BY <1>5, QuietReviews DEF vars, tables
<1> QED
  BY <1>1, <1>2, <1>3, <1>4, <1>5 DEF Next

\* Seen without the variants, the sessions keep what SessionReview promises: no
\* session comes back from an older draft, although one may be inserted after
\* the regeneration or the deletion that overtook it.
THEOREM ReviewRefinement == Spec => ImplementsReview
<1>1. IndInv /\ [Next]_vars => [Review!Next]_(Review!reviewVars)
  BY StepReviews DEF revVars, revCurrent, revPending, revAccepted, Review!reviewVars
<1> QED
  BY <1>1, InitReviews, IndInvHolds, PTL DEF Spec, ImplementsReview, Review!Spec

\* Both views are kept, the reader's of the finals and the turns' of the sessions.
THEOREM Implementation == Spec => Implements
BY Refinement, ReviewRefinement DEF Implements
=============================================================================
