----------------------- MODULE GenerationTurns_proofs -----------------------
(***************************************************************************)
(* Proofs about GenerationTurns: the inductive invariant IndInv, the       *)
(* safety properties that follow from it and its two abstract              *)
(* specifications, for every set of sessions and requests and every bound. *)
(***************************************************************************)
EXTENDS GenerationTurns, TLAPS

-----------------------------------------------------------------------------
(***************************************************************************)
(* Type correctness.                                                       *)
(***************************************************************************)
LEMMA AnySessionType == AnySession \in Sessions
BY BoundsAssumption DEF AnySession

LEMMA InitType == Init => TypeOK
BY BoundsAssumption, AnySessionType
DEF Init, TypeOK, TablesType, LoopType, StreamsType, StopsType,
    TurnStatus, Terminal, Owning, Streaming, Finishing, NoTurn

\* Every step of a turns request keeps the types.
LEMMA StreamType ==
  ASSUME TypeOK, HoldersHaveRows, NEW r \in Requests,
         \/ \E s \in Sessions : LoadSession(r, s)
         \/ StartTurn(r) \/ RejectTurn(r) \/ ReloadFails(r)
         \/ StreamStep(r) \/ ClientDisconnects(r)
  PROVE  TypeOK'
<1> USE DEF TypeOK, Goto
<1>a. UNCHANGED tables => TablesType'
  BY DEF tables, TablesType
<1>b. UNCHANGED loopVars => LoopType'
  BY DEF loopVars, LoopType
<1>c. UNCHANGED <<stopVars, archiving>> => StopsType'
  BY DEF stopVars, StopsType
<1>d. Fault => faults' \in 0..MaxFaults
  BY BoundsAssumption DEF Fault
<1>1. CASE \E s \in Sessions : LoadSession(r, s)
  BY <1>1, <1>a, <1>b, <1>c DEF LoadSession, StreamsType, Owning
<1>2. CASE StartTurn(r)
  <2>1. lastTurn + 1 \in TurnId /\ lastTurn + 1 \in 0..MaxTurn
    BY <1>2, BoundsAssumption DEF StartTurn, TablesType, TurnId
  <2>2. [session |-> sessionOf[r], status |-> "working"]
          \in [session : Sessions, status : TurnStatus]
    BY DEF StreamsType, TurnStatus
  <2>3. TablesType'
    BY <1>2, <2>1, <2>2 DEF StartTurn, TablesType, TurnStatus
  <2>4. StreamsType'
    BY <1>2, <2>1 DEF StartTurn, StreamsType, Owning
  <2> QED BY <1>2, <2>3, <2>4, <1>b, <1>c DEF StartTurn
<1>3. CASE RejectTurn(r)
  BY <1>3, <1>a, <1>b, <1>c DEF RejectTurn, StreamsType
<1>4. CASE ReloadFails(r)
  BY <1>4, <1>a, <1>b, <1>c, <1>d DEF ReloadFails, StreamsType
<1>5. CASE RegisterStream(r)
  <2>1. turnOf[r] \in TurnId
    BY <1>5, BoundsAssumption
    DEF RegisterStream, HoldersHaveRows, Owning, TurnId, TablesType
  <2>2. StreamsType'
    BY <1>5, <2>1 DEF RegisterStream, StreamsType, Owning, Streaming
  <2>3. LoopType'
    BY <1>5, BoundsAssumption DEF RegisterStream, LoopType
  <2> QED BY <1>5, <2>2, <2>3, <1>a, <1>c DEF RegisterStream
<1>6. CASE ProviderReturns(r)
  <2>1. StreamsType'
    BY <1>6 DEF ProviderReturns, StreamsType, Owning, Streaming
  <2>2. LoopType'
    BY <1>6 DEF ProviderReturns, LoopType
  <2> QED BY <1>6, <2>1, <2>2, <1>a, <1>c DEF ProviderReturns
<1>7. CASE ProposeFinal(r)
  <2>1. lastProposal + 1 \in 0..MaxProposal
    BY <1>7, BoundsAssumption DEF ProposeFinal, TablesType
  <2>2. /\ sessionOf[r] \in Sessions /\ turnOf[r] \in TurnId \cup {NoTurn}
        /\ session[sessionOf[r]].rev \in 0..MaxRevision
    BY BoundsAssumption DEF StreamsType, TablesType
  <2>3. TablesType'
    BY ZenonT(40), <1>7, <2>1, <2>2 DEF ProposeFinal, TablesType
  <2>4. LoopType'
    BY <1>7, BoundsAssumption DEF ProposeFinal, LoopType
  <2> QED BY <1>7, <2>3, <2>4, <1>c DEF ProposeFinal, StreamsType
<1>8. CASE ProposeRefused(r)
  <2>1. LoopType'
    BY <1>8, BoundsAssumption DEF ProposeRefused, LoopType
  <2> QED BY <1>8, <2>1, <1>a, <1>c DEF ProposeRefused, StreamsType
<1>9. CASE NextStep(r)
  <2>1. LoopType'
    BY <1>9, BoundsAssumption DEF NextStep, LastStep, LoopType
  <2>2. StreamsType'
    BY <1>9 DEF NextStep, StreamsType, Owning, Streaming
  <2> QED BY <1>9, <2>1, <2>2, <1>a, <1>c DEF NextStep
<1>10. LeaveLoop(r) => LoopType'
  BY BoundsAssumption DEF LeaveLoop, LoopType
<1>11. CASE StreamAborts(r)
  <2>1. StreamsType'
    BY <1>11 DEF StreamAborts, StreamsType, Owning, Finishing, Terminal
  <2> QED BY <1>11, <2>1, <1>10, <1>a, <1>c DEF StreamAborts
<1>12. CASE StreamErrs(r)
  <2>1. StreamsType'
    BY <1>12 DEF StreamErrs, FailStatus, StreamsType, Owning, Finishing, Terminal
  <2> QED BY <1>12, <2>1, <1>10, <1>a, <1>c DEF StreamErrs
<1>13. CASE StreamCompletes(r)
  <2>1. StreamsType'
    BY <1>13 DEF StreamCompletes, StreamsType, Owning, Finishing, Terminal
  <2> QED BY <1>13, <2>1, <1>10, <1>a, <1>c DEF StreamCompletes
<1>14. CASE ClientDisconnects(r)
  BY <1>14, <1>a, <1>b, <1>c DEF ClientDisconnects, StreamsType
<1>15. CASE FinishTurn(r)
  <2>1. TablesType'
    BY <1>15 DEF FinishTurn, TablesType, StreamsType, TurnStatus
  <2>2. StreamsType'
    BY <1>15 DEF FinishTurn, StreamsType, Owning, Finishing
  <2> QED BY <1>15, <2>1, <2>2, <1>b, <1>c DEF FinishTurn
<1>16. CASE FinishStatusPart(r)
  <2>1. TablesType'
    BY <1>16 DEF FinishStatusPart, PartEnded, TablesType, StreamsType, TurnStatus
  <2>2. StreamsType'
    BY <1>16 DEF FinishStatusPart, StreamsType, Owning, Finishing
  <2> QED BY <1>16, <2>1, <2>2, <1>b, <1>c DEF FinishStatusPart
<1>17. CASE FinishErrorPart(r)
  <2>1. TablesType'
    BY <1>17 DEF FinishErrorPart, TablesType
  <2>2. StreamsType'
    BY <1>17 DEF FinishErrorPart, StreamsType, Owning
  <2> QED BY <1>17, <2>1, <2>2, <1>b, <1>c DEF FinishErrorPart
<1>18. CASE FinishFails(r)
  <2>1. statusPart' \in [TurnId -> TurnStatus]
    <3>1. ending[r] \in TurnStatus
      BY DEF StreamsType, TurnStatus
    <3>2. \/ statusPart' = statusPart
          \/ statusPart' = [statusPart EXCEPT ![turnOf[r]] = ending[r]]
      BY <1>18 DEF FinishFails, PartEnded
    <3> QED BY <3>1, <3>2 DEF TablesType
  <2>2. TablesType'
    BY <1>18, <2>1 DEF FinishFails, TablesType
  <2>3. StreamsType'
    BY <1>18 DEF FinishFails, FailStatus, StreamsType, Owning, Finishing, Terminal
  <2> QED BY <1>18, <2>2, <2>3, <1>b, <1>c, <1>d DEF FinishFails
<1>19. CASE StreamReturns(r)
  <2>1. StreamsType'
    BY <1>19 DEF StreamReturns, StreamsType
  <2> QED BY <1>19, <2>1, <1>a, <1>b, <1>c DEF StreamReturns
<1> QED
  BY <1>1, <1>2, <1>3, <1>4, <1>5, <1>6, <1>7, <1>8, <1>9, <1>11, <1>12, <1>13,
     <1>14, <1>15, <1>16, <1>17, <1>18, <1>19 DEF StreamStep

\* Every other step keeps the types.
LEMMA OtherType ==
  ASSUME TypeOK,
         \/ \E k \in Stoppers, t \in TurnId : StopRead(k, t)
         \/ \E k \in Stoppers : StopStep(k)
         \/ \E a \in Archivers, s \in Sessions : ArchiveCheck(a, s) \/ ArchiveWrite(a, s)
         \/ \E p \in ProposalId : AcceptProposal(p)
         \/ RegenerateSource \/ Crash \/ UNCHANGED vars
  PROVE  TypeOK'
<1> USE DEF TypeOK
<1>a. UNCHANGED tables => TablesType'
  BY DEF tables, TablesType
<1>b. UNCHANGED streamVars => LoopType' /\ StreamsType'
  BY DEF streamVars, loopVars, LoopType, StreamsType
<1>c. UNCHANGED <<stopVars, archiving>> => StopsType'
  BY DEF stopVars, StopsType
<1>d. Fault => faults' \in 0..MaxFaults
  BY BoundsAssumption DEF Fault
<1>1. ASSUME NEW k \in Stoppers, NEW t \in TurnId, StopRead(k, t)
      PROVE  TypeOK'
  BY <1>1, <1>a, <1>b DEF StopRead, StopsType
<1>2. ASSUME NEW k \in Stoppers, StopStep(k)
      PROVE  TypeOK'
  <2>1. CASE StopCancel(k)
    BY <2>1, <1>a DEF StopCancel, loopVars, LoopType, StreamsType, StopsType
  <2>2. CASE StopFinishTurn(k)
    <3>1. TablesType'
      BY ZenonT(40), <2>2 DEF StopFinishTurn, TablesType, TurnStatus, Terminal
    <3> QED BY <2>2, <3>1, <1>b DEF StopFinishTurn, StopsType
  <2>3. CASE StopFinishPart(k)
    <3>1. TablesType'
      BY <2>3 DEF StopFinishPart, PartEnded, TablesType, TurnStatus, Terminal
    <3> QED BY <2>3, <3>1, <1>b DEF StopFinishPart, StopsType
  <2>4. CASE StopFails(k)
    BY <2>4, <1>a, <1>b, <1>d DEF StopFails, StopsType
  <2> QED BY <1>2, <2>1, <2>2, <2>3, <2>4 DEF StopStep
<1>3. ASSUME NEW a \in Archivers, NEW s \in Sessions, ArchiveCheck(a, s)
      PROVE  TypeOK'
  BY <1>3, <1>a, <1>b DEF ArchiveCheck, stopVars, StopsType
<1>4. ASSUME NEW a \in Archivers, NEW s \in Sessions, ArchiveWrite(a, s)
      PROVE  TypeOK'
  <2>1. TablesType'
    BY <1>4 DEF ArchiveWrite, TablesType
  <2> QED BY <1>4, <2>1, <1>b DEF ArchiveWrite, stopVars, StopsType
<1>5. ASSUME NEW p \in ProposalId, AcceptProposal(p)
      PROVE  TypeOK'
  <2>1. TablesType'
    BY SMTT(20), <1>5 DEF AcceptProposal, TablesType
  <2> QED BY <1>5, <2>1, <1>b, <1>c DEF AcceptProposal
<1>6. CASE RegenerateSource
  <2>1. TablesType'
    BY <1>6, BoundsAssumption DEF RegenerateSource, TablesType
  <2> QED BY <1>6, <2>1, <1>b, <1>c DEF RegenerateSource
<1>7. CASE Crash
  <2>1. LoopType' /\ StreamsType' /\ StopsType'
    BY <1>7, BoundsAssumption DEF Crash, LoopType, StreamsType, StopsType
  <2> QED BY <1>7, <2>1, <1>a, <1>d DEF Crash
<1>8. CASE UNCHANGED vars
  BY <1>8, <1>a, <1>b, <1>c DEF vars
<1> QED
  BY <1>1, <1>2, <1>3, <1>4, <1>5, <1>6, <1>7, <1>8

\* The types are kept by every step.
LEMMA NextType ==
  ASSUME TypeOK, HoldersHaveRows, [Next]_vars
  PROVE  TypeOK'
BY StreamType, OtherType DEF Next

-----------------------------------------------------------------------------
(***************************************************************************)
(* The rows of turns and proposals: the steps that write them, and the     *)
(* conjuncts of IndInv that speak of nothing else.                         *)
(***************************************************************************)
rows == <<turn, lastTurn, proposal, lastProposal>>

\* The row of one turn is set to an end, nothing else of the rows changes.
EndsTurn(t) ==
  /\ \E e \in Terminal : turn' = [turn EXCEPT ![t].status = e]
  /\ UNCHANGED <<lastTurn, proposal, lastProposal>>

\* Four kinds of steps write rows: a start, a proposal, an acceptance, an end.
LEMMA RowSteps ==
  ASSUME TypeOK, HoldersHaveRows, FinishersKnowTheirEnd, [Next]_vars
  PROVE  \/ \E r \in Requests : StartTurn(r) \/ ProposeFinal(r)
         \/ \E p \in ProposalId : AcceptProposal(p)
         \/ \E t \in 1..lastTurn : EndsTurn(t)
         \/ UNCHANGED rows
<1>1. ASSUME NEW r \in Requests,
             \/ \E s \in Sessions : LoadSession(r, s)
             \/ RejectTurn(r) \/ ReloadFails(r) \/ RegisterStream(r)
             \/ ProviderReturns(r) \/ ProposeRefused(r) \/ NextStep(r)
             \/ StreamAborts(r) \/ StreamErrs(r) \/ StreamCompletes(r)
             \/ FinishStatusPart(r) \/ FinishErrorPart(r) \/ FinishFails(r)
             \/ StreamReturns(r) \/ ClientDisconnects(r)
      PROVE  UNCHANGED rows
  BY <1>1 DEF rows, tables, LoadSession, RejectTurn, ReloadFails, RegisterStream,
     ProviderReturns, ProposeRefused, NextStep, StreamAborts, StreamErrs, StreamCompletes,
     FinishStatusPart, FinishErrorPart, FinishFails, StreamReturns, ClientDisconnects
<1>2. ASSUME NEW r \in Requests, FinishTurn(r)
      PROVE  EndsTurn(turnOf[r]) /\ turnOf[r] \in 1..lastTurn
  BY <1>2 DEF FinishTurn, EndsTurn, Goto, FinishersKnowTheirEnd, HoldersHaveRows,
     Owning, Finishing
<1>3. ASSUME NEW k \in Stoppers, StopFinishTurn(k)
      PROVE  EndsTurn(stopTurn[k]) /\ stopTurn[k] \in 1..lastTurn
  BY <1>3 DEF StopFinishTurn, EndsTurn, HoldersHaveRows, Terminal
<1>4. ASSUME NEW k \in Stoppers,
             \/ \E t \in TurnId : StopRead(k, t)
             \/ StopCancel(k) \/ StopFinishPart(k) \/ StopFails(k)
      PROVE  UNCHANGED rows
  BY <1>4 DEF rows, tables, StopRead, StopCancel, StopFinishPart, StopFails
<1>5. ASSUME \/ \E a \in Archivers, s \in Sessions : ArchiveCheck(a, s) \/ ArchiveWrite(a, s)
             \/ RegenerateSource \/ Crash \/ UNCHANGED vars
      PROVE  UNCHANGED rows
  BY <1>5 DEF rows, tables, vars, ArchiveCheck, ArchiveWrite, RegenerateSource, Crash
<1> QED
  BY <1>1, <1>2, <1>3, <1>4, <1>5 DEF Next, StreamStep, StopStep

\* The ids handed out so far are ids.
LEMMA IdsInRange ==
  ASSUME TypeOK
  PROVE  /\ lastTurn \in Nat /\ 1..lastTurn \subseteq TurnId
         /\ lastProposal \in Nat /\ 1..lastProposal \subseteq ProposalId
BY BoundsAssumption DEF TypeOK, TablesType, TurnId, ProposalId

RowsInv ==
  /\ RowsFollowCounter /\ WorkingIsLatest /\ ProposalsHaveTurns
  /\ ProposalsFollowTurns /\ PendingIsLatest

\* The transaction of startGenerationTurn keeps the rows' invariant: the new row
\* is the newest of its session, where no turn is in progress.
LEMMA StartKeepsRows ==
  ASSUME TypeOK, TypeOK', RowsInv, NEW r \in Requests, StartTurn(r)
  PROVE  RowsInv'
<1> DEFINE s == sessionOf[r]
           n == lastTurn + 1
<1>1. /\ n \in TurnId /\ lastTurn' = n /\ lastTurn \in Nat
      /\ turn[n].status = "none"
      /\ turn'[n] = [session |-> s, status |-> "working"]
      /\ \A t \in TurnId \ {n} : turn'[t] = turn[t]
      /\ UNCHANGED <<proposal, lastProposal>>
  BY BoundsAssumption
  DEF StartTurn, TypeOK, TablesType, TurnId, RowsInv, RowsFollowCounter
<1>2. \A t \in TurnId : turn[t].status = "working" => turn[t].session # s
  BY DEF StartTurn, HasWorkingTurn
<1>3. \A t \in TurnId : turn[t].status # "none" => t < n
  BY <1>1 DEF RowsInv, RowsFollowCounter, TurnId
<1>4. RowsFollowCounter'
  BY <1>1 DEF RowsInv, RowsFollowCounter, TurnId
<1>5. WorkingIsLatest'
  <2> SUFFICES ASSUME NEW t \in TurnId, NEW u \in TurnId,
                      turn'[t].status = "working", turn'[u].status # "none",
                      turn'[t].session = turn'[u].session
               PROVE  u <= t
    BY DEF WorkingIsLatest
  <2>1. CASE t = n
    BY <2>1, <1>1, <1>3 DEF TurnId
  <2>2. CASE t # n /\ u = n
    <3>1. turn[t].status = "working" /\ turn[t].session = s
      BY <2>2, <1>1
    <3> QED BY <3>1, <1>2
  <2>3. CASE t # n /\ u # n
    BY <2>3, <1>1 DEF RowsInv, WorkingIsLatest
  <2> QED BY <2>1, <2>2, <2>3
<1>6. ProposalsHaveTurns'
  <2> SUFFICES ASSUME NEW p \in 1..lastProposal
               PROVE  /\ proposal[p].turn \in 1..n
                      /\ proposal[p].session = turn'[proposal[p].turn].session
    BY <1>1 DEF ProposalsHaveTurns
  <2>1. /\ proposal[p].turn \in 1..lastTurn
        /\ proposal[p].session = turn[proposal[p].turn].session
    BY DEF RowsInv, ProposalsHaveTurns
  <2>2. proposal[p].turn \in TurnId \ {n}
    BY <2>1, <1>1, IdsInRange
  <2>3. turn'[proposal[p].turn] = turn[proposal[p].turn]
    BY <2>2, <1>1
  <2>4. proposal[p].turn \in 1..n
    BY <2>1, <1>1
  <2> QED BY <2>1, <2>3, <2>4
<1>7. ProposalsFollowTurns' /\ PendingIsLatest'
  BY <1>1 DEF RowsInv, ProposalsFollowTurns, PendingIsLatest
<1> QED BY <1>4, <1>5, <1>6, <1>7 DEF RowsInv

\* So does an end: fewer turns are in progress, nothing else changes.
LEMMA EndKeepsRows ==
  ASSUME TypeOK, RowsInv, NEW t \in 1..lastTurn, EndsTurn(t)
  PROVE  RowsInv'
<1>1. PICK e \in Terminal : turn' = [turn EXCEPT ![t].status = e]
  BY DEF EndsTurn
<1>2. /\ e # "none" /\ e # "working"
      /\ t \in TurnId /\ turn[t].status # "none"
      /\ UNCHANGED <<lastTurn, proposal, lastProposal>>
  BY BoundsAssumption
  DEF Terminal, EndsTurn, TypeOK, TablesType, TurnId, RowsInv, RowsFollowCounter
<1>3. \A u \in TurnId :
        /\ turn'[u].session = turn[u].session
        /\ turn'[u].status = "none" <=> turn[u].status = "none"
        /\ turn'[u].status = "working" => turn[u].status = "working"
  BY <1>1, <1>2 DEF TypeOK, TablesType
<1>4. RowsFollowCounter' /\ WorkingIsLatest'
  BY <1>2, <1>3 DEF RowsInv, RowsFollowCounter, WorkingIsLatest
<1>5. ProposalsHaveTurns'
  <2>1. ASSUME NEW p \in 1..lastProposal
        PROVE  /\ proposal[p].turn \in 1..lastTurn
               /\ proposal[p].session = turn'[proposal[p].turn].session
    BY <1>3, IdsInRange DEF RowsInv, ProposalsHaveTurns
  <2> QED BY <2>1, <1>2 DEF ProposalsHaveTurns
<1>6. ProposalsFollowTurns' /\ PendingIsLatest'
  BY <1>2 DEF RowsInv, ProposalsFollowTurns, PendingIsLatest
<1> QED BY <1>4, <1>5, <1>6 DEF RowsInv

\* The transaction of createGenerationProposal: the proposing turn is in progress,
\* so it is the newest of its session and comes after every turn with a proposal.
LEMMA ProposeKeepsRows ==
  ASSUME TypeOK, HoldersHaveRows, RowsInv, NEW r \in Requests, ProposeFinal(r)
  PROVE  RowsInv'
<1> DEFINE s == sessionOf[r]
           t == turnOf[r]
           n == lastProposal + 1
<1>1. /\ n \in ProposalId /\ lastProposal' = n /\ lastProposal \in Nat
      /\ UNCHANGED <<turn, lastTurn>>
      /\ proposal'[n].session = s /\ proposal'[n].turn = t
      /\ \A p \in 1..lastProposal :
           /\ p \in ProposalId
           /\ proposal'[p].session = proposal[p].session
           /\ proposal'[p].turn = proposal[p].turn
           /\ proposal'[p].status = "pending" =>
                proposal[p].status = "pending" /\ proposal[p].session # s
  <2>1. n \in ProposalId /\ lastProposal' = n /\ lastProposal \in Nat
    BY BoundsAssumption DEF ProposeFinal, TypeOK, TablesType, ProposalId
  <2>2. proposal'[n].session = s /\ proposal'[n].turn = t
    BY <2>1 DEF ProposeFinal
  <2>3. ASSUME NEW p \in 1..lastProposal
        PROVE  /\ p \in ProposalId
               /\ proposal'[p] = IF Supersedes(s, p)
                                   THEN [proposal[p] EXCEPT !.status = "superseded"]
                                   ELSE proposal[p]
    <3>1. p \in ProposalId /\ p # n
      BY <2>1, IdsInRange
    <3> QED BY <3>1 DEF ProposeFinal
  <2>4. \A p \in 1..lastProposal :
          proposal[p] \in [session : Sessions, turn : TurnId \cup {NoTurn}, rev : 0..MaxRevision,
                           status : {"none", "pending", "accepted", "superseded"}]
    BY <2>3 DEF TypeOK, TablesType
  <2> QED BY <2>1, <2>2, <2>3, <2>4 DEF ProposeFinal, Supersedes
<1>2. /\ t \in TurnId /\ t <= lastTurn /\ lastTurn \in Nat
      /\ turn[t].status = "working" /\ turn[t].session = s
  <2>1. turn[t].status = "working" /\ turn[t].session = s
    BY DEF ProposeFinal, MayPropose
  <2>2. t \in 1..lastTurn
    BY DEF ProposeFinal, HoldersHaveRows, Owning, Streaming
  <2> QED BY <2>1, <2>2, IdsInRange
<1>3. ASSUME NEW p \in 1..lastProposal, proposal[p].session = s
      PROVE  proposal[p].turn < t
  <2>1. /\ proposal[p].turn \in 1..lastTurn
        /\ turn[proposal[p].turn].session = s
    BY <1>3 DEF RowsInv, ProposalsHaveTurns
  <2>2. proposal[p].turn \in TurnId /\ turn[proposal[p].turn].status # "none"
    BY <2>1, IdsInRange DEF RowsInv, RowsFollowCounter
  <2>3. proposal[p].turn <= t
    BY <2>1, <2>2, <1>2 DEF RowsInv, WorkingIsLatest
  <2>4. proposal[p].turn # t
    BY DEF ProposeFinal, MayPropose, NoProposalOf
  <2> QED BY <2>1, <2>3, <2>4, <1>2 DEF TurnId
<1>4. RowsFollowCounter' /\ WorkingIsLatest'
  BY <1>1 DEF RowsInv, RowsFollowCounter, WorkingIsLatest
<1>5. \A p \in 1..n : p \in 1..lastProposal \/ p = n
  BY <1>1
<1>6. ProposalsHaveTurns'
  <2> SUFFICES ASSUME NEW p \in 1..n
               PROVE  /\ proposal'[p].turn \in 1..lastTurn
                      /\ proposal'[p].session = turn[proposal'[p].turn].session
    BY <1>1 DEF ProposalsHaveTurns
  <2>1. CASE p = n
    BY <2>1, <1>1, <1>2 DEF TurnId
  <2>2. CASE p \in 1..lastProposal
    BY <2>2, <1>1 DEF RowsInv, ProposalsHaveTurns
  <2> QED BY <2>1, <2>2, <1>5
<1>7. ASSUME NEW p \in 1..n, NEW q \in 1..n, p < q,
             proposal'[p].session = proposal'[q].session
      PROVE  proposal'[p].turn < proposal'[q].turn /\ proposal'[p].status # "pending"
  <2>1. p \in 1..lastProposal
    BY <1>7, <1>1
  <2>2. CASE q = n
    <3>1. proposal[p].session = s
      BY <2>1, <2>2, <1>1, <1>7
    <3> QED BY <3>1, <2>1, <2>2, <1>1, <1>3
  <2>3. CASE q \in 1..lastProposal
    BY <2>1, <2>3, <1>1, <1>7 DEF RowsInv, ProposalsFollowTurns, PendingIsLatest
  <2> QED BY <2>2, <2>3, <1>5
<1>8. ProposalsFollowTurns' /\ PendingIsLatest'
  BY <1>1, <1>7 DEF ProposalsFollowTurns, PendingIsLatest
<1> QED BY <1>4, <1>6, <1>8 DEF RowsInv

\* An acceptance only takes a proposal out of review.
LEMMA AcceptKeepsRows ==
  ASSUME TypeOK, RowsInv, NEW a \in ProposalId, AcceptProposal(a)
  PROVE  RowsInv'
<1>1. /\ UNCHANGED <<turn, lastTurn, lastProposal>>
      /\ \A p \in ProposalId :
           /\ proposal'[p].session = proposal[p].session
           /\ proposal'[p].turn = proposal[p].turn
           /\ proposal'[p].status = "pending" => proposal[p].status = "pending"
  BY DEF AcceptProposal, TypeOK, TablesType
<1>2. RowsFollowCounter' /\ WorkingIsLatest'
  BY <1>1 DEF RowsInv, RowsFollowCounter, WorkingIsLatest
<1>3. ProposalsHaveTurns'
  BY <1>1, IdsInRange DEF RowsInv, ProposalsHaveTurns
<1>4. ProposalsFollowTurns' /\ PendingIsLatest'
  BY <1>1, IdsInRange DEF RowsInv, ProposalsFollowTurns, PendingIsLatest
<1> QED BY <1>2, <1>3, <1>4 DEF RowsInv

\* Hence every step keeps the rows' invariant.
LEMMA NextRows ==
  ASSUME TypeOK, TypeOK', HoldersHaveRows, FinishersKnowTheirEnd, RowsInv, [Next]_vars
  PROVE  RowsInv'
<1>1. CASE UNCHANGED rows
  BY <1>1 DEF rows, RowsInv, RowsFollowCounter, WorkingIsLatest, ProposalsHaveTurns,
     ProposalsFollowTurns, PendingIsLatest
<1> QED
  BY <1>1, RowSteps, StartKeepsRows, ProposeKeepsRows, AcceptKeepsRows, EndKeepsRows

-----------------------------------------------------------------------------
(***************************************************************************)
(* What the handlers know: a running handler has a row, and knows which    *)
(* end it is writing.                                                      *)
(***************************************************************************)
\* What request r may change of the handlers' own state, and what it must know.
KnowsItsTurn(r) ==
  /\ UNCHANGED stopVars
  /\ \A q \in Requests \ {r} :
       pc'[q] = pc[q] /\ turnOf'[q] = turnOf[q] /\ ending'[q] = ending[q]
  /\ IF pc'[r] \in Owning THEN turnOf'[r] \in 1..lastTurn' ELSE turnOf'[r] = NoTurn
  /\ pc'[r] \in Finishing => ending'[r] \in Terminal

LEMMA RequestHolds ==
  ASSUME TypeOK, HoldersHaveRows, FinishersKnowTheirEnd, NEW r \in Requests,
         \/ \E s \in Sessions : LoadSession(r, s)
         \/ StartTurn(r) \/ RejectTurn(r) \/ ReloadFails(r)
         \/ StreamStep(r) \/ ClientDisconnects(r)
  PROVE  KnowsItsTurn(r)
<1> USE DEF TypeOK, StreamsType, HoldersHaveRows, FinishersKnowTheirEnd, KnowsItsTurn,
            Goto, Owning, Streaming, Finishing, stopVars
<1>1. CASE (\E s \in Sessions : LoadSession(r, s)) \/ RejectTurn(r) \/ ReloadFails(r)
  BY <1>1 DEF LoadSession, RejectTurn, ReloadFails
<1>2. CASE StartTurn(r)
  BY <1>2, IdsInRange DEF StartTurn
<1>3. CASE RegisterStream(r) \/ ProviderReturns(r) \/ NextStep(r) \/ ClientDisconnects(r)
  BY <1>3 DEF RegisterStream, ProviderReturns, NextStep, ClientDisconnects, tables
<1>4. CASE ProposeFinal(r) \/ ProposeRefused(r)
  BY <1>4 DEF ProposeFinal, ProposeRefused, tables
<1>5. CASE StreamAborts(r) \/ StreamErrs(r) \/ StreamCompletes(r)
  BY <1>5 DEF StreamAborts, StreamErrs, StreamCompletes, FailStatus, Terminal, tables
<1>6. CASE FinishTurn(r) \/ FinishStatusPart(r) \/ FinishErrorPart(r)
  BY <1>6 DEF FinishTurn, FinishStatusPart, FinishErrorPart
<1>7. CASE FinishFails(r)
  BY <1>7 DEF FinishFails, FailStatus, Terminal
<1>8. CASE StreamReturns(r)
  BY <1>8 DEF StreamReturns
<1> QED
  BY <1>1, <1>2, <1>3, <1>4, <1>5, <1>6, <1>7, <1>8 DEF StreamStep

LEMMA NextHolders ==
  ASSUME TypeOK, HoldersHaveRows, FinishersKnowTheirEnd, RowsFollowCounter, [Next]_vars
  PROVE  HoldersHaveRows' /\ FinishersKnowTheirEnd'
<1>1. 1..lastTurn \subseteq 1..lastTurn'
  <2>1. lastTurn' = lastTurn \/ lastTurn' = lastTurn + 1
    BY RowSteps DEF StartTurn, ProposeFinal, AcceptProposal, EndsTurn, rows
  <2> QED BY <2>1, IdsInRange
<1>2. ASSUME NEW r \in Requests, KnowsItsTurn(r)
      PROVE  HoldersHaveRows' /\ FinishersKnowTheirEnd'
  BY <1>1, <1>2 DEF KnowsItsTurn, HoldersHaveRows, FinishersKnowTheirEnd, stopVars
<1>3. ASSUME NEW k \in Stoppers,
             (\E t \in TurnId : StopRead(k, t)) \/ StopStep(k)
      PROVE  HoldersHaveRows' /\ FinishersKnowTheirEnd'
  <2>1. UNCHANGED <<pc, turnOf, ending>>
    BY <1>3 DEF StopRead, StopStep, StopCancel, StopFinishTurn, StopFinishPart, StopFails,
       streamVars
  <2>2. \A j \in Stoppers \ {k} : stopPc'[j] = stopPc[j] /\ stopTurn'[j] = stopTurn[j]
    BY <1>3 DEF StopRead, StopStep, StopCancel, StopFinishTurn, StopFinishPart, StopFails,
       TypeOK, StopsType
  <2>3. stopPc'[k] # "idle" => stopTurn'[k] \in 1..lastTurn
    <3>1. ASSUME NEW t \in TurnId, StopRead(k, t)
          PROVE  stopTurn'[k] \in 1..lastTurn
      BY <3>1, BoundsAssumption, IdsInRange
      DEF StopRead, RowsFollowCounter, TypeOK, StopsType, TurnId
    <3>2. CASE StopStep(k)
      BY <3>2 DEF StopStep, StopCancel, StopFinishTurn, StopFinishPart, StopFails,
         TypeOK, StopsType, HoldersHaveRows
    <3> QED BY <1>3, <3>1, <3>2
  <2> QED BY <1>1, <2>1, <2>2, <2>3 DEF HoldersHaveRows, FinishersKnowTheirEnd
<1>4. ASSUME \/ \E a \in Archivers, s \in Sessions : ArchiveCheck(a, s) \/ ArchiveWrite(a, s)
             \/ \E p \in ProposalId : AcceptProposal(p)
             \/ RegenerateSource \/ UNCHANGED vars
      PROVE  HoldersHaveRows' /\ FinishersKnowTheirEnd'
  <2>1. UNCHANGED <<pc, turnOf, ending, stopPc, stopTurn>>
    BY <1>4 DEF ArchiveCheck, ArchiveWrite, AcceptProposal, RegenerateSource, vars,
       streamVars, stopVars
  <2> QED BY <1>1, <2>1 DEF HoldersHaveRows, FinishersKnowTheirEnd
<1>5. ASSUME Crash
      PROVE  HoldersHaveRows' /\ FinishersKnowTheirEnd'
  BY <1>5 DEF Crash, HoldersHaveRows, FinishersKnowTheirEnd, Owning, Streaming, Finishing
<1>6. \A r \in Requests :
        \/ \E s \in Sessions : LoadSession(r, s)
        \/ StartTurn(r) \/ RejectTurn(r) \/ ReloadFails(r)
        \/ StreamStep(r) \/ ClientDisconnects(r)
        => KnowsItsTurn(r)
  BY RequestHolds
<1> QED BY <1>2, <1>3, <1>4, <1>5, <1>6 DEF Next

-----------------------------------------------------------------------------
(***************************************************************************)
(* How turns settle: no turn hangs, a written end is never undone, and the *)
(* status part follows its turn.                                           *)
(***************************************************************************)
Settling == NoHangingTurn /\ WrittenEndsStay /\ StatusPartSettles

\* The steps of request r that write neither the turn nor its status part, and
\* do not leave finishGenerationTurn.
WritesNothing(r) ==
  /\ UNCHANGED <<turn, statusPart, faults, stopPc, stopTurn, turnOf>>
  /\ \A q \in Requests \ {r} : pc'[q] = pc[q]
  /\ pc'[r] = pc[r] \/ pc[r] \notin Finishing
  /\ pc'[r] = pc[r] \/ pc'[r] \notin {"finishPart", "finishError", "return"}

LEMMA QuietSteps ==
  ASSUME TypeOK, NEW r \in Requests,
         \/ \E s \in Sessions : LoadSession(r, s)
         \/ RejectTurn(r) \/ RegisterStream(r) \/ ProviderReturns(r)
         \/ ProposeFinal(r) \/ ProposeRefused(r) \/ NextStep(r)
         \/ StreamAborts(r) \/ StreamErrs(r) \/ StreamCompletes(r)
         \/ ClientDisconnects(r)
  PROVE  WritesNothing(r)
<1> USE DEF TypeOK, StreamsType, WritesNothing, Goto, Streaming, Finishing, tables, stopVars
<1>1. CASE \/ \E s \in Sessions : LoadSession(r, s)
           \/ RejectTurn(r) \/ RegisterStream(r) \/ ProviderReturns(r) \/ NextStep(r)
           \/ ClientDisconnects(r)
  BY <1>1 DEF LoadSession, RejectTurn, RegisterStream, ProviderReturns, NextStep,
     ClientDisconnects
<1>2. CASE ProposeFinal(r) \/ ProposeRefused(r)
  BY <1>2 DEF ProposeFinal, ProposeRefused
<1>3. CASE StreamAborts(r) \/ StreamErrs(r) \/ StreamCompletes(r)
  BY <1>3 DEF StreamAborts, StreamErrs, StreamCompletes
<1> QED BY <1>1, <1>2, <1>3

LEMMA QuietKeepsSettling ==
  ASSUME Settling, NEW r \in Requests, WritesNothing(r)
  PROVE  Settling'
<1>1. NoHangingTurn'
  BY DEF Settling, WritesNothing, NoHangingTurn, Owned
<1>2. WrittenEndsStay'
  BY DEF Settling, WritesNothing, WrittenEndsStay
<1>3. \A t \in TurnId : BeingFinished(t) => BeingFinished(t)'
  BY DEF WritesNothing, BeingFinished
<1>4. StatusPartSettles'
  BY <1>3 DEF Settling, WritesNothing, StatusPartSettles
<1> QED BY <1>1, <1>2, <1>4 DEF Settling

\* After a fault only the ends written by stop requests matter.
LEMMA FaultKeepsSettling ==
  ASSUME TypeOK, Settling,
         \/ \E r \in Requests : ReloadFails(r) \/ FinishFails(r)
         \/ \E k \in Stoppers : StopFails(k)
         \/ Crash
  PROVE  Settling'
<1>1. faults' > 0
  BY BoundsAssumption
  DEF ReloadFails, FinishFails, StopFails, Crash, Fault, TypeOK
<1>2. UNCHANGED turn
  BY DEF ReloadFails, FinishFails, StopFails, Crash, tables
<1>3. \A k \in Stoppers : stopPc'[k] = "finishPart" =>
                            stopPc[k] = "finishPart" /\ stopTurn'[k] = stopTurn[k]
  BY DEF ReloadFails, FinishFails, StopFails, Crash, stopVars, TypeOK, StopsType
<1> QED
  BY <1>1, <1>2, <1>3 DEF Settling, NoHangingTurn, WrittenEndsStay, StatusPartSettles

\* A started turn is owned and has the status part of a turn in progress.
LEMMA StartKeepsSettling ==
  ASSUME TypeOK, HoldersHaveRows, FinishersKnowTheirEnd, RowsInv, Settling,
         NEW r \in Requests, StartTurn(r)
  PROVE  Settling'
<1> DEFINE n == lastTurn + 1
<1>1. /\ n \in TurnId
      /\ turn'[n].status = "working" /\ statusPart'[n] = "working"
      /\ \A t \in TurnId \ {n} : turn'[t] = turn[t] /\ statusPart'[t] = statusPart[t]
  BY BoundsAssumption DEF StartTurn, TypeOK, TablesType, TurnId
<1>2. /\ turnOf[r] = NoTurn /\ turnOf'[r] = n
      /\ pc[r] = "loaded" /\ pc'[r] = "prepared"
      /\ \A q \in Requests \ {r} : turnOf'[q] = turnOf[q] /\ pc'[q] = pc[q]
      /\ UNCHANGED <<faults, stopPc, stopTurn>>
  BY DEF StartTurn, Goto, TypeOK, StreamsType, stopVars, HoldersHaveRows, Owning,
         Streaming, Finishing
<1>3. \A t \in 1..lastTurn : t \in TurnId \ {n}
  BY IdsInRange
<1>4. NoHangingTurn'
  <2> SUFFICES ASSUME NEW t \in TurnId, turn'[t].status = "working", faults = 0
               PROVE  \E q \in Requests : turnOf'[q] = t
    BY <1>2, BoundsAssumption DEF NoHangingTurn, Owned, TypeOK
  <2>1. CASE t = n
    BY <2>1, <1>2
  <2>2. CASE t # n
    <3>1. PICK q \in Requests : turnOf[q] = t
      BY <2>2, <1>1 DEF Settling, NoHangingTurn, Owned
    <3>2. q # r
      BY <3>1, <1>2, BoundsAssumption DEF TurnId, NoTurn
    <3> QED BY <3>1, <3>2, <1>2
  <2> QED BY <2>1, <2>2
<1>5. WrittenEndsStay'
  <2>1. ASSUME NEW q \in Requests, pc'[q] \in {"finishPart", "finishError", "return"}
        PROVE  /\ turn'[turnOf'[q]] = turn[turnOf[q]] /\ pc'[q] = pc[q]
               /\ statusPart'[turnOf'[q]] = statusPart[turnOf[q]]
    <3>1. q # r
      BY <2>1, <1>2
    <3>2. turnOf[q] \in 1..lastTurn
      BY <2>1, <3>1, <1>2 DEF HoldersHaveRows, Owning, Finishing
    <3> QED BY <3>1, <3>2, <1>1, <1>2, <1>3
  <2>2. ASSUME NEW k \in Stoppers, stopPc[k] = "finishPart"
        PROVE  turn'[stopTurn[k]] = turn[stopTurn[k]]
    BY <2>2, <1>1, <1>3 DEF HoldersHaveRows
  <2> QED BY <2>1, <2>2, <1>2 DEF Settling, WrittenEndsStay
<1>6. StatusPartSettles'
  <2>1. \A t \in TurnId : BeingFinished(t) => BeingFinished(t)'
    BY <1>2 DEF BeingFinished, Finishing
  <2> QED BY <2>1, <1>1, <1>2 DEF Settling, StatusPartSettles
<1> QED BY <1>4, <1>5, <1>6 DEF Settling

\* The stream's finishGenerationTurn, statement by statement, and its return.
LEMMA FinishKeepsSettling ==
  ASSUME TypeOK, HoldersHaveRows, FinishersKnowTheirEnd, Settling, NEW r \in Requests,
         \/ FinishTurn(r) \/ FinishStatusPart(r) \/ FinishErrorPart(r)
         \/ StreamReturns(r)
  PROVE  Settling'
<1> DEFINE u == turnOf[r]
<1>1. /\ \A q \in Requests \ {r} : turnOf'[q] = turnOf[q] /\ pc'[q] = pc[q]
      /\ UNCHANGED <<faults, stopPc, stopTurn>>
      /\ pc[r] \in Finishing \cup {"return"}
  BY DEF FinishTurn, FinishStatusPart, FinishErrorPart, StreamReturns, Goto, Finishing,
         TypeOK, StreamsType, stopVars
<1>2. (u \in TurnId /\ ending[r] # "working") \/ pc[r] = "return"
  BY <1>1, IdsInRange DEF HoldersHaveRows, Owning, Finishing, FinishersKnowTheirEnd, Terminal
<1>3. \A t \in TurnId :
        /\ turn'[t].status = "working" => turn[t].status = "working"
        /\ statusPart'[t] = "working" => statusPart[t] = "working"
        /\ t # u => turn'[t] = turn[t] /\ statusPart'[t] = statusPart[t]
  <2>1. CASE FinishTurn(r)
    BY <2>1, <1>2 DEF FinishTurn, Goto, TypeOK, TablesType
  <2>2. CASE FinishStatusPart(r)
    BY <2>2, <1>2 DEF FinishStatusPart, PartEnded, Goto, TypeOK, TablesType
  <2>3. CASE FinishErrorPart(r) \/ StreamReturns(r)
    BY <2>3 DEF FinishErrorPart, StreamReturns, tables
  <2> QED BY <2>1, <2>2, <2>3
<1>4. \A q \in Requests : pc[q] \in Owning => turnOf[q] \in TurnId
  BY IdsInRange DEF HoldersHaveRows
<1>5. \A k \in Stoppers : stopPc[k] # "idle" => stopTurn[k] \in TurnId
  BY IdsInRange DEF HoldersHaveRows
<1>6. \/ faults # 0 \/ StreamReturns(r)
      \/ turn'[u].status # "working" /\ (FinishTurn(r) \/ statusPart'[u] # "working")
  <2>1. CASE FinishTurn(r)
    BY <2>1, <1>2 DEF FinishTurn, Goto, TypeOK, TablesType
  <2>2. CASE FinishStatusPart(r)
    BY <2>2, <1>2 DEF FinishStatusPart, PartEnded, Goto, TypeOK, TablesType, Settling,
       WrittenEndsStay
  <2>3. CASE FinishErrorPart(r)
    BY <2>3 DEF FinishErrorPart, Goto, Settling, WrittenEndsStay
  <2> QED BY <2>1, <2>2, <2>3
<1>7. NoHangingTurn'
  <2> SUFFICES ASSUME NEW t \in TurnId, turn'[t].status = "working", faults = 0
               PROVE  \E q \in Requests : turnOf'[q] = t
    BY <1>1, BoundsAssumption DEF NoHangingTurn, Owned, TypeOK
  <2>1. PICK q \in Requests : turnOf[q] = t
    BY <1>3 DEF Settling, NoHangingTurn, Owned
  <2>2. CASE q # r
    BY <2>1, <2>2, <1>1
  <2>3. CASE q = r /\ ~StreamReturns(r)
    BY <2>1, <2>3 DEF FinishTurn, FinishStatusPart, FinishErrorPart
  <2>4. CASE q = r /\ StreamReturns(r)
    BY <2>1, <2>4, <1>3 DEF StreamReturns, Goto, Settling, WrittenEndsStay
  <2> QED BY <2>2, <2>3, <2>4
<1>8. WrittenEndsStay'
  <2>1. ASSUME NEW q \in Requests, q # r, faults = 0,
               pc[q] \in {"finishPart", "finishError", "return"}
        PROVE  /\ turn'[turnOf[q]].status # "working"
               /\ pc[q] = "finishError" => statusPart'[turnOf[q]] # "working"
    <3>1. turnOf[q] \in TurnId
      BY <2>1, <1>4 DEF Owning, Finishing
    <3> QED BY <2>1, <3>1, <1>3 DEF Settling, WrittenEndsStay
  <2>2. ASSUME faults = 0, pc'[r] \in {"finishPart", "finishError", "return"}
        PROVE  /\ turn'[turnOf'[r]].status # "working"
               /\ pc'[r] = "finishError" => statusPart'[turnOf'[r]] # "working"
    <3>1. ~StreamReturns(r)
      BY <2>2 DEF StreamReturns, Goto, TypeOK, StreamsType
    <3>2. turnOf'[r] = u /\ (pc'[r] = "finishError" => ~FinishTurn(r))
      BY <3>1 DEF FinishTurn, FinishStatusPart, FinishErrorPart, Goto, TypeOK, StreamsType
    <3> QED BY <2>2, <3>1, <3>2, <1>6
  <2>3. ASSUME NEW k \in Stoppers, stopPc[k] = "finishPart"
        PROVE  turn'[stopTurn[k]].status # "working"
    BY <2>3, <1>3, <1>5 DEF Settling, WrittenEndsStay
  <2> QED BY <2>1, <2>2, <2>3, <1>1 DEF WrittenEndsStay
<1>9. StatusPartSettles'
  <2> SUFFICES ASSUME NEW t \in TurnId, ~BeingFinished(t)', faults = 0
               PROVE  statusPart'[t] = "working" <=> turn'[t].status = "working"
    BY <1>1 DEF StatusPartSettles
  <2>1. CASE t # u \/ StreamReturns(r)
    <3>1. ~BeingFinished(t)
      BY <2>1, <1>1 DEF BeingFinished, StreamReturns, Goto, Finishing
    <3>2. statusPart'[t] = statusPart[t] /\ turn'[t] = turn[t]
      BY <2>1, <1>3 DEF StreamReturns, tables
    <3> QED BY <3>1, <3>2 DEF Settling, StatusPartSettles
  <2>2. CASE t = u /\ ~StreamReturns(r)
    <3>1. ~FinishTurn(r)
      BY <2>2 DEF BeingFinished, FinishTurn, Goto, Finishing, TypeOK, StreamsType
    <3> QED BY <2>2, <3>1, <1>6
  <2> QED BY <2>1, <2>2
<1> QED BY <1>7, <1>8, <1>9 DEF Settling

\* A stop request's statements: the turn is ended before its status part.
LEMMA StopKeepsSettling ==
  ASSUME TypeOK, HoldersHaveRows, Settling, NEW k \in Stoppers,
         \/ \E t \in TurnId : StopRead(k, t)
         \/ StopCancel(k) \/ StopFinishTurn(k) \/ StopFinishPart(k)
  PROVE  Settling'
<1> DEFINE u == stopTurn[k]
<1>1. /\ UNCHANGED <<faults, pc, turnOf>>
      /\ \A j \in Stoppers \ {k} : stopPc'[j] = stopPc[j] /\ stopTurn'[j] = stopTurn[j]
  BY DEF StopRead, StopCancel, StopFinishTurn, StopFinishPart, streamVars, TypeOK, StopsType
<1>2. \A t \in TurnId :
        /\ turn'[t].status = "working" => turn[t].status = "working"
        /\ statusPart'[t] = "working" => statusPart[t] = "working"
        /\ t # u => turn'[t] = turn[t] /\ statusPart'[t] = statusPart[t]
  BY DEF StopRead, StopCancel, StopFinishTurn, StopFinishPart, PartEnded, tables,
         TypeOK, TablesType
<1>3. \A q \in Requests : pc[q] \in Owning => turnOf[q] \in TurnId
  BY IdsInRange DEF HoldersHaveRows
<1>4. \A j \in Stoppers : stopPc[j] # "idle" => stopTurn[j] \in TurnId
  BY IdsInRange DEF HoldersHaveRows
<1>5. NoHangingTurn'
  BY <1>1, <1>2 DEF Settling, NoHangingTurn, Owned
<1>6. WrittenEndsStay'
  <2>1. ASSUME NEW q \in Requests, faults = 0,
               pc[q] \in {"finishPart", "finishError", "return"}
        PROVE  /\ turn'[turnOf[q]].status # "working"
               /\ pc[q] = "finishError" => statusPart'[turnOf[q]] # "working"
    <3>1. turnOf[q] \in TurnId
      BY <2>1, <1>3 DEF Owning, Finishing
    <3> QED BY <2>1, <3>1, <1>2 DEF Settling, WrittenEndsStay
  <2>2. ASSUME NEW j \in Stoppers, j # k, stopPc[j] = "finishPart"
        PROVE  turn'[stopTurn[j]].status # "working"
    BY <2>2, <1>2, <1>4 DEF Settling, WrittenEndsStay
  <2>3. ASSUME stopPc'[k] = "finishPart"
        PROVE  turn'[stopTurn'[k]].status # "working"
    BY <2>3, <1>4 DEF StopRead, StopCancel, StopFinishTurn, StopFinishPart, TypeOK,
       TablesType, StopsType
  <2> QED BY <2>1, <2>2, <2>3, <1>1 DEF WrittenEndsStay
<1>7. StatusPartSettles'
  <2> SUFFICES ASSUME NEW t \in TurnId, ~BeingFinished(t)', faults = 0
               PROVE  statusPart'[t] = "working" <=> turn'[t].status = "working"
    BY <1>1 DEF StatusPartSettles
  <2>1. CASE StopFinishPart(k) /\ t = u
    BY <2>1, <1>2 DEF StopFinishPart, PartEnded, Settling, WrittenEndsStay, TypeOK, TablesType
  <2>2. CASE ~(StopFinishPart(k) /\ t = u)
    <3>1. ~BeingFinished(t)
      BY <2>2, <1>1 DEF BeingFinished, StopRead, StopCancel, StopFinishTurn, StopFinishPart
    <3>2. ~(StopFinishTurn(k) /\ t = u)
      BY <1>1 DEF BeingFinished, StopFinishTurn, TypeOK, StopsType
    <3>3. statusPart'[t] = statusPart[t] /\ turn'[t] = turn[t]
      BY <2>2, <3>2, <1>2 DEF StopRead, StopCancel, tables
    <3> QED BY <3>1, <3>3 DEF Settling, StatusPartSettles
  <2> QED BY <2>1, <2>2
<1> QED BY <1>5, <1>6, <1>7 DEF Settling
\* Hence every step keeps turns settling.
LEMMA NextSettling ==
  ASSUME TypeOK, HoldersHaveRows, FinishersKnowTheirEnd, RowsInv, Settling, [Next]_vars
  PROVE  Settling'
<1>1. ASSUME \/ \E a \in Archivers, s \in Sessions : ArchiveCheck(a, s) \/ ArchiveWrite(a, s)
             \/ \E p \in ProposalId : AcceptProposal(p)
             \/ RegenerateSource \/ UNCHANGED vars
      PROVE  Settling'
  <2>1. UNCHANGED <<turn, statusPart, faults, pc, turnOf, stopPc, stopTurn>>
    BY <1>1 DEF ArchiveCheck, ArchiveWrite, AcceptProposal, RegenerateSource, vars,
       tables, streamVars, stopVars
  <2>2. \A t \in TurnId : BeingFinished(t) => BeingFinished(t)'
    BY <2>1 DEF BeingFinished
  <2> QED BY <2>1, <2>2 DEF Settling, NoHangingTurn, Owned, WrittenEndsStay, StatusPartSettles
<1>2. ASSUME NEW r \in Requests,
             \/ \E s \in Sessions : LoadSession(r, s)
             \/ StartTurn(r) \/ RejectTurn(r) \/ ReloadFails(r)
             \/ StreamStep(r) \/ ClientDisconnects(r)
      PROVE  Settling'
  <2>1. CASE ReloadFails(r) \/ FinishFails(r)
    BY <2>1, FaultKeepsSettling
  <2>2. CASE StartTurn(r)
    BY <2>2, StartKeepsSettling
  <2>3. CASE \/ FinishTurn(r) \/ FinishStatusPart(r) \/ FinishErrorPart(r)
             \/ StreamReturns(r)
    BY <2>3, FinishKeepsSettling
  <2> QED BY <1>2, <2>1, <2>2, <2>3, QuietSteps, QuietKeepsSettling DEF StreamStep
<1>3. ASSUME NEW k \in Stoppers, (\E t \in TurnId : StopRead(k, t)) \/ StopStep(k)
      PROVE  Settling'
  BY <1>3, StopKeepsSettling, FaultKeepsSettling DEF StopStep
<1>4. CASE Crash
  BY <1>4, FaultKeepsSettling
<1> QED BY <1>1, <1>2, <1>3, <1>4 DEF Next

-----------------------------------------------------------------------------
(***************************************************************************)
(* The drafts the sessions are of: only a regeneration moves the revision, *)
(* and no step moves the revision of a session.                            *)
(***************************************************************************)
LEMMA DraftSteps ==
  ASSUME TypeOK, [Next]_vars
  PROVE  /\ (RegenerateSource \/ revision' = revision)
         /\ \A s \in Sessions : session'[s].rev = session[s].rev
<1>1. ASSUME UNCHANGED tables
      PROVE  revision' = revision /\ \A s \in Sessions : session'[s].rev = session[s].rev
  BY <1>1 DEF tables
<1>2. ASSUME UNCHANGED <<revision, session>>
      PROVE  revision' = revision /\ \A s \in Sessions : session'[s].rev = session[s].rev
  BY <1>2
<1>3. ASSUME NEW r \in Requests,
             \/ \E s \in Sessions : LoadSession(r, s)
             \/ RejectTurn(r) \/ ReloadFails(r) \/ RegisterStream(r)
             \/ ProviderReturns(r) \/ ProposeRefused(r) \/ NextStep(r)
             \/ StreamAborts(r) \/ StreamErrs(r) \/ StreamCompletes(r)
             \/ StreamReturns(r) \/ ClientDisconnects(r)
      PROVE  UNCHANGED tables
  BY <1>3 DEF LoadSession, RejectTurn, ReloadFails, RegisterStream, ProviderReturns,
     ProposeRefused, NextStep, StreamAborts, StreamErrs, StreamCompletes, StreamReturns,
     ClientDisconnects
<1>4. ASSUME NEW r \in Requests,
             \/ StartTurn(r) \/ ProposeFinal(r) \/ FinishTurn(r)
             \/ FinishStatusPart(r) \/ FinishErrorPart(r) \/ FinishFails(r)
      PROVE  UNCHANGED <<revision, session>>
  BY <1>4 DEF StartTurn, ProposeFinal, FinishTurn, FinishStatusPart, FinishErrorPart,
     FinishFails
<1>5. ASSUME NEW k \in Stoppers, StopStep(k) \/ \E t \in TurnId : StopRead(k, t)
      PROVE  UNCHANGED <<revision, session>>
  BY <1>5 DEF StopStep, tables, StopRead, StopCancel, StopFinishTurn, StopFinishPart, StopFails
<1>6. ASSUME NEW a \in Archivers, NEW s \in Sessions, ArchiveWrite(a, s)
      PROVE  revision' = revision /\ \A u \in Sessions : session'[u].rev = session[u].rev
  BY <1>6 DEF ArchiveWrite, TypeOK, TablesType
<1>7. ASSUME \/ \E a \in Archivers, s \in Sessions : ArchiveCheck(a, s)
             \/ \E p \in ProposalId : AcceptProposal(p)
             \/ Crash \/ UNCHANGED vars
      PROVE  UNCHANGED <<revision, session>>
  BY <1>7 DEF tables, vars, ArchiveCheck, AcceptProposal, Crash
<1>8. ASSUME RegenerateSource
      PROVE  \A s \in Sessions : session'[s].rev = session[s].rev
  BY <1>8 DEF RegenerateSource
<1> QED
  BY <1>1, <1>2, <1>3, <1>4, <1>5, <1>6, <1>7, <1>8 DEF Next, StreamStep

LEMMA NextDrafts ==
  ASSUME TypeOK, HoldersHaveRows, FinishersKnowTheirEnd, SessionsAreOfDrafts, [Next]_vars
  PROVE  SessionsAreOfDrafts'
<1>1. \A s \in Sessions : session'[s].rev <= revision'
  BY DraftSteps DEF SessionsAreOfDrafts, RegenerateSource, TypeOK, TablesType
<1>2. \A p \in 1..lastProposal' : proposal'[p].status # "none"
  <2>1. ASSUME NEW r \in Requests, ProposeFinal(r)
        PROVE  \A p \in 1..lastProposal' : proposal'[p].status # "none"
    <3> SUFFICES ASSUME NEW p \in 1..lastProposal'
                   PROVE  proposal'[p].status # "none"
      OBVIOUS
    <3>2. p \in ProposalId /\ (p = lastProposal + 1 \/ p \in 1..lastProposal)
      BY <2>1, IdsInRange, BoundsAssumption DEF ProposeFinal, ProposalId
    <3>3. CASE p = lastProposal + 1
      BY <2>1, <3>2, <3>3 DEF ProposeFinal
    <3>4. CASE p # lastProposal + 1
      <4>1. proposal[p].status # "none" /\ proposal[p] \in
              [session : Sessions, turn : TurnId \cup {NoTurn}, rev : 0..MaxRevision,
               status : {"none", "pending", "accepted", "superseded"}]
        BY <3>2, <3>4 DEF SessionsAreOfDrafts, TypeOK, TablesType
      <4>2. \/ proposal'[p] = proposal[p]
            \/ proposal'[p] = [proposal[p] EXCEPT !.status = "superseded"]
        BY <2>1, <3>2, <3>4 DEF ProposeFinal
      <4> QED BY <4>1, <4>2
    <3> QED BY <3>3, <3>4
  <2>2. ASSUME NEW a \in ProposalId, AcceptProposal(a)
        PROVE  \A p \in 1..lastProposal' : proposal'[p].status # "none"
    BY <2>2, IdsInRange DEF AcceptProposal, SessionsAreOfDrafts, TypeOK, TablesType
  <2>3. ASSUME UNCHANGED <<proposal, lastProposal>>
        PROVE  \A p \in 1..lastProposal' : proposal'[p].status # "none"
    BY <2>3 DEF SessionsAreOfDrafts
  <2>4. \/ \E r \in Requests : ProposeFinal(r)
        \/ \E p \in ProposalId : AcceptProposal(p)
        \/ UNCHANGED <<proposal, lastProposal>>
    BY RowSteps DEF StartTurn, EndsTurn, rows
  <2> QED BY <2>1, <2>2, <2>3, <2>4
<1> QED BY <1>1, <1>2 DEF SessionsAreOfDrafts

-----------------------------------------------------------------------------
(***************************************************************************)
(* The theorems.                                                           *)
(***************************************************************************)
LEMMA InitInd == Init => IndInv
<1> SUFFICES ASSUME Init PROVE IndInv
  OBVIOUS
<1>1. TypeOK
  BY InitType
<1>2. /\ RowsFollowCounter /\ HoldersHaveRows /\ FinishersKnowTheirEnd
      /\ WorkingIsLatest
  BY DEF Init, RowsFollowCounter, HoldersHaveRows, FinishersKnowTheirEnd, WorkingIsLatest,
         Owning, Streaming, Finishing, TurnId
<1>3. ProposalsHaveTurns /\ ProposalsFollowTurns /\ PendingIsLatest
  BY DEF Init, ProposalsHaveTurns, ProposalsFollowTurns, PendingIsLatest
<1>4. NoHangingTurn /\ WrittenEndsStay /\ StatusPartSettles
  BY DEF Init, NoHangingTurn, WrittenEndsStay, StatusPartSettles
<1>5. SessionsAreOfDrafts
  BY DEF Init, SessionsAreOfDrafts
<1> QED BY <1>1, <1>2, <1>3, <1>4, <1>5 DEF IndInv

LEMMA NextInd == IndInv /\ [Next]_vars => IndInv'
<1> SUFFICES ASSUME IndInv, [Next]_vars PROVE IndInv'
  OBVIOUS
<1>1. TypeOK'
  BY NextType DEF IndInv
<1>2. RowsInv'
  BY <1>1, NextRows DEF IndInv, RowsInv
<1>3. HoldersHaveRows' /\ FinishersKnowTheirEnd'
  BY NextHolders DEF IndInv
<1>4. Settling'
  BY NextSettling DEF IndInv, RowsInv, Settling
<1>5. SessionsAreOfDrafts'
  BY NextDrafts DEF IndInv
<1> QED BY <1>1, <1>2, <1>3, <1>4, <1>5 DEF IndInv, RowsInv, Settling

\* The inductive invariant holds of every behaviour, whatever the number of
\* sessions, requests, stop and archive requests, faults and rows.
THEOREM IndInvHolds == Spec => []IndInv
BY InitInd, NextInd, PTL DEF Spec

\* Every variable keeps its type.
THEOREM TypeOKHolds == Spec => []TypeOK
<1>1. IndInv => TypeOK
  BY DEF IndInv
<1> QED BY <1>1, IndInvHolds, PTL

\* A session never has two turns in progress: startGenerationTurn's re-check in
\* its transaction is enough, although turns are ended by two writers that do
\* not look at each other.
THEOREM OneWorkingTurnHolds == Spec => []OneWorkingTurn
<1>1. IndInv => OneWorkingTurn
  BY BoundsAssumption DEF IndInv, WorkingIsLatest, OneWorkingTurn, TurnId
<1> QED BY <1>1, IndInvHolds, PTL

\* A session's proposals follow the order of its turns, one for each turn.
THEOREM ProposalsFollowTurnsHolds == Spec => []ProposalsFollowTurns
<1>1. IndInv => ProposalsFollowTurns
  BY DEF IndInv
<1> QED BY <1>1, IndInvHolds, PTL

\* Only the latest proposal of a session can be pending.
THEOREM PendingIsLatestHolds == Spec => []PendingIsLatest
<1>1. IndInv => PendingIsLatest
  BY DEF IndInv
<1> QED BY <1>1, IndInvHolds, PTL

\* Without faults no turn is left in progress without a stream.
THEOREM NoHangingTurnHolds == Spec => []NoHangingTurn
<1>1. IndInv => NoHangingTurn
  BY DEF IndInv
<1> QED BY <1>1, IndInvHolds, PTL

\* Without faults the status part settles on whether the turn is in progress.
THEOREM StatusPartSettlesHolds == Spec => []StatusPartSettles
<1>1. IndInv => StatusPartSettles
  BY DEF IndInv
<1> QED BY <1>1, IndInvHolds, PTL

\* An ended turn stays ended, and gets no proposal any more.
THEOREM EndedTurnIsOverHolds == Spec => EndedTurnIsOver
<1>1. IndInv /\ [Next]_vars => [KeepsEndedTurns]_vars
  <2> SUFFICES ASSUME IndInv, [Next]_vars,
                      NEW t \in TurnId, turn[t].status \in Terminal
               PROVE  /\ turn'[t].status \in Terminal
                      /\ \A p \in 1..lastProposal' :
                           proposal'[p].turn = t => p <= lastProposal
    BY DEF KeepsEndedTurns
  <2> USE DEF IndInv
  <2>1. ASSUME NEW r \in Requests, StartTurn(r)
        PROVE  turn'[t].status \in Terminal /\ UNCHANGED lastProposal
    <3>1. t # lastTurn + 1
      BY IdsInRange DEF RowsFollowCounter, Terminal
    <3> QED BY <2>1, <3>1 DEF StartTurn, TypeOK, TablesType
  <2>2. ASSUME NEW r \in Requests, ProposeFinal(r)
        PROVE  /\ UNCHANGED turn /\ lastProposal' = lastProposal + 1
               /\ proposal'[lastProposal + 1].turn # t
    <3>1. turnOf[r] # t
      BY <2>2 DEF ProposeFinal, MayPropose, Terminal
    <3>2. lastProposal + 1 \in ProposalId
      BY <2>2, BoundsAssumption, IdsInRange DEF ProposeFinal, ProposalId
    <3> QED BY <2>2, <3>1, <3>2 DEF ProposeFinal
  <2>3. ASSUME NEW a \in ProposalId, AcceptProposal(a)
        PROVE  UNCHANGED <<turn, lastProposal>>
    BY <2>3 DEF AcceptProposal
  <2>4. ASSUME NEW u \in 1..lastTurn, EndsTurn(u)
        PROVE  turn'[t].status \in Terminal /\ UNCHANGED lastProposal
    BY <2>4 DEF EndsTurn, TypeOK, TablesType
  <2>5. CASE UNCHANGED rows
    BY <2>5, IdsInRange DEF rows
  <2> QED BY <2>1, <2>2, <2>3, <2>4, <2>5, RowSteps, IdsInRange
<1> QED BY <1>1, IndInvHolds, PTL DEF Spec, EndedTurnIsOver

-----------------------------------------------------------------------------
(***************************************************************************)
(* GenerationTurns implements TurnExclusion: every step of the engine and  *)
(* of the routes is a step of the abstract specification or a stutter.     *)
(***************************************************************************)
\* The abstract state, in the variables of GenerationTurns.
absActive ==
  [s \in Sessions |-> {t \in TurnId : turn[t].session = s /\ turn[t].status = "working"}]
absAnswered == {proposal[p].turn : p \in 1..lastProposal}
absPreview ==
  [s \in Sessions |-> {proposal[p].turn : p \in
    {q \in 1..lastProposal : proposal[q].session = s /\ proposal[q].status = "pending"}}]
absVars == <<lastTurn, absActive, absAnswered, absPreview>>

LEMMA InitRefines == Init => Exclusion!Init
BY DEF Init, Exclusion!Init

\* A start begins a turn.
LEMMA StartRefines ==
  ASSUME IndInv, NEW r \in Requests, NEW s \in Sessions, s = sessionOf[r], StartTurn(r)
  PROVE  Exclusion!Begin(s)
<1> DEFINE n == lastTurn + 1
<1>1. /\ s \in Sessions /\ n \in TurnId /\ lastTurn < MaxTurn /\ lastTurn' = n
      /\ UNCHANGED <<proposal, lastProposal>>
      /\ turn' = [turn EXCEPT ![n] = [session |-> s, status |-> "working"]]
  BY BoundsAssumption DEF StartTurn, IndInv, TypeOK, TablesType, StreamsType, TurnId
<1>2. turn[n].status = "none"
  BY <1>1, IdsInRange DEF IndInv, RowsFollowCounter
<1>3. absActive[s] = {}
  BY <1>1 DEF absActive, StartTurn, HasWorkingTurn
<1>4. absActive' = [absActive EXCEPT ![s] = {n}]
  <2>1. ASSUME NEW u \in Sessions
        PROVE  absActive'[u] = IF u = s THEN {n} ELSE absActive[u]
    <3>1. ASSUME NEW t \in TurnId
          PROVE  turn'[t] = IF t = n THEN [session |-> s, status |-> "working"] ELSE turn[t]
      BY <1>1 DEF IndInv, TypeOK, TablesType
    <3>2. absActive'[u] =
            {t \in TurnId : turn'[t].session = u /\ turn'[t].status = "working"}
      BY DEF absActive
    <3>3. CASE u = s
      <4>1. \A t \in TurnId :
              turn[t].session = s /\ turn[t].status = "working" <=> t \in absActive[s]
        BY <1>1 DEF absActive
      <4> QED BY <1>1, <1>3, <3>1, <3>2, <3>3, <4>1
    <3>4. CASE u # s
      BY <1>2, <3>1, <3>2, <3>4 DEF absActive
    <3> QED BY <3>3, <3>4
  <2> QED BY <2>1, <1>1 DEF absActive
<1> QED
  BY <1>1, <1>3, <1>4 DEF Exclusion!Begin, absActive

\* createGenerationProposal submits the proposal of the turn in progress and
\* replaces the preview of its session.
LEMMA ProposeRefines ==
  ASSUME IndInv, NEW r \in Requests, NEW s \in Sessions, s = sessionOf[r], ProposeFinal(r)
  PROVE  Exclusion!Propose(s)
<1> DEFINE t == turnOf[r]
           n == lastProposal + 1
<1>1. /\ s \in Sessions /\ t \in TurnId
      /\ turn[t].session = s /\ turn[t].status = "working"
      /\ UNCHANGED <<turn, lastTurn>>
  BY IdsInRange DEF ProposeFinal, MayPropose, IndInv, TypeOK, StreamsType, HoldersHaveRows,
     Owning, Streaming
<1>2. /\ n \in ProposalId /\ lastProposal' = n
      /\ 1..lastProposal' = 1..lastProposal \cup {n} /\ n \notin 1..lastProposal
  BY BoundsAssumption, IdsInRange DEF ProposeFinal, IndInv, ProposalId
<1>3. /\ proposal'[n].session = s /\ proposal'[n].turn = t
      /\ proposal'[n].status = "pending"
  BY <1>2 DEF ProposeFinal
<1>4. ASSUME NEW p \in 1..lastProposal
      PROVE  /\ proposal'[p].session = proposal[p].session
             /\ proposal'[p].turn = proposal[p].turn
             /\ proposal'[p].status = "pending" <=>
                  proposal[p].status = "pending" /\ proposal[p].session # s
  <2>1. p \in ProposalId /\ p # n
    BY <1>2, IdsInRange DEF IndInv
  <2>2. proposal'[p] = IF Supersedes(s, p)
                        THEN [proposal[p] EXCEPT !.status = "superseded"]
                        ELSE proposal[p]
    BY <2>1 DEF ProposeFinal
  <2> QED BY <2>1, <2>2 DEF Supersedes, IndInv, TypeOK, TablesType
<1>5. t \in absActive[s] \ absAnswered
  BY <1>1 DEF absActive, absAnswered, ProposeFinal, MayPropose, NoProposalOf
<1>6. absAnswered' = absAnswered \cup {t}
  BY <1>2, <1>3, <1>4 DEF absAnswered
<1>7. absPreview' = [absPreview EXCEPT ![s] = {t}]
  <2>1. ASSUME NEW u \in Sessions
        PROVE  absPreview'[u] = IF u = s THEN {t} ELSE absPreview[u]
    <3>1. absPreview'[u] = {proposal'[p].turn : p \in
            {q \in 1..lastProposal' : proposal'[q].session = u /\ proposal'[q].status = "pending"}}
      BY DEF absPreview
    <3>2. CASE u = s
      <4>1. {q \in 1..lastProposal' : proposal'[q].session = u /\ proposal'[q].status = "pending"}
              = {n}
        BY <1>2, <1>3, <1>4, <3>2
      <4> QED BY <1>3, <3>1, <3>2, <4>1
    <3>3. CASE u # s
      <4>1. {q \in 1..lastProposal' : proposal'[q].session = u /\ proposal'[q].status = "pending"}
            = {q \in 1..lastProposal : proposal[q].session = u /\ proposal[q].status = "pending"}
        BY <1>2, <1>3, <1>4, <3>3
      <4> QED BY <1>4, <3>1, <3>3, <4>1 DEF absPreview
    <3> QED BY <3>2, <3>3
  <2> QED BY ZenonT(40), <2>1, <1>1 DEF absPreview
<1>8. absActive' = absActive
  BY <1>1 DEF absActive
<1> QED
  BY <1>1, <1>5, <1>6, <1>7, <1>8 DEF Exclusion!Propose, absActive, absAnswered, absPreview

\* An acceptance takes the preview, or repeats one made before.
LEMMA AcceptRefines ==
  ASSUME IndInv, NEW a \in ProposalId, NEW s \in Sessions, s = proposal[a].session,
         AcceptProposal(a)
  PROVE  Exclusion!Accept(s) \/ UNCHANGED absVars
<1>1. /\ a \in 1..lastProposal /\ s \in Sessions
      /\ UNCHANGED <<turn, lastTurn, lastProposal>>
      /\ proposal' = [proposal EXCEPT ![a].status = "accepted"]
  BY IdsInRange DEF AcceptProposal, IndInv, TypeOK, TablesType, ProposalId
<1>2. ASSUME NEW p \in 1..lastProposal
      PROVE  /\ proposal'[p].session = proposal[p].session
             /\ proposal'[p].turn = proposal[p].turn
             /\ proposal'[p].status = "pending" <=> proposal[p].status = "pending" /\ p # a
  BY <1>1, IdsInRange DEF IndInv, TypeOK, TablesType
<1>3. UNCHANGED <<absActive, absAnswered>>
  BY <1>1, <1>2 DEF absActive, absAnswered
<1>4. \A u \in Sessions : absPreview'[u] = {proposal[p].turn : p \in
        {q \in 1..lastProposal : /\ proposal[q].session = u
                                 /\ proposal[q].status = "pending" /\ q # a}}
  <2> SUFFICES ASSUME NEW u \in Sessions
               PROVE  absPreview'[u] = {proposal[p].turn : p \in
                        {q \in 1..lastProposal : /\ proposal[q].session = u
                                                 /\ proposal[q].status = "pending" /\ q # a}}
    OBVIOUS
  <2>1. {q \in 1..lastProposal' : proposal'[q].session = u /\ proposal'[q].status = "pending"}
        = {q \in 1..lastProposal : /\ proposal[q].session = u
                                   /\ proposal[q].status = "pending" /\ q # a}
    BY <1>1, <1>2
  <2>2. absPreview'[u] = {proposal'[p].turn : p \in
          {q \in 1..lastProposal' : proposal'[q].session = u /\ proposal'[q].status = "pending"}}
    BY DEF absPreview
  <2> QED BY <1>2, <2>1, <2>2
<1>5. CASE proposal[a].status = "pending"
  <2>1. \A q \in 1..lastProposal :
          proposal[q].session = s /\ proposal[q].status = "pending" => q = a
    BY <1>1, <1>5, IdsInRange DEF IndInv, PendingIsLatest
  <2>2. absPreview[s] # {}
    BY <1>1, <1>5 DEF absPreview
  <2>3. ASSUME NEW u \in Sessions
        PROVE  absPreview'[u] = IF u = s THEN {} ELSE absPreview[u]
    <3>1. CASE u = s
      <4>1. {q \in 1..lastProposal : /\ proposal[q].session = u
                                     /\ proposal[q].status = "pending" /\ q # a} = {}
        BY <2>1, <3>1
      <4> QED BY <1>4, <3>1, <4>1
    <3>2. CASE u # s
      <4>1. {q \in 1..lastProposal : /\ proposal[q].session = u
                                     /\ proposal[q].status = "pending" /\ q # a}
            = {q \in 1..lastProposal : proposal[q].session = u /\ proposal[q].status = "pending"}
        BY <3>2
      <4> QED BY <1>4, <3>2, <4>1 DEF absPreview
    <3> QED BY <3>1, <3>2
  <2>4. absPreview' = [absPreview EXCEPT ![s] = {}]
    BY <2>3, <1>1 DEF absPreview
  <2> QED
    BY <1>1, <1>3, <2>2, <2>4 DEF Exclusion!Accept, absActive, absAnswered, absPreview
<1>6. CASE proposal[a].status # "pending"
  <2>1. \A u \in Sessions : absPreview'[u] = absPreview[u]
    BY SMTT(20), <1>4, <1>6 DEF absPreview
  <2>2. absPreview' = absPreview
    BY <2>1 DEF absPreview
  <2> QED BY <1>1, <1>3, <2>2 DEF absVars
<1> QED BY <1>5, <1>6

\* An end releases the session, or rewrites the row of a turn that had ended.
LEMMA EndRefines ==
  ASSUME IndInv, NEW t \in TurnId, NEW s \in Sessions, s = turn[t].session, EndsTurn(t)
  PROVE  Exclusion!End(s) \/ UNCHANGED absVars
<1>1. /\ t \in TurnId /\ s \in Sessions
      /\ UNCHANGED <<lastTurn, proposal, lastProposal>>
  BY IdsInRange DEF EndsTurn, IndInv, TypeOK, TablesType
<1>2. ASSUME NEW u \in TurnId
      PROVE  /\ turn'[u].session = turn[u].session
             /\ turn'[u].status = "working" <=> turn[u].status = "working" /\ u # t
  BY <1>1 DEF EndsTurn, Terminal, IndInv, TypeOK, TablesType
<1>3. UNCHANGED <<absAnswered, absPreview>>
  BY <1>1 DEF absAnswered, absPreview
<1>4. \A u \in Sessions : absActive'[u] =
        {v \in TurnId : turn[v].session = u /\ turn[v].status = "working" /\ v # t}
  BY <1>2 DEF absActive
<1>5. CASE turn[t].status = "working"
  <2>1. \A v \in TurnId : turn[v].session = s /\ turn[v].status = "working" => v = t
    BY <1>1, <1>5, BoundsAssumption DEF IndInv, WorkingIsLatest, TurnId
  <2>2. absActive[s] # {}
    BY <1>1, <1>5 DEF absActive
  <2>3. ASSUME NEW u \in Sessions
        PROVE  absActive'[u] = IF u = s THEN {} ELSE absActive[u]
    BY <1>4, <2>1 DEF absActive
  <2>4. absActive' = [absActive EXCEPT ![s] = {}]
    BY <2>3, <1>1 DEF absActive
  <2> QED
    BY <1>1, <1>3, <2>2, <2>4 DEF Exclusion!End, absActive, absAnswered, absPreview
<1>6. CASE turn[t].status # "working"
  <2>1. \A u \in Sessions : absActive'[u] = absActive[u]
    BY <1>4, <1>6 DEF absActive
  <2>2. absActive' = absActive
    BY <2>1 DEF absActive
  <2> QED BY <1>1, <1>3, <2>2 DEF absVars
<1> QED BY <1>5, <1>6

\* Every step of the engine is a step of TurnExclusion or leaves its state alone.
LEMMA NextRefines ==
  ASSUME IndInv, [Next]_vars
  PROVE  [Exclusion!Next]_absVars
<1>1. ASSUME NEW r \in Requests, StartTurn(r) \/ ProposeFinal(r)
      PROVE  Exclusion!Next
  <2>1. PICK s \in Sessions : s = sessionOf[r]
    BY DEF IndInv, TypeOK, StreamsType
  <2>2. Exclusion!Begin(s) \/ Exclusion!Propose(s)
    BY <1>1, <2>1, StartRefines, ProposeRefines
  <2> QED BY <2>2 DEF Exclusion!Next
<1>2. ASSUME NEW a \in ProposalId, AcceptProposal(a)
      PROVE  Exclusion!Next \/ UNCHANGED absVars
  <2>1. PICK s \in Sessions : s = proposal[a].session
    BY DEF IndInv, TypeOK, TablesType
  <2>2. Exclusion!Accept(s) \/ UNCHANGED absVars
    BY <1>2, <2>1, AcceptRefines
  <2> QED BY <2>2 DEF Exclusion!Next
<1>3. ASSUME NEW t \in TurnId, EndsTurn(t)
      PROVE  Exclusion!Next \/ UNCHANGED absVars
  <2>1. PICK s \in Sessions : s = turn[t].session
    BY DEF IndInv, TypeOK, TablesType
  <2>2. Exclusion!End(s) \/ UNCHANGED absVars
    BY <1>3, <2>1, EndRefines
  <2> QED BY <2>2 DEF Exclusion!Next
<1>4. CASE UNCHANGED rows
  BY <1>4 DEF rows, absVars, absActive, absAnswered, absPreview
<1>5. \/ \E r \in Requests : StartTurn(r) \/ ProposeFinal(r)
      \/ \E p \in ProposalId : AcceptProposal(p)
      \/ \E t \in TurnId : EndsTurn(t)
      \/ UNCHANGED rows
  BY RowSteps, IdsInRange DEF IndInv
<1> QED BY <1>1, <1>2, <1>3, <1>4, <1>5, Zenon

\* The engine and its routes keep what TurnExclusion promises: one turn at a time
\* holds a session, only its holder proposes and only once, the latest proposal
\* is the one under review.
THEOREM Refinement == Spec => ImplementsExclusion
<1>1. Init => Exclusion!Init
  BY InitRefines
<1>2. IndInv /\ [Next]_vars => [Exclusion!Next]_Exclusion!exclusionVars
  BY NextRefines DEF absVars, absActive, absAnswered, absPreview, Exclusion!exclusionVars
<1> QED
  BY <1>1, <1>2, IndInvHolds, PTL DEF Spec, ImplementsExclusion, Exclusion!Spec

-----------------------------------------------------------------------------
(***************************************************************************)
(* GenerationTurns implements SessionReview: seen without its turns, a     *)
(* session is proposed to, reviewed and outdated as ReportVariants takes   *)
(* for granted.                                                            *)
(***************************************************************************)
revCurrent == {s \in Sessions : SourceIsCurrent(s)}
revPending == [s \in Sessions |-> ProposalsOf(s, "pending")]
revAccepted == [s \in Sessions |-> ProposalsOf(s, "accepted")]
revVars == <<Sessions, revCurrent, lastProposal, revPending, revAccepted>>

\* Only a regeneration changes which sessions are of the report's draft.
LEMMA CurrentStays ==
  ASSUME TypeOK, [Next]_vars, ~RegenerateSource
  PROVE  revCurrent' = revCurrent
BY DraftSteps DEF revCurrent, SourceIsCurrent

LEMMA InitReviews == Init => Review!Init
<1> SUFFICES ASSUME Init PROVE Review!Init
  OBVIOUS
<1>1. 1..lastProposal = {}
  BY DEF Init
<1>2. \A s \in Sessions : ProposalsOf(s, "pending") = {} /\ ProposalsOf(s, "accepted") = {}
  BY <1>1 DEF ProposalsOf
<1>3. lastProposal = 0 /\ {s \in Sessions : SourceIsCurrent(s)} \subseteq Sessions
  BY DEF Init
<1> QED BY <1>2, <1>3 DEF Review!Init

\* createGenerationProposal puts the new proposal under review in place of the
\* one there was.
LEMMA ProposeReviews ==
  ASSUME IndInv, [Next]_vars, NEW r \in Requests, NEW s \in Sessions, s = sessionOf[r],
         ProposeFinal(r)
  PROVE  Review!Propose(s)
<1> DEFINE n == lastProposal + 1
<1>1. /\ n \in ProposalId /\ lastProposal' = n
      /\ 1..lastProposal' = 1..lastProposal \cup {n} /\ n \notin 1..lastProposal
  BY BoundsAssumption, IdsInRange DEF ProposeFinal, IndInv, ProposalId
<1>2. proposal'[n].session = s /\ proposal'[n].status = "pending"
  BY <1>1 DEF ProposeFinal
<1>3. ASSUME NEW p \in 1..lastProposal
      PROVE  /\ proposal'[p].session = proposal[p].session
             /\ proposal'[p].status = IF Supersedes(s, p) THEN "superseded"
                                                          ELSE proposal[p].status
  <2>1. p \in ProposalId /\ p # n
    BY <1>1, IdsInRange DEF IndInv
  <2>2. proposal'[p] = IF Supersedes(s, p)
                        THEN [proposal[p] EXCEPT !.status = "superseded"]
                        ELSE proposal[p]
    BY <2>1 DEF ProposeFinal
  <2> QED BY <2>1, <2>2 DEF IndInv, TypeOK, TablesType
<1>4. s \in revCurrent /\ revCurrent' = revCurrent
  <2>1. UNCHANGED <<revision, session>>
    BY DEF ProposeFinal
  <2>2. SourceIsCurrent(s)
    BY DEF ProposeFinal, MayPropose
  <2> QED BY <2>1, <2>2 DEF revCurrent, SourceIsCurrent
<1>5. ASSUME NEW u \in Sessions
      PROVE  ProposalsOf(u, "pending")' = IF u = s THEN {n} ELSE ProposalsOf(u, "pending")
  BY <1>1, <1>2, <1>3 DEF ProposalsOf, Supersedes
<1>6. ASSUME NEW u \in Sessions
      PROVE  ProposalsOf(u, "accepted")' = ProposalsOf(u, "accepted")
  BY <1>1, <1>2, <1>3 DEF ProposalsOf, Supersedes
<1>7. revPending' = [revPending EXCEPT ![s] = {n}]
  BY <1>5 DEF revPending
<1>8. revAccepted' = revAccepted
  BY <1>6 DEF revAccepted
<1> QED
  BY <1>1, <1>4, <1>7, <1>8 DEF Review!Propose, revCurrent, revPending, revAccepted

\* An acceptance takes the proposal under review, or repeats one made before.
LEMMA AcceptReviews ==
  ASSUME IndInv, NEW a \in ProposalId, NEW s \in Sessions, s = proposal[a].session,
         AcceptProposal(a)
  PROVE  Review!Accept(s) \/ UNCHANGED revVars
<1>1. /\ a \in 1..lastProposal
      /\ proposal[a].status \in {"pending", "accepted"}
      /\ UNCHANGED <<revision, session, lastProposal>>
      /\ proposal' = [proposal EXCEPT ![a].status = "accepted"]
  <2>1. a \in 1..lastProposal
    BY IdsInRange DEF AcceptProposal, IndInv, ProposalId
  <2>2. proposal[a].status # "none"
    BY <2>1 DEF IndInv, SessionsAreOfDrafts
  <2> QED BY <2>1, <2>2 DEF AcceptProposal, IndInv, TypeOK, TablesType
<1>2. ASSUME NEW p \in 1..lastProposal
      PROVE  /\ proposal'[p].session = proposal[p].session
             /\ proposal'[p].status = IF p = a THEN "accepted" ELSE proposal[p].status
  BY <1>1, IdsInRange DEF IndInv, TypeOK, TablesType
<1>3. s \in revCurrent /\ revCurrent' = revCurrent
  BY <1>1 DEF AcceptProposal, revCurrent, SourceIsCurrent
<1>4. CASE proposal[a].status = "pending"
  <2>1. ASSUME NEW u \in Sessions
        PROVE  /\ ProposalsOf(u, "pending")' =
                     IF u = s THEN ProposalsOf(s, "pending") \ {a} ELSE ProposalsOf(u, "pending")
               /\ ProposalsOf(u, "accepted")' =
                     IF u = s THEN ProposalsOf(s, "accepted") \cup {a}
                              ELSE ProposalsOf(u, "accepted")
    BY <1>1, <1>2, <1>4 DEF ProposalsOf
  <2>2. a \in revPending[s]
    BY <1>1, <1>4 DEF revPending, ProposalsOf
  <2>3. revPending' = [revPending EXCEPT ![s] = @ \ {a}]
    BY <2>1 DEF revPending
  <2>4. revAccepted' = [revAccepted EXCEPT ![s] = @ \cup {a}]
    BY <2>1 DEF revAccepted
  <2> QED
    BY <1>1, <1>3, <2>2, <2>3, <2>4 DEF Review!Accept, revCurrent, revPending, revAccepted
<1>5. CASE proposal[a].status = "accepted"
  <2>1. \A u \in Sessions : /\ ProposalsOf(u, "pending")' = ProposalsOf(u, "pending")
                            /\ ProposalsOf(u, "accepted")' = ProposalsOf(u, "accepted")
    BY <1>1, <1>2, <1>5 DEF ProposalsOf
  <2> QED BY <1>1, <1>3, <2>1 DEF revVars, revPending, revAccepted
<1> QED BY <1>1, <1>4, <1>5

\* A regeneration puts an end to every session: none is of the next draft.
LEMMA RegenerateReviews ==
  ASSUME IndInv, RegenerateSource
  PROVE  Review!Redraft
<1>1. revision \in Nat /\ \A s \in Sessions : session[s].rev \in Nat /\ session[s].rev <= revision
  BY BoundsAssumption DEF IndInv, TypeOK, TablesType, SessionsAreOfDrafts
<1>2. revCurrent' = {}
  BY <1>1 DEF RegenerateSource, revCurrent, SourceIsCurrent
<1>3. UNCHANGED <<lastProposal, revPending, revAccepted>>
  BY DEF RegenerateSource, revPending, revAccepted, ProposalsOf
<1> QED
  BY <1>2, <1>3 DEF Review!Redraft, revCurrent, revPending, revAccepted

\* Every step of the engine is a step of SessionReview or leaves its state alone.
LEMMA NextReviews ==
  ASSUME IndInv, [Next]_vars
  PROVE  [Review!Next]_revVars
<1>1. ASSUME NEW r \in Requests, ProposeFinal(r)
      PROVE  Review!Next
  <2>1. PICK s \in Sessions : s = sessionOf[r]
    BY DEF IndInv, TypeOK, StreamsType
  <2> QED BY <1>1, <2>1, ProposeReviews DEF Review!Next
<1>2. ASSUME NEW a \in ProposalId, AcceptProposal(a)
      PROVE  Review!Next \/ UNCHANGED revVars
  <2>1. PICK s \in Sessions : s = proposal[a].session
    BY DEF IndInv, TypeOK, TablesType
  <2>2. Review!Accept(s) \/ UNCHANGED revVars
    BY <1>2, <2>1, AcceptReviews
  <2> QED BY <2>2 DEF Review!Next
<1>3. CASE RegenerateSource
  BY <1>3, RegenerateReviews DEF Review!Next
<1>4. ASSUME UNCHANGED <<proposal, lastProposal>>, ~RegenerateSource
      PROVE  UNCHANGED revVars
  BY <1>4, CurrentStays DEF IndInv, revVars, revPending, revAccepted, ProposalsOf
<1>5. \/ \E r \in Requests : ProposeFinal(r)
      \/ \E p \in ProposalId : AcceptProposal(p)
      \/ UNCHANGED <<proposal, lastProposal>>
  BY RowSteps DEF IndInv, StartTurn, EndsTurn, rows
<1> QED BY <1>1, <1>2, <1>3, <1>4, <1>5, Zenon

\* Seen without its turns, a session keeps what SessionReview promises: proposals
\* only while its draft is the report's, the newest one under review, acceptances
\* for good, and nothing more after a redraft.
THEOREM ReviewRefinement == Spec => ImplementsReview
<1>1. IndInv /\ [Next]_vars => [Review!Next]_(Review!reviewVars)
  BY NextReviews DEF revVars, revCurrent, revPending, revAccepted, Review!reviewVars
<1> QED
  BY <1>1, InitReviews, IndInvHolds, PTL DEF Spec, ImplementsReview, Review!Spec

\* Both views of the sessions are kept.
THEOREM Implementation == Spec => Implements
BY Refinement, ReviewRefinement DEF Implements
=============================================================================
