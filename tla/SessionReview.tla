--------------------------- MODULE SessionReview ----------------------------
(***************************************************************************)
(* What the turns of a generation session and the variants of its report   *)
(* take for granted of each other: a session is opened once, on the draft  *)
(* of the moment or an older one; while its draft is the report's it gets  *)
(* proposals, the newest of which is under review until it is accepted; a  *)
(* redraft puts an end to that for good; and only the end of the report    *)
(* takes proposals away.  GenerationTurns, which has no report, and        *)
(* ReportVariants, which has no turns, are both shown to implement this.   *)
(***************************************************************************)
EXTENDS Integers

CONSTANT Sessions

VARIABLES
  opened,     \* sessions there are or were
  current,    \* those whose draft is the one of the report
  last,       \* number of proposals made so far, the latest proposal
  pending,    \* the proposals under review in each session
  accepted    \* the proposals accepted in each session

reviewVars == <<opened, current, last, pending, accepted>>

Init ==
  /\ opened \subseteq Sessions
  /\ current \subseteq opened
  /\ last = 0
  /\ pending = [s \in Sessions |-> {}]
  /\ accepted = [s \in Sessions |-> {}]

Open(s) ==
  /\ s \notin opened
  /\ opened' = opened \union {s}
  /\ current' = current \/ current' = current \union {s}
  /\ UNCHANGED <<last, pending, accepted>>

Propose(s) ==
  /\ s \in current
  /\ last' = last + 1
  /\ pending' = [pending EXCEPT ![s] = {last + 1}]
  /\ UNCHANGED <<opened, current, accepted>>

Accept(s) ==
  /\ s \in current
  /\ \E p \in pending[s] :
       /\ pending' = [pending EXCEPT ![s] = @ \ {p}]
       /\ accepted' = [accepted EXCEPT ![s] = @ \union {p}]
  /\ UNCHANGED <<opened, current, last>>

\* The source draft is rewritten.
Redraft ==
  /\ current' = {}
  /\ UNCHANGED <<opened, last, pending, accepted>>

\* The report is deleted.
Withdraw ==
  /\ current' = {}
  /\ pending' = [s \in Sessions |-> {}]
  /\ accepted' = [s \in Sessions |-> {}]
  /\ UNCHANGED <<opened, last>>

Next ==
  \/ \E s \in Sessions : Open(s) \/ Propose(s) \/ Accept(s)
  \/ Redraft \/ Withdraw

Spec == Init /\ [][Next]_reviewVars
=============================================================================
