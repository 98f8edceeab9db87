--------------------------- MODULE TurnExclusion ---------------------------
(***************************************************************************)
(* What a generation session promises about its turns: one turn at a time  *)
(* holds the session, only the holder may submit a proposal and only once, *)
(* and the latest proposal replaces the preview under review.  Streams,    *)
(* stop requests, statements and crashes do not appear: GenerationTurns is *)
(* shown to implement this.                                                *)
(***************************************************************************)
EXTENDS Integers

CONSTANTS Sessions, MaxTurn

VARIABLES
  begun,      \* number of turns begun so far, the latest turn
  active,     \* the turns holding each session
  answered,   \* turns that have submitted their proposal
  preview     \* the turns whose proposal is under review in each session

exclusionVars == <<begun, active, answered, preview>>

Init ==
  /\ begun = 0
  /\ active = [s \in Sessions |-> {}]
  /\ answered = {}
  /\ preview = [s \in Sessions |-> {}]

Begin(s) ==
  /\ active[s] = {}
  /\ begun < MaxTurn
  /\ begun' = begun + 1
  /\ active' = [active EXCEPT ![s] = {begun + 1}]
  /\ UNCHANGED <<answered, preview>>

Propose(s) ==
  \E t \in active[s] \ answered :
    /\ answered' = answered \cup {t}
    /\ preview' = [preview EXCEPT ![s] = {t}]
    /\ UNCHANGED <<begun, active>>

Accept(s) ==
  /\ preview[s] # {}
  /\ preview' = [preview EXCEPT ![s] = {}]
  /\ UNCHANGED <<begun, active, answered>>

End(s) ==
  /\ active[s] # {}
  /\ active' = [active EXCEPT ![s] = {}]
  /\ UNCHANGED <<begun, answered, preview>>

Next == \E s \in Sessions : Begin(s) \/ Propose(s) \/ Accept(s) \/ End(s)

Spec == Init /\ [][Next]_exclusionVars
=============================================================================
