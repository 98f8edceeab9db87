--------------------------- MODULE AudienceFinals ---------------------------
(***************************************************************************)
(* What the report variants promise a reader: two audiences share source   *)
(* revisions; a redraft keeps every final and makes it stale; a            *)
(* publication sets the final of one audience and makes it fresh; and only *)
(* the end of the report takes finals away.                                *)
(***************************************************************************)
EXTENDS Integers

CONSTANTS Audiences, NoText

VARIABLES
  revision,       \* the source revision of the report; 0 before the first
  final,          \* the final of each audience, or NoText
  fresh           \* audiences whose final reflects the revision it was saved at

vars == <<revision, final, fresh>>

Init ==
  /\ revision = 0
  /\ final = [a \in Audiences |-> NoText]
  /\ fresh = {}

\* The source draft of every audience is rewritten.
Redraft ==
  /\ revision' = revision + 1
  /\ fresh' = {}
  /\ UNCHANGED final

\* The final of one audience is replaced.
Publish(a) ==
  /\ revision > 0
  /\ final'[a] # NoText
  /\ final' = [final EXCEPT ![a] = final'[a]]
  /\ fresh' = fresh \cup {a}
  /\ UNCHANGED revision

\* The report is deleted.
Withdraw ==
  /\ revision' = 0
  /\ final' = [a \in Audiences |-> NoText]
  /\ fresh' = {}

Next == Redraft \/ (\E a \in Audiences : Publish(a)) \/ Withdraw

Spec == Init /\ [][Next]_vars
=============================================================================
