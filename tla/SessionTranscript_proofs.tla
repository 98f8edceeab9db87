---------------------- MODULE SessionTranscript_proofs ----------------------
(***************************************************************************)
(* Proofs about SessionTranscript, for any number of turns, pieces, notes  *)
(* and faults: IndInv is inductive, and the invariants and the action      *)
(* property that the run checks follow from it.  A step that leaves alone  *)
(* what a part of the invariant speaks of keeps that part (the ...Kept     *)
(* conditions, and Frame); what is left of an action is the part it is     *)
(* about.                                                                  *)
(***************************************************************************)
EXTENDS SessionTranscript, TLAPS

USE DEF At, rows

LEMMA HeardFacts ==
  /\ \A h : h \in Heard <=> h \in Seq(1..MaxEvents) /\ Len(h) <= MaxEvents
  /\ <<>> \in Heard
  /\ \A n \in 1..MaxEvents : <<n>> \in Heard
<1>1. MaxEvents \in Nat
  BY TranscriptAssumption
<1>2. ASSUME NEW h, h \in Heard PROVE h \in Seq(1..MaxEvents) /\ Len(h) <= MaxEvents
  <2>1. PICK m \in 0..MaxEvents : h \in [1..m -> 1..MaxEvents]
    BY <1>2 DEF Heard, SeqOf
  <2>2. m \in Nat
    BY <1>1
  <2> QED
    BY <1>1, <2>1, <2>2
<1>3. ASSUME NEW h \in Seq(1..MaxEvents), Len(h) <= MaxEvents PROVE h \in Heard
  <2>1. Len(h) \in 0..MaxEvents /\ h \in [1..Len(h) -> 1..MaxEvents]
    BY <1>1, <1>3
  <2> QED
    BY <2>1 DEF Heard, SeqOf
<1>4. <<>> \in Seq(1..MaxEvents) /\ Len(<<>>) = 0
  OBVIOUS
<1>5. ASSUME NEW n \in 1..MaxEvents PROVE <<n>> \in Heard
  <2>1. <<n>> \in Seq(1..MaxEvents) /\ Len(<<n>>) = 1 /\ 1 <= MaxEvents
    BY <1>1
  <2> QED
    BY <1>3, <2>1
<1>6. <<>> \in Heard
  <2>1. <<>> \in [1..0 -> 1..MaxEvents] /\ 0 \in 0..MaxEvents
    BY <1>1
  <2> QED
    BY <2>1 DEF Heard, SeqOf
<1> QED
  BY <1>2, <1>3, <1>5, <1>6

LEMMA PrefixFacts ==
  ASSUME NEW S, NEW s \in Seq(S), NEW t \in Seq(S)
  PROVE  IsPrefix(s, t) <=> Len(s) <= Len(t) /\ \A i \in 1..Len(s) : s[i] = t[i]
<1>1. Len(s) \in Nat /\ Len(t) \in Nat
  OBVIOUS
<1>2. CASE Len(s) <= Len(t)
  <2> DEFINE a == SubSeq(s, 1, Len(s))
             b == SubSeq(t, 1, Len(s))
  <2>1. /\ a \in Seq(S) /\ Len(a) = Len(s) /\ \A i \in 1..Len(s) : a[i] = s[i]
        /\ b \in Seq(S) /\ Len(b) = Len(s) /\ \A i \in 1..Len(s) : b[i] = t[i]
    BY <1>1, <1>2
  <2> HIDE DEF a, b
  <2>2. a = b <=> \A i \in 1..Len(s) : s[i] = t[i]
    BY SMTT(20), <2>1
  <2> QED
    BY <1>2, <2>2 DEF IsPrefix, a, b
<1> QED
  BY <1>2 DEF IsPrefix

LEMMA PrefixOfItself ==
  ASSUME NEW S, NEW s \in Seq(S)
  PROVE  IsPrefix(s, s)
BY PrefixFacts

LEMMA PrefixGrows ==
  ASSUME NEW S, NEW s \in Seq(S), NEW t \in Seq(S), NEW x \in S, IsPrefix(s, t)
  PROVE  IsPrefix(s, Append(t, x))
<1> DEFINE u == Append(t, x)
<1>1. /\ u \in Seq(S) /\ Len(u) = Len(t) + 1 /\ Len(s) \in Nat /\ Len(t) \in Nat
      /\ \A i \in 1..Len(t) : u[i] = t[i]
  OBVIOUS
<1> HIDE DEF u
<1>2. Len(s) <= Len(t) /\ \A i \in 1..Len(s) : s[i] = t[i]
  BY PrefixFacts
<1>3. Len(s) <= Len(u) /\ \A i \in 1..Len(s) : s[i] = u[i]
  BY <1>1, <1>2
<1>4. IsPrefix(s, u)
  BY <1>1, <1>3, PrefixFacts
<1> QED
  BY <1>4 DEF u

\* A table of parts.
Parts(parts) ==
  /\ parts \in Seq(Part) /\ gone \in 0..Len(parts)
  /\ \A i \in DOMAIN parts : parts[i].of \in OfKind(parts[i].kind) /\ parts[i].sequence = Place(i)

LEMMA NumberedParts ==
  ASSUME NEW parts, Parts(parts)
  PROVE  NextSequence(parts) = Place(Len(parts) + 1) /\ Place(Len(parts) + 1) \in Nat \ {0} /\ Len(parts) \in Nat
<1>0. /\ Len(parts) \in Nat /\ DOMAIN parts = 1..Len(parts) /\ gone \in 0..Len(parts)
      /\ \A i \in 1..Len(parts) : parts[i].sequence = Place(i)
  BY DEF Parts
<1>1. PICK n \in Nat : n = Len(parts) - gone /\ gone \in Nat
  <2>1. Len(parts) - gone \in Nat /\ gone \in Nat
    BY <1>0
  <2> QED
    BY <2>1
<1> DEFINE S == {0} \union SequencesOf(parts)
           Greatest(x) == x \in S /\ \A y \in S : x >= y
<1>2. S = 0..n
  <2>1. SequencesOf(parts) \subseteq 1..n
    BY <1>0, <1>1 DEF SequencesOf, OnRecord, Place
  <2>2. ASSUME NEW v \in 1..n PROVE v \in SequencesOf(parts)
    <3>1. v + gone \in OnRecord(parts) /\ v + gone \in 1..Len(parts)
      BY <1>0, <1>1 DEF OnRecord
    <3>2. Place(v + gone) = v
      BY <1>0, <1>1 DEF Place
    <3> QED
      BY <1>0, <1>1, <3>1, <3>2 DEF SequencesOf
  <2> QED
    BY <1>1, <2>1, <2>2
<1>3. Greatest(n) /\ \A x : Greatest(x) => x = n
  BY <1>1, <1>2
<1>4. Max(S) = n
  <2>1. Max(S) = CHOOSE x : Greatest(x)
    BY DEF Max
  <2> HIDE DEF Greatest
  <2> QED
    BY <1>3, <2>1
<1>5. Place(Len(parts) + 1) = n + 1
  BY <1>0, <1>1 DEF Place
<1> QED
  BY <1>0, <1>1, <1>4, <1>5 DEF LatestSequence, NextSequence

Kinds == {"system", "user", "status", "call", "result", "direct-edit"} \union Writers

\* One part is inserted behind the others.
Extends(new, parts, x) ==
  LET n == Len(parts) + 1
  IN /\ Parts(new)
     /\ n \in Nat /\ Len(new) = n /\ DOMAIN parts = 1..(n - 1) /\ DOMAIN new = 1..n
     /\ \A i \in 1..(n - 1) : new[i] = parts[i]
     /\ new[n] = x

LEMMA Inserted ==
  ASSUME NEW parts, Parts(parts), NEW t \in Turns \union {Session}, NEW kind \in Kinds,
         NEW content \in Heard, NEW of \in OfKind(kind), NEW p \in Nat
  PROVE  Extends(InsertPart(parts, t, kind, content, of, p), parts,
                 [turn |-> t, sequence |-> NextSequence(parts), kind |-> kind, content |-> content,
                  of |-> of, proposal |-> p])
<1> DEFINE n == Len(parts) + 1
           x == [turn |-> t, sequence |-> NextSequence(parts), kind |-> kind, content |-> content,
                 of |-> of, proposal |-> p]
           new == InsertPart(parts, t, kind, content, of, p)
<1>1. new = Append(parts, x) /\ n \in Nat \ {0} /\ NextSequence(parts) = Place(n) /\ NextSequence(parts) \in Nat \ {0}
  BY NumberedParts DEF InsertPart
<1>2. OfKind(kind) \subseteq {"none", "working"} \union Terminal \union Tools
  BY DEF OfKind, Tools, Terminal
<1>3. x \in Part
  BY <1>1, <1>2 DEF Part, Kinds
<1>4. parts \in Seq(Part)
  BY DEF Parts
<1> HIDE DEF x, new
<1>5. /\ new \in Seq(Part) /\ Len(new) = n /\ DOMAIN parts = 1..(n - 1) /\ DOMAIN new = 1..n
      /\ \A i \in 1..(n - 1) : new[i] = parts[i]
      /\ new[n] = x
  BY <1>1, <1>3, <1>4
<1>6. Parts(new)
  <2> SUFFICES ASSUME NEW i \in 1..n PROVE new[i].of \in OfKind(new[i].kind) /\ new[i].sequence = Place(i)
    BY <1>1, <1>5 DEF Parts
  <2>1. CASE i = n
    BY <1>1, <1>5, <2>1 DEF x
  <2>2. CASE i # n
    BY <1>1, <1>5, <2>2 DEF Parts
  <2> QED
    BY <2>1, <2>2
<1> QED
  BY <1>1, <1>5, <1>6 DEF x, new, Extends

\* What may become of a table of parts: it grows at its end, a writer's content
\* grows at its end, and the status of a turn changes.
Grows(old, new) ==
  /\ Len(old) <= Len(new)
  /\ \A i \in 1..Len(old) :
       /\ new[i].turn = old[i].turn /\ new[i].kind = old[i].kind /\ new[i].proposal = old[i].proposal
       /\ IsPrefix(old[i].content, new[i].content)
       /\ old[i].kind \notin Writers => new[i].content = old[i].content
       /\ old[i].kind # "status" => new[i].of = old[i].of

LEMMA PartsFacts ==
  ASSUME NEW parts, Parts(parts)
  PROVE  /\ parts \in Seq(Part) /\ Len(parts) \in Nat /\ DOMAIN parts = 1..Len(parts)
         /\ \A i \in 1..Len(parts) :
              /\ parts[i] \in Part /\ parts[i].content \in Seq(1..MaxEvents)
              /\ parts[i].turn \in Turns \union {Session}
              /\ parts[i].of \in OfKind(parts[i].kind) /\ parts[i].sequence = Place(i)
         /\ gone \in 0..Len(parts)
<1>1. parts \in Seq(Part) /\ Len(parts) \in Nat /\ DOMAIN parts = 1..Len(parts)
  BY DEF Parts
<1>2. \A i \in 1..Len(parts) : parts[i] \in Part
  BY <1>1
<1> QED
  BY <1>1, <1>2, HeardFacts DEF Parts, Part

LEMMA GrowsItself ==
  ASSUME NEW parts, Parts(parts)
  PROVE  Grows(parts, parts)
BY PartsFacts, PrefixOfItself DEF Grows

LEMMA InsertedGrows ==
  ASSUME NEW parts, Parts(parts), NEW new, Parts(new), Len(new) >= Len(parts),
         \A i \in 1..Len(parts) : new[i] = parts[i]
  PROVE  Grows(parts, new)
BY PartsFacts, PrefixOfItself DEF Grows

LEMMA StatusUpdated ==
  ASSUME NEW parts, Parts(parts), NEW t, NEW status \in {"working"} \union Terminal
  PROVE  LET new == UpdateStatusPart(parts, t, status)
         IN  /\ Parts(new) /\ Grows(parts, new) /\ Len(new) = Len(parts)
             /\ \A i \in 1..Len(parts) :
                  /\ new[i].turn = parts[i].turn /\ new[i].kind = parts[i].kind
                  /\ new[i].proposal = parts[i].proposal /\ new[i].content = parts[i].content
                  /\ new[i].of = IF parts[i].kind = "status" /\ parts[i].turn = t
                                   THEN status ELSE parts[i].of
<1> DEFINE new == UpdateStatusPart(parts, t, status)
           n == Len(parts)
<1>1. parts \in Seq(Part) /\ n \in Nat /\ DOMAIN parts = 1..n /\ \A i \in 1..n : parts[i] \in Part
  BY PartsFacts
<1>2. ASSUME NEW i \in 1..n
      PROVE  /\ new[i] \in Part
             /\ new[i].of \in OfKind(new[i].kind) /\ new[i].sequence = Place(i)
             /\ new[i].turn = parts[i].turn /\ new[i].kind = parts[i].kind
             /\ new[i].proposal = parts[i].proposal /\ new[i].content = parts[i].content
             /\ new[i].of = IF parts[i].kind = "status" /\ parts[i].turn = t
                              THEN status ELSE parts[i].of
  <2>1. parts[i] \in Part /\ parts[i].of \in OfKind(parts[i].kind) /\ parts[i].sequence = Place(i)
    BY PartsFacts
  <2>2. CASE parts[i].kind = "status" /\ parts[i].turn = t
    <3>1. new[i] = [parts[i] EXCEPT !.of = status]
      BY <1>1, <2>2 DEF UpdateStatusPart
    <3> QED
      BY <2>1, <2>2, <3>1 DEF Part, OfKind
  <2>3. CASE ~(parts[i].kind = "status" /\ parts[i].turn = t)
    <3>1. new[i] = parts[i]
      BY <1>1, <2>3 DEF UpdateStatusPart
    <3> QED
      BY <2>1, <2>3, <3>1
  <2> QED
    BY <2>2, <2>3
<1>3. new = [i \in 1..n |-> new[i]]
  BY <1>1 DEF UpdateStatusPart
<1> HIDE DEF new
<1>4. new \in Seq(Part) /\ Len(new) = n /\ DOMAIN new = 1..n
  BY <1>1, <1>2, <1>3
<1>5. Parts(new)
  <2>1. gone \in 0..Len(new)
    BY <1>4, PartsFacts
  <2> QED
    BY <1>2, <1>4, <2>1 DEF Parts
<1>6. Grows(parts, new)
  <2>1. \A i \in 1..n : IsPrefix(parts[i].content, parts[i].content)
    BY PartsFacts, PrefixOfItself
  <2> QED
    BY <1>1, <1>2, <1>4, <2>1 DEF Grows
<1> QED
  BY <1>2, <1>4, <1>5, <1>6 DEF new

\* The contents of writers' parts grow.
Rewrite(parts, changed, content) ==
  [i \in DOMAIN parts |-> IF i \in changed THEN [parts[i] EXCEPT !.content = content[i]] ELSE parts[i]]

IsRewritten(new, parts, changed, content) ==
  /\ Parts(new) /\ Grows(parts, new) /\ Len(new) = Len(parts)
  /\ \A i \in 1..Len(parts) :
       /\ new[i].turn = parts[i].turn /\ new[i].kind = parts[i].kind
       /\ new[i].proposal = parts[i].proposal /\ new[i].of = parts[i].of
       /\ new[i].content = IF i \in changed THEN content[i] ELSE parts[i].content

LEMMA ContentsUpdated ==
  ASSUME NEW parts, Parts(parts), NEW changed \in SUBSET (1..Len(parts)),
         NEW content \in [changed -> Heard],
         \A i \in changed : parts[i].kind \in Writers /\ IsPrefix(parts[i].content, content[i])
  PROVE  IsRewritten(Rewrite(parts, changed, content), parts, changed, content)
<1> DEFINE new == Rewrite(parts, changed, content)
           n == Len(parts)
<1>1. parts \in Seq(Part) /\ n \in Nat /\ DOMAIN parts = 1..n /\ \A i \in 1..n : parts[i] \in Part
  BY PartsFacts
<1>2. ASSUME NEW i \in 1..n
      PROVE  /\ new[i] \in Part
             /\ new[i].of = parts[i].of /\ new[i].sequence = Place(i)
             /\ new[i].turn = parts[i].turn /\ new[i].kind = parts[i].kind
             /\ new[i].proposal = parts[i].proposal
             /\ new[i].content = IF i \in changed THEN content[i] ELSE parts[i].content
  <2>1. parts[i] \in Part /\ parts[i].sequence = Place(i)
    BY PartsFacts
  <2>2. CASE i \in changed
    <3>1. new[i] = [parts[i] EXCEPT !.content = content[i]] /\ content[i] \in Heard
      BY <1>1, <2>2 DEF Rewrite
    <3> QED
      BY <2>1, <2>2, <3>1 DEF Part
  <2>3. CASE i \notin changed
    <3>1. new[i] = parts[i]
      BY <1>1, <2>3 DEF Rewrite
    <3> QED
      BY <2>1, <2>3, <3>1
  <2> QED
    BY <2>2, <2>3
<1>3. new = [i \in 1..n |-> new[i]]
  BY <1>1 DEF Rewrite
<1> HIDE DEF new
<1>4. new \in Seq(Part) /\ Len(new) = n /\ DOMAIN new = 1..n
  BY <1>1, <1>2, <1>3
<1>5. Parts(new)
  BY <1>2, <1>4, PartsFacts DEF Parts
<1>6. Grows(parts, new)
  <2> SUFFICES ASSUME NEW i \in 1..n
               PROVE  /\ IsPrefix(parts[i].content, new[i].content)
                      /\ parts[i].kind \notin Writers => new[i].content = parts[i].content
    BY <1>1, <1>2, <1>4 DEF Grows
  <2> QED
    BY <1>2, PartsFacts, PrefixOfItself
<1> QED
  BY <1>2, <1>4, <1>5, <1>6 DEF new, IsRewritten

(***************************************************************************)
(* What a step may leave alone: each part of the invariant has a condition *)
(* under which a step keeps it.                                            *)
(***************************************************************************)
\* What is common to all steps of the transcript but the deletion of its report:
\* the tables keep their types and the parts grow.
Step ==
  /\ TypeOK /\ TypeOK' /\ Parts(part) /\ Parts(part') /\ Grows(part, part') /\ gone' = gone
  /\ said <= said' /\ broken \subseteq broken'
  /\ \A t \in Turns : turn[t] # "none" => turn'[t] # "none"
  /\ \A t \in Turns : turn[t] \in Terminal => turn'[t] \in Terminal

\* The parts that a step inserted.
New == (DOMAIN part') \ (DOMAIN part)

LEMMA StepFacts ==
  ASSUME Step
  PROVE  /\ Len(part) \in Nat /\ Len(part') \in Nat /\ Len(part) <= Len(part')
         /\ DOMAIN part = 1..Len(part) /\ DOMAIN part' = 1..Len(part')
         /\ DOMAIN part \subseteq DOMAIN part'
         /\ \A i \in DOMAIN part :
              /\ part'[i].turn = part[i].turn /\ part'[i].kind = part[i].kind
              /\ part'[i].proposal = part[i].proposal
              /\ IsPrefix(part[i].content, part'[i].content)
              /\ part[i].kind \notin Writers => part'[i].content = part[i].content
              /\ part[i].kind # "status" => part'[i].of = part[i].of
         /\ \A i \in New : i \in Nat /\ \A j \in DOMAIN part : j < i
<1>1. /\ Len(part) \in Nat /\ Len(part') \in Nat /\ Len(part) <= Len(part')
      /\ DOMAIN part = 1..Len(part) /\ DOMAIN part' = 1..Len(part')
  BY PartsFacts DEF Step, Grows
<1>2. DOMAIN part \subseteq DOMAIN part' /\ \A i \in New : i \in Nat /\ \A j \in DOMAIN part : j < i
  BY <1>1 DEF New
<1> QED
  BY <1>1, <1>2 DEF Step, Grows

\* The calls and the results of a turn that no step touches.
LEMMA CallParts ==
  ASSUME Step, NEW t \in Turns, NEW kind \in {"call", "result"},
         \A i \in New : part'[i].turn = t => part'[i].kind # kind
  PROVE  /\ Of(t, kind)' = Of(t, kind)
         /\ \A i \in Of(t, kind) : part'[i].content = part[i].content /\ part'[i].of = part[i].of
<1>1. kind \notin Writers /\ kind # "status"
  BY DEF Writers
<1> QED
  BY <1>1, StepFacts DEF Of, New

CallsKept ==
  /\ \A i \in New : part'[i].turn # Session => part'[i].kind \notin {"call", "result"}
  /\ \A t \in Turns : At(t, Running)' =>
       /\ turn'[t] # "completed"
       /\ \/ At(t, Running) /\ stream'[t].calls = stream[t].calls
          \/ Of(t, "call") = {} /\ stream'[t].calls = <<>>
  /\ \A t \in Turns : turn'[t] = "completed" \/ (At(t, Closing)' /\ stream'[t].ending = "completed") =>
       \/ turn[t] = "completed" \/ (At(t, Closing) /\ stream[t].ending = "completed")
       \/ At(t, Running) /\ stream[t].calls = <<>>

\* The same of one turn.
KeepsItsCalls(t) ==
  /\ \A i \in New : part'[i].turn = t => part'[i].kind \notin {"call", "result"}
  /\ At(t, Running)' =>
       /\ turn'[t] # "completed"
       /\ \/ At(t, Running) /\ stream'[t].calls = stream[t].calls
          \/ Of(t, "call") = {} /\ stream'[t].calls = <<>>
  /\ turn'[t] = "completed" \/ (At(t, Closing)' /\ stream'[t].ending = "completed") =>
       \/ turn[t] = "completed" \/ (At(t, Closing) /\ stream[t].ending = "completed")
       \/ At(t, Running) /\ stream[t].calls = <<>>

LEMMA TurnCallsFrame ==
  ASSUME Step, NEW t \in Turns, NumbersItsCalls(t), AnswersItsCalls(t), KeepsItsCalls(t)
  PROVE  NumbersItsCalls(t)' /\ AnswersItsCalls(t)'
<1> USE DEF KeepsItsCalls
<1>1. /\ Of(t, "call")' = Of(t, "call") /\ Of(t, "result")' = Of(t, "result")
      /\ \A i \in Of(t, "call") \union Of(t, "result") :
           part'[i].content = part[i].content /\ part'[i].of = part[i].of
  BY CallParts
<1>2. ASSUME NEW j \in Of(t, "result"), NEW i \in Of(t, "call")
      PROVE  Answers(j, i)' <=> Answers(j, i)
  BY <1>1 DEF Answers
<1>3. 1..said \subseteq 1..said'
  BY DEF Step, TypeOK
<1>4. NumbersItsCalls(t)'
  <2> SUFFICES /\ \A i \in Of(t, "call")' \union Of(t, "result")' :
                 \E n \in 1..said' : part'[i].content = <<n>>
               /\ \A i, k \in Of(t, "call")' : i < k => part'[i].content[1] < part'[k].content[1]
               /\ \A j, l \in Of(t, "result")' : j < l => part'[j].content[1] < part'[l].content[1]
               /\ \A j \in Of(t, "result")' : \E i \in Of(t, "call")' : i < j /\ Answers(j, i)'
    BY DEF NumbersItsCalls
  <2>1. \A i \in Of(t, "call") \union Of(t, "result") : \E n \in 1..said : part[i].content = <<n>>
    BY DEF NumbersItsCalls
  <2>2. /\ \A i, k \in Of(t, "call") : i < k => part[i].content[1] < part[k].content[1]
        /\ \A j, l \in Of(t, "result") : j < l => part[j].content[1] < part[l].content[1]
        /\ \A j \in Of(t, "result") : \E i \in Of(t, "call") : i < j /\ Answers(j, i)
    BY DEF NumbersItsCalls
  <2>3. \A i \in Of(t, "call")' \union Of(t, "result")' : \E n \in 1..said' : part'[i].content = <<n>>
    BY <1>1, <1>3, <2>1
  <2> QED
    BY <1>1, <1>2, <2>2, <2>3
<1>5. AnswersItsCalls(t)'
  <2> SUFFICES LET pending == DOMAIN stream'[t].calls
               IN /\ At(t, Running)' =>
                       /\ turn'[t] # "completed"
                       /\ \A i \in Of(t, "call")' : Answered(t, i)' \/ \E k \in pending : Asked(t, k, i)'
                       /\ \A k \in pending :
                            /\ \E i \in Of(t, "call")' : Asked(t, k, i)'
                            /\ \A j \in Of(t, "result")' : part'[j].content[1] < stream'[t].calls[k].n
                            /\ \A l \in pending : k < l => stream'[t].calls[k].n < stream'[t].calls[l].n
                  /\ turn'[t] = "completed" \/ (At(t, Closing)' /\ stream'[t].ending = "completed") =>
                       \A i \in Of(t, "call")' : Answered(t, i)'
    BY DEF AnswersItsCalls
  <2>1. \A i \in Of(t, "call") : Answered(t, i)' <=> Answered(t, i)
    BY <1>1, <1>2 DEF Answered
  <2>2. ASSUME stream'[t].calls = stream[t].calls, NEW k, NEW i \in Of(t, "call")
        PROVE  Asked(t, k, i)' <=> Asked(t, k, i)
    BY <1>1, <2>2 DEF Asked
  <2>3. ASSUME At(t, Running)'
        PROVE  LET pending == DOMAIN stream'[t].calls
               IN /\ \A i \in Of(t, "call")' : Answered(t, i)' \/ \E k \in pending : Asked(t, k, i)'
                  /\ \A k \in pending :
                       /\ \E i \in Of(t, "call")' : Asked(t, k, i)'
                       /\ \A j \in Of(t, "result")' : part'[j].content[1] < stream'[t].calls[k].n
                       /\ \A l \in pending : k < l => stream'[t].calls[k].n < stream'[t].calls[l].n
    <3>1. CASE At(t, Running) /\ stream'[t].calls = stream[t].calls
      <4> DEFINE pending == DOMAIN stream[t].calls
      <4>1. /\ \A i \in Of(t, "call") : Answered(t, i) \/ \E k \in pending : Asked(t, k, i)
            /\ \A k \in pending :
                 /\ \E i \in Of(t, "call") : Asked(t, k, i)
                 /\ \A j \in Of(t, "result") : part[j].content[1] < stream[t].calls[k].n
                 /\ \A l \in pending : k < l => stream[t].calls[k].n < stream[t].calls[l].n
        BY <3>1 DEF AnswersItsCalls
      <4>2. \A k, i : i \in Of(t, "call") => (Asked(t, k, i)' <=> Asked(t, k, i))
        BY <2>2, <3>1
      <4> QED
        BY <1>1, <2>1, <3>1, <4>1, <4>2
    <3>2. CASE Of(t, "call") = {} /\ stream'[t].calls = <<>>
      <4>1. DOMAIN stream'[t].calls = {}
        BY <3>2
      <4> QED
        BY <1>1, <3>2, <4>1
    <3> QED
      BY <2>3, <3>1, <3>2
  <2>4. ASSUME turn'[t] = "completed" \/ (At(t, Closing)' /\ stream'[t].ending = "completed")
        PROVE  \A i \in Of(t, "call")' : Answered(t, i)'
    <3>1. CASE turn[t] = "completed" \/ (At(t, Closing) /\ stream[t].ending = "completed")
      BY <1>1, <2>1, <3>1 DEF AnswersItsCalls
    <3>2. CASE At(t, Running) /\ stream[t].calls = <<>>
      <4>1. DOMAIN stream[t].calls = {}
        BY <3>2
      <4> QED
        BY <1>1, <2>1, <3>2, <4>1 DEF AnswersItsCalls
    <3> QED
      BY <2>4, <3>1, <3>2
  <2>5. At(t, Running)' => turn'[t] # "completed"
    OBVIOUS
  <2> QED
    BY <2>3, <2>4, <2>5
<1> QED
  BY <1>4, <1>5

LEMMA CallsFrame ==
  ASSUME Step, CallsAreNumbered, CallsAreAnswered, CallsKept
  PROVE  CallsAreNumbered' /\ CallsAreAnswered'
<1> SUFFICES ASSUME NEW t \in Turns PROVE NumbersItsCalls(t)' /\ AnswersItsCalls(t)'
  BY DEF CallsAreNumbered, CallsAreAnswered
<1>1. t # Session
  BY DEF Turns, Session
<1>2. KeepsItsCalls(t)
  BY <1>1 DEF CallsKept, KeepsItsCalls
<1> QED
  BY <1>2, TurnCallsFrame DEF CallsAreNumbered, CallsAreAnswered

\* A writer whose part a step does not rewrite.
KeepsItsPart(t, w) ==
  /\ stream'[t].id[w] = stream[t].id[w] /\ stream'[t].heard[w] = stream[t].heard[w]
  /\ stream[t].id[w] # 0 => part'[stream[t].id[w]].content = part[stream[t].id[w]].content
  /\ At(t, Finishing)' => At(t, Finishing) \/ t \in broken' \/ stream[t].id[w] = 0

HasNoPart(t, w) == stream'[t].id[w] = 0 /\ stream'[t].heard[w] = <<>>

LEMMA WriterFrame ==
  ASSUME Step, NEW t \in Turns, NEW w \in Writers, OwnsItsPart(t, w), KeepsItsPart(t, w) \/ HasNoPart(t, w)
  PROVE  OwnsItsPart(t, w)'
<1>1. CASE HasNoPart(t, w)
  <2>1. Len(<<>>) = 0 /\ 0 <= said'
    BY DEF Step, TypeOK
  <2> QED
    BY <1>1, <2>1 DEF HasNoPart, OwnsItsPart
<1>2. CASE KeepsItsPart(t, w)
  <2> DEFINE h == stream[t].heard[w]
             i == stream[t].id[w]
  <2>1. /\ Len(h) <= said
        /\ i # 0 =>
             /\ i \in Of(t, w) /\ IsPrefix(part[i].content, h)
             /\ t \notin broken /\ At(t, Finishing) /\ i > gone => part[i].content = h
        /\ i = 0 /\ t \notin broken => h = <<>>
    BY DEF OwnsItsPart
  <2>2. i # 0 => i \in Of(t, w)' /\ part'[i].content = part[i].content
    BY <1>2, <2>1, StepFacts DEF Of, KeepsItsPart
  <2>3. Len(h) \in Nat /\ said \in Nat /\ said' \in Nat
    BY SMTT(20), HeardFacts DEF Step, TypeOK, Stream
  <2> QED
    BY <1>2, <2>1, <2>2, <2>3 DEF Step, OwnsItsPart, KeepsItsPart
<1> QED
  BY <1>1, <1>2

WritersKept == \A t \in Turns, w \in Writers : KeepsItsPart(t, w) \/ HasNoPart(t, w)

LEMMA WritersFrame == Step /\ WritersOwnTheirParts /\ WritersKept => WritersOwnTheirParts'
BY WriterFrame DEF WritersOwnTheirParts, WritersKept

\* A new part is of no proposal, or answers with one that cites as it should.
CitesAsRead(i) ==
  LET t == proposal[part[i].proposal].turn
      cites == proposal[part[i].proposal].cites
  IN i \in Of(t, "result") =>
       \A k \in Of(t, "call") : k < i /\ Answers(i, k) =>
         /\ \A j \in QueryResults : j < k \/ (j < i /\ part[j].turn = t) => j \in cites
         /\ \A j \in cites : j \in QueryResults /\ j < i

LEMMA ProposalsCited ==
  ProposalsCiteWhatWasRead <=> \A i \in DOMAIN part : part[i].proposal \in DOMAIN proposal => CitesAsRead(i)
BY DEF ProposalsCiteWhatWasRead, CitesAsRead, Of

ProposalsKept ==
  /\ proposal' = proposal
  /\ \A i \in New :
       /\ part'[i].proposal = 0 \/ (part'[i].proposal \in DOMAIN proposal /\ CitesAsRead(i)')
       /\ part'[i].kind \in {"call", "result"} => \A t \in Turns : At(t, {"answering"})' => part'[i].turn # t
  /\ \A t \in Turns : At(t, {"tools", "answering"})' =>
       /\ stream'[t].calls # <<>>
       /\ At(t, {"answering"})' =>
            At(t, {"answering"}) /\ stream'[t].calls = stream[t].calls /\ stream'[t].proposed = stream[t].proposed

\* The calls and the results of before are what they were.
LEMMA ResultsFacts ==
  ASSUME Step
  PROVE  /\ QueryResults \subseteq DOMAIN part /\ QueryResults \subseteq QueryResults'
         /\ \A j \in QueryResults' : j \in DOMAIN part => j \in QueryResults
         /\ \A t, k : k \in Of(t, "call")' /\ k \in DOMAIN part <=> k \in Of(t, "call")
         /\ \A t, i : i \in Of(t, "result")' /\ i \in DOMAIN part <=> i \in Of(t, "result")
         /\ \A i \in DOMAIN part : part[i].kind \in {"call", "result"} =>
              part'[i].content = part[i].content /\ part'[i].of = part[i].of
         /\ \A j \in DOMAIN part', i \in DOMAIN part : j < i => j \in DOMAIN part
<1>1. /\ DOMAIN part \subseteq DOMAIN part'
      /\ \A i \in DOMAIN part :
           /\ part'[i].turn = part[i].turn /\ part'[i].kind = part[i].kind
           /\ part'[i].proposal = part[i].proposal
           /\ part[i].kind \notin Writers => part'[i].content = part[i].content
           /\ part[i].kind # "status" => part'[i].of = part[i].of
  BY StepFacts
<1>2. \A i \in DOMAIN part : part[i].kind \in {"call", "result"} =>
        part'[i].content = part[i].content /\ part'[i].of = part[i].of
  BY <1>1 DEF Writers
<1>3. \A j \in DOMAIN part', i \in DOMAIN part : j < i => j \in DOMAIN part
  BY StepFacts
<1>4. /\ QueryResults \subseteq DOMAIN part /\ QueryResults \subseteq QueryResults'
      /\ \A j \in QueryResults' : j \in DOMAIN part => j \in QueryResults
  BY <1>1, <1>2 DEF QueryResults
<1>5. /\ \A t, k : k \in Of(t, "call")' /\ k \in DOMAIN part <=> k \in Of(t, "call")
      /\ \A t, i : i \in Of(t, "result")' /\ i \in DOMAIN part <=> i \in Of(t, "result")
  BY <1>1 DEF Of
<1> QED
  BY <1>2, <1>3, <1>4, <1>5

\* A part that was there cites as it did.
LEMMA CitesKept ==
  ASSUME Step, proposal' = proposal, NEW i \in DOMAIN part, CitesAsRead(i)
  PROVE  CitesAsRead(i)'
<1>1. PICK t, cites :
        /\ t = proposal[part[i].proposal].turn /\ t = proposal'[part'[i].proposal].turn
        /\ cites = proposal[part[i].proposal].cites /\ cites = proposal'[part'[i].proposal].cites
  BY StepFacts
<1>2. SUFFICES ASSUME i \in Of(t, "result")', NEW k \in Of(t, "call")', k < i, Answers(i, k)'
               PROVE  /\ \A j \in QueryResults' : j < k \/ (j < i /\ part'[j].turn = t) => j \in cites
                      /\ \A j \in cites : j \in QueryResults' /\ j < i
  BY <1>1 DEF CitesAsRead
<1>3. i \in Of(t, "result") /\ k \in DOMAIN part /\ k \in Of(t, "call")
  <2>1. k \in DOMAIN part' /\ i \in Of(t, "result")
    <3>1. k \in DOMAIN part'
      BY <1>2 DEF Of
    <3> QED
      BY <1>2, <3>1, ResultsFacts
  <2>2. k \in DOMAIN part
    BY <1>2, <2>1, ResultsFacts
  <2> QED
    BY <1>2, <2>1, <2>2, ResultsFacts
<1>4. part[i].kind = "result" /\ part[k].kind = "call"
  BY <1>3 DEF Of
<1>5. Answers(i, k)
  BY <1>2, <1>3, <1>4, ResultsFacts DEF Answers
<1>6. /\ \A j \in QueryResults : j < k \/ (j < i /\ part[j].turn = t) => j \in cites
      /\ \A j \in cites : j \in QueryResults /\ j < i
  BY <1>1, <1>2, <1>3, <1>5 DEF CitesAsRead
<1>7. ASSUME NEW j \in QueryResults', j < k \/ (j < i /\ part'[j].turn = t) PROVE j \in cites
  <2>1. j \in DOMAIN part
    BY <1>3, <1>7, ResultsFacts DEF QueryResults
  <2>2. j \in QueryResults /\ part'[j].turn = part[j].turn
    BY <2>1, ResultsFacts, StepFacts
  <2> QED
    BY <1>6, <1>7, <2>2
<1>8. \A j \in cites : j \in QueryResults' /\ j < i
  BY <1>6, ResultsFacts
<1> QED
  BY <1>7, <1>8

LEMMA ProposalsFrame ==
  ASSUME Step, ProposalsAreKnown, ProposalsCiteWhatWasRead, ProposalsKept
  PROVE  ProposalsAreKnown' /\ ProposalsCiteWhatWasRead'
<1>1. \A i \in DOMAIN part' : part'[i].proposal \in {0} \union DOMAIN proposal'
  BY StepFacts DEF ProposalsAreKnown, ProposalsKept, New
<1>2. ASSUME NEW t \in Turns, At(t, {"answering"})'
      PROVE  LET s == stream'[t]
             IN /\ s.proposed \in DOMAIN proposal' /\ Head(s.calls).tool = "propose"
                /\ proposal'[s.proposed].turn = t
                /\ proposal'[s.proposed].cites \subseteq QueryResults'
                /\ \A j \in QueryResults' :
                     part'[j].turn = t \/ (\E k \in Of(t, "call")' : Asked(t, 1, k)' /\ j < k)
                     => j \in proposal'[s.proposed].cites
  <2>1. /\ At(t, {"answering"}) /\ stream'[t].calls = stream[t].calls
        /\ stream'[t].proposed = stream[t].proposed /\ proposal' = proposal
        /\ \A i \in New : part'[i].kind \in {"call", "result"} => part'[i].turn # t
    <3>1. At(t, {"tools", "answering"})'
      BY <1>2
    <3> QED
      BY <1>2, <3>1 DEF ProposalsKept
  <2> DEFINE cites == proposal[stream[t].proposed].cites
  <2>2. /\ stream[t].proposed \in DOMAIN proposal /\ Head(stream[t].calls).tool = "propose"
        /\ proposal[stream[t].proposed].turn = t
        /\ cites \subseteq QueryResults
        /\ \A j \in QueryResults :
             part[j].turn = t \/ (\E k \in Of(t, "call") : Asked(t, 1, k) /\ j < k) => j \in cites
    BY <2>1 DEF ProposalsAreKnown
  <2>3. cites \subseteq QueryResults'
    BY <2>2, ResultsFacts
  <2>4. ASSUME NEW j \in QueryResults', part'[j].turn = t PROVE j \in cites
    <3>1. j \in DOMAIN part
      BY <2>1, <2>4 DEF New, QueryResults
    <3> QED
      BY <2>2, <2>4, <3>1, ResultsFacts, StepFacts
  <2>5. ASSUME NEW j \in QueryResults', NEW k \in Of(t, "call")', Asked(t, 1, k)', j < k PROVE j \in cites
    <3>1. k \in DOMAIN part
      BY <2>1, <2>5 DEF New, Of
    <3>2. k \in Of(t, "call") /\ part[k].kind = "call"
      BY <2>5, <3>1, ResultsFacts DEF Of
    <3>3. Asked(t, 1, k)
      BY <2>1, <2>5, <3>1, <3>2, ResultsFacts DEF Asked
    <3>4. j \in QueryResults
      BY <2>5, <3>1, ResultsFacts DEF QueryResults
    <3> QED
      BY <2>2, <2>5, <3>2, <3>3, <3>4
  <2> QED
    BY <2>1, <2>2, <2>3, <2>4, <2>5
<1>3. \A t \in Turns : At(t, {"tools", "answering"})' => stream'[t].calls # <<>>
  BY DEF ProposalsKept
<1>4. ProposalsAreKnown'
  BY <1>1, <1>2, <1>3 DEF ProposalsAreKnown
<1>5. ASSUME NEW i \in DOMAIN part', part'[i].proposal \in DOMAIN proposal' PROVE CitesAsRead(i)'
  <2>1. proposal' = proposal /\ 0 \notin DOMAIN proposal
    BY DEF ProposalsKept, Step, TypeOK
  <2>2. CASE i \in New
    BY <1>5, <2>1, <2>2 DEF ProposalsKept
  <2>3. CASE i \in DOMAIN part
    <3>1. CitesAsRead(i)
      BY <1>5, <2>1, <2>3, StepFacts, ProposalsCited
    <3> QED
      BY <2>1, <2>3, <3>1, CitesKept
  <2> QED
    BY <2>2, <2>3 DEF New
<1>6. ProposalsCiteWhatWasRead'
  <2>1. (ProposalsCiteWhatWasRead <=> \A i \in DOMAIN part : part[i].proposal \in DOMAIN proposal => CitesAsRead(i))'
    BY ProposalsCited, PTL
  <2> QED
    BY <1>5, <2>1
<1> QED
  BY <1>4, <1>6

PageKept == page' \in {page, NoPage} /\ DOMAIN proposal \subseteq DOMAIN proposal'

LEMMA PageFrame == Step /\ PageFollows /\ PageKept => PageFollows'
<1> SUFFICES ASSUME Step, PageFollows, PageKept PROVE PageFollows'
  OBVIOUS
<1> USE DEF PageKept
<1>1. CASE page' = NoPage
  BY <1>1 DEF PageFollows, NoPage
<1>2. CASE page' = page
  <2>1. \A t \in page.parts \union page.ended : t \in Turns
    BY DEF Step, TypeOK
  <2>2. (page.read = 0 => page' = NoPage) /\ (Deleted' <=> Deleted)
    BY <1>2 DEF PageFollows, Step, Deleted
  <2>3. \A t \in Turns : /\ turn[t] # "none" => turn'[t] # "none"
                         /\ turn[t] \in Terminal => turn'[t] \in Terminal
    BY DEF Step
  <2> QED
    BY <1>2, <2>1, <2>2, <2>3 DEF PageFollows
<1> QED
  BY <1>1, <1>2

TurnsKept ==
  /\ \A t \in Turns : turn'[t] = "none" => turn[t] = "none" /\ stream'[t] = stream[t]
  /\ \A i \in New : /\ part'[i].turn # Session => turn'[part'[i].turn] # "none"
                    /\ part'[i].kind = "status" => part'[i].turn # Session
                    /\ part'[i].of \notin Terminal
  /\ \A i \in DOMAIN part : part'[i].of = part[i].of \/ turn'[part[i].turn] \in Terminal
  /\ \A t \in Turns : At(t, Closing)' => stream'[t].ending \in Terminal
  /\ \A t \in Turns : At(t, {"finishPart"})' => turn'[t] \in Terminal
  /\ \/ stopping' \in {stopping, NotStopping}
     \/ /\ stopping'.turn \in Turns /\ turn'[stopping'.turn] # "none"
        /\ stopping'.pc = "part" => turn'[stopping'.turn] \in Terminal

LEMMA TurnsFrame ==
  ASSUME Step, TurnsAreKnown, TurnsKept
  PROVE  TurnsAreKnown'
<1> USE DEF TurnsKept
<1>1. \A t \in Turns : turn'[t] = "none" => stream'[t] = NoStream
  BY DEF TurnsAreKnown
<1>2. ASSUME NEW i \in DOMAIN part'
      PROVE  /\ part'[i].turn # Session => turn'[part'[i].turn] # "none"
             /\ part'[i].kind = "status" => part'[i].turn # Session
             /\ part'[i].of \in Terminal => turn'[part'[i].turn] \in Terminal
  <2>1. CASE i \in New
    BY <2>1
  <2>2. CASE i \in DOMAIN part
    <3>1. /\ part[i].turn # Session => part[i].turn \in Turns /\ turn[part[i].turn] # "none"
          /\ part[i].kind = "status" => part[i].turn # Session
          /\ part[i].of \in Terminal => turn[part[i].turn] \in Terminal
      BY <2>2, PartsFacts DEF TurnsAreKnown, Step
    <3>2. part[i].of \in Terminal => part[i].turn \in Turns
      <4>1. part[i].of \in OfKind(part[i].kind) /\ part[i].turn \in Turns \union {Session}
        BY <2>2, PartsFacts DEF Step
      <4>2. part[i].of \in Terminal => part[i].kind = "status"
        BY <4>1 DEF OfKind, Terminal, Tools, Queries
      <4> QED
        BY <3>1, <4>1, <4>2
    <3> QED
      BY <2>2, <3>1, <3>2, StepFacts DEF Step
  <2> QED
    BY <2>1, <2>2 DEF New
<1>3. /\ stopping'.pc # "idle" => stopping'.turn \in Turns /\ turn'[stopping'.turn] # "none"
      /\ stopping'.pc = "part" => turn'[stopping'.turn] \in Terminal
  <2>1. CASE stopping' = stopping
    BY <2>1 DEF TurnsAreKnown, Step, TypeOK
  <2>2. CASE stopping' = NotStopping
    BY <2>2 DEF NotStopping
  <2> QED
    BY <2>1, <2>2
<1> QED
  BY <1>1, <1>2, <1>3 DEF TurnsAreKnown

NumbersKept == created' \/ (~created /\ UNCHANGED <<part, proposal, turn>>)

LEMMA NumbersFrame == Step /\ PartsAreNumbered /\ NumbersKept => PartsAreNumbered'
<1> SUFFICES ASSUME Step, PartsAreNumbered, NumbersKept PROVE PartsAreNumbered'
  OBVIOUS
<1>1. \A i \in DOMAIN part' : part'[i].sequence = Place(i)'
  BY DEF Step, Parts, Place
<1> QED
  BY <1>1 DEF PartsAreNumbered, NumbersKept

LEMMA IndInvParts == IndInv => Parts(part)
BY DEF IndInv, TypeOK, PartsAreNumbered, Parts

\* What a step may leave alone.
LEMMA Frame ==
  ASSUME IndInv, Step
  PROVE  /\ NumbersKept /\ TurnsKept /\ WritersKept /\ ProposalsKept /\ CallsKept /\ PageKept => IndInv'
         /\ NumbersKept => PartsAreNumbered'
         /\ TurnsKept => TurnsAreKnown'
         /\ WritersKept => WritersOwnTheirParts'
         /\ ProposalsKept => ProposalsAreKnown' /\ ProposalsCiteWhatWasRead'
         /\ CallsKept => CallsAreNumbered' /\ CallsAreAnswered'
         /\ PageKept => PageFollows'
<1>1. /\ NumbersKept => PartsAreNumbered'
      /\ TurnsKept => TurnsAreKnown'
      /\ WritersKept => WritersOwnTheirParts'
      /\ ProposalsKept => ProposalsAreKnown' /\ ProposalsCiteWhatWasRead'
      /\ CallsKept => CallsAreNumbered' /\ CallsAreAnswered'
      /\ PageKept => PageFollows'
  BY NumbersFrame, TurnsFrame, WritersFrame, ProposalsFrame, CallsFrame, PageFrame DEF IndInv
<1> QED
  BY <1>1 DEF IndInv, Step

(***************************************************************************)
(* Streams, and the steps that only begin or end them.                     *)
(***************************************************************************)
LEMMA Statuses ==
  /\ "cut" \in Terminal /\ "completed" \in Terminal
  /\ Running \intersect Closing = {} /\ "returned" \notin Running \union Closing
  /\ "lost" \notin Running \union Closing /\ "none" \notin Running \union Closing
  /\ "none" \notin Terminal /\ "working" \notin Terminal
  /\ "flush" \in Closing /\ "flush" \notin Finishing
  /\ Finishing \intersect Running = {}
  /\ "none" \notin Finishing /\ "lost" \notin Finishing
BY DEF Terminal, Running, Closing, Finishing

LEMMA NoStreamIsAStream == NoStream \in Stream
<1>1. [w \in Writers |-> <<>>] \in [Writers -> Heard] /\ [w \in Writers |-> 0] \in [Writers -> Nat]
  BY HeardFacts
<1>2. <<>> \in Seq([n : 1..MaxEvents, tool : Tools]) /\ 0 \in 0..MaxSteps /\ 0 \in Nat
  BY TranscriptAssumption
<1> QED
  BY <1>1, <1>2 DEF NoStream, Stream

LEMMA Streams ==
  ASSUME TypeOK, NEW t \in Turns
  PROVE  /\ stream[t] \in Stream
         /\ stream[t].pc \in {"none", "returned", "lost"} \union Running \union Closing
         /\ stream[t].step \in 0..MaxSteps
         /\ stream[t].heard \in [Writers -> Heard] /\ stream[t].id \in [Writers -> Nat]
         /\ stream[t].calls \in Seq([n : 1..MaxEvents, tool : Tools])
         /\ stream[t].proposed \in Nat /\ stream[t].ending \in {"none"} \union Terminal
<1>1. stream[t] \in Stream
  BY DEF TypeOK
<1> QED
  BY <1>1 DEF Stream

LEMMA EndsWith ==
  ASSUME NEW s \in Stream, NEW ending \in Terminal
  PROVE  /\ EndWith(s, ending) \in Stream
         /\ EndWith(s, ending).pc = "flush" /\ EndWith(s, ending).ending = ending
         /\ EndWith(s, ending).heard = s.heard /\ EndWith(s, ending).id = s.id
<1>1. s.heard \in [Writers -> Heard] /\ s.id \in [Writers -> Nat] /\ "flush" \in Closing
  BY Statuses DEF Stream
<1> QED
  BY <1>1, NoStreamIsAStream DEF EndWith, NoStream, Stream

LEMMA Moves ==
  ASSUME TypeOK, NEW t \in Turns, NEW x \in Stream, stream' = [stream EXCEPT ![t] = x]
  PROVE  /\ stream' \in [Turns -> Stream] /\ stream'[t] = x
         /\ \A u \in Turns : u # t => stream'[u] = stream[u]
BY DEF TypeOK

LEMMA Records ==
  ASSUME TypeOK, NEW t \in Turns, NEW ok \in Outcomes, Record(t, ok)
  PROVE  /\ ok \in BOOLEAN /\ faults' \in 0..MaxIncidents /\ broken' \subseteq Turns
         /\ broken \subseteq broken' /\ (~ok => t \in broken')
         /\ \A u \in Turns : u # t => (u \in broken' <=> u \in broken)
<1>1. ok \in BOOLEAN /\ (~ok => notes + faults < MaxIncidents)
  BY DEF Outcomes
<1>2. MaxIncidents \in Nat /\ notes \in Nat /\ faults \in 0..MaxIncidents /\ broken \subseteq Turns
  BY TranscriptAssumption DEF TypeOK
<1>3. CASE ok
  BY <1>1, <1>2, <1>3 DEF Record
<1>4. CASE ~ok
  <2>1. faults' = faults + 1 /\ broken' = broken \union {t}
    BY <1>4 DEF Record
  <2> QED
    BY <1>1, <1>2, <1>4, <2>1
<1> QED
  BY <1>3, <1>4

\* A stream that does something is of a turn that began.
LEMMA Active ==
  ASSUME IndInv, NEW t \in Turns, stream[t].pc # "none"
  PROVE  turn[t] # "none" /\ created
BY DEF IndInv, TurnsAreKnown, PartsAreNumbered, NoStream

\* A step in which turn t moves and no other stream does.
LEMMA OthersKeep ==
  ASSUME Step, NEW u \in Turns, stream'[u] = stream[u], NEW w \in Writers,
         stream[u].id[w] # 0 => part'[stream[u].id[w]].content = part[stream[u].id[w]].content
  PROVE  KeepsItsPart(u, w)
BY DEF KeepsItsPart

\* A step that leaves the parts and the turns as they are.
LEMMA MovesOnly ==
  ASSUME IndInv, NEW t \in Turns, NEW x \in Stream, stream' = [stream EXCEPT ![t] = x],
         UNCHANGED <<rows, said, stopping, page, broken, notes, faults>>,
         stream[t].pc # "none",
         x.pc \in Closing => x.ending \in Terminal, x.pc # "finishPart",
         x.id = stream[t].id /\ x.heard = stream[t].heard, x.pc \notin Finishing,
         x.pc \in {"tools", "answering"} => x.calls # <<>> /\ x.pc # "answering",
         x.pc \in Running => At(t, Running) /\ x.calls = stream[t].calls,
         x.pc \in Closing /\ x.ending = "completed" => At(t, Running) /\ stream[t].calls = <<>>
  PROVE  IndInv' /\ Grows(part, part')
<1>1. TypeOK /\ Parts(part)
  BY IndInvParts DEF IndInv
<1>2. /\ stream' \in [Turns -> Stream] /\ stream'[t] = x
      /\ \A u \in Turns : u # t => stream'[u] = stream[u]
  BY <1>1, Moves
<1>3. TypeOK'
  BY <1>1, <1>2 DEF TypeOK
<1>4. Step /\ New = {}
  BY <1>1, <1>3, GrowsItself DEF Step, New, TypeOK
<1>5. turn[t] # "none"
  BY Active
<1>6. NumbersKept /\ PageKept
  BY DEF NumbersKept, PageKept
<1>7. TurnsKept
  BY <1>2, <1>4, <1>5 DEF TurnsKept, IndInv, TurnsAreKnown
<1>8. WritersKept
  BY <1>2, <1>4, OthersKeep DEF WritersKept, KeepsItsPart
<1>9. ProposalsKept
  BY <1>2, <1>4 DEF ProposalsKept, IndInv, ProposalsAreKnown
<1>10. CallsKept
  BY <1>2, <1>4 DEF CallsKept, IndInv, CallsAreAnswered, AnswersItsCalls
<1> QED
  BY <1>4, <1>6, <1>7, <1>8, <1>9, <1>10, Frame DEF Step

LEMMA EndStepPreserves ==
  ASSUME IndInv, NEW t \in Turns, EndStep(t)
  PROVE  IndInv' /\ Grows(part, part')
<1> DEFINE s == stream[t]
           x == IF s.calls = <<>> THEN EndWith(s, "completed") ELSE [s EXCEPT !.pc = "tools"]
<1>1. /\ s \in Stream /\ s.pc = "running" /\ stream' = [stream EXCEPT ![t] = x]
      /\ UNCHANGED <<rows, said, stopping, page, broken, notes, faults>>
  BY Streams DEF EndStep, IndInv
<1>2. CASE s.calls = <<>>
  <2>1. /\ x \in Stream /\ x.pc = "flush" /\ x.ending = "completed"
        /\ x.heard = s.heard /\ x.id = s.id
    BY <1>1, <1>2, EndsWith, Statuses
  <2> HIDE DEF x
  <2> QED
    BY <1>1, <1>2, <2>1, Statuses, MovesOnly DEF Running, Closing, Finishing
<1>3. CASE s.calls # <<>>
  <2>1. /\ x \in Stream /\ x.pc = "tools" /\ x.calls = s.calls
        /\ x.id = s.id /\ x.heard = s.heard
    BY <1>1, <1>3 DEF Stream, Running
  <2> HIDE DEF x
  <2> QED
    BY <1>1, <1>3, <2>1, Statuses, MovesOnly DEF Running, Closing, Finishing
<1> QED
  BY <1>2, <1>3

LEMMA BreakPreserves ==
  ASSUME IndInv, NEW t \in Turns, Break(t)
  PROVE  IndInv' /\ Grows(part, part')
<1> DEFINE x == EndWith(stream[t], "cut")
<1>1. /\ stream[t] \in Stream /\ stream[t].pc = "running" /\ stream' = [stream EXCEPT ![t] = x]
      /\ UNCHANGED <<rows, said, stopping, page, broken, notes, faults>>
  BY Streams DEF Break, IndInv
<1>2. /\ x \in Stream /\ x.pc = "flush" /\ x.ending = "cut"
      /\ x.heard = stream[t].heard /\ x.id = stream[t].id
  BY <1>1, EndsWith, Statuses
<1> HIDE DEF x
<1> QED
  BY <1>1, <1>2, Statuses, MovesOnly DEF Running, Closing, Finishing

LEMMA CreateSessionPreserves ==
  ASSUME IndInv, CreateSession
  PROVE  IndInv' /\ Grows(part, part')
<1>1. TypeOK /\ Parts(part) /\ part = <<>> /\ Len(part) = 0
  BY IndInvParts DEF IndInv, PartsAreNumbered, CreateSession
<1>2. /\ part' = SystemParts /\ created' = TRUE
      /\ UNCHANGED <<gone, turn, proposal, stream, said, stopping, page, broken, notes, faults>>
  BY DEF CreateSession
<1>3. /\ SystemParts \in Seq(Part) /\ Len(SystemParts) = 4 /\ DOMAIN SystemParts = 1..4
      /\ \A i \in 1..4 : SystemParts[i] = [turn |-> Session, sequence |-> i, kind |-> "system",
                                           content |-> <<>>, of |-> "none", proposal |-> 0]
  <2>1. ASSUME NEW i \in 1..4
        PROVE  [turn |-> Session, sequence |-> i, kind |-> "system", content |-> <<>>,
                of |-> "none", proposal |-> 0] \in Part
    BY HeardFacts DEF Part
  <2> QED
    BY <2>1 DEF SystemParts
<1>4. Parts(part')
  <2>1. gone = 0 /\ \A i \in 1..4 : Place(i) = i
    BY <1>1 DEF Parts, Place
  <2> QED
    BY <1>2, <1>3, <2>1 DEF Parts, OfKind
<1>5. Grows(part, part')
  BY <1>1, <1>2, <1>3 DEF Grows
<1>6. TypeOK'
  BY <1>1, <1>2, <1>4 DEF TypeOK, Parts
<1>7. Step
  BY <1>1, <1>2, <1>4, <1>5, <1>6 DEF Step, TypeOK
<1>8. \A i \in New : part'[i].turn = Session /\ part'[i].kind = "system" /\ part'[i].of = "none"
                     /\ part'[i].proposal = 0
  BY <1>2, <1>3 DEF New
<1>9. DOMAIN part = {}
  BY <1>1
<1>10. NumbersKept /\ PageKept
  BY <1>2 DEF NumbersKept, PageKept
<1>11. TurnsKept
  BY <1>2, <1>8, <1>9, Statuses DEF TurnsKept, IndInv, TurnsAreKnown
<1>12. WritersKept
  BY <1>2, <1>9 DEF WritersKept, KeepsItsPart, IndInv, WritersOwnTheirParts, OwnsItsPart, Of
<1>13. ProposalsKept
  BY <1>2, <1>8 DEF ProposalsKept, IndInv, ProposalsAreKnown
<1>14. CallsKept
  BY <1>2, <1>8 DEF CallsKept, IndInv, CallsAreAnswered, AnswersItsCalls
<1> QED
  BY <1>5, <1>7, <1>10, <1>11, <1>12, <1>13, <1>14, Frame

LEMMA StartTurnPreserves ==
  ASSUME IndInv, NEW t \in Turns, StartTurn(t)
  PROVE  IndInv' /\ Grows(part, part')
<1> DEFINE one == InsertPart(part, t, "user", <<>>, "none", 0)
           n == Len(part) + 1
<1>1. PICK ok \in Outcomes :
        /\ Record(t, ok)
        /\ stream' = [stream EXCEPT ![t] = IF ok THEN [@ EXCEPT !.pc = "running", !.step = 1]
                                          ELSE [@ EXCEPT !.pc = "lost"]]
  BY DEF StartTurn
<1>2. /\ created /\ turn[t] = "none" /\ turn' = [turn EXCEPT ![t] = "working"]
      /\ part' = InsertPart(one, t, "status", <<>>, "working", 0)
      /\ UNCHANGED <<created, gone, proposal, said, stopping, page, notes>>
  BY DEF StartTurn, Unused
<1>3. TypeOK /\ Parts(part) /\ stream[t] = NoStream
  BY <1>2, IndInvParts DEF IndInv, TurnsAreKnown
<1>4. /\ Parts(one) /\ Len(one) = n /\ DOMAIN part = 1..(n - 1) /\ n \in Nat
      /\ \A i \in 1..(n - 1) : one[i] = part[i]
      /\ one[n].turn = t /\ one[n].kind = "user" /\ one[n].of = "none" /\ one[n].proposal = 0
  <2>1. /\ <<>> \in Heard /\ "user" \in Kinds /\ "none" \in OfKind("user") /\ 0 \in Nat
        /\ t \in Turns \union {Session}
    BY HeardFacts DEF Kinds, OfKind
  <2> HIDE DEF one
  <2> QED
    <3>1. Extends(one, part, [turn |-> t, sequence |-> NextSequence(part), kind |-> "user",
                              content |-> <<>>, of |-> "none", proposal |-> 0])
      BY <1>3, <2>1, Inserted DEF one
    <3> QED
      BY <3>1 DEF Extends
<1> HIDE DEF one
<1>5. /\ Parts(part') /\ Len(part') = n + 1 /\ DOMAIN part' = 1..(n + 1)
      /\ \A i \in 1..n : part'[i] = one[i]
      /\ part'[n + 1].turn = t /\ part'[n + 1].kind = "status" /\ part'[n + 1].of = "working"
      /\ part'[n + 1].proposal = 0
  <2>1. /\ <<>> \in Heard /\ "status" \in Kinds /\ "working" \in OfKind("status") /\ 0 \in Nat
        /\ t \in Turns \union {Session}
    BY HeardFacts DEF Kinds, OfKind
  <2> QED
    <3>1. Extends(part', one, [turn |-> t, sequence |-> NextSequence(one), kind |-> "status",
                               content |-> <<>>, of |-> "working", proposal |-> 0])
      BY <1>2, <1>4, <2>1, Inserted
    <3>2. Len(one) + 1 = n + 1 /\ (n + 1) - 1 = n
      BY <1>4
    <3> QED
      BY <3>1, <3>2 DEF Extends
<1>6. \A i \in 1..(n - 1) : part'[i] = part[i]
  BY <1>4, <1>5
<1>7. Grows(part, part')
  BY <1>3, <1>4, <1>5, <1>6, InsertedGrows
<1>8. New = {n, n + 1}
  BY <1>4, <1>5 DEF New
<1>9. \A i \in New : /\ part'[i].turn = t /\ part'[i].kind \in {"user", "status"}
                     /\ part'[i].of \notin Terminal /\ part'[i].proposal = 0
  BY <1>4, <1>5, <1>8, Statuses DEF Terminal
<1> DEFINE x == IF ok THEN [NoStream EXCEPT !.pc = "running", !.step = 1]
                ELSE [NoStream EXCEPT !.pc = "lost"]
<1>10. /\ x \in Stream /\ x.calls = <<>> /\ x.heard = NoStream.heard /\ x.id = NoStream.id
       /\ x.pc \in {"running", "lost"}
  <2>1. 1 \in 0..MaxSteps
    BY TranscriptAssumption
  <2> QED
    BY <2>1, NoStreamIsAStream DEF NoStream, Stream, Running
<1>11. stream' = [stream EXCEPT ![t] = x]
  BY <1>1, <1>3
<1> HIDE DEF x
<1>12. /\ stream' \in [Turns -> Stream] /\ stream'[t] = x
       /\ \A u \in Turns : u # t => stream'[u] = stream[u]
  BY <1>3, <1>10, <1>11, Moves
<1>13. faults' \in 0..MaxIncidents /\ broken' \subseteq Turns /\ broken \subseteq broken'
  BY <1>1, <1>3, Records
<1>14. /\ turn' \in [Turns -> {"none", "working"} \union Terminal] /\ turn'[t] = "working"
       /\ \A u \in Turns : u # t => turn'[u] = turn[u]
  BY <1>2, <1>3 DEF TypeOK
<1>15. TypeOK'
  BY <1>2, <1>3, <1>5, <1>12, <1>13, <1>14 DEF TypeOK, Parts
<1>16. Step
  BY <1>2, <1>3, <1>5, <1>7, <1>13, <1>14, <1>15, Statuses DEF Step, TypeOK
<1>17. NumbersKept /\ PageKept
  BY <1>2 DEF NumbersKept, PageKept
<1>18. TurnsKept
  <2>1. \A u \in Turns : turn'[u] = "none" => turn[u] = "none" /\ stream'[u] = stream[u]
    BY <1>12, <1>14
  <2>2. \A u \in Turns : /\ At(u, Closing)' => stream'[u].ending \in Terminal
                         /\ At(u, {"finishPart"})' => turn'[u] \in Terminal
    BY <1>10, <1>12, <1>14, Statuses DEF IndInv, TurnsAreKnown, Closing, Running
  <2>3. t # Session
    BY DEF Turns, Session
  <2>4. \A i \in DOMAIN part : part'[i].of = part[i].of
    BY <1>4, <1>6
  <2> QED
    BY <1>2, <1>9, <1>14, <2>1, <2>2, <2>3, <2>4 DEF TurnsKept
<1>19. WritersKept
  <2>1. \A w \in Writers : HasNoPart(t, w)
    BY <1>10, <1>12 DEF HasNoPart, NoStream
  <2>2. ASSUME NEW u \in Turns, NEW w \in Writers, u # t PROVE KeepsItsPart(u, w)
    <3>1. stream[u].id[w] # 0 => stream[u].id[w] \in DOMAIN part
      BY DEF IndInv, WritersOwnTheirParts, OwnsItsPart, Of
    <3> QED
      BY <1>4, <1>6, <1>12, <1>16, <2>2, <3>1, OthersKeep
  <2> QED
    BY <2>1, <2>2 DEF WritersKept
<1>20. ProposalsKept
  BY <1>2, <1>9, <1>10, <1>12 DEF ProposalsKept, IndInv, ProposalsAreKnown
<1>21. CallsKept
  <2>1. Of(t, "call") = {}
    <3>1. t # Session
      BY DEF Turns, Session
    <3> QED
      BY <1>2, <3>1 DEF Of, IndInv, TurnsAreKnown
  <2>2. \A i \in New : part'[i].kind \notin {"call", "result"}
    BY <1>9
  <2>3. ASSUME NEW u \in Turns, At(u, Running)'
        PROVE  /\ turn'[u] # "completed"
               /\ \/ At(u, Running) /\ stream'[u].calls = stream[u].calls
                  \/ Of(u, "call") = {} /\ stream'[u].calls = <<>>
    <3>1. CASE u = t
      BY <1>10, <1>12, <1>14, <2>1, <3>1
    <3>2. CASE u # t
      BY <1>12, <1>14, <2>3, <3>2 DEF IndInv, CallsAreAnswered, AnswersItsCalls
    <3> QED
      BY <3>1, <3>2
  <2>4. ASSUME NEW u \in Turns, turn'[u] = "completed" \/ (At(u, Closing)' /\ stream'[u].ending = "completed")
        PROVE  turn[u] = "completed" \/ (At(u, Closing) /\ stream[u].ending = "completed")
    <3>1. u # t
      BY <1>10, <1>12, <1>14, <2>4, Statuses DEF Closing
    <3> QED
      BY <1>12, <1>14, <2>4, <3>1
  <2> QED
    BY <2>2, <2>3, <2>4 DEF CallsKept
<1> QED
  BY <1>7, <1>16, <1>17, <1>18, <1>19, <1>20, <1>21, Frame

(***************************************************************************)
(* The steps of the user, the page and the system.                         *)
(***************************************************************************)
\* A step of the user, the page or the system: no stream writes.
LEMMA AsidePreserves ==
  ASSUME IndInv, TypeOK', Parts(part'), Grows(part, part'), NumbersKept, PageKept,
         UNCHANGED <<gone, proposal, said, broken>>,
         \A t \in Turns : \/ stream'[t] = stream[t]
                          \/ stream[t].pc # "none" /\ stream'[t] = [NoStream EXCEPT !.pc = "lost"],
         \A t \in Turns : turn'[t] = turn[t] \/ (turn[t] # "none" /\ turn'[t] = "cut"),
         \A i \in DOMAIN part : /\ part'[i].content = part[i].content
                                /\ part'[i].of = part[i].of \/ turn'[part[i].turn] \in Terminal,
         \A i \in New : /\ part'[i].turn = Session /\ part'[i].kind # "status"
                        /\ part'[i].of \notin Terminal /\ part'[i].proposal = 0,
         \/ stopping' \in {stopping, NotStopping}
         \/ /\ stopping'.turn \in Turns /\ turn'[stopping'.turn] # "none"
            /\ stopping'.pc = "part" => turn'[stopping'.turn] \in Terminal
  PROVE  IndInv'
<1>1. TypeOK /\ Parts(part)
  BY IndInvParts DEF IndInv
<1>2. Step
  <2>1. \A t \in Turns : /\ turn[t] # "none" => turn'[t] # "none"
                         /\ turn[t] \in Terminal => turn'[t] \in Terminal
    BY Statuses
  <2>2. said \in 0..MaxEvents /\ MaxEvents \in Nat
    BY <1>1, TranscriptAssumption DEF TypeOK
  <2>3. said <= said' /\ broken \subseteq broken'
    BY <2>2
  <2> QED
    BY <1>1, <2>1, <2>3 DEF Step
<1>3. \A t \in Turns : stream'[t] = [NoStream EXCEPT !.pc = "lost"] =>
        /\ stream'[t].pc = "lost" /\ stream'[t].id = NoStream.id /\ stream'[t].heard = NoStream.heard
  BY DEF NoStream
<1>4. TurnsKept
  <2>1. \A t \in Turns : turn'[t] = "none" => turn[t] = "none" /\ stream'[t] = stream[t]
    <3> SUFFICES ASSUME NEW t \in Turns, turn'[t] = "none" PROVE turn[t] = "none" /\ stream'[t] = stream[t]
      OBVIOUS
    <3>1. turn[t] = "none"
      OBVIOUS
    <3>2. stream[t].pc = "none"
      BY <3>1 DEF IndInv, TurnsAreKnown, NoStream
    <3> QED
      BY <3>1, <3>2
  <2>2. \A t \in Turns : /\ At(t, Closing)' => stream'[t].ending \in Terminal
                         /\ At(t, {"finishPart"})' => turn'[t] \in Terminal
    <3> SUFFICES ASSUME NEW t \in Turns
                 PROVE  /\ At(t, Closing)' => stream'[t].ending \in Terminal
                        /\ At(t, {"finishPart"})' => turn'[t] \in Terminal
      OBVIOUS
    <3>1. CASE stream'[t] = stream[t]
      BY <3>1, Statuses DEF IndInv, TurnsAreKnown
    <3>2. CASE stream'[t] = [NoStream EXCEPT !.pc = "lost"]
      BY <3>2, <1>3, Statuses
    <3> QED
      BY <3>1, <3>2
  <2> QED
    BY <2>1, <2>2 DEF TurnsKept
<1>5. WritersKept
  <2> SUFFICES ASSUME NEW t \in Turns, NEW w \in Writers PROVE KeepsItsPart(t, w) \/ HasNoPart(t, w)
    BY DEF WritersKept
  <2>1. stream[t].id[w] # 0 => stream[t].id[w] \in DOMAIN part
    BY DEF IndInv, WritersOwnTheirParts, OwnsItsPart, Of
  <2>2. CASE stream'[t] = stream[t]
    BY <1>2, <2>1, <2>2, OthersKeep
  <2>3. CASE stream'[t] = [NoStream EXCEPT !.pc = "lost"]
    BY <2>3, <1>3 DEF HasNoPart, NoStream
  <2> QED
    BY <2>2, <2>3
<1>6. ProposalsKept
  <2>1. \A t \in Turns : t # Session
    BY DEF Turns, Session
  <2>2. \A t \in Turns : At(t, {"tools", "answering"})' => stream'[t] = stream[t]
    BY <1>3
  <2>3. \A t \in Turns : At(t, {"tools", "answering"}) => stream[t].calls # <<>>
    BY DEF IndInv, ProposalsAreKnown
  <2> QED
    BY <2>1, <2>2, <2>3 DEF ProposalsKept
<1>7. CallsKept
  <2>1. \A t \in Turns : At(t, Running)' \/ At(t, Closing)' => stream'[t] = stream[t]
    BY <1>3, Statuses
  <2>2. \A t \in Turns : At(t, Running) => turn[t] # "completed"
    BY DEF IndInv, CallsAreAnswered, AnswersItsCalls
  <2> QED
    BY <2>1, <2>2 DEF CallsKept
<1> QED
  BY <1>2, <1>4, <1>5, <1>6, <1>7, Frame

LEMMA StopTurnPreserves ==
  ASSUME IndInv, NEW t \in Turns, StopTurn(t)
  PROVE  IndInv' /\ Grows(part, part')
<1>1. /\ turn[t] = "working" /\ stopping' = [pc |-> "row", turn |-> t]
      /\ UNCHANGED <<rows, said, stream, page, broken, notes, faults>>
  BY DEF StopTurn
<1>2. TypeOK /\ Parts(part) /\ Grows(part, part')
  BY <1>1, IndInvParts, GrowsItself DEF IndInv
<1>3. TypeOK'
  BY <1>1, <1>2 DEF TypeOK
<1>4. NumbersKept /\ PageKept /\ New = {}
  BY <1>1 DEF NumbersKept, PageKept, New
<1>5. stopping'.turn \in Turns /\ turn'[stopping'.turn] # "none" /\ stopping'.pc # "part"
  BY <1>1
<1> QED
  BY <1>1, <1>2, <1>3, <1>4, <1>5, AsidePreserves

LEMMA StopRowPreserves ==
  ASSUME IndInv, StopRow
  PROVE  IndInv' /\ Grows(part, part')
<1> DEFINE u == stopping.turn
<1>1. /\ stopping.pc = "row" /\ turn' = [turn EXCEPT ![u] = "cut"]
      /\ stopping' = [stopping EXCEPT !.pc = "part"]
      /\ UNCHANGED <<created, gone, part, proposal, stream, said, page, broken, notes, faults>>
  BY DEF StopRow
<1>2. TypeOK /\ Parts(part) /\ Grows(part, part')
  BY <1>1, IndInvParts, GrowsItself DEF IndInv
<1>3. u \in Turns /\ turn[u] # "none" /\ created
  BY <1>1 DEF IndInv, TurnsAreKnown, PartsAreNumbered
<1>4. /\ turn' \in [Turns -> {"none", "working"} \union Terminal] /\ turn'[u] = "cut"
      /\ \A t \in Turns : t # u => turn'[t] = turn[t]
  BY <1>1, <1>2, <1>3, Statuses DEF TypeOK
<1>5. stopping' \in [pc : {"idle", "row", "part"}, turn : Turns \union {Session}] /\ stopping'.turn = u
  BY <1>1, <1>2 DEF TypeOK
<1>6. TypeOK'
  BY <1>1, <1>2, <1>4, <1>5 DEF TypeOK
<1>7. NumbersKept /\ PageKept /\ New = {}
  BY <1>1, <1>3 DEF NumbersKept, PageKept, New
<1>8. \A t \in Turns : turn'[t] = turn[t] \/ (turn[t] # "none" /\ turn'[t] = "cut")
  BY <1>3, <1>4
<1>9. stopping'.turn \in Turns /\ turn'[stopping'.turn] # "none" /\ turn'[stopping'.turn] \in Terminal
  BY <1>3, <1>4, <1>5, Statuses
<1> QED
  BY <1>1, <1>2, <1>6, <1>7, <1>8, <1>9, AsidePreserves

LEMMA StopPartPreserves ==
  ASSUME IndInv, StopPart
  PROVE  IndInv' /\ Grows(part, part')
<1> DEFINE u == stopping.turn
<1>1. /\ stopping.pc = "part" /\ part' = UpdateStatusPart(part, u, "cut") /\ stopping' = NotStopping
      /\ UNCHANGED <<created, gone, turn, proposal, stream, said, page, broken, notes, faults>>
  BY DEF StopPart
<1>2. TypeOK /\ Parts(part)
  BY IndInvParts DEF IndInv
<1>3. /\ Parts(part') /\ Grows(part, part') /\ Len(part') = Len(part)
      /\ \A i \in 1..Len(part) :
           /\ part'[i].content = part[i].content
           /\ part'[i].of = part[i].of \/ part[i].turn = u
  BY <1>1, <1>2, StatusUpdated, Statuses
<1>4. u \in Turns /\ turn[u] \in Terminal /\ created
  BY <1>1, Statuses DEF IndInv, TurnsAreKnown, PartsAreNumbered
<1>5. stopping' \in [pc : {"idle", "row", "part"}, turn : Turns \union {Session}]
  BY <1>1 DEF NotStopping
<1>6. TypeOK'
  BY <1>1, <1>2, <1>3, <1>5 DEF TypeOK, Parts
<1>7. NumbersKept /\ PageKept /\ New = {} /\ DOMAIN part = 1..Len(part)
  BY <1>1, <1>2, <1>3, <1>4, PartsFacts DEF NumbersKept, PageKept, New
<1> QED
  BY <1>1, <1>3, <1>4, <1>6, <1>7, AsidePreserves

LEMMA StopDeletedPreserves ==
  ASSUME IndInv, StopDeleted
  PROVE  IndInv' /\ Grows(part, part')
<1>1. stopping' = NotStopping /\ UNCHANGED <<rows, stream, said, page, broken, notes, faults>>
  BY DEF StopDeleted
<1>2. TypeOK /\ Parts(part) /\ Grows(part, part')
  BY <1>1, IndInvParts, GrowsItself DEF IndInv
<1>3. stopping' \in [pc : {"idle", "row", "part"}, turn : Turns \union {Session}]
  BY <1>1 DEF NotStopping
<1>4. TypeOK'
  BY <1>1, <1>2, <1>3 DEF TypeOK
<1>5. NumbersKept /\ PageKept /\ New = {}
  BY <1>1 DEF NumbersKept, PageKept, New
<1> QED
  BY <1>1, <1>2, <1>4, <1>5, AsidePreserves

\* The rows stay as they were, the parts behind those that are on record.
LEMMA DeleteReportPreserves ==
  ASSUME IndInv, DeleteReport
  PROVE  IndInv' /\ Grows(part, part')
<1>1. /\ ~Deleted /\ notes + faults < MaxIncidents /\ notes' = notes + 1 /\ gone' = Len(part)
      /\ UNCHANGED <<created, part, turn, proposal, stream, said, stopping, page, broken, faults>>
  BY DEF DeleteReport
<1>2. TypeOK /\ Parts(part) /\ Grows(part, part') /\ gone = 0 /\ Len(part) \in Nat /\ DOMAIN part = 1..Len(part)
  BY <1>1, IndInvParts, GrowsItself, PartsFacts DEF IndInv, TypeOK, Deleted
<1>3. gone' \in 0..Len(part') /\ notes' \in 0..MaxIncidents
  BY <1>1, <1>2, TranscriptAssumption DEF TypeOK
<1>4. TypeOK'
  BY <1>1, <1>2, <1>3 DEF TypeOK
<1>5. PartsAreNumbered'
  <2>1. \A i \in DOMAIN part : Place(i)' = Place(i)
    BY <1>1, <1>2 DEF Place
  <2> QED
    BY <1>1, <2>1 DEF IndInv, PartsAreNumbered
<1>6. WritersOwnTheirParts'
  <2> SUFFICES ASSUME NEW t \in Turns, NEW w \in Writers PROVE OwnsItsPart(t, w)'
    BY DEF WritersOwnTheirParts
  <2>1. OwnsItsPart(t, w)
    BY DEF IndInv, WritersOwnTheirParts
  <2>2. \A i \in Of(t, w) : ~(i > gone')
    BY <1>1, <1>2 DEF Of
  <2> QED
    BY <1>1, <2>1, <2>2 DEF OwnsItsPart, Of
<1>7. PageFollows'
  BY <1>1, <1>2 DEF IndInv, PageFollows, Deleted
<1>8. TurnsAreKnown'
  BY <1>1 DEF IndInv, TurnsAreKnown
<1>9. ProposalsAreKnown'
  BY <1>1 DEF IndInv, ProposalsAreKnown, QueryResults, Of, Asked
<1>10. ProposalsCiteWhatWasRead'
  BY <1>1 DEF IndInv, ProposalsCiteWhatWasRead, QueryResults, Of, Answers
<1>11. CallsAreNumbered'
  BY <1>1 DEF IndInv, CallsAreNumbered, NumbersItsCalls, Of, Answers
<1>12. CallsAreAnswered'
  <2> SUFFICES ASSUME NEW t \in Turns PROVE AnswersItsCalls(t)'
    BY DEF CallsAreAnswered
  <2>1. AnswersItsCalls(t) /\ part' = part /\ stream' = stream /\ turn' = turn
    BY <1>1 DEF IndInv, CallsAreAnswered
  <2>2. Of(t, "call")' = Of(t, "call") /\ Of(t, "result")' = Of(t, "result")
    BY <2>1 DEF Of
  <2>3. \A i : Answered(t, i)' <=> Answered(t, i)
    BY <2>1, <2>2 DEF Answered, Answers
  <2>4. \A k, i : Asked(t, k, i)' <=> Asked(t, k, i)
    BY <2>1 DEF Asked
  <2> QED
    BY <2>1, <2>2, <2>3, <2>4 DEF AnswersItsCalls
<1> QED
  BY <1>2, <1>4, <1>5, <1>6, <1>7, <1>8, <1>9, <1>10, <1>11, <1>12 DEF IndInv

\* A part that is of no turn is inserted.
LEMMA NotePreserves ==
  ASSUME IndInv, NEW kind \in {"result", "direct-edit"}, NEW of \in OfKind(kind),
         part' = InsertPart(part, Session, kind, <<>>, of, 0), created,
         notes + faults < MaxIncidents, notes' = notes + 1,
         UNCHANGED <<created, gone, turn, proposal, stream, said, stopping, page, broken, faults>>
  PROVE  IndInv' /\ Grows(part, part')
<1>1. TypeOK /\ Parts(part)
  BY IndInvParts DEF IndInv
<1> DEFINE x == [turn |-> Session, sequence |-> NextSequence(part), kind |-> kind, content |-> <<>>,
                 of |-> of, proposal |-> 0]
           n == Len(part) + 1
<1>2. Extends(part', part, x)
  <2>1. <<>> \in Heard /\ kind \in Kinds /\ Session \in Turns \union {Session} /\ 0 \in Nat
    BY HeardFacts DEF Kinds
  <2> QED
    BY <1>1, <2>1, Inserted
<1>3. /\ Parts(part') /\ Len(part') >= Len(part) /\ DOMAIN part = 1..Len(part) /\ DOMAIN part' = 1..n
      /\ n \in Nat /\ \A i \in 1..Len(part) : part'[i] = part[i]
      /\ part'[n] = x
  <2>1. Len(part) \in Nat /\ n - 1 = Len(part)
    BY <1>1, PartsFacts
  <2> HIDE DEF x
  <2> QED
    BY <1>2, <2>1 DEF Extends
<1>4. Grows(part, part') /\ New = {n}
  BY <1>1, <1>3, InsertedGrows DEF New
<1>5. notes' \in 0..MaxIncidents
  BY <1>1, TranscriptAssumption DEF TypeOK
<1>6. TypeOK'
  BY <1>1, <1>3, <1>5 DEF TypeOK, Parts
<1>7. NumbersKept /\ PageKept
  BY DEF NumbersKept, PageKept
<1>8. of \notin Terminal
  BY DEF OfKind, Terminal, Tools, Queries
<1>9. \A i \in New : /\ part'[i].turn = Session /\ part'[i].kind # "status"
                     /\ part'[i].of \notin Terminal /\ part'[i].proposal = 0
  BY <1>3, <1>4, <1>8
<1> QED
  BY <1>3, <1>4, <1>6, <1>7, <1>9, AsidePreserves

LEMMA RefreshPreserves == IndInv /\ Refresh => IndInv' /\ Grows(part, part')
<1> SUFFICES ASSUME IndInv, Refresh PROVE IndInv' /\ Grows(part, part')
  OBVIOUS
<1>1. PICK i \in SessionToolResults(part) : part' = InsertPart(part, Session, "result", <<>>, part[i].of, 0)
  BY DEF Refresh
<1>2. i \in DOMAIN part /\ part[i].of \in OfKind("result")
  BY <1>1 DEF SessionToolResults, OfKind, Tools
<1>3. created
  BY <1>2 DEF IndInv, PartsAreNumbered
<1> QED
  BY <1>1, <1>2, <1>3, NotePreserves DEF Refresh

LEMMA DirectEditPreserves == IndInv /\ RecordDirectEdit => IndInv' /\ Grows(part, part')
<1> SUFFICES ASSUME IndInv, RecordDirectEdit PROVE IndInv' /\ Grows(part, part')
  OBVIOUS
<1>1. created /\ "none" \in OfKind("direct-edit")
  BY DEF RecordDirectEdit, IndInv, PartsAreNumbered, OfKind
<1> QED
  BY <1>1, NotePreserves DEF RecordDirectEdit

LEMMA CrashPreserves == IndInv /\ Crash => IndInv' /\ Grows(part, part')
<1> SUFFICES ASSUME IndInv, Crash PROVE IndInv' /\ Grows(part, part')
  OBVIOUS
<1> DEFINE lost == [NoStream EXCEPT !.pc = "lost"]
<1>1. /\ notes + faults < MaxIncidents /\ faults' = faults + 1
      /\ stream' = [t \in Turns |-> IF At(t, Running \union Closing) THEN lost ELSE stream[t]]
      /\ stopping' = NotStopping /\ page' = NoPage
      /\ UNCHANGED <<rows, said, broken, notes>>
  BY DEF Crash
<1>2. TypeOK /\ Parts(part) /\ Grows(part, part')
  BY <1>1, IndInvParts, GrowsItself DEF IndInv
<1>3. lost \in Stream
  BY NoStreamIsAStream DEF NoStream, Stream
<1>4. stream' \in [Turns -> Stream]
  <2> HIDE DEF lost
  <2> QED
    BY <1>1, <1>2, <1>3 DEF TypeOK
<1>5. /\ stopping' \in [pc : {"idle", "row", "part"}, turn : Turns \union {Session}]
      /\ page' \in [read : 0..3, parts : SUBSET Turns, ended : SUBSET Turns, proposals : SUBSET Nat]
  BY <1>1 DEF NotStopping, NoPage
<1>6. faults' \in 0..MaxIncidents
  BY <1>1, <1>2, TranscriptAssumption DEF TypeOK
<1>7. TypeOK'
  BY <1>1, <1>2, <1>4, <1>5, <1>6 DEF TypeOK
<1>8. NumbersKept /\ PageKept /\ New = {}
  BY <1>1 DEF NumbersKept, PageKept, New, IndInv, PartsAreNumbered
<1>9. ASSUME NEW t \in Turns
      PROVE  stream'[t] = stream[t] \/ (stream[t].pc # "none" /\ stream'[t] = lost)
  <2> HIDE DEF lost
  <2>1. CASE At(t, Running \union Closing)
    BY <1>1, <2>1, Statuses
  <2>2. CASE ~At(t, Running \union Closing)
    BY <1>1, <2>2
  <2> QED
    BY <2>1, <2>2
<1> QED
  BY <1>1, <1>2, <1>7, <1>8, <1>9, AsidePreserves

LEMMA ClosePagePreserves == IndInv /\ ClosePage => IndInv' /\ Grows(part, part')
<1> SUFFICES ASSUME IndInv, ClosePage PROVE IndInv' /\ Grows(part, part')
  OBVIOUS
<1>1. page' = NoPage /\ UNCHANGED <<rows, stream, said, stopping, broken, notes, faults>>
  BY DEF ClosePage
<1>2. TypeOK /\ Parts(part) /\ Grows(part, part')
  BY <1>1, IndInvParts, GrowsItself DEF IndInv
<1>3. TypeOK'
  BY <1>1, <1>2 DEF TypeOK, NoPage
<1>4. NumbersKept /\ PageKept /\ New = {}
  BY <1>1 DEF NumbersKept, PageKept, New
<1> QED
  BY <1>1, <1>2, <1>3, <1>4, AsidePreserves

LEMMA StutterPreserves == IndInv /\ UNCHANGED vars => IndInv' /\ Grows(part, part')
<1> SUFFICES ASSUME IndInv, UNCHANGED vars PROVE IndInv' /\ Grows(part, part')
  OBVIOUS
<1>1. UNCHANGED <<page, rows, stream, said, stopping, broken, notes, faults>>
  BY DEF vars
<1>2. TypeOK /\ Parts(part) /\ Grows(part, part')
  BY <1>1, IndInvParts, GrowsItself DEF IndInv
<1>3. TypeOK'
  BY <1>1, <1>2 DEF TypeOK
<1>4. NumbersKept /\ PageKept /\ New = {}
  BY <1>1 DEF NumbersKept, PageKept, New
<1> QED
  BY <1>1, <1>2, <1>3, <1>4, AsidePreserves

LEMMA ReadPagePreserves == IndInv /\ ReadPage => IndInv' /\ Grows(part, part')
<1> SUFFICES ASSUME IndInv, ReadPage PROVE IndInv' /\ Grows(part, part')
  OBVIOUS
<1>1. UNCHANGED <<rows, stream, said, stopping, broken, notes, faults>>
  BY DEF ReadPage
<1>2. TypeOK /\ Parts(part) /\ Grows(part, part')
  BY <1>1, IndInvParts, GrowsItself DEF IndInv
<1>3. /\ page.read \in 0..2
      /\ page.read = 0 => page' = [WithParts EXCEPT !.read = 1]
      /\ page.read = 1 => page' = [WithTurns EXCEPT !.read = 2]
      /\ page.read = 2 => page' = [WithProposals EXCEPT !.read = 3]
  <2>1. page.read \in 0..3 /\ page.read < Len(PageReads) /\ Len(PageReads) = 3
    BY <1>2 DEF ReadPage, PageReads, TypeOK
  <2>2. page' = [With(PageReads[page.read + 1]) EXCEPT !.read = page.read + 1]
    BY DEF ReadPage
  <2> QED
    BY <2>1, <2>2 DEF PageReads, With
<1>0. (page.read = 0 => ~Deleted) /\ (Deleted' <=> Deleted)
  BY <1>1 DEF ReadPage, Deleted
<1> DEFINE Page == [read : 0..3, parts : SUBSET Turns, ended : SUBSET Turns, proposals : SUBSET Nat]
<1>4. page \in Page
  BY <1>2 DEF TypeOK
<1>5. \A i \in DOMAIN part : part[i].turn \in Turns \union {Session} /\ part[i].proposal \in Nat
  <2>1. \A i \in DOMAIN part : part[i].turn \in Turns \union {Session} /\ part[i] \in Part
    BY <1>2, PartsFacts
  <2> QED
    BY <2>1 DEF Part
<1>6. ASSUME page.read = 0 PROVE page' \in Page /\ PageFollows'
  <2> DEFINE P == {part[i].turn : i \in OnRecord(part)} \ {Session}
             E == {t \in Turns : \E i \in OnRecord(part) :
                     part[i].kind = "status" /\ part[i].turn = t /\ part[i].of \in Terminal}
             Q == {part[i].proposal : i \in OnRecord(part)} \ {0}
  <2>0. OnRecord(part) \subseteq DOMAIN part
    BY DEF OnRecord
  <2>1. page' = [[page EXCEPT !.parts = P, !.ended = E, !.proposals = Q] EXCEPT !.read = 1]
    BY <1>3, <1>6 DEF WithParts
  <2>2. P \in SUBSET Turns /\ E \in SUBSET Turns /\ Q \in SUBSET Nat
    BY <1>5, <2>0
  <2>3. \A t \in P : turn[t] # "none"
    BY <2>0 DEF IndInv, TurnsAreKnown
  <2>4. \A t \in E : turn[t] \in Terminal
    BY <2>0 DEF IndInv, TurnsAreKnown
  <2>5. Q \subseteq DOMAIN proposal
    BY <2>0 DEF IndInv, ProposalsAreKnown
  <2> HIDE DEF P, E, Q
  <2>6. page' = [read |-> 1, parts |-> P, ended |-> E, proposals |-> Q]
    BY <1>4, <2>1
  <2> QED
    BY <1>1, <2>2, <2>3, <2>4, <2>5, <2>6 DEF PageFollows
<1>7. ASSUME page.read = 1, ~Deleted PROVE page' \in Page /\ PageFollows'
  <2> DEFINE P == page.parts \intersect Unused
             E == {t \in page.ended : turn[t] \notin Terminal}
  <2>1. page' = [[page EXCEPT !.parts = P, !.ended = E] EXCEPT !.read = 2]
    BY <1>3, <1>7 DEF WithTurns
  <2>2. P = {} /\ E = {} /\ page.proposals \subseteq DOMAIN proposal
    BY <1>7 DEF IndInv, PageFollows, Unused
  <2> HIDE DEF P, E
  <2>3. page' = [read |-> 2, parts |-> P, ended |-> E, proposals |-> page.proposals]
    BY <1>4, <2>1
  <2> QED
    BY <1>1, <1>4, <2>2, <2>3 DEF PageFollows
<1>8. ASSUME page.read = 2, ~Deleted PROVE page' \in Page /\ PageFollows'
  <2> DEFINE Q == page.proposals \ DOMAIN proposal
  <2>1. page' = [[page EXCEPT !.proposals = Q] EXCEPT !.read = 3]
    BY <1>3, <1>8 DEF WithProposals
  <2>2. page.parts = {} /\ page.ended = {} /\ Q = {}
    BY <1>8 DEF IndInv, PageFollows
  <2> HIDE DEF Q
  <2>3. page' = [read |-> 3, parts |-> page.parts, ended |-> page.ended, proposals |-> Q]
    BY <1>4, <2>1
  <2> QED
    BY <1>1, <2>2, <2>3 DEF PageFollows
<1>18. ASSUME page.read # 0, Deleted PROVE page' \in Page /\ PageFollows'
  <2>1. page' = [page EXCEPT !.read = page.read + 1] /\ page.read + 1 \in 1..3
    BY <1>3, <1>18 DEF WithTurns, WithProposals
  <2>2. page' \in Page /\ page'.read # 0
    BY <1>4, <2>1
  <2> QED
    BY <1>0, <1>18, <2>2 DEF PageFollows
<1>9. page' \in Page /\ PageFollows'
  <2> HIDE DEF Page
  <2>1. page.read = 0 \/ page.read = 1 \/ page.read = 2
    BY <1>3
  <2> QED
    BY <1>0, <1>6, <1>7, <1>8, <1>18, <2>1
<1>10. TypeOK'
  BY <1>1, <1>2, <1>9 DEF TypeOK
<1>11. Step /\ New = {}
  BY <1>1, <1>2, <1>10 DEF Step, New, TypeOK
<1>12. NumbersKept
  BY <1>1 DEF NumbersKept
<1>13. TurnsKept
  BY <1>1, <1>11 DEF TurnsKept, IndInv, TurnsAreKnown
<1>14. WritersKept
  BY <1>1, <1>11, OthersKeep DEF WritersKept
<1>15. ProposalsKept
  BY <1>1, <1>11 DEF ProposalsKept, IndInv, ProposalsAreKnown
<1>16. CallsKept
  BY <1>1, <1>11 DEF CallsKept, IndInv, CallsAreAnswered, AnswersItsCalls
<1>17. /\ PartsAreNumbered' /\ TurnsAreKnown' /\ WritersOwnTheirParts'
       /\ ProposalsAreKnown' /\ ProposalsCiteWhatWasRead' /\ CallsAreNumbered' /\ CallsAreAnswered'
  BY <1>11, <1>12, <1>13, <1>14, <1>15, <1>16, Frame
<1> QED
  BY <1>2, <1>9, <1>10, <1>17 DEF IndInv

(***************************************************************************)
(* The end of a stream.                                                    *)
(***************************************************************************)
\* A stream that is closing goes on closing, or returns.
LEMMA ClosingPreserves ==
  ASSUME IndInv, NEW t \in Turns, At(t, Closing), NEW x \in Stream, stream' = [stream EXCEPT ![t] = x],
         UNCHANGED <<created, gone, proposal, said, stopping, page, notes>>,
         faults' \in 0..MaxIncidents, broken' \subseteq Turns, broken \subseteq broken',
         turn' = turn \/ turn' = [turn EXCEPT ![t] = stream[t].ending],
         Parts(part'), Grows(part, part'), Len(part') = Len(part),
         \A i \in DOMAIN part : part'[i].of = part[i].of \/ (part[i].turn = t /\ turn'[t] \in Terminal),
         x.pc \in Closing \union {"returned"}, x.pc \in Closing => x.ending \in Terminal,
         x.pc = "finishPart" => turn'[t] \in Terminal,
         x.pc \in Closing /\ x.ending = "completed" => stream[t].ending = "completed",
         Step => WritersOwnTheirParts'
  PROVE  IndInv' /\ Grows(part, part')
<1>1. TypeOK /\ Parts(part) /\ stream[t].ending \in Terminal /\ turn[t] # "none" /\ created
  <2>1. stream[t].pc # "none"
    BY Statuses
  <2> QED
    BY <2>1, Active, IndInvParts DEF IndInv, TurnsAreKnown
<1>2. /\ stream' \in [Turns -> Stream] /\ stream'[t] = x
      /\ \A u \in Turns : u # t => stream'[u] = stream[u]
  BY <1>1, Moves
<1>3. /\ turn' \in [Turns -> {"none", "working"} \union Terminal]
      /\ turn'[t] = turn[t] \/ turn'[t] = stream[t].ending
      /\ \A u \in Turns : u # t => turn'[u] = turn[u]
  BY <1>1 DEF TypeOK
<1>4. TypeOK'
  BY <1>1, <1>2, <1>3 DEF TypeOK, Parts
<1>5. Step
  <2>1. \A u \in Turns : /\ turn[u] # "none" => turn'[u] # "none"
                         /\ turn[u] \in Terminal => turn'[u] \in Terminal
    BY <1>1, <1>3, Statuses
  <2>2. said <= said'
    BY <1>1 DEF TypeOK
  <2> QED
    BY <1>1, <1>4, <2>1, <2>2 DEF Step
<1>6. New = {} /\ DOMAIN part = 1..Len(part)
  BY <1>1, <1>5, StepFacts DEF New
<1>7. NumbersKept /\ PageKept
  BY <1>1 DEF NumbersKept, PageKept
<1>8. TurnsKept
  <2>1. \A u \in Turns : turn'[u] = "none" => turn[u] = "none" /\ stream'[u] = stream[u]
    BY <1>1, <1>2, <1>3, Statuses
  <2>2. ASSUME NEW u \in Turns
        PROVE  /\ At(u, Closing)' => stream'[u].ending \in Terminal
               /\ At(u, {"finishPart"})' => turn'[u] \in Terminal
    <3>1. CASE u = t
      BY <1>2, <3>1
    <3>2. CASE u # t
      BY <1>2, <1>3, <3>2 DEF IndInv, TurnsAreKnown
    <3> QED
      BY <3>1, <3>2
  <2> QED
    BY <1>6, <2>1, <2>2 DEF TurnsKept
<1>9. ProposalsKept
  <2>1. x.pc \notin {"tools", "answering"}
    BY DEF Closing
  <2>2. \A u \in Turns : At(u, {"tools", "answering"})' => stream'[u] = stream[u]
    BY <1>2, <2>1
  <2> QED
    BY <1>6, <2>2 DEF ProposalsKept, IndInv, ProposalsAreKnown
<1>10. CallsKept
  <2>1. ASSUME NEW u \in Turns, At(u, Running)'
        PROVE  turn'[u] # "completed" /\ At(u, Running) /\ stream'[u].calls = stream[u].calls
    <3>1. u # t
      BY <1>2, <2>1, Statuses
    <3> QED
      BY <1>2, <1>3, <2>1, <3>1 DEF IndInv, CallsAreAnswered, AnswersItsCalls
  <2>2. ASSUME NEW u \in Turns, turn'[u] = "completed" \/ (At(u, Closing)' /\ stream'[u].ending = "completed")
        PROVE  turn[u] = "completed" \/ (At(u, Closing) /\ stream[u].ending = "completed")
    <3>1. CASE u = t
      BY <1>2, <1>3, <2>2, <3>1
    <3>2. CASE u # t
      BY <1>2, <1>3, <2>2, <3>2
    <3> QED
      BY <3>1, <3>2
  <2> QED
    BY <1>6, <2>1, <2>2 DEF CallsKept
<1>11. /\ PartsAreNumbered' /\ TurnsAreKnown' /\ ProposalsAreKnown' /\ ProposalsCiteWhatWasRead'
       /\ CallsAreNumbered' /\ CallsAreAnswered' /\ PageFollows'
  BY <1>5, <1>7, <1>8, <1>9, <1>10, Frame
<1> QED
  BY <1>4, <1>5, <1>11 DEF IndInv

LEMMA Returns ==
  ASSUME NEW s \in Stream
  PROVE  /\ Returned(s) \in Stream /\ Returned(s).pc = "returned"
         /\ Returned(s).heard = s.heard /\ Returned(s).id = s.id
<1>1. s.heard \in [Writers -> Heard] /\ s.id \in [Writers -> Nat]
  BY DEF Stream
<1> QED
  BY <1>1, NoStreamIsAStream DEF Returned, NoStream, Stream

\* A statement of the end of a stream moves it on.
LEMMA FinishMoves ==
  ASSUME TypeOK, NEW t \in Turns, At(t, Closing), stream[t].ending \in Terminal,
         NEW ok \in BOOLEAN, NEW next \in {"finishPart", "returned"},
         Proceed(t, ok \/ stream[t].ending # "completed",
                 IF ok /\ next # "returned" THEN [stream[t] EXCEPT !.pc = next] ELSE Returned(stream[t]))
  PROVE  \E x \in Stream :
           /\ stream' = [stream EXCEPT ![t] = x]
           /\ x.id = stream[t].id /\ x.heard = stream[t].heard
           /\ x.pc \in Closing \union {"returned"} /\ (x.pc \in Closing => x.ending \in Terminal)
           /\ x.pc = "finishPart" => ok /\ next = "finishPart"
           /\ x.pc \in Closing /\ x.ending = "completed" => stream[t].ending = "completed"
<1> DEFINE s == stream[t]
           y == IF ok /\ next # "returned" THEN [s EXCEPT !.pc = next] ELSE Returned(s)
           x == IF ok \/ s.ending # "completed" THEN y ELSE EndWith(y, "cut")
<1>1. s \in Stream
  BY Streams
<1>2. /\ y \in Stream /\ y.id = s.id /\ y.heard = s.heard
      /\ y.pc = "returned" \/ (ok /\ next = "finishPart" /\ y.pc = "finishPart" /\ y.ending = s.ending)
  <2>1. CASE ok /\ next # "returned"
    <3>1. y = [s EXCEPT !.pc = "finishPart"] /\ ok /\ next = "finishPart"
      BY <2>1
    <3>2. [s EXCEPT !.pc = "finishPart"] \in Stream
      BY <1>1 DEF Stream, Closing
    <3> QED
      BY <1>1, <3>1, <3>2 DEF Stream
  <2>2. CASE ~(ok /\ next # "returned")
    BY <1>1, <2>2, Returns
  <2> QED
    BY <2>1, <2>2
<1>3. stream' = [stream EXCEPT ![t] = x]
  BY DEF Proceed
<1> HIDE DEF y
<1>4. CASE ok \/ s.ending # "completed"
  BY <1>1, <1>2, <1>3, <1>4, Statuses DEF Closing
<1>5. CASE ~(ok \/ s.ending # "completed")
  <2>1. /\ x \in Stream /\ x.pc = "flush" /\ x.ending = "cut" /\ x.id = s.id /\ x.heard = s.heard
    BY <1>2, <1>5, EndsWith, Statuses
  <2> HIDE DEF x
  <2> QED
    BY <1>3, <2>1, Statuses
<1> QED
  BY <1>4, <1>5

\* The writers of a stream that finishes keep what they have.
LEMMA FinishKeepsWriters ==
  ASSUME IndInv, NEW t \in Turns, At(t, {"finishRow", "finishPart"}), NEW x \in Stream,
         stream' = [stream EXCEPT ![t] = x], x.id = stream[t].id, x.heard = stream[t].heard,
         \A i \in 1..Len(part) : part'[i].content = part[i].content, Step
  PROVE  WritersOwnTheirParts'
<1>1. /\ stream'[t] = x /\ \A u \in Turns : u # t => stream'[u] = stream[u]
  BY Moves DEF IndInv
<1>2. ASSUME NEW u \in Turns, NEW w \in Writers PROVE KeepsItsPart(u, w)
  <2>1. stream[u].id[w] # 0 => stream[u].id[w] \in 1..Len(part)
    BY StepFacts DEF IndInv, WritersOwnTheirParts, OwnsItsPart, Of
  <2>2. At(t, Finishing)
    BY DEF Finishing
  <2> QED
    BY <1>1, <2>1, <2>2 DEF KeepsItsPart
<1> QED
  BY <1>2, Frame DEF WritersKept

LEMMA FinishRowPreserves ==
  ASSUME IndInv, NEW t \in Turns, FinishRow(t)
  PROVE  IndInv' /\ Grows(part, part')
<1> DEFINE s == stream[t]
<1>1. TypeOK /\ Parts(part) /\ s.pc = "finishRow" /\ s.ending \in Terminal /\ At(t, Closing)
  BY IndInvParts DEF IndInv, TurnsAreKnown, FinishRow, Finish, Closing
<1>2. PICK ok \in Outcomes :
        /\ Record(t, ok)
        /\ turn' = IF ok THEN [turn EXCEPT ![t] = s.ending] ELSE turn
        /\ part' = part
        /\ Proceed(t, ok \/ s.ending # "completed",
                   IF ok /\ "finishPart" # "returned" THEN [s EXCEPT !.pc = "finishPart"] ELSE Returned(s))
  BY DEF FinishRow, Finish
<1>3. UNCHANGED <<created, gone, proposal, said, stopping, page, notes>>
  BY DEF FinishRow, Finish
<1>4. ok \in BOOLEAN /\ faults' \in 0..MaxIncidents /\ broken' \subseteq Turns /\ broken \subseteq broken'
  BY <1>1, <1>2, Records
<1>5. PICK x \in Stream :
           /\ stream' = [stream EXCEPT ![t] = x]
           /\ x.id = s.id /\ x.heard = s.heard
           /\ x.pc \in Closing \union {"returned"} /\ (x.pc \in Closing => x.ending \in Terminal)
           /\ x.pc = "finishPart" => ok
           /\ x.pc \in Closing /\ x.ending = "completed" => s.ending = "completed"
  BY <1>1, <1>2, <1>4, FinishMoves
<1>6. Parts(part') /\ Grows(part, part')
  BY <1>1, <1>2, GrowsItself
<1>7. ok => turn'[t] \in Terminal
  BY <1>1, <1>2 DEF TypeOK
<1>8. Step => WritersOwnTheirParts'
  BY <1>1, <1>2, <1>5, FinishKeepsWriters
<1> QED
  BY <1>1, <1>2, <1>3, <1>4, <1>5, <1>6, <1>7, <1>8, ClosingPreserves

LEMMA FinishPartPreserves ==
  ASSUME IndInv, NEW t \in Turns, FinishPart(t)
  PROVE  IndInv' /\ Grows(part, part')
<1> DEFINE s == stream[t]
<1>1. TypeOK /\ Parts(part) /\ s.pc = "finishPart" /\ s.ending \in Terminal /\ At(t, Closing) /\ turn[t] \in Terminal
  BY IndInvParts DEF IndInv, TurnsAreKnown, FinishPart, Finish, Closing
<1>2. PICK ok \in Outcomes :
        /\ Record(t, ok)
        /\ turn' = turn
        /\ part' = IF ok THEN UpdateStatusPart(part, t, s.ending) ELSE part
        /\ Proceed(t, ok \/ s.ending # "completed",
                   IF ok /\ "returned" # "returned" THEN [s EXCEPT !.pc = "returned"] ELSE Returned(s))
  BY DEF FinishPart, Finish
<1>3. UNCHANGED <<created, gone, proposal, said, stopping, page, notes>>
  BY DEF FinishPart, Finish
<1>4. ok \in BOOLEAN /\ faults' \in 0..MaxIncidents /\ broken' \subseteq Turns /\ broken \subseteq broken'
  BY <1>1, <1>2, Records
<1>5. PICK x \in Stream :
           /\ stream' = [stream EXCEPT ![t] = x]
           /\ x.id = s.id /\ x.heard = s.heard
           /\ x.pc \in Closing \union {"returned"} /\ (x.pc \in Closing => x.ending \in Terminal)
           /\ x.pc # "finishPart"
           /\ x.pc \in Closing /\ x.ending = "completed" => s.ending = "completed"
  BY <1>1, <1>2, <1>4, FinishMoves
<1>6. /\ Parts(part') /\ Grows(part, part') /\ Len(part') = Len(part) /\ DOMAIN part = 1..Len(part)
      /\ \A i \in 1..Len(part) : /\ part'[i].content = part[i].content
                                 /\ part'[i].of = part[i].of \/ part[i].turn = t
  <2>1. CASE ok
    BY <1>1, <1>2, <2>1, StatusUpdated, PartsFacts
  <2>2. CASE ~ok
    BY <1>1, <1>2, <2>2, GrowsItself, PartsFacts
  <2> QED
    BY <2>1, <2>2
<1>8. Step => WritersOwnTheirParts'
  BY <1>1, <1>5, <1>6, FinishKeepsWriters
<1> QED
  BY <1>1, <1>2, <1>3, <1>4, <1>5, <1>6, <1>8, ClosingPreserves

LEMMA FinishDeletedPreserves ==
  ASSUME IndInv, NEW t \in Turns, FinishDeleted(t)
  PROVE  IndInv' /\ Grows(part, part')
<1> DEFINE s == stream[t]
<1>1. /\ TypeOK /\ Parts(part) /\ At(t, {"finishRow", "finishPart"}) /\ s.ending \in Terminal /\ At(t, Closing)
      /\ UNCHANGED <<rows, said, stopping, page, broken, notes, faults>>
  BY IndInvParts DEF IndInv, TurnsAreKnown, FinishDeleted, Closing
<1>2. PICK ok \in BOOLEAN : Proceed(t, ok \/ s.ending # "completed", Returned(s))
  BY DEF FinishDeleted
<1>3. Proceed(t, ok \/ s.ending # "completed",
              IF ok /\ "returned" # "returned" THEN [s EXCEPT !.pc = "returned"] ELSE Returned(s))
  BY <1>2
<1>4. PICK x \in Stream :
           /\ stream' = [stream EXCEPT ![t] = x]
           /\ x.id = s.id /\ x.heard = s.heard
           /\ x.pc \in Closing \union {"returned"} /\ (x.pc \in Closing => x.ending \in Terminal)
           /\ x.pc # "finishPart"
           /\ x.pc \in Closing /\ x.ending = "completed" => s.ending = "completed"
  BY <1>1, <1>3, FinishMoves
<1>5. /\ Parts(part') /\ Grows(part, part') /\ broken' \subseteq Turns /\ broken \subseteq broken'
      /\ faults' \in 0..MaxIncidents
  BY <1>1, GrowsItself DEF TypeOK
<1>6. Step => WritersOwnTheirParts'
  BY <1>1, <1>4, FinishKeepsWriters
<1> QED
  BY <1>1, <1>4, <1>5, <1>6, ClosingPreserves

LEMMA FlushPreserves ==
  ASSUME IndInv, NEW t \in Turns, Flush(t)
  PROVE  IndInv' /\ Grows(part, part')
<1> DEFINE s == stream[t]
           Owed == {w \in Writers : s.id[w] # 0}
<1>1. /\ TypeOK /\ Parts(part) /\ s \in Stream /\ s.pc = "flush" /\ s.ending \in Terminal /\ At(t, Closing)
      /\ UNCHANGED <<created, gone, turn, proposal, said, stopping, page, notes>>
  BY IndInvParts, Streams DEF IndInv, TurnsAreKnown, Flush, Closing
<1>2. PICK failed \in SUBSET Owed :
          /\ failed # {} => FALSE \in Outcomes
          /\ Record(t, failed = {})
          /\ part' = [i \in DOMAIN part |->
               IF i > gone /\ \E w \in Owed \ failed : s.id[w] = i
               THEN [part[i] EXCEPT !.content = s.heard[part[i].kind]] ELSE part[i]]
          /\ Proceed(t, failed = {} \/ s.ending # "completed", [s EXCEPT !.pc = "finishRow"])
  BY DEF Flush
<1> DEFINE ok == failed = {}
<1>3. ok \in Outcomes
  BY <1>2 DEF Outcomes
<1>4. /\ faults' \in 0..MaxIncidents /\ broken' \subseteq Turns /\ broken \subseteq broken' /\ (~ok => t \in broken')
  <2> HIDE DEF ok
  <2>1. Record(t, ok)
    BY <1>2 DEF ok
  <2> QED
    BY <1>1, <1>3, <2>1, Records
<1> DEFINE y == [s EXCEPT !.pc = "finishRow"]
           x == IF ok \/ s.ending # "completed" THEN y ELSE EndWith(y, "cut")
<1>5. /\ x \in Stream /\ x.id = s.id /\ x.heard = s.heard
      /\ x.pc \in {"finishRow", "flush"} /\ x.ending \in Terminal
      /\ x.ending = "completed" => s.ending = "completed"
  <2>1. y \in Stream /\ y.id = s.id /\ y.heard = s.heard /\ y.pc = "finishRow" /\ y.ending = s.ending
    BY <1>1 DEF Stream, Closing
  <2> HIDE DEF y, ok
  <2>2. CASE ok \/ s.ending # "completed"
    BY <1>1, <2>1, <2>2
  <2>3. CASE ~(ok \/ s.ending # "completed")
    BY <2>1, <2>3, EndsWith, Statuses
  <2> QED
    BY <2>2, <2>3
<1>6. stream' = [stream EXCEPT ![t] = x]
  BY <1>2 DEF Proceed
<1> HIDE DEF x, y
<1> DEFINE n == Len(part)
           changed == {i \in 1..n : i > gone /\ \E w \in Owed \ failed : s.id[w] = i}
           content == [i \in changed |-> s.heard[part[i].kind]]
<1>7. ASSUME NEW w \in Writers, s.id[w] # 0
      PROVE  /\ s.id[w] \in 1..n /\ part[s.id[w]].kind = w /\ part[s.id[w]].turn = t
             /\ IsPrefix(part[s.id[w]].content, s.heard[w]) /\ s.heard[w] \in Heard
  BY <1>1, <1>7, Streams, PartsFacts DEF IndInv, WritersOwnTheirParts, OwnsItsPart, Of
<1>8. /\ content \in [changed -> Heard]
      /\ \A i \in changed : part[i].kind \in Writers /\ IsPrefix(part[i].content, content[i])
  BY <1>7
<1>9. part' = Rewrite(part, changed, content)
  <2>1. DOMAIN part = 1..n
    BY <1>1, PartsFacts
  <2> QED
    BY <1>2, <2>1 DEF Rewrite
<1>10. changed \in SUBSET (1..n)
  OBVIOUS
<1> HIDE DEF content
<1>11. /\ Parts(part') /\ Grows(part, part') /\ Len(part') = n
       /\ \A i \in 1..n :
            /\ part'[i].turn = part[i].turn /\ part'[i].kind = part[i].kind
            /\ part'[i].of = part[i].of
            /\ part'[i].content = IF i \in changed THEN content[i] ELSE part[i].content
  <2> HIDE DEF changed
  <2> QED
    BY <1>1, <1>8, <1>9, <1>10, ContentsUpdated DEF IsRewritten
<1>12. ASSUME Step PROVE WritersOwnTheirParts'
  <2>1. /\ stream'[t] = x /\ \A u \in Turns : u # t => stream'[u] = stream[u]
    BY <1>1, <1>5, <1>6, Moves
  <2>2. ASSUME NEW u \in Turns, u # t, NEW w \in Writers PROVE OwnsItsPart(u, w)'
    <3>1. OwnsItsPart(u, w)
      BY DEF IndInv, WritersOwnTheirParts
    <3>2. stream[u].id[w] # 0 => stream[u].id[w] \in 1..n /\ part[stream[u].id[w]].turn = u
      BY <1>1, <3>1, PartsFacts DEF OwnsItsPart, Of
    <3>3. stream[u].id[w] # 0 => stream[u].id[w] \notin changed
      BY <1>7, <2>2, <3>2
    <3>4. KeepsItsPart(u, w)
      BY <1>11, <1>12, <2>1, <2>2, <3>2, <3>3, OthersKeep
    <3> QED
      BY <1>12, <3>1, <3>4, WriterFrame
  <2>3. ASSUME NEW w \in Writers PROVE OwnsItsPart(t, w)'
    <3> DEFINE i == s.id[w]
    <3>1. OwnsItsPart(t, w)
      BY DEF IndInv, WritersOwnTheirParts
    <3>2. CASE i = 0
      <4>1. KeepsItsPart(t, w)
        BY <1>5, <2>1, <3>2 DEF KeepsItsPart
      <4> QED
        BY <1>12, <3>1, <4>1, WriterFrame
    <3>3. CASE i # 0
      <4>1. i \in 1..n /\ part[i].kind = w /\ part[i].turn = t /\ s.heard[w] \in Heard
        BY <1>7, <3>3
      <4>2. i \in Of(t, w)'
        BY <1>11, <4>1, PartsFacts DEF Of
      <4>3. CASE w \notin failed /\ i > gone
        <5>1. i \in changed /\ content[i] = s.heard[w]
          BY <3>3, <4>1, <4>3 DEF content
        <5>2. part'[i].content = s.heard[w]
          BY <1>11, <4>1, <5>1
        <5>3. IsPrefix(s.heard[w], s.heard[w])
          BY <4>1, HeardFacts, PrefixOfItself
        <5> QED
          BY <1>1, <1>5, <2>1, <3>1, <3>3, <4>2, <5>2, <5>3 DEF OwnsItsPart
      <4>4. CASE w \in failed
        <5>1. t \in broken'
          BY <1>4, <4>4
        <5>2. i \notin changed
          BY <1>7, <3>3, <4>1, <4>4
        <5>3. part'[i].content = part[i].content
          BY <1>11, <4>1, <5>2
        <5> QED
          BY <1>1, <1>5, <2>1, <3>1, <3>3, <4>2, <5>1, <5>3 DEF OwnsItsPart
      <4>5. CASE ~(i > gone)
        <5>1. i \notin changed /\ ~(i > gone')
          BY <1>12, <4>5 DEF Step
        <5>2. part'[i].content = part[i].content
          BY <1>11, <4>1, <5>1
        <5> QED
          BY <1>1, <1>5, <2>1, <3>1, <3>3, <4>2, <5>1, <5>2 DEF OwnsItsPart
      <4> QED
        BY <4>3, <4>4, <4>5
    <3> QED
      BY <3>2, <3>3
  <2> QED
    BY <2>2, <2>3 DEF WritersOwnTheirParts
<1>13. /\ x.pc \in Closing \union {"returned"} /\ x.pc # "finishPart" /\ DOMAIN part = 1..n
  BY <1>1, <1>5, PartsFacts DEF Closing
<1> QED
  BY <1>1, <1>4, <1>5, <1>6, <1>11, <1>12, <1>13, ClosingPreserves

(***************************************************************************)
(* A stream hears a piece.                                                 *)
(***************************************************************************)
\* A running stream writes: it goes on running, or it ends.
LEMMA WritePreserves ==
  ASSUME IndInv, NEW t \in Turns, At(t, Running), NEW x \in Stream, stream' = [stream EXCEPT ![t] = x],
         UNCHANGED <<created, gone, turn, proposal, stopping, page, notes>>,
         said' = said \/ (said < MaxEvents /\ said' = said + 1),
         faults' \in 0..MaxIncidents, broken' \subseteq Turns, broken \subseteq broken',
         Parts(part'), Grows(part, part'),
         \A i \in DOMAIN part : part'[i].of = part[i].of,
         \A i \in New : part'[i].turn = t /\ part'[i].kind # "status",
         x.pc \in {"running", "tools", "flush"}, x.pc = "flush" => x.ending \in Terminal,
         Step => WritersOwnTheirParts',
         Step => ProposalsAreKnown' /\ ProposalsCiteWhatWasRead',
         Step => CallsAreNumbered' /\ CallsAreAnswered'
  PROVE  IndInv' /\ Grows(part, part')
<1>1. TypeOK /\ Parts(part) /\ turn[t] # "none" /\ created
  <2>1. stream[t].pc # "none"
    BY Statuses
  <2> QED
    BY <2>1, Active, IndInvParts DEF IndInv
<1>2. /\ stream' \in [Turns -> Stream] /\ stream'[t] = x
      /\ \A u \in Turns : u # t => stream'[u] = stream[u]
  BY <1>1, Moves
<1>3. said \in 0..MaxEvents /\ said' \in 0..MaxEvents /\ said <= said'
  BY <1>1, TranscriptAssumption DEF TypeOK
<1>4. TypeOK'
  BY <1>1, <1>2, <1>3 DEF TypeOK, Parts
<1>5. Step
  BY <1>1, <1>3, <1>4 DEF Step
<1>6. NumbersKept /\ PageKept
  BY <1>1 DEF NumbersKept, PageKept
<1>7. TurnsKept
  <2>1. \A u \in Turns : turn'[u] = "none" => turn[u] = "none" /\ stream'[u] = stream[u]
    BY <1>1, <1>2
  <2>2. ASSUME NEW u \in Turns
        PROVE  /\ At(u, Closing)' => stream'[u].ending \in Terminal
               /\ At(u, {"finishPart"})' => turn'[u] \in Terminal
    <3>1. CASE u = t
      BY <1>2, <3>1 DEF Closing
    <3>2. CASE u # t
      BY <1>2, <3>2 DEF IndInv, TurnsAreKnown
    <3> QED
      BY <3>1, <3>2
  <2>3. \A i \in New : part'[i].of \notin Terminal
    <3>1. New \subseteq DOMAIN part'
      BY DEF New
    <3>2. \A i \in DOMAIN part' : part'[i].of \in OfKind(part'[i].kind)
      BY DEF Parts
    <3> QED
      BY <3>1, <3>2 DEF OfKind, Terminal, Tools, Queries
  <2> QED
    BY <1>1, <2>1, <2>2, <2>3 DEF TurnsKept
<1>8. PartsAreNumbered' /\ TurnsAreKnown' /\ PageFollows'
  BY <1>5, <1>6, <1>7, Frame
<1> QED
  BY <1>4, <1>5, <1>8 DEF IndInv

\* A writing stream whose statement failed has its turn failed.
LEMMA Proceeds ==
  ASSUME NEW t \in Turns, NEW ok \in BOOLEAN, NEW y \in Stream, Proceed(t, ok, y)
  PROVE  \E x \in Stream :
           /\ stream' = [stream EXCEPT ![t] = x] /\ x.id = y.id /\ x.heard = y.heard
           /\ ok => x = y
           /\ ~ok => x.pc = "flush" /\ x.ending = "cut"
<1>1. CASE ok
  BY <1>1 DEF Proceed
<1>2. CASE ~ok
  <2> DEFINE x == EndWith(y, "cut")
  <2>1. stream' = [stream EXCEPT ![t] = x]
    BY <1>2 DEF Proceed
  <2>2. x \in Stream /\ x.pc = "flush" /\ x.ending = "cut" /\ x.id = y.id /\ x.heard = y.heard
    BY EndsWith, Statuses
  <2> HIDE DEF x
  <2> QED
    BY <1>2, <2>1, <2>2
<1> QED
  BY <1>1, <1>2

\* A piece is heard; a writer has its part.
WithText(s, w, text) == [s EXCEPT !.heard[w] = text]
WithPart(s, w, i) == [s EXCEPT !.id[w] = i]

LEMMA DeltaHeard ==
  ASSUME IndInv, NEW t \in Turns, NEW w \in Writers, said < MaxEvents, NEW i \in Nat
  PROVE  LET s == stream[t]
             text == Append(s.heard[w], said + 1)
             h == WithText(s, w, text)
             y == WithPart(h, w, i)
         IN  /\ text \in Heard /\ Len(text) <= said + 1 /\ text # <<>>
             /\ h \in Stream /\ h.heard[w] = text /\ h.id = s.id /\ h.calls = s.calls /\ h.pc = s.pc
             /\ y \in Stream /\ y.heard = h.heard /\ y.id[w] = i /\ y.calls = s.calls /\ y.pc = s.pc
             /\ \A v \in Writers : v # w => h.heard[v] = s.heard[v] /\ y.id[v] = s.id[v]
<1> DEFINE s == stream[t]
           text == Append(s.heard[w], said + 1)
<1>1. /\ s \in Stream /\ s.heard \in [Writers -> Heard] /\ s.id \in [Writers -> Nat]
      /\ s.heard[w] \in Seq(1..MaxEvents) /\ Len(s.heard[w]) <= said /\ said \in 0..MaxEvents
      /\ MaxEvents \in Nat
  <2>1. TypeOK /\ OwnsItsPart(t, w)
    BY DEF IndInv, WritersOwnTheirParts
  <2>2. s \in Stream /\ s.heard \in [Writers -> Heard] /\ s.id \in [Writers -> Nat]
    BY <2>1, Streams
  <2>3. s.heard[w] \in Seq(1..MaxEvents)
    BY <2>2, HeardFacts
  <2>4. Len(s.heard[w]) <= said /\ said \in 0..MaxEvents /\ MaxEvents \in Nat
    BY <2>1, TranscriptAssumption DEF TypeOK, OwnsItsPart
  <2> QED
    BY <2>2, <2>3, <2>4
<1>2. text \in Seq(1..MaxEvents) /\ Len(text) = Len(s.heard[w]) + 1 /\ Len(s.heard[w]) \in Nat
  BY <1>1
<1> HIDE DEF text
<1>3. text \in Heard /\ Len(text) <= said + 1 /\ text # <<>>
  <2>1. Len(text) <= MaxEvents /\ Len(text) # 0 /\ Len(text) <= said + 1
    BY <1>1, <1>2
  <2>2. Len(<<>>) = 0
    OBVIOUS
  <2> QED
    BY <1>2, <2>1, <2>2, HeardFacts
<1> DEFINE h == WithText(s, w, text)
           y == WithPart(h, w, i)
<1>4. h = [s EXCEPT !.heard = [s.heard EXCEPT ![w] = text]] /\ y = [h EXCEPT !.id = [s.id EXCEPT ![w] = i]]
  BY <1>1 DEF Stream, WithText, WithPart
<1>5. [s.heard EXCEPT ![w] = text] \in [Writers -> Heard] /\ [s.id EXCEPT ![w] = i] \in [Writers -> Nat]
  BY <1>1, <1>3
<1>6. h \in Stream /\ y \in Stream
  <2>1. h \in Stream
    BY <1>1, <1>4, <1>5 DEF Stream
  <2> HIDE DEF h
  <2>2. y \in Stream
    BY <1>4, <1>5, <2>1 DEF Stream
  <2> QED
    BY <2>1, <2>2
<1>7. /\ h.heard = [s.heard EXCEPT ![w] = text] /\ h.id = s.id /\ h.calls = s.calls /\ h.pc = s.pc
      /\ y.heard = h.heard /\ y.id = [s.id EXCEPT ![w] = i] /\ y.calls = s.calls /\ y.pc = s.pc
  BY <1>1, <1>4 DEF Stream
<1> QED
  BY <1>1, <1>3, <1>5, <1>6, <1>7 DEF text

LEMMA DeltaPreserves ==
  ASSUME IndInv, NEW t \in Turns, NEW w \in Writers, Delta(t, w)
  PROVE  IndInv' /\ Grows(part, part')
<1> DEFINE s == stream[t]
           n == Len(part)
           text == Append(s.heard[w], said + 1)
           h == WithText(s, w, text)
           y == WithPart(h, w, n + 1)
<1>1. /\ TypeOK /\ Parts(part) /\ s \in Stream /\ s.pc = "running" /\ n \in Nat /\ DOMAIN part = 1..n
      /\ said < MaxEvents /\ said' = said + 1 /\ said \in Nat
      /\ UNCHANGED <<created, gone, turn, proposal, stopping, page, notes>>
  BY IndInvParts, Streams, PartsFacts DEF IndInv, TypeOK, Delta
<1>2. PICK ok \in Outcomes :
        /\ Record(t, ok)
        /\ \/ /\ s.id[w] = 0
              /\ part' = IF ok THEN InsertPart(part, t, w, text, "none", 0) ELSE part
              /\ Proceed(t, ok, IF ok THEN y ELSE h)
           \/ /\ s.id[w] # 0
              /\ part' = IF ok THEN UpdatePartContent(part, s.id[w], text) ELSE part
              /\ Proceed(t, ok, h)
           \/ /\ s.id[w] # 0 /\ ok
              /\ part' = part
              /\ Proceed(t, ok, h)
  <2>1. s.heard \in [Writers -> Heard]
    BY <1>1 DEF Stream
  <2>2. h = [s EXCEPT !.heard[w] = Append(@, said + 1)]
    BY <1>1, <2>1 DEF WithText
  <2>3. h.heard[w] = text
    BY <1>1, DeltaHeard
  <2> HIDE DEF text, h
  <2>4. y = [h EXCEPT !.id[w] = n + 1]
    BY DEF WithPart
  <2> QED
    BY <2>2, <2>3, <2>4 DEF Delta
<1>3. /\ ok \in BOOLEAN /\ faults' \in 0..MaxIncidents /\ broken' \subseteq Turns /\ broken \subseteq broken'
      /\ ~ok => t \in broken'
  BY <1>1, <1>2, Records
<1>4. /\ text \in Heard /\ Len(text) <= said + 1 /\ text # <<>>
      /\ h \in Stream /\ h.heard[w] = text /\ h.id = s.id /\ h.calls = s.calls /\ h.pc = s.pc
      /\ y \in Stream /\ y.heard = h.heard /\ y.id[w] = n + 1 /\ y.calls = s.calls /\ y.pc = s.pc
      /\ \A v \in Writers : v # w => h.heard[v] = s.heard[v] /\ y.id[v] = s.id[v]
  <2>1. n + 1 \in Nat
    BY <1>1
  <2> HIDE DEF n
  <2> QED
    BY ZenonT(40), <1>1, <2>1, DeltaHeard
<1>5. OwnsItsPart(t, w)
  BY DEF IndInv, WritersOwnTheirParts
<1>6. s.id[w] # 0 => /\ s.id[w] \in 1..n /\ part[s.id[w]].turn = t /\ part[s.id[w]].kind = w
                     /\ IsPrefix(part[s.id[w]].content, text)
  <2>1. /\ s.heard[w] \in Seq(1..MaxEvents) /\ said + 1 \in 1..MaxEvents
        /\ \A i \in 1..n : part[i].content \in Seq(1..MaxEvents)
    <3>1. s.heard[w] \in Seq(1..MaxEvents)
      BY <1>1, Streams, HeardFacts
    <3>2. said + 1 \in 1..MaxEvents
      BY <1>1, TranscriptAssumption
    <3>3. \A i \in 1..n : part[i].content \in Seq(1..MaxEvents)
      BY <1>1, PartsFacts
    <3> QED
      BY <3>1, <3>2, <3>3
  <2> QED
    BY <1>1, <1>5, <2>1, PrefixGrows DEF OwnsItsPart, Of
<1> HIDE DEF text, h, y
\* What becomes of the parts, and of the stream.
<1> DEFINE own == IF s.id[w] = 0 /\ ok THEN n + 1 ELSE s.id[w]
<1>7. PICK x \in Stream :
        /\ stream' = [stream EXCEPT ![t] = x] /\ x.heard = h.heard
        /\ x.id[w] = own /\ \A v \in Writers : v # w => x.id[v] = s.id[v]
        /\ x.pc \in {"running", "flush"} /\ (x.pc = "flush" => ~ok /\ x.ending = "cut")
        /\ x.pc = "running" => x.calls = s.calls
  <2> DEFINE z == IF s.id[w] = 0 /\ ok THEN y ELSE h
  <2>1. /\ z \in Stream /\ z.heard = h.heard /\ z.id[w] = own /\ z.calls = s.calls /\ z.pc = "running"
        /\ \A v \in Writers : v # w => z.id[v] = s.id[v]
    BY <1>1, <1>4
  <2>2. Proceed(t, ok, z)
    BY <1>2
  <2> HIDE DEF z
  <2> QED
    BY <1>3, <2>1, <2>2, Proceeds
<1>8. /\ Parts(part') /\ Grows(part, part')
      /\ \A i \in 1..n : /\ part'[i].of = part[i].of
                         /\ i = s.id[w] \/ part'[i].content = part[i].content
      /\ New \subseteq {n + 1} /\ (s.id[w] # 0 \/ ~ok => New = {})
      /\ n + 1 \in New => /\ part'[n + 1].turn = t /\ part'[n + 1].kind = w
                          /\ part'[n + 1].proposal = 0
      /\ own # 0 => own \in DOMAIN part' /\ part'[own].turn = t /\ part'[own].kind = w
                     /\ IsPrefix(part'[own].content, text)
  <2>0. IsPrefix(text, text)
    BY <1>4, HeardFacts, PrefixOfItself
  <2>1. CASE part' = part /\ (s.id[w] # 0 \/ ~ok)
    BY <1>1, <1>6, <2>1, GrowsItself DEF New
  <2>2. CASE s.id[w] = 0 /\ ok
    <3>1. part' = InsertPart(part, t, w, text, "none", 0)
      BY <1>2, <2>2
    <3>2. w \in Kinds /\ "none" \in OfKind(w) /\ t \in Turns \union {Session} /\ 0 \in Nat
      BY DEF Kinds, OfKind, Writers
    <3>3. Extends(part', part, [turn |-> t, sequence |-> NextSequence(part), kind |-> w, content |-> text,
                                of |-> "none", proposal |-> 0])
      BY <1>1, <1>4, <3>1, <3>2, Inserted
    <3>4. /\ Parts(part') /\ Len(part') = n + 1 /\ DOMAIN part' = 1..(n + 1)
          /\ \A i \in 1..n : part'[i] = part[i]
          /\ part'[n + 1].turn = t /\ part'[n + 1].kind = w /\ part'[n + 1].content = text
          /\ part'[n + 1].proposal = 0
      BY <1>1, <3>3 DEF Extends
    <3>5. Grows(part, part') /\ New = {n + 1}
      BY <1>1, <3>4, InsertedGrows DEF New
    <3> QED
      BY <1>1, <2>0, <2>2, <3>4, <3>5
  <2>3. CASE s.id[w] # 0 /\ ok /\ part' = [part EXCEPT ![s.id[w]].content = text]
    <3> DEFINE i == s.id[w]
               changed == {i}
               content == [j \in changed |-> text]
    <3>1. part' = Rewrite(part, changed, content)
      BY <1>1, <1>6, <2>3 DEF Rewrite
    <3>2. changed \in SUBSET (1..n) /\ content \in [changed -> Heard]
      BY <1>4, <1>6, <2>3
    <3>3. \A j \in changed : part[j].kind \in Writers /\ IsPrefix(part[j].content, content[j])
      BY <1>6, <2>3
    <3>4. content[i] = text /\ i \in changed /\ \A j : j \in changed => j = i
      OBVIOUS
    <3> HIDE DEF changed, content
    <3>5. IsRewritten(part', part, changed, content)
      BY <1>1, <3>1, <3>2, <3>3, ContentsUpdated
    <3>6. DOMAIN part' = 1..n
      BY <1>1, <3>5, PartsFacts DEF IsRewritten
    <3> QED
      BY <1>1, <1>6, <2>0, <2>3, <3>4, <3>5, <3>6 DEF IsRewritten, New
  <2> QED
    BY <1>2, <2>1, <2>2, <2>3 DEF UpdatePartContent
<1>9. /\ stream'[t] = x /\ \A u \in Turns : u # t => stream'[u] = stream[u]
  BY <1>1, <1>7, Moves
<1> HIDE DEF own
<1>10. ASSUME Step PROVE WritersOwnTheirParts'
  <2>1. ASSUME NEW u \in Turns, NEW v \in Writers, u # t \/ v # w PROVE OwnsItsPart(u, v)'
    <3>1. OwnsItsPart(u, v)
      BY DEF IndInv, WritersOwnTheirParts
    <3>2. stream[u].id[v] # 0 =>
            /\ stream[u].id[v] \in 1..n
            /\ part[stream[u].id[v]].turn = u /\ part[stream[u].id[v]].kind = v
      BY <1>1, <3>1 DEF OwnsItsPart, Of
    <3>3. stream[u].id[v] # 0 => part'[stream[u].id[v]].content = part[stream[u].id[v]].content
      BY <1>6, <1>8, <2>1, <3>2
    <3>4. stream'[u].id[v] = stream[u].id[v] /\ stream'[u].heard[v] = stream[u].heard[v]
      BY <1>4, <1>7, <1>9, <2>1
    <3>5. At(u, Finishing)' => At(u, Finishing)
      BY <1>7, <1>9 DEF Finishing
    <3>6. KeepsItsPart(u, v)
      BY <3>3, <3>4, <3>5 DEF KeepsItsPart
    <3> QED
      BY <1>10, <3>1, <3>6, WriterFrame
  <2>2. OwnsItsPart(t, w)'
    <3>1. stream'[t].heard[w] = text /\ stream'[t].id[w] = own
      BY <1>4, <1>7, <1>9
    <3>2. ~At(t, Finishing)'
      BY <1>7, <1>9 DEF Finishing
    <3>3. own = 0 => ~ok
      BY <1>1 DEF own
    <3> QED
      BY <1>1, <1>3, <1>4, <1>8, <3>1, <3>2, <3>3 DEF OwnsItsPart, Of
  <2> QED
    BY <2>1, <2>2 DEF WritersOwnTheirParts
<1>11. w \notin {"call", "result", "status"}
  BY DEF Writers
<1>12. ProposalsKept
  <2>1. \A u \in Turns : At(u, {"tools", "answering"})' => stream'[u] = stream[u]
    BY <1>7, <1>9
  <2>2. \A i \in New : part'[i].proposal = 0 /\ part'[i].kind \notin {"call", "result"}
    BY <1>8, <1>11
  <2> QED
    BY <1>1, <2>1, <2>2 DEF ProposalsKept, IndInv, ProposalsAreKnown
<1>13. CallsKept
  <2>1. \A i \in New : part'[i].kind \notin {"call", "result"}
    BY <1>8, <1>11
  <2>2. At(t, Running)
    BY <1>1 DEF Running
  <2>3. \A u \in Turns : At(u, Running)' => At(u, Running) /\ stream'[u].calls = stream[u].calls
    BY <1>7, <1>9, <2>2, Statuses
  <2>4. \A u \in Turns : At(u, Closing)' /\ stream'[u].ending = "completed" =>
          At(u, Closing) /\ stream[u].ending = "completed"
    BY <1>7, <1>9 DEF Closing
  <2> QED
    BY <1>1, <2>1, <2>3, <2>4 DEF CallsKept, IndInv, CallsAreAnswered, AnswersItsCalls
<1>14. Step => /\ ProposalsAreKnown' /\ ProposalsCiteWhatWasRead'
               /\ CallsAreNumbered' /\ CallsAreAnswered'
  BY <1>12, <1>13, Frame
<1>15. /\ At(t, Running) /\ x.pc \in {"running", "tools", "flush"} /\ (x.pc = "flush" => x.ending \in Terminal)
       /\ \A i \in New : part'[i].turn = t /\ part'[i].kind # "status"
  BY <1>1, <1>7, <1>8, <1>11, Statuses DEF Running
<1> QED
  BY <1>1, <1>3, <1>7, <1>8, <1>10, <1>14, <1>15, WritePreserves

(***************************************************************************)
(* A proposal is created; what stores a call or a result.                  *)
(***************************************************************************)
LEMMA CreateProposalPreserves ==
  ASSUME IndInv, NEW t \in Turns, CreateProposal(t)
  PROVE  IndInv' /\ Grows(part, part')
<1> DEFINE s == stream[t]
           p == Len(proposal) + 1
           new == [turn |-> t, cites |-> SessionToolResults(part)]
           x == [s EXCEPT !.pc = "answering", !.proposed = p]
<1>1. /\ s.pc = "tools" /\ Head(s.calls).tool = "propose" /\ turn[t] = "working"
      /\ proposal' = Append(proposal, new)
      /\ UNCHANGED <<created, gone, part, turn, said, stopping, page, broken, notes, faults>>
  BY DEF CreateProposal
<1>2. /\ TypeOK /\ Parts(part) /\ s \in Stream /\ created /\ Grows(part, part')
      /\ DOMAIN part = 1..Len(part) /\ Len(part) \in Nat
  BY <1>1, IndInvParts, Streams, Active, GrowsItself, PartsFacts DEF IndInv
<1>3. /\ proposal \in Seq(Proposal) /\ p \in Nat \ {0} /\ DOMAIN proposal = 1..(p - 1)
      /\ new \in Proposal
  BY <1>2 DEF TypeOK, Proposal, SessionToolResults
<1>4. /\ proposal' \in Seq(Proposal) /\ DOMAIN proposal' = 1..p /\ proposal'[p] = new
      /\ \A q \in DOMAIN proposal : proposal'[q] = proposal[q]
  <2> HIDE DEF new
  <2> QED
    BY <1>1, <1>3
<1>5. x \in Stream /\ x.pc = "answering" /\ x.calls = s.calls /\ x.id = s.id /\ x.heard = s.heard /\ x.proposed = p
  BY <1>2, <1>3 DEF Stream, Running
<1>6. stream' = [stream EXCEPT ![t] = x]
  BY <1>2 DEF CreateProposal, TypeOK
<1> HIDE DEF x
<1>7. /\ stream' \in [Turns -> Stream] /\ stream'[t] = x
      /\ \A u \in Turns : u # t => stream'[u] = stream[u]
  BY <1>2, <1>5, <1>6, Moves
<1>8. TypeOK'
  BY <1>1, <1>2, <1>4, <1>7 DEF TypeOK
<1>9. Step /\ New = {}
  <2>1. said <= said'
    BY <1>1, <1>2 DEF TypeOK
  <2> QED
    BY <1>1, <1>2, <1>8, <2>1 DEF Step, New
<1>10. NumbersKept /\ PageKept
  BY <1>1, <1>2, <1>3, <1>4 DEF NumbersKept, PageKept
<1>11. At(t, Running) /\ At(t, Running)' /\ ~At(t, Closing)' /\ ~At(t, Finishing)'
  BY <1>1, <1>5, <1>7 DEF Running, Closing, Finishing
<1>12. TurnsKept
  <2>1. \A u \in Turns : turn'[u] = "none" => turn[u] = "none" /\ stream'[u] = stream[u]
    BY <1>1, <1>7
  <2>2. ASSUME NEW u \in Turns
        PROVE  /\ At(u, Closing)' => stream'[u].ending \in Terminal
               /\ At(u, {"finishPart"})' => turn'[u] \in Terminal
    <3>1. CASE u = t
      BY <1>11, <3>1 DEF Closing
    <3>2. CASE u # t
      BY <1>1, <1>7, <3>2 DEF IndInv, TurnsAreKnown
    <3> QED
      BY <3>1, <3>2
  <2> QED
    BY <1>1, <1>9, <2>1, <2>2 DEF TurnsKept
<1>13. WritersKept
  BY <1>1, <1>5, <1>7, <1>11 DEF WritersKept, KeepsItsPart
<1>14. CallsKept
  <2>1. \A u \in Turns : At(u, Running)' => At(u, Running) /\ stream'[u].calls = stream[u].calls
    BY <1>5, <1>7, <1>11
  <2>2. \A u \in Turns : At(u, Closing)' => stream'[u] = stream[u]
    BY <1>7, <1>11
  <2> QED
    BY <1>1, <1>9, <2>1, <2>2 DEF CallsKept, IndInv, CallsAreAnswered, AnswersItsCalls
<1>15. ProposalsAreKnown'
  <2>1. \A i \in DOMAIN part' : part'[i].proposal \in {0} \union DOMAIN proposal'
    BY <1>1, <1>3, <1>4 DEF IndInv, ProposalsAreKnown
  <2>2. proposal'[p].cites = QueryResults /\ QueryResults' = QueryResults
    BY <1>1, <1>4 DEF QueryResults, SessionToolResults
  <2>3. ASSUME NEW u \in Turns, At(u, {"answering"})'
        PROVE  /\ stream'[u].proposed \in DOMAIN proposal' /\ Head(stream'[u].calls).tool = "propose"
               /\ proposal'[stream'[u].proposed].turn = u
               /\ proposal'[stream'[u].proposed].cites \subseteq QueryResults'
               /\ \A j \in QueryResults' :
                    part'[j].turn = u \/ (\E k \in Of(u, "call")' : Asked(u, 1, k)' /\ j < k)
                    => j \in proposal'[stream'[u].proposed].cites
    <3>1. CASE u = t
      <4>1. p \in DOMAIN proposal' /\ proposal'[p].turn = t
        BY <1>3, <1>4
      <4> QED
        BY <1>1, <1>5, <1>7, <2>2, <3>1, <4>1
    <3>2. CASE u # t
      <4>1. stream'[u] = stream[u] /\ part' = part
        BY <1>1, <1>7, <3>2
      <4>2. /\ stream[u].proposed \in DOMAIN proposal /\ Head(stream[u].calls).tool = "propose"
            /\ proposal[stream[u].proposed].turn = u
            /\ proposal[stream[u].proposed].cites \subseteq QueryResults
            /\ \A j \in QueryResults :
                 part[j].turn = u \/ (\E k \in Of(u, "call") : Asked(u, 1, k) /\ j < k)
                 => j \in proposal[stream[u].proposed].cites
        BY <2>3, <4>1 DEF IndInv, ProposalsAreKnown
      <4>3. \A k : (k \in Of(u, "call")' <=> k \in Of(u, "call")) /\ (Asked(u, 1, k)' <=> Asked(u, 1, k))
        BY <4>1 DEF Of, Asked
      <4>4. \A q \in DOMAIN proposal : q \in DOMAIN proposal' /\ proposal'[q] = proposal[q]
        BY <1>3, <1>4
      <4> QED
        BY <2>2, <4>1, <4>2, <4>3, <4>4
    <3> QED
      BY <3>1, <3>2
  <2>4. ASSUME NEW u \in Turns, At(u, {"tools", "answering"})' PROVE stream'[u].calls # <<>>
    <3>1. CASE u = t
      BY <1>1, <1>5, <1>7, <3>1 DEF IndInv, ProposalsAreKnown
    <3>2. CASE u # t
      BY <1>7, <2>4, <3>2 DEF IndInv, ProposalsAreKnown
    <3> QED
      BY <3>1, <3>2
  <2> QED
    BY <2>1, <2>3, <2>4 DEF ProposalsAreKnown
<1>16. ProposalsCiteWhatWasRead'
  <2>1. \A i \in DOMAIN part : part[i].proposal # p
    BY <1>3 DEF IndInv, ProposalsAreKnown
  <2>2. \A q \in DOMAIN proposal' : q # p => q \in DOMAIN proposal /\ proposal'[q] = proposal[q]
    BY <1>3, <1>4
  <2>3. ASSUME NEW i \in DOMAIN part', part'[i].proposal \in DOMAIN proposal' PROVE CitesAsRead(i)'
    <3>1. i \in DOMAIN part /\ part' = part /\ part[i].proposal \in DOMAIN proposal
          /\ proposal'[part[i].proposal] = proposal[part[i].proposal]
      BY <1>1, <2>1, <2>2, <2>3
    <3>2. CitesAsRead(i)
      BY <3>1, ProposalsCited DEF IndInv
    <3> QED
      BY <3>1, <3>2 DEF CitesAsRead, Of, Answers, QueryResults
  <2>4. (ProposalsCiteWhatWasRead <=> \A i \in DOMAIN part : part[i].proposal \in DOMAIN proposal => CitesAsRead(i))'
    BY ProposalsCited, PTL
  <2> QED
    BY <2>3, <2>4
<1>17. /\ PartsAreNumbered' /\ TurnsAreKnown' /\ WritersOwnTheirParts'
       /\ CallsAreNumbered' /\ CallsAreAnswered' /\ PageFollows'
  BY <1>9, <1>10, <1>12, <1>13, <1>14, Frame
<1> QED
  BY <1>2, <1>8, <1>15, <1>16, <1>17 DEF IndInv

\* The writers of a stream that stores something else keep what they have.
LEMMA AnswerKeepsWriters ==
  ASSUME IndInv, NEW t \in Turns, NEW x \in Stream, stream' = [stream EXCEPT ![t] = x],
         x.id = stream[t].id, x.heard = stream[t].heard, x.pc \notin Finishing,
         \A i \in DOMAIN part : part'[i].content = part[i].content, Step
  PROVE  WritersOwnTheirParts'
<1>1. /\ stream'[t] = x /\ \A u \in Turns : u # t => stream'[u] = stream[u]
  BY Moves DEF IndInv
<1>2. ASSUME NEW u \in Turns, NEW w \in Writers PROVE KeepsItsPart(u, w)
  <2>1. stream[u].id[w] # 0 => stream[u].id[w] \in DOMAIN part
    BY DEF IndInv, WritersOwnTheirParts, OwnsItsPart, Of
  <2> QED
    BY <1>1, <2>1 DEF KeepsItsPart
<1> QED
  BY <1>2, Frame DEF WritersKept

\* A call, or the result of one, is stored.
LEMMA Stored ==
  ASSUME IndInv, NEW t \in Turns, NEW kind \in {"call", "result"}, NEW n \in 1..MaxEvents,
         NEW tool \in Tools, NEW p \in Nat, part' = InsertPart(part, t, kind, <<n>>, tool, p)
  PROVE  LET m == Len(part) + 1
         IN  /\ Parts(part') /\ Grows(part, part') /\ New = {m} /\ m \in Nat
             /\ \A i \in DOMAIN part : i < m /\ part'[i] = part[i]
             /\ part'[m].turn = t /\ part'[m].kind = kind /\ part'[m].content = <<n>>
             /\ part'[m].of = tool /\ part'[m].proposal = p
             /\ Of(t, kind)' = Of(t, kind) \union {m} /\ m \notin Of(t, kind)
             /\ \A other : other # kind => Of(t, other)' = Of(t, other)
             /\ \A u, k : u # t => Of(u, k)' = Of(u, k)
<1> DEFINE m == Len(part) + 1
<1>1. Parts(part) /\ <<n>> \in Heard /\ kind \in Kinds /\ t \in Turns \union {Session} /\ tool \in OfKind(kind)
  BY IndInvParts, HeardFacts DEF Kinds, OfKind
<1>2. Extends(part', part, [turn |-> t, sequence |-> NextSequence(part), kind |-> kind, content |-> <<n>>,
                            of |-> tool, proposal |-> p])
  BY <1>1, Inserted
<1>3. /\ Parts(part') /\ m \in Nat /\ Len(part') = m /\ DOMAIN part = 1..(m - 1) /\ DOMAIN part' = 1..m
      /\ \A i \in 1..(m - 1) : part'[i] = part[i]
      /\ part'[m].turn = t /\ part'[m].kind = kind /\ part'[m].content = <<n>>
      /\ part'[m].of = tool /\ part'[m].proposal = p
  BY <1>2 DEF Extends
<1>4. Len(part) \in Nat /\ Len(part) = m - 1
  BY <1>1, PartsFacts
<1>5. Grows(part, part') /\ New = {m} /\ \A i \in DOMAIN part : i < m /\ part'[i] = part[i]
  BY <1>1, <1>3, <1>4, InsertedGrows DEF New
<1> HIDE DEF m
<1>6. \A u, k : \A i \in DOMAIN part : i \in Of(u, k)' <=> i \in Of(u, k)
  BY <1>3, <1>5 DEF Of
<1>7. DOMAIN part' = DOMAIN part \union {m} /\ m \notin DOMAIN part
  <2>1. m - 1 \in Nat
    BY <1>4
  <2>2. 1..m = (1..(m - 1)) \union {m} /\ m \notin 1..(m - 1)
    BY <1>3, <2>1
  <2> QED
    BY <1>3, <2>2
<1>8. \A u, k : m \in Of(u, k)' <=> u = t /\ k = kind
  BY <1>3, <1>7 DEF Of
<1>9. \A u, k : Of(u, k) \subseteq DOMAIN part /\ Of(u, k)' \subseteq DOMAIN part'
  BY DEF Of
<1>10. /\ Of(t, kind)' = Of(t, kind) \union {m} /\ m \notin Of(t, kind)
       /\ \A other : other # kind => Of(t, other)' = Of(t, other)
       /\ \A u, k : u # t => Of(u, k)' = Of(u, k)
  <2>1. ASSUME NEW u, NEW k
        PROVE  \A i : i \in Of(u, k)' <=> i \in Of(u, k) \/ (i = m /\ u = t /\ k = kind)
    BY <1>6, <1>7, <1>8, <1>9
  <2>2. ASSUME NEW u, NEW k, ~(u = t /\ k = kind) PROVE Of(u, k)' = Of(u, k)
    BY <2>1, <2>2
  <2>3. Of(t, kind)' = Of(t, kind) \union {m} /\ m \notin Of(t, kind)
    BY <1>7, <1>9, <2>1
  <2> QED
    BY <2>2, <2>3
<1> QED
  BY <1>3, <1>5, <1>10 DEF m

(***************************************************************************)
(* A call is stored.                                                       *)
(***************************************************************************)
\* A turn of whose calls a step touches none keeps them.
LEMMA OtherCalls ==
  ASSUME IndInv, Step, NEW t \in Turns, NEW u \in Turns, u # t, \A i \in New : part'[i].turn = t,
         turn' = turn, stream'[u] = stream[u]
  PROVE  NumbersItsCalls(u)' /\ AnswersItsCalls(u)'
<1>1. KeepsItsCalls(u)
  BY DEF KeepsItsCalls, IndInv, CallsAreAnswered, AnswersItsCalls
<1> QED
  BY <1>1, TurnCallsFrame DEF IndInv, CallsAreNumbered, CallsAreAnswered

LEMMA NumberOf ==
  ASSUME NEW t, NumbersItsCalls(t), NEW i \in Of(t, "call") \union Of(t, "result")
  PROVE  part[i].content[1] \in 1..said /\ part[i].content = <<part[i].content[1]>>
<1>1. PICK n \in 1..said : part[i].content = <<n>>
  BY DEF NumbersItsCalls
<1> QED
  BY <1>1

\* A call is stored behind the others and owed an answer.
LEMMA CallIsOwed ==
  ASSUME IndInv, Step, NEW t \in Turns, At(t, Running), NEW tool \in Tools, said' = said + 1, turn' = turn,
         NEW m \in Nat, New = {m}, \A i \in DOMAIN part : i < m /\ part'[i] = part[i],
         part'[m].content = <<said + 1>>, part'[m].of = tool,
         Of(t, "call")' = Of(t, "call") \union {m}, m \notin Of(t, "call"), Of(t, "result")' = Of(t, "result"),
         At(t, Running)', stream'[t].calls = Append(stream[t].calls, [n |-> said + 1, tool |-> tool])
  PROVE  NumbersItsCalls(t)' /\ AnswersItsCalls(t)'
<1> DEFINE calls == stream[t].calls
           call == [n |-> said + 1, tool |-> tool]
<1>1. /\ NumbersItsCalls(t) /\ AnswersItsCalls(t) /\ said \in Nat
      /\ calls \in Seq([n : 1..MaxEvents, tool : Tools]) /\ turn[t] # "completed"
  <2>1. TypeOK /\ NumbersItsCalls(t) /\ AnswersItsCalls(t)
    BY DEF IndInv, CallsAreNumbered, CallsAreAnswered
  <2>2. turn[t] # "completed" /\ said \in Nat
    BY <2>1 DEF AnswersItsCalls, TypeOK
  <2> QED
    BY <2>1, <2>2, Streams
<1>2. PICK k0 \in Nat \ {0} :
      /\ DOMAIN calls = 1..(k0 - 1) /\ DOMAIN stream'[t].calls = 1..k0
      /\ \A k \in 1..(k0 - 1) : stream'[t].calls[k] = calls[k]
      /\ stream'[t].calls[k0].n = said + 1 /\ stream'[t].calls[k0].tool = tool
  <2> DEFINE new == stream'[t].calls
             k0 == Len(calls) + 1
  <2>1. new = Append(calls, call) /\ call.n = said + 1 /\ call.tool = tool
    OBVIOUS
  <2> HIDE DEF call, new, calls
  <2>2. /\ k0 \in Nat \ {0} /\ DOMAIN calls = 1..(k0 - 1) /\ DOMAIN new = 1..k0
        /\ \A k \in 1..(k0 - 1) : new[k] = calls[k]
        /\ new[k0] = call
    BY <1>1, <2>1
  <2> QED
    BY <2>1, <2>2 DEF new, calls
<1>3. \A i \in Of(t, "call") \union Of(t, "result") :
        i \in DOMAIN part /\ part'[i] = part[i] /\ part[i].content[1] \in 1..said
  BY <1>1, NumberOf DEF Of
<1>4. part'[m].content[1] = said + 1
  OBVIOUS
<1>5. NumbersItsCalls(t)'
  <2>1. ASSUME NEW i \in Of(t, "call")' \union Of(t, "result")' PROVE \E n \in 1..said' : part'[i].content = <<n>>
    <3>1. CASE i = m
      BY <1>1, <3>1
    <3>2. CASE i # m
      <4>1. i \in Of(t, "call") \union Of(t, "result")
        BY <3>2
      <4> QED
        BY <1>1, <1>3, <4>1, NumberOf
    <3> QED
      BY <3>1, <3>2
  <2>2. ASSUME NEW i \in Of(t, "call")', NEW k \in Of(t, "call")', i < k
        PROVE  part'[i].content[1] < part'[k].content[1]
    <3>1. CASE k = m
      BY <1>1, <1>3, <1>4, <2>2, <3>1
    <3>2. CASE k # m
      <4>1. k \in Of(t, "call") /\ k < m
        BY <1>3, <3>2
      <4>2. i # m
        <5>1. k \in Nat
          BY <1>3, <4>1, StepFacts
        <5> QED
          BY <2>2, <4>1, <5>1
      <4> QED
        BY <1>1, <1>3, <2>2, <4>1, <4>2 DEF NumbersItsCalls
    <3> QED
      BY <3>1, <3>2
  <2>3. \A j, l \in Of(t, "result")' : j < l => part'[j].content[1] < part'[l].content[1]
    BY <1>1, <1>3 DEF NumbersItsCalls
  <2>4. \A j \in Of(t, "result")' : \E i \in Of(t, "call")' : i < j /\ Answers(j, i)'
    BY <1>1, <1>3 DEF NumbersItsCalls, Answers
  <2> QED
    BY <2>1, <2>2, <2>3, <2>4 DEF NumbersItsCalls
<1>6. /\ \A i \in Of(t, "call") : Answered(t, i) \/ \E k \in DOMAIN calls : Asked(t, k, i)
      /\ \A k \in DOMAIN calls :
           /\ \E i \in Of(t, "call") : Asked(t, k, i)
           /\ \A j \in Of(t, "result") : part[j].content[1] < calls[k].n
           /\ \A l \in DOMAIN calls : k < l => calls[k].n < calls[l].n
  BY <1>1 DEF AnswersItsCalls
<1>7. ASSUME NEW k \in DOMAIN calls, NEW i \in Of(t, "call") PROVE Asked(t, k, i)' <=> Asked(t, k, i)
  BY <1>2, <1>3 DEF Asked
<1>8. \A i \in Of(t, "call") : Answered(t, i)' <=> Answered(t, i)
  BY <1>3 DEF Answered, Answers
<1>9. Asked(t, k0, m)' /\ m \in Of(t, "call")'
  BY <1>2 DEF Asked
<1>10. \A k \in 1..k0 : k = k0 \/ k \in DOMAIN calls
  BY <1>2
<1>11. ASSUME NEW i \in Of(t, "call")' PROVE Answered(t, i)' \/ \E k \in 1..k0 : Asked(t, k, i)'
  <2>1. CASE i = m
    BY <1>2, <1>9, <2>1
  <2>2. CASE i # m
    <3>1. i \in Of(t, "call") /\ DOMAIN calls \subseteq 1..k0
      BY <1>2, <2>2
    <3> QED
      BY <1>6, <1>7, <1>8, <3>1
  <2> QED
    BY <2>1, <2>2
<1>12. ASSUME NEW k \in DOMAIN calls PROVE calls[k].n \in 1..said
  <2>1. PICK i \in Of(t, "call") : Asked(t, k, i)
    BY <1>6
  <2>2. part[i].content = <<calls[k].n>>
    BY <2>1 DEF Asked
  <2>3. part[i].content[1] = calls[k].n
    BY <2>2
  <2> QED
    BY <1>3, <2>3
<1>13. ASSUME NEW k \in 1..k0
       PROVE  /\ \E i \in Of(t, "call")' : Asked(t, k, i)'
              /\ \A j \in Of(t, "result")' : part'[j].content[1] < stream'[t].calls[k].n
              /\ \A l \in 1..k0 : k < l => stream'[t].calls[k].n < stream'[t].calls[l].n
  <2>1. CASE k = k0
    BY <1>1, <1>2, <1>3, <1>9, <2>1
  <2>2. CASE k # k0
    <3>1. k \in DOMAIN calls /\ stream'[t].calls[k] = calls[k]
      BY <1>2, <1>10, <2>2
    <3>2. \E i \in Of(t, "call")' : Asked(t, k, i)'
      BY <1>6, <1>7, <3>1
    <3>3. \A j \in Of(t, "result")' : part'[j].content[1] < calls[k].n
      BY <1>3, <1>6, <3>1
    <3>4. ASSUME NEW l \in 1..k0, k < l PROVE calls[k].n < stream'[t].calls[l].n
      <4>1. CASE l = k0
        <5>1. calls[k].n \in 1..said
          BY <1>12, <3>1
        <5>2. calls[k].n < said + 1
          BY SMTT(20), <1>1, <5>1
        <5> QED
          BY <1>2, <4>1, <5>2
      <4>2. CASE l # k0
        BY <1>2, <1>6, <1>10, <3>1, <3>4, <4>2
      <4> QED
        BY <4>1, <4>2
    <3> QED
      BY <3>1, <3>2, <3>3, <3>4
  <2> QED
    BY <2>1, <2>2
<1>14. ~At(t, Closing)' /\ turn'[t] # "completed"
  BY <1>1, Statuses
<1> QED
  BY <1>2, <1>5, <1>11, <1>13, <1>14 DEF AnswersItsCalls

LEMMA ToolCallPreserves ==
  ASSUME IndInv, NEW t \in Turns, NEW tool \in Tools, ToolCall(t, tool)
  PROVE  IndInv' /\ Grows(part, part')
<1> DEFINE s == stream[t]
           m == Len(part) + 1
           call == [n |-> said + 1, tool |-> tool]
           y == [s EXCEPT !.calls = Append(s.calls, call)]
<1>1. /\ TypeOK /\ Parts(part) /\ s \in Stream /\ s.pc = "running" /\ said < MaxEvents /\ said' = said + 1
      /\ said \in Nat /\ MaxEvents \in Nat
      /\ UNCHANGED <<created, gone, turn, proposal, stopping, page, notes>>
  <2>1. TypeOK /\ Parts(part) /\ s \in Stream
    BY IndInvParts, Streams DEF IndInv
  <2> QED
    BY <2>1, TranscriptAssumption DEF TypeOK, ToolCall
<1>2. PICK ok \in Outcomes :
        /\ Record(t, ok)
        /\ part' = IF ok THEN InsertPart(part, t, "call", <<said + 1>>, tool, 0) ELSE part
        /\ Proceed(t, ok, y)
  BY DEF ToolCall
<1>3. ok \in BOOLEAN /\ faults' \in 0..MaxIncidents /\ broken' \subseteq Turns /\ broken \subseteq broken'
  BY <1>1, <1>2, Records
<1>4. y \in Stream /\ y.id = s.id /\ y.heard = s.heard /\ y.pc = "running" /\ y.calls = Append(s.calls, call)
  <2>1. call \in [n : 1..MaxEvents, tool : Tools]
    BY <1>1
  <2> HIDE DEF call
  <2>2. Append(s.calls, call) \in Seq([n : 1..MaxEvents, tool : Tools])
    <3>1. s.calls \in Seq([n : 1..MaxEvents, tool : Tools])
      BY <1>1 DEF Stream
    <3> QED
      BY <2>1, <3>1
  <2> QED
    BY <1>1, <2>2 DEF Stream
<1> HIDE DEF y
<1>5. PICK x \in Stream :
        /\ stream' = [stream EXCEPT ![t] = x] /\ x.id = s.id /\ x.heard = s.heard
        /\ ok => x = y
        /\ ~ok => x.pc = "flush" /\ x.ending = "cut"
  BY <1>2, <1>3, <1>4, Proceeds
<1>6. /\ stream'[t] = x /\ \A u \in Turns : u # t => stream'[u] = stream[u]
  BY <1>1, <1>5, Moves
<1>7. /\ At(t, Running) /\ x.pc \in {"running", "flush"} /\ x.pc \notin Finishing
      /\ (x.pc = "flush" => x.ending = "cut") /\ (x.pc = "flush" <=> ~ok)
  BY <1>1, <1>3, <1>4, <1>5 DEF Running, Finishing
<1>8. CASE ok
  <2>1. part' = InsertPart(part, t, "call", <<said + 1>>, tool, 0)
    BY <1>2, <1>8
  <2>2. said + 1 \in 1..MaxEvents /\ 0 \in Nat
    BY <1>1
  <2>3. /\ Parts(part') /\ Grows(part, part') /\ New = {m} /\ m \in Nat
        /\ \A i \in DOMAIN part : i < m /\ part'[i] = part[i]
        /\ part'[m].turn = t /\ part'[m].kind = "call" /\ part'[m].content = <<said + 1>>
        /\ part'[m].of = tool /\ part'[m].proposal = 0
        /\ Of(t, "call")' = Of(t, "call") \union {m} /\ m \notin Of(t, "call")
        /\ Of(t, "result")' = Of(t, "result")
    BY <2>1, <2>2, Stored
  <2> HIDE DEF m
  <2>4. Step => WritersOwnTheirParts'
    BY <1>5, <1>7, <2>3, AnswerKeepsWriters
  <2>5. ProposalsKept
    <3>1. \A u \in Turns : At(u, {"tools", "answering"})' => stream'[u] = stream[u]
      BY <1>6, <1>7
    <3>2. \A i \in New : part'[i].proposal = 0 /\ part'[i].turn = t
      BY <2>3
    <3>3. ~At(t, {"answering"})'
      BY <1>6, <1>7
    <3> QED
      BY <1>1, <3>1, <3>2, <3>3 DEF ProposalsKept, IndInv, ProposalsAreKnown
  <2>6. ASSUME Step PROVE CallsAreNumbered' /\ CallsAreAnswered'
    <3>1. \A i \in New : part'[i].turn = t
      BY <2>3
    <3>2. ASSUME NEW u \in Turns, u # t PROVE NumbersItsCalls(u)' /\ AnswersItsCalls(u)'
      BY <1>1, <1>6, <2>6, <3>1, <3>2, OtherCalls
    <3>3. At(t, Running)' /\ stream'[t].calls = Append(s.calls, call)
      BY <1>4, <1>5, <1>6, <1>8 DEF Running
    <3>4. NumbersItsCalls(t)' /\ AnswersItsCalls(t)'
      BY <1>1, <1>7, <2>3, <2>6, <3>3, CallIsOwed
    <3> QED
      BY <3>2, <3>4 DEF CallsAreNumbered, CallsAreAnswered
  <2>7. Step => ProposalsAreKnown' /\ ProposalsCiteWhatWasRead'
    BY <2>5, Frame
  <2> QED
    BY <1>1, <1>3, <1>5, <1>7, <2>3, <2>4, <2>6, <2>7, Statuses, WritePreserves
<1>9. CASE ~ok
  <2>1. part' = part /\ Grows(part, part') /\ New = {} /\ x.pc = "flush" /\ x.ending = "cut"
    BY <1>1, <1>2, <1>5, <1>9, GrowsItself DEF New
  <2>2. Step => WritersOwnTheirParts'
    BY <1>5, <1>7, <2>1, AnswerKeepsWriters
  <2>3. ProposalsKept
    <3>1. \A u \in Turns : At(u, {"tools", "answering"})' => stream'[u] = stream[u]
      BY <1>6, <1>7
    <3> QED
      BY <1>1, <2>1, <3>1 DEF ProposalsKept, IndInv, ProposalsAreKnown
  <2>4. CallsKept
    <3>1. \A u \in Turns : At(u, Running)' => stream'[u] = stream[u]
      BY <1>6, <2>1, Statuses
    <3>2. \A u \in Turns : At(u, Closing)' /\ stream'[u].ending = "completed" => stream'[u] = stream[u]
      BY <1>6, <2>1
    <3> QED
      BY <1>1, <2>1, <3>1, <3>2 DEF CallsKept, IndInv, CallsAreAnswered, AnswersItsCalls
  <2>5. Step => /\ ProposalsAreKnown' /\ ProposalsCiteWhatWasRead'
                /\ CallsAreNumbered' /\ CallsAreAnswered'
    BY <2>3, <2>4, Frame
  <2> QED
    BY <1>1, <1>3, <1>5, <1>7, <2>1, <2>2, <2>5, Statuses, WritePreserves
<1> QED
  BY <1>3, <1>8, <1>9

(***************************************************************************)
(* What a stream owes after a call.                                        *)
(***************************************************************************)
Call == [n : 1..MaxEvents, tool : Tools]
Calls == Seq(Call)

LEMMA CallFacts ==
  ASSUME NEW calls \in Calls, calls # <<>>
  PROVE  /\ Len(calls) \in Nat \ {0} /\ DOMAIN calls = 1..Len(calls)
         /\ Head(calls) = calls[1] /\ calls[1].n \in 1..MaxEvents /\ calls[1].tool \in Tools
         /\ Tail(calls) \in Calls /\ DOMAIN Tail(calls) = 1..(Len(calls) - 1)
         /\ \A k \in 1..(Len(calls) - 1) : Tail(calls)[k] = calls[k + 1]
         /\ Len(calls) > 1 => Tail(calls) # <<>>
<1>1. Len(calls) \in Nat \ {0} /\ DOMAIN calls = 1..Len(calls) /\ Head(calls) = calls[1]
  BY DEF Calls
<1>2. calls[1].n \in 1..MaxEvents /\ calls[1].tool \in Tools
  <2>1. 1 \in 1..Len(calls)
    BY <1>1
  <2>2. calls[1] \in Call
    BY <2>1 DEF Calls
  <2> QED
    BY <2>2 DEF Call
<1>3. /\ Tail(calls) \in Calls /\ Len(Tail(calls)) = Len(calls) - 1
      /\ \A k \in 1..(Len(calls) - 1) : Tail(calls)[k] = calls[k + 1]
  BY <1>1 DEF Calls
<1> DEFINE rest == Tail(calls)
<1>4. rest \in Calls /\ Len(rest) = Len(calls) - 1
  BY <1>3
<1> HIDE DEF rest
<1>5. DOMAIN rest = 1..(Len(calls) - 1) /\ (Len(calls) > 1 => rest # <<>>)
  BY <1>1, <1>4 DEF Calls
<1> QED
  BY <1>1, <1>2, <1>3, <1>5 DEF rest

\* What a stream goes on with after a call.
GoesOn(x, calls) ==
  \/ x.pc = "flush" /\ x.ending = "cut"
  \/ x.pc = "flush" /\ x.ending = "completed" /\ Len(calls) = 1
  \/ x.pc = "tools" /\ Len(calls) > 1 /\ x.calls = Tail(calls)
  \/ x.pc = "running" /\ Len(calls) = 1 /\ x.calls = <<>>

LEMMA CallsGoOn ==
  ASSUME NEW s \in Stream, s.calls # <<>>
  PROVE  /\ AfterCalls(s) \in Stream /\ AfterCalls(s).id = s.id /\ AfterCalls(s).heard = s.heard
         /\ GoesOn(AfterCalls(s), s.calls)
<1>1. s.calls \in Calls /\ s.step \in 0..MaxSteps /\ MaxSteps \in Nat
  BY TranscriptAssumption DEF Stream, Calls, Call
<1>2. PICK n \in Nat \ {0} : n = Len(s.calls) /\ Tail(s.calls) \in Calls
  BY <1>1, CallFacts
<1>3. CASE Len(s.calls) > 1
  <2> DEFINE x == [s EXCEPT !.pc = "tools", !.calls = Tail(s.calls)]
  <2>1. AfterCalls(s) = x
    BY <1>3 DEF AfterCalls
  <2>2. x \in Stream /\ x.id = s.id /\ x.heard = s.heard /\ x.pc = "tools" /\ x.calls = Tail(s.calls)
    BY <1>2 DEF Stream, Running, Calls, Call
  <2> HIDE DEF x
  <2> QED
    BY <1>3, <2>1, <2>2 DEF GoesOn
<1>4. CASE Len(s.calls) = 1 /\ (s.requested \/ s.step >= MaxSteps)
  <2> DEFINE x == EndWith(s, "completed")
  <2>1. AfterCalls(s) = x
    BY <1>4 DEF AfterCalls
  <2>2. x \in Stream /\ x.id = s.id /\ x.heard = s.heard /\ x.pc = "flush" /\ x.ending = "completed"
    BY EndsWith, Statuses
  <2> HIDE DEF x
  <2> QED
    BY <1>4, <2>1, <2>2 DEF GoesOn
<1>5. CASE Len(s.calls) = 1 /\ ~(s.requested \/ s.step >= MaxSteps)
  <2> DEFINE x == [s EXCEPT !.pc = "running", !.step = s.step + 1, !.calls = <<>>]
  <2>1. AfterCalls(s) = x
    BY <1>5 DEF AfterCalls
  <2>2. s.step + 1 \in 0..MaxSteps /\ <<>> \in Calls
    BY <1>1, <1>5 DEF Calls
  <2>3. x \in Stream /\ x.id = s.id /\ x.heard = s.heard /\ x.pc = "running" /\ x.calls = <<>>
    BY <2>2 DEF Stream, Running, Calls, Call
  <2> HIDE DEF x
  <2> QED
    BY <1>5, <2>1, <2>3 DEF GoesOn
<1>6. n > 1 \/ n = 1
  OBVIOUS
<1> QED
  BY <1>2, <1>3, <1>4, <1>5, <1>6

\* The first of the calls that a stream owes is answered.
LEMMA CallIsAnswered ==
  ASSUME IndInv, Step, NEW t \in Turns, At(t, Running), stream[t].calls # <<>>, said' = said, turn' = turn,
         NEW m \in Nat, New = {m}, \A i \in DOMAIN part : i < m /\ part'[i] = part[i],
         part'[m].content = <<stream[t].calls[1].n>>, part'[m].of = stream[t].calls[1].tool,
         Of(t, "result")' = Of(t, "result") \union {m}, m \notin Of(t, "result"), Of(t, "call")' = Of(t, "call"),
         GoesOn(stream'[t], stream[t].calls)
  PROVE  NumbersItsCalls(t)' /\ AnswersItsCalls(t)'
<1> DEFINE calls == stream[t].calls
<1>1. /\ NumbersItsCalls(t) /\ AnswersItsCalls(t) /\ said \in Nat
      /\ calls \in Calls /\ turn[t] # "completed"
  <2>1. TypeOK /\ NumbersItsCalls(t) /\ AnswersItsCalls(t)
    BY DEF IndInv, CallsAreNumbered, CallsAreAnswered
  <2>2. turn[t] # "completed" /\ said \in Nat
    BY <2>1 DEF AnswersItsCalls, TypeOK
  <2> QED
    BY <2>1, <2>2, Streams DEF Calls, Call
<1>2. PICK n \in Nat \ {0} :
        /\ Len(calls) = n /\ DOMAIN calls = 1..n
        /\ Tail(calls) \in Calls /\ DOMAIN Tail(calls) = 1..(n - 1)
        /\ \A k \in 1..(n - 1) : Tail(calls)[k] = calls[k + 1]
  BY <1>1, CallFacts
<1>3. \A i \in Of(t, "call") \union Of(t, "result") :
        i \in DOMAIN part /\ part'[i] = part[i] /\ part[i].content[1] \in 1..said
  BY <1>1, NumberOf DEF Of
<1>4. /\ \A i \in Of(t, "call") : Answered(t, i) \/ \E k \in DOMAIN calls : Asked(t, k, i)
      /\ \A k \in DOMAIN calls :
           /\ \E i \in Of(t, "call") : Asked(t, k, i)
           /\ \A j \in Of(t, "result") : part[j].content[1] < calls[k].n
           /\ \A l \in DOMAIN calls : k < l => calls[k].n < calls[l].n
  BY <1>1 DEF AnswersItsCalls
<1>5. PICK c \in Nat : c = calls[1].n /\ c \in 1..said /\ part'[m].content = <<c>> /\ part'[m].content[1] = c
  <2>1. 1 \in DOMAIN calls
    BY <1>2
  <2>2. PICK i \in Of(t, "call") : Asked(t, 1, i)
    BY <1>4, <2>1
  <2>3. part[i].content = <<calls[1].n>>
    BY <2>2 DEF Asked
  <2>4. part[i].content[1] = calls[1].n
    BY <2>3
  <2> QED
    BY <1>3, <2>4
<1>6. ASSUME NEW i \in Of(t, "call") PROVE Asked(t, 1, i) => i < m /\ Answers(m, i)'
  BY <1>3 DEF Asked, Answers
<1>7. ASSUME NEW j \in Of(t, "result"), NEW i \in Of(t, "call") PROVE Answers(j, i)' <=> Answers(j, i)
  BY <1>3 DEF Answers
<1>8. \A i \in Of(t, "call") : Answered(t, i) \/ Asked(t, 1, i) => Answered(t, i)'
  BY <1>6, <1>7 DEF Answered
<1>9. NumbersItsCalls(t)'
  <2>1. ASSUME NEW i \in Of(t, "call")' \union Of(t, "result")' PROVE \E k \in 1..said' : part'[i].content = <<k>>
    <3>1. CASE i = m
      BY <1>5, <3>1
    <3>2. CASE i # m
      <4>1. i \in Of(t, "call") \union Of(t, "result")
        BY <3>2
      <4> QED
        BY <1>1, <1>3, <4>1, NumberOf
    <3> QED
      BY <3>1, <3>2
  <2>2. \A i, k \in Of(t, "call")' : i < k => part'[i].content[1] < part'[k].content[1]
    BY <1>1, <1>3 DEF NumbersItsCalls
  <2>3. ASSUME NEW j \in Of(t, "result")', NEW l \in Of(t, "result")', j < l
        PROVE  part'[j].content[1] < part'[l].content[1]
    <3>1. CASE l = m
      <4>1. j \in Of(t, "result") /\ 1 \in DOMAIN calls
        BY <1>2, <2>3, <3>1
      <4> QED
        BY <1>3, <1>4, <1>5, <3>1, <4>1
    <3>2. CASE l # m
      <4>1. l \in Of(t, "result") /\ l < m /\ l \in Nat
        BY <1>3, <3>2, StepFacts
      <4>2. j # m
        BY <2>3, <4>1
      <4> QED
        BY <1>1, <1>3, <2>3, <4>1, <4>2 DEF NumbersItsCalls
    <3> QED
      BY <3>1, <3>2
  <2>4. ASSUME NEW j \in Of(t, "result")' PROVE \E i \in Of(t, "call")' : i < j /\ Answers(j, i)'
    <3>1. CASE j = m
      <4>1. 1 \in DOMAIN calls
        BY <1>2
      <4> QED
        BY <1>4, <1>6, <3>1, <4>1
    <3>2. CASE j # m
      BY <1>1, <1>7, <3>2 DEF NumbersItsCalls
    <3> QED
      BY <3>1, <3>2
  <2> QED
    BY <2>1, <2>2, <2>3, <2>4 DEF NumbersItsCalls
<1>10. turn'[t] # "completed"
  BY <1>1
<1>11. CASE stream'[t].pc = "flush" /\ stream'[t].ending = "cut"
  BY <1>9, <1>10, <1>11, Statuses DEF AnswersItsCalls
<1>12. CASE Len(calls) = 1 /\ \/ stream'[t].pc = "flush" /\ stream'[t].ending = "completed"
                              \/ stream'[t].pc = "running" /\ stream'[t].calls = <<>>
  <2>1. \A i \in Of(t, "call")' : Answered(t, i)'
    <3>1. \A k \in DOMAIN calls : k = 1
      BY <1>2, <1>12
    <3> QED
      BY <1>4, <1>8, <3>1
  <2>2. CASE stream'[t].pc = "flush"
    BY <1>9, <1>10, <2>1, <2>2, Statuses DEF AnswersItsCalls
  <2>3. CASE stream'[t].calls = <<>>
    <3>1. DOMAIN stream'[t].calls = {}
      BY <2>3
    <3> QED
      BY <1>9, <1>10, <2>1, <3>1 DEF AnswersItsCalls
  <2> QED
    BY <1>12, <2>2, <2>3
<1>13. CASE stream'[t].pc = "tools" /\ n > 1 /\ stream'[t].calls = Tail(calls)
  <2>1. /\ DOMAIN stream'[t].calls = 1..(n - 1)
        /\ \A k \in 1..(n - 1) : k + 1 \in DOMAIN calls /\ stream'[t].calls[k] = calls[k + 1]
    BY <1>2, <1>13
  <2>2. ASSUME NEW k \in 1..(n - 1), NEW i \in Of(t, "call") PROVE Asked(t, k, i)' <=> Asked(t, k + 1, i)
    BY <1>3, <2>1 DEF Asked
  <2>3. ASSUME NEW i \in Of(t, "call")' PROVE Answered(t, i)' \/ \E k \in 1..(n - 1) : Asked(t, k, i)'
    <3>1. CASE Answered(t, i)
      BY <1>8, <3>1
    <3>2. CASE ~Answered(t, i)
      <4>1. PICK k \in DOMAIN calls : Asked(t, k, i)
        BY <1>4, <3>2
      <4>2. CASE k = 1
        BY <1>8, <4>1, <4>2
      <4>3. CASE k # 1
        <5>1. k - 1 \in 1..(n - 1) /\ (k - 1) + 1 = k
          BY <1>2, <4>3
        <5> QED
          BY <2>2, <4>1, <5>1
      <4> QED
        BY <4>2, <4>3
    <3> QED
      BY <3>1, <3>2
  <2>4. ASSUME NEW k \in 1..(n - 1)
        PROVE  /\ \E i \in Of(t, "call")' : Asked(t, k, i)'
               /\ \A j \in Of(t, "result")' : part'[j].content[1] < stream'[t].calls[k].n
               /\ \A l \in 1..(n - 1) : k < l => stream'[t].calls[k].n < stream'[t].calls[l].n
    <3>1. k + 1 \in DOMAIN calls /\ 1 \in DOMAIN calls /\ 1 < k + 1
      BY <1>2, <2>1
    <3>2. \E i \in Of(t, "call")' : Asked(t, k, i)'
      BY <1>4, <2>2, <3>1
    <3>3. ASSUME NEW j \in Of(t, "result")' PROVE part'[j].content[1] < calls[k + 1].n
      <4>1. CASE j = m
        BY <1>4, <1>5, <3>1, <4>1
      <4>2. CASE j # m
        BY <1>3, <1>4, <3>1, <4>2
      <4> QED
        BY <4>1, <4>2
    <3>4. ASSUME NEW l \in 1..(n - 1), k < l PROVE calls[k + 1].n < calls[l + 1].n
      <4>1. l + 1 \in DOMAIN calls /\ k + 1 < l + 1
        BY <1>2, <2>1, <3>4
      <4> QED
        BY <1>4, <3>1, <4>1
    <3> QED
      BY <2>1, <3>2, <3>3, <3>4
  <2>5. ~At(t, Closing)'
    BY <1>13 DEF Closing
  <2> QED
    BY <1>9, <1>10, <2>1, <2>3, <2>4, <2>5 DEF AnswersItsCalls
<1> QED
  BY <1>2, <1>11, <1>12, <1>13 DEF GoesOn

(***************************************************************************)
(* The result of a call is stored.                                         *)
(***************************************************************************)
\* The stream's move when a result was to be stored.
LEMMA ResultMoves ==
  ASSUME NEW t \in Turns, NEW ok \in BOOLEAN, NEW sent \in BOOLEAN, NEW s \in Stream, NEW done \in Stream,
         s.calls # <<>>, done.calls = s.calls, done.id = s.id, done.heard = s.heard,
         Proceed(t, ok, IF sent THEN AfterCalls(done) ELSE EndWith(s, "cut"))
  PROVE  \E x \in Stream :
           /\ stream' = [stream EXCEPT ![t] = x] /\ x.id = s.id /\ x.heard = s.heard
           /\ GoesOn(x, s.calls)
           /\ ~ok => x.pc = "flush" /\ x.ending = "cut"
<1> DEFINE y == IF sent THEN AfterCalls(done) ELSE EndWith(s, "cut")
<1>1. y \in Stream /\ y.id = s.id /\ y.heard = s.heard /\ GoesOn(y, s.calls)
  <2>1. CASE sent
    BY <2>1, CallsGoOn
  <2>2. CASE ~sent
    <3> DEFINE z == EndWith(s, "cut")
    <3>1. z \in Stream /\ z.id = s.id /\ z.heard = s.heard /\ z.pc = "flush" /\ z.ending = "cut"
      BY EndsWith, Statuses
    <3>2. y = z
      BY <2>2
    <3> HIDE DEF z, y
    <3> QED
      BY <3>1, <3>2 DEF GoesOn
  <2> QED
    BY <2>1, <2>2
<1>2. Proceed(t, ok, y)
  OBVIOUS
<1> HIDE DEF y
<1>3. PICK x \in Stream :
        /\ stream' = [stream EXCEPT ![t] = x] /\ x.id = y.id /\ x.heard = y.heard
        /\ ok => x = y
        /\ ~ok => x.pc = "flush" /\ x.ending = "cut"
  BY <1>1, <1>2, Proceeds
<1>4. GoesOn(x, s.calls)
  BY <1>1, <1>3 DEF GoesOn
<1> QED
  BY <1>1, <1>3, <1>4

\* The result of a call is of no proposal, or of the one the turn answers with.
LEMMA ResultIsCited ==
  ASSUME IndInv, Step, NEW t \in Turns, At(t, {"tools", "answering"}), NEW m \in Nat, New = {m},
         proposal' = proposal, \A i \in DOMAIN part : i < m /\ part'[i] = part[i],
         part'[m].content = <<stream[t].calls[1].n>>, part'[m].of = stream[t].calls[1].tool,
         Of(t, "call")' = Of(t, "call"),
         part'[m].proposal = IF stream[t].pc = "answering" THEN stream[t].proposed ELSE 0
  PROVE  part'[m].proposal = 0 \/ (part'[m].proposal \in DOMAIN proposal /\ CitesAsRead(m)')
<1> DEFINE p == stream[t].proposed
           cites == proposal[p].cites
<1>1. CASE stream[t].pc = "answering"
  <2>1. /\ p \in DOMAIN proposal /\ proposal[p].turn = t
        /\ cites \subseteq QueryResults
        /\ \A j \in QueryResults :
             part[j].turn = t \/ (\E k \in Of(t, "call") : Asked(t, 1, k) /\ j < k) => j \in cites
    BY <1>1 DEF IndInv, ProposalsAreKnown
  <2>2. part'[m].proposal = p
    BY <1>1
  <2>3. \A j \in cites : j \in QueryResults' /\ j < m
    BY <2>1, ResultsFacts
  <2>4. ASSUME NEW j \in QueryResults', j < m PROVE j \in QueryResults /\ part'[j].turn = part[j].turn
    <3>1. j \in DOMAIN part
      <4>1. j # m /\ j \in DOMAIN part'
        BY <2>4, StepFacts DEF QueryResults
      <4> QED
        BY <4>1 DEF New
    <3> QED
      BY <3>1, ResultsFacts, StepFacts
  <2>5. ASSUME NEW k \in Of(t, "call")', k < m, Answers(m, k)', NEW j \in QueryResults',
               j < k \/ (j < m /\ part'[j].turn = t)
        PROVE  j \in cites
    <3>1. k \in Of(t, "call") /\ k \in DOMAIN part /\ part'[k] = part[k]
      BY <2>5 DEF Of
    <3>2. Asked(t, 1, k)
      BY <2>5, <3>1 DEF Answers, Asked
    <3>3. j < m
      <4>1. j \in Nat /\ k \in Nat
        BY <3>1, StepFacts DEF QueryResults
      <4> QED
        BY <2>5, <4>1
    <3>4. j \in QueryResults /\ part'[j].turn = part[j].turn
      BY <2>4, <3>3
    <3> QED
      BY <2>1, <2>5, <3>1, <3>2, <3>4
  <2> QED
    BY <2>1, <2>2, <2>3, <2>5 DEF CitesAsRead
<1> QED
  BY <1>1

LEMMA WriteToolResultPreserves ==
  ASSUME IndInv, NEW t \in Turns, WriteToolResult(t)
  PROVE  IndInv' /\ Grows(part, part')
<1> DEFINE s == stream[t]
           m == Len(part) + 1
           p == IF s.pc = "answering" THEN s.proposed ELSE 0
           done == [s EXCEPT !.requested = @ \/ Head(s.calls).tool = "propose"]
<1>1. /\ TypeOK /\ Parts(part) /\ s \in Stream /\ s.pc \in {"tools", "answering"} /\ s.calls # <<>>
      /\ said' = said /\ UNCHANGED <<created, gone, turn, proposal, stopping, page, notes>>
  <2>1. s.pc \in {"tools", "answering"} /\ UNCHANGED <<created, gone, turn, proposal, said, stopping, page, notes>>
    BY DEF WriteToolResult
  <2> QED
    BY <2>1, IndInvParts, Streams DEF IndInv, ProposalsAreKnown
<1>2. PICK ok \in Outcomes, sent \in BOOLEAN :
        /\ Record(t, ok)
        /\ part' = IF ok THEN InsertPart(part, t, "result", <<Head(s.calls).n>>, Head(s.calls).tool, p)
                   ELSE part
        /\ Proceed(t, ok, IF sent THEN AfterCalls(done) ELSE EndWith(s, "cut"))
  BY DEF WriteToolResult
<1>3. ok \in BOOLEAN /\ faults' \in 0..MaxIncidents /\ broken' \subseteq Turns /\ broken \subseteq broken'
  BY <1>1, <1>2, Records
<1>4. /\ s.calls \in Calls /\ Head(s.calls) = s.calls[1] /\ s.calls[1].n \in 1..MaxEvents
      /\ s.calls[1].tool \in Tools /\ s.proposed \in Nat
  <2>1. s.calls \in Calls /\ s.proposed \in Nat
    BY <1>1 DEF Stream, Calls, Call
  <2> QED
    BY <1>1, <2>1, CallFacts
<1>5. done \in Stream /\ done.calls = s.calls /\ done.id = s.id /\ done.heard = s.heard
  BY <1>1 DEF Stream
<1> HIDE DEF done
<1>6. PICK x \in Stream :
        /\ stream' = [stream EXCEPT ![t] = x] /\ x.id = s.id /\ x.heard = s.heard
        /\ GoesOn(x, s.calls)
        /\ ~ok => x.pc = "flush" /\ x.ending = "cut"
  BY <1>1, <1>2, <1>3, <1>5, ResultMoves
<1>7. /\ stream'[t] = x /\ \A u \in Turns : u # t => stream'[u] = stream[u]
  BY <1>1, <1>6, Moves
<1>8. /\ At(t, Running) /\ x.pc \in {"running", "tools", "flush"} /\ x.pc \notin Finishing
      /\ (x.pc = "flush" => x.ending \in Terminal)
  BY <1>1, <1>6, Statuses DEF Running, Finishing, GoesOn
<1>9. ASSUME ProposalsKept PROVE Step => ProposalsAreKnown' /\ ProposalsCiteWhatWasRead'
  BY <1>9, Frame
<1>10. \A u \in Turns : At(u, {"tools", "answering"})' =>
         /\ stream'[u].calls # <<>>
         /\ At(u, {"answering"})' =>
              u # t /\ At(u, {"answering"}) /\ stream'[u].calls = stream[u].calls /\ stream'[u].proposed = stream[u].proposed
  <2> SUFFICES ASSUME NEW u \in Turns, At(u, {"tools", "answering"})'
               PROVE  /\ stream'[u].calls # <<>>
                      /\ At(u, {"answering"})' =>
                           /\ u # t /\ At(u, {"answering"})
                           /\ stream'[u].calls = stream[u].calls /\ stream'[u].proposed = stream[u].proposed
    OBVIOUS
  <2>1. CASE u = t
    <3>1. x.pc = "tools" /\ Len(s.calls) > 1 /\ x.calls = Tail(s.calls)
      BY <1>6, <1>7, <1>8, <2>1 DEF GoesOn
    <3>2. x.calls # <<>>
      BY <1>1, <1>4, <3>1, CallFacts
    <3> QED
      BY <1>7, <2>1, <3>1, <3>2
  <2>2. CASE u # t
    BY <1>7, <2>2 DEF IndInv, ProposalsAreKnown
  <2> QED
    BY <2>1, <2>2
<1>11. CASE ok
  <2>1. part' = InsertPart(part, t, "result", <<s.calls[1].n>>, s.calls[1].tool, p) /\ p \in Nat
    BY <1>2, <1>4, <1>11
  <2> HIDE DEF p
  <2>2. /\ Parts(part') /\ Grows(part, part') /\ New = {m} /\ m \in Nat
        /\ \A i \in DOMAIN part : i < m /\ part'[i] = part[i]
        /\ part'[m].turn = t /\ part'[m].kind = "result" /\ part'[m].content = <<s.calls[1].n>>
        /\ part'[m].of = s.calls[1].tool /\ part'[m].proposal = p
        /\ Of(t, "result")' = Of(t, "result") \union {m} /\ m \notin Of(t, "result")
        /\ Of(t, "call")' = Of(t, "call")
    <3>1. PICK n \in 1..MaxEvents, tool \in Tools, q \in Nat : n = s.calls[1].n /\ tool = s.calls[1].tool /\ q = p
      BY <1>4, <2>1
    <3>2. part' = InsertPart(part, t, "result", <<n>>, tool, q)
      BY <2>1, <3>1
    <3>3. /\ Parts(part') /\ Grows(part, part') /\ New = {m} /\ m \in Nat
          /\ \A i \in DOMAIN part : i < m /\ part'[i] = part[i]
          /\ part'[m].turn = t /\ part'[m].kind = "result" /\ part'[m].content = <<n>>
          /\ part'[m].of = tool /\ part'[m].proposal = q
          /\ Of(t, "result")' = Of(t, "result") \union {m} /\ m \notin Of(t, "result")
          /\ Of(t, "call")' = Of(t, "call")
      BY <3>2, Stored
    <3> HIDE DEF m
    <3> QED
      BY <3>1, <3>3
  <2>3. PICK k \in Nat : k = m
    BY <2>2
  <2> HIDE DEF m
  <2>4. Step => WritersOwnTheirParts'
    BY <1>6, <1>8, <2>2, AnswerKeepsWriters
  <2>5. ASSUME Step PROVE ProposalsKept
    <3>1. part'[k].proposal = 0 \/ (part'[k].proposal \in DOMAIN proposal /\ CitesAsRead(k)')
      BY <1>1, <2>2, <2>3, <2>5, ResultIsCited DEF p
    <3>2. \A i \in New : /\ part'[i].proposal = 0 \/ (part'[i].proposal \in DOMAIN proposal /\ CitesAsRead(i)')
                         /\ part'[i].turn = t
      BY <2>2, <2>3, <3>1
    <3> QED
      BY <1>1, <1>10, <3>2 DEF ProposalsKept
  <2>6. ASSUME Step PROVE CallsAreNumbered' /\ CallsAreAnswered'
    <3>1. \A i \in New : part'[i].turn = t
      BY <2>2
    <3>2. ASSUME NEW u \in Turns, u # t PROVE NumbersItsCalls(u)' /\ AnswersItsCalls(u)'
      BY <1>1, <1>7, <2>6, <3>1, <3>2, OtherCalls
    <3>3. GoesOn(stream'[t], s.calls)
      BY <1>6, <1>7
    <3>4. NumbersItsCalls(t)' /\ AnswersItsCalls(t)'
      BY <1>1, <1>8, <2>2, <2>3, <2>6, <3>3, CallIsAnswered
    <3> QED
      BY <3>2, <3>4 DEF CallsAreNumbered, CallsAreAnswered
  <2>7. Step => ProposalsAreKnown' /\ ProposalsCiteWhatWasRead'
    BY <1>9, <2>5
  <2>8. /\ \A i \in DOMAIN part : part'[i].of = part[i].of
        /\ \A i \in New : part'[i].turn = t /\ part'[i].kind # "status"
    BY <2>2
  <2> QED
    BY <1>1, <1>3, <1>6, <1>8, <2>2, <2>4, <2>6, <2>7, <2>8, WritePreserves
<1>12. CASE ~ok
  <2>1. part' = part /\ Grows(part, part') /\ New = {} /\ x.pc = "flush" /\ x.ending = "cut"
    BY <1>1, <1>2, <1>6, <1>12, GrowsItself DEF New
  <2>2. Step => WritersOwnTheirParts'
    BY <1>6, <1>8, <2>1, AnswerKeepsWriters
  <2>3. ProposalsKept
    BY <1>1, <1>10, <2>1 DEF ProposalsKept
  <2>4. CallsKept
    <3>1. \A u \in Turns : At(u, Running)' => stream'[u] = stream[u]
      BY <1>7, <2>1, Statuses
    <3>2. \A u \in Turns : At(u, Closing)' /\ stream'[u].ending = "completed" => stream'[u] = stream[u]
      BY <1>7, <2>1
    <3> QED
      BY <1>1, <2>1, <3>1, <3>2 DEF CallsKept, IndInv, CallsAreAnswered, AnswersItsCalls
  <2>5. Step => CallsAreNumbered' /\ CallsAreAnswered'
    BY <2>4, Frame
  <2> QED
    BY <1>1, <1>3, <1>6, <1>8, <1>9, <2>1, <2>2, <2>3, <2>5, WritePreserves
<1> QED
  BY <1>3, <1>11, <1>12

(***************************************************************************)
(* The theorems.                                                           *)
(***************************************************************************)
LEMMA InitInv == Init => IndInv
<1> SUFFICES ASSUME Init PROVE IndInv
  OBVIOUS
<1> USE DEF Init
<1>1. \A t \in Turns : stream[t] = NoStream /\ turn[t] = "none"
  OBVIOUS
<1>2. DOMAIN part = {} /\ DOMAIN proposal = {} /\ \A t, kind : Of(t, kind) = {}
  BY DEF Of
<1>3. stream \in [Turns -> Stream]
  BY NoStreamIsAStream
<1>4. TypeOK
  <2>1. part \in Seq(Part) /\ proposal \in Seq(Proposal)
    OBVIOUS
  <2>2. said \in 0..MaxEvents /\ notes \in 0..MaxIncidents /\ faults \in 0..MaxIncidents
    BY TranscriptAssumption
  <2>3. /\ turn \in [Turns -> {"none", "working"} \union Terminal] /\ created \in BOOLEAN
        /\ broken \subseteq Turns
    OBVIOUS
  <2>4. /\ stopping \in [pc : {"idle", "row", "part"}, turn : Turns \union {Session}]
        /\ page \in [read : 0..3, parts : SUBSET Turns, ended : SUBSET Turns, proposals : SUBSET Nat]
    BY DEF NotStopping, NoPage
  <2> QED
    BY <1>2, <1>3, <2>1, <2>2, <2>3, <2>4 DEF TypeOK
<1>5. PartsAreNumbered
  BY <1>2 DEF PartsAreNumbered
<1>6. TurnsAreKnown
  BY <1>1, <1>2, Statuses DEF TurnsAreKnown, NotStopping, NoStream
<1>7. WritersOwnTheirParts
  <2>1. Len(<<>>) = 0 /\ 0 <= said
    OBVIOUS
  <2> QED
    BY <1>1, <2>1 DEF WritersOwnTheirParts, OwnsItsPart, NoStream
<1>8. ProposalsAreKnown /\ ProposalsCiteWhatWasRead
  BY <1>1, <1>2 DEF ProposalsAreKnown, ProposalsCiteWhatWasRead, NoStream
<1>9. CallsAreNumbered /\ CallsAreAnswered
  BY <1>1, <1>2, Statuses DEF CallsAreNumbered, NumbersItsCalls, CallsAreAnswered, AnswersItsCalls, NoStream
<1>10. PageFollows
  BY DEF PageFollows, NoPage
<1> QED
  BY <1>4, <1>5, <1>6, <1>7, <1>8, <1>9, <1>10 DEF IndInv

LEMMA NextInv == IndInv /\ [Next]_vars => IndInv' /\ Grows(part, part')
<1> SUFFICES ASSUME IndInv, [Next]_vars PROVE IndInv' /\ Grows(part, part')
  OBVIOUS
<1>1. CASE CreateSession
  BY <1>1, CreateSessionPreserves
<1>2. ASSUME NEW t \in Turns, StartTurn(t) PROVE IndInv' /\ Grows(part, part')
  BY <1>2, StartTurnPreserves
<1>3. ASSUME NEW t \in Turns, StreamStep(t) PROVE IndInv' /\ Grows(part, part')
  <2>1. ASSUME NEW w \in Writers, Delta(t, w) PROVE IndInv' /\ Grows(part, part')
    BY <2>1, DeltaPreserves
  <2>2. ASSUME NEW tool \in Tools, ToolCall(t, tool) PROVE IndInv' /\ Grows(part, part')
    BY <2>2, ToolCallPreserves
  <2>3. CASE EndStep(t)
    BY <2>3, EndStepPreserves
  <2>4. CASE Break(t)
    BY <2>4, BreakPreserves
  <2>5. CASE CreateProposal(t)
    BY <2>5, CreateProposalPreserves
  <2>6. CASE WriteToolResult(t)
    BY <2>6, WriteToolResultPreserves
  <2>7. CASE Flush(t)
    BY <2>7, FlushPreserves
  <2>8. CASE FinishRow(t)
    BY <2>8, FinishRowPreserves
  <2>9. CASE FinishPart(t)
    BY <2>9, FinishPartPreserves
  <2>10. CASE FinishDeleted(t)
    BY <2>10, FinishDeletedPreserves
  <2> QED
    BY <1>3, <2>1, <2>2, <2>3, <2>4, <2>5, <2>6, <2>7, <2>8, <2>9, <2>10 DEF StreamStep
<1>4. ASSUME NEW t \in Turns, StopTurn(t) PROVE IndInv' /\ Grows(part, part')
  BY <1>4, StopTurnPreserves
<1>5. CASE StopRow
  BY <1>5, StopRowPreserves
<1>6. CASE StopPart
  BY <1>6, StopPartPreserves
<1>7. CASE Refresh
  BY <1>7, RefreshPreserves
<1>8. CASE RecordDirectEdit
  BY <1>8, DirectEditPreserves
<1>9. CASE Crash
  BY <1>9, CrashPreserves
<1>10. CASE ReadPage
  BY <1>10, ReadPagePreserves
<1>11. CASE ClosePage
  BY <1>11, ClosePagePreserves
<1>12. CASE UNCHANGED vars
  BY <1>12, StutterPreserves
<1>13. CASE StopDeleted
  BY <1>13, StopDeletedPreserves
<1>14. CASE DeleteReport
  BY <1>14, DeleteReportPreserves
<1> QED
  BY <1>1, <1>2, <1>3, <1>4, <1>5, <1>6, <1>7, <1>8, <1>9, <1>10, <1>11, <1>12, <1>13, <1>14 DEF Next

\* Only the deletion of the report takes parts off the record.
LEMMA GoneMoves == [Next]_vars => gone' = gone \/ DeleteReport
<1> SUFFICES ASSUME [Next]_vars, ~DeleteReport PROVE gone' = gone
  OBVIOUS
<1>1. ASSUME NEW t \in Turns, StartTurn(t) PROVE gone' = gone
  BY <1>1 DEF StartTurn
<1>2. ASSUME NEW t \in Turns, StreamStep(t) PROVE gone' = gone
  <2>1. ASSUME NEW w \in Writers, Delta(t, w) PROVE gone' = gone
    BY <2>1 DEF Delta
  <2>2. ASSUME NEW tool \in Tools, ToolCall(t, tool) PROVE gone' = gone
    BY <2>2 DEF ToolCall
  <2>3. CASE EndStep(t) \/ Break(t) \/ FinishDeleted(t)
    BY <2>3 DEF EndStep, Break, FinishDeleted
  <2>4. CASE CreateProposal(t) \/ WriteToolResult(t) \/ Flush(t)
    BY <2>4 DEF CreateProposal, WriteToolResult, Flush
  <2>5. CASE FinishRow(t) \/ FinishPart(t)
    BY <2>5 DEF FinishRow, FinishPart, Finish
  <2> QED
    BY <1>2, <2>1, <2>2, <2>3, <2>4, <2>5 DEF StreamStep
<1>3. ASSUME NEW t \in Turns, StopTurn(t) PROVE gone' = gone
  BY <1>3 DEF StopTurn
<1>4. CASE CreateSession \/ StopRow \/ StopPart \/ StopDeleted
  BY <1>4 DEF CreateSession, StopRow, StopPart, StopDeleted
<1>5. CASE Refresh \/ RecordDirectEdit \/ Crash
  BY <1>5 DEF Refresh, RecordDirectEdit, Crash
<1>6. CASE ReadPage \/ ClosePage \/ UNCHANGED vars
  BY <1>6 DEF ReadPage, ClosePage, vars
<1> QED
  BY <1>1, <1>2, <1>3, <1>4, <1>5, <1>6 DEF Next

\* The inductive invariant holds.
THEOREM Invariance == Spec => []IndInv
<1>1. IndInv /\ [Next]_vars => IndInv'
  BY NextInv
<1> QED
  BY InitInv, <1>1, PTL DEF Spec

\* A completed turn has answered its calls, in their order: the calls and the
\* results are stored in the order of their numbers.
LEMMA CallsFollow == IndInv => CompletedTurnsAnswerTheirCalls
<1> SUFFICES ASSUME IndInv, NEW t \in Turns, turn[t] = "completed"
             PROVE  /\ \A i \in Of(t, "call") : \E j \in Of(t, "result") : Answers(j, i)
                    /\ \A j \in Of(t, "result") : \E i \in Of(t, "call") : i < j /\ Answers(j, i)
                    /\ \A i, k \in Of(t, "call"), j, l \in Of(t, "result") :
                         Answers(j, i) /\ Answers(l, k) => (i < k <=> j < l)
  BY DEF CompletedTurnsAnswerTheirCalls
<1>1. NumbersItsCalls(t) /\ AnswersItsCalls(t)
  BY DEF IndInv, CallsAreNumbered, CallsAreAnswered
<1>2. \A i \in Of(t, "call") : \E j \in Of(t, "result") : Answers(j, i)
  BY <1>1 DEF AnswersItsCalls, Answered
<1>3. \A j \in Of(t, "result") : \E i \in Of(t, "call") : i < j /\ Answers(j, i)
  BY <1>1 DEF NumbersItsCalls
<1>4. \A i \in Of(t, "call") \union Of(t, "result") : i \in Nat /\ part[i].content[1] \in Nat
  <2>1. ASSUME NEW i \in Of(t, "call") \union Of(t, "result") PROVE i \in Nat /\ part[i].content[1] \in Nat
    <3>1. part[i].content[1] \in 1..said /\ said \in Nat
      BY <1>1, NumberOf DEF IndInv, TypeOK
    <3>2. i \in Nat
      BY IndInvParts, PartsFacts DEF Of
    <3> QED
      BY <3>1, <3>2
  <2> QED
    BY <2>1
<1>5. ASSUME NEW i \in Of(t, "call"), NEW k \in Of(t, "call"),
             NEW j \in Of(t, "result"), NEW l \in Of(t, "result"), Answers(j, i), Answers(l, k)
      PROVE  i < k <=> j < l
  <2>1. part[j].content[1] = part[i].content[1] /\ part[l].content[1] = part[k].content[1]
    BY <1>5 DEF Answers
  <2>2. /\ i < k => part[i].content[1] < part[k].content[1]
        /\ k < i => part[k].content[1] < part[i].content[1]
        /\ j < l => part[j].content[1] < part[l].content[1]
        /\ l < j => part[l].content[1] < part[j].content[1]
    BY <1>1 DEF NumbersItsCalls
  <2>3. i = k => part[i].content[1] = part[k].content[1]
    OBVIOUS
  <2>4. j = l => part[j].content[1] = part[l].content[1]
    OBVIOUS
  <2> QED
    BY <1>4, <2>1, <2>2, <2>3, <2>4
<1> QED
  BY <1>2, <1>3, <1>5

\* The tables are of their types and consistent, and a completed turn has
\* answered its calls.
THEOREM WellFormedHolds == Spec => []WellFormed
<1>1. IndInv => WellFormed
  BY CallsFollow DEF WellFormed
<1> QED
  BY Invariance, <1>1, PTL

\* A stream that has returned has left on record all that it heard, but for what
\* was deleted.
THEOREM ReturnedKeep == Spec => []ReturnedTurnsKeepWhatTheyHeard
<1>1. IndInv => ReturnedTurnsKeepWhatTheyHeard
  <2> SUFFICES ASSUME IndInv, NEW t \in Turns \ broken, NEW w \in Writers,
                      At(t, {"returned"}), stream[t].heard[w] # <<>>, stream[t].id[w] \notin 1..gone
               PROVE  part[stream[t].id[w]].content = stream[t].heard[w]
    BY DEF ReturnedTurnsKeepWhatTheyHeard
  <2>1. OwnsItsPart(t, w) /\ At(t, Finishing)
    BY DEF IndInv, WritersOwnTheirParts, Finishing
  <2>2. stream[t].id[w] # 0 => stream[t].id[w] > gone
    <3>1. stream[t].id[w] # 0 => stream[t].id[w] \in DOMAIN part
      BY <2>1 DEF OwnsItsPart, Of
    <3>2. gone \in Nat /\ Len(part) \in Nat /\ DOMAIN part = 1..Len(part)
      BY IndInvParts DEF Parts
    <3> QED
      BY <3>1, <3>2
  <2> QED
    BY <2>1, <2>2 DEF OwnsItsPart
<1> QED
  BY Invariance, <1>1, PTL

\* A proposal cites the query results that were on record when it was called for,
\* of every turn and refreshed, those its turn was given after that, and none
\* stored after its own result.
THEOREM ProposalsCite == Spec => []ProposalsCiteWhatWasRead
<1>1. IndInv => ProposalsCiteWhatWasRead
  BY DEF IndInv
<1> QED
  BY Invariance, <1>1, PTL

\* The page has what its parts refer to, as long as its report is there.
THEOREM PageBacked == Spec => []PageIsBacked
<1>1. IndInv => PageIsBacked
  <2> SUFFICES ASSUME IndInv, page.read = Len(PageReads)
               PROVE  ~Deleted => page.parts = {} /\ page.ended = {} /\ page.proposals = {}
    BY DEF PageIsBacked
  <2>1. page.read = 3
    BY DEF PageReads
  <2> QED
    BY <2>1 DEF IndInv, PageFollows
<1> QED
  BY Invariance, <1>1, PTL

\* The transcript only grows, whichever of two streams writes it, but for the
\* deletion of its report, which takes all of it.
THEOREM OnlyGrows == Spec => TranscriptOnlyGrows
<1> DEFINE Same(i) == /\ [part'[i] EXCEPT !.content = <<>>, !.of = "none"]
                           = [part[i] EXCEPT !.content = <<>>, !.of = "none"]
                      /\ IsPrefix(part[i].content, part'[i].content)
                      /\ part[i].of = part'[i].of \/ part[i].kind = "status"
           Grown == /\ OnRecord(part) \subseteq OnRecord(part)' \/ OnRecord(part)' = {}
                    /\ \A i \in OnRecord(part) \intersect OnRecord(part)' : Same(i)
                    /\ \A i \in OnRecord(part)' \ OnRecord(part) :
                         \A m \in SequencesOf(part) : m < part'[i].sequence
<1>1. IndInv /\ [Next]_vars => [Grown]_<<part, gone>>
  <2> SUFFICES ASSUME IndInv, [Next]_vars PROVE Grown
    OBVIOUS
  <2>1. CASE DeleteReport
    <3>1. part' = part /\ gone' = Len(part) /\ Parts(part)
      BY <2>1, IndInvParts DEF DeleteReport
    <3>2. OnRecord(part)' = {}
      BY <3>1, PartsFacts DEF OnRecord
    <3> QED
      BY <3>2
  <2>2. CASE gone' = gone
    <3>1. Parts(part) /\ Parts(part)' /\ Grows(part, part')
      BY NextInv, IndInvParts, PTL
    <3>2. Parts(part')
      BY <2>2, <3>1 DEF Parts, Place
    <3>3. /\ Len(part) \in Nat /\ DOMAIN part = 1..Len(part) /\ gone \in 0..Len(part)
          /\ Len(part') \in Nat /\ DOMAIN part' = 1..Len(part') /\ Len(part) <= Len(part')
          /\ \A i \in DOMAIN part : part[i] \in Part /\ part[i].sequence = Place(i)
          /\ \A i \in DOMAIN part' : part'[i] \in Part /\ part'[i].sequence = Place(i)
      BY <3>1, <3>2, PartsFacts DEF Grows
    <3>4. /\ OnRecord(part) = {i \in 1..Len(part) : i > gone}
          /\ OnRecord(part)' = {i \in 1..Len(part') : i > gone}
      BY <2>2, <3>3 DEF OnRecord
    <3>5. OnRecord(part) \subseteq OnRecord(part)'
      BY <3>3, <3>4
    <3>6. ASSUME NEW i \in OnRecord(part) PROVE Same(i)
      <4>1. i \in DOMAIN part' /\ i \in DOMAIN part /\ i \in 1..Len(part)
        BY <3>3, <3>4, <3>6
      <4>2. /\ part'[i].turn = part[i].turn /\ part'[i].kind = part[i].kind /\ part'[i].proposal = part[i].proposal
            /\ part'[i].sequence = part[i].sequence
            /\ IsPrefix(part[i].content, part'[i].content)
            /\ part[i].of = part'[i].of \/ part[i].kind = "status"
        BY <3>1, <3>3, <4>1 DEF Grows
      <4> DEFINE old == part[i]
                 new == part'[i]
      <4>3. old \in Part /\ new \in Part
        BY <3>3, <4>1
      <4>4. /\ new.turn = old.turn /\ new.kind = old.kind /\ new.proposal = old.proposal
            /\ new.sequence = old.sequence
        BY <4>2
      <4> HIDE DEF old, new
      <4>5. [new EXCEPT !.content = <<>>, !.of = "none"] = [old EXCEPT !.content = <<>>, !.of = "none"]
        BY <4>3, <4>4 DEF Part
      <4> QED
        BY <4>2, <4>5 DEF old, new
    <3>7. ASSUME NEW i \in OnRecord(part)' \ OnRecord(part), NEW m \in SequencesOf(part) PROVE m < part'[i].sequence
      <4>1. PICK j \in OnRecord(part) : m = part[j].sequence
        BY DEF SequencesOf
      <4>2. j \in Nat /\ gone \in Nat /\ j > gone /\ m = j - gone
        BY <3>3, <3>4, <4>1 DEF Place
      <4>3. i \in Nat /\ i > gone /\ i > j /\ part'[i].sequence = i - gone
        BY <3>3, <3>4, <4>1 DEF Place
      <4> QED
        BY <4>2, <4>3
    <3> HIDE DEF Same
    <3> QED
      BY <3>5, <3>6, <3>7
  <2> QED
    BY <2>1, <2>2, GoneMoves
<1>2. Spec => [][Grown]_<<part, gone>>
  <2> HIDE DEF Grown
  <2> QED
    BY Invariance, <1>1, PTL DEF Spec
<1> QED
  BY <1>2 DEF TranscriptOnlyGrows
=============================================================================
