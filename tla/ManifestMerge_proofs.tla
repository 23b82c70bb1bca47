------------------------- MODULE ManifestMerge_proofs -------------------------
(***************************************************************************)
(* The streaming merge writes the set that it promises, for any keys, any  *)
(* old manifest and any journal.                                           *)
(***************************************************************************)
EXTENDS ManifestMerge, SequenceTheorems, TLAPS

\* What the first lines of a stream are, up to the one that is held.
Read(s, n) == {s[m] : m \in 1..(n-1)}

\* The range of p is over for whatever is held.
Over(p) ==
  /\ i <= Len(old) => Past(p, old[i].key)
  /\ j <= Len(journal) /\ Legible(j) => Past(p, journal[j].key)

\* The conjuncts of Blocking.
Written  == \A n \in DOMAIN blockers : \E m \in DOMAIN out : out[m].key = blockers[n]
Nested   == \A m, n \in DOMAIN blockers : m < n =>
              /\ blockers[m] < blockers[n]
              /\ blockers[n] \in Beneath(blockers[m]) \/ Last[blockers[n]] < First[blockers[m]]
Released == \A r \in Lines(out) : r.key \in LeafKeys =>
              (\E n \in DOMAIN blockers : blockers[n] = r.key) \/ Over(r.key)
-----------------------------------------------------------------------------
(* Sequences of lines.                                                     *)

LEMMA SeqLines ==
  ASSUME NEW S, NEW s \in Seq(S)
  PROVE  /\ DOMAIN s = 1..Len(s) /\ Len(s) \in Nat
         /\ \A n \in 1..Len(s) : s[n] \in S /\ s[n] \in Lines(s)
         /\ \A x \in Lines(s) : x \in S /\ \E n \in 1..Len(s) : s[n] = x
         /\ Lines(s) = Read(s, Len(s) + 1)
  BY DEF Lines, Read

LEMMA ReadMore ==
  ASSUME NEW s, NEW n \in Nat \ {0}
  PROVE  Read(s, n + 1) = Read(s, n) \cup {s[n]}
  BY DEF Read

LEMMA AppendLine ==
  ASSUME NEW S, NEW s \in Seq(S), NEW x \in S
  PROVE  /\ Append(s, x) \in Seq(S) /\ Len(Append(s, x)) = Len(s) + 1
         /\ \A n \in 1..Len(s) : Append(s, x)[n] = s[n]
         /\ Append(s, x)[Len(s) + 1] = x
         /\ Lines(Append(s, x)) = Lines(s) \cup {x}
  <1>1. /\ Append(s, x) \in Seq(S) /\ Len(Append(s, x)) = Len(s) + 1
        /\ \A n \in 1..Len(s) : Append(s, x)[n] = s[n]
        /\ Append(s, x)[Len(s) + 1] = x
    BY AppendProperties
  <1>2. DOMAIN Append(s, x) = 1..(Len(s) + 1) /\ DOMAIN s = 1..Len(s) /\ Len(s) \in Nat
    BY <1>1, SeqLines
  <1>. QED BY <1>1, <1>2 DEF Lines

\* A line with a greater key keeps the order.
LEMMA AppendAscends ==
  ASSUME NEW s \in Seq(Records), NEW x \in Records, Ascends(s),
         \A n \in 1..Len(s) : s[n].key < x.key
  PROVE  Ascends(Append(s, x))
  <1>1. PICK t : t = Append(s, x) OBVIOUS
  <1>2. /\ Len(t) = Len(s) + 1 /\ DOMAIN t = 1..(Len(s) + 1) /\ DOMAIN s = 1..Len(s) /\ Len(s) \in Nat
        /\ \A n \in 1..Len(s) : t[n] = s[n]
        /\ t[Len(s) + 1] = x
    BY <1>1, AppendLine, SeqLines
  <1>. QED BY <1>1, <1>2 DEF Ascends

LEMMA RecordKeys ==
  /\ Keys \subseteq Nat /\ LeafKeys \subseteq Keys
  /\ \A r \in Records : r.key \in Keys /\ r.key \in Nat /\ r.entry \in Entries
  /\ \A e \in Events : e.key \in Keys /\ e.key \in Nat /\ e.entry \in Entries /\ Payload(e) \in Records /\ Payload(e).key = e.key
  BY KeysAssumption DEF Records, Events, LeafKeys, Payload
-----------------------------------------------------------------------------
(* The merge of sets, one key at a time.                                   *)

LEMMA MergeOld ==
  ASSUME NEW O, NEW E, NEW r, \A e \in E : e.key # r.key
  PROVE  Merged(O \cup {r}, E) = Merged(O, E) \cup {r}
  BY DEF Merged

LEMMA MergeAdd ==
  ASSUME NEW O, NEW E, NEW e, \A r \in O : r.key # e.key, e.mark = "add"
  PROVE  Merged(O, E \cup {e}) = Merged(O, E) \cup {Payload(e)}
  BY DEF Merged

LEMMA MergePair ==
  ASSUME NEW O, NEW E, NEW e, NEW r, e.key = r.key,
         \A x \in O : x.key # e.key, \A x \in E : x.key # e.key, e.mark \in {"replace", "drop", "keep"}
  PROVE  Merged(O \cup {r}, E \cup {e}) =
           Merged(O, E) \cup (IF e.mark = "replace" THEN {Payload(e)} ELSE IF e.mark = "keep" THEN {r} ELSE {})
  BY DEF Merged
-----------------------------------------------------------------------------
(* One step of the join.                                                   *)

OldGood == old = <<>> \/ Valid(old)

\* The two streams move on past the key that was joined.
Takes(a, b) ==
  \/ a = 1 /\ b = 0 /\ OldFirst
  \/ a = 0 /\ b = 1 /\ EventFirst
  \/ a = 1 /\ b = 1 /\ Paired

LEMMA StreamKeys ==
  ASSUME TypeOK, OldGood
  PROVE  /\ Len(old) \in Nat /\ Len(journal) \in Nat /\ i \in Nat \ {0} /\ j \in Nat \ {0}
         /\ DOMAIN old = 1..Len(old) /\ DOMAIN journal = 1..Len(journal)
         /\ \A n \in 1..Len(old) : old[n] \in Records /\ old[n].key \in Nat
         /\ \A n \in 1..Len(journal) : journal[n] \in Events /\ journal[n].key \in Nat
         /\ \A m, n \in 1..Len(old) : m < n => old[m].key < old[n].key
  <1>1. old \in Seq(Records) /\ journal \in Seq(Events) BY DEF TypeOK
  <1>2. /\ Len(old) \in Nat /\ Len(journal) \in Nat
        /\ DOMAIN old = 1..Len(old) /\ DOMAIN journal = 1..Len(journal)
        /\ \A n \in 1..Len(old) : old[n] \in Records
        /\ \A n \in 1..Len(journal) : journal[n] \in Events
    BY <1>1, SeqLines
  <1>3. i \in Nat \ {0} /\ j \in Nat \ {0} BY <1>2 DEF TypeOK
  <1>4. \A m, n \in 1..Len(old) : m < n => old[m].key < old[n].key
    <2>1. CASE old = <<>> BY <2>1
    <2>2. CASE Valid(old) BY <2>2, <1>2 DEF Valid, Ascends
    <2>. QED BY <2>1, <2>2 DEF OldGood
  <1>. QED BY <1>2, <1>3, <1>4, RecordKeys

\* The line of the journal that is held, and the one before it.
LEMMA LegibleKeys ==
  ASSUME NEW n \in Nat, n > 1, n <= Len(journal), Legible(n)
  PROVE  journal[n-1].key < journal[n].key /\ journal[n].mark \in Marks
  BY DEF Legible

LEMMA Moves ==
  ASSUME TypeOK, OldGood, Passed, Held, NEW a, NEW b, Takes(a, b), Advance(a, b)
  PROVE  /\ Passed'
         /\ \A p \in LeafKeys : Over(p) => Over(p)'
         /\ i' \in 1..(Len(old) + 1) /\ j' \in 1..(Len(journal) + 1)
  <1>1. /\ Len(old) \in Nat /\ Len(journal) \in Nat /\ i \in Nat \ {0} /\ j \in Nat \ {0}
        /\ \A n \in 1..Len(old) : old[n].key \in Nat
        /\ \A n \in 1..Len(journal) : journal[n].key \in Nat
        /\ \A m, n \in 1..Len(old) : m < n => old[m].key < old[n].key
    BY StreamKeys
  <1>2. \A n : Legible(n)' <=> Legible(n) BY DEF Advance, Legible
  <1>3. /\ i' = i + a /\ j' = j + b /\ UNCHANGED <<old, journal, phase>>
        /\ phase = "merge" /\ Legible(j)
    BY DEF Advance, Held, input
  <1>4. \A n \in Nat : n > 1 /\ n <= Len(journal) /\ Legible(n) => journal[n-1].key < journal[n].key
    BY LegibleKeys
  <1>5. /\ i \in 1..(Len(old) + 1) /\ j \in 1..(Len(journal) + 1) BY DEF TypeOK
  <1>6. /\ \A n \in 1..(j-1) : Legible(n) /\ (i <= Len(old) => journal[n].key < old[i].key)
        /\ \A m, n \in 1..(j-1) : m < n => journal[m].key < journal[n].key
        /\ j <= Len(journal) => /\ \A m \in 1..(i-1) : old[m].key < journal[j].key
                                /\ \A n \in 1..(j-1) : journal[n].key < journal[j].key
    BY <1>3 DEF Passed
  <1>7. \A p \in LeafKeys : Last[p] \in Nat BY KeysAssumption
  <1>11. \A n \in 1..j : n = j \/ n \in 1..(j-1) BY <1>1
  <1>12. \A m, n \in 1..j : m < n => m \in 1..(j-1) BY <1>1
  <1>13. ASSUME j <= Len(journal), NEW m \in 1..j, NEW n \in 1..j, m < n
         PROVE  journal[m].key < journal[n].key
    <2>1. m \in 1..(j-1) BY <1>12, <1>13
    <2>2. CASE n = j BY <1>6, <1>13, <2>1, <2>2
    <2>3. CASE n \in 1..(j-1) BY <1>6, <1>13, <2>1, <2>3
    <2>. QED BY <1>11, <2>2, <2>3
  <1>14. ASSUME j <= Len(journal), NEW n \in 1..j
         PROVE  journal[n].key \in Nat /\ journal[n].key <= journal[j].key
    <2>1. n \in 1..Len(journal) /\ j \in 1..Len(journal) BY <1>1, <1>14
    <2>2. journal[n].key \in Nat /\ journal[j].key \in Nat BY <1>1, <2>1
    <2>3. CASE n = j BY <2>2, <2>3
    <2>4. CASE n \in 1..(j-1)
      <3>1. journal[n].key < journal[j].key BY <1>6, <1>14, <2>4
      <3>. QED BY <2>2, <3>1
    <2>. QED BY <1>11, <2>3, <2>4
  <1>8. CASE a = 1 /\ b = 0 /\ OldFirst
    <2>1. i <= Len(old) /\ (j <= Len(journal) => old[i].key < journal[j].key) BY <1>8 DEF OldFirst
    <2>2. i' = i + 1 /\ j' = j BY <1>1, <1>3, <1>8
    <2>3. ASSUME NEW n \in 1..(j-1), i + 1 <= Len(old) PROVE journal[n].key < old[i+1].key
      <3>1. journal[n].key < old[i].key BY <1>6, <2>1
      <3>2. old[i].key < old[i+1].key BY <1>1, <1>5, <2>3
      <3>. QED BY <1>1, <1>5, <2>1, <2>3, <3>1, <3>2
    <2>6. ASSUME NEW m \in 1..i, j <= Len(journal) PROVE old[m].key < journal[j].key
      <3>1. CASE m = i BY <2>1, <2>6, <3>1
      <3>2. CASE m # i BY <1>1, <1>6, <2>6, <3>2
      <3>. QED BY <3>1, <3>2
    <2>4. Passed' BY <1>1, <1>2, <1>3, <1>6, <2>2, <2>3, <2>6 DEF Passed
    <2>5. ASSUME NEW p \in LeafKeys, Over(p) PROVE Over(p)'
      BY <1>1, <1>2, <1>3, <1>7, <2>1, <2>2, <2>5 DEF Over, Past
    <2>. QED BY <1>1, <1>5, <2>1, <2>2, <2>4, <2>5
  <1>9. CASE a = 0 /\ b = 1 /\ EventFirst
    <2>1. j <= Len(journal) /\ (i <= Len(old) => journal[j].key < old[i].key) BY <1>9 DEF EventFirst
    <2>2. i' = i /\ j' = j + 1 BY <1>1, <1>3, <1>9
    <2>3. j + 1 <= Len(journal) /\ Legible(j + 1) => journal[j].key < journal[j+1].key
      BY <1>1, <1>4
    <2>4. \A n \in 1..j : Legible(n) /\ (i <= Len(old) => journal[n].key < old[i].key)
      BY <1>3, <1>6, <1>11, <2>1
    <2>7. ASSUME NEW m \in 1..j, NEW n \in 1..j, m < n PROVE journal[m].key < journal[n].key
      BY <1>13, <2>1, <2>7
    <2>8. ASSUME j + 1 <= Len(journal), Legible(j + 1)
          PROVE  /\ \A m \in 1..(i-1) : old[m].key < journal[j+1].key
                 /\ \A n \in 1..j : journal[n].key < journal[j+1].key
      <3>1. journal[j].key < journal[j+1].key BY <2>3, <2>8
      <3>2. ASSUME NEW m \in 1..(i-1) PROVE old[m].key < journal[j+1].key
        <4>1. old[m].key < journal[j].key BY <1>6, <2>1
        <4>2. m \in 1..Len(old) BY <1>1, <1>5
        <4>3. old[m].key \in Nat /\ journal[j].key \in Nat /\ journal[j+1].key \in Nat
          BY <1>1, <2>1, <2>8, <4>2
        <4>. QED BY <3>1, <4>1, <4>3
      <3>3. ASSUME NEW n \in 1..j PROVE journal[n].key < journal[j+1].key
        <4>1. journal[n].key \in Nat /\ journal[n].key <= journal[j].key BY <1>14, <2>1
        <4>2. journal[j].key \in Nat /\ journal[j+1].key \in Nat BY <1>1, <2>1, <2>8
        <4>. QED BY <3>1, <4>1, <4>2
      <3>. QED BY <3>2, <3>3
    <2>5. Passed' BY <1>1, <1>2, <1>3, <2>2, <2>4, <2>7, <2>8 DEF Passed
    <2>6. ASSUME NEW p \in LeafKeys, Over(p) PROVE Over(p)'
      BY <1>1, <1>2, <1>3, <1>7, <2>1, <2>2, <2>3, <2>6 DEF Over, Past
    <2>. QED BY <1>1, <1>5, <2>1, <2>2, <2>5, <2>6
  <1>10. CASE a = 1 /\ b = 1 /\ Paired
    <2>1. j <= Len(journal) /\ i <= Len(old) /\ journal[j].key = old[i].key BY <1>10 DEF Paired
    <2>2. i' = i + 1 /\ j' = j + 1 BY <1>1, <1>3, <1>10
    <2>3. j + 1 <= Len(journal) /\ Legible(j + 1) => journal[j].key < journal[j+1].key
      BY <1>1, <1>4
    <2>4. ASSUME NEW n \in 1..j PROVE Legible(n) /\ (i + 1 <= Len(old) => journal[n].key < old[i+1].key)
      <3>1. Legible(n) BY <1>3, <1>6, <1>11
      <3>2. journal[n].key \in Nat /\ journal[n].key <= old[i].key BY <1>14, <2>1
      <3>3. i + 1 <= Len(old) => old[i].key < old[i+1].key BY <1>1, <1>5
      <3>. QED BY <1>1, <1>5, <2>1, <3>1, <3>2, <3>3
    <2>7. ASSUME NEW m \in 1..j, NEW n \in 1..j, m < n PROVE journal[m].key < journal[n].key
      BY <1>13, <2>1, <2>7
    <2>8. ASSUME j + 1 <= Len(journal), Legible(j + 1)
          PROVE  /\ \A m \in 1..i : old[m].key < journal[j+1].key
                 /\ \A n \in 1..j : journal[n].key < journal[j+1].key
      <3>1. journal[j].key < journal[j+1].key BY <2>3, <2>8
      <3>2. ASSUME NEW m \in 1..i PROVE old[m].key < journal[j+1].key
        <4>1. m \in 1..Len(old) /\ (m = i \/ m \in 1..(i-1)) BY <1>1, <2>1
        <4>2. old[m].key \in Nat /\ journal[j].key \in Nat /\ journal[j+1].key \in Nat
          BY <1>1, <2>1, <2>8, <4>1
        <4>3. CASE m = i BY <2>1, <3>1, <4>3
        <4>4. CASE m \in 1..(i-1)
          <5>1. old[m].key < journal[j].key BY <1>6, <2>1, <4>4
          <5>. QED BY <3>1, <4>2, <5>1
        <4>. QED BY <4>1, <4>3, <4>4
      <3>3. ASSUME NEW n \in 1..j PROVE journal[n].key < journal[j+1].key
        <4>1. journal[n].key \in Nat /\ journal[n].key <= journal[j].key BY <1>14, <2>1
        <4>2. journal[j].key \in Nat /\ journal[j+1].key \in Nat BY <1>1, <2>1, <2>8
        <4>. QED BY <3>1, <4>1, <4>2
      <3>. QED BY <3>2, <3>3
    <2>5. Passed' BY <1>1, <1>2, <1>3, <2>2, <2>4, <2>7, <2>8 DEF Passed
    <2>6. ASSUME NEW p \in LeafKeys, Over(p) PROVE Over(p)'
      BY <1>1, <1>2, <1>3, <1>7, <2>1, <2>2, <2>3, <2>6 DEF Over, Past
    <2>. QED BY <1>1, <1>5, <2>1, <2>2, <2>5, <2>6
  <1>. QED BY <1>8, <1>9, <1>10 DEF Takes

\* What has been read lies below the key that is joined, and agreement is settled
\* by what the two streams hold.
LEMMA Below ==
  ASSUME TypeOK, OldGood, Passed, Held
  PROVE  /\ OldFirst => /\ \A r \in Read(old, i) : r.key < old[i].key
                        /\ \A e \in Read(journal, j) : e.key < old[i].key
         /\ EventFirst \/ Paired =>
              /\ \A r \in Read(old, i) : r.key < journal[j].key
              /\ \A e \in Read(journal, j) : e.key < journal[j].key
         /\ EventFirst => \A r \in Lines(old) : r.key # journal[j].key
         /\ Paired => \A r \in Lines(old) : r.key = journal[j].key => r = old[i]
  <1>1. /\ Len(old) \in Nat /\ Len(journal) \in Nat /\ i \in Nat \ {0} /\ j \in Nat \ {0}
        /\ DOMAIN old = 1..Len(old)
        /\ \A n \in 1..Len(old) : old[n].key \in Nat
        /\ \A n \in 1..Len(journal) : journal[n].key \in Nat
        /\ \A m, n \in 1..Len(old) : m < n => old[m].key < old[n].key
    BY StreamKeys
  <1>2. /\ i \in 1..(Len(old) + 1) /\ j \in 1..(Len(journal) + 1) BY DEF TypeOK
  <1>3. /\ \A n \in 1..(j-1) : Legible(n) /\ (i <= Len(old) => journal[n].key < old[i].key)
        /\ j <= Len(journal) => /\ \A m \in 1..(i-1) : old[m].key < journal[j].key
                                /\ \A n \in 1..(j-1) : journal[n].key < journal[j].key
    <2>1. phase = "merge" /\ Legible(j) BY DEF Held
    <2>. QED BY <2>1 DEF Passed
  <1>4. Lines(old) = {old[n] : n \in 1..Len(old)} BY <1>1 DEF Lines
  <1>5. ASSUME OldFirst
        PROVE  /\ \A r \in Read(old, i) : r.key < old[i].key
               /\ \A e \in Read(journal, j) : e.key < old[i].key
    BY <1>1, <1>2, <1>3, <1>5 DEF OldFirst, Read
  <1>6. ASSUME j <= Len(journal)
        PROVE  /\ \A r \in Read(old, i) : r.key < journal[j].key
               /\ \A e \in Read(journal, j) : e.key < journal[j].key
    BY <1>3, <1>6 DEF Read
  <1>7. ASSUME EventFirst, NEW n \in 1..Len(old) PROVE old[n].key # journal[j].key
    <2>1. j <= Len(journal) /\ (i <= Len(old) => journal[j].key < old[i].key) BY <1>7 DEF EventFirst
    <2>2. CASE n < i BY <1>1, <1>2, <1>3, <2>1, <2>2
    <2>3. CASE n = i BY <1>1, <1>2, <2>1, <2>3
    <2>4. CASE n > i
      <3>1. old[i].key < old[n].key BY <1>1, <1>2, <2>4
      <3>. QED BY <1>1, <1>2, <2>1, <2>4, <3>1
    <2>. QED BY <1>1, <2>2, <2>3, <2>4
  <1>8. ASSUME Paired, NEW n \in 1..Len(old), old[n].key = journal[j].key PROVE old[n] = old[i]
    <2>1. i <= Len(old) /\ old[i].key = journal[j].key BY <1>8 DEF Paired
    <2>. QED BY <1>1, <1>2, <1>8, <2>1
  <1>. QED BY <1>4, <1>5, <1>6, <1>7, <1>8 DEF EventFirst, Paired
-----------------------------------------------------------------------------
(* Writing a record.                                                       *)

\* Every open blocker still reaches as far as the one on top.
LEMMA BlockersReach ==
  ASSUME blockers \in Seq(LeafKeys), Nested, NEW k \in Nat, blockers # <<>> => ~Past(Top, k)
  PROVE  \A n \in 1..Len(blockers) : k <= Last[blockers[n]]
  <1>. SUFFICES ASSUME NEW n \in 1..Len(blockers) PROVE k <= Last[blockers[n]]
    OBVIOUS
  <1>1. Len(blockers) \in Nat /\ \A m \in 1..Len(blockers) : blockers[m] \in LeafKeys
    BY SeqLines
  <1>2. PICK t \in LeafKeys : t = blockers[Len(blockers)] BY <1>1
  <1>3. PICK q \in LeafKeys : q = blockers[n] BY <1>1
  <1>4. /\ Last[q] \in Nat /\ Last[t] \in Nat /\ First[q] \in Nat /\ First[t] \in Nat /\ q \in Nat /\ t \in Nat
        /\ t < First[t] /\ First[t] <= Last[t] /\ q < First[q] /\ First[q] <= Last[q]
        /\ q < t => Last[t] < First[q] \/ Last[q] < t \/ (t \in Beneath(q) /\ Last[t] <= Last[q])
    BY KeysAssumption, RecordKeys
  <1>5. blockers # <<>> BY <1>1
  <1>6. k <= Last[t] BY <1>2, <1>4, <1>5 DEF Past, Top
  <1>7. CASE n = Len(blockers) BY <1>2, <1>3, <1>6, <1>7
  <1>8. CASE n < Len(blockers)
    <2>1. q < t /\ (t \in Beneath(q) \/ Last[t] < First[q])
      <3>1. DOMAIN blockers = 1..Len(blockers) BY SeqLines
      <3>. QED BY <1>1, <1>2, <1>3, <1>8, <3>1 DEF Nested
    <2>2. CASE Last[t] < First[q] BY <1>3, <1>4, <1>6, <2>2
    <2>3. CASE t \in Beneath(q) BY <1>3, <1>4, <1>6, <2>1, <2>3 DEF Beneath
    <2>. QED BY <2>1, <2>2, <2>3
  <1>. QED BY <1>1, <1>7, <1>8

\* A leaf that becomes a blocker fits into those that are open.
LEMMA BlockersNest ==
  ASSUME blockers \in Seq(LeafKeys), Nested, NEW k \in LeafKeys,
         \A n \in 1..Len(blockers) : blockers[n] < k /\ k <= Last[blockers[n]],
         blockers' = Append(blockers, k)
  PROVE  Nested'
  <1>1. /\ Len(blockers) \in Nat /\ DOMAIN blockers = 1..Len(blockers)
        /\ \A m \in 1..Len(blockers) : blockers[m] \in LeafKeys
    BY SeqLines
  <1>2. /\ blockers' \in Seq(LeafKeys) /\ Len(blockers') = Len(blockers) + 1
        /\ \A n \in 1..Len(blockers) : blockers'[n] = blockers[n]
        /\ blockers'[Len(blockers) + 1] = k
    BY AppendLine
  <1>3. DOMAIN blockers' = 1..(Len(blockers) + 1) BY <1>1, <1>2, SeqLines
  <1>4. ASSUME NEW m \in 1..Len(blockers)
        PROVE  k \in Beneath(blockers[m]) \/ Last[k] < First[blockers[m]]
    <2>1. PICK q \in LeafKeys : q = blockers[m] BY <1>1
    <2>2. q < k /\ k <= Last[q] BY <2>1
    <2>3. Last[k] < First[q] \/ Last[q] < k \/ (k \in Beneath(q) /\ Last[k] <= Last[q])
      BY <2>2, KeysAssumption
    <2>4. Last[q] \in Nat /\ k \in Nat BY KeysAssumption, RecordKeys
    <2>. QED BY <2>1, <2>2, <2>3, <2>4
  <1>5. ASSUME NEW m \in 1..(Len(blockers) + 1), NEW n \in 1..(Len(blockers) + 1), m < n
        PROVE  /\ blockers'[m] < blockers'[n]
               /\ blockers'[n] \in Beneath(blockers'[m]) \/ Last[blockers'[n]] < First[blockers'[m]]
    <2>1. m \in 1..Len(blockers) /\ blockers'[m] = blockers[m] BY <1>1, <1>2, <1>5
    <2>2. CASE n = Len(blockers) + 1 BY <1>2, <1>4, <2>1, <2>2
    <2>3. CASE n \in 1..Len(blockers) BY <1>1, <1>2, <1>5, <2>1, <2>3 DEF Nested
    <2>. QED BY <1>1, <2>2, <2>3
  <1>. QED BY <1>3, <1>5 DEF Nested

LEMMA Emits ==
  ASSUME TypeOK, Ascends(out), Written, Nested, Released, WarnsRight,
         NEW r \in Records, Emit(r), \A x \in Lines(out) : x.key < r.key,
         \A p \in LeafKeys : Over(p) => Past(p, r.key) /\ Over(p)'
  PROVE  /\ Ascends(out)' /\ Lines(out') = Lines(out) \cup {r}
         /\ Written' /\ Nested' /\ Released' /\ WarnsRight'
         /\ out' \in Seq(Records) /\ blockers' \in Seq(LeafKeys) /\ warned' \subseteq LeafKeys
  <1>1. /\ out \in Seq(Records) /\ blockers \in Seq(LeafKeys) /\ warned \subseteq LeafKeys
        /\ out' = Append(out, r) /\ r.key \in Nat /\ r.key \in Keys
    BY RecordKeys DEF TypeOK, Emit
  <1>2. /\ DOMAIN out = 1..Len(out) /\ Len(out) \in Nat
        /\ \A n \in 1..Len(out) : out[n] \in Records /\ out[n] \in Lines(out)
        /\ \A x \in Lines(out) : x \in Records /\ \E n \in 1..Len(out) : out[n] = x
        /\ DOMAIN blockers = 1..Len(blockers) /\ Len(blockers) \in Nat
        /\ \A n \in 1..Len(blockers) : blockers[n] \in LeafKeys
    BY <1>1, SeqLines
  <1>3. /\ out' \in Seq(Records) /\ Len(out') = Len(out) + 1
        /\ \A n \in 1..Len(out) : out'[n] = out[n]
        /\ out'[Len(out) + 1] = r
        /\ Lines(out') = Lines(out) \cup {r}
    BY <1>1, AppendLine
  <1>4. DOMAIN out' = 1..(Len(out) + 1) BY <1>2, <1>3, SeqLines
  <1>5. Ascends(out)' BY <1>1, <1>2, AppendAscends
  <1>6. \A n \in 1..Len(blockers) : blockers[n] < r.key /\ r.key <= Last[blockers[n]]
    <2>1. \A n \in 1..Len(blockers) : r.key <= Last[blockers[n]]
      BY <1>1, BlockersReach DEF Emit
    <2>2. \A n \in 1..Len(blockers) : blockers[n] < r.key
      BY <1>2 DEF Written
    <2>. QED BY <2>1, <2>2
  <1>7. ASSUME r.key \in LeafKeys
        PROVE  Written' /\ Nested' /\ Released' /\ blockers' \in Seq(LeafKeys)
    <2>1. blockers' = Append(blockers, r.key) BY <1>7 DEF Emit
    <2>2. /\ blockers' \in Seq(LeafKeys) /\ Len(blockers') = Len(blockers) + 1
          /\ \A n \in 1..Len(blockers) : blockers'[n] = blockers[n]
          /\ blockers'[Len(blockers) + 1] = r.key
      BY <1>1, <1>7, <2>1, AppendLine
    <2>3. DOMAIN blockers' = 1..(Len(blockers) + 1) BY <1>2, <2>2, SeqLines
    <2>4. Nested' BY <1>1, <1>6, <1>7, <2>1, BlockersNest
    <2>5. Written'
      <3>. SUFFICES ASSUME NEW n \in 1..(Len(blockers) + 1)
           PROVE \E m \in 1..(Len(out) + 1) : out'[m].key = blockers'[n]
        BY <1>4, <2>3 DEF Written
      <3>1. CASE n = Len(blockers) + 1 BY <1>2, <1>3, <2>2, <3>1
      <3>2. CASE n \in 1..Len(blockers) BY <1>2, <1>3, <2>2, <3>2 DEF Written
      <3>. QED BY <1>2, <3>1, <3>2
    <2>6. \A p : (\E n \in DOMAIN blockers' : blockers'[n] = p) <=>
                 p = r.key \/ \E n \in DOMAIN blockers : blockers[n] = p
      BY <1>2, <2>2, <2>3
    <2>7. Released'
      <3>. SUFFICES ASSUME NEW x \in Lines(out'), x.key \in LeafKeys
           PROVE (\E n \in DOMAIN blockers' : blockers'[n] = x.key) \/ Over(x.key)'
        BY Zenon DEF Released
      <3>1. PICK p \in LeafKeys : p = x.key OBVIOUS
      <3>2. CASE Over(p)
        <4>1. Over(p)' BY <3>2
        <4>. QED BY <3>1, <4>1
      <3>3. CASE ~Over(p)
        <4>1. x = r \/ \E n \in DOMAIN blockers : blockers[n] = p BY <1>3, <3>1, <3>3 DEF Released
        <4>. QED BY <2>6, <3>1, <4>1
      <3>. QED BY <3>2, <3>3
    <2>. QED BY <2>2, <2>4, <2>5, <2>7
  <1>8. ASSUME r.key \notin LeafKeys
        PROVE  Written' /\ Nested' /\ Released' /\ blockers' \in Seq(LeafKeys)
    <2>1. blockers' = blockers BY <1>8 DEF Emit
    <2>2. Nested' BY <2>1 DEF Nested
    <2>3. Written' BY <1>2, <1>3, <1>4, <2>1 DEF Written
    <2>4. Released'
      <3>. SUFFICES ASSUME NEW x \in Lines(out'), x.key \in LeafKeys
           PROVE (\E n \in DOMAIN blockers' : blockers'[n] = x.key) \/ Over(x.key)'
        BY Zenon DEF Released
      <3>1. PICK p \in LeafKeys : p = x.key OBVIOUS
      <3>2. CASE Over(p)
        <4>1. Over(p)' BY <3>2
        <4>. QED BY <3>1, <4>1
      <3>3. CASE ~Over(p)
        <4>1. x = r \/ \E n \in DOMAIN blockers : blockers[n] = p BY <1>3, <3>1, <3>3 DEF Released
        <4>. QED BY <1>8, <2>1, <3>1, <4>1
      <3>. QED BY <3>2, <3>3
    <2>. QED BY <1>1, <2>1, <2>2, <2>3, <2>4
  <1>9. WarnsRight' /\ warned' \subseteq LeafKeys
    <2>1. ASSUME NEW p \in LeafKeys, NEW x \in Lines(out), x.key = p, r.key \in Beneath(p), p \notin warned
          PROVE  blockers # <<>> /\ Top = p
      <3>1. First[p] <= r.key /\ r.key <= Last[p] /\ Last[p] \in Nat /\ p \in Nat BY <1>1, <2>1, KeysAssumption, RecordKeys DEF Beneath
      <3>2. ~Over(p) BY <1>1, <3>1 DEF Past
      <3>3. PICK n \in 1..Len(blockers) : blockers[n] = p BY <1>2, <2>1, <3>2 DEF Released
      <3>4. CASE n = Len(blockers) BY <1>2, <3>3, <3>4 DEF Top
      <3>5. CASE n < Len(blockers)
        <4>1. PICK t \in LeafKeys : t = blockers[Len(blockers)] BY <1>2, <3>3
        <4>2. t \in Beneath(p) \/ Last[t] < First[p] BY <1>2, <3>3, <3>5, <4>1 DEF Nested
        <4>3. r.key <= Last[t] BY <1>2, <1>6, <3>3, <4>1
        <4>4. Last[t] \in Nat /\ First[p] \in Nat BY KeysAssumption
        <4>5. t \in Beneath(p) BY <1>1, <3>1, <4>2, <4>3, <4>4
        <4>6. PICK m \in 1..Len(out) : out[m].key = t BY <1>2, <3>3, <4>1 DEF Written
        <4>7. PICK y \in Lines(out) : y.key \in Beneath(p) BY <1>2, <4>5, <4>6
        <4>8. p \in warned BY <2>1, <4>7 DEF WarnsRight
        <4>. QED BY <2>1, <4>8
      <3>6. n = Len(blockers) \/ n < Len(blockers)
        <4>1. Len(blockers) \in Nat BY <1>2
        <4>. QED BY <4>1
      <3>. QED BY <3>4, <3>5, <3>6
    <2>2. ASSUME blockers # <<>>
          PROVE  Top \in LeafKeys /\ \E x \in Lines(out) : x.key = Top
      <3>1. Len(blockers) \in 1..Len(blockers) BY <1>1, <1>2, <2>2, EmptySeq
      <3>. QED BY <1>2, <3>1 DEF Written, Top
    <2>3. ASSUME NEW p \in LeafKeys
          PROVE  /\ p = r.key => ~(r.key \in Beneath(p)) /\ \A x \in Lines(out) : x.key \notin Beneath(p)
      <3>1. First[p] \in Nat /\ p \in Nat /\ p < First[p] BY KeysAssumption, RecordKeys
      <3>2. \A x \in Lines(out) : x.key \in Nat BY <1>2, RecordKeys
      <3>. QED BY <1>1, <3>1, <3>2 DEF Beneath
    <2>4. warned' = IF blockers # <<>> /\ r.key \in Beneath(Top) THEN warned \cup {Top} ELSE warned
      BY DEF Emit
    <2>5. \A p \in LeafKeys : p \in warned' <=>
            /\ \E x \in Lines(out) \cup {r} : x.key = p
            /\ \E x \in Lines(out) \cup {r} : x.key \in Beneath(p)
      BY <2>1, <2>2, <2>3, <2>4 DEF WarnsRight
    <2>6. warned' \subseteq LeafKeys BY <1>1, <2>2, <2>4
    <2>. QED BY <1>3, <2>5, <2>6 DEF WarnsRight
  <1>. QED BY <1>3, <1>5, <1>7, <1>8, <1>9
-----------------------------------------------------------------------------
(* The invariant.                                                          *)

LEMMA HeadOver ==
  ASSUME Held, NEW a, NEW b, Takes(a, b), NEW p \in LeafKeys, Over(p)
  PROVE  Past(p, NextKey)
  <1>1. CASE OldFirst BY <1>1 DEF NextKey, Over, OldFirst
  <1>2. CASE ~OldFirst
    <2>1. EventFirst \/ Paired BY <1>2 DEF Takes
    <2>2. j <= Len(journal) /\ Legible(j) BY <2>1 DEF EventFirst, Paired, Held
    <2>. QED BY <1>2, <2>2 DEF NextKey, Over
  <1>. QED BY <1>1, <1>2

\* The parts of the invariant that a step of the join disturbs, when one more
\* record, or none, has been written.
LEMMA JoinStep ==
  ASSUME IInv, Held, NEW a, NEW b, Takes(a, b), Advance(a, b),
         b = 1 => Agrees(journal[j]),
         out' \in Seq(Records), blockers' \in Seq(LeafKeys), warned' \subseteq LeafKeys,
         Ascends(out)', Written', Nested', Released', WarnsRight',
         Lines(out') = Merged(Read(old, i'), Read(journal, j'))
  PROVE  IInv'
  <1>1. /\ TypeOK /\ OldGood /\ Passed /\ Joined /\ Blocking /\ Dropping /\ Ending
        /\ phase = "merge" /\ Legible(j)
    BY DEF IInv, Held, OldGood
  <1>2. Passed' /\ i' \in 1..(Len(old) + 1) /\ j' \in 1..(Len(journal) + 1) BY <1>1, Moves
  <1>3. UNCHANGED <<old, sub, journal, phase, manifest, result>> /\ j' = j + b BY DEF Advance, input
  <1>4. TypeOK' BY <1>1, <1>2, <1>3 DEF TypeOK
  <1>5. \A e : Agrees(e)' <=> Agrees(e) BY <1>3 DEF Agrees
  <1>6. Joined'
    <2>1. \A n \in 1..(j-1) : Agrees(journal[n]) BY <1>1 DEF Joined
    <2>2. ASSUME NEW n \in 1..(j'-1) PROVE Agrees(journal[n])'
      <3>1. b = 0 \/ b = 1 BY DEF Takes
      <3>2. j \in Nat \ {0} BY <1>1, StreamKeys
      <3>3. n \in 1..(j-1) \/ (n = j /\ b = 1) BY <1>3, <3>1, <3>2
      <3>4. Agrees(journal[n]) BY <2>1, <3>3
      <3>. QED BY <1>3, <3>4 DEF Agrees
    <2>3. Ascends(out)' /\ Lines(out') = Merged(Read(old, i'), Read(journal, j')) OBVIOUS
    <2>4. Lines(out)' = Merged({old'[m] : m \in 1..(i'-1)}, {journal'[n] : n \in 1..(j'-1)})
      BY <1>3, <2>3 DEF Read, Lines
    <2>. QED BY <2>2, <2>3, <2>4 DEF Joined
  <1>7. Blocking' BY DEF Blocking, Written, Nested, Released, Over
  <1>8. Dropping' BY <1>1, <1>3 DEF Dropping, AtOrUnder
  <1>9. Ending' BY <1>1, <1>3 DEF Ending
  <1>. QED BY <1>1, <1>2, <1>3, <1>4, <1>6, <1>7, <1>8, <1>9 DEF IInv, OldGood

\* A step of the join that writes r.
LEMMA WriteStep ==
  ASSUME IInv, Held, NEW a, NEW b, Takes(a, b), Advance(a, b),
         b = 1 => Agrees(journal[j]),
         NEW r \in Records, Emit(r), r.key = NextKey,
         Merged(Read(old, i'), Read(journal, j')) = Merged(Read(old, i), Read(journal, j)) \cup {r}
  PROVE  IInv'
  <1>1. /\ TypeOK /\ OldGood /\ Passed /\ Joined /\ Blocking /\ WarnsRight
        /\ phase = "merge" /\ Legible(j)
    BY DEF IInv, Held, OldGood
  <1>2. Written /\ Nested /\ Released BY <1>1 DEF Blocking, Written, Nested, Released, Over
  <1>3. Lines(out) = Merged(Read(old, i), Read(journal, j)) /\ Ascends(out) BY <1>1 DEF Joined, Read
  <1>4. /\ \A x \in Read(old, i) : x.key < r.key
        /\ \A x \in Read(journal, j) : x.key < r.key
    BY <1>1, Below DEF Takes, NextKey
  <1>5. \A x \in Lines(out) : x.key < r.key BY <1>3, <1>4 DEF Merged, Payload
  <1>6. \A p \in LeafKeys : Over(p) => Past(p, r.key) /\ Over(p)'
    <2>1. \A p \in LeafKeys : Over(p) => Over(p)' BY <1>1, Moves
    <2>2. \A p \in LeafKeys : Over(p) => Past(p, r.key) BY HeadOver
    <2>. QED BY <2>1, <2>2
  <1>7. /\ Ascends(out)' /\ Lines(out') = Lines(out) \cup {r}
        /\ Written' /\ Nested' /\ Released' /\ WarnsRight'
        /\ out' \in Seq(Records) /\ blockers' \in Seq(LeafKeys) /\ warned' \subseteq LeafKeys
    BY <1>1, <1>2, <1>3, <1>5, <1>6, Emits
  <1>8. Lines(out') = Merged(Read(old, i'), Read(journal, j')) BY <1>3, <1>7
  <1>. QED BY <1>7, <1>8, JoinStep

LEMMA CopyOldStep ==
  ASSUME IInv, CopyOld
  PROVE  IInv'
  <1>1. TypeOK /\ OldGood /\ Passed /\ Held /\ OldFirst /\ Emit(old[i]) /\ Advance(1, 0)
    BY DEF IInv, CopyOld, Held, OldGood
  <1>2. old[i] \in Records /\ i \in Nat \ {0} BY <1>1, StreamKeys DEF OldFirst
  <1>3. i' = i + 1 /\ j' = j BY <1>1, <1>2, StreamKeys DEF Advance
  <1>4. Read(old, i') = Read(old, i) \cup {old[i]} BY <1>2, <1>3, ReadMore
  <1>5. \A e \in Read(journal, j) : e.key # old[i].key
    <2>1. /\ \A e \in Read(journal, j) : e.key < old[i].key BY <1>1, Below
    <2>2. old[i].key \in Nat BY <1>2, RecordKeys
    <2>. QED BY <2>1, <2>2
  <1>6. Merged(Read(old, i'), Read(journal, j')) = Merged(Read(old, i), Read(journal, j)) \cup {old[i]}
    BY <1>3, <1>4, <1>5, MergeOld
  <1>7. old[i].key = NextKey /\ Takes(1, 0) BY <1>1 DEF NextKey, Takes
  <1>. QED BY <1>1, <1>2, <1>6, <1>7, WriteStep

LEMMA AddEventStep ==
  ASSUME IInv, AddEvent
  PROVE  IInv'
  <1>1. /\ TypeOK /\ OldGood /\ Passed /\ Held /\ EventFirst /\ journal[j].mark = "add"
        /\ Emit(Payload(journal[j])) /\ Advance(0, 1)
    BY DEF IInv, AddEvent, Held, Marked, OldGood
  <1>2. /\ Payload(journal[j]) \in Records /\ Payload(journal[j]).key = journal[j].key
        /\ journal[j].key \in Nat /\ j \in Nat \ {0} /\ i \in Nat
    BY <1>1, StreamKeys, RecordKeys DEF EventFirst
  <1>3. i' = i /\ j' = j + 1 BY <1>1, <1>2 DEF Advance
  <1>4. Read(journal, j') = Read(journal, j) \cup {journal[j]} BY <1>2, <1>3, ReadMore
  <1>5. \A r \in Read(old, i) : r.key # journal[j].key
    <2>1. \A r \in Read(old, i) : r.key < journal[j].key BY <1>1, Below
    <2>. QED BY <1>2, <2>1
  <1>6. Merged(Read(old, i'), Read(journal, j')) = Merged(Read(old, i), Read(journal, j)) \cup {Payload(journal[j])}
    BY <1>1, <1>3, <1>4, <1>5, MergeAdd
  <1>7. ~OldFirst /\ Takes(0, 1)
    BY <1>1, <1>2, StreamKeys DEF OldFirst, EventFirst, Takes
  <1>8. Agrees(journal[j])
    <2>1. \A r \in Lines(old) : r.key # journal[j].key BY <1>1, Below
    <2>. QED BY <1>1, <2>1 DEF Agrees, Marks
  <1>. QED BY <1>1, <1>2, <1>6, <1>7, <1>8, WriteStep DEF NextKey

\* A record and a line of the same key, read together.
LEMMA PairRead ==
  ASSUME IInv, Held, Paired, Advance(1, 1), journal[j].mark \in {"replace", "drop", "keep"},
         journal[j].mark # "replace" => SameRecord
  PROVE  /\ old[i] \in Records /\ Payload(journal[j]) \in Records
         /\ NextKey = journal[j].key /\ NextKey = old[i].key /\ NextKey = Payload(journal[j]).key
         /\ Takes(1, 1) /\ Agrees(journal[j])
         /\ Merged(Read(old, i'), Read(journal, j')) = Merged(Read(old, i), Read(journal, j)) \cup
              (IF journal[j].mark = "replace" THEN {Payload(journal[j])} ELSE IF journal[j].mark = "keep" THEN {old[i]} ELSE {})
  <1>1. TypeOK /\ OldGood /\ Passed BY DEF IInv, Held, OldGood
  <1>2. /\ old[i] \in Records /\ i \in Nat \ {0} /\ j \in Nat \ {0} /\ journal[j] \in Events
        /\ i \in DOMAIN old
    BY <1>1, StreamKeys DEF Paired
  <1>3. /\ Payload(journal[j]) \in Records /\ Payload(journal[j]).key = journal[j].key
        /\ journal[j].key \in Nat /\ old[i].key = journal[j].key
    BY <1>2, RecordKeys DEF Paired
  <1>4. i' = i + 1 /\ j' = j + 1 BY DEF Advance
  <1>5. /\ Read(old, i') = Read(old, i) \cup {old[i]}
        /\ Read(journal, j') = Read(journal, j) \cup {journal[j]}
    BY <1>2, <1>4, ReadMore
  <1>6. /\ \A x \in Read(old, i) : x.key # journal[j].key
        /\ \A x \in Read(journal, j) : x.key # journal[j].key
    <2>1. /\ \A x \in Read(old, i) : x.key < journal[j].key
          /\ \A x \in Read(journal, j) : x.key < journal[j].key
      BY <1>1, Below
    <2>. QED BY <1>3, <2>1
  <1>7. Merged(Read(old, i'), Read(journal, j')) = Merged(Read(old, i), Read(journal, j)) \cup
          (IF journal[j].mark = "replace" THEN {Payload(journal[j])} ELSE IF journal[j].mark = "keep" THEN {old[i]} ELSE {})
    BY <1>3, <1>5, <1>6, MergePair
  <1>8. NextKey = journal[j].key BY <1>3 DEF NextKey, OldFirst, Paired
  <1>9. Agrees(journal[j])
    <2>1. old[i] \in Lines(old) BY <1>2 DEF Lines
    <2>. QED BY <1>3, <2>1 DEF Agrees, SameRecord, Marks
  <1>. QED BY <1>2, <1>3, <1>7, <1>8, <1>9 DEF Takes

LEMMA PairSteps ==
  ASSUME IInv, ReplaceEvent \/ KeepEvent \/ DropEvent
  PROVE  IInv'
  <1>1. CASE ReplaceEvent
    <2>1. Held /\ Paired /\ journal[j].mark = "replace" /\ Emit(Payload(journal[j])) /\ Advance(1, 1)
      BY <1>1 DEF ReplaceEvent, Marked
    <2>2. /\ Payload(journal[j]) \in Records /\ NextKey = Payload(journal[j]).key
          /\ Takes(1, 1) /\ Agrees(journal[j])
          /\ Merged(Read(old, i'), Read(journal, j')) = Merged(Read(old, i), Read(journal, j)) \cup {Payload(journal[j])}
      BY <2>1, PairRead
    <2>. QED BY <2>1, <2>2, WriteStep
  <1>2. CASE KeepEvent
    <2>1. Held /\ Paired /\ journal[j].mark = "keep" /\ SameRecord /\ Emit(old[i]) /\ Advance(1, 1)
      BY <1>2 DEF KeepEvent, Marked
    <2>2. /\ old[i] \in Records /\ NextKey = old[i].key
          /\ Takes(1, 1) /\ Agrees(journal[j])
          /\ Merged(Read(old, i'), Read(journal, j')) = Merged(Read(old, i), Read(journal, j)) \cup {old[i]}
      BY <2>1, PairRead
    <2>. QED BY <2>1, <2>2, WriteStep
  <1>3. CASE DropEvent
    <2>1. Held /\ Paired /\ journal[j].mark = "drop" /\ SameRecord /\ Advance(1, 1) /\ UNCHANGED <<out, blockers, warned>>
      BY <1>3 DEF DropEvent, Marked, written
    <2>2. /\ Takes(1, 1) /\ Agrees(journal[j])
          /\ Merged(Read(old, i'), Read(journal, j')) = Merged(Read(old, i), Read(journal, j))
      BY <2>1, PairRead
    <2>3. TypeOK /\ OldGood /\ Passed /\ Joined /\ Blocking /\ WarnsRight BY <2>1 DEF IInv, Held, OldGood
    <2>4. out' \in Seq(Records) /\ blockers' \in Seq(LeafKeys) /\ warned' \subseteq LeafKeys BY <2>1, <2>3 DEF TypeOK
    <2>5. Ascends(out)' /\ Lines(out') = Merged(Read(old, i'), Read(journal, j'))
      BY <2>1, <2>2, <2>3 DEF Joined, Read
    <2>6. Written' /\ Nested' /\ WarnsRight'
      BY <2>1, <2>3 DEF Blocking, Written, Nested, WarnsRight
    <2>7. Released'
      <3>. SUFFICES ASSUME NEW x \in Lines(out), x.key \in LeafKeys
           PROVE (\E n \in DOMAIN blockers' : blockers'[n] = x.key) \/ Over(x.key)'
        BY Zenon, <2>1 DEF Released
      <3>1. PICK p \in LeafKeys : p = x.key OBVIOUS
      <3>2. Over(p) => Over(p)' BY <2>1, <2>2, <2>3, Moves
      <3>3. (\E n \in DOMAIN blockers : blockers[n] = p) \/ Over(p) BY <2>3, <3>1 DEF Blocking, Over
      <3>. QED BY <2>1, <3>1, <3>2, <3>3
    <2>. QED BY <2>1, <2>2, <2>4, <2>5, <2>6, <2>7, JoinStep
  <1>. QED BY <1>1, <1>2, <1>3

\* The journal of a gone sub-path grows in step with the scan.
LEMMA ScanRecordStep ==
  ASSUME IInv, ScanRecord
  PROVE  IInv'
  <1>1. /\ TypeOK /\ OldGood /\ WarnsRight /\ Dropping /\ Ending /\ phase = "scan" /\ i <= Len(old)
        /\ UNCHANGED <<old, sub, phase, j, out, blockers, warned, manifest, result>> /\ i' = i + 1
    BY DEF IInv, ScanRecord, OldGood, input, written
  <1>2. /\ Len(old) \in Nat /\ Len(journal) \in Nat /\ i \in 1..Len(old)
        /\ DOMAIN old = 1..Len(old) /\ DOMAIN journal = 1..Len(journal)
        /\ \A n \in 1..Len(old) : old[n] \in Records /\ old[n].key \in Nat
        /\ \A n \in 1..Len(journal) : journal[n] \in Events /\ journal[n].key \in Nat
        /\ \A m, n \in 1..Len(old) : m < n => old[m].key < old[n].key
    BY <1>1, StreamKeys
  <1>3. sub # None /\ sub \in LeafKeys /\ journal \in Seq(Events) /\ j = 1
    BY <1>1 DEF Ending, TypeOK
  <1>. DEFINE d(m)    == [key |-> old[m].key, mark |-> "drop", entry |-> old[m].entry]
              Gone(k) == {d(m) : m \in {n \in DOMAIN old : AtOrUnder(sub, old[n].key) /\ n < k}}
  <1>4. Ascends(journal) /\ Lines(journal) = Gone(i) BY <1>1, <1>3 DEF Dropping
  <1>5. d(i) \in Events BY <1>2 DEF Records, Events, Marks
  <1>6. Gone(i + 1) = IF AtOrUnder(sub, old[i].key) THEN Gone(i) \cup {d(i)} ELSE Gone(i)
    <2>1. \A n \in DOMAIN old : n < i + 1 <=> n < i \/ n = i BY <1>2
    <2>. QED BY <1>2, <2>1
  <1>7. journal' \in Seq(Events) /\ Ascends(journal)' /\ Lines(journal)' = Gone(i + 1)
    <2>1. CASE ~AtOrUnder(sub, old[i].key)
      <3>1. journal' = journal BY <2>1 DEF ScanRecord
      <3>. QED BY <1>3, <1>4, <1>6, <2>1, <3>1 DEF Ascends, Lines
    <2>2. CASE AtOrUnder(sub, old[i].key)
      <3>1. journal' = Append(journal, d(i)) BY <2>2 DEF ScanRecord
      <3>2. /\ journal' \in Seq(Events) /\ Len(journal') = Len(journal) + 1
            /\ \A n \in 1..Len(journal) : journal'[n] = journal[n]
            /\ journal'[Len(journal) + 1] = d(i) /\ Lines(journal') = Lines(journal) \cup {d(i)}
        BY <1>3, <1>5, <3>1, AppendLine
      <3>3. DOMAIN journal' = 1..(Len(journal) + 1) BY <1>2, <3>2, SeqLines
      <3>4. ASSUME NEW n \in 1..Len(journal) PROVE journal[n].key < old[i].key
        <4>1. journal[n] \in Gone(i) BY <1>2, <1>4 DEF Lines
        <4>2. PICK m \in 1..Len(old) : m < i /\ journal[n] = d(m) BY <1>2, <4>1
        <4>. QED BY <1>2, <4>2
      <3>5. Ascends(journal') BY <1>2, <1>4, <3>2, <3>3, <3>4 DEF Ascends
      <3>. QED BY <1>4, <1>6, <2>2, <3>2, <3>5 DEF Ascends, Lines
    <2>. QED BY <2>1, <2>2
  <1>8. TypeOK'
    <2>1. Len(journal') \in Nat BY <1>7, SeqLines
    <2>2. i' \in 1..(Len(old') + 1) /\ j' \in 1..(Len(journal') + 1) BY <1>1, <1>2, <1>3, <2>1
    <2>. QED BY <1>1, <1>7, <2>2 DEF TypeOK
  <1>9. Dropping' BY <1>1, <1>3, <1>7 DEF Dropping, AtOrUnder
  <1>10. Ending' BY <1>1 DEF Ending, Valid, Ascends, Sound
  <1>11. WarnsRight' BY <1>1 DEF WarnsRight
  <1>. QED BY <1>1, <1>8, <1>9, <1>10, <1>11 DEF IInv, OldGood

LEMMA EndScanStep ==
  ASSUME IInv, EndScan
  PROVE  IInv'
  <1>1. /\ TypeOK /\ OldGood /\ WarnsRight /\ Dropping /\ Ending /\ phase = "scan" /\ i > Len(old)
        /\ UNCHANGED <<old, journal, sub, j, out, blockers, warned, manifest>> /\ i' = 1
        /\ phase' = (IF journal = <<>> THEN "done" ELSE "merge")
        /\ result' = (IF journal = <<>> THEN "unchanged" ELSE "none")
    BY DEF IInv, EndScan, OldGood, input, written
  <1>2. /\ Len(old) \in Nat /\ i \in Nat /\ DOMAIN old = 1..Len(old) BY <1>1, StreamKeys
  <1>3. sub # None /\ j = 1 /\ out = <<>> /\ blockers = <<>> /\ manifest = old /\ result = "none"
    BY <1>1 DEF Ending
  <1>4. TypeOK'
    <2>1. phase' \in {"done", "merge"} /\ result' \in Results BY <1>1 DEF Results
    <2>2. i' \in 1..(Len(old) + 1) BY <1>1, <1>2
    <2>. QED BY <1>1, <2>1, <2>2 DEF TypeOK
  <1>5. (Passed /\ Joined /\ Blocking)'
    <2>1. i' = 1 /\ j' = 1 /\ out' = <<>> /\ blockers' = <<>> BY <1>1, <1>3
    <2>2. \A n : n \notin 1..(j'-1) /\ n \notin 1..(i'-1) BY <2>1
    <2>3. DOMAIN out' = {} /\ DOMAIN blockers' = {} BY <2>1, EmptySeq
    <2>4. Passed' BY <2>2 DEF Passed
    <2>5. Joined' BY <2>2, <2>3 DEF Joined, Ascends, Lines, Merged
    <2>6. Blocking' BY <2>3 DEF Blocking, Lines
    <2>. QED BY <2>4, <2>5, <2>6
  <1>6. Dropping'
    <2>1. \A n \in DOMAIN old : n < i BY <1>1, <1>2
    <2>. QED BY <1>1, <1>3, <2>1 DEF Dropping, AtOrUnder
  <1>7. Ending' BY <1>1, <1>3 DEF Ending
  <1>8. WarnsRight' BY <1>1 DEF WarnsRight
  <1>. QED BY <1>1, <1>4, <1>5, <1>6, <1>7, <1>8 DEF IInv, OldGood

LEMMA PopBlockerStep ==
  ASSUME IInv, PopBlocker
  PROVE  IInv'
  <1>1. /\ TypeOK /\ OldGood /\ Passed /\ Joined /\ Blocking /\ WarnsRight /\ Dropping /\ Ending
        /\ Held /\ Writes /\ blockers # <<>> /\ Past(Top, NextKey)
        /\ blockers' = SubSeq(blockers, 1, Len(blockers) - 1)
        /\ UNCHANGED <<old, sub, journal, phase, i, j, out, warned, manifest, result>>
    BY DEF IInv, PopBlocker, Held, OldGood, input
  <1>2. /\ Len(old) \in Nat /\ Len(journal) \in Nat /\ i \in Nat \ {0} /\ j \in Nat \ {0}
        /\ \A n \in 1..Len(old) : old[n].key \in Nat
        /\ \A n \in 1..Len(journal) : journal[n].key \in Nat
    BY <1>1, StreamKeys
  <1>3. /\ DOMAIN blockers = 1..Len(blockers) /\ Len(blockers) \in Nat /\ blockers \in Seq(LeafKeys)
        /\ \A n \in 1..Len(blockers) : blockers[n] \in LeafKeys
    BY <1>1, SeqLines DEF TypeOK
  <1>4. Len(blockers) > 0 BY <1>1, <1>3, EmptySeq
  <1>5. /\ blockers' \in Seq(LeafKeys) /\ Len(blockers') = Len(blockers) - 1
        /\ \A n \in 1..(Len(blockers) - 1) : blockers'[n] = blockers[n]
    BY <1>1, <1>3, <1>4
  <1>6. DOMAIN blockers' = 1..(Len(blockers) - 1) BY <1>5, SeqLines
  <1>7. Over(Top)
    <2>1. PICK p \in LeafKeys : p = Top BY <1>3, <1>4 DEF Top
    <2>2. Last[p] \in Nat BY KeysAssumption
    <2>3. OldFirst \/ EventFirst \/ Paired BY <1>1 DEF Writes
    <2>4. CASE OldFirst BY <1>1, <1>2, <2>1, <2>2, <2>4 DEF OldFirst, Over, Past, NextKey
    <2>5. CASE ~OldFirst
      <3>1. j <= Len(journal) /\ (i <= Len(old) => journal[j].key <= old[i].key)
        BY <1>2, <2>3, <2>5 DEF EventFirst, Paired
      <3>2. Last[p] < journal[j].key BY <1>1, <2>1, <2>5 DEF Past, NextKey
      <3>. QED BY <1>2, <2>1, <2>2, <3>1, <3>2 DEF Over, Past
    <2>. QED BY <2>4, <2>5
  <1>8. \A p : Over(p)' <=> Over(p) BY <1>1 DEF Over, Past, Legible
  <1>9. Blocking'
    <2>1. Written' BY <1>1, <1>3, <1>5, <1>6 DEF Blocking, Written
    <2>2. Nested' BY <1>1, <1>3, <1>5, <1>6 DEF Blocking, Nested
    <2>3. ASSUME NEW x \in Lines(out), x.key \in LeafKeys
          PROVE  (\E n \in DOMAIN blockers' : blockers'[n] = x.key) \/ Over(x.key)'
      <3>1. CASE Over(x.key) BY <1>8, <3>1
      <3>2. CASE ~Over(x.key)
        <4>1. PICK n \in DOMAIN blockers : blockers[n] = x.key BY <1>1, <2>3, <3>2 DEF Blocking, Over
        <4>2. n # Len(blockers) BY <1>7, <3>2, <4>1 DEF Top
        <4>3. n \in DOMAIN blockers' /\ blockers'[n] = x.key BY <1>3, <1>5, <1>6, <4>1, <4>2
        <4>. QED BY <4>3
      <3>. QED BY <3>1, <3>2
    <2>4. Released' BY Zenon, <1>1, <2>3 DEF Released
    <2>. QED BY <2>1, <2>2, <2>4 DEF Blocking, Written, Nested, Released, Over
  <1>10. TypeOK' BY <1>1, <1>5 DEF TypeOK
  <1>11. Passed' /\ Joined' BY <1>1 DEF Passed, Joined, Legible, Agrees, Ascends, Lines
  <1>12. Dropping' /\ Ending' /\ WarnsRight' BY <1>1, <1>4, <1>5 DEF Dropping, AtOrUnder, Ending, Sound, Agrees, WarnsRight, Held
  <1>. QED BY <1>1, <1>9, <1>10, <1>11, <1>12 DEF IInv, OldGood

\* A line that the merge refuses is out of order, or does not agree.
LEMMA RefusedUnsound ==
  ASSUME IInv, Refuse
  PROVE  ~Sound
  <1>1. TypeOK /\ OldGood /\ Passed /\ phase = "merge" BY DEF IInv, Refuse, OldGood
  <1>2. /\ Len(journal) \in Nat /\ j \in Nat \ {0} /\ DOMAIN journal = 1..Len(journal)
        /\ DOMAIN old = 1..Len(old) /\ i \in Nat \ {0}
        /\ \A n \in 1..Len(journal) : journal[n].key \in Nat
    BY <1>1, StreamKeys
  <1>3. CASE ~Legible(j)
    <2>1. j <= Len(journal) /\ (journal[j].mark \notin Marks \/ (j > 1 /\ ~(journal[j-1].key < journal[j].key)))
      BY <1>3 DEF Legible
    <2>2. CASE journal[j].mark \notin Marks
      <3>1. journal[j] \in Lines(journal) BY <1>2, <2>1 DEF Lines
      <3>. QED BY <2>2, <3>1 DEF Sound, Agrees
    <2>3. CASE j > 1 /\ ~(journal[j-1].key < journal[j].key)
      BY <1>2, <2>1, <2>3 DEF Sound, Ascends
    <2>. QED BY <2>1, <2>2, <2>3
  <1>4. CASE Legible(j)
    <2>1. Held BY <1>1, <1>4 DEF Held
    <2>2. /\ EventFirst => \A r \in Lines(old) : r.key # journal[j].key
          /\ Paired => \A r \in Lines(old) : r.key = journal[j].key => r = old[i]
      BY <1>1, <2>1, Below
    <2>3. \/ EventFirst /\ ~Marked("add")
          \/ Paired /\ (Marked("add") \/ (~Marked("replace") /\ ~SameRecord))
      BY <1>4 DEF Refuse
    <2>4. j <= Len(journal) BY <2>3 DEF EventFirst, Paired
    <2>5. journal[j] \in Lines(journal) BY <1>2, <2>4 DEF Lines
    <2>6. ~Agrees(journal[j])
      <3>1. CASE EventFirst /\ ~Marked("add") BY <2>2, <3>1 DEF Agrees, Marked
      <3>2. CASE Paired /\ Marked("add")
        <4>1. old[i] \in Lines(old) /\ old[i].key = journal[j].key BY <1>2, <3>2 DEF Paired, Lines
        <4>. QED BY <3>2, <4>1 DEF Agrees, Marked
      <3>3. CASE Paired /\ ~Marked("add") /\ ~Marked("replace") /\ ~SameRecord
        BY <2>2, <3>3 DEF Agrees, Marked, SameRecord
      <3>. QED BY <2>3, <3>1, <3>2, <3>3
    <2>. QED BY <2>5, <2>6 DEF Sound
  <1>. QED BY <1>3, <1>4

\* The steps that end the merge, or follow it, leave all that it has written.
LEMMA EndSteps ==
  ASSUME IInv, \/ Refuse \/ EndMerge \/ Check \/ Reject \/ Put \/ PutFails
  PROVE  IInv'
  <1>1. /\ TypeOK /\ OldGood /\ Passed /\ Joined /\ Blocking /\ WarnsRight /\ Dropping /\ Ending
        /\ phase \in {"merge", "check", "put"}
    BY DEF IInv, Refuse, EndMerge, Check, Reject, Put, PutFails, OldGood
  <1>2. UNCHANGED <<old, sub, journal, i, j, out, blockers, warned>>
    BY DEF Refuse, EndMerge, Check, Reject, Put, PutFails, Ends, input, written
  <1>3. /\ phase' \in {"check", "put", "done"} /\ result' \in Results /\ manifest' \in {manifest, out}
        /\ result = "none"
    BY <1>1 DEF Refuse, EndMerge, Check, Reject, Put, PutFails, Ends, Results, Ending
  <1>4. TypeOK' BY <1>1, <1>2, <1>3 DEF TypeOK
  <1>5. Passed' /\ Joined' BY <1>1, <1>2 DEF Passed, Joined, Legible, Agrees, Ascends, Lines
  <1>6. Blocking' BY <1>1, <1>2 DEF Blocking, Legible, Past, Lines
  <1>7. Dropping' BY <1>1, <1>2, <1>3 DEF Dropping, AtOrUnder
  <1>8. WarnsRight' BY <1>1, <1>2 DEF WarnsRight
  <1>9. (Valid(out)' <=> Valid(out)) /\ (Sound' <=> Sound)
    BY <1>2 DEF Valid, Ascends, Sound, Agrees, Lines
  <1>10. Ending'
    <2>1. CASE Refuse
      <3>1. ~Sound BY <2>1, RefusedUnsound
      <3>. QED BY <1>1, <1>2, <1>9, <2>1, <3>1 DEF Refuse, Ends, Ending
    <2>2. CASE EndMerge BY <1>1, <1>2, <1>9, <2>2 DEF EndMerge, Ending
    <2>3. CASE Check BY <1>1, <1>2, <1>9, <2>3 DEF Check, Ending
    <2>4. CASE Reject BY <1>1, <1>2, <1>9, <2>4 DEF Reject, Ends, Ending
    <2>5. CASE Put BY <1>1, <1>2, <1>9, <2>5 DEF Put, Ends, Ending
    <2>6. CASE PutFails BY <1>1, <1>2, <1>9, <2>6 DEF PutFails, Ends, Ending
    <2>. QED BY <2>1, <2>2, <2>3, <2>4, <2>5, <2>6
  <1>. QED BY <1>1, <1>2, <1>4, <1>5, <1>6, <1>7, <1>8, <1>10 DEF IInv, OldGood

LEMMA InitIInv ==
  ASSUME Init
  PROVE  IInv
  <1>1. PICK f \in Files :
          /\ old = f.old /\ journal = f.journal /\ sub = f.sub /\ manifest = f.old
          /\ phase = IF f.sub = None THEN "merge" ELSE "scan"
          /\ i = 1 /\ j = 1 /\ out = <<>> /\ blockers = <<>> /\ warned = {} /\ result = "none"
    BY DEF Init
  <1>2. /\ old \in Seq(Records) /\ (old = <<>> \/ Valid(old)) /\ journal \in Seq(Events)
        /\ sub = None \/ (sub \in LeafKeys /\ journal = <<>>)
        /\ manifest = old /\ phase = (IF sub = None THEN "merge" ELSE "scan")
        /\ i = 1 /\ j = 1 /\ out = <<>> /\ blockers = <<>> /\ warned = {} /\ result = "none"
    BY <1>1, FilesAssumption
  <1>3. Len(old) \in Nat /\ Len(journal) \in Nat BY <1>2, SeqLines
  <1>4. DOMAIN out = {} /\ DOMAIN blockers = {} BY <1>2, EmptySeq
  <1>5. \A n : n \notin 1..(j-1) /\ n \notin 1..(i-1) BY <1>2
  <1>6. TypeOK
    <2>1. out \in Seq(Records) /\ blockers \in Seq(LeafKeys) BY <1>2, EmptySeq
    <2>2. i \in 1..(Len(old) + 1) /\ j \in 1..(Len(journal) + 1) BY <1>2, <1>3
    <2>. QED BY <1>2, <2>1, <2>2 DEF TypeOK, Results
  <1>7. Passed BY <1>5 DEF Passed
  <1>8. Joined BY <1>4, <1>5 DEF Joined, Ascends, Lines, Merged
  <1>9. Blocking BY <1>4 DEF Blocking, Lines
  <1>10. WarnsRight BY <1>2, <1>4 DEF WarnsRight, Lines
  <1>11. Dropping
    <2>. SUFFICES ASSUME sub # None PROVE Dropping BY DEF Dropping
    <2>1. phase = "scan" /\ DOMAIN journal = {} BY <1>2, EmptySeq
    <2>2. \A n \in DOMAIN old : ~(n < i) BY <1>2, <1>3, SeqLines
    <2>. QED BY <2>1, <2>2 DEF Dropping, Ascends, Lines
  <1>12. Ending BY <1>2 DEF Ending
  <1>. QED BY <1>2, <1>6, <1>7, <1>8, <1>9, <1>10, <1>11, <1>12 DEF IInv

LEMMA NextIInv ==
  ASSUME IInv, [Next]_vars
  PROVE  IInv'
  <1>1. CASE ScanRecord BY <1>1, ScanRecordStep
  <1>2. CASE EndScan BY <1>2, EndScanStep
  <1>3. CASE PopBlocker BY <1>3, PopBlockerStep
  <1>4. CASE CopyOld BY <1>4, CopyOldStep
  <1>5. CASE AddEvent BY <1>5, AddEventStep
  <1>6. CASE ReplaceEvent \/ KeepEvent \/ DropEvent BY <1>6, PairSteps
  <1>7. CASE Refuse \/ EndMerge \/ Check \/ Reject \/ Put \/ PutFails BY <1>7, EndSteps
  <1>8. CASE Finished \/ UNCHANGED vars
    <2>1. UNCHANGED <<old, sub, journal, phase, i, j, out, blockers, warned, manifest, result>>
      BY <1>8 DEF Finished, vars
    <2>2. /\ TypeOK /\ OldGood /\ WarnsRight /\ Dropping /\ Ending
          /\ phase # "scan" => Passed /\ Joined /\ Blocking
      BY DEF IInv, OldGood
    <2>3. TypeOK' /\ OldGood' BY <2>1, <2>2 DEF TypeOK, OldGood, Valid, Ascends
    <2>4. phase' # "scan" => Passed' /\ Joined'
      BY <2>1, <2>2 DEF Passed, Joined, Legible, Agrees, Ascends, Lines
    <2>5. phase' # "scan" => Blocking' BY <2>1, <2>2 DEF Blocking, Legible, Past, Lines
    <2>6. WarnsRight' /\ Dropping' BY <2>1, <2>2 DEF WarnsRight, Dropping, AtOrUnder
    <2>7. Ending' BY <2>1, <2>2 DEF Ending, Valid, Ascends, Sound, Agrees, Lines
    <2>. QED BY <2>3, <2>4, <2>5, <2>6, <2>7 DEF IInv, OldGood
  <1>. QED BY <1>1, <1>2, <1>3, <1>4, <1>5, <1>6, <1>7, <1>8 DEF Next

\* The invariant of the merge (manifest.merge_journal) holds throughout.
THEOREM MergeIsInvariant == Spec => []IInv
  <1>1. Init => IInv BY InitIInv
  <1>2. IInv /\ [Next]_vars => IInv' BY NextIInv
  <1>. QED BY <1>1, <1>2, PTL DEF Spec
-----------------------------------------------------------------------------
(* What follows once both streams have been read.                          *)

LEMMA AllRead ==
  ASSUME IInv, result \in {"invalid", "failed", "published"}
  PROVE  /\ phase = "done" /\ Ascends(out) /\ out \in Seq(Records) /\ OldGood /\ Sound
         /\ Lines(out) = Merged(Lines(old), Lines(journal))
  <1>1. /\ TypeOK /\ OldGood /\ Ending BY DEF IInv, OldGood
  <1>2. phase = "done" /\ i > Len(old) /\ j > Len(journal) BY <1>1 DEF Ending
  <1>3. Passed /\ Joined BY <1>2 DEF IInv
  <1>4. /\ Len(old) \in Nat /\ Len(journal) \in Nat /\ DOMAIN journal = 1..Len(journal)
    BY <1>1, StreamKeys
  <1>5. i = Len(old) + 1 /\ j = Len(journal) + 1 BY <1>1, <1>2, <1>4 DEF TypeOK
  <1>6. Lines(old) = Read(old, i) /\ Lines(journal) = Read(journal, j)
    BY <1>1, <1>5, SeqLines DEF TypeOK
  <1>7. Lines(out) = Merged(Lines(old), Lines(journal)) BY <1>3, <1>6 DEF Joined, Read
  <1>8. Sound
    <2>1. Ascends(journal) BY <1>3, <1>4, <1>5 DEF Passed, Ascends
    <2>2. \A e \in Lines(journal) : Agrees(e) BY <1>3, <1>6 DEF Joined, Read
    <2>. QED BY <2>1, <2>2 DEF Sound
  <1>. QED BY <1>1, <1>2, <1>3, <1>7, <1>8 DEF Joined, TypeOK

\* What does not pass the validation has no record of the root.
LEMMA InvalidRootless ==
  ASSUME IInv, result = "invalid"
  PROVE  \A r \in Merged(Lines(old), Lines(journal)) : r.key # Root
  <1>. SUFFICES ASSUME NEW r \in Merged(Lines(old), Lines(journal)), r.key = Root PROVE FALSE
    OBVIOUS
  <1>1. /\ Ascends(out) /\ out \in Seq(Records) /\ r \in Lines(out) BY AllRead
  <1>2. ~Valid(out) BY DEF IInv, Ending
  <1>3. /\ DOMAIN out = 1..Len(out) /\ Len(out) \in Nat
        /\ \A n \in 1..Len(out) : out[n] \in Records
    BY <1>1, SeqLines
  <1>4. PICK n \in 1..Len(out) : out[n] = r BY <1>1, SeqLines
  <1>5. /\ 1 \in 1..Len(out) /\ out[1].key \in Keys /\ Root \in Nat /\ out[1].key \in Nat
    BY <1>3, <1>4, RecordKeys, KeysAssumption
  <1>6. Root <= out[1].key BY <1>5, KeysAssumption
  <1>7. out[1].key <= Root
    <2>1. CASE n = 1 BY <1>4, <1>5, <2>1
    <2>2. CASE n # 1
      <3>1. out[1].key < out[n].key BY <1>1, <1>3, <1>5, <2>2 DEF Ascends
      <3>. QED BY <1>4, <1>5, <3>1
    <2>. QED BY <2>1, <2>2
  <1>8. out[1].key = Root BY <1>5, <1>6, <1>7
  <1>9. out # <<>> BY <1>3, <1>5, EmptySeq
  <1>. QED BY <1>1, <1>2, <1>8, <1>9 DEF Valid

\* A push publishes the merge of the old manifest and the journal (merge_join), in
\* key order, or leaves the manifest on S3 as it is.
THEOREM PublishesMergeHolds == Spec => []PublishesMerge
  <1>1. IInv => PublishesMerge
    <2>. SUFFICES ASSUME IInv PROVE PublishesMerge OBVIOUS
    <2>1. Ending BY DEF IInv
    <2>2. CASE result = "published"
      <3>1. manifest = out /\ Valid(out) BY <2>1, <2>2 DEF Ending
      <3>2. Lines(out) = Merged(Lines(old), Lines(journal)) BY <2>2, AllRead
      <3>. QED BY <2>2, <3>1, <3>2 DEF PublishesMerge
    <2>3. CASE result # "published" BY <2>1, <2>3 DEF Ending, PublishesMerge
    <2>. QED BY <2>2, <2>3
  <1>. QED BY <1>1, MergeIsInvariant, PTL

\* The merge raises just for journals that are wrong, and what it writes of a right
\* one passes the validation unless the root's record is gone.
THEOREM RefusesRightlyHolds == Spec => []RefusesRightly
  <1>1. ASSUME IInv PROVE RefusesRightly
    <2>1. Ending BY <1>1 DEF IInv
    <2>2. result = "refused" => ~Sound BY <2>1 DEF Ending
    <2>3. result \in {"invalid", "failed", "published"} => Sound BY <1>1, AllRead
    <2>4. result = "invalid" => \A r \in Merged(Lines(old), Lines(journal)) : r.key # Root
      BY <1>1, InvalidRootless
    <2>. QED BY <2>2, <2>3, <2>4 DEF RefusesRightly
  <1>2. IInv => RefusesRightly BY <1>1
  <1>. QED BY <1>2, MergeIsInvariant, PTL

\* The blocker stack (_RestorabilityWarner) warns about just the leaves that have a
\* record beneath them, whatever siblings sort between.
THEOREM WarnsRightHolds == Spec => []WarnsRight
  <1>1. IInv => WarnsRight BY DEF IInv
  <1>. QED BY <1>1, MergeIsInvariant, PTL

\* Deleting a sub-path that is gone (drop_subtree_records) takes its records and
\* no other, and the merge and the validation let it.
THEOREM SubtreeDroppedHolds == Spec => []SubtreeDropped
  <1>1. ASSUME IInv, sub # None
        PROVE  /\ result \notin {"refused", "invalid"}
               /\ result \in {"published", "unchanged"} =>
                    Lines(manifest) = {r \in Lines(old) : ~AtOrUnder(sub, r.key)}
    <2>1. TypeOK /\ OldGood /\ Dropping /\ Ending BY <1>1 DEF IInv, OldGood
    <2>2. sub \in LeafKeys BY <1>1, <2>1 DEF TypeOK
    <2>3. /\ Len(old) \in Nat /\ DOMAIN old = 1..Len(old) /\ DOMAIN journal = 1..Len(journal)
      BY <2>1, StreamKeys
    <2>. DEFINE d(m) == [key |-> old[m].key, mark |-> "drop", entry |-> old[m].entry]
    <2>4. ASSUME phase = "done"
          PROVE  /\ Ascends(journal)
                 /\ Lines(journal) = {d(m) : m \in {n \in DOMAIN old : AtOrUnder(sub, old[n].key)}}
      BY <1>1, <2>1, <2>4 DEF Dropping
    <2>5. result = "refused" => phase = "done" BY <2>1 DEF Ending
    <2>6. ASSUME phase = "done" PROVE Sound
      <3>. SUFFICES ASSUME NEW e \in Lines(journal) PROVE Agrees(e) BY <2>4, <2>6 DEF Sound
      <3>1. PICK m \in DOMAIN old : e = d(m) BY <2>4, <2>6
      <3>2. old[m] \in Lines(old) BY DEF Lines
      <3>. QED BY <3>1, <3>2 DEF Agrees, Marks
    <2>7. result # "refused" BY <2>1, <2>5, <2>6 DEF Ending
    <2>8. ASSUME phase = "done"
          PROVE  Merged(Lines(old), Lines(journal)) = {r \in Lines(old) : ~AtOrUnder(sub, r.key)}
      <3>1. \A e \in Lines(journal) : e.mark = "drop" BY <2>4, <2>8
      <3>2. ASSUME NEW r \in Lines(old)
            PROVE  (\E e \in Lines(journal) : e.key = r.key) <=> AtOrUnder(sub, r.key)
        <4>1. PICK m \in DOMAIN old : old[m] = r BY DEF Lines
        <4>2. ASSUME AtOrUnder(sub, r.key) PROVE \E e \in Lines(journal) : e.key = r.key
          <5>1. d(m) \in Lines(journal) BY <2>4, <2>8, <4>1, <4>2
          <5>2. d(m).key = r.key BY <4>1
          <5>. QED BY <5>1, <5>2
        <4>3. ASSUME NEW e \in Lines(journal), e.key = r.key PROVE AtOrUnder(sub, r.key)
          <5>1. PICK n \in DOMAIN old : AtOrUnder(sub, old[n].key) /\ e = d(n) BY <2>4, <2>8
          <5>. QED BY <4>3, <5>1
        <4>. QED BY <4>2, <4>3
      <3>. QED BY <3>1, <3>2 DEF Merged
    <2>9. result # "invalid"
      <3>. SUFFICES ASSUME result = "invalid" PROVE FALSE OBVIOUS
      <3>1. phase = "done" /\ journal # <<>> BY <1>1, <2>1 DEF Ending
      <3>2. PICK n \in DOMAIN journal : TRUE
        <4>1. journal \in Seq(Events) BY <2>1 DEF TypeOK
        <4>2. Len(journal) \in Nat /\ Len(journal) # 0
          <5>1. Len(journal) \in Nat BY <4>1, SeqLines
          <5>2. Len(journal) # 0 BY <3>1, <4>1
          <5>. QED BY <5>1, <5>2
        <4>3. 1 \in DOMAIN journal BY <2>3, <4>2
        <4>. QED BY <4>3
      <3>3. PICK m \in DOMAIN old : TRUE BY <2>4, <3>1, <3>2 DEF Lines
      <3>4. old # <<>> BY <3>3, EmptySeq
      <3>5. old[1].key = Root /\ old[1] \in Lines(old)
        <4>1. Valid(old) BY <2>1, <3>4 DEF OldGood
        <4>2. 1 \in DOMAIN old BY <2>3, <3>3
        <4>. QED BY <4>1, <4>2 DEF Valid, Lines
      <3>6. ~AtOrUnder(sub, Root)
        <4>1. PICK p \in LeafKeys : p = sub BY <2>2
        <4>2. p \in Nat /\ Root \in Nat /\ Root <= p /\ p # Root /\ First[p] \in Nat /\ p < First[p]
          BY KeysAssumption, RecordKeys DEF LeafKeys
        <4>. QED BY <4>1, <4>2 DEF AtOrUnder, Beneath
      <3>7. old[1] \in Merged(Lines(old), Lines(journal)) BY <2>8, <3>1, <3>5, <3>6
      <3>8. ~Valid(out) BY <2>1 DEF Ending
      <3>. QED BY <1>1, <3>5, <3>7, InvalidRootless
    <2>10. ASSUME result \in {"published", "unchanged"}
           PROVE  Lines(manifest) = {r \in Lines(old) : ~AtOrUnder(sub, r.key)}
      <3>1. phase = "done" BY <2>1, <2>10 DEF Ending
      <3>2. CASE result = "published"
        <4>1. manifest = out /\ Lines(out) = Merged(Lines(old), Lines(journal))
          BY <1>1, <2>1, <3>2, AllRead DEF Ending
        <4>. QED BY <2>8, <3>1, <4>1
      <3>3. CASE result = "unchanged"
        <4>1. manifest = old /\ journal = <<>> BY <2>1, <3>3 DEF Ending
        <4>2. Lines(journal) = {} BY <4>1, EmptySeq DEF Lines
        <4>3. Merged(Lines(old), Lines(journal)) = Lines(old) BY <4>2 DEF Merged
        <4>. QED BY <2>8, <3>1, <4>1, <4>3
      <3>. QED BY <2>10, <3>2, <3>3
    <2>. QED BY <2>7, <2>9, <2>10
  <1>2. IInv => SubtreeDropped BY <1>1 DEF SubtreeDropped, AtOrUnder
  <1>. QED BY <1>2, MergeIsInvariant, PTL
=============================================================================
