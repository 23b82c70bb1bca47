------------------------- MODULE PushJournal_proofs -------------------------
(***************************************************************************)
(* Theorems about the single-scan push, for every tree, every world and    *)
(* every set of options.                                                   *)
(***************************************************************************)
EXTENDS PushJournal, SequenceTheorems, TLAPS

FrameType == [key : DirKeys, kept : BOOLEAN]

-----------------------------------------------------------------------------
(* The operators the actions are built from.                               *)

\* NextOf(S, k) lies after k, within reach, and passes over no member of S.
LEMMA NextOfFact ==
  ASSUME NEW S, NEW k \in 0..N, NEW j \in NextOf(S, k)
  PROVE  /\ j \in 1..(N+1) /\ j > k
         /\ j = N+1 \/ j \in S
         /\ \A i \in Nat : i > k /\ i < j => i \notin S
BY TreeAssumption DEF NextOf

\* MarkKept changes the innermost frame's kept flag and nothing else.
LEMMA MarkKeptFact ==
  ASSUME NEW fs \in Seq(FrameType)
  PROVE  /\ MarkKept(fs) \in Seq(FrameType)
         /\ Len(MarkKept(fs)) = Len(fs)
         /\ \A i \in 1..Len(fs) : /\ MarkKept(fs)[i].key = fs[i].key
                                  /\ fs[i].kept => MarkKept(fs)[i].kept
         /\ fs # <<>> => MarkKept(fs)[Len(fs)].kept
<1>1. CASE fs = <<>>
  BY <1>1, EmptySeq DEF MarkKept
<1>2. CASE fs # <<>>
  <2> DEFINE top == [fs[Len(fs)] EXCEPT !.kept = TRUE]
  <2>1. Len(fs) \in Nat \ {0}
    BY <1>2, EmptySeq
  <2>2. fs[Len(fs)] \in FrameType
    BY <2>1, ElementOfSeq
  <2>3. /\ MarkKept(fs) = [fs EXCEPT ![Len(fs)] = top]
        /\ top \in FrameType /\ top.key = fs[Len(fs)].key /\ top.kept
    BY <1>2, <2>2 DEF MarkKept, FrameType
  <2> HIDE DEF top
  <2> QED
    BY <1>2, <2>1, <2>3, ExceptSeq, ElementOfSeq
<1> QED
  BY <1>1, <1>2

\* Front drops the innermost frame and nothing else.
LEMMA FrontFact ==
  ASSUME NEW fs \in Seq(FrameType), fs # <<>>
  PROVE  /\ Front(fs) \in Seq(FrameType)
         /\ Len(fs) \in Nat \ {0} /\ Len(Front(fs)) = Len(fs) - 1
         /\ \A i \in 1..(Len(fs) - 1) : Front(fs)[i] = fs[i]
         /\ Last(fs) = fs[Len(fs)] /\ Last(fs) \in FrameType
<1>1. Len(fs) \in Nat \ {0} /\ \A i \in 1..Len(fs) : fs[i] \in FrameType
  BY EmptySeq, ElementOfSeq
<1> DEFINE n == Len(fs) - 1
<1>2. n \in Int /\ 1 \in Int /\ \A i \in 1..n : fs[i] \in FrameType
  BY <1>1
<1>3. /\ SubSeq(fs, 1, n) \in Seq(FrameType)
      /\ Len(SubSeq(fs, 1, n)) = IF 1 <= n THEN n-1+1 ELSE 0
      /\ \A i \in 1..(n-1+1) : SubSeq(fs, 1, n)[i] = fs[1+i-1]
  <2> HIDE DEF n
  <2> QED  BY <1>2, SubSeqProperties
<1>4. Front(fs) = SubSeq(fs, 1, n) /\ Last(fs) = fs[Len(fs)]
  BY DEF Front, Last
<1>5. n \in Nat /\ n = Len(fs) - 1 /\ Len(fs) \in 1..Len(fs)
  BY <1>1
<1> HIDE DEF n
<1>6. Len(Front(fs)) = n
  BY <1>1, <1>3, <1>4, <1>5
<1>7. \A i \in 1..n : Front(fs)[i] = fs[i]
  BY <1>1, <1>3, <1>4, <1>5
<1> QED
  BY <1>1, <1>3, <1>4, <1>5, <1>6, <1>7

\* A line is its mark and its entry.
LEMMA LineFields == \A m, e : Line(m, e).mark = m /\ Line(m, e).entry = e
BY DEF Line

-----------------------------------------------------------------------------
(* Type correctness.                                                       *)

\* No action touches the world, so nothing that is read off it changes.
LEMMA WorldSame ==
  ASSUME UNCHANGED world
  PROVE  /\ Stream' = Stream /\ Recorded' = Recorded /\ Hidden' = Hidden
         /\ \A k \in Keys : /\ Judged(k)' = Judged(k)
                           /\ Walked(k)' = Walked(k)
                           /\ InStream(k)' = InStream(k)
                           /\ Named(k)' = Named(k)
BY DEF world, Stream, Recorded, Hidden, Judged, Walked, InStream, Named, Entry

\* Every line an action writes is a line.
LEMMA LineType ==
  ASSUME TypeOK, NEW k \in Keys
  PROVE  /\ rec[k] # None => \A m \in Marks : Line(m, rec[k]) \in Lines
         /\ loc[k] # None => \A old : NewLine(old, k) \in Lines
<1>1. rec[k] \in Records \cup {None} /\ loc[k] \in Items \cup {None}
  BY DEF TypeOK, WellFormed, WorldType
<1>2. \A m \in Marks : \A e \in Entries : Line(m, e) \in Lines
  BY DEF Line, Lines
<1>3. rec[k] # None => rec[k] \in Entries
  BY <1>1 DEF Entries
<1>4. loc[k] # None => RecordOf(loc[k]) \in Entries
  BY <1>1 DEF Entries
<1>5. \A old : (IF old = None THEN "add" ELSE "replace") \in Marks
  BY DEF Marks
<1> QED
  BY <1>2, <1>3, <1>4, <1>5 DEF NewLine

THEOREM TypeInit == Init => TypeOK
<1> SUFFICES ASSUME Init PROVE TypeOK
  OBVIOUS
<1>1. WellFormed([rec |-> rec, loc |-> loc, obj |-> obj, blind |-> blind, opts |-> opts])
  <2>1. PICK w \in Worlds : /\ rec = w.rec /\ loc = w.loc /\ obj = w.obj
                            /\ blind = w.blind /\ opts = w.opts
    BY DEF Init
  <2>2. WellFormed(w)
    BY WorldAssumption
  <2>3. w = [rec |-> rec, loc |-> loc, obj |-> obj, blind |-> blind, opts |-> opts]
    BY <2>1, <2>2 DEF WellFormed, WorldType
  <2> QED  BY <2>2, <2>3
<1>2. next \in 1..(N+1) /\ head \in 1..(N+1)
  BY NextOfFact, TreeAssumption DEF Init
<1>3. frames \in Seq([key : DirKeys, kept : BOOLEAN])
  BY EmptySeq DEF Init
<1>4. gap \in BOOLEAN
  BY DEF Init
<1> QED
  BY <1>1, <1>2, <1>3, <1>4, TreeAssumption DEF Init, TypeOK, Outcomes

-----------------------------------------------------------------------------
(* What the invariant says where the actions act.                          *)

\* A record judged stale has nothing at its key on either side.
LEMMA AtRecordFact ==
  ASSUME IInv, AtRecord
  PROVE  /\ head \in Keys /\ head \in Recorded /\ jrn[head] = None /\ tail < head
         /\ rec[head] # None /\ head < next
         /\ Judged(head) /\ ~gap => /\ loc[head] = None /\ obj[head] = None
                                   /\ head \notin Hidden
<1>1. head \in 1..(N+1) /\ next \in 1..(N+1) /\ head < next
  BY DEF IInv, TypeOK, AtRecord
<1>2. head \in Keys /\ head # N+1
  BY <1>1, TreeAssumption DEF Keys
<1>3. head \in Recorded /\ rec[head] # None
  BY <1>2 DEF IInv, Lockstep, Recorded
<1>4. jrn[head] = None /\ tail < head
  BY <1>2, TreeAssumption DEF IInv, Positions, TypeOK, Keys
<1>5. ASSUME Judged(head), ~gap
      PROVE  loc[head] = None /\ obj[head] = None /\ head \notin Hidden
  <2>1. ok
    BY <1>5 DEF IInv, GateClosed, AtRecord
  <2>2. head \notin Stream
    BY <1>1, <2>1 DEF IInv, Lockstep
  <2>3. ~InStream(head)
    BY <1>2, <2>2 DEF Stream
  <2>4. Walked(head)
    BY <1>5 DEF Judged, Walked
  <2>5. head \notin Hidden
    BY <1>1, <1>5, <2>4 DEF IInv, GateClosed, Hidden, Keys
  <2> QED  BY <2>3, <2>4, <2>5 DEF InStream
<1> QED
  BY <1>1, <1>2, <1>3, <1>4, <1>5

\* At a pair the cursor has the record of its key, if there is one.
LEMMA AtPairFact ==
  ASSUME IInv, AtPair
  PROVE  /\ next \in Keys /\ next \in Stream /\ InStream(next)
         /\ jrn[next] = None /\ tail < next /\ next <= head
         /\ Old = rec[next]
         /\ next \in Recorded => head = next
         /\ ~gap => next \notin Hidden
<1>1. next \in Keys /\ next # N+1 /\ next <= head /\ head \in 1..(N+1)
  BY TreeAssumption DEF IInv, TypeOK, AtPair, Keys
<1>2. next \in Stream /\ InStream(next)
  BY <1>1 DEF IInv, Lockstep, Stream
<1>3. jrn[next] = None /\ tail < next
  BY <1>1, TreeAssumption DEF IInv, Positions, TypeOK, Keys
<1>4. next \in Recorded => head = next
  BY <1>1, TreeAssumption DEF IInv, Lockstep, Keys
<1>5. Old = rec[next]
  BY <1>1, <1>4 DEF Old, Recorded
<1>6. ~gap => next \notin Hidden
  BY <1>1 DEF IInv, GateClosed, Keys
<1> QED
  BY <1>1, <1>2, <1>3, <1>4, <1>5, <1>6

\* The innermost frame, once its subtree is behind cursor and stream alike.
LEMMA PassedFact ==
  ASSUME IInv, Passed, NEW d, d = Last(frames).key
  PROVE  /\ frames # <<>> /\ frames \in Seq(FrameType)
         /\ d \in DirKeys /\ d \in Keys /\ d \in Recorded
         /\ loc[d] = None /\ Judged(d) /\ opts.delete
         /\ jrn[d] = Line("keep", rec[d]) /\ d <= tail /\ d < head /\ d < next
         /\ d \notin Hidden \/ gap
         /\ \A k \in Keys : Below(d, k) => k < head /\ k < next
         /\ \A i \in 1..(Len(frames)-1) : frames[i].key < d
<1>1. frames \in Seq(FrameType) /\ frames # <<>>
  BY DEF IInv, TypeOK, FrameType, Passed
<1>2. /\ Len(frames) \in Nat \ {0} /\ Len(frames) \in 1..Len(frames)
      /\ d = frames[Len(frames)].key /\ Last(frames) \in FrameType
  BY <1>1, FrontFact
<1>3. d \in DirKeys /\ d \in Keys
  BY <1>2, TreeAssumption DEF FrameType
<1>4. /\ d \in Recorded /\ loc[d] = None /\ Judged(d) /\ opts.delete
      /\ jrn[d] = Line("keep", rec[d])
  BY <1>2 DEF IInv, FramesReserved
<1>9. ASSUME NEW i \in 1..(Len(frames)-1)
      PROVE  frames[i].key < d
  <2>1. i \in 1..Len(frames) /\ i < Len(frames)
    BY <1>2
  <2> QED  BY <1>2, <2>1 DEF IInv, FramesReserved
<1>5. jrn[d] # None
  <2>1. rec[d] # None
    BY <1>4 DEF Recorded
  <2>2. Line("keep", rec[d]) \in Lines
    BY <1>3, <2>1, LineType DEF IInv, Marks
  <2> QED  BY <1>4, <2>2, NoneAssumption
<1>6. d <= tail /\ d < head /\ d < next
  BY <1>3, <1>5, TreeAssumption DEF IInv, Positions, TypeOK, Keys
<1>7. ASSUME NEW k \in Keys, Below(d, k)
      PROVE  k < head /\ k < next
  <2>1. ~Below(d, Now)
    BY DEF Passed
  <2> QED
    BY <1>3, <1>6, <1>7, <2>1, TreeAssumption DEF Below, Now, IInv, TypeOK, Keys
<1>8. d \notin Hidden \/ gap
  BY <1>3, <1>6, TreeAssumption DEF IInv, GateClosed, TypeOK, Keys
<1> QED
  BY <1>1, <1>3, <1>4, <1>6, <1>7, <1>8, <1>9

\* A flip replaces a reserved line by the drop of the same record.
LEMMA FlipFact ==
  ASSUME IInv, Passed, NEW d, d = Last(frames).key, Flip(d)
  PROVE  jrn' = [jrn EXCEPT ![d] = Line("drop", rec[d])]
<1>1. /\ jrn[d] = Line("keep", rec[d]) /\ d \in Keys
      /\ jrn \in [Keys -> Lines \cup {None}]
  BY PassedFact DEF IInv, TypeOK
<1>2. jrn' = [jrn EXCEPT ![d] = Line("drop", jrn[d].entry)]
  BY DEF Flip
<1>3. jrn[d].entry = rec[d]
  BY <1>1, LineFields
<1> QED
  BY <1>2, <1>3

\* How far a question answered q takes the run.
LEMMA QuitFact ==
  ASSUME TypeOK, Quit
  PROVE  /\ ok' = FALSE /\ phase' \in {"drain", "done"}
         /\ phase' = "drain" => gap' = TRUE
         /\ next' \in 1..(N+1) /\ gap' \in BOOLEAN
         /\ phase # "stream" => phase' = "done" /\ next' = next
         /\ next' = N+1 \/ (next' = next /\ phase' = "done")
         /\ next <= next' /\ (gap => gap')
<1>1. CASE phase = "stream"
  BY <1>1, TreeAssumption DEF Quit, TypeOK
<1>2. CASE phase # "stream"
  BY <1>2, TreeAssumption DEF Quit, TypeOK
<1> QED
  BY <1>1, <1>2

\* Where the cursor and the stream go from where they are.
LEMMA MoveFact ==
  ASSUME TypeOK
  PROVE  /\ head <= N => /\ head \in Keys
                         /\ \A j \in NextOf(Recorded, head) : j \in 1..(N+1) /\ j > head
         /\ next <= N => /\ next \in Keys
                         /\ \A j \in NextOf(Stream, next) : j \in 1..(N+1) /\ j > next
BY NextOfFact DEF TypeOK, Keys

\* A gap noticed on the way to the next pair leaves gap a truth value.
LEMMA LookedFact ==
  ASSUME NEW g \in BOOLEAN, NEW k, Looked(g, k)
  PROVE  gap' \in BOOLEAN /\ (g => gap')
BY DEF Looked

-----------------------------------------------------------------------------
(* How the cursor and the stream move.                                     *)

Still == UNCHANGED <<phase, next, head, gap, ok>>

RecordMove ==
  /\ AtRecord /\ NextRecord
  /\ UNCHANGED <<phase, next, gap, ok>>

PairMove ==
  /\ AtPair /\ Consume
  /\ \E g \in BOOLEAN : (gap => g) /\ NextPair(g)
  /\ UNCHANGED <<phase, ok>>

Stop ==
  /\ phase = "stream" /\ phase' = "drain"
  /\ next' = N+1 /\ gap' = TRUE /\ ok' = FALSE
  /\ head' = head \/ (AtPair /\ Consume)

\* The phase moves on, with nothing left in the stream.
Wind ==
  /\ next = N+1
  /\ \/ phase = "stream" /\ phase' = "drain" /\ ok' = ok
     \/ phase = "drain" /\ phase' = "offer" /\ ok = TRUE /\ ok' = ok
     \/ phase' = "done" /\ ok' \in BOOLEAN /\ (ok' => ok)
  /\ UNCHANGED <<next, head, gap>>

\* A question answered q stops the stream, or ends the run after it.
LEMMA QuitMoves ==
  ASSUME IInv, Quit, UNCHANGED head
  PROVE  Stop \/ Wind
<1>1. CASE phase = "stream"
  BY <1>1 DEF Quit, Stop
<1>2. CASE phase # "stream"
  BY <1>2 DEF Quit, Wind, IInv, GateClosed
<1> QED
  BY <1>1, <1>2

\* Every step leaves the world alone and makes one of these moves.
LEMMA Moves ==
  ASSUME IInv, Next
  PROVE  UNCHANGED world /\ (Still \/ RecordMove \/ PairMove \/ Stop \/ Wind)
<1>1. CASE KeepFrame \/ RefuseFrame \/ AskFrame
  BY <1>1 DEF KeepFrame, RefuseFrame, AskFrame, Still
<1>2. CASE QuitFrame
  BY <1>2, QuitMoves DEF QuitFrame
<1>3. CASE SkipOutside \/ SkipGated \/ DropStale \/ SkipKept
  BY <1>3 DEF SkipOutside, SkipGated, DropStale, SkipKept, RecordMove
<1>4. CASE OpenFrame \/ AskRecord
  BY <1>4 DEF OpenFrame, AskRecord, RecordMove
<1>5. CASE QuitRecord
  BY <1>5, QuitMoves DEF QuitRecord
<1>6. CASE Decide
  <2> DEFINE g == gap \/ Verdict(Old, loc[next], obj[next], opts, next \in blind).gap
  <2>1. g \in BOOLEAN /\ (gap => g) /\ NextPair(g)
    BY <1>6 DEF Decide
  <2> QED  BY <1>6, <2>1 DEF Decide, PairMove
<1>7. CASE RecordTarget \/ KeepOrphan \/ DeleteOrphan
  BY <1>7 DEF RecordTarget, KeepOrphan, DeleteOrphan, AtOrphan, PairMove, IInv, TypeOK
<1>8. CASE QuitOrphan
  BY <1>8 DEF QuitOrphan, AtOrphan, AtPair, Quit, Stop
<1>9. CASE EndStream \/ Close
  BY <1>9 DEF EndStream, Close, Wind, IInv, TypeOK, GateClosed
<1>10. CASE SyncStops
  BY <1>10 DEF SyncStops, Stop
<1>11. CASE OfferObject \/ Finished
  BY <1>11 DEF OfferObject, Finished, Still, vars, cursor
<1>12. CASE QuitOffer
  BY <1>12, QuitMoves DEF QuitOffer
<1>13. CASE DeleteOffered
  <2>1. /\ phase = "offer" /\ phase' = "done" /\ UNCHANGED world
        /\ next' = next /\ head' = head /\ gap' = gap
    BY <1>13 DEF DeleteOffered
  <2>2. next = N+1
    BY <2>1 DEF IInv, GateClosed
  <2>3. ok' = ok \/ ok' = FALSE
    BY <1>13 DEF DeleteOffered
  <2>5. ok \in BOOLEAN
    BY DEF IInv, TypeOK
  <2>4. ok' \in BOOLEAN /\ (ok' => ok)
    <3>1. CASE ok' = ok
      BY <2>5, <3>1
    <3>2. CASE ok' = FALSE
      BY <3>2
    <3> QED  BY <2>3, <3>1, <3>2
  <2> QED  BY <2>1, <2>2, <2>4 DEF Wind
<1> QED
  BY <1>1, <1>2, <1>3, <1>4, <1>5, <1>6, <1>7, <1>8, <1>9, <1>10, <1>11, <1>12,
     <1>13 DEF Next, Finished, vars

\* The cursor and the stream only move forward, and a gap stays.
LEMMA Forward ==
  ASSUME IInv, Next
  PROVE  /\ head \in Int /\ next \in Int
         /\ head' \in 1..(N+1) /\ next' \in 1..(N+1)
         /\ head <= head' /\ next <= next'
         /\ gap' \in BOOLEAN /\ ok' \in BOOLEAN /\ (gap => gap') /\ (ok' => ok)
         /\ phase' \in {"stream", "drain", "offer", "done"}
<1>1. /\ next \in 1..(N+1) /\ head \in 1..(N+1) /\ N \in Nat
      /\ gap \in BOOLEAN /\ ok \in BOOLEAN
      /\ phase \in {"stream", "drain", "offer", "done"}
  BY TreeAssumption DEF IInv, TypeOK
<1>2. CASE Still
  BY <1>1, <1>2 DEF Still
<1>3. CASE RecordMove
  BY <1>1, <1>3, MoveFact DEF RecordMove, AtRecord, NextRecord, IInv
<1>4. AtPair /\ Consume => head' \in 1..(N+1) /\ head <= head'
  BY <1>1, MoveFact DEF AtPair, Consume, IInv
<1>5. CASE PairMove
  <2>1. PICK g \in BOOLEAN : (gap => g) /\ NextPair(g)
    BY <1>5 DEF PairMove
  <2>2. gap' \in BOOLEAN /\ (gap => gap')
    BY <2>1, LookedFact DEF NextPair
  <2>3. next' \in 1..(N+1) /\ next <= next'
    BY <1>1, <1>5, <2>1, MoveFact DEF NextPair, PairMove, AtPair, IInv
  <2> QED  BY <1>1, <1>4, <1>5, <2>2, <2>3 DEF PairMove
<1>6. CASE Stop
  <2>1. next' = N+1 /\ (head' = head \/ (AtPair /\ Consume)) /\ phase' = "drain"
    BY <1>6 DEF Stop
  <2>2. gap' \in BOOLEAN /\ ok' \in BOOLEAN /\ (gap => gap') /\ (ok' => ok)
    BY <1>6 DEF Stop
  <2> QED  BY <1>1, <1>4, <2>1, <2>2
<1>7. CASE Wind
  <2>1. ok' \in BOOLEAN /\ (ok' => ok)
    BY <1>1, <1>7 DEF Wind
  <2>2. phase' \in {"stream", "drain", "offer", "done"}
    BY <1>7 DEF Wind
  <2> QED  BY <1>1, <1>7, <2>1, <2>2 DEF Wind
<1> QED
  BY <1>1, <1>2, <1>3, <1>5, <1>6, <1>7, Moves

\* A record move leaves no record between the old and the new head.
LEMMA RecordMoveFact ==
  ASSUME IInv, RecordMove
  PROVE  /\ head' > head /\ (head' = N+1 \/ head' \in Recorded)
         /\ \A k \in Keys : k \in Recorded /\ k < head' => k <= head
BY AtRecordFact, NextOfFact, TreeAssumption DEF RecordMove, NextRecord, Keys, IInv, TypeOK

\* Consuming a pair moves the cursor past the pair's own record, if any.
LEMMA ConsumeFact ==
  ASSUME IInv, AtPair, Consume
  PROVE  /\ head' > next /\ head' >= head /\ (head' = N+1 \/ head' \in Recorded)
         /\ \A k \in Keys : k \in Recorded /\ k < head' => k < head \/ k = next
<1>0. /\ next \in Keys /\ next \in 0..N /\ next <= head /\ head \in 1..(N+1)
      /\ N \in Nat /\ (head = N+1 \/ head \in Recorded)
  BY AtPairFact, TreeAssumption DEF IInv, TypeOK, Keys, Lockstep
<1>1. CASE head = next
  BY <1>0, <1>1, NextOfFact DEF Consume, Keys
<1>2. CASE head # next
  BY <1>0, <1>2 DEF Consume, Keys
<1> QED
  BY <1>1, <1>2

\* The next pair is the next of the stream.
LEMMA NextPairFact ==
  ASSUME IInv, AtPair, NEW g, NextPair(g)
  PROVE  /\ next' > next /\ (next' = N+1 \/ next' \in Stream)
         /\ \A k \in Keys : k \in Stream /\ k < next' => k <= next
BY AtPairFact, NextOfFact, TreeAssumption DEF NextPair, Keys, IInv, TypeOK

THEOREM LockstepStep ==
  ASSUME IInv, Next
  PROVE  Lockstep'
<1>0. /\ next \in 1..(N+1) /\ head \in 1..(N+1) /\ N \in Nat /\ Keys = 1..N
      /\ Recorded' = Recorded /\ Stream' = Stream
      /\ Recorded \subseteq Keys /\ Stream \subseteq Keys
      /\ Lockstep
  BY TreeAssumption, Moves, WorldSame DEF IInv, TypeOK, Keys, Recorded, Stream
<1>1. CASE Still
  BY <1>0, <1>1 DEF Still, Lockstep
<1>2. CASE RecordMove
  <2>1. head < next /\ next' = next /\ ok' = ok
    BY <1>2 DEF RecordMove, AtRecord
  <2>2. head' \in 1..(N+1)
    BY Forward
  <2>3. \A k \in Recorded : k < head' => k < next'
    BY <1>0, <1>2, <2>1, <2>2, RecordMoveFact
  <2>4. \A k \in Stream : ok /\ k < next' => k < head'
    BY <1>0, <1>2, <2>1, <2>2, RecordMoveFact DEF Lockstep
  <2>5. head' = N+1 \/ head' \in Recorded
    BY <1>2, RecordMoveFact
  <2>6. next' = N+1 \/ next' \in Stream
    BY <1>0, <2>1 DEF Lockstep
  <2> QED  BY <1>0, <2>1, <2>3, <2>4, <2>5, <2>6 DEF Lockstep
<1>3. CASE PairMove
  <2>1. AtPair /\ Consume /\ ok' = ok
    BY <1>3 DEF PairMove
  <2>2. PICK g \in BOOLEAN : NextPair(g)
    BY <1>3 DEF PairMove
  <2>3. head' \in 1..(N+1) /\ next' \in 1..(N+1) /\ next <= head
    BY <2>1, AtPairFact, Forward
  <2>4. \A k \in Recorded : k < head' => k < next'
    BY <1>0, <2>1, <2>2, <2>3, ConsumeFact, NextPairFact DEF Lockstep
  <2>5. \A k \in Stream : k < next' => k < head'
    BY <1>0, <2>1, <2>2, <2>3, ConsumeFact, NextPairFact
  <2>6. (head' = N+1 \/ head' \in Recorded) /\ (next' = N+1 \/ next' \in Stream)
    BY <2>1, <2>2, ConsumeFact, NextPairFact
  <2> QED  BY <1>0, <2>4, <2>5, <2>6 DEF Lockstep
<1>4. CASE Stop
  <2>1. head' = N+1 \/ head' \in Recorded
    BY <1>0, <1>4, ConsumeFact DEF Stop, Lockstep
  <2> QED  BY <1>0, <1>4, <2>1 DEF Stop, Lockstep
<1>5. CASE Wind
  BY <1>0, <1>5 DEF Wind, Lockstep, IInv, TypeOK
<1> QED
  BY <1>1, <1>2, <1>3, <1>4, <1>5, Moves

THEOREM GateStep ==
  ASSUME IInv, Next
  PROVE  GateClosed'
<1>0. /\ next \in 1..(N+1) /\ N \in Nat /\ Hidden \subseteq 1..N /\ Hidden' = Hidden
      /\ GateClosed /\ gap \in BOOLEAN
  BY TreeAssumption, Moves, WorldSame DEF IInv, TypeOK, Keys, Hidden
<1>1. CASE Still
  BY <1>0, <1>1 DEF Still, GateClosed, Running
<1>2. CASE RecordMove
  BY <1>0, <1>2 DEF RecordMove, GateClosed, Running
<1>3. CASE PairMove
  <2>1. phase = "stream" /\ phase' = phase /\ ok' = ok
    BY <1>3 DEF PairMove, AtPair
  <2>2. PICK g \in BOOLEAN : (gap => g) /\ NextPair(g)
    BY <1>3 DEF PairMove
  <2>3. PICK r \in next'..(N+1) : gap' = (g \/ \E h \in Hidden : h <= r)
    BY <2>2 DEF NextPair, Looked
  <2>4. next' \in 1..(N+1)
    BY Forward
  <2>8. \A k \in Hidden : k <= next' => k <= r
    BY <1>0, <2>3, <2>4
  <2>5. \A k \in Hidden : k <= next' => gap'
    BY <2>3, <2>8
  <2>6. ~ok => gap
    BY <2>1 DEF IInv, GateClosed, Running
  <2>7. Running' /\ ~ok' => gap'
    BY <2>1, <2>6, Forward
  <2> QED  BY <1>0, <2>1, <2>5, <2>7 DEF GateClosed
<1>4. CASE Stop
  BY <1>0, <1>4 DEF Stop, GateClosed, Running
<1>5. CASE Wind
  BY <1>0, <1>5 DEF Wind, GateClosed, Running
<1> QED
  BY <1>1, <1>2, <1>3, <1>4, <1>5, Moves
-----------------------------------------------------------------------------
(* What the journal gains in a step.                                       *)

\* A directory key has no object, and only it holds a directory record.
LEMMA WorldFact ==
  ASSUME TypeOK
  PROVE  \A k \in Keys : /\ rec[k] # None => (rec[k].kind = "dir" <=> k \in DirKeys)
                         /\ k \in DirKeys => obj[k] = None
BY DEF TypeOK, WellFormed

\* A pair with no local side is an object in the range that is judged.
LEMMA OrphanFact ==
  ASSUME IInv, AtOrphan
  PROVE  /\ obj[next] # None /\ Walked(next) /\ Judged(next)
         /\ next \in Keys /\ next \notin DirKeys
<1>1. next \in Keys /\ InStream(next) /\ loc[next] = None
  BY AtPairFact DEF AtOrphan
<1>2. Walked(next) /\ obj[next] # None
  BY <1>1 DEF InStream
<1>3. next \notin DirKeys
  BY <1>1, <1>2, WorldFact DEF IInv
<1>4. next # SubDir
  BY <1>3, ScopeAssumption
<1> QED
  BY <1>1, <1>2, <1>3, <1>4 DEF Walked, Judged

\* A new line, behind cursor and stream once the step is taken.
NewLineAt(k, line) ==
  /\ k \in Keys /\ jrn[k] = None /\ tail < k /\ k < head' /\ k < next'
  /\ line \in Lines /\ LineMeans(k, line)
  /\ Write(k, line)
  /\ events' = events + 1 \/ (events' = events /\ line.mark = "keep")

\* A reserved line flipped, on a yes to a frame that nothing survives beneath.
FlipAt(d) ==
  /\ Passed /\ d = Last(frames).key
  /\ ~Last(frames).kept /\ ~gap /\ Running
  /\ Answered(d, "yes") /\ UNCHANGED condemned
  /\ Flip(d) /\ tail' = tail
  /\ frames' = Front(frames)

\* A line for a record passed over.
LEMMA RecordLine ==
  ASSUME IInv, RecordMove, Judged(head), ~gap, NEW m \in {"drop", "keep"},
         Write(head, Line(m, rec[head])),
         events' = events + 1 \/ (events' = events /\ m = "keep")
  PROVE  NewLineAt(head, Line(m, rec[head]))
<1>1. /\ head \in Keys /\ head \in Recorded /\ jrn[head] = None /\ tail < head
      /\ head < next /\ loc[head] = None /\ next' = next /\ rec[head] # None
  BY AtRecordFact DEF RecordMove
<1>2. head < head'
  BY <1>1, RecordMoveFact, Forward DEF IInv, TypeOK
<1>3. Line(m, rec[head]) \in Lines
  BY <1>1, LineType DEF IInv, Marks
<1>4. LineMeans(head, Line(m, rec[head]))
  BY <1>1, LineFields DEF LineMeans
<1> QED
  BY <1>1, <1>2, <1>3, <1>4, LineFields DEF NewLineAt

\* A line for the item or the object of a pair.
LEMMA PairLine ==
  ASSUME IInv, AtPair, Consume, NEW g, NextPair(g), NEW line,
         Write(next, line), events' = events + 1,
         \/ loc[next] # None /\ line = NewLine(Old, next)
         \/ AtOrphan /\ rec[next] # None /\ line = Line("drop", rec[next])
  PROVE  NewLineAt(next, line)
<1>1. /\ next \in Keys /\ InStream(next) /\ jrn[next] = None /\ tail < next
      /\ Old = rec[next]
  BY AtPairFact
<1>2. next < head' /\ next < next'
  <2>1. next \in Int /\ next' > next /\ head' > next /\ next' \in 1..(N+1)
    BY ConsumeFact, NextPairFact, NextOfFact, MoveFact, AtPairFact, TreeAssumption
       DEF NextPair, Keys, IInv
  <2>2. head' \in 1..(N+1)
    BY MoveFact, AtPairFact, TreeAssumption DEF Consume, IInv, TypeOK, Keys, AtPair
  <2> QED  BY <2>1, <2>2, TreeAssumption
<1>3. CASE loc[next] # None /\ line = NewLine(Old, next)
  <2>1. line \in Lines
    BY <1>1, <1>3, LineType DEF IInv
  <2>2. line.mark = IF rec[next] = None THEN "add" ELSE "replace"
    BY <1>1, <1>3, LineFields DEF NewLine
  <2>3. LineMeans(next, line)
    BY <1>1, <1>3, <2>2 DEF LineMeans
  <2> QED  BY <1>1, <1>2, <2>1, <2>3 DEF NewLineAt
<1>4. CASE AtOrphan /\ rec[next] # None /\ line = Line("drop", rec[next])
  <2>1. line \in Lines
    BY <1>1, <1>4, LineType DEF IInv, Marks
  <2>2. next \in Recorded /\ loc[next] = None /\ Judged(next)
    BY <1>1, <1>4, OrphanFact DEF Recorded, AtOrphan
  <2>3. LineMeans(next, line)
    BY <1>4, <2>2, LineFields DEF LineMeans
  <2> QED  BY <1>1, <1>2, <2>1, <2>3 DEF NewLineAt
<1> QED
  BY <1>3, <1>4
\* Every step leaves the journal alone, appends one line or flips one.
LEMMA JournalKinds ==
  ASSUME IInv, Next
  PROVE  \/ UNCHANGED journal
         \/ \E k \in Keys : \E line \in Lines : NewLineAt(k, line)
         \/ \E d \in DirKeys : FlipAt(d)
<1>1. CASE AskFrame
  <2> DEFINE d == Last(frames).key
  <2>1. CASE Answered(d, "yes") /\ Flip(d) /\ frames' = Front(frames)
    <3>1. FlipAt(d)
      BY <1>1, <2>1 DEF AskFrame, FlipAt, Allowed
    <3>2. d \in DirKeys
      BY <1>1, PassedFact DEF AskFrame
    <3> QED  BY <3>1, <3>2
  <2>2. CASE UNCHANGED <<jrn, events>>
    BY <1>1, <2>2 DEF AskFrame, journal
  <2> QED  BY <1>1, <2>1, <2>2 DEF AskFrame
<1>2. CASE DropStale
  <2>1. /\ RecordMove /\ Judged(head) /\ ~gap /\ head \in Keys
        /\ Write(head, Line("drop", rec[head])) /\ events' = events + 1
    BY <1>2, AtRecordFact DEF DropStale, RecordMove, Drop, Emit
  <2>2. NewLineAt(head, Line("drop", rec[head]))
    BY <2>1, RecordLine
  <2> QED  BY <2>2 DEF NewLineAt
<1>3. CASE OpenFrame
  <2>1. /\ RecordMove /\ Judged(head) /\ ~gap /\ head \in Keys
        /\ Write(head, Line("keep", rec[head])) /\ events' = events
    BY <1>3, AtRecordFact DEF OpenFrame, RecordMove
  <2>2. NewLineAt(head, Line("keep", rec[head]))
    BY <2>1, RecordLine
  <2> QED  BY <2>2 DEF NewLineAt
<1>4. CASE AskRecord
  <2>1. CASE UNCHANGED journal
    BY <2>1
  <2>2. CASE Drop(head)
    <3>1. /\ RecordMove /\ Judged(head) /\ ~gap /\ head \in Keys
          /\ Write(head, Line("drop", rec[head])) /\ events' = events + 1
      BY <1>4, <2>2, AtRecordFact DEF AskRecord, RecordMove, Drop, Emit
    <3>2. NewLineAt(head, Line("drop", rec[head]))
      BY <3>1, RecordLine
    <3> QED  BY <3>2 DEF NewLineAt
  <2> QED  BY <1>4, <2>1, <2>2 DEF AskRecord
<1>5. CASE Decide
  <2> DEFINE v == Verdict(Old, loc[next], obj[next], opts, next \in blind)
  <2>1. AtPair /\ Consume /\ NextPair(gap \/ v.gap) /\ loc[next] # None
    BY <1>5 DEF Decide
  <2>2. WriteNew(Old, next) \/ UNCHANGED journal
    BY <1>5 DEF Decide
  <2> HIDE DEF v
  <2>3. CASE WriteNew(Old, next)
    <3>1. NewLineAt(next, NewLine(Old, next))
      BY <2>1, <2>3, PairLine DEF WriteNew
    <3> QED  BY <3>1 DEF NewLineAt
  <2> QED  BY <2>2, <2>3
<1>6. CASE RecordTarget
  <2>1. /\ AtPair /\ Consume /\ NextPair(gap) /\ WriteNew(Old, next)
        /\ opts.scope = "target"
    BY <1>6 DEF RecordTarget
  <2>2. loc[next] # None
    BY <2>1, AtPairFact DEF InStream, Walked, Entry
  <2>3. NewLineAt(next, NewLine(Old, next))
    BY <2>1, <2>2, PairLine DEF WriteNew
  <2> QED  BY <2>3 DEF NewLineAt
<1>7. CASE DeleteOrphan
  <2>1. AtOrphan /\ AtPair /\ Consume /\ NextPair(gap)
    BY <1>7 DEF DeleteOrphan, AtOrphan
  <2>2. CASE TakesRecord(Old) /\ Drop(next)
    <3>1. rec[next] # None
      BY <2>1, <2>2, AtPairFact DEF TakesRecord
    <3>2. NewLineAt(next, Line("drop", rec[next]))
      BY <2>1, <2>2, <3>1, PairLine DEF Drop, Emit
    <3> QED  BY <3>2 DEF NewLineAt
  <2>3. CASE UNCHANGED journal
    BY <2>3
  <2> QED  BY <1>7, <2>2, <2>3 DEF DeleteOrphan
<1>8. CASE KeepFrame \/ RefuseFrame \/ QuitFrame \/ SkipOutside \/ SkipGated \/ SkipKept
  BY <1>8 DEF KeepFrame, RefuseFrame, QuitFrame, SkipOutside, SkipGated, SkipKept
<1>9. CASE QuitRecord \/ KeepOrphan \/ QuitOrphan \/ EndStream \/ SyncStops \/ Close
  BY <1>9 DEF QuitRecord, KeepOrphan, QuitOrphan, EndStream, SyncStops, Close
<1>10. CASE OfferObject \/ QuitOffer \/ DeleteOffered \/ Finished
  BY <1>10 DEF OfferObject, QuitOffer, DeleteOffered, Finished, vars
<1> QED
  BY <1>1, <1>2, <1>3, <1>4, <1>5, <1>6, <1>7, <1>8, <1>9, <1>10 DEF Next

\* What a step makes of a line: a line that was there stays, or is flipped.
LEMMA LineStep ==
  ASSUME IInv, Next, NEW k \in Keys
  PROVE  \/ jrn'[k] = jrn[k]
         \/ jrn[k] = None /\ NewLineAt(k, jrn'[k])
         \/ /\ FlipAt(k) /\ k \in DirKeys
            /\ jrn[k] = Line("keep", rec[k]) /\ jrn'[k] = Line("drop", rec[k])
<1>0. jrn \in [Keys -> Lines \cup {None}]
  BY DEF IInv, TypeOK
<1>1. CASE UNCHANGED journal
  BY <1>1 DEF journal
<1>2. ASSUME NEW j \in Keys, NEW line \in Lines, NewLineAt(j, line)
      PROVE  jrn'[k] = jrn[k] \/ (jrn[k] = None /\ NewLineAt(k, jrn'[k]))
  <2>1. jrn' = [jrn EXCEPT ![j] = line] /\ jrn[j] = None
    BY <1>2 DEF NewLineAt, Write
  <2> QED  BY <1>0, <1>2, <2>1
<1>3. ASSUME NEW d \in DirKeys, FlipAt(d)
      PROVE  \/ jrn'[k] = jrn[k]
             \/ /\ k = d /\ jrn[k] = Line("keep", rec[k]) /\ jrn'[k] = Line("drop", rec[k])
  <2>1. jrn' = [jrn EXCEPT ![d] = Line("drop", rec[d])] /\ jrn[d] = Line("keep", rec[d])
    BY <1>3, FlipFact, PassedFact DEF FlipAt
  <2> QED  BY <1>0, <2>1
<1> QED
  BY <1>1, <1>2, <1>3, JournalKinds
\* The journal keeps its type, ascends, and stays behind cursor and stream.
THEOREM PositionsStep ==
  ASSUME IInv, Next
  PROVE  /\ Positions'
         /\ jrn' \in [Keys -> Lines \cup {None}] /\ tail' \in 0..N /\ events' \in Nat
<1>0. /\ head \in Int /\ next \in Int /\ head' \in Int /\ next' \in Int
      /\ head <= head' /\ next <= next'
  BY Forward, TreeAssumption
<1>1. /\ jrn \in [Keys -> Lines \cup {None}] /\ tail \in 0..N /\ events \in Nat
      /\ Positions /\ Keys = 1..N /\ N \in Nat /\ DirKeys \subseteq Keys
  BY TreeAssumption DEF IInv, TypeOK, Keys
<1>2. CASE UNCHANGED journal
  BY <1>0, <1>1, <1>2 DEF journal, Positions
<1>3. ASSUME NEW k \in Keys, NEW line \in Lines, NewLineAt(k, line)
      PROVE  /\ Positions'
             /\ jrn' \in [Keys -> Lines \cup {None}] /\ tail' \in 0..N /\ events' \in Nat
  <2>1. /\ jrn' = [jrn EXCEPT ![k] = line] /\ tail' = k /\ tail < k
        /\ k < head' /\ k < next'
        /\ events' = events + 1 \/ events' = events
    BY <1>3 DEF NewLineAt, Write
  <2>2. \A i \in Keys : jrn'[i] # None => i <= tail'
    BY <1>1, <2>1 DEF Positions
  <2> QED  BY <1>0, <1>1, <2>1, <2>2 DEF Positions
<1>4. ASSUME NEW d \in DirKeys, FlipAt(d)
      PROVE  /\ Positions'
             /\ jrn' \in [Keys -> Lines \cup {None}] /\ tail' \in 0..N /\ events' \in Nat
  <2>1. /\ jrn' = [jrn EXCEPT ![d] = Line("drop", rec[d])] /\ tail' = tail
        /\ events' = events + 1
    BY <1>4, FlipFact DEF FlipAt, Flip
  <2>2. /\ Line("drop", rec[d]) \in Lines /\ d <= tail
    BY <1>1, <1>4, PassedFact, LineType DEF FlipAt, IInv, Recorded, Marks
  <2> QED  BY <1>0, <1>1, <2>1, <2>2 DEF Positions
<1> QED
  BY <1>2, <1>3, <1>4, JournalKinds

\* Every line means what its mark says, and the reserved lines that were
\* flipped or not are the only ones without an event.
THEOREM LinesStep ==
  ASSUME IInv, Next
  PROVE  LinesMean' /\ EventsCount'
<1>1. ASSUME NEW k \in Keys
      PROVE  jrn'[k] # None => LineMeans(k, jrn'[k])
  <2>1. CASE jrn'[k] = jrn[k]
    BY <2>1 DEF IInv, LinesMean
  <2>2. CASE NewLineAt(k, jrn'[k])
    BY <2>2 DEF NewLineAt
  <2>3. CASE FlipAt(k) /\ k \in DirKeys /\ jrn'[k] = Line("drop", rec[k])
    BY <2>3, PassedFact, LineFields DEF FlipAt, LineMeans
  <2> QED  BY <2>1, <2>2, <2>3, LineStep
<1>2. \A k \in Keys : \A line : LineMeans(k, line)' <=> LineMeans(k, line')
  BY Moves, WorldSame DEF LineMeans, world
<1>3. LinesMean'
  BY <1>1, <1>2 DEF LinesMean
<1>4. ASSUME events' = 0
      PROVE  \A k \in Keys : jrn'[k] # None => jrn'[k].mark = "keep"
  <2>0. events \in Nat
    BY DEF IInv, TypeOK
  <2>1. ASSUME NEW d, FlipAt(d) PROVE FALSE
    BY <1>4, <2>0, <2>1 DEF FlipAt, Flip
  <2>2. ASSUME NEW k, NEW line, NewLineAt(k, line) PROVE line.mark = "keep" /\ events = 0
    BY <1>4, <2>0, <2>2 DEF NewLineAt
  <2>3. events = 0
    BY <1>4, <2>1, <2>2, JournalKinds DEF journal
  <2>4. TAKE k \in Keys
  <2> QED  BY <2>1, <2>2, <2>3, LineStep DEF IInv, EventsCount
<1> QED
  BY <1>3, <1>4 DEF EventsCount

-----------------------------------------------------------------------------
(* The open frames.                                                        *)

\* The frames are frames.
LEMMA FramesFact ==
  ASSUME TypeOK
  PROVE  /\ frames \in Seq(FrameType) /\ Len(frames) \in Nat
         /\ \A i \in 1..Len(frames) : frames[i] \in FrameType /\ frames[i].key \in DirKeys
<1>1. frames \in Seq(FrameType)
  BY DEF TypeOK, FrameType
<1>2. Len(frames) \in Nat /\ \A i \in 1..Len(frames) : frames[i] \in FrameType
  BY <1>1, ElementOfSeq
<1> QED
  BY <1>1, <1>2 DEF FrameType

\* In every step but OpenFrame the frames are some of the frames that were
\* open, from the outermost on.
LEMMA FrameKinds ==
  ASSUME IInv, Next
  PROVE  /\ frames \in Seq(FrameType) /\ frames' \in Seq(FrameType)
         /\ \/ OpenFrame
            \/ /\ Len(frames') <= Len(frames)
               /\ \A i \in 1..Len(frames') : frames'[i].key = frames[i].key
<1>0. frames \in Seq(FrameType)
  BY DEF IInv, TypeOK, FrameType
<1>1. /\ MarkKept(frames) \in Seq(FrameType)
      /\ Len(MarkKept(frames)) = Len(frames) /\ Len(frames) \in Nat
      /\ \A i \in 1..Len(frames) : MarkKept(frames)[i].key = frames[i].key
  BY <1>0, MarkKeptFact
<1>2. CASE frames' = frames \/ frames' = MarkKept(frames)
  BY <1>0, <1>1, <1>2
<1>3. CASE Passed /\ (frames' = Front(frames) \/ frames' = MarkKept(Front(frames)))
  <2>1. /\ Front(frames) \in Seq(FrameType) /\ Len(Front(frames)) = Len(frames) - 1
        /\ Len(frames) \in Nat \ {0}
        /\ \A i \in 1..(Len(frames) - 1) : Front(frames)[i] = frames[i]
    BY <1>0, <1>3, FrontFact DEF Passed
  <2>2. /\ MarkKept(Front(frames)) \in Seq(FrameType)
        /\ Len(MarkKept(Front(frames))) = Len(frames) - 1
        /\ \A i \in 1..(Len(frames) - 1) :
             MarkKept(Front(frames))[i].key = Front(frames)[i].key
    BY <2>1, MarkKeptFact
  <2> QED  BY <1>0, <1>3, <2>1, <2>2
<1>4. CASE OpenFrame
  <2>1. head \in Keys /\ rec[head].kind = "dir" /\ rec[head] # None
    BY <1>4, AtRecordFact DEF OpenFrame
  <2>2. [key |-> head, kept |-> FALSE] \in FrameType
    BY <2>1, WorldFact DEF IInv, FrameType
  <2> QED  BY <1>0, <1>4, <2>2, AppendProperties DEF OpenFrame
<1>5. CASE KeepFrame \/ RefuseFrame \/ AskFrame \/ QuitFrame
  BY <1>3, <1>5 DEF KeepFrame, RefuseFrame, AskFrame, QuitFrame
<1>6. CASE SkipOutside \/ SkipGated \/ DropStale \/ SkipKept \/ AskRecord \/ QuitRecord
  BY <1>2, <1>6 DEF SkipOutside, SkipGated, DropStale, SkipKept, AskRecord, QuitRecord, Kept
<1>7. CASE Decide \/ RecordTarget \/ KeepOrphan \/ DeleteOrphan \/ QuitOrphan
  BY <1>2, <1>7 DEF Decide, RecordTarget, KeepOrphan, DeleteOrphan, QuitOrphan
<1>8. CASE EndStream \/ SyncStops \/ Close \/ QuitOffer
  BY <1>2, <1>8 DEF EndStream, SyncStops, Close, QuitOffer
<1>9. CASE OfferObject \/ DeleteOffered \/ Finished
  BY <1>2, <1>9 DEF OfferObject, DeleteOffered, Finished, vars, cursor
<1> QED
  BY <1>2, <1>4, <1>5, <1>6, <1>7, <1>8, <1>9 DEF Next
THEOREM FramesStep ==
  ASSUME IInv, Next
  PROVE  FramesReserved'
<1>0. /\ frames \in Seq(FrameType) /\ frames' \in Seq(FrameType)
      /\ Len(frames) \in Nat /\ Len(frames') \in Nat
      /\ \A i \in 1..Len(frames) : frames[i] \in FrameType
      /\ \A i \in 1..Len(frames') : frames'[i] \in FrameType
      /\ DirKeys \subseteq Keys /\ Keys \subseteq Int
  BY FrameKinds, ElementOfSeq, TreeAssumption DEF Keys
<1> DEFINE Reserved(d) == /\ d \in Recorded /\ loc[d] = None /\ Judged(d) /\ opts.delete
                          /\ jrn[d] = Line("keep", rec[d])
<1>1. ASSUME NEW i \in 1..Len(frames)
      PROVE  /\ Reserved(frames[i].key) /\ frames[i].key \in DirKeys
             /\ jrn[frames[i].key] # None
  <2>1. Reserved(frames[i].key)
    BY DEF IInv, FramesReserved
  <2>2. frames[i].key \in DirKeys
    BY <1>0 DEF FrameType
  <2>3. Line("keep", rec[frames[i].key]) \in Lines
    BY <1>0, <2>1, <2>2, LineType DEF IInv, Recorded, Marks
  <2> QED  BY <2>1, <2>2, <2>3, NoneAssumption
<1>2. \A i, j \in 1..Len(frames) : i < j => frames[i].key < frames[j].key
  BY DEF IInv, FramesReserved
<1>3. \A d \in DirKeys : Reserved(d) /\ jrn'[d] = jrn[d] => Reserved(d)'
  BY <1>0, Moves, WorldSame DEF world
<1>4. CASE OpenFrame
  <2>1. /\ frames' = Append(frames, [key |-> head, kept |-> FALSE])
        /\ jrn' = [jrn EXCEPT ![head] = Line("keep", rec[head])]
        /\ Judged(head) /\ ~gap /\ opts.delete /\ rec[head].kind = "dir"
    BY <1>4 DEF OpenFrame, Write
  <2>2. /\ head \in Keys /\ head \in Recorded /\ jrn[head] = None /\ tail < head
        /\ loc[head] = None /\ head \in DirKeys
    BY <1>4, <2>1, AtRecordFact, WorldFact DEF OpenFrame, IInv, Recorded
  <2>3. [key |-> head, kept |-> FALSE] \in FrameType
    BY <2>2 DEF FrameType
  <2>4. /\ Len(frames') = Len(frames) + 1
        /\ \A i \in 1..Len(frames) : frames'[i] = frames[i]
        /\ frames'[Len(frames) + 1].key = head
    BY <1>0, <2>1, <2>3, AppendProperties
  <2>5. ASSUME NEW i \in 1..Len(frames) PROVE frames[i].key < head
    <3>1. PICK d \in DirKeys : d = frames[i].key /\ jrn[d] # None
      BY <1>1
    <3>2. Positions /\ tail \in 0..N /\ N \in Nat
      BY TreeAssumption DEF IInv, TypeOK
    <3>3. d <= tail /\ tail \in Int /\ d \in Int
      BY <1>0, <3>1, <3>2 DEF Positions
    <3> QED  BY <1>0, <2>2, <3>1, <3>3
  <2>10. PICK h \in DirKeys : h = head
    BY <2>2
  <2>6. Reserved(h)'
    <3>1. jrn'[h] = Line("keep", rec[h])
      BY <2>1, <2>2, <2>10 DEF IInv, TypeOK
    <3> QED  BY <2>1, <2>2, <2>10, <3>1, Moves, WorldSame DEF world
  <2>7. ASSUME NEW i \in 1..Len(frames), NEW d \in DirKeys, d = frames[i].key
        PROVE  Reserved(d)'
    <3>1. jrn'[d] = jrn[d]
      BY <1>0, <1>1, <2>1, <2>2, <2>7 DEF IInv, TypeOK
    <3> QED  BY <1>1, <1>3, <2>7, <3>1
  <2>8. ASSUME NEW i \in 1..Len(frames') PROVE Reserved(frames[i].key)'
    <3>1. PICK d \in DirKeys : d = frames'[i].key
      BY <1>0 DEF FrameType
    <3>2. CASE i \in 1..Len(frames)
      BY <2>4, <2>7, <3>1, <3>2
    <3>3. CASE i = Len(frames) + 1
      BY <2>4, <2>6, <2>10, <3>1, <3>3
    <3> QED  BY <1>0, <2>4, <3>2, <3>3
  <2>9. \A i, j \in 1..Len(frames') : i < j => frames'[i].key < frames'[j].key
    BY <1>0, <1>2, <2>4, <2>5
  <2> QED  BY <2>8, <2>9 DEF FramesReserved
<1>5. CASE /\ Len(frames') <= Len(frames)
           /\ \A i \in 1..Len(frames') : frames'[i].key = frames[i].key
  <2>1. ASSUME NEW i \in 1..Len(frames') PROVE Reserved(frames[i].key)'
    <3>0. i \in 1..Len(frames) /\ frames'[i].key = frames[i].key
      BY <1>0, <1>5
    <3>1. PICK d \in DirKeys : d = frames[i].key
      BY <1>1, <3>0
    <3>2. ASSUME FlipAt(d) PROVE FALSE
      <4>1. /\ Len(frames) \in Nat \ {0} /\ d = frames[Len(frames)].key
            /\ Len(frames') = Len(frames) - 1
        BY <1>0, <3>2, FrontFact DEF FlipAt, Passed
      <4>2. i < Len(frames) /\ Len(frames) \in 1..Len(frames)
        BY <1>0, <4>1
      <4>3. frames[i].key < frames[Len(frames)].key
        BY <1>2, <3>0, <4>2
      <4> QED  BY <1>0, <3>1, <4>1, <4>3
    <3>3. jrn'[d] = jrn[d]
      BY <1>0, <1>1, <3>0, <3>1, <3>2, LineStep
    <3>4. Reserved(d)'
      BY <1>1, <1>3, <3>0, <3>1, <3>3
    <3> QED  BY <3>0, <3>1, <3>4
  <2>2. \A i, j \in 1..Len(frames') : i < j => frames'[i].key < frames'[j].key
    BY <1>0, <1>2, <1>5
  <2> QED  BY <2>1, <2>2 DEF FramesReserved
<1> QED
  BY <1>4, <1>5, FrameKinds
\* A drop is final.
LEMMA DropStays ==
  ASSUME IInv, Next, NEW k \in Keys, Dropped(k)
  PROVE  Dropped(k)' /\ jrn'[k] = jrn[k]
BY LineStep, LineFields DEF Dropped

\* Writing a record's drop drops it.
LEMMA WrittenDrop ==
  ASSUME IInv, NEW k \in Keys, rec[k] # None, Write(k, Line("drop", rec[k]))
  PROVE  Dropped(k)'
<1>1. jrn'[k] = Line("drop", rec[k]) /\ Line("drop", rec[k]) \in Lines
  BY LineType DEF Write, IInv, TypeOK, Marks
<1> QED
  BY <1>1, LineFields, NoneAssumption DEF Dropped

\* Marking the innermost frame pins them all.
LEMMA PinnedMarked ==
  ASSUME NEW fs \in Seq(FrameType), frames' = MarkKept(fs)
  PROVE  Pinned'
<1>1. ASSUME NEW i \in 1..Len(frames')
      PROVE  \E j \in 1..Len(frames') : i <= j /\ frames'[j].kept
  <2>1. Len(frames') = Len(fs) /\ Len(fs) \in Nat /\ frames' = MarkKept(fs)
    BY MarkKeptFact
  <2>2. fs # <<>> /\ Len(fs) \in 1..Len(fs) /\ i <= Len(fs)
    BY <1>1, <2>1, EmptySeq
  <2>3. frames'[Len(fs)].kept
    BY <2>1, <2>2, MarkKeptFact
  <2> QED  BY <2>1, <2>2, <2>3
<1> QED
  BY <1>1 DEF Pinned

\* The frames stay, and the records the cursor passes beneath them go.
LEMMA PinnedSame ==
  ASSUME IInv, Next, frames' = frames, Running,
         \A k \in Recorded : k < head' /\ loc[k] = None =>
           \/ k < head
           \/ Dropped(k)'
           \/ \A i \in 1..Len(frames) : ~Below(frames[i].key, k)
  PROVE  Pinned'
<1>0. Recorded' = Recorded /\ loc' = loc /\ Recorded \subseteq Keys /\ (gap => gap')
  BY Moves, WorldSame, Forward DEF world, Recorded
<1>1. SUFFICES ASSUME ~gap', NEW i \in 1..Len(frames), NEW k \in Recorded,
                      Below(frames[i].key, k), k < head', loc[k] = None
               PROVE  \/ Dropped(k)'
                      \/ \E j \in 1..Len(frames) : i < j /\ frames[j].key = k
                      \/ \E j \in 1..Len(frames) : i <= j /\ frames[j].kept
  BY <1>0 DEF Pinned, Below
<1>2. CASE k < head
  BY <1>0, <1>1, <1>2, DropStays DEF IInv, Pinned
<1> QED
  BY <1>1, <1>2

\* A record out of the judged range lies beneath no open frame.
LEMMA OutsideFact ==
  ASSUME IInv, NEW k \in Keys, ~Judged(k)
  PROVE  \A i \in 1..Len(frames) : ~Below(frames[i].key, k)
<1>1. SUFFICES ASSUME NEW i \in 1..Len(frames), Below(frames[i].key, k) PROVE FALSE
  OBVIOUS
<1>2. PICK d \in DirKeys : d = frames[i].key
  BY FramesFact DEF IInv
<1>3. Judged(d)
  BY <1>2 DEF IInv, FramesReserved
<1>4. ~Entry /\ opts.scope = "dir" /\ Below(SubDir, d)
  BY <1>3 DEF Judged
<1>5. LastBeneath[d] <= LastBeneath[SubDir]
  BY <1>4, ScopeAssumption, TreeAssumption
<1>6. Below(SubDir, k)
  BY <1>1, <1>2, <1>4, <1>5, ScopeAssumption, TreeAssumption DEF Below, Keys
<1> QED
  BY <1>4, <1>6 DEF Judged

THEOREM PinnedStep ==
  ASSUME IInv, Next
  PROVE  Pinned'
<1>0. /\ frames \in Seq(FrameType) /\ Len(frames) \in Nat
      /\ \A i \in 1..Len(frames) : frames[i] \in FrameType
      /\ Recorded' = Recorded /\ loc' = loc /\ Recorded \subseteq Keys
      /\ Keys = 1..N /\ N \in Nat /\ DirKeys \subseteq Keys
      /\ head \in 1..(N+1) /\ head' \in 1..(N+1)
  <2>1. Recorded' = Recorded /\ loc' = loc
    BY Moves, WorldSame DEF world
  <2>2. head \in 1..(N+1) /\ head' \in 1..(N+1)
    BY Forward DEF IInv, TypeOK
  <2> QED  BY <2>1, <2>2, FramesFact, TreeAssumption DEF IInv, Recorded, Keys
<1>1. CASE ~Running' \/ gap'
  BY <1>1 DEF Pinned
<1>2. CASE frames' = MarkKept(frames) \/ (Passed /\ frames' = MarkKept(Front(frames)))
  <2>1. CASE frames' = MarkKept(frames)
    BY <1>0, <2>1, PinnedMarked
  <2>2. CASE Passed /\ frames' = MarkKept(Front(frames))
    BY <1>0, <2>2, FrontFact, PinnedMarked DEF Passed
  <2> QED  BY <1>2, <2>1, <2>2
<1>3. CASE AskFrame /\ Flip(Last(frames).key) /\ frames' = Front(frames)
  <2>0. PICK d \in DirKeys : d = Last(frames).key
    BY <1>3, PassedFact DEF AskFrame
  <2>1. /\ Len(frames) \in Nat \ {0} /\ d = frames[Len(frames)].key
        /\ ~frames[Len(frames)].kept
        /\ Len(frames') = Len(frames) - 1
        /\ \A i \in 1..(Len(frames) - 1) : frames'[i] = frames[i]
        /\ head' = head /\ Running /\ ~gap
    BY <1>0, <1>3, <2>0, FrontFact DEF AskFrame, Passed, Allowed
  <2>2. Dropped(d)'
    <3>1. jrn' = [jrn EXCEPT ![d] = Line("drop", rec[d])]
      BY <1>3, <2>0, FlipFact DEF AskFrame
    <3>2. d \in Keys /\ Line("drop", rec[d]) \in Lines
      BY <1>0, <1>3, <2>0, PassedFact, LineType DEF AskFrame, IInv, Recorded, Marks
    <3> QED  BY <3>1, <3>2, LineFields, NoneAssumption DEF Dropped, IInv, TypeOK
  <2>3. ASSUME NEW i \in 1..Len(frames'), NEW k \in Recorded,
               Below(frames[i].key, k), k < head, loc[k] = None
        PROVE  \/ Dropped(k)'
               \/ \E j \in 1..Len(frames') : i < j /\ frames[j].key = k
               \/ \E j \in 1..Len(frames') : i <= j /\ frames[j].kept
    <3>1. i \in 1..Len(frames)
      BY <1>0, <2>1
    <3>2. CASE Dropped(k)
      BY <1>0, <3>2, DropStays
    <3>3. ASSUME NEW j \in 1..Len(frames), i < j, frames[j].key = k
          PROVE  Dropped(k)' \/ \E m \in 1..Len(frames') : i < m /\ frames[m].key = k
      BY <1>0, <2>1, <2>2, <3>3
    <3>4. ASSUME NEW j \in 1..Len(frames), i <= j, frames[j].kept
          PROVE  j \in 1..Len(frames')
      BY <1>0, <2>1, <3>4
    <3> QED  BY <2>1, <2>3, <3>1, <3>2, <3>3, <3>4 DEF IInv, Pinned
  <2>4. \A i \in 1..Len(frames') : frames'[i] = frames[i]
    BY <1>0, <2>1
  <2> QED  BY <1>0, <2>1, <2>3, <2>4 DEF Pinned, Below
<1>4. CASE SkipOutside
  <2>1. RecordMove /\ frames' = frames /\ Running /\ ~Judged(head) /\ head \in Keys
    BY <1>4, AtRecordFact DEF SkipOutside, RecordMove, AtRecord
  <2>2. \A k \in Recorded : k < head' => k < head \/ k = head
    BY <1>0, <2>1, RecordMoveFact
  <2> QED  BY <2>1, <2>2, OutsideFact, PinnedSame
<1>5. CASE RecordMove /\ Drop(head) /\ frames' = frames
  <2>1. PICK h \in Keys : h = head /\ rec[h] # None /\ Running
    BY <1>5, AtRecordFact DEF RecordMove, AtRecord
  <2>2. Dropped(h)'
    BY <1>5, <2>1, WrittenDrop DEF Drop, Emit
  <2>3. \A k \in Recorded : k < head' => k < head \/ k = h
    BY <1>0, <1>5, <2>1, RecordMoveFact
  <2> QED  BY <1>5, <2>1, <2>2, <2>3, PinnedSame
<1>6. CASE OpenFrame
  <2>1. /\ frames' = Append(frames, [key |-> head, kept |-> FALSE])
        /\ RecordMove /\ head \in Keys /\ Running /\ ~gap /\ head \in DirKeys
    BY <1>6, AtRecordFact, WorldFact DEF OpenFrame, RecordMove, AtRecord, IInv
  <2>2. [key |-> head, kept |-> FALSE] \in FrameType
    BY <2>1 DEF FrameType
  <2>3. /\ Len(frames') = Len(frames) + 1
        /\ \A i \in 1..Len(frames) : frames'[i] = frames[i]
        /\ frames'[Len(frames) + 1].key = head
    BY <1>0, <2>1, <2>2, AppendProperties
  <2>4. \A k \in Recorded : k < head' => k < head \/ k = head
    BY <1>0, <2>1, RecordMoveFact
  <2>5. ASSUME NEW i \in 1..Len(frames'), NEW k \in Recorded,
               Below(frames'[i].key, k), k < head', loc[k] = None
        PROVE  \/ Dropped(k)'
               \/ \E j \in 1..Len(frames') : i < j /\ frames'[j].key = k
               \/ \E j \in 1..Len(frames') : i <= j /\ frames'[j].kept
    <3>1. CASE i = Len(frames) + 1
      BY <1>0, <2>1, <2>3, <2>4, <2>5, <3>1 DEF Below
    <3>2. CASE i \in 1..Len(frames) /\ k = head
      BY <1>0, <2>3, <3>2
    <3>3. CASE i \in 1..Len(frames) /\ k < head
      <4>1. Below(frames[i].key, k)
        BY <2>3, <2>5, <3>3
      <4>2. \/ Dropped(k)
            \/ \E j \in 1..Len(frames) : i < j /\ frames[j].key = k
            \/ \E j \in 1..Len(frames) : i <= j /\ frames[j].kept
        BY <2>1, <2>5, <3>3, <4>1 DEF IInv, Pinned
      <4>3. Dropped(k) => Dropped(k)'
        BY <1>0, DropStays
      <4> QED  BY <1>0, <2>3, <4>2, <4>3
    <3> QED  BY <1>0, <2>3, <2>4, <2>5, <3>1, <3>2, <3>3
  <2> QED  BY <1>0, <2>5 DEF Pinned, Below
<1>7. CASE AtPair /\ Consume /\ frames' = frames /\ (loc[next] # None \/ next \notin Recorded)
  <2>1. \A k \in Recorded : k < head' => k < head \/ k = next
    BY <1>0, <1>7, ConsumeFact
  <2> QED  BY <1>7, <2>1, PinnedSame DEF AtPair, Running
<1>8. CASE DeleteOrphan /\ Drop(next) /\ TakesRecord(Old) /\ frames' = frames
  <2>1. AtPair /\ Consume
    BY <1>8 DEF DeleteOrphan, AtOrphan
  <2>2. PICK p \in Keys : p = next /\ rec[p] # None
    BY <1>8, <2>1, AtPairFact DEF TakesRecord
  <2>3. Dropped(p)'
    BY <1>8, <2>2, WrittenDrop DEF Drop, Emit
  <2>4. \A k \in Recorded : k < head' => k < head \/ k = p
    BY <1>0, <2>1, <2>2, ConsumeFact
  <2> QED  BY <1>8, <2>1, <2>3, <2>4, PinnedSame DEF AtPair, Running
<1>9. CASE EndStream \/ Finished
  <2>1. frames' = frames /\ head' = head /\ (Running' => Running)
    BY <1>9 DEF EndStream, Finished, vars, cursor, Running
  <2>2. CASE Running
    BY <2>1, <2>2, PinnedSame
  <2>3. CASE ~Running
    BY <1>1, <2>1, <2>3
  <2> QED  BY <2>2, <2>3
<1>10. CASE KeepFrame \/ RefuseFrame \/ AskFrame
  BY <1>2, <1>3, <1>10 DEF KeepFrame, RefuseFrame, AskFrame
<1>11. CASE QuitFrame \/ QuitRecord \/ QuitOrphan \/ QuitOffer \/ SyncStops
  BY <1>1, <1>11 DEF QuitFrame, QuitRecord, QuitOrphan, QuitOffer, SyncStops, Quit, Running
<1>12. CASE SkipGated \/ SkipKept
  BY <1>2, <1>12 DEF SkipGated, SkipKept, Kept
<1>13. CASE DropStale \/ AskRecord
  BY <1>2, <1>5, <1>13 DEF DropStale, AskRecord, Kept, RecordMove
<1>14. CASE Decide
  BY <1>7, <1>14 DEF Decide
<1>15. CASE RecordTarget
  <2>1. AtPair /\ Consume /\ opts.scope = "target" /\ frames' = frames
    BY <1>15 DEF RecordTarget
  <2>2. loc[next] # None
    BY <2>1, AtPairFact DEF InStream, Walked, Entry
  <2> QED  BY <1>7, <2>1, <2>2
<1>16. CASE KeepOrphan \/ DeleteOrphan
  <2>1. AtPair /\ Consume /\ (Old = None => next \notin Recorded)
    BY <1>16, AtPairFact DEF KeepOrphan, DeleteOrphan, AtOrphan, Recorded
  <2>2. \/ frames' = IF Old # None THEN MarkKept(frames) ELSE frames
        \/ DeleteOrphan /\ Drop(next) /\ TakesRecord(Old) /\ frames' = frames
    BY <1>16 DEF KeepOrphan, DeleteOrphan
  <2> QED  BY <1>2, <1>7, <1>8, <2>1, <2>2
<1>17. CASE Close \/ OfferObject \/ DeleteOffered
  BY <1>1, <1>17 DEF Close, OfferObject, DeleteOffered, Running, cursor
<1> QED
  BY <1>4, <1>6, <1>9, <1>10, <1>11, <1>12, <1>13, <1>14, <1>15, <1>16, <1>17 DEF Next
-----------------------------------------------------------------------------
(* Drops, deletions and answers.                                           *)

\* What is dropped in a step, and by which action.
LEMMA DropKinds ==
  ASSUME IInv, Next, NEW k \in Keys, Dropped(k)', ~Dropped(k)
  PROVE  \/ FlipAt(k) /\ k \in DirKeys
         \/ DropStale /\ k = head
         \/ AskRecord /\ k = head /\ Answered(head, "yes")
         \/ DeleteOrphan /\ k = next /\ TakesRecord(Old)
<1>0. /\ jrn \in [Keys -> Lines \cup {None}] /\ jrn'[k] # None /\ jrn'[k].mark = "drop"
      /\ jrn'[k] # jrn[k]
  BY DEF IInv, TypeOK, Dropped
<1>1. CASE UNCHANGED journal
  BY <1>0, <1>1 DEF journal
<1>2. ASSUME NEW j \in Keys, NEW line, Write(j, line), line.mark # "drop"
      PROVE  FALSE
  BY <1>0, <1>2 DEF Write
<1>3. ASSUME NEW j \in Keys, NEW line, Write(j, line)
      PROVE  k = j
  BY <1>0, <1>3 DEF Write
<1>4. CASE FlipAt(k) /\ k \in DirKeys
  BY <1>4
<1>5. CASE AskFrame
  BY <1>0, <1>5, LineStep DEF AskFrame, NewLineAt, Write, Flip, IInv, TypeOK, Positions
<1>6. CASE DropStale
  BY <1>3, <1>6, AtRecordFact DEF DropStale, Drop, Emit
<1>7. CASE OpenFrame
  BY <1>2, <1>7, AtRecordFact, LineFields DEF OpenFrame
<1>8. CASE AskRecord
  BY <1>1, <1>3, <1>8, AtRecordFact DEF AskRecord, Drop, Emit
<1>9. CASE Decide
  <2>1. WriteNew(Old, next) \/ UNCHANGED journal
    BY <1>9 DEF Decide
  <2> QED  BY <1>1, <1>2, <1>9, <2>1, AtPairFact, LineFields DEF Decide, WriteNew, NewLine
<1>10. CASE RecordTarget
  BY <1>2, <1>10, AtPairFact, LineFields DEF RecordTarget, WriteNew, NewLine
<1>11. CASE DeleteOrphan
  <2>1. UNCHANGED journal \/ (TakesRecord(Old) /\ Drop(next))
    BY <1>11 DEF DeleteOrphan
  <2>2. next \in Keys
    BY <1>11, AtPairFact DEF DeleteOrphan, AtOrphan
  <2> QED  BY <1>1, <1>3, <1>11, <2>1, <2>2 DEF Drop, Emit
<1>12. CASE KeepFrame \/ RefuseFrame \/ QuitFrame \/ SkipOutside \/ SkipGated \/ SkipKept
  BY <1>1, <1>12 DEF KeepFrame, RefuseFrame, QuitFrame, SkipOutside, SkipGated, SkipKept
<1>13. CASE QuitRecord \/ KeepOrphan \/ QuitOrphan \/ EndStream \/ SyncStops \/ Close
  BY <1>1, <1>13 DEF QuitRecord, KeepOrphan, QuitOrphan, EndStream, SyncStops, Close
<1>14. CASE OfferObject \/ QuitOffer \/ DeleteOffered \/ Finished
  BY <1>1, <1>14 DEF OfferObject, QuitOffer, DeleteOffered, Finished, vars
<1> QED
  BY <1>5, <1>6, <1>7, <1>8, <1>9, <1>10, <1>11, <1>12, <1>13, <1>14 DEF Next

\* Nobody is asked about a path that was dropped or condemned.
LEMMA AnswerKinds ==
  ASSUME IInv, Next
  PROVE  \/ UNCHANGED answer
         \/ \E k \in Keys : \E a \in {"yes", "no"} :
              /\ Answered(k, a) /\ ~Dropped(k) /\ k \notin condemned
              /\ ~gap /\ ok
              /\ (Running /\ loc[k] = None) \/ phase = "offer"
<1>00. (Running /\ ~gap => ok) /\ (phase = "offer" => ok)
  BY DEF IInv, GateClosed, OfferMeans
<1>0. \A k \in Keys : k \in condemned => obj[k] # None /\ answer[k] = "yes"
                                        /\ (loc[k] = None => k < next)
  BY DEF IInv, CondemnedMean
<1>1. CASE AskFrame
  <2>1. PICK d \in DirKeys : /\ d = Last(frames).key /\ d \in Keys /\ d \in Recorded
                             /\ jrn[d] = Line("keep", rec[d]) /\ loc[d] = None
    BY <1>1, PassedFact DEF AskFrame
  <2>2. ~Dropped(d) /\ d \notin condemned
    BY <1>0, <2>1, WorldFact, LineFields DEF Dropped, IInv
  <2> QED  BY <1>00, <1>1, <2>1, <2>2 DEF AskFrame, Allowed
<1>2. CASE AskRecord
  <2>1. head \in Keys /\ jrn[head] = None /\ obj[head] = None /\ loc[head] = None
    BY <1>2, AtRecordFact DEF AskRecord
  <2>2. ~Dropped(head) /\ head \notin condemned
    BY <1>0, <2>1 DEF Dropped
  <2> QED  BY <1>00, <1>2, <2>1, <2>2 DEF AskRecord, AtRecord
<1>3. CASE KeepOrphan \/ DeleteOrphan
  <2>1. next \in Keys /\ jrn[next] = None /\ loc[next] = None
    BY <1>3, AtPairFact DEF KeepOrphan, DeleteOrphan, AtOrphan
  <2>2. ~Dropped(next) /\ next \notin condemned
    BY <1>0, <2>1, TreeAssumption DEF Dropped, Keys
  <2> QED  BY <1>00, <1>3, <2>1, <2>2 DEF KeepOrphan, DeleteOrphan, AtOrphan, AtPair, Running, Allowed
<1>4. CASE OfferObject
  <2>1. PICK k \in Keys : /\ k \in spool /\ answer[k] = "none"
                          /\ \/ UNCHANGED answer
                             \/ ~gap /\ \E a \in {"yes", "no"} : Answered(k, a)
    BY <1>4 DEF OfferObject, FirstPending, Pending, Allowed
  <2>2. k \notin condemned
    BY <1>0, <2>1
  <2>3. ~Dropped(k)
    BY <2>1 DEF IInv, SpoolMeans, LinesMean, LineMeans, Dropped
  <2> QED  BY <1>00, <1>4, <2>1, <2>2, <2>3 DEF OfferObject
<1>5. CASE KeepFrame \/ RefuseFrame \/ QuitFrame \/ SkipOutside \/ SkipGated \/ SkipKept
  BY <1>5 DEF KeepFrame, RefuseFrame, QuitFrame, SkipOutside, SkipGated, SkipKept, outcome
<1>6. CASE DropStale \/ OpenFrame \/ QuitRecord \/ Decide \/ RecordTarget \/ QuitOrphan
  BY <1>6 DEF DropStale, OpenFrame, QuitRecord, Decide, RecordTarget, QuitOrphan, outcome
<1>7. CASE EndStream \/ SyncStops \/ Close \/ QuitOffer \/ DeleteOffered \/ Finished
  BY <1>7 DEF EndStream, SyncStops, Close, QuitOffer, DeleteOffered, Finished, vars, outcome
<1> QED
  BY <1>1, <1>2, <1>3, <1>4, <1>5, <1>6, <1>7 DEF Next

\* What is condemned in a step, and by which action.
LEMMA CondemnedKinds ==
  ASSUME IInv, Next
  PROVE  \/ UNCHANGED condemned
         \/ DeleteOrphan
         \/ \E gone \in SUBSET {k \in spool : answer[k] = "yes"} :
              /\ condemned' = condemned \cup gone /\ UNCHANGED <<answer, spool, jrn>>
              /\ phase = "offer"
<1>1. CASE KeepFrame \/ RefuseFrame \/ AskFrame \/ QuitFrame \/ SkipOutside \/ SkipGated
  BY <1>1 DEF KeepFrame, RefuseFrame, AskFrame, QuitFrame, SkipOutside, SkipGated, outcome
<1>2. CASE DropStale \/ SkipKept \/ OpenFrame \/ AskRecord \/ QuitRecord \/ Decide
  BY <1>2 DEF DropStale, SkipKept, OpenFrame, AskRecord, QuitRecord, Decide, outcome
<1>3. CASE RecordTarget \/ KeepOrphan \/ QuitOrphan \/ EndStream \/ SyncStops \/ Close
  BY <1>3 DEF RecordTarget, KeepOrphan, QuitOrphan, EndStream, SyncStops, Close, outcome
<1>4. CASE OfferObject \/ QuitOffer \/ Finished
  BY <1>4 DEF OfferObject, QuitOffer, Finished, vars, outcome
<1>5. CASE DeleteOffered
  <2> DEFINE doomed == {k \in spool : answer[k] = "yes"}
  <2>1. UNCHANGED <<answer, spool, jrn>> /\ phase = "offer"
    BY <1>5 DEF DeleteOffered, journal
  <2>2. \/ condemned' = condemned \cup doomed
        \/ \E gone \in SUBSET doomed : condemned' = condemned \cup gone
    BY <1>5 DEF DeleteOffered
  <2> HIDE DEF doomed
  <2>3. \E gone \in SUBSET doomed : condemned' = condemned \cup gone
    BY <2>2
  <2> QED  BY <2>1, <2>3 DEF doomed
<1> QED
  BY <1>1, <1>2, <1>3, <1>4, <1>5 DEF Next
\* What was condemned stays so, and what was confirmed for it stays confirmed.
LEMMA OutcomeStays ==
  ASSUME IInv, Next, NEW k \in Keys
  PROVE  /\ k \in condemned => k \in condemned'
         /\ Dropped(k) \/ k \in condemned => answer'[k] = answer[k]
<1>1. k \in condemned => k \in condemned'
  BY CondemnedKinds DEF DeleteOrphan
<1>2. ASSUME Dropped(k) \/ k \in condemned PROVE answer'[k] = answer[k]
  <2>1. ASSUME NEW j \in Keys, NEW a, Answered(j, a), ~Dropped(j), j \notin condemned
        PROVE  answer'[k] = answer[k]
    BY <1>2, <2>1 DEF Answered, IInv, TypeOK
  <2> QED  BY <2>1, AnswerKinds
<1> QED
  BY <1>1, <1>2

\* An answer is recorded for the path that was asked about.
LEMMA AnsweredFact ==
  ASSUME IInv, NEW k \in Keys, NEW a, Answered(k, a)
  PROVE  answer'[k] = a
BY DEF Answered, IInv, TypeOK

THEOREM DropsStep ==
  ASSUME IInv, Next
  PROVE  DropsMean'
<1> DEFINE Means(k) ==
      /\ k \notin Hidden
      /\ IF rec[k].kind = "file" THEN obj[k] = None \/ k \in condemned ELSE obj[k] = None
      /\ rec[k].kind # "file" \/ obj[k] # None => opts.delete /\ answer[k] = "yes"
<1>0. /\ Hidden' = Hidden /\ rec' = rec /\ obj' = obj /\ opts' = opts
  BY Moves, WorldSame DEF world
<1> SUFFICES ASSUME NEW k \in Keys, Dropped(k)' PROVE Means(k)'
  BY DEF DropsMean
<1>1. CASE Dropped(k)
  <2>1. Means(k)
    BY <1>1 DEF IInv, DropsMean
  <2> QED  BY <1>0, <1>1, <2>1, OutcomeStays
<1>2. CASE FlipAt(k) /\ k \in DirKeys
  <2>1. k \notin Hidden /\ opts.delete /\ k \in Recorded
    BY <1>2, PassedFact DEF FlipAt
  <2>2. obj[k] = None /\ rec[k].kind = "dir"
    BY <1>2, <2>1, WorldFact DEF IInv, Recorded
  <2>3. answer'[k] = "yes"
    BY <1>2, AnsweredFact DEF FlipAt
  <2> QED  BY <1>0, <2>1, <2>2, <2>3
<1>3. CASE DropStale /\ k = head
  BY <1>0, <1>3, AtRecordFact DEF DropStale
<1>4. CASE AskRecord /\ k = head /\ Answered(head, "yes")
  <2>1. answer'[k] = "yes"
    BY <1>4, AnsweredFact
  <2> QED  BY <1>0, <1>4, <2>1, AtRecordFact DEF AskRecord
<1>5. CASE DeleteOrphan /\ k = next /\ TakesRecord(Old)
  <2>1. answer'[k] = "yes" /\ opts.delete /\ k \in condemned'
    BY <1>5, AnsweredFact DEF DeleteOrphan
  <2>2. rec[k].kind = "file" /\ k \notin Hidden
    BY <1>5, AtPairFact DEF TakesRecord, DeleteOrphan, AtOrphan, Allowed
  <2> QED  BY <1>0, <2>1, <2>2
<1> QED
  BY <1>1, <1>2, <1>3, <1>4, <1>5, DropKinds

THEOREM CondemnedStep ==
  ASSUME IInv, Next
  PROVE  CondemnedMean' /\ condemned' \subseteq Keys
<1>0. /\ Hidden' = Hidden /\ rec' = rec /\ obj' = obj /\ opts' = opts /\ loc' = loc
      /\ next \in Int /\ next' \in Int /\ next <= next' /\ Keys \subseteq Int
      /\ condemned \subseteq Keys /\ spool \subseteq Keys
      /\ \A k \in Keys : Walked(k)' = Walked(k)
  BY Moves, WorldSame, Forward, TreeAssumption DEF world, Keys, IInv, TypeOK
<1> DEFINE Means(k) ==
      /\ Walked(k) /\ obj[k] # None /\ opts.delete /\ answer[k] = "yes"
      /\ loc[k] = None => k < next /\ k \notin Hidden /\ (TakesRecord(rec[k]) => Dropped(k))
<1>1. ASSUME NEW k \in Keys, k \in condemned PROVE Means(k)'
  <2>1. Means(k)
    BY <1>1 DEF IInv, CondemnedMean
  <2>2. answer'[k] = "yes"
    BY <1>1, <2>1, OutcomeStays
  <2>3. k < next => k < next'
    BY <1>0
  <2>4. TakesRecord(rec[k])' <=> TakesRecord(rec[k])
    BY <1>0 DEF TakesRecord
  <2> QED  BY <1>0, <2>1, <2>2, <2>3, <2>4, DropStays
<1>2. CASE DeleteOrphan
  <2>1. /\ condemned' = condemned \cup {next} /\ Answered(next, "yes") /\ ~gap
        /\ opts.delete /\ AtOrphan /\ AtPair /\ NextPair(gap)
        /\ TakesRecord(Old) => Drop(next)
    BY <1>2 DEF DeleteOrphan, AtOrphan, Allowed
  <2>2. PICK p \in Keys : p = next /\ Old = rec[p] /\ p \notin Hidden
    BY <2>1, AtPairFact
  <2>3. Walked(p) /\ obj[p] # None /\ opts.delete /\ answer'[p] = "yes" /\ p < next'
    BY <1>0, <2>1, <2>2, OrphanFact, AnsweredFact, NextPairFact
  <2>4. TakesRecord(rec[p]) => Dropped(p)'
    BY <2>1, <2>2, WrittenDrop DEF TakesRecord, Drop, Emit
  <2>5. TakesRecord(rec[p])' <=> TakesRecord(rec[p])
    BY <1>0 DEF TakesRecord
  <2>6. Means(p)'
    BY <1>0, <2>2, <2>3, <2>4, <2>5
  <2>7. \A k \in condemned' : Means(k)'
    BY <1>0, <1>1, <2>1, <2>2, <2>6
  <2> QED  BY <1>0, <2>1, <2>2, <2>7 DEF CondemnedMean
<1>3. CASE \E gone \in SUBSET {k \in spool : answer[k] = "yes"} :
              condemned' = condemned \cup gone /\ UNCHANGED <<answer, spool, jrn>>
  <2>1. ASSUME NEW k \in spool, answer[k] = "yes", UNCHANGED answer PROVE Means(k)'
    BY <1>0, <2>1 DEF IInv, SpoolMeans
  <2>2. \A k \in condemned' : Means(k)'
    BY <1>0, <1>1, <1>3, <2>1
  <2> QED  BY <1>0, <1>3, <2>2 DEF CondemnedMean
<1>4. CASE UNCHANGED condemned
  BY <1>0, <1>1, <1>4 DEF CondemnedMean
<1> QED
  BY <1>2, <1>3, <1>4, CondemnedKinds

THEOREM PostOrderStep ==
  ASSUME IInv, Next
  PROVE  PostOrder'
<1>0. /\ rec' = rec /\ loc' = loc /\ Keys \subseteq Int /\ DirKeys \subseteq Keys
      /\ \A d \in DirKeys : Beneath(d) \subseteq Keys /\ \A k \in Beneath(d) : Below(d, k)
  BY Moves, TreeAssumption DEF world, Keys, Beneath, Below
<1> SUFFICES ASSUME NEW d \in DirKeys, Dropped(d)', NEW k \in Beneath(d),
                    rec[k] # None, loc[k] = None
             PROVE  Dropped(k)'
  BY <1>0 DEF PostOrder
<1>1. CASE Dropped(d)
  BY <1>0, <1>1, DropStays DEF IInv, PostOrder
<1>2. CASE FlipAt(d)
  <2>1. Running /\ ~gap /\ ~Last(frames).kept /\ frames # <<>> /\ k < head
    BY <1>0, <1>2, PassedFact DEF FlipAt
  <2>2. /\ Len(frames) \in Nat \ {0} /\ d = frames[Len(frames)].key
        /\ ~frames[Len(frames)].kept
    BY <1>2, <2>1, FramesFact, FrontFact DEF FlipAt, IInv
  <2>3. Len(frames) \in 1..Len(frames) /\ k \in Recorded /\ Below(d, k)
    BY <1>0, <2>2 DEF Recorded
  <2>4. Dropped(k)
    BY <2>1, <2>2, <2>3 DEF IInv, Pinned
  <2> QED  BY <1>0, <2>4, DropStays
<1>3. CASE ~Dropped(d) /\ ~FlipAt(d)
  <2>1. d \in Keys /\ (rec[d] # None => rec[d].kind = "dir") /\ obj[d] = None
    BY <1>0, WorldFact DEF IInv
  <2>2. ~(DropStale /\ d = head)
    BY <2>1, AtRecordFact DEF DropStale
  <2>3. ~(AskRecord /\ d = head)
    BY <2>1, AtRecordFact DEF AskRecord
  <2>4. ~(DeleteOrphan /\ d = next)
    BY <2>1, OrphanFact DEF DeleteOrphan
  <2> QED  BY <1>0, <1>3, <2>2, <2>3, <2>4, DropKinds
<1> QED
  BY <1>1, <1>2, <1>3
\* What is offered after the sync, and what is uploaded, came from a pair.
LEMMA SpoolKinds ==
  ASSUME IInv, Next
  PROVE  \/ UNCHANGED <<spool, up>>
         \/ /\ AtPair /\ up' \subseteq up \cup {next}
            /\ \/ spool' = spool
               \/ /\ spool' = spool \cup {next} /\ loc[next] # None
                  /\ \E v : ShieldsObject(loc[next], obj[next], opts, v)
                  /\ ~(opts.scope = "target" /\ next = SubFile)
<1>1. CASE KeepFrame \/ RefuseFrame \/ AskFrame \/ QuitFrame \/ SkipOutside \/ SkipGated
  BY <1>1 DEF KeepFrame, RefuseFrame, AskFrame, QuitFrame, SkipOutside, SkipGated, outcome
<1>2. CASE DropStale \/ SkipKept \/ OpenFrame \/ AskRecord \/ QuitRecord
  BY <1>2 DEF DropStale, SkipKept, OpenFrame, AskRecord, QuitRecord, outcome
<1>3. CASE KeepOrphan \/ DeleteOrphan \/ QuitOrphan \/ EndStream \/ SyncStops \/ Close
  BY <1>3 DEF KeepOrphan, DeleteOrphan, QuitOrphan, EndStream, SyncStops, Close, outcome
<1>4. CASE OfferObject \/ QuitOffer \/ DeleteOffered \/ Finished
  BY <1>4 DEF OfferObject, QuitOffer, DeleteOffered, Finished, vars, outcome
<1>5. CASE RecordTarget
  BY <1>5 DEF RecordTarget
<1>6. CASE Decide
  <2> DEFINE v == Verdict(Old, loc[next], obj[next], opts, next \in blind)
  <2>1. /\ AtPair /\ loc[next] # None /\ ~(opts.scope = "target" /\ next = SubFile)
        /\ up' = IF v.copy THEN up \cup {next} ELSE up
        /\ spool' = IF ShieldsObject(loc[next], obj[next], opts, v)
                    THEN spool \cup {next} ELSE spool
    BY <1>6 DEF Decide
  <2> HIDE DEF v
  <2> QED  BY <2>1
<1> QED
  BY <1>1, <1>2, <1>3, <1>4, <1>5, <1>6 DEF Next

THEOREM SpoolStep ==
  ASSUME IInv, Next
  PROVE  SpoolMeans' /\ spool' \subseteq Keys /\ up' \subseteq Keys
<1>0. /\ Stream' = Stream /\ loc' = loc /\ obj' = obj /\ opts' = opts
      /\ \A k \in Keys : Walked(k)' = Walked(k)
      /\ spool \subseteq Keys /\ up \subseteq Keys /\ SpoolMeans /\ Stream \subseteq Keys
  BY Moves, WorldSame DEF world, IInv, TypeOK, Stream
<1> DEFINE Means(k) == loc[k] # None /\ obj[k] # None /\ opts.delete /\ Walked(k)
<1>1. \A k \in Keys : Means(k)' <=> Means(k)
  BY <1>0
<1>2. \A k \in spool : Means(k)
  BY <1>0 DEF SpoolMeans
<1>3. AtPair => next \in Keys /\ next \in Stream
  BY AtPairFact
<1>4. ASSUME AtPair, loc[next] # None, ~(opts.scope = "target" /\ next = SubFile),
             NEW v, ShieldsObject(loc[next], obj[next], opts, v)
      PROVE  Means(next)
  <2>1. obj[next] # None /\ opts.delete
    BY <1>4 DEF ShieldsObject
  <2>2. next \notin DirKeys
    BY <1>3, <1>4, <2>1, WorldFact DEF IInv
  <2>3. ~Named(next)
    BY <1>4, <2>2, ScopeAssumption, TreeAssumption DEF Named
  <2> QED  BY <1>4, <2>1, <2>3, AtPairFact DEF InStream
<1>5. /\ spool' \subseteq Keys /\ \A k \in spool' : Means(k)
      /\ up' \subseteq Keys /\ up' \subseteq Stream
  <2>1. CASE UNCHANGED <<spool, up>>
    BY <1>0, <1>2, <2>1 DEF SpoolMeans
  <2>2. CASE AtPair /\ up' \subseteq up \cup {next}
    BY <1>0, <1>2, <1>3, <1>4, <2>2, SpoolKinds DEF SpoolMeans
  <2> QED  BY <2>1, <2>2, SpoolKinds
<1>6. \A k \in spool' : Means(k)'
  BY <1>1, <1>5
<1> QED
  BY <1>0, <1>5, <1>6 DEF SpoolMeans

\* The two sets that only reporting reads.
LEMMA ReportType ==
  ASSUME IInv, Next
  PROVE  refused' \subseteq Keys /\ warned' \subseteq Keys
<1>0. /\ refused \subseteq Keys /\ warned \subseteq Keys
      /\ AtPair => next \in Keys
      /\ AtRecord => head \in Keys
      /\ Passed => Last(frames).key \in Keys
  BY AtPairFact, AtRecordFact, PassedFact DEF IInv, TypeOK
<1>1. CASE KeepFrame \/ RefuseFrame \/ AskFrame \/ QuitFrame \/ SkipOutside \/ SkipGated
  BY <1>0, <1>1 DEF KeepFrame, RefuseFrame, AskFrame, QuitFrame, SkipOutside, SkipGated,
     Refuse, outcome
<1>2. CASE DropStale \/ SkipKept \/ OpenFrame \/ AskRecord \/ QuitRecord
  BY <1>0, <1>2 DEF DropStale, SkipKept, OpenFrame, AskRecord, QuitRecord, outcome
<1>3. CASE KeepOrphan \/ DeleteOrphan \/ QuitOrphan \/ EndStream \/ SyncStops \/ Close
  BY <1>0, <1>3 DEF KeepOrphan, DeleteOrphan, QuitOrphan, AtOrphan, EndStream, SyncStops,
     Close, Refuse, outcome
<1>4. CASE OfferObject \/ QuitOffer \/ DeleteOffered \/ Finished
  BY <1>0, <1>4 DEF OfferObject, QuitOffer, DeleteOffered, Finished, Refuse, vars, outcome
<1>5. CASE RecordTarget \/ Decide
  BY <1>0, <1>5 DEF RecordTarget, Decide
<1> QED
  BY <1>1, <1>2, <1>3, <1>4, <1>5 DEF Next

THEOREM TypeStep ==
  ASSUME IInv, Next
  PROVE  TypeOK'
<1>1. WellFormed([rec |-> rec, loc |-> loc, obj |-> obj, blind |-> blind, opts |-> opts])'
  <2>1. rec' = rec /\ loc' = loc /\ obj' = obj /\ blind' = blind /\ opts' = opts
    BY Moves DEF world
  <2> QED  BY <2>1 DEF IInv, TypeOK
<1>2. answer' \in [Keys -> Outcomes]
  BY AnswerKinds DEF Answered, Outcomes, IInv, TypeOK
<1>3. frames' \in Seq([key : DirKeys, kept : BOOLEAN])
  BY FrameKinds DEF FrameType
<1> QED
  BY <1>1, <1>2, <1>3, Forward, PositionsStep, CondemnedStep, SpoolStep, ReportType DEF TypeOK

THEOREM OfferStep ==
  ASSUME IInv, Next
  PROVE  OfferMeans'
<1>0. loc' = loc
  BY Moves DEF world
<1>1. phase' = "offer" => ok'
  <2>1. CASE Still
    BY <2>1 DEF Still, IInv, OfferMeans
  <2>2. CASE RecordMove \/ PairMove \/ Stop
    BY <2>2 DEF RecordMove, PairMove, Stop, AtRecord, AtPair, Running
  <2>3. CASE Wind
    BY <2>3 DEF Wind
  <2> QED  BY <2>1, <2>2, <2>3, Moves
<1>2. Running' \/ gap' => Running \/ gap
  <2>1. CASE Still \/ Wind
    BY <2>1 DEF Still, Wind, Running
  <2>2. CASE RecordMove \/ PairMove \/ Stop
    BY <2>2 DEF RecordMove, PairMove, Stop, AtRecord, AtPair, Running
  <2> QED  BY <2>1, <2>2, Moves
<1>3. ASSUME Running \/ gap, NEW k \in Keys, loc[k] # None
      PROVE  answer'[k] = "none"
  <2>1. answer[k] = "none"
    BY <1>3 DEF IInv, OfferMeans
  <2>2. ASSUME NEW j \in Keys, NEW a, Answered(j, a), ~gap,
               (Running /\ loc[j] = None) \/ phase = "offer"
        PROVE  answer'[k] = answer[k]
    <3>1. j # k
      BY <1>3, <2>2 DEF Running
    <3> QED  BY <2>2, <3>1 DEF Answered, IInv, TypeOK
  <2> QED  BY <2>1, <2>2, AnswerKinds
<1> QED
  BY <1>0, <1>1, <1>2, <1>3 DEF OfferMeans

-----------------------------------------------------------------------------
(* The invariant.                                                          *)

THEOREM InvInit == Init => IInv
<1> SUFFICES ASSUME Init PROVE IInv
  OBVIOUS
<1>1. /\ jrn = [k \in Keys |-> None] /\ tail = 0 /\ frames = <<>> /\ condemned = {}
      /\ spool = {} /\ up = {} /\ ok = TRUE /\ phase = "stream"
      /\ next \in NextOf(Stream, 0) /\ head \in NextOf(Recorded, 0)
  BY DEF Init
<1>2. \A k \in Keys : jrn[k] = None
  BY <1>1
<1>3. Positions
  BY <1>1, <1>2, NextOfFact, TreeAssumption DEF Positions, Keys
<1>4. Lockstep
  BY <1>1, NextOfFact, TreeAssumption DEF Lockstep, Recorded, Stream, Keys
<1>5. GateClosed
  <2>1. PICK r \in next..(N+1) : gap = \E h \in Hidden : h <= r
    BY DEF Init
  <2>2. \A k \in Hidden : k <= next => k <= r
    BY <1>1, <2>1, NextOfFact, TreeAssumption DEF Hidden, Keys
  <2> QED  BY <1>1, <2>1, <2>2 DEF GateClosed
<1>6. FramesReserved /\ Pinned
  BY <1>1 DEF FramesReserved, Pinned
<1>7. LinesMean /\ DropsMean /\ CondemnedMean /\ SpoolMeans /\ EventsCount /\ PostOrder
  BY <1>1, <1>2, TreeAssumption DEF LinesMean, DropsMean, CondemnedMean, SpoolMeans,
     EventsCount, PostOrder, Dropped
<1>8. OfferMeans
  BY <1>1, TypeInit DEF OfferMeans, Init
<1> QED
  BY <1>3, <1>4, <1>5, <1>6, <1>7, <1>8, TypeInit DEF IInv

THEOREM InvStep == IInv /\ [Next]_vars => IInv'
<1>1. ASSUME IInv, Next PROVE IInv'
  BY <1>1, TypeStep, PositionsStep, LockstepStep, GateStep, FramesStep, PinnedStep, LinesStep,
     DropsStep, CondemnedStep, SpoolStep, PostOrderStep, OfferStep DEF IInv
<1>2. ASSUME IInv, UNCHANGED vars PROVE IInv'
  <2>1. IInv' <=> IInv
    BY <1>2 DEF vars, world, cursor, journal, outcome, IInv, TypeOK, Positions, Lockstep,
       GateClosed, FramesReserved, Pinned, LinesMean, LineMeans, DropsMean, CondemnedMean,
       SpoolMeans, EventsCount, OfferMeans, PostOrder, Dropped, Recorded, Stream, Hidden, InStream, Walked,
       Named, Judged, Entry, Running
  <2> QED  BY <1>2, <2>1
<1> QED
  BY <1>1, <1>2

\* The inductive invariant holds in every reachable state.
THEOREM Inductive == Spec => []IInv
BY InvInit, InvStep, PTL DEF Spec

-----------------------------------------------------------------------------
(* State properties.                                                       *)

\* The variables of a push keep their types.
THEOREM TypeCorrect == Spec => []TypeOK
<1>1. IInv => TypeOK
  BY DEF IInv
<1> QED
  BY <1>1, Inductive, PTL

\* merge_journal accepts every journal a push can leave, at every moment.
THEOREM MergeNeverFails == Spec => []MergeAccepts
<1>1. IInv => MergeAccepts
  BY DEF IInv, LinesMean, LineMeans, MergeAccepts, Recorded
<1> QED
  BY <1>1, Inductive, PTL

\* A path the walk could not show keeps its record and its object.
THEOREM HiddenIsSafe == Spec => []HiddenSurvives
<1>1. IInv => HiddenSurvives
  BY DEF IInv, DropsMean, CondemnedMean, HiddenSurvives, Hidden
<1> QED
  BY <1>1, Inductive, PTL

\* File records and their objects are deleted together.
THEOREM RecordsFollowObjects == Spec => []TravelTogether
<1>1. IInv => TravelTogether
  <2> SUFFICES ASSUME IInv, NEW k \in Keys, rec[k] # None, loc[k] = None
               PROVE  IF rec[k].kind = "file"
                      THEN /\ Dropped(k) => obj[k] = None \/ k \in condemned
                           /\ k \in condemned => Dropped(k)
                      ELSE Dropped(k) => obj[k] = None
    BY DEF TravelTogether
  <2> QED
    BY DEF IInv, DropsMean, CondemnedMean, TakesRecord
<1> QED
  BY <1>1, Inductive, PTL

\* A directory record goes after everything beneath it that is not there.
THEOREM DirectoriesLast == Spec => []PostOrder
<1>1. IInv => PostOrder
  BY DEF IInv
<1> QED
  BY <1>1, Inductive, PTL

\* Nothing but a stale file record goes unless --delete and a y say so.
THEOREM NothingUnconfirmed == Spec => []Confirmed
<1>1. IInv => Confirmed
  <2> SUFFICES ASSUME IInv, NEW k \in Keys
               PROVE  /\ k \in condemned => opts.delete /\ answer[k] = "yes"
                      /\ Dropped(k) => loc[k] = None
                      /\ Dropped(k) /\ (rec[k].kind # "file" \/ obj[k] # None) =>
                           opts.delete /\ answer[k] = "yes"
    BY DEF Confirmed
  <2>1. Dropped(k) => loc[k] = None
    BY DEF IInv, LinesMean, LineMeans, Dropped
  <2> QED
    BY <2>1 DEF IInv, DropsMean, CondemnedMean
<1> QED
  BY <1>1, Inductive, PTL

\* A push that counts no event has nothing to write to the manifest.
THEOREM NoEventNoWrite == Spec => []NoEventNoChange
<1>1. IInv => NoEventNoChange
  <2> SUFFICES ASSUME IInv, events = 0, NEW k \in Keys
               PROVE  Merged(k) = rec[k]
    BY DEF NoEventNoChange
  <2> QED
    BY DEF IInv, EventsCount, Merged
<1> QED
  BY <1>1, Inductive, PTL

\* A sub-path push stays within the named path and its ancestors.
THEOREM SubPathStaysInside == Spec => []SubPathConfined
<1>1. IInv => SubPathConfined
  <2> SUFFICES ASSUME IInv, NEW k \in Keys, ~Walked(k), ~Named(k)
               PROVE  Merged(k) = rec[k] /\ k \notin up /\ k \notin condemned
    BY DEF SubPathConfined, Walked
  <2>1. ~InStream(k) /\ ~Judged(k)
    BY DEF InStream, Judged, Walked
  <2>2. jrn[k] = None
    BY <2>1 DEF IInv, LinesMean, LineMeans
  <2>3. k \notin up /\ k \notin condemned
    BY <2>1 DEF IInv, SpoolMeans, CondemnedMean, Stream
  <2> QED
    BY <2>2, <2>3 DEF Merged
<1> QED
  BY <1>1, Inductive, PTL

-----------------------------------------------------------------------------
(* Action properties.                                                      *)

\* The journal is written once, in order, and only its reserved lines flip.
THEOREM JournalInOrder == Spec => JournalAscends
<1> DEFINE Ascends == \A k \in Keys : jrn'[k] # jrn[k] =>
       \/ jrn[k] = None /\ tail < k /\ tail' = k
       \/ jrn[k] # None /\ jrn[k].mark = "keep" /\ jrn'[k] = Line("drop", jrn[k].entry)
<1>1. ASSUME IInv, Next PROVE Ascends
  <2> USE <1>1
  <2> SUFFICES ASSUME NEW k \in Keys, jrn'[k] # jrn[k]
               PROVE  \/ jrn[k] = None /\ tail < k /\ tail' = k
                      \/ /\ jrn[k] # None /\ jrn[k].mark = "keep"
                         /\ jrn'[k] = Line("drop", jrn[k].entry)
    OBVIOUS
  <2>1. CASE jrn[k] = None /\ NewLineAt(k, jrn'[k])
    BY <2>1 DEF NewLineAt, Write
  <2>2. CASE FlipAt(k) /\ jrn[k] = Line("keep", rec[k]) /\ jrn'[k] = Line("drop", rec[k])
    <3>1. rec[k] # None
      BY <2>2, PassedFact DEF FlipAt, Recorded
    <3>2. Line("keep", rec[k]) \in Lines
      BY <3>1, LineType DEF IInv, Marks
    <3> QED  BY <2>2, <3>2, LineFields, NoneAssumption
  <2> QED  BY <2>1, <2>2, LineStep
<1>2. ASSUME UNCHANGED vars PROVE Ascends
  BY <1>2 DEF vars, journal
<1>3. IInv /\ [Next]_vars => [Ascends]_vars
  BY <1>1, <1>2
<1> QED
  BY <1>3, Inductive, PTL DEF Spec, JournalAscends

\* After a gap or a failure, no question, no drop and no deletion.
THEOREM GapIsFinal == Spec => GapFreezesDeletes
<1> DEFINE Frozen == gap \/ ~ok =>
       /\ answer' = answer
       /\ \A k \in Keys : /\ Dropped(k)' => Dropped(k)
                         /\ k \in condemned' => k \in condemned
<1>1. ASSUME IInv, Next PROVE Frozen
  <2> USE <1>1
  <2> SUFFICES ASSUME gap \/ ~ok
               PROVE  /\ answer' = answer
                      /\ \A k \in Keys : /\ Dropped(k)' => Dropped(k)
                                        /\ k \in condemned' => k \in condemned
    OBVIOUS
  <2>1. (Running => gap) /\ (phase = "offer" => gap)
    BY DEF IInv, GateClosed, OfferMeans
  <2>2. answer' = answer
    BY <2>1, AnswerKinds
  <2>3. ASSUME NEW k \in Keys, Dropped(k)' PROVE Dropped(k)
    <3>1. ~FlipAt(k) /\ ~DropStale /\ ~AskRecord /\ ~DeleteOrphan
      BY <2>1 DEF FlipAt, DropStale, AskRecord, AtRecord, DeleteOrphan, AtOrphan, AtPair,
         Running, Allowed
    <3> QED  BY <2>3, <3>1, DropKinds
  <2>4. ASSUME NEW k \in Keys, k \in condemned' PROVE k \in condemned
    <3>1. ~DeleteOrphan
      BY <2>1 DEF DeleteOrphan, AtOrphan, AtPair, Running, Allowed
    <3>2. phase = "offer" => {j \in spool : answer[j] = "yes"} = {}
      BY <2>1 DEF IInv, OfferMeans, SpoolMeans, TypeOK
    <3> QED  BY <2>4, <3>1, <3>2, CondemnedKinds
  <2> QED  BY <2>2, <2>3, <2>4
<1>2. ASSUME UNCHANGED vars PROVE Frozen
  BY <1>2 DEF vars, journal, outcome, Dropped
<1>3. IInv /\ [Next]_vars => [Frozen]_vars
  BY <1>1, <1>2
<1> QED
  BY <1>3, Inductive, PTL DEF Spec, GapFreezesDeletes
-----------------------------------------------------------------------------
(* Under -u the newer side wins.                                           *)

\* A record that is newer than the item beside it, with something behind it.
Newer(k) ==
  /\ opts.update /\ Walked(k) /\ loc[k] # None /\ rec[k] # None
  /\ OrderedSide(rec[k], loc[k]) = "record"
  /\ obj[k] # None \/ rec[k].kind # "file"

NewerInv ==
  /\ \A k \in Keys : Newer(k) => jrn[k] = None /\ k \notin up /\ k \notin spool
  /\ \A k \in condemned : loc[k] # None => k \in spool

\* The verdict on such a pair neither records nor uploads, nor offers its
\* object for deletion.
LEMMA NewerVerdict ==
  ASSUME NEW old, NEW item, NEW o_, NEW o, NEW b, o.update, old # None,
         OrderedSide(old, item) = "record", o_ # None \/ old.kind # "file"
  PROVE  LET v == Verdict(old, item, o_, o, b) IN
         ~v.emit /\ ~v.copy /\ ~ShieldsObject(item, o_, o, v)
<1> DEFINE Quiet(v) == ~v.emit /\ ~v.copy
<1>1. Quiet(Leave) /\ Quiet(Unseen) /\ \A w : Quiet(Conflict(w))
  BY DEF Leave, Unseen, Conflict, Says
<1> HIDE DEF Quiet
<1>2. Quiet(NonFile(old, item, o, b))
  BY <1>1 DEF NonFile
<1>3. old.kind # "file" => Quiet(CreateFile(old, item, o, b))
  BY <1>1 DEF CreateFile
<1>4. Quiet(NewerFile(old, item, o_, o, b))
  BY <1>1 DEF NewerFile
<1>5. Quiet(Verdict(old, item, o_, o, b))
  BY <1>2, <1>3, <1>4 DEF Verdict
<1> QED
  BY <1>5 DEF Quiet, ShieldsObject

\* Where something is there, only the decision on its pair has an effect.
LEMMA PairEffects ==
  ASSUME IInv, Next, NEW k \in Keys, loc[k] # None,
         \/ jrn'[k] # jrn[k]
         \/ k \in up' /\ k \notin up
         \/ k \in spool' /\ k \notin spool
  PROVE  \/ RecordTarget /\ k = next
         \/ /\ Decide /\ k = next
            /\ LET v == Verdict(Old, loc[k], obj[k], opts, k \in blind) IN
               v.emit \/ v.copy \/ ShieldsObject(loc[k], obj[k], opts, v)
<1>1. ASSUME UNCHANGED journal, UNCHANGED <<up, spool>> PROVE FALSE
  BY <1>1 DEF journal
<1>2. ASSUME NEW j \in Keys, NEW line, Write(j, line), UNCHANGED <<up, spool>>
      PROVE  k = j
  BY <1>2 DEF Write, IInv, TypeOK
<1>3. CASE KeepFrame \/ RefuseFrame \/ QuitFrame \/ SkipOutside \/ SkipGated \/ SkipKept
  BY <1>1, <1>3 DEF KeepFrame, RefuseFrame, QuitFrame, SkipOutside, SkipGated, SkipKept, outcome
<1>4. CASE QuitRecord \/ KeepOrphan \/ QuitOrphan \/ EndStream \/ SyncStops \/ Close
  BY <1>1, <1>4 DEF QuitRecord, KeepOrphan, QuitOrphan, EndStream, SyncStops, Close, outcome
<1>5. CASE OfferObject \/ QuitOffer \/ DeleteOffered \/ Finished
  BY <1>1, <1>5 DEF OfferObject, QuitOffer, DeleteOffered, Finished, vars, outcome
<1>6. CASE AskFrame
  <2>1. UNCHANGED <<up, spool>>
    BY <1>6 DEF AskFrame
  <2>2. CASE UNCHANGED <<jrn, events>>
    BY <2>1, <2>2
  <2>3. CASE Flip(Last(frames).key)
    BY <1>6, <2>1, <2>3, PassedFact, FlipFact DEF AskFrame, IInv, TypeOK
  <2> QED  BY <1>6, <2>2, <2>3 DEF AskFrame
<1>7. CASE DropStale \/ OpenFrame \/ AskRecord
  <2>1. UNCHANGED <<up, spool>> /\ AtRecord /\ Judged(head) /\ ~gap
    BY <1>7 DEF DropStale, OpenFrame, AskRecord, outcome
  <2>2. UNCHANGED journal \/ \E line : Write(head, line)
    BY <1>7 DEF DropStale, OpenFrame, AskRecord, Drop, Emit
  <2> QED  BY <1>1, <1>2, <2>1, <2>2, AtRecordFact
<1>8. CASE DeleteOrphan
  <2>1. UNCHANGED <<up, spool>> /\ AtPair /\ loc[next] = None
    BY <1>8 DEF DeleteOrphan, AtOrphan
  <2>2. UNCHANGED journal \/ \E line : Write(next, line)
    BY <1>8 DEF DeleteOrphan, Drop, Emit
  <2> QED  BY <1>1, <1>2, <2>1, <2>2, AtPairFact
<1>9. CASE RecordTarget
  <2>1. AtPair /\ WriteNew(Old, next) /\ up' \subseteq up \cup {next} /\ spool' = spool
    BY <1>9 DEF RecordTarget
  <2>2. k = next
    BY <2>1, AtPairFact DEF WriteNew, Write, IInv, TypeOK
  <2> QED  BY <1>9, <2>2
<1>10. CASE Decide
  <2> DEFINE v == Verdict(Old, loc[next], obj[next], opts, next \in blind)
             s == ShieldsObject(loc[next], obj[next], opts, v)
  <2>1. /\ AtPair
        /\ IF v.emit THEN WriteNew(Old, next) ELSE UNCHANGED journal
        /\ up' = IF v.copy THEN up \cup {next} ELSE up
        /\ spool' = IF s THEN spool \cup {next} ELSE spool
    BY <1>10 DEF Decide
  <2> HIDE DEF v, s
  <2>2. k = next /\ (v.emit \/ v.copy \/ s)
    BY <2>1, AtPairFact DEF WriteNew, Write, journal, IInv, TypeOK
  <2> QED  BY <1>10, <2>2 DEF v, s
<1> QED
  BY <1>3, <1>4, <1>5, <1>6, <1>7, <1>8, <1>9, <1>10 DEF Next

LEMMA NewerStep ==
  ASSUME IInv, NewerInv, Next
  PROVE  NewerInv'
<1>0. /\ rec' = rec /\ loc' = loc /\ obj' = obj /\ opts' = opts
      /\ \A k \in Keys : Walked(k)' = Walked(k)
      /\ condemned \subseteq Keys /\ spool \subseteq Keys
  BY Moves, WorldSame DEF world, IInv, TypeOK
<1>1. ASSUME NEW k \in Keys, Newer(k)
      PROVE  jrn'[k] = None /\ k \notin up' /\ k \notin spool'
  <2>1. /\ opts.update /\ Walked(k) /\ loc[k] # None /\ rec[k] # None
        /\ OrderedSide(rec[k], loc[k]) = "record" /\ (obj[k] # None \/ rec[k].kind # "file")
    BY <1>1 DEF Newer
  <2>2. jrn[k] = None /\ k \notin up /\ k \notin spool
    BY <1>1 DEF NewerInv
  <2>3. ~(RecordTarget /\ k = next)
    BY <2>1 DEF RecordTarget, Walked, Entry
  <2>4. Decide /\ k = next => Old = rec[k]
    BY AtPairFact DEF Decide
  <2>5. ~(LET v == Verdict(rec[k], loc[k], obj[k], opts, k \in blind) IN
          v.emit \/ v.copy \/ ShieldsObject(loc[k], obj[k], opts, v))
    BY <2>1, NewerVerdict
  <2> QED  BY <2>1, <2>2, <2>3, <2>4, <2>5, PairEffects
<1>2. \A k \in Keys : Newer(k)' <=> Newer(k)
  BY <1>0 DEF Newer
<1>3. spool \subseteq spool'
  BY SpoolKinds
<1>4. \A k \in condemned' : loc[k] # None => k \in spool'
  <2>1. CASE UNCHANGED condemned
    BY <1>3, <2>1 DEF NewerInv
  <2>2. CASE DeleteOrphan
    BY <1>3, <2>2 DEF NewerInv, DeleteOrphan, AtOrphan
  <2>3. CASE \E gone \in SUBSET {k \in spool : answer[k] = "yes"} :
                condemned' = condemned \cup gone
    BY <1>3, <2>3 DEF NewerInv
  <2> QED  BY <2>1, <2>2, <2>3, CondemnedKinds
<1> QED
  BY <1>0, <1>1, <1>2, <1>4 DEF NewerInv

\* Under -u a record newer than the local side, with something behind it,
\* keeps its line and its object: the newer side wins.
THEOREM NewerSideWins == Spec => []NewerBackupKept
<1>1. Init => NewerInv
  BY DEF Init, NewerInv
<1>2. IInv /\ NewerInv /\ [Next]_vars => NewerInv'
  <2>1. ASSUME NewerInv, UNCHANGED vars PROVE NewerInv'
    BY <2>1 DEF vars, world, journal, outcome, NewerInv, Newer, Walked, Entry
  <2> QED  BY <2>1, NewerStep
<1>3. IInv /\ NewerInv => NewerBackupKept
  <2> SUFFICES ASSUME IInv, NewerInv, NEW k \in Keys, Newer(k)
               PROVE  Merged(k) = rec[k] /\ k \notin up /\ k \notin condemned
    BY DEF NewerBackupKept, Newer
  <2> QED
    BY DEF NewerInv, Newer, Merged
<1> QED
  BY <1>1, <1>2, <1>3, Inductive, PTL DEF Spec
=============================================================================
