-------------------------- MODULE PushDecided_proofs --------------------------
(***************************************************************************)
(* What a push that ran to its end has settled: nothing the stream came to *)
(* was left undecided.  The invariant of PushJournal_proofs says what a    *)
(* line, a deletion or an answer implies; the one here says the converse,  *)
(* that everything behind the cursor and the stream has had its line, its  *)
(* upload, its answer or its refusal.                                      *)
(***************************************************************************)
EXTENDS PushJournal_proofs

-----------------------------------------------------------------------------
(* The verdicts, as functions of a pair.                                   *)

\* The items of the world have what ItemAssumption says.
LEMMA ItemFact ==
  ASSUME TypeOK, NEW k \in Keys, loc[k] # None
  PROVE  /\ loc[k].kind \in Kinds
         /\ loc[k].mtime \in Int /\ loc[k].mtime # NoMtime
         /\ loc[k].kind = "file" => loc[k].data # None
<1>1. loc[k] \in Items
  BY DEF TypeOK, WellFormed, WorldType
<1> QED
  BY <1>1, ItemAssumption, NoneAssumption

\* The record of an item is within the window of that item, mode and all.
LEMMA RecordedAsIs ==
  ASSUME NEW i, i.kind \in Kinds, i.mtime \in Int, i.mtime # NoMtime
  PROVE  LET r == RecordOf(i) IN
         /\ r.kind = i.kind /\ r.mode = i.mode
         /\ r.what = IF i.kind = "file" THEN SizeOf[i.data] ELSE i.data
         /\ Within(r, i) /\ ~ModeDiffers(r, i)
         /\ OrderedSide(r, i) = "tie"
         /\ ~StatusShows(r, i)
<1>1. RecordOf(i).mtime = i.mtime /\ RecordOf(i).kind = i.kind /\ RecordOf(i).mode = i.mode
  BY DEF RecordOf
<1>2. RecordOf(i).what = IF i.kind = "file" THEN SizeOf[i.data] ELSE i.data
  BY DEF RecordOf
<1>3. Drift(i.mtime, i.mtime) <= Window
  BY ItemAssumption DEF Drift
<1>4. Within(RecordOf(i), i)
  BY <1>1, <1>3 DEF Within
<1>5. ~ModeDiffers(RecordOf(i), i)
  BY <1>1 DEF ModeDiffers
<1>6. OrderedSide(RecordOf(i), i) = "tie"
  BY <1>1, <1>3 DEF OrderedSide, NewerSide
<1>7. ~StatusShows(RecordOf(i), i)
  BY <1>1, <1>2, <1>4, <1>5 DEF StatusShows, MtimeShown
<1> QED
  BY <1>1, <1>2, <1>4, <1>5, <1>6, <1>7

\* A side is one of three.
LEMMA Sides == \A e, i : OrderedSide(e, i) \in {"tie", "local", "record"}
BY DEF OrderedSide, NewerSide

\* The fields of a verdict.
LEMMA SaysFields ==
  \A e, c, g, w : /\ Says(e, c, g, w).emit = e /\ Says(e, c, g, w).copy = c
                  /\ Says(e, c, g, w).gap = g /\ Says(e, c, g, w).conflict = w
BY DEF Says

\* What the constant verdicts say.
LEMMA Verdicts ==
  /\ ~Leave.emit /\ ~Leave.copy /\ ~Leave.gap /\ ~Leave.conflict
  /\ Unseen.gap
  /\ Refresh.emit /\ ~Refresh.copy /\ ~Refresh.gap
  /\ Upload.emit /\ Upload.copy /\ ~Upload.gap
  /\ \A w : /\ ~Conflict(w).emit /\ ~Conflict(w).copy /\ ~Conflict(w).gap
            /\ Conflict(w).conflict = w
BY DEF Leave, Unseen, Refresh, Upload, Conflict, Says

\* What each lane of the verdict can say, and when.
LEMMA NonFileOutcomes ==
  ASSUME NEW old, NEW item, NEW o_, NEW o, NEW b, item.kind # "file"
  PROVE  LET v == Verdict(old, item, o_, o, b) IN
         \/ v = Unseen
         \/ v = Refresh
         \/ v = Leave /\ old # None /\ ~o.update /\ ~NonFileChanged(old, item)
         \/ v = Leave /\ old # None /\ o.update /\ OrderedSide(old, item) = "record"
         \/ /\ v = Conflict(TieConflict(old, item, FALSE))
            /\ old # None /\ o.update /\ OrderedSide(old, item) = "tie"
<1>1. Verdict(old, item, o_, o, b) = NonFile(old, item, o, b)
  BY DEF Verdict
<1>2. CASE item.kind = "link" /\ b
  BY <1>1, <1>2 DEF NonFile
<1>3. CASE ~(item.kind = "link" /\ b) /\ old = None
  BY <1>1, <1>3 DEF NonFile
<1>4. CASE ~(item.kind = "link" /\ b) /\ old # None /\ ~o.update
  BY <1>1, <1>4 DEF NonFile
<1>5. CASE ~(item.kind = "link" /\ b) /\ old # None /\ o.update
  BY <1>1, <1>5, Sides DEF NonFile
<1> QED
  BY <1>2, <1>3, <1>4, <1>5

\* The create lane: a local file where the store has no object.
LEMMA CreateOutcomes ==
  ASSUME NEW old, NEW item, NEW o, NEW b, item.kind = "file"
  PROVE  LET v == Verdict(old, item, None, o, b) IN
         \/ v = Unseen
         \/ v = Upload
         \/ v = Leave /\ old # None /\ old.kind # "file" /\ OrderedSide(old, item) = "record"
         \/ v = Conflict(TRUE) /\ old # None /\ old.kind # "file"
<1>1. Verdict(old, item, None, o, b) = CreateFile(old, item, o, b)
  BY DEF Verdict
<1> QED
  BY <1>1 DEF CreateFile, Probed

\* The lane of -u, where two entries are ordered by their times.
LEMMA NewerOutcomes ==
  ASSUME NEW old, NEW item, NEW o_, NEW o, NEW b,
         item.kind = "file", o_ # None, old # None, o.update
  PROVE  LET v == Verdict(old, item, o_, o, b) IN
         \/ v = Unseen
         \/ v = Upload
         \/ v = Refresh /\ o_ = item.data /\ OrderedSide(old, item) = "local"
         \/ v = Leave /\ OrderedSide(old, item) = "record"
         \/ v = Conflict(TRUE)
         \/ /\ v = Conflict(TieConflict(old, item, o_ # item.data))
            /\ OrderedSide(old, item) = "tie" /\ old.kind = "file" /\ SizeOf[o_] = old.what
         \/ /\ v = Conflict(TieConflict(old, item, ~MatchesStat(old, item)))
            /\ OrderedSide(old, item) = "tie"
<1>1. Verdict(old, item, o_, o, b) = NewerFile(old, item, o_, o, b)
  BY DEF Verdict
<1>2. CASE old.kind = "file" /\ SizeOf[o_] # old.what
  BY <1>1, <1>2 DEF NewerFile
<1>3. CASE ~(old.kind = "file" /\ SizeOf[o_] # old.what)
  <2>1. CASE OrderedSide(old, item) = "record"
    BY <1>1, <1>3, <2>1 DEF NewerFile
  <2>2. CASE OrderedSide(old, item) = "local"
    BY <1>1, <1>3, <2>2 DEF NewerFile, Probed
  <2>3. CASE OrderedSide(old, item) = "tie" /\ old.kind = "file" /\ o.checksum
    BY <1>1, <1>3, <2>3 DEF NewerFile, Probed
  <2>4. CASE OrderedSide(old, item) = "tie" /\ ~(old.kind = "file" /\ o.checksum)
    BY <1>1, <1>3, <2>4 DEF NewerFile
  <2> QED  BY <2>1, <2>2, <2>3, <2>4, Sides
<1> QED
  BY <1>2, <1>3

\* The object and the record settle the comparison that mirror mode makes.
SameContent(old, item, o_, o) ==
  IF o.checksum THEN o_ = item.data
  ELSE old # None /\ old.kind = "file" /\ SizeOf[o_] = old.what /\ MatchesStat(old, item)

\* The lane of a plain push, which makes the record mirror the disk.
LEMMA MirrorOutcomes ==
  ASSUME NEW old, NEW item, NEW o_, NEW o, NEW b,
         item.kind = "file", o_ # None, ~(o.update /\ old # None)
  PROVE  LET v == Verdict(old, item, o_, o, b) IN
         \/ v = Unseen
         \/ v = Upload /\ ~SameContent(old, item, o_, o)
         \/ v = Refresh /\ SameContent(old, item, o_, o) /\ ~Settles(old, item)
         \/ v = Leave /\ SameContent(old, item, o_, o) /\ Settles(old, item)
<1>1. Verdict(old, item, o_, o, b) = MirrorFile(old, item, o_, o, b)
  BY DEF Verdict
<1> QED
  BY <1>1 DEF MirrorFile, Probed, SameContent

-----------------------------------------------------------------------------
(* What follows from a verdict.                                            *)

\* A verdict that noticed no gap is the one an unhindered look gives.
LEMMA SeenVerdict ==
  ASSUME NEW old, NEW item, NEW o_, NEW o, NEW b \in BOOLEAN,
         ~Verdict(old, item, o_, o, b).gap
  PROVE  Verdict(old, item, o_, o, b) = Verdict(old, item, o_, o, FALSE)
<1>1. CASE ~b
  BY <1>1
<1>2. CASE b
  <2>1. \A v : Probed(b, v).gap
    BY <1>2, Verdicts DEF Probed
  <2>2. CASE item.kind # "file"
    <3>1. /\ Verdict(old, item, o_, o, b) = NonFile(old, item, o, b)
          /\ Verdict(old, item, o_, o, FALSE) = NonFile(old, item, o, FALSE)
      BY <2>2 DEF Verdict
    <3>2. ~(item.kind = "link" /\ b)
      BY <3>1, Verdicts DEF NonFile
    <3> QED  BY <3>1, <3>2 DEF NonFile
  <2>3. CASE item.kind = "file" /\ o_ = None
    BY <2>1, <2>3 DEF Verdict, CreateFile
  <2>4. CASE item.kind = "file" /\ o_ # None /\ o.update /\ old # None
    <3>1. Verdict(old, item, o_, o, b) = NewerFile(old, item, o_, o, b)
          /\ Verdict(old, item, o_, o, FALSE) = NewerFile(old, item, o_, o, FALSE)
      BY <2>4 DEF Verdict
    <3>2. Verdict(old, item, o_, o, b) = Unseen => FALSE
      BY Verdicts
    <3> QED  BY <1>2, <3>1, <3>2, Sides DEF NewerFile, Probed
  <2>5. CASE item.kind = "file" /\ o_ # None /\ ~(o.update /\ old # None)
    <3>1. Verdict(old, item, o_, o, b) = MirrorFile(old, item, o_, o, b)
          /\ Verdict(old, item, o_, o, FALSE) = MirrorFile(old, item, o_, o, FALSE)
      BY <2>5 DEF Verdict
    <3> QED  BY <2>1, <3>1 DEF MirrorFile
  <2> QED  BY <2>2, <2>3, <2>4, <2>5
<1> QED
  BY <1>1, <1>2

\* A copy is of a file, and is recorded.
LEMMA CopiedVerdict ==
  ASSUME NEW old, NEW item, NEW o_, NEW o, NEW b,
         Verdict(old, item, o_, o, b).copy, ~Verdict(old, item, o_, o, b).gap
  PROVE  item.kind = "file" /\ Verdict(old, item, o_, o, b).emit
<1>1. Verdict(old, item, o_, o, b) # Leave
  BY Verdicts
<1>2. \A w : Verdict(old, item, o_, o, b) # Conflict(w)
  BY Verdicts
<1>3. Verdict(old, item, o_, o, b) \notin {Unseen, Refresh}
  BY Verdicts
<1>4. item.kind = "file"
  BY <1>1, <1>2, <1>3, NonFileOutcomes
<1>5. Verdict(old, item, o_, o, b) = Upload
  <2>1. CASE o_ = None
    BY <1>1, <1>2, <1>3, <1>4, <2>1, CreateOutcomes
  <2>2. CASE o_ # None /\ old # None /\ o.update
    BY <1>1, <1>2, <1>3, <1>4, <2>2, NewerOutcomes
  <2>3. CASE o_ # None /\ ~(old # None /\ o.update)
    BY <1>1, <1>2, <1>3, <1>4, <2>3, MirrorOutcomes
  <2> QED  BY <2>1, <2>2, <2>3
<1> QED
  BY <1>4, <1>5, Verdicts

\* The record a push leaves for an item, given the verdict on its pair.
LeftBy(v, old, item) == IF v.emit THEN RecordOf(item) ELSE old

\* Without -u it is one that status shows nothing for.
LEMMA StatusVerdict ==
  ASSUME NEW old, NEW item, NEW o_, NEW o, NEW b, NEW v,
         item.kind \in Kinds, item.mtime \in Int, item.mtime # NoMtime,
         RecordOf(item) # None, ~o.update, v = Verdict(old, item, o_, o, b), ~v.gap
  PROVE  LET m == LeftBy(v, old, item) IN m # None /\ ~StatusShows(m, item)
<1>1. CASE v.emit
  BY <1>1, RecordedAsIs DEF LeftBy
<1>2. CASE ~v.emit
  <2>1. v \notin {Unseen, Refresh, Upload}
    BY <1>2, Verdicts
  <2>2. CASE item.kind # "file"
    <3>1. old # None /\ ~NonFileChanged(old, item)
      BY <2>1, <2>2, NonFileOutcomes
    <3> QED  BY <1>2, <2>2, <3>1 DEF LeftBy, NonFileChanged, StatusShows, MtimeShown
  <2>3. CASE item.kind = "file" /\ o_ = None
    <3>1. CreateFile(old, item, o, b) = Probed(b, Upload) /\ v = CreateFile(old, item, o, b)
      BY <2>3 DEF Verdict, CreateFile
    <3> QED  BY <2>1, <3>1 DEF Probed
  <2>4. CASE item.kind = "file" /\ o_ # None
    <3>1. Settles(old, item)
      BY <2>1, <2>4, MirrorOutcomes
    <3> QED  BY <1>2, <2>4, <3>1 DEF LeftBy, Settles, MatchesStat, StatusShows, MtimeShown
  <2> QED  BY <2>2, <2>3, <2>4
<1> QED
  BY <1>1, <1>2

\* A tie without a conflict is a record that status shows nothing for.
LEMMA TieShowsNothing ==
  ASSUME NEW old, NEW item, NEW differs, OrderedSide(old, item) = "tie",
         ~TieConflict(old, item, differs),
         item.kind = "file" /\ ~differs => old.what = RecordOf(item).what
  PROVE  ~StatusShows(old, item)
<1>1. old.kind = item.kind
  BY DEF TieConflict
<1>2. item.kind # "link" => ~differs /\ ~ModeDiffers(old, item)
  BY DEF TieConflict
<1>3. item.kind # "link" => ~MtimeShown(old, item)
  BY DEF OrderedSide, NewerSide, MtimeShown, Within
<1>4. item.kind = "link" => ~(LinkMtimes /\ MtimeShown(old, item)) /\ old.what = item.data
  BY DEF OrderedSide, NewerSide, MtimeShown, Within, TieConflict
<1> QED
  BY <1>1, <1>2, <1>3, <1>4 DEF StatusShows

\* Under -u a difference that stays is the record's newer side, or a conflict.
LEMMA WarnedVerdict ==
  ASSUME NEW old, NEW item, NEW o_, NEW o, NEW b, NEW v,
         item.kind \in Kinds, item.mtime \in Int, item.mtime # NoMtime,
         RecordOf(item) # None, o.update, v = Verdict(old, item, o_, o, b), ~v.gap
  PROVE  LET m == LeftBy(v, old, item) IN
         \/ v.conflict
         \/ old # None /\ OrderedSide(old, item) = "record"
         \/ m # None /\ ~StatusShows(m, item)
<1>1. CASE v.emit
  BY <1>1, RecordedAsIs DEF LeftBy
<1>2. CASE ~v.emit /\ ~v.conflict
  <2>1. v \notin {Unseen, Refresh, Upload, Conflict(TRUE)}
    BY <1>2, Verdicts
  <2>2. \A w : v = Conflict(w) => ~w
    BY <1>2, Verdicts
  <2>3. CASE item.kind # "file"
    <3>1. CASE OrderedSide(old, item) = "record" /\ old # None
      BY <3>1
    <3>2. CASE /\ v = Conflict(TieConflict(old, item, FALSE))
               /\ old # None /\ OrderedSide(old, item) = "tie"
      <4>1. ~TieConflict(old, item, FALSE)
        BY <2>2, <3>2
      <4> QED  BY <1>2, <2>3, <3>2, <4>1, TieShowsNothing DEF LeftBy
    <3> QED  BY <2>1, <2>3, <3>1, <3>2, NonFileOutcomes
  <2>4. CASE item.kind = "file" /\ o_ = None
    BY <2>1, <2>4, CreateOutcomes
  <2>5. CASE item.kind = "file" /\ o_ # None /\ old # None
    <3> DEFINE byData == o_ # item.data
               byStat == ~MatchesStat(old, item)
    <3>1. CASE /\ v = Conflict(TieConflict(old, item, byData))
               /\ OrderedSide(old, item) = "tie" /\ SizeOf[o_] = old.what
      <4>1. ~TieConflict(old, item, byData)
        BY <2>2, <3>1
      <4>2. ~byData => old.what = RecordOf(item).what
        BY <2>5, <3>1 DEF RecordOf
      <4> QED  BY <1>2, <2>5, <3>1, <4>1, <4>2, TieShowsNothing DEF LeftBy
    <3>2. CASE /\ v = Conflict(TieConflict(old, item, byStat))
               /\ OrderedSide(old, item) = "tie"
      <4>1. ~TieConflict(old, item, byStat)
        BY <2>2, <3>2
      <4>2. ~byStat => old.what = RecordOf(item).what
        BY DEF MatchesStat
      <4> QED  BY <1>2, <2>5, <3>2, <4>1, <4>2, TieShowsNothing DEF LeftBy
    <3> QED  BY <2>1, <2>5, <3>1, <3>2, NewerOutcomes
  <2>6. CASE item.kind = "file" /\ o_ # None /\ old = None
    <3>1. Settles(old, item)
      BY <2>1, <2>6, MirrorOutcomes
    <3> QED  BY <2>6, <3>1 DEF Settles
  <2> QED  BY <2>3, <2>4, <2>5, <2>6
<1> QED
  BY <1>1, <1>2

\* A file record is left with an object, unless -u left it over a non-file.
LEMMA BackedVerdict ==
  ASSUME NEW old, NEW item, NEW o_, NEW o, NEW b, NEW v, NEW m,
         v = Verdict(old, item, o_, o, b), ~v.gap,
         m = LeftBy(v, old, item), m # None, m.kind = "file"
  PROVE  IF item.kind = "file" THEN v.copy \/ o_ # None ELSE o.update
<1>1. CASE item.kind = "file" /\ o_ = None
  <2>1. v = Upload \/ (~v.emit /\ old.kind # "file")
    <3>1. v # Unseen /\ ~Leave.emit /\ ~Conflict(TRUE).emit
      BY Verdicts
    <3> QED  BY <1>1, <3>1, CreateOutcomes
  <2> QED  BY <1>1, <2>1, Verdicts DEF LeftBy
<1>2. CASE item.kind # "file"
  <2>1. ~v.emit
    BY <1>2 DEF LeftBy, RecordOf
  <2>2. v # Unseen /\ v # Refresh /\ old.kind = "file"
    BY <2>1, Verdicts DEF LeftBy
  <2>3. NonFileChanged(old, item)
    BY <1>2, <2>2 DEF NonFileChanged
  <2> QED  BY <1>2, <2>2, <2>3, NonFileOutcomes
<1> QED
  BY <1>1, <1>2

\* Nothing is recorded or uploaded for a pair twice: the second verdict, on
\* the record and the object the first one left, is to leave them alone.
LEMMA IdleVerdict ==
  ASSUME NEW old, NEW item, NEW o_, NEW o, NEW b \in BOOLEAN, NEW v, NEW m, NEW left,
         item.kind \in Kinds, item.mtime \in Int, item.mtime # NoMtime,
         RecordOf(item) # None, v = Verdict(old, item, o_, o, b), ~v.gap,
         m = LeftBy(v, old, item),
         item.kind = "file" => item.data # None /\ left = IF v.copy THEN item.data ELSE o_
  PROVE  ~Verdict(m, item, left, o, FALSE).emit /\ ~Verdict(m, item, left, o, FALSE).copy
<1> DEFINE w == Verdict(m, item, left, o, FALSE)
<1>1. CASE ~v.emit
  <2>1. ~v.copy /\ m = old
    BY <1>1, CopiedVerdict DEF LeftBy
  <2>2. v = Verdict(old, item, o_, o, FALSE)
    BY SeenVerdict
  <2>3. w = v
    <3>1. CASE item.kind = "file"
      BY <2>1, <2>2, <3>1
    <3>2. CASE item.kind # "file"
      BY <2>1, <2>2, <3>2 DEF Verdict
    <3> QED  BY <3>1, <3>2
  <2> QED  BY <1>1, <2>1, <2>3
<1>2. CASE v.emit
  <2>1. /\ m = RecordOf(item) /\ m # None /\ m.kind = item.kind
        /\ Within(m, item) /\ ~ModeDiffers(m, item) /\ OrderedSide(m, item) = "tie"
        /\ m.what = IF item.kind = "file" THEN SizeOf[item.data] ELSE item.data
    BY <1>2, RecordedAsIs DEF LeftBy
  <2>2. CASE item.kind # "file"
    <3>1. w = NonFile(m, item, o, FALSE)
      BY <2>2 DEF Verdict
    <3>2. ~NonFileChanged(m, item)
      BY <2>1, <2>2 DEF NonFileChanged
    <3>3. w = Leave \/ w = Conflict(TieConflict(m, item, FALSE))
      BY <2>1, <3>1, <3>2 DEF NonFile
    <3> QED  BY <3>3, Verdicts
  <2>3. CASE item.kind = "file" /\ o.update
    <3>1. left # None
      <4>1. CASE v.copy
        BY <2>3, <4>1
      <4>2. CASE ~v.copy
        <5>1. o_ # None
          <6>1. v # Unseen /\ v # Upload /\ v # Leave /\ v # Conflict(TRUE)
            BY <1>2, <4>2, Verdicts
          <6>2. ASSUME o_ = None PROVE FALSE
            <7>1. v = Verdict(old, item, None, o, b)
              BY <6>2
            <7> QED  BY <2>3, <6>1, <7>1, CreateOutcomes
          <6> QED  BY <6>2
        <5>2. left = o_
          BY <2>3, <4>2
        <5> QED  BY <5>1, <5>2
      <4> QED  BY <4>1, <4>2
    <3>2. w = NewerFile(m, item, left, o, FALSE)
      BY <2>1, <2>3, <3>1 DEF Verdict
    <3>3. \E c : w = Conflict(c)
      BY <2>1, <3>2 DEF NewerFile, Probed
    <3> QED  BY <3>3, Verdicts
  <2>4. CASE item.kind = "file" /\ ~o.update
    <3>1. CASE v.copy
      <4>1. left = item.data /\ left # None
        BY <2>4, <3>1
      <4>2. MatchesStat(m, item) /\ SameContent(m, item, left, o) /\ Settles(m, item)
        BY <2>1, <2>4, <4>1 DEF MatchesStat, SameContent, Settles
      <4>3. w = MirrorFile(m, item, left, o, FALSE)
        BY <2>4, <4>1 DEF Verdict
      <4>4. w = Leave
        <5>1. MirrorFile(m, item, left, o, FALSE) \in {Leave, Refresh, Upload}
          BY DEF MirrorFile, Probed
        <5>2. o.checksum => left = item.data
          BY <4>1
        <5>3. ~o.checksum => m # None /\ m.kind = "file" /\ SizeOf[left] = m.what
          BY <2>1, <2>4, <4>1
        <5> QED  BY <4>2, <4>3, <5>2, <5>3 DEF MirrorFile, Probed
      <4> QED  BY <4>4, Verdicts
    <3>2. CASE ~v.copy
      <4>1. v # Unseen /\ v # Upload /\ v # Leave /\ v # Conflict(TRUE)
        BY <1>2, <3>2, Verdicts
      <4>2. o_ # None
        <5>1. ASSUME o_ = None PROVE FALSE
          <6>1. v = Verdict(old, item, None, o, b)
            BY <5>1
          <6> QED  BY <2>4, <4>1, <6>1, CreateOutcomes
        <5> QED  BY <5>1
      <4>3. SameContent(old, item, o_, o) /\ left = o_
        BY <2>4, <3>2, <4>1, <4>2, MirrorOutcomes
      <4>4. MatchesStat(m, item) /\ SameContent(m, item, left, o) /\ Settles(m, item)
        <5>1. m.what = RecordOf(item).what
          BY <2>1
        <5>2. o.checksum => left = item.data
          BY <4>3 DEF SameContent
        <5>3. ~o.checksum => SizeOf[left] = m.what
          BY <4>3, <5>1 DEF SameContent, MatchesStat
        <5> QED  BY <2>1, <2>4, <5>1, <5>2, <5>3 DEF MatchesStat, SameContent, Settles
      <4>5. w = MirrorFile(m, item, left, o, FALSE)
        BY <2>4, <4>2, <4>3 DEF Verdict
      <4>6. w = Leave
        BY <2>1, <4>4, <4>5 DEF MirrorFile, Probed, SameContent
      <4> QED  BY <4>6, Verdicts
    <3> QED  BY <3>1, <3>2
  <2> QED  BY <2>2, <2>3, <2>4
<1> QED
  BY <1>1, <1>2

-----------------------------------------------------------------------------
(* The invariant of a run that has neither failed nor been stopped.        *)

VerdictAt(k) == Verdict(rec[k], loc[k], obj[k], opts, k \in blind)

\* Every pair the stream has left behind had its verdict carried out.
Decided ==
  ok => \A k \in Stream : k < next /\ Walked(k) /\ loc[k] # None =>
    /\ VerdictAt(k).gap => gap
    /\ jrn[k] = IF VerdictAt(k).emit THEN NewLine(rec[k], k) ELSE None
    /\ k \in up <=> VerdictAt(k).copy
    /\ VerdictAt(k).conflict => k \in warned

\* Uploads are of items already decided; no file is offered for deletion, and
\* nothing that is there goes without the offer.
Transfers ==
  /\ \A k \in up : loc[k] # None /\ k < next
  /\ \A k \in spool : loc[k].kind # "file"
  /\ \A k \in condemned : loc[k] # None => k \in spool

\* Every file record passed over without a gap is dropped.
StaleGone ==
  ok /\ ~gap => \A k \in Recorded \ Stream :
    k < head /\ Judged(k) /\ rec[k].kind = "file" => Dropped(k)

OpenAt(k) == \E i \in 1..Len(frames) : frames[i].key = k

\* A record behind cursor and stream that nothing will drop any more.
Stays(j) == loc[j] = None /\ Merged(j) # None /\ j < head /\ j < next /\ ~OpenAt(j)

Survived(d) == \E j \in Keys : Below(d, j) /\ Stays(j)

\* A frame is kept only for a record beneath it that stays.
FramesKept ==
  /\ \A i, j \in 1..Len(frames) : i < j => Below(frames[i].key, frames[j].key)
  /\ ok => \A i \in 1..Len(frames) : frames[i].kept => Survived(frames[i].key)

\* What --delete could remove, once cursor and stream have come past it.
Candidate(k) ==
  /\ loc[k] = None /\ Judged(k)
  /\ IF obj[k] # None THEN k < next
                      ELSE k < head /\ rec[k] # None /\ rec[k].kind # "file"

\* Every candidate was answered, refused, or is a directory still open or
\* kept for what stays beneath it.
Accounted(k) ==
  answer[k] # "none" \/ k \in refused \/ OpenAt(k) \/ (k \in DirKeys /\ Survived(k))
CandidatesAsked == ok /\ opts.delete => \A k \in Keys : Candidate(k) => Accounted(k)

\* A run past its drain has nothing left to come to, and one that is through
\* has put every offer.
Ended ==
  /\ phase \in {"offer", "done"} /\ ok => head = N+1 /\ frames = <<>>
  /\ phase = "done" /\ ok => Pending = {}

DInv ==
  Decided /\ Transfers /\ StaleGone /\ FramesKept /\ CandidatesAsked /\ Ended

-----------------------------------------------------------------------------
(* Where a step acts.                                                      *)

\* A pair newly behind the stream was decided in this step.
LEMMA NewPair ==
  ASSUME IInv, Next, ok', NEW k \in Stream, k < next', ~(k < next)
  PROVE  k = next /\ (Decide \/ RecordTarget \/ KeepOrphan \/ DeleteOrphan)
<1>0. Stream \subseteq Keys /\ next \in Int /\ Keys \subseteq Int
  BY Forward, TreeAssumption DEF Stream, Keys
<1>1. next' # next
  BY <1>0
<1>2. ~(KeepFrame \/ RefuseFrame \/ AskFrame \/ SkipOutside \/ SkipGated \/ DropStale)
  BY <1>1 DEF KeepFrame, RefuseFrame, AskFrame, SkipOutside, SkipGated, DropStale
<1>3. ~(SkipKept \/ OpenFrame \/ AskRecord \/ EndStream \/ Close)
  BY <1>1 DEF SkipKept, OpenFrame, AskRecord, EndStream, Close
<1>4. ~(QuitFrame \/ QuitRecord \/ QuitOrphan \/ QuitOffer \/ SyncStops)
  BY DEF QuitFrame, QuitRecord, QuitOrphan, QuitOffer, Quit, SyncStops
<1>5. ~(OfferObject \/ DeleteOffered \/ Finished)
  BY <1>1 DEF OfferObject, DeleteOffered, Finished, vars, cursor
<1>6. Decide \/ RecordTarget \/ KeepOrphan \/ DeleteOrphan
  BY <1>2, <1>3, <1>4, <1>5 DEF Next
<1>7. AtPair /\ \E g : NextPair(g)
  BY <1>6 DEF Decide, RecordTarget, KeepOrphan, DeleteOrphan, AtOrphan
<1>8. k <= next
  BY <1>0, <1>7, NextPairFact
<1> QED
  BY <1>0, <1>6, <1>8

\* A record newly behind the cursor, with no pair, was passed over in it.
LEMMA NewRecord ==
  ASSUME IInv, Next, ok', NEW k \in Recorded, k \notin Stream, k < head', ~(k < head)
  PROVE  /\ k = head /\ AtRecord
         /\ SkipOutside \/ SkipGated \/ DropStale \/ SkipKept \/ OpenFrame \/ AskRecord
<1>0. Recorded \subseteq Keys /\ head \in Int /\ Keys \subseteq Int
  BY Forward, TreeAssumption DEF Recorded, Keys
<1>1. head' # head
  BY <1>0
<1>2. ~(KeepFrame \/ RefuseFrame \/ AskFrame \/ EndStream \/ Close)
  BY <1>1 DEF KeepFrame, RefuseFrame, AskFrame, EndStream, Close
<1>3. ~(Decide \/ RecordTarget \/ KeepOrphan \/ DeleteOrphan)
  <2>1. AtPair /\ Consume => FALSE
    BY <1>0, ConsumeFact, AtPairFact
  <2> QED  BY <2>1 DEF Decide, RecordTarget, KeepOrphan, DeleteOrphan, AtOrphan
<1>4. ~(QuitFrame \/ QuitRecord \/ QuitOrphan \/ QuitOffer \/ SyncStops)
  BY DEF QuitFrame, QuitRecord, QuitOrphan, QuitOffer, Quit, SyncStops
<1>5. ~(OfferObject \/ DeleteOffered \/ Finished)
  BY <1>1 DEF OfferObject, DeleteOffered, Finished, vars, cursor
<1>6. SkipOutside \/ SkipGated \/ DropStale \/ SkipKept \/ OpenFrame \/ AskRecord
  BY <1>2, <1>3, <1>4, <1>5 DEF Next
<1>7. RecordMove
  BY <1>6 DEF SkipOutside, SkipGated, DropStale, SkipKept, OpenFrame, AskRecord, RecordMove
<1>8. k <= head
  BY <1>0, <1>7, RecordMoveFact
<1> QED
  BY <1>0, <1>6, <1>7, <1>8 DEF RecordMove

\* A line is written where the cursor or the stream is, or is the flip of a
\* directory's.
LEMMA LineHere ==
  ASSUME IInv, Next, NEW k \in Keys, jrn'[k] # jrn[k]
  PROVE  k = head \/ k = next \/ FlipAt(k)
<1>1. ASSUME NEW j \in Keys, NEW line, Write(j, line) PROVE k = j
  BY <1>1 DEF Write, IInv, TypeOK
<1>2. CASE KeepFrame \/ RefuseFrame \/ QuitFrame \/ SkipOutside \/ SkipGated \/ SkipKept
  BY <1>2 DEF KeepFrame, RefuseFrame, QuitFrame, SkipOutside, SkipGated, SkipKept, journal
<1>3. CASE QuitRecord \/ KeepOrphan \/ QuitOrphan \/ EndStream \/ SyncStops \/ Close
  BY <1>3 DEF QuitRecord, KeepOrphan, QuitOrphan, EndStream, SyncStops, Close, journal
<1>4. CASE OfferObject \/ QuitOffer \/ DeleteOffered \/ Finished
  BY <1>4 DEF OfferObject, QuitOffer, DeleteOffered, Finished, vars, journal
<1>5. CASE AskFrame
  <2>1. tail' = tail /\ tail \in Int
    BY <1>5, TreeAssumption DEF AskFrame, IInv, TypeOK
  <2>2. ~NewLineAt(k, jrn'[k])
    BY <2>1 DEF NewLineAt, Write
  <2> QED  BY <2>2, LineStep
<1>6. CASE DropStale \/ OpenFrame \/ AskRecord
  <2>1. AtRecord
    BY <1>6 DEF DropStale, OpenFrame, AskRecord
  <2>2. UNCHANGED journal \/ \E line : Write(head, line)
    BY <1>6 DEF DropStale, OpenFrame, AskRecord, Drop, Emit
  <2> QED  BY <1>1, <2>1, <2>2, AtRecordFact DEF journal
<1>7. CASE Decide \/ RecordTarget \/ DeleteOrphan
  <2>1. AtPair
    BY <1>7 DEF Decide, RecordTarget, DeleteOrphan, AtOrphan
  <2>2. CASE Decide
    <3>1. WriteNew(Old, next) \/ UNCHANGED journal
      BY <2>2 DEF Decide
    <3> QED  BY <1>1, <2>1, <3>1, AtPairFact DEF WriteNew, journal
  <2>3. CASE RecordTarget \/ DeleteOrphan
    <3>1. UNCHANGED journal \/ \E line : Write(next, line)
      BY <2>3 DEF RecordTarget, DeleteOrphan, Drop, Emit, WriteNew
    <3> QED  BY <1>1, <2>1, <3>1, AtPairFact DEF journal
  <2> QED  BY <1>7, <2>2, <2>3
<1> QED
  BY <1>2, <1>3, <1>4, <1>5, <1>6, <1>7 DEF Next

-----------------------------------------------------------------------------
(* What a step leaves as it was.                                           *)

\* Where the invariant looks, the world stays.
LEMMA Steady ==
  ASSUME IInv, Next
  PROVE  /\ rec' = rec /\ loc' = loc /\ obj' = obj /\ blind' = blind /\ opts' = opts
         /\ Stream' = Stream /\ Recorded' = Recorded
         /\ Stream \subseteq Keys /\ Recorded \subseteq Keys /\ Keys \subseteq Int
         /\ \A k \in Keys : Judged(k)' = Judged(k) /\ Walked(k)' = Walked(k)
         /\ \A k \in Keys : Judged(k) => Walked(k)
         /\ \A k : VerdictAt(k)' = VerdictAt(k)
         /\ (ok' => ok) /\ (gap => gap')
<1>1. UNCHANGED world
  BY Moves
<1>2. Stream \subseteq Keys /\ Recorded \subseteq Keys /\ Keys \subseteq Int
  BY TreeAssumption DEF Stream, Recorded, Keys
<1>3. \A k \in Keys : Judged(k) => Walked(k)
  BY DEF Judged, Walked
<1>4. \A k : VerdictAt(k)' = VerdictAt(k)
  BY <1>1 DEF world, VerdictAt
<1> QED
  BY <1>1, <1>2, <1>3, <1>4, WorldSame, Forward DEF world

\* Only a pair's decision uploads, offers or warns.
LEMMA OthersTransferNothing ==
  ASSUME Next, ~Decide, ~RecordTarget
  PROVE  UNCHANGED <<up, spool, warned>>
<1>1. CASE KeepFrame \/ RefuseFrame \/ AskFrame \/ QuitFrame \/ SkipOutside \/ SkipGated
  BY <1>1 DEF KeepFrame, RefuseFrame, AskFrame, QuitFrame, SkipOutside, SkipGated, outcome
<1>2. CASE DropStale \/ SkipKept \/ OpenFrame \/ AskRecord \/ QuitRecord
  BY <1>2 DEF DropStale, SkipKept, OpenFrame, AskRecord, QuitRecord, outcome
<1>3. CASE KeepOrphan \/ DeleteOrphan \/ QuitOrphan \/ EndStream \/ SyncStops \/ Close
  BY <1>3 DEF KeepOrphan, DeleteOrphan, QuitOrphan, EndStream, SyncStops, Close, outcome
<1>4. CASE OfferObject \/ QuitOffer \/ DeleteOffered \/ Finished
  BY <1>4 DEF OfferObject, QuitOffer, DeleteOffered, Finished, vars, outcome
<1> QED
  BY <1>1, <1>2, <1>3, <1>4 DEF Next

\* What was answered or refused stays so.
LEMMA ReportsStay ==
  ASSUME IInv, Next, NEW k \in Keys
  PROVE  /\ answer[k] # "none" => answer'[k] # "none"
         /\ k \in refused => k \in refused'
<1>1. answer[k] # "none" => answer'[k] # "none"
  BY AnswerKinds DEF Answered, IInv, TypeOK
<1>2. ASSUME NEW j, Refuse(j) PROVE refused \subseteq refused'
  BY <1>2 DEF Refuse
<1>3. CASE KeepFrame \/ RefuseFrame \/ AskFrame \/ QuitFrame \/ SkipOutside \/ SkipGated
  BY <1>1, <1>2, <1>3 DEF KeepFrame, RefuseFrame, AskFrame, QuitFrame, SkipOutside, SkipGated, outcome
<1>4. CASE DropStale \/ SkipKept \/ OpenFrame \/ AskRecord \/ QuitRecord
  BY <1>1, <1>4 DEF DropStale, SkipKept, OpenFrame, AskRecord, QuitRecord, outcome
<1>5. CASE Decide \/ RecordTarget \/ KeepOrphan \/ DeleteOrphan \/ QuitOrphan
  BY <1>1, <1>2, <1>5 DEF Decide, RecordTarget, KeepOrphan, DeleteOrphan, QuitOrphan, outcome
<1>6. CASE EndStream \/ SyncStops \/ Close \/ OfferObject \/ QuitOffer \/ DeleteOffered
  BY <1>1, <1>2, <1>6 DEF EndStream, SyncStops, Close, OfferObject, QuitOffer, DeleteOffered, outcome
<1>7. CASE Finished
  BY <1>1, <1>7 DEF Finished, vars, outcome
<1> QED
  BY <1>1, <1>3, <1>4, <1>5, <1>6, <1>7 DEF Next

-----------------------------------------------------------------------------
(* Every step preserves the parts about pairs.                             *)

\* A step leaves every pair behind the stream with a verdict (_compare_pair's
\* result reaches the journal in the same turn).
THEOREM DecidedStep ==
  ASSUME IInv, DInv, Next
  PROVE  Decided'
<1> DEFINE Done(k) ==
      /\ VerdictAt(k).gap => gap
      /\ jrn[k] = IF VerdictAt(k).emit THEN NewLine(rec[k], k) ELSE None
      /\ k \in up <=> VerdictAt(k).copy
      /\ VerdictAt(k).conflict => k \in warned
<1>1. SUFFICES ASSUME ok', NEW k \in Stream, k < next', Walked(k), loc[k] # None
               PROVE  Done(k)'
  BY Steady DEF Decided
<1>0. /\ k \in Keys /\ ok /\ next \in Int /\ NewLine(rec[k], k)' = NewLine(rec[k], k)
      /\ ~RecordTarget /\ VerdictAt(k)' = VerdictAt(k) /\ (gap => gap')
  BY <1>1, Steady, Forward DEF RecordTarget, Walked, Entry, NewLine
<1>2. CASE k < next
  <2>1. Done(k)
    BY <1>0, <1>1, <1>2 DEF DInv, Decided
  <2>2. jrn'[k] = jrn[k] /\ (k \in up' <=> k \in up) /\ (k \in warned => k \in warned')
    <3>1. CASE Decide
      <4>1. next # k /\ AtPair
        BY <1>0, <1>2, <3>1 DEF Decide
      <4>2. jrn'[k] = jrn[k]
        BY <1>0, <1>1, <4>1, PairEffects
      <4>3. (up' = up \/ up' = up \cup {next}) /\ (warned' = warned \/ warned' = warned \cup {next})
        BY <3>1 DEF Decide
      <4> QED  BY <4>1, <4>2, <4>3
    <3>2. CASE ~Decide
      BY <1>0, <1>1, <3>2, PairEffects, OthersTransferNothing
    <3> QED  BY <3>1, <3>2
  <2> QED  BY <1>0, <2>1, <2>2
<1>3. CASE ~(k < next)
  <2>1. k = next /\ Decide
    <3>1. k = next /\ (Decide \/ KeepOrphan \/ DeleteOrphan)
      BY <1>0, <1>1, <1>3, NewPair
    <3> QED  BY <1>1, <3>1 DEF KeepOrphan, DeleteOrphan, AtOrphan
  <2>2. /\ Old = rec[k] /\ jrn[k] = None /\ k \notin up
        /\ jrn \in [Keys -> Lines \cup {None}]
    BY <1>3, <2>1, AtPairFact DEF Decide, DInv, Transfers, IInv, TypeOK
  <2> DEFINE v == VerdictAt(k)
  <2>3. /\ IF v.emit THEN WriteNew(rec[k], k) ELSE UNCHANGED journal
        /\ up' = IF v.copy THEN up \cup {k} ELSE up
        /\ warned' = IF v.conflict THEN warned \cup {k} ELSE warned
        /\ NextPair(gap \/ v.gap)
    BY <2>1, <2>2 DEF Decide, VerdictAt
  <2> HIDE DEF v
  <2>4. v.gap => gap'
    BY <2>3 DEF NextPair, Looked
  <2>5. jrn'[k] = IF v.emit THEN NewLine(rec[k], k) ELSE None
    BY <1>0, <2>2, <2>3 DEF WriteNew, Write, journal
  <2> QED  BY <1>0, <2>2, <2>3, <2>4, <2>5 DEF v
<1> QED
  BY <1>2, <1>3

\* Uploads are of items already decided, no local file's object is offered for
\* deletion, and nothing there is condemned without the offer.
THEOREM TransfersStep ==
  ASSUME IInv, DInv, Next
  PROVE  Transfers'
<1>0. Transfers /\ loc' = loc /\ next \in Int /\ next' \in Int /\ next <= next'
  BY Steady, Forward, TreeAssumption DEF DInv
<1>1. \A k \in up' : loc[k] # None /\ k < next'
  <2>1. CASE Decide \/ RecordTarget
    <3>1. AtPair /\ (\E g : NextPair(g)) /\ up' \subseteq up \cup {next}
      BY <2>1 DEF Decide, RecordTarget
    <3>2. next < next'
      BY <1>0, <3>1, NextPairFact
    <3>3. loc[next] # None
      BY <2>1, <3>1, AtPairFact DEF Decide, RecordTarget, InStream, Walked, Entry
    <3>4. \A k \in up : k < next /\ k \in Int
      BY <1>0, Steady DEF Transfers, IInv, TypeOK
    <3> QED  BY <1>0, <3>1, <3>2, <3>3, <3>4 DEF Transfers
  <2>2. CASE ~(Decide \/ RecordTarget)
    <3>1. up' = up /\ \A k \in up : k \in Int
      BY <2>2, Steady, OthersTransferNothing DEF IInv, TypeOK
    <3> QED  BY <1>0, <3>1 DEF Transfers
  <2> QED  BY <2>1, <2>2
<1>2. \A k \in spool' : loc[k].kind # "file"
  BY <1>0, SpoolKinds DEF Transfers, ShieldsObject
<1>3. \A k \in condemned' : loc[k] # None => k \in spool'
  <2>1. spool \subseteq spool'
    BY SpoolKinds
  <2> QED
    BY <1>0, <2>1, CondemnedKinds DEF Transfers, DeleteOrphan, AtOrphan
<1> QED
  BY <1>0, <1>1, <1>2, <1>3 DEF Transfers

\* A file record that was passed over without a gap is dropped
\* (_skip_over).
THEOREM StaleGoneStep ==
  ASSUME IInv, DInv, Next
  PROVE  StaleGone'
<1>1. SUFFICES ASSUME ok', ~gap', NEW k \in Recorded \ Stream, k < head', Judged(k),
                      rec[k].kind = "file"
               PROVE  Dropped(k)'
  BY Steady DEF StaleGone
<1>2. CASE k < head
  <2>1. Dropped(k) /\ k \in Keys
    BY <1>1, <1>2, Steady DEF DInv, StaleGone
  <2> QED  BY <2>1, DropStays
<1>3. CASE ~(k < head)
  <2>1. /\ k = head /\ AtRecord /\ ~gap
        /\ SkipOutside \/ SkipGated \/ DropStale \/ SkipKept \/ OpenFrame \/ AskRecord
    BY <1>1, <1>3, Steady, NewRecord
  <2>2. DropStale /\ k \in Keys /\ rec[k] # None
    BY <1>1, <2>1, AtRecordFact DEF SkipOutside, SkipGated, SkipKept, OpenFrame, AskRecord
  <2>3. Write(k, Line("drop", rec[k]))
    BY <2>1, <2>2 DEF DropStale, Drop, Emit
  <2> QED  BY <2>2, <2>3, WrittenDrop
<1> QED
  BY <1>2, <1>3

\* A run past its drain has walked both sides to their ends, and one that is
\* through has put every offer.
THEOREM EndedStep ==
  ASSUME IInv, DInv, Next
  PROVE  Ended'
<1>1. CASE KeepFrame \/ RefuseFrame \/ AskFrame \/ SkipOutside \/ SkipGated \/ DropStale
  BY <1>1 DEF KeepFrame, RefuseFrame, AskFrame, SkipOutside, SkipGated, DropStale, AtRecord,
     Running, Ended
<1>2. CASE SkipKept \/ OpenFrame \/ AskRecord
  BY <1>2 DEF SkipKept, OpenFrame, AskRecord, AtRecord, Running, Ended
<1>3. CASE Decide \/ RecordTarget \/ KeepOrphan \/ DeleteOrphan \/ EndStream
  BY <1>3 DEF Decide, RecordTarget, KeepOrphan, DeleteOrphan, AtOrphan, AtPair, EndStream, Ended
<1>4. CASE QuitFrame \/ QuitRecord \/ QuitOrphan \/ QuitOffer \/ SyncStops
  BY <1>4 DEF QuitFrame, QuitRecord, QuitOrphan, QuitOffer, Quit, SyncStops, Ended
<1>5. CASE Close
  BY <1>5 DEF Close, Ended
<1>6. CASE OfferObject
  BY <1>6 DEF OfferObject, cursor, DInv, Ended
<1>7. CASE DeleteOffered
  BY <1>7 DEF DeleteOffered, DInv, Ended, Pending
<1>8. CASE Finished
  BY <1>8 DEF Finished, vars, cursor, outcome, DInv, Ended, Pending
<1> QED
  BY <1>1, <1>2, <1>3, <1>4, <1>5, <1>6, <1>7, <1>8 DEF Next

-----------------------------------------------------------------------------
(* The frames, and what keeps them.                                        *)

\* What stays, stays.
LEMMA StaysStep ==
  ASSUME IInv, Next, NEW j \in Keys, Stays(j)
  PROVE  Stays(j)'
<1>1. /\ loc[j] = None /\ Merged(j) # None /\ j < head /\ j < next /\ ~OpenAt(j)
      /\ rec' = rec /\ loc' = loc /\ head \in Int /\ next \in Int /\ j \in Int
      /\ j < head' /\ j < next'
  BY Steady, Forward, TreeAssumption DEF Stays, Keys
<1>2. ~FlipAt(j)
  <2>1. SUFFICES ASSUME FlipAt(j) PROVE FALSE
    OBVIOUS
  <2>2. frames # <<>> /\ frames \in Seq(FrameType) /\ j = Last(frames).key
    BY <2>1, PassedFact DEF FlipAt
  <2>3. Len(frames) \in 1..Len(frames) /\ Last(frames) = frames[Len(frames)]
    BY <2>2, FrontFact
  <2> QED  BY <1>1, <2>2, <2>3 DEF OpenAt
<1>3. jrn'[j] = jrn[j]
  BY <1>1, <1>2, LineHere
<1>4. ~OpenAt(j)'
  <2>1. CASE OpenFrame
    <3>1. frames \in Seq(FrameType) /\ Len(frames) \in Nat
      BY FramesFact DEF IInv
    <3>2. frames' = Append(frames, [key |-> head, kept |-> FALSE])
      BY <2>1 DEF OpenFrame
    <3>3. Len(frames') = Len(frames) + 1 /\ frames'[Len(frames) + 1].key = head
          /\ \A i \in 1..Len(frames) : frames'[i] = frames[i]
      BY <3>1, <3>2
    <3> QED  BY <1>1, <3>1, <3>3 DEF OpenAt
  <2>2. CASE ~OpenFrame
    <3>1. /\ Len(frames) \in Nat /\ Len(frames') \in Nat /\ Len(frames') <= Len(frames)
          /\ \A i \in 1..Len(frames') : frames'[i].key = frames[i].key
      BY <2>2, FrameKinds
    <3> QED  BY <1>1, <3>1 DEF OpenAt
  <2> QED  BY <2>1, <2>2
<1> QED
  BY <1>1, <1>3, <1>4 DEF Stays, Merged

\* The same for every step of the specification.
LEMMA SurvivedStep ==
  ASSUME IInv, Next, NEW d, Survived(d)
  PROVE  Survived(d)'
BY StaysStep DEF Survived, Below

\* What is beneath the innermost frame is beneath all of them.
LEMMA BeneathAll ==
  ASSUME IInv, DInv, frames # <<>>, NEW s \in Keys, Below(Last(frames).key, s)
  PROVE  \A i \in 1..Len(frames) : Below(frames[i].key, s)
<1>1. frames \in Seq(FrameType) /\ Len(frames) \in Nat /\ Len(frames) \in 1..Len(frames)
      /\ Last(frames) = frames[Len(frames)]
      /\ \A i \in 1..Len(frames) : frames[i].key \in DirKeys
  BY FrontFact, FramesFact DEF IInv
<1>2. SUFFICES ASSUME NEW i \in 1..Len(frames), i < Len(frames) PROVE Below(frames[i].key, s)
  BY <1>1
<1> DEFINE d == frames[i].key
           e == Last(frames).key
<1>3. d \in DirKeys /\ e \in DirKeys /\ Below(d, e)
  BY <1>1, <1>2 DEF DInv, FramesKept
<1>4. LastBeneath[e] <= LastBeneath[d] /\ LastBeneath[e] \in Int /\ LastBeneath[d] \in Int
      /\ d \in Int /\ e \in Int /\ s \in Int
  BY <1>3, TreeAssumption DEF Keys
<1> HIDE DEF d, e
<1>5. Below(d, s)
  BY <1>3, <1>4 DEF Below, e
<1> QED
  BY <1>5 DEF d

\* The frames left by a step that keeps none of them anew.
LEMMA KeptAsBefore ==
  ASSUME IInv, DInv, Next, NEW fs, frames' = fs,
         Len(fs) \in Nat, Len(fs) <= Len(frames), \A i \in 1..Len(fs) : fs[i] = frames[i]
  PROVE  FramesKept'
<1>1. Len(frames) \in Nat /\ FramesKept /\ (ok' => ok)
  BY FramesFact, Steady DEF IInv, DInv
<1>2. \A i \in 1..Len(fs) : i \in 1..Len(frames) /\ frames'[i] = frames[i]
  BY <1>1
<1>3. \A i, j \in 1..Len(frames') : i < j => Below(frames'[i].key, frames'[j].key)
  BY <1>1, <1>2 DEF FramesKept
<1>4. ASSUME ok', NEW i \in 1..Len(frames'), frames'[i].kept
      PROVE  \E j \in Keys : Below(frames'[i].key, j) /\ Stays(j)'
  <2>1. PICK j \in Keys : Below(frames[i].key, j) /\ Stays(j)
    BY <1>1, <1>2, <1>4 DEF FramesKept, Survived
  <2> QED  BY <1>2, <1>4, <2>1, StaysStep
<1> QED
  BY <1>3, <1>4 DEF FramesKept, Survived, Below

\* The frames left by a step that keeps the innermost for something beneath.
LEMMA KeptBySome ==
  ASSUME IInv, DInv, Next, NEW fs \in Seq(FrameType), frames' = MarkKept(fs),
         Len(fs) <= Len(frames), \A i \in 1..Len(fs) : fs[i].key = frames[i].key,
         NEW s \in Keys, ok' => Stays(s)', \A i \in 1..Len(fs) : Below(frames[i].key, s)
  PROVE  FramesKept'
<1>1. Len(frames) \in Nat /\ FramesKept
  BY FramesFact DEF IInv, DInv
<1>2. /\ Len(frames') = Len(fs) /\ Len(fs) \in Nat
      /\ \A i \in 1..Len(fs) : i \in 1..Len(frames) /\ frames'[i].key = frames[i].key
  BY <1>1, MarkKeptFact
<1>3. \A i, j \in 1..Len(frames') : i < j => Below(frames'[i].key, frames'[j].key)
  BY <1>1, <1>2 DEF FramesKept
<1>4. ASSUME ok', NEW i \in 1..Len(frames')
      PROVE  \E j \in Keys : Below(frames'[i].key, j) /\ Stays(j)'
  BY <1>2, <1>4
<1> QED
  BY <1>3, <1>4 DEF FramesKept, Survived, Below

\* Open frames lie behind the cursor and the stream.
LEMMA FrameBehind ==
  ASSUME IInv, NEW i \in 1..Len(frames)
  PROVE  /\ frames[i].key \in Keys /\ frames[i].key \in DirKeys
         /\ frames[i].key < head /\ frames[i].key < next
<1> DEFINE d == frames[i].key
<1>1. d \in DirKeys /\ d \in Keys
  BY FramesFact, TreeAssumption DEF IInv
<1>2. d \in Recorded /\ jrn[d] = Line("keep", rec[d])
  BY DEF IInv, FramesReserved
<1>3. jrn[d] # None
  <2>1. rec[d] # None
    BY <1>2 DEF Recorded
  <2>2. Line("keep", rec[d]) \in Lines
    BY <1>1, <2>1, LineType DEF IInv, Marks
  <2> QED  BY <1>2, <2>2, NoneAssumption
<1> HIDE DEF d
<1>4. d <= tail /\ tail < head /\ tail < next /\ d \in Int /\ tail \in Int
      /\ head \in Int /\ next \in Int
  BY <1>1, <1>3, TreeAssumption DEF IInv, Positions, TypeOK, Keys
<1> QED
  BY <1>1, <1>4 DEF d

\* Where the cursor or the stream is, every open frame is around it.
LEMMA Around ==
  ASSUME IInv, DInv, NEW s, (AtRecord /\ s = head) \/ (AtPair /\ s = next)
  PROVE  /\ s \in Keys /\ jrn[s] = None /\ ~OpenAt(s)
         /\ \A i \in 1..Len(frames) : Below(frames[i].key, s)
<1>1. s \in Keys /\ jrn[s] = None /\ s = Now /\ ~Passed
  <2>1. CASE AtRecord /\ s = head
    BY <2>1, AtRecordFact DEF Now, AtRecord
  <2>2. CASE AtPair /\ s = next
    <3>1. next \in Int /\ head \in Int /\ next <= head
      BY <2>2, AtPairFact, TreeAssumption DEF IInv, TypeOK
    <3> QED  BY <2>2, <3>1, AtPairFact DEF Now, AtPair
  <2> QED  BY <2>1, <2>2
<1>2. ~OpenAt(s)
  <2>1. \A i \in 1..Len(frames) :
          frames[i].key < head /\ frames[i].key < next
    BY FrameBehind
  <2>2. head \in Int /\ next \in Int
    BY TreeAssumption DEF IInv, TypeOK
  <2>3. s = head \/ s = next
    OBVIOUS
  <2>4. \A i \in 1..Len(frames) : frames[i].key # s
    <3> SUFFICES ASSUME NEW i \in 1..Len(frames), frames[i].key = s
                 PROVE  FALSE
      OBVIOUS
    <3>1. s < head /\ s < next
      BY <2>1
    <3> QED  BY <2>2, <2>3, <3>1
  <2> QED  BY <2>4 DEF OpenAt
<1>3. CASE frames = <<>>
  BY <1>1, <1>2, <1>3
<1>4. CASE frames # <<>>
  BY <1>1, <1>2, <1>4, BeneathAll DEF Passed
<1> QED
  BY <1>3, <1>4

\* A record kept as it is passed over, or behind its pair's kept object, stays.
LEMMA NewlyStays ==
  ASSUME IInv, DInv, Next, NEW s, (AtRecord /\ s = head) \/ (AtPair /\ s = next),
         s < head', s < next', loc[s] = None, rec[s] # None, UNCHANGED journal,
         frames' = MarkKept(frames)
  PROVE  Stays(s)'
<1>1. /\ s \in Keys /\ jrn[s] = None /\ ~OpenAt(s) /\ jrn' = jrn /\ rec' = rec /\ loc' = loc
  BY Around, Steady DEF journal
<1>2. ~OpenAt(s)'
  <2>1. frames \in Seq(FrameType)
    BY FramesFact DEF IInv
  <2> QED  BY <1>1, <2>1, MarkKeptFact DEF OpenAt
<1> QED
  BY <1>1, <1>2 DEF Stays, Merged

\* A record the cursor judges has nothing local at its key.
LEMMA JudgedGone ==
  ASSUME IInv, AtRecord, Judged(head), ok
  PROVE  loc[head] = None /\ obj[head] = None /\ head \notin Stream
<1>1. head \in Keys /\ head < next /\ head \in Int
  BY AtRecordFact, TreeAssumption DEF Keys
<1>2. head \notin Stream
  BY <1>1 DEF IInv, Lockstep
<1>3. Walked(head)
  BY <1>1 DEF Judged, Walked
<1> QED
  BY <1>1, <1>2, <1>3 DEF Stream, InStream

\* The same for the steps that keep a record or an orphan.
LEMMA KeptHere ==
  ASSUME IInv, DInv, Next, NEW s, (AtRecord /\ s = head) \/ (AtPair /\ s = next),
         frames' = MarkKept(frames), ok' => Stays(s)'
  PROVE  FramesKept'
<1>1. frames \in Seq(FrameType) /\ Len(frames) \in Nat
  BY FramesFact DEF IInv
<1>2. s \in Keys /\ \A i \in 1..Len(frames) : Below(frames[i].key, s)
  BY Around
<1> QED
  BY <1>1, <1>2, KeptBySome

\* The record of a closing frame stays, when the frame is not dropped.
LEMMA FrameStays ==
  ASSUME IInv, DInv, Next, Passed, UNCHANGED <<jrn, head, next>>,
         frames' = MarkKept(Front(frames)), NEW d, d = Last(frames).key
  PROVE  Stays(d)' /\ FramesKept'
<1>1. /\ d \in Keys /\ rec[d] # None /\ loc[d] = None /\ jrn[d] = Line("keep", rec[d])
      /\ d < head /\ d < next /\ \A i \in 1..(Len(frames)-1) : frames[i].key < d
      /\ rec' = rec /\ loc' = loc /\ frames # <<>> /\ frames \in Seq(FrameType)
  BY PassedFact, Steady DEF Recorded
<1> DEFINE fs == Front(frames)
<1>2. /\ fs \in Seq(FrameType) /\ Len(fs) \in Nat /\ Len(frames) \in Nat
      /\ Len(fs) = Len(frames) - 1 /\ Last(frames) = frames[Len(frames)]
      /\ \A i \in 1..Len(fs) : i \in 1..Len(frames) /\ i < Len(frames) /\ fs[i] = frames[i]
  <2>1. /\ fs \in Seq(FrameType) /\ Len(frames) \in Nat \ {0}
        /\ Len(fs) = Len(frames) - 1 /\ Last(frames) = frames[Len(frames)]
        /\ \A i \in 1..(Len(frames) - 1) : fs[i] = frames[i]
    BY <1>1, FrontFact
  <2> HIDE DEF fs
  <2> QED  BY <2>1
<1> HIDE DEF fs
<1>3. Len(frames') = Len(fs) /\ \A i \in 1..Len(fs) : frames'[i].key = frames[i].key
  BY <1>2, MarkKeptFact DEF fs
<1>4. ~OpenAt(d)'
  BY <1>1, <1>2, <1>3, TreeAssumption DEF OpenAt, Keys
<1>5. Merged(d) = rec[d]
  BY <1>1, LineFields DEF Merged
<1>6. Stays(d)'
  BY <1>1, <1>4, <1>5 DEF Stays, Merged
<1>7. \A i \in 1..Len(fs) : Below(frames[i].key, d)
  BY <1>2 DEF DInv, FramesKept
<1>8. frames' = MarkKept(fs) /\ Len(fs) <= Len(frames)
      /\ \A i \in 1..Len(fs) : fs[i].key = frames[i].key
  BY <1>2 DEF fs
<1> QED
  BY <1>1, <1>2, <1>6, <1>7, <1>8, KeptBySome

\* A record kept at the cursor by SkipGated or AskRecord.
LEMMA RecordStays ==
  ASSUME IInv, DInv, Next, AtRecord, NextRecord, Judged(head), next' = next, ok' = ok,
         UNCHANGED journal, frames' = MarkKept(frames)
  PROVE  FramesKept'
<1>1. head < head' /\ head < next' /\ rec[head] # None
  <2>1. head \in 0..N /\ head \in Int
    BY AtRecordFact, TreeAssumption DEF Keys
  <2> QED  BY <2>1, AtRecordFact, NextOfFact DEF NextRecord
<1>2. ok' => loc[head] = None
  BY JudgedGone
<1> QED
  BY <1>1, <1>2, NewlyStays, KeptHere

\* A record kept behind its pair by KeepOrphan or DeleteOrphan.
LEMMA OrphanStays ==
  ASSUME IInv, DInv, Next, AtOrphan, Consume, NEW g, NextPair(g), Old # None,
         UNCHANGED journal, frames' = MarkKept(frames)
  PROVE  FramesKept'
<1>1. AtPair /\ loc[next] = None /\ rec[next] # None
  BY AtPairFact DEF AtOrphan
<1>2. next < head' /\ next < next'
  BY <1>1, ConsumeFact, NextPairFact, Forward
<1> QED
  BY <1>1, <1>2, NewlyStays, KeptHere

\* A frame is marked kept only for something beneath it that stays
\* (_DirFrame.kept, _mark_record_kept).
THEOREM FramesKeptStep ==
  ASSUME IInv, DInv, Next
  PROVE  FramesKept'
<1>0. frames \in Seq(FrameType) /\ Len(frames) \in Nat
  BY FramesFact DEF IInv
<1>1. CASE frames' = frames
  BY <1>0, <1>1, KeptAsBefore
<1>2. CASE OpenFrame
  <2>1. AtRecord /\ frames' = Append(frames, [key |-> head, kept |-> FALSE])
    BY <1>2 DEF OpenFrame
  <2>2. /\ Len(frames') = Len(frames) + 1
        /\ frames'[Len(frames) + 1] = [key |-> head, kept |-> FALSE]
        /\ \A i \in 1..Len(frames) : frames'[i] = frames[i]
    BY <1>0, <2>1
  <2>3. \A i \in 1..Len(frames) : Below(frames[i].key, head)
    BY <2>1, Around
  <2>4. FramesKept /\ (ok' => ok)
    BY Steady DEF DInv
  <2>5. ASSUME NEW i \in 1..Len(frames'), NEW j \in 1..Len(frames'), i < j
        PROVE  Below(frames'[i].key, frames'[j].key)
    <3>1. i \in 1..Len(frames) /\ frames'[i] = frames[i]
      BY <1>0, <2>2, <2>5
    <3>2. CASE j \in 1..Len(frames)
      <4>1. frames'[j] = frames[j] /\ Below(frames[i].key, frames[j].key)
        BY <2>2, <2>4, <2>5, <3>1, <3>2 DEF FramesKept
      <4> QED  BY <3>1, <4>1
    <3>3. CASE j = Len(frames) + 1
      <4>1. frames'[j].key = head
        BY <2>2, <3>3
      <4> QED  BY <2>3, <3>1, <4>1
    <3> QED  BY <1>0, <2>2, <3>2, <3>3
  <2>6. ASSUME ok', NEW i \in 1..Len(frames'), frames'[i].kept
        PROVE  \E j \in Keys : Below(frames'[i].key, j) /\ Stays(j)'
    <3>1. i \in 1..Len(frames) /\ frames'[i] = frames[i]
      BY <1>0, <2>2, <2>6
    <3>2. PICK j \in Keys : Below(frames[i].key, j) /\ Stays(j)
      BY <2>4, <2>6, <3>1 DEF FramesKept, Survived
    <3> QED  BY <3>1, <3>2, StaysStep
  <2> QED  BY <2>5, <2>6 DEF FramesKept, Survived, Below
<1>3. CASE Passed /\ frames' = MarkKept(Front(frames)) /\ UNCHANGED <<jrn, head, next>>
  BY <1>3, FrameStays
<1>4. CASE Passed /\ frames' = Front(frames)
  <2>1. Len(Front(frames)) = Len(frames) - 1 /\ Len(frames) \in Nat \ {0}
        /\ \A i \in 1..(Len(frames) - 1) : Front(frames)[i] = frames[i]
    BY <1>0, <1>4, FrontFact DEF Passed
  <2> DEFINE fs == Front(frames)
  <2>2. Len(fs) \in Nat /\ Len(fs) <= Len(frames) /\ \A i \in 1..Len(fs) : fs[i] = frames[i]
    BY <2>1
  <2> HIDE DEF fs
  <2>3. frames' = fs
    BY <1>4 DEF fs
  <2> QED  BY <2>2, <2>3, KeptAsBefore
<1>5. CASE KeepFrame \/ RefuseFrame \/ AskFrame \/ QuitFrame
  <2>1. CASE KeepFrame \/ RefuseFrame
    BY <1>3, <2>1 DEF KeepFrame, RefuseFrame, journal
  <2>2. CASE AskFrame
    BY <1>3, <1>4, <2>2 DEF AskFrame
  <2>3. CASE QuitFrame
    BY <1>4, <2>3 DEF QuitFrame
  <2> QED  BY <1>5, <2>1, <2>2, <2>3
<1>6. CASE SkipGated
  BY <1>6, RecordStays DEF SkipGated, Kept
<1>7. CASE AskRecord
  <2>1. CASE UNCHANGED frames
    BY <1>1, <2>1
  <2>2. CASE Kept /\ UNCHANGED journal
    BY <1>7, <2>2, RecordStays DEF AskRecord, Kept
  <2> QED  BY <1>7, <2>1, <2>2 DEF AskRecord
<1>8. CASE SkipKept
  <2>1. frames = <<>>
    BY <1>0, <1>8, EmptySeq DEF SkipKept, IInv, FramesReserved
  <2> QED  BY <1>1, <1>8, <2>1 DEF SkipKept, Kept, MarkKept
<1>9. CASE KeepOrphan
  <2>1. CASE Old # None
    BY <1>9, <2>1, OrphanStays DEF KeepOrphan
  <2>2. CASE Old = None
    BY <1>1, <1>9, <2>2 DEF KeepOrphan
  <2> QED  BY <2>1, <2>2
<1>10. CASE DeleteOrphan
  <2>1. CASE Old # None /\ ~TakesRecord(Old)
    BY <1>10, <2>1, OrphanStays DEF DeleteOrphan
  <2>2. CASE Old = None \/ TakesRecord(Old)
    BY <1>1, <1>10, <2>2 DEF DeleteOrphan
  <2> QED  BY <2>1, <2>2
<1>11. CASE SkipOutside \/ DropStale \/ QuitRecord \/ Decide \/ RecordTarget \/ QuitOrphan
  BY <1>1, <1>11 DEF SkipOutside, DropStale, QuitRecord, Decide, RecordTarget, QuitOrphan
<1>12. CASE EndStream \/ SyncStops \/ Close \/ OfferObject \/ QuitOffer \/ DeleteOffered
  BY <1>1, <1>12 DEF EndStream, SyncStops, Close, OfferObject, QuitOffer, DeleteOffered, cursor
<1>13. CASE Finished
  BY <1>1, <1>13 DEF Finished, vars, cursor
<1> QED
  BY <1>2, <1>5, <1>6, <1>7, <1>8, <1>9, <1>10, <1>11, <1>12, <1>13 DEF Next

-----------------------------------------------------------------------------
(* Nothing --delete could remove is passed over in silence.                *)

\* An open frame that closes was kept, refused or answered.
LEMMA FrameCloses ==
  ASSUME IInv, DInv, Next, ok', NEW k \in Keys, OpenAt(k)
  PROVE  OpenAt(k)' \/ Survived(k) \/ k \in refused' \/ answer'[k] # "none"
<1>0. frames \in Seq(FrameType) /\ Len(frames) \in Nat
  BY FramesFact DEF IInv
<1>1. PICK i \in 1..Len(frames) : frames[i].key = k
  BY DEF OpenAt
<1>2. CASE Len(frames') \in Nat /\ Len(frames') >= Len(frames) /\ frames'[i].key = frames[i].key
  BY <1>0, <1>1, <1>2 DEF OpenAt
<1>3. CASE frames' = frames \/ frames' = MarkKept(frames)
  <2>1. Len(frames') = Len(frames) /\ frames'[i].key = frames[i].key
    BY <1>0, <1>3, MarkKeptFact
  <2> QED  BY <1>0, <1>2, <2>1
<1>4. CASE OpenFrame
  <2>1. frames' = Append(frames, [key |-> head, kept |-> FALSE])
    BY <1>4 DEF OpenFrame
  <2>2. Len(frames') = Len(frames) + 1 /\ frames'[i] = frames[i]
    BY <1>0, <2>1
  <2> QED  BY <1>0, <1>2, <2>2
<1>5. CASE KeepFrame \/ RefuseFrame \/ AskFrame
  <2>1. frames # <<>> /\ (frames' = Front(frames) \/ frames' = MarkKept(Front(frames)))
    BY <1>5 DEF KeepFrame, RefuseFrame, AskFrame, Passed
  <2>2. /\ Front(frames) \in Seq(FrameType) /\ Len(Front(frames)) = Len(frames) - 1
        /\ \A j \in 1..(Len(frames)-1) : Front(frames)[j] = frames[j]
        /\ Last(frames) = frames[Len(frames)] /\ Len(frames) \in Nat \ {0}
    BY <1>0, <2>1, FrontFact
  <2>3. CASE i < Len(frames)
    <3> DEFINE fs == Front(frames)
    <3>1. /\ fs \in Seq(FrameType) /\ Len(fs) \in Nat /\ i \in 1..Len(fs) /\ fs[i] = frames[i]
      BY <2>2, <2>3
    <3>2. frames' = fs \/ frames' = MarkKept(fs)
      BY <2>1
    <3> HIDE DEF fs
    <3>3. i \in 1..Len(frames') /\ frames'[i].key = k
      BY <1>1, <3>1, <3>2, MarkKeptFact
    <3> QED  BY <3>3 DEF OpenAt
  <2>4. CASE i = Len(frames)
    <3>0. k = Last(frames).key
      BY <1>1, <2>2, <2>4
    <3>1. CASE KeepFrame
      <4>1. frames[i].kept /\ ok
        BY <2>2, <2>4, <3>1, Steady DEF KeepFrame
      <4> QED  BY <1>1, <4>1 DEF DInv, FramesKept
    <3>2. CASE RefuseFrame
      BY <3>0, <3>2 DEF RefuseFrame, Refuse
    <3>3. CASE AskFrame
      <4>1. Answered(k, "yes") \/ Answered(k, "no")
        BY <3>0, <3>3 DEF AskFrame
      <4>2. answer'[k] = "yes" \/ answer'[k] = "no"
        BY <4>1, AnsweredFact
      <4> QED  BY <4>2
    <3> QED  BY <1>5, <3>1, <3>2, <3>3
  <2> QED  BY <1>0, <2>2, <2>3, <2>4
<1>6. CASE SkipOutside \/ SkipGated \/ DropStale \/ SkipKept \/ AskRecord
  BY <1>3, <1>6 DEF SkipOutside, SkipGated, DropStale, SkipKept, AskRecord, Kept
<1>7. CASE Decide \/ RecordTarget \/ KeepOrphan \/ DeleteOrphan
  BY <1>3, <1>7 DEF Decide, RecordTarget, KeepOrphan, DeleteOrphan
<1>8. CASE EndStream \/ Close \/ OfferObject \/ DeleteOffered \/ Finished
  BY <1>3, <1>8 DEF EndStream, Close, OfferObject, DeleteOffered, Finished, vars, cursor
<1>9. ~(QuitFrame \/ QuitRecord \/ QuitOrphan \/ QuitOffer \/ SyncStops)
  BY DEF QuitFrame, QuitRecord, QuitOrphan, QuitOffer, Quit, SyncStops
<1> QED
  BY <1>4, <1>5, <1>6, <1>7, <1>8, <1>9 DEF Next

\* A record with nothing local beside it was asked about, refused or kept for
\* what is beneath it.
THEOREM CandidatesAskedStep ==
  ASSUME IInv, DInv, Next
  PROVE  CandidatesAsked'
<1>0. SUFFICES ASSUME ok', opts.delete, NEW k \in Keys, Candidate(k)' PROVE Accounted(k)'
  BY Steady DEF CandidatesAsked
<1>1. /\ loc[k] = None /\ Judged(k) /\ Walked(k) /\ ok
      /\ IF obj[k] # None THEN k < next'
                          ELSE k < head' /\ rec[k] # None /\ rec[k].kind # "file"
  BY <1>0, Steady DEF Candidate
<1>2. CASE Candidate(k)
  <2>1. Accounted(k)
    BY <1>0, <1>1, <1>2 DEF DInv, CandidatesAsked
  <2>2. CASE answer[k] # "none" \/ k \in refused
    BY <2>2, ReportsStay DEF Accounted
  <2>3. CASE k \in DirKeys /\ Survived(k)
    BY <2>3, SurvivedStep DEF Accounted
  <2>4. CASE OpenAt(k)
    <3>1. k \in DirKeys
      BY <2>4, FrameBehind DEF OpenAt
    <3> QED  BY <1>0, <2>4, <3>1, FrameCloses, SurvivedStep DEF Accounted
  <2> QED  BY <2>1, <2>2, <2>3, <2>4 DEF Accounted
<1>3. CASE ~Candidate(k) /\ obj[k] # None
  <2>1. k \in Stream /\ ~(k < next)
    BY <1>1, <1>3 DEF Candidate, Stream, InStream
  <2>2. k = next /\ (KeepOrphan \/ DeleteOrphan)
    <3>1. k = next /\ (Decide \/ RecordTarget \/ KeepOrphan \/ DeleteOrphan)
      BY <1>0, <1>1, <1>3, <2>1, NewPair
    <3> QED  BY <1>1, <3>1 DEF Decide, RecordTarget, Walked, Entry
  <2>3. CASE Refuse(k)
    BY <2>3 DEF Refuse, Accounted
  <2>4. CASE Answered(k, "yes") \/ Answered(k, "no")
    <3>1. answer'[k] = "yes" \/ answer'[k] = "no"
      BY <2>4, AnsweredFact
    <3> QED  BY <3>1 DEF Accounted
  <2> QED  BY <1>0, <2>2, <2>3, <2>4 DEF KeepOrphan, DeleteOrphan
<1>4. CASE ~Candidate(k) /\ obj[k] = None
  <2>1. k \in Recorded /\ k \notin Stream /\ ~(k < head) /\ k < head'
    BY <1>1, <1>4 DEF Candidate, Recorded, Stream, InStream
  <2>2. /\ k = head
        /\ SkipOutside \/ SkipGated \/ DropStale \/ SkipKept \/ OpenFrame \/ AskRecord
    BY <1>0, <2>1, NewRecord
  <2>3. SkipGated \/ OpenFrame \/ AskRecord
    BY <1>0, <1>1, <1>4, <2>2 DEF SkipOutside, DropStale, SkipKept
  <2>4. CASE SkipGated
    BY <1>0, <1>1, <1>4, <2>2, <2>4 DEF SkipGated, Refuse, Accounted
  <2>5. CASE OpenFrame
    <3>1. frames' = Append(frames, [key |-> k, kept |-> FALSE])
      BY <2>2, <2>5 DEF OpenFrame
    <3>2. frames \in Seq(FrameType) /\ Len(frames) \in Nat
      BY FramesFact DEF IInv
    <3>3. Len(frames') = Len(frames) + 1 /\ frames'[Len(frames) + 1].key = k
      BY <3>1, <3>2
    <3> QED  BY <3>2, <3>3 DEF OpenAt, Accounted
  <2>6. CASE AskRecord
    <3>1. Answered(k, "yes") \/ Answered(k, "no")
      BY <2>2, <2>6 DEF AskRecord
    <3>2. answer'[k] = "yes" \/ answer'[k] = "no"
      BY <3>1, AnsweredFact
    <3> QED  BY <3>2 DEF Accounted
  <2> QED  BY <2>3, <2>4, <2>5, <2>6
<1> QED
  BY <1>2, <1>3, <1>4

-----------------------------------------------------------------------------
(* The invariant holds, and what it gives.                                 *)

\* DInv holds of every state of the journal.
THEOREM DecidedAlways == Spec => []DInv
<1>1. Init => DInv
  <2> SUFFICES ASSUME Init PROVE DInv
    OBVIOUS
  <2>1. /\ frames = <<>> /\ up = {} /\ spool = {} /\ condemned = {} /\ phase = "stream"
        /\ next \in NextOf(Stream, 0) /\ head \in NextOf(Recorded, 0)
    BY DEF Init
  <2>2. 0 \in 0..N /\ Stream \subseteq Keys /\ Recorded \subseteq Keys /\ Keys \subseteq Nat
        /\ \A k \in Keys : k > 0
    BY TreeAssumption DEF Stream, Recorded, Keys
  <2>3. (\A k \in Stream : ~(k < next)) /\ (\A k \in Recorded : ~(k < head))
    BY <2>1, <2>2, NextOfFact
  <2>4. Decided /\ StaleGone /\ Transfers /\ Ended
    BY <2>1, <2>3 DEF Decided, StaleGone, Transfers, Ended
  <2>5. FramesKept
    BY <2>1 DEF FramesKept
  <2>6. \A k \in Keys : ~Candidate(k)
    BY <2>2, <2>3 DEF Candidate, Judged, Walked, InStream, Stream, Recorded
  <2> QED  BY <2>4, <2>5, <2>6 DEF DInv, CandidatesAsked
<1>2. IInv /\ DInv /\ [Next]_vars => DInv'
  <2>1. ASSUME IInv, DInv, Next PROVE DInv'
    BY <2>1, DecidedStep, TransfersStep, StaleGoneStep, FramesKeptStep, CandidatesAskedStep,
       EndedStep DEF DInv
  <2>2. ASSUME DInv, UNCHANGED vars PROVE DInv'
    <3>1. DInv' <=> DInv
      BY <2>2 DEF vars, world, cursor, journal, outcome, DInv, Decided, VerdictAt, Transfers,
         StaleGone, FramesKept, Survived, Stays, Merged, OpenAt, Candidate, Accounted,
         CandidatesAsked, Ended, Pending, Dropped, Recorded, Stream, InStream, Walked, Named,
         Judged, Entry, NewLine
    <3> QED  BY <2>2, <3>1
  <2> QED  BY <2>1, <2>2
<1> QED
  BY <1>1, <1>2, Inductive, PTL DEF Spec

\* What a complete run has done at a walked key with something there.
LEMMA SettledPair ==
  ASSUME IInv, DInv, Complete, NEW k \in Keys, Walked(k), loc[k] # None
  PROVE  LET v == VerdictAt(k) IN
         /\ v.gap => gap
         /\ Merged(k) = LeftBy(v, rec[k], loc[k])
         /\ v.conflict => k \in warned
         /\ loc[k].kind = "file" =>
              k \notin condemned /\ ObjectAfter(k) = IF v.copy THEN loc[k].data ELSE obj[k]
         /\ RecordOf(loc[k]) # None
         /\ loc[k].kind \in Kinds /\ loc[k].mtime \in Int /\ loc[k].mtime # NoMtime
         /\ loc[k].kind = "file" => loc[k].data # None
<1>0. /\ phase = "done" /\ ok /\ next = N+1 /\ N \in Nat /\ k \in 1..N
  BY TreeAssumption DEF Complete, IInv, GateClosed, Keys
<1>1. k \in Stream /\ k < next
  BY <1>0 DEF Stream, InStream
<1>2. /\ VerdictAt(k).gap => gap
      /\ jrn[k] = IF VerdictAt(k).emit THEN NewLine(rec[k], k) ELSE None
      /\ k \in up <=> VerdictAt(k).copy
      /\ VerdictAt(k).conflict => k \in warned
  BY <1>0, <1>1 DEF DInv, Decided
<1>3. NewLine(rec[k], k) # None /\ RecordOf(loc[k]) # None
  <2>1. loc[k] \in Items
    BY DEF IInv, TypeOK, WellFormed, WorldType
  <2> QED  BY <2>1, LineType, NoneAssumption DEF IInv, Entries
<1>4. Merged(k) = LeftBy(VerdictAt(k), rec[k], loc[k])
  <2>1. CASE VerdictAt(k).emit
    BY <1>2, <1>3, <2>1, LineFields DEF Merged, LeftBy, NewLine
  <2>2. CASE ~VerdictAt(k).emit
    BY <1>2, <2>2 DEF Merged, LeftBy
  <2> QED  BY <2>1, <2>2
<1>5. loc[k].kind = "file" => k \notin condemned
  BY DEF DInv, Transfers
<1>6. loc[k].kind = "file" => ObjectAfter(k) = IF VerdictAt(k).copy THEN loc[k].data ELSE obj[k]
  BY <1>2, <1>5 DEF ObjectAfter
<1> QED
  BY <1>2, <1>3, <1>4, <1>5, <1>6, ItemFact DEF IInv

\* After a complete mirror push status shows nothing (compare_to_stat against
\* what _mirror_update, _create and the non-file lane record).
THEOREM StatusIsSettled == Spec => []StatusSettles
<1>1. IInv /\ DInv => StatusSettles
  <2> SUFFICES ASSUME IInv, DInv, Unscathed, ~opts.update, NEW k \in Keys, Walked(k),
                      loc[k] # None
               PROVE  Merged(k) # None /\ ~StatusShows(Merged(k), loc[k])
    BY DEF StatusSettles
  <2> QED  BY SettledPair, StatusVerdict DEF Unscathed, VerdictAt
<1> QED
  BY <1>1, Inductive, DecidedAlways, PTL

\* Under -u a difference that stays is the newer record's, or was warned about.
THEOREM ConflictsAreWarned == Spec => []ConflictsWarned
<1>1. IInv /\ DInv => ConflictsWarned
  <2> SUFFICES ASSUME IInv, DInv, Unscathed, opts.update, NEW k \in Keys, Walked(k),
                      loc[k] # None
               PROVE  \/ k \in warned
                      \/ rec[k] # None /\ OrderedSide(rec[k], loc[k]) = "record"
                      \/ Merged(k) # None /\ ~StatusShows(Merged(k), loc[k])
    BY DEF ConflictsWarned
  <2> QED  BY SettledPair, WarnedVerdict DEF Unscathed, VerdictAt
<1> QED
  BY <1>1, Inductive, DecidedAlways, PTL

\* A record with nothing local beside it keeps its object.
LEMMA AbsentBacked ==
  ASSUME IInv, DInv, Unscathed, NEW k \in Keys, Judged(k), loc[k] = None,
         Merged(k) # None, Merged(k).kind = "file"
  PROVE  ObjectAfter(k) # None
<1>0. phase = "done" /\ ok /\ ~gap /\ head = N+1 /\ N \in Nat /\ k \in 1..N /\ k < head
  BY TreeAssumption DEF Unscathed, Complete, DInv, Ended, Keys
<1>1. Merged(k) = rec[k] /\ rec[k] # None /\ ~Dropped(k)
  BY DEF Merged, Dropped, IInv, LinesMean, LineMeans
<1>2. k \in Stream
  BY <1>0, <1>1 DEF DInv, StaleGone, Recorded
<1>3. obj[k] # None
  BY <1>2 DEF Stream, InStream
<1>4. k \notin condemned
  BY <1>1 DEF IInv, CondemnedMean, TakesRecord
<1>5. k \notin up
  BY DEF DInv, Transfers
<1> QED
  BY <1>3, <1>4, <1>5 DEF ObjectAfter

\* A published manifest records no file whose object is missing, save where
\* -u lets the record win over a local non-file.
THEOREM RecordsAreBacked == Spec => []RecordsBacked
<1>1. IInv /\ DInv => RecordsBacked
  <2> SUFFICES ASSUME IInv, DInv, Unscathed, NEW k \in Keys, Judged(k), Merged(k) # None,
                      Merged(k).kind = "file"
               PROVE  \/ ObjectAfter(k) # None
                      \/ opts.update /\ loc[k] # None /\ loc[k].kind # "file"
    BY DEF RecordsBacked
  <2>1. CASE loc[k] = None
    BY <2>1, AbsentBacked
  <2>2. CASE loc[k] # None
    <3>1. Walked(k)
      BY DEF Judged, Walked
    <3>2. IF loc[k].kind = "file" THEN VerdictAt(k).copy \/ obj[k] # None ELSE opts.update
      BY <2>2, <3>1, SettledPair, BackedVerdict DEF Unscathed, VerdictAt
    <3> QED  BY <2>2, <3>1, <3>2, SettledPair DEF Unscathed
  <2> QED  BY <2>1, <2>2
<1> QED
  BY <1>1, Inductive, DecidedAlways, PTL

\* A second push finds nothing to journal and nothing to upload, and no file
\* record without its object.
THEOREM SecondPushIsIdle == Spec => []SecondPushIdle
<1>1. IInv /\ DInv => SecondPushIdle
  <2> DEFINE again(k) == Verdict(Merged(k), loc[k], ObjectAfter(k), opts, FALSE)
  <2>1. ASSUME IInv, DInv, Unscathed, NEW k \in Keys, Walked(k), loc[k] # None
        PROVE  ~again(k).emit /\ ~again(k).copy
    <3> DEFINE v == VerdictAt(k)
    <3>1. (k \in blind) \in BOOLEAN /\ v = Verdict(rec[k], loc[k], obj[k], opts, k \in blind)
      BY DEF VerdictAt
    <3>2. /\ ~v.gap /\ Merged(k) = LeftBy(v, rec[k], loc[k])
          /\ loc[k].kind = "file" => ObjectAfter(k) = IF v.copy THEN loc[k].data ELSE obj[k]
          /\ RecordOf(loc[k]) # None
          /\ loc[k].kind \in Kinds /\ loc[k].mtime \in Int /\ loc[k].mtime # NoMtime
          /\ loc[k].kind = "file" => loc[k].data # None
      BY <2>1, SettledPair DEF Unscathed
    <3> HIDE DEF v
    <3> DEFINE item == loc[k]
               m == Merged(k)
               left == ObjectAfter(k)
    <3>3. /\ item.kind \in Kinds /\ item.mtime \in Int /\ item.mtime # NoMtime
          /\ RecordOf(item) # None /\ ~v.gap /\ m = LeftBy(v, rec[k], item)
          /\ v = Verdict(rec[k], item, obj[k], opts, k \in blind)
      BY <3>1, <3>2
    <3>4. item.kind = "file" => item.data # None /\ left = IF v.copy THEN item.data ELSE obj[k]
      BY <3>2
    <3> HIDE DEF item, m, left
    <3>5. ~Verdict(m, item, left, opts, FALSE).emit /\ ~Verdict(m, item, left, opts, FALSE).copy
      BY <3>1, <3>3, <3>4, IdleVerdict
    <3> QED  BY <3>5 DEF item, m, left
  <2>2. ASSUME IInv, DInv, Unscathed, NEW k \in Keys, loc[k] = None, Judged(k),
               Merged(k) # None, Merged(k).kind = "file"
        PROVE  ObjectAfter(k) # None
    BY <2>2, AbsentBacked
  <2> QED  BY <2>1, <2>2 DEF SecondPushIdle
<1> QED
  BY <1>1, Inductive, DecidedAlways, PTL

\* What --delete keeps was answered for, counted as refused, or holds
\* something that stays.
THEOREM NothingKeptInSilence == Spec => []CandidatesAccounted
<1>1. IInv /\ DInv => CandidatesAccounted
  <2> SUFFICES ASSUME IInv, DInv, Complete, opts.delete, NEW k \in Keys,
                      loc[k] = None \/ k \in spool, Judged(k),
                      ~(obj[k] = None /\ (rec[k] = None \/ rec[k].kind = "file"))
               PROVE  \/ answer[k] # "none" \/ k \in refused
                      \/ k \in DirKeys /\ \E j \in Beneath(k) : loc[j] = None /\ Merged(j) # None
    BY DEF CandidatesAccounted
  <2>0. /\ phase = "done" /\ ok /\ head = N+1 /\ next = N+1 /\ frames = <<>> /\ Pending = {}
        /\ N \in Nat /\ k \in 1..N
    BY TreeAssumption DEF Complete, DInv, Ended, IInv, GateClosed, Keys
  <2>1. CASE k \in spool
    BY <2>0, <2>1 DEF Pending
  <2>2. CASE loc[k] = None
    <3>1. Candidate(k)
      BY <2>0, <2>2 DEF Candidate
    <3>2. Accounted(k) /\ ~OpenAt(k)
      BY <2>0, <3>1 DEF DInv, CandidatesAsked, OpenAt
    <3>3. ASSUME k \in DirKeys, Survived(k)
          PROVE  \E j \in Beneath(k) : loc[j] = None /\ Merged(j) # None
      <4>1. PICK j \in Keys : Below(k, j) /\ Stays(j)
        BY <3>3 DEF Survived
      <4>2. j \in Beneath(k)
        BY <2>0, <3>3, <4>1, TreeAssumption DEF Below, Beneath, Keys
      <4> QED  BY <4>1, <4>2 DEF Stays
    <3> QED  BY <3>2, <3>3 DEF Accounted
  <2> QED  BY <2>1, <2>2
<1> QED
  BY <1>1, Inductive, DecidedAlways, PTL
=============================================================================
