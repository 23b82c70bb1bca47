---------------------------- MODULE PushRun_proofs ----------------------------
(***************************************************************************)
(* Proofs about PushRun, for any number of leaves, edits and mishaps, and  *)
(* any mix of pushes.                                                      *)
(***************************************************************************)
EXTENDS PushRun, TLAPS

\* A manifest of a file records nothing below it, and none records nothing.
ManifestFits ==
  /\ man.kind = "none" => man = NoManifest
  /\ man.kind = "file" => \A k \in Leaves : man.rec[k] = None

\* Something stands at the path of a single-file entry.
Rooted == shape = "file" => loc[Own] # None

\* What a run deletes was agreed to, and what it uploads is there.
Justified == del \subseteq agreed /\ \A k \in up : loc[k] # None

\* A file that is to be recorded has its object, or will have, or lost it to a
\* deletion that was agreed to, or the run has failed.
Backed ==
  \A k \in Keys : run.new[k] # None /\ run.new[k].kind = "file" =>
    obj[k] # None \/ k \in up \/ k \in agreed \/ run.failed

\* No record is left out of what is to be published without a yes.
Losses == \A k \in Keys : man.rec[k] # None /\ run.new[k] = None => k \in agreed

\* What each phase finds.
PhaseFits ==
  /\ At("migrate") => agreed = Keys
  /\ At("scan") => /\ shape = "dir"
                   /\ \A k \in up \cup del : k < run.pos
                   /\ \A k \in Keys : run.old.rec[k] # None => run.old.rec[k] = man.rec[k]
  /\ At("file") => /\ shape = "file" /\ up = {} /\ del = {}
                   /\ agreed = Keys \/ \A k \in Leaves : man.rec[k] = None
  /\ At("done") => up = {} /\ del = {}
  /\ shape = "file" /\ ~At("migrate") => \A k \in Leaves : run.new[k] = None

Running == run \in Runs => Backed /\ Losses /\ PhaseFits
Inv == TypeOK /\ FailOld /\ ManifestFits /\ Rooted /\ Justified /\ Running

USE DEF tree, moving

-----------------------------------------------------------------------------
(* Items, records and verdicts.                                            *)

LEMMA KeysAreNat == /\ N \in Nat \ {0} /\ Keys \subseteq Nat /\ Own \in Keys /\ Leaves \subseteq Keys
                    /\ Own \notin Leaves /\ \A k \in Keys : k \in Leaves \/ k = Own
  BY RunAssumption DEF Keys, Leaves, Own

\* An item's record is of its kind, and none of them is None.
LEMMA ItemRecord ==
  ASSUME NEW i \in Items
  PROVE  /\ i # None /\ i.data \in Ticks /\ i.data # None
         /\ RecordOf(i) \in Records /\ RecordOf(i) # None /\ RecordOf(i).kind = i.kind
  <1>1. RecordOf(i) \in Records
    BY DEF Records
  <1>2. RecordOf(i).kind = i.kind
    BY DEF RecordOf
  <1>3. i.data \in Ticks
    BY DEF Items, FileAt, LinkAt
  <1>. QED BY <1>1, <1>2, <1>3, RunAssumption

\* No push is a run that is not there.
LEMMA NoRunIsNone == NoRun \notin Runs
  <1>1. \A r \in Runs : r.phase # "idle"
    BY DEF Runs
  <1>. QED BY <1>1 DEF NoRun

LEMMA Said ==
  /\ Leave.emit = FALSE /\ Conflict(TRUE).emit = FALSE
  /\ Refresh.emit = TRUE
  /\ Upload.emit = TRUE /\ Upload.copy = TRUE
  BY DEF Leave, Conflict, Refresh, Upload, Says

\* A file is recorded without an upload only over an object.
LEMMA RefreshNeedsObject ==
  ASSUME NEW old, NEW item, item.kind = "file", NEW o, NEW p,
         Verdict(old, item, o, p, FALSE).emit, ~Verdict(old, item, o, p, FALSE).copy
  PROVE  o # None
  <1>. SUFFICES ASSUME o = None PROVE FALSE
    OBVIOUS
  <1>1. Verdict(old, item, o, p, FALSE) = CreateFile(old, item, p, FALSE)
    BY DEF Verdict
  <1>. DEFINE ordered == p.update /\ old # None /\ old.kind # "file"
              side    == OrderedSide(old, item)
  <1>2. \/ CreateFile(old, item, p, FALSE) = Leave
        \/ CreateFile(old, item, p, FALSE) = Conflict(TRUE)
        \/ CreateFile(old, item, p, FALSE) = Upload
    <2>1. CASE ordered /\ side = "record"
      BY <2>1 DEF CreateFile
    <2>2. CASE ordered /\ side = "tie"
      BY <2>2 DEF CreateFile
    <2>3. CASE ~(ordered /\ side = "record") /\ ~(ordered /\ side = "tie")
      BY <2>3 DEF CreateFile, Probed
    <2>. HIDE DEF ordered, side
    <2>. QED BY <2>1, <2>2, <2>3
  <1>. QED BY <1>1, <1>2, Said, Zenon

LEMMA FileVerdictRefresh ==
  ASSUME NEW r, NEW item, NEW o, NEW p
  PROVE  /\ FileVerdict(r, item, o, p).emit \in BOOLEAN
         /\ FileVerdict(r, item, o, p).emit /\ ~FileVerdict(r, item, o, p).copy => o # None
  <1>. DEFINE v == FileVerdict(r, item, o, p)
  <1>1. v = Leave \/ v = Refresh \/ v = Upload
    <2>1. CASE r = None
      BY <2>1 DEF FileVerdict
    <2>2. CASE r # None /\ p.update
      BY <2>2 DEF FileVerdict
    <2>3. CASE r # None /\ ~p.update
      BY <2>3 DEF FileVerdict
    <2>. QED BY <2>1, <2>2, <2>3
  <1>2. o = None => v = Leave \/ v = Upload
    <2>. SUFFICES ASSUME o = None PROVE v = Leave \/ v = Upload
      OBVIOUS
    <2>1. CASE r = None
      BY <2>1 DEF FileVerdict
    <2>2. CASE r # None /\ p.update
      BY <2>2 DEF FileVerdict
    <2>3. CASE r # None /\ ~p.update
      BY <2>3 DEF FileVerdict
    <2>. QED BY <2>1, <2>2, <2>3
  <1>3. v.emit \in BOOLEAN
    BY <1>1, Said, Zenon
  <1>4. v.emit /\ ~v.copy => o # None
    BY <1>1, <1>2, Said, Zenon
  <1>. QED BY <1>3, <1>4

-----------------------------------------------------------------------------
(* The initial states and the edits between runs.                          *)

LEMMA Initially == Init => Inv
  <1>. SUFFICES ASSUME Init PROVE Inv
    OBVIOUS
  <1>1. /\ run = NoRun /\ run \notin Runs /\ up = {} /\ del = {} /\ agreed = {} /\ mishaps = 0
        /\ man = NoManifest /\ clock = 1 /\ shape \in Shapes
    BY NoRunIsNone DEF Init
  <1>2. clock \in Ticks /\ FileAt(1) \in Items /\ LinkAt(1) \in Items
    BY <1>1, RunAssumption DEF Ticks, Items
  <1>3. loc \in [Keys -> Items \cup {None}]
    BY <1>2 DEF Init, Alone, Blanks
  <1>4. Blanks \in [Keys -> Records \cup {None}] /\ obj = Blanks /\ aside = Blanks
    BY DEF Blanks, Init
  <1>5. TypeOK
    BY <1>1, <1>2, <1>3, <1>4, RunAssumption DEF TypeOK, Manifests, NoManifest, Idle, Blanks
  <1>6. FailOld /\ ManifestFits /\ Justified /\ Running
    BY <1>1 DEF FailOld, Retired, ManifestFits, Justified, Running, NoManifest, Blanks, Leaves, Keys
  <1>7. Rooted
    BY <1>2, ItemRecord, KeysAreNat DEF Init, Rooted, Alone, Blanks
  <1>. QED BY <1>5, <1>6, <1>7 DEF Inv

\* Without a run, the backup alone decides.
LEMMA EditsKeep ==
  ASSUME Inv, Idle, UNCHANGED Remote, shape' \in Shapes, clock' \in Ticks,
         loc' \in [Keys -> Items \cup {None}], aside' \in [Keys -> Items \cup {None}], Rooted'
  PROVE  Inv'
  <1>1. run \notin Runs /\ up = {} /\ del = {}
    BY NoRunIsNone DEF Inv, TypeOK, Idle
  <1>2. TypeOK'
    BY <1>1 DEF Inv, TypeOK, Remote, Idle
  <1>3. FailOld' /\ ManifestFits'
    BY DEF Inv, FailOld, Retired, ManifestFits, Remote
  <1>4. Justified' /\ Running'
    BY <1>1 DEF Inv, Justified, Running, Remote
  <1>. QED BY <1>2, <1>3, <1>4 DEF Inv

\* The clock's ticks make items.
LEMMA TickItems ==
  ASSUME NEW t \in Ticks
  PROVE  FileAt(t) \in Items /\ LinkAt(t) \in Items
  BY DEF Items

LEMMA ClockTicks ==
  ASSUME Inv, clock < MaxClock, clock' = clock + 1
  PROVE  clock' \in Ticks
  BY RunAssumption DEF Inv, TypeOK, Ticks

LEMMA EditLeafKeeps == ASSUME Inv, EditLeaf PROVE Inv'
  <1>1. clock' \in Ticks
    BY ClockTicks DEF EditLeaf
  <1>. PICK k \in Leaves, i \in {None, FileAt(clock'), LinkAt(clock')} :
         /\ loc' = [loc EXCEPT ![k] = i]
         /\ aside' = [aside EXCEPT ![k] = IF i = None THEN loc[k] ELSE None]
    BY DEF EditLeaf
  <1>a. i \in Items \cup {None} /\ k \in Keys
    BY <1>1, TickItems, KeysAreNat
  <1>2. /\ loc' \in [Keys -> Items \cup {None}] /\ aside' \in [Keys -> Items \cup {None}]
        /\ shape' = shape
    BY <1>a DEF EditLeaf, Inv, TypeOK
  <1>3. Rooted'
    BY <1>2 DEF EditLeaf, Rooted
  <1>. QED BY <1>1, <1>2, <1>3, EditsKeep DEF EditLeaf, Inv, TypeOK

LEMMA EditRootKeeps == ASSUME Inv, EditRoot PROVE Inv'
  <1>1. clock' \in Ticks
    BY ClockTicks DEF EditRoot
  <1>2. shape' \in Shapes
    BY DEF EditRoot, Shapes
  <1>3. loc' \in [Keys -> Items \cup {None}]
    BY <1>1, TickItems DEF EditRoot, Alone, Blanks
  <1>4. aside' \in [Keys -> Items \cup {None}]
    BY DEF EditRoot, Inv, TypeOK
  <1>5. Rooted'
    <2>1. FileAt(clock') # None
      BY <1>1, TickItems, ItemRecord
    <2>. QED BY <2>1, KeysAreNat DEF EditRoot, Rooted, Alone, Blanks
  <1>. QED BY <1>1, <1>2, <1>3, <1>4, <1>5, EditsKeep DEF EditRoot

LEMMA MoveLeafBackKeeps == ASSUME Inv, MoveLeafBack PROVE Inv'
  <1>1. loc' \in [Keys -> Items \cup {None}] /\ aside' \in [Keys -> Items \cup {None}]
    BY KeysAreNat DEF MoveLeafBack, Inv, TypeOK
  <1>2. Rooted'
    BY DEF MoveLeafBack, Rooted
  <1>. QED BY <1>1, <1>2, EditsKeep DEF MoveLeafBack, Inv, TypeOK

LEMMA MoveRootBackKeeps == ASSUME Inv, MoveRootBack PROVE Inv'
  <1>1. aside' \in [Keys -> Items \cup {None}] /\ shape' \in Shapes
    BY DEF MoveRootBack, Blanks, Shapes
  <1>2. loc' \in [Keys -> Items \cup {None}]
    BY KeysAreNat DEF MoveRootBack, Alone, Blanks, Inv, TypeOK
  <1>3. Rooted'
    BY KeysAreNat DEF MoveRootBack, Rooted, Alone, Blanks
  <1>. QED BY <1>1, <1>2, <1>3, EditsKeep DEF MoveRootBack, Inv, TypeOK

-----------------------------------------------------------------------------
(* A run starts, and migrates.                                             *)

Walks == {"migrate", "scan", "file"}

LEMMA StartedRun ==
  ASSUME NEW o \in PushOptions, NEW m \in Manifests, NEW p \in Walks, NEW h \in SUBSET Leaves,
         shape \in Shapes
  PROVE  Started(o, m, p, h) \in Runs
  <1>1. 1 \in 1..N + 1
    BY RunAssumption
  <1>2. m.rec \in [Keys -> Records \cup {None}]
    BY DEF Manifests
  <1>. QED BY <1>1, <1>2 DEF Started, Runs, Walks

LEMMA AtRuns ==
  ASSUME Inv, NEW p, At(p), p # "idle"
  PROVE  run \in Runs /\ run.phase = p /\ ~Idle
  BY NoRunIsNone DEF Inv, TypeOK, At, Idle, NoRun

LEMMA BeginKeeps == ASSUME Inv, NEW o \in Pushes, Begin(o) PROVE Inv'
  <1>1. /\ o \in PushOptions /\ man \in Manifests /\ shape \in Shapes /\ up = {} /\ del = {}
        /\ UNCHANGED <<tree, obj, man, up>>
    BY NoRunIsNone, RunAssumption DEF Begin, Idle, Inv, TypeOK
  <1>2. PICK h \in SUBSET Leaves :
          /\ run' = Started(o, man, IF Migrates THEN "migrate" ELSE Walk, h)
          /\ IF h = {} THEN UNCHANGED mishaps ELSE shape = "dir" /\ Mishap
    BY DEF Begin
  <1>3. mishaps' \in 0..MaxMishaps
    BY <1>2, RunAssumption DEF Mishap, Inv, TypeOK
  <1>4. CASE Migrates
    <2>1. agreed' = Keys /\ del' = {k \in Keys : obj[k] # None}
      BY <1>4 DEF Begin
    <2>2. run' \in Runs /\ run'.phase = "migrate" /\ run'.new = man.rec /\ run'.failed = FALSE
      <3>1. (IF Migrates THEN "migrate" ELSE Walk) = "migrate"
        BY <1>4
      <3>2. run' = Started(o, man, "migrate", h)
        BY <1>2, <3>1, Zenon
      <3>3. "migrate" \in Walks
        BY DEF Walks
      <3>4. /\ o \in PushOptions /\ man \in Manifests /\ h \in SUBSET Leaves /\ shape \in Shapes
        BY <1>1
      <3>5. run' \in Runs
        BY <3>2, <3>3, <3>4, StartedRun
      <3>. QED BY <3>2, <3>5 DEF Started
    <2>3. TypeOK'
      BY <1>1, <1>3, <2>1, <2>2 DEF Inv, TypeOK
    <2>4. FailOld' /\ ManifestFits' /\ Rooted' /\ Justified'
      BY <1>1, <2>1 DEF Inv, FailOld, ManifestFits, Rooted, Justified
    <2>5. Running'
      BY <1>1, <2>1, <2>2 DEF Running, Backed, Losses, PhaseFits, At
    <2>. QED BY <2>3, <2>4, <2>5 DEF Inv
  <1>5. CASE ~Migrates
    <2>1. agreed' = {k \in agreed : Retired(k)} /\ del' = del
      BY <1>5 DEF Begin
    <2>2. /\ run' \in Runs /\ run'.phase = Walk /\ run'.new = man.rec /\ run'.failed = FALSE
          /\ run'.old = man
      <3>1. (IF Migrates THEN "migrate" ELSE Walk) = Walk
        BY <1>5
      <3>2. run' = Started(o, man, Walk, h)
        BY <1>2, <3>1, Zenon
      <3>3. Walk \in Walks
        BY DEF Walk, Walks
      <3>4. /\ o \in PushOptions /\ man \in Manifests /\ h \in SUBSET Leaves /\ shape \in Shapes
        BY <1>1
      <3>5. run' \in Runs
        BY <3>2, <3>3, <3>4, StartedRun
      <3>. QED BY <3>2, <3>5 DEF Started
    <2>3. TypeOK'
      BY <1>1, <1>3, <2>1, <2>2 DEF Inv, TypeOK
    <2>4. FailOld' /\ ManifestFits' /\ Rooted' /\ Justified'
      BY <1>1, <2>1 DEF Inv, FailOld, Retired, ManifestFits, Rooted, Justified
    <2>5. Backed'
      BY <1>1, <2>1, <2>2 DEF Inv, FailOld, Retired, Backed
    <2>6. Losses'
      BY <1>1, <2>2 DEF Losses
    <2>7. shape = "file" => \A k \in Leaves : man.rec[k] = None
      BY <1>5, KeysAreNat DEF Migrates, Inv, ManifestFits, NoManifest, Blanks
    <2>8. PhaseFits'
      BY <1>1, <2>1, <2>2, <2>7 DEF PhaseFits, At, Walk, Inv, TypeOK, Shapes
    <2>. QED BY <2>3, <2>4, <2>5, <2>6, <2>8 DEF Inv, Running
  <1>. QED BY <1>4, <1>5

\* A run that gives up leaves the backup as it is.
LEMMA GiveUpKeeps ==
  ASSUME Inv, run' = NoRun, up' = {}, del' = {}, UNCHANGED <<tree, obj, man, agreed>>,
         mishaps' \in 0..MaxMishaps
  PROVE  Inv'
  <1>1. run' \notin Runs /\ Idle'
    BY NoRunIsNone DEF Idle, Runs
  <1>2. TypeOK'
    BY <1>1 DEF Inv, TypeOK
  <1>. QED BY <1>1, <1>2 DEF Inv, FailOld, Retired, ManifestFits, Rooted, Justified, Running

LEMMA MigratedKeeps == ASSUME Inv, Migrated PROVE Inv'
  <1>1. run \in Runs /\ run.phase = "migrate"
    BY AtRuns DEF Migrated
  <1>2. agreed = Keys /\ up = {} /\ del = {} /\ UNCHANGED <<tree, obj, man, moving, agreed, mishaps>>
    BY <1>1 DEF Migrated, Landed, Inv, Running, PhaseFits, At
  <1>3. CASE run.failed
    BY <1>2, <1>3, GiveUpKeeps DEF Migrated, Inv, TypeOK
  <1>4. CASE ~run.failed
    <2>1. NoManifest \in Manifests /\ run.opts \in PushOptions /\ run.unseen \in SUBSET Leaves
      BY <1>1 DEF NoManifest, Manifests, Blanks, Runs
    <2>2. run' \in Runs /\ run'.phase = Walk /\ run'.new = Blanks /\ run'.old = NoManifest
      <3>1. run' = Started(run.opts, NoManifest, Walk, run.unseen) /\ Walk \in Walks
        <4>1. Walk \in Walks
          BY DEF Walk, Walks
        <4>. QED BY <1>4, <4>1 DEF Migrated
      <3>2. NoManifest.rec = Blanks
        BY DEF NoManifest
      <3>3. shape \in Shapes
        BY DEF Inv, TypeOK
      <3>4. run' \in Runs
        BY <2>1, <3>1, <3>3, StartedRun
      <3>. QED BY <3>1, <3>2, <3>4 DEF Started
    <2>3. TypeOK' /\ FailOld' /\ ManifestFits' /\ Rooted' /\ Justified'
      BY <1>2, <2>2 DEF Inv, TypeOK, FailOld, Retired, ManifestFits, Rooted, Justified
    <2>4. Backed' /\ Losses'
      BY <1>2, <2>2 DEF Backed, Losses, Blanks
    <2>5. PhaseFits'
      BY <1>2, <2>2, KeysAreNat DEF PhaseFits, At, Walk, Blanks, NoManifest, Inv, TypeOK, Shapes
    <2>. QED BY <2>3, <2>4, <2>5 DEF Inv, Running
  <1>. QED BY <1>3, <1>4

-----------------------------------------------------------------------------
(* What lands, and what fails.                                             *)

LEMMA Moving ==
  ASSUME Inv, NEW k \in up \cup del
  PROVE  k \in Keys /\ run \in Runs
  BY DEF Inv, TypeOK

LEMMA PutKeeps == ASSUME Inv, Put PROVE Inv'
  <1>1. PICK k \in up : obj' = [obj EXCEPT ![k] = loc[k].data] /\ up' = up \ {k}
    BY DEF Put
  <1>2. k \in Keys /\ run \in Runs /\ UNCHANGED <<tree, man, run, del, agreed, mishaps>>
    BY Moving DEF Put
  <1>3. loc[k].data \in Ticks /\ loc[k].data # None
    BY <1>2, ItemRecord DEF Inv, TypeOK, Justified
  <1>4. /\ obj' \in [Keys -> Ticks \cup {None}] /\ obj'[k] # None
        /\ \A j \in Keys : j # k => obj'[j] = obj[j]
    BY <1>1, <1>2, <1>3 DEF Inv, TypeOK
  <1>5. TypeOK'
    BY <1>1, <1>2, <1>4 DEF Inv, TypeOK
  <1>6. FailOld' /\ ManifestFits' /\ Rooted' /\ Justified'
    BY <1>1, <1>2, <1>4 DEF Inv, FailOld, Retired, ManifestFits, Rooted, Justified
  <1>7. Backed' /\ Losses' /\ PhaseFits'
    BY <1>1, <1>2, <1>4 DEF Inv, Running, Backed, Losses, PhaseFits, At
  <1>. QED BY <1>5, <1>6, <1>7 DEF Inv, Running

LEMMA DeleteKeeps == ASSUME Inv, Delete PROVE Inv'
  <1>1. PICK k \in del : obj' = [obj EXCEPT ![k] = None] /\ del' = del \ {k}
    BY DEF Delete
  <1>2. k \in Keys /\ run \in Runs /\ UNCHANGED <<tree, man, run, up, agreed, mishaps>>
    BY Moving DEF Delete
  <1>3. k \in agreed
    BY DEF Inv, Justified
  <1>4. obj' \in [Keys -> Ticks \cup {None}] /\ \A j \in Keys : j # k => obj'[j] = obj[j]
    BY <1>1, <1>2 DEF Inv, TypeOK
  <1>5. TypeOK'
    BY <1>1, <1>2, <1>4 DEF Inv, TypeOK
  <1>6. FailOld' /\ ManifestFits' /\ Rooted' /\ Justified'
    BY <1>1, <1>2, <1>3, <1>4 DEF Inv, FailOld, Retired, ManifestFits, Rooted, Justified
  <1>7. Backed' /\ Losses' /\ PhaseFits'
    BY <1>1, <1>2, <1>3, <1>4 DEF Inv, Running, Backed, Losses, PhaseFits, At
  <1>. QED BY <1>5, <1>6, <1>7 DEF Inv, Running

LEMMA FailKeeps == ASSUME Inv, Fail PROVE Inv'
  <1>1. PICK k \in up \cup del : up' = up \ {k} /\ del' = del \ {k}
    BY DEF Fail
  <1>2. run \in Runs /\ run' = [run EXCEPT !.failed = TRUE] /\ UNCHANGED <<tree, obj, man, agreed>>
    BY Moving DEF Fail
  <1>3. /\ run' \in Runs /\ run'.failed = TRUE /\ run'.new = run.new /\ run'.phase = run.phase
        /\ run'.pos = run.pos /\ run'.old = run.old
    BY <1>2 DEF Runs
  <1>4. mishaps' \in 0..MaxMishaps
    BY RunAssumption DEF Fail, Mishap, Inv, TypeOK
  <1>5. TypeOK'
    BY <1>1, <1>2, <1>3, <1>4 DEF Inv, TypeOK
  <1>6. FailOld' /\ ManifestFits' /\ Rooted' /\ Justified'
    BY <1>1, <1>2 DEF Inv, FailOld, Retired, ManifestFits, Rooted, Justified
  <1>7. Backed' /\ Losses' /\ PhaseFits'
    BY <1>1, <1>2, <1>3 DEF Inv, Running, Backed, Losses, PhaseFits, At
  <1>. QED BY <1>5, <1>6, <1>7 DEF Inv, Running

-----------------------------------------------------------------------------
(* The scan.                                                               *)

\* The key that is scanned is a leaf.
LEMMA ScanKey ==
  ASSUME Inv, Scanning
  PROVE  /\ run \in Runs /\ run.phase = "scan" /\ run.pos \in Leaves /\ run.pos \in Keys
         /\ run.pos + 1 \in 1..N + 1 /\ shape = "dir"
         /\ \A k \in up \cup del : k < run.pos
         /\ Backed /\ Losses /\ PhaseFits
  <1>1. run \in Runs /\ run.phase = "scan"
    BY AtRuns DEF Scanning
  <1>2. run.pos \in 1..N + 1
    BY <1>1 DEF Runs
  <1>3. run.pos \in Leaves /\ run.pos \in Keys /\ run.pos + 1 \in 1..N + 1
    BY <1>2, RunAssumption DEF Leaves, Keys, Scanning
  <1>. QED BY <1>1, <1>3 DEF Inv, Running, PhaseFits, At

LEMMA ScanItemKeeps == ASSUME Inv, ScanItem PROVE Inv'
  <1>. DEFINE k == run.pos
              v == Verdict(run.old.rec[k], loc[k], obj[k], run.opts, FALSE)
  <1>1. /\ run \in Runs /\ run.phase = "scan" /\ k \in Leaves /\ k \in Keys /\ k + 1 \in 1..N + 1
        /\ shape = "dir" /\ (\A j \in up \cup del : j < k) /\ Backed /\ Losses /\ PhaseFits
    BY ScanKey DEF ScanItem
  <1>2. /\ loc[k] \in Items /\ loc[k] # None /\ UNCHANGED <<tree, obj, man, del, agreed, mishaps>>
        /\ up' = IF v.copy THEN up \cup {k} ELSE up
    BY <1>1 DEF ScanItem, Item, Inv, TypeOK
  <1>3. /\ run' \in Runs /\ run'.pos = k + 1 /\ run'.phase = run.phase /\ run'.old = run.old
        /\ run'.failed = run.failed
        /\ run'.new = [run.new EXCEPT ![k] = IF v.emit THEN RecordOf(loc[k]) ELSE @]
    <2>1. run' = [run EXCEPT !.pos = k + 1,
                             !.new[k] = IF v.emit THEN RecordOf(loc[k]) ELSE @,
                             !.changed = @ \/ v.emit,
                             !.spool = IF ShieldsObject(loc[k], obj[k], run.opts, v)
                                       THEN @ \cup {k} ELSE @]
      BY DEF ScanItem
    <2>2. RecordOf(loc[k]) \in Records
      BY <1>2, ItemRecord
    <2>. HIDE DEF v
    <2>3. /\ run'.pos = k + 1 /\ run'.phase = run.phase /\ run'.old = run.old
          /\ run'.failed = run.failed
          /\ run'.new = [run.new EXCEPT ![k] = IF v.emit THEN RecordOf(loc[k]) ELSE @]
      BY <1>1, <2>1 DEF Runs
    <2>4. run' \in Runs
      BY <1>1, <2>1, <2>2 DEF Runs
    <2>. QED BY <2>3, <2>4
  <1>4. \A j \in Keys : run'.new[j] = IF j = k /\ v.emit THEN RecordOf(loc[k]) ELSE run.new[j]
    BY <1>1, <1>3 DEF Runs
  <1>5. RecordOf(loc[k]) # None /\ RecordOf(loc[k]).kind = loc[k].kind
    BY <1>2, ItemRecord
  <1>6. loc[k].kind = "file" /\ v.emit => v.copy \/ obj[k] # None
    BY RefreshNeedsObject
  <1>. HIDE DEF v
  <1>7. /\ k \notin del /\ up' \subseteq up \cup {k} /\ up' \subseteq Keys
        /\ \A j \in up' \cup del : j < k + 1
    <2>1. k \in Nat /\ up \subseteq Keys /\ del \subseteq Keys /\ Keys \subseteq Nat
      BY <1>1, KeysAreNat DEF Inv, TypeOK
    <2>2. k \notin del
      BY <1>1, <2>1
    <2>3. up' \subseteq up \cup {k}
      BY <1>2
    <2>4. \A j \in up' \cup del : j \in Nat /\ (j < k \/ j = k)
      BY <1>1, <2>1, <2>3
    <2>. QED BY <1>1, <2>1, <2>2, <2>3, <2>4
  <1>8. TypeOK'
    BY <1>1, <1>2, <1>3, <1>7 DEF Inv, TypeOK
  <1>9. FailOld' /\ ManifestFits' /\ Rooted' /\ Justified'
    BY <1>2 DEF Inv, FailOld, Retired, ManifestFits, Rooted, Justified
  <1>10. Backed'
    BY <1>1, <1>2, <1>3, <1>4, <1>5, <1>6 DEF Backed
  <1>11. Losses'
    BY <1>1, <1>2, <1>4, <1>5 DEF Losses
  <1>12. PhaseFits'
    BY <1>1, <1>2, <1>3, <1>7 DEF PhaseFits, At
  <1>. QED BY <1>8, <1>9, <1>10, <1>11, <1>12 DEF Inv, Running

LEMMA ScanNothingKeeps == ASSUME Inv, ScanNothing PROVE Inv'
  <1>. DEFINE k == run.pos
              r == run.old.rec[k]
  <1>1. /\ run \in Runs /\ run.phase = "scan" /\ k \in Leaves /\ k \in Keys /\ k + 1 \in 1..N + 1
        /\ shape = "dir" /\ (\A j \in up \cup del : j < k) /\ Backed /\ Losses /\ PhaseFits
    BY ScanKey DEF ScanNothing
  <1>2. PICK yes \in SUBSET Backup(k, r) :
          /\ agreed' = IF yes = {} THEN agreed ELSE agreed \cup {k}
          /\ del' = IF "object" \in yes THEN del \cup {k} ELSE del
          /\ run' = IF Drops(k, r, yes)
                    THEN [run EXCEPT !.pos = k + 1, !.new[k] = None, !.changed = TRUE]
                    ELSE [run EXCEPT !.pos = k + 1]
    BY DEF ScanNothing
  <1>3. UNCHANGED <<tree, obj, man, up, mishaps>>
    BY DEF ScanNothing
  <1>4. /\ run' \in Runs /\ run'.pos = k + 1 /\ run'.phase = run.phase /\ run'.old = run.old
        /\ run'.failed = run.failed
        /\ \A j \in Keys : run'.new[j] = IF j = k /\ Drops(k, r, yes) THEN None ELSE run.new[j]
    <2>1. CASE Drops(k, r, yes)
      BY <1>1, <1>2, <2>1 DEF Runs
    <2>2. CASE ~Drops(k, r, yes)
      BY <1>1, <1>2, <2>2 DEF Runs
    <2>. QED BY <2>1, <2>2
  <1>5. agreed \subseteq agreed' /\ agreed' \subseteq Keys /\ (yes # {} => k \in agreed')
    BY <1>1, <1>2 DEF Inv, TypeOK
  <1>6. Drops(k, r, yes) => k \in agreed'
    <2>1. CASE r # None /\ r.kind = "file" /\ obj[k] = None
      <3>1. Retired(k)
        BY <1>1, <2>1 DEF PhaseFits, At, Retired
      <3>. QED BY <1>1, <1>5, <3>1 DEF Inv, FailOld
    <2>. QED BY <1>5, <2>1 DEF Drops
  <1>. HIDE DEF k, r
  <1>7. /\ k \notin up /\ del' \subseteq Keys /\ del' \subseteq agreed' /\ up \cap del' = {}
        /\ \A j \in up \cup del' : j < k + 1
    BY <1>1, <1>2, <1>5, KeysAreNat DEF Inv, TypeOK, Justified
  <1>8. TypeOK'
    BY <1>1, <1>3, <1>4, <1>5, <1>7 DEF Inv, TypeOK
  <1>9. FailOld' /\ ManifestFits' /\ Rooted' /\ Justified'
    BY <1>3, <1>5, <1>7 DEF Inv, FailOld, Retired, ManifestFits, Rooted, Justified
  <1>10. Backed'
    BY <1>1, <1>3, <1>4, <1>5 DEF Backed
  <1>11. Losses'
    BY <1>1, <1>3, <1>4, <1>5, <1>6 DEF Losses
  <1>12. PhaseFits'
    BY <1>1, <1>3, <1>4, <1>7 DEF PhaseFits, At
  <1>. QED BY <1>8, <1>9, <1>10, <1>11, <1>12 DEF Inv, Running

-----------------------------------------------------------------------------
(* The offers that follow, the single file and the end.                    *)

Later == {"scan", "offered", "put"}

LEMMA OfferKeeps ==
  ASSUME Inv, NEW from \in Later, NEW offered \in SUBSET Keys, NEW to \in {"offered", "publish"},
         Offer(from, offered, to)
  PROVE  Inv'
  <1>1. run \in Runs /\ run.phase = from /\ up = {} /\ del = {} /\ UNCHANGED <<tree, obj, man, up, mishaps>>
    BY AtRuns DEF Offer, Landed, Later
  <1>2. CASE run.failed
    <2>1. run' = NoRun /\ UNCHANGED <<del, agreed>>
      BY <1>2 DEF Offer, GiveUp
    <2>. QED BY <1>1, <2>1, GiveUpKeeps DEF Inv, TypeOK
  <1>3. CASE ~run.failed
    <2>1. PICK yes \in SUBSET offered :
            del' = yes /\ agreed' = agreed \cup yes /\ run' = [run EXCEPT !.phase = to]
      BY <1>3 DEF Offer
    <2>2. /\ run' \in Runs /\ run'.phase = to /\ run'.new = run.new /\ run'.failed = run.failed
      BY <1>1, <2>1 DEF Runs
    <2>3. TypeOK'
      BY <1>1, <2>1, <2>2 DEF Inv, TypeOK
    <2>4. FailOld' /\ ManifestFits' /\ Rooted' /\ Justified'
      BY <1>1, <2>1 DEF Inv, FailOld, Retired, ManifestFits, Rooted, Justified
    <2>5. Backed' /\ Losses' /\ PhaseFits'
      BY <1>1, <2>1, <2>2 DEF Inv, Running, Backed, Losses, PhaseFits, At, Later
    <2>. QED BY <2>3, <2>4, <2>5 DEF Inv, Running
  <1>. QED BY <1>2, <1>3

LEMMA OffersKeep ==
  ASSUME Inv, Synced \/ OfferOwn \/ Sweep PROVE Inv'
  <1>1. CASE Synced
    <2>1. run \in Runs
      BY <1>1, AtRuns DEF Synced
    <2>2. run.spool \in SUBSET Keys
      BY <2>1, KeysAreNat DEF Runs
    <2>. QED BY <1>1, <2>2, OfferKeeps DEF Synced, Later
  <1>2. CASE OfferOwn
    <2>1. {k \in {Own} : obj[k] # None} \in SUBSET Keys
      BY KeysAreNat
    <2>. QED BY <1>2, <2>1, OfferKeeps DEF OfferOwn, Later
  <1>3. CASE Sweep
    <2>1. {k \in Leaves : obj[k] # None} \in SUBSET Keys
      BY KeysAreNat
    <2>. QED BY <1>3, <2>1, OfferKeeps DEF Sweep, Later
  <1>. QED BY <1>1, <1>2, <1>3

LEMMA CompareFileKeeps == ASSUME Inv, CompareFile PROVE Inv'
  <1>. DEFINE v == FileVerdict(run.old.rec[Own], loc[Own], obj[Own], run.opts)
  <1>1. /\ run \in Runs /\ run.phase = "file" /\ UNCHANGED <<tree, obj, man, del, agreed, mishaps>>
        /\ Backed /\ Losses /\ PhaseFits /\ shape = "file" /\ up = {} /\ del = {}
        /\ agreed = Keys \/ \A k \in Leaves : man.rec[k] = None
    BY AtRuns DEF CompareFile, Inv, Running, PhaseFits, At
  <1>2. /\ up' = IF v.copy THEN {Own} ELSE {}
        /\ run' = [run EXCEPT !.phase = "put", !.changed = v.emit,
                              !.new = IF v.emit THEN Alone(RecordOf(loc[Own])) ELSE @]
    BY DEF CompareFile
  <1>3. v.emit \in BOOLEAN /\ (v.emit /\ ~v.copy => obj[Own] # None)
    BY FileVerdictRefresh
  <1>4. Own \in Keys /\ loc[Own] \in Items /\ loc[Own] # None
    BY <1>1, KeysAreNat DEF Inv, TypeOK, Rooted
  <1>5. /\ RecordOf(loc[Own]) \in Records /\ RecordOf(loc[Own]) # None
        /\ Alone(RecordOf(loc[Own])) \in [Keys -> Records \cup {None}]
        /\ \A k \in Keys : Alone(RecordOf(loc[Own]))[k] = IF k = Own THEN RecordOf(loc[Own]) ELSE None
    BY <1>4, ItemRecord DEF Alone, Blanks
  <1>. HIDE DEF v
  <1>6. /\ run' \in Runs /\ run'.phase = "put" /\ run'.failed = run.failed
        /\ run'.new = IF v.emit THEN Alone(RecordOf(loc[Own])) ELSE run.new
    BY <1>1, <1>2, <1>3, <1>5 DEF Runs
  <1>7. TypeOK'
    BY <1>1, <1>2, <1>4, <1>6 DEF Inv, TypeOK
  <1>8. FailOld' /\ ManifestFits' /\ Rooted' /\ Justified'
    BY <1>1, <1>2, <1>4 DEF Inv, FailOld, Retired, ManifestFits, Rooted, Justified
  <1>9. Backed'
    BY <1>1, <1>2, <1>3, <1>5, <1>6 DEF Backed
  <1>10. Losses'
    BY <1>1, <1>5, <1>6, KeysAreNat DEF Losses
  <1>11. PhaseFits'
    BY <1>1, <1>5, <1>6, KeysAreNat DEF PhaseFits, At
  <1>. QED BY <1>7, <1>8, <1>9, <1>10, <1>11 DEF Inv, Running

LEMMA PublishKeeps == ASSUME Inv, Publish PROVE Inv'
  <1>1. /\ run \in Runs /\ run.phase = "publish" /\ up = {} /\ del = {}
        /\ UNCHANGED <<tree, obj, moving, agreed, mishaps>> /\ Backed /\ Losses /\ PhaseFits
    BY AtRuns DEF Publish, Landed, Inv, Running
  <1>2. CASE run.failed
    <2>1. run' = NoRun /\ man' = man
      BY <1>2 DEF Publish
    <2>. QED BY <1>1, <2>1, GiveUpKeeps DEF Inv, TypeOK
  <1>3. CASE ~run.failed
    <2>1. /\ run' = [run EXCEPT !.phase = "done"]
          /\ man' = man \/ man' = [kind |-> shape, rec |-> run.new]
      BY <1>3 DEF Publish
    <2>2. run' \in Runs /\ run'.phase = "done" /\ run'.new = run.new /\ run'.failed = run.failed
      BY <1>1, <2>1 DEF Runs
    <2>3. man' \in Manifests
      BY <1>1, <2>1 DEF Manifests, Runs, Inv, TypeOK
    <2>4. TypeOK'
      BY <1>1, <2>2, <2>3 DEF Inv, TypeOK
    <2>5. FailOld'
      BY <1>1, <1>3, <2>1 DEF Inv, FailOld, Retired, Backed
    <2>6. ManifestFits'
      BY <1>1, <2>1 DEF Inv, TypeOK, Shapes, ManifestFits, PhaseFits, At
    <2>7. Rooted' /\ Justified' /\ Backed' /\ Losses' /\ PhaseFits'
      BY <1>1, <2>1, <2>2 DEF Inv, Rooted, Justified, Backed, Losses, PhaseFits, At
    <2>. QED BY <2>4, <2>5, <2>6, <2>7 DEF Inv, Running
  <1>. QED BY <1>2, <1>3

LEMMA FinishKeeps == ASSUME Inv, Finish PROVE Inv'
  <1>1. run \in Runs /\ run.phase = "done"
    BY AtRuns DEF Finish
  <1>2. up = {} /\ del = {}
    BY <1>1 DEF Inv, Running, PhaseFits, At
  <1>. QED BY <1>2, GiveUpKeeps DEF Finish, GiveUp, Inv, TypeOK

\* The one step that may both upload and delete: what it deletes was agreed to.
LEMMA CutKeeps == ASSUME Inv, Cut PROVE Inv'
  <1>1. PICK ups \in SUBSET up, dels \in SUBSET del :
          obj' = [k \in Keys |-> IF k \in ups THEN loc[k].data
                                 ELSE IF k \in dels THEN None ELSE obj[k]]
    BY DEF Cut
  <1>2. run' = NoRun /\ up' = {} /\ del' = {} /\ UNCHANGED <<tree, man, agreed>>
    BY DEF Cut, GiveUp
  <1>3. \A k \in ups : k \in Keys /\ loc[k].data \in Ticks /\ loc[k].data # None
    BY ItemRecord DEF Inv, TypeOK, Justified
  <1>4. obj' \in [Keys -> Ticks \cup {None}]
    BY <1>1, <1>3 DEF Inv, TypeOK
  <1>5. \A k \in Keys : obj'[k] = None => obj[k] = None \/ k \in agreed
    BY <1>1, <1>3 DEF Inv, Justified
  <1>6. mishaps' \in 0..MaxMishaps
    BY RunAssumption DEF Cut, Mishap, Inv, TypeOK
  <1>7. run' \notin Runs /\ Idle'
    BY <1>2, NoRunIsNone DEF Idle
  <1>8. TypeOK'
    BY <1>2, <1>4, <1>6, <1>7 DEF Inv, TypeOK
  <1>9. FailOld'
    BY <1>2, <1>5 DEF Inv, FailOld, Retired
  <1>10. ManifestFits' /\ Rooted' /\ Justified' /\ Running'
    BY <1>2, <1>7 DEF Inv, ManifestFits, Rooted, Justified, Running
  <1>. QED BY <1>8, <1>9, <1>10 DEF Inv

LEMMA Inductive == Inv /\ [Next]_vars => Inv'
  <1>. SUFFICES ASSUME Inv, [Next]_vars PROVE Inv'
    OBVIOUS
  <1>1. CASE UNCHANGED vars
    BY <1>1 DEF vars, Inv, TypeOK, Idle, FailOld, Retired, ManifestFits, Rooted, Justified,
                Running, Backed, Losses, PhaseFits, At
  <1>2. CASE Proceed
    BY <1>2, MigratedKeeps, PutKeeps, DeleteKeeps, ScanItemKeeps, ScanNothingKeeps, OffersKeep,
       CompareFileKeeps, PublishKeeps, FinishKeeps DEF Proceed
  <1>. QED BY <1>1, <1>2, EditLeafKeeps, EditRootKeeps, MoveLeafBackKeeps, MoveRootBackKeeps,
              BeginKeeps, FailKeeps, CutKeeps DEF Next

-----------------------------------------------------------------------------
(* The theorems.                                                           *)

THEOREM Invariance == Spec => []Inv
  <1>. QED BY Initially, Inductive, PTL DEF Spec

\* Every variable has its type, over any number of runs.
THEOREM RunsTyped == Spec => []TypeOK
  <1>1. Inv => TypeOK
    BY DEF Inv
  <1>. QED BY <1>1, Invariance, PTL

\* However many runs are cut off, wherever, the published manifest records no
\* file whose object is gone, unless its deletion was agreed to.
THEOREM ManifestFailsOld == Spec => []FailOld
  <1>1. Inv => FailOld
    BY DEF Inv
  <1>. QED BY <1>1, Invariance, PTL

\* No record leaves the manifest without a yes to its deletion.
THEOREM LossesConsented == Spec => ConsentedLosses
  <1>. DEFINE Asked == \A k \in Keys : man.rec[k] # None /\ man'.rec[k] = None => k \in agreed
  <1>1. Inv /\ [Next]_vars => Asked \/ UNCHANGED vars
    <2>. SUFFICES ASSUME Inv, Next PROVE Asked
      OBVIOUS
    <2>1. CASE Publish
      <3>1. run \in Runs
        BY <2>1, AtRuns DEF Publish
      <3>2. man' = man \/ man'.rec = run.new
        BY <2>1 DEF Publish
      <3>. QED BY <3>1, <3>2 DEF Inv, Running, Losses
    <2>2. CASE ~Publish
      <3>1. man' = man
        BY <2>2 DEF Next, Proceed, EditLeaf, EditRoot, MoveLeafBack, MoveRootBack, Remote, Begin,
           Migrated, Put, Delete, Fail, ScanItem, ScanNothing, Synced, OfferOwn, Sweep, Offer,
           CompareFile, Finish, Cut
      <3>. QED BY <3>1
    <2>. QED BY <2>1, <2>2
  <1>. QED BY <1>1, Invariance, PTL DEF Spec, ConsentedLosses
-----------------------------------------------------------------------------
(***************************************************************************)
(* What a push leaves when it ends: the manifest is published over what    *)
(* has landed, and the entry is settled.  Proved for any number of leaves, *)
(* edits and mishaps, on top of the invariant above.                       *)
(***************************************************************************)

\* Under -u a link is ordered by its time only where the platform can set that.
Orders == LinkMtimes \/ ~run.opts.update

IsFile(i) == i # None /\ i.kind = "file"

\* The tree: a directory has nothing at the entry's own key, a file nothing
\* below it, and what was moved away left its place empty.  Nor does the
\* manifest of a directory record anything at that key.
TreeFits ==
  /\ shape = "dir" => loc[Own] = None
  /\ shape = "file" => aside[Own] = None /\ \A k \in Leaves : loc[k] = None
  /\ \A k \in Keys : loc[k] = None \/ aside[k] = None
  /\ \A i \in {loc[Own], aside[Own]} : i = None \/ i.kind = "file"
  /\ man.kind = "dir" => man.rec[Own] = None

\* r is not newer than i, and of i's own time only if it records i.
Follows(r, i) ==
  r # None /\ i # None => r.mtime <= i.mtime /\ (r.mtime = i.mtime => r = RecordOf(i))

\* Nothing is newer than the clock, and no record is newer than its item.
Timely ==
  \A k \in Keys :
    /\ man.rec[k] # None => man.rec[k].mtime <= clock
    /\ \A i \in {loc[k], aside[k]} : (i # None => i.mtime <= clock) /\ Follows(man.rec[k], i)

\* An object under the record of a file of the tree has that file's content.
Truthful ==
  \A k \in Keys : \A i \in {loc[k], aside[k]} :
    IsFile(i) /\ man.rec[k] = RecordOf(i) /\ obj[k] # None => obj[k] = i.data

\* The records that are to be published follow the tree as those that are, and
\* tell the truth once the uploads have landed.
NewFits ==
  \A k \in Keys :
    /\ run.new[k] # None => run.new[k].mtime <= clock
    /\ \A i \in {loc[k], aside[k]} :
         /\ Follows(run.new[k], i)
         /\ IsFile(i) /\ run.new[k] = RecordOf(i) /\ obj[k] # None
              => obj[k] = i.data \/ k \in up \/ run.failed

\* The keys that run r has decided about.
Judged(r) ==
  CASE r.phase = "scan" -> {k \in Leaves : k < r.pos}
    [] r.phase = "offered" -> Leaves
    [] r.phase = "put" -> {Own}
    [] r.phase \in {"publish", "done"} -> Keys
    [] OTHER -> {}

\* What the run has not got to is as it was, or as the migration left it.
Waiting(k) ==
  /\ run.new[k] = run.old.rec[k] /\ k \notin up \cup del \cup run.spool
  /\ Migrates => obj[k] = None

\* A file that is to be recorded has its object, or will have.
Kept(k) ==
  run.unseen = {} /\ Orders /\ IsFile(run.new[k]) =>
    k \notin del \cup run.spool /\ (obj[k] # None \/ k \in up \/ run.failed)

\* A file that is not to be recorded any more has none, or soon.
Dropped(k) ==
  IsFile(man.rec[k]) /\ run.new[k] = None =>
    k \notin up /\ (obj[k] = None \/ k \in del \/ run.failed)

\* What the walk showed is recorded as it is.
Copied(k) ==
  loc[k] # None /\ k \notin run.unseen /\ ~run.opts.update =>
    /\ run.new[k] # None /\ ~StatusShows(run.new[k], loc[k])
    /\ loc[k].kind = "file" => obj[k] = loc[k].data \/ k \in up \/ run.failed

\* A push --delete --yes that sees all of the tree leaves nothing else.
Emptied(k) ==
  run.opts.delete /\ ~run.opts.asks /\ ~run.opts.update /\ run.unseen = {} =>
    /\ loc[k] = None => run.new[k] = None
    /\ ~IsFile(loc[k]) => \/ obj[k] = None \/ k \in del \/ run.failed
                          \/ At("scan") /\ k \in run.spool

\* What the run works from, and when it has something to publish.
Sources ==
  /\ ~At("migrate") /\ ~At("done") =>
       run.old = IF Migrates THEN NoManifest ELSE man
  /\ ~At("migrate") /\ ~At("done") /\ ~At("file") /\ ~run.changed =>
       run.new = man.rec /\ man.kind = shape
  /\ At("migrate") => /\ Migrates /\ up = {}
                      /\ \A k \in Keys : obj[k] = None \/ k \in del \/ run.failed
  /\ At("done") => man.rec = run.new /\ man.kind = shape /\ ~run.failed
  /\ shape = "dir" /\ ~At("migrate") => run.new[Own] = None
  /\ At("put") \/ At("file") => shape = "file"
  /\ At("scan") \/ At("offered") => shape = "dir"

Judging ==
  /\ run.opts \in Pushes /\ Sources
  /\ ~At("migrate") =>
       /\ NewFits
       /\ \A k \in up : IsFile(loc[k])
       /\ \A k \in del \cup run.spool : ~IsFile(loc[k])
       /\ \A k \in Keys : k \notin Judged(run) => Waiting(k)
       /\ \A k \in Judged(run) : Kept(k) /\ Dropped(k) /\ Copied(k) /\ Emptied(k)

Settling == TreeFits /\ Timely /\ Truthful /\ (~Idle => Judging)

USE DEF tree, moving

-----------------------------------------------------------------------------
(* Records, items and what is decided about them.                          *)

LEMMA JudgedIs ==
  ASSUME NEW r
  PROVE  /\ r.phase = "scan" => Judged(r) = {k \in Leaves : k < r.pos}
         /\ r.phase = "offered" => Judged(r) = Leaves
         /\ r.phase = "put" => Judged(r) = {Own}
         /\ r.phase \in {"publish", "done"} => Judged(r) = Keys
         /\ r.phase \in {"file", "migrate"} => Judged(r) = {}
         /\ Judged(r) \subseteq Keys
  BY KeysAreNat DEF Judged

LEMMA RecordTimes ==
  ASSUME NEW r \in Records
  PROVE  /\ r # None /\ r.mtime \in Ticks /\ r.mtime \in Nat /\ r.mtime # NoMtime
         /\ r.kind \in {"file", "link"}
  BY RunAssumption DEF Records, Items, RecordOf, FileAt, LinkAt, Ticks

LEMMA ItemTimes ==
  ASSUME NEW i \in Items
  PROVE  /\ i.mtime \in Ticks /\ i.mtime \in Nat /\ i.kind \in {"file", "link"}
         /\ RecordOf(i).mtime = i.mtime /\ RecordOf(i).mode = i.mode
         /\ RecordOf(i).what = IF i.kind = "file" THEN SizeOf[i.data] ELSE i.data
  <1>1. i.mtime \in Ticks /\ i.mtime \in Nat /\ i.kind \in {"file", "link"}
    BY RunAssumption DEF Items, FileAt, LinkAt, Ticks
  <1>. QED BY <1>1 DEF RecordOf

\* A record that agrees with an item's time is the item's.
LEMMA Agreeing ==
  ASSUME NEW i \in Items, NEW r \in Records, Follows(r, i), Within(r, i)
  PROVE  r = RecordOf(i)
  <1>1. r.mtime \in Ticks /\ i.mtime \in Ticks /\ r # None /\ i # None
    BY RecordTimes, ItemTimes, ItemRecord
  <1>2. r.mtime = i.mtime
    BY <1>1, RunAssumption DEF Within
  <1>. QED BY <1>1, <1>2 DEF Follows

\* No item is older than its record, as far as the comparison of times goes.
LEMMA NeverOlder ==
  ASSUME NEW i \in Items, NEW r \in Records, Follows(r, i)
  PROVE  NewerSide(r, i) = "local" \/ (NewerSide(r, i) = "tie" /\ Within(r, i))
  <1>1. /\ r.mtime \in Nat /\ i.mtime \in Nat /\ r # None /\ i # None /\ r.mtime # NoMtime
        /\ Window \in Nat
    BY RecordTimes, ItemTimes, ItemRecord, RunAssumption
  <1>2. r.mtime <= i.mtime
    BY <1>1 DEF Follows
  <1>3. CASE Drift(r.mtime, i.mtime) <= Window
    BY <1>1, <1>3 DEF NewerSide, Within
  <1>4. CASE ~(Drift(r.mtime, i.mtime) <= Window)
    <2>1. i.mtime > r.mtime
      BY <1>1, <1>2, <1>4 DEF Drift
    <2>. QED BY <1>1, <1>4, <2>1 DEF NewerSide
  <1>. QED BY <1>3, <1>4

\* Status has nothing to say about a record of the item itself.
LEMMA RecordShowsNothing ==
  ASSUME NEW i \in Items
  PROVE  ~StatusShows(RecordOf(i), i)
  <1>1. /\ RecordOf(i).kind = i.kind /\ RecordOf(i).mtime = i.mtime /\ RecordOf(i).mode = i.mode
        /\ i.mtime \in Nat /\ i.mtime # NoMtime
        /\ RecordOf(i).what = IF i.kind = "file" THEN SizeOf[i.data] ELSE i.data
    BY ItemRecord, ItemTimes, RunAssumption
  <1>2. Within(RecordOf(i), i)
    BY <1>1, RunAssumption DEF Within, Drift
  <1>3. ~ModeDiffers(RecordOf(i), i)
    BY <1>1 DEF ModeDiffers
  <1>. QED BY <1>1, <1>2, <1>3 DEF StatusShows, MtimeShown

LEMMA SettlesShowsNothing ==
  ASSUME NEW i \in Items, i.kind = "file", NEW r, Settles(r, i)
  PROVE  r # None /\ ~StatusShows(r, i)
  BY DEF Settles, MatchesStat, StatusShows, MtimeShown

LEMMA MoreSaid ==
  /\ Leave.emit = FALSE /\ Leave.copy = FALSE
  /\ Refresh.emit = TRUE /\ Refresh.copy = FALSE
  /\ Upload.emit = TRUE /\ Upload.copy = TRUE
  /\ \A w : Conflict(w).emit = FALSE /\ Conflict(w).copy = FALSE
  BY DEF Leave, Conflict, Refresh, Upload, Says

-----------------------------------------------------------------------------
(* Verdicts.                                                               *)

LEMMA VerdictCreate ==
  ASSUME NEW i, i.kind = "file", NEW r, NEW p
  PROVE  LET v == Verdict(r, i, None, p, FALSE) IN
         \/ v = Upload
         \/ p.update /\ r # None /\ r.kind # "file" /\ (v = Leave \/ v = Conflict(TRUE))
  <1>1. Verdict(r, i, None, p, FALSE) = CreateFile(r, i, p, FALSE)
    BY DEF Verdict
  <1>. DEFINE ordered == p.update /\ r # None /\ r.kind # "file"
              side    == OrderedSide(r, i)
  <1>2. CASE ordered /\ side = "record"
    BY <1>1, <1>2 DEF CreateFile
  <1>3. CASE ordered /\ side = "tie"
    BY <1>1, <1>3 DEF CreateFile
  <1>4. CASE ~(ordered /\ side = "record") /\ ~(ordered /\ side = "tie")
    BY <1>1, <1>4 DEF CreateFile, Probed
  <1>. HIDE DEF ordered, side
  <1>. QED BY <1>2, <1>3, <1>4

LEMMA VerdictMirror ==
  ASSUME NEW i, i.kind = "file", NEW r, NEW o, o # None, NEW p, ~(p.update /\ r # None)
  PROVE  LET v == Verdict(r, i, o, p, FALSE) IN
         \/ v = Upload
         \/ /\ v = Refresh \/ (v = Leave /\ Settles(r, i))
            /\ o = i.data \/ (r # None /\ MatchesStat(r, i))
  <1>1. Verdict(r, i, o, p, FALSE) = MirrorFile(r, i, o, p, FALSE)
    BY DEF Verdict
  <1>2. CASE p.checksum
    BY <1>1, <1>2 DEF MirrorFile, Probed
  <1>3. CASE ~p.checksum
    BY <1>1, <1>3 DEF MirrorFile, Probed
  <1>. QED BY <1>2, <1>3

LEMMA VerdictNewer ==
  ASSUME NEW i, i.kind = "file", NEW r, NEW o, o # None, NEW p, p.update /\ r # None
  PROVE  LET v == Verdict(r, i, o, p, FALSE) IN
         \/ v = Upload \/ v = Leave \/ (\E w : v = Conflict(w))
         \/ v = Refresh /\ o = i.data
  <1>1. Verdict(r, i, o, p, FALSE) = NewerFile(r, i, o, p, FALSE)
    BY DEF Verdict
  <1>2. CASE r.kind = "file" /\ SizeOf[o] # r.what
    BY <1>1, <1>2 DEF NewerFile
  <1>3. CASE ~(r.kind = "file" /\ SizeOf[o] # r.what)
    <2>. DEFINE side == OrderedSide(r, i)
    <2>0. side \in {"record", "local", "tie"}
      BY DEF OrderedSide, NewerSide
    <2>1. CASE side = "record"
      BY <1>1, <1>3, <2>1 DEF NewerFile
    <2>2. CASE side = "local"
      BY <1>1, <1>3, <2>2 DEF NewerFile, Probed
    <2>3. CASE side = "tie"
      BY <1>1, <1>3, <2>3 DEF NewerFile, Probed
    <2>. HIDE DEF side
    <2>. QED BY <2>0, <2>1, <2>2, <2>3
  <1>. QED BY <1>2, <1>3

LEMMA VerdictLink ==
  ASSUME NEW i, i.kind = "link", NEW r, NEW o, NEW p
  PROVE  LET v == Verdict(r, i, o, p, FALSE) IN
         \/ v = Refresh
         \/ ~p.update /\ r # None /\ ~NonFileChanged(r, i) /\ v = Leave
         \/ /\ p.update /\ r # None /\ OrderedSide(r, i) # "local"
            /\ v = Leave \/ \E w : v = Conflict(w)
  <1>1. Verdict(r, i, o, p, FALSE) = NonFile(r, i, p, FALSE)
    BY DEF Verdict
  <1>. DEFINE side == OrderedSide(r, i)
  <1>0. side \in {"record", "local", "tie"}
    BY DEF OrderedSide, NewerSide
  <1>2. CASE r = None
    BY <1>1, <1>2 DEF NonFile
  <1>3. CASE r # None /\ ~p.update
    BY <1>1, <1>3 DEF NonFile
  <1>4. CASE r # None /\ p.update
    <2>1. CASE side = "record"
      BY <1>1, <1>4, <2>1 DEF NonFile
    <2>2. CASE side = "local"
      BY <1>1, <1>4, <2>2 DEF NonFile
    <2>3. CASE side = "tie"
      BY <1>1, <1>4, <2>3 DEF NonFile
    <2>. HIDE DEF side
    <2>. QED BY <1>0, <2>1, <2>2, <2>3
  <1>. QED BY <1>2, <1>3, <1>4

\* What is decided about a file, over a record that follows it: an upload, a
\* record of what is stored, or nothing, if there is nothing to do but under -u.
FileSaid(v, r, i, o, p) ==
  \/ v.emit = TRUE /\ v.copy = TRUE
  \/ v.emit = TRUE /\ v.copy = FALSE /\ o # None /\ (o = i.data \/ r = RecordOf(i))
  \/ /\ v.emit = FALSE /\ v.copy = FALSE /\ r # None
     /\ o = None => p.update /\ r.kind # "file"
     /\ ~p.update => ~StatusShows(r, i) /\ (o = i.data \/ r = RecordOf(i))

\* What is decided about a link.
LinkSaid(v, r, i, p) ==
  \/ v.emit = TRUE /\ v.copy = FALSE
  \/ /\ v.emit = FALSE /\ v.copy = FALSE /\ r # None
     /\ LinkMtimes \/ ~p.update => r.kind = "link"
     /\ ~p.update => ~StatusShows(r, i)

LEMMA FileJudged ==
  ASSUME NEW i \in Items, i.kind = "file", NEW r \in Records \cup {None}, Follows(r, i),
         NEW o \in Ticks \cup {None}, NEW p, NEW v, v = Verdict(r, i, o, p, FALSE)
  PROVE  FileSaid(v, r, i, o, p)
  <1>1. CASE o = None
    <2>1. \/ v = Upload
          \/ p.update /\ r # None /\ r.kind # "file" /\ (v = Leave \/ v = Conflict(TRUE))
      BY <1>1, VerdictCreate
    <2>2. \/ v.emit = TRUE /\ v.copy = TRUE
          \/ p.update /\ r # None /\ r.kind # "file" /\ v.emit = FALSE /\ v.copy = FALSE
      BY <2>1, MoreSaid, Zenon
    <2>. QED BY <1>1, <2>2 DEF FileSaid
  <1>2. CASE o # None /\ ~(p.update /\ r # None)
    <2>1. \/ v = Upload
          \/ /\ v = Refresh \/ (v = Leave /\ Settles(r, i))
             /\ o = i.data \/ (r # None /\ MatchesStat(r, i))
      BY <1>2, VerdictMirror
    <2>2. r # None /\ MatchesStat(r, i) => r = RecordOf(i)
      BY Agreeing DEF MatchesStat
    <2>3. \/ v.emit = TRUE /\ v.copy = TRUE
          \/ /\ v.copy = FALSE
             /\ v.emit = TRUE \/ (v.emit = FALSE /\ Settles(r, i))
             /\ o = i.data \/ r = RecordOf(i)
      BY <2>1, <2>2, MoreSaid, Zenon
    <2>4. Settles(r, i) => r # None /\ ~StatusShows(r, i)
      BY SettlesShowsNothing
    <2>. QED BY <1>2, <2>3, <2>4 DEF FileSaid
  <1>3. CASE o # None /\ p.update /\ r # None
    <2>1. \/ v = Upload \/ v = Leave \/ (\E w : v = Conflict(w))
          \/ v = Refresh /\ o = i.data
      BY <1>3, VerdictNewer
    <2>2. \/ v.emit = TRUE /\ v.copy = TRUE
          \/ v.emit = FALSE /\ v.copy = FALSE
          \/ v.emit = TRUE /\ v.copy = FALSE /\ o = i.data
      BY <2>1, MoreSaid, Zenon
    <2>. QED BY <1>3, <2>2 DEF FileSaid
  <1>. QED BY <1>1, <1>2, <1>3

LEMMA LinkJudged ==
  ASSUME NEW i \in Items, i.kind = "link", NEW r \in Records \cup {None}, Follows(r, i),
         NEW o, NEW p, NEW v, v = Verdict(r, i, o, p, FALSE)
  PROVE  LinkSaid(v, r, i, p)
  <1>1. \/ v = Refresh
        \/ ~p.update /\ r # None /\ ~NonFileChanged(r, i) /\ v = Leave
        \/ /\ p.update /\ r # None /\ OrderedSide(r, i) # "local"
           /\ v = Leave \/ \E w : v = Conflict(w)
    BY VerdictLink
  <1>2. ~NonFileChanged(r, i) => r.kind = "link" /\ ~StatusShows(r, i)
    BY DEF NonFileChanged, StatusShows, MtimeShown
  <1>3. r # None /\ LinkMtimes /\ OrderedSide(r, i) # "local" => r.kind = "link"
    <2>. SUFFICES ASSUME r # None, LinkMtimes, OrderedSide(r, i) # "local" PROVE r.kind = "link"
      OBVIOUS
    <2>1. NewerSide(r, i) # "local"
      BY DEF OrderedSide
    <2>2. Within(r, i)
      BY <2>1, NeverOlder
    <2>3. r = RecordOf(i)
      BY <2>2, Agreeing
    <2>. QED BY <2>3, ItemRecord
  <1>4. \/ v.emit = TRUE /\ v.copy = FALSE
        \/ v.emit = FALSE /\ v.copy = FALSE /\ ~p.update /\ r # None /\ ~NonFileChanged(r, i)
        \/ v.emit = FALSE /\ v.copy = FALSE /\ p.update /\ r # None /\ OrderedSide(r, i) # "local"
    BY <1>1, MoreSaid, Zenon
  <1>. QED BY <1>2, <1>3, <1>4 DEF LinkSaid

\* What is decided about a single-file entry.
LEMMA RootJudged ==
  ASSUME NEW i \in Items, i.kind = "file", NEW r \in Records \cup {None}, Follows(r, i),
         NEW o \in Ticks \cup {None}, NEW p, NEW v, v = FileVerdict(r, i, o, p)
  PROVE  FileSaid(v, r, i, o, p) /\ (o = None => v.copy = TRUE)
  <1>. DEFINE differs == o = None \/ o # i.data
  <1>1. CASE r = None
    <2>1. v = Upload \/ (v = Refresh /\ ~differs)
      BY <1>1 DEF FileVerdict
    <2>2. \/ v.emit = TRUE /\ v.copy = TRUE
          \/ v.emit = TRUE /\ v.copy = FALSE /\ ~differs
      BY <2>1, MoreSaid, Zenon
    <2>. QED BY <1>1, <2>2 DEF FileSaid
  <1>2. CASE r # None /\ p.update
    <2>1. v = Upload \/ (o # None /\ v = Leave) \/ (v = Refresh /\ ~differs)
      BY <1>2 DEF FileVerdict
    <2>2. \/ v.emit = TRUE /\ v.copy = TRUE
          \/ o # None /\ v.emit = FALSE /\ v.copy = FALSE
          \/ v.emit = TRUE /\ v.copy = FALSE /\ ~differs
      BY <2>1, MoreSaid, Zenon
    <2>. QED BY <1>2, <2>2 DEF FileSaid
  <1>3. CASE r # None /\ ~p.update
    <2>1. \/ v = Upload
          \/ /\ v = Refresh \/ (v = Leave /\ MatchesStat(r, i))
             /\ ~differs \/ (o # None /\ MatchesStat(r, i))
      <3>1. CASE p.checksum
        BY <1>3, <3>1 DEF FileVerdict
      <3>2. CASE ~p.checksum
        BY <1>3, <3>2 DEF FileVerdict
      <3>. QED BY <3>1, <3>2
    <2>2. MatchesStat(r, i) => r = RecordOf(i)
      BY <1>3, Agreeing DEF MatchesStat
    <2>. HIDE DEF differs, FileSaid
    <2>3. \/ v.emit = TRUE /\ v.copy = TRUE
          \/ /\ v.copy = FALSE
             /\ v.emit = TRUE \/ (v.emit = FALSE /\ r = RecordOf(i))
             /\ ~differs \/ (o # None /\ r = RecordOf(i))
      BY <2>1, <2>2, MoreSaid, Zenon
    <2>4. ~StatusShows(RecordOf(i), i)
      BY RecordShowsNothing
    <2>. QED BY <1>3, <2>3, <2>4 DEF differs, FileSaid
  <1>. QED BY <1>1, <1>2, <1>3

-----------------------------------------------------------------------------
(* The initial states and the edits between runs.                          *)

LEMMA InitSettles == Init => Settling
  <1>. SUFFICES ASSUME Init PROVE Settling
    OBVIOUS
  <1>1. /\ run = NoRun /\ clock = 1 /\ aside = Blanks /\ obj = Blanks /\ man = NoManifest
    BY DEF Init
  <1>2. FileAt(1) \in Items /\ LinkAt(1) \in Items /\ None \notin Items
    BY RunAssumption, TickItems DEF Ticks
  <1>3. \A k \in Keys : loc[k] \in {None, FileAt(1), LinkAt(1)}
    BY DEF Init, Alone, Blanks
  <1>4. /\ shape = "dir" => loc[Own] = None
        /\ shape = "file" => loc = Alone(FileAt(1))
    BY DEF Init
  <1>5. TreeFits
    <2>1. \A k \in Leaves : Alone(FileAt(1))[k] = None
      BY KeysAreNat DEF Alone, Blanks
    <2>2. Alone(FileAt(1))[Own].kind = "file"
      BY KeysAreNat DEF Alone, Blanks, FileAt
    <2>3. shape = "dir" \/ shape = "file"
      BY DEF Init, Shapes
    <2>4. \A k \in Keys : aside[k] = None
      BY <1>1 DEF Blanks
    <2>. QED BY <1>1, <1>4, <2>1, <2>2, <2>3, <2>4, KeysAreNat DEF TreeFits, NoManifest
  <1>6. Timely
    <2>1. FileAt(1).mtime = 1 /\ LinkAt(1).mtime = 1
      BY DEF FileAt, LinkAt
    <2>. QED BY <1>1, <1>3, <2>1 DEF Timely, Follows, NoManifest, Blanks
  <1>7. Truthful
    BY <1>1 DEF Truthful, Blanks
  <1>. QED BY <1>1, <1>5, <1>6, <1>7 DEF Settling, Idle

\* A fresh item has a time, and a record, of its own.
LEMMA FreshItem ==
  ASSUME Inv, Timely, clock' = clock + 1, clock' \in Ticks, NEW k \in Keys,
         NEW i \in {FileAt(clock'), LinkAt(clock')}
  PROVE  i # None /\ i.mtime = clock' /\ Follows(man.rec[k], i) /\ man.rec[k] # RecordOf(i)
  <1>. DEFINE t == clock'
  <1>a. t \in Ticks /\ i \in {FileAt(t), LinkAt(t)}
    OBVIOUS
  <1>1. i \in Items /\ i.mtime = t
    <2>. HIDE DEF t
    <2>1. i \in Items
      BY <1>a, TickItems
    <2>2. i.mtime = t
      BY <1>a DEF FileAt, LinkAt
    <2>. QED BY <2>1, <2>2
  <1>2. clock \in Nat /\ clock' \in Nat
    BY RunAssumption DEF Inv, TypeOK, Ticks
  <1>3. RecordOf(i) \in Records /\ RecordOf(i) # None /\ RecordOf(i).mtime = clock' /\ i # None
    BY <1>1, ItemRecord, ItemTimes
  <1>4. man.rec[k] \in Records \cup {None}
    BY DEF Inv, TypeOK, Manifests
  <1>5. man.rec[k] # None => man.rec[k].mtime \in Nat /\ man.rec[k].mtime <= clock
    BY <1>4, RecordTimes DEF Timely
  <1>. QED BY <1>1, <1>2, <1>3, <1>5 DEF Follows

\* An edit brings back what was there or makes an item of its own.
LEMMA EditsSettle ==
  ASSUME Inv, Settling, Idle, UNCHANGED Remote, TreeFits', clock' \in Ticks,
         clock' = clock \/ clock' = clock + 1,
         \A k \in Keys : \A i \in {loc'[k], aside'[k]} :
           \/ i \in {None, loc[k], aside[k]}
           \/ clock' = clock + 1 /\ i \in {FileAt(clock'), LinkAt(clock')}
  PROVE  Settling'
  <1>1. man' = man /\ obj' = obj /\ Idle'
    BY DEF Remote, Idle
  <1>2. clock \in Nat /\ clock' \in Nat /\ clock <= clock'
    BY RunAssumption DEF Inv, TypeOK, Ticks
  <1>3. ASSUME NEW k \in Keys PROVE man.rec[k] # None => man.rec[k].mtime <= clock'
    <2>1. man.rec[k] # None => man.rec[k].mtime \in Nat /\ man.rec[k].mtime <= clock
      BY RecordTimes DEF Settling, Timely, Inv, TypeOK, Manifests
    <2>. QED BY <1>2, <2>1
  <1>4. ASSUME NEW k \in Keys, NEW i \in {loc'[k], aside'[k]}
        PROVE  /\ i # None => i.mtime <= clock'
               /\ Follows(man.rec[k], i)
               /\ IsFile(i) /\ man.rec[k] = RecordOf(i) /\ obj[k] # None => obj[k] = i.data
    <2>1. CASE i \in {loc[k], aside[k]}
      <3>1. i \in Items \cup {None}
        BY <2>1 DEF Inv, TypeOK
      <3>2. i # None => i.mtime \in Nat /\ i.mtime <= clock
        BY <2>1, <3>1, ItemTimes DEF Settling, Timely
      <3>. QED BY <1>2, <2>1, <3>2 DEF Settling, Timely, Truthful
    <2>2. CASE i = None
      BY <2>2 DEF Follows, IsFile
    <2>3. CASE clock' = clock + 1 /\ i \in {FileAt(clock'), LinkAt(clock')}
      BY <1>2, <2>3, FreshItem DEF Settling
    <2>. QED BY <2>1, <2>2, <2>3
  <1>5. Timely'
    BY <1>1, <1>3, <1>4 DEF Timely
  <1>6. Truthful'
    BY <1>1, <1>4 DEF Truthful
  <1>. QED BY <1>1, <1>5, <1>6 DEF Settling

LEMMA EditLeafSettles == ASSUME Inv, Settling, EditLeaf PROVE Settling'
  <1>1. clock' \in Ticks /\ clock' = clock + 1 /\ Idle /\ shape = "dir" /\ UNCHANGED <<shape, Remote>>
    BY ClockTicks DEF EditLeaf
  <1>. PICK k \in Leaves, i \in {None, FileAt(clock'), LinkAt(clock')} :
         /\ loc' = [loc EXCEPT ![k] = i]
         /\ aside' = [aside EXCEPT ![k] = IF i = None THEN loc[k] ELSE None]
    BY DEF EditLeaf
  <1>2. k \in Keys /\ k # Own
    BY KeysAreNat
  <1>3. \A j \in Keys : /\ loc'[j] = IF j = k THEN i ELSE loc[j]
                        /\ aside'[j] = IF j = k THEN (IF i = None THEN loc[k] ELSE None) ELSE aside[j]
    BY <1>2 DEF Inv, TypeOK
  <1>4. TreeFits'
    BY <1>1, <1>2, <1>3, KeysAreNat DEF Settling, TreeFits, Remote
  <1>5. \A j \in Keys : \A x \in {loc'[j], aside'[j]} :
          x \in {None, loc[j], aside[j]} \/ x \in {FileAt(clock'), LinkAt(clock')}
    BY <1>3
  <1>. QED BY <1>1, <1>4, <1>5, EditsSettle

LEMMA EditRootSettles == ASSUME Inv, Settling, EditRoot PROVE Settling'
  <1>1. clock' \in Ticks /\ clock' = clock + 1 /\ Idle /\ UNCHANGED Remote
    BY ClockTicks DEF EditRoot
  <1>2. aside' = IF shape' = shape THEN aside ELSE loc
    BY DEF EditRoot
  <1>3. FileAt(clock').kind = "file" /\ Own \in Keys /\ 1 \in Leaves /\ 1 # Own
    BY KeysAreNat DEF FileAt, Leaves, Own
  <1>4. CASE shape' = "file" /\ loc' = Alone(FileAt(clock'))
    <2>1. \A k \in Keys : loc'[k] = IF k = Own THEN FileAt(clock') ELSE None
      BY <1>4 DEF Alone, Blanks
    <2>2. shape = "file" \/ shape = "dir"
      BY DEF Inv, TypeOK, Shapes
    <2>3. TreeFits'
      BY <1>1, <1>2, <1>3, <1>4, <2>1, <2>2, KeysAreNat DEF Settling, TreeFits, Remote
    <2>4. \A j \in Keys : \A x \in {loc'[j], aside'[j]} :
            x \in {None, loc[j], aside[j]} \/ x \in {FileAt(clock'), LinkAt(clock')}
      BY <1>2, <2>1
    <2>. QED BY <1>1, <2>3, <2>4, EditsSettle
  <1>5. CASE shape = "file" /\ shape' = "dir"
             /\ \E i \in {None, FileAt(clock')} : loc' = [Blanks EXCEPT ![1] = i]
    <2>1. \A k \in Keys : /\ loc'[k] \in {None, FileAt(clock')}
                          /\ k = Own => loc'[k] = None
      BY <1>3, <1>5 DEF Blanks
    <2>2. TreeFits'
      BY <1>1, <1>2, <1>3, <1>5, <2>1, KeysAreNat DEF Settling, TreeFits, Remote
    <2>3. \A j \in Keys : \A x \in {loc'[j], aside'[j]} :
            x \in {None, loc[j], aside[j]} \/ x \in {FileAt(clock'), LinkAt(clock')}
      BY <1>2, <2>1
    <2>. QED BY <1>1, <2>2, <2>3, EditsSettle
  <1>. QED BY <1>4, <1>5 DEF EditRoot

LEMMA MoveLeafBackSettles == ASSUME Inv, Settling, MoveLeafBack PROVE Settling'
  <1>1. Idle /\ shape = "dir" /\ UNCHANGED <<shape, clock, Remote>> /\ clock \in Ticks
    BY DEF MoveLeafBack, Inv, TypeOK
  <1>. PICK k \in Leaves : /\ aside[k] # None
                           /\ loc' = [loc EXCEPT ![k] = aside[k]]
                           /\ aside' = [aside EXCEPT ![k] = None]
    BY DEF MoveLeafBack
  <1>2. k \in Keys /\ k # Own
    BY KeysAreNat
  <1>3. \A j \in Keys : /\ loc'[j] = IF j = k THEN aside[k] ELSE loc[j]
                        /\ aside'[j] = IF j = k THEN None ELSE aside[j]
    BY <1>2 DEF Inv, TypeOK
  <1>4. TreeFits'
    BY <1>1, <1>2, <1>3, KeysAreNat DEF Settling, TreeFits, Remote
  <1>5. \A j \in Keys : \A x \in {loc'[j], aside'[j]} : x \in {None, loc[j], aside[j]}
    BY <1>3
  <1>. QED BY <1>1, <1>4, <1>5, EditsSettle

LEMMA MoveRootBackSettles == ASSUME Inv, Settling, MoveRootBack PROVE Settling'
  <1>1. /\ Idle /\ UNCHANGED <<clock, Remote>> /\ clock \in Ticks /\ aside' = Blanks
        /\ \A k \in Keys : aside'[k] = None
    BY DEF MoveRootBack, Inv, TypeOK, Blanks
  <1>2. CASE shape = "file" /\ shape' = "dir" /\ loc' = aside
    <2>1. TreeFits'
      BY <1>1, <1>2, KeysAreNat DEF Settling, TreeFits, Remote
    <2>. QED BY <1>1, <1>2, <2>1, EditsSettle
  <1>3. CASE shape = "dir" /\ shape' = "file" /\ aside[Own] # None /\ loc' = Alone(aside[Own])
    <2>1. \A k \in Keys : loc'[k] = IF k = Own THEN aside[Own] ELSE None
      BY <1>3 DEF Alone, Blanks
    <2>2. TreeFits'
      BY <1>1, <1>3, <2>1, KeysAreNat DEF Settling, TreeFits, Remote
    <2>. QED BY <1>1, <2>1, <2>2, EditsSettle
  <1>. QED BY <1>2, <1>3 DEF MoveRootBack

-----------------------------------------------------------------------------
(* A run starts, and migrates; what lands, and what fails.                 *)

\* What has no record follows anything.
LEMMA NothingFollows == \A i : Follows(None, i)
  BY DEF Follows

LEMMA NoLeafBeforeFirst == {k \in Leaves : k < 1} = {}
  BY RunAssumption DEF Leaves

LEMMA BeginSettles == ASSUME Inv, Settling, NEW o \in Pushes, Begin(o) PROVE Settling'
  <1>1. /\ UNCHANGED <<tree, obj, man, up>> /\ up = {} /\ del = {} /\ shape \in Shapes
        /\ man \in Manifests
    BY NoRunIsNone DEF Begin, Idle, Inv, TypeOK
  <1>2. PICK h \in SUBSET Leaves :
          run' = Started(o, man, IF Migrates THEN "migrate" ELSE Walk, h)
    BY DEF Begin
  <1>3. TreeFits' /\ Timely' /\ Truthful'
    BY <1>1 DEF Settling, TreeFits, Timely, Truthful
  <1>4. /\ run'.opts = o /\ run'.old = man /\ run'.unseen = h /\ run'.pos = 1 /\ run'.new = man.rec
        /\ run'.changed = (man.kind = "none" /\ shape = "dir") /\ run'.spool = {}
        /\ run'.failed = FALSE
    BY <1>2 DEF Started
  <1>5. CASE Migrates
    <2>1. run'.phase = "migrate"
      BY <1>2, <1>5 DEF Started
    <2>2. del' = {k \in Keys : obj[k] # None}
      BY <1>5 DEF Begin
    <2>3. Judging'
      BY <1>1, <1>4, <1>5, <2>1, <2>2 DEF Judging, Sources, At, Migrates
    <2>. QED BY <1>3, <2>3 DEF Settling
  <1>6. CASE ~Migrates
    <2>1. run'.phase = Walk /\ del' = {} /\ up' = {}
      BY <1>1, <1>2, <1>6 DEF Started, Begin
    <2>2. \/ shape = "dir" /\ run'.phase = "scan"
          \/ shape = "file" /\ run'.phase = "file"
      BY <1>1, <2>1 DEF Walk, Shapes
    <2>3. Judged(run') = {}
      BY <1>4, <2>2, JudgedIs, NoLeafBeforeFirst
    <2>4. NewFits'
      BY <1>1, <1>4 DEF NewFits, Settling, Timely, Truthful
    <2>5. \A k \in Keys : Waiting(k)'
      BY <1>1, <1>4, <1>6, <2>1 DEF Waiting, Migrates
    <2>6. man.kind \in {"none", shape}
      BY <1>6 DEF Migrates
    <2>7. shape = "dir" => man.rec[Own] = None
      BY <2>6, KeysAreNat DEF Settling, TreeFits, Inv, ManifestFits, NoManifest, Blanks
    <2>8. Sources'
      BY <1>1, <1>4, <1>6, <2>2, <2>6, <2>7 DEF Sources, At, Migrates
    <2>. QED BY <1>3, <1>4, <2>1, <2>3, <2>4, <2>5, <2>8 DEF Settling, Judging
  <1>. QED BY <1>5, <1>6

LEMMA GiveUpSettles ==
  ASSUME Settling, run' = NoRun, UNCHANGED <<tree, man, obj>>
  PROVE  Settling'
  BY DEF Settling, TreeFits, Timely, Truthful, Idle

LEMMA MigratedSettles == ASSUME Inv, Settling, Migrated PROVE Settling'
  <1>1. /\ run \in Runs /\ run.phase = "migrate" /\ ~Idle
        /\ up = {} /\ del = {} /\ UNCHANGED <<tree, obj, man, moving>> /\ shape \in Shapes
    BY AtRuns DEF Migrated, Landed, Inv, TypeOK
  <1>2. CASE run.failed
    BY <1>1, <1>2, GiveUpSettles DEF Migrated
  <1>3. CASE ~run.failed
    <2>1. Migrates /\ (\A k \in Keys : obj[k] = None) /\ run.opts \in Pushes
      BY <1>1, <1>3 DEF Settling, Judging, Sources, At
    <2>2. run' = Started(run.opts, NoManifest, Walk, run.unseen)
      BY <1>3 DEF Migrated
    <2>3. /\ run'.opts = run.opts /\ run'.old = NoManifest /\ run'.unseen = run.unseen /\ run'.pos = 1
          /\ run'.new = Blanks /\ run'.changed = (shape = "dir") /\ run'.spool = {}
          /\ run'.failed = FALSE /\ run'.phase = Walk
      BY <2>2 DEF Started, NoManifest
    <2>4. \/ shape = "dir" /\ run'.phase = "scan"
          \/ shape = "file" /\ run'.phase = "file"
      BY <1>1, <2>3 DEF Walk, Shapes
    <2>5. Judged(run') = {}
      BY <2>3, <2>4, JudgedIs, NoLeafBeforeFirst
    <2>6. TreeFits' /\ Timely' /\ Truthful'
      BY <1>1 DEF Settling, TreeFits, Timely, Truthful
    <2>7. \A k \in Keys : run'.new[k] = None
      BY <2>3 DEF Blanks
    <2>8. NewFits'
      BY <1>1, <2>1, <2>7, NothingFollows DEF NewFits
    <2>9. \A k \in Keys : Waiting(k)'
      BY <1>1, <2>1, <2>3 DEF Waiting, NoManifest
    <2>10. Sources'
      BY <1>1, <2>1, <2>3, <2>4, <2>7, KeysAreNat DEF Sources, At, Migrates
    <2>. QED BY <1>1, <2>1, <2>3, <2>5, <2>6, <2>8, <2>9, <2>10 DEF Settling, Judging
  <1>. QED BY <1>2, <1>3

\* What is under way belongs to what was decided.
LEMMA UpJudged ==
  ASSUME Inv, Settling, NEW k \in up
  PROVE  /\ run \in Runs /\ ~Idle /\ Judging /\ ~At("migrate") /\ k \in Judged(run) /\ k \in Keys
         /\ IsFile(loc[k]) /\ loc[k] \in Items /\ aside[k] = None /\ k \notin del
  <1>1. run \in Runs /\ ~Idle /\ k \in Keys /\ k \notin del
    BY NoRunIsNone DEF Inv, TypeOK, Idle
  <1>2. Judging /\ ~At("migrate")
    BY <1>1 DEF Settling, Judging, Sources
  <1>3. IsFile(loc[k]) /\ k \in Judged(run)
    BY <1>1, <1>2 DEF Judging, Waiting
  <1>4. loc[k] \in Items /\ aside[k] = None
    BY <1>1, <1>3 DEF Settling, TreeFits, Inv, TypeOK, IsFile
  <1>. QED BY <1>1, <1>2, <1>3, <1>4

LEMMA PutSettles == ASSUME Inv, Settling, Put PROVE Settling'
  <1>1. PICK k \in up : obj' = [obj EXCEPT ![k] = loc[k].data] /\ up' = up \ {k}
    BY DEF Put
  <1>2. UNCHANGED <<tree, man, run, del, agreed, mishaps>>
    BY DEF Put
  <1>3. /\ ~Idle /\ Judging /\ ~At("migrate") /\ k \in Judged(run) /\ k \in Keys
        /\ IsFile(loc[k]) /\ loc[k] \in Items /\ aside[k] = None /\ k \notin del
    BY UpJudged
  <1>4. /\ loc[k].data # None
        /\ \A j \in Keys : obj'[j] = IF j = k THEN loc[k].data ELSE obj[j]
    BY <1>1, <1>3, ItemRecord DEF Inv, TypeOK
  <1>5. TreeFits' /\ Timely'
    BY <1>2 DEF Settling, TreeFits, Timely
  <1>6. Truthful'
    BY <1>2, <1>3, <1>4 DEF Settling, Truthful, IsFile
  <1>7. NewFits'
    BY <1>1, <1>2, <1>3, <1>4 DEF Judging, NewFits, IsFile
  <1>8. Sources'
    BY <1>1, <1>2, <1>3 DEF Judging, Sources, At, Migrates
  <1>9. ASSUME NEW j \in Keys, j \notin Judged(run) PROVE Waiting(j)'
    BY <1>1, <1>2, <1>3, <1>4, <1>9 DEF Judging, Waiting, Migrates
  <1>10. ASSUME NEW j \in Judged(run) PROVE Kept(j)' /\ Dropped(j)' /\ Copied(j)' /\ Emptied(j)'
    <2>1. j \in Keys /\ Kept(j) /\ Dropped(j) /\ Copied(j) /\ Emptied(j)
      BY <1>3, JudgedIs DEF Judging
    <2>2. Kept(j)' /\ Dropped(j)'
      BY <1>1, <1>2, <1>4, <2>1 DEF Kept, Dropped, Orders
    <2>3. Copied(j)'
      BY <1>1, <1>2, <1>4, <2>1 DEF Copied
    <2>4. Emptied(j)'
      BY <1>1, <1>2, <1>3, <1>4, <2>1 DEF Emptied, At
    <2>. QED BY <2>2, <2>3, <2>4
  <1>11. /\ run'.opts \in Pushes /\ (\A j \in up' : IsFile(loc'[j]))
         /\ \A j \in del' \cup run'.spool : ~IsFile(loc'[j])
    BY <1>1, <1>2, <1>3 DEF Judging
  <1>12. Judging'
    BY <1>2, <1>7, <1>8, <1>9, <1>10, <1>11 DEF Judging
  <1>. QED BY <1>5, <1>6, <1>12 DEF Settling

LEMMA DeleteSettles == ASSUME Inv, Settling, Delete PROVE Settling'
  <1>1. PICK k \in del : obj' = [obj EXCEPT ![k] = None] /\ del' = del \ {k}
    BY DEF Delete
  <1>2. UNCHANGED <<tree, man, run, up, agreed, mishaps>>
    BY DEF Delete
  <1>3. run \in Runs /\ ~Idle /\ Judging /\ k \in Keys
    BY NoRunIsNone DEF Settling, Inv, TypeOK, Idle
  <1>4. \A j \in Keys : obj'[j] = IF j = k THEN None ELSE obj[j]
    BY <1>1, <1>3 DEF Inv, TypeOK
  <1>5. TreeFits' /\ Timely' /\ Truthful'
    BY <1>2, <1>4 DEF Settling, TreeFits, Timely, Truthful
  <1>6. Sources'
    BY <1>1, <1>2, <1>3, <1>4 DEF Judging, Sources, At, Migrates
  <1>7. CASE At("migrate")
    BY <1>2, <1>3, <1>5, <1>6, <1>7 DEF Settling, Judging, At
  <1>8. CASE ~At("migrate")
    <2>1. NewFits'
      BY <1>2, <1>3, <1>4, <1>8 DEF Judging, NewFits
    <2>2. ASSUME NEW j \in Keys, j \notin Judged(run) PROVE Waiting(j)'
      BY <1>1, <1>2, <1>3, <1>4, <1>8, <2>2 DEF Judging, Waiting, Migrates
    <2>3. ASSUME NEW j \in Judged(run) PROVE Kept(j)' /\ Dropped(j)' /\ Copied(j)' /\ Emptied(j)'
      <3>1. j \in Keys /\ Kept(j) /\ Dropped(j) /\ Copied(j) /\ Emptied(j)
        BY <1>3, <1>8, JudgedIs DEF Judging
      <3>2. Kept(j)' /\ Dropped(j)'
        BY <1>1, <1>2, <1>4, <3>1 DEF Kept, Dropped, Orders
      <3>3. Copied(j)'
        BY <1>1, <1>2, <1>3, <1>4, <1>8, <3>1 DEF Copied, Judging, IsFile
      <3>4. Emptied(j)'
        BY <1>1, <1>2, <1>4, <3>1 DEF Emptied, At
      <3>. QED BY <3>2, <3>3, <3>4
    <2>4. /\ run'.opts \in Pushes /\ (\A j \in up' : IsFile(loc'[j]))
          /\ \A j \in del' \cup run'.spool : ~IsFile(loc'[j])
      BY <1>1, <1>2, <1>3, <1>8 DEF Judging
    <2>5. Judging'
      BY <1>2, <1>6, <2>1, <2>2, <2>3, <2>4 DEF Judging
    <2>. QED BY <1>5, <2>5 DEF Settling
  <1>. QED BY <1>7, <1>8

LEMMA FailSettles == ASSUME Inv, Settling, Fail PROVE Settling'
  <1>1. PICK k \in up \cup del : up' = up \ {k} /\ del' = del \ {k}
    BY DEF Fail
  <1>2. UNCHANGED <<tree, obj, man, agreed>> /\ run' = [run EXCEPT !.failed = TRUE]
    BY DEF Fail
  <1>3. run \in Runs /\ ~Idle /\ Judging /\ k \in Keys /\ Running
    BY NoRunIsNone DEF Settling, Inv, TypeOK, Idle
  <1>4. /\ run'.opts = run.opts /\ run'.old = run.old /\ run'.unseen = run.unseen
        /\ run'.pos = run.pos /\ run'.new = run.new /\ run'.changed = run.changed
        /\ run'.spool = run.spool /\ run'.phase = run.phase /\ run'.failed = TRUE
    BY <1>2, <1>3 DEF Runs
  <1>5. TreeFits' /\ Timely' /\ Truthful'
    BY <1>2 DEF Settling, TreeFits, Timely, Truthful
  <1>6. Sources'
    <2>1. ~At("done")
      BY <1>1, <1>3 DEF Running, PhaseFits
    <2>. QED BY <1>1, <1>2, <1>3, <1>4, <2>1 DEF Judging, Sources, At, Migrates
  <1>7. CASE At("migrate")
    BY <1>3, <1>4, <1>5, <1>6, <1>7 DEF Settling, Judging, At
  <1>8. CASE ~At("migrate")
    <2>0. Judged(run') = Judged(run)
      BY <1>4 DEF Judged
    <2>1. NewFits'
      BY <1>2, <1>3, <1>4, <1>8 DEF Judging, NewFits
    <2>2. ASSUME NEW j \in Keys, j \notin Judged(run) PROVE Waiting(j)'
      BY <1>1, <1>2, <1>3, <1>4, <1>8, <2>2 DEF Judging, Waiting, Migrates
    <2>3. ASSUME NEW j \in Judged(run) PROVE Kept(j)' /\ Dropped(j)' /\ Copied(j)' /\ Emptied(j)'
      <3>1. j \in Keys /\ Kept(j) /\ Dropped(j) /\ Copied(j) /\ Emptied(j)
        BY <1>3, <1>8, JudgedIs DEF Judging
      <3>2. Kept(j)' /\ Dropped(j)'
        BY <1>1, <1>2, <1>4, <3>1 DEF Kept, Dropped, Orders
      <3>3. Copied(j)'
        BY <1>2, <1>4, <3>1 DEF Copied
      <3>4. Emptied(j)'
        BY <1>2, <1>4, <3>1 DEF Emptied
      <3>. QED BY <3>2, <3>3, <3>4
    <2>4. /\ run'.opts \in Pushes /\ (\A j \in up' : IsFile(loc'[j]))
          /\ \A j \in del' \cup run'.spool : ~IsFile(loc'[j])
      BY <1>1, <1>2, <1>3, <1>4, <1>8 DEF Judging
    <2>5. Judging'
      BY <1>6, <2>0, <2>1, <2>2, <2>3, <2>4 DEF Judging
    <2>. QED BY <1>5, <2>5 DEF Settling
  <1>. QED BY <1>7, <1>8

-----------------------------------------------------------------------------
(* The scan.                                                               *)

\* What the run finds at the key it has got to.
LEMMA ScanFinds ==
  ASSUME Inv, Settling, Scanning, NEW k, k = run.pos
  PROVE  /\ run \in Runs /\ run.phase = "scan" /\ ~Idle /\ Judging /\ shape = "dir"
         /\ k \in Leaves /\ k \in Keys /\ k + 1 \in 1..N + 1
         /\ k \notin Judged(run) /\ Waiting(k) /\ run.old.rec[k] = run.new[k]
         /\ run.new[k] \in Records \cup {None}
         /\ Follows(run.new[k], loc[k]) /\ Follows(run.new[k], aside[k])
         /\ Judged(run) = {j \in Leaves : j < k}
         /\ \A r : r.phase = "scan" /\ r.pos = k + 1 => Judged(r) = Judged(run) \cup {k}
  <1>1. /\ run \in Runs /\ run.phase = "scan" /\ k \in Leaves /\ k \in Keys /\ k + 1 \in 1..N + 1
        /\ shape = "dir"
    BY ScanKey
  <1>2. ~Idle /\ Judging /\ ~At("migrate")
    BY <1>1, NoRunIsNone DEF Settling, Idle, At
  <1>3. Judged(run) = {j \in Leaves : j < k}
    BY <1>1, JudgedIs
  <1>4. Leaves \subseteq Nat /\ k \in Nat
    BY <1>1, KeysAreNat
  <1>5. k \notin Judged(run)
    BY <1>1, <1>3, <1>4
  <1>6. Waiting(k) /\ run.old.rec[k] = run.new[k]
    BY <1>1, <1>2, <1>5 DEF Judging, Waiting
  <1>7. run.new[k] \in Records \cup {None}
    BY <1>1 DEF Runs
  <1>8. Follows(run.new[k], loc[k]) /\ Follows(run.new[k], aside[k])
    BY <1>1, <1>2 DEF Judging, NewFits
  <1>9. ASSUME NEW r, r.phase = "scan", r.pos = k + 1
        PROVE  Judged(r) = Judged(run) \cup {k}
    <2>1. Judged(r) = {j \in Leaves : j < k + 1}
      BY <1>9, JudgedIs
    <2>2. \A j \in Leaves : j < k + 1 <=> j < k \/ j = k
      BY <1>1, <1>4
    <2>. QED BY <1>1, <1>3, <2>1, <2>2
  <1>. QED BY <1>1, <1>2, <1>3, <1>5, <1>6, <1>7, <1>8, <1>9

LEMMA ScanItemSettles == ASSUME Inv, Settling, ScanItem PROVE Settling'
  <1>. PICK k : k = run.pos
    OBVIOUS
  <1>. PICK i, r : i = loc[k] /\ r = run.old.rec[k]
    OBVIOUS
  <1>. PICK v : v = Verdict(r, i, obj[k], run.opts, FALSE)
    OBVIOUS
  <1>. PICK shields : shields = ShieldsObject(i, obj[k], run.opts, v)
    OBVIOUS
  <1>1. /\ run \in Runs /\ run.phase = "scan" /\ ~Idle /\ Judging /\ shape = "dir"
        /\ k \in Leaves /\ k \in Keys /\ k + 1 \in 1..N + 1
        /\ k \notin Judged(run) /\ Waiting(k) /\ r = run.new[k] /\ r \in Records \cup {None}
        /\ Follows(r, i)
        /\ \A s : s.phase = "scan" /\ s.pos = k + 1 => Judged(s) = Judged(run) \cup {k}
    BY ScanFinds DEF ScanItem
  <1>2. /\ i \in Items /\ i # None /\ k \notin run.unseen
        /\ UNCHANGED <<tree, obj, man, del, agreed, mishaps>>
        /\ up' = IF v.copy THEN up \cup {k} ELSE up
    BY <1>1 DEF ScanItem, Item, Inv, TypeOK
  <1>3. /\ aside[k] = None /\ obj[k] \in Ticks \cup {None} /\ ~At("migrate") /\ k # Own
        /\ i.kind = "file" \/ i.kind = "link"
    BY <1>1, <1>2, ItemTimes, KeysAreNat DEF Settling, TreeFits, Inv, TypeOK, At
  <1>f. i.kind = "file" => FileSaid(v, r, i, obj[k], run.opts)
    BY <1>1, <1>2, <1>3, FileJudged
  <1>l. i.kind = "link" => LinkSaid(v, r, i, run.opts)
    BY <1>1, <1>2, LinkJudged
  <1>4. /\ v.emit \in BOOLEAN /\ v.copy \in BOOLEAN
        /\ v.copy => v.emit /\ i.kind = "file"
        /\ ~v.emit => r # None
        /\ ~v.emit /\ ~run.opts.update => ~StatusShows(r, i)
    BY <1>3, <1>f, <1>l DEF FileSaid, LinkSaid
  <1>5. i.kind = "file" =>
          /\ obj[k] = None => v.copy \/ (~v.emit /\ run.opts.update /\ r.kind # "file")
          /\ obj[k] # None /\ (v.emit \/ ~run.opts.update) => v.copy \/ obj[k] = i.data \/ r = RecordOf(i)
    BY <1>f DEF FileSaid
  <1>6. i.kind = "link" /\ ~v.emit /\ Orders => r.kind = "link"
    BY <1>l DEF Orders, LinkSaid
  <1>7. run' = [run EXCEPT !.pos = k + 1,
                           !.new[k] = IF v.emit THEN RecordOf(i) ELSE @,
                           !.changed = @ \/ v.emit,
                           !.spool = IF shields THEN @ \cup {k} ELSE @]
    BY DEF ScanItem
  <1>8. shields <=> i.kind # "file" /\ obj[k] # None /\ run.opts.delete /\ (v.emit \/ ~run.opts.update)
    BY DEF ShieldsObject
  <1>9. /\ RecordOf(i) \in Records /\ RecordOf(i) # None /\ RecordOf(i).kind = i.kind
        /\ ~StatusShows(RecordOf(i), i) /\ RecordOf(i).mtime = i.mtime
    BY <1>2, ItemRecord, RecordShowsNothing, ItemTimes
  <1>10. i.mtime <= clock /\ i.mtime \in Nat
    BY <1>1, <1>2, ItemTimes DEF Settling, Timely
  <1>11. TreeFits' /\ Timely' /\ Truthful'
    BY <1>2 DEF Settling, TreeFits, Timely, Truthful
  <1>12. /\ run'.opts = run.opts /\ run'.old = run.old /\ run'.unseen = run.unseen
         /\ run'.pos = k + 1 /\ run'.phase = run.phase /\ run'.failed = run.failed
         /\ run'.changed = (run.changed \/ v.emit)
         /\ run'.spool = IF shields THEN run.spool \cup {k} ELSE run.spool
         /\ run'.new = [run.new EXCEPT ![k] = IF v.emit THEN RecordOf(i) ELSE @]
    BY <1>1, <1>7 DEF Runs
  <1>13. \A j \in Keys : run'.new[j] = IF j = k /\ v.emit THEN RecordOf(i) ELSE run.new[j]
    BY <1>1, <1>12 DEF Runs
  <1>14. Judged(run') = Judged(run) \cup {k}
    BY <1>1, <1>12
  <1>15. /\ ~v.emit => run'.new[k] = r
         /\ v.emit => run'.new[k] = RecordOf(i)
         /\ k \notin up /\ k \notin del /\ k \notin run.spool
    BY <1>1, <1>13 DEF Waiting
  <1>16. Sources'
    <2>1. ~run'.changed => run'.new = run.new
      <3>1. run.new \in [Keys -> Records \cup {None}]
        BY <1>1 DEF Runs
      <3>. QED BY <1>1, <1>12, <3>1
    <2>. QED BY <1>1, <1>2, <1>3, <1>12, <1>13, <2>1, KeysAreNat DEF Judging, Sources, At, Migrates
  <1>17. NewFits'
    <2>1. ASSUME NEW j \in Keys, NEW x \in {loc[j], aside[j]}
          PROVE  /\ run'.new[j] # None => run'.new[j].mtime <= clock
                 /\ Follows(run'.new[j], x)
                 /\ IsFile(x) /\ run'.new[j] = RecordOf(x) /\ obj[j] # None
                      => obj[j] = x.data \/ j \in up' \/ run.failed
      <3>0. /\ run.new[j] # None => run.new[j].mtime <= clock
            /\ Follows(run.new[j], x)
            /\ IsFile(x) /\ run.new[j] = RecordOf(x) /\ obj[j] # None
                      => obj[j] = x.data \/ j \in up \/ run.failed
        BY <1>1, <1>3 DEF Judging, NewFits
      <3>1. CASE j = k /\ v.emit
        <4>1. run'.new[j] = RecordOf(i) /\ run'.new[j].mtime <= clock
          BY <1>9, <1>10, <1>15, <3>1
        <4>2. x = i \/ x = None
          BY <1>3, <3>1
        <4>3. Follows(run'.new[j], x)
          BY <1>9, <1>10, <4>1, <4>2 DEF Follows
        <4>4. x = i /\ IsFile(i) /\ obj[k] # None => v.copy \/ obj[k] = i.data \/ r = RecordOf(i)
          BY <1>5, <3>1 DEF IsFile
        <4>5. x = i /\ IsFile(i) /\ obj[k] # None => obj[k] = i.data \/ k \in up' \/ run.failed
          BY <1>1, <1>2, <1>15, <3>0, <3>1, <4>4
        <4>. QED BY <3>1, <4>1, <4>2, <4>3, <4>5 DEF IsFile
      <3>2. CASE ~(j = k /\ v.emit)
        <4>1. run'.new[j] = run.new[j] /\ up \subseteq up'
          BY <1>2, <1>13, <3>2
        <4>. QED BY <3>0, <4>1
      <3>. QED BY <3>1, <3>2
    <2>. QED BY <1>2, <1>12, <2>1 DEF NewFits
  <1>18. ASSUME NEW j \in Keys, j \notin Judged(run') PROVE Waiting(j)'
    <2>1. j # k /\ Waiting(j)
      BY <1>1, <1>3, <1>14, <1>18 DEF Judging
    <2>. QED BY <1>2, <1>12, <1>13, <2>1 DEF Waiting, Migrates
  <1>19. ASSUME NEW j \in Judged(run), j # k
         PROVE  Kept(j)' /\ Dropped(j)' /\ Copied(j)' /\ Emptied(j)'
    <2>1. j \in Keys /\ Kept(j) /\ Dropped(j) /\ Copied(j) /\ Emptied(j)
      BY <1>1, <1>3, JudgedIs DEF Judging
    <2>2. /\ run'.new[j] = run.new[j] /\ (j \in up' <=> j \in up)
          /\ j \in run'.spool <=> j \in run.spool
      BY <1>2, <1>12, <1>13, <1>19, <2>1
    <2>3. Kept(j)' /\ Dropped(j)'
      BY <1>2, <1>12, <2>1, <2>2 DEF Kept, Dropped, Orders
    <2>4. Copied(j)' /\ Emptied(j)'
      BY <1>2, <1>12, <2>1, <2>2 DEF Copied, Emptied, At
    <2>. QED BY <2>3, <2>4
  <1>20. Kept(k)' /\ Dropped(k)' /\ Copied(k)' /\ Emptied(k)'
    <2>1. Kept(k)'
      <3>1. CASE i.kind = "file"
        <4>1. k \notin del' /\ k \notin run'.spool
          BY <1>2, <1>8, <1>12, <1>15, <3>1
        <4>2. IsFile(run'.new[k]) => obj'[k] # None \/ k \in up'
          BY <1>2, <1>5, <1>15, <3>1 DEF IsFile
        <4>. QED BY <4>1, <4>2 DEF Kept
      <3>2. CASE i.kind = "link"
        <4>1. Orders' <=> Orders
          BY <1>12 DEF Orders
        <4>2. Orders => ~IsFile(run'.new[k])
          BY <1>6, <1>9, <1>15, <3>2 DEF IsFile
        <4>. QED BY <4>1, <4>2 DEF Kept
      <3>. QED BY <1>3, <3>1, <3>2
    <2>2. Dropped(k)'
      BY <1>4, <1>9, <1>15 DEF Dropped
    <2>3. run'.new[k] # None /\ (~run.opts.update => ~StatusShows(run'.new[k], i))
      BY <1>4, <1>9, <1>15
    <2>4. i.kind = "file" /\ ~run.opts.update => obj[k] = i.data \/ k \in up' \/ run.failed
      <3>1. IsFile(i) /\ r = RecordOf(i) /\ obj[k] # None => obj[k] = i.data \/ k \in up \/ run.failed
        BY <1>1, <1>3 DEF Judging, NewFits
      <3>. QED BY <1>2, <1>5, <3>1 DEF IsFile
    <2>5. loc' = loc /\ loc[k] = i /\ obj' = obj /\ del' = del
      BY <1>2
    <2>6. Copied(k)'
      BY <1>12, <2>3, <2>4, <2>5 DEF Copied
    <2>7. Emptied(k)'
      <3>1. i # None /\ (~IsFile(i) /\ run.opts.delete /\ ~run.opts.update => obj[k] = None \/ shields)
        BY <1>2, <1>8 DEF IsFile
      <3>2. run'.phase = "scan" /\ (shields => k \in run'.spool)
        BY <1>1, <1>12
      <3>. QED BY <1>12, <2>5, <3>1, <3>2 DEF Emptied, At
    <2>. QED BY <2>1, <2>2, <2>6, <2>7
  <1>21. /\ run'.opts \in Pushes /\ ~At("migrate")'
         /\ (\A j \in up' : IsFile(loc'[j]))
         /\ \A j \in del' \cup run'.spool : ~IsFile(loc'[j])
    <2>1. loc' = loc /\ loc[k] = i /\ del' = del
      BY <1>2
    <2>2. v.copy => IsFile(i)
      BY <1>2, <1>4 DEF IsFile
    <2>3. shields => ~IsFile(i)
      BY <1>8 DEF IsFile
    <2>4. /\ run'.opts \in Pushes /\ ~At("migrate")'
          /\ \A j \in up : IsFile(loc[j])
          /\ \A j \in del \cup run.spool : ~IsFile(loc[j])
      BY <1>1, <1>3, <1>12 DEF Judging, At
    <2>5. \A j \in up' : j \in up \/ (v.copy /\ j = k)
      BY <1>2
    <2>6. \A j \in run'.spool : j \in run.spool \/ (shields /\ j = k)
      BY <1>12
    <2>. QED BY <2>1, <2>2, <2>3, <2>4, <2>5, <2>6
  <1>22. Judging'
    BY <1>14, <1>16, <1>17, <1>18, <1>19, <1>20, <1>21 DEF Judging
  <1>. QED BY <1>11, <1>22 DEF Settling

\* Nothing is deleted where the walk could not look.
LEMMA HiddenIsKept ==
  ASSUME NEW k, k = run.pos, k \in run.unseen, NEW offered, NEW yes, Consent(offered, yes),
         k \in Nat
  PROVE  Gap /\ yes = {}
  BY DEF Consent, Gap

LEMMA ScanNothingSettles == ASSUME Inv, Settling, ScanNothing PROVE Settling'
  <1>. PICK k : k = run.pos
    OBVIOUS
  <1>. PICK r : r = run.old.rec[k]
    OBVIOUS
  <1>1. /\ run \in Runs /\ run.phase = "scan" /\ ~Idle /\ Judging /\ shape = "dir"
        /\ k \in Leaves /\ k \in Keys /\ k + 1 \in 1..N + 1
        /\ k \notin Judged(run) /\ Waiting(k) /\ r = run.new[k] /\ r \in Records \cup {None}
        /\ Judged(run) = {j \in Leaves : j < k}
        /\ \A s : s.phase = "scan" /\ s.pos = k + 1 => Judged(s) = Judged(run) \cup {k}
    BY ScanFinds DEF ScanNothing
  <1>2. PICK yes \in SUBSET Backup(k, r) :
          /\ Consent(Backup(k, r), yes)
          /\ del' = IF "object" \in yes THEN del \cup {k} ELSE del
          /\ run' = IF Drops(k, r, yes)
                    THEN [run EXCEPT !.pos = k + 1, !.new[k] = None, !.changed = TRUE]
                    ELSE [run EXCEPT !.pos = k + 1]
    BY DEF ScanNothing
  <1>3. UNCHANGED <<tree, obj, man, up, mishaps>> /\ (loc[k] = None \/ k \in run.unseen)
    BY DEF ScanNothing, Item
  <1>4. ~At("migrate") /\ k # Own /\ k \in Nat /\ k \notin up /\ k \notin del /\ k \notin run.spool
    BY <1>1, KeysAreNat DEF At, Waiting
  <1>5. k \in run.unseen => Gap /\ yes = {}
    BY <1>2, <1>4, HiddenIsKept
  <1>6. run.unseen = {} => ~Gap
    BY DEF Gap
  <1>7. /\ "object" \in yes => obj[k] # None /\ loc[k] = None
        /\ Drops(k, r, yes) => r # None /\ loc[k] = None
    BY <1>2, <1>3, <1>5 DEF Backup, Drops
  <1>8. /\ run'.opts = run.opts /\ run'.old = run.old /\ run'.unseen = run.unseen
        /\ run'.pos = k + 1 /\ run'.phase = run.phase /\ run'.failed = run.failed
        /\ run'.spool = run.spool
        /\ Drops(k, r, yes) => run'.changed = TRUE
        /\ ~Drops(k, r, yes) => run'.changed = run.changed /\ run'.new = run.new
        /\ \A j \in Keys : run'.new[j] = IF j = k /\ Drops(k, r, yes) THEN None ELSE run.new[j]
    <2>1. CASE Drops(k, r, yes)
      BY <1>1, <1>2, <2>1 DEF Runs
    <2>2. CASE ~Drops(k, r, yes)
      BY <1>1, <1>2, <2>2 DEF Runs
    <2>. QED BY <2>1, <2>2
  <1>9. Judged(run') = Judged(run) \cup {k}
    BY <1>1, <1>8
  <1>10. TreeFits' /\ Timely' /\ Truthful'
    BY <1>3 DEF Settling, TreeFits, Timely, Truthful
  <1>11. Sources'
    BY <1>1, <1>3, <1>4, <1>8, KeysAreNat DEF Judging, Sources, At, Migrates
  <1>12. NewFits'
    <2>1. ASSUME NEW j \in Keys, NEW x \in {loc[j], aside[j]}
          PROVE  /\ run'.new[j] # None => run'.new[j].mtime <= clock
                 /\ Follows(run'.new[j], x)
                 /\ IsFile(x) /\ run'.new[j] = RecordOf(x) /\ obj[j] # None
                      => obj[j] = x.data \/ j \in up \/ run.failed
      <3>0. /\ run.new[j] # None => run.new[j].mtime <= clock
            /\ Follows(run.new[j], x)
            /\ IsFile(x) /\ run.new[j] = RecordOf(x) /\ obj[j] # None
                      => obj[j] = x.data \/ j \in up \/ run.failed
        BY <1>1, <1>4 DEF Judging, NewFits
      <3>1. CASE run'.new[j] = None
        <4>1. x \in Items \cup {None}
          BY DEF Inv, TypeOK
        <4>2. IsFile(x) => RecordOf(x) # None
          BY <4>1, ItemRecord DEF IsFile
        <4>. QED BY <3>1, <4>2, NothingFollows
      <3>2. CASE run'.new[j] = run.new[j]
        BY <3>0, <3>2
      <3>. QED BY <1>8, <3>1, <3>2
    <2>. QED BY <1>3, <1>8, <2>1 DEF NewFits
  <1>13. ASSUME NEW j \in Keys, j \notin Judged(run') PROVE Waiting(j)'
    <2>1. j # k /\ Waiting(j)
      BY <1>1, <1>4, <1>9, <1>13 DEF Judging
    <2>2. j \notin del'
      BY <1>2, <2>1 DEF Waiting
    <2>. QED BY <1>3, <1>8, <2>1, <2>2 DEF Waiting, Migrates
  <1>14. ASSUME NEW j \in Judged(run), j # k
         PROVE  Kept(j)' /\ Dropped(j)' /\ Copied(j)' /\ Emptied(j)'
    <2>1. j \in Keys /\ Kept(j) /\ Dropped(j) /\ Copied(j) /\ Emptied(j)
      BY <1>1, <1>4, JudgedIs DEF Judging
    <2>2. run'.new[j] = run.new[j] /\ (j \in del' <=> j \in del)
      BY <1>2, <1>8, <1>14, <2>1
    <2>3. Kept(j)' /\ Dropped(j)'
      BY <1>3, <1>8, <2>1, <2>2 DEF Kept, Dropped, Orders
    <2>4. Copied(j)' /\ Emptied(j)'
      BY <1>3, <1>8, <2>1, <2>2 DEF Copied, Emptied, At
    <2>. QED BY <2>3, <2>4
  <1>15. Kept(k)' /\ Dropped(k)' /\ Copied(k)' /\ Emptied(k)'
    <2>0. /\ k \in del' <=> "object" \in yes
          /\ ~Drops(k, r, yes) => run'.new[k] = r
          /\ Drops(k, r, yes) => run'.new[k] = None
      BY <1>1, <1>2, <1>4, <1>8
    <2>1. Kept(k)'
      <3>1. run.unseen = {} /\ IsFile(run'.new[k]) => "object" \notin yes /\ obj[k] # None
        BY <1>6, <2>0 DEF Drops, IsFile
      <3>. QED BY <1>3, <1>4, <1>8, <2>0, <3>1 DEF Kept
    <2>2. Dropped(k)'
      <3>1. IsFile(man.rec[k]) /\ run'.new[k] = None => obj[k] = None \/ "object" \in yes
        <4>1. CASE Migrates
          BY <1>1, <4>1 DEF Waiting
        <4>2. CASE ~Migrates
          <5>1. r = man.rec[k]
            BY <1>1, <1>4, <4>2 DEF Judging, Sources, At
          <5>. QED BY <2>0, <5>1 DEF Drops, IsFile
        <4>. QED BY <4>1, <4>2
      <3>. QED BY <1>3, <1>4, <2>0, <3>1 DEF Dropped
    <2>3. Copied(k)'
      BY <1>3, <1>8 DEF Copied
    <2>4. Emptied(k)'
      <3>. SUFFICES ASSUME run.opts.delete, ~run.opts.asks, run.unseen = {}
                    PROVE  run'.new[k] = None /\ (obj[k] = None \/ k \in del')
        BY <1>3, <1>8 DEF Emptied
      <3>1. yes = Backup(k, r)
        BY <1>2, <1>6 DEF Consent
      <3>2. obj[k] = None \/ "object" \in yes
        BY <3>1 DEF Backup
      <3>3. r = None \/ Drops(k, r, yes)
        BY <1>6, <3>1, <3>2 DEF Backup, Drops
      <3>. QED BY <2>0, <3>2, <3>3
    <2>. QED BY <2>1, <2>2, <2>3, <2>4
  <1>16. /\ run'.opts \in Pushes /\ (\A j \in up' : IsFile(loc'[j]))
         /\ \A j \in del' \cup run'.spool : ~IsFile(loc'[j])
    <2>1. /\ run'.opts \in Pushes
          /\ \A j \in up : IsFile(loc[j])
          /\ \A j \in del \cup run.spool : ~IsFile(loc[j])
      BY <1>1, <1>4, <1>8 DEF Judging
    <2>2. \A j \in del' : j \in del \/ (j = k /\ loc[k] = None)
      BY <1>2, <1>7
    <2>. QED BY <1>3, <1>8, <2>1, <2>2 DEF IsFile
  <1>17. Judging'
    BY <1>9, <1>11, <1>12, <1>13, <1>14, <1>15, <1>16 DEF Judging
  <1>. QED BY <1>10, <1>17 DEF Settling

-----------------------------------------------------------------------------
(* The offers that follow, the single file and the end.                    *)

\* An offer of keys that no file needs, to a run that has decided about the
\* rest, decides about the keys that are left.
LEMMA OfferSettles ==
  ASSUME Inv, Settling, NEW from \in Later, NEW offered \in SUBSET Keys,
         NEW to \in {"offered", "publish"}, Offer(from, offered, to),
         NEW left \in SUBSET Keys,
         ~run.failed => \A r : r.phase = to => Judged(r) = Judged(run) \cup left,
         to = "offered" => shape = "dir",
         from = "scan" => run.spool \subseteq offered,
         \A k \in offered : /\ k \in run.spool \/ k \in left
                            /\ ~IsFile(loc[k])
                            /\ run.unseen = {} /\ Orders => ~IsFile(run.new[k]),
         \A k \in left : /\ run.new[k] = None /\ loc[k] = None
                         /\ IsFile(man.rec[k]) => obj[k] = None
                         /\ obj[k] = None \/ k \in offered
  PROVE  Settling'
  <1>1. /\ run \in Runs /\ run.phase = from /\ ~Idle /\ up = {} /\ del = {}
        /\ UNCHANGED <<tree, obj, man, up, mishaps>>
    BY AtRuns DEF Offer, Landed, Later
  <1>2. Judging /\ ~At("migrate") /\ ~At("done") /\ ~At("file")
    BY <1>1 DEF Settling, At, Later
  <1>3. TreeFits' /\ Timely' /\ Truthful'
    BY <1>1 DEF Settling, TreeFits, Timely, Truthful
  <1>4. CASE run.failed
    BY <1>1, <1>4, GiveUpSettles DEF Offer, GiveUp
  <1>5. CASE ~run.failed
    <2>1. PICK yes \in SUBSET offered :
            Consent(offered, yes) /\ del' = yes /\ run' = [run EXCEPT !.phase = to]
      BY <1>5 DEF Offer
    <2>2. /\ run'.opts = run.opts /\ run'.old = run.old /\ run'.unseen = run.unseen
          /\ run'.new = run.new /\ run'.changed = run.changed /\ run'.spool = run.spool
          /\ run'.phase = to /\ run'.failed = run.failed
      BY <1>1, <2>1 DEF Runs
    <2>3. Judged(run') = Judged(run) \cup left
      BY <1>5, <2>2
    <2>4. Sources'
      BY <1>1, <1>2, <2>2 DEF Judging, Sources, At, Migrates
    <2>5. NewFits'
      BY <1>1, <1>2, <2>2 DEF Judging, NewFits
    <2>6. ASSUME NEW k \in Keys, k \notin Judged(run') PROVE Waiting(k)'
      <3>1. Waiting(k) /\ k \notin left
        BY <1>2, <2>3, <2>6 DEF Judging
      <3>2. k \notin del'
        BY <2>1, <3>1 DEF Waiting
      <3>. QED BY <1>1, <2>2, <3>1, <3>2 DEF Waiting, Migrates
    <2>7. run.unseen = {} /\ run.opts.delete /\ ~run.opts.asks => yes = offered
      BY <2>1 DEF Consent, Gap
    <2>8. ASSUME NEW k \in Judged(run), k \notin left
          PROVE  Kept(k)' /\ Dropped(k)' /\ Copied(k)' /\ Emptied(k)'
      <3>1. k \in Keys /\ Kept(k) /\ Dropped(k) /\ Copied(k) /\ Emptied(k)
        BY <1>2, JudgedIs DEF Judging
      <3>2. Kept(k)' /\ Dropped(k)'
        BY <1>1, <2>1, <2>2, <3>1 DEF Kept, Dropped, Orders
      <3>3. Copied(k)'
        BY <1>1, <2>2, <3>1 DEF Copied
      <3>4. Emptied(k)'
        <4>1. to # "scan" /\ (At("scan") => from = "scan")
          BY <1>1 DEF At
        <4>. QED BY <1>1, <1>5, <2>1, <2>2, <2>7, <3>1, <4>1 DEF Emptied
      <3>. QED BY <3>2, <3>3, <3>4
    <2>9. ASSUME NEW k \in left
          PROVE  Kept(k)' /\ Dropped(k)' /\ Copied(k)' /\ Emptied(k)'
      <3>1. Kept(k)'
        BY <2>2 DEF Kept, IsFile
      <3>2. Dropped(k)' /\ Copied(k)'
        BY <1>1, <2>2 DEF Dropped, Copied
      <3>3. Emptied(k)'
        BY <1>1, <2>1, <2>2, <2>7 DEF Emptied
      <3>. QED BY <3>1, <3>2, <3>3
    <2>10. /\ run'.opts \in Pushes /\ (\A j \in up' : IsFile(loc'[j]))
           /\ \A j \in del' \cup run'.spool : ~IsFile(loc'[j])
      BY <1>1, <1>2, <2>1, <2>2 DEF Judging
    <2>11. Judging'
      BY <2>3, <2>4, <2>5, <2>6, <2>8, <2>9, <2>10 DEF Judging
    <2>. QED BY <1>3, <2>11 DEF Settling
  <1>. QED BY <1>4, <1>5

\* Before its manifest is published, a migrated entry has nothing stored where
\* the old manifest had recorded a file that the tree has no place for.
LEMMA OldGone ==
  ASSUME Inv, Settling, ~Idle, ~At("migrate"), NEW k \in Keys, k \notin Judged(run),
         (shape = "dir" /\ k = Own) \/ (shape = "file" /\ k \in Leaves)
  PROVE  /\ run.new[k] = None /\ loc[k] = None
         /\ IsFile(man.rec[k]) => obj[k] = None
  <1>1. Judging /\ run \in Runs /\ Waiting(k)
    BY DEF Settling, Judging, Inv, TypeOK
  <1>2. man.rec[k] # None => Migrates
    <2>1. man.kind = "none" \/ man.kind = shape => man.rec[k] = None
      BY KeysAreNat DEF Settling, TreeFits, Inv, ManifestFits, NoManifest, Blanks
    <2>. QED BY <2>1 DEF Migrates
  <1>3. run.new[k] = None
    BY <1>1, KeysAreNat DEF Judging, Sources, Inv, Running, PhaseFits
  <1>4. loc[k] = None
    BY DEF Settling, TreeFits
  <1>. QED BY <1>1, <1>2, <1>3, <1>4 DEF Waiting, IsFile

LEMMA SyncedSettles == ASSUME Inv, Settling, Synced PROVE Settling'
  <1>1. /\ run \in Runs /\ run.phase = "scan" /\ ~Idle /\ run.pos = N + 1
        /\ Offer("scan", run.spool, "offered")
    BY AtRuns DEF Synced
  <1>2. Judging /\ ~At("migrate") /\ shape = "dir"
    BY <1>1 DEF Settling, Judging, Sources, At
  <1>3. Judged(run) = Leaves
    <2>1. \A k \in Leaves : k < N + 1
      BY RunAssumption DEF Leaves
    <2>. QED BY <1>1, <2>1, JudgedIs
  <1>4. \A r : r.phase = "offered" => Judged(r) = Judged(run) \cup {}
    BY <1>3, JudgedIs
  <1>5. run.spool \in SUBSET Keys
    BY <1>1, KeysAreNat DEF Runs
  <1>6. ASSUME NEW k \in run.spool
        PROVE  ~IsFile(loc[k]) /\ (run.unseen = {} /\ Orders => ~IsFile(run.new[k]))
    <2>1. k \in Judged(run)
      BY <1>1, <1>3, <1>6 DEF Runs
    <2>. QED BY <1>2, <1>6, <2>1 DEF Judging, Kept
  <1>. QED BY <1>1, <1>2, <1>4, <1>5, <1>6, OfferSettles DEF Later

LEMMA OfferOwnSettles == ASSUME Inv, Settling, OfferOwn PROVE Settling'
  <1>. DEFINE offered == {k \in {Own} : obj[k] # None}
  <1>1. run \in Runs /\ run.phase = "offered" /\ ~Idle /\ Offer("offered", offered, "publish")
    BY AtRuns DEF OfferOwn, Offer
  <1>2. Judging /\ ~At("migrate") /\ shape = "dir"
    BY <1>1 DEF Settling, Judging, Sources, At
  <1>3. Judged(run) = Leaves /\ Own \in Keys /\ Own \notin Leaves /\ Keys = Leaves \cup {Own}
    BY <1>1, JudgedIs, KeysAreNat
  <1>4. \A r : r.phase = "publish" => Judged(r) = Judged(run) \cup {Own}
    BY <1>3, JudgedIs
  <1>5. run.new[Own] = None /\ loc[Own] = None /\ (IsFile(man.rec[Own]) => obj[Own] = None)
    <2>. PICK k : k = Own
      OBVIOUS
    <2>1. k \in Keys /\ k \notin Judged(run) /\ shape = "dir" /\ k = Own
      BY <1>2, <1>3
    <2>2. run.new[k] = None /\ loc[k] = None /\ (IsFile(man.rec[k]) => obj[k] = None)
      BY <1>1, <1>2, <2>1, OldGone
    <2>. QED BY <2>2
  <1>6. offered \in SUBSET Keys /\ {Own} \in SUBSET Keys
    BY <1>3
  <1>7. \A k \in offered : k \in {Own} /\ ~IsFile(loc[k]) /\ ~IsFile(run.new[k])
    BY <1>5 DEF IsFile
  <1>8. \A k \in {Own} : /\ run.new[k] = None /\ loc[k] = None
                         /\ IsFile(man.rec[k]) => obj[k] = None
                         /\ obj[k] = None \/ k \in offered
    BY <1>5
  <1>9. "offered" \in Later /\ "publish" \in {"offered", "publish"}
    BY DEF Later
  <1>. HIDE DEF offered
  <1>. PICK left : left = {Own}
    OBVIOUS
  <1>. QED BY <1>1, <1>4, <1>6, <1>7, <1>8, <1>9, OfferSettles

LEMMA SweepSettles == ASSUME Inv, Settling, Sweep PROVE Settling'
  <1>. DEFINE offered == {k \in Leaves : obj[k] # None}
  <1>1. run \in Runs /\ run.phase = "put" /\ ~Idle /\ Offer("put", offered, "publish")
    BY AtRuns DEF Sweep, Offer
  <1>2. Judging /\ ~At("migrate") /\ shape = "file"
    BY <1>1 DEF Settling, Judging, Sources, At
  <1>3. Judged(run) = {Own} /\ Own \in Keys /\ Own \notin Leaves /\ Keys = Leaves \cup {Own}
    BY <1>1, JudgedIs, KeysAreNat
  <1>4. \A r : r.phase = "publish" => Judged(r) = Judged(run) \cup Leaves
    BY <1>3, JudgedIs
  <1>5. \A k \in Leaves : run.new[k] = None /\ loc[k] = None /\ (IsFile(man.rec[k]) => obj[k] = None)
    BY <1>1, <1>2, <1>3, OldGone
  <1>6. offered \in SUBSET Keys /\ Leaves \in SUBSET Keys
    BY <1>3
  <1>7. \A k \in offered : k \in Leaves /\ ~IsFile(loc[k]) /\ ~IsFile(run.new[k])
    BY <1>5 DEF IsFile
  <1>8. \A k \in Leaves : obj[k] = None \/ k \in offered
    OBVIOUS
  <1>. HIDE DEF offered
  <1>. QED BY <1>1, <1>4, <1>5, <1>6, <1>7, <1>8, OfferSettles DEF Later

LEMMA CompareFileSettles == ASSUME Inv, Settling, CompareFile PROVE Settling'
  <1>. PICK i, r : i = loc[Own] /\ r = run.old.rec[Own]
    OBVIOUS
  <1>. PICK v : v = FileVerdict(r, i, obj[Own], run.opts)
    OBVIOUS
  <1>1. /\ run \in Runs /\ run.phase = "file" /\ ~Idle /\ up = {} /\ del = {}
        /\ UNCHANGED <<tree, obj, man, del, agreed, mishaps>>
    BY AtRuns DEF CompareFile, Inv, Running, PhaseFits, At
  <1>2. /\ Judging /\ ~At("migrate") /\ ~At("done") /\ shape = "file" /\ Judged(run) = {}
        /\ Own \in Keys
    BY <1>1, JudgedIs, KeysAreNat DEF Settling, Judging, Sources, At
  <1>3. \A k \in Keys : Waiting(k)
    BY <1>2 DEF Judging
  <1>4. /\ i \in Items /\ i # None /\ IsFile(i) /\ i.kind = "file" /\ aside[Own] = None
        /\ obj[Own] \in Ticks \cup {None}
    BY <1>2 DEF Settling, TreeFits, Inv, TypeOK, Rooted, IsFile
  <1>5. /\ r = run.new[Own] /\ r \in Records \cup {None} /\ Follows(r, i)
        /\ IsFile(i) /\ r = RecordOf(i) /\ obj[Own] # None => obj[Own] = i.data \/ run.failed
    <2>1. r = run.new[Own]
      BY <1>2, <1>3 DEF Waiting
    <2>2. r \in Records \cup {None}
      BY <1>1, <1>2, <2>1 DEF Runs
    <2>. QED BY <1>1, <1>2, <2>1, <2>2 DEF Judging, NewFits
  <1>6. FileSaid(v, r, i, obj[Own], run.opts) /\ (obj[Own] = None => v.copy = TRUE)
    BY <1>4, <1>5, RootJudged
  <1>7. /\ up' = IF v.copy THEN {Own} ELSE {}
        /\ run' = [run EXCEPT !.phase = "put", !.changed = v.emit,
                              !.new = IF v.emit THEN Alone(RecordOf(i)) ELSE @]
    BY DEF CompareFile
  <1>8. /\ RecordOf(i) # None /\ RecordOf(i).kind = "file"
        /\ ~StatusShows(RecordOf(i), i) /\ RecordOf(i).mtime = i.mtime
        /\ i.mtime <= clock /\ i.mtime \in Nat
    BY <1>2, <1>4, ItemRecord, RecordShowsNothing, ItemTimes DEF Settling, Timely
  <1>9. /\ run'.opts = run.opts /\ run'.old = run.old /\ run'.unseen = run.unseen
        /\ run'.phase = "put" /\ run'.failed = run.failed /\ run'.spool = run.spool
        /\ run'.changed = v.emit
        /\ run'.new = IF v.emit THEN Alone(RecordOf(i)) ELSE run.new
    BY <1>1, <1>7 DEF Runs
  <1>10. \A k \in Leaves : run.new[k] = None
    BY <1>1, <1>2 DEF Inv, Running, PhaseFits
  <1>11. \A k \in Keys : Alone(RecordOf(i))[k] = IF k = Own THEN RecordOf(i) ELSE None
    BY DEF Alone, Blanks
  <1>12. /\ v.emit \in BOOLEAN /\ v.copy \in BOOLEAN
         /\ \A k \in Leaves : run'.new[k] = None
         /\ ~v.emit => run'.new = run.new /\ run'.new[Own] = r /\ r # None
         /\ v.emit => run'.new[Own] = RecordOf(i)
    <2>1. v.emit \in BOOLEAN /\ v.copy \in BOOLEAN /\ (~v.emit => r # None)
      BY <1>6 DEF FileSaid
    <2>2. \A k \in Leaves : run'.new[k] = None
      BY <1>9, <1>10, <1>11, KeysAreNat
    <2>3. ~v.emit => run'.new = run.new
      BY <1>9
    <2>4. v.emit => run'.new[Own] = RecordOf(i)
      BY <1>2, <1>9, <1>11
    <2>. QED BY <1>5, <2>1, <2>2, <2>3, <2>4
  <1>13. Judged(run') = {Own}
    BY <1>9, JudgedIs
  <1>14. TreeFits' /\ Timely' /\ Truthful'
    BY <1>1 DEF Settling, TreeFits, Timely, Truthful
  <1>15. Sources'
    <2>1. run.old = IF Migrates THEN NoManifest ELSE man
      BY <1>1, <1>2 DEF Judging, Sources, At
    <2>2. ~run'.changed => run'.new = man.rec /\ man.kind = shape
      <3>. SUFFICES ASSUME ~v.emit PROVE run'.new = man.rec /\ man.kind = shape
        BY <1>9, <1>12
      <3>1. r # None /\ run'.new = run.new
        BY <1>12
      <3>2. ~Migrates
        BY <1>2, <2>1, <3>1 DEF NoManifest, Blanks
      <3>3. run.old = man /\ man.kind # "none"
        BY <1>2, <2>1, <3>1, <3>2 DEF Inv, ManifestFits, NoManifest, Blanks
      <3>4. run.new \in [Keys -> Records \cup {None}] /\ man.rec \in [Keys -> Records \cup {None}]
        BY <1>1 DEF Runs, Inv, TypeOK, Manifests
      <3>5. run.new = man.rec
        BY <1>3, <3>3, <3>4 DEF Waiting
      <3>. QED BY <3>1, <3>2, <3>3, <3>5 DEF Migrates
    <2>. QED BY <1>1, <1>2, <1>9, <2>1, <2>2 DEF Sources, At, Migrates
  <1>16. NewFits'
    <2>1. ASSUME NEW x \in {loc[Own], aside[Own]}
          PROVE  /\ run'.new[Own] # None => run'.new[Own].mtime <= clock
                 /\ Follows(run'.new[Own], x)
                 /\ IsFile(x) /\ run'.new[Own] = RecordOf(x) /\ obj[Own] # None
                      => obj[Own] = x.data \/ Own \in up' \/ run.failed
      <3>1. CASE x = None
        <4>1. run'.new[Own] # None => run'.new[Own].mtime <= clock
          BY <1>2, <1>5, <1>8, <1>12 DEF Judging, NewFits
        <4>. QED BY <3>1, <4>1 DEF Follows, IsFile
      <3>2. CASE x = i /\ v.emit
        <4>1. v.copy \/ obj[Own] = i.data \/ r = RecordOf(i)
          BY <1>6, <3>2 DEF FileSaid
        <4>2. run'.new[Own] = RecordOf(i) /\ Follows(RecordOf(i), i)
          BY <1>8, <1>12, <3>2 DEF Follows
        <4>3. v.copy => Own \in up'
          BY <1>7
        <4>. QED BY <1>5, <1>8, <3>2, <4>1, <4>2, <4>3
      <3>3. CASE x = i /\ ~v.emit
        BY <1>2, <1>4, <1>5, <1>12, <3>3 DEF Judging, NewFits
      <3>. QED BY <1>4, <1>12, <3>1, <3>2, <3>3
    <2>2. \A k \in Leaves : \A x : Follows(run'.new[k], x)
      BY <1>12, NothingFollows
    <2>3. \A x \in Items : RecordOf(x) # None
      BY ItemRecord
    <2>4. \A k \in Keys : {loc[k], aside[k]} \subseteq Items \cup {None}
      BY DEF Inv, TypeOK
    <2>5. ASSUME NEW k \in Keys, NEW x \in {loc[k], aside[k]}
          PROVE  /\ run'.new[k] # None => run'.new[k].mtime <= clock
                 /\ Follows(run'.new[k], x)
                 /\ IsFile(x) /\ run'.new[k] = RecordOf(x) /\ obj[k] # None
                      => obj[k] = x.data \/ k \in up' \/ run.failed
      <3>1. CASE k = Own
        BY <2>1, <3>1
      <3>2. CASE k \in Leaves
        BY <1>12, <2>2, <2>3, <2>4, <3>2 DEF IsFile
      <3>. QED BY <3>1, <3>2, KeysAreNat
    <2>. QED BY <1>1, <1>9, <2>5 DEF NewFits
  <1>17. ASSUME NEW k \in Keys, k \notin Judged(run') PROVE Waiting(k)'
    <2>1. k \in Leaves /\ k # Own /\ Waiting(k)
      BY <1>3, <1>13, <1>17, KeysAreNat
    <2>2. k \notin up'
      BY <1>7, <2>1
    <2>. QED BY <1>1, <1>9, <1>10, <1>12, <2>1, <2>2 DEF Waiting, Migrates
  <1>18. Kept(Own)' /\ Dropped(Own)' /\ Copied(Own)' /\ Emptied(Own)'
    <2>0. Waiting(Own) /\ loc' = loc /\ obj' = obj /\ Own' = Own
      BY <1>1, <1>2, <1>3 DEF Own
    <2>1. Kept(Own)'
      <3>1. obj[Own] # None \/ Own \in up'
        BY <1>6, <1>7
      <3>. QED BY <1>1, <1>9, <2>0, <3>1 DEF Kept, Waiting
    <2>2. Dropped(Own)'
      BY <1>8, <1>12, <2>0 DEF Dropped
    <2>3. Copied(Own)'
      <3>1. ~run.opts.update => ~StatusShows(run'.new[Own], i)
        BY <1>6, <1>8, <1>12 DEF FileSaid
      <3>2. ~run.opts.update => v.copy \/ obj[Own] = i.data \/ r = RecordOf(i)
        BY <1>6 DEF FileSaid
      <3>3. ~run.opts.update => obj[Own] = i.data \/ Own \in up' \/ run.failed
        BY <1>4, <1>5, <1>6, <1>7, <3>2
      <3>. QED BY <1>8, <1>9, <1>12, <2>0, <3>1, <3>3 DEF Copied
    <2>4. Emptied(Own)'
      BY <1>4, <2>0 DEF Emptied, IsFile
    <2>. QED BY <2>1, <2>2, <2>3, <2>4
  <1>19. /\ run'.opts \in Pushes /\ (\A j \in up' : IsFile(loc'[j]))
         /\ \A j \in del' \cup run'.spool : ~IsFile(loc'[j])
    BY <1>1, <1>2, <1>4, <1>7, <1>9 DEF Judging
  <1>20. Judging'
    BY <1>13, <1>15, <1>16, <1>17, <1>18, <1>19 DEF Judging
  <1>. QED BY <1>14, <1>20 DEF Settling

LEMMA PublishSettles == ASSUME Inv, Settling, Publish PROVE Settling'
  <1>1. /\ run \in Runs /\ run.phase = "publish" /\ ~Idle /\ up = {} /\ del = {}
        /\ UNCHANGED <<tree, obj, moving, agreed, mishaps>> /\ shape \in Shapes
    BY AtRuns DEF Publish, Landed, Inv, TypeOK
  <1>2. Judging /\ ~At("migrate") /\ ~At("done") /\ ~At("file") /\ Judged(run) = Keys
    BY <1>1, JudgedIs DEF Settling, At
  <1>3. CASE run.failed
    <2>1. run' = NoRun /\ man' = man
      BY <1>3 DEF Publish
    <2>. QED BY <1>1, <2>1, GiveUpSettles
  <1>4. CASE ~run.failed
    <2>1. /\ run' = [run EXCEPT !.phase = "done"]
          /\ man' = IF run.changed THEN [kind |-> shape, rec |-> run.new] ELSE man
      BY <1>4 DEF Publish
    <2>2. /\ run'.opts = run.opts /\ run'.old = run.old /\ run'.unseen = run.unseen
          /\ run'.new = run.new /\ run'.changed = run.changed /\ run'.spool = run.spool
          /\ run'.phase = "done" /\ run'.failed = run.failed
      BY <1>1, <2>1 DEF Runs
    <2>3. man'.rec = run.new /\ man'.kind = shape
      <3>1. CASE run.changed
        BY <2>1, <3>1
      <3>2. CASE ~run.changed
        BY <1>2, <2>1, <3>2 DEF Judging, Sources
      <3>. QED BY <3>1, <3>2
    <2>4. NewFits
      BY <1>2 DEF Judging
    <2>5. TreeFits'
      <3>1. shape = "dir" => run.new[Own] = None
        BY <1>2 DEF Judging, Sources
      <3>. QED BY <1>1, <2>3, <3>1 DEF Settling, TreeFits
    <2>6. Timely'
      BY <1>1, <2>3, <2>4 DEF Settling, Timely, NewFits
    <2>7. Truthful'
      BY <1>1, <1>4, <2>3, <2>4 DEF Truthful, NewFits
    <2>8. Sources'
      BY <1>1, <1>2, <1>4, <2>2, <2>3 DEF Judging, Sources, At
    <2>9. NewFits'
      BY <1>1, <2>2, <2>4 DEF NewFits
    <2>10. Judged(run') = Keys
      BY <2>2, JudgedIs
    <2>11. ASSUME NEW k \in Keys PROVE Kept(k)' /\ Dropped(k)' /\ Copied(k)' /\ Emptied(k)'
      <3>1. Kept(k) /\ Dropped(k) /\ Copied(k) /\ Emptied(k)
        BY <1>2 DEF Judging
      <3>2. Kept(k)' /\ Copied(k)'
        BY <1>1, <2>2, <3>1 DEF Kept, Copied, Orders
      <3>3. Dropped(k)'
        BY <2>2, <2>3 DEF Dropped, IsFile
      <3>4. Emptied(k)'
        <4>1. ~At("scan")
          BY <1>1 DEF At
        <4>. QED BY <1>1, <2>2, <3>1, <4>1 DEF Emptied
      <3>. QED BY <3>2, <3>3, <3>4
    <2>12. /\ run'.opts \in Pushes /\ (\A j \in up' : IsFile(loc'[j]))
           /\ \A j \in del' \cup run'.spool : ~IsFile(loc'[j])
      BY <1>1, <1>2, <2>2 DEF Judging
    <2>13. Judging'
      BY <2>8, <2>9, <2>10, <2>11, <2>12 DEF Judging
    <2>. QED BY <2>5, <2>6, <2>7, <2>13 DEF Settling
  <1>. QED BY <1>3, <1>4

LEMMA FinishSettles == ASSUME Settling, Finish PROVE Settling'
  BY GiveUpSettles DEF Finish, GiveUp

\* What lands of a run that is cut off is what it was sending.
LEMMA CutSettles == ASSUME Inv, Settling, Cut PROVE Settling'
  <1>1. PICK ups \in SUBSET up, dels \in SUBSET del :
          obj' = [k \in Keys |-> IF k \in ups THEN loc[k].data
                                 ELSE IF k \in dels THEN None ELSE obj[k]]
    BY DEF Cut
  <1>2. run' = NoRun /\ UNCHANGED <<tree, man>>
    BY DEF Cut, GiveUp
  <1>3. TreeFits' /\ Timely' /\ Idle'
    BY <1>2 DEF Settling, TreeFits, Timely, Idle
  <1>4. \A k \in ups : IsFile(loc[k]) /\ aside[k] = None
    BY UpJudged
  <1>5. Truthful'
    BY <1>1, <1>2, <1>4 DEF Settling, Truthful, IsFile
  <1>. QED BY <1>3, <1>5 DEF Settling

LEMMA StepSettles == Inv /\ Settling /\ [Next]_vars => Settling'
  <1>. SUFFICES ASSUME Inv, Settling, [Next]_vars PROVE Settling'
    OBVIOUS
  <1>1. CASE UNCHANGED vars
    BY <1>1 DEF vars, Settling, TreeFits, Timely, Truthful, Idle, Judging, Sources, NewFits,
                Waiting, Migrates, Kept, Dropped, Copied, Emptied, Orders, At
  <1>2. CASE Proceed
    BY <1>2, MigratedSettles, PutSettles, DeleteSettles, ScanItemSettles, ScanNothingSettles,
       SyncedSettles, OfferOwnSettles, CompareFileSettles, SweepSettles, PublishSettles,
       FinishSettles DEF Proceed
  <1>. QED BY <1>1, <1>2, EditLeafSettles, EditRootSettles, MoveLeafBackSettles,
              MoveRootBackSettles, BeginSettles, FailSettles, CutSettles DEF Next

-----------------------------------------------------------------------------
(* The theorems.                                                           *)

\* The tree, the manifest and the run fit together, in every state.
THEOREM RunsSettling == Spec => [](Inv /\ Settling)
  <1>. QED BY Initially, InitSettles, Inductive, StepSettles, PTL DEF Spec

\* A push that sees all of the tree, without -u, and ends well has settled all
\* that any earlier runs left behind; with --delete --yes the backup is the tree.
THEOREM EndedRunSettles == Spec => []RunSettles
  <1>1. ASSUME Inv, Settling PROVE RunSettles
    <2>. SUFFICES ASSUME At("done"), ~run.opts.update, run.unseen = {}
                  PROVE  /\ man.kind = shape /\ \A k \in Keys : Settled(k)
                         /\ run.opts.delete /\ ~run.opts.asks => Mirrored
      BY DEF RunSettles
    <2>1. run \in Runs /\ run.phase = "done" /\ ~Idle /\ up = {} /\ del = {}
      BY <1>1, AtRuns DEF Inv, Running, PhaseFits, At
    <2>2. Judging /\ ~At("migrate") /\ ~At("scan") /\ Judged(run) = Keys
      BY <1>1, <2>1, JudgedIs DEF Settling, At
    <2>3. man.rec = run.new /\ man.kind = shape /\ ~run.failed /\ Orders
      BY <2>2 DEF Judging, Sources, Orders
    <2>4. ASSUME NEW k \in Keys PROVE Kept(k) /\ Copied(k) /\ Emptied(k)
      BY <2>2 DEF Judging
    <2>5. ASSUME NEW k \in Keys PROVE Settled(k)
      <3>1. CASE loc[k] = None
        BY <2>1, <2>3, <2>4, <3>1 DEF Settled, Retired, Kept, IsFile
      <3>2. CASE loc[k] # None
        BY <2>1, <2>3, <2>4, <3>2 DEF Settled, Copied
      <3>. QED BY <3>1, <3>2
    <2>6. ASSUME run.opts.delete, ~run.opts.asks, NEW k \in Keys
          PROVE  /\ loc[k] = None => man.rec[k] = None
                 /\ loc[k] = None \/ loc[k].kind # "file" => obj[k] = None
      BY <2>1, <2>2, <2>3, <2>4, <2>6 DEF Emptied, IsFile
    <2>. QED BY <2>3, <2>5, <2>6 DEF Mirrored
  <1>2. Inv /\ Settling => RunSettles
    BY <1>1
  <1>. QED BY <1>2, RunsSettling, PTL

\* A manifest is published over what it says: nothing is under way, each file
\* it records has its object if the walk saw all, and each file record that it
\* drops has none left.  Under -u this takes a platform that can set the times
\* of links: elsewhere a link always ties with the record it replaces, so that
\* the record of a file whose object is gone may stay.
THEOREM ManifestPublishedLast ==
  ASSUME LinkMtimes \/ \A o \in Pushes : ~o.update
  PROVE  Spec => PublishedLast
  <1>. DEFINE Over == man' # man =>
                 /\ up = {} /\ del = {}
                 /\ \A k \in Keys :
                      /\ man'.rec[k] # None /\ man'.rec[k].kind = "file" /\ run.unseen = {}
                           => obj[k] # None
                      /\ man.rec[k] # None /\ man.rec[k].kind = "file" /\ man'.rec[k] = None
                           => obj[k] = None
  <1>1. Inv /\ Settling /\ [Next]_vars => Over \/ UNCHANGED vars
    <2>. SUFFICES ASSUME Inv, Settling, Next, man' # man PROVE Over
      OBVIOUS
    <2>1. Publish
      BY DEF Next, Proceed, EditLeaf, EditRoot, MoveLeafBack, MoveRootBack, Remote, Begin,
         Migrated, Put, Delete, Fail, ScanItem, ScanNothing, Synced, OfferOwn, Sweep, Offer,
         CompareFile, Finish, Cut
    <2>2. /\ run \in Runs /\ run.phase = "publish" /\ ~Idle /\ up = {} /\ del = {}
          /\ ~run.failed /\ man'.rec = run.new
      BY <2>1, AtRuns DEF Publish, Landed
    <2>3. Judging /\ ~At("migrate") /\ Judged(run) = Keys
      BY <2>2, JudgedIs DEF Settling, At
    <2>4. Orders
      BY <2>3 DEF Judging, Orders
    <2>5. ASSUME NEW k \in Keys
          PROVE  /\ run.new[k] # None /\ run.new[k].kind = "file" /\ run.unseen = {} => obj[k] # None
                 /\ man.rec[k] # None /\ man.rec[k].kind = "file" /\ run.new[k] = None => obj[k] = None
      <3>1. Kept(k) /\ Dropped(k)
        BY <2>3 DEF Judging
      <3>. QED BY <2>2, <2>4, <3>1 DEF Kept, Dropped, IsFile
    <2>. QED BY <2>2, <2>5
  <1>. QED BY <1>1, RunsSettling, PTL DEF Spec, PublishedLast
=============================================================================
