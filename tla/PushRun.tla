------------------------------- MODULE PushRun -------------------------------
(***************************************************************************)
(* Push after push of one entry, as S3 sees it (commands.cmd_push): the    *)
(* sync whose transfers land after they were decided, the deletions that   *)
(* follow it, the publishing of the manifest, the single-file entry and    *)
(* the change of an entry's kind.  A run may be cut off anywhere, by an    *)
(* error, an interrupt, a q or a kill; what it had under way lands or not. *)
(* PushJournal has the scan in detail; here it is one step per key.        *)
(*                                                                         *)
(* Own is the entry's own key, the object of a single-file entry; the      *)
(* leaves below it are the files and links of a directory entry.  Nobody   *)
(* edits the tree, and no other command runs, while a push does.           *)
(***************************************************************************)
EXTENDS PushVerdict

CONSTANTS
  N,          \* the number of leaves
  MaxClock,   \* bounds the edits: each one takes the next tick of the clock
  MaxMishaps, \* bounds the cut runs, failed requests and incomplete scans
  Pushes      \* the options a push may be started with

Own    == 0
Leaves == 1..N
Keys   == 0..N
Shapes == {"dir", "file"}

\* A file written at a tick has a content of its own, a link a new target.
FileAt(t) == [kind |-> "file", data |-> t, mtime |-> t, mode |-> "rw"]
LinkAt(t) == [kind |-> "link", data |-> t, mtime |-> t, mode |-> "rw"]
Ticks     == 1..MaxClock
Items     == {FileAt(t) : t \in Ticks} \cup {LinkAt(t) : t \in Ticks}
Records   == {RecordOf(i) : i \in Items}

Blanks     == [k \in Keys |-> None]
Alone(i)   == [Blanks EXCEPT ![Own] = i]
NoManifest == [kind |-> "none", rec |-> Blanks]

\* asks: a terminal to answer at, so that each deletion gets an answer of its own.
PushOptions == [delete: BOOLEAN, asks: BOOLEAN, update: BOOLEAN, checksum: BOOLEAN]
Mirror      == [delete |-> TRUE, asks |-> FALSE, update |-> FALSE, checksum |-> FALSE]

ASSUME RunAssumption ==
  /\ N \in Nat \ {0} /\ MaxClock \in Nat \ {0} /\ MaxMishaps \in Nat
  /\ Pushes \subseteq PushOptions
  /\ \A t \in Ticks : SizeOf[t] \in Nat
  /\ None \notin Items /\ None \notin Records /\ None \notin Ticks
  \* Any two ticks are told apart by the comparison of times.
  /\ NoMtime \notin Ticks /\ Window \in Nat
  /\ \A a, b \in Ticks : Drift(a, b) <= Window => a = b

VARIABLES
  shape, loc, clock, \* the entry's path: a directory or a file, and its items
  aside,             \* the items moved out of their places, which stayed empty
  obj,               \* the content of the S3 object at each key
  man,               \* the published manifest: its kind and its records
  run,               \* the push that is running (Started has its fields)
  up, del,           \* its uploads and deletions under way
  agreed,            \* the keys whose deletion was agreed to: by this run, or
                     \* by an earlier one that did delete and was cut off
  mishaps            \* how many mishaps there have been

tree   == <<shape, loc, clock, aside>>
moving == <<up, del>>
vars   == <<tree, obj, man, run, moving, agreed, mishaps>>

NoRun  == [phase |-> "idle"]
Idle   == run = NoRun
At(p)  == run.phase = p
GiveUp == run' = NoRun
Mishap == mishaps < MaxMishaps /\ mishaps' = mishaps + 1

\* Mutant of Landed: only the uploads are waited for.
LandedUploads == up = {}
Landed == up = {} /\ del = {}

Init ==
  /\ clock = 1 /\ shape \in Shapes
  /\ loc \in IF shape = "file" THEN {Alone(FileAt(1))}
             ELSE {l \in [Keys -> {None, FileAt(1), LinkAt(1)}] : l[Own] = None}
  /\ aside = Blanks /\ obj = Blanks /\ man = NoManifest
  /\ run = NoRun /\ up = {} /\ del = {} /\ agreed = {} /\ mishaps = 0

-----------------------------------------------------------------------------
(* Between runs the tree is edited, or the entry's path changes its kind.   *)
(* What was moved away may come back as it was, times and all.  An edit of  *)
(* a file always shows in its time: the comparison sees nothing else.       *)

Remote == <<obj, man, run, moving, agreed, mishaps>>

EditLeaf ==
  /\ Idle /\ shape = "dir" /\ clock < MaxClock
  /\ clock' = clock + 1
  /\ \E k \in Leaves, i \in {None, FileAt(clock'), LinkAt(clock')} :
       /\ loc' = [loc EXCEPT ![k] = i]
       /\ aside' = [aside EXCEPT ![k] = IF i = None THEN loc[k] ELSE None]
  /\ UNCHANGED <<shape, Remote>>

\* The path holds another file, or a directory that may hold one.
EditRoot ==
  /\ Idle /\ clock < MaxClock
  /\ clock' = clock + 1
  /\ \/ shape' = "file" /\ loc' = Alone(FileAt(clock'))
     \/ /\ shape = "file" /\ shape' = "dir"
        /\ \E i \in {None, FileAt(clock')} : loc' = [Blanks EXCEPT ![1] = i]
  /\ aside' = IF shape' = shape THEN aside ELSE loc
  /\ UNCHANGED Remote

MoveLeafBack ==
  /\ Idle /\ shape = "dir"
  /\ \E k \in Leaves :
       /\ aside[k] # None
       /\ loc' = [loc EXCEPT ![k] = aside[k]] /\ aside' = [aside EXCEPT ![k] = None]
  /\ UNCHANGED <<shape, clock, Remote>>

MoveRootBack ==
  /\ Idle
  /\ \/ shape = "file" /\ shape' = "dir" /\ loc' = aside
     \/ shape = "dir" /\ shape' = "file" /\ aside[Own] # None /\ loc' = Alone(aside[Own])
  /\ aside' = Blanks
  /\ UNCHANGED <<clock, Remote>>

-----------------------------------------------------------------------------
(* The start of a run.                                                     *)

Walk == IF shape = "dir" THEN "scan" ELSE "file"

\* To work from manifest m: nothing is journaled yet but the root of a
\* directory that was never recorded.  unseen: what the walk cannot show.
Started(o, m, p, hidden) ==
  [phase |-> p, opts |-> o, old |-> m, unseen |-> hidden, pos |-> 1,
   new |-> m.rec, changed |-> m.kind = "none" /\ shape = "dir",
   spool |-> {}, failed |-> FALSE]

Retired(k) == man.rec[k] # None /\ man.rec[k].kind = "file" /\ obj[k] = None

\* The path changed its kind: the push refuses without --delete, or on a no.
\* On a yes all of the old backup is deleted before anything else.
Migrates == man.kind \notin {"none", shape}

Begin(o) ==
  /\ Idle
  /\ \E hidden \in SUBSET Leaves :
       /\ run' = Started(o, man, IF Migrates THEN "migrate" ELSE Walk, hidden)
       /\ IF hidden = {} THEN UNCHANGED mishaps ELSE shape = "dir" /\ Mishap
  /\ IF Migrates
     THEN o.delete /\ agreed' = Keys /\ del' = {k \in Keys : obj[k] # None}
     ELSE agreed' = {k \in agreed : Retired(k)} /\ UNCHANGED del
  /\ UNCHANGED <<tree, obj, man, up>>

\* The old backup is gone: record from scratch.
Migrated ==
  /\ At("migrate") /\ Landed
  /\ run' = IF run.failed THEN NoRun ELSE Started(run.opts, NoManifest, Walk, run.unseen)
  /\ UNCHANGED <<tree, obj, man, moving, agreed, mishaps>>

-----------------------------------------------------------------------------
(* Transfers and deletions land in any order, while the scan goes on.      *)

Put ==
  /\ \E k \in up : obj' = [obj EXCEPT ![k] = loc[k].data] /\ up' = up \ {k}
  /\ UNCHANGED <<tree, man, run, del, agreed, mishaps>>

Delete ==
  /\ \E k \in del : obj' = [obj EXCEPT ![k] = None] /\ del' = del \ {k}
  /\ UNCHANGED <<tree, man, run, up, agreed, mishaps>>

Fail ==
  /\ \E k \in up \cup del : up' = up \ {k} /\ del' = del \ {k}
  /\ Mishap /\ run' = [run EXCEPT !.failed = TRUE]
  /\ UNCHANGED <<tree, obj, man, agreed>>

-----------------------------------------------------------------------------
(* The scan of a directory entry.                                          *)

\* The walk has warned by the time it passes what it cannot show.
Gap == \E h \in run.unseen : h <= run.pos

\* Which of the offered deletions are agreed to?
Consent(offered, yes) ==
  /\ yes \subseteq offered
  /\ IF ~run.opts.delete \/ Gap THEN yes = {} ELSE run.opts.asks \/ yes = offered

Scanning == At("scan") /\ run.pos <= N
Item(k)  == IF k \in run.unseen THEN None ELSE loc[k]

\* A local item: what is journaled and uploaded is the pair's verdict.
ScanItem ==
  /\ Scanning /\ Item(run.pos) # None
  /\ LET k == run.pos
         v == Verdict(run.old.rec[k], loc[k], obj[k], run.opts, FALSE)
     IN  /\ up' = IF v.copy THEN up \cup {k} ELSE up
         /\ run' = [run EXCEPT !.pos = k + 1,
                               !.new[k] = IF v.emit THEN RecordOf(loc[k]) ELSE @,
                               !.changed = @ \/ v.emit,
                               !.spool = IF ShieldsObject(loc[k], obj[k], run.opts, v)
                                         THEN @ \cup {k} ELSE @]
  /\ UNCHANGED <<tree, obj, man, del, agreed, mishaps>>

\* Nothing local at k.  The backup there is an object, or a record that is one
\* by itself; each is deleted on a yes of its own.
Backup(k, r) == {b \in {"object", "record"} :
                   IF b = "object" THEN obj[k] # None ELSE r # None /\ r.kind # "file"}

\* Mutant of Drops: every record without an object is dropped unasked.
DropsAnyRecord(k, r, yes) ==
  r # None /\ ("object" \in yes \/ (obj[k] = None /\ ~Gap))

\* A file record goes with its object, and without a question if that is gone.
Drops(k, r, yes) ==
  /\ r # None
  /\ IF r.kind # "file" THEN "record" \in yes
     ELSE "object" \in yes \/ (obj[k] = None /\ ~Gap)

ScanNothing ==
  /\ Scanning /\ Item(run.pos) = None
  /\ LET k == run.pos
         r == run.old.rec[k]
     IN  \E yes \in SUBSET Backup(k, r) :
           /\ Consent(Backup(k, r), yes)
           /\ agreed' = IF yes = {} THEN agreed ELSE agreed \cup {k}
           /\ del' = IF "object" \in yes THEN del \cup {k} ELSE del
           /\ run' = IF Drops(k, r, yes)
                     THEN [run EXCEPT !.pos = k + 1, !.new[k] = None, !.changed = TRUE]
                     ELSE [run EXCEPT !.pos = k + 1]
  /\ UNCHANGED <<tree, obj, man, up, mishaps>>

\* Mutant of Offer: the status of what came before is not looked at.
OfferAnyway(from, offered, to) ==
  /\ At(from) /\ Landed
  /\ \E yes \in SUBSET offered :
       /\ Consent(offered, yes)
       /\ del' = yes /\ agreed' = agreed \cup yes
       /\ run' = [run EXCEPT !.phase = to, !.failed = FALSE]
  /\ UNCHANGED <<tree, obj, man, up, mishaps>>

\* After the sync, and after each batch of deletions that follows it: a failure
\* ends the run.  Otherwise the offered objects are deleted as agreed.
Offer(from, offered, to) ==
  /\ At(from) /\ Landed
  /\ IF run.failed THEN GiveUp /\ UNCHANGED <<del, agreed>>
     ELSE \E yes \in SUBSET offered :
            /\ Consent(offered, yes)
            /\ del' = yes /\ agreed' = agreed \cup yes
            /\ run' = [run EXCEPT !.phase = to]
  /\ UNCHANGED <<tree, obj, man, up, mishaps>>

\* The sync returns once everything it started is done; then the objects that
\* local links and special files shielded are offered.
Synced == At("scan") /\ run.pos = N + 1 /\ Offer("scan", run.spool, "offered")

\* Mutant of OfferOwn: the entry's own key is not looked at.
OfferNothing == Offer("offered", {}, "publish")

\* A directory's --delete also looks at the object at the entry's own key.
OfferOwn == Offer("offered", {k \in {Own} : obj[k] # None}, "publish")

-----------------------------------------------------------------------------
(* A single-file entry: compare, upload, sweep what lies below the entry.  *)

\* Mutant of FileVerdict: the stored object is not looked at.
FileVerdictUnprobed(r, item, o, p) ==
  IF r # None /\ MatchesStat(r, item) THEN Leave ELSE Upload

\* Is the file uploaded, and is its record rewritten?
FileVerdict(r, item, o, p) ==
  LET differs == o = None \/ o # item.data
      drifted == ModeDiffers(r, item) \/ ~MatchesStat(r, item)
      sized   == o # None /\ SizeOf[o] = r.what
      refresh == p.checksum /\ ~differs
  IN  CASE r = None -> IF refresh THEN Refresh ELSE Upload
        [] r # None /\ p.update ->
             IF o = None THEN Upload
             ELSE IF ~sized \/ OrderedSide(r, item) # "local" THEN Leave
             ELSE IF refresh THEN Refresh ELSE Upload
        [] r # None /\ ~p.update ->
             IF (IF p.checksum THEN differs ELSE ~MatchesStat(r, item) \/ ~sized)
             THEN Upload
             ELSE IF drifted THEN Refresh ELSE Leave

CompareFile ==
  /\ At("file")
  /\ LET v == FileVerdict(run.old.rec[Own], loc[Own], obj[Own], run.opts) IN
     /\ up' = IF v.copy THEN {Own} ELSE {}
     /\ run' = [run EXCEPT !.phase = "put", !.changed = v.emit,
                           !.new = IF v.emit THEN Alone(RecordOf(loc[Own])) ELSE @]
  /\ UNCHANGED <<tree, obj, man, del, agreed, mishaps>>

Sweep == Offer("put", {k \in Leaves : obj[k] # None}, "publish")

-----------------------------------------------------------------------------
(* The end of a run.                                                       *)

\* Nothing is published after a failure, nor when nothing was journaled.
Publish ==
  /\ At("publish") /\ Landed
  /\ run' = IF run.failed THEN NoRun ELSE [run EXCEPT !.phase = "done"]
  /\ man' = IF run.changed /\ ~run.failed THEN [kind |-> shape, rec |-> run.new] ELSE man
  /\ UNCHANGED <<tree, obj, moving, agreed, mishaps>>

Finish ==
  /\ At("done") /\ GiveUp
  /\ UNCHANGED <<tree, obj, man, moving, agreed, mishaps>>

\* The run is cut off.  What it had under way lands or not.
Cut ==
  /\ ~Idle /\ ~At("done") /\ Mishap
  /\ \E ups \in SUBSET up, dels \in SUBSET del :
       obj' = [k \in Keys |-> IF k \in ups THEN loc[k].data
                              ELSE IF k \in dels THEN None ELSE obj[k]]
  /\ up' = {} /\ del' = {} /\ GiveUp
  /\ UNCHANGED <<tree, man, agreed>>

-----------------------------------------------------------------------------
\* The steps a run takes without anybody's help.
Proceed ==
  \/ Migrated \/ Put \/ Delete \/ ScanItem \/ ScanNothing \/ Synced \/ OfferOwn
  \/ CompareFile \/ Sweep \/ Publish \/ Finish

Next ==
  \/ EditLeaf \/ EditRoot \/ MoveLeafBack \/ MoveRootBack
  \/ (\E o \in Pushes : Begin(o)) \/ Proceed \/ Fail \/ Cut

Spec == Init /\ [][Next]_vars

\* A run that is not cut off goes on to its end, and push --delete --yes is run
\* again and again.
Again    == Begin(Mirror)
FairSpec == Spec /\ WF_vars(Proceed) /\ SF_vars(Again)

-----------------------------------------------------------------------------
(* Properties                                                              *)

Manifests == [kind : Shapes \cup {"none"}, rec : [Keys -> Records \cup {None}]]
Runs ==
  [phase : {"migrate", "scan", "offered", "file", "put", "publish", "done"},
   opts : PushOptions, old : Manifests, unseen : SUBSET Leaves, pos : 1..N + 1,
   new : [Keys -> Records \cup {None}], changed : BOOLEAN,
   spool : SUBSET Leaves, failed : BOOLEAN]

\* Every variable has its type.
TypeOK ==
  /\ shape \in Shapes /\ clock \in Ticks /\ mishaps \in 0..MaxMishaps
  /\ loc \in [Keys -> Items \cup {None}] /\ aside \in [Keys -> Items \cup {None}]
  /\ obj \in [Keys -> Ticks \cup {None}]
  /\ man \in Manifests
  /\ up \subseteq Keys /\ del \subseteq Keys /\ agreed \subseteq Keys
  /\ up \cap del = {}
  /\ run \in Runs \/ (Idle /\ up = {} /\ del = {})

\* Fail old (docs/recovery.md): whatever run is cut off wherever, the published
\* manifest never records a file whose object is gone, unless the user agreed
\* to that very deletion.
FailOld == \A k \in Keys : Retired(k) => k \in agreed

\* A manifest is published last: when it changes, every file it records has its
\* object, a file record it drops has none left, and nothing is under way.
\* A walk with a gap keeps records that it cannot judge.
PublishedLast ==
  [][man' # man =>
       /\ up = {} /\ del = {}
       /\ \A k \in Keys :
            /\ man'.rec[k] # None /\ man'.rec[k].kind = "file" /\ run.unseen = {} => obj[k] # None
            /\ man.rec[k] # None /\ man.rec[k].kind = "file" /\ man'.rec[k] = None
                 => obj[k] = None]_vars

\* No record leaves the manifest, over any number of cut and repeated runs,
\* without a yes to its deletion: in the run that drops it or, for an object
\* that was deleted before a cut, in the run that deleted it.
ConsentedLosses ==
  [][\A k \in Keys : man.rec[k] # None /\ man'.rec[k] = None => k \in agreed]_vars

\* What a push is to leave at a key: for a local item a record that status has
\* nothing to say about, and a file's content; otherwise no retired record.
Settled(k) ==
  IF loc[k] = None THEN ~Retired(k)
  ELSE /\ man.rec[k] # None /\ ~StatusShows(man.rec[k], loc[k])
       /\ loc[k].kind = "file" => obj[k] = loc[k].data

\* Under --delete --yes nothing else is left either.
Mirrored ==
  /\ man.kind = shape
  /\ \A k \in Keys :
       /\ Settled(k)
       /\ loc[k] = None => man.rec[k] = None
       /\ loc[k] = None \/ loc[k].kind # "file" => obj[k] = None

\* A push that sees all of the tree and ends well has settled all that any
\* earlier runs left behind; with --delete --yes the backup is the tree.
RunSettles ==
  At("done") /\ ~run.opts.update /\ run.unseen = {} =>
    /\ man.kind = shape /\ \A k \in Keys : Settled(k)
    /\ run.opts.delete /\ ~run.opts.asks => Mirrored

\* The push that was cut off, run again, settles what it left (docs/sync.md:
\* "Re-run the push after any failure or interruption").  Nothing in the
\* backup is newer than the tree, so -u has no reason to keep the old side.
RerunSettles ==
  At("done") /\ run.unseen = {} => \A k \in Keys : loc[k] # None => Settled(k)

\* However many runs fail and are cut off, and whatever edits and changes of
\* kind come between them: once both stop, the backup becomes the tree.
Converges == <>[](Idle => Mirrored)

=============================================================================
