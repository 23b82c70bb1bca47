-------------------------------- MODULE Pull --------------------------------
(***************************************************************************)
(* s3bak pull of a directory (cmd_pull into a tree of the recorded kind):  *)
(* the manifest gate, the vetting of links at directory positions, the     *)
(* Windows writable prep, the sync and its spool of decisions, downloads   *)
(* that land in any order, the metadata apply with its ancestor stack and  *)
(* its deferred links, the removal of extras and the apply that follows    *)
(* it, and a pull cut off anywhere and run again.                          *)
(*                                                                         *)
(* Paths stands for relative paths, Root for ".".  A path has two sort     *)
(* keys: a directory's ends in a slash.  Excludes match keys.              *)
(***************************************************************************)
EXTENDS PullVerdict, Sequences, FiniteSets, SequencesExt

CONSTANTS
  Data, Modes,      \* the contents, the link targets and Blank; the modes
  Paths, Root,
  Up,               \* the parent of each path; Up[Root] = Root
  LeafKey, DirKey,  \* a path's place in the key order, as a leaf and as a directory
  Twin,             \* the sibling whose name a folding filesystem confuses with p, or None
  Points,           \* on Windows: the path each link target names, or Root
  Windows,          \* is this Windows?
  Opened,           \* each mode with the owner-write bit added
  Umask,            \* the mode of what a pull creates
  Now, Uploaded,    \* the clock during the pull; the time stamped on a download
  Worlds            \* the initial [rec, obj, loc, opts, mishaps]

Items == [kind : Kinds, data : Data, mtime : Nat, mode : Modes]
Slot  == Items \cup {None}

\* The paths are a finite tree, and a path sorts before what is beneath it.
\* Names are folded at the ends of the tree only: nothing is named beneath one.
ASSUME TreeAssumption ==
  /\ IsFiniteSet(Paths) /\ Root \in Paths
  /\ Up \in [Paths -> Paths] /\ Up[Root] = Root
  /\ LeafKey \in [Paths -> Nat] /\ DirKey \in [Paths -> Nat]
  /\ \A p, q \in Paths : p # q => {LeafKey[p], DirKey[p]} \cap {LeafKey[q], DirKey[q]} = {}
  /\ \A p \in Paths \ {Root} : LeafKey[p] < DirKey[p] /\ DirKey[Up[p]] < LeafKey[p]
  /\ Twin \in [Paths -> Paths \cup {None}]
  /\ \A p \in Paths : Twin[p] # None =>
       /\ Twin[p] # p /\ p # Root /\ Twin[p] # Root /\ Up[Twin[p]] = Up[p]
       /\ \A c \in Paths \ {Root} : Up[c] \notin {p, Twin[p]}

ASSUME ItemAssumption ==
  /\ None \notin Items \cup Modes \cup Paths \cup {"D", "K", "G", "ok", "failed", "cut"}
  /\ Blank \in Data /\ Umask \in Modes /\ Opened \in [Modes -> Modes]
  /\ Now \in Nat /\ Uploaded \in Nat /\ Window \in Nat

\* The owner-write bit takes no reading away.
ASSUME OpenedAssumption == \A m \in Modes : m \in Readable => Opened[m] \in Readable

Above[p \in Paths] == IF p = Root THEN {} ELSE {Up[p]} \cup Above[Up[p]]

\* A tree to pull into: what stands in a directory has the directory, and the
\* root is recorded and found as a directory, if at all (PullRoot has the rest).
ASSUME WorldAssumption ==
  \A w \in Worlds :
    /\ w.loc \in [Paths -> Slot] /\ w.obj \in [Paths -> Data \cup {None}]
    /\ w.mishaps \in Nat
    /\ w.opts \in [update : BOOLEAN, checksum : BOOLEAN, excluded : SUBSET Nat,
                   delete : {"off", "no", "ask", "yes"}]
    /\ \A p \in Paths : w.rec[p] # None =>
         /\ w.rec[p].kind \in Kinds /\ w.rec[p].mode \in Modes
         /\ w.rec[p].mtime \in Nat \cup {NoMtime}
         /\ w.rec[p].kind = "link" => w.rec[p].what \in Data
    /\ \A p \in Paths : w.loc[p] # None =>
         p = Root \/ (w.loc[Up[p]] # None /\ w.loc[Up[p]].kind = "dir")
    /\ w.loc[Root] # None => w.loc[Root].kind = "dir"
    /\ w.rec[Root] # None => w.rec[Root].kind = "dir"

\* Nothing is downloaded beneath a link.  The restore replaces a link above a
\* record with a directory first, and the code follows any other one, out of the
\* tree modelled here.
ASSUME LinksBarren ==
  \A w \in Worlds : \A p, a \in Paths :
    /\ w.obj[p] # None /\ a \in Above[p]
    /\ \/ w.loc[a] # None /\ w.loc[a].kind = "link"
       \/ w.rec[a] # None /\ w.rec[a].kind = "link" /\ w.mishaps > 0
    => \E r \in Paths : w.rec[r] # None /\ (a \in Above[r] \/ (a = r /\ w.rec[r].kind = "dir"))

VARIABLES
  rec, obj, opts,   \* the manifest, the bucket; update, checksum, delete and excluded keys
  orig,             \* ghost: the local tree this pull met
  loc,              \* the local tree
  phase, at,        \* the step cmd_pull is in, and the place of its stream
  todo,             \* downloads decided and not landed
  spool, walked,    \* the decision spool; UpdateFilter._walked_parent
  cur,              \* _DecisionCursor: the next line of the spool
  frames,           \* the apply's open directories, innermost last
  deferred, post,   \* links placed, and directories settled, at the end
  prep,             \* the mode each path had before the writable prep
  open,             \* remove_extras' open directories
  gone,             \* what remove_extras removed
  asked,            \* ghost: what it asked about
  told,             \* paths warned about
  bad,              \* has an error been reported?
  pass,             \* 1, or 2 for the apply that follows the removals
  status,
  mishaps           \* failures and interruptions still to come

world   == <<rec, obj, opts, orig>>
syncing == <<todo, spool, walked>>
applying == <<cur, frames, deferred, post>>
pruning == <<open, gone, asked>>
vars == <<world, loc, phase, at, syncing, applying, prep, pruning, told, bad,
          pass, status, mishaps>>

-----------------------------------------------------------------------------
(* Paths, keys and the tree.                                               *)

\* In the key order, nothing comes between a directory and what is beneath it
\* but what is beneath it too: a directory's key is a prefix of all of theirs.
ASSUME OrderAssumption ==
  \A p, r \in Paths : p \in Above[r] =>
    \A q \in Paths \ {Root} : \A k \in {LeafKey[q], DirKey[q]} :
      DirKey[p] < k /\ k <= DirKey[r] => p \in Above[q]

Beneath(p) == {q \in Paths : p \in Above[q]}
InSubtree(p, q) == p = q \/ p \in Above[q]

\* No two names that the filesystem confuses are both claimed, as when the
\* manifest was written on a filesystem of its kind: some theorems assume it.
NamesApart ==
  \A w \in Worlds : \A q \in Paths : Twin[q] # None =>
    \/ \A x \in Paths : InSubtree(q, x) => w.rec[x] = None /\ w.obj[x] = None
    \/ \A x \in Paths : InSubtree(Twin[q], x) => w.rec[x] = None
\* ... and no leaf is recorded with a time still to come.
NoneToCome ==
  \A w \in Worlds, p \in Paths :
    w.rec[p] # None /\ w.rec[p].kind # "dir" /\ w.rec[p].mtime # NoMtime
    => w.rec[p].mtime <= Now

KeyAs(p, kind) == IF kind = "dir" THEN DirKey[p] ELSE LeafKey[p]
RecKey(p) == KeyAs(p, rec[p].kind)
Recorded  == {p \in Paths : rec[p] # None}
Nondirs   == {p \in Recorded : rec[p].kind # "dir"}
Judged(p) == p = Root \/ RecKey(p) \notin opts.excluded
LeafRec(p) == IF p \in Nondirs THEN rec[p] ELSE None
First(S, key) == CHOOSE p \in S : \A q \in S : key[p] <= key[q]

\* The name a lookup of p finds: on a folding filesystem its twin's.
DiskIn(l, p) == IF l[p] = None /\ Twin[p] # None /\ l[Twin[p]] # None THEN Twin[p] ELSE p
Disk(p) == DiskIn(loc, p)
Found(p) == loc[Disk(p)]
IsDir(p) == Found(p) # None /\ Found(p).kind = "dir"
\* What stands above p keeps it from being written.  (Nothing is written beneath a
\* link: LinksBarren.)
Blocked(p) == \E a \in Above[p] : loc[a] # None /\ loc[a].kind # "dir"

NewDir == [kind |-> "dir", data |-> Blank, mtime |-> Now, mode |-> Umask]

\* The tree l with every missing directory of p's chain, p included, created.
MakeDirs(l, p) ==
  LET missing == {q \in Above[p] \cup {p} : l[q] = None} IN
  [q \in Paths |->
     IF q \in missing THEN NewDir
     ELSE IF \E c \in missing : Up[c] = q THEN [l[q] EXCEPT !.mtime = Now] ELSE l[q]]

\* l with item at p (its parents made), and with p and all beneath it removed:
\* a changed entry is the parent's mtime.
Put(l, p, item) ==
  [MakeDirs(l, Up[p]) EXCEPT ![p] = item, ![Up[p]].mtime = Now]
Removed(l, p) ==
  [[q \in Paths |-> IF InSubtree(p, q) THEN None ELSE l[q]] EXCEPT ![Up[p]].mtime = Now]

\* windows_restore_modes
GivenBack(l) ==
  [p \in Paths |-> IF \E q \in Paths : prep[q] # None /\ Disk(q) = p /\ l[p] # None
                                       /\ l[p].kind # "link"
                   THEN [l[p] EXCEPT !.mode = prep[CHOOSE q \in Paths :
                                                      prep[q] # None /\ Disk(q) = p]]
                   ELSE l[p]]
NoPrep == [p \in Paths |-> None]

\* Every way out of cmd_pull: the finally gives the prepped modes back.
Finish(s) ==
  /\ phase' = "done" /\ status' = s
  /\ loc' = GivenBack(loc) /\ prep' = NoPrep

-----------------------------------------------------------------------------
(* Up to the sync.                                                         *)

TypeOK ==
  /\ phase \in {"start", "vet", "make", "prep", "sync", "apply", "place", "settle", "extras", "done"}
  /\ todo \subseteq Paths /\ gone \subseteq Paths
  /\ \A p \in Paths : loc[p] # None =>
       p = Root \/ (loc[Up[p]] # None /\ loc[Up[p]].kind = "dir")
  /\ \A n \in 1..Len(frames) - 1 : frames[n].path \in Above[frames[n + 1].path]
  /\ \A n \in 1..Len(open) - 1 : open[n].path \in Above[open[n + 1].path]
  /\ phase = "done" => prep = NoPrep

Fresh ==
  /\ at = 0 /\ todo = {} /\ spool = <<>> /\ walked = None
  /\ cur = 1 /\ frames = <<>> /\ deferred = <<>> /\ post = {}
  /\ prep = NoPrep /\ open = <<>> /\ gone = {} /\ asked = {}
  /\ told = {} /\ bad = FALSE /\ pass = 1

Init ==
  /\ \E w \in Worlds : rec = w.rec /\ obj = w.obj /\ opts = w.opts /\ loc = w.loc /\ mishaps = w.mishaps
  /\ orig = loc
  /\ phase = "start" /\ Fresh /\ status = None

\* _manifest_restore_conflict
Unrestorable == \E p \in Nondirs : Beneath(p) \cap Recorded # {}

\* _manifest_matches_local
MatchesLocal == \A p \in Recorded : Judged(p) => Matches(rec[p], Found(p))

Start ==
  /\ phase = "start"
  /\ IF Unrestorable THEN phase' = "done" /\ status' = "failed"
     ELSE IF MatchesLocal /\ ~opts.checksum
     THEN IF opts.delete # "off" THEN phase' = "extras" /\ UNCHANGED status
                                 ELSE phase' = "done" /\ status' = "ok"
     ELSE phase' = "vet" /\ UNCHANGED status
  /\ UNCHANGED <<world, loc, at, syncing, applying, prep, pruning, told, bad, pass, mishaps>>

\* The directories the restore writes through, recorded or not.
Positions ==
  {q \in Paths \ {Root} : \/ q \in Recorded /\ rec[q].kind = "dir"
                          \/ Beneath(q) \cap Recorded # {}}

\* prepare_dir_conflicts: a local link at such a position becomes a directory, in
\* two steps: the link is removed, and then the directory is made.
Vet ==
  /\ phase = "vet"
  /\ LET left == {q \in Positions : DirKey[q] >= at /\ Found(q) # None /\ Found(q).kind = "link"}
         q    == First(left, DirKey)
     IN  IF left = {}
         THEN /\ IF bad THEN phase' = "done" /\ status' = "failed"
                        ELSE phase' = "prep" /\ UNCHANGED status
              /\ at' = 0 /\ UNCHANGED <<loc, bad, mishaps>>
         ELSE /\ \/ /\ loc' = Removed(loc, Disk(q)) /\ phase' = "make" /\ at' = DirKey[q]
                    /\ UNCHANGED <<bad, mishaps>>
                 \/ /\ mishaps > 0 /\ mishaps' = mishaps - 1
                    /\ bad' = TRUE /\ at' = DirKey[q] + 1 /\ UNCHANGED <<loc, phase>>
              /\ UNCHANGED status
  /\ UNCHANGED <<world, syncing, applying, prep, pruning, told, pass>>

Make ==
  /\ phase = "make" /\ phase' = "vet" /\ at' = at + 1
  /\ \/ /\ \E q \in Positions : DirKey[q] = at /\ loc' = Put(loc, q, NewDir)
        /\ UNCHANGED <<bad, mishaps>>
     \/ mishaps > 0 /\ mishaps' = mishaps - 1 /\ bad' = TRUE /\ UNCHANGED loc
  /\ UNCHANGED <<world, syncing, applying, prep, pruning, told, pass, status>>

\* windows_collect_writable_prep: judged by what is local, at every record.
\* S3.sync then makes a missing destination before it lists anything.
Preppable(p) ==
  /\ Windows /\ p \in Recorded /\ Found(p) # None
  /\ Found(p).kind = "file" /\ Found(p).mode \notin Writable

Prep ==
  /\ phase = "prep" /\ phase' = "sync"
  /\ prep' = [p \in Paths |-> IF Preppable(p) THEN Found(p).mode ELSE None]
  /\ loc' = [p \in Paths |-> IF p = Root /\ loc[Root] = None THEN NewDir
                             ELSE IF \E q \in Paths : Preppable(q) /\ Disk(q) = p
                             THEN [loc[p] EXCEPT !.mode = Opened[loc[p].mode]] ELSE loc[p]]
  /\ UNCHANGED <<world, at, syncing, applying, pruning, told, bad, pass, status, mishaps>>

\* The mode the -u rule judges: the one from before the prep.
Unprepped(p) ==
  IF Found(p) # None /\ prep[p] # None THEN [Found(p) EXCEPT !.mode = prep[p]] ELSE Found(p)

-----------------------------------------------------------------------------
(* The sync: one decision per key, in key order, on one thread, while the  *)
(* downloads it started land on others.                                    *)

Unseen == {p \in Paths \ {Root} : /\ LeafKey[p] >= at
                                  /\ obj[p] # None \/ Listed(loc[p])}

\* UpdateFilter._download: the directories the transfer will have to make,
\* looked up on a disk where earlier downloads may or may not have landed.
Ascending(S) ==
  CHOOSE s \in [1..Cardinality(S) -> S] :
    \A m, n \in 1..Cardinality(S) : m < n => DirKey[s[m]] < DirKey[s[n]]
Chain(p) ==
  IF opts.update /\ walked # Up[p] THEN Ascending({q \in Above[p] : ~IsDir(q)}) ELSE <<>>
Line(say, key) == [say |-> say, key |-> key]

\* Mutant of Decided: the created directories are not spooled.
DecidedChainless(p, v) ==
  IF v.say # None THEN <<Line(v.say, LeafKey[p])>> ELSE <<>>

\* What one decision adds to the spool.
Decided(p, v) ==
  (IF v.get THEN [n \in 1..Len(Chain(p)) |-> Line("D", DirKey[Chain(p)[n]])] ELSE <<>>)
  \o (IF v.say # None THEN <<Line(v.say, LeafKey[p])>> ELSE <<>>)

Decide ==
  /\ phase = "sync" /\ Unseen # {}
  /\ LET p == First(Unseen, LeafKey)
         v == IF LeafKey[p] \in opts.excluded THEN Leave
              ELSE SyncVerdict(LeafRec(p), Unprepped(p), obj[p], Listed(loc[p]), opts)
         clear == v.say = "D" /\ Found(p) # None /\ Found(p).kind = "special"
     IN  /\ at' = LeafKey[p] + 1
         /\ spool' = spool \o Decided(p, v)
         /\ walked' = IF opts.update /\ v.get /\ ~Listed(loc[p]) THEN Up[p] ELSE walked
         /\ todo' = IF v.get THEN todo \cup {p} ELSE todo
         /\ told' = IF v.warn THEN told \cup {p} ELSE told
         /\ loc' = IF clear THEN Removed(loc, Disk(p)) ELSE loc
  /\ UNCHANGED <<world, phase, applying, prep, pruning, bad, pass, status, mishaps>>

\* A download lands whole, or fails: the transfer goes on with the others.
Land(p) ==
  /\ phase = "sync" /\ p \in todo /\ todo' = todo \ {p}
  /\ \/ /\ ~Blocked(p) /\ ~IsDir(p)
        /\ loc' = Put(loc, Disk(p), [kind |-> "file", data |-> obj[p],
                                     mtime |-> Uploaded, mode |-> Umask])
        /\ UNCHANGED <<bad, mishaps>>
     \/ /\ Blocked(p) \/ IsDir(p)
        /\ bad' = TRUE /\ UNCHANGED <<loc, mishaps>>
     \/ /\ mishaps > 0 /\ mishaps' = mishaps - 1
        /\ bad' = TRUE /\ UNCHANGED loc
  /\ UNCHANGED <<world, phase, at, spool, walked, applying, prep, pruning, told, pass, status>>

Synced ==
  /\ phase = "sync" /\ Unseen = {} /\ todo = {} /\ at' = 0
  /\ IF bad THEN Finish("failed") ELSE phase' = "apply" /\ UNCHANGED <<status, loc, prep>>
  /\ UNCHANGED <<world, syncing, applying, pruning, told, bad, pass, mishaps>>

-----------------------------------------------------------------------------
(* The metadata apply: the records in key order, each beside what is found *)
(* on disk, over a stack of the directories still open.  The first pass    *)
(* follows the sync, the second the removal of extras.                     *)

Top == frames[Len(frames)]
ToApply == {p \in Recorded : RecKey(p) >= at}
NextRecord == CHOOSE p \in ToApply : \A q \in ToApply : RecKey(p) <= RecKey(q)

\* Mutant of Leaves: directories are settled at the end of the stream.
LeavesAtEnd(path) == ToApply = {}

\* The stream has left the directory's subtree.
Leaves(path) == ToApply # {} => ~InSubtree(path, NextRecord)

\* What _settle_dir makes of p in the tree l.
Settled(l, p, ordered) == SettleVerdict(rec[p], l[DiskIn(l, p)], ordered)

\* _settle_dir on p: a fresh look, then the recorded mode and time.
Settle(p, ordered) ==
  LET v == Settled(loc, p, ordered) IN
  /\ loc' = IF v = "stamp" THEN [loc EXCEPT ![Disk(p)] = Stamped(rec[p], Found(p))] ELSE loc
  /\ bad' = (bad \/ v = "error")
  /\ told' = IF v = "conflict" /\ pass = 1 THEN told \cup {p} ELSE told

\* _pop_dir_frames, one frame: settled now, or after the deferred links.
PopFrame ==
  /\ phase = "apply" /\ frames # <<>> /\ Leaves(Top.path)
  /\ frames' = Front(frames)
  /\ IF Top.resettle
     THEN post' = post \cup {Top.path} /\ UNCHANGED <<loc, bad, told>>
     ELSE Settle(Top.path, opts.update /\ ~Top.dirty) /\ UNCHANGED post
  /\ UNCHANGED <<world, phase, at, syncing, cur, deferred, prep, pruning, pass, status, mishaps>>

\* _DecisionCursor.lookup: skip the lines before the key, consume a hit.
LinesFrom(key) == {n \in cur..Len(spool) : spool[n].key >= key}
Ahead(key) == IF LinesFrom(key) = {} THEN Len(spool) + 1
              ELSE CHOOSE n \in LinesFrom(key) : \A m \in LinesFrom(key) : n <= m
Hit(key) == Ahead(key) <= Len(spool) /\ spool[Ahead(key)].key = key
Decision(key) == IF Hit(key) THEN spool[Ahead(key)].say ELSE None

LinkAt(r) == [kind |-> "link", data |-> r.what, mode |-> Umask,
              mtime |-> IF LinkMtimes /\ r.mtime # NoMtime THEN r.mtime ELSE Now]
Dangling(r) ==
  Windows /\ r.kind = "link" /\ LET to == Points[r.what] IN to # Root /\ Found(to) = None

\* The tree after p's verdict.  A file the apply leaves alone gets back the
\* mode the prep changed.
Cleared(p) == IF Found(p) = None THEN loc ELSE Removed(loc, Disk(p))
Repermitted(p) ==
  IF Found(p) # None /\ prep[p] # None THEN [loc EXCEPT ![Disk(p)].mode = prep[p]] ELSE loc
Effect(p, v, d) ==
  CASE v = "stamp" -> [loc EXCEPT ![Disk(p)] = Stamped(rec[p], Found(p))]
    [] v = "place" -> Put(Cleared(p), p, LinkAt(rec[p]))
    [] v = "dir"   -> IF IsDir(p) THEN loc ELSE Put(loc, p, NewDir)
    [] v = "stale" \/ (v \in {"keep", "conflict"} /\ opts.update /\ d # "D") -> Repermitted(p)
    [] OTHER       -> loc

\* Mutant of Flags: the parent of a deferred link is settled with the others.
FlagsNoResettle(p, v, d) ==
  IF opts.update /\ (d = "D" \/ v = "place" \/ (v = "dir" /\ ~IsDir(p)))
  THEN {"dirty"} ELSE {}

\* -u marks the directory p's write landed in; a deferred link, the directory
\* it will land in.
Flags(p, v, d) ==
  (IF opts.update /\ (d = "D" \/ v = "place" \/ (v = "dir" /\ ~IsDir(p)))
   THEN {"dirty"} ELSE {})
  \cup (IF v = "defer" THEN {"resettle"} ELSE {})
Flagged(S) ==
  IF frames = <<>> THEN frames ELSE Append(Front(frames), [Top EXCEPT
    !.dirty = @ \/ "dirty" \in S, !.resettle = @ \/ "resettle" \in S])

\* A directory record opens its frame: dirty where the pull made it.
Opens(p, d) == [path |-> p, resettle |-> FALSE,
                dirty |-> pass = 2 \/ ~IsDir(p) \/ d = "D"]

VerdictOn(p, d) ==
  ApplyVerdict(rec[p], IF opts.update /\ d # "D" THEN Unprepped(p) ELSE Found(p),
               d, opts.update, Dangling(rec[p]))
\* A write that cannot be made, or a mishap in it: an OSError.
Writes(p, v) == v = "place" \/ (v = "dir" /\ ~IsDir(p))

\* Raised out of the apply: no extras, and the finally still runs.
Abort == Finish("failed") /\ UNCHANGED <<world, at, syncing, applying, pruning, told, bad, pass>>

AtRecord == phase = "apply" /\ ToApply # {} /\ (frames # <<>> => ~Leaves(Top.path))
NextLine(p) ==
  /\ at' = RecKey(p) + 1
  /\ cur' = Ahead(RecKey(p)) + (IF Hit(RecKey(p)) THEN 1 ELSE 0)
  /\ UNCHANGED <<world, phase, syncing, post, prep, pruning, pass, status>>

\* A directory record is being applied to p where something else stands, or,
\* once that is removed, nothing.
Making(p) == /\ AtRecord /\ p = NextRecord /\ Judged(p) /\ ~IsDir(p)
             /\ VerdictOn(p, Decision(RecKey(p))) = "dir"

\* _apply_record for a directory: what stands in its place is removed first.
ClearConflict ==
  /\ \E p \in Paths : Making(p) /\ Found(p) # None /\ loc' = Removed(loc, Disk(p))
  /\ UNCHANGED <<world, phase, at, syncing, applying, prep, pruning, told, bad, pass, status, mishaps>>

\* _apply_record for the next record.
Apply ==
  /\ AtRecord
  /\ LET p == NextRecord
         said == Decision(RecKey(p))
         v == VerdictOn(p, said)
     IN  /\ Judged(p) /\ (Writes(p, v) => ~Blocked(p))
         /\ Making(p) => Found(p) = None
         /\ loc' = Effect(p, v, said)
         /\ frames' = IF v = "dir" THEN Append(Flagged(Flags(p, v, said)), Opens(p, said))
                                   ELSE Flagged(Flags(p, v, said))
         /\ deferred' = IF v = "defer" THEN Append(deferred, p) ELSE deferred
         /\ bad' = (bad \/ v = "error")
         /\ told' = IF v \in {"conflict", "stale", "missing"} /\ pass = 1
                    THEN told \cup {p} ELSE told
         /\ NextLine(p) /\ UNCHANGED mishaps

SkipExcluded ==
  /\ AtRecord /\ ~Judged(NextRecord) /\ NextLine(NextRecord)
  /\ UNCHANGED <<loc, frames, deferred, bad, told, mishaps>>

\* A chmod or utime that fails is an error; anything else leaves cmd_pull.
ApplyFails ==
  /\ AtRecord /\ Judged(NextRecord)
  /\ LET p == NextRecord
         v == VerdictOn(p, Decision(RecKey(p)))
     IN  \/ Writes(p, v) /\ Blocked(p) /\ Abort /\ UNCHANGED mishaps
         \/ /\ mishaps > 0 /\ mishaps' = mishaps - 1
            /\ \/ Writes(p, v) /\ Abort
               \/ /\ v = "stamp" /\ bad' = TRUE /\ NextLine(p)
                  /\ UNCHANGED <<loc, frames, deferred, told>>

Streamed ==
  /\ phase = "apply" /\ ToApply = {} /\ frames = <<>> /\ phase' = "place"
  /\ UNCHANGED <<world, loc, at, syncing, applying, prep, pruning, told, bad, pass, status, mishaps>>

\* A deferred link, against what has become of its place by now: a directory
\* goes with all that is in it.
Place ==
  /\ phase = "place" /\ deferred # <<>>
  /\ LET p == Head(deferred) IN
     IF Blocked(p) THEN Abort /\ UNCHANGED mishaps
     ELSE \/ /\ loc' = Put(Cleared(p), p, LinkAt(rec[p]))
             /\ deferred' = Tail(deferred)
             /\ UNCHANGED <<phase, status, prep, mishaps, world, at, syncing, cur, frames, post,
                            pruning, told, bad, pass>>
          \/ mishaps > 0 /\ mishaps' = mishaps - 1 /\ Abort

\* post_symlink_dirs, deepest first; then apply_manifest returns.
Resettle ==
  /\ phase = "place" /\ deferred = <<>> /\ post # {}
  /\ LET p == CHOOSE p \in post : \A q \in post : DirKey[q] <= DirKey[p] IN
     Settle(p, FALSE) /\ post' = post \ {p}
  /\ UNCHANGED <<world, phase, at, syncing, cur, frames, deferred, prep, pruning, pass,
                 status, mishaps>>

\* A clean apply has re-applied the prepped modes itself.
Applied ==
  /\ phase = "place" /\ deferred = <<>> /\ post = {} /\ at' = 0
  /\ IF bad \/ pass = 2 \/ opts.delete = "off"
     THEN IF bad THEN Finish("failed")
          ELSE phase' = "done" /\ status' = "ok" /\ prep' = NoPrep /\ UNCHANGED loc
     ELSE phase' = "extras" /\ prep' = NoPrep /\ UNCHANGED <<status, loc>>
  /\ UNCHANGED <<world, syncing, applying, pruning, told, bad, pass, mishaps>>

-----------------------------------------------------------------------------
(* pull --delete: opts.delete is "yes" (--yes), "ask", or "no" (nobody to  *)
(* ask: every answer is no); "off" without --delete.                       *)

Shown(p) == loc[p] # None /\ p # Root /\ KeyAs(p, loc[p].kind) \notin opts.excluded
LocalKey(p) == KeyAs(p, loc[p].kind)
Paired(p) == Shown(p) /\ p \in Recorded /\ rec[p].kind \in IF loc[p].kind = "dir"
                                                         THEN {"dir"} ELSE Kinds \ {"dir"}

\* Mutants of Covered: no record shields what stands in its place; a record's
\* name is taken for a prefix of the next one ("d" of "d-").
CoveredByNone(p) == FALSE
CoveredByPrefix(p) ==
  \E b \in Nondirs : ~Paired(b) /\ (InSubtree(b, p) \/ LeafKey[p] = LeafKey[b] + 1)

\* The blockers: a directory, and all in it, where a leaf is recorded.
Covered(p) == \E b \in Nondirs : InSubtree(b, p) /\ ~Paired(b)
\* _collect_extra_aliases
Alias(p) ==
  \E q \in Recorded \ {Root} :
    /\ q = p \/ Twin[q] = p
    /\ ~Paired(q) /\ Found(q) # None
Extra(p) == ~Paired(p) /\ ~Covered(p)

ToPrune == {p \in Paths : Shown(p) /\ LocalKey(p) >= at}
NextLocal == CHOOSE p \in ToPrune : \A q \in ToPrune : LocalKey(p) <= LocalKey(q)
Innermost == open[Len(open)]
PastOpen == ToPrune # {} => ~InSubtree(Innermost.path, NextLocal)
Pinned(s) == [n \in 1..Len(s) |-> [s[n] EXCEPT !.kept = TRUE]]

\* decide: an alias is kept and warned about, a refusal keeps what is open
\* above, and only a yes removes.  rest: the directories still open.
Judge(p, rest) ==
  \/ /\ Alias(p) /\ open' = Pinned(rest) /\ told' = told \cup {p}
     /\ UNCHANGED <<loc, gone, asked, bad, mishaps, phase, status, prep>>
  \/ /\ ~Alias(p) /\ opts.delete = "ask" /\ open' = Pinned(rest) /\ asked' = asked \cup {p}
     /\ UNCHANGED <<loc, gone, told, bad, mishaps, phase, status, prep>>
  \/ /\ ~Alias(p) /\ opts.delete = "ask" /\ Finish("failed") /\ asked' = asked \cup {p}     \* q
     /\ UNCHANGED <<open, gone, told, bad, mishaps>>
  \/ /\ ~Alias(p) /\ open' = rest /\ asked' = asked \cup {p}
     /\ \/ /\ \A c \in Paths \ {p} : Up[c] = p => loc[c] = None
           /\ loc' = Removed(loc, p) /\ gone' = gone \cup {p} /\ UNCHANGED <<bad, mishaps>>
        \/ /\ \E c \in Paths \ {p} : Up[c] = p /\ loc[c] # None     \* rmdir fails
           /\ bad' = TRUE /\ UNCHANGED <<loc, gone, mishaps>>
        \/ /\ mishaps > 0 /\ mishaps' = mishaps - 1
           /\ bad' = TRUE /\ UNCHANGED <<loc, gone>>
     /\ UNCHANGED <<told, phase, status, prep>>

CloseExtra ==
  /\ phase = "extras" /\ open # <<>> /\ PastOpen
  /\ IF Innermost.kept
     THEN open' = Front(open) /\ UNCHANGED <<loc, gone, asked, told, bad, mishaps, phase, status, prep>>
     ELSE Judge(Innermost.path, Front(open))
  /\ UNCHANGED <<world, at, syncing, applying, pass>>

Prune ==
  /\ phase = "extras" /\ opts.delete # "no" /\ ToPrune # {} /\ (open # <<>> => ~PastOpen)
  /\ LET p == NextLocal IN
     /\ at' = LocalKey(p) + 1
     /\ IF ~Extra(p) \/ loc[p].kind = "dir"
        THEN /\ open' = IF Extra(p) THEN Append(open, [path |-> p, kept |-> FALSE]) ELSE Pinned(open)
             /\ UNCHANGED <<loc, gone, asked, told, bad, mishaps, phase, status, prep>>
        ELSE Judge(p, open)
  /\ UNCHANGED <<world, syncing, applying, pass>>

\* _mirror_extras: a removal dirtied its parent, so the apply runs once more.
Pruned ==
  /\ phase = "extras" /\ (opts.delete = "no" \/ (ToPrune = {} /\ open = <<>>)) /\ at' = 0
  /\ IF gone # {} THEN phase' = "apply" /\ pass' = 2 /\ cur' = 1 /\ UNCHANGED <<status, loc, prep>>
     ELSE Finish(IF bad THEN "failed" ELSE "ok") /\ UNCHANGED <<pass, cur>>
  /\ UNCHANGED <<world, syncing, frames, deferred, post, pruning, told, bad, mishaps>>

-----------------------------------------------------------------------------
(* Cut: Ctrl-C runs the finally, a kill does not.  Again: the next pull.   *)

Cut ==
  /\ phase \notin {"start", "done"} /\ mishaps > 0 /\ mishaps' = mishaps - 1
  /\ phase' = "done" /\ status' = "cut" /\ prep' = NoPrep
  /\ loc' = GivenBack(loc) \/ loc' = loc
  /\ UNCHANGED <<world, at, syncing, applying, pruning, told, bad, pass>>

Again ==
  /\ phase = "done" /\ status = "cut" /\ phase' = "start" /\ status' = None
  /\ at' = 0 /\ todo' = {} /\ spool' = <<>> /\ walked' = None
  /\ cur' = 1 /\ frames' = <<>> /\ deferred' = <<>> /\ post' = {}
  /\ open' = <<>> /\ gone' = {} /\ asked' = {} /\ told' = {} /\ bad' = FALSE /\ pass' = 1
  /\ orig' = loc /\ UNCHANGED <<rec, obj, opts, loc, prep, mishaps>>

Next ==
  \/ Start \/ Vet \/ Make \/ Prep \/ Decide \/ (\E p \in Paths : Land(p)) \/ Synced
  \/ PopFrame \/ ClearConflict \/ Apply \/ SkipExcluded \/ ApplyFails \/ Streamed \/ Place \/ Resettle \/ Applied
  \/ CloseExtra \/ Prune \/ Pruned \/ Cut \/ Again

Spec == Init /\ [][Next]_vars

-----------------------------------------------------------------------------
(* Properties.                                                             *)

Done == phase = "done"
Ended == Done /\ status # "cut"

\* A pull that ends well leaves every record it judges as status would have
\* it - directories too, whose times the downloads, links and removals after
\* them disturb - or has warned about it, or under -u has kept a local side
\* that is not the older one.  Under --checksum the content is the object's,
\* unless there is no object and the file cannot be read.
\* Not covered: under -u, a directory the pull wrote into before the apply and
\* spooled nothing of, which the apply takes for a local change; or that such a
\* write made where a leaf is recorded.
Had(p) == orig[DiskIn(orig, p)]
UnseenWrite(p) ==
  \/ p = Root /\ orig[Root] = None
  \/ \E q \in Positions : InSubtree(p, q) /\ Had(q) # None /\ Had(q).kind = "link"
  \/ \E q \in Beneath(p) : obj[q] # None /\ LeafRec(q) = None /\ orig[q] = None
KeptLocal(p) ==
  /\ opts.update /\ Had(p) # None /\ loc[DiskIn(orig, p)] = Had(p)
  /\ OrderedSide(rec[p], Had(p)) # "record"
Restored ==
  Done /\ status = "ok" =>
    \A p \in Recorded :
      \/ ~Judged(p) \/ p \in told \/ KeptLocal(p)
      \/ opts.update /\ UnseenWrite(p)
      \/ /\ Matches(rec[p], Found(p))
         /\ opts.checksum /\ rec[p].kind = "file" =>
              \/ Found(p).data = obj[p]
              \/ obj[p] = None /\ Found(p).mode \notin Readable

\* What the tree held before the pull is replaced or removed only by a record
\* or object that stands there, or the directory of one beneath; by a recorded
\* link that takes the place of all beneath it; or as an extra: one no record,
\* blocker or folded name vouches for, and asked about where the run asks.  (The
\* directory that the vetting put in an excluded link's place may be an extra in
\* its turn, where the file recorded beneath has no object.)  A link or leaf is
\* removed before the directory in its place is made: nothing stands there in
\* between, and where the pull failed or was cut there.  A special file is removed
\* before the download that takes its place.
Replaced(p) == loc[p] = None \/ loc[p].kind # orig[p].kind \/ loc[p].data # orig[p].data
Vouched(p) == \/ \E b \in Nondirs : InSubtree(b, p)
              \/ p \in Recorded /\ orig[p].kind = "dir"
              \/ \E q \in Recorded : Twin[q] = p
Named(p) == {q \in Paths : q = p \/ Twin[q] = p}
Unmade(q) ==
  /\ Found(q) = None
  /\ \/ phase = "vet" /\ bad
     \/ phase = "make" /\ (at = DirKey[q] \/ bad)
     \/ Making(q)
     \/ Done /\ status # "ok"
LossesExplained ==
  \A p \in Paths : orig[p] # None /\ Replaced(p) =>
    \/ p \in gone /\ p \in asked /\ ~Vouched(p) /\ KeyAs(p, orig[p].kind) \notin opts.excluded
    \/ \E q \in Named(p), b \in Nondirs : InSubtree(b, q) /\ rec[b].kind = "link"
    \/ \E q \in Named(p) :
         /\ q \in Positions
         /\ IsDir(q) \/ q \in gone \/ (orig[p].kind # "dir" /\ Unmade(q))
    \/ \E q \in Named(p) :
         /\ orig[p].kind # "dir" /\ obj[q] # None
         /\ \/ Found(q) = None /\ (orig[p].kind = "special" \/ q \in gone)
            \/ Found(q) # None /\ Found(q).kind = "file" /\ Found(q).data = obj[q]
            \/ IsDir(q) /\ \E x \in Beneath(q) : obj[x] # None

\* A local file whose record has no object keeps its content, its time and its
\* mode, whatever the pull's options and however it ends.
StaleUntouched ==
  Ended => \A p \in Recorded :
    rec[p].kind = "file" /\ obj[p] = None /\ orig[p] # None /\ orig[p].kind = "file"
    => loc[p] = orig[p]

\* The same as docs/sync.md states it, of whatever stands at the record's path
\* (violated: a folding filesystem finds a file under another spelling there,
\* which the sync's listing does not match with the record).
StaleLeftAsItIs ==
  Ended => \A p \in Recorded :
    rec[p].kind = "file" /\ obj[p] = None /\ Had(p) # None /\ Had(p).kind = "file"
    => loc[DiskIn(orig, p)] = Had(p)

\* pull -u leaves a newer local file, link or special file alone in full, and a
\* newer directory in place, where a file, link or special file is recorded.
\* (A file it cannot read is not compared: the download replaces it.)
NewerHere(p) ==
  /\ opts.update /\ orig[p] # None /\ OrderedSide(rec[p], orig[p]) = "local"
  /\ orig[p].kind = "file" => orig[p].mode \in Readable
Untouched(p) ==
  IF orig[p].kind = "dir" THEN loc[p] # None /\ loc[p].kind = "dir" ELSE loc[p] = orig[p]
NewerLeafKept == Ended => \A p \in Nondirs : NewerHere(p) => Untouched(p)

\* The same of every local file and link, as the manual states it (violated:
\* a recorded directory replaces a newer local file or link in its place).
NewerKept ==
  Ended => \A p \in Recorded : NewerHere(p) /\ orig[p].kind # "dir" => Untouched(p)

\* pull --delete --yes that ends well leaves nothing of its own to remove: what
\* is still there is the directory pulled into, or is recorded, excluded, in the
\* place of a recorded leaf or confused with a recorded name, or is a directory
\* that holds such a thing.
Spared(p) ==
  \/ p \in Recorded \/ KeyAs(p, loc[p].kind) \in opts.excluded
  \/ \E b \in Nondirs : InSubtree(b, p)
  \/ \E q \in Recorded : Twin[q] = p
MirrorComplete ==
  Done /\ status = "ok" /\ opts.delete = "yes" =>
    \A p \in Paths \ {Root} :
      loc[p] # None => \E q \in Paths : InSubtree(p, q) /\ loc[q] # None /\ Spared(q)

\* The modes the writable prep changed are the original ones when the pull
\* returns, or as recorded as far as status tells - where the record is judged: an
\* excluded file made writable stays so after a clean apply.
ModesGivenBack ==
  Ended => \A p \in Recorded :
    Judged(p) /\ orig[p] # None /\ loc[p] # None /\ orig[p].kind = "file"
    /\ loc[p].kind = "file" /\ loc[p].mtime # Uploaded
    => loc[p].mode = orig[p].mode \/ ~ModeDiffers(rec[p], loc[p])

\* A pull on Windows, which makes files writable before it restores them and
\* places a link to nothing last, restores like any other and gives every mode
\* back.
RestoredOnWindows == Restored /\ ModesGivenBack
=============================================================================
