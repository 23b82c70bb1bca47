----------------------------- MODULE PushJournal -----------------------------
(***************************************************************************)
(* The single-scan push (syncops.PushJournal and the delete plan of        *)
(* commands.py): one ascending stream of pairs, the local walk united with *)
(* the S3 listing, and a cursor over the old manifest in lockstep with it. *)
(* Every pair and every record the stream passes over is decided once, and *)
(* every manifest change becomes one journal line.                         *)
(*                                                                         *)
(* Keys are 1..N in sort order.  A directory's key ends in "/", so the     *)
(* keys beneath it are the interval that follows it.  The world (what is   *)
(* recorded, what is on disk, what is in S3) does not move during the      *)
(* scan: a path that changes under the walk is one of the blind ones.      *)
(***************************************************************************)
EXTENDS PushVerdict, Integers, Sequences, SequencesExt

CONSTANTS
  N,             \* the number of keys
  DirKeys,       \* the keys of directories; 1 is the entry root's, "."
  LastBeneath,   \* for a directory key, the last key beneath it
  SubDir,        \* the directory a sub-path push names
  SubFile,       \* the file or symlink a sub-path push names
  SubAncestors,  \* the directories above the named sub-path
  Records, Items, Contents, \* what can be recorded, on disk, in S3
  Worlds         \* the states of the world a push may start from

Keys       == 1..N
Root       == 1
Beneath(d) == (d+1)..LastBeneath[d]
Below(d, k) == d < k /\ k <= LastBeneath[d]

Options == [delete: BOOLEAN, asks: BOOLEAN, update: BOOLEAN, checksum: BOOLEAN,
            scope: {"entry", "dir", "target"}]
WorldType == [rec:   [Keys -> Records \cup {None}],
              loc:   [Keys -> Items \cup {None}],
              obj:   [Keys -> Contents \cup {None}],
              blind: SUBSET Keys,
              opts:  Options]

Entries == Records \cup {RecordOf(i) : i \in Items}
Marks   == {"add", "replace", "drop", "keep"}
Lines   == [mark: Marks, entry: Entries]

\* Two directories are nested or disjoint; None is not a value of anything.
ASSUME TreeAssumption ==
  /\ N \in Nat \ {0}
  /\ DirKeys \subseteq Keys /\ Root \in DirKeys
  /\ LastBeneath \in [DirKeys -> Keys]
  /\ \A d, e \in DirKeys : Below(d, e) => LastBeneath[e] <= LastBeneath[d]
ASSUME ScopeAssumption ==
  SubDir \in DirKeys /\ SubFile \in Keys \ DirKeys /\ SubAncestors \subseteq DirKeys
ASSUME NoneAssumption == None \notin Entries \cup Items \cup Contents \cup Lines

\* A key says whether it is a directory's; a directory has no object (the
\* listing shows no folder markers).
WellFormed(w) ==
  /\ w \in WorldType
  /\ \A k \in Keys :
       /\ w.rec[k] # None => (w.rec[k].kind = "dir" <=> k \in DirKeys)
       /\ w.loc[k] # None => (w.loc[k].kind = "dir" <=> k \in DirKeys)
       /\ k \in DirKeys => w.obj[k] = None
ASSUME WorldAssumption == \A w \in Worlds : WellFormed(w)

\* What lstat says of a path: always an mtime, and a file always has a content.
ASSUME ItemAssumption ==
  /\ Window \in Nat
  /\ \A i \in Items : /\ i.kind \in Kinds /\ i.mtime \in Int /\ i.mtime # NoMtime
                      /\ i.kind = "file" => i.data \in Contents

VARIABLES
  rec,       \* the old manifest's records
  loc,       \* the local items the walk shows
  obj,       \* the S3 objects at the start
  blind,     \* with loc: unreadable when opened; without: there, but unseen
  opts,      \* the run's options and what it was asked to push
  phase,     \* "stream", "drain", "offer", "done"
  next,      \* the key of the stream's next pair; N+1 at its end
  head,      \* the key of the cursor's next record; N+1 at its end
  frames,    \* the open directory records, innermost last
  gap,       \* scan_incomplete
  jrn,       \* the journal, by key
  tail,      \* the key of the journal's last line
  events,    \* the number of real events journaled
  up,        \* the keys uploaded
  condemned, \* the keys whose object is to be deleted
  spool,     \* the kind-conflict objects to offer after the sync
  refused,   \* the candidates kept because the scan was incomplete
  answer,    \* how each candidate put to the user was answered
  warned,    \* the keys a -u conflict was reported for
  ok         \* the stream completed and nobody answered q

world == <<rec, loc, obj, blind, opts>>
cursor == <<phase, next, head, frames, gap, ok>>
journal == <<jrn, tail, events>>
outcome == <<up, condemned, spool, refused, answer, warned>>
vars == <<world, cursor, journal, outcome>>
-----------------------------------------------------------------------------
(* What the run covers.                                                    *)

Entry == opts.scope = "entry"

\* The part of the tree the sync walks and lists.
Walked(k) == Entry \/ (opts.scope = "dir" /\ (k = SubDir \/ Below(SubDir, k)))

\* What a sub-path push records outside that part: the ancestors the excludes
\* leave visible, the entry root of a first manifest, a named file or link.
Named(k) ==
  /\ ~Entry
  /\ \/ k \in SubAncestors
     \/ k = Root /\ \A j \in Keys : rec[j] = None
     \/ opts.scope = "target" /\ k = SubFile

InStream(k) ==
  \/ Walked(k) /\ (loc[k] # None \/ obj[k] # None)
  \/ Named(k) /\ loc[k] # None

\* Mutant of Judged: a prefix test that forgets the slash.
JudgedByPrefix(k) ==
  Entry \/ (opts.scope = "dir" /\ (k = SubFile \/ Below(SubDir, k)))
\* A record outside this range is never judged stale: the listing of a
\* sub-path push is slash-bounded, and that of a single file is not taken.
Judged(k) == Entry \/ (opts.scope = "dir" /\ Below(SubDir, k))

\* What is there but the walk cannot show.
Hidden == {k \in Keys : k \in blind /\ loc[k] = None /\ Walked(k)}

\* The first key after k that is in S, as a set of one.
NextOf(S, k) ==
  {j \in (k+1)..(N+1) : (j \in S \/ j = N+1) /\ \A i \in (k+1)..(j-1) : i \notin S}

Stream   == {k \in Keys : InStream(k)}
Recorded == {k \in Keys : rec[k] # None}

\* Mutant of Looked: the gap is noticed a pair too late.
LookedLate(g, k) == gap' = (g \/ \E h \in Hidden : h < next)
\* The walker looks at least as far as the pair it hands over, and it warns
\* of what it cannot show as it passes it.
Looked(g, k) == \E r \in k..(N+1) : gap' = (g \/ \E h \in Hidden : h <= r)
-----------------------------------------------------------------------------
(* The journal and the questions.                                          *)

Line(m, e) == [mark |-> m, entry |-> e]
Write(k, line) == jrn' = [jrn EXCEPT ![k] = line] /\ tail' = k
Emit(k, m, e)  == Write(k, Line(m, e)) /\ events' = events + 1
Drop(k)        == Emit(k, "drop", rec[k])
\* Mutant of NewLine: always adds.
NewLineAlwaysAdds(old, k) == Line("add", RecordOf(loc[k]))
NewLine(old, k) == Line(IF old = None THEN "add" ELSE "replace", RecordOf(loc[k]))

WriteNew(old, k) == Write(k, NewLine(old, k)) /\ events' = events + 1

\* Mutant of Flip: the late drop is not counted.
FlipUncounted(d) == jrn' = [jrn EXCEPT ![d] = Line("drop", @.entry)] /\ UNCHANGED events
\* A confirmed directory drop flips the mark of the line reserved for it.
Flip(d) == jrn' = [jrn EXCEPT ![d] = Line("drop", @.entry)] /\ events' = events + 1

\* Mutants of TakesRecord: any record at the object's key goes, or none does.
TakesAnyRecord(old) == old # None
TakesNoRecord(old) == FALSE
\* An object that goes takes a file's record along, never another kind's.
TakesRecord(old) == old # None /\ old.kind = "file"

\* Mutant of MarkKept: a survivor pins nothing.
MarkKeptNever(fs) == fs
\* Something survives beneath the innermost open directory record.
MarkKept(fs) == IF fs = <<>> THEN fs ELSE [fs EXCEPT ![Len(fs)].kept = TRUE]

\* Mutants: the gate stays open; what it turns away is not counted.
AllowedAlways == TRUE
RefuseSilently(k) == UNCHANGED refused
\* The completeness gate, checked before every question; what it turns away
\* is counted for the warning.
Allowed   == ~gap
Refuse(k) == refused' = refused \cup {k}

\* A candidate's question: --yes and --dry-run answer y to everything.
Answered(k, a) ==
  /\ a = "no" => opts.asks
  /\ answer' = [answer EXCEPT ![k] = a]

\* q, at a question: the sync stops, and what was not decided is gated.
Quit ==
  /\ opts.asks
  /\ ok' = FALSE
  /\ IF phase = "stream" THEN phase' = "drain" /\ next' = N+1 /\ gap' = TRUE
                         ELSE phase' = "done" /\ UNCHANGED <<next, gap>>

\* The key the cursor and the stream have come to.
Now     == IF head < next THEN head ELSE next
\* Mutant of Passed: a frame closes when the stream leaves it behind, wherever
\* the cursor is.
PassedByStream == frames # <<>> /\ ~Below(Last(frames).key, next)
Passed  == frames # <<>> /\ ~Below(Last(frames).key, Now)
Running == phase \in {"stream", "drain"}
-----------------------------------------------------------------------------
Init ==
  /\ \E w \in Worlds : /\ rec = w.rec /\ loc = w.loc /\ obj = w.obj
                       /\ blind = w.blind /\ opts = w.opts
  /\ phase = "stream" /\ ok = TRUE /\ frames = <<>>
  /\ next \in NextOf(Stream, 0)
  /\ head \in NextOf(Recorded, 0)
  /\ \E r \in next..(N+1) : gap = \E h \in Hidden : h <= r
  /\ jrn = [k \in Keys |-> None] /\ tail = 0 /\ events = 0
  /\ up = {} /\ condemned = {} /\ spool = {} /\ refused = {} /\ warned = {}
  /\ answer = [k \in Keys |-> "none"]

-----------------------------------------------------------------------------
(* Directory records: opened when passed over, resolved when left behind.  *)

\* A directory record beneath which something survived is kept unasked.
KeepFrame ==
  /\ Running /\ Passed
  /\ Last(frames).kept
  /\ frames' = MarkKept(Front(frames))
  /\ UNCHANGED <<world, phase, next, head, gap, ok, journal, outcome>>

\* The completeness gate refuses a directory record's question.
RefuseFrame ==
  /\ Running /\ Passed
  /\ ~Last(frames).kept /\ ~Allowed
  /\ frames' = MarkKept(Front(frames))
  /\ Refuse(Last(frames).key)
  /\ UNCHANGED <<world, phase, next, head, gap, ok, journal, up, condemned,
                 spool, answer, warned>>

\* Nothing survived beneath: ask, and flip the reserved line on a yes.
AskFrame ==
  /\ Running /\ Passed
  /\ ~Last(frames).kept /\ Allowed
  /\ LET d == Last(frames).key IN
     \/ /\ Answered(d, "yes")
        /\ Flip(d)
        /\ frames' = Front(frames)
     \/ /\ Answered(d, "no")
        /\ frames' = MarkKept(Front(frames))
        /\ UNCHANGED <<jrn, events>>
  /\ UNCHANGED <<world, phase, next, head, gap, ok, tail, up, condemned,
                 spool, refused, warned>>

QuitFrame ==
  /\ Running /\ Passed
  /\ ~Last(frames).kept /\ Allowed
  /\ frames' = Front(frames)
  /\ Quit
  /\ UNCHANGED <<world, head, journal, outcome>>

-----------------------------------------------------------------------------
(* Skip-overs: a record with nothing at its key on either side.            *)

AtRecord == Running /\ head < next /\ ~Passed
NextRecord == head' \in NextOf(Recorded, head)
Kept == frames' = MarkKept(frames)

\* Outside the range a sub-path push replaces: not even looked at.
SkipOutside ==
  /\ AtRecord
  /\ ~Judged(head)
  /\ NextRecord
  /\ UNCHANGED <<world, phase, next, frames, gap, ok, journal, outcome>>

\* After a gap nothing passed over is evidence of anything.
SkipGated ==
  /\ AtRecord
  /\ Judged(head) /\ gap
  /\ IF opts.delete /\ rec[head].kind # "file" THEN Refuse(head)
                                               ELSE UNCHANGED refused
  /\ Kept /\ NextRecord
  /\ UNCHANGED <<world, phase, next, gap, ok, journal, up, condemned, spool,
                 answer, warned>>

\* Mutant of DropStale: records of every kind are dropped unasked.
DropStaleOfAnyKind ==
  /\ AtRecord
  /\ Judged(head) /\ ~gap
  /\ Drop(head) /\ NextRecord
  /\ UNCHANGED <<world, phase, next, frames, gap, ok, outcome>>

\* A file record with no object left restores nothing: dropped unasked.
DropStale ==
  /\ AtRecord
  /\ Judged(head) /\ ~gap
  /\ rec[head].kind = "file"
  /\ Drop(head) /\ NextRecord
  /\ UNCHANGED <<world, phase, next, frames, gap, ok, outcome>>

\* Every other record is the backup itself: without --delete it stays.
SkipKept ==
  /\ AtRecord
  /\ Judged(head) /\ ~gap
  /\ rec[head].kind # "file" /\ ~opts.delete
  /\ Kept /\ NextRecord
  /\ UNCHANGED <<world, phase, next, gap, ok, journal, outcome>>

\* A directory record: reserve its line and wait for what is beneath it.
OpenFrame ==
  /\ AtRecord
  /\ Judged(head) /\ ~gap
  /\ rec[head].kind = "dir" /\ opts.delete
  /\ Write(head, Line("keep", rec[head]))
  /\ frames' = Append(frames, [key |-> head, kept |-> FALSE])
  /\ NextRecord
  /\ UNCHANGED <<world, phase, next, gap, ok, events, outcome>>

\* A link or special-file record is put to the user as the record itself.
AskRecord ==
  /\ AtRecord
  /\ Judged(head) /\ ~gap
  /\ rec[head].kind \in {"link", "special"} /\ opts.delete
  /\ \/ Answered(head, "yes") /\ Drop(head) /\ UNCHANGED frames
     \/ Answered(head, "no") /\ Kept /\ UNCHANGED journal
  /\ NextRecord
  /\ UNCHANGED <<world, phase, next, gap, ok, up, condemned, spool, refused, warned>>

QuitRecord ==
  /\ AtRecord
  /\ Judged(head) /\ ~gap
  /\ rec[head].kind \in {"link", "special"} /\ opts.delete
  /\ Quit
  /\ UNCHANGED <<world, head, frames, journal, outcome>>

-----------------------------------------------------------------------------
(* Pairs: decided in order, once the cursor has caught up with them.       *)

AtPair == phase = "stream" /\ next <= N /\ next <= head /\ ~Passed
\* The old record at the pair's key, if the cursor is there.
Old == IF head = next THEN rec[next] ELSE None
\* Mutant of Consume: the cursor stays at the pair's record.
ConsumeNothing == head' = head
Consume == head' \in IF head = next THEN NextOf(Recorded, head) ELSE {head}
NextPair(g) == next' \in NextOf(Stream, next) /\ Looked(g, next')

\* The local item at a walked key, with or without an object beside it.
Decide ==
  /\ AtPair
  /\ loc[next] # None /\ ~(opts.scope = "target" /\ next = SubFile)
  /\ LET v == Verdict(Old, loc[next], obj[next], opts, next \in blind) IN
     /\ IF v.emit THEN WriteNew(Old, next)
                  ELSE UNCHANGED journal
     /\ up' = IF v.copy THEN up \cup {next} ELSE up
     /\ warned' = IF v.conflict THEN warned \cup {next} ELSE warned
     /\ spool' = IF ShieldsObject(loc[next], obj[next], opts, v)
                 THEN spool \cup {next} ELSE spool
     /\ NextPair(gap \/ v.gap)
  /\ Consume
  /\ UNCHANGED <<world, phase, frames, ok, condemned, refused, answer>>

\* A file or link named on the command line is uploaded and re-recorded.
RecordTarget ==
  /\ AtPair
  /\ opts.scope = "target" /\ next = SubFile /\ next \notin blind
  /\ WriteNew(Old, next)
  /\ up' = IF loc[next].kind = "file" THEN up \cup {next} ELSE up
  /\ NextPair(gap) /\ Consume
  /\ UNCHANGED <<world, phase, frames, ok, condemned, spool, refused, answer, warned>>

AtOrphan == AtPair /\ loc[next] = None

\* An object kept: its record stays, and pins every directory above it.
KeepOrphan ==
  /\ AtOrphan
  /\ \/ ~opts.delete /\ UNCHANGED <<answer, refused>>
     \/ opts.delete /\ ~Allowed /\ Refuse(next) /\ UNCHANGED answer
     \/ opts.delete /\ Allowed /\ Answered(next, "no") /\ UNCHANGED refused
  /\ frames' = IF Old # None THEN MarkKept(frames) ELSE frames
  /\ Consume /\ NextPair(gap)
  /\ UNCHANGED <<world, phase, ok, journal, up, condemned, spool, warned>>

\* An object deleted: a file record goes with it, any other record stays.
DeleteOrphan ==
  /\ AtOrphan
  /\ opts.delete /\ Allowed
  /\ Answered(next, "yes")
  /\ condemned' = condemned \cup {next}
  /\ IF TakesRecord(Old)
     THEN Drop(next) /\ UNCHANGED frames
     ELSE /\ frames' = IF Old # None THEN MarkKept(frames) ELSE frames
          /\ UNCHANGED journal
  /\ Consume /\ NextPair(gap)
  /\ UNCHANGED <<world, phase, ok, up, spool, refused, warned>>

QuitOrphan ==
  /\ AtOrphan
  /\ opts.delete /\ Allowed
  /\ Consume /\ Quit
  /\ UNCHANGED <<world, frames, journal, outcome>>

-----------------------------------------------------------------------------
(* The end of the sync, the drain of the cursor, and what comes after.     *)

EndStream ==
  /\ phase = "stream" /\ next = N+1
  /\ phase' = "drain"
  /\ UNCHANGED <<world, next, head, frames, gap, ok, journal, outcome>>

\* A transfer fails, or the run is interrupted: the records not reached yet
\* are no evidence of deletion, so the drain is gated.
SyncStops ==
  /\ phase = "stream"
  /\ phase' = "drain" /\ next' = N+1 /\ gap' = TRUE /\ ok' = FALSE
  /\ UNCHANGED <<world, head, frames, journal, outcome>>

Close ==
  /\ phase = "drain" /\ head = N+1 /\ frames = <<>>
  /\ phase' = IF ok THEN "offer" ELSE "done"
  /\ UNCHANGED <<world, next, head, frames, gap, ok, journal, outcome>>

Pending == {k \in spool : answer[k] = "none" /\ k \notin refused}
FirstPending(k) == k \in Pending /\ \A j \in Pending : k <= j

\* The kind-conflict objects, under the same gate and the same questions.
OfferObject ==
  /\ phase = "offer"
  /\ \E k \in Keys :
       /\ FirstPending(k)
       /\ \/ ~Allowed /\ Refuse(k) /\ UNCHANGED answer
          \/ Allowed /\ (\E a \in {"yes", "no"} : Answered(k, a)) /\ UNCHANGED refused
  /\ UNCHANGED <<world, cursor, journal, up, condemned, spool, warned>>

QuitOffer ==
  /\ phase = "offer" /\ Allowed
  /\ Pending # {}
  /\ Quit
  /\ UNCHANGED <<world, head, frames, journal, outcome>>

\* The confirmed ones are deleted together; a failure ends the run there.
DeleteOffered ==
  /\ phase = "offer" /\ Pending = {}
  /\ LET doomed == {k \in spool : answer[k] = "yes"} IN
     \/ condemned' = condemned \cup doomed /\ UNCHANGED ok
     \/ /\ doomed # {} /\ ok' = FALSE
        /\ \E gone \in SUBSET doomed : condemned' = condemned \cup gone
  /\ phase' = "done"
  /\ UNCHANGED <<world, next, head, frames, gap, journal, up, spool, refused,
                 answer, warned>>

Finished == phase = "done" /\ UNCHANGED vars

Next ==
  \/ KeepFrame \/ RefuseFrame \/ AskFrame \/ QuitFrame
  \/ SkipOutside \/ SkipGated \/ DropStale \/ SkipKept
  \/ OpenFrame \/ AskRecord \/ QuitRecord
  \/ Decide \/ RecordTarget \/ KeepOrphan \/ DeleteOrphan \/ QuitOrphan
  \/ EndStream \/ SyncStops \/ Close
  \/ OfferObject \/ QuitOffer \/ DeleteOffered \/ Finished

Spec == Init /\ [][Next]_vars
-----------------------------------------------------------------------------
(* What the run leaves behind.                                             *)

\* merge_journal: the journal applied to the old manifest.
Merged(k) ==
  CASE jrn[k] = None                          -> rec[k]
    [] jrn[k] # None /\ jrn[k].mark = "drop"     -> None
    [] jrn[k] # None /\ jrn[k].mark = "keep"     -> rec[k]
    [] jrn[k] # None /\ jrn[k].mark \in {"add", "replace"} -> jrn[k].entry

Dropped(k) == jrn[k] # None /\ jrn[k].mark = "drop"
Complete == phase = "done" /\ ok
Unscathed == Complete /\ ~gap

\* The object at k once the run's transfers and deletions are done.
ObjectAfter(k) ==
  IF k \in condemned THEN None ELSE IF k \in up THEN loc[k].data ELSE obj[k]
-----------------------------------------------------------------------------
Outcomes == {"none", "yes", "no"}

\* The variables stay in their types.
TypeOK ==
  /\ WellFormed([rec |-> rec, loc |-> loc, obj |-> obj, blind |-> blind, opts |-> opts])
  /\ phase \in {"stream", "drain", "offer", "done"}
  /\ next \in 1..(N+1) /\ head \in 1..(N+1)
  /\ frames \in Seq([key : DirKeys, kept : BOOLEAN])
  /\ gap \in BOOLEAN /\ ok \in BOOLEAN
  /\ jrn \in [Keys -> Lines \cup {None}]
  /\ tail \in 0..N /\ events \in Nat
  /\ up \subseteq Keys /\ condemned \subseteq Keys /\ spool \subseteq Keys
  /\ refused \subseteq Keys /\ warned \subseteq Keys
  /\ answer \in [Keys -> Outcomes]

\* The merge never rejects the journal (merge_journal raises ManifestError on an
\* add at a recorded path, on any other mark at an unrecorded one, and on a
\* kept or dropped line that is not the old record): whatever stops the run,
\* the cursor and the stream never got out of step.
MergeAccepts ==
  \A k \in Keys : jrn[k] # None =>
    /\ jrn[k].mark = "add" <=> rec[k] = None
    /\ jrn[k].mark \in {"drop", "keep"} => jrn[k].entry = rec[k]

\* Journal lines are written in strictly ascending key order, as iter_journal
\* demands, and the only line ever rewritten is a reserved directory line,
\* whose mark alone is flipped to a drop.
JournalAscends ==
  [][\A k \in Keys : jrn'[k] # jrn[k] =>
       \/ jrn[k] = None /\ tail < k /\ tail' = k
       \/ jrn[k] # None /\ jrn[k].mark = "keep" /\ jrn'[k] = Line("drop", jrn[k].entry)
    ]_vars

\* A path that is there but that the walk could not show loses neither its
\* record nor its object, wherever in the scan the gap was noticed.
HiddenSurvives == \A k \in Hidden : ~Dropped(k) /\ k \notin condemned

\* Once the walk has warned or the sync has stopped, nobody is asked and
\* nothing more is dropped or condemned; what was decided before stands
\* (_PushDeletePlan.allow, the drain of a parked cursor).
GapFreezesDeletes ==
  [][gap \/ ~ok =>
       /\ answer' = answer
       /\ \A k \in Keys : /\ Dropped(k)' => Dropped(k)
                         /\ k \in condemned' => k \in condemned]_vars

\* A file record and its object go together: a record is dropped only when
\* its object is gone or goes too, and an object condemned as an orphan takes
\* its file record along, but never the record of a link or special file.
TravelTogether ==
  \A k \in Keys : rec[k] # None /\ loc[k] = None =>
    IF rec[k].kind = "file"
    THEN /\ Dropped(k) => obj[k] = None \/ k \in condemned
         /\ k \in condemned => Dropped(k)
    ELSE Dropped(k) => obj[k] = None

\* Post-order: a directory record is dropped only when every record beneath
\* it that the walk shows nothing for has been dropped before it.
PostOrder ==
  \A d \in DirKeys : Dropped(d) =>
    \A k \in Beneath(d) : rec[k] # None /\ loc[k] = None => Dropped(k)

\* The same, for every record beneath it: what the documentation promises
\* ("asked only once every record beneath it resolved deleted").
StrictPostOrder ==
  \A d \in DirKeys : Dropped(d) => \A k \in Beneath(d) : rec[k] # None => Dropped(k)

\* Nothing is deleted that --delete did not ask for and that nobody (or
\* --yes) confirmed; only a file record with no object goes unasked.  A path
\* answered n keeps its object and, with nothing local there, its record.
Confirmed ==
  \A k \in Keys :
    /\ k \in condemned => opts.delete /\ answer[k] = "yes"
    /\ Dropped(k) => loc[k] = None
    /\ Dropped(k) /\ (rec[k].kind # "file" \/ obj[k] # None) =>
         opts.delete /\ answer[k] = "yes"

\* A journal without a real event changes nothing, reserved lines included:
\* the push may skip its manifest write.
NoEventNoChange == events = 0 => \A k \in Keys : Merged(k) = rec[k]

\* A sub-path push touches nothing but the named path, what is beneath it and
\* the directories above it: the exact-key object and record of a former
\* file, and every sibling, stay as they are.
SubPathConfined ==
  \A k \in Keys :
    ~Entry /\ ~Named(k) /\ ~(opts.scope = "dir" /\ (k = SubDir \/ Below(SubDir, k))) =>
      Merged(k) = rec[k] /\ k \notin up /\ k \notin condemned

\* A kept candidate is never a silent one: everything --delete could have
\* removed was answered, or counted as refused, or is a directory record with
\* a surviving record beneath it.
CandidatesAccounted ==
  Complete /\ opts.delete =>
    \A k \in Keys :
      \/ loc[k] # None /\ k \notin spool
      \/ ~Judged(k)
      \/ obj[k] = None /\ (rec[k] = None \/ rec[k].kind = "file")
      \/ answer[k] # "none" \/ k \in refused
      \/ k \in DirKeys /\ \E j \in Beneath(k) : loc[j] = None /\ Merged(j) # None

\* After a complete mirror push (no -u, no gap) status has nothing left to
\* show for any path of the walked tree: the push's own comparisons settle
\* exactly the differences compare_to_stat reports.
StatusSettles ==
  Unscathed /\ ~opts.update =>
    \A k \in Keys : Walked(k) /\ loc[k] # None =>
      Merged(k) # None /\ ~StatusShows(Merged(k), loc[k])

\* A second push finds nothing to do: no line to journal, nothing to upload,
\* and no file record left without its object.
SecondPushIdle ==
  Unscathed =>
    \A k \in Keys : Walked(k) =>
      IF loc[k] # None
      THEN LET v == Verdict(Merged(k), loc[k], ObjectAfter(k), opts, FALSE)
           IN  ~v.emit /\ ~v.copy
      ELSE Judged(k) /\ Merged(k) # None /\ Merged(k).kind = "file" =>
             ObjectAfter(k) # None

\* Under -u a record newer than the local side keeps its line, and an object
\* it describes is not overwritten: the newer side wins.
NewerBackupKept ==
  \A k \in Keys :
    (/\ opts.update /\ Walked(k) /\ loc[k] # None /\ rec[k] # None
     /\ OrderedSide(rec[k], loc[k]) = "record"
     /\ obj[k] # None \/ rec[k].kind # "file") =>
      Merged(k) = rec[k] /\ k \notin up /\ k \notin condemned

\* Under -u a difference that stays is never silent: after a complete run a
\* path status still shows has a newer record, or a conflict was warned.
ConflictsWarned ==
  Unscathed /\ opts.update =>
    \A k \in Keys : Walked(k) /\ loc[k] # None =>
      \/ k \in warned
      \/ rec[k] # None /\ OrderedSide(rec[k], loc[k]) = "record"
      \/ Merged(k) # None /\ ~StatusShows(Merged(k), loc[k])

\* A manifest that is published records no file whose object is missing,
\* save where -u let the record of a file win over a local non-file.
RecordsBacked ==
  Unscathed =>
    \A k \in Keys : Judged(k) /\ Merged(k) # None /\ Merged(k).kind = "file" =>
      \/ ObjectAfter(k) # None
      \/ opts.update /\ loc[k] # None /\ loc[k].kind # "file"
-----------------------------------------------------------------------------
(* The inductive invariant behind the theorems of PushJournal_proofs.      *)

\* No line lies ahead of the cursor or of the stream.
Positions ==
  /\ tail < head /\ tail < next
  /\ \A k \in Keys : jrn[k] # None => k <= tail

\* The cursor passes no record before the stream has, and the stream no pair
\* before the cursor has: what the cursor skips over has no pair, and a pair
\* with a record finds the cursor there.
Lockstep ==
  /\ head = N+1 \/ head \in Recorded
  /\ next = N+1 \/ next \in Stream
  /\ \A k \in Recorded : k < head => k < next
  /\ ok => \A k \in Stream : k < next => k < head

\* Whatever the walk has failed to show so far, and a sync that stopped, has
\* closed the gate.
GateClosed ==
  /\ \A k \in Hidden : k <= next => gap
  /\ Running /\ ~ok => gap
  /\ phase # "stream" => next = N+1

\* Every open frame has its own reserved line.
FramesReserved ==
  /\ \A i \in 1..Len(frames) :
       LET d == frames[i].key IN
       /\ d \in Recorded /\ loc[d] = None /\ Judged(d) /\ opts.delete
       /\ jrn[d] = Line("keep", rec[d])
  /\ \A i, j \in 1..Len(frames) : i < j => frames[i].key < frames[j].key

\* A record behind the cursor that survives beneath an open frame is an open
\* frame itself, or has pinned that frame or one opened after it.
Pinned ==
  Running /\ ~gap =>
    \A i \in 1..Len(frames) : \A k \in Recorded :
      Below(frames[i].key, k) /\ k < head /\ loc[k] = None =>
        \/ Dropped(k)
        \/ \E j \in 1..Len(frames) : i < j /\ frames[j].key = k
        \/ \E j \in 1..Len(frames) : i <= j /\ frames[j].kept

\* What a line says of its key.
LineMeans(k, line) ==
  IF line.mark \in {"drop", "keep"}
  THEN k \in Recorded /\ loc[k] = None /\ Judged(k) /\ line.entry = rec[k]
  ELSE /\ InStream(k) /\ loc[k] # None
       /\ line.mark = IF rec[k] = None THEN "add" ELSE "replace"
LinesMean == \A k \in Keys : jrn[k] # None => LineMeans(k, jrn[k])

\* Where the drops, the deletions and the offers come from.
DropsMean ==
  \A k \in Keys : Dropped(k) =>
    /\ k \notin Hidden
    /\ IF rec[k].kind = "file" THEN obj[k] = None \/ k \in condemned ELSE obj[k] = None
    /\ rec[k].kind # "file" \/ obj[k] # None => opts.delete /\ answer[k] = "yes"
CondemnedMean ==
  \A k \in condemned :
    /\ Walked(k) /\ obj[k] # None /\ opts.delete /\ answer[k] = "yes"
    /\ loc[k] = None =>
         k < next /\ k \notin Hidden /\ (TakesRecord(rec[k]) => Dropped(k))
SpoolMeans ==
  /\ \A k \in spool : loc[k] # None /\ obj[k] # None /\ opts.delete /\ Walked(k)
  /\ up \subseteq Stream

\* The no-op decision counts every real line.
EventsCount == events = 0 => \A k \in Keys : jrn[k] # None => jrn[k].mark = "keep"

\* Only the offers after the sync ask about a path that is there, and there
\* are none after a failure or, with a gap, no answers.
OfferMeans ==
  /\ phase = "offer" => ok
  /\ Running \/ gap => \A k \in Keys : loc[k] # None => answer[k] = "none"

IInv ==
  /\ TypeOK /\ Positions /\ Lockstep /\ GateClosed /\ FramesReserved /\ Pinned
  /\ LinesMean /\ DropsMean /\ CondemnedMean /\ SpoolMeans /\ EventsCount /\ OfferMeans
  /\ PostOrder
=============================================================================
