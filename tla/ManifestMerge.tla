---------------------------- MODULE ManifestMerge ----------------------------
(***************************************************************************)
(* How a push rewrites its manifest (manifest.merge_journal, called by     *)
(* syncops.publish_journal_manifest): the old manifest and the journal are *)
(* read one line at a time and joined by key into a new manifest, which is *)
(* validated and put in the old one's place.  What the emitter of the      *)
(* journal does is PushJournal.  A push --delete of a sub-path that is     *)
(* gone writes a journal of its own (drop_subtree_records).                *)
(*                                                                         *)
(* A path p has a leaf key, and as a directory a key of its own, First[p], *)
(* which is followed by all that is beneath it, up to Last[p]; what sorts  *)
(* between the two are siblings, as "a-" between "a" and "a/".             *)
(***************************************************************************)
EXTENDS Naturals, Sequences

CONSTANTS
  Keys, DirKeys, Root, \* the sort keys, those of directories, that of "."
  First, Last,         \* where what is beneath a path would sort, by leaf key
  Entries,             \* the records' texts
  None,
  Files                \* what a rewrite may start from

LeafKeys   == Keys \ DirKeys
Beneath(p) == First[p]..Last[p]

ASSUME KeysAssumption ==
  /\ Keys \subseteq Nat /\ DirKeys \subseteq Keys /\ Root \in DirKeys
  /\ \A k \in Keys : Root <= k
  /\ First \in [LeafKeys -> Nat] /\ Last \in [LeafKeys -> Nat]
  /\ \A p \in LeafKeys : p < First[p] /\ First[p] <= Last[p]
  \* Of two paths one is beneath the other, or they sort apart.
  /\ \A p, q \in LeafKeys : p < q =>
       \/ Last[q] < First[p] \/ Last[p] < q
       \/ q \in Beneath(p) /\ Last[q] <= Last[p]

Records == [key: Keys, entry: Entries]
Marks   == {"add", "replace", "drop", "keep"}
Events  == [key: Keys, mark: Marks \cup {"bad"}, entry: Entries]

Ascends(s) == \A m, n \in DOMAIN s : m < n => s[m].key < s[n].key
Lines(s)   == {s[n] : n \in DOMAIN s}

\* validate_manifest: the root's record first, and every key after the one before.
Valid(s) == s # <<>> /\ s[1].key = Root /\ Ascends(s)

\* The old manifest was validated when it was downloaded; <<>> is none.  sub is
\* the leaf key of the sub-path that is gone; its journal is still to be written.
ASSUME FilesAssumption ==
  /\ \A f \in Files :
       /\ f.old \in Seq(Records) /\ (f.old = <<>> \/ Valid(f.old))
       /\ f.journal \in Seq(Events)
       /\ f.sub = None \/ (f.sub \in LeafKeys /\ f.journal = <<>>)
  /\ None \notin Keys

VARIABLES
  old,      \* the old manifest, as downloaded
  journal,  \* the journal; a mark "bad" is a line that does not parse
  sub,      \* the sub-path whose records go, or None
  phase,    \* "scan", "merge", "check", "put", "done"
  i, j,     \* the lines of the two streams that are held next
  out,      \* the new manifest, in a temporary file
  blockers, \* the leaves written whose descendants may still come
  warned,   \* those that were warned about
  manifest, \* the manifest on S3
  result    \* how the rewrite ended

vars == <<old, journal, sub, phase, i, j, out, blockers, warned, manifest, result>>
input == <<old, sub>>
written == <<out, blockers, warned>>
-----------------------------------------------------------------------------
(* What the merge promises.                                                *)

Payload(e) == [key |-> e.key, entry |-> e.entry]

\* A line agrees with the old manifest: an add has no record there, any other
\* mark has, and a kept or dropped line is that record.
Agrees(e) ==
  /\ e.mark \in Marks
  /\ e.mark = "add" => \A r \in Lines(old) : r.key # e.key
  /\ e.mark # "add" => \E r \in Lines(old) :
                         r.key = e.key /\ (e.mark # "replace" => r.entry = e.entry)
Sound == Ascends(journal) /\ \A e \in Lines(journal) : Agrees(e)

\* The journal applied to the old manifest, as sets of records.
Merged(olds, events) ==
  {r \in olds : \A e \in events : e.key = r.key => e.mark = "keep"}
  \cup {Payload(e) : e \in {x \in events : x.mark \in {"add", "replace"}}}
-----------------------------------------------------------------------------
(* The streams.                                                            *)

\* Mutant of Legible: no line is compared with the one before it.
LegibleInAnyOrder(n) == n <= Len(journal) => journal[n].mark \in Marks
\* iter_journal raises on reading a line it cannot parse, or one out of order.
Legible(n) ==
  n <= Len(journal) =>
    journal[n].mark \in Marks /\ (n > 1 => journal[n-1].key < journal[n].key)
Held == phase = "merge" /\ Legible(j)

\* merge_join: the next key is of one stream, or of both.
OldFirst   == i <= Len(old) /\ (j <= Len(journal) => old[i].key < journal[j].key)
EventFirst == j <= Len(journal) /\ (i <= Len(old) => journal[j].key < old[i].key)
Paired     == i <= Len(old) /\ j <= Len(journal) /\ old[i].key = journal[j].key
Marked(mark)  == journal[j].mark = mark
SameRecord == journal[j].entry = old[i].entry

Writes ==
  \/ OldFirst
  \/ EventFirst /\ Marked("add")
  \/ Paired /\ (Marked("replace") \/ (Marked("keep") /\ SameRecord))
NextKey == IF OldFirst THEN old[i].key ELSE journal[j].key

\* Mutant of AtOrUnder: only what is beneath the path.
Under(p, k) == k \in Beneath(p)
AtOrUnder(p, k) == k = p \/ k \in Beneath(p)

\* A journal that drops all that is recorded at the sub-path and beneath it.
ScanRecord ==
  /\ phase = "scan" /\ i <= Len(old)
  /\ journal' = IF AtOrUnder(sub, old[i].key)
                THEN Append(journal, [key |-> old[i].key, mark |-> "drop", entry |-> old[i].entry])
                ELSE journal
  /\ i' = i + 1
  /\ UNCHANGED <<input, phase, j, written, manifest, result>>

EndScan ==
  /\ phase = "scan" /\ i > Len(old)
  /\ phase' = IF journal = <<>> THEN "done" ELSE "merge"
  /\ result' = IF journal = <<>> THEN "unchanged" ELSE "none"
  /\ i' = 1
  /\ UNCHANGED <<input, journal, j, written, manifest>>

Top == blockers[Len(blockers)]
\* Mutant of Past: a sibling that sorts before the range ends the wait for it.
PastUnlessBeneath(p, k) == k \notin Beneath(p)
Past(p, k) == Last[p] < k

\* _RestorabilityWarner.emit: blockers whose range is over are popped; a record
\* under the one on top makes it warn, once; a leaf becomes a blocker itself.
PopBlocker ==
  /\ Held /\ Writes /\ blockers # <<>> /\ Past(Top, NextKey)
  /\ blockers' = SubSeq(blockers, 1, Len(blockers) - 1)
  /\ UNCHANGED <<input, journal, phase, i, j, out, warned, manifest, result>>

Emit(r) ==
  /\ blockers # <<>> => ~Past(Top, r.key)
  /\ out' = Append(out, r)
  /\ warned' = IF blockers # <<>> /\ r.key \in Beneath(Top) THEN warned \cup {Top} ELSE warned
  /\ blockers' = IF r.key \in LeafKeys THEN Append(blockers, r.key) ELSE blockers

Advance(a, b) ==
  /\ i' = i + a /\ j' = j + b
  /\ UNCHANGED <<input, journal, phase, manifest, result>>

\* Mutant of KeepEvent: a line without a change is skipped like a drop.
KeepAsDrop == Held /\ Paired /\ Marked("keep") /\ SameRecord /\ Advance(1, 1) /\ UNCHANGED written
CopyOld      == Held /\ OldFirst /\ Emit(old[i]) /\ Advance(1, 0)
AddEvent     == Held /\ EventFirst /\ Marked("add") /\ Emit(Payload(journal[j])) /\ Advance(0, 1)
ReplaceEvent == Held /\ Paired /\ Marked("replace") /\ Emit(Payload(journal[j])) /\ Advance(1, 1)
KeepEvent    == Held /\ Paired /\ Marked("keep") /\ SameRecord /\ Emit(old[i]) /\ Advance(1, 1)
DropEvent ==
  Held /\ Paired /\ Marked("drop") /\ SameRecord /\ Advance(1, 1) /\ UNCHANGED written

Ends(how) ==
  /\ phase' = "done" /\ result' = how
  /\ UNCHANGED <<input, journal, i, j, written>>

\* ManifestError: a line that cannot be read, or does not agree.
Refuse ==
  /\ phase = "merge"
  /\ \/ ~Legible(j)
     \/ Legible(j) /\ EventFirst /\ ~Marked("add")
     \/ Legible(j) /\ Paired /\ (Marked("add") \/ (~Marked("replace") /\ ~SameRecord))
  /\ Ends("refused") /\ UNCHANGED manifest

EndMerge ==
  /\ phase = "merge" /\ i > Len(old) /\ j > Len(journal)
  /\ phase' = "check"
  /\ UNCHANGED <<input, journal, i, j, written, manifest, result>>

\* _validate_before_publish, and the upload.
Check ==
  /\ phase = "check" /\ Valid(out)
  /\ phase' = "put"
  /\ UNCHANGED <<input, journal, i, j, written, manifest, result>>
Reject   == phase = "check" /\ ~Valid(out) /\ Ends("invalid") /\ UNCHANGED manifest
Put      == phase = "put" /\ Ends("published") /\ manifest' = out
PutFails == phase = "put" /\ Ends("failed") /\ UNCHANGED manifest
Finished == phase = "done" /\ UNCHANGED vars

Init ==
  \E f \in Files :
    /\ old = f.old /\ journal = f.journal /\ sub = f.sub /\ manifest = f.old
    /\ phase = IF f.sub = None THEN "merge" ELSE "scan"
    /\ i = 1 /\ j = 1 /\ out = <<>> /\ blockers = <<>> /\ warned = {} /\ result = "none"

Next ==
  \/ ScanRecord \/ EndScan \/ PopBlocker
  \/ CopyOld \/ AddEvent \/ ReplaceEvent \/ KeepEvent \/ DropEvent \/ Refuse
  \/ EndMerge \/ Check \/ Reject \/ Put \/ PutFails \/ Finished

Spec == Init /\ [][Next]_vars
-----------------------------------------------------------------------------
(* The progress of the join.                                               *)

Results == {"none", "refused", "invalid", "failed", "published", "unchanged"}
TypeOK ==
  /\ old \in Seq(Records) /\ journal \in Seq(Events) /\ sub \in LeafKeys \cup {None}
  /\ phase \in {"scan", "merge", "check", "put", "done"} /\ result \in Results
  /\ i \in 1..(Len(old) + 1) /\ j \in 1..(Len(journal) + 1)
  /\ out \in Seq(Records) /\ manifest \in Seq(Records)
  /\ blockers \in Seq(LeafKeys) /\ warned \subseteq LeafKeys

\* Whatever has been read sorts before whatever is held.
Passed ==
  /\ \A n \in 1..(j-1) : Legible(n) /\ (i <= Len(old) => journal[n].key < old[i].key)
  /\ \A m, n \in 1..(j-1) : m < n => journal[m].key < journal[n].key
  /\ j <= Len(journal) /\ Legible(j) =>
       /\ \A m \in 1..(i-1) : old[m].key < journal[j].key
       /\ \A n \in 1..(j-1) : journal[n].key < journal[j].key

\* What has been written is the merge of what has been read, in order.
Joined ==
  /\ Ascends(out)
  /\ Lines(out) = Merged({old[m] : m \in 1..(i-1)}, {journal[n] : n \in 1..(j-1)})
  /\ \A n \in 1..(j-1) : Agrees(journal[n])

\* A leaf that was written blocks, or its range is over.
Blocking ==
  /\ \A n \in DOMAIN blockers : \E m \in DOMAIN out : out[m].key = blockers[n]
  /\ \A m, n \in DOMAIN blockers : m < n =>
       /\ blockers[m] < blockers[n]
       /\ blockers[n] \in Beneath(blockers[m]) \/ Last[blockers[n]] < First[blockers[m]]
  /\ \A r \in Lines(out) : r.key \in LeafKeys =>
       \/ \E n \in DOMAIN blockers : blockers[n] = r.key
       \/ /\ i <= Len(old) => Past(r.key, old[i].key)
          /\ j <= Len(journal) /\ Legible(j) => Past(r.key, journal[j].key)

\* The journal of a sub-path that is gone drops what is recorded there, so far.
Dropping ==
  sub # None =>
    /\ Ascends(journal)
    /\ Lines(journal) =
         {[key |-> old[m].key, mark |-> "drop", entry |-> old[m].entry] :
            m \in {n \in DOMAIN old : AtOrUnder(sub, old[n].key) /\ (phase = "scan" => n < i)}}

Ending ==
  /\ phase = "done" <=> result # "none"
  /\ phase = "scan" => sub # None /\ j = 1 /\ out = <<>> /\ blockers = <<>> /\ warned = {}
  /\ phase \in {"check", "put"} \/ result \in {"invalid", "failed", "published"} =>
       i > Len(old) /\ j > Len(journal)
  /\ phase = "put" \/ result \in {"failed", "published"} => Valid(out)
  /\ result = "invalid" => ~Valid(out)
  /\ result = "refused" => ~Sound
  /\ result = "unchanged" <=> phase # "scan" /\ sub # None /\ journal = <<>>
  /\ manifest = IF result = "published" THEN out ELSE old
-----------------------------------------------------------------------------
(* Properties.                                                             *)

\* The manifest that a push publishes is in key order and holds, of each key, what
\* the journal says of it or else the old record; a rewrite that ends otherwise
\* leaves the old manifest.
PublishesMerge ==
  IF result = "published"
  THEN Valid(manifest) /\ Lines(manifest) = Merged(Lines(old), Lines(journal))
  ELSE manifest = old

\* A rewrite raises ManifestError exactly when a line of the journal cannot be
\* read, is out of order or disagrees with the old manifest; and is refused by the
\* validation only when the root's record would be gone.
RefusesRightly ==
  result \in {"refused", "invalid", "failed", "published"} =>
    /\ result = "refused" <=> ~Sound
    /\ result = "invalid" => \A r \in Merged(Lines(old), Lines(journal)) : r.key # Root

\* The warning that pull cannot restore what is kept beneath a leaf is given for
\* just the leaves of the new manifest that have a record beneath them.
WarnsRight ==
  warned = {p \in LeafKeys : /\ \E r \in Lines(out) : r.key = p
                             /\ \E r \in Lines(out) : r.key \in Beneath(p)}

\* A push --delete of a sub-path that is gone takes every record at the path and
\* beneath it, of either kind, and no other, and is never refused.
SubtreeDropped ==
  sub # None =>
    /\ result \notin {"refused", "invalid"}
    /\ result \in {"published", "unchanged"} =>
         Lines(manifest) = {r \in Lines(old) : r.key # sub /\ r.key \notin Beneath(sub)}

\* Together: the inductive invariant.
IInv ==
  /\ TypeOK /\ (old = <<>> \/ Valid(old))
  /\ phase # "scan" => Passed /\ Joined /\ Blocking
  /\ WarnsRight /\ Dropping /\ Ending
=============================================================================
