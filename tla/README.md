# s3bak, specified

s3bak backs up local trees to S3: the data as objects, and beside them one
*manifest* per entry, a sorted list of records (kind, size or link target,
mtime, mode) from which a pull restores what objects cannot carry. This
directory holds TLA+ modules of the program, TLC configurations that check
them on small instances, and theorems about them that TLAPS checks for every
instance. References such as `syncops.py:679` are to `src/s3bak/`.

## Inventory

The program, by component: its state, what it does, what is hard about it, and
what makes it correct.

| Component | State | Operations | Hard behaviour | Correct when |
| --- | --- | --- | --- | --- |
| Push journal (`syncops.PushJournal`) | cursor over the old manifest, open directory frames, journal file, spool of kind conflicts | decide a pair, skip a record over, resolve a frame, drain | two ordered streams in lockstep, post-order decisions over a preorder stream, a stop in the middle | the merge accepts the journal; nothing is dropped that is not known to be gone |
| Push verdict (`syncops`, `compare`) | none | what to do about one pair, with and without `-u` and `--checksum` | windows, missing times, platforms that report less, a record that does not describe its object | status has nothing left to show, the next push is idle, `-u` never overwrites the newer side silently |
| Delete plan (`commands._PushDeletePlan`, `confirm`) | refusals, the sticky answer, the abort flag | gate, ask, quit | a gap seen late, four ways to answer | nothing deleted unasked, nothing kept silently |
| Manifest (`manifest`) | the file, the heads of two streams, the stack of blockers | parse, validate, iterate, merge, merge-join, warn | strict order, fail-closed merge, one line of look-ahead, siblings between a path's two keys | the merged manifest is the old one with the journal applied; only wrong journals are refused |
| Push run (`commands.cmd_push`, `store`) | objects, manifest, transfers in flight | sync, offers, publish, hooks | transfers finish after their decision, batches fail in part, kills | *fail old*: no manifest before what it describes |
| Sub-path push (`commands._push_sub`) | as the push | one directory, file or link | what is not listed looks deleted | nothing outside the named path changes |
| Single-file push, kind migration (`commands`) | one object, one record | compare, upload, sweep; delete the old kind first | a stop between deletion and upload | the next push finds its way |
| Local walk, excludes (`localwalk`, `excludes`) | `scan_incomplete` | ordered walk, per-path exclusion, provable pruning | a path that is there but not shown | every gap is noticed no later than the decisions it taints |
| Pull of a directory (`commands.cmd_pull`, `restore`, the pull filters of `syncops`) | local tree, decision spool, directory frames, deferred links, prepped modes | vet links, prep, sync, apply metadata | modes and times of directories that are being written into; what the sync wrote looks new to the apply; objects that are gone | a pull that ends well leaves what status calls clean, or has said why not; `-u` keeps the newer side |
| Pull of one path (`commands.cmd_pull`, `restore._place_symlink`) | the stage, the old root in it, the link's neighbours | verdict, download, swap, place a link | a stop between two renames, an object that vanishes | the old thing is in its place or kept until the new one stands |
| `pull --delete` (`commands._delete_extras`, `restore.remove_extras`) | open directories, refusals | ask, remove, apply again | names that fold, directories in a recorded file's place | only what no record vouches for goes, and only after a yes |
| Status, diff, list, verify (`commands`, `compare`) | none | read-only comparisons | agree with what push and pull decide | they show what a push would change |
| Entry runner, command line (`cli`) | borrowed stores, exit statuses, the interrupt flag | entries on a pool, serial when asking, exchange | q, closed pipes, Ctrl-C once and twice, failures in any order | no client is shared, q is final, the exit status tells the truth |
| Console, questions (`console`, `confirm`) | output lock, sticky answers, abort flag | print, ask | a question while transfers print and a batch is waited for | nothing waits for ever; nothing is deleted unasked |
| Configuration (`config`) | none | parse, validate | group expansion | - |

The push is where the components meet. One ascending stream of *pairs* (the
local walk merged with the S3 listing) drives the journal; the journal moves
its own cursor over the old manifest so that every record is passed exactly
when its key is; what it decides about a pair is the verdict; every candidate
for deletion passes the delete plan's gate and question; the sync engine
carries out copies and deletions; the merge of the journal into the old
manifest is published last.

## Modules

| Module | What it is |
| --- | --- |
| `Compare` | a record, an item, and the predicates that relate them (`compare.py`, `manifest.py`) |
| `PushVerdict` | what a push decides about one pair (the lanes of `PushJournal`) |
| `PushJournal` | the scan: cursor, stream, frames, gate, answers, journal, drain, offers |
| `PushJournal_proofs` | the inductive invariant of `PushJournal`, and the properties that follow from it, proved |
| `PushDecided_proofs` | the converse invariant (nothing passed over was left undecided) and what a complete push settles, proved |
| `PushRun` | push after push of one entry, as S3 sees it: transfers, cuts, re-runs, kind changes, the single-file entry |
| `PushRun_proofs` | what holds over any number of runs of `PushRun`, what a run that ends well has settled, and when it may publish, proved |
| `ManifestMerge` | how the journal and the old manifest become the new one: the streaming join, its cross-checks and warnings, the validation, the upload |
| `ManifestMerge_proofs` | that the streaming merge is the merge of the two as sets, proved |
| `PullVerdict` | what a pull decides about one path: the sync's lanes, the apply, the single file (`syncops`, `restore`, `commands`) |
| `Pull` | a pull into a directory: gate, vetting, prep, sync and spool, downloads, apply, links placed last, extras, cuts |
| `PullRoot` | a pull of one path: stage, swap, link placing, and a stop anywhere |
| `Pull_proofs` | the tree lemmas and the inductive invariants of `Pull`, proved |
| `PullRestored_proofs` | what a pull into a directory that ends well has restored, proved |
| `Replace` | the abstract replacement of one thing by another, which `PullRoot` implements |
| `PullRoot_proofs` | the inductive invariants of `PullRoot` and the refinement, proved |
| `EntryRuns` | one command over several entries: runner, stores, questions, delete batches, q, Ctrl-C, exit status |
| `EntryRuns_proofs` | the inductive invariants of `EntryRuns`, proved |
| `MCPushTree`, `MCPushData`, `MCPushRun`, `MCManifestMerge`, `MCPull`, `MCPullRoot`, `MCEntryRuns` | instances for TLC |

`Compare` and `PushVerdict` are shared: `PushJournal` looks into one scan, with
its cursors and frames; `PushRun` takes a step per key of a scan and looks at
what a run leaves for the next one. The two are not related by a refinement.
`PullVerdict` extends `Compare` too, so push, pull and status share one set of
predicates here as they do in the code; `Pull` and `PullRoot` extend
`PullVerdict`. `EntryRuns` sees an entry from outside: what its pull or push
does between two deletions is one step there.

### `PushJournal`

Keys are `1..N` in sort order; a directory's key ends in a slash, so the keys
beneath it are the interval up to `LastBeneath`. A *world* is what a push may
find: per key a record, a local item, an object, and whether the path is
blind. Blind with an item means that opening it will fail
(`_probe_readable`, a link that races away); blind without an item means that
something is there which the walk cannot show. The walk may notice the second
kind at any moment from the start up to the pair that follows the path
(`Looked`): it reads ahead by pages, never behind. An excluded path is simply
one with no local item. The world does not change during a push; the
documentation rules out a tree that is modified while it is backed up and two
commands at once (docs/overview.md, *Scope*).

| Action | Code |
| --- | --- |
| `KeepFrame`, `RefuseFrame`, `AskFrame`, `QuitFrame` | `_pop_frames`, `_resolve_frame` with each outcome of the question |
| `SkipOutside`, `SkipGated`, `DropStale`, `SkipKept`, `OpenFrame`, `AskRecord`, `QuitRecord` | the branches of `_skip_over` |
| `Decide` | `_decide_update` and `_decide_create`, the whole pair: verdict, journal line, upload, gap, warning, spool |
| `KeepOrphan`, `DeleteOrphan`, `QuitOrphan` | `_decide_orphan` |
| `RecordTarget` | `record_target` for a named file or link |
| `EndStream`, `SyncStops`, `Close` | the end of `sync_up`, an error or an interrupt in it, `close` |
| `OfferObject`, `QuitOffer`, `DeleteOffered` | `_delete_conflict_objects` |

`Merged` is what `merge_journal` makes of the journal. `condemned` is what the
sync was told to delete. A run that answers q, or whose sync stops, publishes
nothing; `ok` says so.

The journal's four markers are named `add`, `replace`, `drop` and `keep`.

### `ManifestMerge`

`PushJournal` takes the merge for what its documentation says it is, a function
of the old manifest and the journal (`Merged`), and proves that the journal is
one that the merge accepts (`MergeAccepts`). `ManifestMerge` is the merge itself:
two streams, read a line at a time.

| Action | Code |
| --- | --- |
| `ScanRecord`, `EndScan` | `drop_subtree_records`: the journal of a sub-path that is gone |
| `CopyOld`, `AddEvent`, `ReplaceEvent`, `KeepEvent`, `DropEvent` | one turn of `merge_join` and of the loop of `merge_journal`, with `emit` |
| `PopBlocker` | one turn of the loop in `_RestorabilityWarner.emit` |
| `Refuse` | `ManifestError` from `iter_journal` or from a cross-check |
| `EndMerge`, `Check`, `Reject`, `Put`, `PutFails`, `Finished` | the end of the streams, `_validate_before_publish`, `put_file`, the end |

`iter_journal` raises while the join looks ahead, so a line that cannot be read
ends the merge before the records in front of it are copied (`Held`). A path has
two keys, `p` as a leaf and `First[p]` as a directory; what lies beneath it sorts
from `First[p]` to `Last[p]`, and siblings such as `a-` sort between. The journal
is any sequence of lines, as the merge is there to refuse the wrong ones.

### `PushRun`

An entry has its own key (`Own`) and `N` leaves. `run` holds the fields of the
push that is running. An upload or a deletion that was decided is in `up` or
`del` until it lands (`Put`, `Delete`) or fails (`Fail`). A failure is noticed
where the code looks at a return code: after the sync, and after each later
round of deletions. `Cut` stops a run anywhere, by an error, `Ctrl-C`, a q or a
kill; any part of what was under way lands.

| Action | Code |
| --- | --- |
| `Begin`, `Migrated` | the start of `cmd_push` with `_migrate_entry_kind` |
| `ScanItem`, `ScanNothing` | `PushJournal.decide` for one key, with the record beneath it |
| `Put`, `Delete`, `Fail` | what the sync and `delete_objects` do on their threads |
| `Synced`, `OfferOwn` | the return of `sync_up`, then `_delete_conflict_objects`, then `_delete_exact_root_object` |
| `CompareFile`, `Sweep` | `_single_file_compare` and the upload, `_delete_file_entry_strays` |
| `Publish`, `Finish` | `publish_journal_manifest` or `upload_manifest`, and the end |
| `EditLeaf`, `EditRoot`, `MoveLeafBack`, `MoveRootBack` | the user, between runs |

Every edit takes a new mtime, and a moved item keeps its own. An edit that
keeps both size and mtime is outside the default comparison by design
(docs/sync.md), and so is an old version put back, with its old time, over an
upload of the same size that was cut off. The root's own record is left out:
it makes the code publish more often, never less. One fact outlives a run that
no file holds, `agreed`: the keys whose deletion the user agreed to in this
run, or in an earlier one that carried it out and was cut off before its
manifest.

### `Pull`

Paths form a tree under `Root`. The manifest and the merge-joins are sorted by
key, and a directory's key ends in a slash, so a path has a place as a leaf
(`LeafKey`) and one as a directory (`DirKey`): a record and what stands in its
place need not meet in the join. `Twin` names the sibling a folding filesystem
confuses with a path; twins have nothing beneath them, so that names fold at the
ends of the tree only. The local tree changes as the program changes it, times
included: an entry made or removed stamps its parent (`Put`, `Removed`). A link
or leaf in the place of a recorded directory is removed in one step and the
directory made in another, with failures and cuts in between. (`_place_symlink`
sets aside what it replaces and puts it back, so that `Place` is one step; what
goes on within is `PullRoot`'s.)

| Action | Code |
| --- | --- |
| `Start` | `_manifest_restore_conflict`, `_manifest_matches_local` and the gate of `cmd_pull` |
| `Vet`, `Make` | one link in `prepare_dir_conflicts`: removed; the directory in its place made |
| `Prep` | `windows_collect_writable_prep`, then the destination the sync makes |
| `Decide` | one key in the sync: the exclude lanes, `RestoreFilter` or `UpdateFilter`, and what is spooled |
| `Land` | a download lands or fails, on its own thread |
| `Synced` | the return of `download_from_s3` |
| `PopFrame`, `ClearConflict`, `Apply`, `SkipExcluded`, `ApplyFails`, `Streamed` | `_pop_dir_frames` and `_apply_record` over the merge-join of `apply_manifest`; `ClearConflict` is the removal of what stands in a recorded directory's place |
| `Place`, `Resettle`, `Applied` | its deferred links, `post_symlink_dirs`, its end |
| `Prune`, `CloseExtra`, `Pruned` | `remove_extras` over the items of `_delete_extras`; `_mirror_extras` |
| `Cut`, `Again` | Ctrl-C or a kill, and the next pull |

The decision spool is a sequence of lines in key order and `cur` the cursor
that reads it beside the records. Whether a directory existed when
`UpdateFilter._download` looked depends on which downloads had landed by then,
so `Decide` and `Land` interleave.

### `PullRoot`

One path and one record. The old root may be at the path (`out`), in the stage
(`old`), beside a link that replaces it (`aside`), or left behind by a pull
that was killed (`left`). `by` marks whose item stands somewhere. A directory
is one item here.

| Action | Code |
| --- | --- |
| `Gate`, `MakeStage`, `Judge`, `Prep` | `cmd_pull` to the download; `_single_file_pull_verdict` |
| `GetObject` | `download_from_s3` into the stage or over the file |
| `SwapOut`, `SwapIn`, `SwapFails` | the two renames and the rollback |
| `Apply`, `StampFails` | `apply_manifest` for the one record |
| `LinkAside`, `Link`, `LinkUnstamped`, `LinkFails`, `LinkRetire` | `_place_symlink` |
| `Ends`, `Raised`, `Fails` | the returns, the `except BaseException`, the outer `finally` |
| `Vanish`, `Kill`, `Again` | another client deletes the object; a kill; the next pull |

A mishap may strike before, between and after the steps of one `os.replace`, so
`SwapFails` and `LinkFails` choose whether the rename had landed.

### `EntryRuns`

| Action | Code |
| --- | --- |
| `Start`, `Finish`, `Fail`, `Leave` | a task of `run_entries`, its `run_one`, its store |
| `Decide`, `Ask`, `Answer`, `Quit` | `DeleteConfirmer.confirm`, `Console.prompt` |
| `Send`, `Land`, `Report` | `S3Deleter` as `store.delete_objects` uses it: a batch is sent once the one before has been reported; its lines wait for the console |
| `Warn` | `console.warn` on a transfer thread |
| `Collect`, `NextHalf`, `Return`, `Exit` | the loop of `run_entries`, the two halves of exchange, `run` |
| `Interrupt`, `ExitNow` | `_on_sigint` |

A deletion of a pull happens when it is confirmed; a push's goes through the
batches. The output lock is modelled where it is held across steps, by a
question; a single write is one step.

### Properties, and where they are checked

| Property | Says | Run |
| --- | --- | --- |
| `MergeAccepts` | whatever stops the run, the merge accepts the journal | push_tree, proved |
| `JournalAscends` | lines ascend; only a reserved line is rewritten, into a drop | push_tree, proved |
| `HiddenSurvives` | a path the walk could not show keeps record and object | push_tree, proved |
| `GapFreezesDeletes` | after a gap or a stop, no question, no drop, no deletion | push_tree, proved |
| `TravelTogether` | a file record goes exactly with its object | push_tree, proved |
| `PostOrder` | a directory record goes after all that is gone beneath it | push_tree, proved |
| `Confirmed` | nothing is deleted that was not asked for and confirmed | push_tree, proved |
| `NoEventNoChange` | a journal without an event changes nothing | push_tree, proved |
| `SubPathConfined` | a sub-path push stays inside the named path and its ancestors | push_tree, proved |
| `NewerBackupKept` | `-u` keeps a newer record and the object it describes | push_data, proved |
| `CandidatesAccounted` | what `--delete` keeps was answered, counted, or holds survivors | push_tree, proved |
| `RecordsBacked` | the published manifest records no file without an object | push_tree, proved |
| `StatusSettles` | after a complete mirror push status shows nothing | push_data, proved |
| `SecondPushIdle` | a second push has nothing to do | push_data, proved |
| `ConflictsWarned` | under `-u` a difference that stays was warned about, or the record is newer | push_data, proved |
| `IInv` | the inductive invariant | push_tree, proved |
| `PublishesMerge` | a published manifest is the old one with the journal applied, as sets of records, in key order; otherwise the old one stands | manifest_merge, proved |
| `RefusesRightly` | the merge refuses just the journals that are wrong, and the validation just a result without a root | manifest_merge, proved |
| `WarnsRight` | a warning for just the leaves with a record beneath them | manifest_merge, proved |
| `SubtreeDropped` | a gone sub-path loses all its records and no other, and is never refused | manifest_merge, proved |
| `FailOld` | at any moment, every file in the published manifest has its object, unless its deletion was agreed to | push_run, proved |
| `PublishedLast` | a manifest changes only when all that it describes, and all that it drops, is done | push_run, proved |
| `ConsentedLosses` | over any number of cut runs, no record leaves the manifest without a yes | push_run, proved |
| `RunSettles` | a push that sees everything and ends well settles all that earlier runs left; with `--delete --yes` the backup is the tree | push_run, proved |
| `Converges` | once edits and mishaps stop, repeated pushes end in a backup that is the tree | push_run |
| `Restored` | a pull that ends well leaves each record as status would have it, or has warned, or under `-u` has kept a side that is not older | pull_tree, proved |
| `RestoredOnWindows` | the same on Windows, and every prepped mode is the original one again, or the recorded one as far as status tells | pull_windows, proved |
| `LossesExplained` | what a pull replaces or removes has a record or an object in its place, or was an extra nothing vouches for, and asked about; a link or leaf in a recorded directory's place may be gone with nothing there only until the directory is made, or where the pull failed or was cut by then | pull_tree, proved |
| `StaleUntouched` | a file whose record has no object keeps content, time and mode | pull_tree, proved |
| `NewerLeafKept` | `-u` leaves a newer file, link or special file alone where one is recorded | pull_tree, proved |
| `TypeOK` (of `Pull`) | what stands in a directory has the directory; open frames and open extras nest; no mode is owed at the end | pull_tree, proved |
| `MirrorComplete` | `--delete --yes` that ends well leaves nothing it should have removed | pull_tree, proved |
| `Replaces` | the old item is in its place or kept whole until the new one stands | pull_root, proved |
| `FailedKeepsRoot` | a failed, interrupted or killed pull does not cost the root it was replacing, after the swap either | pull_root, proved |
| `RootRestored` | a pull that ends well and silently leaves the path as recorded, whatever was interrupted before | pull_root, proved |
| `LeftAlone` | what is warned about and kept, and under `-u` what is newer, keeps content, time and mode | pull_root, proved |
| `IInv` (of `EntryRuns`) | no two running entries share a client, only the main thread asks, nothing is deleted that was not confirmed | entry_runs, proved |
| `ExitTells` | the exit status says what happened, in the configured order and not in that of completion | entry_runs, proved |
| `AbortIsFinal` | after a q no entry starts, nothing is decided, confirmed or sent, and no push follows the pull | entry_runs, proved |
| `CommandEnds` | the command comes to an end | entry_runs |

What a run would only repeat is proved and not listed with it: the types of
`PushJournal` (part of its `IInv`) and of `PushRun`, and the inductive invariants
of `PullRoot` and `ManifestMerge`, whose consequences the runs check. Each holds in
its run when it is added to the configuration.

`RecordsBacked` has one exception, which docs/storage.md describes: under
`-u` a file's record may win over a local link or special file while the
object is missing.

### Disagreements with the documentation

`push_rerun` is expected to fail. docs/sync.md says of any interrupted push
that the re-run "uploads whatever the manifest does not know and writes the
manifest that records it". Under `-u` it does not. When a `push -u` is cut off
after it uploaded a file whose size changed and before it published, the
object's size is no longer the recorded one, and `push -u` takes that for a
foreign write: it warns of a conflict, and does so on every later run, until a
push without `-u` records the file. docs/recovery.md promises convergence of
a *plain* push only, which is what `RunSettles` confirms.

`push_excluded` is expected to fail. docs/sync.md says that a directory record
is asked about "only once every record beneath it resolved deleted", and that
"a leftover excluded directory record follows the post-order rule above". Only
skip-overs and orphans pin an open frame. When a directory was recorded, is
then excluded, and a path beneath it is re-included, the walk shows the child
but not the directory: the child's pair keeps or refreshes the child's record
without pinning, and the directory record is asked about, and dropped on a
yes, while the child's record stays. `PostOrder` is the property the code has:
it speaks of the records beneath that the walk shows nothing for.

`pull_newer` is expected to fail. The manual says without restriction that
`pull -u` "restores only the files whose record is newer than the local copy,
and leaves a newer local file alone in full"
(`docs/manual/05-command-reference.md:451`). Where the manifest records a
directory, `-u` is not asked: `_apply_record` (`restore.py:730`) removes a file
or a special file that stands there, and `prepare_dir_conflicts` a link, however
new. `NewerLeafKept` is what the code has: it speaks of the places where a leaf
is recorded. (A second exception is documented in the code: a newer file that
cannot be read is overwritten.)

`pull_folded` is expected to fail. docs/sync.md says of a record whose object is
gone that "the local path is left exactly as it is, its metadata included",
because stamping it would hide a diverged copy. The sync's delete lane knows such
a record by the spelling of its listing (`orphan`, `syncops.py:188`), the apply by
an `lstat` of the recorded spelling (`restore.py:977`). When a filesystem that folds
names lists the file as `T` and the record says `t`, nothing is spooled; a plain
pull then sets the recorded time and mode on a file of the recorded size that it
never restored, and ends with status 0. Under `-u` the order of times protects
only a file that is not older. `StaleUntouched` is what the code has: it speaks
of a file that is listed under its record's name. `Restored` has a corner there
too: when an unrecorded object `T` lands in the file of a record `t` without
an object, under `-u` or `--checksum`. So it is checked on folded names in the worlds
of `Twins` only.

The following were met while modelling. They are small, and no run is kept for
them; the model has the code's side.

- Under `-u`, docs/sync.md exempts from the newer-side rule every directory the
  pull wrote into. Three writes precede the apply and are not spooled: the link
  vetted away, the download of an object that has no record, and the
  destination the sync makes. A directory touched only by these is taken for a
  newer local one and keeps its time, or ties. Where the manifest records a leaf
  and the bucket holds an unrecorded object beneath it, the directory the
  download makes in the leaf's place looks newer than the leaf, and stays
  without a word. `Restored` says so in `UnseenWrite`.
- A `pull --checksum` that finds a file of the recorded size, time and mode,
  which it cannot read and which has no object, says nothing of it: `Restored`
  asks for the object's content only where the file can be read or has one.
- docs/recovery.md says that `pull -u` "adds one case" after an interruption, a
  file between its download and its apply. Directories are another: what the
  pull wrote into before it stopped looks newer to the next one.
- docs/excludes.md says that a pull "skips excluded records entirely". The
  vetting of links and the Windows writable prep do not look at excludes: an
  excluded link in the place of a recorded directory goes, and a read-only
  file that is excluded never gets its mode back.
- The manual says that under `--all` "one entry's failure does not stop the
  others", and docs/cli.md that "worker exceptions are reported for the affected
  entry and converted to status 1". That is so on the pool. A serial run (an
  interactive `--delete`, or one entry) lets an exception through: later entries
  do not run. `Collect` has both.
- A link or leaf in the place of a recorded directory is removed, and then
  `os.makedirs` is called (`restore.py:204-207` and `731-735`). Where that fails,
  or the pull is stopped in between, the item is gone and nothing stands in its
  place; a next pull makes the directory. `LossesExplained` says so in `Unmade`.

Two more were read from the code, and no model has them.

- docs/storage.md says that `pull --delete` treats a local name that folds onto a
  recorded one as not an extra, "or it would remove the file the same pull just
  restored". The alias set holds the record's parent as the record spells it
  (`commands.py:1859-1862`), and the removal looks a local item up by the parent as
  the listing spells it (`restore.py:1226`). Where `dir/x` is recorded and the
  directory is listed as `Dir`, `Dir` is spared, but the pair of `Dir` and `x` is not
  in the set, and `Dir/x`, the file just restored, is removed as an extra.
- `prepare_dir_conflicts` looks at the positions that the manifest records
  something at or beneath. Where an unrecorded object's key lies beneath another
  local link to a directory, the download follows the link and may replace a
  file where it leads.

## Bounds

`push_tree`: seven keys. For the entry, two nested directories and a leaf behind
them, so that frames open inside frames, close together, and are followed by a
record that is asked about on its own; one content, time and mode. For a
sub-path, `a/b` as a file, a link or a directory, with what is left of the other
kinds, a sibling, and an ancestor that is new, touched or excluded. `push_data`: the other
axis, one path varying at a time beside the root, three contents (two of one
size), four local times around a record's time with a window of 1, three
modes, two link targets, a record without a time, every kind on either side.
The instance is a POSIX host; `StatusSettles` is proved for every platform.
`manifest_merge`: seven keys, among them a sibling that sorts between the two
keys of `a`, and has something beneath it itself; every journal with an event
that five of the keys allow, every pair of lines on three keys whatever they say,
and every sub-path of every manifest. `push_run`: two leaves and the
entry's own key, three ticks (`MaxClock`: two edits after the first push, one
of the same size and one of another), two mishaps (`MaxMishaps`: a cut during
the recovery from a cut), five kinds of push, of which one mirrors and one is
`-u --delete` at a terminal. `push_rerun` has `push -u` alone.

`pull_tree`: the root with two nested directories and leaves in each, a sibling
whose key falls between a directory's two places (`d` < `d-` < `d/`, so that a
record and what stands in its place are met far apart), and a pair of names
that fold together. One leaf varies over all that the comparisons tell apart
(kinds, three contents of two sizes, ticks 2 to 4 around a record at 3, three
modes, a record without a time, an object that is there, is not, or has another
size), with and without `-u` and `--checksum`; then what may stand at, in and
beside the directories, with every kind of `--delete`; then excluded keys, folded
names at the ends of the tree, blocked parents, a missing destination, objects beneath
objects, a root with no record; and one mishap anywhere (between the removal of a
link or leaf and the making of a directory, too), followed by the next pull. A second mishap meets nothing that the first does
not leave: a pull keeps no state but the tree. `pull_windows` has the trees on
which links are sealed or dangle, with the platform's coarser modes.
`pull_root`: every kind over every kind, five sorts of record, four objects,
three mishaps: one in the swap, one in the rollback, one in the next pull.
`entry_runs`: one to three entries on two threads, batches of two keys (an entry
with three candidates fills one and leaves one over), one or two mishaps, both
Ctrl-C; 329,525 states.

All behaviours of each instance are explored; no run has a state constraint. No
behaviour of a push deadlocks (a finished push of `PushJournal`
stutters, as a finished rewrite of `ManifestMerge` does; `PushRun` can always push again), except in `push_rerun`, where a push without
`--delete` refuses a change of kind. The runs of `Pull`, `PullRoot` and
`EntryRuns` switch the deadlock check off, because a finished pull and an exited
process stop; that nothing stops earlier is `CommandEnds` for the command, and
for the pulls what `Restored` and `RootRestored` say of their end.

## Fairness

`push_run` (`Converges`): a run that is not cut off goes on (weak fairness of the
run's own steps: the program waits for nobody but the user it asks, and `--yes`
asks nobody), and whoever runs pushes runs `push --delete --yes` again and again
(strong fairness, as other pushes come between). Nothing is assumed of edits,
cuts and failures; they are bounded.

`entry_runs` (`CommandEnds`): every thread runs on, a request is answered or
given up (the S3 client's timeouts), printed lines are written, and the operator
answers what is asked. Nothing is assumed of failures, of warnings or of Ctrl-C.

## Proofs

`Spec => []IInv` is proved in `PushJournal_proofs` for every tree, world and
set of options. `MergeAccepts` is not inductive by itself: that a line says
`add` exactly when nothing is recorded depends on the cursor standing at the
pair's key whenever a record is there. `IInv` says what is needed.

- `Positions`: no line lies ahead of the cursor or of the stream.
- `Lockstep`: the cursor passes no record before the stream has, and the other
  way round, unless the sync has stopped.
- `GateClosed`: what the walk failed to show so far has closed the gate.
- `FramesReserved`: every open frame has its own reserved line.
- `Pinned`: a surviving record behind the cursor has pinned the frame above it,
  or one that will pin it when it closes. Together with `Lockstep` this gives
  `PostOrder` when a frame is flipped.
- `LinesMean`, `DropsMean`, `CondemnedMean`, `SpoolMeans`, `OfferMeans`,
  `EventsCount`: what a line, a drop, a deletion, an offer and the event count
  imply about the world.

Each part is preserved by a lemma of its own with one step per action. The
properties follow at the end of the module; `NewerBackupKept` has a small
invariant on top.

`IInv` says what a line, an answer or a deletion implies; it does not say that
anything was done. What a complete push has *settled* needs the converse, `DInv`
of `PushDecided_proofs`, for a run that has neither failed nor been stopped:

- `Decided`: every pair the stream has left behind has the line, the upload and
  the warning of its verdict, and no other.
- `StaleGone`: every file record passed over without a gap is dropped.
- `FramesKept`: a frame is kept only for a record beneath it that nothing will
  drop any more (`Stays`), and open frames are nested.
- `CandidatesAsked`: whatever `--delete` could remove was answered, refused, or is
  a directory still open or kept for what stays beneath it.
- `Transfers`, `Ended`: uploads are of decided items; no file is offered for
  deletion; a run past its drain has nothing left to come to.

With it `StatusSettles`, `ConflictsWarned`, `RecordsBacked` and `SecondPushIdle`
are statements about one verdict, which the first half of the module proves lane
by lane (what `_create`, the mirror and the `-u` comparison and the non-file lane
can say, and when), for every size, time and mode; and `CandidatesAccounted`
follows from `CandidatesAsked` where no frame is open. `ItemAssumption` is used
here only: lstat always has an mtime, the window is a number, and a file has a
content.

The proofs assume that directories nest (`TreeAssumption`), that the named
sub-path is a directory and a leaf (`ScopeAssumption`), that `None` is nothing
else (`NoneAssumption`) and that a key tells a directory from a leaf
(`WorldAssumption`); TLC evaluates all five in the runs of `PushJournal`.

`PushRun_proofs` proves `TypeOK`, `FailOld` and `ConsentedLosses` for any number
of leaves, edits and mishaps and any mix of pushes. `FailOld` alone is not
inductive; `Inv` adds what ties a run to what it will publish:

- `Justified`: what is being deleted was agreed to, and what is being uploaded
  stands in the tree.
- `Backed`: a file that is to be recorded has its object, or an upload under
  way, or lost it to an agreed deletion, or the run has failed.
- `Losses`: what is to be left out was agreed to. For a file record whose
  object is already gone this needs `FailOld` of the runs before.
- `PhaseFits`, `ManifestFits`, `Rooted`: what each phase, each kind of manifest
  and each kind of entry can rely on. A migration has everything agreed to.

They assume `RunAssumption`: sizes are numbers, `None` is no item, record or
content, and any two ticks are further apart than the window within which the
comparison takes two times for one. The last is what makes an edit visible to
the default comparison; an edit within the window that keeps the size is outside
of it by design (docs/sync.md).

The second half of `PushRun_proofs` proves `RunSettles` and `PublishedLast` from a
second invariant, `Settling`, over `Inv`. `RunSettles` speaks of the last state of a
run; what it says there has to be known of every key as soon as the run has
judged it, and of what earlier runs, cut off anywhere, left behind.

- `TreeFits`: an item is in its place or moved out of it, never both, and a root
  that is a file has nothing beneath it.
- `Timely`: no record is newer than the item it was made from, and a record with
  the item's own time is that item's record. It holds of what moved away, too:
  the item may come back with its old time.
- `Truthful`: an object beneath the record of a file of the tree has that file's
  content. Without it a file that looks unchanged could hide an object that an
  earlier run left half replaced.
- `Judging`, while a run is under way: each key it has judged is kept, dropped,
  copied or emptied as its verdict says, or the operation is under way, or the
  run has failed (`Kept`, `Dropped`, `Copied`, `Emptied`); each key not yet
  judged has its old record waiting; what will be published follows the tree as
  what is published does (`NewFits`).

`ManifestPublishedLast` has a hypothesis: the platform stamps links
(`LinkMtimes`), or no push is `-u`. Where links have no time of their own, a link
ties with the record it replaces, so that a `push -u` keeps the record of a file
whose object is gone already, and publishes it; TLC shows it on `push_run` with
`LinkMtimes = FALSE` and `push -u` among the pushes. It is the exception that
docs/storage.md describes and that `RecordsBacked` makes.

`ManifestMerge_proofs` proves all that `manifest_merge` checks, for any keys, old
manifest and journal. What is to be shown is about sets, and the code never holds
more than one line of each stream and a stack; `IInv` says what those stand for.

- `Passed`: all that was read sorts before all that is held, on both sides. It is
  why a key that is met on one side only is missing on the other (`Below`), so that
  a cross-check of the two heads is one of the whole manifest.
- `Joined`: what is written is the merge of what was read, ascending, and every
  line read agrees with the old manifest. Each turn of the join adds one key to
  the merge of sets (`MergeOld`, `MergeAdd`, `MergePair`).
- `Blocking`: the leaves on the stack are nested, or the later one's range ends
  before the earlier one's begins; a leaf that was written is on it, or its range
  lies behind whatever is held. With `WarnsRight`: when a record lies beneath any
  open leaf but the top, the top one lies beneath that leaf too, and the leaf was
  warned about then (`Emits`).
- `Dropping`: the journal of a gone sub-path is the drop of what was scanned.

They assume `KeysAssumption` (of two paths one lies beneath the other, or their
ranges are apart; the root's key is the least) and `FilesAssumption` (the old
manifest is valid, as every command validates what it downloads).

`PullRoot_proofs` proves, for any set of worlds and any number of mishaps, `IInv`
(where the old item is at every step), `FailedKeepsRoot` and `Replaces`, the
refinement of `Replace`. `Inv` is `Fixed` (record and options do not change),
`IInv`, `Owned` (every old item is the one the first pull met) and `Safe` (until a
pull has ended well, an item in the way of another kind is somewhere). The
refinement maps the place to `out`, and "kept" to the stage or the link's
neighbour; each action takes a step of `Replace` or stutters.

`LeftAlone` and `RootRestored` are about the last state of a pull, and have an
invariant of their own, `Reached`. `Spares` says where the pull stands when it
will not touch the path (a newer item never reaches the download; what is warned
about is only on its way out) and that nothing has been done to it by then.
`Restores` says, step by step, what has been restored so far: the stage holds the
object's content before the swap, the path does before the apply, and what the
last step leaves is what status would have. A kill and the next pull re-establish
both from the tree alone. The proofs assume `RootAssumption`: the types of the
worlds, and that `None` is nothing else. One part of it is more than a type: where
a directory is recorded something else stands at the path, as a pull of a
directory over a directory, or over nothing, is `Pull`.

`Pull_proofs` begins with what the recursive `Above` comes to (`AboveChained`: the
least set with the parent in it that is closed under parents), and with what each
way of changing the tree leaves alone (`PutMakes`, `RemovedLeaves`, `MadeDirs`,
`EffectIs`). `TreesHold` (`TypeOK`) needs `Inv`:

- `Typed`, `FramesFit`, `OpenFits`: an open frame or open extra is a recorded
  directory, or a local one, that stands above the next key, so that they nest.
  That the stream is sorted and that a path sorts before what is beneath it makes
  this so; a frame popped one record late would break it.
- `LastFits`: only links are deferred, and only directories settled last.
- `PrepFits`: no mode is owed before the prep or after the end, whichever way out
  was taken.
- `Refused`: past the gate nothing is recorded beneath a recorded leaf.

`StaleIsUntouched` and `NewerIsKept` need `Sheltered`, about the paths where a leaf
is recorded and what was met is to be left alone (`Guarded`):

- `AsMet`: there the tree is as this pull met it (a directory's time apart).
- `Begun`, `Behind`: nothing is in the spool or under way before the sync begins,
  and the lines written so far lie behind the stream.
- `Silent`: no download of such a path is under way, no line says that one was, and
  it is no deferred link.
- `Answers`: where the record is of a file with no object, and would differ, the
  line that says so is the one the apply's cursor will stop at. This is the heart
  of it: what the sync decided is used an apply later, after downloads into the
  same directories, by a cursor that skips the lines of records it did not meet. If
  the line were lost on the way, the apply would stamp the file.

`LossesAreExplained` needs `Weighed`: at every path, whatever this pull has replaced
so far has its explanation (`Explained`). A step at a path does one of seven things (`Accounts`),
each action is shown to do no other (`PlacedAccounts`, `EffectAccounts`,
`LandAccounts`, `JudgeAccounts` and the rest), and one lemma, `Carried`, shows that a
loss explained before any of the seven is explained after it. A link or leaf removed for
a directory that is not there yet is explained by the step that is to make it
(`ByUnmade`), and `UnmadeStays` shows that nothing else may come first: the directory is
made, or the pull fails or is cut. The proof found two
corners that the property had left out, and no world that ran had met: a
directory that the vetting put in an excluded link's place may be removed as an
extra afterwards, and a downloaded object may become a directory for another
object whose key lies beneath its own. `Shadows` of `MCPull` has both now.

`MirrorIsComplete` needs no hypothesis, but two more invariants. `OpenLoose`: no
record vouches for a directory that `remove_extras` has open. `Mirrored`: what the
stream of local items has passed is spared, or holds something that is (`Held`), or
is still open; what is kept open holds such a thing; and the apply that follows the
removals keeps all of that, because what it clears away makes room for a record
(`PlacedHeld`). The step that matters is a removal: what was removed must not have
been what something above it was kept for. It is so because an item that a record
names is not removed, or else its folded sibling is there in its place
(`RemovedHeld`).

`PullRestored_proofs` proves `Restored`, which is about the last state of a pull and
about every record, so that its invariant, `Restoring`, has to carry each record
there:

- `SpoolFits`: no line comes before another with a smaller key, but for the lines
  of a directory that a download was made in, and those all say so (`Lined`); the
  apply's cursor stands before every line it has still to find (`CursorFits`).
  Under `-u`, each directory above what is spooled or under way stands or is
  spooled too (`Walked`).
- `SyncFits`: before the sync the tree is as this pull met it, but for the links
  that were vetted: what the vetting has removed, it has made a directory of, but
  for the one it is at (`EarlyTree`, `Refilled`, `Refilling`). And what may be under
  way.
- `LeavesHold`, for the record of a file, a link or a special file. Until the apply
  comes to it: what the sync has not spooled as downloaded is as it was met
  (`SameYet`), what it kept was warned about or is not older (`Spoken`), and
  `--checksum` has the content (`Content`). After that: it is as status would have
  it, or warned about, or kept (`Sat`), or among the links placed last (`PutOff`).
- `FramesHold`, `DeferredHold`: a recorded directory behind the stream is open or has
  nothing more to come beneath it, and where a link is still to be placed its
  directory will be settled afterwards.
- `DirsHold`, for the record of a directory, which is the hard part. Its mode and time
  are set when its frame closes, and `-u` keeps a directory that is newer than its
  record; but one the pull itself has written in looks newer too. The invariant says
  that such a write is never forgotten: it is spooled at the directory, or at the
  nearest record still to come beneath it (`Owed`), or its frame is dirty by then,
  or it is one of the writes that the property excuses (`UnseenWrite`).
  Behind the stream the directory is open, or to be settled after the links, or
  settled (`Streaming`). While the place of the next directory is cleared and not
  yet filled again, the innermost open one has been written in without a dirty
  frame (`Emptied`); the record that comes next makes up for it.

- `Hung`: a recorded directory above a link that waits to be placed stands, and the
  innermost of them will be settled afterwards. On Windows a link waits because
  its target is not there yet, so it may hang beneath directories that are not
  recorded; the stream has then closed frames between it and the innermost one.

It rests on `Inv`, `Grounded`, `OpenLoose` and `Mirrored`: a removal disturbs the time of
the directory it is made in, and another apply has to follow. Working towards it
corrected the property twice, by cases that no world that ran had met (see
*Disagreements*). `Grounded` (`InitGround`, `GroundStep`) is what both platforms have
in common: `Begun` and `Behind`, and that the writable prep has changed nothing
but modes, which `Prepped` knows from the list of those it owes.

`RestoredOnWindowsHolds` adds the modes. `ModesHold` says of each judged file that
it has the mode it came with, or one that status takes for the recorded one, or is
on the list of modes to give back; and once a clean apply has passed its record it
needs the list no longer, because the apply has kept it, stamped it or warned
about it, and each gives the mode back (`ModeAfter`, `ModesAtEnd`). The ways out that are
not clean give back the whole list. The proof corrected the property: where
status sees only the owner's write bit, a recorded 0644 over a prepped 0666 is no
difference and the apply leaves what the prep has opened, so that the mode is
neither the original nor the recorded one to the bit. It also asks that the write
bit the prep sets takes no reading away (`OpenedAssumption`).

They assume `TreeAssumption` (the paths are a finite tree; a path's leaf key, its
directory key and the keys beneath it ascend; a twin is a sibling, and has
nothing beneath it), `ItemAssumption` (types; `None` is nothing else), `OpenedAssumption` and `WorldAssumption` (types; what
stands in a directory has the directory; the root is a directory, if anything,
which is when the program pulls this way). `PullRestored_proofs` uses `OrderAssumption`
too: a directory's key is a prefix of every key beneath it, so that in the key
order nothing else comes between them. `LinksBarren` limits the worlds of `Pull`, and so what the theorems are about, though
no proof step needs it: no object lies beneath a link that the restore does not
replace with a directory first, nor, with a mishap to come, beneath one that is
recorded (see *Not modelled*). The theorems state what else they need:

- `~Windows`: there, the writable prep changes the mode of an excluded file, which
  a clean apply does not give back (see *Disagreements*).
- `NamesApart`: no two names that the filesystem folds together are both claimed.
  A manifest with both was written on another kind of filesystem; here one
  restore overwrites the other.
- `Unfolded` (`LossesAreExplained`, `RecordsAreRestored` and `RestoredOnWindowsHolds`, in
  the place of both): the filesystem folds no names. Where it does, what stands
  at a path may be lost to its twin, and a record may be met under another one's
  spelling (`pull_folded`). TLC checks the losses on trees that fold at their ends.
- `NoneToCome` (`NewerIsKept` only): no leaf is recorded with a time still to come.
  A directory in a leaf's place that is dated in the future, above such a record,
  loses its time when an entry is made in it, and then is not newer any more.

`MCPull` states `NamesApart` and `NoneToCome` as an assumption, so they hold of every world that the
runs of `Pull` check.

`EntryRuns_proofs` proves `IInv` and `AbortIsFinal` for any number of entries,
candidates, threads, keys to a batch and mishaps. A q is final because a run
that asks is serial: in the configured order at most one entry is on its way
(`OneAtATime`), so the one that was asked is the only one that could go on, and
it unwinds. `ExitTells` has an invariant of its own, `Told`: each entry's outcome is
accounted for by what was done, refused or interrupted in it (`Accounted`), the
first failure in the configured order is the one whose status is kept however
they completed, and a command that leaves early has a reason (`Reasons`). They
assume `RunsAssumption` (types of the requests; `None` is no number).

Only model-checked: `Converges` and `CommandEnds`, as liveness is out of the prover's
reach; and what the runs show of `Restored` on a filesystem that folds names, where
it is not true of every tree.

## Not modelled

- Verify, and the listing and diff output: they read and compare and change
  nothing. What they compare with is `Compare`.
- Configuration: a file that is parsed and validated. Argument parsing, the
  manifest's text format, glob matching: functions of text, covered by the
  repository's unit tests; the models take their results as inputs (records,
  excluded keys, options).
- The S3 client: an upload, a download or a deletion lands or fails, at any
  time and in any order.
- Hooks: they are the user's commands. A failing one is an entry that fails with
  a status of its own (`Fail` in `EntryRuns`).
- `--dry-run`, which changes nothing, and the guard against paths that leave the
  root, which holds by resolving each path.
- The sub-path push over several runs: `PushRun` pushes whole entries, and
  `PushJournal` has the scope of a sub-path in one run.
- Downloads through a local link to a directory. The code follows a link that
  `prepare_dir_conflicts` does not vet, or whose removal failed, out of the tree
  modelled here; `LinksBarren` excludes the worlds where an object lies beneath one,
  and a position beneath a link that could not be removed is taken to be empty
  when it is vetted. *Disagreements* says what the code does there.
- Names folded above the ends of the tree (*Disagreements*, the same).
- A pull of a directory's sub-path whose own key is excluded, while what is in
  it need not be.
- Two commands on one entry at once: the program has no lock against it and
  its documentation rules it out.

## What is left

1. `Restored` among folded names: the weaker property that holds there.
2. A refinement between one run of `PushRun` and `PushJournal`: a step of the
   former per key stands for several of the latter.
3. The delete plan's second cursor over the recorded files, and a theorem that
   joins `MergeAccepts` of `PushJournal` to `Sound` of `ManifestMerge`.
4. `Exchange`: two machines that alternate `pull -u` and `push -u` on one backup.
