----------------------------- MODULE PullVerdict -----------------------------
(***************************************************************************)
(* What a pull decides about one path: the sync's lanes (ManifestFilter,   *)
(* RestoreFilter, UpdateFilter) about the object at a key, and the         *)
(* metadata apply (_apply_record, _settle_dir) about a record.  Functions  *)
(* of the record r, the local item i, the object o at the key and the      *)
(* run's options; the state machine that calls them is Pull.               *)
(***************************************************************************)
EXTENDS Compare

CONSTANTS
  None,      \* no record, no item, no object, no decision
  Readable   \* the modes of a file this user can open

Matches(r, i) == i # None /\ ~StatusShows(r, i)
ObjectDrifted(r, o) == SizeOf[o] # r.what          \* r a regular-file record

-----------------------------------------------------------------------------
(* The sync.  A verdict says whether the object is downloaded (get), what  *)
(* is spooled for the apply (say: "D" downloaded, "K" kept, "G" gone, or   *)
(* None) and whether the pull warns (warn).                                *)

Says(g, s, w) == [get |-> g, say |-> s, warn |-> w]
Leave    == Says(FALSE, None, FALSE)
Fetch    == Says(TRUE, None, FALSE)
Download == Says(TRUE, "D", FALSE)
Keep     == Says(FALSE, "K", FALSE)
Conflict == Says(FALSE, "K", TRUE)
Residue  == Says(FALSE, None, TRUE)

\* The destination listing shows the regular files it can read, nothing else.
Listed(i) == i # None /\ i.kind = "file" /\ i.mode \in Readable

\* A plain pull, both sides present.  --checksum never asks the record.
PlainPair(r, i, o, checksum) ==
  LET stale == \/ r = None
               \/ r.kind = "file" /\ (ObjectDrifted(r, o) \/ ~MatchesStat(r, i))
  IN  IF (IF checksum THEN o # i.data ELSE stale) THEN Fetch ELSE Leave

\* A plain pull, an object the listing paired with nothing: it replaces a link
\* or special file where a file is recorded, and a directory never.
PlainCreate(r, i) ==
  CASE i = None -> Fetch
    [] i # None /\ i.kind = "dir" -> IF r = None THEN Residue ELSE Leave
    [] i # None /\ i.kind # "dir" ->
         CASE r = None -> IF i.kind = "special" THEN Residue ELSE Download
           [] r # None -> IF r.kind = "file" THEN Download ELSE Leave

\* pull -u, both sides present: the newer side wins, a tie that differs is a
\* conflict, and so is an object the record does not describe.
UpdatePair(r, i, o, checksum) ==
  LET side    == OrderedSide(r, i)
      differs == IF checksum THEN o # i.data ELSE ~MatchesStat(r, i)
  IN  CASE r = None -> Conflict
        [] r # None /\ r.kind # "file" -> Leave
        [] r # None /\ r.kind = "file" ->
             IF ObjectDrifted(r, o) THEN Conflict
             ELSE CASE side = "local"  -> Keep
                    [] side = "record" -> IF differs THEN Download ELSE Leave
                    [] side = "tie"    ->
                         IF TieConflict(r, i, differs) THEN Conflict ELSE Leave

UpdateCreate(r, i) ==
  LET side == OrderedSide(r, i) IN
  CASE i = None -> IF r = None \/ r.kind = "file" THEN Download ELSE Leave
    [] i # None /\ r = None -> Conflict
    [] i # None /\ r # None ->
         CASE r.kind # "file" -> Leave
           [] r.kind = "file" /\ i.kind = "file" -> Download
           [] r.kind = "file" /\ i.kind # "file" ->
                CASE side = "local"  -> Keep
                  [] side = "record" -> IF i.kind = "dir" THEN Conflict ELSE Download
                  [] side = "tie"    -> Conflict

\* The observed delete lane: a local file whose record has no object.
Orphan(r) == IF r # None /\ r.kind = "file" THEN Says(FALSE, "G", FALSE) ELSE Leave

\* i carries the mode the rule judges by: on Windows, the one from before the
\* prep.  listed: did the listing show a file of this very name?
SyncVerdict(r, i, o, listed, opts) ==
  CASE o = None -> Orphan(r)
    [] o # None /\ listed ->
         IF opts.update THEN UpdatePair(r, i, o, opts.checksum)
                        ELSE PlainPair(r, i, o, opts.checksum)
    [] o # None /\ ~listed ->
         IF opts.update THEN UpdateCreate(r, i) ELSE PlainCreate(r, i)

-----------------------------------------------------------------------------
(* The apply: "keep" the local side (silently), "conflict" (keep and       *)
(* warn), "stale" (skip in full and warn), "missing" (the same with        *)
(* nothing there), "stamp" the recorded mode and time, "place" a link,     *)
(* "defer" it to the end, or "error".                                      *)

\* -u, a key the sync did not decide: what a tie or a newer local side gives.
KeepsLocal(r, i) == OrderedSide(r, i) \in {"local", "tie"}
Kept(r, i) == IF OrderedSide(r, i) = "tie" /\ TieConflict(r, i, FALSE)
              THEN "conflict" ELSE "keep"

\* Mutant of ApplyLink: a recorded link replaces a newer item all the same.
ApplyLinkUnordered(r, i, undecided, dangling) ==
  CASE Matches(r, i) -> "keep"
    [] ~Matches(r, i) -> IF dangling \/ (i # None /\ i.kind = "dir") THEN "defer" ELSE "place"

\* dangling: on Windows, a link whose target does not exist yet is deferred.
ApplyLink(r, i, undecided, dangling) ==
  CASE Matches(r, i) -> "keep"
    [] ~Matches(r, i) ->
         IF undecided /\ i # None /\ KeepsLocal(r, i) THEN Kept(r, i)
         ELSE IF dangling \/ (i # None /\ i.kind = "dir") THEN "defer" ELSE "place"

DirAtFile(r, i) == r.kind = "file" /\ i # None /\ i.kind = "dir"
WrongSize(r, i) == r.kind = "file" /\ r.what # SizeOf[i.data]

\* A file or special record the plain rule repairs in place, if it can.
Repair(r, i) ==
  CASE i = None -> IF r.kind = "file" THEN "missing" ELSE "error"
    [] i # None /\ i.kind # r.kind -> "error"
    [] i # None /\ i.kind = r.kind -> IF WrongSize(r, i) THEN "error" ELSE "stamp"

\* The apply's -u rule; a tie of the wrong size falls through to the error.
Ordered(r, i) ==
  CASE OrderedSide(r, i) = "local" -> "keep"
    [] OrderedSide(r, i) # "local" ->
         IF DirAtFile(r, i) THEN "conflict"
         ELSE IF OrderedSide(r, i) = "tie" /\ ~WrongSize(r, i) THEN Kept(r, i)
         ELSE Repair(r, i)

ApplyOther(r, i, d, update) ==
  LET unread == d = None /\ r.kind = "file" /\ i # None /\ i.kind = "file"
                /\ i.mode \notin Readable
      orders == update /\ d = None /\ i # None /\ (DirAtFile(r, i) \/ i.kind = r.kind)
  IN  IF Matches(r, i) THEN "keep"
      ELSE IF unread THEN "stale"
      ELSE IF orders THEN Ordered(r, i)
      ELSE Repair(r, i)

\* Mutant of ApplyVerdict: a stale record is stamped like any other.
ApplyVerdictStampsStale(r, i, d, update, dangling) ==
  CASE update /\ d = "K" -> "keep"
    [] ~(update /\ d = "K") ->
         CASE r.kind = "link" -> ApplyLink(r, i, update /\ d = None, dangling)
           [] r.kind = "dir" -> "dir"
           [] r.kind \notin {"link", "dir"} -> ApplyOther(r, i, d, update)

\* The spooled decision d comes first, then the record's kind.
ApplyVerdict(r, i, d, update, dangling) ==
  CASE update /\ d = "K" -> "keep"
    [] d = "G" -> "stale"
    [] ~(update /\ d = "K") /\ d # "G" ->
         CASE r.kind = "link" -> ApplyLink(r, i, update /\ d = None, dangling)
           [] r.kind = "dir" -> "dir"
           [] r.kind \notin {"link", "dir"} -> ApplyOther(r, i, d, update)

\* A directory, once the stream has left it: ordered unless the pull wrote there.
SettleVerdict(r, i, ordered) ==
  CASE i = None -> "error"
    [] i # None /\ i.kind # "dir" -> "error"
    [] i # None /\ i.kind = "dir" ->
         IF Matches(r, i) THEN "keep"
         ELSE IF ordered /\ KeepsLocal(r, i) THEN Kept(r, i)
         ELSE "stamp"

\* _apply_meta: a record without a time leaves the item's.
Stamped(r, i) ==
  [i EXCEPT !.mode = r.mode, !.mtime = IF r.mtime = NoMtime THEN i.mtime ELSE r.mtime]

-----------------------------------------------------------------------------
(* _single_file_pull_verdict: a file entry or file sub-path, past the gate *)
(* and with no other kind in its place.  "download", "apply" (the content  *)
(* is as recorded), "keep", "conflict" (keep and warn) or "missing".       *)

SingleDiffers(r, i, o, checksum) ==
  IF checksum THEN i.mode \notin Readable \/ i.data # o ELSE WrongSize(r, i)

\* Mutant of SingleUpdate: a newer local file is not kept.
SingleUpdateUnordered(r, i, o, checksum) ==
  IF ObjectDrifted(r, o) THEN "conflict"
  ELSE IF checksum /\ ~SingleDiffers(r, i, o, checksum) THEN "apply" ELSE "download"

SingleUpdate(r, i, o, checksum) ==
  LET side    == OrderedSide(r, i)
      differs == SingleDiffers(r, i, o, checksum)
  IN  IF ObjectDrifted(r, o) THEN "conflict"
      ELSE CASE side = "local"  -> "keep"
             [] side = "record" -> IF checksum /\ ~differs THEN "apply" ELSE "download"
             [] side = "tie"    -> IF TieConflict(r, i, differs) THEN "conflict" ELSE "keep"

SingleVerdict(r, i, o, opts) ==
  IF i = None \/ (~opts.update /\ ~opts.checksum /\ ~MatchesStat(r, i)) THEN "download"
  ELSE IF o = None THEN "missing"
  ELSE IF opts.update THEN SingleUpdate(r, i, o, opts.checksum)
  ELSE IF opts.checksum THEN IF SingleDiffers(r, i, o, TRUE) THEN "download" ELSE "apply"
  ELSE IF ObjectDrifted(r, o) THEN "download" ELSE "apply"

=============================================================================
