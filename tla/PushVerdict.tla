----------------------------- MODULE PushVerdict -----------------------------
(***************************************************************************)
(* What a push decides about one pair of its stream: the local item at a   *)
(* key, the S3 object there (or None) and the old record there (or None).  *)
(* PushJournal's update lane, create lane and non-file journaling          *)
(* (syncops.py), as functions of the pair and of the run's options.        *)
(*                                                                         *)
(* A verdict says whether a record line is journaled (emit), whether the   *)
(* file is uploaded (copy), whether the item turned out to be unreadable   *)
(* (gap), and whether a -u conflict is warned about (conflict).  blind:    *)
(* opening the file, or reading the link, would fail.                      *)
(***************************************************************************)
EXTENDS Compare

CONSTANT None     \* no record, no item, no object

Says(e, c, g, w) == [emit |-> e, copy |-> c, gap |-> g, conflict |-> w]
Leave       == Says(FALSE, FALSE, FALSE, FALSE)
Unseen      == Says(FALSE, FALSE, TRUE, FALSE)
Refresh     == Says(TRUE, FALSE, FALSE, FALSE)
Upload      == Says(TRUE, TRUE, FALSE, FALSE)
Conflict(w) == Says(FALSE, FALSE, FALSE, w)

\* A copy is decided, then the file is probed: an unreadable one is a gap.
Probed(blind, v) == IF blind THEN Unseen ELSE v

\* Mutant of Settles: the mode is not compared.
SettlesIgnoringMode(old, item) ==
  old # None /\ old.kind = "file" /\ MatchesStat(old, item)

\* The record and the file agree as far as the manifest can tell.
Settles(old, item) ==
  /\ old # None
  /\ old.kind = "file"
  /\ ~ModeDiffers(old, item)
  /\ MatchesStat(old, item)

\* Without -u (or with nothing recorded): a file whose key holds an object.
\* --checksum compares contents, the default compares the object's size and
\* the record's size and mtime.  A file left alone may still be re-recorded.
MirrorFile(old, item, obj, o, blind) ==
  LET stale == \/ old = None
               \/ old.kind # "file"
               \/ SizeOf[obj] # old.what
               \/ ~MatchesStat(old, item)
      kept  == IF Settles(old, item) THEN Leave ELSE Refresh
  IN  IF o.checksum
      THEN Probed(blind, IF obj # item.data THEN Upload ELSE kept)
      ELSE IF stale THEN Probed(blind, Upload) ELSE kept

\* Under -u, a file whose key holds both an object and a record.
NewerFile(old, item, obj, o, blind) ==
  LET side    == OrderedSide(old, item)
      differs == obj # item.data
  IN  IF old.kind = "file" /\ SizeOf[obj] # old.what THEN Conflict(TRUE)
      ELSE CASE side = "record" -> Leave
             [] side = "local"  ->
                  Probed(blind, IF o.checksum /\ ~differs THEN Refresh ELSE Upload)
             [] side = "tie"    ->
                  IF old.kind = "file" /\ o.checksum
                  THEN Probed(blind, Conflict(TieConflict(old, item, differs)))
                  ELSE Conflict(TieConflict(old, item, ~MatchesStat(old, item)))

\* Mutants of CreateFile: the record is written without an upload; -u does not
\* order the file against a record of another kind.
CreateFileUncopied(old, item, o, blind) == Probed(blind, Refresh)
CreateFileUnordered(old, item, o, blind) == Probed(blind, Upload)

\* A file with no object at its key is uploaded, whatever the record says of
\* a file there; under -u a record of another kind may win or tie instead.
CreateFile(old, item, o, blind) ==
  LET ordered == o.update /\ old # None /\ old.kind # "file"
      side    == OrderedSide(old, item)
  IN  CASE ordered /\ side = "record" -> Leave
        [] ordered /\ side = "tie"    -> Conflict(TRUE)
        [] OTHER                      -> Probed(blind, Upload)

\* Has a recorded directory, link or special file changed?
NonFileChanged(old, item) ==
  \/ old.kind # item.kind
  \/ item.kind = "link" /\ (old.what # item.data \/ (LinkMtimes /\ ~Within(old, item)))
  \/ item.kind # "link" /\ (ModeDiffers(old, item) \/ ~Within(old, item))

NonFile(old, item, o, blind) ==
  LET side == OrderedSide(old, item) IN
  CASE item.kind = "link" /\ blind -> Unseen
    [] OTHER ->
         CASE old = None -> Refresh
           [] old # None /\ ~o.update ->
                IF NonFileChanged(old, item) THEN Refresh ELSE Leave
           [] old # None /\ o.update ->
                CASE side = "local"  -> Refresh
                  [] side = "record" -> Leave
                  [] side = "tie"    -> Conflict(TieConflict(old, item, FALSE))

Verdict(old, item, obj, o, blind) ==
  CASE item.kind # "file" -> NonFile(old, item, o, blind)
    [] item.kind = "file" /\ obj = None -> CreateFile(old, item, o, blind)
    [] item.kind = "file" /\ obj # None /\ o.update /\ old # None ->
         NewerFile(old, item, obj, o, blind)
    [] item.kind = "file" /\ obj # None /\ ~(o.update /\ old # None) ->
         MirrorFile(old, item, obj, o, blind)

\* A non-file shields the object at its key from the delete lane: under
\* --delete the object is offered after the sync, unless -u kept the record.
ShieldsObject(item, obj, o, v) ==
  /\ item.kind # "file"
  /\ obj # None
  /\ o.delete
  /\ v.emit \/ ~o.update

=============================================================================
