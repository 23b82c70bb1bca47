------------------------------- MODULE Compare -------------------------------
(***************************************************************************)
(* What a manifest record says of a path, what an lstat says of it, and    *)
(* the predicates that relate the two (compare.py, manifest.py).           *)
(*                                                                         *)
(* A local item is [kind, data, mtime, mode]: data is a regular file's     *)
(* content, a symlink's target, and Blank for a directory or a special     *)
(* file.  A record is [kind, what, mtime, mode]: a file is recorded by its *)
(* size alone, a link by its target.  mtime is in clock ticks; a record    *)
(* read from a manifest may lack one (NoMtime).                            *)
(***************************************************************************)
EXTENDS Naturals

CONSTANTS
  SizeOf,         \* the size of each content a file or an object can have
  Window,         \* mtime_window: how far two mtimes may drift apart
  NoMtime,        \* the mtime of a record that carries none
  LinkMtimes,     \* can the platform set a symlink's own mtime?
  OwnerWriteOnly, \* does the platform report only the owner-write bit?
  Writable        \* the modes whose owner-write bit is set

Kinds == {"dir", "file", "link", "special"}
Blank == "blank"

\* The record built from a walked item: format_entry always writes the mtime.
RecordOf(item) ==
  [kind  |-> item.kind,
   what  |-> IF item.kind = "file" THEN SizeOf[item.data] ELSE item.data,
   mtime |-> item.mtime,
   mode  |-> item.mode]

Drift(a, b) == IF a < b THEN b - a ELSE a - b

Within(e, item) == e.mtime # NoMtime /\ Drift(e.mtime, item.mtime) <= Window

\* rsync's quick check for a regular file: size, and mtime in the window.
MatchesStat(e, item) == e.what = RecordOf(item).what /\ Within(e, item)

ModeDiffers(e, item) ==
  /\ e.mode # item.mode
  /\ OwnerWriteOnly => (e.mode \in Writable) # (item.mode \in Writable)

-----------------------------------------------------------------------------
(* The -u rule: the newer side wins, and a tie has no side to pick.        *)

NewerSide(e, item) ==
  IF e.mtime = NoMtime \/ Drift(e.mtime, item.mtime) <= Window THEN "tie"
  ELSE IF item.mtime > e.mtime THEN "local" ELSE "record"

\* A link whose mtime the platform cannot set has no mtime to order by.
OrderedSide(e, item) ==
  IF item.kind = "link" /\ ~LinkMtimes THEN "tie" ELSE NewerSide(e, item)

\* Mutant of TieConflict: the mode is not compared.
TieConflictIgnoringMode(e, item, differs) ==
  \/ e.kind # item.kind
  \/ item.kind = "link" /\ e.what # item.data
  \/ item.kind # "link" /\ differs

\* Is there a difference, on a tie, that the rule must not pick a side for?
\* differs is what the caller compared on its own (the size or the content).
TieConflict(e, item, differs) ==
  \/ e.kind # item.kind
  \/ item.kind = "link" /\ e.what # item.data
  \/ item.kind # "link" /\ (differs \/ ModeDiffers(e, item))

-----------------------------------------------------------------------------
(* What status prints: the item's difference from its record, if any.      *)

MtimeShown(e, item) == e.mtime # NoMtime /\ ~Within(e, item)

StatusShows(e, item) ==
  IF e.kind = "link" /\ item.kind = "link"
  THEN e.what # item.data \/ (LinkMtimes /\ MtimeShown(e, item))
  ELSE \/ e.kind # item.kind
       \/ item.kind = "file" /\ e.what # RecordOf(item).what
       \/ ModeDiffers(e, item)
       \/ MtimeShown(e, item)

=============================================================================
