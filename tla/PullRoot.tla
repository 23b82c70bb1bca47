------------------------------- MODULE PullRoot -------------------------------
(***************************************************************************)
(* s3bak pull of one path that is its own restore root: a file entry, a    *)
(* file, link or special sub-path, and a directory whose place something   *)
(* else has taken.  The path's verdict, the download into a stage beside a *)
(* root of another kind and the swap (cmd_pull), the placing of a link     *)
(* (_place_symlink), and a failure, an interruption or a kill at any step, *)
(* after which the next pull runs.  A directory's tree is one item here;   *)
(* Pull is the pull into it.  by is a ghost: whose item this is.           *)
(***************************************************************************)
EXTENDS PullVerdict

CONSTANTS
  Data,      \* the contents, the link targets and Blank
  Modes,
  Opened,    \* each mode with the owner-write bit added
  Umask,     \* the mode of what a pull creates
  Now,       \* the clock during the pull
  Worlds     \* the initial [rec, obj, loc, opts, mishaps]

Items == [kind : Kinds, data : Data, mtime : Nat, mode : Modes, by : {"old", "new"}]
Slot  == Items \cup {None}

\* A recorded directory over a directory, or over nothing, is Pull's; one whose
\* own key is excluded, while what is in it need not be, is not modelled.
ASSUME RootAssumption ==
  /\ None \notin Items \cup Modes \cup {"ok", "D", "K", "G"}
  /\ Blank \in Data /\ Umask \in Modes /\ Now \in Nat /\ Window \in Nat
  /\ Opened \in [Modes -> Modes]
  /\ \A w \in Worlds :
       /\ w.loc = None \/ (w.loc \in Items /\ w.loc.by = "old")
       /\ w.rec.kind = "dir" => w.loc # None /\ w.loc.kind # "dir" /\ ~w.opts.excluded
       /\ w.obj \in Data \cup {None}
       /\ w.rec.kind \in Kinds /\ w.rec.mode \in Modes /\ w.rec.mtime \in Nat \cup {NoMtime}
       /\ w.rec.kind = "link" => w.rec.what \in Data

VARIABLES
  rec, obj, opts,  \* the record, the object, the options
  orig, met,       \* ghosts: what the first pull, and this one, met
  out,             \* what stands at the path
  new, old,        \* stage/new and stage/replaced
  staged,          \* does the stage directory exist?
  aside,           \* _place_symlink's .s3bak-old- directory
  left,            \* has a killed pull left the old item in a stage or aside?
  verdict,         \* "download" or "apply"
  prep,            \* the mode before the writable prep
  moved, swapped,  \* replaced_root is set; swap_done
  pc,              \* the next step
  st,              \* the status so far: 0 or 1
  told,            \* has the pull warned?
  status,          \* None, "ok", "failed", or "cut" by a kill
  mishaps          \* failures, interruptions and kills still to come

world == <<rec, obj, opts, orig, met>>
stage == <<new, old, staged, moved, swapped>>
vars == <<world, out, stage, aside, left, verdict, prep, pc, st, told, status, mishaps>>

HasData  == rec.kind \in {"file", "dir"}
RootConflict == HasData /\ out # None /\ out.kind # rec.kind
UseUpdate == opts.update /\ ~RootConflict
Made(kind, data, mode) ==
  [kind |-> kind, data |-> data, mtime |-> Now, mode |-> mode, by |-> "new"]

TypeOK ==
  /\ out \in Slot /\ new \in Slot /\ old \in Slot /\ aside \in Slot
  /\ obj \in Data \cup {None} /\ prep \in Modes \cup {None}
  /\ left \in BOOLEAN /\ staged \in BOOLEAN /\ moved \in BOOLEAN /\ swapped \in BOOLEAN
  /\ pc \in {"gate", "stage", "judge", "prep", "download", "out", "in", "apply", "aside",
             "link", "retire", "end", "except", "finally", "done"}

Unstaged == new = None /\ old = None /\ staged = FALSE /\ moved = FALSE /\ swapped = FALSE
Init ==
  /\ \E w \in Worlds : rec = w.rec /\ obj = w.obj /\ opts = w.opts /\ mishaps = w.mishaps
                       /\ out = w.loc
  /\ orig = out /\ met = out /\ verdict = None /\ Unstaged /\ aside = None /\ left = FALSE /\ prep = None
  /\ pc = "gate" /\ st = 0 /\ told = FALSE /\ status = None

Goto(next) == pc' = next
Stays == UNCHANGED <<world, left, mishaps>>

-----------------------------------------------------------------------------
(* To the download.                                                        *)

\* The gate, an excluded sub-path, and the kind in the place.
Gate ==
  /\ pc = "gate"
  /\ Goto(IF (opts.excluded /\ rec.kind # "dir") \/ (Matches(rec, out) /\ ~opts.checksum) THEN "finally"
          ELSE IF RootConflict THEN "stage"
          ELSE IF rec.kind = "file" THEN "judge" ELSE "prep")
  /\ verdict' = IF HasData THEN "download" ELSE "apply"
  /\ UNCHANGED <<out, stage, aside, prep, st, told, status>> /\ Stays

MakeStage ==
  /\ pc = "stage" /\ staged' = TRUE /\ Goto("download")
  /\ UNCHANGED <<out, new, old, moved, swapped, aside, verdict, prep, st, told, status>> /\ Stays

\* A keep, a conflict and a stale record end the pull here, before the prep.
Judge ==
  /\ pc = "judge"
  /\ LET v == SingleVerdict(rec, out, obj, opts) IN
     /\ Goto(IF v \in {"download", "apply"} THEN "prep" ELSE "finally")
     /\ verdict' = v
     /\ told' = (v \in {"conflict", "missing"})
  /\ UNCHANGED <<out, stage, aside, prep, st, status>> /\ Stays

\* windows_collect_writable_prep for the one path; nothing staged needs it.
Prep ==
  /\ pc = "prep" /\ Goto(verdict)
  /\ IF opts.windows /\ out # None /\ out.kind = "file" /\ out.mode \notin Writable
     THEN prep' = out.mode /\ out' = [out EXCEPT !.mode = Opened[out.mode]]
     ELSE UNCHANGED <<prep, out>>
  /\ UNCHANGED <<stage, aside, verdict, st, told, status>> /\ Stays

\* Into the stage, or over the file in one rename.  An object that is gone by
\* now is stale: the pull ends well and leaves what is local alone.
GetObject ==
  /\ pc = "download"
  /\ IF rec.kind = "file" /\ obj = None
     THEN told' = TRUE /\ Goto("finally") /\ UNCHANGED <<out, new>>
     ELSE \E mode \in {Umask} \cup (IF ~staged /\ out # None THEN {out.mode} ELSE {}) :
            LET item == Made(rec.kind, IF rec.kind = "file" THEN obj ELSE Blank, mode) IN
            /\ IF staged THEN new' = item /\ Goto("out") /\ UNCHANGED out
                         ELSE out' = item /\ Goto("apply") /\ UNCHANGED new
            /\ UNCHANGED told
  /\ UNCHANGED <<old, staged, moved, swapped, aside, verdict, prep, st, status>> /\ Stays

-----------------------------------------------------------------------------
(* The swap: two renames, the old root recoverable in between.             *)

SwapOut ==
  /\ pc = "out" /\ moved' = TRUE /\ old' = out /\ out' = None /\ Goto("in")
  /\ UNCHANGED <<new, staged, swapped, aside, verdict, prep, st, told, status>> /\ Stays

SwapIn ==
  /\ pc = "in" /\ out' = new /\ new' = None /\ swapped' = TRUE /\ Goto("apply")
  /\ UNCHANGED <<old, staged, moved, aside, verdict, prep, st, told, status>> /\ Stays

\* The second rename fails, or an interruption arrives before or after it: the
\* first is undone - if it can be, over nothing or a file over a file - or the
\* old root stays in the stage.
SwapFails ==
  /\ pc = "in" /\ mishaps > 0 /\ mishaps' = mishaps - 1 /\ Goto("except")
  /\ \E landed \in BOOLEAN :
       /\ new' = IF landed THEN None ELSE new
       /\ \/ /\ landed => new.kind # "dir" /\ old.kind # "dir"
             /\ out' = old /\ old' = None /\ moved' = FALSE
          \/ out' = (IF landed THEN new ELSE None) /\ UNCHANGED <<old, moved>>
  /\ UNCHANGED <<world, left, staged, swapped, aside, verdict, prep, st, told, status>>

-----------------------------------------------------------------------------
(* The apply of the one record.                                            *)

\* _is_kind: a link or special file takes the -u rule against its own kind only.
ApplyUpdate == UseUpdate /\ ~HasData /\ out # None /\ out.kind = rec.kind

\* Mutant of RootVerdict: a download is ordered like what the sync never saw.
RootVerdictOrdered ==
  IF rec.kind = "dir" THEN SettleVerdict(rec, out, FALSE)
  ELSE ApplyVerdict(rec, out, None, UseUpdate, FALSE)

\* A file was settled by its own verdict, and its apply by no rule.
RootVerdict ==
  IF rec.kind = "dir" THEN SettleVerdict(rec, out, FALSE)
  ELSE ApplyVerdict(rec, out, IF rec.kind = "file" THEN "D" ELSE None, ApplyUpdate, FALSE)

Apply ==
  /\ pc = "apply"
  /\ LET v == RootVerdict IN
     /\ Goto(CASE v = "defer" -> "aside" [] v = "place" -> "link" [] OTHER -> "end")
     /\ out' = IF v = "stamp" THEN Stamped(rec, out) ELSE out
     /\ st' = IF v = "error" THEN 1 ELSE 0
     /\ told' = (told \/ v \in {"conflict", "missing"})
  /\ UNCHANGED <<stage, aside, verdict, prep, status>> /\ Stays

\* A chmod or utime that fails is counted; the other of the two still runs.
StampFails ==
  /\ pc = "apply" /\ RootVerdict = "stamp" /\ mishaps > 0 /\ mishaps' = mishaps - 1
  /\ out' \in {out, [Stamped(rec, out) EXCEPT !.mode = out.mode],
                    [Stamped(rec, out) EXCEPT !.mtime = out.mtime]}
  /\ st' = 1 /\ Goto("end")
  /\ UNCHANGED <<world, left, stage, aside, verdict, prep, told, status>>

\* _place_symlink over a directory: aside, link, retire.
LinkAside ==
  /\ pc = "aside" /\ aside' = out /\ out' = None /\ Goto("link")
  /\ UNCHANGED <<stage, verdict, prep, st, told, status>> /\ Stays

\* The link, over nothing or (a link made beside it, one rename) a file or link.
LinkAt ==
  [kind |-> "link", data |-> rec.what, mode |-> Umask, by |-> "new",
   mtime |-> IF LinkMtimes /\ rec.mtime # NoMtime THEN rec.mtime ELSE Now]
Link ==
  /\ pc = "link" /\ out' = LinkAt /\ Goto(IF aside # None THEN "retire" ELSE "end")
  /\ UNCHANGED <<stage, aside, verdict, prep, st, told, status>> /\ Stays

\* The link stands and its own time does not take: an error, nothing undone.
LinkUnstamped ==
  /\ pc = "link" /\ mishaps > 0 /\ mishaps' = mishaps - 1
  /\ out' = [LinkAt EXCEPT !.mtime = Now] /\ st' = 1
  /\ Goto(IF aside # None THEN "retire" ELSE "end")
  /\ UNCHANGED <<world, left, stage, aside, verdict, prep, told, status>>

\* The symlink fails or is interrupted: the directory goes back, or cannot,
\* or the link is there already.
LinkFails ==
  /\ pc = "link" /\ mishaps > 0 /\ mishaps' = mishaps - 1 /\ Goto("except")
  /\ \/ aside # None /\ out' = aside /\ aside' = None
     \/ UNCHANGED <<out, aside>>
     \/ out' = [LinkAt EXCEPT !.mtime = Now] /\ UNCHANGED aside
  /\ UNCHANGED <<world, left, stage, verdict, prep, st, told, status>>

\* rmtree ignores its errors.
LinkRetire ==
  /\ pc = "retire" /\ aside' = None /\ Goto("end")
  /\ UNCHANGED <<out, stage, verdict, prep, st, told, status>> /\ Stays

-----------------------------------------------------------------------------
(* The way out.                                                            *)

\* Mutants of Preserved: only an interruption keeps the old root; only a
\* complete swap does.
PreservedIfRaised   == moved /\ pc = "except"
PreservedIfSwapped  == swapped /\ (pc = "except" \/ st # 0)

\* stage_holds_old_root: a raise after the move, or a status other than 0.
Preserved == moved /\ (pc = "except" \/ (swapped /\ st # 0))

\* The outer finally: the prepped mode, and the stage unless it holds the root.
Leaving(s) ==
  /\ out' = IF prep # None /\ out # None /\ out.kind = "file"
               /\ ~(pc = "end" /\ st = 0) THEN [out EXCEPT !.mode = prep] ELSE out
  /\ IF Preserved /\ old # None
     THEN UNCHANGED <<old, staged>> ELSE old' = None /\ staged' = FALSE
  /\ new' = IF Preserved /\ old # None THEN new ELSE None
  /\ Goto("done") /\ prep' = None /\ status' = s

Ends ==
  /\ pc \in {"finally", "end"} /\ Leaving(IF st = 0 THEN "ok" ELSE "failed")
  /\ UNCHANGED <<aside, moved, swapped, verdict, st, told>> /\ Stays

Raised ==
  /\ pc = "except" /\ Leaving("failed")
  /\ UNCHANGED <<aside, moved, swapped, verdict, st, told>> /\ Stays

\* An OSError, an S3 error or Ctrl-C at a step with no handler of its own.
Fails ==
  /\ pc \in {"stage", "judge", "prep", "download", "out", "apply", "aside", "retire", "end"}
  /\ mishaps > 0 /\ mishaps' = mishaps - 1 /\ Goto("except")
  /\ UNCHANGED <<world, left, out, stage, aside, verdict, prep, st, told, status>>

\* Another client deletes the object between the probe and the GetObject.
Vanish ==
  /\ pc \in {"judge", "prep", "download"} /\ rec.kind = "file" /\ obj # None
  /\ mishaps > 0 /\ mishaps' = mishaps - 1 /\ obj' = None
  /\ UNCHANGED <<rec, opts, orig, met, left, out, stage, aside, verdict, prep, pc, st, told, status>>

Kill ==
  /\ pc \notin {"gate", "done"} /\ mishaps > 0 /\ mishaps' = mishaps - 1
  /\ Goto("done") /\ status' = "cut"
  /\ UNCHANGED <<world, left, out, stage, aside, verdict, prep, st, told>>

\* The next pull knows nothing of the stage or the aside a killed one left.  (Of
\* a directory once it or nothing stands there, it is Pull's.)
Again ==
  /\ pc = "done" /\ status # "ok" /\ Goto("gate")
  /\ rec.kind = "dir" => RootConflict
  /\ left' = (left \/ old # None \/ aside # None)
  /\ new' = None /\ old' = None /\ staged' = FALSE /\ moved' = FALSE /\ swapped' = FALSE
  /\ aside' = None /\ prep' = None /\ st' = 0 /\ told' = FALSE /\ status' = None
  /\ met' = out /\ UNCHANGED <<rec, obj, opts, orig, out, verdict, mishaps>>

Next ==
  \/ Gate \/ MakeStage \/ Judge \/ Prep \/ GetObject \/ SwapOut \/ SwapIn \/ SwapFails
  \/ Apply \/ StampFails \/ LinkAside \/ Link \/ LinkUnstamped \/ LinkFails \/ LinkRetire
  \/ Ends \/ Raised \/ Fails \/ Vanish \/ Kill \/ Again

Spec == Init /\ [][Next]_vars

-----------------------------------------------------------------------------
(* Properties.                                                             *)

\* Where the old item is: in one place at most, and in the place of a root it
\* conflicts with, in the stage or beside a link to be until that is done.
Mine(slot)  == slot # None /\ slot.by = "new"
Theirs(slot) == slot # None /\ slot.by = "old"
OneCopy ==
  /\ Theirs(out) => old = None /\ aside = None /\ ~left
  /\ old # None => Theirs(old) /\ aside = None /\ ~left /\ HasData
  /\ aside # None => Theirs(aside) /\ old = None /\ ~left /\ rec.kind = "link"
  /\ Mine(out) => out.kind = rec.kind
  /\ new # None => Mine(new) /\ new.kind = rec.kind

\* What each step finds.
StepsFind ==
  /\ pc \in {"gate", "stage", "judge", "prep", "download", "out", "finally"} =>
       old = None /\ aside = None /\ ~moved /\ ~swapped
  /\ pc \in {"gate", "stage", "judge", "prep"} => ~staged
  /\ pc = "prep" => verdict \in {"download", "apply"}
  /\ pc = "stage" \/ pc = "out" \/ (pc = "download" /\ staged) => RootConflict
  /\ pc \in {"judge", "prep"} \/ (pc = "download" /\ ~staged) => ~RootConflict
  /\ pc = "out" => new # None /\ staged
  /\ pc = "in" => out = None /\ old # None /\ new # None /\ moved
  /\ pc \in {"apply", "end"} /\ old # None => moved /\ swapped /\ Mine(out)
  /\ pc = "except" /\ old # None => moved
  /\ pc = "apply" => aside = None
  /\ pc \in {"aside", "link", "retire"} => rec.kind = "link"
  /\ pc = "aside" => Theirs(out) /\ aside = None
  /\ pc = "link" => aside = None \/ out = None
  /\ pc = "retire" => aside # None /\ Mine(out)
  /\ status = "ok" => pc = "done"
IInv == TypeOK /\ OneCopy /\ StepsFind

\* Whatever fails, is interrupted or is killed, the item that stood at the path
\* is there, in the stage or beside it until the restored one stands there.
R == INSTANCE Replace WITH
       had  <- orig # None,
       at   <- IF out = None THEN "none" ELSE out.by,
       kept <- old # None \/ aside # None \/ left
Replaces == R!Spec

\* A pull that replaces a root of another kind and does not end well - after
\* the swap too - costs nothing: the old root is at the path or in a stage.
FailedKeepsRoot ==
  status \in {"failed", "cut"} /\ HasData /\ orig # None /\ orig.kind # rec.kind
  => (out # None /\ out.by = "old") \/ old # None \/ left

\* A pull that ends well and has nothing to warn about leaves the path as
\* recorded, with the stored content under --checksum - or, under -u, has kept
\* a local side that is not older.  Interrupted pulls before it change nothing
\* of that.
RootRestored ==
  status = "ok" /\ ~told /\ ~opts.excluded =>
    \/ Matches(rec, out) /\ (opts.checksum /\ rec.kind = "file" /\ obj # None => out.data = obj)
    \/ opts.update /\ out = met /\ OrderedSide(rec, out) # "record"

\* What the pull warns about and keeps, and under -u what is newer, is left alone
\* in full: content, time and mode, the writable prep undone.
LeftAlone ==
  \/ status = "ok" /\ told
  \/ status \in {"ok", "failed"} /\ opts.update /\ met # None /\ met.kind = rec.kind
     /\ OrderedSide(rec, met) = "local"
  => out = met
=============================================================================
