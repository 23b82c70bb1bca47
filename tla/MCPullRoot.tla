----------------------------- MODULE MCPullRoot -----------------------------
(***************************************************************************)
(* Pulls of one path: every kind recorded against every kind in its place, *)
(* older, as old or newer, with an object that is as recorded, of one size *)
(* with it, longer or gone, and up to three mishaps.  The worlds on Windows  *)
(* record no link.                                                         *)
(***************************************************************************)
EXTENDS PullRoot, TLC

CONSTANTS same, alike, longer, here, there

MCSizeOf == (same :> 1) @@ (alike :> 1) @@ (longer :> 2)
MCOpened == ("rw" :> "rw") @@ ("ro" :> "rw") @@ ("no" :> "no")

MCData == {same, alike, longer, here, there, Blank}

ItemAt(kind, data, mtime, mode) ==
  [kind |-> kind, data |-> data, mtime |-> mtime, mode |-> mode, by |-> "old"]
Locals(modes) ==
  {None} \cup {ItemAt("file", c, n, w) : c \in {same, alike, longer}, n \in {2, 3, 4}, w \in modes}
  \cup {ItemAt("link", x, n, "rw") : x \in {here, there}, n \in {2, 3, 4}}
  \cup {ItemAt(k, Blank, n, "rw") : k \in {"special", "dir"}, n \in {2, 3, 4}}
RFile == RecordOf(ItemAt("file", same, 3, "rw"))
RLink == RecordOf(ItemAt("link", here, 3, "rw"))
RDir  == RecordOf(ItemAt("dir", Blank, 3, "rw"))
RSpecial == RecordOf(ItemAt("special", Blank, 3, "rw"))

Opts(windows) ==
  {[update |-> u, checksum |-> s, excluded |-> x, windows |-> windows] :
     u \in BOOLEAN, s \in BOOLEAN, x \in {FALSE}}
  \cup {[update |-> FALSE, checksum |-> FALSE, excluded |-> TRUE, windows |-> windows]}
Possible(w) == w.rec.kind = "dir" => w.loc # None /\ w.loc.kind # "dir" /\ ~w.opts.excluded
Build(Recs, L, O) ==
  {w \in {[rec |-> r, loc |-> l, obj |-> o, opts |-> p, mishaps |-> 3] :
             r \in Recs, l \in L, p \in O, o \in {None, same, alike, longer}} :
     Possible(w) /\ (w.rec.kind # "file" => w.obj = None)}
MCWorlds ==
  Build({RFile, [RFile EXCEPT !.mtime = NoMtime], RLink, RDir, RSpecial},
        Locals({"rw", "ro", "no"}), Opts(FALSE))
  \cup Build({RFile, [RFile EXCEPT !.mode = "ro"], RDir, RSpecial}, Locals({"rw", "ro"}), Opts(TRUE))
=============================================================================
