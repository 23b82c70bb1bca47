----------------------------- MODULE MCPushTree -----------------------------
(***************************************************************************)
(* Pushes over the tree                                                    *)
(*   1 "."   2 "a/"   3 "a/b"   4 "a/b/"   5 "a/b/c"   6 "a/z"   7 "h"     *)
(* of the entry, with every combination of what can stand at each key but  *)
(* 3, and of the sub-path a/b, as a directory, a file or a link, over what *)
(* may be left of the other kind.  One content and one mode are enough:    *)
(* this run is about the cursor, the frames and the gap, and MCPushData is *)
(* about the comparisons.                                                  *)
(***************************************************************************)
EXTENDS PushJournal

CONSTANT content

MCSizeOf == content :> 1
MCLast == (1 :> 7) @@ (2 :> 6) @@ (4 :> 5)

Item(kind, t) == [kind |-> kind, data |-> IF kind = "file" THEN content ELSE Blank,
                  mtime |-> t, mode |-> "rw"]
Rec(kind) == RecordOf(Item(kind, 1))
MCItems == {Item(k, t) : k \in Kinds, t \in {1, 2}}
MCRecords == {RecordOf(i) : i \in MCItems}

\* What can stand at a key: [record, local item, object, blind].
Cell(r, l, o, b) == [rec |-> r, loc |-> l, obj |-> o, blind |-> b]
N0 == None
Dir(r, t) == Cell(r, Item("dir", t), N0, FALSE)

Nothing    == Cell(N0, N0, N0, FALSE)
Stale      == Cell(Rec("file"), N0, N0, FALSE)
Deleted    == Cell(Rec("file"), N0, content, FALSE)
Unrecorded == Cell(N0, N0, content, FALSE)
LinkGone   == Cell(Rec("link"), N0, N0, FALSE)
OutOfSight == Cell(Rec("file"), N0, content, TRUE)
Unchanged  == Cell(Rec("file"), Item("file", 1), content, FALSE)
DirGone    == Cell(Rec("dir"), N0, N0, FALSE)

Start(c, o) ==
  [rec   |-> [k \in Keys |-> c[k].rec],
   loc   |-> [k \in Keys |-> c[k].loc],
   obj   |-> [k \in Keys |-> c[k].obj],
   blind |-> {k \in Keys : c[k].blind},
   opts  |-> o]
-----------------------------------------------------------------------------
(* The entry.                                                              *)

DirCells == {Nothing, DirGone, Dir(Rec("dir"), 1), Dir(N0, 1), Cell(Rec("dir"), N0, N0, TRUE)}
LeafCells ==
  {Nothing, Stale, Deleted, Unrecorded, Unchanged, OutOfSight, LinkGone,
   Cell(N0, Item("file", 1), N0, TRUE),                   \* new, unreadable
   Cell(Rec("special"), N0, content, FALSE),              \* and a stray object
   Cell(Rec("file"), Item("link", 1), content, FALSE)}    \* a kind conflict
LastCells == {Unchanged, LinkGone, Cell(Rec("link"), N0, N0, TRUE)}

\* A directory out of sight hides everything beneath it.
CellsFit(c) ==
  \A d \in DirKeys : c[d].blind => \A k \in Beneath(d) : c[k].loc = None

Opts(delete, asks) ==
  [delete |-> delete, asks |-> asks, update |-> FALSE, checksum |-> FALSE,
   scope |-> "entry"]

OfEntry ==
  [cells: {t \in {Dir(Rec("dir"), 1)} \X DirCells \X {Nothing} \X DirCells
                 \X LeafCells \X LeafCells \X LastCells : CellsFit(t)},
   opts:  {Opts(FALSE, FALSE), Opts(TRUE, FALSE), Opts(TRUE, TRUE)}]
-----------------------------------------------------------------------------
(* The sub-path.                                                           *)

\* "." and "a/" are there; "a/" may be new, touched, or excluded.
Roots     == {Dir(N0, 1), Dir(Rec("dir"), 1)}
Ancestors == {Dir(N0, 1), Dir(Rec("dir"), 1), Dir(Rec("dir"), 2), DirGone}
\* "a/b" as a file or link, and what is left of it once a/b is a directory.
Gone      == {Nothing, Deleted, LinkGone}
Here      == {Cell(r, Item(k, 2), N0, b) :
                r \in {N0, Rec("file"), Rec("link")}, k \in {"file", "link"},
                b \in BOOLEAN}
Subs      == {Dir(N0, 1), Dir(Rec("dir"), 1), DirGone}
FormerSub == {Nothing, DirGone}
Beyond    == {Nothing, Stale, Deleted, LinkGone, Unrecorded}
Leaves    == Beyond \cup
             {Cell(Rec("file"), Item("file", 2), content, FALSE),
              Cell(N0, Item("link", 1), content, FALSE), OutOfSight}
Siblings  == {Unrecorded, Stale, LinkGone}

\* No manifest is without its root's record.
Rooted(c) == c[1].rec = None => \A k \in Keys : c[k].rec = None

\* A directory push walks something: an invisible sub-path takes another path.
SubSeen(c) == c[4].loc # None \/ c[5].loc # None \/ c[5].blind

SubOpts(scope) == [delete : BOOLEAN, asks : IF scope = "dir" THEN BOOLEAN ELSE {FALSE},
                   update : BOOLEAN, checksum : {FALSE}, scope : {scope}]

OfSubDir ==
  [cells: {t \in Roots \X Ancestors \X Gone \X Subs \X Leaves \X Siblings \X {Nothing} :
             Rooted(t) /\ SubSeen(t)},
   opts:  SubOpts("dir")]
OfSubFile ==
  [cells: {t \in Roots \X Ancestors \X Here \X FormerSub \X Beyond \X Siblings \X {Nothing} : Rooted(t)},
   opts:  SubOpts("target")]

MCWorlds == {Start(w.cells, w.opts) : w \in OfEntry \cup OfSubDir \cup OfSubFile}
=============================================================================
