----------------------------- MODULE MCPushData -----------------------------
(***************************************************************************)
(* Entry pushes that compare: one directory and one other path, each with  *)
(* every record, item and object the comparisons tell apart.  The record's *)
(* clock is 3 with a window of 1, so the local mtimes stand for older than *)
(* the record, inside the window on either side, and newer.                *)
(***************************************************************************)
EXTENDS PushJournal

CONSTANTS small, other, large, NoSize, \* contents: two of one size, one larger
          here, there                  \* link targets

MCSizeOf == (small :> 1) @@ (other :> 1) @@ (large :> 2)
MCContents == {small, other, large}
MCLast == (1 :> 3) @@ (2 :> 2)

Home == [kind |-> "dir", data |-> Blank, mtime |-> 3, mode |-> "rw"]

LocalTimes == {1, 2, 4, 5}
LocalModes == {"rw", "rx", "ro"}
ItemOf(kind, datas) ==
  [kind : {kind}, data : datas, mtime : LocalTimes, mode : LocalModes]
DirItems  == ItemOf("dir", {Blank})
LeafItems == ItemOf("file", MCContents) \cup ItemOf("special", {Blank})
             \cup [kind : {"link"}, data : {here, there}, mtime : LocalTimes, mode : {"rx"}]
MCItems == {Home} \cup DirItems \cup LeafItems

RecordsOf(kind, whats) ==
  [kind : {kind}, what : whats, mtime : {3, NoMtime}, mode : {"rw", "ro"}]
DirRecords  == RecordsOf("dir", {Blank})
LeafRecords == RecordsOf("file", {1, 2, NoSize}) \cup RecordsOf("special", {Blank})
               \cup [kind : {"link"}, what : {here}, mtime : {3, NoMtime}, mode : {"rx"}]
MCRecords == DirRecords \cup LeafRecords

\* One path varies at a time; the rest of the tree is as it was recorded.
World(k, r, l, o, b, opts_) ==
  LET same == [j \in Keys |-> IF j = Root THEN Home ELSE None] IN
  [rec   |-> [j \in Keys |-> IF j = k THEN r ELSE IF j = Root THEN RecordOf(Home) ELSE None],
   loc   |-> [same EXCEPT ![k] = l],
   obj   |-> [j \in Keys |-> IF j = k THEN o ELSE None],
   blind |-> IF b THEN {k} ELSE {},
   opts  |-> opts_]

Opts == [delete : BOOLEAN, asks : {FALSE}, update : BOOLEAN, checksum : BOOLEAN,
         scope : {"entry"}]

MCWorlds ==
  {World(2, r, l, None, FALSE, o) :
     r \in DirRecords \cup {None}, l \in DirItems \cup {None}, o \in Opts}
  \cup
  {World(3, r, l, o, b, p) :
     r \in LeafRecords \cup {None}, l \in LeafItems \cup {None},
     o \in MCContents \cup {None}, b \in BOOLEAN, p \in Opts}
=============================================================================
