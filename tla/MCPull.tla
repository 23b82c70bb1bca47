-------------------------------- MODULE MCPull --------------------------------
(***************************************************************************)
(* Pulls over the tree                                                     *)
(*     "."   "T"   "d-"   "d"   "d/e"   "d/e/g"   "d/f"   "t"              *)
(* in which "d-" sorts between the leaf key "d" and the directory key "d/",*)
(* and a folding filesystem confuses "T" with "t".  Records are of tick 3; *)
(* what is local is older (2), as old or newer (4).                        *)
(***************************************************************************)
EXTENDS Pull

CONSTANTS root, T, m, d, e, g, f, t,     \* the paths
          same, alike, longer,           \* contents: two of one size, one longer
          here, there                    \* link targets

MCPaths == {root, T, m, d, e, g, f, t}
MCUp == (root :> root) @@ (T :> root) @@ (m :> root) @@ (d :> root) @@ (t :> root)
        @@ (e :> d) @@ (f :> d) @@ (g :> e)
MCLeafKey == (root :> 0) @@ (T :> 1) @@ (d :> 3) @@ (m :> 4) @@ (e :> 7) @@ (g :> 9)
             @@ (f :> 11) @@ (t :> 13)
MCDirKey  == (root :> 0) @@ (T :> 2) @@ (m :> 5) @@ (d :> 6) @@ (e :> 8) @@ (g :> 10)
             @@ (f :> 12) @@ (t :> 14)
MCNoTwin  == [p \in MCPaths |-> None]
MCTwin    == [MCNoTwin EXCEPT ![t] = T]
MCData    == {same, alike, longer, here, there, Blank}
MCSizeOf  == (same :> 1) @@ (alike :> 1) @@ (longer :> 2)
MCPoints  == (here :> root) @@ (there :> e)
MCOpened  == ("rw" :> "rw") @@ ("ro" :> "rw") @@ ("no" :> "no")

ItemAt(kind, data, mtime, mode) ==
  [kind |-> kind, data |-> data, mtime |-> mtime, mode |-> mode]
Dir(n)      == ItemAt("dir", Blank, n, "rw")
File(c, n)  == ItemAt("file", c, n, "rw")
Link(x, n)  == ItemAt("link", x, n, "rw")
RDir  == RecordOf(Dir(3))
RFile == RecordOf(File(same, 3))
RLink == RecordOf(Link(here, 3))
RSpecial == RecordOf(ItemAt("special", Blank, 3, "rw"))
N0 == None
Cell(r, l, o) == [rec |-> r, loc |-> l, obj |-> o]
Empty == Cell(N0, N0, N0)

OptsBut(update, checksum, delete, keys) ==
  [update |-> update, checksum |-> checksum, delete |-> delete, excluded |-> keys]
Opts(update, checksum, delete) == OptsBut(update, checksum, delete, {})
World(c, o, n) ==
  [rec |-> [p \in MCPaths |-> c[p].rec], loc |-> [p \in MCPaths |-> c[p].loc],
   obj |-> [p \in MCPaths |-> c[p].obj], opts |-> o, mishaps |-> n]
Fits(c) == \A p \in MCPaths : c[p].loc # None =>
             p = root \/ (c[MCUp[p]].loc # None /\ c[MCUp[p]].loc.kind = "dir")
Tree(changes) ==
  [p \in MCPaths |-> IF p \in DOMAIN changes THEN changes[p]
                     ELSE IF p = root THEN Cell(RDir, Dir(3), N0) ELSE Empty]

-----------------------------------------------------------------------------
(* One path at a time: everything the comparisons tell apart.              *)

Locals ==
  {N0} \cup {ItemAt("file", c, n, w) : c \in {same, alike, longer}, n \in {2, 3, 4},
                                       w \in {"rw", "ro", "no"}}
  \cup {Link(x, n) : x \in {here, there}, n \in {2, 3, 4}}
  \cup {ItemAt(k, Blank, n, "rw") : k \in {"special", "dir"}, n \in {2, 3, 4}}
Records == {N0, RFile, [RFile EXCEPT !.mtime = NoMtime], RLink, RSpecial, RDir}
Leaves1 ==
  {World(Tree(t :> Cell(r, l, o)), Opts(u, s, x), n) :
     r \in Records, l \in Locals, o \in {N0, same, longer}, u \in BOOLEAN,
     s \in BOOLEAN, x \in {"off"}, n \in {0}}

(* The tree: what can stand at a directory, in it and beside it.           *)

Tops == {Cell(RDir, Dir(3), N0), Cell(RDir, Dir(4), N0), Cell(RDir, N0, N0),
         Cell(RDir, Link(here, 4), N0), Cell(RDir, File(alike, 4), N0),
         Cell(N0, Dir(3), N0), Cell(N0, N0, N0), Cell(N0, Link(here, 3), N0),
         Cell(RLink, Dir(2), N0), Cell(RLink, Dir(4), N0), Cell(RFile, Dir(2), same)}
Mids == {Empty, Cell(RDir, Dir(2), N0), Cell(RDir, N0, N0), Cell(N0, Dir(3), N0),
         Cell(N0, Link(here, 2), N0), Cell(RLink, Dir(2), N0)}
Lows == {Empty, Cell(RFile, N0, same), Cell(RFile, File(same, 3), same),
         Cell(N0, File(alike, 3), N0), Cell(RFile, N0, N0), Cell(RFile, File(longer, 4), same)}
Sides == {Empty, Cell(N0, File(alike, 3), N0), Cell(RFile, N0, same)}
Besides == {Empty, Cell(N0, Dir(3), N0)}

Trees ==
  {w \in {World(Tree((d :> a) @@ (e :> b) @@ (g :> c) @@ (f :> s) @@ (m :> x)), o, 0) :
             a \in Tops, b \in Mids, c \in Lows, s \in Sides, x \in Besides,
             o \in {Opts(FALSE, FALSE, "off"), Opts(FALSE, FALSE, "yes"),
                    Opts(FALSE, FALSE, "ask"), Opts(TRUE, FALSE, "off"),
                    Opts(TRUE, FALSE, "yes")}} :
     Fits([p \in MCPaths |-> [loc |-> w.loc[p]]])}

Makes(a, b, c, s) == Tree((d :> a) @@ (e :> b) @@ (g :> c) @@ (f :> s))
Built(C, O, N) == {w \in {World(c, o, n) : c \in C, o \in O, n \in N} :
                     Fits([p \in MCPaths |-> [loc |-> w.loc[p]]])}

(* A failure or an interruption anywhere, and the next pull; a blocked     *)
(* parent; a destination that is missing.                                  *)
Faulty ==
  Built({Makes(a, b, c, s) :
           a \in {Cell(RDir, Dir(2), N0), Cell(RDir, Link(here, 4), N0), Cell(RLink, Dir(2), N0),
                  Cell(RDir, N0, N0), Cell(RDir, File(alike, 4), N0)},
           b \in {Empty, Cell(RDir, N0, N0), Cell(RLink, File(alike, 2), N0)},
           c \in {Empty, Cell(RFile, N0, same), Cell(RFile, File(longer, 2), same)},
           s \in {Empty, Cell(N0, File(alike, 3), N0), Cell(RFile, N0, N0), Cell(RFile, File(longer, 4), same)}},
        {Opts(FALSE, FALSE, "yes"), Opts(TRUE, FALSE, "off")}, {1})
Blocking ==
  Built({Makes(Cell(N0, File(alike, 3), N0), b, c, Empty) :
           b \in {Empty, Cell(RDir, N0, N0), Cell(RLink, N0, N0)},
           c \in {Empty, Cell(RFile, N0, same)}},
        {Opts(u, FALSE, x) : u \in BOOLEAN, x \in {"off", "yes"}}, {0})
Missing ==
  Built({[Makes(a, b, c, s) EXCEPT ![root] = Cell(RDir, N0, N0), ![m] = Cell(RDir, N0, N0)] :
           a \in {Empty, Cell(RDir, N0, N0)}, b \in {Empty, Cell(RDir, N0, N0), Cell(RLink, N0, N0)},
           c \in {Empty, Cell(RFile, N0, same)}, s \in {Empty, Cell(RFile, N0, N0), Cell(N0, N0, longer)}},
        {Opts(u, FALSE, x) : u \in BOOLEAN, x \in {"off", "yes"}}, {0, 1})

(* Excluded keys (g and d/ in turn), checksums, nobody to ask, and a name  *)
(* a folding filesystem confuses with a recorded one.                      *)
Lanes ==
  Built({Makes(a, b, c, s) :
           a \in {Cell(RDir, Dir(2), N0), Cell(RDir, N0, N0), Cell(RDir, File(alike, 2), N0), Cell(N0, Dir(3), N0)},
           b \in {Cell(RDir, Dir(2), N0), Cell(N0, Dir(3), N0), Cell(RDir, N0, N0)},
           c \in Lows, s \in Sides},
        {OptsBut(u, FALSE, x, k) : u \in BOOLEAN, x \in {"off", "yes"},
                                   k \in {{MCLeafKey[g]}, {MCDirKey[d]}}}
        \cup {Opts(FALSE, TRUE, "yes"), Opts(FALSE, FALSE, "no")}, {0})
Twins ==
  Built({Tree((T :> a) @@ (t :> b)) :
           a \in {Cell(N0, File(alike, n), N0) : n \in {2, 3, 4}} \cup {Cell(N0, Dir(3), N0), Cell(N0, Link(here, 3), N0)},
           b \in {Cell(r, N0, o) : r \in {RFile, RLink, RDir, None}, o \in {N0, same}}},
        {Opts(u, FALSE, x) : u \in BOOLEAN, x \in {"off", "yes", "ask"}}, {0})
  \cup
  Built({Tree((T :> Cell(N0, l, N0)) @@ (t :> Cell(r, N0, N0))) :
           l \in {Dir(2), Dir(4), Link(here, 2), File(alike, 2)}, r \in {RDir, RLink}},
        {Opts(u, FALSE, x) : u \in BOOLEAN, x \in {"off", "yes"}}, {1})

(* An excluded link that is vetted away, above a file that has no object;  *)
(* an object beneath one that is itself an object, or beneath a recorded   *)
(* leaf; a recorded file that cannot be read and has no object.            *)
Shadows ==
  Built({Makes(Cell(N0, Link(here, 3), N0), b, Empty, s) :
           b \in {Empty, Cell(RFile, N0, same)}, s \in {Cell(RFile, N0, N0), Cell(RFile, N0, same)}},
        {OptsBut(u, FALSE, x, {MCLeafKey[d]}) : u \in BOOLEAN, x \in {"yes", "ask"}}, {0})
  \cup
  Built({Makes(Cell(r, l, same), Empty, Empty, Cell(N0, N0, same)) :
           l \in {N0, ItemAt("special", Blank, 2, "rw"), File(alike, 2)},
           r \in {N0, RFile}},
        {Opts(u, FALSE, x) : u \in BOOLEAN, x \in {"off", "yes"}}, {0})
  \cup
  Built({Makes(Cell(r, l, N0), Empty, Empty, Cell(N0, N0, same)) :
           l \in {N0, Dir(2), Dir(4)}, r \in {RFile, RLink}},
        {Opts(u, FALSE, "off") : u \in BOOLEAN}, {0})
  \cup
  Built({Tree(t :> Cell([RFile EXCEPT !.mode = "no"], ItemAt("file", c, n, "no"), N0)) :
           c \in {same, alike}, n \in {2, 3}},
        {Opts(u, TRUE, "off") : u \in BOOLEAN}, {0})

(* A directory whose own record is missing, as a sub-path's may be.        *)
Unrecorded ==
  Built({[Makes(a, b, Empty, s) EXCEPT ![root] = Cell(N0, Dir(3), N0)] :
           a \in {Empty, Cell(N0, Dir(2), N0)}, b \in {Empty, Cell(N0, Dir(2), N0)},
           s \in {Empty, Cell(RFile, N0, same)}},
        {Opts(u, FALSE, x) : u \in BOOLEAN, x \in {"off", "yes"}}, {0})

MCWorlds == Leaves1 \cup Trees \cup Faulty \cup Blocking \cup Missing \cup Lanes \cup Twins
            \cup Shadows \cup Unrecorded

-----------------------------------------------------------------------------
(* Windows: read-only files the prep opens, links whose target the same    *)
(* pull restores.                                                          *)

ReadOnly(r) == [r EXCEPT !.mode = "ro"]
Closed(c, n) == ItemAt("file", c, n, "ro")
RThere == RecordOf(Link(there, 3))
Sealed ==
  {World(Tree(t :> Cell(r, l, o)), OptsBut(u, FALSE, x, k), n) :
     r \in {RFile, ReadOnly(RFile), RLink, RDir, N0},
     l \in {File(c, n) : c \in {same, longer}, n \in {2, 3, 4}} \cup {Closed(c, n) : c \in {same, longer}, n \in {2, 3, 4}},
     o \in {N0, same}, u \in BOOLEAN, x \in {"off", "yes"}, k \in {{}, {MCLeafKey[t]}}, n \in {0}}
SealedTwice ==
  Built({Tree((t :> a) @@ (e :> b) @@ (f :> c) @@ (d :> Cell(RDir, Dir(3), N0))) :
           a \in {Cell(ReadOnly(RFile), Closed(longer, n), same) : n \in {2, 4}},
           b \in {Cell(RFile, Closed(same, 3), same), Cell(RFile, N0, N0), Cell(N0, Closed(same, 3), N0)},
           c \in {Cell(RFile, Closed(same, n), N0) : n \in {2, 4}} \cup {Cell(RFile, N0, same)}},
        {Opts(u, FALSE, x) : u \in BOOLEAN, x \in {"off", "ask"}}, {1})
Dangles ==
  Built({Makes(a, b, c, s) :
           a \in {Cell(RDir, Dir(2), N0), Cell(RDir, N0, N0), Cell(N0, File(alike, 3), N0), Cell(RThere, N0, N0)},
           b \in {Empty, Cell(RDir, N0, N0), Cell(RThere, N0, N0), Cell(RThere, File(alike, 2), N0)},
           c \in {Empty, Cell(RFile, N0, same), Cell(RThere, N0, N0), Cell(RThere, Link(here, 4), N0)},
           s \in {Empty, Cell(RThere, N0, N0), Cell(RThere, Dir(2), N0), Cell(RLink, N0, N0)}},
        {Opts(u, FALSE, "off") : u \in BOOLEAN}, {0})

MCSealed == Sealed \cup SealedTwice \cup Dangles

(* pull -u over something newer at a directory's place.                    *)
MCNewer ==
  {World(Tree((d :> Cell(RDir, l, N0)) @@ (f :> c)), Opts(TRUE, FALSE, "off"), 0) :
     l \in {N0, Dir(2), Dir(4), File(alike, 2), File(alike, 4), Link(here, 2), Link(here, 4)},
     c \in {Empty, Cell(RFile, N0, same)}}

(* Stale records, and a file that a folding filesystem finds at their path.*)
MCFolded ==
  {World(Tree((T :> Cell(N0, File(c, n), N0)) @@ (t :> Cell(RFile, N0, N0))), Opts(u, FALSE, "off"), 0) :
     c \in {alike, longer}, n \in {2, 3, 4}, u \in BOOLEAN}

\* What some theorems assume of the worlds (Pull_proofs).
ASSUME WorldsApart == NamesApart /\ NoneToCome
=============================================================================
