------------------------- MODULE PullRestored_proofs -------------------------
(***************************************************************************)
(* What a pull that ends well has restored.  The invariant follows each    *)
(* record the pull judges through the sync, the apply, the deferred links  *)
(* and the removals: what the spool says of it, what the apply is still to *)
(* find, which directories are open, and what is owed to a directory that  *)
(* a download was made beneath.  Proved for any tree and any options, on   *)
(* POSIX and on Windows, on a filesystem that keeps every name apart.      *)
(***************************************************************************)
EXTENDS Pull_proofs

-----------------------------------------------------------------------------
(* A pull that ends well has restored what it judged, on a filesystem that *)
(* keeps every name apart.  First, which paths a write leaves exactly as   *)
(* they were.                                                              *)

LEMMA OneNameIs ==
  ASSUME Unfolded
  PROVE  \A p \in Paths : /\ Disk(p) = p /\ Found(p) = loc[p] /\ DiskIn(orig, p) = p
                          /\ Had(p) = orig[p] /\ (IsDir(p) <=> Stands(loc, p))
  <1>2. \A p \in Paths : Disk(p) = p /\ DiskIn(orig, p) = p BY DEF Unfolded, Disk, DiskIn
  <1>3. \A p \in Paths : Found(p) = loc[p] /\ Had(p) = orig[p] BY <1>2 DEF Found, Had
  <1>4. \A p \in Paths : IsDir(p) <=> Stands(loc, p) BY <1>3 DEF IsDir, Stands
  <1>. QED BY <1>2, <1>3, <1>4

\* Settling a directory, where its name is its own.
LEMMA SettleHere ==
  ASSUME Unfolded, Typed, NEW p \in Paths, DirRec(p), NEW ordered, Settle(p, ordered)
  PROVE  /\ Treelike(loc') /\ told' \in SUBSET Paths /\ bad' \in BOOLEAN
         /\ \/ loc' = loc
            \/ Stands(loc, p) /\ loc' = [loc EXCEPT ![p] = Stamped(rec[p], loc[p])]
         /\ Keeps(loc, loc', {p}) /\ Adds(loc, loc', {})
  <1>1. Disk(p) = p /\ Found(p) = loc[p] /\ (IsDir(p) <=> Stands(loc, p)) BY OneNameIs
  <1>2. /\ Treelike(loc') /\ told' \in SUBSET Paths /\ bad' \in BOOLEAN
        /\ \/ loc' = loc
           \/ IsDir(p) /\ loc' = [loc EXCEPT ![Disk(p)] = Stamped(rec[p], Found(p))]
        /\ Keeps(loc, loc', {Disk(p)}) /\ Adds(loc, loc', {})
    BY SettleWrites
  <1>. QED BY <1>1, <1>2

LEMMA SettleIs ==
  ASSUME Unfolded, NEW p \in Paths, NEW ordered, Settle(p, ordered),
         NEW v, v = SettleVerdict(rec[p], loc[p], ordered)
  PROVE  /\ loc' = IF v = "stamp" THEN [loc EXCEPT ![p] = Stamped(rec[p], loc[p])] ELSE loc
         /\ bad' = (bad \/ v = "error")
         /\ told' = IF v = "conflict" /\ pass = 1 THEN told \cup {p} ELSE told
  <1>1. Disk(p) = p /\ Found(p) = loc[p] /\ DiskIn(loc, p) = p BY OneNameIs DEF Disk
  <1>2. Settled(loc, p, ordered) = v BY <1>1 DEF Settled
  <1>. QED BY <1>1, <1>2 DEF Settle

\* The item i with the mode w it had before the writable prep, if that took one.
Was(i, w) == IF i # None /\ w # None THEN [i EXCEPT !.mode = w] ELSE i

LEMMA UnpreppedWas ==
  ASSUME Unfolded, Treelike(loc), NEW p \in Paths
  PROVE  Unprepped(p) = Was(loc[p], prep[p]) /\ Repermitted(p) = [loc EXCEPT ![p] = Was(loc[p], prep[p])]
  <1>1. Disk(p) = p /\ Found(p) = loc[p] BY OneNameIs
  <1>2. Unprepped(p) = Was(loc[p], prep[p]) BY <1>1 DEF Unprepped, Was
  <1>3. loc \in [Paths -> Slot] BY DEF Treelike
  <1>4. CASE loc[p] # None /\ prep[p] # None BY <1>1, <1>2, <1>3, <1>4 DEF Repermitted, Was
  <1>5. CASE ~(loc[p] # None /\ prep[p] # None)
    <2>1. Repermitted(p) = loc BY <1>1, <1>5 DEF Repermitted
    <2>2. Was(loc[p], prep[p]) = loc[p] BY <1>5 DEF Was
    <2>3. loc = [loc EXCEPT ![p] = loc[p]] BY <1>3
    <2>. QED BY <1>2, <2>1, <2>2, <2>3
  <1>. QED BY <1>4, <1>5

\* It differs in its mode alone.
LEMMA WasIs ==
  ASSUME NEW i \in Slot, NEW w \in Modes \cup {None}
  PROVE  /\ i = None => Was(i, w) = None
         /\ i # None => /\ Was(i, w) \in Items /\ Was(i, w) # None /\ Was(i, w).kind = i.kind
                       /\ Was(i, w).data = i.data /\ Was(i, w).mtime = i.mtime
         /\ w = None => Was(i, w) = i
  <1>1. CASE i # None /\ w # None
    <2>1. i \in Items /\ w \in Modes BY <1>1, SlotItem
    <2>2. Was(i, w) = [i EXCEPT !.mode = w] BY <1>1 DEF Was
    <2>. QED BY <1>1, <2>1, <2>2, RemodedItem, NoneIsNoItem
  <1>2. CASE ~(i # None /\ w # None) BY <1>2, SlotItem DEF Was
  <1>. QED BY <1>1, <1>2

LEMMA StandsStill ==
  ASSUME NEW l, Treelike(l), NEW m, NEW S, Keeps(l, m, S), NEW p \in Paths, p \notin S, Stands(l, p)
  PROVE  Stands(m, p)
  <1>1. l[p] \in Items /\ l[p] # None BY SlotItem DEF Treelike, Stands
  <1>2. Alike(l[p], m[p]) BY <1>1 DEF Keeps
  <1>. QED BY <1>1, <1>2, AlikeItem DEF Stands

\* An entry made at p: of the directories above it only those change that lack
\* the one below, and p's own.
LEMMA PutExact ==
  ASSUME NEW l, Treelike(l), NEW p \in Paths \ {Root}, Clear(l, p),
         NEW item \in Items, item.kind = "dir" \/ Bare(l, p),
         NEW m, m = Put(l, p, item)
  PROVE  /\ \A q \in Paths : q # p /\ q \notin Above[p] => m[q] = l[q]
         /\ \A q \in Above[p] : Stands(m, q)
         /\ \A q \in Above[p] : \/ m[q] = l[q] \/ q = Up[p] \/ l[q] = None
                                \/ \E c \in Above[p] \ {Root} : Up[c] = q /\ l[c] = None
  <1>1. PICK u, n, missing : /\ u = Up[p] /\ n = MakeDirs(l, u)
                             /\ missing = {q \in Above[u] \cup {u} : l[q] = None}
    OBVIOUS
  <1>2. u \in Paths /\ u # p /\ Above[p] = Above[u] \cup {u} /\ Above[p] \in SUBSET Paths /\ Closed(Above[p])
    BY <1>1, AboveUp, AboveTypes, TreeAssumption
  <1>3. n = [q \in Paths |->
           IF q \in missing THEN NewDir
           ELSE IF \E c \in missing : Up[c] = q THEN [l[q] EXCEPT !.mtime = Now] ELSE l[q]]
    BY <1>1 DEF MakeDirs
  <1>4. m = [n EXCEPT ![p] = item, ![u].mtime = Now] BY <1>1 DEF Put
  <1>5. missing \subseteq Above[p] /\ \A c \in missing : Up[c] \in Above[p] /\ l[c] = None
    BY <1>1, <1>2 DEF Closed
  <1>6. \A q \in Paths : q # p /\ q # u => m[q] = n[q] BY <1>3, <1>4
  <1>7. ASSUME NEW q \in Paths, q # p, q \notin Above[p] PROVE m[q] = l[q]
    <2>1. q \notin missing /\ ~(\E c \in missing : Up[c] = q) BY <1>5, <1>7
    <2>2. n[q] = l[q] BY <1>3, <2>1
    <2>3. q # u BY <1>2, <1>7
    <2>. QED BY <1>6, <1>7, <2>2, <2>3
  <1>8. Treelike(m) /\ m[p] # None
    <2>1. /\ Treelike(m) /\ m[p] = item
          /\ Keeps(l, m, {p}) /\ Adds(l, m, Above[p] \cup {p})
      BY PutMakes
    <2>. QED BY <2>1, NoneIsNoItem
  <1>9. \A q \in Above[p] : Stands(m, q) BY <1>8, AncestorsStand
  <1>10. ASSUME NEW q \in Above[p], q # u, l[q] # None, \A c \in Above[p] \ {Root} : Up[c] = q => l[c] # None
         PROVE  m[q] = l[q]
    <2>1. q \in Paths /\ q # p BY <1>10, AboveKey
    <2>2. q \notin missing BY <1>1, <1>10
    <2>3. \A c \in missing : Up[c] # q
      <3>. SUFFICES ASSUME NEW c \in missing, Up[c] = q PROVE FALSE OBVIOUS
      <3>1. c \in Above[p] /\ l[c] = None BY <1>5
      <3>2. c = Root BY <1>10, <3>1
      <3>3. q = Root BY <3>2, TreeAssumption
      <3>. QED BY <1>10, <3>1, <3>2, <3>3
    <2>4. n[q] = l[q] BY <1>3, <2>1, <2>2, <2>3
    <2>. QED BY <1>6, <1>10, <2>1, <2>4
  <1>. QED BY <1>1, <1>7, <1>9, <1>10

\* ... so that nothing above a standing directory does.
LEMMA PutSpares ==
  ASSUME NEW l, Treelike(l), NEW p \in Paths \ {Root}, Clear(l, p),
         NEW item \in Items, item.kind = "dir" \/ Bare(l, p), NEW m, m = Put(l, p, item),
         NEW y \in Above[p], Stands(l, y), NEW q \in Above[y]
  PROVE  m[q] = l[q]
  <1>1. y \in Paths /\ q \in Above[p] /\ q \in Paths /\ q \notin Above[q] /\ y \notin Above[q] /\ l[y] # None
    BY AboveKey, AboveTrans DEF Stands
  <1>2. l[q] # None BY <1>1, AncestorsStand DEF Stands
  <1>3. q # Up[p]
    <2>1. y = Up[p] \/ y \in Above[Up[p]] BY AboveUp
    <2>. QED BY <1>1, <2>1
  <1>4. ASSUME NEW c \in Above[p] \ {Root}, Up[c] = q, l[c] = None PROVE FALSE
    <2>1. c \in Paths \ {Root} /\ Above[c] = {q} \cup Above[q] BY <1>4, AboveKey, AboveUp
    <2>2. c = y \/ c \in Above[y] \/ y \in Above[c] BY Related
    <2>3. CASE c = y BY <1>1, <1>4, <2>3
    <2>4. CASE c \in Above[y] BY <1>1, <1>4, <2>4, AncestorsStand DEF Stands
    <2>5. CASE y \in Above[c]
      <3>1. y = q \/ y \in Above[q] BY <2>1, <2>5
      <3>2. q \in Above[q] BY <1>1, <3>1
      <3>. QED BY <1>1, <3>2
    <2>. QED BY <2>2, <2>3, <2>4, <2>5
  <1>5. \/ m[q] = l[q] \/ q = Up[p] \/ l[q] = None
        \/ \E c \in Above[p] \ {Root} : Up[c] = q /\ l[c] = None
    BY <1>1, PutExact
  <1>. QED BY <1>2, <1>3, <1>4, <1>5

LEMMA RemovedExact ==
  ASSUME NEW l, Treelike(l), NEW p \in Paths \ {Root}, l[p] # None, NEW m, m = Removed(l, p)
  PROVE  /\ \A q \in Paths : ~InSubtree(p, q) /\ q # Up[p] => m[q] = l[q]
         /\ \A q \in Paths : InSubtree(p, q) => m[q] = None
         /\ \A q \in Paths : ~InSubtree(p, q) /\ Stands(l, q) => Stands(m, q)
  <1>1. PICK S : S = {q \in Paths : InSubtree(p, q)} OBVIOUS
  <1>2. (\A q \in S : m[q] = None) /\ Keeps(l, m, S) BY <1>1, RemovedLeaves
  <1>3. \A q \in Paths : ~InSubtree(p, q) /\ Stands(l, q) => Stands(m, q)
    BY <1>1, <1>2, StandsStill
  <1>4. \A q \in Paths : ~InSubtree(p, q) /\ q # Up[p] => m[q] = l[q] BY DEF Removed
  <1>. QED BY <1>1, <1>2, <1>3, <1>4

LEMMA PlacedExact ==
  ASSUME Unfolded, Treelike(loc), NEW p \in Paths \ {Root}, ~Blocked(p),
         NEW item \in Items, NEW m, m = Put(Cleared(p), p, item)
  PROVE  /\ m[p] = item
         /\ \A q \in Paths : ~InSubtree(p, q) /\ q \notin Above[p] => m[q] = loc[q]
         /\ ~Stands(loc, p) => \A q \in Paths : p \in Above[q] => m[q] = loc[q]
         /\ \A q \in Above[p] : Stands(m, q)
         /\ \A q \in Above[p], y \in Above[p] : Stands(loc, y) /\ q \in Above[y] => m[q] = loc[q]
  <1>1. PICK c : c = Cleared(p) OBVIOUS
  <1>2. Treelike(c) /\ c[p] = None /\ Clear(c, p) BY <1>1, ClearedIs
  <1>3. Bare(c, p) BY <1>2, LeafIsBare DEF Stands
  <1>4. m = Put(c, p, item) BY <1>1
  <1>5. /\ m[p] = item /\ \A q \in Paths : q # p /\ q \notin Above[p] => m[q] = c[q]
        /\ \A q \in Above[p] : Stands(m, q)
    <2>1. /\ Treelike(m) /\ m[p] = item
          /\ Keeps(c, m, {p}) /\ Adds(c, m, Above[p] \cup {p})
      BY <1>2, <1>3, <1>4, PutMakes
    <2>2. /\ \A q \in Paths : q # p /\ q \notin Above[p] => m[q] = c[q]
          /\ \A q \in Above[p] : Stands(m, q)
      BY <1>2, <1>3, <1>4, PutExact
    <2>. QED BY <2>1, <2>2
  <1>6. c = IF loc[p] = None THEN loc ELSE Removed(loc, p) BY <1>1, OneNameIs DEF Cleared
  <1>7. /\ \A q \in Paths : ~InSubtree(p, q) /\ q # Up[p] => c[q] = loc[q]
        /\ \A q \in Paths : ~InSubtree(p, q) /\ Stands(loc, q) => Stands(c, q)
    <2>1. CASE loc[p] = None BY <1>6, <2>1
    <2>2. CASE loc[p] # None BY <1>6, <2>2, RemovedExact
    <2>. QED BY <2>1, <2>2
  <1>8. \A q \in Above[p] : q \in Paths /\ q # p /\ ~InSubtree(p, q)
    BY AboveKey, AboveTrans DEF InSubtree
  <1>9. \A q \in Paths : ~InSubtree(p, q) /\ q \notin Above[p] => m[q] = loc[q]
    <2>1. Up[p] \in Above[p] BY AboveTypes
    <2>. QED BY <1>5, <1>7, <2>1 DEF InSubtree
  <1>10. ASSUME ~Stands(loc, p), NEW q \in Paths, p \in Above[q] PROVE m[q] = loc[q]
    <2>1. loc[q] = None BY <1>10, LeafIsBare, NothingIn
    <2>2. c[q] = None
      <3>1. CASE loc[p] = None BY <1>6, <2>1, <3>1
      <3>2. CASE loc[p] # None BY <1>6, <1>10, <3>2, RemovedExact DEF InSubtree
      <3>. QED BY <3>1, <3>2
    <2>3. q # p /\ q \notin Above[p] BY <1>8, <1>10, AboveKey DEF InSubtree
    <2>. QED BY <1>5, <2>1, <2>2, <2>3
  <1>11. ASSUME NEW q \in Above[p], NEW y \in Above[p], Stands(loc, y), q \in Above[y]
         PROVE  m[q] = loc[q]
    <2>1. Stands(c, y) BY <1>7, <1>8, <1>11
    <2>2. m[q] = c[q] BY <1>2, <1>3, <1>4, <1>11, <2>1, PutSpares
    <2>3. q # Up[p]
      <3>1. y = Up[p] \/ y \in Above[Up[p]] BY <1>11, AboveUp
      <3>2. q \notin Above[q] /\ y \notin Above[q] BY <1>8, <1>11, AboveKey, AboveTrans
      <3>. QED BY <1>11, <3>1, <3>2
    <2>. QED BY <1>7, <1>8, <1>11, <2>2, <2>3
  <1>. QED BY <1>5, <1>9, <1>10, <1>11

\* What the apply does at a record, and to the directories above it.
LEMMA EffectExact ==
  ASSUME Unfolded, Inv, NEW p \in Recorded, NEW d, NEW v, v = VerdictOn(p, d),
         Writes(p, v) => ~Blocked(p), v = "dir" /\ ~IsDir(p) => Found(p) = None,
         NEW m, m = Effect(p, v, d)
  PROVE  /\ \A q \in Paths : q # p /\ q \notin Above[p] => m[q] = loc[q]
         /\ ~Writes(p, v) => \A q \in Paths \ {p} : m[q] = loc[q]
         /\ \A q \in Above[p] : Stands(loc, q) => Stands(m, q)
         /\ \A q \in Above[p], y \in Above[p] : Stands(loc, y) /\ q \in Above[y] => m[q] = loc[q]
         /\ v = "stamp" => loc[p] # None /\ loc[p].kind = rec[p].kind /\ m[p] = Stamped(rec[p], loc[p])
         /\ v = "place" => LinkRec(p) /\ m[p] = LinkAt(rec[p])
         /\ v = "dir" => DirRec(p) /\ Stands(m, p) /\ (Stands(loc, p) => m = loc)
         /\ v \notin {"stamp", "place", "dir"} =>
              m[p] = IF v = "stale" \/ (v \in {"keep", "conflict"} /\ opts.update /\ d # "D")
                     THEN Was(loc[p], prep[p]) ELSE loc[p]
         /\ v = "defer" => LinkRec(p)
         /\ v = "place" => ~Stands(loc, p)
         /\ \A q \in Above[p] : m[q] = loc[q] \/ Stands(m, q)
  <1>0. /\ p \in Paths /\ Treelike(loc) /\ Disk(p) = p /\ Found(p) = loc[p] /\ rec[p] # None
        /\ (IsDir(p) <=> Stands(loc, p)) /\ Unprepped(p) = Was(loc[p], prep[p])
        /\ Repermitted(p) = [loc EXCEPT ![p] = Was(loc[p], prep[p])]
        /\ prep[p] \in Modes \cup {None} /\ loc[p] \in Slot
    BY OneNameIs, UnpreppedWas DEF Recorded, Inv, Typed, Treelike
  <1>1. /\ v \in {"place", "defer"} => LinkRec(p)
        /\ v = "dir" => DirRec(p)
        /\ v = "stamp" => /\ Found(p) # None /\ Found(p).kind = rec[p].kind
                          /\ m = [loc EXCEPT ![Disk(p)] = Stamped(rec[p], Found(p))]
    <2>1. Typed BY DEF Inv
    <2>2. v = "dir" /\ ~IsDir(p) => Found(p) = None OBVIOUS
    <2>3. /\ Treelike(m) /\ Keeps(loc, m, {p} \cup Swept(p))
          /\ v \in {"place", "defer"} => LinkRec(p)
          /\ v = "dir" => DirRec(p)
          /\ v = "stamp" => /\ ~DirRec(p) /\ ~LinkRec(p) /\ Found(p) # None
                            /\ Found(p).kind = rec[p].kind
                            /\ m = [loc EXCEPT ![Disk(p)] = Stamped(rec[p], Found(p))]
          /\ v \notin {"stamp", "place", "dir"} /\ prep[p] = None => m = loc
          /\ v = "dir" => Keeps(loc, m, {p, Disk(p)})
      BY <2>1, <2>2, EffectIs
    <2>. QED BY <2>3
  <1>2. /\ rec[p].mode \in Modes /\ rec[p].mtime \in Nat \cup {NoMtime}
        /\ rec[p].kind = "link" => rec[p].what \in Data
        /\ rec[Root] # None => rec[Root].kind = "dir"
    BY <1>0, GivenFacts DEF Inv, Typed
  <1>3. v = "place" => ~Stands(loc, p)
    <2>1. PICK x, y : /\ x = (IF opts.update /\ d # "D" THEN Was(loc[p], prep[p]) ELSE loc[p])
                      /\ y = Dangling(rec[p])
      OBVIOUS
    <2>2. v = ApplyVerdict(rec[p], x, d, opts.update, y) BY <1>0, <2>1 DEF VerdictOn
    <2>3. Stands(loc, p) => x # None /\ x.kind = "dir" BY <1>0, <2>1, WasIs DEF Stands
    <2>4. v = "place" => v = ApplyLink(rec[p], x, opts.update /\ d = None, y)
      BY <2>2 DEF ApplyVerdict, ApplyOther, Ordered, Repair, Kept
    <2>5. ApplyLink(rec[p], x, opts.update /\ d = None, y) = "place" => ~(x # None /\ x.kind = "dir")
      BY DEF ApplyLink, Kept
    <2>. QED BY <2>3, <2>4, <2>5
  <1>4. CASE v = "stamp"
    <2>1. m = [loc EXCEPT ![p] = Stamped(rec[p], loc[p])] /\ loc[p] # None /\ loc[p].kind = rec[p].kind
      BY <1>0, <1>1, <1>4
    <2>2. loc \in [Paths -> Slot] BY <1>0 DEF Treelike
    <2>3. m[p] = Stamped(rec[p], loc[p]) /\ \A q \in Paths \ {p} : m[q] = loc[q]
      BY <1>0, <2>1, <2>2
    <2>4. \A q \in Above[p] : q \in Paths \ {p} BY <1>0, AboveKey
    <2>. QED BY <1>4, <2>1, <2>3, <2>4 DEF Stands
  <1>5. CASE v \in {"place", "dir"} /\ ~Stands(loc, p) /\ p # Root
    <2>1. PICK item : item = IF v = "place" THEN LinkAt(rec[p]) ELSE NewDir OBVIOUS
    <2>2. item \in Items /\ (v = "dir" => item.kind = "dir" /\ item # None)
      BY <1>1, <1>2, <1>5, <2>1, LinkItem, NewDirItem DEF LinkRec
    <2>3. ~Blocked(p) /\ m = Put(Cleared(p), p, item)
      <3>1. v = "dir" => Cleared(p) = loc BY <1>0, <1>5 DEF Cleared
      <3>. QED BY <1>0, <1>5, <2>1, <3>1 DEF Writes, Effect
    <2>4. /\ m[p] = item
          /\ \A q \in Paths : ~InSubtree(p, q) /\ q \notin Above[p] => m[q] = loc[q]
          /\ \A q \in Paths : p \in Above[q] => m[q] = loc[q]
          /\ \A q \in Above[p] : Stands(m, q)
          /\ \A q \in Above[p], y \in Above[p] : Stands(loc, y) /\ q \in Above[y] => m[q] = loc[q]
      BY <1>0, <1>5, <2>2, <2>3, PlacedExact
    <2>5. \A q \in Paths : q # p /\ q \notin Above[p] => m[q] = loc[q] BY <2>4 DEF InSubtree
    <2>6. Writes(p, v) BY <1>0, <1>5 DEF Writes
    <2>7. v = "place" => m[p] = LinkAt(rec[p]) BY <2>1, <2>4
    <2>8. v = "dir" => Stands(m, p) BY <2>2, <2>4 DEF Stands
    <2>. QED BY <1>1, <1>5, <2>4, <2>5, <2>6, <2>7, <2>8
  <1>6. CASE v \in {"place", "dir"} /\ ~Stands(loc, p) /\ p = Root
    <2>1. v = "dir" /\ DirRec(p) BY <1>1, <1>2, <1>6 DEF LinkRec
    <2>2. loc[Root] = None BY <1>0, <1>6 DEF Stands, Treelike
    <2>3. m = Put(loc, Root, NewDir) BY <1>0, <1>6, <2>1, <2>2 DEF Effect, Cleared
    <2>4. Stands(m, Root) /\ Adds(loc, m, {Root}) BY <1>0, <2>3, PutRoot
    <2>5. \A q \in Paths \ {Root} : m[q] = loc[q] BY <1>0, <2>2, <2>4, EmptyTree DEF Adds
    <2>6. Above[p] = {} BY <1>6, AboveTypes
    <2>7. Writes(p, v) BY <1>0, <1>6, <2>1 DEF Writes
    <2>. QED BY <1>6, <2>1, <2>4, <2>5, <2>6, <2>7
  <1>7. CASE v = "dir" /\ Stands(loc, p)
    <2>1. m = loc BY <1>0, <1>7 DEF Effect
    <2>. QED BY <1>1, <1>7, <2>1
  <1>8. CASE v \notin {"stamp", "place", "dir"}
    <2>1. PICK e : e = (v = "stale" \/ (v \in {"keep", "conflict"} /\ opts.update /\ d # "D")) OBVIOUS
    <2>2. m = IF e THEN [loc EXCEPT ![p] = Was(loc[p], prep[p])] ELSE loc BY <1>0, <1>8, <2>1 DEF Effect
    <2>3. loc \in [Paths -> Slot] BY <1>0 DEF Treelike
    <2>4. m[p] = (IF e THEN Was(loc[p], prep[p]) ELSE loc[p]) /\ \A q \in Paths \ {p} : m[q] = loc[q]
      BY <1>0, <2>2, <2>3
    <2>5. \A q \in Above[p] : q \in Paths \ {p} BY <1>0, AboveKey
    <2>. QED BY <1>1, <1>8, <2>1, <2>4, <2>5 DEF Stands
  <1>. QED BY <1>3, <1>4, <1>5, <1>6, <1>7, <1>8

-----------------------------------------------------------------------------
(* What every step rests on: the sync begins afresh and spools in key      *)
(* order; a recorded leaf without an object is only ever spooled as gone;  *)
(* and the writable prep took its modes from the files the pull met, which *)
(* keep all else until something lands in their place.                     *)
Gone ==
  \A n \in 1..Len(spool) : \A p \in Paths \ {Root} :
    spool[n].key = LeafKey[p] /\ obj[p] = None => spool[n].say = "G"
Prepped ==
  \A p \in Paths : prep[p] # None =>
    /\ p \in Recorded /\ orig[p] # None /\ orig[p].kind = "file" /\ prep[p] = orig[p].mode
    /\ phase = "sync" /\ obj[p] = None => loc[p] = [orig[p] EXCEPT !.mode = Opened[prep[p]]]
Grounded == Begun /\ Behind /\ Gone /\ Prepped /\ (pass = 2 => prep = NoPrep)

(* The spool and its cursor: a lookup hits when there is a line to hit.    *)

Spells(s, key, say) == \E n \in 1..Len(s) : s[n].key = key /\ s[n].say = say
Spooled(key, say) == Spells(spool, key, say)
\* Nothing before line n stops a lookup of its key.
Leading(s, n) == \A k \in 1..Len(s) : k < n => s[k].key < s[n].key
\* The line of a leaf leads; so does the first of the lines of a directory, which
\* all say that it was downloaded into.
Lined(s) ==
  /\ \A n \in 1..Len(s), p \in Paths \ {Root} : s[n].key = LeafKey[p] => Leading(s, n)
  /\ \A n \in 1..Len(s), c \in Paths :
       s[n].key = DirKey[c] => \E k \in 1..Len(s) : s[k] = Line("D", DirKey[c]) /\ Leading(s, k)
CursorFits == phase = "apply" => \A n \in 1..Len(spool) : at <= spool[n].key => cur <= n

\* Under -u, whatever a line is about, what is to land and where the last walk
\* went: each directory above it stands or is spooled.
Known(l, s, c) == Stands(l, c) \/ Spells(s, DirKey[c], "D")
LineOf(line, q) == (q # Root /\ line.key = LeafKey[q]) \/ line.key = DirKey[q]
Walked(l, s, t, w) ==
  /\ \A n \in 1..Len(s) : \E q \in Paths : LineOf(s[n], q) /\ \A c \in Above[q] : Known(l, s, c)
  /\ \A x \in t : \A c \in Above[x] : Known(l, s, c)
  /\ w # None => w \in Paths /\ \A c \in Above[w] \cup {w} : Known(l, s, c)
WalkFits ==
  /\ phase = "sync" /\ opts.update => Walked(loc, spool, todo, walked)
  /\ phase \in {"start", "vet", "make", "prep"} => walked = None
SpoolFits == Lined(spool) /\ CursorFits /\ WalkFits

\* Every member is somewhere in its ascending sequence.
LEMMA AscendingCovers ==
  ASSUME NEW S \in SUBSET Paths, NEW q \in S
  PROVE  \E n \in 1..Cardinality(S) : Ascending(S)[n] = q
  <1>. PICK f, N : f = Ascending(S) /\ N = Cardinality(S) OBVIOUS
  <1>. SUFFICES ASSUME \A n \in 1..N : f[n] # q PROVE FALSE OBVIOUS
  <1>1. /\ N \in Nat /\ f \in [1..N -> S]
        /\ \A m, n \in 1..N : m < n => DirKey[f[m]] < DirKey[f[n]]
    BY AscendingIs
  <1>2. IsFiniteSet(S) BY FS_Subset, TreeAssumption
  <1>3. PICK T : T = S \ {q} OBVIOUS
  <1>4. IsFiniteSet(T) /\ Cardinality(T) = N - 1 BY <1>2, <1>3, FS_RemoveElement
  <1>5. PICK I : I = 1..N OBVIOUS
  <1>6. IsFiniteSet(I) /\ Cardinality(I) = N
    <2>0. 1 \in Int /\ N \in Int BY <1>1
    <2>1. IsFiniteSet(1..N) /\ Cardinality(1..N) = IF 1 > N THEN 0 ELSE N - 1 + 1
      BY <2>0, FS_Interval
    <2>2. (IF 1 > N THEN 0 ELSE N - 1 + 1) = N BY <1>1
    <2>. QED BY <1>5, <2>1, <2>2
  <1>7. f \in [I -> T] BY <1>1, <1>3, <1>5
  <1>8. Cardinality(T) < Cardinality(I) BY <1>1, <1>4, <1>6
  <1>9. PICK i, j \in I : i # j /\ f[i] = f[j] BY <1>2, <1>4, <1>6, <1>7, <1>8, FS_PigeonHole
  <1>10. i \in 1..N /\ j \in 1..N /\ (i < j \/ j < i) BY <1>1, <1>5, <1>9
  <1>11. f[i] \in Paths /\ DirKey[f[i]] \in Nat BY <1>1, <1>10, KeysDiffer
  <1>12. DirKey[f[i]] < DirKey[f[i]] BY <1>1, <1>9, <1>10
  <1>. QED BY <1>11, <1>12

\* What a decision spools: the directories to be made, in key order, then p.
LEMMA DecidedRun ==
  ASSUME Unfolded, NEW p \in Paths \ {Root}, NEW v \in Verdicts, NEW s, s = Decided(p, v)
  PROVE  /\ s \in Seq(Lines)
         /\ \A n \in 1..Len(s) :
              \/ /\ v.get /\ opts.update
                 /\ \E c \in Above[p] : ~Stands(loc, c) /\ s[n] = Line("D", DirKey[c])
              \/ v.say # None /\ s[n] = Line(v.say, LeafKey[p])
         /\ \A i, j \in 1..Len(s) : i < j => s[i].key < s[j].key
         /\ v.say # None => \E n \in 1..Len(s) : s[n] = Line(v.say, LeafKey[p])
         /\ v.get /\ opts.update /\ walked # Up[p] =>
              \A c \in Above[p] : Stands(loc, c) \/ \E n \in 1..Len(s) : s[n] = Line("D", DirKey[c])
  <1>1. PICK S, c : S = {q \in Above[p] : ~IsDir(q)} /\ c = Chain(p) OBVIOUS
  <1>2. S \in SUBSET Paths /\ \A q \in S : q \in Above[p] /\ ~Stands(loc, q)
    BY <1>1, AboveTypes, OneNameIs
  <1>3. /\ c \in Seq(Paths) /\ Len(c) \in Nat
        /\ \A n \in 1..Len(c) : c[n] \in S
        /\ \A i, j \in 1..Len(c) : i < j => DirKey[c[i]] < DirKey[c[j]]
        /\ opts.update /\ walked # Up[p] => \A q \in S : \E n \in 1..Len(c) : c[n] = q
        /\ ~opts.update => Len(c) = 0
    <2>1. CASE opts.update /\ walked # Up[p]
      <3>1. PICK N : N = Cardinality(S) OBVIOUS
      <3>2. c = Ascending(S) BY <1>1, <2>1 DEF Chain
      <3>3. /\ N \in Nat /\ c \in [1..N -> S]
            /\ \A i, j \in 1..N : i < j => DirKey[c[i]] < DirKey[c[j]]
        BY <1>2, <3>1, <3>2, AscendingIs
      <3>4. c \in Seq(Paths) /\ Len(c) = N BY <1>2, <3>3, IsASeq
      <3>5. \A q \in S : \E n \in 1..N : c[n] = q BY <1>2, <3>1, <3>2, AscendingCovers
      <3>. QED BY <2>1, <3>3, <3>4, <3>5
    <2>2. CASE ~(opts.update /\ walked # Up[p])
      <3>1. c = <<>> BY <1>1, <2>2 DEF Chain
      <3>. QED BY <2>2, <3>1, EmptySeq
    <2>. QED BY <2>1, <2>2
  <1>4. PICK a : a = IF v.get THEN [n \in 1..Len(c) |-> Line("D", DirKey[c[n]])] ELSE <<>>
    OBVIOUS
  <1>5. PICK b : b = IF v.say # None THEN <<Line(v.say, LeafKey[p])>> ELSE <<>>
    OBVIOUS
  <1>6. /\ a \in Seq(Lines) /\ Len(a) \in Nat
        /\ v.get => Len(a) = Len(c) /\ \A n \in 1..Len(a) : a[n] = Line("D", DirKey[c[n]])
        /\ ~v.get => Len(a) = 0
    <2>1. CASE v.get
      <3>1. \A n \in 1..Len(c) : Line("D", DirKey[c[n]]) \in Lines
        BY <1>2, <1>3, KeysDiffer DEF Line, Lines
      <3>2. a \in [1..Len(c) -> Lines] BY <1>4, <2>1, <3>1
      <3>3. a \in Seq(Lines) /\ Len(a) = Len(c) BY <1>3, <3>2, IsASeq
      <3>4. \A n \in 1..Len(a) : a[n] = Line("D", DirKey[c[n]]) BY <1>4, <2>1, <3>3
      <3>. QED BY <1>3, <2>1, <3>3, <3>4
    <2>2. CASE ~v.get BY <1>4, <2>2, EmptySeq
    <2>. QED BY <2>1, <2>2
  <1>7. /\ b \in Seq(Lines) /\ Len(b) \in Nat
        /\ v.say # None => Len(b) = 1 /\ b[1] = Line(v.say, LeafKey[p])
        /\ v.say = None => Len(b) = 0
    <2>1. v.say # None => Line(v.say, LeafKey[p]) \in Lines
      BY KeysDiffer DEF Line, Lines, Verdicts
    <2>. QED BY <1>5, <2>1, EmptySeq
  <1>8. s = a \o b BY <1>1, <1>4, <1>5 DEF Decided
  <1>9. /\ s \in Seq(Lines) /\ Len(s) = Len(a) + Len(b)
        /\ \A i \in 1..Len(a) + Len(b) : s[i] = IF i <= Len(a) THEN a[i] ELSE b[i - Len(a)]
    BY <1>6, <1>7, <1>8, ConcatProperties
  <1>10. PICK k, j0 \in Nat : k = Len(a) /\ j0 = Len(s) BY <1>6, <1>7, <1>9
  <1>11. /\ \A n \in 1..k : n \in 1..j0 /\ s[n] = a[n]
         /\ v.say # None => j0 = k + 1 /\ k + 1 \in 1..j0 /\ s[k + 1] = Line(v.say, LeafKey[p])
         /\ v.say = None => j0 = k
    <2>0. PICK h \in Nat : h = Len(b) BY <1>7
    <2>1. j0 = k + h /\ (v.say # None => h = 1) /\ (v.say = None => h = 0)
      BY <1>7, <1>9, <1>10, <2>0
    <2>2. \A n \in 1..k : n \in 1..j0 /\ n <= k BY <2>1
    <2>3. \A n \in 1..j0 : s[n] = IF n <= k THEN a[n] ELSE b[n - k] BY <1>9, <1>10, <2>0, <2>1
    <2>4. v.say # None => k + 1 \in 1..j0 /\ ~(k + 1 <= k) /\ k + 1 - k = 1 BY <2>1
    <2>5. v.say # None => s[k + 1] = b[1] BY <2>3, <2>4
    <2>. QED BY <1>7, <2>1, <2>2, <2>3, <2>4, <2>5
  <1>12. \A n \in 1..k : v.get /\ opts.update /\ c[n] \in S /\ a[n] = Line("D", DirKey[c[n]])
    BY <1>3, <1>6, <1>10
  <1>13. \A n \in 1..j0 : n \in 1..k \/ (n = k + 1 /\ v.say # None) BY <1>10, <1>11
  <1>14. \A n \in 1..j0 :
              \/ /\ v.get /\ opts.update
                 /\ \E q \in Above[p] : ~Stands(loc, q) /\ s[n] = Line("D", DirKey[q])
              \/ v.say # None /\ s[n] = Line(v.say, LeafKey[p])
    <2>. SUFFICES ASSUME NEW n \in 1..j0
                  PROVE  \/ /\ v.get /\ opts.update
                            /\ \E q \in Above[p] : ~Stands(loc, q) /\ s[n] = Line("D", DirKey[q])
                         \/ v.say # None /\ s[n] = Line(v.say, LeafKey[p])
      OBVIOUS
    <2>1. CASE n \in 1..k BY <1>2, <1>11, <1>12, <2>1
    <2>2. CASE n = k + 1 /\ v.say # None BY <1>11, <2>2
    <2>. QED BY <1>13, <2>1, <2>2
  <1>15. ASSUME NEW i \in 1..j0, NEW j \in 1..j0, i < j PROVE s[i].key < s[j].key
    <2>1. i \in 1..k BY <1>10, <1>11, <1>15
    <2>0. \A n \in 1..k : s[n].key = DirKey[c[n]] /\ c[n] \in S
      <3>. SUFFICES ASSUME NEW n \in 1..k PROVE s[n].key = DirKey[c[n]] /\ c[n] \in S OBVIOUS
      <3>1. s[n] = Line("D", DirKey[c[n]]) BY <1>11, <1>12
      <3>. QED BY <1>12, <3>1 DEF Line
    <2>2. s[i].key = DirKey[c[i]] /\ c[i] \in S BY <2>0, <2>1
    <2>3. CASE j \in 1..k
      <3>1. s[j].key = DirKey[c[j]] BY <2>0, <2>3
      <3>2. i \in 1..Len(c) /\ j \in 1..Len(c) BY <1>6, <1>10, <1>12, <2>1, <2>3
      <3>. QED BY <1>3, <1>15, <2>2, <3>1, <3>2
    <2>4. CASE j = k + 1 /\ v.say # None
      <3>1. s[j].key = LeafKey[p] BY <1>11, <2>4 DEF Line
      <3>2. DirKey[c[i]] < LeafKey[p] BY <1>2, <2>2, AboveKey
      <3>. QED BY <2>2, <3>1, <3>2
    <2>. QED BY <1>13, <2>3, <2>4
  <1>16. ASSUME v.get, opts.update, walked # Up[p], NEW q \in Above[p], ~Stands(loc, q)
         PROVE  \E n \in 1..j0 : s[n] = Line("D", DirKey[q])
    <2>1. q \in S BY <1>1, <1>16, AboveTypes, OneNameIs
    <2>2. PICK n \in 1..Len(c) : c[n] = q BY <1>3, <1>16, <2>1
    <2>3. n \in 1..k BY <1>6, <1>10, <1>16, <2>2
    <2>. QED BY <1>11, <1>12, <2>2, <2>3
  <1>17. \A i, j \in 1..Len(s) : i < j => s[i].key < s[j].key BY <1>10, <1>15
  <1>. QED BY <1>9, <1>10, <1>11, <1>14, <1>16, <1>17

\* One decision, when every path is its own: the verdict and all that it changes.
DecidedFor(p) ==
  IF LeafKey[p] \in opts.excluded THEN Leave
  ELSE SyncVerdict(LeafRec(p), Was(loc[p], prep[p]), obj[p], Listed(loc[p]), opts)
Struck(p) == DecidedFor(p).say = "D" /\ loc[p] # None /\ loc[p].kind = "special"

LEMMA DecideExact ==
  ASSUME Unfolded, Inv, Decide
  PROVE  /\ phase = "sync" /\ phase' = "sync"
         /\ UNCHANGED <<rec, obj, opts, orig, cur, frames, deferred, post, prep, open, gone, asked, bad, pass, status>>
         /\ \E p \in Unseen :
              /\ \A q \in Unseen : LeafKey[p] <= LeafKey[q]
              /\ at' = LeafKey[p] + 1 /\ spool' = spool \o Decided(p, DecidedFor(p))
              /\ DecidedFor(p) \in Verdicts
              /\ walked' = IF opts.update /\ DecidedFor(p).get /\ ~Listed(loc[p]) THEN Up[p] ELSE walked
              /\ todo' = IF DecidedFor(p).get THEN todo \cup {p} ELSE todo
              /\ told' = IF DecidedFor(p).warn THEN told \cup {p} ELSE told
              /\ loc' = IF Struck(p) THEN Removed(loc, p) ELSE loc
  <1>1. PICK p : p = First(Unseen, LeafKey) OBVIOUS
  <1>2. Unseen \in SUBSET Paths BY DEF Unseen
  <1>3. p \in Unseen /\ p \in Paths /\ \A q \in Unseen : LeafKey[p] <= LeafKey[q]
    BY <1>1, <1>2, FirstIs, TreeAssumption DEF Decide
  <1>4. Unprepped(p) = Was(loc[p], prep[p]) /\ Found(p) = loc[p] /\ Disk(p) = p
    BY <1>3, OneNameIs, UnpreppedWas DEF Inv, Typed
  <1>5. PICK v : v = IF LeafKey[p] \in opts.excluded THEN Leave
                     ELSE SyncVerdict(LeafRec(p), Unprepped(p), obj[p], Listed(loc[p]), opts)
    OBVIOUS
  <1>6. v = DecidedFor(p) /\ v = Decision1(p) BY <1>4, <1>5 DEF DecidedFor, Decision1
  <1>7. v \in Verdicts BY <1>3, <1>6, SyncVerdictIs DEF Inv
  <1>8. /\ at' = LeafKey[p] + 1 /\ spool' = spool \o Decided(p, v)
        /\ walked' = IF opts.update /\ v.get /\ ~Listed(loc[p]) THEN Up[p] ELSE walked
        /\ todo' = IF v.get THEN todo \cup {p} ELSE todo
        /\ told' = IF v.warn THEN told \cup {p} ELSE told
        /\ loc' = IF v.say = "D" /\ Found(p) # None /\ Found(p).kind = "special"
                  THEN Removed(loc, Disk(p)) ELSE loc
    BY <1>1, <1>5 DEF Decide
  <1>9. /\ phase = "sync" /\ phase' = "sync"
        /\ UNCHANGED <<rec, obj, opts, orig, cur, frames, deferred, post, prep, open, gone, asked, bad, pass, status>>
    BY DEF Decide, world, applying, pruning
  <1>10. loc' = IF Struck(p) THEN Removed(loc, p) ELSE loc BY <1>4, <1>6, <1>8 DEF Struck
  <1>. QED BY <1>3, <1>6, <1>7, <1>8, <1>9, <1>10

\* What a verdict of the sync means, for the record and the tree it looked at.
LEMMA SaidOf ==
  ASSUME Inv, NEW p \in Unseen, NEW v, v = DecidedFor(p)
  PROVE  /\ opts.update => (v.get <=> v.say = "D")
         /\ v.get \/ v.say # None => LeafKey[p] \notin opts.excluded
         /\ v.say \in {"K", "G"} => loc[p] # None
         /\ v.say = "K" => opts.update
         /\ opts.update /\ v.say = "D" /\ LeafRec(p) = None => loc[p] = None
         /\ v.say = "K" /\ p \in Nondirs => v.warn \/ OrderedSide(rec[p], Was(loc[p], prep[p])) = "local"
  <1>1. None \notin {"D", "K", "G"} BY ItemAssumption
  <1>2. PICK r, i, o, c, li : /\ r = LeafRec(p) /\ i = Was(loc[p], prep[p]) /\ o = obj[p] /\ c = opts.checksum
                              /\ li = Listed(loc[p])
    OBVIOUS
  <1>a. (i = None <=> loc[p] = None) /\ (li => i # None)
    <2>1. p \in Paths /\ loc[p] \in Slot /\ prep[p] \in Modes \cup {None}
      BY DEF Unseen, Inv, Typed, Treelike
    <2>. QED BY <1>2, <2>1, WasIs DEF Listed
  <1>3. r # None => r = rec[p] BY <1>2 DEF LeafRec
  <1>4. p \in Nondirs => r # None BY <1>2 DEF LeafRec, Nondirs, Recorded
  <1>5. o # None \/ li BY <1>2 DEF Unseen
  <1>6. /\ ~Leave.get /\ Leave.say = None
        /\ Fetch.get /\ Fetch.say = None
        /\ Download.get /\ Download.say = "D"
        /\ ~Keep.get /\ Keep.say = "K" /\ ~Conflict.get /\ Conflict.say = "K" /\ Conflict.warn
        /\ ~Residue.get /\ Residue.say = None
    BY DEF Leave, Fetch, Download, Keep, Conflict, Residue, Says
  <1>7. CASE LeafKey[p] \in opts.excluded
    <2>1. v = Leave BY <1>7 DEF DecidedFor
    <2>. QED BY <1>1, <1>6, <2>1
  <1>8. CASE LeafKey[p] \notin opts.excluded /\ o = None
    <2>1. v = Orphan(r) BY <1>2, <1>8 DEF DecidedFor, SyncVerdict
    <2>2. i # None BY <1>a, <1>5, <1>8
    <2>3. v = Leave \/ (~v.get /\ v.say = "G") BY <2>1 DEF Orphan, Says
    <2>. QED BY <1>1, <1>2, <1>a, <1>6, <1>8, <2>2, <2>3
  <1>9. CASE LeafKey[p] \notin opts.excluded /\ o # None /\ ~opts.update
    <2>1. v = IF li THEN PlainPair(r, i, o, c) ELSE PlainCreate(r, i)
      BY <1>2, <1>9 DEF DecidedFor, SyncVerdict
    <2>2. PlainPair(r, i, o, c) \in {Leave, Fetch} BY DEF PlainPair
    <2>3. PlainCreate(r, i) \in {Leave, Fetch, Download, Residue} BY DEF PlainCreate
    <2>4. v.say \notin {"K", "G"} BY <1>1, <1>6, <2>1, <2>2, <2>3
    <2>. QED BY <1>9, <2>4
  <1>10. CASE LeafKey[p] \notin opts.excluded /\ o # None /\ opts.update
    <2>0. OrderedSide(r, i) \in {"tie", "local", "record"} BY SideIs
    <2>1. v = IF li THEN UpdatePair(r, i, o, c) ELSE UpdateCreate(r, i)
      BY <1>2, <1>10 DEF DecidedFor, SyncVerdict
    <2>2. CASE li
      <3>1. i # None BY <1>a, <2>2
      <3>2. v = UpdatePair(r, i, o, c) BY <2>1, <2>2
      <3>3. /\ v \in {Leave, Download, Conflict} \/ (v = Keep /\ OrderedSide(r, i) = "local")
            /\ r = None => v = Conflict
        BY <2>0, <3>2 DEF UpdatePair
      <3>. QED BY <1>1, <1>2, <1>a, <1>3, <1>4, <1>6, <1>10, <3>1, <3>3
    <2>3. CASE ~li
      <3>2. v = UpdateCreate(r, i) BY <2>1, <2>3
      <3>3. /\ v \in {Leave, Download, Conflict} \/ (v = Keep /\ OrderedSide(r, i) = "local")
            /\ i = None => v \in {Leave, Download}
            /\ r = None => i = None \/ v = Conflict
        BY <2>0, <3>2 DEF UpdateCreate
      <3>. QED BY <1>1, <1>2, <1>a, <1>3, <1>4, <1>6, <1>10, <3>3
    <2>. QED BY <2>2, <2>3
  <1>11. opts.update \in BOOLEAN BY GivenFacts DEF Inv, Typed
  <1>. QED BY <1>7, <1>8, <1>9, <1>10, <1>11

\* A decision or a landing leaves the directories of the tree standing.
LEMMA DecideStands ==
  ASSUME Unfolded, Inv, NEW p \in Unseen, loc' = IF Struck(p) THEN Removed(loc, p) ELSE loc
  PROVE  /\ \A c \in Paths : Stands(loc, c) => Stands(loc', c)
         /\ \A q \in Paths : q # p /\ (Struck(p) => q # Up[p]) => loc'[q] = loc[q]
         /\ ~Struck(p) => loc' = loc
  <1>1. p \in Paths \ {Root} /\ Treelike(loc) BY DEF Unseen, Inv, Typed
  <1>2. CASE ~Struck(p) BY <1>2
  <1>3. CASE Struck(p)
    <2>1. loc[p] # None /\ ~Stands(loc, p) /\ loc' = Removed(loc, p) BY <1>3 DEF Struck, Stands
    <2>2. PICK m : m = loc' OBVIOUS
    <2>3. /\ \A q \in Paths : ~InSubtree(p, q) /\ q # Up[p] => m[q] = loc[q]
          /\ \A q \in Paths : InSubtree(p, q) => m[q] = None
          /\ \A q \in Paths : ~InSubtree(p, q) /\ Stands(loc, q) => Stands(m, q)
      BY <1>1, <2>1, <2>2, RemovedExact
    <2>4. \A q \in Paths : p \in Above[q] => loc[q] = None
      BY <1>1, <2>1, LeafIsBare, NothingIn
    <2>5. \A q \in Paths : Stands(loc, q) => ~InSubtree(p, q) BY <2>1, <2>4 DEF InSubtree, Stands
    <2>6. \A q \in Paths : q # p /\ q # Up[p] => m[q] = loc[q] BY <2>3, <2>4 DEF InSubtree
    <2>. QED BY <1>3, <2>2, <2>3, <2>5, <2>6
  <1>. QED BY <1>2, <1>3

LEMMA LandExact ==
  ASSUME Unfolded, Inv, NEW x \in Paths, Land(x)
  PROVE  /\ x \in Paths \ {Root} /\ x \in todo /\ phase = "sync" /\ obj[x] # None
         /\ phase' = "sync" /\ todo' = todo \ {x}
         /\ UNCHANGED <<rec, obj, opts, orig, at, spool, walked, cur, frames, deferred, post, prep, open, gone,
                        asked, told, pass, status>>
         /\ \/ bad' = TRUE /\ loc' = loc
            \/ /\ bad' = bad /\ Treelike(loc')
               /\ loc'[x] = [kind |-> "file", data |-> obj[x], mtime |-> Uploaded, mode |-> Umask]
               /\ \A c \in Paths : Stands(loc, c) => Stands(loc', c)
               /\ \A q \in Paths : q # x /\ q \notin Above[x] => loc'[q] = loc[q]
               /\ \A q \in Above[x] : Stands(loc', q)
               /\ \A q \in Above[x] : \/ loc'[q] = loc[q] \/ q = Up[x] \/ loc[q] = None
                                      \/ \E c \in Above[x] \ {Root} : Up[c] = q /\ loc[c] = None
  <1>1. /\ x \in Paths \ {Root} /\ x \in todo /\ phase = "sync" /\ obj[x] # None /\ Treelike(loc)
        /\ phase' = "sync" /\ todo' = todo \ {x}
        /\ UNCHANGED <<rec, obj, opts, orig, at, spool, walked, cur, frames, deferred, post, prep, open, gone,
                       asked, told, pass, status>>
    BY DEF Land, Inv, Typed, world, applying, pruning
  <1>2. PICK item : item = [kind |-> "file", data |-> obj[x], mtime |-> Uploaded, mode |-> Umask]
    OBVIOUS
  <1>3. Disk(x) = x /\ (IsDir(x) <=> Stands(loc, x)) BY OneNameIs
  <1>4. \/ bad' = TRUE /\ loc' = loc
        \/ bad' = bad /\ ~Blocked(x) /\ ~Stands(loc, x) /\ loc' = Put(loc, x, item)
    BY <1>2, <1>3 DEF Land
  <1>5. CASE bad' = bad /\ ~Blocked(x) /\ ~Stands(loc, x) /\ loc' = Put(loc, x, item)
    <2>1. PICK m : m = loc' OBVIOUS
    <2>2. item \in Items
      <3>1. obj[x] \in Data BY <1>1, GivenFacts DEF Inv, Typed
      <3>. QED BY <1>2, <3>1, ItemAssumption DEF Items, Kinds
    <2>3. Clear(loc, x) /\ Bare(loc, x) BY <1>1, <1>5, LeafIsBare DEF Clear, Blocked
    <2>7. /\ x \in Paths \ {Root} /\ item \in Items /\ Treelike(loc) /\ Clear(loc, x) /\ Bare(loc, x)
          /\ m = Put(loc, x, item)
      BY <1>1, <1>5, <2>1, <2>2, <2>3
    <2>4. /\ Treelike(m) /\ m[x] = item
          /\ Keeps(loc, m, {x}) /\ Adds(loc, m, Above[x] \cup {x})
      BY <2>7, PutMakes, SMTT(60)
    <2>5. /\ \A q \in Paths : q # x /\ q \notin Above[x] => m[q] = loc[q]
          /\ \A q \in Above[x] : Stands(m, q)
          /\ \A q \in Above[x] : \/ m[q] = loc[q] \/ q = Up[x] \/ loc[q] = None
                                 \/ \E c \in Above[x] \ {Root} : Up[c] = q /\ loc[c] = None
      BY <2>7, PutExact
    <2>6. \A c \in Paths : Stands(loc, c) => Stands(m, c) BY <1>1, <1>5, <2>4, StandsStill
    <2>. QED BY <1>1, <1>2, <1>5, <2>1, <2>4, <2>5, <2>6
  <1>. QED BY <1>1, <1>4, <1>5

\* The lines a decision adds come after those there, which they leave alone.
Joined(c, a, b) ==
  /\ Len(a) \in Nat /\ Len(b) \in Nat /\ Len(c) = Len(a) + Len(b)
  /\ \A i \in 1..Len(a) : i \in 1..Len(c) /\ c[i] = a[i] /\ c[i].key \in Nat
  /\ \A i \in 1..Len(b) : Len(a) + i \in 1..Len(c) /\ c[Len(a) + i] = b[i] /\ b[i].key \in Nat
  /\ \A i \in 1..Len(c) : i \in 1..Len(a) \/ \E j \in 1..Len(b) : i = Len(a) + j

LEMMA JoinedIs ==
  ASSUME NEW a \in Seq(Lines), NEW b \in Seq(Lines), NEW c, c = a \o b
  PROVE  Joined(c, a, b) /\ c \in Seq(Lines)
  <1>1. /\ Len(a) \in Nat /\ Len(b) \in Nat /\ Len(c) = Len(a) + Len(b) /\ c \in Seq(Lines)
        /\ \A i \in 1..Len(a) + Len(b) : c[i] = IF i <= Len(a) THEN a[i] ELSE b[i - Len(a)]
    BY ConcatProperties
  <1>2. PICK m, n \in Nat : m = Len(a) /\ n = Len(b) BY <1>1
  <1>3. \A i \in 1..m : i \in 1..m + n /\ c[i] = a[i] BY <1>1, <1>2
  <1>4. \A i \in 1..n : m + i \in 1..m + n /\ ~(m + i <= m) /\ m + i - m = i BY <1>2
  <1>5. \A i \in 1..n : c[m + i] = b[i] BY <1>1, <1>2, <1>4
  <1>6. \A i \in 1..m + n : i \in 1..m \/ \E j \in 1..n : i = m + j
    <2>. SUFFICES ASSUME NEW i \in 1..m + n, i \notin 1..m PROVE \E j \in 1..n : i = m + j OBVIOUS
    <2>1. i - m \in 1..n /\ i = m + (i - m) BY <1>2
    <2>. QED BY <2>1
  <1>7. \A i \in 1..m : a[i].key \in Nat
    <2>. SUFFICES ASSUME NEW i \in 1..m PROVE a[i].key \in Nat OBVIOUS
    <2>1. a[i] \in Lines BY <1>2, ElementOfSeq
    <2>. QED BY <2>1 DEF Lines
  <1>8. \A i \in 1..n : b[i].key \in Nat
    <2>. SUFFICES ASSUME NEW i \in 1..n PROVE b[i].key \in Nat OBVIOUS
    <2>1. b[i] \in Lines BY <1>2, ElementOfSeq
    <2>. QED BY <2>1 DEF Lines
  <1>9. Len(c) = m + n BY <1>1, <1>2
  <1>10. /\ Len(a) \in Nat /\ Len(b) \in Nat /\ Len(c) = Len(a) + Len(b) /\ c \in Seq(Lines)
    BY <1>1
  <1>11. \A i \in 1..Len(a) : i \in 1..Len(c) /\ c[i] = a[i] /\ c[i].key \in Nat
    BY <1>2, <1>3, <1>7, <1>9
  <1>12. \A i \in 1..Len(b) : Len(a) + i \in 1..Len(c) /\ c[Len(a) + i] = b[i] /\ b[i].key \in Nat
    BY <1>2, <1>4, <1>5, <1>8, <1>9
  <1>13. \A i \in 1..Len(c) : i \in 1..Len(a) \/ \E j \in 1..Len(b) : i = Len(a) + j
    BY <1>2, <1>6, <1>9
  <1>. QED BY <1>10, <1>11, <1>12, <1>13, Zenon DEF Joined

\* No directory's key is that of a leaf.
LEMMA LeafNotDir ==
  ASSUME NEW p \in Paths \ {Root}, NEW c \in Paths
  PROVE  LeafKey[p] # DirKey[c]
  <1>1. CASE p = c
    <2>1. LeafKey[p] < DirKey[p] /\ LeafKey[p] \in Nat /\ DirKey[p] \in Nat BY TreeAssumption
    <2>. QED BY <1>1, <2>1
  <1>. QED BY <1>1, KeysDiffer

\* What lies between a directory and a path in it is in it.
LEMMA InBetween ==
  ASSUME NEW c \in Paths, NEW p \in Paths, c \in Above[p], NEW q \in Paths, NEW k \in Nat,
         k = DirKey[q] \/ (q # Root /\ k = LeafKey[q]), DirKey[c] < k, k <= DirKey[p]
  PROVE  c \in Above[q]
  <1>1. q # Root
    <2>. SUFFICES ASSUME q = Root PROVE FALSE OBVIOUS
    <2>1. k = DirKey[Root] /\ c # Root BY KeysDiffer
    <2>2. Root \in Above[c] BY <2>1, RootAbove
    <2>3. DirKey[Root] < DirKey[c] /\ DirKey[Root] \in Nat /\ DirKey[c] \in Nat BY <2>2, AboveKey, KeysDiffer
    <2>. QED BY <2>1, <2>3
  <1>. QED BY <1>1, OrderAssumption

\* The decisions are spooled in an order that lookups can follow: lines for some
\* directories above p and for p, in key order, after lines of lesser keys.
Run(b, C, p, say) ==
  /\ \A i, j \in 1..Len(b) : i < j => b[i].key < b[j].key
  /\ \A n \in 1..Len(b) : (\E c \in C : b[n] = Line("D", DirKey[c])) \/ b[n] = Line(say, LeafKey[p])
Before(s, k) == \A n \in 1..Len(s) : s[n].key < k
Told(s, C) ==
  \A c \in C : \A n \in 1..Len(s) :
    DirKey[c] < s[n].key => \E i \in 1..Len(s) : s[i].key = DirKey[c]

LEMMA LinedOn ==
  ASSUME NEW s, Lined(s), NEW k \in Nat, Before(s, k), NEW p \in Paths \ {Root}, k <= LeafKey[p],
         NEW C \in SUBSET Above[p], Told(s, C), NEW b, NEW say, Run(b, C, p, say),
         NEW t, Joined(t, s, b)
  PROVE  Lined(t)
  <1>0. /\ \A n \in 1..Len(s) : s[n].key < k
        /\ \A i, j \in 1..Len(b) : i < j => b[i].key < b[j].key
        /\ \A n \in 1..Len(b) : (\E c \in C : b[n] = Line("D", DirKey[c])) \/ b[n] = Line(say, LeafKey[p])
        /\ \A c \in C : \A n \in 1..Len(s) :
             DirKey[c] < s[n].key => \E i \in 1..Len(s) : s[i].key = DirKey[c]
    BY DEF Run, Before, Told
  <1>1. /\ Len(s) \in Nat /\ Len(b) \in Nat /\ Len(t) = Len(s) + Len(b)
        /\ \A i \in 1..Len(s) : i \in 1..Len(t) /\ t[i] = s[i] /\ t[i].key \in Nat
        /\ \A i \in 1..Len(b) : Len(s) + i \in 1..Len(t) /\ t[Len(s) + i] = b[i] /\ b[i].key \in Nat
        /\ \A i \in 1..Len(t) : i \in 1..Len(s) \/ \E j \in 1..Len(b) : i = Len(s) + j
    BY DEF Joined
  <1>2. PICK m, h \in Nat : m = Len(s) /\ h = Len(b) BY <1>1
  <1>3. \A n \in 1..m : Leading(s, n) => Leading(t, n)
    <2>1. SUFFICES ASSUME NEW n \in 1..m, Leading(s, n), NEW i \in 1..Len(t), i < n
                   PROVE  t[i].key < t[n].key
      BY DEF Leading
    <2>2. n \in 1..Len(s) /\ i \in 1..Len(s) BY <1>1, <1>2, <2>1
    <2>3. t[n] = s[n] /\ t[i] = s[i] BY <1>1, <2>2
    <2>4. s[i].key < s[n].key BY <2>1, <2>2 DEF Leading
    <2>. QED BY <2>3, <2>4
  <1>4. LeafKey[p] \in Nat /\ \A c \in C : c \in Paths /\ DirKey[c] \in Nat /\ c \in Above[p]
    BY KeysDiffer, AboveKey
  <1>5. \A n \in 1..h : (\E c \in C : b[n] = Line("D", DirKey[c]) /\ b[n].key = DirKey[c]) \/ b[n].key = LeafKey[p]
    <2>0. \A x, y : Line(x, y).key = y BY DEF Line
    <2>. SUFFICES ASSUME NEW n \in 1..h
                  PROVE  (\E c \in C : b[n] = Line("D", DirKey[c]) /\ b[n].key = DirKey[c]) \/ b[n].key = LeafKey[p]
      OBVIOUS
    <2>1. (\E c \in C : b[n] = Line("D", DirKey[c])) \/ b[n] = Line(say, LeafKey[p]) BY <1>0, <1>2
    <2>. QED BY <2>0, <2>1
  <1>6. ASSUME NEW i \in 1..h, \A j \in 1..m : s[j].key < b[i].key
        PROVE  Leading(t, m + i)
    <2>. SUFFICES ASSUME NEW n \in 1..Len(t), n < m + i PROVE t[n].key < t[m + i].key
      BY DEF Leading
    <2>1. t[m + i] = b[i] BY <1>1, <1>2
    <2>2. CASE n \in 1..m BY <1>1, <1>2, <1>6, <2>1, <2>2
    <2>3. CASE \E j \in 1..h : n = m + j
      <3>1. PICK j \in 1..h : n = m + j BY <2>3
      <3>2. j < i /\ t[n] = b[j] BY <1>1, <1>2, <3>1
      <3>. QED BY <1>0, <1>2, <2>1, <3>2
    <2>. QED BY <1>1, <1>2, <2>2, <2>3
  <1>7. ASSUME NEW n \in 1..Len(t), NEW x \in Paths \ {Root}, t[n].key = LeafKey[x]
        PROVE  Leading(t, n)
    <2>1. CASE n \in 1..m
      <3>1. Leading(s, n) BY <1>1, <1>2, <1>7, <2>1 DEF Lined
      <3>. QED BY <1>3, <2>1, <3>1
    <2>2. CASE \E j \in 1..h : n = m + j
      <3>1. PICK j \in 1..h : n = m + j BY <2>2
      <3>2. b[j].key = LeafKey[x] BY <1>1, <1>2, <1>7, <3>1
      <3>3. b[j].key = LeafKey[p] BY <1>4, <1>5, <3>2, LeafNotDir
      <3>4. \A i \in 1..m : s[i].key < b[j].key
        <4>. SUFFICES ASSUME NEW i \in 1..m PROVE s[i].key < b[j].key OBVIOUS
        <4>1. s[i].key < k /\ s[i].key \in Nat BY <1>0, <1>1, <1>2
        <4>. QED BY <1>4, <3>3, <4>1
      <3>. QED BY <1>6, <3>1, <3>4
    <2>. QED BY <1>1, <1>2, <2>1, <2>2
  <1>8. ASSUME NEW n \in 1..Len(t), NEW c \in Paths, t[n].key = DirKey[c]
        PROVE  \E i \in 1..Len(t) : t[i] = Line("D", DirKey[c]) /\ Leading(t, i)
    <2>1. CASE \E i \in 1..m : s[i].key = DirKey[c]
      <3>1. PICK i \in 1..m : s[i] = Line("D", DirKey[c]) /\ Leading(s, i)
        BY <1>2, <2>1 DEF Lined
      <3>. QED BY <1>1, <1>2, <1>3, <3>1
    <2>2. CASE ~\E i \in 1..m : s[i].key = DirKey[c]
      <3>1. PICK j \in 1..h : n = m + j BY <1>1, <1>2, <1>8, <2>2
      <3>2. t[n] = b[j] /\ b[j].key = DirKey[c] BY <1>1, <1>2, <1>8, <3>1
      <3>3. c \in C /\ b[j] = Line("D", DirKey[c])
        <4>1. b[j].key # LeafKey[p] BY <3>2, LeafNotDir
        <4>2. PICK y \in C : b[j] = Line("D", DirKey[y]) /\ b[j].key = DirKey[y] BY <1>5, <4>1
        <4>3. y = c BY <1>4, <3>2, <4>2, KeysDiffer
        <4>. QED BY <4>2, <4>3
      <3>4. \A i \in 1..m : s[i].key < b[j].key
        <4>. SUFFICES ASSUME NEW i \in 1..m PROVE s[i].key < b[j].key OBVIOUS
        <4>1. s[i].key \in Nat /\ DirKey[c] \in Nat BY <1>1, <1>2, <1>4, <3>3
        <4>2. ~(DirKey[c] < s[i].key) BY <1>0, <1>2, <2>2, <3>3
        <4>3. s[i].key # DirKey[c] BY <2>2
        <4>. QED BY <3>2, <4>1, <4>2, <4>3
      <3>. QED BY <1>6, <3>1, <3>2, <3>3, <3>4
    <2>. QED BY <2>1, <2>2
  <1>. QED BY <1>7, <1>8 DEF Lined

\* What is known of the directories above a line stays known.
LEMMA KnownStays ==
  ASSUME NEW l, NEW m, \A c \in Paths : Stands(l, c) => Stands(m, c),
         NEW s, NEW t, \A n \in 1..Len(s) : n \in 1..Len(t) /\ t[n] = s[n],
         NEW c \in Paths, Known(l, s, c)
  PROVE  Known(m, t, c)
  BY DEF Known, Spells

LEMMA DecideSpool ==
  ASSUME Unfolded, Inv, Grounded, SpoolFits, Decide
  PROVE  SpoolFits'
  <1>0. Typed /\ spool \in Seq(Lines) /\ at \in Nat BY DEF Inv, Typed
  <1>1. /\ phase = "sync" /\ phase' = "sync"
        /\ UNCHANGED <<rec, obj, opts, orig, cur, frames, deferred, post, prep, open, gone, asked, bad, pass, status>>
        /\ \E p \in Unseen :
             /\ \A q \in Unseen : LeafKey[p] <= LeafKey[q]
             /\ at' = LeafKey[p] + 1 /\ spool' = spool \o Decided(p, DecidedFor(p))
             /\ DecidedFor(p) \in Verdicts
             /\ walked' = IF opts.update /\ DecidedFor(p).get /\ ~Listed(loc[p]) THEN Up[p] ELSE walked
             /\ todo' = IF DecidedFor(p).get THEN todo \cup {p} ELSE todo
             /\ told' = IF DecidedFor(p).warn THEN told \cup {p} ELSE told
             /\ loc' = IF Struck(p) THEN Removed(loc, p) ELSE loc
    BY <1>0, DecideExact
  <1>2. PICK p \in Unseen :
             /\ spool' = spool \o Decided(p, DecidedFor(p)) /\ DecidedFor(p) \in Verdicts
             /\ walked' = IF opts.update /\ DecidedFor(p).get /\ ~Listed(loc[p]) THEN Up[p] ELSE walked
             /\ todo' = IF DecidedFor(p).get THEN todo \cup {p} ELSE todo
             /\ loc' = IF Struck(p) THEN Removed(loc, p) ELSE loc
    BY <1>1
  <1>3. p \in Paths \ {Root} /\ at <= LeafKey[p] /\ LeafKey[p] \in Nat BY <1>0, KeysDiffer DEF Unseen
  <1>4. PICK v, b, s, m, t, w : /\ v = DecidedFor(p) /\ b = Decided(p, v) /\ s = spool' /\ m = loc'
                                /\ t = todo' /\ w = walked'
    OBVIOUS
  <1>5. v \in Verdicts /\ s = spool \o b /\ \A x, y : Line(x, y).key = y /\ Line(x, y).say = x
    BY <1>2, <1>4 DEF Line
  <1>a. p \in Paths \ {Root} /\ v \in Verdicts /\ b = Decided(p, v) BY <1>3, <1>4, <1>5
  <1>6. /\ b \in Seq(Lines)
        /\ \A n \in 1..Len(b) :
             \/ /\ v.get /\ opts.update
                /\ \E c \in Above[p] : ~Stands(loc, c) /\ b[n] = Line("D", DirKey[c])
             \/ v.say # None /\ b[n] = Line(v.say, LeafKey[p])
        /\ \A i, j \in 1..Len(b) : i < j => b[i].key < b[j].key
        /\ v.say # None => \E n \in 1..Len(b) : b[n] = Line(v.say, LeafKey[p])
        /\ v.get /\ opts.update /\ walked # Up[p] =>
             \A c \in Above[p] : Stands(loc, c) \/ \E n \in 1..Len(b) : b[n] = Line("D", DirKey[c])
    BY <1>a, DecidedRun
  <1>b. \A c \in Above[p] : v.get /\ opts.update /\ walked # Up[p] =>
                             Stands(loc, c) \/ \E n \in 1..Len(b) : b[n] = Line("D", DirKey[c])
    BY <1>6
  <1>7. Joined(s, spool, b) /\ s \in Seq(Lines) BY <1>0, <1>5, <1>6, JoinedIs
  <1>8. /\ opts.update => (v.get <=> v.say = "D")
        /\ v.say \in {"K", "G"} => loc[p] # None
    BY <1>4, SaidOf
  <1>9. \A c \in Paths : Stands(loc, c) => Stands(m, c) BY <1>2, <1>4, DecideStands
  <1>10. opts.update => Walked(loc, spool, todo, walked) BY <1>1 DEF SpoolFits, WalkFits
  <1>11. /\ \A n \in 1..Len(spool) : n \in 1..Len(s) /\ s[n] = spool[n]
         /\ \A n \in 1..Len(b) : Len(spool) + n \in 1..Len(s) /\ s[Len(spool) + n] = b[n]
         /\ \A n \in 1..Len(s) : n \in 1..Len(spool) \/ \E j \in 1..Len(b) : s[n] = b[j]
    BY <1>7 DEF Joined
  <1>12. Lined(s)
    <2>1. PICK C : C = {c \in Above[p] : v.get /\ opts.update /\ ~Stands(loc, c)} OBVIOUS
    <2>2. \A n \in 1..Len(spool) : spool[n].key < at BY <1>1 DEF Grounded, Behind
    <2>3. \A n \in 1..Len(b) : (\E c \in C : b[n] = Line("D", DirKey[c])) \/ b[n] = Line(v.say, LeafKey[p])
      BY <1>6, <2>1
    <2>4. ASSUME NEW c \in C, NEW n \in 1..Len(spool), DirKey[c] < spool[n].key
          PROVE  \E i \in 1..Len(spool) : spool[i].key = DirKey[c]
      <3>1. opts.update /\ c \in Above[p] /\ ~Stands(loc, c) /\ c \in Paths BY <1>3, <2>1, AboveTypes
      <3>2. PICK q \in Paths : LineOf(spool[n], q) /\ \A y \in Above[q] : Known(loc, spool, y)
        BY <1>10, <3>1 DEF Walked
      <3>3. spool[n].key \in Nat /\ spool[n].key <= DirKey[p]
        <4>1. spool[n].key \in Nat /\ spool[n].key < at BY <1>7, <2>2 DEF Joined
        <4>2. LeafKey[p] < DirKey[p] /\ DirKey[p] \in Nat BY <1>3, TreeAssumption
        <4>. QED BY <1>0, <1>3, <4>1, <4>2
      <3>4. c \in Above[q] BY <1>3, <2>4, <3>1, <3>2, <3>3, InBetween DEF LineOf
      <3>. QED BY <3>1, <3>2, <3>4 DEF Known, Spells
    <2>5. C \in SUBSET Above[p] BY <2>1
    <2>6. Lined(spool) BY DEF SpoolFits
    <2>7. \A c \in C : \A n \in 1..Len(spool) :
            DirKey[c] < spool[n].key => \E i \in 1..Len(spool) : spool[i].key = DirKey[c]
      BY <2>4
    <2>8. \A i, j \in 1..Len(b) : i < j => b[i].key < b[j].key BY <1>6
    <2>9. Before(spool, at) /\ Told(spool, C) /\ Run(b, C, p, v.say)
      BY <2>2, <2>3, <2>7, <2>8 DEF Before, Told, Run
    <2>. QED BY <1>0, <1>3, <1>7, <2>5, <2>6, <2>9, LinedOn
  <1>13. ASSUME opts.update PROVE Walked(m, s, t, w)
    <2>1. Walked(loc, spool, todo, walked) BY <1>10, <1>13
    <2>2. \A c \in Paths : Known(loc, spool, c) => Known(m, s, c) BY <1>9, <1>11, KnownStays
    <2>3. ASSUME v.get \/ v.say # None, NEW c \in Above[p] PROVE Known(m, s, c)
      <3>1. c \in Paths BY <1>3, AboveTypes
      <3>2. CASE v.get /\ walked # Up[p]
        <4>1. Stands(loc, c) \/ \E n \in 1..Len(b) : b[n] = Line("D", DirKey[c])
          BY <1>b, <1>13, <2>3, <3>2, ZenonT(20)
        <4>2. CASE Stands(loc, c) BY <1>9, <3>1, <4>2 DEF Known
        <4>3. CASE \E n \in 1..Len(b) : b[n] = Line("D", DirKey[c])
          <5>1. PICK n \in 1..Len(b) : b[n] = Line("D", DirKey[c]) BY <4>3
          <5>2. \E h \in 1..Len(s) : s[h] = Line("D", DirKey[c]) BY <1>11, <5>1
          <5>. QED BY <1>5, <5>2 DEF Known, Spells
        <4>. QED BY <4>1, <4>2, <4>3
      <3>3. CASE v.get /\ walked = Up[p]
        <4>1. walked # None BY <1>3, <3>3, NoneIsNoItem, TreeAssumption
        <4>2. c \in Above[walked] \cup {walked} BY <1>3, <2>3, <3>3, AboveUp
        <4>. QED BY <2>1, <2>2, <3>1, <4>1, <4>2 DEF Walked
      <3>4. CASE ~v.get
        <4>1. v.say \in {"K", "G"} BY <1>5, <1>8, <1>13, <2>3, <3>4 DEF Verdicts
        <4>2. loc[p] # None BY <1>8, <4>1
        <4>3. Stands(loc, c) BY <1>0, <1>3, <2>3, <4>2, AncestorsStand DEF Typed
        <4>. QED BY <1>9, <3>1, <4>3 DEF Known
      <3>. QED BY <3>2, <3>3, <3>4
    <2>4. ASSUME NEW n \in 1..Len(s) PROVE \E q \in Paths : LineOf(s[n], q) /\ \A c \in Above[q] : Known(m, s, c)
      <3>1. CASE n \in 1..Len(spool)
        <4>1. PICK q \in Paths : LineOf(spool[n], q) /\ \A c \in Above[q] : Known(loc, spool, c)
          BY <2>1, <3>1 DEF Walked
        <4>2. \A c \in Above[q] : c \in Paths BY AboveTypes
        <4>. QED BY <1>11, <2>2, <3>1, <4>1, <4>2
      <3>2. CASE \E j \in 1..Len(b) : s[n] = b[j]
        <4>1. PICK j \in 1..Len(b) : s[n] = b[j] BY <3>2
        <4>2. CASE v.get /\ \E c \in Above[p] : b[j] = Line("D", DirKey[c])
          <5>1. PICK c \in Above[p] : b[j] = Line("D", DirKey[c]) BY <4>2
          <5>2. c \in Paths /\ \A y \in Above[c] : y \in Above[p] BY <1>3, <5>1, AboveTypes, AboveTrans
          <5>3. LineOf(s[n], c) BY <1>5, <4>1, <5>1 DEF LineOf
          <5>. QED BY <2>3, <4>2, <5>2, <5>3
        <4>3. CASE v.say # None /\ b[j] = Line(v.say, LeafKey[p])
          <5>1. LineOf(s[n], p) BY <1>3, <1>5, <4>1, <4>3 DEF LineOf
          <5>. QED BY <1>3, <2>3, <4>3, <5>1
        <4>. QED BY <1>6, <4>1, <4>2, <4>3
      <3>. QED BY <1>11, <3>1, <3>2
    <2>5. \A x \in t : \A c \in Above[x] : Known(m, s, c)
      <3>. SUFFICES ASSUME NEW x \in t, NEW c \in Above[x] PROVE Known(m, s, c) OBVIOUS
      <3>1. CASE x \in todo
        <4>1. x \in Paths BY <1>0, <3>1 DEF Typed
        <4>2. c \in Paths /\ Known(loc, spool, c) BY <2>1, <3>1, <4>1, AboveTypes DEF Walked
        <4>. QED BY <2>2, <4>2
      <3>2. CASE x \notin todo
        <4>1. v.get /\ x = p BY <1>2, <1>4, <3>2
        <4>. QED BY <2>3, <4>1
      <3>. QED BY <3>1, <3>2
    <2>6. w # None => w \in Paths /\ \A c \in Above[w] \cup {w} : Known(m, s, c)
      <3>1. CASE w = walked
        <4>. SUFFICES ASSUME w # None, NEW c \in Above[w] \cup {w} PROVE w \in Paths /\ Known(m, s, c)
          BY <2>1, <3>1 DEF Walked
        <4>1. w \in Paths /\ Known(loc, spool, c) BY <2>1, <3>1 DEF Walked
        <4>2. c \in Paths BY <4>1, AboveTypes
        <4>. QED BY <2>2, <4>1, <4>2
      <3>2. CASE w # walked
        <4>1. v.get /\ w = Up[p] BY <1>2, <1>4, <3>2
        <4>2. w \in Paths BY <1>3, <4>1, TreeAssumption
        <4>. QED BY <1>3, <2>3, <4>1, <4>2, AboveUp
      <3>. QED BY <3>1, <3>2
    <2>. QED BY <2>4, <2>5, <2>6 DEF Walked
  <1>14. CursorFits' /\ WalkFits'
    <2>1. opts' = opts /\ phase' = "sync" BY <1>1
    <2>2. opts'.update => Walked(loc', spool', todo', walked') BY <1>4, <1>13, <2>1
    <2>. QED BY <2>1, <2>2 DEF CursorFits, WalkFits, Walked, Known, Stands, Spells, LineOf
  <1>15. Lined(spool)' BY <1>4, <1>12 DEF Lined, Leading, Line
  <1>. QED BY <1>14, <1>15 DEF SpoolFits

LEMMA SpoolAfter ==
  ASSUME NEW s, s = spool', Lined(s),
         phase' = "apply" => \A n \in 1..Len(s) : at' <= s[n].key => cur' <= n,
         phase' = "sync" /\ opts'.update => Walked(loc', s, todo', walked'),
         phase' \in {"start", "vet", "make", "prep"} => walked' = None
  PROVE  SpoolFits'
  <1>1. Lined(spool)' BY DEF Lined, Leading, Line
  <1>2. CursorFits' BY DEF CursorFits
  <1>3. WalkFits' BY DEF WalkFits, Walked, Known, Stands, Spells, LineOf
  <1>. QED BY <1>1, <1>2, <1>3 DEF SpoolFits

LEMMA LandSpool ==
  ASSUME Unfolded, Inv, SpoolFits, NEW x \in Paths, Land(x)
  PROVE  SpoolFits'
  <1>1. /\ phase = "sync" /\ phase' = "sync" /\ todo' = todo \ {x} /\ UNCHANGED <<opts, spool, walked>>
        /\ todo \subseteq Paths
    BY LandExact DEF Inv, Typed
  <1>2. \A c \in Paths : Stands(loc, c) => Stands(loc', c)
    <2>1. loc' = loc \/ \A c \in Paths : Stands(loc, c) => Stands(loc', c) BY LandExact
    <2>. QED BY <2>1
  <1>3. \A c \in Paths : Known(loc, spool, c) => Known(loc', spool, c) BY <1>2 DEF Known
  <1>4. \A q \in Paths : \A c \in Above[q] : c \in Paths BY AboveTypes
  <1>5. opts.update => Walked(loc', spool, todo', walked)
    <2>. SUFFICES ASSUME opts.update PROVE Walked(loc', spool, todo', walked) OBVIOUS
    <2>1. Walked(loc, spool, todo, walked) BY <1>1 DEF SpoolFits, WalkFits
    <2>2. \A n \in 1..Len(spool) : \E q \in Paths : LineOf(spool[n], q) /\ \A c \in Above[q] : Known(loc', spool, c)
      BY <1>3, <1>4, <2>1 DEF Walked
    <2>3. \A y \in todo' : \A c \in Above[y] : Known(loc', spool, c) BY <1>1, <1>3, <1>4, <2>1 DEF Walked
    <2>4. walked # None => walked \in Paths /\ \A c \in Above[walked] \cup {walked} : Known(loc', spool, c)
      BY <1>3, <1>4, <2>1 DEF Walked
    <2>. QED BY <2>2, <2>3, <2>4 DEF Walked
  <1>. QED BY <1>1, <1>5, SpoolAfter DEF SpoolFits

\* A lookup goes past the lines of no later record.
LEMMA CursorOn ==
  ASSUME Inv, CursorFits, AtRecord, NextLine(NextRecord)
  PROVE  \A n \in 1..Len(spool) : at' <= spool[n].key => cur' <= n
  <1>1. PICK p : p = NextRecord OBVIOUS
  <1>2. p \in Paths /\ RecKey(p) \in Nat /\ at <= RecKey(p) /\ at \in Nat /\ phase = "apply"
    BY <1>1, AtRecordIs DEF Inv, Typed
  <1>3. at' = RecKey(p) + 1 /\ cur' = Ahead(RecKey(p)) + (IF Hit(RecKey(p)) THEN 1 ELSE 0)
    BY <1>1 DEF NextLine
  <1>4. PICK k \in Nat : k = RecKey(p) BY <1>2
  <1>. SUFFICES ASSUME NEW n \in 1..Len(spool), k + 1 <= spool[n].key PROVE cur' <= n BY <1>3, <1>4
  <1>5. cur \in Nat \ {0} /\ Len(spool) \in Nat /\ spool[n].key \in Nat /\ n \in Nat
    <2>1. spool[n] \in Lines BY ElementOfSeq DEF Inv, Typed
    <2>. QED BY <2>1 DEF Lines, Inv, Typed
  <1>6. at <= spool[n].key /\ k < spool[n].key BY <1>2, <1>4, <1>5
  <1>7. cur <= n BY <1>2, <1>6 DEF CursorFits
  <1>8. n \in LinesFrom(k) BY <1>4, <1>5, <1>6, <1>7 DEF LinesFrom
  <1>9. Ahead(k) \in Nat \ {0} /\ Ahead(k) <= n BY <1>4, <1>8, AheadIs DEF Inv
  <1>10. Hit(k) => Ahead(k) # n BY <1>4, <1>5, <1>6 DEF Hit
  <1>. QED BY <1>3, <1>4, <1>5, <1>9, <1>10

LEMMA SpoolStep ==
  ASSUME Unfolded, Inv, Grounded, SpoolFits, [Next]_vars
  PROVE  SpoolFits'
  <1>1. Lined(spool) /\ Lined(<<>>)
    <2>1. \A n : n \notin 1..Len(<<>>) BY EmptySeq
    <2>. QED BY <2>1 DEF SpoolFits, Lined
  <1>2. CASE Start \/ Vet \/ Make
    <2>1. /\ phase \in {"start", "vet", "make"} /\ phase' \in {"done", "extras", "vet", "make", "prep"}
          /\ UNCHANGED <<spool, walked>>
      BY <1>2 DEF Start, Vet, Make, syncing
    <2>. QED BY <1>1, <2>1, SpoolAfter DEF SpoolFits, WalkFits
  <1>3. CASE Prep
    <2>1. phase = "prep" /\ phase' = "sync" /\ UNCHANGED <<todo, spool, walked>> BY <1>3 DEF Prep, syncing
    <2>2. todo = {} /\ spool = <<>> /\ walked = None BY <2>1 DEF Grounded, Begun, SpoolFits, WalkFits
    <2>3. \A n : n \notin 1..Len(spool) BY <2>2, EmptySeq
    <2>4. Walked(loc', spool, todo, walked) BY <2>2, <2>3 DEF Walked
    <2>. QED BY <1>1, <2>1, <2>4, SpoolAfter
  <1>4. CASE Decide BY <1>4, DecideSpool
  <1>5. CASE \E x \in Paths : Land(x) BY <1>5, LandSpool
  <1>6. CASE Synced
    <2>1. phase = "sync" /\ phase' \in {"apply", "done"} /\ UNCHANGED <<spool, cur>>
      BY <1>6 DEF Synced, Finish, syncing, applying
    <2>2. cur = 1 BY <2>1 DEF Grounded, Begun
    <2>3. \A n \in 1..Len(spool) : cur' <= n BY <2>1, <2>2
    <2>. QED BY <1>1, <2>1, <2>3, SpoolAfter
  <1>7. CASE Apply \/ SkipExcluded \/ ApplyFails
    <2>1. spool' = spool /\ AtRecord BY <1>7 DEF Apply, SkipExcluded, ApplyFails, NextLine, Abort, syncing
    <2>2. phase' = "done" \/ (NextLine(NextRecord) /\ phase' = "apply")
      BY <1>7 DEF Apply, SkipExcluded, ApplyFails, NextLine, Abort, Finish, AtRecord
    <2>3. phase' = "apply" => \A n \in 1..Len(spool) : at' <= spool[n].key => cur' <= n
      BY <2>1, <2>2, CursorOn DEF SpoolFits
    <2>. QED BY <1>1, <2>1, <2>2, <2>3, SpoolAfter
  <1>8. CASE PopFrame \/ ClearConflict
    <2>1. CASE PopFrame
      <3>1. phase = "apply" /\ UNCHANGED <<phase, at, spool, cur>> BY <2>1 DEF PopFrame, syncing
      <3>. QED BY <1>1, <3>1, SpoolAfter DEF SpoolFits, CursorFits
    <2>2. CASE ClearConflict
      <3>1. phase = "apply" /\ UNCHANGED <<phase, at, spool, cur>>
        BY <2>2 DEF ClearConflict, Making, AtRecord, syncing, applying
      <3>. QED BY <1>1, <3>1, SpoolAfter DEF SpoolFits, CursorFits
    <2>. QED BY <1>8, <2>1, <2>2
  <1>9. CASE Streamed \/ Place \/ Resettle \/ Applied
    <2>1. phase' \in {"place", "extras", "done"} /\ spool' = spool
      BY <1>9 DEF Streamed, Place, Resettle, Applied, Abort, Finish, syncing
    <2>. QED BY <1>1, <2>1, SpoolAfter
  <1>10. CASE CloseExtra \/ Prune \/ Pruned
    <2>1. phase' \in {"extras", "done"} \/ (phase' = "apply" /\ cur' = 1)
      BY <1>10 DEF CloseExtra, Prune, Pruned, Judge, Finish
    <2>2. spool' = spool BY <1>10 DEF CloseExtra, Prune, Pruned, syncing
    <2>3. phase' = "apply" => \A n \in 1..Len(spool) : cur' <= n BY <2>1
    <2>. QED BY <1>1, <2>1, <2>2, <2>3, SpoolAfter
  <1>11. CASE Cut
    <2>1. phase' = "done" /\ spool' = spool BY <1>11 DEF Cut, syncing
    <2>. QED BY <1>1, <2>1, SpoolAfter
  <1>12. CASE Again
    <2>1. phase' = "start" /\ spool' = <<>> /\ walked' = None BY <1>12 DEF Again
    <2>. QED BY <1>1, <2>1, SpoolAfter
  <1>13. CASE UNCHANGED vars
    <2>1. UNCHANGED <<phase, at, spool, cur, opts, loc, todo, walked>> BY <1>13 DEF vars, world, syncing, applying
    <2>. QED BY <1>1, <2>1, SpoolAfter DEF SpoolFits, CursorFits, WalkFits
  <1>. QED BY <1>2, <1>3, <1>4, <1>5, <1>6, <1>7, <1>8, <1>9, <1>10, <1>11, <1>12, <1>13 DEF Next

\* A lookup finds what was decided of a record.
LEMMA DecisionSays ==
  ASSUME Inv, Grounded, SpoolFits, phase = "apply", NEW p \in Recorded, at <= RecKey(p),
         NEW d, d = Decision(RecKey(p))
  PROVE  /\ d \in {None, "D", "K", "G"}
         /\ Spooled(RecKey(p), "D") <=> d = "D"
         /\ DirRec(p) => d \in {None, "D"}
         /\ p \in Nondirs => /\ Spooled(LeafKey[p], "K") <=> d = "K"
                             /\ Spooled(LeafKey[p], "G") <=> d = "G"
                             /\ obj[p] = None => d \in {None, "G"}
  <1>1. p \in Paths /\ rec[p] # None /\ Typed /\ Len(spool) \in Nat /\ cur \in Nat \ {0} /\ at \in Nat
    BY DEF Recorded, Inv, Typed
  <1>2. PICK key \in Nat : key = RecKey(p) BY <1>1, KeysDiffer DEF RecKey, KeyAs
  <1>3. PICK k : k = Ahead(key) OBVIOUS
  <1>4. /\ k \in Nat \ {0}
        /\ \/ LinesFrom(key) = {} /\ k = Len(spool) + 1
           \/ k \in LinesFrom(key) /\ \A m \in LinesFrom(key) : k <= m
    BY <1>1, <1>3, AheadIs
  <1>5. d = (IF k <= Len(spool) /\ spool[k].key = key THEN spool[k].say ELSE None)
    BY <1>2, <1>3 DEF Decision, Hit
  <1>6. \A n \in 1..Len(spool) : spool[n].key \in Nat /\ spool[n].say \in {"D", "K", "G"}
    <2>. SUFFICES ASSUME NEW n \in 1..Len(spool) PROVE spool[n].key \in Nat /\ spool[n].say \in {"D", "K", "G"}
      OBVIOUS
    <2>1. spool[n] \in Lines BY <1>1, ElementOfSeq DEF Typed
    <2>. QED BY <2>1 DEF Lines
  <1>7. \A n \in 1..Len(spool) : Leading(spool, n) /\ spool[n].key = key => k = n
    <2>. SUFFICES ASSUME NEW n \in 1..Len(spool), Leading(spool, n), spool[n].key = key PROVE k = n OBVIOUS
    <2>1. cur <= n BY <1>2 DEF SpoolFits, CursorFits
    <2>2. n \in LinesFrom(key) BY <1>1, <1>2, <2>1 DEF LinesFrom
    <2>3. k \in LinesFrom(key) /\ k <= n BY <1>4, <2>2
    <2>4. k \in 1..Len(spool) /\ spool[k].key >= key BY <1>1, <1>4, <2>3 DEF LinesFrom
    <2>5. ~(k < n) BY <1>2, <1>6, <2>4 DEF Leading
    <2>. QED BY <1>1, <1>4, <2>3, <2>5
  <1>8. d # None => k \in 1..Len(spool) /\ spool[k].key = key /\ d = spool[k].say
    BY <1>1, <1>4, <1>5
  <1>9. None \notin {"D", "K", "G"} BY ItemAssumption
  <1>10. d \in {None, "D", "K", "G"} /\ (\A say \in {"D", "K", "G"} : d = say => Spooled(key, say))
    BY <1>6, <1>8, <1>9 DEF Spooled, Spells
  <1>11. CASE DirRec(p)
    <2>1. key = DirKey[p] BY <1>2, <1>11 DEF RecKey, KeyAs, DirRec
    <2>2. ASSUME NEW n \in 1..Len(spool), spool[n].key = key PROVE d = "D"
      <3>1. PICK i \in 1..Len(spool) : spool[i] = Line("D", key) /\ Leading(spool, i)
        BY <1>1, <2>1, <2>2 DEF SpoolFits, Lined
      <3>2. spool[i].key = key /\ spool[i].say = "D" BY <3>1 DEF Line
      <3>3. k = i BY <1>7, <3>1, <3>2
      <3>. QED BY <1>1, <1>5, <3>2, <3>3
    <2>3. d \in {None, "D"} BY <1>8, <2>2
    <2>4. Spooled(key, "D") => d = "D" BY <2>2 DEF Spooled, Spells
    <2>. QED BY <1>2, <1>10, <1>11, <2>3, <2>4 DEF Nondirs, DirRec
  <1>12. CASE ~DirRec(p)
    <2>1. p # Root BY <1>1, <1>12, GivenFacts DEF DirRec, Typed
    <2>2. key = LeafKey[p] BY <1>1, <1>2, <1>12 DEF RecKey, KeyAs, DirRec
    <2>3. ASSUME NEW say \in {"D", "K", "G"}, Spooled(key, say) PROVE d = say
      <3>1. PICK n \in 1..Len(spool) : spool[n].key = key /\ spool[n].say = say BY <2>3 DEF Spooled, Spells
      <3>2. Leading(spool, n) BY <1>1, <2>1, <2>2, <3>1 DEF SpoolFits, Lined
      <3>3. k = n BY <1>7, <3>1, <3>2
      <3>. QED BY <1>1, <1>5, <3>1, <3>3
    <2>4. obj[p] = None => d \in {None, "G"}
      BY <1>1, <1>8, <2>1, <2>2 DEF Grounded, Gone
    <2>. QED BY <1>2, <1>10, <1>12, <2>2, <2>3, <2>4
  <1>. QED BY <1>11, <1>12

(* What the end must find: a record is satisfied by the item i in its      *)
(* place, the spool s and the warnings t.                                  *)
Excused(p) == opts.update /\ UnseenWrite(p)
Good(p, i) ==
  /\ Matches(rec[p], i)
  /\ opts.checksum /\ rec[p].kind = "file" =>
       i.data = obj[p] \/ (obj[p] = None /\ i.mode \notin Readable)
KeptHere(p, i) ==
  opts.update /\ orig[p] # None /\ i = orig[p] /\ OrderedSide(rec[p], orig[p]) # "record"
Sat(p, i, s, t) ==
  p \in t \/ Excused(p) \/ Good(p, i) \/ (KeptHere(p, i) /\ ~Spells(s, LeafKey[p], "D"))
SatDir(p, i, t) == p \in t \/ Excused(p) \/ Good(p, i) \/ KeptHere(p, i)

\* What the sync leaves of a recorded leaf for the apply: under -u what it does
\* not spool as downloaded is as it was, a K that was not warned about was for
\* a side that is not older, and --checksum has compared the content.
SameYet(p, i, s) == opts.update /\ ~Excused(p) /\ ~Spells(s, LeafKey[p], "D") => i = orig[p]
Spoken(p, s, t) ==
  opts.update /\ ~Excused(p) /\ Spells(s, LeafKey[p], "K") =>
    p \in t \/ (orig[p] # None /\ OrderedSide(rec[p], orig[p]) # "record")
Content(p, i, s) ==
  opts.checksum /\ rec[p].kind = "file" =>
    \/ i = None \/ i.kind # "file" \/ i.data = obj[p]
    \/ obj[p] = None /\ i.mode \notin Readable
    \/ Spells(s, LeafKey[p], "G") \/ (opts.update /\ Spells(s, LeafKey[p], "K"))
Ready(p, i, u, s, t) ==
  SameYet(p, u, s) /\ Spoken(p, s, t) /\ Content(p, i, s) /\ Content(p, u, s)
\* It is among the links that are placed last.
PutOff(p, d) == \E n \in 1..Len(d) : d[n] = p

\* The item under the mode it was met with.
Met(p) == Was(loc[p], prep[p])
LeafHolds(p) ==
  /\ phase = "sync" => /\ SameYet(p, Met(p), spool) /\ Spoken(p, spool, told)
                       /\ LeafKey[p] < at =>
                            bad \/ p \in todo \/ (Content(p, loc[p], spool) /\ Content(p, Met(p), spool))
  /\ phase = "apply" /\ ~bad =>
       IF pass = 1 /\ LeafKey[p] >= at THEN Ready(p, loc[p], Met(p), spool, told)
       ELSE Sat(p, loc[p], spool, told) \/ PutOff(p, deferred)
  /\ phase = "place" /\ ~bad => Sat(p, loc[p], spool, told) \/ PutOff(p, deferred)
  /\ phase = "extras" /\ ~bad => Sat(p, loc[p], spool, told)
  /\ phase = "done" /\ status = "ok" => Sat(p, loc[p], spool, told)
Leaf(p) == p \in Nondirs /\ Judged(p)
LeavesHold == \A p \in Paths : Leaf(p) => LeafHolds(p)

\* The tree before the sync, and what the sync has taken on.
Vetted(q) == \E x \in Positions : InSubtree(q, x) /\ orig[x] # None /\ orig[x].kind = "link"
EarlyTree(l) == \A q \in Paths : l[q] = orig[q] \/ ((l[q] = None \/ Stands(l, q)) /\ Vetted(q))
\* What the vetting removed it has made, but for the one it is at.
Refilling(k) == \E q \in Positions : DirKey[q] = k /\ orig[q] # None /\ orig[q].kind = "link"
Refilled(l, ph, k) == \A q \in Paths : orig[q] # None /\ l[q] = None => ph = "make" /\ k = DirKey[q]
TakenOn(l, t, s, k) ==
  /\ \A x \in t : LeafKey[x] \notin opts.excluded
  /\ opts.update => \A x \in t : Spells(s, LeafKey[x], "D") /\ (LeafRec(x) = None => orig[x] = None)
  /\ \A q \in Paths : orig[q] # None /\ l[q] = None => LeafKey[q] < k
SyncFits ==
  /\ phase \in {"start", "vet", "make", "prep"} => EarlyTree(loc) /\ (bad \/ Refilled(loc, phase, at))
  /\ phase = "make" => Refilling(at)
  /\ phase = "prep" => ~bad
  /\ phase = "sync" => TakenOn(loc, todo, spool, at)

\* None of it depends on what a step of the pull changes.
LEMMA SameTerms ==
  ASSUME UNCHANGED <<rec, obj, opts, orig>>
  PROVE  /\ Nondirs' = Nondirs /\ Recorded' = Recorded /\ Positions' = Positions
         /\ \A p \in Paths : /\ Leaf(p)' <=> Leaf(p)
                             /\ Excused(p)' <=> Excused(p)
                             /\ Vetted(p)' <=> Vetted(p)
                             /\ Judged(p)' <=> Judged(p)
                             /\ LeafRec(p)' = LeafRec(p)
  <1>1. Nondirs' = Nondirs /\ Recorded' = Recorded /\ Positions' = Positions BY SameWorld
  <1>2. \A p \in Paths : LeafRec(p)' = LeafRec(p) BY <1>1 DEF LeafRec
  <1>3. \A p \in Paths : Judged(p)' <=> Judged(p) BY DEF Judged, RecKey, KeyAs
  <1>4. \A p \in Paths : Vetted(p)' <=> Vetted(p) BY <1>1 DEF Vetted, InSubtree
  <1>5. \A p \in Paths : Had(p)' = Had(p) BY DEF Had, DiskIn
  <1>6. \A p \in Paths : UnseenWrite(p)' <=> UnseenWrite(p)
    <2>. SUFFICES ASSUME NEW p \in Paths PROVE UnseenWrite(p)' <=> UnseenWrite(p) OBVIOUS
    <2>1. (\E q \in Positions : InSubtree(p, q) /\ Had(q) # None /\ Had(q).kind = "link")'
          <=> \E q \in Positions : InSubtree(p, q) /\ Had(q) # None /\ Had(q).kind = "link"
      BY <1>1, <1>5 DEF InSubtree, Positions
    <2>2. (\E q \in Beneath(p) : obj[q] # None /\ LeafRec(q) = None /\ orig[q] = None)'
          <=> \E q \in Beneath(p) : obj[q] # None /\ LeafRec(q) = None /\ orig[q] = None
      BY <1>2 DEF Beneath
    <2>. QED BY <2>1, <2>2 DEF UnseenWrite
  <1>. QED BY <1>1, <1>2, <1>3, <1>4, <1>6 DEF Leaf, Excused

LEMMA LeafAfter ==
  ASSUME UNCHANGED <<rec, obj, opts, orig>>, NEW p \in Paths,
         NEW i, i = loc'[p], NEW u, u = Was(i, prep'[p]),
         NEW s, s = spool', NEW t, t = told', NEW d, d = deferred',
         phase' = "sync" => /\ SameYet(p, u, s) /\ Spoken(p, s, t)
                            /\ LeafKey[p] < at' => bad' \/ p \in todo' \/ (Content(p, i, s) /\ Content(p, u, s)),
         phase' = "apply" /\ ~bad' =>
           IF pass' = 1 /\ LeafKey[p] >= at' THEN Ready(p, i, u, s, t) ELSE Sat(p, i, s, t) \/ PutOff(p, d),
         phase' = "place" /\ ~bad' => Sat(p, i, s, t) \/ PutOff(p, d),
         phase' = "extras" /\ ~bad' => Sat(p, i, s, t),
         phase' = "done" /\ status' = "ok" => Sat(p, i, s, t)
  PROVE  LeafHolds(p)'
  <1>1. Excused(p)' <=> Excused(p) BY SameTerms
  <1>2. Sat(p, i, s, t) => Sat(p, loc[p], spool, told)'
    BY <1>1 DEF Sat, Good, KeptHere, Spells
  <1>3. PutOff(p, d) => PutOff(p, deferred)' BY DEF Last
  <1>a. u = Met(p)' BY DEF Met, Was
  <1>4. SameYet(p, u, s) => SameYet(p, Met(p), spool)' BY <1>a, <1>1 DEF SameYet, Spells
  <1>5. Spoken(p, s, t) => Spoken(p, spool, told)' BY <1>1 DEF Spoken, Spells
  <1>6. /\ Content(p, i, s) => Content(p, loc[p], spool)'
        /\ Content(p, u, s) => Content(p, Met(p), spool)'
    BY <1>a DEF Content, Spells
  <1>7. Ready(p, i, u, s, t) => Ready(p, loc[p], Met(p), spool, told)' BY <1>4, <1>5, <1>6 DEF Ready
  <1>. QED BY <1>2, <1>3, <1>4, <1>5, <1>6, <1>7 DEF LeafHolds

\* What the apply does is as recorded, and when it leaves a leaf alone.
LEMMA StampedMatches ==
  ASSUME NEW r, r.mode \in Modes, r.mtime \in Nat \cup {NoMtime}, NEW i \in Items,
         i.kind = r.kind, r.kind # "link", ~WrongSize(r, i)
  PROVE  Matches(r, Stamped(r, i)) /\ Stamped(r, i).data = i.data
  <1>1. PICK y : y = Stamped(r, i) OBVIOUS
  <1>2. /\ y \in Items /\ y.kind = r.kind /\ y.data = i.data /\ y.mode = r.mode
        /\ y.mtime = IF r.mtime = NoMtime THEN i.mtime ELSE r.mtime
    BY <1>1, StampedItem
  <1>3. y # None BY <1>2, NoneIsNoItem
  <1>4. ~MtimeShown(r, y)
    <2>1. SUFFICES ASSUME r.mtime # NoMtime PROVE Within(r, y) BY DEF MtimeShown
    <2>2. y.mtime = r.mtime /\ r.mtime \in Nat BY <1>2, <2>1
    <2>3. Drift(r.mtime, y.mtime) = 0 BY <2>2 DEF Drift
    <2>. QED BY <2>1, <2>3, ItemAssumption DEF Within
  <1>5. y.kind = "file" => r.what = RecordOf(y).what BY <1>2 DEF WrongSize, RecordOf
  <1>6. ~ModeDiffers(r, y) BY <1>2 DEF ModeDiffers
  <1>7. ~StatusShows(r, y) BY <1>2, <1>4, <1>5, <1>6 DEF StatusShows
  <1>. QED BY <1>1, <1>2, <1>3, <1>7 DEF Matches

LEMMA LinkMatches ==
  ASSUME NEW r, r.kind = "link", r.mtime \in Nat \cup {NoMtime}, r.what \in Data
  PROVE  Matches(r, LinkAt(r))
  <1>1. PICK y : y = LinkAt(r) OBVIOUS
  <1>2. y \in Items /\ y # None /\ y.kind = "link" BY <1>1, LinkItem, NoneIsNoItem
  <1>3. /\ y.data = r.what
        /\ LinkMtimes /\ r.mtime # NoMtime => y.mtime = r.mtime /\ r.mtime \in Nat
    BY <1>1 DEF LinkAt
  <1>4. ~(LinkMtimes /\ MtimeShown(r, y)) BY <1>3, ItemAssumption DEF MtimeShown, Within, Drift
  <1>. QED BY <1>1, <1>2, <1>3, <1>4 DEF Matches, StatusShows

LEMMA MatchKind ==
  ASSUME NEW r, NEW i, Matches(r, i)
  PROVE  i # None /\ i.kind = r.kind
  BY DEF Matches, StatusShows

LeafTells(r, i, d, u, v) ==
  /\ v \in {"keep", "conflict", "stale", "missing", "stamp", "place", "defer", "error"}
  /\ v = "keep" => \/ u /\ d = "K"
                   \/ d # "G" /\ Matches(r, i)
                   \/ u /\ d = None /\ i # None /\ OrderedSide(r, i) # "record"
  /\ v = "stamp" => /\ i # None /\ i.kind = r.kind /\ r.kind # "link" /\ ~WrongSize(r, i)
                    /\ ~(u /\ d = "K") /\ d # "G"
                    /\ d = None /\ r.kind = "file" => i.mode \in Readable
  /\ v = "place" => r.kind = "link"
  /\ Matches(r, i) => v \in {"keep", "stale"}
  /\ u /\ d # "D" /\ i # None /\ OrderedSide(r, i) # "record"
     => v \in {"keep", "conflict", "stale", "error"}

LEMMA LeafVerdict ==
  ASSUME NEW r, r.kind \in Kinds \ {"dir"}, NEW i, NEW d \in {None, "D", "K", "G"}, NEW u \in BOOLEAN,
         NEW w, NEW v, v = ApplyVerdict(r, i, d, u, w)
  PROVE  LeafTells(r, i, d, u, v)
  <1>. USE DEF LeafTells
  <1>1. None \notin {"D", "K", "G"} BY ItemAssumption
  <1>2. OrderedSide(r, i) \in {"tie", "local", "record"} BY SideIs
  <1>3. CASE u /\ d = "K"
    <2>1. v = "keep" BY <1>3 DEF ApplyVerdict
    <2>. QED BY <1>3, <2>1
  <1>4. CASE d = "G" /\ ~(u /\ d = "K")
    <2>1. v = "stale" BY <1>4 DEF ApplyVerdict
    <2>. QED BY <1>4, <2>1
  <1>5. CASE ~(u /\ d = "K") /\ d # "G" /\ r.kind = "link"
    <2>1. v = ApplyLink(r, i, u /\ d = None, w) BY <1>5 DEF ApplyVerdict
    <2>2. Kept(r, i) \in {"keep", "conflict"} BY DEF Kept
    <2>3. CASE Matches(r, i)
      <3>1. v = "keep" BY <2>1, <2>3 DEF ApplyLink
      <3>. QED BY <1>5, <2>3, <3>1
    <2>4. CASE ~Matches(r, i) /\ u /\ d = None /\ i # None /\ KeepsLocal(r, i)
      <3>1. v = Kept(r, i) BY <2>1, <2>4 DEF ApplyLink
      <3>2. OrderedSide(r, i) # "record" BY <2>4 DEF KeepsLocal
      <3>. QED BY <1>5, <2>2, <2>4, <3>1, <3>2
    <2>5. CASE ~Matches(r, i) /\ ~(u /\ d = None /\ i # None /\ KeepsLocal(r, i))
      <3>1. v \in {"defer", "place"} BY <2>1, <2>5 DEF ApplyLink
      <3>2. ~(u /\ d # "D" /\ i # None /\ OrderedSide(r, i) # "record")
        BY <1>2, <1>5, <2>5 DEF KeepsLocal
      <3>. QED BY <1>5, <2>5, <3>1, <3>2
    <2>. QED BY <2>3, <2>4, <2>5
  <1>6. CASE ~(u /\ d = "K") /\ d # "G" /\ r.kind # "link"
    <2>1. v = ApplyOther(r, i, d, u) BY <1>6 DEF ApplyVerdict, Kinds
    <2>2. PICK unread, orders :
            /\ unread = (d = None /\ r.kind = "file" /\ i # None /\ i.kind = "file" /\ i.mode \notin Readable)
            /\ orders = (u /\ d = None /\ i # None /\ (DirAtFile(r, i) \/ i.kind = r.kind))
      OBVIOUS
    <2>3. v = IF Matches(r, i) THEN "keep" ELSE IF unread THEN "stale"
              ELSE IF orders THEN Ordered(r, i) ELSE Repair(r, i)
      BY <2>1, <2>2 DEF ApplyOther
    <2>4. /\ Repair(r, i) \in {"missing", "error", "stamp"}
          /\ Repair(r, i) = "missing" => i = None
          /\ Repair(r, i) = "stamp" => i # None /\ i.kind = r.kind /\ ~WrongSize(r, i)
      BY DEF Repair
    <2>5. Kept(r, i) \in {"keep", "conflict"} BY DEF Kept
    <2>6. CASE Matches(r, i)
      <3>1. v = "keep" BY <2>3, <2>6
      <3>. QED BY <1>6, <2>6, <3>1
    <2>7. CASE ~Matches(r, i) /\ unread
      <3>1. v = "stale" BY <2>3, <2>7
      <3>. QED BY <1>6, <2>7, <3>1
    <2>8. CASE ~Matches(r, i) /\ ~unread /\ orders
      <3>1. v = Ordered(r, i) BY <2>3, <2>8
      <3>2. u /\ d = None /\ i # None BY <2>2, <2>8
      <3>3. CASE OrderedSide(r, i) = "local"
        <4>1. v = "keep" BY <3>1, <3>3 DEF Ordered
        <4>. QED BY <1>6, <2>8, <3>2, <3>3, <4>1
      <3>4. CASE OrderedSide(r, i) # "local" /\ (DirAtFile(r, i) \/ (OrderedSide(r, i) = "tie" /\ ~WrongSize(r, i)))
        <4>1. v = "conflict" \/ (v \in {"keep", "conflict"} /\ OrderedSide(r, i) = "tie")
          BY <2>5, <3>1, <3>4 DEF Ordered
        <4>. QED BY <1>6, <2>8, <3>2, <3>4, <4>1
      <3>5. CASE OrderedSide(r, i) # "local" /\ ~DirAtFile(r, i) /\ ~(OrderedSide(r, i) = "tie" /\ ~WrongSize(r, i))
        <4>1. v = Repair(r, i) BY <3>1, <3>5 DEF Ordered
        <4>2. i.kind = r.kind BY <2>2, <2>8, <3>5
        <4>3. r.kind = "file" => i.mode \in Readable BY <2>2, <2>8, <3>2, <4>2
        <4>4. OrderedSide(r, i) # "record" => WrongSize(r, i) BY <1>2, <3>5
        <4>5. v \in {"stamp", "error"} /\ (OrderedSide(r, i) # "record" => v = "error")
          BY <2>4, <3>2, <4>1, <4>4
        <4>. QED BY <1>6, <2>4, <2>8, <3>2, <4>1, <4>2, <4>3, <4>5
      <3>. QED BY <3>3, <3>4, <3>5
    <2>9. CASE ~Matches(r, i) /\ ~unread /\ ~orders
      <3>1. v = Repair(r, i) BY <2>3, <2>9
      <3>2. v = "stamp" /\ d = None /\ r.kind = "file" => i.mode \in Readable BY <2>2, <2>4, <2>9, <3>1
      <3>3. u /\ d # "D" /\ i # None => v = "error"
        <4>. SUFFICES ASSUME u, d # "D", i # None PROVE v = "error" OBVIOUS
        <4>1. d = None BY <1>6
        <4>2. i.kind # r.kind BY <2>2, <2>9, <4>1
        <4>. QED BY <3>1, <4>2 DEF Repair
      <3>. QED BY <1>6, <2>4, <2>9, <3>1, <3>2, <3>3
    <2>. QED BY <2>6, <2>7, <2>8, <2>9
  <1>. QED BY <1>3, <1>4, <1>5, <1>6

LEMMA LeafPath ==
  ASSUME Inv, NEW p \in Nondirs
  PROVE  /\ p \in Paths \ {Root} /\ p \in Recorded /\ rec[p] # None /\ RecKey(p) = LeafKey[p]
         /\ LeafKey[p] \in Nat /\ LeafRec(p) = rec[p] /\ rec[p].kind \in Kinds \ {"dir"}
         /\ rec[p].mode \in Modes /\ rec[p].mtime \in Nat \cup {NoMtime}
         /\ rec[p].kind = "link" => rec[p].what \in Data
         /\ Judged(p) => LeafKey[p] \notin opts.excluded
  <1>1. p \in Paths /\ p \in Recorded /\ rec[p] # None /\ rec[p].kind # "dir" BY DEF Nondirs, Recorded
  <1>2. /\ rec[p].kind \in Kinds /\ rec[p].mode \in Modes /\ rec[p].mtime \in Nat \cup {NoMtime}
        /\ rec[p].kind = "link" => rec[p].what \in Data
        /\ rec[Root] # None => rec[Root].kind = "dir"
    BY <1>1, GivenFacts DEF Inv, Typed
  <1>3. p # Root BY <1>1, <1>2
  <1>4. RecKey(p) = LeafKey[p] BY <1>1 DEF RecKey, KeyAs
  <1>5. LeafKey[p] \in Nat BY <1>1, KeysDiffer
  <1>6. LeafRec(p) = rec[p] BY DEF LeafRec
  <1>7. Judged(p) => LeafKey[p] \notin opts.excluded BY <1>3, <1>4 DEF Judged
  <1>. QED BY <1>1, <1>2, <1>3, <1>4, <1>5, <1>6, <1>7

LEMMA NothingBeneath ==
  ASSUME Inv, phase \notin {"start", "done"}, NEW p \in Nondirs, NEW q \in Recorded
  PROVE  p \notin Above[q]
  <1>1. ~Unrestorable BY DEF Inv, Refused
  <1>. QED BY <1>1 DEF Unrestorable, Beneath, Recorded

LEMMA StruckIs ==
  ASSUME Inv, NEW p \in Unseen, Struck(p)
  PROVE  p \in Nondirs /\ DecidedFor(p).get
  <1>1. PICK r, i, o, c : r = LeafRec(p) /\ i = Was(loc[p], prep[p]) /\ o = obj[p] /\ c = opts.checksum OBVIOUS
  <1>2. i # None /\ i.kind = "special" /\ ~Listed(loc[p])
    <2>1. p \in Paths /\ loc[p] \in Slot /\ prep[p] \in Modes \cup {None}
      BY DEF Unseen, Inv, Typed, Treelike
    <2>. QED BY <1>1, <2>1, WasIs DEF Struck, Listed
  <1>3. None \notin {"D", "K", "G"} BY ItemAssumption
  <1>4. /\ Leave.say # "D" /\ Fetch.say # "D" /\ Download.get /\ Keep.say # "D" /\ Conflict.say # "D"
        /\ Residue.say # "D"
    BY <1>3 DEF Leave, Fetch, Download, Keep, Conflict, Residue, Says
  <1>5. PICK v : v = DecidedFor(p) OBVIOUS
  <1>6. v.say = "D" BY <1>5 DEF Struck
  <1>7. LeafKey[p] \notin opts.excluded BY <1>4, <1>5, <1>6 DEF DecidedFor
  <1>8. v = SyncVerdict(r, i, o, Listed(loc[p]), opts) BY <1>1, <1>5, <1>7 DEF DecidedFor
  <1>9. o # None
    <2>. SUFFICES ASSUME o = None PROVE FALSE OBVIOUS
    <2>1. v = Orphan(r) BY <1>8 DEF SyncVerdict
    <2>2. v = Leave \/ v.say = "G" BY <2>1 DEF Orphan, Says
    <2>. QED BY <1>4, <1>6, <2>2
  <1>10. v = IF opts.update THEN UpdateCreate(r, i) ELSE PlainCreate(r, i)
    BY <1>2, <1>8, <1>9 DEF SyncVerdict
  <1>11. r # None
    <2>. SUFFICES ASSUME r = None PROVE FALSE OBVIOUS
    <2>1. UpdateCreate(r, i) = Conflict BY <1>2 DEF UpdateCreate
    <2>2. PlainCreate(r, i) = Residue BY <1>2 DEF PlainCreate
    <2>. QED BY <1>4, <1>6, <1>10, <2>1, <2>2
  <1>12. UpdateCreate(r, i) \in {Leave, Download, Keep, Conflict}
    <2>1. OrderedSide(r, i) \in {"tie", "local", "record"} BY SideIs
    <2>2. CASE r.kind # "file" BY <1>2, <1>11, <2>2 DEF UpdateCreate
    <2>3. CASE r.kind = "file" BY <1>2, <1>11, <2>1, <2>3 DEF UpdateCreate
    <2>. QED BY <2>2, <2>3
  <1>13. PlainCreate(r, i) \in {Leave, Download} BY <1>2, <1>11 DEF PlainCreate
  <1>14. v = Download BY <1>4, <1>6, <1>10, <1>12, <1>13
  <1>15. p \in Nondirs BY <1>1, <1>11 DEF LeafRec
  <1>. QED BY <1>4, <1>5, <1>14, <1>15

\* What --checksum does not fetch has the object's content, or is spooled.
LEMMA ContentSaid ==
  ASSUME Inv, NEW p \in Unseen, p \in Nondirs, Judged(p), opts.checksum, rec[p].kind = "file",
         NEW v, v = DecidedFor(p), ~v.get
  PROVE  \/ v.say = "G" \/ (opts.update /\ v.say = "K")
         \/ loc[p] = None \/ loc[p].kind # "file" \/ loc[p].data = obj[p]
  <1>1. PICK r, i, o, li : r = rec[p] /\ i = Was(loc[p], prep[p]) /\ o = obj[p] /\ li = Listed(loc[p]) OBVIOUS
  <1>a. /\ i = None => loc[p] = None
        /\ i # None => loc[p] # None /\ i.kind = loc[p].kind /\ i.data = loc[p].data
        /\ li => i # None /\ i.kind = "file"
    <2>1. p \in Paths /\ loc[p] \in Slot /\ prep[p] \in Modes \cup {None}
      BY DEF Unseen, Inv, Typed, Treelike
    <2>. QED BY <1>1, <2>1, WasIs DEF Listed
  <1>2. LeafKey[p] \notin opts.excluded /\ LeafRec(p) = r /\ r # None /\ r.kind = "file" BY <1>1, LeafPath
  <1>3. v = SyncVerdict(r, i, o, li, opts) BY <1>1, <1>2 DEF DecidedFor
  <1>4. o # None \/ li BY <1>1 DEF Unseen
  <1>5. /\ Fetch.get /\ Download.get /\ Keep.say = "K" /\ Conflict.say = "K"
    BY DEF Fetch, Download, Keep, Conflict, Says
  <1>6. CASE o = None
    <2>1. v = Orphan(r) BY <1>3, <1>6 DEF SyncVerdict
    <2>2. v.say = "G" BY <1>2, <2>1 DEF Orphan, Says
    <2>. QED BY <2>2
  <1>7. CASE o # None /\ li /\ ~opts.update
    <2>1. v = PlainPair(r, i, o, TRUE) BY <1>3, <1>7 DEF SyncVerdict
    <2>2. o = i.data BY <1>5, <2>1 DEF PlainPair
    <2>. QED BY <1>1, <1>a, <2>2
  <1>8. CASE o # None /\ li /\ opts.update
    <2>1. v = UpdatePair(r, i, o, TRUE) BY <1>3, <1>8 DEF SyncVerdict
    <2>2. PICK side : side = OrderedSide(r, i) OBVIOUS
    <2>3. side \in {"tie", "local", "record"} BY <2>2, SideIs
    <2>4. v = IF ObjectDrifted(r, o) THEN Conflict
              ELSE CASE side = "local"  -> Keep
                     [] side = "record" -> IF o # i.data THEN Download ELSE Leave
                     [] side = "tie"    -> IF TieConflict(r, i, o # i.data) THEN Conflict ELSE Leave
      BY <1>2, <2>1, <2>2 DEF UpdatePair
    <2>5. i.kind = "file" BY <1>a, <1>8
    <2>6. ~TieConflict(r, i, o # i.data) => o = i.data BY <2>5 DEF TieConflict
    <2>7. v \in {Conflict, Keep} \/ o = i.data BY <1>5, <2>3, <2>4, <2>6
    <2>. QED BY <1>1, <1>a, <1>5, <1>8, <2>7
  <1>9. CASE o # None /\ ~li /\ ~opts.update
    <2>1. v = PlainCreate(r, i) BY <1>3, <1>9 DEF SyncVerdict
    <2>2. i = None \/ i.kind = "dir" BY <1>2, <1>5, <2>1 DEF PlainCreate
    <2>. QED BY <1>1, <1>a, <2>2
  <1>10. CASE o # None /\ ~li /\ opts.update
    <2>1. v = UpdateCreate(r, i) BY <1>3, <1>10 DEF SyncVerdict
    <2>2. i = None \/ i.kind # "file" BY <1>2, <1>5, <2>1 DEF UpdateCreate
    <2>. QED BY <1>1, <1>a, <2>2
  <1>. QED BY <1>4, <1>6, <1>7, <1>8, <1>9, <1>10

LEMMA PrepKeeps ==
  ASSUME Unfolded, Inv, Prep
  PROVE  /\ \A p \in Paths : p # Root \/ loc[Root] # None =>
              /\ loc[p] = None => loc'[p] = None
              /\ loc[p] # None => loc'[p] # None /\ loc'[p].kind = loc[p].kind
              /\ Was(loc'[p], prep'[p]) = loc[p]
         /\ \A p \in Paths : Stands(loc, p) => loc'[p] = loc[p]
         /\ \A p \in Paths : prep'[p] # None =>
              /\ p \in Recorded /\ loc[p] # None /\ loc[p].kind = "file" /\ prep'[p] = loc[p].mode
              /\ loc'[p] = [loc[p] EXCEPT !.mode = Opened[prep'[p]]]
         /\ loc'[Root] # None /\ UNCHANGED <<rec, obj, opts, orig, at, todo, spool, told, bad>>
  <1>1. UNCHANGED <<rec, obj, opts, orig, at, todo, spool, told, bad>> BY DEF Prep, world, syncing
  <1>2. Treelike(loc) /\ loc \in [Paths -> Slot] BY DEF Inv, Typed, Treelike
  <1>3. \A p \in Paths : Preppable(p) <=> /\ Windows /\ p \in Recorded /\ loc[p] # None
                                          /\ loc[p].kind = "file" /\ loc[p].mode \notin Writable
    BY OneNameIs DEF Preppable
  <1>4. \A p \in Paths : prep'[p] = IF Preppable(p) THEN loc[p].mode ELSE None
    BY OneNameIs DEF Prep
  <1>5. \A p \in Paths : loc'[p] = IF p = Root /\ loc[Root] = None THEN NewDir
                                    ELSE IF Preppable(p) THEN [loc[p] EXCEPT !.mode = Opened[loc[p].mode]]
                                    ELSE loc[p]
    <2>1. \A p \in Paths : (\E q \in Paths : Preppable(q) /\ Disk(q) = p) <=> Preppable(p) BY OneNameIs
    <2>. QED BY <2>1 DEF Prep
  <1>6. ~Preppable(Root) \/ loc[Root] = None BY <1>2, <1>3, TreeAssumption DEF Treelike
  <1>7. ASSUME NEW p \in Paths, Preppable(p)
        PROVE  /\ p \in Recorded /\ loc[p] # None /\ loc[p].kind = "file" /\ prep'[p] = loc[p].mode /\ prep'[p] # None
               /\ loc'[p] = [loc[p] EXCEPT !.mode = Opened[prep'[p]]]
               /\ loc'[p] # None /\ loc'[p].kind = "file" /\ Was(loc'[p], prep'[p]) = loc[p]
    <2>1. /\ p \in Recorded /\ loc[p] # None /\ loc[p].kind = "file" /\ prep'[p] = loc[p].mode
          /\ loc'[p] = [loc[p] EXCEPT !.mode = Opened[prep'[p]]]
      BY <1>3, <1>4, <1>5, <1>7
    <2>2. PICK i : i = loc[p] OBVIOUS
    <2>3. i \in Items /\ i.mode \in Modes /\ i.mode # None BY <1>2, <2>1, <2>2, SlotItem, NoneIsNoItem DEF Items
    <2>4. Opened[i.mode] \in Modes BY <2>3, ItemAssumption
    <2>5. PICK j : j = [i EXCEPT !.mode = Opened[i.mode]] OBVIOUS
    <2>6. j \in Items /\ j.kind = i.kind /\ j # None BY <2>3, <2>4, <2>5, RemodedItem, NoneIsNoItem
    <2>7. [j EXCEPT !.mode = i.mode] = i BY <2>3, <2>5 DEF Items
    <2>8. loc'[p] = j /\ prep'[p] = i.mode BY <2>1, <2>2, <2>5
    <2>9. Was(j, i.mode) = i BY <2>3, <2>6, <2>7 DEF Was
    <2>. QED BY <2>1, <2>2, <2>3, <2>6, <2>8, <2>9
  <1>8. ASSUME NEW p \in Paths, ~Preppable(p), p # Root \/ loc[Root] # None
        PROVE  loc'[p] = loc[p] /\ prep'[p] = None /\ Was(loc'[p], prep'[p]) = loc[p]
    BY <1>4, <1>5, <1>8 DEF Was
  <1>9. loc'[Root] # None BY <1>5, <1>6, NewDirItem, TreeAssumption
  <1>10. \A p \in Paths : prep'[p] # None => Preppable(p) BY <1>4
  <1>11. \A p \in Paths : Stands(loc, p) => ~Preppable(p) /\ (p # Root \/ loc[Root] # None)
    BY <1>3 DEF Stands
  <1>. QED BY <1>1, <1>7, <1>8, <1>9, <1>10, <1>11

\* How the spool grows with a decision.
Grows(p, v, s) ==
  /\ \A key, say : Spells(spool, key, say) => Spells(s, key, say)
  /\ v.say # None => Spells(s, LeafKey[p], v.say)
  /\ \A key, say : Spells(s, key, say) =>
       \/ Spells(spool, key, say)
       \/ say = "D" /\ v.get /\ opts.update /\ \E c \in Above[p] : ~Stands(loc, c) /\ key = DirKey[c]
       \/ v.say # None /\ v.say = say /\ key = LeafKey[p]
  /\ v.get /\ opts.update /\ walked # Up[p] => \A c \in Above[p] : Stands(loc, c) \/ Spells(s, DirKey[c], "D")

LEMMA DecideGrows ==
  ASSUME Unfolded, Inv, NEW p \in Unseen, NEW v \in Verdicts, NEW s, s = spool \o Decided(p, v)
  PROVE  Grows(p, v, s)
  <1>1. p \in Paths \ {Root} BY DEF Unseen
  <1>3. PICK b : b = Decided(p, v) OBVIOUS
  <1>5. /\ b \in Seq(Lines)
        /\ \A n \in 1..Len(b) :
             \/ /\ v.get /\ opts.update
                /\ \E c \in Above[p] : ~Stands(loc, c) /\ b[n] = Line("D", DirKey[c])
             \/ v.say # None /\ b[n] = Line(v.say, LeafKey[p])
    BY <1>1, <1>3, DecidedRun
  <1>13. v.say # None => \E n \in 1..Len(b) : b[n] = Line(v.say, LeafKey[p]) BY <1>1, <1>3, DecidedRun
  <1>14. v.get /\ opts.update /\ walked # Up[p] =>
           \A c \in Above[p] : Stands(loc, c) \/ \E n \in 1..Len(b) : b[n] = Line("D", DirKey[c])
    BY <1>1, <1>3, DecidedRun
  <1>2. spool \in Seq(Lines) BY DEF Inv, Typed
  <1>4. \A x, y : Line(x, y).key = y /\ Line(x, y).say = x BY DEF Line
  <1>6. s = spool \o b BY <1>3
  <1>7. Joined(s, spool, b) BY <1>2, <1>5, <1>6, JoinedIs
  <1>8. \A key, say : Spells(spool, key, say) => Spells(s, key, say) BY <1>7 DEF Joined, Spells
  <1>9. \A n \in 1..Len(b) : Spells(s, b[n].key, b[n].say) BY <1>7 DEF Joined, Spells
  <1>10. v.say # None => Spells(s, LeafKey[p], v.say)
    <2>. SUFFICES ASSUME v.say # None PROVE Spells(s, LeafKey[p], v.say) OBVIOUS
    <2>1. PICK n \in 1..Len(b) : b[n] = Line(v.say, LeafKey[p]) BY <1>13
    <2>. QED BY <1>4, <1>9, <2>1
  <1>11. ASSUME NEW key, NEW say, Spells(s, key, say)
         PROVE  \/ Spells(spool, key, say)
                \/ /\ say = "D" /\ v.get /\ opts.update
                   /\ \E c \in Above[p] : ~Stands(loc, c) /\ key = DirKey[c]
                \/ v.say # None /\ v.say = say /\ key = LeafKey[p]
    <2>1. PICK n \in 1..Len(s) : s[n].key = key /\ s[n].say = say BY <1>11 DEF Spells
    <2>2. CASE n \in 1..Len(spool)
      <3>1. s[n] = spool[n] BY <1>7, <2>2 DEF Joined
      <3>. QED BY <2>1, <2>2, <3>1 DEF Spells
    <2>3. CASE \E j \in 1..Len(b) : n = Len(spool) + j
      <3>1. PICK j \in 1..Len(b) : s[n] = b[j] BY <1>7, <2>3 DEF Joined
      <3>2. \/ /\ v.get /\ opts.update
               /\ \E c \in Above[p] : ~Stands(loc, c) /\ b[j] = Line("D", DirKey[c])
            \/ v.say # None /\ b[j] = Line(v.say, LeafKey[p])
        BY <1>5
      <3>3. b[j].key = key /\ b[j].say = say BY <2>1, <3>1
      <3>. QED BY <1>4, <3>2, <3>3
    <2>. QED BY <1>7, <2>2, <2>3 DEF Joined
  <1>12. v.get /\ opts.update /\ walked # Up[p] =>
           \A c \in Above[p] : Stands(loc, c) \/ Spells(s, DirKey[c], "D")
    <2>. SUFFICES ASSUME v.get, opts.update, walked # Up[p], NEW c \in Above[p], ~Stands(loc, c)
                  PROVE  Spells(s, DirKey[c], "D")
      OBVIOUS
    <2>1. PICK n \in 1..Len(b) : b[n] = Line("D", DirKey[c]) BY <1>14
    <2>. QED BY <1>4, <1>9, <2>1
  <1>. QED BY <1>8, <1>10, <1>11, <1>12 DEF Grows

LEMMA SyncAfter ==
  ASSUME UNCHANGED <<rec, obj, opts, orig>>, NEW l, l = loc', NEW t, t = todo', NEW s, s = spool', NEW k, k = at',
         phase' \in {"start", "vet", "make", "prep"} => EarlyTree(l) /\ (bad' \/ Refilled(l, phase', k)),
         phase' = "make" => Refilling(k), phase' = "prep" => ~bad',
         phase' = "sync" => TakenOn(l, t, s, k)
  PROVE  SyncFits'
  <1>0. Nondirs' = Nondirs /\ \A q \in Paths : Vetted(q)' <=> Vetted(q) BY SameTerms
  <1>1. (\A q \in Paths : Vetted(q)' <=> Vetted(q)) /\ \A q : LeafRec(q)' = LeafRec(q) BY <1>0 DEF LeafRec
  <1>2. EarlyTree(l) => EarlyTree(loc)' BY <1>1 DEF EarlyTree, Stands
  <1>4. Refilled(l, phase', k) => Refilled(loc, phase, at)' BY DEF Refilled
  <1>3. TakenOn(l, t, s, k) => TakenOn(loc, todo, spool, at)' BY <1>1 DEF TakenOn, Spells
  <1>5. Refilling(k) => Refilling(at)'
    <2>1. Positions' = Positions BY SameTerms
    <2>. QED BY <2>1 DEF Refilling
  <1>. QED BY <1>2, <1>3, <1>4, <1>5 DEF SyncFits

(* Before the sync, only the vetting has changed the tree.                 *)
LEMMA VetEarly ==
  ASSUME Unfolded, Inv, SyncFits, Vet
  PROVE  SyncFits'
  <1>1. UNCHANGED <<rec, obj, opts, orig>> /\ phase = "vet" BY DEF Vet, world
  <1>2. Treelike(loc) /\ EarlyTree(loc) /\ (bad \/ Refilled(loc, "vet", at)) BY <1>1 DEF SyncFits, Inv, Typed
  <1>4. \/ /\ loc' = loc /\ phase' \in {"done", "prep", "vet"} /\ (bad => bad')
           /\ phase' = "prep" => ~bad'
        \/ /\ phase' = "make" /\ bad' = bad
           /\ \E q \in Positions : /\ Found(q) # None /\ Found(q).kind = "link" /\ loc' = Removed(loc, Disk(q))
                                   /\ at' = DirKey[q]
    <2>1. PICK left, q : /\ left = {x \in Positions : DirKey[x] >= at /\ Found(x) # None /\ Found(x).kind = "link"}
                         /\ q = First(left, DirKey)
      OBVIOUS
    <2>2. left \in SUBSET Paths BY <2>1 DEF Positions
    <2>3. left # {} => q \in left BY <2>1, <2>2, FirstIs, TreeAssumption
    <2>. QED BY <1>1, <2>1, <2>3 DEF Vet
  <1>5. CASE loc' = loc /\ phase' \in {"done", "prep", "vet"} /\ (bad => bad') /\ (phase' = "prep" => ~bad')
    <2>1. bad' \/ Refilled(loc, phase', at') BY <1>2, <1>5 DEF Refilled
    <2>. QED BY <1>1, <1>2, <1>5, <2>1, SyncAfter
  <1>6. CASE /\ phase' = "make" /\ bad' = bad
             /\ \E q \in Positions : /\ Found(q) # None /\ Found(q).kind = "link" /\ loc' = Removed(loc, Disk(q))
                                     /\ at' = DirKey[q]
    <2>1. PICK q \in Positions : /\ Found(q) # None /\ Found(q).kind = "link" /\ loc' = Removed(loc, Disk(q))
                                 /\ at' = DirKey[q]
      BY <1>6
    <2>2. PICK m : m = loc' OBVIOUS
    <2>3. q \in Paths \ {Root} BY DEF Positions
    <2>4. loc[q] # None /\ loc[q].kind = "link" /\ ~Stands(loc, q) /\ m = Removed(loc, q)
      BY <2>1, <2>2, <2>3, OneNameIs DEF Stands
    <2>5. Stands(loc, Up[q]) /\ ~InSubtree(q, Up[q]) /\ Up[q] \in Above[q] /\ Up[q] \in Paths
      <3>1. Up[q] \in Above[q] BY <2>3, AboveUp
      <3>2. Stands(loc, Up[q]) BY <1>2, <2>3, <2>4, <3>1, AncestorsStand
      <3>3. q # Up[q] /\ q \notin Above[Up[q]] BY <2>3, <3>1, AboveKey, AboveTypes, AboveTrans
      <3>. QED BY <2>3, <3>1, <3>2, <3>3, TreeAssumption DEF InSubtree
    <2>6. /\ \A x \in Paths : ~InSubtree(q, x) /\ x # Up[q] => m[x] = loc[x]
          /\ \A x \in Paths : InSubtree(q, x) => m[x] = None
          /\ Stands(m, Up[q])
      BY <1>2, <2>3, <2>4, <2>5, RemovedExact
    <2>7. Bare(loc, q) BY <1>2, <2>3, <2>4, LeafIsBare
    <2>8. \A x \in Paths : q \in Above[x] => loc[x] = None BY <1>2, <2>3, <2>7, NothingIn
    <2>9. orig[q] # None /\ orig[q].kind = "link" BY <1>2, <2>3, <2>4 DEF EarlyTree, Stands
    <2>10. Vetted(q) /\ Vetted(Up[q]) BY <2>3, <2>5, <2>9 DEF Vetted, InSubtree
    <2>11. \A x \in Paths : x # q /\ x # Up[q] => m[x] = loc[x] BY <2>6, <2>8 DEF InSubtree
    <2>12. EarlyTree(m)
      <3>. SUFFICES ASSUME NEW x \in Paths PROVE m[x] = orig[x] \/ ((m[x] = None \/ Stands(m, x)) /\ Vetted(x))
        BY DEF EarlyTree
      <3>1. CASE x = q
        <4>1. m[x] = None BY <2>6, <3>1 DEF InSubtree
        <4>. QED BY <2>10, <3>1, <4>1
      <3>2. CASE x = Up[q] BY <2>6, <2>10, <3>2
      <3>3. CASE x # q /\ x # Up[q]
        <4>1. m[x] = loc[x] /\ (loc[x] = orig[x] \/ ((loc[x] = None \/ Stands(loc, x)) /\ Vetted(x)))
          BY <1>2, <2>11, <3>3 DEF EarlyTree
        <4>. QED BY <4>1 DEF Stands
      <3>. QED BY <3>1, <3>2, <3>3
    <2>13. bad' \/ Refilled(m, phase', at')
      <3>. SUFFICES ASSUME ~bad', NEW x \in Paths, orig[x] # None, m[x] = None PROVE x = q
        BY <1>6, <2>1 DEF Refilled
      <3>1. x # Up[q] BY <2>6 DEF Stands
      <3>2. x # q => loc[x] = None BY <2>11, <3>1
      <3>. QED BY <1>2, <1>6, <3>2 DEF Refilled
    <2>14. Refilling(at') BY <2>1, <2>9 DEF Refilling
    <2>. QED BY <1>1, <1>6, <2>2, <2>12, <2>13, <2>14, SyncAfter
  <1>. QED BY <1>4, <1>5, <1>6

LEMMA MakeEarly ==
  ASSUME Unfolded, Inv, SyncFits, Make
  PROVE  SyncFits'
  <1>1. UNCHANGED <<rec, obj, opts, orig>> /\ phase = "make" /\ phase' = "vet" BY DEF Make, world
  <1>2. Typed /\ MakeFits /\ Treelike(loc) /\ EarlyTree(loc) /\ (bad \/ Refilled(loc, "make", at))
    BY <1>1 DEF SyncFits, Inv, Typed
  <1>3. PICK q \in Positions : DirKey[q] = at /\ loc[q] = None /\ \A a \in Above[q] : Stands(loc, a)
    BY <1>1, <1>2 DEF MakeFits
  <1>4. q \in Paths \ {Root} BY DEF Positions
  <1>8. orig[q] # None /\ orig[q].kind = "link"
    <2>1. PICK y \in Positions : DirKey[y] = at /\ orig[y] # None /\ orig[y].kind = "link"
      BY <1>1 DEF SyncFits, Refilling
    <2>2. y \in Paths BY DEF Positions
    <2>3. y = q BY <1>3, <1>4, <2>1, <2>2, KeysDiffer
    <2>. QED BY <2>1, <2>3
  <1>5. \/ loc' = loc /\ bad'
        \/ loc' = Put(loc, q, NewDir) /\ bad' = bad
    <2>1. CASE loc' = loc /\ bad' = TRUE BY <2>1
    <2>2. CASE (\E y \in Positions : DirKey[y] = at /\ loc' = Put(loc, y, NewDir)) /\ bad' = bad
      <3>1. PICK y \in Positions : DirKey[y] = at /\ loc' = Put(loc, y, NewDir) BY <2>2
      <3>2. y \in Paths BY DEF Positions
      <3>3. y = q BY <1>3, <1>4, <3>1, <3>2, KeysDiffer
      <3>. QED BY <2>2, <3>1, <3>3
    <2>. QED BY <2>1, <2>2 DEF Make
  <1>6. CASE loc' = loc /\ bad' BY <1>1, <1>2, <1>6, SyncAfter
  <1>7. CASE loc' = Put(loc, q, NewDir) /\ bad' = bad
    <2>1. PICK m : m = loc' OBVIOUS
    <2>2. Found(q) = None BY <1>3, <1>4, OneNameIs
    <2>3. ~Blocked(q) /\ m = Put(Cleared(q), q, NewDir) BY <1>3, <1>7, <2>1, <2>2 DEF Blocked, Stands, Cleared
    <2>4. NewDir \in Items /\ NewDir # None /\ NewDir.kind = "dir" BY NewDirItem
    <2>5. ~Stands(loc, q) BY <1>3 DEF Stands
    <2>6. /\ m[q] = NewDir
          /\ \A x \in Paths : ~InSubtree(q, x) /\ x \notin Above[q] => m[x] = loc[x]
          /\ \A x \in Paths : q \in Above[x] => m[x] = loc[x]
          /\ \A x \in Above[q] : Stands(m, x)
      BY <1>2, <1>4, <2>3, <2>4, <2>5, PlacedExact
    <2>7. \A x \in Paths : x # q /\ x \notin Above[q] => m[x] = loc[x] BY <2>6 DEF InSubtree
    <2>8. Stands(m, q) BY <2>4, <2>6 DEF Stands
    <2>9. Vetted(q) /\ \A x \in Above[q] : Vetted(x) BY <1>4, <1>8 DEF Vetted, InSubtree
    <2>10. EarlyTree(m)
      <3>. SUFFICES ASSUME NEW x \in Paths PROVE m[x] = orig[x] \/ ((m[x] = None \/ Stands(m, x)) /\ Vetted(x))
        BY DEF EarlyTree
      <3>1. CASE x = q BY <2>8, <2>9, <3>1
      <3>2. CASE x \in Above[q] BY <2>6, <2>9, <3>2
      <3>3. CASE x # q /\ x \notin Above[q]
        <4>1. m[x] = loc[x] /\ (loc[x] = orig[x] \/ ((loc[x] = None \/ Stands(loc, x)) /\ Vetted(x)))
          BY <1>2, <2>7, <3>3 DEF EarlyTree
        <4>. QED BY <4>1 DEF Stands
      <3>. QED BY <3>1, <3>2, <3>3
    <2>11. bad' \/ Refilled(m, phase', at')
      <3>. SUFFICES ASSUME ~bad', NEW x \in Paths, orig[x] # None, m[x] = None PROVE FALSE BY DEF Refilled
      <3>1. x # q /\ x \notin Above[q] BY <2>6, <2>8 DEF Stands
      <3>2. loc[x] = None BY <2>7, <3>1
      <3>3. at = DirKey[x] BY <1>2, <1>7, <3>2 DEF Refilled
      <3>. QED BY <1>3, <1>4, <3>1, <3>3, KeysDiffer
    <2>. QED BY <1>1, <2>1, <2>10, <2>11, SyncAfter
  <1>. QED BY <1>5, <1>6, <1>7

LEMMA PrepTaken ==
  ASSUME Unfolded, Inv, Grounded, SyncFits, Prep
  PROVE  TakenOn(loc', todo', spool', at')
  <1>1. /\ \A p \in Paths : p # Root \/ loc[Root] # None => (loc[p] # None => loc'[p] # None)
        /\ loc'[Root] # None /\ UNCHANGED <<rec, obj, opts, orig, at, todo, spool, told, bad>>
    BY PrepKeeps
  <1>2. phase = "prep" BY DEF Prep
  <1>3. Refilled(loc, phase, at) /\ todo = {} BY <1>2 DEF SyncFits, Grounded, Begun
  <1>4. \A q \in Paths : ~(orig[q] # None /\ loc'[q] = None) BY <1>1, <1>2, <1>3 DEF Refilled
  <1>. QED BY <1>1, <1>3, <1>4 DEF TakenOn

LEMMA DecideTaken ==
  ASSUME Unfolded, Inv, Grounded, SyncFits, Decide
  PROVE  TakenOn(loc', todo', spool', at')
  <1>0. Treelike(loc) /\ spool \in Seq(Lines) /\ at \in Nat BY DEF Grounded, Inv, Typed
  <1>1. /\ phase = "sync" /\ phase' = "sync"
        /\ UNCHANGED <<rec, obj, opts, orig, cur, frames, deferred, post, prep, open, gone, asked, bad, pass, status>>
        /\ \E p \in Unseen :
             /\ \A q \in Unseen : LeafKey[p] <= LeafKey[q]
             /\ at' = LeafKey[p] + 1 /\ spool' = spool \o Decided(p, DecidedFor(p))
             /\ DecidedFor(p) \in Verdicts
             /\ walked' = IF opts.update /\ DecidedFor(p).get /\ ~Listed(loc[p]) THEN Up[p] ELSE walked
             /\ todo' = IF DecidedFor(p).get THEN todo \cup {p} ELSE todo
             /\ told' = IF DecidedFor(p).warn THEN told \cup {p} ELSE told
             /\ loc' = IF Struck(p) THEN Removed(loc, p) ELSE loc
    BY <1>0, DecideExact
  <1>2. PICK p \in Unseen :
             /\ at' = LeafKey[p] + 1 /\ spool' = spool \o Decided(p, DecidedFor(p)) /\ DecidedFor(p) \in Verdicts
             /\ todo' = IF DecidedFor(p).get THEN todo \cup {p} ELSE todo
             /\ loc' = IF Struck(p) THEN Removed(loc, p) ELSE loc
    BY <1>1
  <1>3. p \in Paths \ {Root} /\ at <= LeafKey[p] /\ LeafKey[p] \in Nat BY <1>0, KeysDiffer DEF Unseen
  <1>4. PICK v, s : v = DecidedFor(p) /\ s = spool' OBVIOUS
  <1>5. /\ \A key, say : Spells(spool, key, say) => Spells(s, key, say)
        /\ v.say # None => Spells(s, LeafKey[p], v.say)
    <2>1. Grows(p, v, s) BY <1>2, <1>4, DecideGrows
    <2>. QED BY <2>1 DEF Grows
  <1>6. /\ opts.update => (v.get <=> v.say = "D")
        /\ v.get \/ v.say # None => LeafKey[p] \notin opts.excluded
        /\ v.say \in {"K", "G"} => loc[p] # None
        /\ v.say = "K" => opts.update
        /\ opts.update /\ v.say = "D" /\ LeafRec(p) = None => loc[p] = None
        /\ v.say = "K" /\ p \in Nondirs => v.warn \/ OrderedSide(rec[p], Was(loc[p], prep[p])) = "local"
    BY <1>4, SaidOf
  <1>7. /\ \A x \in todo : LeafKey[x] \notin opts.excluded
        /\ opts.update => \A x \in todo : Spells(spool, LeafKey[x], "D") /\ (LeafRec(x) = None => orig[x] = None)
        /\ \A q \in Paths : orig[q] # None /\ loc[q] = None => LeafKey[q] < at
    BY <1>1 DEF SyncFits, TakenOn
  <1>8. \A x \in todo' : x \in todo \/ (x = p /\ v.get) BY <1>2, <1>4
  <1>9. None # "D" BY ItemAssumption
  <1>10. \A x \in todo' : LeafKey[x] \notin opts.excluded BY <1>6, <1>7, <1>8
  <1>11. ASSUME opts.update, NEW x \in todo' PROVE Spells(s, LeafKey[x], "D") /\ (LeafRec(x) = None => orig[x] = None)
    <2>1. CASE x \in todo BY <1>5, <1>7, <1>11, <2>1
    <2>2. CASE x = p /\ v.get
      <3>1. v.say = "D" BY <1>6, <1>11, <2>2
      <3>2. Spells(s, LeafKey[x], "D") BY <1>5, <1>9, <2>2, <3>1
      <3>3. LeafRec(x) = None => loc[x] = None BY <1>6, <1>11, <2>2, <3>1
      <3>4. loc[x] = None => orig[x] = None BY <1>0, <1>3, <1>7, <2>2
      <3>. QED BY <3>2, <3>3, <3>4
    <2>. QED BY <1>8, <2>1, <2>2
  <1>12. ASSUME NEW q \in Paths, orig[q] # None, loc'[q] = None PROVE LeafKey[q] < at'
    <2>1. LeafKey[q] \in Nat BY KeysDiffer
    <2>2. CASE loc[q] = None BY <1>0, <1>2, <1>3, <1>7, <1>12, <2>1, <2>2
    <2>3. CASE loc[q] # None
      <3>1. Struck(p) /\ loc' = Removed(loc, p) BY <1>2, <1>12, <2>3
      <3>2. loc[p] # None /\ ~Stands(loc, p) BY <3>1 DEF Struck, Stands
      <3>3. q = p \/ Stands(loc', q) \/ loc'[q] = loc[q] \/ p \in Above[q]
        <4>1. /\ \A x \in Paths : ~InSubtree(p, x) /\ x # Up[p] => loc'[x] = loc[x]
              /\ \A x \in Paths : InSubtree(p, x) => loc'[x] = None
              /\ \A x \in Paths : ~InSubtree(p, x) /\ Stands(loc, x) => Stands(loc', x)
          BY <1>0, <1>3, <3>1, <3>2, RemovedExact
        <4>2. Stands(loc, Up[p]) BY <1>0, <1>3, <3>2 DEF Treelike
        <4>3. Up[p] \in Paths /\ ~InSubtree(p, Up[p]) 
          <5>1. Up[p] \in Above[p] BY <1>3, AboveTypes
          <5>. QED BY <1>3, <5>1, AboveKey, AboveTrans DEF InSubtree
        <4>. QED BY <4>1, <4>2, <4>3 DEF InSubtree
      <3>4. CASE q = p BY <1>2, <1>3, <3>4
      <3>5. CASE p \in Above[q]
        <4>1. Stands(loc, p) BY <1>0, <2>3, <3>5, AncestorsStand
        <4>. QED BY <3>2, <4>1
      <3>. QED BY <1>12, <2>3, <3>3, <3>4, <3>5 DEF Stands
    <2>. QED BY <2>2, <2>3
  <1>13. \A x \in todo' : opts.update => Spells(s, LeafKey[x], "D") /\ (LeafRec(x) = None => orig[x] = None) BY <1>11
  <1>14. \A q \in Paths : orig[q] # None /\ loc'[q] = None => LeafKey[q] < at' BY <1>12
  <1>. QED BY <1>4, <1>10, <1>13, <1>14 DEF TakenOn

LEMMA LandTaken ==
  ASSUME Unfolded, Inv, SyncFits, NEW x \in Paths, Land(x)
  PROVE  TakenOn(loc', todo', spool', at')
  <1>1. /\ x \in Paths \ {Root} /\ x \in todo /\ phase = "sync" /\ obj[x] # None
        /\ phase' = "sync" /\ todo' = todo \ {x}
        /\ UNCHANGED <<rec, obj, opts, orig, at, spool, walked, cur, frames, deferred, post, prep, open, gone,
                       asked, told, pass, status>>
        /\ \/ bad' = TRUE /\ loc' = loc
           \/ /\ bad' = bad /\ Treelike(loc')
              /\ loc'[x] = [kind |-> "file", data |-> obj[x], mtime |-> Uploaded, mode |-> Umask]
              /\ \A c \in Paths : Stands(loc, c) => Stands(loc', c)
              /\ \A q \in Paths : q # x /\ q \notin Above[x] => loc'[q] = loc[q]
              /\ \A q \in Above[x] : Stands(loc', q)
              /\ \A q \in Above[x] : \/ loc'[q] = loc[q] \/ q = Up[x] \/ loc[q] = None
                                     \/ \E c \in Above[x] \ {Root} : Up[c] = q /\ loc[c] = None
    BY LandExact
  <1>2. TakenOn(loc, todo, spool, at) BY <1>1 DEF SyncFits
  <1>3. \A q \in Paths : loc'[q] = None => loc[q] = None
    <2>1. CASE loc' = loc BY <2>1
    <2>2. CASE loc' # loc
      <3>1. obj \in [Paths -> Data \cup {None}] BY GivenFacts DEF Inv, Typed
      <3>2. loc'[x] \in Items BY <1>1, <2>2, <3>1, ItemAssumption DEF Items, Kinds
      <3>3. loc'[x] # None BY <3>2, NoneIsNoItem
      <3>. QED BY <1>1, <2>2, <3>3 DEF Stands
    <2>. QED BY <2>1, <2>2
  <1>. QED BY <1>1, <1>2, <1>3 DEF TakenOn

LEMMA SyncFitsStep ==
  ASSUME Unfolded, Inv, Grounded, SyncFits, [Next]_vars
  PROVE  SyncFits'
  <1>1. CASE Start
    <2>1. phase = "start" /\ phase' \notin {"make", "prep", "sync"} /\ UNCHANGED <<rec, obj, opts, orig, loc>>
      BY <1>1 DEF Start, world
    <2>2. orig = loc BY <2>1 DEF Grounded, Begun
    <2>3. EarlyTree(loc) /\ Refilled(loc, phase', at') BY <2>2 DEF EarlyTree, Refilled
    <2>. QED BY <2>1, <2>3, SyncAfter
  <1>2. CASE Vet \/ Make BY <1>2, VetEarly, MakeEarly
  <1>3. CASE Prep
    <2>1. TakenOn(loc', todo', spool', at') BY <1>3, PrepTaken
    <2>2. phase' = "sync" /\ UNCHANGED <<rec, obj, opts, orig>> BY <1>3 DEF Prep, world
    <2>. QED BY <2>1, <2>2, SyncAfter
  <1>4. CASE Decide
    <2>1. TakenOn(loc', todo', spool', at') BY <1>4, DecideTaken
    <2>2. phase' = "sync" /\ UNCHANGED <<rec, obj, opts, orig>> BY <1>4 DEF Decide, world
    <2>. QED BY <2>1, <2>2, SyncAfter
  <1>5. CASE \E x \in Paths : Land(x)
    <2>1. PICK x \in Paths : Land(x) BY <1>5
    <2>2. TakenOn(loc', todo', spool', at') BY <2>1, LandTaken
    <2>3. phase' = "sync" /\ UNCHANGED <<rec, obj, opts, orig>> BY <2>1 DEF Land, world
    <2>. QED BY <2>2, <2>3, SyncAfter
  <1>6. CASE Synced \/ PopFrame \/ ClearConflict \/ Apply \/ SkipExcluded \/ ApplyFails \/ Streamed \/ Place \/ Resettle \/ Applied
    <2>1. phase' \in {"apply", "place", "extras", "done"} /\ UNCHANGED <<rec, obj, opts, orig>>
      BY <1>6 DEF Synced, PopFrame, ClearConflict, Making, Apply, SkipExcluded, ApplyFails, Streamed, Place, Resettle, Applied, Abort,
                  Finish, AtRecord, NextLine, world
    <2>. QED BY <2>1, SyncAfter
  <1>7. CASE CloseExtra \/ Prune \/ Pruned \/ Cut
    <2>1. phase' \in {"apply", "extras", "done"} /\ UNCHANGED <<rec, obj, opts, orig>>
      BY <1>7 DEF CloseExtra, Prune, Pruned, Cut, Judge, Finish, world
    <2>. QED BY <2>1, SyncAfter
  <1>8. CASE Again
    <2>1. phase' = "start" /\ orig' = loc' BY <1>8 DEF Again
    <2>. QED BY <2>1 DEF SyncFits, EarlyTree, Refilled
  <1>9. CASE UNCHANGED vars
    <2>1. UNCHANGED <<rec, obj, opts, orig, loc, todo, spool, at, phase, bad>> BY <1>9 DEF vars, world, syncing
    <2>. QED BY <2>1, SyncAfter DEF SyncFits
  <1>. QED BY <1>1, <1>2, <1>3, <1>4, <1>5, <1>6, <1>7, <1>8, <1>9 DEF Next

(* What every step rests on.                                               *)
LEMMA UnpreppedGround ==
  ASSUME prep' = NoPrep, Begun', Behind', Gone'
  PROVE  Grounded'
  <1>1. \A p \in Paths : prep'[p] = None BY DEF NoPrep
  <1>2. Prepped' BY <1>1 DEF Prepped
  <1>3. (prep = NoPrep)' BY DEF NoPrep
  <1>. QED BY <1>2, <1>3 DEF Grounded

LEMMA LaterGround ==
  ASSUME Grounded, UNCHANGED <<rec, obj, opts, orig, spool>>, phase' \in {"apply", "place", "extras", "done"},
         prep' = prep \/ prep' = NoPrep, pass' = 2 => pass = 2 \/ prep' = NoPrep
  PROVE  Grounded'
  <1>1. Begun' /\ Behind' BY DEF Begun, Behind
  <1>2. Gone' BY DEF Grounded, Gone
  <1>3. CASE prep' = NoPrep BY <1>1, <1>2, <1>3, UnpreppedGround
  <1>4. CASE prep' = prep /\ prep' # NoPrep
    <2>1. Prepped' BY <1>4 DEF Grounded, Prepped, Recorded
    <2>2. pass' # 2 BY <1>4 DEF Grounded
    <2>. QED BY <1>1, <1>2, <2>1, <2>2 DEF Grounded
  <1>. QED BY <1>3, <1>4

LEMMA PrepGround ==
  ASSUME Unfolded, Inv, Mirrored, SyncFits, Grounded, Prep
  PROVE  Grounded'
  <1>1. /\ phase = "prep" /\ phase' = "sync" /\ pass = 1
        /\ UNCHANGED <<rec, obj, opts, orig, spool, cur, pass>>
    BY DEF Prep, Mirrored, world, syncing, applying
  <1>2. spool = <<>> /\ cur = 1 /\ EarlyTree(loc) BY <1>1 DEF Grounded, Begun, SyncFits
  <1>3. \A n : n \notin 1..Len(spool) BY <1>2, EmptySeq
  <1>4. Begun' /\ Behind' /\ Gone' BY <1>1, <1>2, <1>3 DEF Begun, Behind, Gone
  <1>5. ASSUME NEW p \in Paths, prep'[p] # None
        PROVE  /\ p \in Recorded /\ orig[p] # None /\ orig[p].kind = "file" /\ prep'[p] = orig[p].mode
               /\ loc'[p] = [orig[p] EXCEPT !.mode = Opened[prep'[p]]]
    <2>1. /\ p \in Recorded /\ loc[p] # None /\ loc[p].kind = "file" /\ prep'[p] = loc[p].mode
          /\ loc'[p] = [loc[p] EXCEPT !.mode = Opened[prep'[p]]]
      BY <1>5, PrepKeeps
    <2>2. loc[p] = orig[p] BY <1>2, <2>1 DEF EarlyTree, Stands
    <2>. QED BY <2>1, <2>2
  <1>6. Prepped' BY <1>1, <1>5 DEF Prepped, Recorded
  <1>. QED BY <1>1, <1>4, <1>6 DEF Grounded

LEMMA DecideGround ==
  ASSUME Unfolded, Inv, Mirrored, Grounded, Decide
  PROVE  Grounded'
  <1>0. Typed /\ Treelike(loc) /\ spool \in Seq(Lines) /\ at \in Nat BY DEF Inv, Typed
  <1>1. /\ phase = "sync" /\ phase' = "sync"
        /\ UNCHANGED <<rec, obj, opts, orig, cur, frames, deferred, post, prep, open, gone, asked, bad, pass, status>>
        /\ \E p \in Unseen :
             /\ \A q \in Unseen : LeafKey[p] <= LeafKey[q]
             /\ at' = LeafKey[p] + 1 /\ spool' = spool \o Decided(p, DecidedFor(p))
             /\ DecidedFor(p) \in Verdicts
             /\ walked' = IF opts.update /\ DecidedFor(p).get /\ ~Listed(loc[p]) THEN Up[p] ELSE walked
             /\ todo' = IF DecidedFor(p).get THEN todo \cup {p} ELSE todo
             /\ told' = IF DecidedFor(p).warn THEN told \cup {p} ELSE told
             /\ loc' = IF Struck(p) THEN Removed(loc, p) ELSE loc
    BY DecideExact
  <1>2. PICK q \in Unseen :
             /\ at' = LeafKey[q] + 1 /\ spool' = spool \o Decided(q, DecidedFor(q)) /\ DecidedFor(q) \in Verdicts
             /\ loc' = IF Struck(q) THEN Removed(loc, q) ELSE loc
    BY <1>1
  <1>3. q \in Paths \ {Root} /\ at <= LeafKey[q] /\ LeafKey[q] \in Nat BY <1>0, KeysDiffer DEF Unseen
  <1>4. PICK v, b, s : v = DecidedFor(q) /\ b = Decided(q, v) /\ s = spool' OBVIOUS
  <1>5. v \in Verdicts /\ s = spool \o b BY <1>2, <1>4
  <1>6. /\ b \in Seq(Lines)
        /\ \A n \in 1..Len(b) :
             \/ /\ v.get /\ opts.update
                /\ \E c \in Above[q] : ~Stands(loc, c) /\ b[n] = Line("D", DirKey[c])
             \/ v.say # None /\ b[n] = Line(v.say, LeafKey[q])
    BY <1>3, <1>4, <1>5, DecidedRun
  <1>7. Joined(s, spool, b) BY <1>0, <1>5, <1>6, JoinedIs
  <1>8. \A n \in 1..Len(s) : \/ n \in 1..Len(spool) /\ s[n] = spool[n] /\ spool[n].key \in Nat
                             \/ \E c \in Above[q] : s[n].key = DirKey[c]
                             \/ v.say # None /\ s[n].say = v.say /\ s[n].key = LeafKey[q]
    <2>. SUFFICES ASSUME NEW n \in 1..Len(s), n \notin 1..Len(spool)
                  PROVE  \/ \E c \in Above[q] : s[n].key = DirKey[c]
                         \/ v.say # None /\ s[n].say = v.say /\ s[n].key = LeafKey[q]
      BY <1>7 DEF Joined
    <2>1. PICK j \in 1..Len(b) : s[n] = b[j] BY <1>7 DEF Joined
    <2>2. \A x, y : Line(x, y).key = y /\ Line(x, y).say = x BY DEF Line
    <2>. QED BY <1>6, <2>1, <2>2
  <1>9. Begun' BY <1>1 DEF Grounded, Begun
  <1>10. Behind'
    <2>1. \A n \in 1..Len(spool) : spool[n].key < at BY <1>1 DEF Grounded, Behind
    <2>2. \A c \in Above[q] : DirKey[c] \in Nat /\ DirKey[c] < LeafKey[q]
      BY <1>3, AboveTypes, AboveKey, KeysDiffer
    <2>3. \A n \in 1..Len(s) : s[n].key < LeafKey[q] + 1
      <3>. SUFFICES ASSUME NEW n \in 1..Len(s) PROVE s[n].key < LeafKey[q] + 1 OBVIOUS
      <3>1. CASE n \in 1..Len(spool) /\ s[n] = spool[n] /\ spool[n].key \in Nat BY <1>0, <1>3, <2>1, <3>1
      <3>2. CASE \E c \in Above[q] : s[n].key = DirKey[c] BY <1>3, <2>2, <3>2
      <3>3. CASE s[n].key = LeafKey[q] BY <1>3, <3>3
      <3>. QED BY <1>8, <3>1, <3>2, <3>3
    <2>. QED BY <1>2, <1>4, <2>3 DEF Behind
  <1>11. Gone'
    <2>1. ASSUME NEW n \in 1..Len(s), NEW p \in Paths \ {Root}, s[n].key = LeafKey[p], obj[p] = None
          PROVE  s[n].say = "G"
      <3>1. CASE n \in 1..Len(spool) /\ s[n] = spool[n] BY <2>1, <3>1 DEF Grounded, Gone
      <3>2. CASE \E c \in Above[q] : s[n].key = DirKey[c] BY <1>3, <2>1, <3>2, AboveTypes, LeafNotDir
      <3>3. CASE v.say # None /\ s[n].say = v.say /\ s[n].key = LeafKey[q]
        <4>1. p = q BY <1>3, <2>1, <3>3, KeysDiffer
        <4>2. v = Leave \/ v = Orphan(LeafRec(q)) BY <1>4, <2>1, <4>1 DEF DecidedFor, SyncVerdict
        <4>3. v.say \in {None, "G"} BY <4>2 DEF Orphan, Leave, Says
        <4>. QED BY <3>3, <4>3
      <3>. QED BY <1>8, <3>1, <3>2, <3>3
    <2>. QED BY <1>1, <1>4, <2>1 DEF Gone
  <1>12. ASSUME NEW p \in Paths, loc[p] # None, loc[p].kind = "file" PROVE loc'[p] = loc[p]
    <2>1. /\ \A x \in Paths : x # q /\ (Struck(q) => x # Up[q]) => loc'[x] = loc[x]
          /\ ~Struck(q) => loc' = loc
      BY <1>2, DecideStands
    <2>2. Struck(q) => p # q BY <1>12 DEF Struck
    <2>3. Struck(q) => p # Up[q]
      <3>. SUFFICES ASSUME Struck(q) PROVE p # Up[q] OBVIOUS
      <3>1. loc[q] # None BY DEF Struck
      <3>2. Stands(loc, Up[q]) BY <1>0, <1>3, <3>1 DEF Treelike, Stands
      <3>. QED BY <1>12, <3>2 DEF Stands
    <2>. QED BY <2>1, <2>2, <2>3
  <1>13. Prepped'
    <2>. SUFFICES ASSUME NEW p \in Paths, prep[p] # None
                  PROVE  /\ p \in Recorded' /\ orig[p] # None /\ orig[p].kind = "file" /\ prep[p] = orig[p].mode
                         /\ obj[p] = None => loc'[p] = [orig[p] EXCEPT !.mode = Opened[prep[p]]]
      BY <1>1 DEF Prepped
    <2>1. /\ p \in Recorded /\ orig[p] # None /\ orig[p].kind = "file" /\ prep[p] = orig[p].mode
          /\ obj[p] = None => loc[p] = [orig[p] EXCEPT !.mode = Opened[prep[p]]]
      BY <1>1 DEF Grounded, Prepped
    <2>2. obj[p] = None => loc[p] # None /\ loc[p].kind = "file"
      <3>. SUFFICES ASSUME obj[p] = None PROVE loc[p] # None /\ loc[p].kind = "file" OBVIOUS
      <3>1. orig[p] \in Items /\ orig[p].mode \in Modes BY <2>1, SlotItem DEF Inv, Typed, Treelike, Items
      <3>2. Opened[prep[p]] \in Modes BY <2>1, <3>1, ItemAssumption
      <3>. QED BY <2>1, <3>1, <3>2, RemodedItem, NoneIsNoItem
    <2>. QED BY <1>1, <1>12, <2>1, <2>2 DEF Recorded
  <1>14. pass' = 2 => prep' = NoPrep BY <1>1 DEF Grounded
  <1>15. (pass = 2 => prep = NoPrep)' BY <1>14 DEF NoPrep
  <1>. QED BY <1>9, <1>10, <1>11, <1>13, <1>15 DEF Grounded

LEMMA LandGround ==
  ASSUME Unfolded, Inv, Grounded, NEW x \in Paths, Land(x)
  PROVE  Grounded'
  <1>1. /\ phase = "sync" /\ phase' = "sync" /\ obj[x] # None
        /\ UNCHANGED <<rec, obj, opts, orig, at, spool, cur, prep, pass>>
    BY LandExact
  <1>2. Begun' /\ Behind' /\ Gone' BY <1>1 DEF Grounded, Begun, Behind, Gone
  <1>3. loc' = loc \/ (~Blocked(x) /\ \A q \in Paths : q # x /\ q \notin Above[x] => loc'[q] = loc[q])
    <2>1. loc' = loc \/ ~Blocked(x) BY DEF Land
    <2>2. loc' = loc \/ \A q \in Paths : q # x /\ q \notin Above[x] => loc'[q] = loc[q] BY LandExact
    <2>. QED BY <2>1, <2>2
  <1>4. Prepped'
    <2>. SUFFICES ASSUME NEW p \in Paths, prep[p] # None
                  PROVE  /\ p \in Recorded' /\ orig[p] # None /\ orig[p].kind = "file" /\ prep[p] = orig[p].mode
                         /\ obj[p] = None => loc'[p] = [orig[p] EXCEPT !.mode = Opened[prep[p]]]
      BY <1>1 DEF Prepped
    <2>1. /\ p \in Recorded /\ orig[p] # None /\ orig[p].kind = "file" /\ prep[p] = orig[p].mode
          /\ obj[p] = None => loc[p] = [orig[p] EXCEPT !.mode = Opened[prep[p]]]
      BY <1>1 DEF Grounded, Prepped
    <2>2. obj[p] = None => loc'[p] = loc[p]
      <3>. SUFFICES ASSUME obj[p] = None, loc' # loc PROVE loc'[p] = loc[p] OBVIOUS
      <3>1. orig[p] \in Items /\ orig[p].mode \in Modes BY <2>1, SlotItem DEF Inv, Typed, Treelike, Items
      <3>2. Opened[prep[p]] \in Modes BY <2>1, <3>1, ItemAssumption
      <3>3. loc[p] # None /\ loc[p].kind = "file" BY <2>1, <3>1, <3>2, RemodedItem, NoneIsNoItem
      <3>4. p # x BY <1>1
      <3>5. p \notin Above[x] BY <1>3, <3>3 DEF Blocked
      <3>. QED BY <1>3, <3>4, <3>5
    <2>. QED BY <1>1, <2>1, <2>2 DEF Recorded
  <1>5. (pass = 2 => prep = NoPrep)' BY <1>1 DEF Grounded, NoPrep
  <1>. QED BY <1>2, <1>4, <1>5 DEF Grounded

LEMMA GroundStep ==
  ASSUME Unfolded, Inv, Mirrored, SyncFits, Grounded, [Next]_vars
  PROVE  Grounded'
  <1>1. CASE Start \/ Vet \/ Make
    <2>1. /\ phase \in {"start", "vet", "make"} /\ phase' \in {"vet", "make", "prep", "done", "extras"}
          /\ UNCHANGED <<rec, obj, opts, orig, todo, spool, cur, prep, pass>> /\ (phase' = "prep" => at' = 0)
      BY <1>1 DEF Start, Vet, Make, world, syncing, applying
    <2>2. prep = NoPrep /\ todo = {} /\ spool = <<>> /\ cur = 1 BY <2>1 DEF Inv, PrepFits, Grounded, Begun
    <2>3. prep' = NoPrep BY <2>1, <2>2
    <2>4. Begun' /\ Behind' BY <2>1, <2>2 DEF Begun, Behind
    <2>5. Gone' BY <2>1 DEF Grounded, Gone
    <2>. QED BY <2>3, <2>4, <2>5, UnpreppedGround
  <1>2. CASE Prep BY <1>2, PrepGround
  <1>3. CASE Decide BY <1>3, DecideGround
  <1>4. CASE \E x \in Paths : Land(x) BY <1>4, LandGround
  <1>5. CASE Synced \/ PopFrame \/ ClearConflict \/ Apply \/ SkipExcluded \/ ApplyFails \/ Streamed \/ Place \/ Resettle \/ Applied
    <2>1. /\ phase' \in {"apply", "place", "extras", "done"} /\ UNCHANGED <<rec, obj, opts, orig, spool, pass>>
          /\ prep' = prep \/ prep' = NoPrep
      BY <1>5 DEF Synced, PopFrame, ClearConflict, Making, Apply, SkipExcluded, ApplyFails, Streamed, Place, Resettle, Applied, Abort,
                  Finish, AtRecord, NextLine, world, syncing
    <2>. QED BY <2>1, LaterGround
  <1>6. CASE CloseExtra \/ Prune \/ Pruned \/ Cut
    <2>1. /\ phase' \in {"apply", "extras", "done"} /\ UNCHANGED <<rec, obj, opts, orig, spool>>
          /\ prep' = prep \/ prep' = NoPrep
      BY <1>6 DEF CloseExtra, Prune, Pruned, Cut, Judge, Finish, world, syncing
    <2>2. pass' = pass \/ prep' = NoPrep
      <3>1. CASE CloseExtra \/ Prune \/ Cut BY <3>1 DEF CloseExtra, Prune, Cut
      <3>2. CASE Pruned
        <4>1. prep = NoPrep BY <3>2 DEF Pruned, Inv, PrepFits
        <4>. QED BY <2>1, <4>1
      <3>. QED BY <1>6, <3>1, <3>2
    <2>. QED BY <2>1, <2>2, LaterGround
  <1>7. CASE Again
    <2>1. /\ phase = "done" /\ phase' = "start" /\ todo' = {} /\ spool' = <<>> /\ cur' = 1 /\ orig' = loc'
          /\ prep' = prep
      BY <1>7 DEF Again
    <2>2. prep' = NoPrep BY <2>1 DEF Inv, PrepFits
    <2>3. \A n : n \notin 1..Len(spool') BY <2>1, EmptySeq
    <2>. QED BY <2>1, <2>2, <2>3, UnpreppedGround DEF Begun, Behind, Gone
  <1>8. CASE UNCHANGED vars
    <2>1. UNCHANGED <<rec, obj, opts, orig, loc, phase, at, todo, spool, cur, prep, pass>>
      BY <1>8 DEF vars, world, syncing, applying
    <2>2. (pass = 2 => prep = NoPrep)' BY <2>1 DEF Grounded, NoPrep
    <2>3. Begun' /\ Behind' /\ Gone' BY <2>1 DEF Grounded, Begun, Behind, Gone
    <2>4. Prepped' BY <2>1 DEF Grounded, Prepped, Recorded
    <2>. QED BY <2>2, <2>3, <2>4 DEF Grounded
  <1>. QED BY <1>1, <1>2, <1>3, <1>4, <1>5, <1>6, <1>7, <1>8 DEF Next

LEMMA InitGround == Init => Grounded
  <1>. SUFFICES ASSUME Init PROVE Grounded OBVIOUS
  <1>1. phase = "start" /\ spool = <<>> /\ cur = 1 /\ todo = {} /\ prep = NoPrep /\ orig = loc
    BY DEF Init, Fresh
  <1>2. \A n : n \notin 1..Len(spool)
    <2>1. Len(spool) = 0 BY <1>1
    <2>. QED BY <2>1
  <1>3. Begun /\ Behind /\ Gone BY <1>1, <1>2 DEF Begun, Behind, Gone
  <1>4. \A p \in Paths : prep[p] = None BY <1>1 DEF NoPrep
  <1>. QED BY <1>1, <1>3, <1>4 DEF Grounded, Prepped

(* The leaves, through the sync.                                           *)
LEMMA UnseenContent ==
  ASSUME Inv, Grounded, phase = "sync", NEW p \in Nondirs, at <= LeafKey[p], p \notin Unseen, NEW s
  PROVE  Content(p, loc[p], s) /\ Content(p, Met(p), s)
  <1>1. p \in Paths \ {Root} BY LeafPath
  <1>2. obj[p] = None /\ ~Listed(loc[p])
    <2>1. LeafKey[p] \in Nat /\ at \in Nat BY LeafPath DEF Inv, Typed
    <2>2. LeafKey[p] >= at BY <2>1
    <2>. QED BY <1>1, <2>2 DEF Unseen
  <1>3. Content(p, loc[p], s) BY <1>2 DEF Content, Listed
  <1>4. CASE prep[p] = None
    <2>1. Met(p) = loc[p] BY <1>4 DEF Met, Was
    <2>. QED BY <1>3, <2>1
  <1>5. CASE prep[p] # None
    <2>1. /\ orig[p] # None /\ orig[p].kind = "file" /\ prep[p] = orig[p].mode
          /\ loc[p] = [orig[p] EXCEPT !.mode = Opened[prep[p]]]
      BY <1>1, <1>2, <1>5 DEF Grounded, Prepped
    <2>2. PICK i, j : i = orig[p] /\ j = loc[p] OBVIOUS
    <2>3. i \in Items /\ i.mode \in Modes BY <1>1, <2>1, <2>2, SlotItem DEF Inv, Typed, Treelike, Items
    <2>4. Opened[i.mode] \in Modes BY <2>3, ItemAssumption
    <2>5. j = [i EXCEPT !.mode = Opened[i.mode]] BY <2>1, <2>2
    <2>6. j \in Items /\ j # None /\ j.kind = "file" /\ j.mode = Opened[i.mode]
      <3>1. j \in Items /\ j.kind = i.kind /\ j # None BY <2>3, <2>4, <2>5, RemodedItem, NoneIsNoItem
      <3>2. j.mode = Opened[i.mode] BY <2>3, <2>5 DEF Items
      <3>. QED BY <2>1, <2>2, <3>1, <3>2
    <2>7. Opened[i.mode] \notin Readable BY <1>2, <2>2, <2>6 DEF Listed
    <2>8. i.mode \notin Readable BY <2>3, <2>7, OpenedAssumption
    <2>9. Met(p) = [j EXCEPT !.mode = i.mode] BY <1>5, <2>1, <2>2, <2>6 DEF Met, Was
    <2>10. Met(p).mode = i.mode BY <2>3, <2>6, <2>9 DEF Items
    <2>. QED BY <1>2, <1>3, <2>8, <2>10 DEF Content
  <1>. QED BY <1>4, <1>5

LEMMA DecideLeaves ==
  ASSUME Unfolded, Inv, Grounded, LeavesHold, Decide
  PROVE  LeavesHold'
  <1>0. Treelike(loc) /\ spool \in Seq(Lines) /\ at \in Nat /\ Behind
    BY DEF Grounded, Inv, Typed
  <1>1. /\ phase = "sync" /\ phase' = "sync"
        /\ UNCHANGED <<rec, obj, opts, orig, cur, frames, deferred, post, prep, open, gone, asked, bad, pass, status>>
        /\ \E p \in Unseen :
             /\ \A q \in Unseen : LeafKey[p] <= LeafKey[q]
             /\ at' = LeafKey[p] + 1 /\ spool' = spool \o Decided(p, DecidedFor(p))
             /\ DecidedFor(p) \in Verdicts
             /\ walked' = IF opts.update /\ DecidedFor(p).get /\ ~Listed(loc[p]) THEN Up[p] ELSE walked
             /\ todo' = IF DecidedFor(p).get THEN todo \cup {p} ELSE todo
             /\ told' = IF DecidedFor(p).warn THEN told \cup {p} ELSE told
             /\ loc' = IF Struck(p) THEN Removed(loc, p) ELSE loc
    BY <1>0, DecideExact
  <1>2. PICK q \in Unseen :
             /\ \A x \in Unseen : LeafKey[q] <= LeafKey[x]
             /\ at' = LeafKey[q] + 1 /\ spool' = spool \o Decided(q, DecidedFor(q)) /\ DecidedFor(q) \in Verdicts
             /\ todo' = IF DecidedFor(q).get THEN todo \cup {q} ELSE todo
             /\ told' = IF DecidedFor(q).warn THEN told \cup {q} ELSE told
             /\ loc' = IF Struck(q) THEN Removed(loc, q) ELSE loc
    BY <1>1
  <1>3. q \in Paths \ {Root} /\ at <= LeafKey[q] /\ LeafKey[q] \in Nat BY <1>0, KeysDiffer DEF Unseen
  <1>4. PICK v, s, t : v = DecidedFor(q) /\ s = spool' /\ t = told' OBVIOUS
  <1>c. None \notin {"D", "K", "G"} BY ItemAssumption
  <1>a. v \in Verdicts /\ s = spool \o Decided(q, v) BY <1>2, <1>4
  <1>b. Grows(q, v, s) BY <1>a, DecideGrows
  <1>5. /\ \A key, say : Spells(spool, key, say) => Spells(s, key, say)
        /\ v.say # None => Spells(s, LeafKey[q], v.say)
        /\ \A key : Spells(s, key, "K") => Spells(spool, key, "K") \/ (v.say = "K" /\ key = LeafKey[q])
    BY <1>b, <1>c DEF Grows
  <1>6. /\ opts.update => (v.get <=> v.say = "D")
        /\ v.get \/ v.say # None => LeafKey[q] \notin opts.excluded
        /\ v.say \in {"K", "G"} => loc[q] # None
        /\ v.say = "K" => opts.update
        /\ opts.update /\ v.say = "D" /\ LeafRec(q) = None => loc[q] = None
        /\ v.say = "K" /\ q \in Nondirs => v.warn \/ OrderedSide(rec[q], Met(q)) = "local"
    BY <1>4, SaidOf DEF Met
  <1>8. Struck(q) => q \in Nondirs /\ v.get BY <1>4, StruckIs
  <1>9. /\ \A c \in Paths : Stands(loc, c) => Stands(loc', c)
        /\ \A x \in Paths : x # q /\ (Struck(q) => x # Up[q]) => loc'[x] = loc[x]
        /\ ~Struck(q) => loc' = loc
    BY <1>2, DecideStands
  <1>. SUFFICES ASSUME NEW p \in Paths, Leaf(p) PROVE LeafHolds(p)'
    <2>1. \A p \in Paths : Leaf(p)' <=> Leaf(p) BY <1>1, SameTerms
    <2>. QED BY <2>1 DEF LeavesHold
  <1>10. p \in Nondirs /\ Judged(p) /\ LeafHolds(p) BY DEF LeavesHold, Leaf
  <1>11. /\ p \in Paths \ {Root} /\ p \in Recorded /\ rec[p] # None /\ RecKey(p) = LeafKey[p]
         /\ LeafKey[p] \in Nat /\ LeafRec(p) = rec[p] /\ rec[p].kind \in Kinds \ {"dir"}
         /\ Judged(p) => LeafKey[p] \notin opts.excluded
    BY <1>10, LeafPath
  <1>12. PICK i, u : i = loc'[p] /\ u = Was(i, prep'[p]) OBVIOUS
  <1>13. /\ SameYet(p, Met(p), spool) /\ Spoken(p, spool, told)
         /\ LeafKey[p] < at => bad \/ p \in todo \/ (Content(p, loc[p], spool) /\ Content(p, Met(p), spool))
    BY <1>1, <1>10 DEF LeafHolds
  <1>m. /\ loc[p] = None => Met(p) = None
        /\ loc[p] # None => Met(p) # None /\ Met(p).kind = loc[p].kind /\ Met(p).data = loc[p].data
    <2>1. loc[p] \in Slot /\ prep[p] \in Modes \cup {None} BY <1>11 DEF Inv, Typed, Treelike
    <2>. QED BY <2>1, WasIs DEF Met
  <1>14. p # q => i = loc[p] /\ u = Met(p)
    <2>. SUFFICES ASSUME p # q PROVE i = loc[p] /\ u = Met(p) OBVIOUS
    <2>1. Struck(q) => p # Up[q]
      <3>. SUFFICES ASSUME Struck(q), p = Up[q] PROVE FALSE OBVIOUS
      <3>1. q \in Recorded /\ p \in Above[q] BY <1>3, <1>8, AboveTypes DEF Nondirs
      <3>. QED BY <1>1, <1>10, <3>1, NothingBeneath
    <2>. QED BY <1>1, <1>9, <1>12, <2>1 DEF Met
  <1>15. p = q /\ ~v.get => i = loc[p] /\ u = Met(p) BY <1>1, <1>8, <1>9, <1>12 DEF Met
  <1>16. SameYet(p, u, s)
    <2>. SUFFICES ASSUME opts.update, ~Excused(p), ~Spells(s, LeafKey[p], "D") PROVE u = orig[p] BY DEF SameYet
    <2>1. Met(p) = orig[p] BY <1>5, <1>13 DEF SameYet
    <2>2. p = q => ~v.get BY <1>5, <1>6, <1>c
    <2>. QED BY <1>14, <1>15, <2>1, <2>2
  <1>17. ASSUME p = q, NEW say PROVE ~Spells(spool, LeafKey[p], say)
    <2>. SUFFICES ASSUME NEW n \in 1..Len(spool), spool[n].key = LeafKey[p] PROVE FALSE BY DEF Spells
    <2>1. spool[n].key < at BY <1>0, <1>1 DEF Behind
    <2>. QED BY <1>0, <1>3, <1>17, <2>1
  <1>18. Spoken(p, s, t)
    <2>. SUFFICES ASSUME opts.update, ~Excused(p), Spells(s, LeafKey[p], "K")
                  PROVE  p \in t \/ (orig[p] # None /\ OrderedSide(rec[p], orig[p]) # "record")
      BY DEF Spoken
    <2>1. CASE Spells(spool, LeafKey[p], "K")
      <3>1. p \in told \/ (orig[p] # None /\ OrderedSide(rec[p], orig[p]) # "record") BY <1>13, <2>1 DEF Spoken
      <3>. QED BY <1>2, <1>4, <3>1
    <2>2. CASE ~Spells(spool, LeafKey[p], "K")
      <3>1. v.say = "K" /\ LeafKey[p] = LeafKey[q] BY <1>5, <2>2
      <3>2. p = q BY <1>3, <1>11, <3>1, KeysDiffer
      <3>3. Met(p) = orig[p] BY <1>13, <1>17, <3>2 DEF SameYet
      <3>4. loc[p] # None /\ (v.warn \/ OrderedSide(rec[p], Met(p)) = "local") BY <1>6, <1>10, <3>1, <3>2
      <3>5. orig[p] # None BY <1>m, <3>3, <3>4
      <3>. QED BY <1>2, <1>4, <3>2, <3>3, <3>4, <3>5
    <2>. QED BY <2>1, <2>2
  <1>19. ASSUME LeafKey[p] < at' PROVE bad' \/ p \in todo' \/ (Content(p, i, s) /\ Content(p, u, s))
    <2>1. CASE p = q
      <3>1. CASE v.get BY <1>2, <1>4, <2>1, <3>1
      <3>2. CASE ~v.get
        <4>1. ASSUME NEW x \in {i, u} PROVE Content(p, x, s)
          <5>. SUFFICES ASSUME opts.checksum, rec[p].kind = "file"
                        PROVE  \/ x = None \/ x.kind # "file" \/ x.data = obj[p]
                               \/ Spells(s, LeafKey[p], "G") \/ (opts.update /\ Spells(s, LeafKey[p], "K"))
            BY DEF Content
          <5>1. \/ v.say = "G" \/ (opts.update /\ v.say = "K")
                \/ loc[p] = None \/ loc[p].kind # "file" \/ loc[p].data = obj[p]
            BY <1>4, <1>10, <2>1, <3>2, ContentSaid
          <5>2. /\ loc[p] = None => x = None
                /\ loc[p] # None => x.kind = loc[p].kind /\ x.data = loc[p].data
            BY <1>m, <1>15, <2>1, <3>2
          <5>. QED BY <1>5, <1>c, <2>1, <5>1, <5>2
        <4>. QED BY <4>1
      <3>. QED BY <3>1, <3>2
    <2>2. CASE p # q /\ LeafKey[p] < at
      <3>1. bad \/ p \in todo \/ (Content(p, i, spool) /\ Content(p, u, spool)) BY <1>13, <1>14, <2>2
      <3>2. /\ Content(p, i, spool) => Content(p, i, s)
            /\ Content(p, u, spool) => Content(p, u, s)
        BY <1>5 DEF Content
      <3>. QED BY <1>1, <1>2, <3>1, <3>2
    <2>3. CASE p # q /\ ~(LeafKey[p] < at)
      <3>1. LeafKey[p] # LeafKey[q] BY <1>3, <2>3, KeysDiffer
      <3>2. LeafKey[p] < LeafKey[q] /\ at <= LeafKey[p] BY <1>0, <1>2, <1>3, <1>11, <1>19, <2>3, <3>1
      <3>3. p \notin Unseen BY <1>2, <1>3, <1>11, <3>2
      <3>. QED BY <1>1, <1>10, <1>14, <2>3, <3>2, <3>3, UnseenContent
    <2>. QED BY <2>1, <2>2, <2>3
  <1>. QED BY <1>1, <1>4, <1>12, <1>16, <1>18, <1>19, LeafAfter

LEMMA LandLeaves ==
  ASSUME Unfolded, Inv, SyncFits, LeavesHold, NEW x \in Paths, Land(x)
  PROVE  LeavesHold'
  <1>1. /\ x \in Paths \ {Root} /\ x \in todo /\ phase = "sync" /\ obj[x] # None
        /\ phase' = "sync" /\ todo' = todo \ {x}
        /\ UNCHANGED <<rec, obj, opts, orig, at, spool, walked, cur, frames, deferred, post, prep, open, gone,
                       asked, told, pass, status>>
        /\ \/ bad' = TRUE /\ loc' = loc
           \/ /\ bad' = bad /\ Treelike(loc')
              /\ loc'[x] = [kind |-> "file", data |-> obj[x], mtime |-> Uploaded, mode |-> Umask]
              /\ \A c \in Paths : Stands(loc, c) => Stands(loc', c)
              /\ \A q \in Paths : q # x /\ q \notin Above[x] => loc'[q] = loc[q]
              /\ \A q \in Above[x] : Stands(loc', q)
              /\ \A q \in Above[x] : \/ loc'[q] = loc[q] \/ q = Up[x] \/ loc[q] = None
                                     \/ \E c \in Above[x] \ {Root} : Up[c] = q /\ loc[c] = None
    BY LandExact
  <1>2. TakenOn(loc, todo, spool, at) BY <1>1 DEF SyncFits
  <1>3. opts.update => Spells(spool, LeafKey[x], "D") /\ (LeafRec(x) = None => orig[x] = None)
    BY <1>1, <1>2 DEF TakenOn
  <1>. SUFFICES ASSUME NEW p \in Paths, Leaf(p) PROVE LeafHolds(p)'
    <2>1. \A p \in Paths : Leaf(p)' <=> Leaf(p) BY <1>1, SameTerms
    <2>. QED BY <2>1 DEF LeavesHold
  <1>4. p \in Nondirs /\ LeafHolds(p) BY DEF LeavesHold, Leaf
  <1>5. PICK i, u, s, t : i = loc'[p] /\ u = Was(i, prep'[p]) /\ s = spool' /\ t = told' OBVIOUS
  <1>m. /\ loc'[p] = loc[p] => u = Met(p)
        /\ i # None /\ i \in Slot => u # None /\ u.kind = i.kind /\ u.data = i.data
    <2>1. prep' = prep /\ p \in Paths /\ prep[p] \in Modes \cup {None} BY <1>1 DEF Inv, Typed
    <2>. QED BY <1>5, <2>1, WasIs DEF Met
  <1>6. /\ SameYet(p, Met(p), s) /\ Spoken(p, s, t)
        /\ LeafKey[p] < at => bad \/ p \in todo \/ (Content(p, loc[p], s) /\ Content(p, Met(p), s))
    BY <1>1, <1>4, <1>5 DEF LeafHolds
  <1>7. CASE bad' = TRUE /\ loc' = loc
    <2>1. SameYet(p, u, s) BY <1>m, <1>6, <1>7
    <2>. QED BY <1>1, <1>5, <1>6, <1>7, <1>m, <2>1, LeafAfter
  <1>8. CASE bad' = bad /\ p = x
    <2>0. ~(bad' = TRUE /\ loc' = loc) => /\ i # None /\ i \in Slot /\ i.kind = "file" /\ i.data = obj[p]
      <3>1. obj[x] \in Data BY <1>1, GivenFacts DEF Inv, Typed
      <3>. QED BY <1>1, <1>5, <1>8, <3>1, ItemAssumption, NoneIsNoItem DEF Items, Kinds, Slot
    <2>1. CASE bad' = TRUE /\ loc' = loc BY <1>7, <2>1
    <2>2. CASE ~(bad' = TRUE /\ loc' = loc)
      <3>1. Content(p, i, s) /\ Content(p, u, s) BY <1>m, <2>0, <2>2 DEF Content
      <3>2. SameYet(p, u, s) BY <1>1, <1>3, <1>5, <1>8 DEF SameYet
      <3>. QED BY <1>1, <1>5, <1>6, <3>1, <3>2, LeafAfter
    <2>. QED BY <2>1, <2>2
  <1>9. CASE ~(bad' = TRUE /\ loc' = loc) /\ p # x
    <2>1. bad' = bad BY <1>1, <1>9
    <2>2. CASE p \in Above[x]
      <3>1. Stands(loc', p) BY <1>1, <1>9, <2>2
      <3>2. Content(p, i, s) /\ Content(p, u, s)
        <4>1. Treelike(loc') BY <1>1, <1>9
        <4>2. i \in Slot BY <1>5, <4>1 DEF Treelike
        <4>. QED BY <1>5, <1>m, <3>1, <4>2 DEF Content, Stands
      <3>3. LeafRec(x) = None
        <4>. SUFFICES ASSUME LeafRec(x) # None PROVE FALSE OBVIOUS
        <4>1. x \in Recorded BY DEF LeafRec, Nondirs
        <4>. QED BY <1>1, <1>4, <2>2, <4>1, NothingBeneath
      <3>4. opts.update => Excused(p) BY <1>1, <1>3, <2>2, <3>3 DEF Excused, UnseenWrite, Beneath
      <3>5. SameYet(p, u, s) BY <3>4 DEF SameYet
      <3>. QED BY <1>1, <1>5, <1>6, <3>2, <3>5, LeafAfter
    <2>3. CASE p \notin Above[x]
      <3>1. i = loc[p] BY <1>1, <1>5, <1>9, <2>3
      <3>0. u = Met(p) BY <1>5, <1>m, <3>1
      <3>2. LeafKey[p] < at => bad \/ p \in todo' \/ (Content(p, i, s) /\ Content(p, u, s))
        BY <1>1, <1>6, <1>9, <3>0, <3>1
      <3>3. SameYet(p, u, s) BY <1>6, <3>0
      <3>. QED BY <1>1, <1>5, <1>6, <2>1, <3>2, <3>3, LeafAfter
    <2>. QED BY <2>2, <2>3
  <1>. QED BY <1>1, <1>7, <1>8, <1>9

LEMMA SyncedLeaves ==
  ASSUME Unfolded, Inv, Grounded, Mirrored, LeavesHold, Synced
  PROVE  LeavesHold'
  <1>1. /\ phase = "sync" /\ Unseen = {} /\ todo = {} /\ at' = 0 /\ at \in Nat
        /\ UNCHANGED <<rec, obj, opts, orig, spool, told, bad, pass, deferred>>
        /\ IF bad THEN phase' = "done" /\ status' = "failed" ELSE phase' = "apply" /\ loc' = loc /\ prep' = prep
    BY DEF Synced, Finish, world, syncing, applying, Inv, Typed
  <1>2. pass = 1 BY <1>1 DEF Mirrored
  <1>. SUFFICES ASSUME NEW p \in Paths, Leaf(p) PROVE LeafHolds(p)'
    <2>1. \A p \in Paths : Leaf(p)' <=> Leaf(p) BY <1>1, SameTerms
    <2>. QED BY <2>1 DEF LeavesHold
  <1>3. p \in Nondirs /\ LeafHolds(p) /\ LeafKey[p] \in Nat BY LeafPath DEF LeavesHold, Leaf
  <1>4. PICK i, u, s, t : i = loc'[p] /\ u = Was(i, prep'[p]) /\ s = spool' /\ t = told' OBVIOUS
  <1>5. CASE bad
    <2>1. phase' = "done" /\ status' = "failed" BY <1>1, <1>5
    <2>. QED BY <1>1, <2>1, LeafAfter
  <1>6. CASE ~bad
    <2>1. phase' = "apply" /\ i = loc[p] /\ u = Met(p) /\ s = spool /\ t = told BY <1>1, <1>4, <1>6 DEF Met
    <2>2. SameYet(p, u, s) /\ Spoken(p, s, t) BY <1>1, <1>3, <2>1 DEF LeafHolds
    <2>3. Content(p, i, s) /\ Content(p, u, s)
      <3>1. CASE LeafKey[p] < at BY <1>1, <1>3, <1>6, <2>1, <3>1 DEF LeafHolds
      <3>2. CASE ~(LeafKey[p] < at)
        <4>1. at <= LeafKey[p] /\ p \notin Unseen BY <1>1, <1>3, <3>2
        <4>. QED BY <1>1, <1>3, <2>1, <4>1, UnseenContent
      <3>. QED BY <3>1, <3>2
    <2>4. Ready(p, i, u, s, t) BY <2>2, <2>3 DEF Ready
    <2>5. pass' = 1 /\ LeafKey[p] >= at' BY <1>1, <1>2, <1>3
    <2>. QED BY <1>1, <1>4, <2>1, <2>4, <2>5, LeafAfter
  <1>. QED BY <1>5, <1>6

LEMMA EarlyLeaves ==
  ASSUME Unfolded, Inv, Grounded, SyncFits, Start \/ Vet \/ Make \/ Prep
  PROVE  LeavesHold'
  <1>1. UNCHANGED <<rec, obj, opts, orig>> BY DEF Start, Vet, Make, Prep, world
  <1>. SUFFICES ASSUME NEW p \in Paths, Leaf(p) PROVE LeafHolds(p)'
    <2>1. \A p \in Paths : Leaf(p)' <=> Leaf(p) BY <1>1, SameTerms
    <2>. QED BY <2>1 DEF LeavesHold
  <1>2. p \in Nondirs /\ Judged(p) /\ p \in Recorded /\ p # Root /\ LeafKey[p] \in Nat BY LeafPath DEF Leaf
  <1>3. PICK i, u, s, t : i = loc'[p] /\ u = Was(i, prep'[p]) /\ s = spool' /\ t = told' OBVIOUS
  <1>4. CASE Start
    <2>1. loc' = loc /\ phase' \in {"vet", "done", "extras"} BY <1>4 DEF Start
    <2>2. \/ phase' = "vet" \/ (phase' = "done" /\ status' = "failed")
          \/ MatchesLocal /\ ~opts.checksum
      BY <1>4 DEF Start
    <2>3. MatchesLocal /\ ~opts.checksum => Sat(p, i, s, t)
      <3>. SUFFICES ASSUME MatchesLocal, ~opts.checksum PROVE Sat(p, i, s, t) OBVIOUS
      <3>1. Matches(rec[p], loc[p]) BY <1>2, OneNameIs DEF MatchesLocal
      <3>. QED BY <1>3, <2>1, <3>1 DEF Sat, Good
    <2>4. phase' \in {"done", "extras"} /\ (phase' = "done" => status' # "failed") => Sat(p, i, s, t)
      BY <2>1, <2>2, <2>3
    <2>. QED BY <1>1, <1>3, <2>1, <2>4, LeafAfter
  <1>5. CASE Vet \/ Make
    <2>1. phase' \in {"vet", "make", "prep"} \/ (phase' = "done" /\ status' = "failed") BY <1>5 DEF Vet, Make
    <2>. QED BY <1>1, <2>1, LeafAfter
  <1>6. CASE Prep
    <2>1. /\ \A q \in Paths \ {Root} : Was(loc'[q], prep'[q]) = loc[q]
          /\ UNCHANGED <<rec, obj, opts, orig, at, todo, spool, told, bad>>
      BY <1>6, PrepKeeps
    <2>2. phase = "prep" /\ phase' = "sync" BY <1>6 DEF Prep
    <2>3. at = 0 /\ spool = <<>> /\ EarlyTree(loc) BY <2>2 DEF Grounded, Begun, SyncFits
    <2>4. \A key, say : ~Spells(s, key, say)
      <3>1. s = <<>> BY <1>3, <2>1, <2>3
      <3>2. Len(s) = 0 BY <3>1
      <3>. QED BY <3>2 DEF Spells
    <2>5. Spoken(p, s, t) BY <2>4 DEF Spoken
    <2>6. SameYet(p, u, s)
      <3>. SUFFICES ASSUME ~Excused(p), opts.update PROVE u = orig[p] BY DEF SameYet
      <3>1. u = loc[p] BY <1>2, <1>3, <2>1
      <3>2. ~Vetted(p)
        <4>. SUFFICES ASSUME Vetted(p) PROVE FALSE OBVIOUS
        <4>1. PICK x \in Positions : InSubtree(p, x) /\ orig[x] # None /\ orig[x].kind = "link" BY DEF Vetted
        <4>2. Had(x) = orig[x] BY OneNameIs DEF Positions
        <4>. QED BY <4>1, <4>2 DEF Excused, UnseenWrite
      <3>. QED BY <2>3, <3>1, <3>2 DEF EarlyTree
    <2>7. ~(LeafKey[p] < at') BY <1>2, <2>1, <2>3
    <2>. QED BY <1>1, <1>3, <2>2, <2>5, <2>6, <2>7, LeafAfter
  <1>. QED BY <1>4, <1>5, <1>6

(* The leaves, through the apply.                                          *)
LEMMA SatStays ==
  ASSUME NEW p, NEW i, NEW s, NEW t, Sat(p, i, s, t), NEW u, t \subseteq u
  PROVE  Sat(p, i, s, u)
  BY DEF Sat

\* The record of the leaf itself.
LEMMA OwnLeaf ==
  ASSUME Unfolded, Inv, Grounded, SpoolFits, phase = "apply", NEW p \in Nondirs, at <= LeafKey[p], Judged(p),
         IF pass = 1 THEN Ready(p, loc[p], Met(p), spool, told) ELSE Sat(p, loc[p], spool, told) \/ PutOff(p, deferred),
         NEW d, d = Decision(LeafKey[p]), NEW v, v = VerdictOn(p, d),
         Writes(p, v) => ~Blocked(p), v = "dir" /\ ~IsDir(p) => Found(p) = None, NEW m, m = Effect(p, v, d),
         NEW t, t = IF v \in {"conflict", "stale", "missing"} /\ pass = 1 THEN told \cup {p} ELSE told
  PROVE  v = "error" \/ v = "defer" \/ Sat(p, m[p], spool, t) \/ PutOff(p, deferred)
  <1>1. /\ p \in Paths \ {Root} /\ p \in Recorded /\ rec[p] # None /\ RecKey(p) = LeafKey[p]
        /\ LeafKey[p] \in Nat /\ rec[p].kind \in Kinds \ {"dir"}
        /\ rec[p].mode \in Modes /\ rec[p].mtime \in Nat \cup {NoMtime}
        /\ rec[p].kind = "link" => rec[p].what \in Data
    BY LeafPath
  <1>2. Typed /\ Treelike(loc) /\ loc[p] \in Slot /\ prep[p] \in Modes \cup {None} BY <1>1 DEF Inv, Typed, Treelike
  <1>3. PICK r, l, i, u : /\ r = rec[p] /\ l = loc[p] /\ u = opts.update
                          /\ i = IF opts.update /\ d # "D" THEN Met(p) ELSE loc[p]
    OBVIOUS
  <1>b. /\ l = None => i = None
        /\ l # None => l \in Items /\ i \in Items /\ i # None /\ i.kind = l.kind /\ i.data = l.data
        /\ prep[p] = None => i = l
    BY <1>2, <1>3, WasIs, SlotItem DEF Met
  <1>4. u \in BOOLEAN BY <1>2, <1>3, GivenFacts DEF Typed
  <1>5. /\ d \in {None, "D", "K", "G"}
        /\ Spooled(RecKey(p), "D") <=> d = "D"
        /\ DirRec(p) => d \in {None, "D"}
        /\ p \in Nondirs => /\ Spooled(LeafKey[p], "K") <=> d = "K"
                            /\ Spooled(LeafKey[p], "G") <=> d = "G"
                            /\ obj[p] = None => d \in {None, "G"}
    BY <1>1, DecisionSays
  <1>6. /\ Spells(spool, LeafKey[p], "D") <=> d = "D"
        /\ Spells(spool, LeafKey[p], "K") <=> d = "K"
        /\ Spells(spool, LeafKey[p], "G") <=> d = "G"
        /\ obj[p] = None => d \in {None, "G"}
    BY <1>1, <1>5 DEF Spooled
  <1>7. v = ApplyVerdict(r, i, d, u, Dangling(r))
    <2>1. Unprepped(p) = Met(p) /\ Found(p) = loc[p] BY <1>1, <1>2, OneNameIs, UnpreppedWas DEF Met
    <2>. QED BY <1>3, <2>1 DEF VerdictOn
  <1>a. r.kind \in Kinds \ {"dir"} /\ d \in {None, "D", "K", "G"} BY <1>1, <1>3, <1>5
  <1>8. /\ v \in {"keep", "conflict", "stale", "missing", "stamp", "place", "defer", "error"}
        /\ v = "keep" => \/ u /\ d = "K"
                         \/ d # "G" /\ Matches(r, i)
                         \/ u /\ d = None /\ i # None /\ OrderedSide(r, i) # "record"
        /\ v = "stamp" => /\ i # None /\ i.kind = r.kind /\ r.kind # "link" /\ ~WrongSize(r, i)
                          /\ ~(u /\ d = "K") /\ d # "G"
                          /\ d = None /\ r.kind = "file" => i.mode \in Readable
        /\ v = "place" => r.kind = "link"
        /\ Matches(r, i) => v \in {"keep", "stale"}
        /\ u /\ d # "D" /\ i # None /\ OrderedSide(r, i) # "record"
           => v \in {"keep", "conflict", "stale", "error"}
    <2>1. LeafTells(r, i, d, u, v) BY <1>4, <1>7, <1>a, LeafVerdict
    <2>. QED BY <2>1 DEF LeafTells
  <1>9. /\ v = "stamp" => loc[p] # None /\ loc[p].kind = rec[p].kind /\ m[p] = Stamped(rec[p], loc[p])
        /\ v = "place" => LinkRec(p) /\ m[p] = LinkAt(rec[p])
        /\ v \notin {"stamp", "place", "dir"} =>
             m[p] = IF v = "stale" \/ (v \in {"keep", "conflict"} /\ opts.update /\ d # "D")
                    THEN Was(loc[p], prep[p]) ELSE loc[p]
    BY <1>1, EffectExact
  <1>c. v = "keep" => m[p] = i BY <1>3, <1>9 DEF Met
  <1>11. CASE v = "place"
    <2>1. Matches(r, m[p]) /\ r.kind = "link" BY <1>1, <1>3, <1>8, <1>9, <1>11, LinkMatches
    <2>2. Good(p, m[p]) BY <1>3, <2>1 DEF Good
    <2>. QED BY <2>2 DEF Sat
  <1>12. CASE pass = 1 /\ v \notin {"place", "error", "defer"}
    <2>1. Ready(p, loc[p], Met(p), spool, told) BY <1>12
    <2>2. SameYet(p, Met(p), spool) /\ Spoken(p, spool, told) /\ Content(p, i, spool) BY <1>3, <2>1 DEF Ready
    <2>3. CASE v \in {"conflict", "stale", "missing"}
      <3>1. p \in t BY <1>12, <2>3
      <3>. QED BY <3>1 DEF Sat
    <2>4. CASE v = "stamp"
      <3>0. l # None /\ ~WrongSize(r, l) /\ l.kind = r.kind /\ r.kind # "link" /\ l \in Items
        BY <1>b, <1>8, <2>4 DEF WrongSize
      <3>1. Matches(r, m[p]) /\ m[p].data = i.data /\ i.kind = r.kind /\ i # None
        BY <1>1, <1>3, <1>b, <1>8, <1>9, <2>4, <3>0, StampedMatches
      <3>2. ASSUME opts.checksum, r.kind = "file" PROVE i.data = obj[p]
        <4>1. \/ i = None \/ i.kind # "file" \/ i.data = obj[p]
              \/ obj[p] = None /\ i.mode \notin Readable
              \/ d = "G" \/ (opts.update /\ d = "K")
          BY <1>3, <1>6, <2>2, <3>2 DEF Content
        <4>2. ~(obj[p] = None /\ i.mode \notin Readable) BY <1>6, <1>8, <2>4, <3>2
        <4>. QED BY <1>3, <1>8, <2>4, <3>1, <3>2, <4>1, <4>2
      <3>3. Good(p, m[p]) BY <1>3, <3>1, <3>2 DEF Good
      <3>. QED BY <3>3 DEF Sat
    <2>5. CASE v = "keep"
      <3>0. m[p] = i BY <1>c, <2>5
      <3>1. CASE u /\ d = "K"
        <4>1. d # "D" /\ (Excused(p) \/ i = orig[p]) BY <1>3, <1>6, <2>2, <3>1 DEF SameYet
        <4>2. Excused(p) \/ p \in told \/ (orig[p] # None /\ OrderedSide(rec[p], orig[p]) # "record")
          BY <1>3, <1>6, <2>2, <3>1 DEF Spoken
        <4>3. Excused(p) \/ p \in t \/ KeptHere(p, i) BY <1>3, <2>5, <3>1, <4>1, <4>2 DEF KeptHere
        <4>. QED BY <1>6, <3>0, <4>1, <4>3 DEF Sat
      <3>2. CASE ~(u /\ d = "K") /\ d # "G" /\ Matches(r, i)
        <4>1. i # None /\ i.kind = r.kind BY <3>2, MatchKind
        <4>2. Good(p, i) BY <1>3, <1>6, <2>2, <3>2, <4>1 DEF Good, Content
        <4>. QED BY <3>0, <4>2 DEF Sat
      <3>3. CASE u /\ d = None /\ i # None /\ OrderedSide(r, i) # "record"
        <4>1. d # "D" BY <3>3, ItemAssumption
        <4>2. Excused(p) \/ i = orig[p] BY <1>3, <1>6, <2>2, <3>3, <4>1 DEF SameYet
        <4>3. Excused(p) \/ KeptHere(p, i) BY <1>3, <3>3, <4>2 DEF KeptHere
        <4>. QED BY <1>6, <3>0, <4>1, <4>3 DEF Sat
      <3>. QED BY <1>8, <2>5, <3>1, <3>2, <3>3
    <2>. QED BY <1>8, <1>12, <2>3, <2>4, <2>5
  <1>13. CASE pass # 1 /\ Sat(p, i, spool, told) /\ v \notin {"place", "error", "defer"}
    <2>1. told \subseteq t BY <1>13
    <2>0. prep[p] = None
      <3>1. pass = 2 BY <1>2, <1>13 DEF Typed
      <3>. QED BY <1>1, <3>1 DEF Grounded, NoPrep
    <2>2. CASE v # "stamp"
      <3>1. m[p] = i BY <1>3, <1>b, <1>8, <1>9, <1>13, <2>0, <2>2 DEF Was
      <3>. QED BY <1>13, <2>1, <3>1, SatStays
    <2>3. CASE v = "stamp"
      <3>1. ~Matches(r, i) /\ ~(u /\ d # "D" /\ i # None /\ OrderedSide(r, i) # "record") BY <1>8, <2>3
      <3>2. ~Good(p, i) BY <1>3, <3>1 DEF Good
      <3>3. ~(KeptHere(p, i) /\ ~Spells(spool, LeafKey[p], "D")) BY <1>3, <1>6, <3>1 DEF KeptHere
      <3>4. p \in told \/ Excused(p) BY <1>13, <3>2, <3>3 DEF Sat
      <3>. QED BY <2>1, <3>4 DEF Sat
    <2>. QED BY <2>2, <2>3
  <1>14. pass # 1 /\ ~PutOff(p, deferred) => Sat(p, i, spool, told)
    <2>. SUFFICES ASSUME pass # 1, ~PutOff(p, deferred) PROVE Sat(p, i, spool, told) OBVIOUS
    <2>1. pass = 2 BY <1>2 DEF Typed
    <2>2. prep[p] = None BY <1>1, <2>1 DEF Grounded, NoPrep
    <2>. QED BY <1>3, <1>b, <2>2
  <1>. QED BY <1>11, <1>12, <1>13, <1>14

LEMMA PassedBy ==
  ASSUME Inv, AtRecord, NEW q, q = NextRecord, at' = RecKey(q) + 1, NEW p \in Recorded
  PROVE  RecKey(p) \in Nat /\ RecKey(q) \in Nat /\ (RecKey(p) < at' <=> RecKey(p) < at \/ p = q)
  <1>1. ToApply # {} /\ at \in Nat BY DEF AtRecord, Inv, Typed
  <1>2. /\ q \in Recorded /\ q \in Paths /\ RecKey(q) \in Nat /\ RecKey(q) >= at
        /\ \A x \in ToApply : RecKey(q) <= RecKey(x)
    BY <1>1, NextRecordIs
  <1>3. p \in Paths /\ RecKey(p) \in Nat BY KeysDiffer DEF Recorded, RecKey, KeyAs
  <1>4. p # q => RecKey(p) # RecKey(q) BY <1>2, <1>3, KeysDiffer DEF RecKey, KeyAs
  <1>5. RecKey(p) >= at => RecKey(q) <= RecKey(p) BY <1>2 DEF ToApply
  <1>. QED BY <1>1, <1>2, <1>3, <1>4, <1>5

\* A leaf that a step leaves alone.
LEMMA LeafStays ==
  ASSUME UNCHANGED <<rec, obj, opts, orig, spool, pass>>, NEW p \in Paths, LeafHolds(p), loc'[p] = loc[p],
         told \subseteq told', bad => bad', phase' = phase, phase \in {"apply", "place", "extras"},
         PutOff(p, deferred) => PutOff(p, deferred'), phase = "apply" => prep' = prep /\ (LeafKey[p] >= at' <=> LeafKey[p] >= at)
  PROVE  LeafHolds(p)'
  <1>1. PICK i, u, s, t, d : i = loc[p] /\ u = Was(i, prep'[p]) /\ s = spool /\ t = told' /\ d = deferred' OBVIOUS
  <1>2. Sat(p, i, s, told) => Sat(p, i, s, t) BY <1>1, SatStays
  <1>3. Ready(p, i, u, s, told) => Ready(p, i, u, s, t) BY <1>1 DEF Ready, Spoken
  <1>4. phase' = "apply" /\ ~bad' =>
          IF pass' = 1 /\ LeafKey[p] >= at' THEN Ready(p, i, u, s, t) ELSE Sat(p, i, s, t) \/ PutOff(p, d)
    BY <1>1, <1>2, <1>3 DEF LeafHolds, Met
  <1>5. phase' = "place" /\ ~bad' => Sat(p, i, s, t) \/ PutOff(p, d) BY <1>1, <1>2 DEF LeafHolds
  <1>6. phase' = "extras" /\ ~bad' => Sat(p, i, s, t) BY <1>1, <1>2 DEF LeafHolds
  <1>7. phase' # "sync" /\ phase' # "done" OBVIOUS
  <1>. QED BY <1>1, <1>4, <1>5, <1>6, <1>7, LeafAfter

LEMMA LeavesStay ==
  ASSUME Inv, LeavesHold, UNCHANGED <<rec, obj, opts, orig, spool, pass>>,
         \A p \in Nondirs : loc'[p] = loc[p],
         told \subseteq told', bad => bad', phase' = phase, phase \in {"apply", "place", "extras"},
         UNCHANGED deferred, phase = "apply" => prep' = prep,
         phase = "apply" => \A p \in Nondirs : Judged(p) => (LeafKey[p] >= at' <=> LeafKey[p] >= at)
  PROVE  LeavesHold'
  <1>. SUFFICES ASSUME NEW p \in Paths, Leaf(p) PROVE LeafHolds(p)'
    <2>1. \A p \in Paths : Leaf(p)' <=> Leaf(p) BY SameTerms
    <2>. QED BY <2>1 DEF LeavesHold
  <1>1. LeafHolds(p) /\ p \in Nondirs /\ Judged(p) BY DEF LeavesHold, Leaf
  <1>. QED BY <1>1, LeafStays

LEMMA EndLeaves ==
  ASSUME UNCHANGED <<rec, obj, opts, orig>>, phase' = "done", status' # "ok"
  PROVE  LeavesHold'
  <1>. SUFFICES ASSUME NEW p \in Paths PROVE LeafHolds(p)' BY DEF LeavesHold
  <1>. QED BY LeafAfter

LEMMA ApplyLeaves ==
  ASSUME Unfolded, Inv, Grounded, SpoolFits, LeavesHold, Apply
  PROVE  LeavesHold'
  <1>0. Typed /\ AtRecord BY DEF Grounded, Inv, Apply
  <1>1. PICK q, d, v : q = NextRecord /\ d = Decision(RecKey(q)) /\ v = VerdictOn(q, d) OBVIOUS
  <1>2. /\ Judged(q) /\ (Writes(q, v) => ~Blocked(q)) /\ loc' = Effect(q, v, d)
        /\ deferred' = IF v = "defer" THEN Append(deferred, q) ELSE deferred
        /\ bad' = (bad \/ v = "error")
        /\ told' = IF v \in {"conflict", "stale", "missing"} /\ pass = 1 THEN told \cup {q} ELSE told
        /\ NextLine(q)
    BY <1>1 DEF Apply
  <1>13. v = "dir" /\ ~IsDir(q) => Found(q) = None BY <1>1, ApplyMakes
  <1>3. phase = "apply" /\ q \in Recorded /\ q \in Paths /\ at <= RecKey(q) BY <1>0, <1>1, AtRecordIs
  <1>4. at' = RecKey(q) + 1 /\ UNCHANGED <<rec, obj, opts, orig, phase, spool, pass, prep>>
    BY <1>2 DEF NextLine, world, syncing
  <1>5. deferred \in Seq(Paths) /\ deferred' \in Seq(Paths) /\ \A x : PutOff(x, deferred) => PutOff(x, deferred')
    <2>1. deferred \in Seq(Paths) BY <1>0 DEF Typed
    <2>2. /\ Append(deferred, q) \in Seq(Paths) /\ Len(Append(deferred, q)) = Len(deferred) + 1 /\ Len(deferred) \in Nat
          /\ \A n \in 1..Len(deferred) : Append(deferred, q)[n] = deferred[n]
      BY <1>3, <2>1, AppendProperties
    <2>. QED BY <1>2, <2>1, <2>2 DEF PutOff
  <1>6. v = "defer" => PutOff(q, deferred')
    <2>1. deferred \in Seq(Paths) BY <1>0 DEF Typed
    <2>2. /\ Len(Append(deferred, q)) = Len(deferred) + 1 /\ Len(deferred) \in Nat
          /\ Append(deferred, q)[Len(deferred) + 1] = q
      BY <1>3, <2>1, AppendProperties
    <2>. QED BY <1>2, <2>2 DEF PutOff
  <1>. SUFFICES ASSUME NEW p \in Paths, Leaf(p) PROVE LeafHolds(p)'
    <2>1. \A p \in Paths : Leaf(p)' <=> Leaf(p) BY <1>4, SameTerms
    <2>. QED BY <2>1 DEF LeavesHold
  <1>7. LeafHolds(p) /\ p \in Nondirs /\ Judged(p) BY DEF LeavesHold, Leaf
  <1>8. p \in Recorded /\ RecKey(p) = LeafKey[p] /\ LeafKey[p] \in Nat BY <1>7, LeafPath
  <1>9. LeafKey[p] < at' <=> LeafKey[p] < at \/ p = q BY <1>0, <1>1, <1>4, <1>8, PassedBy
  <1>10. at \in Nat /\ at' \in Nat BY <1>0, <1>3, <1>4, <1>1, <1>8, PassedBy DEF Typed
  <1>11. CASE p # q
    <2>1. p \notin Above[q] BY <1>3, <1>7, NothingBeneath
    <2>2. \A x \in Paths : x # q /\ x \notin Above[q] => loc'[x] = loc[x]
      BY <1>0, <1>1, <1>2, <1>3, <1>13, EffectExact
    <2>3. loc'[p] = loc[p] BY <1>11, <2>1, <2>2
    <2>4. LeafKey[p] >= at' <=> LeafKey[p] >= at BY <1>8, <1>9, <1>10, <1>11
    <2>5. told \subseteq told' /\ (bad => bad') BY <1>2
    <2>. QED BY <1>3, <1>4, <1>5, <1>7, <2>3, <2>4, <2>5, LeafStays
  <1>12. CASE p = q
    <2>0. PICK m, t, e : m = loc' /\ t = told' /\ e = deferred' OBVIOUS
    <2>1. CASE bad' BY <1>3, <1>4, <2>1, LeafAfter
    <2>2. CASE ~bad'
      <3>1. ~bad /\ v # "error" BY <1>2, <2>2
      <3>2. IF pass = 1 THEN Ready(p, loc[p], Met(p), spool, told) ELSE Sat(p, loc[p], spool, told) \/ PutOff(p, deferred)
        BY <1>3, <1>7, <1>8, <1>10, <1>12, <3>1 DEF LeafHolds
      <3>3. at <= LeafKey[p] /\ d = Decision(LeafKey[p]) /\ v = VerdictOn(p, d) /\ (Writes(p, v) => ~Blocked(p))
            /\ (v = "dir" /\ ~IsDir(p) => Found(p) = None)
            /\ m = Effect(p, v, d) /\ t = IF v \in {"conflict", "stale", "missing"} /\ pass = 1 THEN told \cup {p} ELSE told
        BY <1>1, <1>2, <1>3, <1>8, <1>12, <1>13, <2>0
      <3>4. v = "error" \/ v = "defer" \/ Sat(p, m[p], spool, t) \/ PutOff(p, deferred)
        BY <1>3, <1>7, <3>2, <3>3, OwnLeaf
      <3>5. Sat(p, m[p], spool, t) \/ PutOff(p, e) BY <1>5, <1>6, <1>12, <2>0, <3>1, <3>4
      <3>6. ~(LeafKey[p] >= at') BY <1>8, <1>9, <1>10, <1>12
      <3>. QED BY <1>3, <1>4, <2>0, <3>5, <3>6, LeafAfter
    <2>. QED BY <2>1, <2>2
  <1>. QED BY <1>11, <1>12

\* One step of the removals.
LEMMA ExtrasWrites ==
  ASSUME Inv, OpenLoose, CloseExtra \/ Prune
  PROVE  /\ phase = "extras" /\ UNCHANGED <<rec, obj, opts, orig, spool, pass, deferred, post, frames>>
         /\ told \subseteq told' /\ (bad => bad') /\ gone \subseteq gone'
         /\ \/ phase' = "done" /\ status' = "failed"
            \/ phase' = phase /\ loc' = loc
            \/ /\ phase' = phase
               /\ \E p \in Paths \ {Root} :
                    /\ loc[p] # None /\ Removable(p) /\ p \in gone' /\ loc' = Removed(loc, p)
                    /\ \A c \in Paths \ {p} : Up[c] = p => loc[c] = None
  <1>1. phase = "extras" /\ UNCHANGED <<rec, obj, opts, orig, spool, pass, deferred, post, frames>>
    BY DEF CloseExtra, Prune, world, syncing, applying
  <1>2. ASSUME NEW p, NEW rest, Judge(p, rest)
        PROVE  /\ told \subseteq told' /\ (bad => bad') /\ gone \subseteq gone'
               /\ \/ phase' = "done" /\ status' = "failed"
                  \/ phase' = phase /\ loc' = loc
                  \/ /\ phase' = phase /\ p \in gone' /\ loc' = Removed(loc, p)
                     /\ \A c \in Paths \ {p} : Up[c] = p => loc[c] = None
    BY <1>2 DEF Judge, Finish
  <1>3. CASE CloseExtra
    <2>1. PICK p, f : p = Innermost.path /\ f = Front(open) OBVIOUS
    <2>2. /\ phase = "extras" /\ opts.delete # "no" /\ UNCHANGED <<rec, obj, opts, orig>>
          /\ p \in Paths \ {Root} /\ Stands(loc, p) /\ Loose(p) /\ loc[p] # None /\ Removable(p)
          /\ f \in Seq(Entries)
          /\ \A n \in 1..Len(f) : /\ n \in 1..Len(open) /\ f[n] = open[n] /\ f[n].path \in Above[p]
                                   /\ f[n].path \in Paths /\ Loose(f[n].path)
          /\ \A n \in 1..Len(open) : n \in 1..Len(f) \/ open[n] = Innermost
      BY <1>3, <2>1, ClosingIs
    <2>3. Judge(p, f) \/ UNCHANGED <<loc, gone, told, bad, phase>> BY <1>3, <2>1 DEF CloseExtra
    <2>. QED BY <1>1, <1>2, <2>2, <2>3
  <1>4. CASE Prune
    <2>1. PICK p : p = NextLocal OBVIOUS
    <2>2. p \in Paths \ {Root} /\ loc[p] # None /\ Shown(p) BY <1>4, <2>1, NextLocalIs DEF Prune
    <2>3. (Judge(p, open) /\ Extra(p)) \/ UNCHANGED <<loc, gone, told, bad, phase>> BY <1>4, <2>1 DEF Prune
    <2>4. Extra(p) => Removable(p) BY <2>2, ExtraFree
    <2>. QED BY <1>1, <1>2, <2>2, <2>3, <2>4
  <1>. QED BY <1>3, <1>4

LEMMA ExtrasLeaves ==
  ASSUME Inv, OpenLoose, LeavesHold, CloseExtra \/ Prune
  PROVE  LeavesHold'
  <1>1. /\ phase = "extras" /\ UNCHANGED <<rec, obj, opts, orig, spool, pass, deferred, post, frames>>
        /\ told \subseteq told' /\ (bad => bad') /\ gone \subseteq gone'
        /\ \/ phase' = "done" /\ status' = "failed"
           \/ phase' = phase /\ loc' = loc
           \/ /\ phase' = phase
              /\ \E p \in Paths \ {Root} :
                   /\ loc[p] # None /\ Removable(p) /\ p \in gone' /\ loc' = Removed(loc, p)
                   /\ \A c \in Paths \ {p} : Up[c] = p => loc[c] = None
    BY ExtrasWrites
  <1>2. CASE phase' = "done" /\ status' = "failed" BY <1>1, <1>2, EndLeaves
  <1>3. CASE phase' = phase /\ loc' = loc BY <1>1, <1>3, LeavesStay
  <1>4. CASE /\ phase' = phase
             /\ \E p \in Paths \ {Root} :
                  /\ loc[p] # None /\ Removable(p) /\ p \in gone' /\ loc' = Removed(loc, p)
                  /\ \A c \in Paths \ {p} : Up[c] = p => loc[c] = None
    <2>1. PICK x \in Paths \ {Root} :
             /\ loc[x] # None /\ Removable(x) /\ loc' = Removed(loc, x)
             /\ \A c \in Paths \ {x} : Up[c] = x => loc[c] = None
      BY <1>4
    <2>2. Treelike(loc) BY DEF Inv, Typed
    <2>3. /\ \A q \in Paths : ~InSubtree(x, q) /\ q # Up[x] => loc'[q] = loc[q]
          /\ \A q \in Paths : InSubtree(x, q) => loc'[q] = None
          /\ \A q \in Paths : ~InSubtree(x, q) /\ Stands(loc, q) => Stands(loc', q)
      BY <2>1, <2>2, RemovedExact
    <2>4. Bare(loc, x)
      <3>1. \A c \in Paths \ {Root} : Up[c] = x => c # x BY AboveTypes, AboveKey
      <3>. QED BY <2>1, <3>1 DEF Bare
    <2>5. ASSUME NEW p \in Nondirs PROVE loc'[p] = loc[p]
      <3>1. p # x /\ p \notin Above[x] BY <2>1 DEF Removable, Free, InSubtree
      <3>2. p # Up[x] BY <3>1, AboveTypes
      <3>3. p \in Paths BY LeafPath
      <3>4. CASE x \in Above[p]
        <4>1. loc[p] = None BY <2>1, <2>2, <2>4, <3>3, <3>4, NothingIn
        <4>2. loc'[p] = None BY <2>3, <3>3, <3>4 DEF InSubtree
        <4>. QED BY <4>1, <4>2
      <3>5. CASE x \notin Above[p] BY <2>3, <3>1, <3>2, <3>3, <3>5 DEF InSubtree
      <3>. QED BY <3>4, <3>5
    <2>. QED BY <1>1, <1>4, <2>5, LeavesStay
  <1>. QED BY <1>1, <1>2, <1>3, <1>4

LEMMA SettleLeaves ==
  ASSUME Unfolded, Inv, LeavesHold, PopFrame \/ Resettle
  PROVE  LeavesHold'
  <1>1. /\ UNCHANGED <<rec, obj, opts, orig, spool, pass, deferred, at, phase, prep>>
        /\ phase = "apply" \/ phase = "place"
    BY DEF PopFrame, Resettle, world, syncing
  <1>2. \/ UNCHANGED <<loc, bad, told>>
        \/ \E p \in Paths, ordered \in BOOLEAN : DirRec(p) /\ Settle(p, ordered)
    <2>1. CASE PopFrame
      <3>1. Top.path \in Paths /\ DirRec(Top.path) BY <2>1, TopIs DEF PopFrame
      <3>2. (opts.update /\ ~Top.dirty) \in BOOLEAN OBVIOUS
      <3>. QED BY <2>1, <3>1, <3>2 DEF PopFrame
    <2>2. CASE Resettle
      <3>1. PICK p : p = CHOOSE x \in post : \A q \in post : DirKey[q] <= DirKey[x] OBVIOUS
      <3>2. post \in SUBSET Paths /\ post # {} BY <2>2 DEF Inv, Typed, Resettle
      <3>3. p \in post BY <3>1, <3>2, GreatestKey
      <3>4. DirRec(p) BY <3>3 DEF Inv, LastFits
      <3>. QED BY <2>2, <3>1, <3>2, <3>3, <3>4 DEF Resettle
    <2>. QED BY <2>1, <2>2
  <1>3. told \subseteq told' /\ (bad => bad')
    <2>1. CASE UNCHANGED <<loc, bad, told>> BY <2>1
    <2>2. CASE \E p \in Paths, ordered \in BOOLEAN : DirRec(p) /\ Settle(p, ordered)
      <3>1. PICK p \in Paths, ordered \in BOOLEAN : Settle(p, ordered) BY <2>2
      <3>. QED BY <3>1 DEF Settle
    <2>. QED BY <1>2, <2>1, <2>2
  <1>4. \A p \in Nondirs : loc'[p] = loc[p]
    <2>1. CASE loc' = loc BY <2>1
    <2>2. CASE loc' # loc
      <3>1. PICK x \in Paths, ordered \in BOOLEAN : DirRec(x) /\ Settle(x, ordered) BY <1>2, <2>2
      <3>2. loc' = [loc EXCEPT ![x] = Stamped(rec[x], loc[x])] BY <2>2, <3>1, SettleIs
      <3>3. \A p \in Nondirs : p # x /\ p \in Paths BY <3>1, LeafPath DEF DirRec, Nondirs
      <3>4. loc \in [Paths -> Slot] BY DEF Inv, Typed, Treelike
      <3>. QED BY <3>2, <3>3, <3>4
    <2>. QED BY <2>1, <2>2
  <1>. QED BY <1>1, <1>3, <1>4, LeavesStay

\* The directories the apply opens.
Shut(c) == DirRec(c) /\ Judged(c)

\* What stood in the place of a directory is gone, and only its parent has a
\* new time.
LEMMA ClearedConflict ==
  ASSUME Unfolded, Inv, ClearConflict
  PROVE  \E q \in Paths \ {Root} :
           /\ AtRecord /\ phase = "apply" /\ q = NextRecord /\ q \in Recorded /\ Shut(q)
           /\ loc[q] # None /\ ~Stands(loc, q) /\ loc'[q] = None /\ Stands(loc, Up[q]) /\ Stands(loc', Up[q])
           /\ \A x \in Paths \ {q, Up[q]} : loc'[x] = loc[x]
  <1>1. PICK q \in Paths \ {Root} :
           Making(q) /\ DirRec(q) /\ Found(q) # None /\ ~IsDir(q) /\ loc' = Removed(loc, Disk(q))
    BY ClearConflictWrites
  <1>2. AtRecord /\ phase = "apply" /\ q = NextRecord /\ q \in Recorded /\ Shut(q)
    BY <1>1, MakingIs DEF Making, Shut
  <1>3. loc[q] # None /\ ~Stands(loc, q) /\ loc' = Removed(loc, q) BY <1>1, OneNameIs
  <1>4. Treelike(loc) BY DEF Inv, Typed
  <1>5. Stands(loc, Up[q]) /\ ~InSubtree(q, Up[q]) /\ Up[q] \in Paths
    <2>1. Up[q] \in Above[q] BY AboveUp
    <2>2. Stands(loc, Up[q]) BY <1>3, <1>4, <2>1, AncestorsStand
    <2>3. q # Up[q] /\ q \notin Above[Up[q]] BY <2>1, AboveKey, AboveTrans
    <2>. QED BY <2>1, <2>2, <2>3, TreeAssumption DEF InSubtree
  <1>6. PICK m : m = loc' OBVIOUS
  <1>7. /\ \A x \in Paths : ~InSubtree(q, x) /\ x # Up[q] => m[x] = loc[x]
        /\ \A x \in Paths : InSubtree(q, x) => m[x] = None
        /\ Stands(m, Up[q])
    BY <1>3, <1>4, <1>5, <1>6, RemovedExact
  <1>8. \A x \in Paths : q \in Above[x] => loc[x] = None
    <2>1. Bare(loc, q) BY <1>3, <1>4, LeafIsBare
    <2>. QED BY <1>4, <2>1, NothingIn
  <1>9. m[q] = None /\ \A x \in Paths \ {q, Up[q]} : m[x] = loc[x] BY <1>7, <1>8 DEF InSubtree
  <1>. QED BY <1>2, <1>3, <1>5, <1>6, <1>7, <1>9 DEF Stands

LEMMA ClearSame ==
  ASSUME ClearConflict
  PROVE  UNCHANGED <<rec, obj, opts, orig, phase, at, spool, cur, frames, deferred, post, prep, told, bad, pass, status>>
  BY DEF ClearConflict, world, syncing, applying

LEMMA ClearLeaves ==
  ASSUME Unfolded, Inv, LeavesHold, ClearConflict
  PROVE  LeavesHold'
  <1>1. PICK q \in Paths \ {Root} :
           /\ phase = "apply" /\ q \in Recorded /\ Shut(q)
           /\ \A x \in Paths \ {q, Up[q]} : loc'[x] = loc[x]
    BY ClearedConflict
  <1>2. UNCHANGED <<rec, obj, opts, orig, phase, at, spool, deferred, prep, told, bad, pass>> BY ClearSame
  <1>3. ASSUME NEW p \in Nondirs PROVE loc'[p] = loc[p]
    <2>1. p \in Paths /\ p # q BY <1>1, LeafPath DEF Shut, DirRec, Nondirs
    <2>2. p \notin Above[q] BY <1>1, NothingBeneath
    <2>3. Up[q] \in Above[q] BY AboveUp
    <2>. QED BY <1>1, <2>1, <2>2, <2>3
  <1>. QED BY <1>1, <1>2, <1>3, LeavesStay

LEMMA SkipLeaves ==
  ASSUME Inv, LeavesHold, SkipExcluded
  PROVE  LeavesHold'
  <1>1. /\ AtRecord /\ ~Judged(NextRecord) /\ at' = RecKey(NextRecord) + 1 /\ phase = "apply" /\ at \in Nat
        /\ UNCHANGED <<rec, obj, opts, orig, spool, pass, loc, told, bad, phase, deferred, prep>>
    BY DEF SkipExcluded, NextLine, AtRecord, Inv, Typed, world, syncing
  <1>2. ASSUME NEW p \in Nondirs, Judged(p) PROVE LeafKey[p] >= at' <=> LeafKey[p] >= at
    <2>1. p \in Recorded /\ RecKey(p) = LeafKey[p] /\ p # NextRecord BY <1>1, <1>2, LeafPath
    <2>2. RecKey(p) \in Nat /\ RecKey(NextRecord) \in Nat /\ (RecKey(p) < at' <=> RecKey(p) < at \/ p = NextRecord)
      BY <1>1, <2>1, PassedBy
    <2>. QED BY <1>1, <2>1, <2>2
  <1>. QED BY <1>1, <1>2, LeavesStay

LEMMA ApplyFailsLeaves ==
  ASSUME Inv, LeavesHold, ApplyFails
  PROVE  LeavesHold'
  <1>1. UNCHANGED <<rec, obj, opts, orig>> BY DEF ApplyFails, Abort, NextLine, world
  <1>2. \/ phase' = "done" /\ status' = "failed"
        \/ phase' = "apply" /\ bad' = TRUE
    BY DEF ApplyFails, Abort, Finish, NextLine, AtRecord
  <1>3. CASE phase' = "done" /\ status' = "failed" BY <1>1, <1>3, EndLeaves, ItemAssumption
  <1>4. CASE phase' = "apply" /\ bad' = TRUE
    <2>. SUFFICES ASSUME NEW p \in Paths PROVE LeafHolds(p)' BY DEF LeavesHold
    <2>. QED BY <1>1, <1>4, LeafAfter
  <1>. QED BY <1>2, <1>3, <1>4

LEMMA StreamedLeaves ==
  ASSUME Inv, LeavesHold, Streamed
  PROVE  LeavesHold'
  <1>1. /\ phase = "apply" /\ ToApply = {} /\ phase' = "place" /\ at \in Nat
        /\ UNCHANGED <<rec, obj, opts, orig, spool, pass, loc, told, bad, deferred>>
    BY DEF Streamed, Inv, Typed, world, syncing, applying
  <1>. SUFFICES ASSUME NEW p \in Paths, Leaf(p) PROVE LeafHolds(p)'
    <2>1. \A p \in Paths : Leaf(p)' <=> Leaf(p) BY <1>1, SameTerms
    <2>. QED BY <2>1 DEF LeavesHold
  <1>2. LeafHolds(p) /\ p \in Nondirs /\ Judged(p) BY DEF LeavesHold, Leaf
  <1>3. ~(LeafKey[p] >= at)
    <2>1. p \in Recorded /\ RecKey(p) = LeafKey[p] BY <1>2, LeafPath
    <2>. QED BY <1>1, <2>1 DEF ToApply
  <1>4. ~bad => Sat(p, loc[p], spool, told) \/ PutOff(p, deferred) BY <1>1, <1>2, <1>3 DEF LeafHolds
  <1>. QED BY <1>1, <1>4, LeafAfter

LEMMA TailIs ==
  ASSUME NEW S, NEW s \in Seq(S), s # <<>>
  PROVE  /\ Len(s) \in Nat \ {0} /\ Head(s) \in S /\ Head(s) = s[1]
         /\ Tail(s) \in Seq(S) /\ Len(Tail(s)) = Len(s) - 1
         /\ \A n \in 1..Len(Tail(s)) : n + 1 \in 1..Len(s) /\ Tail(s)[n] = s[n + 1]
         /\ \A n \in 1..Len(s) : n = 1 \/ (n - 1 \in 1..Len(Tail(s)) /\ Tail(s)[n - 1] = s[n])
  <1>1. /\ Len(s) \in Nat \ {0} /\ Head(s) \in S /\ Head(s) = s[1]
        /\ Tail(s) \in Seq(S) /\ Len(Tail(s)) = Len(s) - 1
        /\ \A n \in 1..Len(Tail(s)) : Tail(s)[n] = s[n + 1]
    BY EmptySeq, HeadTailProperties
  <1>2. PICK k \in Nat \ {0} : k = Len(s) BY <1>1
  <1>3. PICK t : t = Tail(s) OBVIOUS
  <1>4. \A n \in 1..k - 1 : n + 1 \in 1..k /\ t[n] = s[n + 1] BY <1>1, <1>2, <1>3
  <1>5. \A n \in 1..k : n = 1 \/ (n - 1 \in 1..k - 1 /\ n = (n - 1) + 1) BY <1>2
  <1>6. \A n \in 1..k : n = 1 \/ (n - 1 \in 1..k - 1 /\ t[n - 1] = s[n]) BY <1>4, <1>5
  <1>. QED BY <1>1, <1>2, <1>3, <1>4, <1>6

LEMMA PlaceLeaves ==
  ASSUME Unfolded, Inv, LeavesHold, Place
  PROVE  LeavesHold'
  <1>1. UNCHANGED <<rec, obj, opts, orig>> /\ phase = "place" /\ deferred # <<>> BY DEF Place, Abort, world
  <1>2. PICK h : h = Head(deferred) OBVIOUS
  <1>3. \/ phase' = "done" /\ status' = "failed"
        \/ /\ ~Blocked(h) /\ loc' = Put(Cleared(h), h, LinkAt(rec[h])) /\ deferred' = Tail(deferred)
           /\ UNCHANGED <<phase, told, bad, spool, pass>>
    BY <1>2 DEF Place, Abort, Finish, syncing
  <1>4. CASE phase' = "done" /\ status' = "failed" BY <1>1, <1>4, EndLeaves, ItemAssumption
  <1>5. CASE /\ ~Blocked(h) /\ loc' = Put(Cleared(h), h, LinkAt(rec[h])) /\ deferred' = Tail(deferred)
             /\ UNCHANGED <<phase, told, bad, spool, pass>>
    <2>1. deferred \in Seq(Paths) BY DEF Inv, Typed
    <2>2. /\ h \in Paths /\ Len(deferred) \in Nat \ {0} /\ h = deferred[1]
          /\ \A n \in 1..Len(deferred) : n = 1 \/ (n - 1 \in 1..Len(Tail(deferred)) /\ Tail(deferred)[n - 1] = deferred[n])
      BY <1>1, <1>2, <2>1, TailIs
    <2>3. LinkRec(h) BY <2>2 DEF Inv, LastFits
    <2>4. h \in Nondirs /\ h \in Recorded BY <2>2, <2>3 DEF LinkRec, Nondirs, Recorded
    <2>5. /\ h \in Paths \ {Root} /\ rec[h].kind = "link" /\ rec[h].mode \in Modes
          /\ rec[h].mtime \in Nat \cup {NoMtime} /\ rec[h].what \in Data
      BY <2>3, <2>4, LeafPath DEF LinkRec
    <2>6. LinkAt(rec[h]) \in Items BY <2>5, LinkItem
    <2>7. Treelike(loc) BY DEF Inv, Typed
    <2>8. PICK m, i : m = loc' /\ i = LinkAt(rec[h]) OBVIOUS
    <2>9. /\ m[h] = i
          /\ \A q \in Paths : ~InSubtree(h, q) /\ q \notin Above[h] => m[q] = loc[q]
      BY <1>5, <2>5, <2>6, <2>7, <2>8, PlacedExact
    <2>10. \A x : PutOff(x, deferred) => x = h \/ PutOff(x, deferred') BY <1>5, <2>2 DEF PutOff
    <2>. SUFFICES ASSUME NEW p \in Paths, Leaf(p) PROVE LeafHolds(p)'
      <3>1. \A p \in Paths : Leaf(p)' <=> Leaf(p) BY <1>1, SameTerms
      <3>. QED BY <3>1 DEF LeavesHold
    <2>11. LeafHolds(p) /\ p \in Nondirs /\ Judged(p) BY DEF LeavesHold, Leaf
    <2>12. ~bad => Sat(p, loc[p], spool, told) \/ PutOff(p, deferred) BY <1>1, <2>11 DEF LeafHolds
    <2>13. PICK j, d : j = loc'[p] /\ d = deferred' OBVIOUS
    <2>14. CASE p = h
      <3>1. j = LinkAt(rec[p]) BY <2>8, <2>9, <2>13, <2>14
      <3>2. Matches(rec[p], j) BY <2>5, <2>14, <3>1, LinkMatches
      <3>3. Good(p, j) BY <2>5, <2>14, <3>2 DEF Good
      <3>4. Sat(p, j, spool, told) BY <3>3 DEF Sat
      <3>. QED BY <1>1, <1>5, <2>13, <3>4, LeafAfter
    <2>15. CASE p # h
      <3>1. p \notin Above[h] /\ h \notin Above[p]
        <4>1. p \in Recorded BY <2>11, LeafPath
        <4>. QED BY <1>1, <2>4, <2>11, <4>1, NothingBeneath
      <3>2. j = loc[p] BY <2>8, <2>9, <2>13, <2>15, <3>1 DEF InSubtree
      <3>3. ~bad => Sat(p, j, spool, told) \/ PutOff(p, d) BY <2>10, <2>12, <2>13, <2>15, <3>2
      <3>. QED BY <1>1, <1>5, <2>13, <3>3, LeafAfter
    <2>. QED BY <2>14, <2>15
  <1>. QED BY <1>3, <1>4, <1>5

LEMMA AppliedLeaves ==
  ASSUME Inv, Grounded, LeavesHold, Applied
  PROVE  LeavesHold'
  <1>1. /\ phase = "place" /\ deferred = <<>>
        /\ UNCHANGED <<rec, obj, opts, orig, spool, told, bad, pass>>
        /\ \/ phase' = "done" /\ status' = "failed"
           \/ ~bad /\ phase' \in {"done", "extras"} /\ loc' = loc
    BY DEF Applied, Finish, world, syncing
  <1>2. CASE phase' = "done" /\ status' = "failed" BY <1>1, <1>2, EndLeaves, ItemAssumption
  <1>3. CASE ~bad /\ phase' \in {"done", "extras"} /\ loc' = loc
    <2>. SUFFICES ASSUME NEW p \in Paths, Leaf(p) PROVE LeafHolds(p)'
      <3>1. \A p \in Paths : Leaf(p)' <=> Leaf(p) BY <1>1, SameTerms
      <3>. QED BY <3>1 DEF LeavesHold
    <2>1. Sat(p, loc[p], spool, told) \/ PutOff(p, deferred) BY <1>1, <1>3 DEF LeavesHold, LeafHolds
    <2>2. ~PutOff(p, deferred)
      <3>1. Len(deferred) = 0 BY <1>1
      <3>. QED BY <3>1 DEF PutOff
    <2>3. PICK i : i = loc'[p] /\ i = loc[p] BY <1>3
    <2>4. Sat(p, i, spool, told) BY <2>1, <2>2, <2>3
    <2>5. phase' \notin {"sync", "apply", "place"} BY <1>3
    <2>. QED BY <1>1, <2>3, <2>4, <2>5, LeafAfter
  <1>. QED BY <1>1, <1>2, <1>3

LEMMA PrunedLeaves ==
  ASSUME Inv, Grounded, LeavesHold, Pruned
  PROVE  LeavesHold'
  <1>1. /\ phase = "extras" /\ at' = 0
        /\ UNCHANGED <<rec, obj, opts, orig, spool, told, bad>>
        /\ \/ phase' = "apply" /\ pass' = 2 /\ loc' = loc
           \/ phase' = "done" /\ status' = (IF bad THEN "failed" ELSE "ok") /\ loc' = GivenBack(loc)
    BY DEF Pruned, Finish, world, syncing
  <1>2. loc' = loc BY <1>1, GivesNothing DEF Inv, PrepFits
  <1>. SUFFICES ASSUME NEW p \in Paths, Leaf(p) PROVE LeafHolds(p)'
    <2>1. \A p \in Paths : Leaf(p)' <=> Leaf(p) BY <1>1, SameTerms
    <2>. QED BY <2>1 DEF LeavesHold
  <1>3. ~bad => Sat(p, loc[p], spool, told) BY <1>1 DEF LeavesHold, LeafHolds
  <1>4. PICK i : i = loc'[p] /\ i = loc[p] BY <1>2
  <1>5. ~bad => Sat(p, i, spool, told) BY <1>3, <1>4
  <1>6. phase' = "done" /\ status' = "ok" => ~bad BY <1>1, ItemAssumption
  <1>7. phase' \notin {"sync", "place", "extras"} /\ (phase' = "apply" => pass' # 1) BY <1>1
  <1>. QED BY <1>1, <1>4, <1>5, <1>6, <1>7, LeafAfter

LEMMA LeavesStep ==
  ASSUME Unfolded, Inv, Grounded, OpenLoose, Mirrored, SpoolFits, SyncFits, LeavesHold, [Next]_vars
  PROVE  LeavesHold'
  <1>1. CASE Start \/ Vet \/ Make \/ Prep BY <1>1, EarlyLeaves
  <1>2. CASE Decide BY <1>2, DecideLeaves
  <1>3. CASE \E p \in Paths : Land(p) BY <1>3, LandLeaves
  <1>4. CASE Synced BY <1>4, SyncedLeaves
  <1>5. CASE PopFrame \/ Resettle BY <1>5, SettleLeaves
  <1>6. CASE Apply BY <1>6, ApplyLeaves
  <1>7. CASE SkipExcluded BY <1>7, SkipLeaves
  <1>17. CASE ClearConflict BY <1>17, ClearLeaves
  <1>8. CASE ApplyFails BY <1>8, ApplyFailsLeaves
  <1>9. CASE Streamed BY <1>9, StreamedLeaves
  <1>10. CASE Place BY <1>10, PlaceLeaves
  <1>11. CASE Applied BY <1>11, AppliedLeaves
  <1>12. CASE CloseExtra \/ Prune BY <1>12, ExtrasLeaves
  <1>13. CASE Pruned BY <1>13, PrunedLeaves
  <1>14. CASE Cut
    <2>1. UNCHANGED <<rec, obj, opts, orig>> /\ phase' = "done" /\ status' # "ok" BY <1>14 DEF Cut, world
    <2>. QED BY <2>1, EndLeaves
  <1>15. CASE Again
    <2>1. phase' = "start" BY <1>15 DEF Again
    <2>. QED BY <2>1 DEF LeavesHold, LeafHolds
  <1>16. CASE UNCHANGED vars
    <2>1. UNCHANGED <<rec, obj, opts, orig, loc, phase, at, spool, deferred, todo, told, bad, pass, status, prep>>
      BY <1>16 DEF vars, world, syncing, applying
    <2>. SUFFICES ASSUME NEW p \in Paths, Leaf(p) PROVE LeafHolds(p)'
      <3>1. \A p \in Paths : Leaf(p)' <=> Leaf(p) BY <2>1, SameTerms
      <3>. QED BY <3>1 DEF LeavesHold
    <2>2. LeafHolds(p) BY DEF LeavesHold
    <2>3. PICK i, u, s, t, d : i = loc[p] /\ u = Was(i, prep[p]) /\ s = spool /\ t = told /\ d = deferred OBVIOUS
    <2>4. i = loc'[p] /\ u = Was(i, prep'[p]) /\ s = spool' /\ t = told' /\ d = deferred' BY <2>1, <2>3
    <2>5. /\ phase' = "sync" => /\ SameYet(p, u, s) /\ Spoken(p, s, t)
                                /\ LeafKey[p] < at' => bad' \/ p \in todo' \/ (Content(p, i, s) /\ Content(p, u, s))
          /\ phase' = "apply" /\ ~bad' =>
               IF pass' = 1 /\ LeafKey[p] >= at' THEN Ready(p, i, u, s, t) ELSE Sat(p, i, s, t) \/ PutOff(p, d)
          /\ phase' = "place" /\ ~bad' => Sat(p, i, s, t) \/ PutOff(p, d)
          /\ phase' = "extras" /\ ~bad' => Sat(p, i, s, t)
          /\ phase' = "done" /\ status' = "ok" => Sat(p, i, s, t)
      BY <2>1, <2>2, <2>3 DEF LeafHolds, Met
    <2>. QED BY <2>1, <2>4, <2>5, LeafAfter
  <1>. QED BY <1>1, <1>2, <1>3, <1>4, <1>5, <1>6, <1>7, <1>8, <1>9, <1>10, <1>11, <1>12, <1>13, <1>14, <1>15, <1>16, <1>17
       DEF Next

LEMMA InitLeaves == Init => SpoolFits /\ SyncFits /\ LeavesHold
  <1>. SUFFICES ASSUME Init PROVE SpoolFits /\ SyncFits /\ LeavesHold OBVIOUS
  <1>1. phase = "start" /\ spool = <<>> /\ walked = None /\ loc = orig BY DEF Init, Fresh
  <1>2. LeavesHold BY <1>1 DEF LeavesHold, LeafHolds
  <1>3. SyncFits BY <1>1 DEF SyncFits, EarlyTree, Refilled
  <1>4. \A n : n \notin 1..Len(spool) BY <1>1, EmptySeq
  <1>5. SpoolFits BY <1>1, <1>4 DEF SpoolFits, Lined, CursorFits, WalkFits
  <1>. QED BY <1>2, <1>3, <1>5

(* The directories still open in the apply, and those the deferred links    *)
(* wait in.                                                                *)
InFrames(f, p) == \E n \in 1..Len(f) : f[n].path = p
\* A directory behind the stream is open or has nothing more to come beneath it.
Tracked(f, k) ==
  \A c \in Paths : Shut(c) /\ DirKey[c] < k =>
    InFrames(f, c) \/ \A x \in Recorded : RecKey(x) >= k => c \notin Above[x]
\* The open ones stand, are judged, and are settled in any case the second time.
Firm(f, l, n) ==
  \A j \in 1..Len(f) : /\ Stands(l, f[j].path) /\ Judged(f[j].path) /\ DirRec(f[j].path)
                       /\ n = 2 => f[j].dirty
FramesHold == phase = "apply" => Tracked(frames, at) /\ Firm(frames, loc, pass)
Awaits(c, f, t, ph) == c \in t \/ (ph = "apply" /\ \E j \in 1..Len(f) : f[j].path = c /\ f[j].resettle)
\* The innermost of the recorded directories above z.
Nearest(p, z) == p \in Above[z] /\ \A c \in Above[z] : Shut(c) => c = p \/ c \in Above[p]
Hung(d, l, f, t, ph) ==
  \A n \in 1..Len(d) : \A c \in Above[d[n]] :
    Shut(c) => Stands(l, c) /\ (Nearest(c, d[n]) => Awaits(c, f, t, ph))
DeferredHold == phase \in {"apply", "place"} => Hung(deferred, loc, frames, post, phase)

LEMMA SameDirs ==
  ASSUME UNCHANGED <<rec, obj, opts, orig>>
  PROVE  \A p \in Paths : /\ Shut(p)' <=> Shut(p)
                          /\ DirRec(p)' <=> DirRec(p)
                          /\ Judged(p)' <=> Judged(p)
                          /\ RecKey(p)' = RecKey(p)
  BY DEF Shut, DirRec, Judged, RecKey, KeyAs

LEMMA FramesAfter ==
  ASSUME Inv, UNCHANGED <<rec, obj, opts, orig>>, NEW f \in Seq(Frames), f = frames', NEW k, k = at', NEW l, l = loc',
         NEW n, n = pass', phase' = "apply" => Tracked(f, k) /\ Firm(f, l, n)
  PROVE  FramesHold'
  <1>. SUFFICES ASSUME phase' = "apply" PROVE Tracked(frames, at)' /\ Firm(frames, loc, pass)' BY DEF FramesHold
  <1>1. Recorded' = Recorded /\ Recorded \in SUBSET Paths BY DEF Recorded
  <1>2. \A p \in Paths : /\ Shut(p)' <=> Shut(p)
                         /\ DirRec(p)' <=> DirRec(p)
                         /\ Judged(p)' <=> Judged(p)
                         /\ RecKey(p)' = RecKey(p)
    BY SameDirs
  <1>3. \A j \in 1..Len(f) : f[j].path \in Paths
    <2>. SUFFICES ASSUME NEW j \in 1..Len(f) PROVE f[j].path \in Paths OBVIOUS
    <2>1. f[j] \in Frames BY ElementOfSeq
    <2>. QED BY <2>1 DEF Frames
  <1>4. Tracked(frames, at)'
    <2>1. \A c \in Paths : Shut(c)' /\ DirKey[c] < k =>
            InFrames(f, c) \/ \A x \in Recorded : RecKey(x)' >= k => c \notin Above[x]
      BY <1>1, <1>2 DEF Tracked
    <2>. QED BY <1>1, <2>1 DEF Tracked, InFrames
  <1>5. Firm(frames, loc, pass)'
    <2>1. \A j \in 1..Len(f) : /\ Stands(l, f[j].path) /\ Judged(f[j].path)' /\ DirRec(f[j].path)'
                               /\ n = 2 => f[j].dirty
      BY <1>2, <1>3 DEF Firm
    <2>. QED BY <2>1 DEF Firm, Stands, Judged, DirRec, RecKey, KeyAs
  <1>. QED BY <1>4, <1>5

LEMMA HungAfter ==
  ASSUME UNCHANGED <<rec, obj, opts, orig>>, NEW d \in Seq(Paths), d = deferred', NEW l, l = loc', NEW f, f = frames',
         NEW t, t = post', NEW ph, ph = phase', phase' \in {"apply", "place"} => Hung(d, l, f, t, ph)
  PROVE  DeferredHold'
  <1>. SUFFICES ASSUME phase' \in {"apply", "place"} PROVE Hung(deferred, loc, frames, post, phase)' BY DEF DeferredHold
  <1>1. \A n \in 1..Len(d) : d[n] \in Paths /\ Above[d[n]] \in SUBSET Paths
    <2>. SUFFICES ASSUME NEW n \in 1..Len(d) PROVE d[n] \in Paths /\ Above[d[n]] \in SUBSET Paths OBVIOUS
    <2>1. d[n] \in Paths BY ElementOfSeq
    <2>. QED BY <2>1, AboveTypes
  <1>2. \A c \in Paths : Shut(c)' <=> Shut(c) BY SameDirs
  <1>3. \A n \in 1..Len(d) : \A c \in Paths : Nearest(c, d[n])' => Nearest(c, d[n]) BY <1>1, <1>2 DEF Nearest
  <1>4. \A c : Stands(l, c) => Stands(loc, c)' BY DEF Stands
  <1>5. \A c : Awaits(c, f, t, ph) => Awaits(c, frames, post, phase)' BY DEF Awaits
  <1>. SUFFICES ASSUME NEW n \in 1..Len(d), NEW c \in Above[d[n]], Shut(c)'
                PROVE  Stands(loc, c)' /\ (Nearest(c, d[n])' => Awaits(c, frames, post, phase)')
    BY DEF Hung
  <1>6. c \in Paths BY <1>1
  <1>7. Stands(l, c) /\ (Nearest(c, d[n]) => Awaits(c, f, t, ph)) BY <1>2, <1>6 DEF Hung
  <1>. QED BY <1>3, <1>4, <1>5, <1>6, <1>7

\* What the flags change of the frames.
LEMMA FlaggedExact ==
  ASSUME Inv, NEW S, NEW f, f = Flagged(S)
  PROVE  /\ f \in Seq(Frames) /\ Len(f) = Len(frames) /\ Len(frames) \in Nat
         /\ \A n \in 1..Len(frames) :
              /\ f[n].path = frames[n].path
              /\ f[n].dirty <=> frames[n].dirty \/ (n = Len(frames) /\ "dirty" \in S)
              /\ f[n].resettle <=> frames[n].resettle \/ (n = Len(frames) /\ "resettle" \in S)
  <1>1. frames \in Seq(Frames) BY DEF Inv, Typed
  <1>2. CASE frames = <<>>
    <2>1. f = frames /\ Len(frames) = 0 BY <1>2 DEF Flagged
    <2>. QED BY <1>1, <2>1
  <1>3. CASE frames # <<>>
    <2>1. PICK g : g = Front(frames) OBVIOUS
    <2>2. PICK t : t = [Top EXCEPT !.dirty = @ \/ "dirty" \in S, !.resettle = @ \/ "resettle" \in S]
      OBVIOUS
    <2>3. Top \in Frames /\ Top = frames[Len(frames)] BY <1>3, TopIs DEF Top
    <2>4. t \in Frames /\ t.path = Top.path /\ (t.dirty <=> Top.dirty \/ "dirty" \in S)
          /\ (t.resettle <=> Top.resettle \/ "resettle" \in S)
      BY <2>2, <2>3 DEF Frames
    <2>5. /\ Len(frames) \in Nat \ {0} /\ g \in Seq(Frames) /\ Len(g) = Len(frames) - 1
          /\ \A n \in 1..Len(frames) - 1 : g[n] = frames[n]
      BY <1>1, <1>3, <2>1, FrontIs
    <2>6. f = Append(g, t) BY <1>3, <2>1, <2>2 DEF Flagged
    <2>7. /\ f \in Seq(Frames) /\ Len(f) = Len(g) + 1
          /\ \A i \in 1..Len(g) : f[i] = g[i]
          /\ f[Len(g) + 1] = t
      BY <2>4, <2>5, <2>6, AppendProperties
    <2>8. PICK k \in Nat \ {0} : k = Len(frames) BY <2>5
    <2>9. \A n \in 1..k : n = k \/ (n \in 1..k - 1 /\ n # k) BY <2>8
    <2>10. Len(g) = k - 1 /\ Len(g) + 1 = k /\ Len(f) = k BY <2>5, <2>7, <2>8
    <2>11. f[k] = t /\ \A n \in 1..k - 1 : f[n] = frames[n] BY <2>5, <2>7, <2>8, <2>10
    <2>12. ASSUME NEW n \in 1..k
           PROVE  /\ f[n].path = frames[n].path
                  /\ f[n].dirty <=> frames[n].dirty \/ (n = k /\ "dirty" \in S)
                  /\ f[n].resettle <=> frames[n].resettle \/ (n = k /\ "resettle" \in S)
      <3>1. CASE n = k BY <2>3, <2>4, <2>8, <2>11, <3>1
      <3>2. CASE n \in 1..k - 1 /\ n # k BY <2>11, <3>2
      <3>. QED BY <2>9, <3>1, <3>2
    <2>. QED BY <2>7, <2>8, <2>10, <2>12
  <1>. QED BY <1>2, <1>3

\* All that is open lies above the next record, one directory in another.
LEMMA FramesAbove ==
  ASSUME Inv, AtRecord, NEW p, p = NextRecord
  PROVE  /\ frames # <<>> => Top.path \in Above[p] /\ Top.path \in Paths
         /\ \A n \in 1..Len(frames) :
              /\ frames # <<>> /\ frames[n].path \in Paths /\ frames[n].path \in Above[p]
              /\ n = Len(frames) => frames[n] = Top
              /\ n # Len(frames) => frames[n].path \in Above[Top.path]
              /\ frames[n].path = Top.path => n = Len(frames)
  <1>1. /\ p \in Recorded /\ p \in Paths /\ at <= RecKey(p) /\ phase = "apply"
        /\ frames # <<>> => InSubtree(Top.path, p) /\ (DirRec(p) => Top.path \in Above[p])
    BY AtRecordIs
  <1>2. frames # <<>> => Top.path \in Above[p] /\ Top.path \in Paths
    <2>. SUFFICES ASSUME frames # <<>>, Top.path = p PROVE FALSE BY <1>1, TopIs DEF InSubtree
    <2>1. DirRec(p) BY TopIs
    <2>2. p \in Above[p] BY <1>1, <2>1
    <2>. QED BY <1>1, <2>2, AboveKey
  <1>. SUFFICES ASSUME NEW n \in 1..Len(frames)
                PROVE  /\ frames # <<>> /\ frames[n].path \in Paths /\ frames[n].path \in Above[p]
                       /\ n = Len(frames) => frames[n] = Top
                       /\ n # Len(frames) => frames[n].path \in Above[Top.path]
                       /\ frames[n].path = Top.path => n = Len(frames)
    BY <1>2
  <1>3. frames \in Seq(Frames) /\ frames[n] \in Frames /\ frames # <<>>
    BY ElementOfSeq, EmptySeq DEF Inv, Typed
  <1>4. frames[n].path \in Paths BY <1>3 DEF Frames
  <1>5. n # Len(frames) => frames[n].path \in Above[Top.path] BY <1>3, TopIs
  <1>6. n = Len(frames) => frames[n] = Top BY DEF Top
  <1>7. frames[n].path \in Above[p] BY <1>1, <1>2, <1>3, <1>5, <1>6, AboveTrans
  <1>8. frames[n].path = Top.path => n = Len(frames) BY <1>2, <1>3, <1>5, AboveKey
  <1>. QED BY <1>3, <1>4, <1>5, <1>6, <1>7, <1>8

\* The frames after the record p.
Onward(g, f, S, v, p, d) ==
  /\ Len(f) \in Nat /\ Len(g) \in Nat
  /\ \A n \in 1..Len(f) :
       /\ n \in 1..Len(g) /\ g[n].path = f[n].path
       /\ g[n].dirty <=> f[n].dirty \/ (n = Len(f) /\ "dirty" \in S)
       /\ g[n].resettle <=> f[n].resettle \/ (n = Len(f) /\ "resettle" \in S)
  /\ v = "dir" => Len(f) + 1 \in 1..Len(g) /\ g[Len(f) + 1] = Opens(p, d)
  /\ \A n \in 1..Len(g) : n \in 1..Len(f) \/ (v = "dir" /\ g[n] = Opens(p, d))

LEMMA OnwardIs ==
  ASSUME Inv, NEW p \in Paths, NEW v, NEW d, NEW S,
         NEW g, g = IF v = "dir" THEN Append(Flagged(S), Opens(p, d)) ELSE Flagged(S)
  PROVE  Onward(g, frames, S, v, p, d) /\ g \in Seq(Frames) /\ Opens(p, d).path = p
  <1>1. PICK f : f = Flagged(S) OBVIOUS
  <1>2. /\ f \in Seq(Frames) /\ Len(f) = Len(frames) /\ Len(frames) \in Nat
        /\ \A n \in 1..Len(frames) :
              /\ f[n].path = frames[n].path
              /\ f[n].dirty <=> frames[n].dirty \/ (n = Len(frames) /\ "dirty" \in S)
              /\ f[n].resettle <=> frames[n].resettle \/ (n = Len(frames) /\ "resettle" \in S)
    BY <1>1, FlaggedExact
  <1>3. Opens(p, d) \in Frames /\ Opens(p, d).path = p
    <2>1. /\ Opens(p, d) = [path |-> p, resettle |-> FALSE, dirty |-> pass = 2 \/ ~IsDir(p) \/ d = "D"] BY DEF Opens
    <2>2. (pass = 2 \/ ~IsDir(p) \/ d = "D") \in BOOLEAN OBVIOUS
    <2>. QED BY <2>1, <2>2 DEF Frames
  <1>4. CASE v = "dir"
    <2>1. /\ g \in Seq(Frames) /\ Len(g) = Len(f) + 1
          /\ \A i \in 1..Len(f) : g[i] = f[i]
          /\ g[Len(f) + 1] = Opens(p, d)
      BY <1>1, <1>2, <1>3, <1>4, AppendProperties
    <2>2. PICK k \in Nat : k = Len(frames) BY <1>2
    <2>3. /\ \A n \in 1..k : n \in 1..k + 1
          /\ k + 1 \in 1..k + 1 /\ k + 1 \in Nat
          /\ \A n \in 1..k + 1 : n \in 1..k \/ n = k + 1
      BY <2>2
    <2>. QED BY <1>2, <1>3, <1>4, <2>1, <2>2, <2>3 DEF Onward
  <1>5. CASE v # "dir" BY <1>1, <1>2, <1>3, <1>5 DEF Onward
  <1>. QED BY <1>4, <1>5

LEMMA TrackedOn ==
  ASSUME Inv, AtRecord, NEW p, p = NextRecord, at' = RecKey(p) + 1, Tracked(frames, at),
         NEW g, \A c : InFrames(frames, c) => InFrames(g, c), Shut(p) => InFrames(g, p)
  PROVE  Tracked(g, at')
  <1>. SUFFICES ASSUME NEW c \in Paths, Shut(c), DirKey[c] < at', ~InFrames(g, c), NEW x \in Recorded, RecKey(x) >= at'
                PROVE  c \notin Above[x]
    BY DEF Tracked
  <1>1. c \in Recorded /\ RecKey(c) = DirKey[c] /\ c # p BY DEF Shut, DirRec, Recorded, RecKey, KeyAs
  <1>2. RecKey(c) \in Nat /\ RecKey(p) \in Nat /\ (RecKey(c) < at' <=> RecKey(c) < at \/ c = p) BY <1>1, PassedBy
  <1>3. RecKey(x) \in Nat /\ (RecKey(x) < at' <=> RecKey(x) < at \/ x = p) BY PassedBy
  <1>4. at \in Nat BY DEF Inv, Typed
  <1>5. DirKey[c] < at /\ RecKey(x) >= at BY <1>1, <1>2, <1>3, <1>4
  <1>6. ~InFrames(frames, c) OBVIOUS
  <1>. QED BY <1>5, <1>6 DEF Tracked

\* A frame is left when nothing beneath it is still to come.
LEMMA LeftBehind ==
  ASSUME Inv, phase = "apply", frames # <<>>, Leaves(Top.path), NEW x \in Recorded, RecKey(x) >= at
  PROVE  Top.path \notin Above[x]
  <1>. SUFFICES ASSUME Top.path \in Above[x] PROVE FALSE OBVIOUS
  <1>1. x \in ToApply BY DEF ToApply
  <1>2. PICK q : q = NextRecord OBVIOUS
  <1>3. /\ q \in Recorded /\ q \in Paths /\ RecKey(q) \in Nat /\ RecKey(q) >= at
        /\ \A y \in ToApply : RecKey(q) <= RecKey(y)
    BY <1>1, <1>2, NextRecordIs
  <1>4. Top.path \in Paths /\ DirKey[Top.path] < at /\ at \in Nat /\ x \in Paths
    BY TopIs DEF Inv, Typed, Recorded
  <1>5. x # Root /\ LeafKey[x] < DirKey[x] /\ LeafKey[x] \in Nat /\ DirKey[x] \in Nat /\ DirKey[Top.path] \in Nat
    BY <1>4, AboveKey, TreeAssumption
  <1>6. RecKey(x) \in {LeafKey[x], DirKey[x]} BY DEF RecKey, KeyAs
  <1>7. RecKey(q) <= DirKey[x] /\ DirKey[Top.path] < RecKey(q) BY <1>1, <1>3, <1>4, <1>5, <1>6
  <1>8. RecKey(q) = DirKey[q] \/ (q # Root /\ RecKey(q) = LeafKey[q])
    <2>1. q = Root => rec[q].kind = "dir" BY <1>3, GivenFacts DEF Inv, Typed, Recorded
    <2>. QED BY <2>1 DEF RecKey, KeyAs
  <1>9. Top.path \in Above[q] BY <1>3, <1>4, <1>7, <1>8, InBetween
  <1>10. InSubtree(Top.path, q) BY <1>9 DEF InSubtree
  <1>. QED BY <1>1, <1>2, <1>10 DEF Leaves

\* The innermost frame is that of the nearest directory, where it is open.
LEMMA TopIsNearest ==
  ASSUME Inv, AtRecord, NEW p, p = NextRecord, Firm(frames, loc, pass), NEW c, Nearest(c, p), InFrames(frames, c)
  PROVE  frames # <<>> /\ Top.path = c
  <1>1. PICK n \in 1..Len(frames) : frames[n].path = c BY DEF InFrames
  <1>2. /\ frames # <<>> /\ Top.path \in Above[p] /\ Top.path \in Paths
        /\ c \in Paths
        /\ n = Len(frames) => frames[n] = Top
        /\ n # Len(frames) => c \in Above[Top.path]
    BY <1>1, FramesAbove
  <1>3. Shut(Top.path)
    <2>1. Len(frames) \in 1..Len(frames) BY <1>2, TopIs
    <2>. QED BY <2>1 DEF Firm, Top, Shut
  <1>4. Top.path = c \/ Top.path \in Above[c] BY <1>2, <1>3 DEF Nearest
  <1>5. ~(c \in Above[Top.path] /\ Top.path \in Above[c])
    <2>1. c \notin Above[c] BY <1>2, AboveKey
    <2>. QED BY <1>2, <2>1, AboveTrans
  <1>. QED BY <1>1, <1>2, <1>4, <1>5

LEMMA ApplyFrames ==
  ASSUME Unfolded, Inv, Grounded, SpoolFits, FramesHold, DeferredHold, Apply
  PROVE  FramesHold' /\ DeferredHold'
  <1>0. Typed /\ AtRecord BY DEF Grounded, Inv, Apply
  <1>1. PICK p, d, v : p = NextRecord /\ d = Decision(RecKey(p)) /\ v = VerdictOn(p, d) OBVIOUS
  <1>2. /\ Judged(p) /\ (Writes(p, v) => ~Blocked(p)) /\ loc' = Effect(p, v, d)
        /\ frames' = IF v = "dir" THEN Append(Flagged(Flags(p, v, d)), Opens(p, d)) ELSE Flagged(Flags(p, v, d))
        /\ deferred' = IF v = "defer" THEN Append(deferred, p) ELSE deferred
        /\ NextLine(p)
    BY <1>1 DEF Apply
  <1>0a. v = "dir" /\ ~IsDir(p) => Found(p) = None BY <1>1, ApplyMakes
  <1>3. phase = "apply" /\ p \in Recorded /\ p \in Paths /\ at <= RecKey(p) BY <1>0, <1>1, AtRecordIs
  <1>4. at' = RecKey(p) + 1 /\ UNCHANGED <<rec, obj, opts, orig, phase, spool, pass, post>>
    BY <1>2 DEF NextLine, world, syncing
  <1>5. PICK S, m, g : S = Flags(p, v, d) /\ m = loc' /\ g = frames' OBVIOUS
  <1>6. g = IF v = "dir" THEN Append(Flagged(S), Opens(p, d)) ELSE Flagged(S) BY <1>2, <1>5
  <1>7. Onward(g, frames, S, v, p, d) /\ g \in Seq(Frames) /\ Opens(p, d).path = p BY <1>3, <1>6, OnwardIs
  <1>8. /\ \A n \in 1..Len(frames) :
             /\ n \in 1..Len(g) /\ g[n].path = frames[n].path
             /\ g[n].dirty <=> frames[n].dirty \/ (n = Len(frames) /\ "dirty" \in S)
             /\ g[n].resettle <=> frames[n].resettle \/ (n = Len(frames) /\ "resettle" \in S)
        /\ v = "dir" => Len(frames) + 1 \in 1..Len(g) /\ g[Len(frames) + 1] = Opens(p, d)
        /\ \A n \in 1..Len(g) : n \in 1..Len(frames) \/ (v = "dir" /\ g[n] = Opens(p, d))
    BY <1>7 DEF Onward
  <1>9. m = Effect(p, v, d) BY <1>2, <1>5
  <1>10. /\ \A q \in Paths : q # p /\ q \notin Above[p] => m[q] = loc[q]
         /\ \A q \in Above[p] : Stands(loc, q) => Stands(m, q)
         /\ v = "dir" => DirRec(p) /\ Stands(m, p) /\ (Stands(loc, p) => m = loc)
         /\ v = "defer" => LinkRec(p)
    BY <1>0, <1>0a, <1>1, <1>2, <1>3, <1>9, EffectExact
  <1>11. DirRec(p) => v = "dir"
    <2>. SUFFICES ASSUME DirRec(p) PROVE v = "dir" OBVIOUS
    <2>1. d \in {None, "D"} BY <1>0, <1>1, <1>3, DecisionSays
    <2>2. d # "K" /\ d # "G" BY <2>1, ItemAssumption
    <2>3. rec[p].kind = "dir" BY DEF DirRec
    <2>. QED BY <1>1, <2>2, <2>3 DEF VerdictOn, ApplyVerdict
  <1>12. Tracked(frames, at) /\ Firm(frames, loc, pass) BY <1>3 DEF FramesHold
  <1>13. Tracked(g, at')
    <2>1. \A c : InFrames(frames, c) => InFrames(g, c) BY <1>8 DEF InFrames
    <2>2. Shut(p) => InFrames(g, p) BY <1>7, <1>8, <1>11 DEF InFrames, Shut
    <2>. QED BY <1>0, <1>1, <1>4, <1>12, <2>1, <2>2, TrackedOn
  <1>14. Firm(g, m, pass)
    <2>. SUFFICES ASSUME NEW n \in 1..Len(g)
                  PROVE  /\ Stands(m, g[n].path) /\ Judged(g[n].path) /\ DirRec(g[n].path)
                         /\ pass = 2 => g[n].dirty
      BY DEF Firm
    <2>1. CASE n \in 1..Len(frames)
      <3>1. frames[n].path \in Above[p] BY <1>0, <1>1, <2>1, FramesAbove
      <3>. QED BY <1>8, <1>10, <1>12, <2>1, <3>1 DEF Firm
    <2>2. CASE v = "dir" /\ g[n] = Opens(p, d)
      <3>1. Opens(p, d).dirty <=> pass = 2 \/ ~IsDir(p) \/ d = "D" BY DEF Opens
      <3>. QED BY <1>2, <1>7, <1>10, <2>2, <3>1
    <2>. QED BY <1>8, <2>1, <2>2
  <1>15. FramesHold' BY <1>4, <1>5, <1>7, <1>13, <1>14, FramesAfter
  <1>16. deferred \in Seq(Paths) BY <1>0 DEF Typed
  <1>17. PICK e : e = deferred' OBVIOUS
  <1>18. e \in Seq(Paths) /\ \A n \in 1..Len(e) : (n \in 1..Len(deferred) /\ e[n] = deferred[n]) \/ (v = "defer" /\ e[n] = p)
    <2>1. /\ Append(deferred, p) \in Seq(Paths) /\ Len(Append(deferred, p)) = Len(deferred) + 1 /\ Len(deferred) \in Nat
          /\ \A n \in 1..Len(deferred) : Append(deferred, p)[n] = deferred[n]
          /\ Append(deferred, p)[Len(deferred) + 1] = p
      BY <1>3, <1>16, AppendProperties
    <2>2. PICK k \in Nat : k = Len(deferred) BY <2>1
    <2>3. \A n \in 1..k + 1 : n \in 1..k \/ n = k + 1 BY <2>2
    <2>4. CASE v = "defer" BY <1>2, <1>17, <2>1, <2>2, <2>3, <2>4
    <2>5. CASE v # "defer" BY <1>2, <1>16, <1>17, <2>5
    <2>. QED BY <2>4, <2>5
  <1>19. Hung(e, m, g, post, "apply")
    <2>. SUFFICES ASSUME NEW n \in 1..Len(e), NEW c \in Above[e[n]], Shut(c)
                  PROVE  Stands(m, c) /\ (Nearest(c, e[n]) => Awaits(c, g, post, "apply"))
      BY DEF Hung
    <2>1. CASE n \in 1..Len(deferred) /\ e[n] = deferred[n]
      <3>1. Stands(loc, c) /\ (Nearest(c, e[n]) => Awaits(c, frames, post, "apply"))
        BY <1>3, <2>1 DEF DeferredHold, Hung
      <3>2. e[n] \in Paths /\ LinkRec(e[n]) BY <1>16, <2>1, ElementOfSeq DEF Inv, LastFits
      <3>3. e[n] \in Recorded
        <4>1. e[n] \in Nondirs BY <3>2 DEF LinkRec, Nondirs, Recorded
        <4>. QED BY <4>1, LeafPath
      <3>4. c \in Paths BY <3>2, AboveTypes
      <3>5. Stands(m, c)
        <4>1. CASE c = p
          <5>1. DirRec(p)
            <6>. SUFFICES ASSUME ~DirRec(p) PROVE FALSE OBVIOUS
            <6>1. p \in Nondirs BY <1>3 DEF DirRec, Nondirs, Recorded
            <6>. QED BY <1>3, <3>3, <4>1, <6>1, NothingBeneath
          <5>. QED BY <1>10, <1>11, <4>1, <5>1
        <4>2. CASE c # p /\ c \notin Above[p] BY <1>10, <3>1, <3>4, <4>2 DEF Stands
        <4>3. CASE c \in Above[p] BY <1>10, <3>1, <4>3
        <4>. QED BY <4>1, <4>2, <4>3
      <3>6. Awaits(c, frames, post, "apply") => Awaits(c, g, post, "apply") BY <1>8 DEF Awaits
      <3>. QED BY <3>1, <3>5, <3>6
    <2>2. CASE v = "defer" /\ e[n] = p
      <3>1. c \in Above[p] /\ c \in Paths BY <1>3, <2>2, AboveTypes
      <3>2. DirKey[c] < at
        <4>. SUFFICES ASSUME ~(DirKey[c] < at) PROVE FALSE OBVIOUS
        <4>1. c \in Recorded /\ RecKey(c) = DirKey[c] /\ c # p
          BY <3>1, AboveKey DEF Shut, DirRec, Recorded, RecKey, KeyAs
        <4>2. RecKey(c) \in Nat /\ RecKey(p) \in Nat /\ (RecKey(c) < at' <=> RecKey(c) < at \/ c = p)
          BY <1>0, <1>1, <1>4, <4>1, PassedBy
        <4>3. DirKey[c] < RecKey(p)
          <5>1. DirKey[c] < LeafKey[p] /\ DirKey[c] < DirKey[p] BY <1>3, <3>1, AboveKey
          <5>2. RecKey(p) = LeafKey[p] \/ RecKey(p) = DirKey[p] BY DEF RecKey, KeyAs
          <5>. QED BY <5>1, <5>2
        <4>4. RecKey(c) < at'
          <5>1. PICK i, j \in Nat : i = RecKey(c) /\ j = RecKey(p) BY <4>2
          <5>2. i < j BY <4>1, <4>3, <5>1
          <5>. QED BY <1>4, <5>1, <5>2
        <4>. QED BY <4>1, <4>2, <4>4
      <3>3. InFrames(frames, c)
        <4>1. InFrames(frames, c) \/ \A x \in Recorded : RecKey(x) >= at => c \notin Above[x]
          BY <1>12, <3>1, <3>2 DEF Tracked
        <4>2. RecKey(p) >= at BY <1>0, <1>1, <1>3, AtRecordIs DEF Typed
        <4>. QED BY <1>3, <3>1, <4>1, <4>2
      <3>4. Stands(m, c)
        <4>1. Stands(loc, c) BY <1>12, <3>3 DEF InFrames, Firm
        <4>. QED BY <1>10, <3>1, <4>1
      <3>5. ASSUME Nearest(c, e[n]) PROVE Awaits(c, g, post, "apply")
        <4>1. frames # <<>> /\ Top.path = c BY <1>0, <1>1, <1>12, <2>2, <3>3, <3>5, TopIsNearest
        <4>2. "resettle" \in S BY <1>5, <2>2 DEF Flags
        <4>3. Len(frames) \in 1..Len(frames) /\ frames[Len(frames)].path = c BY <4>1, TopIs DEF Top
        <4>4. Len(frames) \in 1..Len(g) /\ g[Len(frames)].path = c /\ g[Len(frames)].resettle BY <1>8, <4>2, <4>3
        <4>. QED BY <4>4 DEF Awaits
      <3>. QED BY <3>4, <3>5
    <2>. QED BY <1>18, <2>1, <2>2
  <1>20. DeferredHold' BY <1>3, <1>4, <1>5, <1>17, <1>18, <1>19, HungAfter
  <1>. QED BY <1>15, <1>20

\* A recorded directory gets the verdict of one.
LEMMA ShutVerdict ==
  ASSUME Inv, Grounded, SpoolFits, phase = "apply", NEW p \in Recorded, DirRec(p), at <= RecKey(p),
         NEW d, d = Decision(RecKey(p))
  PROVE  VerdictOn(p, d) = "dir" /\ d \in {None, "D"} /\ (Spells(spool, RecKey(p), "D") <=> d = "D")
  <1>1. d \in {None, "D"} /\ (Spells(spool, RecKey(p), "D") <=> d = "D") BY DecisionSays DEF Spooled
  <1>2. d # "K" /\ d # "G" BY <1>1, ItemAssumption
  <1>3. rec[p].kind = "dir" BY DEF DirRec
  <1>. QED BY <1>1, <1>2, <1>3 DEF VerdictOn, ApplyVerdict

\* A record that the apply passes over, leaving the tree.
LEMMA PassFrames ==
  ASSUME Inv, FramesHold, DeferredHold, AtRecord, at' = RecKey(NextRecord) + 1, ~Shut(NextRecord),
         UNCHANGED <<rec, obj, opts, orig, phase, frames, loc, pass, post, deferred>>
  PROVE  FramesHold' /\ DeferredHold'
  <1>1. phase = "apply" /\ frames \in Seq(Frames) /\ deferred \in Seq(Paths) BY DEF AtRecord, Inv, Typed
  <1>2. Tracked(frames, at) /\ Firm(frames, loc, pass) /\ Hung(deferred, loc, frames, post, phase)
    BY <1>1 DEF FramesHold, DeferredHold
  <1>3. Tracked(frames, at') BY <1>2, TrackedOn
  <1>4. FramesHold' BY <1>1, <1>2, <1>3, FramesAfter
  <1>5. DeferredHold' BY <1>1, <1>2, HungAfter
  <1>. QED BY <1>4, <1>5

LEMMA PopFrames ==
  ASSUME Unfolded, Inv, FramesHold, DeferredHold, PopFrame
  PROVE  FramesHold' /\ DeferredHold'
  <1>0. /\ phase = "apply" /\ frames \in Seq(Frames) /\ deferred \in Seq(Paths) /\ Typed /\ frames # <<>>
        /\ Leaves(Top.path)
    BY DEF PopFrame, Inv, Typed
  <1>1. /\ UNCHANGED <<rec, obj, opts, orig, phase, at, pass, deferred>> /\ frames' = Front(frames)
    BY DEF PopFrame, world
  <1>2. PICK p, g, m : p = Top.path /\ g = Front(frames) /\ m = loc' OBVIOUS
  <1>3. /\ Len(frames) \in Nat \ {0} /\ p \in Paths /\ DirRec(p)
        /\ \A n \in 1..Len(frames) : n # Len(frames) => frames[n].path \in Above[p]
    BY <1>0, <1>2, TopIs
  <1>4. g \in Seq(Frames) /\ Len(g) = Len(frames) - 1 /\ \A n \in 1..Len(frames) - 1 : g[n] = frames[n]
    BY <1>0, <1>2, FrontIs
  <1>5. PICK k \in Nat \ {0} : k = Len(frames) BY <1>3
  <1>6. /\ \A n \in 1..Len(g) : n \in 1..k /\ g[n] = frames[n]
        /\ \A n \in 1..k : n \in 1..Len(g) \/ n = k
    BY <1>4, <1>5
  <1>7. \A c \in Paths : Stands(loc, c) => Stands(m, c)
    <2>1. \/ UNCHANGED loc
          \/ \E ordered \in BOOLEAN : Settle(p, ordered)
      <3>1. (opts.update /\ ~Top.dirty) \in BOOLEAN OBVIOUS
      <3>. QED BY <1>2, <3>1 DEF PopFrame
    <2>2. CASE UNCHANGED loc BY <1>2, <2>2
    <2>3. CASE \E ordered \in BOOLEAN : Settle(p, ordered)
      <3>1. PICK ordered \in BOOLEAN : Settle(p, ordered) BY <2>3
      <3>2. /\ Treelike(loc') /\ told' \in SUBSET Paths /\ bad' \in BOOLEAN
            /\ \/ loc' = loc
               \/ Stands(loc, p) /\ loc' = [loc EXCEPT ![p] = Stamped(rec[p], loc[p])]
            /\ Keeps(loc, loc', {p}) /\ Adds(loc, loc', {})
        BY <1>0, <1>3, <3>1, SettleHere
      <3>3. Treelike(loc) BY <1>0 DEF Typed
      <3>4. CASE loc' = loc BY <1>2, <3>4
      <3>5. CASE Stands(loc, p) /\ loc' = [loc EXCEPT ![p] = Stamped(rec[p], loc[p])]
        <4>1. PICK y : y = Stamped(rec[p], loc[p]) OBVIOUS
        <4>2. y.kind = "dir" /\ y # None
          <5>1. rec[p].mode \in Modes /\ rec[p].mtime \in Nat \cup {NoMtime}
            BY <1>0, <1>3, GivenFacts DEF Typed, DirRec
          <5>2. loc[p] \in Items /\ loc[p].kind = "dir" BY <1>3, <3>3, <3>5, SlotItem DEF Treelike, Stands
          <5>3. y \in Items /\ y.kind = loc[p].kind BY <4>1, <5>1, <5>2, StampedItem
          <5>. QED BY <5>2, <5>3, NoneIsNoItem
        <4>3. loc \in [Paths -> Slot] BY <3>3 DEF Treelike
        <4>4. m = [loc EXCEPT ![p] = y] BY <1>2, <3>5, <4>1
        <4>. QED BY <1>3, <4>2, <4>3, <4>4 DEF Stands
      <3>. QED BY <3>2, <3>4, <3>5
    <2>. QED BY <2>1, <2>2, <2>3
  <1>8. Tracked(frames, at) /\ Firm(frames, loc, pass) /\ Hung(deferred, loc, frames, post, phase)
    BY <1>0 DEF FramesHold, DeferredHold
  <1>9. \A n \in 1..k : frames[n].path \in Paths
    <2>. SUFFICES ASSUME NEW n \in 1..k PROVE frames[n].path \in Paths OBVIOUS
    <2>1. frames[n] \in Frames BY <1>0, <1>5, ElementOfSeq
    <2>. QED BY <2>1 DEF Frames
  <1>10. Firm(g, m, pass) BY <1>5, <1>6, <1>7, <1>8, <1>9 DEF Firm
  <1>11. frames[k].path = p BY <1>2, <1>5 DEF Top
  <1>12. Tracked(g, at)
    <2>. SUFFICES ASSUME NEW c \in Paths, Shut(c), DirKey[c] < at, ~InFrames(g, c), NEW x \in Recorded, RecKey(x) >= at
                  PROVE  c \notin Above[x]
      BY DEF Tracked
    <2>1. CASE c = p BY <1>0, <1>2, <2>1, LeftBehind
    <2>2. CASE c # p
      <3>1. ~InFrames(frames, c) BY <1>5, <1>6, <1>11, <2>2 DEF InFrames
      <3>. QED BY <1>8, <3>1 DEF Tracked
    <2>. QED BY <2>1, <2>2
  <1>13. FramesHold' BY <1>1, <1>2, <1>4, <1>10, <1>12, FramesAfter
  <1>14. post' = IF Top.resettle THEN post \cup {p} ELSE post BY <1>2 DEF PopFrame
  <1>15. Top = frames[k] BY <1>5 DEF Top
  <1>16. Hung(deferred, m, g, post', "apply")
    <2>. SUFFICES ASSUME NEW n \in 1..Len(deferred), NEW c \in Above[deferred[n]], Shut(c)
                  PROVE  Stands(m, c) /\ (Nearest(c, deferred[n]) => Awaits(c, g, post', "apply"))
      BY DEF Hung
    <2>1. c \in Paths
      <3>1. deferred[n] \in Paths BY <1>0, ElementOfSeq
      <3>. QED BY <3>1, AboveTypes
    <2>2. Stands(loc, c) /\ (Nearest(c, deferred[n]) => Awaits(c, frames, post, "apply")) BY <1>0, <1>8 DEF Hung
    <2>3. ASSUME Nearest(c, deferred[n]) PROVE Awaits(c, g, post', "apply")
      <3>1. CASE c \in post BY <1>14, <3>1 DEF Awaits
      <3>2. CASE c \notin post
        <4>1. PICK j \in 1..Len(frames) : frames[j].path = c /\ frames[j].resettle BY <2>2, <2>3, <3>2 DEF Awaits
        <4>2. CASE j = k BY <1>11, <1>14, <1>15, <4>1, <4>2 DEF Awaits
        <4>3. CASE j \in 1..Len(g) BY <1>6, <4>1, <4>3 DEF Awaits
        <4>. QED BY <1>5, <1>6, <4>2, <4>3
      <3>. QED BY <3>1, <3>2
    <2>. QED BY <1>7, <2>1, <2>2, <2>3
  <1>17. DeferredHold' BY <1>0, <1>1, <1>2, <1>16, HungAfter
  <1>. QED BY <1>13, <1>17

LEMMA PlaceFrames ==
  ASSUME Unfolded, Inv, DeferredHold, Place
  PROVE  FramesHold' /\ DeferredHold'
  <1>1. UNCHANGED <<rec, obj, opts, orig>> /\ phase = "place" /\ deferred # <<>> /\ phase' # "apply"
    BY DEF Place, Abort, Finish, world
  <1>2. FramesHold' BY <1>1 DEF FramesHold
  <1>3. PICK h : h = Head(deferred) OBVIOUS
  <1>4. \/ phase' = "done"
        \/ /\ ~Blocked(h) /\ loc' = Put(Cleared(h), h, LinkAt(rec[h])) /\ deferred' = Tail(deferred)
           /\ UNCHANGED <<phase, frames, post>>
    BY <1>3 DEF Place, Abort, Finish
  <1>5. CASE phase' = "done" BY <1>2, <1>5 DEF DeferredHold
  <1>6. CASE /\ ~Blocked(h) /\ loc' = Put(Cleared(h), h, LinkAt(rec[h])) /\ deferred' = Tail(deferred)
             /\ UNCHANGED <<phase, frames, post>>
    <2>1. deferred \in Seq(Paths) /\ Treelike(loc) BY DEF Inv, Typed
    <2>2. PICK e, m, i : e = deferred' /\ m = loc' /\ i = LinkAt(rec[h]) OBVIOUS
    <2>3. /\ h \in Paths /\ h = deferred[1] /\ Len(deferred) \in Nat \ {0} /\ e \in Seq(Paths)
          /\ \A n \in 1..Len(e) : n + 1 \in 1..Len(deferred) /\ e[n] = deferred[n + 1]
      BY <1>1, <1>3, <1>6, <2>1, <2>2, TailIs
    <2>4. \A n \in 1..Len(deferred) : LinkRec(deferred[n]) BY DEF Inv, LastFits
    <2>5. h \in Nondirs /\ h \in Paths \ {Root}
      <3>1. h \in Nondirs BY <2>3, <2>4 DEF LinkRec, Nondirs, Recorded
      <3>. QED BY <3>1, LeafPath
    <2>6. i \in Items /\ m = Put(Cleared(h), h, i)
      <3>1. /\ rec[h].kind = "link" /\ rec[h].mode \in Modes
            /\ rec[h].mtime \in Nat \cup {NoMtime} /\ rec[h].what \in Data
        BY <2>3, <2>4, <2>5, LeafPath DEF LinkRec
      <3>. QED BY <1>6, <2>2, <3>1, LinkItem
    <2>7. /\ \A q \in Paths : ~InSubtree(h, q) /\ q \notin Above[h] => m[q] = loc[q]
          /\ \A q \in Above[h] : Stands(m, q)
      BY <1>6, <2>1, <2>5, <2>6, PlacedExact
    <2>8. Hung(deferred, loc, frames, post, "place") BY <1>1 DEF DeferredHold
    <2>9. Hung(e, m, frames, post, "place")
      <3>. SUFFICES ASSUME NEW n \in 1..Len(e), NEW c \in Above[e[n]], Shut(c)
                    PROVE  Stands(m, c) /\ (Nearest(c, e[n]) => Awaits(c, frames, post, "place"))
        BY DEF Hung
      <3>1. PICK j \in 1..Len(deferred) : e[n] = deferred[j] BY <2>3
      <3>2. Stands(loc, c) /\ (Nearest(c, e[n]) => Awaits(c, frames, post, "place")) BY <2>8, <3>1 DEF Hung
      <3>3. e[n] \in Recorded /\ e[n] \in Paths
        <4>1. e[n] \in Paths BY <2>1, <3>1, ElementOfSeq
        <4>2. e[n] \in Nondirs BY <2>4, <3>1, <4>1 DEF LinkRec, Nondirs, Recorded
        <4>. QED BY <4>2, LeafPath
      <3>4. c \in Paths /\ h \notin Above[e[n]] BY <1>1, <2>5, <3>3, AboveTypes, NothingBeneath
      <3>5. ~InSubtree(h, c) BY <3>3, <3>4, AboveTrans DEF InSubtree
      <3>6. Stands(m, c)
        <4>1. CASE c \in Above[h] BY <2>7, <4>1
        <4>2. CASE c \notin Above[h] BY <2>7, <3>2, <3>4, <3>5, <4>2 DEF Stands
        <4>. QED BY <4>1, <4>2
      <3>. QED BY <3>2, <3>6
    <2>. QED BY <1>1, <1>2, <1>6, <2>2, <2>3, <2>9, HungAfter
  <1>. QED BY <1>4, <1>5, <1>6

\* What is open stands as before, where the place of a directory is cleared.
LEMMA ClearFrames ==
  ASSUME Unfolded, Inv, FramesHold, DeferredHold, ClearConflict
  PROVE  FramesHold' /\ DeferredHold'
  <1>1. PICK q \in Paths \ {Root} :
           /\ phase = "apply" /\ ~Stands(loc, q) /\ Stands(loc', Up[q])
           /\ \A x \in Paths \ {q, Up[q]} : loc'[x] = loc[x]
    BY ClearedConflict
  <1>2. UNCHANGED <<rec, obj, opts, orig, phase, at, frames, deferred, post, pass>> BY ClearSame
  <1>3. PICK m : m = loc' OBVIOUS
  <1>4. \A x \in Paths : Stands(loc, x) => Stands(m, x) BY <1>1, <1>3 DEF Stands
  <1>5. frames \in Seq(Frames) /\ deferred \in Seq(Paths) BY DEF Inv, Typed
  <1>6. Tracked(frames, at) /\ Firm(frames, loc, pass) /\ Hung(deferred, loc, frames, post, phase)
    BY <1>1 DEF FramesHold, DeferredHold
  <1>7. Firm(frames, m, pass)
    <2>1. \A j \in 1..Len(frames) : frames[j].path \in Paths
      <3>. SUFFICES ASSUME NEW j \in 1..Len(frames) PROVE frames[j].path \in Paths OBVIOUS
      <3>1. frames[j] \in Frames BY <1>5, ElementOfSeq
      <3>. QED BY <3>1 DEF Frames
    <2>. QED BY <1>4, <1>6, <2>1 DEF Firm
  <1>8. Hung(deferred, m, frames, post, phase)
    <2>1. \A n \in 1..Len(deferred) : Above[deferred[n]] \in SUBSET Paths
      <3>. SUFFICES ASSUME NEW n \in 1..Len(deferred) PROVE Above[deferred[n]] \in SUBSET Paths OBVIOUS
      <3>1. deferred[n] \in Paths BY <1>5, ElementOfSeq
      <3>. QED BY <3>1, AboveTypes
    <2>. QED BY <1>4, <1>6, <2>1 DEF Hung
  <1>9. FramesHold' BY <1>2, <1>3, <1>5, <1>6, <1>7, FramesAfter
  <1>10. DeferredHold' BY <1>2, <1>3, <1>5, <1>8, HungAfter
  <1>. QED BY <1>9, <1>10

LEMMA FramesStep ==
  ASSUME Unfolded, Inv, Grounded, SpoolFits, FramesHold, DeferredHold, [Next]_vars
  PROVE  FramesHold' /\ DeferredHold'
  <1>1. CASE phase' \notin {"apply", "place"} BY <1>1 DEF FramesHold, DeferredHold
  <1>2. frames \in Seq(Frames) /\ deferred \in Seq(Paths) BY DEF Inv, Typed
  <1>3. CASE (Synced \/ Pruned) /\ phase' \in {"apply", "place"}
    <2>1. /\ phase \in {"sync", "extras"} /\ at' = 0 /\ UNCHANGED <<rec, obj, opts, orig, frames, deferred>>
      BY <1>3 DEF Synced, Pruned, Finish, world, applying
    <2>2. frames = <<>> /\ deferred = <<>> BY <2>1 DEF Inv, FramesFit, LastFits
    <2>3. \A n : n \notin 1..Len(frames) /\ n \notin 1..Len(deferred) BY <2>2, EmptySeq
    <2>4. \A c \in Paths : ~(DirKey[c] < 0) BY KeysDiffer
    <2>5. Tracked(frames, 0) /\ Firm(frames, loc', pass') BY <2>3, <2>4 DEF Tracked, Firm
    <2>6. Hung(deferred, loc', frames, post', phase') BY <2>3 DEF Hung
    <2>7. FramesHold' BY <1>2, <2>1, <2>5, FramesAfter
    <2>8. DeferredHold' BY <1>2, <2>1, <2>6, HungAfter
    <2>. QED BY <2>7, <2>8
  <1>4. CASE Apply BY <1>4, ApplyFrames
  <1>5. CASE SkipExcluded
    <2>1. /\ AtRecord /\ at' = RecKey(NextRecord) + 1 /\ ~Shut(NextRecord)
          /\ UNCHANGED <<rec, obj, opts, orig, phase, frames, loc, pass, post, deferred>>
      BY <1>5 DEF SkipExcluded, NextLine, Shut, world
    <2>. QED BY <2>1, PassFrames
  <1>6. CASE ApplyFails /\ phase' \in {"apply", "place"}
    <2>1. AtRecord /\ phase = "apply" BY <1>6 DEF ApplyFails, AtRecord
    <2>2. /\ NextLine(NextRecord) /\ VerdictOn(NextRecord, Decision(RecKey(NextRecord))) = "stamp"
          /\ UNCHANGED <<loc, frames, deferred>>
      BY <1>6 DEF ApplyFails, Abort, Finish
    <2>3. NextRecord \in Recorded /\ at <= RecKey(NextRecord) BY <2>1, AtRecordIs
    <2>4. ~Shut(NextRecord)
      <3>. SUFFICES ASSUME DirRec(NextRecord) PROVE FALSE BY DEF Shut
      <3>1. VerdictOn(NextRecord, Decision(RecKey(NextRecord))) = "dir" BY <2>1, <2>3, ShutVerdict
      <3>. QED BY <2>2, <3>1
    <2>5. at' = RecKey(NextRecord) + 1 /\ UNCHANGED <<rec, obj, opts, orig, phase, frames, loc, pass, post, deferred>>
      BY <2>2 DEF NextLine, world
    <2>. QED BY <2>1, <2>4, <2>5, PassFrames
  <1>7. CASE PopFrame BY <1>7, PopFrames
  <1>8. CASE Streamed
    <2>1. /\ phase = "apply" /\ phase' = "place" /\ frames = <<>>
          /\ UNCHANGED <<rec, obj, opts, orig, frames, loc, post, deferred>>
      BY <1>8 DEF Streamed, world, applying
    <2>2. \A n : n \notin 1..Len(frames) BY <2>1, EmptySeq
    <2>3. Hung(deferred, loc, frames, post, "apply") BY <2>1 DEF DeferredHold
    <2>4. Hung(deferred, loc, frames, post, "place") BY <2>2, <2>3 DEF Hung, Awaits
    <2>5. FramesHold' BY <2>1 DEF FramesHold
    <2>6. DeferredHold' BY <1>2, <2>1, <2>4, HungAfter
    <2>. QED BY <2>5, <2>6
  <1>9. CASE Place BY <1>9, PlaceFrames
  <1>13. CASE ClearConflict BY <1>13, ClearFrames
  <1>10. CASE Resettle
    <2>1. phase' # "apply" /\ deferred' = <<>> BY <1>10 DEF Resettle
    <2>2. \A n : n \notin 1..Len(deferred') BY <2>1, EmptySeq
    <2>. QED BY <2>1, <2>2 DEF FramesHold, DeferredHold, Hung
  <1>11. CASE Start \/ Vet \/ Make \/ Prep \/ Decide \/ (\E p \in Paths : Land(p)) \/ Applied \/ CloseExtra \/ Prune \/ Cut \/ Again
    <2>1. phase' \notin {"apply", "place"}
      BY <1>11 DEF Start, Vet, Make, Prep, Decide, Land, Applied, Finish, CloseExtra, Prune, Judge, Cut, Again
    <2>. QED BY <1>1, <2>1
  <1>12. CASE UNCHANGED vars
    <2>1. UNCHANGED <<rec, obj, opts, orig, phase, at, frames, loc, pass, post, deferred>>
      BY <1>12 DEF vars, world, applying
    <2>2. phase = "apply" => Tracked(frames, at) /\ Firm(frames, loc, pass) BY DEF FramesHold
    <2>3. phase \in {"apply", "place"} => Hung(deferred, loc, frames, post, phase) BY DEF DeferredHold
    <2>4. FramesHold' BY <1>2, <2>1, <2>2, FramesAfter
    <2>5. DeferredHold' BY <1>2, <2>1, <2>3, HungAfter
    <2>. QED BY <2>4, <2>5
  <1>. QED BY <1>1, <1>3, <1>4, <1>5, <1>6, <1>7, <1>8, <1>9, <1>10, <1>11, <1>12, <1>13 DEF Next

(* The recorded directories.  What the pull wrote into one is an excuse, or *)
(* is spooled at the directory, or is spooled at a record still to come for *)
(* which the apply marks the directory.                                     *)
Owed(p, s, k) ==
  \E z \in Recorded : Judged(z) /\ Nearest(p, z) /\ Spells(s, RecKey(z), "D") /\ k <= RecKey(z)
Unmoved(p, i, s, k) == Excused(p) \/ i = orig[p] \/ Owed(p, s, k)
Coming(p, i, s, k) == i = None \/ i.kind # "dir" \/ Unmoved(p, i, s, k) \/ Spells(s, DirKey[p], "D")
Clean(p, i, s, f, k) == \A n \in 1..Len(f) : f[n].path = p => f[n].dirty \/ Unmoved(p, i, s, k)
Streaming(p, i, s, t, f, q, k, n) ==
  /\ n = 1 /\ opts.update => (DirKey[p] >= k => Coming(p, i, s, k)) /\ Clean(p, i, s, f, k)
  /\ DirKey[p] < k => InFrames(f, p) \/ p \in q \/ SatDir(p, i, t)
\* The innermost directory open, when the place of the next one was just cleared.
Emptied(p) ==
  /\ frames # <<>> /\ Top.path = p
  /\ \E q \in Recorded \ {Root} :
       /\ Shut(q) /\ Up[q] = p /\ loc[q] = None /\ at <= RecKey(q)
       /\ \A x \in Recorded : at <= RecKey(x) => RecKey(q) <= RecKey(x)
DirHolds(p) ==
  /\ phase = "sync" /\ opts.update => Coming(p, loc[p], spool, 0)
  /\ phase = "apply" /\ ~bad => Emptied(p) \/ Streaming(p, loc[p], spool, told, frames, post, at, pass)
  /\ phase = "place" /\ ~bad => p \in post \/ SatDir(p, loc[p], told)
  /\ phase = "extras" /\ ~bad /\ gone = {} => SatDir(p, loc[p], told)
  /\ phase = "done" /\ status = "ok" => SatDir(p, loc[p], told)
DirsHold == \A p \in Paths : Shut(p) => DirHolds(p)

LEMMA DirAfter ==
  ASSUME UNCHANGED <<rec, obj, opts, orig>>, NEW p \in Paths,
         NEW i, i = loc'[p], NEW s, s = spool', NEW t, t = told', NEW f, f = frames', NEW q, q = post',
         NEW k, k = at', NEW n, n = pass',
         phase' = "sync" /\ opts.update => Coming(p, i, s, 0),
         phase' = "apply" /\ ~bad' => Emptied(p)' \/ Streaming(p, i, s, t, f, q, k, n),
         phase' = "place" /\ ~bad' => p \in q \/ SatDir(p, i, t),
         phase' = "extras" /\ ~bad' /\ gone' = {} => SatDir(p, i, t),
         phase' = "done" /\ status' = "ok" => SatDir(p, i, t)
  PROVE  DirHolds(p)'
  <1>1. Excused(p)' <=> Excused(p) BY SameTerms
  <1>2. SatDir(p, i, t) => SatDir(p, loc[p], told)' BY <1>1 DEF SatDir, Good, KeptHere
  <1>3. ASSUME NEW j, Owed(p, s, j) PROVE \A l : l = j => \E z \in Recorded' :
           Judged(z)' /\ Nearest(p, z)' /\ Spells(s, RecKey(z)', "D") /\ l <= RecKey(z)'
    <2>1. PICK z \in Recorded : Judged(z) /\ Nearest(p, z) /\ Spells(s, RecKey(z), "D") /\ j <= RecKey(z)
      BY <1>3 DEF Owed
    <2>2. Recorded' = Recorded /\ Recorded \in SUBSET Paths BY DEF Recorded
    <2>3. RecKey(z)' = RecKey(z) /\ (Judged(z)' <=> Judged(z)) BY <2>2, SameDirs
    <2>4. \A c \in Above[z] : Shut(c)' <=> Shut(c) BY <2>2, SameDirs, AboveTypes
    <2>5. Nearest(p, z)' BY <2>1, <2>4 DEF Nearest
    <2>. QED BY <2>1, <2>2, <2>3, <2>5
  <1>4. Owed(p, s, 0) => Owed(p, spool, 0)' BY <1>3 DEF Owed, Spells
  <1>5. Owed(p, s, k) => Owed(p, spool, at)' BY <1>3 DEF Owed, Spells
  <1>6. Coming(p, i, s, 0) => Coming(p, loc[p], spool, 0)'
    BY <1>1, <1>4 DEF Coming, Unmoved, Spells
  <1>7. Unmoved(p, i, s, k) => Unmoved(p, loc[p], spool, at)' BY <1>1, <1>5 DEF Unmoved
  <1>8. Coming(p, i, s, k) => Coming(p, loc[p], spool, at)' BY <1>7 DEF Coming, Spells
  <1>9. Clean(p, i, s, f, k) => Clean(p, loc[p], spool, frames, at)' BY <1>7 DEF Clean
  <1>10. Streaming(p, i, s, t, f, q, k, n) => Streaming(p, loc[p], spool, told, frames, post, at, pass)'
    BY <1>2, <1>8, <1>9 DEF Streaming, InFrames
  <1>. QED BY <1>2, <1>6, <1>10 DEF DirHolds

LEMMA EmptiedIs ==
  ASSUME Inv, phase = "apply", NEW p \in Paths, Emptied(p), NEW q, q = NextRecord
  PROVE  /\ frames # <<>> /\ Top.path = p /\ ToApply # {}
         /\ q \in Recorded /\ q \in Paths \ {Root} /\ at <= RecKey(q) /\ RecKey(q) \in Nat
         /\ Shut(q) /\ loc[q] = None /\ Up[q] = p /\ p \in Above[q]
  <1>1. PICK x \in Recorded \ {Root} :
          /\ Shut(x) /\ Up[x] = p /\ loc[x] = None /\ at <= RecKey(x)
          /\ \A y \in Recorded : at <= RecKey(y) => RecKey(x) <= RecKey(y)
    BY DEF Emptied
  <1>2. at \in Nat /\ x \in Paths /\ RecKey(x) \in Nat
    BY KeysDiffer DEF Inv, Typed, Recorded, RecKey, KeyAs
  <1>3. x \in ToApply BY <1>1, <1>2 DEF ToApply
  <1>4. /\ q \in Recorded /\ q \in Paths /\ RecKey(q) \in Nat /\ RecKey(q) >= at
        /\ RecKey(q) <= RecKey(x)
    BY <1>3, NextRecordIs
  <1>5. RecKey(x) = RecKey(q) BY <1>1, <1>2, <1>4
  <1>6. x = q BY <1>2, <1>4, <1>5, KeysDiffer DEF RecKey, KeyAs
  <1>7. Up[q] \in Above[q] BY <1>1, <1>4, <1>6, AboveUp
  <1>. QED BY <1>1, <1>2, <1>3, <1>4, <1>6, <1>7 DEF Emptied

LEMMA EmptiedStays ==
  ASSUME UNCHANGED <<rec, obj, opts, orig, at, frames, loc>>, NEW p \in Paths, Emptied(p)
  PROVE  Emptied(p)'
  <1>1. PICK q \in Recorded \ {Root} :
          /\ Shut(q) /\ Up[q] = p /\ loc[q] = None /\ at <= RecKey(q)
          /\ \A y \in Recorded : at <= RecKey(y) => RecKey(q) <= RecKey(y)
    BY DEF Emptied
  <1>2. Recorded' = Recorded /\ Recorded \in SUBSET Paths BY DEF Recorded
  <1>3. \A x \in Paths : (Shut(x)' <=> Shut(x)) /\ RecKey(x)' = RecKey(x) BY SameDirs
  <1>4. frames' # <<>> /\ Top'.path = p BY DEF Emptied, Top
  <1>5. /\ q \in Recorded' \ {Root} /\ Shut(q)' /\ Up[q] = p /\ loc'[q] = None /\ at' <= RecKey(q)'
        /\ \A y \in Recorded' : at' <= RecKey(y)' => RecKey(q)' <= RecKey(y)'
    BY <1>1, <1>2, <1>3
  <1>. QED BY <1>4, <1>5 DEF Emptied

\* It is enough to look at the directories the manifest has.
LEMMA DirsAfter ==
  ASSUME UNCHANGED <<rec, obj, opts, orig>>, \A p \in Paths : Shut(p) => DirHolds(p)'
  PROVE  DirsHold'
  BY SameDirs DEF DirsHold

LEMMA DirPath ==
  ASSUME Inv, NEW p \in Paths, Shut(p)
  PROVE  /\ p \in Recorded /\ rec[p] # None /\ rec[p].kind = "dir" /\ RecKey(p) = DirKey[p] /\ DirKey[p] \in Nat
         /\ rec[p].mode \in Modes /\ rec[p].mtime \in Nat \cup {NoMtime}
         /\ p \notin Nondirs /\ Judged(p) /\ DirRec(p)
  <1>1. DirRec(p) /\ Judged(p) BY DEF Shut
  <1>2. rec[p].mode \in Modes /\ rec[p].mtime \in Nat \cup {NoMtime}
    BY <1>1, GivenFacts DEF Inv, Typed, DirRec
  <1>. QED BY <1>1, <1>2, TreeAssumption DEF DirRec, Recorded, Nondirs, RecKey, KeyAs

LEMMA SatDirStays ==
  ASSUME NEW p, NEW i, NEW t, SatDir(p, i, t), NEW u, t \subseteq u
  PROVE  SatDir(p, i, u)
  BY DEF SatDir

LEMMA EndDirs ==
  ASSUME phase' = "done", status' # "ok"
  PROVE  DirsHold'
  BY DEF DirsHold, DirHolds

LEMMA EarlyDirs ==
  ASSUME Unfolded, Inv, Grounded, SyncFits, Start \/ Vet \/ Make \/ Prep
  PROVE  DirsHold'
  <1>1. UNCHANGED <<rec, obj, opts, orig>> BY DEF Start, Vet, Make, Prep, world
  <1>. SUFFICES ASSUME NEW p \in Paths, Shut(p) PROVE DirHolds(p)' BY <1>1, DirsAfter
  <1>2. p \in Recorded /\ rec[p].kind = "dir" /\ Judged(p) BY DirPath
  <1>3. PICK i, s, t, f, q, k, n :
          i = loc'[p] /\ s = spool' /\ t = told' /\ f = frames' /\ q = post' /\ k = at' /\ n = pass' OBVIOUS
  <1>4. CASE Start
    <2>1. loc' = loc /\ phase' \in {"vet", "done", "extras"} BY <1>4 DEF Start
    <2>2. \/ phase' = "vet" \/ (phase' = "done" /\ status' = "failed")
          \/ MatchesLocal /\ ~opts.checksum
      BY <1>4 DEF Start
    <2>3. MatchesLocal /\ ~opts.checksum => SatDir(p, i, t)
      <3>. SUFFICES ASSUME MatchesLocal, ~opts.checksum PROVE SatDir(p, i, t) OBVIOUS
      <3>1. Matches(rec[p], loc[p]) BY <1>2, OneNameIs DEF MatchesLocal
      <3>. QED BY <1>3, <2>1, <3>1 DEF SatDir, Good
    <2>4. phase' \in {"done", "extras"} /\ (phase' = "done" => status' # "failed") => SatDir(p, i, t)
      BY <2>1, <2>2, <2>3
    <2>. QED BY <1>1, <1>3, <2>1, <2>4, DirAfter
  <1>5. CASE Vet \/ Make
    <2>1. phase' \in {"vet", "make", "prep"} \/ (phase' = "done" /\ status' = "failed") BY <1>5 DEF Vet, Make
    <2>. QED BY <1>1, <1>3, <2>1, DirAfter
  <1>6. CASE Prep
    <2>1. /\ p # Root \/ loc[Root] # None => (loc[p] = None => i = None)
          /\ p # Root \/ loc[Root] # None => (loc[p] # None => i # None /\ i.kind = loc[p].kind)
          /\ Stands(loc, p) => i = loc[p]
          /\ UNCHANGED <<rec, obj, opts, orig, at, todo, spool, told, bad>>
      BY <1>3, <1>6, PrepKeeps
    <2>2. phase = "prep" /\ phase' = "sync" BY <1>6 DEF Prep
    <2>3. EarlyTree(loc) BY <2>2 DEF SyncFits
    <2>4. opts.update => Coming(p, i, s, 0)
      <3>. SUFFICES ASSUME ~Excused(p), opts.update, i # None, i.kind = "dir" PROVE i = orig[p]
        BY DEF Coming, Unmoved
      <3>1. ~Vetted(p)
        <4>. SUFFICES ASSUME Vetted(p) PROVE FALSE OBVIOUS
        <4>1. PICK x \in Positions : InSubtree(p, x) /\ orig[x] # None /\ orig[x].kind = "link" BY DEF Vetted
        <4>2. Had(x) = orig[x] BY OneNameIs DEF Positions
        <4>. QED BY <4>1, <4>2 DEF Excused, UnseenWrite
      <3>2. loc[p] = orig[p] BY <2>3, <3>1 DEF EarlyTree
      <3>3. p = Root => orig[p] # None BY DEF Excused, UnseenWrite
      <3>4. Stands(loc, p) BY <2>1, <3>2, <3>3 DEF Stands
      <3>. QED BY <2>1, <3>2, <3>4
    <2>. QED BY <1>1, <1>3, <2>2, <2>4, DirAfter
  <1>. QED BY <1>4, <1>5, <1>6

\* More lines, and nothing less is owed.
LEMMA ComingStays ==
  ASSUME NEW p, NEW i, NEW s, NEW k, Coming(p, i, s, k), NEW u, \A key : Spells(s, key, "D") => Spells(u, key, "D")
  PROVE  Coming(p, i, u, k)
  BY DEF Coming, Unmoved, Owed

\* Of what is recorded between a directory and a path beneath it, one is next.
LEMMA NearestIs ==
  ASSUME NEW x \in Paths, NEW p \in Above[x]
  PROVE  Nearest(p, x) \/ \E z \in Above[x] : Shut(z) /\ Nearest(p, z)
  <1>1. PICK Y : Y = {y \in Above[x] : Shut(y) /\ p \in Above[y]} OBVIOUS
  <1>2. Above[x] \in SUBSET Paths BY AboveTypes
  <1>3. CASE Y = {}
    <2>1. \A c \in Above[x] : Shut(c) => c = p \/ c \in Above[p] BY <1>1, <1>3, Related
    <2>. QED BY <2>1 DEF Nearest
  <1>4. CASE Y # {}
    <2>1. Y \in SUBSET Paths BY <1>1, <1>2
    <2>2. PICK z \in Y : \A q \in Y : DirKey[z] <= DirKey[q] BY <1>4, <2>1, LeastKey, TreeAssumption
    <2>3. z \in Above[x] /\ Shut(z) /\ p \in Above[z] /\ z \in Paths BY <1>1, <2>1, <2>2
    <2>4. \A c \in Above[z] : Shut(c) => c = p \/ c \in Above[p]
      <3>. SUFFICES ASSUME NEW c \in Above[z], Shut(c), p \in Above[c] PROVE FALSE BY <2>3, Related
      <3>1. c \in Above[x] /\ c \in Paths /\ DirKey[c] < DirKey[z] BY <2>3, AboveTrans, AboveKey
      <3>2. c \in Y BY <1>1, <3>1
      <3>. QED BY <2>2, <2>3, <3>1, <3>2, KeysDiffer
    <2>. QED BY <2>3, <2>4 DEF Nearest
  <1>. QED BY <1>3, <1>4

LEMMA DecideDirs ==
  ASSUME Unfolded, Inv, Grounded, DirsHold, Decide
  PROVE  DirsHold'
  <1>0. loc \in [Paths -> Slot] /\ Treelike(loc) BY DEF Grounded, Inv, Typed, Treelike
  <1>1. /\ phase = "sync" /\ phase' = "sync" /\ UNCHANGED <<rec, obj, opts, orig>>
        /\ \E p \in Unseen :
             /\ spool' = spool \o Decided(p, DecidedFor(p)) /\ DecidedFor(p) \in Verdicts
             /\ loc' = IF Struck(p) THEN Removed(loc, p) ELSE loc
    BY <1>0, DecideExact
  <1>2. PICK q \in Unseen :
             /\ spool' = spool \o Decided(q, DecidedFor(q)) /\ DecidedFor(q) \in Verdicts
             /\ loc' = IF Struck(q) THEN Removed(loc, q) ELSE loc
    BY <1>1
  <1>3. q \in Paths \ {Root} /\ LeafKey[q] \in Nat BY KeysDiffer DEF Unseen
  <1>4. PICK v, s : v = DecidedFor(q) /\ s = spool' OBVIOUS
  <1>5. v \in Verdicts /\ s = spool \o Decided(q, v) BY <1>2, <1>4
  <1>6. Grows(q, v, s) BY <1>5, DecideGrows
  <1>7. None # "D" BY ItemAssumption
  <1>8. /\ \A key : Spells(spool, key, "D") => Spells(s, key, "D")
        /\ v.say = "D" => Spells(s, LeafKey[q], "D")
    BY <1>6, <1>7 DEF Grows
  <1>9. /\ opts.update => (v.get <=> v.say = "D")
        /\ v.get \/ v.say # None => LeafKey[q] \notin opts.excluded
    BY <1>4, SaidOf
  <1>10. Struck(q) => q \in Nondirs /\ v.get BY <1>4, StruckIs
  <1>11. /\ \A x \in Paths : x # q /\ (Struck(q) => x # Up[q]) => loc'[x] = loc[x]
         /\ ~Struck(q) => loc' = loc
    BY <1>2, DecideStands
  <1>. SUFFICES ASSUME NEW p \in Paths, Shut(p) PROVE DirHolds(p)' BY <1>1, DirsAfter
  <1>12. PICK i : i = loc'[p] OBVIOUS
  <1>13. ASSUME opts.update PROVE Coming(p, i, s, 0)
    <2>1. Coming(p, loc[p], spool, 0) BY <1>1, <1>13 DEF DirsHold, DirHolds
    <2>2. Coming(p, loc[p], s, 0) BY <1>8, <2>1, ComingStays
    <2>3. CASE i = loc[p] BY <2>2, <2>3
    <2>4. CASE i # loc[p]
      <3>1. Struck(q) /\ (p = q \/ p = Up[q]) BY <1>11, <1>12, <2>4
      <3>2. q \in Nondirs /\ v.get BY <1>10, <3>1
      <3>3. p = Up[q] BY <3>1, <3>2, DirPath
      <3>4. Nearest(p, q) BY <1>3, <3>3, AboveUp DEF Nearest
      <3>5. q \in Recorded /\ RecKey(q) = LeafKey[q] BY <3>2, LeafPath
      <3>6. Spells(s, RecKey(q), "D") /\ Judged(q) BY <1>8, <1>9, <1>13, <3>2, <3>5 DEF Judged
      <3>7. Owed(p, s, 0) BY <1>3, <3>4, <3>5, <3>6 DEF Owed
      <3>. QED BY <3>7 DEF Coming, Unmoved
    <2>. QED BY <2>3, <2>4
  <1>. QED BY <1>1, <1>4, <1>12, <1>13, DirAfter

\* A download disturbs no directory above one that stands on its way.
LEMMA LandSpares ==
  ASSUME Unfolded, Inv, NEW x \in Paths, Land(x), loc' # loc, NEW y \in Above[x], Stands(loc, y), NEW q \in Above[y]
  PROVE  loc'[q] = loc[q]
  <1>1. /\ x \in Paths \ {Root} /\ obj[x] # None /\ Treelike(loc)
    BY DEF Land, Inv, Typed
  <1>2. PICK item : item = [kind |-> "file", data |-> obj[x], mtime |-> Uploaded, mode |-> Umask] OBVIOUS
  <1>3. Disk(x) = x /\ (IsDir(x) <=> Stands(loc, x)) BY OneNameIs
  <1>4. ~Blocked(x) /\ ~Stands(loc, x) /\ loc' = Put(loc, x, item) BY <1>2, <1>3 DEF Land
  <1>5. item \in Items
    <2>1. obj[x] \in Data BY <1>1, GivenFacts DEF Inv, Typed
    <2>. QED BY <1>2, <2>1, ItemAssumption DEF Items, Kinds
  <1>6. Clear(loc, x) /\ Bare(loc, x) BY <1>1, <1>4, LeafIsBare DEF Clear, Blocked
  <1>7. PICK m : m = loc' OBVIOUS
  <1>8. m[q] = loc[q] BY <1>1, <1>4, <1>5, <1>6, <1>7, PutSpares
  <1>. QED BY <1>7, <1>8

LEMMA LandDirs ==
  ASSUME Unfolded, Inv, SpoolFits, SyncFits, DirsHold, NEW x \in Paths, Land(x)
  PROVE  DirsHold'
  <1>1. /\ x \in Paths \ {Root} /\ x \in todo /\ phase = "sync" /\ obj[x] # None
        /\ phase' = "sync" /\ UNCHANGED <<rec, obj, opts, orig, spool>>
        /\ loc' # loc => loc'[x] = [kind |-> "file", data |-> obj[x], mtime |-> Uploaded, mode |-> Umask]
        /\ loc' # loc => \A q \in Paths : q # x /\ q \notin Above[x] => loc'[q] = loc[q]
    BY LandExact
  <1>2. opts.update => Walked(loc, spool, todo, walked) BY <1>1 DEF SpoolFits, WalkFits
  <1>3. TakenOn(loc, todo, spool, at) BY <1>1 DEF SyncFits
  <1>4. /\ LeafKey[x] \notin opts.excluded
        /\ opts.update => Spells(spool, LeafKey[x], "D") /\ (LeafRec(x) = None => orig[x] = None)
        /\ opts.update => \A c \in Above[x] : Known(loc, spool, c)
    BY <1>1, <1>2, <1>3 DEF TakenOn, Walked
  <1>. SUFFICES ASSUME NEW p \in Paths, Shut(p) PROVE DirHolds(p)' BY <1>1, DirsAfter
  <1>5. PICK i, s : i = loc'[p] /\ s = spool' OBVIOUS
  <1>6. ASSUME opts.update PROVE Coming(p, i, s, 0)
    <2>1. Coming(p, loc[p], s, 0) BY <1>1, <1>5, <1>6 DEF DirsHold, DirHolds
    <2>2. CASE i = loc[p] BY <2>1, <2>2
    <2>3. CASE i # loc[p] /\ p = x
      <3>1. i.kind = "file" BY <1>1, <1>5, <2>3
      <3>. QED BY <3>1 DEF Coming
    <2>4. CASE i # loc[p] /\ p # x
      <3>1. p \in Above[x] /\ loc' # loc BY <1>1, <1>5, <2>4
      <3>2. CASE LeafRec(x) = None
        <4>1. Excused(p) BY <1>1, <1>4, <1>6, <3>1, <3>2 DEF Excused, UnseenWrite, Beneath
        <4>. QED BY <4>1 DEF Coming, Unmoved
      <3>3. CASE ~Stands(loc, p)
        <4>1. Spells(s, DirKey[p], "D") BY <1>1, <1>4, <1>5, <1>6, <3>1, <3>3 DEF Known
        <4>. QED BY <4>1 DEF Coming
      <3>4. CASE LeafRec(x) # None /\ Nearest(p, x)
        <4>1. x \in Nondirs BY <3>4 DEF LeafRec
        <4>2. x \in Recorded /\ RecKey(x) = LeafKey[x] /\ LeafKey[x] \in Nat BY <4>1, LeafPath
        <4>3. Spells(s, RecKey(x), "D") /\ Judged(x) BY <1>1, <1>4, <1>5, <1>6, <4>2 DEF Judged
        <4>4. Owed(p, s, 0) BY <3>4, <4>2, <4>3 DEF Owed
        <4>. QED BY <4>4 DEF Coming, Unmoved
      <3>5. CASE \E z \in Above[x] : Shut(z) /\ Nearest(p, z)
        <4>1. PICK z \in Above[x] : Shut(z) /\ Nearest(p, z) BY <3>5
        <4>2. z \in Paths /\ p \in Above[z] BY <4>1, AboveTypes DEF Nearest
        <4>3. ~Stands(loc, z) BY <1>5, <2>4, <3>1, <4>2, LandSpares
        <4>4. Spells(s, DirKey[z], "D") BY <1>1, <1>4, <1>5, <1>6, <4>1, <4>3 DEF Known
        <4>5. z \in Recorded /\ Judged(z) /\ RecKey(z) = DirKey[z] /\ DirKey[z] \in Nat BY <4>1, <4>2, DirPath
        <4>6. Owed(p, s, 0) BY <4>1, <4>4, <4>5 DEF Owed
        <4>. QED BY <4>6 DEF Coming, Unmoved
      <3>. QED BY <3>1, <3>2, <3>3, <3>4, <3>5, NearestIs
    <2>. QED BY <2>2, <2>3, <2>4
  <1>. QED BY <1>1, <1>5, <1>6, DirAfter

LEMMA SyncedDirs ==
  ASSUME Inv, DirsHold, Synced
  PROVE  DirsHold'
  <1>1. /\ phase = "sync" /\ at' = 0 /\ UNCHANGED <<rec, obj, opts, orig, spool, told, bad, pass, frames, post>>
        /\ IF bad THEN phase' = "done" /\ status' = "failed" ELSE phase' = "apply" /\ loc' = loc
    BY DEF Synced, Finish, world, syncing, applying
  <1>2. frames = <<>> BY <1>1 DEF Inv, FramesFit
  <1>3. \A n : n \notin 1..Len(frames) BY <1>2, EmptySeq
  <1>. SUFFICES ASSUME NEW p \in Paths, Shut(p) PROVE DirHolds(p)' BY <1>1, DirsAfter
  <1>4. PICK i, s, t, f, q, k, n :
          i = loc'[p] /\ s = spool' /\ t = told' /\ f = frames' /\ q = post' /\ k = at' /\ n = pass' OBVIOUS
  <1>5. CASE bad
    <2>1. phase' = "done" /\ status' = "failed" BY <1>1, <1>5
    <2>. QED BY <1>1, <2>1, DirAfter
  <1>6. CASE ~bad
    <2>1. phase' = "apply" /\ i = loc[p] /\ s = spool /\ k = 0 /\ f = frames BY <1>1, <1>4, <1>6
    <2>2. opts.update => Coming(p, i, s, k) BY <1>1, <2>1 DEF DirsHold, DirHolds
    <2>3. ~(DirKey[p] < k) BY <2>1, DirPath
    <2>4. Streaming(p, i, s, t, f, q, k, n) BY <1>3, <2>1, <2>2, <2>3 DEF Streaming, Clean
    <2>. QED BY <1>1, <1>4, <2>1, <2>4, DirAfter
  <1>. QED BY <1>5, <1>6

\* What is owed for a later record still is.
LEMMA OwedOn ==
  ASSUME Inv, AtRecord, NEW q, q = NextRecord, at' = RecKey(q) + 1, NEW p, NEW s, Owed(p, s, at),
         ~Judged(q) \/ ~Nearest(p, q) \/ ~Spells(s, RecKey(q), "D")
  PROVE  Owed(p, s, at')
  <1>1. PICK z \in Recorded : Judged(z) /\ Nearest(p, z) /\ Spells(s, RecKey(z), "D") /\ at <= RecKey(z)
    BY DEF Owed
  <1>2. z # q BY <1>1
  <1>3. RecKey(z) \in Nat /\ RecKey(q) \in Nat /\ (RecKey(z) < at' <=> RecKey(z) < at) BY <1>2, PassedBy
  <1>4. at \in Nat BY DEF Inv, Typed
  <1>5. at' <= RecKey(z) BY <1>1, <1>3, <1>4
  <1>. QED BY <1>1, <1>5 DEF Owed

\* ... as is what is owed to a directory that the stream has not come to, or
\* comes to now.
LEMMA OwedBeneath ==
  ASSUME Inv, AtRecord, NEW q, q = NextRecord, at' = RecKey(q) + 1,
         NEW p \in Paths, p = q \/ q \notin Beneath(p), NEW s, Owed(p, s, at)
  PROVE  Owed(p, s, at')
  <1>1. p \notin Above[q]
    <2>. SUFFICES ASSUME p \in Above[q] PROVE FALSE OBVIOUS
    <2>1. q \in Paths BY AtRecordIs
    <2>. QED BY <2>1, AboveKey DEF Beneath
  <1>2. ~Nearest(p, q) BY <1>1 DEF Nearest
  <1>. QED BY <1>2, OwedOn

\* A record that changes nothing above what is open but the innermost.
Passing(q, p, s, l, i, g) ==
  /\ \A c : InFrames(frames, c) => InFrames(g, c)
  /\ \A j \in 1..Len(g) : g[j].path = p =>
       \E n \in 1..Len(frames) : frames[n].path = p /\ (frames[n].dirty => g[j].dirty)
  /\ p \notin Above[q] => i = l
  /\ frames # <<>> /\ p \in Above[Top.path] => i = l
  /\ opts.update /\ pass = 1 /\ frames # <<>> /\ p = Top.path =>
       \/ \A j \in 1..Len(g) : g[j].path = p => g[j].dirty
       \/ i = l /\ (Judged(q) => ~Spells(s, RecKey(q), "D"))

LEMMA StreamOn ==
  ASSUME Inv, FramesHold, AtRecord, NEW q, q = NextRecord, at' = RecKey(q) + 1,
         NEW p \in Paths, Shut(p), p # q, NEW s, NEW t, NEW u, t \subseteq u,
         NEW l, Streaming(p, l, s, t, frames, post, at, pass),
         NEW g, NEW i, Passing(q, p, s, l, i, g)
  PROVE  Streaming(p, i, s, u, g, post, at', pass)
  <1>0. /\ \A c : InFrames(frames, c) => InFrames(g, c)
        /\ \A j \in 1..Len(g) : g[j].path = p =>
             \E n \in 1..Len(frames) : frames[n].path = p /\ (frames[n].dirty => g[j].dirty)
        /\ p \notin Above[q] => i = l
        /\ frames # <<>> /\ p \in Above[Top.path] => i = l
        /\ opts.update /\ pass = 1 /\ frames # <<>> /\ p = Top.path =>
             \/ \A j \in 1..Len(g) : g[j].path = p => g[j].dirty
             \/ i = l /\ (Judged(q) => ~Spells(s, RecKey(q), "D"))
    BY DEF Passing
  <1>1. /\ phase = "apply" /\ q \in Recorded /\ q \in Paths /\ RecKey(q) \in Nat /\ at <= RecKey(q)
        /\ frames \in Seq(Frames) /\ at \in Nat
    BY AtRecordIs DEF Inv, Typed
  <1>2. p \in Recorded /\ RecKey(p) = DirKey[p] /\ DirKey[p] \in Nat BY DirPath
  <1>3. DirKey[p] < at' <=> DirKey[p] < at BY <1>2, PassedBy
  <1>4. at' \in Nat BY <1>1
  <1>5. Tracked(frames, at) /\ Firm(frames, loc, pass) BY <1>1 DEF FramesHold
  <1>6. CASE ~(DirKey[p] < at)
    <2>1. p \notin Above[q]
      <3>. SUFFICES ASSUME p \in Above[q] PROVE FALSE OBVIOUS
      <3>1. DirKey[p] < RecKey(q) BY <1>1, AboveKey DEF RecKey, KeyAs
      <3>2. ~(DirKey[p] < RecKey(q) + 1) BY <1>3, <1>6
      <3>. QED BY <1>1, <1>2, <3>1, <3>2
    <2>2. i = l BY <1>0, <2>1
    <2>3. \A n \in 1..Len(frames) : frames[n].path # p BY <1>1, <1>6 DEF Inv, FramesFit
    <2>4. \A j \in 1..Len(g) : g[j].path # p BY <1>0, <2>3
    <2>5. DirKey[p] >= at BY <1>1, <1>2, <1>6
    <2>6. opts.update /\ pass = 1 => Coming(p, l, s, at) BY <2>5 DEF Streaming
    <2>7. Owed(p, s, at) => Owed(p, s, at') BY <2>1, OwedBeneath DEF Beneath
    <2>8. opts.update /\ pass = 1 => Coming(p, i, s, at') BY <2>2, <2>6, <2>7 DEF Coming, Unmoved
    <2>. QED BY <1>3, <1>6, <2>4, <2>8 DEF Streaming, Clean
  <1>7. CASE DirKey[p] < at /\ ~InFrames(frames, p)
    <2>1. p \notin Above[q] BY <1>1, <1>5, <1>7 DEF Tracked
    <2>2. i = l BY <1>0, <2>1
    <2>3. p \in post \/ SatDir(p, l, t) BY <1>7 DEF Streaming
    <2>4. p \in post \/ SatDir(p, i, u) BY <2>2, <2>3, SatDirStays
    <2>5. \A j \in 1..Len(g) : g[j].path # p BY <1>0, <1>7 DEF InFrames
    <2>6. ~(DirKey[p] >= at') BY <1>2, <1>3, <1>4, <1>7
    <2>. QED BY <2>4, <2>5, <2>6 DEF Streaming, Clean
  <1>8. CASE DirKey[p] < at /\ InFrames(frames, p)
    <2>1. PICK n \in 1..Len(frames) : frames[n].path = p BY <1>8 DEF InFrames
    <2>2. /\ frames # <<>> /\ p \in Above[q] /\ Top.path \in Above[q] /\ Top.path \in Paths
          /\ p = Top.path \/ p \in Above[Top.path]
      BY <2>1, FramesAbove
    <2>3. ASSUME opts.update, pass = 1, NEW j \in 1..Len(g), g[j].path = p, ~g[j].dirty
          PROVE  Unmoved(p, i, s, at')
      <3>1. PICK m \in 1..Len(frames) : frames[m].path = p /\ ~frames[m].dirty BY <1>0, <2>3
      <3>2. Unmoved(p, l, s, at) BY <2>3, <3>1 DEF Streaming, Clean
      <3>3. CASE p = Top.path
        <4>1. i = l /\ (Judged(q) => ~Spells(s, RecKey(q), "D")) BY <1>0, <2>2, <2>3, <3>3
        <4>2. Owed(p, s, at) => Owed(p, s, at') BY <4>1, OwedOn
        <4>. QED BY <3>2, <4>1, <4>2 DEF Unmoved
      <3>4. CASE p \in Above[Top.path]
        <4>1. i = l BY <1>0, <2>2, <3>4
        <4>2. ~Nearest(p, q)
          <5>. SUFFICES ASSUME Nearest(p, q) PROVE FALSE OBVIOUS
          <5>1. Top = frames[Len(frames)] /\ Len(frames) \in 1..Len(frames)
            <6>1. Len(frames) \in Nat /\ n \in 1..Len(frames) BY <1>1
            <6>. QED BY <6>1 DEF Top
          <5>2. Shut(Top.path) BY <1>5, <5>1 DEF Firm, Shut
          <5>3. Top.path = p \/ Top.path \in Above[p] BY <2>2, <5>2 DEF Nearest
          <5>. QED BY <2>2, <3>4, <5>3, AboveKey, AboveTrans
        <4>3. Owed(p, s, at) => Owed(p, s, at') BY <4>2, OwedOn
        <4>. QED BY <3>2, <4>1, <4>3 DEF Unmoved
      <3>. QED BY <2>2, <3>3, <3>4
    <2>4. InFrames(g, p) BY <1>0, <1>8
    <2>5. ~(DirKey[p] >= at') BY <1>2, <1>3, <1>4, <1>8
    <2>. QED BY <2>3, <2>4, <2>5 DEF Streaming, Clean
  <1>. QED BY <1>6, <1>7, <1>8

LEMMA ApplyDirs ==
  ASSUME Unfolded, Inv, Grounded, SpoolFits, FramesHold, DirsHold, Apply
  PROVE  DirsHold'
  <1>0. Typed /\ AtRecord BY DEF Grounded, Inv, Apply
  <1>1. PICK q, d, v : q = NextRecord /\ d = Decision(RecKey(q)) /\ v = VerdictOn(q, d) OBVIOUS
  <1>2. /\ Judged(q) /\ (Writes(q, v) => ~Blocked(q)) /\ loc' = Effect(q, v, d)
        /\ frames' = IF v = "dir" THEN Append(Flagged(Flags(q, v, d)), Opens(q, d)) ELSE Flagged(Flags(q, v, d))
        /\ bad' = (bad \/ v = "error")
        /\ told' = IF v \in {"conflict", "stale", "missing"} /\ pass = 1 THEN told \cup {q} ELSE told
        /\ NextLine(q)
    BY <1>1 DEF Apply
  <1>16. v = "dir" /\ ~IsDir(q) => Found(q) = None BY <1>1, ApplyMakes
  <1>3. phase = "apply" /\ q \in Recorded /\ q \in Paths /\ at <= RecKey(q) /\ RecKey(q) \in Nat
    BY <1>0, <1>1, AtRecordIs
  <1>4. at' = RecKey(q) + 1 /\ UNCHANGED <<rec, obj, opts, orig, phase, spool, pass, post>>
    BY <1>2 DEF NextLine, world, syncing
  <1>5. PICK S, m, g, s, u : S = Flags(q, v, d) /\ m = loc' /\ g = frames' /\ s = spool' /\ u = told' OBVIOUS
  <1>6. g = IF v = "dir" THEN Append(Flagged(S), Opens(q, d)) ELSE Flagged(S) BY <1>2, <1>5
  <1>7. Onward(g, frames, S, v, q, d) /\ Opens(q, d).path = q BY <1>3, <1>6, OnwardIs
  <1>8. /\ \A n \in 1..Len(frames) :
             /\ n \in 1..Len(g) /\ g[n].path = frames[n].path
             /\ g[n].dirty <=> frames[n].dirty \/ (n = Len(frames) /\ "dirty" \in S)
        /\ v = "dir" => Len(frames) + 1 \in 1..Len(g) /\ g[Len(frames) + 1] = Opens(q, d)
        /\ \A n \in 1..Len(g) : n \in 1..Len(frames) \/ (v = "dir" /\ g[n] = Opens(q, d))
    BY <1>7 DEF Onward
  <1>9. m = Effect(q, v, d) BY <1>2, <1>5
  <1>10. /\ \A x \in Paths : x # q /\ x \notin Above[q] => m[x] = loc[x]
         /\ ~Writes(q, v) => \A x \in Paths \ {q} : m[x] = loc[x]
         /\ \A x \in Above[q], y \in Above[q] : Stands(loc, y) /\ x \in Above[y] => m[x] = loc[x]
         /\ v = "dir" => DirRec(q) /\ (Stands(loc, q) => m = loc)
    BY <1>0, <1>1, <1>2, <1>3, <1>9, <1>16, EffectExact
  <1>11. Spells(s, RecKey(q), "D") <=> d = "D" BY <1>1, <1>3, <1>4, <1>5, DecisionSays DEF Spooled
  <1>12. /\ opts.update /\ d = "D" => "dirty" \in S
         /\ opts.update /\ Writes(q, v) => "dirty" \in S
    BY <1>5 DEF Flags, Writes
  <1>13. Firm(frames, loc, pass) /\ told \subseteq u BY <1>2, <1>3, <1>5 DEF FramesHold
  <1>. SUFFICES ASSUME NEW p \in Paths, Shut(p) PROVE DirHolds(p)' BY <1>4, DirsAfter
  <1>14. PICK i, k, f, n, z : i = loc'[p] /\ k = at' /\ f = frames' /\ n = pass' /\ z = post' OBVIOUS
  <1>15. ASSUME ~bad' PROVE Streaming(p, i, s, u, f, z, k, n)
    <2>1. Emptied(p) \/ Streaming(p, loc[p], s, told, frames, post, at, pass)
      BY <1>2, <1>3, <1>4, <1>5, <1>15 DEF DirsHold, DirHolds
    <2>4. CASE Emptied(p)
      <3>1. /\ frames # <<>> /\ Top.path = p /\ q \in Paths \ {Root}
            /\ Shut(q) /\ loc[q] = None /\ p \in Above[q]
        BY <1>1, <1>3, <2>4, EmptiedIs
      <3>2. v = "dir" /\ ~IsDir(q)
        <4>1. v = "dir" BY <1>0, <1>1, <1>3, <3>1, ShutVerdict DEF Shut
        <4>. QED BY <3>1, <4>1, OneNameIs DEF Stands
      <3>3. opts.update => "dirty" \in S BY <1>12, <3>2 DEF Writes
      <3>4. p # q /\ DirKey[p] < RecKey(q) BY <1>3, <3>1, AboveKey DEF RecKey, KeyAs
      <3>5. ASSUME opts.update, NEW j \in 1..Len(g), g[j].path = p PROVE g[j].dirty
        <4>1. j \in 1..Len(frames) /\ frames[j].path = Top.path BY <1>7, <1>8, <3>1, <3>4, <3>5
        <4>2. j = Len(frames) BY <1>0, <1>1, <4>1, FramesAbove
        <4>. QED BY <1>8, <3>3, <3>5, <4>1, <4>2
      <3>6. InFrames(g, p)
        <4>1. Len(frames) \in 1..Len(frames) BY <1>0, <3>1, TopIs
        <4>. QED BY <1>8, <3>1, <4>1 DEF InFrames, Top
      <3>7. ~(DirKey[p] >= at') BY <1>3, <1>4, <3>4, KeysDiffer
      <3>. QED BY <1>4, <1>5, <1>14, <3>5, <3>6, <3>7 DEF Streaming, Clean
    <2>2. CASE p = q /\ ~Emptied(p)
      <3>1. p \in Recorded /\ RecKey(p) = DirKey[p] /\ DirRec(p) /\ DirKey[p] \in Nat BY DirPath
      <3>2. v = "dir" BY <1>0, <1>1, <1>3, <2>2, <3>1, ShutVerdict
      <3>3. DirKey[p] < at' /\ ~(DirKey[p] >= at') /\ DirKey[p] >= at BY <1>3, <1>4, <2>2, <3>1
      <3>4. InFrames(g, p) BY <1>7, <1>8, <2>2, <3>2 DEF InFrames
      <3>5. ASSUME opts.update, pass = 1, NEW j \in 1..Len(g), g[j].path = p, ~g[j].dirty
            PROVE  Unmoved(p, m[p], s, at')
        <4>1. CASE j \in 1..Len(frames)
          <5>1. frames[j].path \in Above[q] BY <1>0, <1>1, <4>1, FramesAbove
          <5>2. q \in Above[q] BY <1>8, <2>2, <3>5, <4>1, <5>1
          <5>. QED BY <1>3, <5>2, AboveKey
        <4>2. CASE g[j] = Opens(q, d)
          <5>1. Opens(q, d).dirty <=> pass = 2 \/ ~IsDir(q) \/ d = "D" BY DEF Opens
          <5>2. Stands(loc, q) /\ d # "D" BY <1>3, <3>5, <4>2, <5>1, OneNameIs
          <5>3. m[p] = loc[p] BY <1>10, <3>2, <5>2
          <5>4. Coming(p, loc[p], s, at) BY <2>1, <2>2, <3>3, <3>5 DEF Streaming
          <5>5. ~Spells(s, DirKey[p], "D") BY <1>11, <2>2, <3>1, <5>2
          <5>6. Unmoved(p, loc[p], s, at) BY <2>2, <5>2, <5>4, <5>5 DEF Coming, Stands
          <5>7. Owed(p, s, at) => Owed(p, s, at') BY <1>0, <1>1, <1>4, <2>2, OwedBeneath
          <5>. QED BY <5>3, <5>6, <5>7 DEF Unmoved
        <4>. QED BY <1>8, <3>5, <4>1, <4>2
      <3>. QED BY <1>4, <1>5, <1>14, <3>3, <3>4, <3>5 DEF Streaming, Clean
    <2>3. CASE p # q /\ ~Emptied(p)
      <3>1. \A c : InFrames(frames, c) => InFrames(g, c) BY <1>8 DEF InFrames
      <3>2. \A j \in 1..Len(g) : g[j].path = p =>
              \E y \in 1..Len(frames) : frames[y].path = p /\ (frames[y].dirty => g[j].dirty)
        <4>. SUFFICES ASSUME NEW j \in 1..Len(g), g[j].path = p
                      PROVE  \E y \in 1..Len(frames) : frames[y].path = p /\ (frames[y].dirty => g[j].dirty)
          OBVIOUS
        <4>1. j \in 1..Len(frames) BY <1>7, <1>8, <2>3
        <4>2. g[j].path = frames[j].path /\ (frames[j].dirty => g[j].dirty) BY <1>8, <4>1
        <4>. QED BY <4>1, <4>2
      <3>3. p \notin Above[q] => i = loc[p] BY <1>5, <1>10, <1>14, <2>3
      <3>4. frames # <<>> => Top.path \in Above[q] /\ Top.path \in Paths /\ Len(frames) \in 1..Len(frames)
        <4>1. frames # <<>> => Top.path \in Above[q] /\ Top.path \in Paths BY <1>0, <1>1, FramesAbove
        <4>2. frames # <<>> => Len(frames) \in Nat \ {0} BY <1>0, TopIs
        <4>. QED BY <4>1, <4>2
      <3>5. frames # <<>> /\ p \in Above[Top.path] => i = loc[p]
        <4>. SUFFICES ASSUME frames # <<>>, p \in Above[Top.path] PROVE i = loc[p] OBVIOUS
        <4>1. Stands(loc, Top.path) BY <1>13, <3>4 DEF Firm, Top
        <4>2. p \in Above[q] BY <1>3, <3>4, AboveTrans
        <4>. QED BY <1>5, <1>10, <1>14, <3>4, <4>1, <4>2
      <3>6. opts.update /\ pass = 1 /\ frames # <<>> /\ p = Top.path =>
              \/ \A j \in 1..Len(g) : g[j].path = p => g[j].dirty
              \/ i = loc[p] /\ (Judged(q) => ~Spells(s, RecKey(q), "D"))
        <4>. SUFFICES ASSUME opts.update, frames # <<>>, p = Top.path
                      PROVE  \/ \A j \in 1..Len(g) : g[j].path = p => g[j].dirty
                             \/ i = loc[p] /\ ~Spells(s, RecKey(q), "D")
          OBVIOUS
        <4>1. CASE "dirty" \in S
          <5>. SUFFICES ASSUME NEW j \in 1..Len(g), g[j].path = p PROVE g[j].dirty OBVIOUS
          <5>1. j \in 1..Len(frames) /\ frames[j].path = Top.path BY <1>7, <1>8, <2>3
          <5>2. j = Len(frames) BY <1>0, <1>1, <5>1, FramesAbove
          <5>. QED BY <1>8, <4>1, <5>1, <5>2
        <4>2. CASE "dirty" \notin S
          <5>1. d # "D" /\ ~Writes(q, v) BY <1>12, <4>2
          <5>. QED BY <1>5, <1>10, <1>11, <1>14, <2>3, <5>1
        <4>. QED BY <4>1, <4>2
      <3>7. Streaming(p, i, s, u, g, post, at', pass)
        <4>1. PICK l, t : l = loc[p] /\ t = told OBVIOUS
        <4>2. Passing(q, p, s, l, i, g) BY <3>1, <3>2, <3>3, <3>5, <3>6, <4>1 DEF Passing
        <4>3. Streaming(p, l, s, t, frames, post, at, pass) /\ t \subseteq u BY <1>13, <2>1, <2>3, <4>1
        <4>. QED BY <1>0, <1>1, <1>4, <2>3, <4>2, <4>3, StreamOn
      <3>. QED BY <1>4, <1>5, <1>14, <3>7
    <2>. QED BY <2>2, <2>3, <2>4
  <1>. QED BY <1>3, <1>4, <1>5, <1>14, <1>15, DirAfter

\* The directory around the place that is cleared is open, and innermost.
LEMMA ClearDirs ==
  ASSUME Unfolded, Inv, FramesHold, DirsHold, ClearConflict
  PROVE  DirsHold'
  <1>1. PICK q \in Paths \ {Root} :
           /\ AtRecord /\ phase = "apply" /\ q = NextRecord /\ q \in Recorded /\ Shut(q)
           /\ loc[q] # None /\ loc'[q] = None
           /\ \A x \in Paths \ {q, Up[q]} : loc'[x] = loc[x]
    BY ClearedConflict
  <1>2. UNCHANGED <<rec, obj, opts, orig, phase, at, spool, frames, post, told, bad, pass>> BY ClearSame
  <1>3. /\ RecKey(q) \in Nat /\ at \in Nat /\ at <= RecKey(q) /\ RecKey(q) = DirKey[q]
        /\ \A x \in ToApply : RecKey(q) <= RecKey(x)
    <2>1. ToApply # {} /\ at \in Nat BY <1>1 DEF AtRecord, Inv, Typed
    <2>2. RecKey(q) \in Nat /\ RecKey(q) >= at /\ \A x \in ToApply : RecKey(q) <= RecKey(x)
      BY <1>1, <2>1, NextRecordIs
    <2>3. RecKey(q) = DirKey[q] BY <1>1, DirPath
    <2>. QED BY <2>1, <2>2, <2>3
  <1>. SUFFICES ASSUME NEW p \in Paths, Shut(p) PROVE DirHolds(p)' BY <1>2, DirsAfter
  <1>4. PICK i, s, t, f, z, k, n :
          i = loc'[p] /\ s = spool' /\ t = told' /\ f = frames' /\ z = post' /\ k = at' /\ n = pass' OBVIOUS
  <1>5. ASSUME ~bad' PROVE Emptied(p)' \/ Streaming(p, i, s, t, f, z, k, n)
    <2>1. ~Emptied(p) BY <1>1, EmptiedIs
    <2>2. Streaming(p, loc[p], s, t, f, z, k, n) BY <1>1, <1>2, <1>4, <1>5, <2>1 DEF DirsHold, DirHolds
    <2>3. CASE p = q
      <3>1. \A j \in 1..Len(frames) : frames[j].path # p
        <4>. SUFFICES ASSUME NEW j \in 1..Len(frames), frames[j].path = p PROVE FALSE OBVIOUS
        <4>1. frames[j].path \in Above[q] BY <1>1, FramesAbove
        <4>. QED BY <2>3, <4>1, AboveKey
      <3>2. i = None BY <1>1, <1>4, <2>3
      <3>3. ~(DirKey[p] < k) BY <1>2, <1>3, <1>4, <2>3
      <3>. QED BY <1>2, <1>4, <3>1, <3>2, <3>3 DEF Streaming, Coming, Clean
    <2>4. CASE p = Up[q]
      <3>1. p \in Above[q] /\ Nearest(p, q) BY <2>4, AboveUp DEF Nearest
      <3>2. p \in Recorded /\ RecKey(p) = DirKey[p] /\ DirKey[p] \in Nat BY DirPath
      <3>3. DirKey[p] < at
        <4>. SUFFICES ASSUME ~(DirKey[p] < at) PROVE FALSE OBVIOUS
        <4>1. p \in ToApply BY <1>3, <3>2 DEF ToApply
        <4>2. DirKey[p] < DirKey[q] BY <3>1, AboveKey
        <4>3. RecKey(q) <= RecKey(p) BY <1>3, <4>1
        <4>. QED BY <1>3, <3>2, <4>2, <4>3
      <3>4. Tracked(frames, at) /\ Firm(frames, loc, pass) BY <1>1 DEF FramesHold
      <3>5. RecKey(q) >= at BY <1>3
      <3>6. InFrames(frames, p) BY <1>1, <3>1, <3>3, <3>4, <3>5 DEF Tracked
      <3>7. frames # <<>> /\ Top.path = p BY <1>1, <3>1, <3>4, <3>6, TopIsNearest
      <3>8. frames' # <<>> /\ Top'.path = p BY <1>2, <3>7 DEF Top
      <3>9. Recorded' = Recorded /\ Recorded \in SUBSET Paths BY <1>2 DEF Recorded
      <3>10. \A x \in Paths : (Shut(x)' <=> Shut(x)) /\ RecKey(x)' = RecKey(x) BY <1>2, SameDirs
      <3>11. \A x \in Recorded : at <= RecKey(x) => RecKey(q) <= RecKey(x)
        <4>. SUFFICES ASSUME NEW x \in Recorded, at <= RecKey(x) PROVE RecKey(q) <= RecKey(x) OBVIOUS
        <4>1. RecKey(x) \in Nat BY <3>9, KeysDiffer DEF RecKey, KeyAs
        <4>2. x \in ToApply BY <1>3, <4>1 DEF ToApply
        <4>. QED BY <1>3, <4>2
      <3>12. /\ q \in Recorded' \ {Root} /\ Shut(q)' /\ Up[q] = p /\ loc'[q] = None /\ at' <= RecKey(q)'
             /\ \A x \in Recorded' : at' <= RecKey(x)' => RecKey(q)' <= RecKey(x)'
        BY <1>1, <1>2, <1>3, <2>4, <3>9, <3>10, <3>11
      <3>. QED BY <3>8, <3>12 DEF Emptied
    <2>5. CASE p # q /\ p # Up[q]
      <3>1. i = loc[p] BY <1>1, <1>4, <2>5
      <3>. QED BY <2>2, <3>1
    <2>. QED BY <2>3, <2>4, <2>5
  <1>. QED BY <1>1, <1>2, <1>4, <1>5, DirAfter

LEMMA SkipDirs ==
  ASSUME Inv, FramesHold, DirsHold, SkipExcluded
  PROVE  DirsHold'
  <1>1. /\ AtRecord /\ phase = "apply" /\ at' = RecKey(NextRecord) + 1 /\ ~Judged(NextRecord)
        /\ UNCHANGED <<rec, obj, opts, orig, phase, frames, loc, pass, post, spool, told, bad>>
    BY DEF SkipExcluded, NextLine, AtRecord, world, syncing
  <1>. SUFFICES ASSUME NEW p \in Paths, Shut(p) PROVE DirHolds(p)' BY <1>1, DirsAfter
  <1>2. PICK i, s, t, f, z, k, n :
          i = loc'[p] /\ s = spool' /\ t = told' /\ f = frames' /\ z = post' /\ k = at' /\ n = pass' OBVIOUS
  <1>3. p # NextRecord BY <1>1 DEF Shut
  <1>4. ASSUME ~bad' PROVE Streaming(p, i, s, t, f, z, k, n)
    <2>6. ~Emptied(p) BY <1>1, EmptiedIs DEF Shut
    <2>1. Streaming(p, i, s, t, frames, post, at, pass) BY <1>1, <1>2, <1>4, <2>6 DEF DirsHold, DirHolds
    <2>2. i = loc[p] BY <1>1, <1>2
    <2>3. PICK q : q = NextRecord OBVIOUS
    <2>4. Passing(q, p, s, i, i, frames) BY <1>1, <2>3 DEF Passing
    <2>5. Streaming(p, i, s, t, frames, post, at', pass) BY <1>1, <1>3, <2>1, <2>3, <2>4, StreamOn
    <2>. QED BY <1>1, <1>2, <2>5
  <1>. QED BY <1>1, <1>2, <1>4, DirAfter

\* A failure that has been reported.
LEMMA BadDirs ==
  ASSUME phase' \in {"apply", "place", "extras"}, bad'
  PROVE  DirsHold'
  BY DEF DirsHold, DirHolds

LEMMA ApplyFailsDirs ==
  ASSUME ApplyFails
  PROVE  DirsHold'
  <1>1. (phase' = "done" /\ status' = "failed") \/ (phase' = phase /\ phase = "apply" /\ bad')
    BY DEF ApplyFails, Abort, Finish, NextLine, AtRecord
  <1>. QED BY <1>1, EndDirs, BadDirs

\* A directory that has been settled is as recorded, or is kept for a reason.
LEMMA SettleSat ==
  ASSUME Unfolded, Inv, NEW p \in Paths, Shut(p), NEW ordered \in BOOLEAN, Settle(p, ordered),
         ordered => opts.update /\ pass = 1 /\ (Excused(p) \/ loc[p] = orig[p])
  PROVE  bad' \/ SatDir(p, loc'[p], told')
  <1>1. /\ rec[p].kind = "dir" /\ rec[p].mode \in Modes /\ rec[p].mtime \in Nat \cup {NoMtime} BY DirPath
  <1>2. PICK v : v = SettleVerdict(rec[p], loc[p], ordered) OBVIOUS
  <1>3. /\ loc' = IF v = "stamp" THEN [loc EXCEPT ![p] = Stamped(rec[p], loc[p])] ELSE loc
        /\ bad' = (bad \/ v = "error")
        /\ told' = IF v = "conflict" /\ pass = 1 THEN told \cup {p} ELSE told
    BY <1>2, SettleIs
  <1>4. loc \in [Paths -> Slot] BY DEF Inv, Typed, Treelike
  <1>. SUFFICES ASSUME ~bad' PROVE SatDir(p, loc'[p], told') OBVIOUS
  <1>5. v # "error" BY <1>3
  <1>6. Stands(loc, p) BY <1>2, <1>5 DEF SettleVerdict, Stands
  <1>7. \/ v = "keep" /\ Matches(rec[p], loc[p])
        \/ ordered /\ KeepsLocal(rec[p], loc[p]) /\ v \in {"keep", "conflict"}
        \/ v = "stamp"
    BY <1>2, <1>6 DEF SettleVerdict, Kept, Stands
  <1>8. CASE v = "keep" /\ Matches(rec[p], loc[p]) BY <1>1, <1>3, <1>8 DEF SatDir, Good
  <1>9. CASE ordered /\ KeepsLocal(rec[p], loc[p]) /\ v \in {"keep", "conflict"}
    <2>1. CASE v = "conflict" BY <1>3, <1>9, <2>1 DEF SatDir
    <2>2. CASE v = "keep"
      <3>1. loc' = loc BY <1>3, <2>2
      <3>2. OrderedSide(rec[p], loc[p]) # "record" BY <1>9 DEF KeepsLocal
      <3>. QED BY <1>6, <1>9, <3>1, <3>2 DEF SatDir, KeptHere, Stands
    <2>. QED BY <1>9, <2>1, <2>2
  <1>10. CASE v = "stamp"
    <2>1. loc[p] \in Items /\ loc[p].kind = "dir" BY <1>4, <1>6, SlotItem DEF Stands
    <2>2. ~WrongSize(rec[p], loc[p]) BY <1>1 DEF WrongSize
    <2>3. PICK r, i : r = rec[p] /\ i = loc[p] OBVIOUS
    <2>4. Matches(r, Stamped(r, i)) BY <1>1, <2>1, <2>2, <2>3, StampedMatches
    <2>5. loc'[p] = Stamped(r, i) BY <1>3, <1>4, <1>10, <2>3
    <2>. QED BY <1>1, <2>3, <2>4, <2>5 DEF SatDir, Good
  <1>. QED BY <1>7, <1>8, <1>9, <1>10

LEMMA SettleOthers ==
  ASSUME Unfolded, Inv, NEW x \in Paths, NEW ordered, Settle(x, ordered)
  PROVE  told \subseteq told' /\ (bad => bad') /\ \A p \in Paths \ {x} : loc'[p] = loc[p]
  <1>1. loc \in [Paths -> Slot] BY DEF Inv, Typed, Treelike
  <1>2. PICK v : v = SettleVerdict(rec[x], loc[x], ordered) OBVIOUS
  <1>. QED BY <1>1, <1>2, SettleIs

LEMMA PopDirs ==
  ASSUME Unfolded, Inv, FramesHold, DirsHold, PopFrame
  PROVE  DirsHold'
  <1>1. /\ phase = "apply" /\ frames \in Seq(Frames) /\ frames # <<>> /\ Leaves(Top.path) /\ at \in Nat
        /\ UNCHANGED <<rec, obj, opts, orig, phase, at, pass, spool>> /\ frames' = Front(frames)
    BY DEF PopFrame, world, syncing, Inv, Typed
  <1>2. PICK x, g, y, o : x = Top.path /\ g = Front(frames) /\ y = Len(frames) /\ o = (opts.update /\ ~Top.dirty) OBVIOUS
  <1>3. /\ y \in Nat \ {0} /\ x \in Paths /\ DirKey[x] < at
        /\ \A n \in 1..y : n # y => frames[n].path \in Above[x]
    BY <1>1, <1>2, TopIs
  <1>4. g \in Seq(Frames) /\ Len(g) = y - 1 /\ \A n \in 1..y - 1 : g[n] = frames[n]
    BY <1>1, <1>2, FrontIs
  <1>5. /\ \A n \in 1..Len(g) : n \in 1..y /\ n # y /\ g[n] = frames[n]
        /\ \A n \in 1..y : n \in 1..Len(g) \/ n = y
        /\ y \in 1..y /\ frames[y] = Top
    BY <1>2, <1>3, <1>4 DEF Top
  <1>6. o \in BOOLEAN BY <1>2
  <1>7. \/ Top.resettle /\ post' = post \cup {x} /\ UNCHANGED <<loc, bad, told>>
        \/ ~Top.resettle /\ Settle(x, o) /\ post' = post
    BY <1>2 DEF PopFrame
  <1>8. /\ told \subseteq told' /\ (bad => bad') /\ post \subseteq post'
        /\ \A p \in Paths \ {x} : loc'[p] = loc[p]
    BY <1>3, <1>7, SettleOthers
  <1>. SUFFICES ASSUME NEW p \in Paths, Shut(p) PROVE DirHolds(p)' BY <1>1, DirsAfter
  <1>9. PICK i, s, t, f, z, k, n :
          i = loc'[p] /\ s = spool' /\ t = told' /\ f = frames' /\ z = post' /\ k = at' /\ n = pass' OBVIOUS
  <1>10. ASSUME ~bad' PROVE Streaming(p, i, s, t, f, z, k, n)
    <2>5. ~Emptied(p)
      <3>. SUFFICES ASSUME Emptied(p) PROVE FALSE OBVIOUS
      <3>1. PICK q : q = NextRecord OBVIOUS
      <3>2. q \in Recorded /\ at <= RecKey(q) /\ RecKey(q) \in Nat /\ Top.path \in Above[q]
        BY <1>1, <3>1, EmptiedIs
      <3>3. RecKey(q) >= at BY <1>1, <3>2
      <3>. QED BY <1>1, <3>2, <3>3, LeftBehind
    <2>1. Streaming(p, loc[p], s, told, frames, post, k, n) /\ k = at /\ n = pass
      BY <1>1, <1>8, <1>9, <1>10, <2>5 DEF DirsHold, DirHolds
    <2>2. f = g BY <1>1, <1>2, <1>9
    <2>3. CASE p = x
      <3>1. \A j \in 1..Len(f) : f[j].path # p
        <4>. SUFFICES ASSUME NEW j \in 1..Len(f), f[j].path = p PROVE FALSE OBVIOUS
        <4>1. x \in Above[x] BY <1>3, <1>5, <2>2, <2>3
        <4>. QED BY <1>3, <4>1, AboveKey
      <3>2. ~(DirKey[p] >= k) BY <1>1, <1>3, <2>1, <2>3, KeysDiffer
      <3>3. p \in z \/ SatDir(p, i, t)
        <4>1. CASE Top.resettle BY <1>7, <1>9, <2>3, <4>1
        <4>2. CASE ~Top.resettle
          <5>1. Settle(p, o) BY <1>7, <2>3, <4>2
          <5>2. ASSUME o PROVE opts.update /\ pass = 1 /\ (Excused(p) \/ loc[p] = orig[p])
            <6>1. opts.update /\ ~Top.dirty BY <1>2, <5>2
            <6>2. pass = 1
              <7>1. pass = 2 => frames[y].dirty BY <1>1, <1>2, <1>5 DEF FramesHold, Firm
              <7>2. pass \in {1, 2} BY DEF Inv, Typed
              <7>. QED BY <1>5, <6>1, <7>1, <7>2
            <6>3. Clean(p, loc[p], s, frames, at) BY <2>1, <6>1, <6>2 DEF Streaming
            <6>4. Unmoved(p, loc[p], s, at) BY <1>2, <1>5, <2>3, <6>1, <6>3 DEF Clean
            <6>5. ~Owed(p, s, at)
              <7>. SUFFICES ASSUME Owed(p, s, at) PROVE FALSE OBVIOUS
              <7>1. PICK w \in Recorded : Nearest(p, w) /\ at <= RecKey(w) BY DEF Owed
              <7>2. RecKey(w) \in Nat BY KeysDiffer DEF Recorded, RecKey, KeyAs
              <7>3. RecKey(w) >= at BY <1>1, <7>1, <7>2
              <7>4. Top.path \notin Above[w] BY <1>1, <7>3, LeftBehind
              <7>. QED BY <1>2, <2>3, <7>1, <7>4 DEF Nearest
            <6>. QED BY <6>1, <6>2, <6>4, <6>5 DEF Unmoved
          <5>3. bad' \/ SatDir(p, loc'[p], told') BY <1>6, <5>1, <5>2, SettleSat
          <5>. QED BY <1>9, <1>10, <5>3
        <4>. QED BY <4>1, <4>2
      <3>. QED BY <3>1, <3>2, <3>3 DEF Streaming, Clean
    <2>4. CASE p # x
      <3>1. i = loc[p] BY <1>8, <1>9, <2>4
      <3>2. InFrames(frames, p) => InFrames(f, p)
        <4>. SUFFICES ASSUME NEW j \in 1..y, frames[j].path = p PROVE InFrames(f, p) BY <1>2 DEF InFrames
        <4>1. j # y BY <1>2, <1>5, <2>4
        <4>. QED BY <1>5, <2>2, <4>1 DEF InFrames
      <3>3. Clean(p, i, s, frames, k) => Clean(p, i, s, f, k)
        <4>. SUFFICES ASSUME Clean(p, i, s, frames, k), NEW j \in 1..Len(f), f[j].path = p
                      PROVE  f[j].dirty \/ Unmoved(p, i, s, k)
          BY DEF Clean
        <4>1. j \in 1..Len(frames) /\ f[j] = frames[j] BY <1>2, <1>5, <2>2
        <4>. QED BY <4>1 DEF Clean
      <3>4. SatDir(p, i, told) => SatDir(p, i, t) BY <1>8, <1>9, SatDirStays
      <3>5. post \subseteq z BY <1>8, <1>9
      <3>. QED BY <2>1, <3>1, <3>2, <3>3, <3>4, <3>5 DEF Streaming
    <2>. QED BY <2>3, <2>4
  <1>. QED BY <1>1, <1>9, <1>10, DirAfter

LEMMA StreamedDirs ==
  ASSUME Inv, DirsHold, Streamed
  PROVE  DirsHold'
  <1>1. /\ phase = "apply" /\ phase' = "place" /\ ToApply = {} /\ frames = <<>> /\ at \in Nat
        /\ UNCHANGED <<rec, obj, opts, orig, loc, post, told, bad>>
    BY DEF Streamed, world, applying, Inv, Typed
  <1>. SUFFICES ASSUME NEW p \in Paths, Shut(p) PROVE DirHolds(p)' BY <1>1, DirsAfter
  <1>2. p \in Recorded /\ RecKey(p) = DirKey[p] /\ DirKey[p] \in Nat BY DirPath
  <1>3. DirKey[p] < at BY <1>1, <1>2 DEF ToApply
  <1>4. ~InFrames(frames, p) BY <1>1, EmptySeq DEF InFrames
  <1>8. ~Emptied(p) BY <1>1 DEF Emptied
  <1>5. ~bad => p \in post \/ SatDir(p, loc[p], told) BY <1>1, <1>3, <1>4, <1>8 DEF DirsHold, DirHolds, Streaming
  <1>6. PICK i, t, z : i = loc'[p] /\ t = told' /\ z = post' OBVIOUS
  <1>7. ~bad' => p \in z \/ SatDir(p, i, t) BY <1>1, <1>5, <1>6
  <1>. QED BY <1>1, <1>6, <1>7, DirAfter

LEMMA PlaceDirs ==
  ASSUME Unfolded, Inv, DeferredHold, DirsHold, Place
  PROVE  DirsHold'
  <1>1. UNCHANGED <<rec, obj, opts, orig, told, bad, post>> /\ phase = "place" /\ deferred # <<>>
    BY DEF Place, Abort, Finish, world, applying
  <1>2. PICK h : h = Head(deferred) OBVIOUS
  <1>3. \/ phase' = "done" /\ status' = "failed"
        \/ ~Blocked(h) /\ loc' = Put(Cleared(h), h, LinkAt(rec[h])) /\ phase' = phase
    BY <1>2 DEF Place, Abort, Finish
  <1>4. CASE phase' = "done" /\ status' = "failed" BY <1>4, EndDirs
  <1>5. CASE ~Blocked(h) /\ loc' = Put(Cleared(h), h, LinkAt(rec[h])) /\ phase' = phase
    <2>1. deferred \in Seq(Paths) /\ Treelike(loc) BY DEF Inv, Typed
    <2>2. h \in Paths /\ h = deferred[1] /\ 1 \in 1..Len(deferred)
      <3>1. Len(deferred) \in Nat \ {0} /\ h \in Paths /\ h = deferred[1] BY <1>1, <1>2, <2>1, TailIs
      <3>. QED BY <3>1
    <2>3. LinkRec(h) BY <2>2 DEF Inv, LastFits
    <2>4. h \in Nondirs /\ h \in Paths \ {Root}
      <3>1. h \in Nondirs BY <2>2, <2>3 DEF LinkRec, Nondirs, Recorded
      <3>. QED BY <3>1, LeafPath
    <2>5. PICK m, i : m = loc' /\ i = LinkAt(rec[h]) OBVIOUS
    <2>6. i \in Items /\ m = Put(Cleared(h), h, i)
      <3>1. /\ rec[h].kind = "link" /\ rec[h].mode \in Modes
            /\ rec[h].mtime \in Nat \cup {NoMtime} /\ rec[h].what \in Data
        BY <2>3, <2>4, LeafPath DEF LinkRec
      <3>. QED BY <1>5, <2>5, <3>1, LinkItem
    <2>7. /\ \A q \in Paths : ~InSubtree(h, q) /\ q \notin Above[h] => m[q] = loc[q]
          /\ \A q \in Above[h], y \in Above[h] : Stands(loc, y) /\ q \in Above[y] => m[q] = loc[q]
      BY <1>5, <2>1, <2>4, <2>6, PlacedExact
    <2>8. \A c \in Above[h] : Shut(c) => Stands(loc, c) /\ (Nearest(c, h) => c \in post)
      <3>1. Hung(deferred, loc, frames, post, "place") BY <1>1 DEF DeferredHold
      <3>2. \A c \in Above[h] :
              Shut(c) => Stands(loc, c) /\ (Nearest(c, h) => Awaits(c, frames, post, "place"))
        BY <2>2, <3>1 DEF Hung
      <3>. QED BY <3>2 DEF Awaits
    <2>. SUFFICES ASSUME NEW p \in Paths, Shut(p) PROVE DirHolds(p)' BY <1>1, DirsAfter
    <2>10. PICK j, t, z : j = loc'[p] /\ t = told' /\ z = post' OBVIOUS
    <2>11. ~bad => p \in post \/ SatDir(p, loc[p], told) BY <1>1 DEF DirsHold, DirHolds
    <2>12. Nearest(p, h) => p \in post BY <2>8 DEF Nearest
    <2>13. ~Nearest(p, h) => j = loc[p]
      <3>. SUFFICES ASSUME ~Nearest(p, h) PROVE j = loc[p] OBVIOUS
      <3>1. p \in Recorded /\ p \notin Nondirs BY DirPath
      <3>2. ~InSubtree(h, p) BY <1>1, <2>4, <3>1, NothingBeneath DEF InSubtree
      <3>3. CASE p \in Above[h]
        <4>1. PICK z1 \in Above[h] : Shut(z1) /\ Nearest(p, z1) BY <2>4, <3>3, NearestIs
        <4>2. Stands(loc, z1) /\ p \in Above[z1] BY <2>8, <4>1 DEF Nearest
        <4>. QED BY <2>5, <2>7, <2>10, <3>3, <4>1, <4>2
      <3>4. CASE p \notin Above[h] BY <2>5, <2>7, <2>10, <3>2, <3>4
      <3>. QED BY <3>3, <3>4
    <2>14. ~bad' => p \in z \/ SatDir(p, j, t) BY <1>1, <2>10, <2>11, <2>12, <2>13
    <2>. QED BY <1>1, <1>5, <2>10, <2>14, DirAfter
  <1>. QED BY <1>3, <1>4, <1>5

LEMMA ResettleDirs ==
  ASSUME Unfolded, Inv, DirsHold, Resettle
  PROVE  DirsHold'
  <1>1. UNCHANGED <<rec, obj, opts, orig, phase>> /\ phase = "place" /\ post # {} /\ post \in SUBSET Paths
    BY DEF Resettle, world, Inv, Typed
  <1>2. PICK x : x = CHOOSE y \in post : \A q \in post : DirKey[q] <= DirKey[y] OBVIOUS
  <1>3. x \in post /\ x \in Paths BY <1>1, <1>2, GreatestKey
  <1>4. Settle(x, FALSE) /\ post' = post \ {x} BY <1>2 DEF Resettle
  <1>5. told \subseteq told' /\ (bad => bad') /\ \A p \in Paths \ {x} : loc'[p] = loc[p]
    BY <1>3, <1>4, SettleOthers
  <1>. SUFFICES ASSUME NEW p \in Paths, Shut(p) PROVE DirHolds(p)' BY <1>1, DirsAfter
  <1>6. PICK i, t, z : i = loc'[p] /\ t = told' /\ z = post' OBVIOUS
  <1>7. ASSUME ~bad' PROVE p \in z \/ SatDir(p, i, t)
    <2>1. CASE p = x
      <3>1. bad' \/ SatDir(p, loc'[p], told') BY <1>4, <2>1, SettleSat
      <3>. QED BY <1>6, <1>7, <3>1
    <2>2. CASE p # x
      <3>1. i = loc[p] BY <1>5, <1>6, <2>2
      <3>2. p \in post \/ SatDir(p, i, told) BY <1>1, <1>5, <1>7, <3>1 DEF DirsHold, DirHolds
      <3>3. SatDir(p, i, told) => SatDir(p, i, t) BY <1>5, <1>6, SatDirStays
      <3>. QED BY <1>4, <1>6, <2>2, <3>2, <3>3
    <2>. QED BY <2>1, <2>2
  <1>. QED BY <1>1, <1>6, <1>7, DirAfter

LEMMA AppliedDirs ==
  ASSUME DirsHold, Applied
  PROVE  DirsHold'
  <1>1. /\ phase = "place" /\ post = {}
        /\ UNCHANGED <<rec, obj, opts, orig, told, bad>>
        /\ \/ phase' = "done" /\ status' = "failed"
           \/ ~bad /\ phase' \in {"done", "extras"} /\ loc' = loc
    BY DEF Applied, Finish, world
  <1>2. CASE phase' = "done" /\ status' = "failed" BY <1>2, EndDirs
  <1>3. CASE ~bad /\ phase' \in {"done", "extras"} /\ loc' = loc
    <2>. SUFFICES ASSUME NEW p \in Paths, Shut(p) PROVE DirHolds(p)' BY <1>1, DirsAfter
    <2>1. SatDir(p, loc[p], told) BY <1>1, <1>3 DEF DirsHold, DirHolds
    <2>2. PICK i, t : i = loc'[p] /\ t = told' OBVIOUS
    <2>3. SatDir(p, i, t) BY <1>1, <1>3, <2>1, <2>2
    <2>4. phase' \notin {"sync", "apply", "place"} BY <1>3
    <2>. QED BY <1>1, <2>2, <2>3, <2>4, DirAfter
  <1>. QED BY <1>1, <1>2, <1>3

LEMMA ExtrasDirs ==
  ASSUME Inv, OpenLoose, DirsHold, CloseExtra \/ Prune
  PROVE  DirsHold'
  <1>1. /\ phase = "extras" /\ UNCHANGED <<rec, obj, opts, orig>>
        /\ told \subseteq told' /\ (bad => bad') /\ gone \subseteq gone'
        /\ \/ phase' = "done" /\ status' = "failed"
           \/ phase' = phase /\ loc' = loc
           \/ phase' = phase /\ gone' # {}
    BY ExtrasWrites
  <1>2. CASE phase' = "done" /\ status' = "failed" BY <1>2, EndDirs
  <1>3. CASE phase' = phase /\ loc' = loc
    <2>. SUFFICES ASSUME NEW p \in Paths, Shut(p) PROVE DirHolds(p)' BY <1>1, DirsAfter
    <2>1. ~bad /\ gone = {} => SatDir(p, loc[p], told) BY <1>1 DEF DirsHold, DirHolds
    <2>2. PICK i, t : i = loc'[p] /\ t = told' OBVIOUS
    <2>3. SatDir(p, i, told) => SatDir(p, i, t) BY <1>1, <2>2, SatDirStays
    <2>4. ~bad' /\ gone' = {} => SatDir(p, i, t) BY <1>1, <1>3, <2>1, <2>2, <2>3
    <2>. QED BY <1>1, <1>3, <2>2, <2>4, DirAfter
  <1>4. CASE phase' = phase /\ gone' # {}
    BY <1>1, <1>4 DEF DirsHold, DirHolds
  <1>. QED BY <1>1, <1>2, <1>3, <1>4

LEMMA PrunedDirs ==
  ASSUME Inv, Grounded, DirsHold, Pruned
  PROVE  DirsHold'
  <1>1. /\ phase = "extras" /\ at' = 0
        /\ UNCHANGED <<rec, obj, opts, orig, told, bad, frames>>
        /\ \/ phase' = "apply" /\ pass' = 2
           \/ gone = {} /\ phase' = "done" /\ status' = (IF bad THEN "failed" ELSE "ok") /\ loc' = GivenBack(loc)
    BY DEF Pruned, Finish, world
  <1>. SUFFICES ASSUME NEW p \in Paths, Shut(p) PROVE DirHolds(p)' BY <1>1, DirsAfter
  <1>2. PICK i, s, t, f, z, k, n :
          i = loc'[p] /\ s = spool' /\ t = told' /\ f = frames' /\ z = post' /\ k = at' /\ n = pass' OBVIOUS
  <1>3. CASE phase' = "apply" /\ pass' = 2
    <2>1. ~(DirKey[p] < k) /\ n # 1 BY <1>1, <1>2, <1>3, DirPath
    <2>2. Streaming(p, i, s, t, f, z, k, n) BY <2>1 DEF Streaming
    <2>. QED BY <1>1, <1>2, <1>3, <2>2, DirAfter
  <1>4. CASE gone = {} /\ phase' = "done" /\ status' = (IF bad THEN "failed" ELSE "ok") /\ loc' = GivenBack(loc)
    <2>1. loc' = loc BY <1>1, <1>4, GivesNothing DEF Inv, PrepFits
    <2>2. ~bad => SatDir(p, i, t) BY <1>1, <1>2, <1>4, <2>1 DEF DirsHold, DirHolds
    <2>3. status' = "ok" => SatDir(p, i, t) BY <1>4, <2>2
    <2>. QED BY <1>1, <1>2, <1>4, <2>3, DirAfter
  <1>. QED BY <1>1, <1>3, <1>4

LEMMA DirsStep ==
  ASSUME Unfolded, Inv, Grounded, OpenLoose, SpoolFits, SyncFits, FramesHold, DeferredHold, DirsHold, [Next]_vars
  PROVE  DirsHold'
  <1>1. CASE Start \/ Vet \/ Make \/ Prep BY <1>1, EarlyDirs
  <1>2. CASE Decide BY <1>2, DecideDirs
  <1>3. CASE \E p \in Paths : Land(p) BY <1>3, LandDirs
  <1>4. CASE Synced BY <1>4, SyncedDirs
  <1>5. CASE PopFrame BY <1>5, PopDirs
  <1>6. CASE Apply BY <1>6, ApplyDirs
  <1>7. CASE SkipExcluded BY <1>7, SkipDirs
  <1>18. CASE ClearConflict BY <1>18, ClearDirs
  <1>8. CASE ApplyFails BY <1>8, ApplyFailsDirs
  <1>9. CASE Streamed BY <1>9, StreamedDirs
  <1>10. CASE Place BY <1>10, PlaceDirs
  <1>11. CASE Resettle BY <1>11, ResettleDirs
  <1>12. CASE Applied BY <1>12, AppliedDirs
  <1>13. CASE CloseExtra \/ Prune BY <1>13, ExtrasDirs
  <1>14. CASE Pruned BY <1>14, PrunedDirs
  <1>15. CASE Cut BY <1>15, EndDirs DEF Cut
  <1>16. CASE Again BY <1>16 DEF Again, DirsHold, DirHolds
  <1>17. CASE UNCHANGED vars
    <2>1. UNCHANGED <<rec, obj, opts, orig, loc, phase, at, spool, frames, post, told, bad, pass, status, gone>>
      BY <1>17 DEF vars, world, syncing, applying, pruning
    <2>. SUFFICES ASSUME NEW p \in Paths, Shut(p) PROVE DirHolds(p)' BY <2>1, DirsAfter
    <2>2. DirHolds(p) BY DEF DirsHold
    <2>3. PICK i, s, t, f, z, k, n :
            i = loc[p] /\ s = spool /\ t = told /\ f = frames /\ z = post /\ k = at /\ n = pass OBVIOUS
    <2>4. i = loc'[p] /\ s = spool' /\ t = told' /\ f = frames' /\ z = post' /\ k = at' /\ n = pass' BY <2>1, <2>3
    <2>5. /\ phase' = "sync" /\ opts.update => Coming(p, i, s, 0)
          /\ phase' = "apply" /\ ~bad' => Emptied(p) \/ Streaming(p, i, s, t, f, z, k, n)
          /\ phase' = "place" /\ ~bad' => p \in z \/ SatDir(p, i, t)
          /\ phase' = "extras" /\ ~bad' /\ gone' = {} => SatDir(p, i, t)
          /\ phase' = "done" /\ status' = "ok" => SatDir(p, i, t)
      BY <2>1, <2>2, <2>3 DEF DirHolds
    <2>6. Emptied(p) => Emptied(p)' BY <2>1, EmptiedStays
    <2>. QED BY <2>1, <2>4, <2>5, <2>6, DirAfter
  <1>. QED BY <1>1, <1>2, <1>3, <1>4, <1>5, <1>6, <1>7, <1>8, <1>9, <1>10, <1>11, <1>12, <1>13, <1>14, <1>15, <1>16, <1>17, <1>18
       DEF Next

LEMMA InitDirs == Init => FramesHold /\ DeferredHold /\ DirsHold
  BY DEF Init, FramesHold, DeferredHold, DirsHold, DirHolds

-----------------------------------------------------------------------------
(* The modes of the prep.  A file still there has the mode it had or the   *)
(* recorded one, or is on the list of those to give back; and a record     *)
(* that a clean apply has passed needs the list no longer.                 *)
Remains(p, i) == orig[p] # None /\ orig[p].kind = "file" /\ i # None /\ i.kind = "file" /\ i.mtime # Uploaded
Fine(p, i) == Remains(p, i) => i.mode = orig[p].mode \/ ~ModeDiffers(rec[p], i)
ModeHolds(p) ==
  /\ Fine(p, loc[p]) \/ prep[p] # None
  /\ (phase = "place" \/ (phase = "apply" /\ RecKey(p) < at)) /\ ~bad => Fine(p, loc[p]) \/ PutOff(p, deferred)
ModesHold == (phase = "done" /\ status = "cut") \/ \A p \in Recorded : Judged(p) => ModeHolds(p)

LEMMA ModeAfter ==
  ASSUME UNCHANGED <<rec, obj, opts, orig>>, NEW p \in Paths,
         NEW i, i = loc'[p], NEW w, w = prep'[p], NEW d, d = deferred',
         Fine(p, i) \/ w # None,
         (phase' = "place" \/ (phase' = "apply" /\ RecKey(p) < at')) /\ ~bad' => Fine(p, i) \/ PutOff(p, d)
  PROVE  ModeHolds(p)'
  <1>1. Fine(p, i) => Fine(p, loc[p])' BY DEF Fine, Remains
  <1>2. PutOff(p, d) => PutOff(p, deferred)' BY DEF PutOff
  <1>3. RecKey(p)' = RecKey(p) BY SameDirs
  <1>. QED BY <1>1, <1>2, <1>3 DEF ModeHolds

LEMMA ModesAfter ==
  ASSUME UNCHANGED <<rec, obj, opts, orig>>, \A p \in Recorded : Judged(p) => ModeHolds(p)'
  PROVE  ModesHold'
  <1>1. Recorded' = Recorded /\ Recorded \in SUBSET Paths BY DEF Recorded
  <1>2. \A p \in Paths : Judged(p)' <=> Judged(p) BY SameDirs
  <1>. QED BY <1>1, <1>2 DEF ModesHold

LEMMA NoFile ==
  ASSUME NEW p, NEW i, i = None \/ i.kind # "file"
  PROVE  Fine(p, i)
  BY DEF Fine, Remains

\* A step that keeps to the place in the stream, and to the files.
LEMMA ModesStay ==
  ASSUME UNCHANGED <<rec, obj, opts, orig, prep>>, ModesHold, phase # "done", bad => bad',
         \A p \in Recorded : Judged(p) => loc'[p] = loc[p] \/ loc'[p] = None \/ loc'[p].kind # "file",
         \/ phase' \notin {"apply", "place"}
         \/ /\ phase' = phase /\ \A x : PutOff(x, deferred) => PutOff(x, deferred')
            /\ phase = "apply" => \A p \in Recorded : Judged(p) => (RecKey(p) < at' => RecKey(p) < at)
  PROVE  ModesHold'
  <1>. SUFFICES ASSUME NEW p \in Recorded, Judged(p) PROVE ModeHolds(p)' BY ModesAfter
  <1>1. ModeHolds(p) /\ p \in Paths BY DEF ModesHold, Recorded
  <1>2. PICK i, w, d : i = loc'[p] /\ w = prep'[p] /\ d = deferred' OBVIOUS
  <1>3. i = loc[p] \/ Fine(p, i) BY <1>2, NoFile
  <1>4. Fine(p, i) \/ w # None BY <1>1, <1>2, <1>3 DEF ModeHolds
  <1>5. (phase' = "place" \/ (phase' = "apply" /\ RecKey(p) < at')) /\ ~bad' => Fine(p, i) \/ PutOff(p, d)
    BY <1>1, <1>2, <1>3 DEF ModeHolds
  <1>. QED BY <1>1, <1>2, <1>4, <1>5, ModeAfter

\* Every way out but a clean apply's gives back what is on the list.
LEMMA GivenExact ==
  ASSUME Unfolded, Inv, NEW p \in Paths, NEW i, i = GivenBack(loc)[p]
  PROVE  i = IF prep[p] # None /\ loc[p] # None /\ loc[p].kind # "link"
             THEN [loc[p] EXCEPT !.mode = prep[p]] ELSE loc[p]
  <1>1. \A q \in Paths : Disk(q) = q BY OneNameIs
  <1>2. i = IF \E q \in Paths : prep[q] # None /\ Disk(q) = p /\ loc[p] # None /\ loc[p].kind # "link"
            THEN [loc[p] EXCEPT !.mode = prep[CHOOSE q \in Paths : prep[q] # None /\ Disk(q) = p]]
            ELSE loc[p]
    BY DEF GivenBack
  <1>3. CASE prep[p] # None /\ loc[p] # None /\ loc[p].kind # "link"
    <2>1. PICK x : x = CHOOSE q \in Paths : prep[q] # None /\ Disk(q) = p OBVIOUS
    <2>2. \E q \in Paths : prep[q] # None /\ Disk(q) = p BY <1>1, <1>3
    <2>3. x \in Paths /\ Disk(x) = p BY <2>1, <2>2
    <2>4. x = p BY <1>1, <2>3
    <2>5. \E q \in Paths : prep[q] # None /\ Disk(q) = p /\ loc[p] # None /\ loc[p].kind # "link" BY <1>1, <1>3
    <2>. QED BY <1>2, <1>3, <2>1, <2>4, <2>5
  <1>4. CASE ~(prep[p] # None /\ loc[p] # None /\ loc[p].kind # "link")
    <2>1. ~\E q \in Paths : prep[q] # None /\ Disk(q) = p /\ loc[p] # None /\ loc[p].kind # "link" BY <1>1, <1>4
    <2>. QED BY <1>2, <1>4, <2>1
  <1>. QED BY <1>3, <1>4

LEMMA WasMode ==
  ASSUME NEW i \in Slot, i # None, NEW w \in Modes, NEW p, orig[p] # None => w = orig[p].mode
  PROVE  Fine(p, [i EXCEPT !.mode = w])
  <1>1. i \in Items BY SlotItem
  <1>2. [i EXCEPT !.mode = w].mode = w BY <1>1 DEF Items
  <1>. QED BY <1>2 DEF Fine, Remains

LEMMA GivenModes ==
  ASSUME Unfolded, Inv, Grounded, ModesHold, phase # "done", UNCHANGED <<rec, obj, opts, orig>>,
         loc' = GivenBack(loc), phase' = "done"
  PROVE  ModesHold'
  <1>. SUFFICES ASSUME NEW p \in Recorded, Judged(p) PROVE ModeHolds(p)' BY ModesAfter
  <1>1. ModeHolds(p) /\ p \in Paths BY DEF ModesHold, Recorded
  <1>2. PICK i, w, d : i = loc'[p] /\ w = prep'[p] /\ d = deferred' OBVIOUS
  <1>3. i = IF prep[p] # None /\ loc[p] # None /\ loc[p].kind # "link"
            THEN [loc[p] EXCEPT !.mode = prep[p]] ELSE loc[p]
    BY <1>1, <1>2, GivenExact
  <1>4. Fine(p, i)
    <2>1. CASE prep[p] # None /\ loc[p] # None /\ loc[p].kind # "link"
      <3>1. prep[p] = orig[p].mode BY <1>1, <2>1 DEF Grounded, Prepped
      <3>2. loc[p] \in Slot /\ prep[p] \in Modes BY <1>1, <2>1 DEF Inv, Typed, Treelike
      <3>. QED BY <1>3, <2>1, <3>1, <3>2, WasMode
    <2>2. CASE prep[p] = None BY <1>1, <1>3, <2>2 DEF ModeHolds
    <2>3. CASE loc[p] = None \/ loc[p].kind = "link" BY <1>3, <2>3, NoFile
    <2>. QED BY <2>1, <2>2, <2>3
  <1>. QED BY <1>1, <1>2, <1>4, ModeAfter

\* Before the sync a file that stands is the one the pull met.
LEMMA EarlyFine ==
  ASSUME NEW l, EarlyTree(l), NEW p \in Paths
  PROVE  Fine(p, l[p])
  BY DEF EarlyTree, Stands, Fine, Remains

LEMMA EarlyModes ==
  ASSUME Unfolded, Inv, Grounded, SyncFits, SyncFits', ModesHold, Start \/ Vet \/ Make \/ Prep
  PROVE  ModesHold'
  <1>1. UNCHANGED <<rec, obj, opts, orig>> /\ phase' \notin {"apply", "place"}
        /\ phase \in {"start", "vet", "make", "prep"}
    BY DEF Start, Vet, Make, Prep, world
  <1>2. EarlyTree(loc) BY <1>1 DEF SyncFits
  <1>. SUFFICES ASSUME NEW p \in Recorded, Judged(p) PROVE ModeHolds(p)' BY <1>1, ModesAfter
  <1>3. p \in Paths BY DEF Recorded
  <1>4. PICK i, w, d : i = loc'[p] /\ w = prep'[p] /\ d = deferred' OBVIOUS
  <1>5. loc'[p] = loc[p] => Fine(p, i) BY <1>2, <1>3, <1>4, EarlyFine
  <1>6. Fine(p, i) \/ w # None
    <2>1. CASE Start
      <3>1. loc' = loc BY <2>1 DEF Start
      <3>. QED BY <1>5, <3>1
    <2>2. CASE (Vet \/ Make) /\ phase' \in {"vet", "make"}
      <3>1. EarlyTree(loc)' BY <2>2 DEF SyncFits
      <3>2. loc'[p] = orig[p] \/ loc'[p] = None \/ Stands(loc', p)
        BY <1>1, <1>3, <3>1 DEF EarlyTree, Stands
      <3>. QED BY <1>4, <3>2 DEF Fine, Remains, Stands
    <2>3. CASE (Vet \/ Make) /\ phase' \notin {"vet", "make"}
      <3>1. loc' = loc BY <2>3 DEF Vet, Make
      <3>. QED BY <1>5, <3>1
    <2>4. CASE Prep /\ (p # Root \/ loc[Root] # None)
      <3>1. Was(i, w) = loc[p] BY <1>3, <1>4, <2>4, PrepKeeps
      <3>2. w = None => i = loc[p] BY <3>1 DEF Was
      <3>. QED BY <1>4, <1>5, <3>2
    <2>5. CASE Prep /\ p = Root /\ loc[Root] = None
      <3>1. phase = "prep" BY <2>5 DEF Prep
      <3>2. Refilled(loc, phase, at) BY <3>1 DEF SyncFits
      <3>3. orig[Root] = None BY <2>5, <3>1, <3>2, TreeAssumption DEF Refilled
      <3>. QED BY <2>5, <3>3 DEF Fine, Remains
    <2>. QED BY <2>1, <2>2, <2>3, <2>4, <2>5
  <1>. QED BY <1>1, <1>3, <1>4, <1>6, ModeAfter

LEMMA SyncModes ==
  ASSUME Unfolded, Inv, Grounded, ModesHold, Decide \/ (\E x \in Paths : Land(x))
  PROVE  ModesHold'
  <1>1. CASE Decide
    <2>1. /\ phase = "sync" /\ phase' = "sync" /\ UNCHANGED <<rec, obj, opts, orig, prep, bad>>
          /\ \E q \in Unseen : loc' = IF Struck(q) THEN Removed(loc, q) ELSE loc
      BY <1>1, DecideExact
    <2>2. PICK q \in Unseen : loc' = IF Struck(q) THEN Removed(loc, q) ELSE loc BY <2>1
    <2>3. /\ \A c \in Paths : Stands(loc, c) => Stands(loc', c)
          /\ \A x \in Paths : x # q /\ (Struck(q) => x # Up[q]) => loc'[x] = loc[x]
          /\ ~Struck(q) => loc' = loc
      BY <2>2, DecideStands
    <2>4. Typed /\ Treelike(loc) BY DEF Inv, Typed
    <2>5. q \in Paths \ {Root} BY DEF Unseen
    <2>6. Struck(q) => loc'[q] = None /\ Stands(loc', Up[q])
      <3>. SUFFICES ASSUME Struck(q) PROVE loc'[q] = None /\ Stands(loc', Up[q]) OBVIOUS
      <3>1. loc[q] # None BY DEF Struck
      <3>2. Stands(loc, Up[q]) /\ Up[q] \in Paths BY <2>4, <2>5, <3>1, TreeAssumption DEF Treelike, Stands
      <3>3. loc'[q] = None BY <2>2, <2>4, <2>5, <3>1, RemovedExact DEF InSubtree
      <3>. QED BY <2>3, <3>2, <3>3
    <2>7. ASSUME NEW p \in Recorded PROVE loc'[p] = loc[p] \/ loc'[p] = None \/ loc'[p].kind # "file"
      <3>1. p \in Paths BY DEF Recorded
      <3>2. CASE Struck(q) /\ p = Up[q] BY <2>6, <3>2 DEF Stands
      <3>3. CASE Struck(q) /\ p = q BY <2>6, <3>3
      <3>4. CASE ~(Struck(q) /\ p \in {q, Up[q]}) BY <2>3, <3>1, <3>4
      <3>. QED BY <3>2, <3>3, <3>4
    <2>. QED BY <2>1, <2>7, ModesStay
  <1>2. CASE \E x \in Paths : Land(x)
    <2>1. PICK x \in Paths : Land(x) BY <1>2
    <2>2. /\ phase = "sync" /\ phase' = "sync" /\ UNCHANGED <<rec, obj, opts, orig, prep>>
          /\ \/ bad' = TRUE /\ loc' = loc
             \/ /\ bad' = bad
                /\ loc'[x] = [kind |-> "file", data |-> obj[x], mtime |-> Uploaded, mode |-> Umask]
                /\ \A q \in Paths : q # x /\ q \notin Above[x] => loc'[q] = loc[q]
                /\ \A q \in Above[x] : Stands(loc', q)
      BY <2>1, LandExact
    <2>. SUFFICES ASSUME NEW p \in Recorded, Judged(p) PROVE ModeHolds(p)' BY <2>2, ModesAfter
    <2>3. ModeHolds(p) /\ p \in Paths BY <2>2 DEF ModesHold, Recorded
    <2>4. PICK i, w, d : i = loc'[p] /\ w = prep'[p] /\ d = deferred' OBVIOUS
    <2>5. Fine(p, i) \/ w # None
      <3>1. CASE loc'[p] = loc[p] BY <2>2, <2>3, <2>4, <3>1 DEF ModeHolds
      <3>2. CASE Stands(loc', p) BY <2>4, <3>2 DEF Stands, Fine, Remains
      <3>3. CASE loc'[p] = [kind |-> "file", data |-> obj[x], mtime |-> Uploaded, mode |-> Umask]
        <4>1. i.mtime = Uploaded BY <2>4, <3>3
        <4>. QED BY <4>1 DEF Fine, Remains
      <3>. QED BY <2>2, <2>3, <3>1, <3>2, <3>3
    <2>. QED BY <2>2, <2>3, <2>4, <2>5, ModeAfter
  <1>. QED BY <1>1, <1>2

LEMMA SyncedModes ==
  ASSUME Unfolded, Inv, Grounded, ModesHold, Synced
  PROVE  ModesHold'
  <1>1. /\ phase = "sync" /\ at' = 0 /\ UNCHANGED <<rec, obj, opts, orig, bad, deferred>>
        /\ \/ phase' = "done" /\ loc' = GivenBack(loc)
           \/ phase' = "apply" /\ UNCHANGED <<loc, prep>>
    BY DEF Synced, Finish, world, applying
  <1>2. CASE phase' = "done" /\ loc' = GivenBack(loc) BY <1>1, <1>2, GivenModes
  <1>3. CASE phase' = "apply" /\ UNCHANGED <<loc, prep>>
    <2>. SUFFICES ASSUME NEW p \in Recorded, Judged(p) PROVE ModeHolds(p)' BY <1>1, ModesAfter
    <2>1. ModeHolds(p) /\ p \in Paths BY <1>1 DEF ModesHold, Recorded
    <2>2. ~(RecKey(p) < at')
      <3>1. RecKey(p) \in Nat BY <2>1, KeysDiffer DEF RecKey, KeyAs
      <3>. QED BY <1>1, <3>1
    <2>3. PICK i, w, d : i = loc'[p] /\ w = prep'[p] /\ d = deferred' OBVIOUS
    <2>4. Fine(p, i) \/ w # None BY <1>3, <2>1, <2>3 DEF ModeHolds
    <2>. QED BY <1>1, <1>3, <2>1, <2>2, <2>3, <2>4, ModeAfter
  <1>. QED BY <1>1, <1>2, <1>3

\* When the apply leaves a file's mode alone, it is as recorded, or -u has the
\* prep's mode given back.
LEMMA ModeVerdict ==
  ASSUME NEW r, NEW i, NEW d, NEW u \in BOOLEAN, NEW w, NEW v, v = ApplyVerdict(r, i, d, u, w)
  PROVE  /\ v = "keep" /\ ~(u /\ d # "D") => Matches(r, i)
         /\ v = "conflict" => u /\ d # "D"
         /\ v = "missing" => i = None
         /\ v \in {"keep", "conflict", "stale", "missing", "stamp", "place", "defer", "dir", "error"}
  <1>1. None # "D" BY ItemAssumption
  <1>2. CASE u /\ d = "K" BY <1>2 DEF ApplyVerdict
  <1>3. CASE ~(u /\ d = "K") /\ d = "G" BY <1>3 DEF ApplyVerdict
  <1>4. CASE ~(u /\ d = "K") /\ d # "G" /\ r.kind = "link"
    <2>1. v = ApplyLink(r, i, u /\ d = None, w) BY <1>4 DEF ApplyVerdict
    <2>. QED BY <1>1, <2>1 DEF ApplyLink, Kept
  <1>5. CASE ~(u /\ d = "K") /\ d # "G" /\ r.kind = "dir" BY <1>5 DEF ApplyVerdict
  <1>6. CASE ~(u /\ d = "K") /\ d # "G" /\ r.kind \notin {"link", "dir"}
    <2>1. v = ApplyOther(r, i, d, u) BY <1>6 DEF ApplyVerdict
    <2>2. Repair(r, i) \in {"missing", "error", "stamp"} /\ (Repair(r, i) = "missing" => i = None) BY DEF Repair
    <2>3. /\ Ordered(r, i) \in {"keep", "conflict", "missing", "error", "stamp"}
          /\ Ordered(r, i) = "missing" => i = None
      BY <2>2 DEF Ordered, Kept
    <2>. QED BY <1>1, <2>1, <2>2, <2>3 DEF ApplyOther
  <1>. QED BY <1>2, <1>3, <1>4, <1>5, <1>6

LEMMA OwnMode ==
  ASSUME Unfolded, Inv, Grounded, NEW p \in Recorded, Fine(p, loc[p]) \/ prep[p] # None,
         NEW d, NEW v, v = VerdictOn(p, d), Writes(p, v) => ~Blocked(p), v = "dir" /\ ~IsDir(p) => Found(p) = None,
         NEW j, j = Effect(p, v, d)[p]
  PROVE  /\ Fine(p, j) \/ prep[p] # None
         /\ v \in {"error", "defer"} \/ Fine(p, j)
  <1>1. /\ p \in Paths /\ Found(p) = loc[p] /\ Unprepped(p) = Was(loc[p], prep[p]) /\ opts.update \in BOOLEAN
        /\ loc[p] \in Slot /\ prep[p] \in Modes \cup {None}
    BY OneNameIs, UnpreppedWas, GivenFacts DEF Recorded, Inv, Typed, Treelike
  <1>2. PICK x, y : /\ x = (IF opts.update /\ d # "D" THEN Was(loc[p], prep[p]) ELSE loc[p])
                    /\ y = Dangling(rec[p])
    OBVIOUS
  <1>3. v = ApplyVerdict(rec[p], x, d, opts.update, y) BY <1>1, <1>2 DEF VerdictOn
  <1>4. /\ v = "keep" /\ ~(opts.update /\ d # "D") => Matches(rec[p], x)
        /\ v = "conflict" => opts.update /\ d # "D"
        /\ v = "missing" => x = None
        /\ v \in {"keep", "conflict", "stale", "missing", "stamp", "place", "defer", "dir", "error"}
    BY <1>1, <1>3, ModeVerdict
  <1>5. /\ v = "stamp" => loc[p] # None /\ loc[p].kind = rec[p].kind /\ j = Stamped(rec[p], loc[p])
        /\ v = "place" => LinkRec(p) /\ j = LinkAt(rec[p])
        /\ v = "dir" => j # None /\ j.kind = "dir"
        /\ v \notin {"stamp", "place", "dir"} =>
             j = IF v = "stale" \/ (v \in {"keep", "conflict"} /\ opts.update /\ d # "D")
                 THEN Was(loc[p], prep[p]) ELSE loc[p]
    BY EffectExact DEF Stands
  <1>6. Fine(p, Was(loc[p], prep[p]))
    <2>1. CASE loc[p] = None \/ prep[p] = None BY <2>1, NoFile DEF Was
    <2>2. CASE loc[p] # None /\ prep[p] # None
      <3>1. prep[p] = orig[p].mode BY <1>1, <2>2 DEF Grounded, Prepped
      <3>2. Was(loc[p], prep[p]) = [loc[p] EXCEPT !.mode = prep[p]] BY <2>2 DEF Was
      <3>. QED BY <1>1, <2>2, <3>1, <3>2, WasMode
    <2>. QED BY <2>1, <2>2
  <1>7. CASE v = "stamp"
    <2>1. rec[p].mode \in Modes /\ rec[p].mtime \in Nat \cup {NoMtime} BY <1>1, GivenFacts DEF Inv, Typed, Recorded
    <2>2. j.mode = rec[p].mode BY <1>1, <1>5, <1>7, <2>1, SlotItem, StampedItem
    <2>. QED BY <2>2 DEF Fine, ModeDiffers
  <1>8. CASE v = "place"
    <2>1. j.kind = "link" BY <1>5, <1>8 DEF LinkAt
    <2>. QED BY <2>1, NoFile
  <1>9. CASE v = "dir" BY <1>5, <1>9, NoFile
  <1>10. CASE v = "stale" \/ (v \in {"keep", "conflict"} /\ opts.update /\ d # "D")
    <2>1. j = Was(loc[p], prep[p]) BY <1>5, <1>10
    <2>. QED BY <1>6, <2>1
  <1>11. CASE v = "keep" /\ ~(opts.update /\ d # "D")
    <2>1. j = loc[p] /\ Matches(rec[p], j) BY <1>2, <1>4, <1>5, <1>11
    <2>2. j.kind = "file" => ~ModeDiffers(rec[p], j) BY <2>1 DEF Matches, StatusShows
    <2>. QED BY <2>2 DEF Fine, Remains
  <1>12. CASE v = "missing"
    <2>1. loc[p] = None BY <1>1, <1>2, <1>4, <1>12, WasIs
    <2>2. j = None BY <1>5, <1>12, <2>1
    <2>. QED BY <2>2, NoFile
  <1>13. CASE v \in {"error", "defer"}
    <2>1. j = loc[p] BY <1>5, <1>13
    <2>. QED BY <1>13, <2>1
  <1>. QED BY <1>4, <1>7, <1>8, <1>9, <1>10, <1>11, <1>12, <1>13

LEMMA ApplyModes ==
  ASSUME Unfolded, Inv, Grounded, ModesHold, Apply
  PROVE  ModesHold'
  <1>0. Typed /\ AtRecord BY DEF Inv, Apply
  <1>1. PICK q, d, v : q = NextRecord /\ d = Decision(RecKey(q)) /\ v = VerdictOn(q, d) OBVIOUS
  <1>2. /\ (Writes(q, v) => ~Blocked(q)) /\ loc' = Effect(q, v, d)
        /\ deferred' = IF v = "defer" THEN Append(deferred, q) ELSE deferred
        /\ bad' = (bad \/ v = "error") /\ NextLine(q)
    BY <1>1 DEF Apply
  <1>0a. v = "dir" /\ ~IsDir(q) => Found(q) = None BY <1>1, ApplyMakes
  <1>3. phase = "apply" /\ q \in Recorded /\ q \in Paths BY <1>0, <1>1, AtRecordIs
  <1>4. at' = RecKey(q) + 1 /\ UNCHANGED <<rec, obj, opts, orig, phase, prep>> BY <1>2 DEF NextLine, world
  <1>5. /\ \A x : PutOff(x, deferred) => PutOff(x, deferred')
        /\ v = "defer" => PutOff(q, deferred')
    <2>1. deferred \in Seq(Paths) BY <1>0 DEF Typed
    <2>2. /\ Len(Append(deferred, q)) = Len(deferred) + 1 /\ Len(deferred) \in Nat
          /\ \A n \in 1..Len(deferred) : Append(deferred, q)[n] = deferred[n]
          /\ Append(deferred, q)[Len(deferred) + 1] = q
      BY <1>3, <2>1, AppendProperties
    <2>. QED BY <1>2, <2>2 DEF PutOff
  <1>. SUFFICES ASSUME NEW p \in Recorded, Judged(p) PROVE ModeHolds(p)' BY <1>4, ModesAfter
  <1>6. ModeHolds(p) /\ p \in Paths BY <1>3 DEF ModesHold, Recorded
  <1>7. RecKey(p) < at' <=> RecKey(p) < at \/ p = q BY <1>0, <1>1, <1>4, PassedBy
  <1>8. PICK i, w, e : i = loc'[p] /\ w = prep'[p] /\ e = deferred' OBVIOUS
  <1>9. CASE p = q
    <2>1. i = Effect(p, v, d)[p] BY <1>2, <1>8, <1>9
    <2>2. Fine(p, loc[p]) \/ prep[p] # None BY <1>6 DEF ModeHolds
    <2>3. /\ Fine(p, i) \/ prep[p] # None
          /\ v \in {"error", "defer"} \/ Fine(p, i)
      BY <1>0a, <1>1, <1>2, <1>9, <2>1, <2>2, OwnMode
    <2>4. ~bad' => Fine(p, i) \/ PutOff(p, e) BY <1>2, <1>5, <1>8, <1>9, <2>3
    <2>. QED BY <1>4, <1>6, <1>8, <2>3, <2>4, ModeAfter
  <1>10. CASE p # q
    <2>1. PICK m : m = loc' OBVIOUS
    <2>2. /\ \A x \in Paths : x # q /\ x \notin Above[q] => m[x] = loc[x]
          /\ \A x \in Above[q] : m[x] = loc[x] \/ Stands(m, x)
      BY <1>0a, <1>1, <1>2, <1>3, <2>1, EffectExact
    <2>3. i = loc[p] \/ Fine(p, i)
      <3>1. m[p] = loc[p] \/ Stands(m, p) BY <1>6, <1>10, <2>2
      <3>. QED BY <1>8, <2>1, <3>1, NoFile DEF Stands
    <2>4. Fine(p, i) \/ w # None BY <1>4, <1>6, <1>8, <2>3 DEF ModeHolds
    <2>5. RecKey(p) < at' /\ ~bad' => Fine(p, i) \/ PutOff(p, e)
      BY <1>2, <1>3, <1>5, <1>6, <1>7, <1>8, <1>10, <2>3 DEF ModeHolds
    <2>. QED BY <1>3, <1>4, <1>6, <1>8, <2>4, <2>5, ModeAfter
  <1>. QED BY <1>9, <1>10

LEMMA PassModes ==
  ASSUME Unfolded, Inv, Grounded, ModesHold, SkipExcluded \/ ApplyFails
  PROVE  ModesHold'
  <1>1. AtRecord /\ phase = "apply" /\ UNCHANGED <<rec, obj, opts, orig>>
    BY DEF SkipExcluded, ApplyFails, Abort, AtRecord, NextLine, world
  <1>2. CASE phase' = "done" /\ loc' = GivenBack(loc) BY <1>1, <1>2, GivenModes
  <1>3. CASE SkipExcluded
    <2>1. /\ ~Judged(NextRecord) /\ at' = RecKey(NextRecord) + 1
          /\ UNCHANGED <<phase, prep, bad, loc, deferred>>
      BY <1>3 DEF SkipExcluded, NextLine
    <2>2. ASSUME NEW p \in Recorded, Judged(p), RecKey(p) < at' PROVE RecKey(p) < at
      <3>1. PICK q : q = NextRecord OBVIOUS
      <3>2. RecKey(p) < at' <=> RecKey(p) < at \/ p = q BY <1>1, <2>1, <3>1, PassedBy
      <3>. QED BY <2>1, <2>2, <3>1, <3>2
    <2>. QED BY <1>1, <2>1, <2>2, ModesStay
  <1>4. CASE bad' = TRUE /\ UNCHANGED <<loc, prep, deferred, phase>>
    <2>. SUFFICES ASSUME NEW p \in Recorded, Judged(p) PROVE ModeHolds(p)' BY <1>1, ModesAfter
    <2>1. ModeHolds(p) /\ p \in Paths BY <1>1 DEF ModesHold, Recorded
    <2>2. PICK i, w, d : i = loc'[p] /\ w = prep'[p] /\ d = deferred' OBVIOUS
    <2>3. Fine(p, i) \/ w # None BY <1>4, <2>1, <2>2 DEF ModeHolds
    <2>. QED BY <1>1, <1>4, <2>1, <2>2, <2>3, ModeAfter
  <1>5. ApplyFails => \/ phase' = "done" /\ loc' = GivenBack(loc)
                      \/ bad' = TRUE /\ UNCHANGED <<loc, prep, deferred, phase>>
    BY DEF ApplyFails, Abort, Finish, NextLine
  <1>. QED BY <1>2, <1>3, <1>4, <1>5

LEMMA SettleModes ==
  ASSUME Unfolded, Inv, ModesHold, PopFrame \/ Resettle
  PROVE  ModesHold'
  <1>1. /\ UNCHANGED <<rec, obj, opts, orig, prep, phase, at, deferred>> /\ phase \in {"apply", "place"}
    BY DEF PopFrame, Resettle, world
  <1>2. \/ UNCHANGED <<loc, bad>>
        \/ \E p \in Paths, ordered \in BOOLEAN : DirRec(p) /\ Settle(p, ordered)
    <2>1. CASE PopFrame
      <3>1. Top.path \in Paths /\ DirRec(Top.path) BY <2>1, TopIs DEF PopFrame
      <3>2. (opts.update /\ ~Top.dirty) \in BOOLEAN OBVIOUS
      <3>. QED BY <2>1, <3>1, <3>2 DEF PopFrame
    <2>2. CASE Resettle
      <3>1. PICK p : p = CHOOSE x \in post : \A q \in post : DirKey[q] <= DirKey[x] OBVIOUS
      <3>2. post \in SUBSET Paths /\ post # {} BY <2>2 DEF Inv, Typed, Resettle
      <3>3. p \in post BY <3>1, <3>2, GreatestKey
      <3>4. DirRec(p) BY <3>3 DEF Inv, LastFits
      <3>. QED BY <2>2, <3>1, <3>2, <3>3, <3>4 DEF Resettle
    <2>. QED BY <2>1, <2>2
  <1>3. (bad => bad') /\ \A p \in Recorded : loc'[p] = loc[p] \/ loc'[p] = None \/ loc'[p].kind # "file"
    <2>1. CASE UNCHANGED <<loc, bad>> BY <2>1
    <2>2. CASE \E p \in Paths, ordered \in BOOLEAN : DirRec(p) /\ Settle(p, ordered)
      <3>1. PICK x \in Paths, ordered \in BOOLEAN : DirRec(x) /\ Settle(x, ordered) BY <2>2
      <3>2. bad => bad' BY <3>1 DEF Settle
      <3>3. /\ loc' = loc \/ (Stands(loc, x) /\ loc' = [loc EXCEPT ![x] = Stamped(rec[x], loc[x])])
            /\ loc \in [Paths -> Slot]
        BY <3>1, SettleHere DEF Inv, Typed, Treelike
      <3>4. rec[x].mode \in Modes /\ rec[x].mtime \in Nat \cup {NoMtime} BY <3>1, GivenFacts DEF Inv, Typed, DirRec
      <3>5. Stands(loc, x) => Stamped(rec[x], loc[x]).kind = "dir"
        <4>1. loc[x] \in Slot BY <3>3
        <4>. QED BY <3>4, <4>1, SlotItem, StampedItem DEF Stands
      <3>6. \A p \in Recorded : p \in Paths BY DEF Recorded
      <3>. QED BY <3>2, <3>3, <3>5, <3>6
    <2>. QED BY <1>2, <2>1, <2>2
  <1>. QED BY <1>1, <1>3, ModesStay

LEMMA StreamedModes ==
  ASSUME Inv, ModesHold, Streamed
  PROVE  ModesHold'
  <1>1. /\ phase = "apply" /\ ToApply = {} /\ phase' = "place" /\ at \in Nat
        /\ UNCHANGED <<rec, obj, opts, orig, loc, prep, bad, deferred>>
    BY DEF Streamed, Inv, Typed, world, applying
  <1>. SUFFICES ASSUME NEW p \in Recorded, Judged(p) PROVE ModeHolds(p)' BY <1>1, ModesAfter
  <1>2. ModeHolds(p) /\ p \in Paths BY <1>1 DEF ModesHold, Recorded
  <1>3. RecKey(p) < at
    <2>1. RecKey(p) \in Nat BY <1>2, KeysDiffer DEF RecKey, KeyAs
    <2>2. ~(RecKey(p) >= at) BY <1>1 DEF ToApply
    <2>. QED BY <1>1, <2>1, <2>2
  <1>4. PICK i, w, d : i = loc'[p] /\ w = prep'[p] /\ d = deferred' OBVIOUS
  <1>5. Fine(p, i) \/ w # None BY <1>1, <1>2, <1>4 DEF ModeHolds
  <1>6. ~bad' => Fine(p, i) \/ PutOff(p, d) BY <1>1, <1>2, <1>3, <1>4 DEF ModeHolds
  <1>. QED BY <1>1, <1>2, <1>4, <1>5, <1>6, ModeAfter

LEMMA PlaceModes ==
  ASSUME Unfolded, Inv, Grounded, ModesHold, Place
  PROVE  ModesHold'
  <1>1. UNCHANGED <<rec, obj, opts, orig>> /\ phase = "place" /\ deferred # <<>> BY DEF Place, Abort, world
  <1>2. PICK h : h = Head(deferred) OBVIOUS
  <1>3. \/ phase' = "done" /\ loc' = GivenBack(loc)
        \/ /\ ~Blocked(h) /\ loc' = Put(Cleared(h), h, LinkAt(rec[h])) /\ deferred' = Tail(deferred)
           /\ UNCHANGED <<phase, bad, prep>>
    BY <1>2 DEF Place, Abort, Finish
  <1>4. CASE phase' = "done" /\ loc' = GivenBack(loc) BY <1>1, <1>4, GivenModes
  <1>5. CASE /\ ~Blocked(h) /\ loc' = Put(Cleared(h), h, LinkAt(rec[h])) /\ deferred' = Tail(deferred)
             /\ UNCHANGED <<phase, bad, prep>>
    <2>1. deferred \in Seq(Paths) /\ Treelike(loc) BY DEF Inv, Typed
    <2>2. /\ h \in Paths /\ Len(deferred) \in Nat \ {0} /\ h = deferred[1]
          /\ \A n \in 1..Len(deferred) : n = 1 \/ (n - 1 \in 1..Len(Tail(deferred)) /\ Tail(deferred)[n - 1] = deferred[n])
      BY <1>1, <1>2, <2>1, TailIs
    <2>3. LinkRec(h) BY <2>2 DEF Inv, LastFits
    <2>4. h \in Nondirs BY <2>2, <2>3 DEF LinkRec, Nondirs, Recorded
    <2>5. /\ h \in Paths \ {Root} /\ rec[h].mtime \in Nat \cup {NoMtime} /\ rec[h].what \in Data
      BY <2>3, <2>4, LeafPath DEF LinkRec
    <2>6. PICK m, i : m = loc' /\ i = LinkAt(rec[h]) OBVIOUS
    <2>7. i \in Items /\ i.kind = "link" BY <2>5, <2>6, LinkItem
    <2>8. /\ m[h] = i
          /\ \A q \in Paths : ~InSubtree(h, q) /\ q \notin Above[h] => m[q] = loc[q]
          /\ \A q \in Above[h] : Stands(m, q)
      BY <1>5, <2>1, <2>5, <2>6, <2>7, PlacedExact
    <2>9. \A x : PutOff(x, deferred) => x = h \/ PutOff(x, deferred') BY <1>5, <2>2 DEF PutOff
    <2>. SUFFICES ASSUME NEW p \in Recorded, Judged(p) PROVE ModeHolds(p)' BY <1>1, ModesAfter
    <2>10. ModeHolds(p) /\ p \in Paths BY <1>1 DEF ModesHold, Recorded
    <2>11. PICK j, w, d : j = loc'[p] /\ w = prep'[p] /\ d = deferred' OBVIOUS
    <2>12. h \notin Above[p] BY <1>1, <2>4, NothingBeneath
    <2>13. (p # h /\ j = loc[p]) \/ Fine(p, j)
      <3>1. CASE p = h BY <2>6, <2>7, <2>8, <2>11, <3>1, NoFile
      <3>2. CASE p \in Above[h] BY <2>6, <2>8, <2>11, <3>2, NoFile DEF Stands
      <3>3. CASE p # h /\ p \notin Above[h] BY <2>6, <2>8, <2>10, <2>11, <2>12, <3>3 DEF InSubtree
      <3>. QED BY <3>1, <3>2, <3>3
    <2>14. Fine(p, j) \/ w # None BY <1>5, <2>10, <2>11, <2>13 DEF ModeHolds
    <2>15. ~bad' => Fine(p, j) \/ PutOff(p, d) BY <1>1, <1>5, <2>9, <2>10, <2>11, <2>13 DEF ModeHolds
    <2>. QED BY <1>1, <2>10, <2>11, <2>14, <2>15, ModeAfter
  <1>. QED BY <1>3, <1>4, <1>5

LEMMA AppliedModes ==
  ASSUME Unfolded, Inv, Grounded, ModesHold, Applied
  PROVE  ModesHold'
  <1>1. /\ phase = "place" /\ deferred = <<>> /\ UNCHANGED <<rec, obj, opts, orig>>
        /\ \/ phase' = "done" /\ loc' = GivenBack(loc)
           \/ ~bad /\ phase' \in {"done", "extras"} /\ loc' = loc
    BY DEF Applied, Finish, world
  <1>2. CASE phase' = "done" /\ loc' = GivenBack(loc) BY <1>1, <1>2, GivenModes
  <1>3. CASE ~bad /\ phase' \in {"done", "extras"} /\ loc' = loc
    <2>. SUFFICES ASSUME NEW p \in Recorded, Judged(p) PROVE ModeHolds(p)' BY <1>1, ModesAfter
    <2>1. ModeHolds(p) /\ p \in Paths BY <1>1 DEF ModesHold, Recorded
    <2>2. ~PutOff(p, deferred)
      <3>1. Len(deferred) = 0 BY <1>1
      <3>. QED BY <3>1 DEF PutOff
    <2>3. PICK i, w, d : i = loc'[p] /\ w = prep'[p] /\ d = deferred' OBVIOUS
    <2>4. Fine(p, i) BY <1>1, <1>3, <2>1, <2>2, <2>3 DEF ModeHolds
    <2>. QED BY <1>1, <1>3, <2>1, <2>3, <2>4, ModeAfter
  <1>. QED BY <1>1, <1>2, <1>3

LEMMA ExtrasModes ==
  ASSUME Unfolded, Inv, Grounded, OpenLoose, ModesHold, CloseExtra \/ Prune \/ Pruned
  PROVE  ModesHold'
  <1>1. phase = "extras" /\ UNCHANGED <<rec, obj, opts, orig>> /\ prep = NoPrep
    BY DEF CloseExtra, Prune, Pruned, world, Inv, PrepFits
  <1>2. CASE CloseExtra \/ Prune
    <2>1. /\ bad => bad'
          /\ \/ phase' = "done" /\ status' = "failed"
             \/ phase' = phase /\ loc' = loc
             \/ /\ phase' = phase
                /\ \E p \in Paths \ {Root} :
                     /\ loc[p] # None /\ Removable(p) /\ p \in gone' /\ loc' = Removed(loc, p)
                     /\ \A c \in Paths \ {p} : Up[c] = p => loc[c] = None
      BY <1>2, ExtrasWrites
    <2>2. /\ phase' = "done" => loc' = GivenBack(loc)
          /\ phase' # "done" => prep' = prep
      BY <1>1, <1>2 DEF CloseExtra, Prune, Judge, Finish
    <2>3. CASE phase' = "done" BY <1>1, <2>2, <2>3, GivenModes
    <2>4. CASE phase' = phase /\ loc' = loc BY <1>1, <2>1, <2>2, <2>4, ModesStay
    <2>5. CASE /\ phase' = phase
               /\ \E p \in Paths \ {Root} :
                    /\ loc[p] # None /\ Removable(p) /\ p \in gone' /\ loc' = Removed(loc, p)
                    /\ \A c \in Paths \ {p} : Up[c] = p => loc[c] = None
      <3>1. PICK x \in Paths \ {Root} : loc[x] # None /\ loc' = Removed(loc, x) BY <2>5
      <3>2. Treelike(loc) BY DEF Inv, Typed
      <3>3. /\ \A q \in Paths : ~InSubtree(x, q) /\ q # Up[x] => loc'[q] = loc[q]
            /\ \A q \in Paths : InSubtree(x, q) => loc'[q] = None
            /\ \A q \in Paths : ~InSubtree(x, q) /\ Stands(loc, q) => Stands(loc', q)
        BY <3>1, <3>2, RemovedExact
      <3>4. Stands(loc, Up[x]) BY <3>1, <3>2 DEF Treelike, Stands
      <3>5. ASSUME NEW p \in Recorded PROVE loc'[p] = loc[p] \/ loc'[p] = None \/ loc'[p].kind # "file"
        <4>1. p \in Paths BY DEF Recorded
        <4>2. CASE InSubtree(x, p) BY <3>3, <4>1, <4>2
        <4>3. CASE ~InSubtree(x, p) /\ p = Up[x]
          <5>1. Stands(loc', p) BY <3>3, <3>4, <4>1, <4>3
          <5>. QED BY <5>1 DEF Stands
        <4>4. CASE ~InSubtree(x, p) /\ p # Up[x] BY <3>3, <4>1, <4>4
        <4>. QED BY <4>2, <4>3, <4>4
      <3>. QED BY <1>1, <2>1, <2>2, <2>5, <3>5, ModesStay
    <2>. QED BY <2>1, <2>3, <2>4, <2>5
  <1>3. CASE Pruned
    <2>1. \/ phase' = "done" /\ loc' = GivenBack(loc)
          \/ phase' = "apply" /\ UNCHANGED <<loc, prep>>
      BY <1>3 DEF Pruned, Finish
    <2>2. CASE phase' = "done" /\ loc' = GivenBack(loc) BY <1>1, <2>2, GivenModes
    <2>3. CASE phase' = "apply" /\ UNCHANGED <<loc, prep>>
      <3>. SUFFICES ASSUME NEW p \in Recorded, Judged(p) PROVE ModeHolds(p)' BY <1>1, ModesAfter
      <3>1. ModeHolds(p) /\ p \in Paths BY <1>1 DEF ModesHold, Recorded
      <3>2. prep[p] = None BY <1>1, <3>1 DEF NoPrep
      <3>3. PICK i, w, d : i = loc'[p] /\ w = prep'[p] /\ d = deferred' OBVIOUS
      <3>4. Fine(p, i) BY <2>3, <3>1, <3>2, <3>3 DEF ModeHolds
      <3>. QED BY <1>1, <3>1, <3>3, <3>4, ModeAfter
    <2>. QED BY <2>1, <2>2, <2>3
  <1>. QED BY <1>2, <1>3

\* No file stands where the place of a directory is cleared, or around it.
LEMMA ClearModes ==
  ASSUME Unfolded, Inv, ModesHold, ClearConflict
  PROVE  ModesHold'
  <1>1. PICK q \in Paths \ {Root} :
           /\ phase = "apply" /\ loc'[q] = None /\ Stands(loc', Up[q])
           /\ \A x \in Paths \ {q, Up[q]} : loc'[x] = loc[x]
    BY ClearedConflict
  <1>2. UNCHANGED <<rec, obj, opts, orig, phase, at, deferred, prep, bad>> BY ClearSame
  <1>3. \A p \in Recorded : Judged(p) => loc'[p] = loc[p] \/ loc'[p] = None \/ loc'[p].kind # "file"
    BY <1>1 DEF Recorded, Stands
  <1>4. \A x : PutOff(x, deferred) => PutOff(x, deferred') BY <1>2
  <1>. QED BY <1>1, <1>2, <1>3, <1>4, ModesStay

LEMMA ModesStep ==
  ASSUME Unfolded, Inv, Grounded, OpenLoose, Mirrored, SyncFits, ModesHold, [Next]_vars
  PROVE  ModesHold'
  <1>1. CASE Start \/ Vet \/ Make \/ Prep
    <2>1. SyncFits' BY SyncFitsStep
    <2>. QED BY <1>1, <2>1, EarlyModes
  <1>2. CASE Decide \/ (\E x \in Paths : Land(x)) BY <1>2, SyncModes
  <1>3. CASE Synced BY <1>3, SyncedModes
  <1>4. CASE Apply BY <1>4, ApplyModes
  <1>14. CASE ClearConflict BY <1>14, ClearModes
  <1>5. CASE SkipExcluded \/ ApplyFails BY <1>5, PassModes
  <1>6. CASE PopFrame \/ Resettle BY <1>6, SettleModes
  <1>7. CASE Streamed BY <1>7, StreamedModes
  <1>8. CASE Place BY <1>8, PlaceModes
  <1>9. CASE Applied BY <1>9, AppliedModes
  <1>10. CASE CloseExtra \/ Prune \/ Pruned BY <1>10, ExtrasModes
  <1>11. CASE Cut BY <1>11 DEF Cut, ModesHold
  <1>12. CASE Again
    <2>1. phase' = "start" /\ orig' = loc' BY <1>12 DEF Again
    <2>2. \A p : (Fine(p, loc[p]))' BY <2>1 DEF Fine, Remains
    <2>. QED BY <2>1, <2>2 DEF ModesHold, ModeHolds
  <1>13. CASE UNCHANGED vars
    <2>1. UNCHANGED <<rec, obj, opts, orig, loc, phase, at, deferred, prep, bad, status>>
      BY <1>13 DEF vars, world, applying
    <2>2. CASE phase = "done" /\ status = "cut" BY <2>1, <2>2 DEF ModesHold
    <2>3. CASE \A p \in Recorded : Judged(p) => ModeHolds(p)
      <3>. SUFFICES ASSUME NEW p \in Recorded, Judged(p) PROVE ModeHolds(p)' BY <2>1, ModesAfter
      <3>1. ModeHolds(p) /\ p \in Paths BY <2>3 DEF Recorded
      <3>2. PICK i, w, d : i = loc'[p] /\ w = prep'[p] /\ d = deferred' OBVIOUS
      <3>3. /\ Fine(p, i) \/ w # None
            /\ (phase' = "place" \/ (phase' = "apply" /\ RecKey(p) < at')) /\ ~bad' => Fine(p, i) \/ PutOff(p, d)
        BY <2>1, <3>1, <3>2 DEF ModeHolds
      <3>. QED BY <2>1, <3>1, <3>2, <3>3, ModeAfter
    <2>. QED BY <2>2, <2>3 DEF ModesHold
  <1>. QED BY <1>1, <1>2, <1>3, <1>4, <1>5, <1>6, <1>7, <1>8, <1>9, <1>10, <1>11, <1>12, <1>13, <1>14 DEF Next

LEMMA InitModes == Init => ModesHold
  <1>. SUFFICES ASSUME Init PROVE ModesHold OBVIOUS
  <1>1. phase = "start" /\ loc = orig BY DEF Init
  <1>2. \A p : Fine(p, loc[p]) BY <1>1 DEF Fine, Remains
  <1>. QED BY <1>1, <1>2 DEF ModesHold, ModeHolds

LEMMA ModesAtEnd ==
  ASSUME Inv, ModesHold
  PROVE  ModesGivenBack
  <1>. SUFFICES ASSUME Ended, NEW p \in Recorded, Judged(p), orig[p] # None, loc[p] # None,
                       orig[p].kind = "file", loc[p].kind = "file", loc[p].mtime # Uploaded
                PROVE  loc[p].mode = orig[p].mode \/ ~ModeDiffers(rec[p], loc[p])
    BY DEF ModesGivenBack
  <1>1. phase = "done" /\ status # "cut" BY DEF Ended, Done
  <1>2. ModeHolds(p) BY <1>1 DEF ModesHold
  <1>3. prep[p] = None BY <1>1 DEF Inv, PrepFits, NoPrep, Recorded
  <1>. QED BY <1>2, <1>3 DEF ModeHolds, Fine, Remains

-----------------------------------------------------------------------------
(* All of it, at the end.                                                  *)

Restoring == SpoolFits /\ SyncFits /\ LeavesHold /\ FramesHold /\ DeferredHold /\ DirsHold

LEMMA RestoringStep ==
  ASSUME Unfolded
  PROVE  (Inv /\ OpenLoose) /\ Mirrored /\ (Grounded /\ Restoring) /\ [Next]_vars => (Grounded /\ Restoring)'
  <1>. SUFFICES ASSUME Inv, OpenLoose, Grounded, Mirrored, Restoring, [Next]_vars PROVE Grounded' /\ Restoring' OBVIOUS
  <1>1. SpoolFits /\ SyncFits /\ LeavesHold /\ FramesHold /\ DeferredHold /\ DirsHold BY DEF Restoring
  <1>2. SpoolFits' BY <1>1, SpoolStep
  <1>3. SyncFits' BY <1>1, SyncFitsStep
  <1>4. LeavesHold' BY <1>1, LeavesStep
  <1>5. FramesHold' /\ DeferredHold' BY <1>1, FramesStep
  <1>6. DirsHold' BY <1>1, DirsStep
  <1>7. Grounded' BY <1>1, GroundStep
  <1>. QED BY <1>2, <1>3, <1>4, <1>5, <1>6, <1>7 DEF Restoring

LEMMA RestoringRestores ==
  ASSUME Unfolded, Inv, Restoring
  PROVE  Restored
  <1>. SUFFICES ASSUME Done, status = "ok", NEW p \in Recorded, Judged(p)
                PROVE  \/ p \in told \/ KeptLocal(p) \/ (opts.update /\ UnseenWrite(p))
                       \/ /\ Matches(rec[p], Found(p))
                          /\ opts.checksum /\ rec[p].kind = "file" =>
                               \/ Found(p).data = obj[p]
                               \/ obj[p] = None /\ Found(p).mode \notin Readable
    BY DEF Restored
  <1>1. phase = "done" /\ LeavesHold /\ DirsHold BY DEF Done, Restoring
  <1>2. p \in Paths BY DEF Recorded
  <1>3. Found(p) = loc[p] /\ DiskIn(orig, p) = p /\ Had(p) = orig[p] BY <1>2, OneNameIs
  <1>4. p \in told \/ Excused(p) \/ Good(p, loc[p]) \/ KeptHere(p, loc[p])
    <2>1. CASE Leaf(p)
      <3>1. Sat(p, loc[p], spool, told) BY <1>1, <1>2, <2>1 DEF LeavesHold, LeafHolds
      <3>. QED BY <3>1 DEF Sat
    <2>2. CASE Shut(p)
      <3>1. SatDir(p, loc[p], told) BY <1>1, <1>2, <2>2 DEF DirsHold, DirHolds
      <3>. QED BY <3>1 DEF SatDir
    <2>. QED BY <2>1, <2>2 DEF Leaf, Shut, DirRec, Nondirs, Recorded
  <1>5. KeptHere(p, loc[p]) => KeptLocal(p) BY <1>3 DEF KeptHere, KeptLocal
  <1>. QED BY <1>3, <1>4, <1>5 DEF Excused, Good

\* Where the filesystem keeps every name apart, a pull that ends well
\* leaves every record it judges as status would have it, directories included,
\* or has warned about it, or under -u has kept a side that is not the older
\* (sync, apply_manifest, _mirror_extras; Pull.Restored).
THEOREM RecordsAreRestored ==
  ASSUME Unfolded
  PROVE  Spec => []Restored
  <1>1. Init => Mirrored BY DEF Init, Fresh, Mirrored
  <1>2. (Inv /\ OpenLoose) /\ Mirrored /\ [Next]_vars => Mirrored' BY MirrorStep
  <1>3. Init => Grounded /\ Restoring BY InitGround, InitLeaves, InitDirs DEF Restoring
  <1>4. (Inv /\ OpenLoose) /\ Mirrored /\ (Grounded /\ Restoring) /\ [Next]_vars => (Grounded /\ Restoring)'
    BY RestoringStep
  <1>5. (Inv /\ OpenLoose) /\ (Grounded /\ Restoring) => Restored BY RestoringRestores
  <1>. QED BY <1>1, <1>2, <1>3, <1>4, <1>5, LooseHolds, PTL DEF Spec

\* On Windows too, where the pull makes files writable before it restores them
\* and places a link to nothing last: it restores as elsewhere, and every mode
\* the prep changed is the one from before, or the one recorded as far as status
\* tells (windows_collect_writable_prep, windows_restore_modes, and the apply's
\* own return of a mode; Pull.RestoredOnWindows).
THEOREM RestoredOnWindowsHolds ==
  ASSUME Unfolded
  PROVE  Spec => []RestoredOnWindows
  <1>1. Init => Mirrored BY DEF Init, Fresh, Mirrored
  <1>2. (Inv /\ OpenLoose) /\ Mirrored /\ [Next]_vars => Mirrored' BY MirrorStep
  <1>3. Init => (Grounded /\ Restoring) /\ ModesHold BY InitGround, InitLeaves, InitDirs, InitModes DEF Restoring
  <1>4. (Inv /\ OpenLoose) /\ Mirrored /\ (Grounded /\ Restoring) /\ [Next]_vars => (Grounded /\ Restoring)'
    BY RestoringStep
  <1>5. (Inv /\ OpenLoose) /\ Mirrored /\ (Grounded /\ Restoring) /\ ModesHold /\ [Next]_vars => ModesHold'
    BY ModesStep DEF Restoring
  <1>6. (Inv /\ OpenLoose) /\ (Grounded /\ Restoring) /\ ModesHold => RestoredOnWindows
    BY RestoringRestores, ModesAtEnd DEF RestoredOnWindows
  <1>. QED BY <1>1, <1>2, <1>3, <1>4, <1>5, <1>6, LooseHolds, PTL DEF Spec
=============================================================================
