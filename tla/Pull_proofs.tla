----------------------------- MODULE Pull_proofs -----------------------------
(***************************************************************************)
(* Proofs about Pull, for every tree, every set of worlds and any number   *)
(* of failures and interruptions.                                          *)
(***************************************************************************)
EXTENDS Pull, FiniteSetTheorems, SequenceTheorems, WellFoundedInduction, TLAPS

-----------------------------------------------------------------------------
(* The tree.  Above is the least set that holds the parent and is closed   *)
(* under parents: what the induction over a path's depth comes to.         *)

Closed(S) == \A q \in S : Up[q] \in S
Chained == [p \in Paths |->
  IF p = Root THEN {} ELSE {q \in Paths : \A S \in SUBSET Paths : Up[p] \in S /\ Closed(S) => q \in S}]

\* A non-empty set of numbers has a least one.
LEMMA LeastNumber ==
  ASSUME NEW T \in SUBSET Nat, T # {}
  PROVE  \E x \in T : \A y \in T : x <= y
  <1>. DEFINE R == {ss \in Nat \X Nat : ss[1] < ss[2]}
  <1>1. IsWellFoundedOn(R, Nat)
    BY NatLessThanWellFounded DEF OpToRel
  <1>2. \E x \in T : \A y \in T : ~(<<y, x>> \in R)
    <2>1. T \subseteq Nat OBVIOUS
    <2>. HIDE DEF R
    <2>. QED BY <1>1, <2>1, WFMin, Zenon
  <1>3. \A x, y \in Nat : x < y => <<x, y>> \in R OBVIOUS
  <1>. HIDE DEF R
  <1>4. PICK x \in T : \A y \in T : ~(<<y, x>> \in R) BY <1>2
  <1>5. \A y \in T : x \in Nat /\ y \in Nat /\ ~(y < x) BY <1>3, <1>4
  <1>. QED BY <1>5

\* A non-empty set of paths has one with the least key, and one with the greatest.
LEMMA LeastKey ==
  ASSUME NEW T \in SUBSET Paths, T # {}, NEW key \in [Paths -> Nat]
  PROVE  \E p \in T : \A q \in T : key[p] <= key[q]
  <1>. DEFINE K == {key[p] : p \in T}
  <1>1. K \in SUBSET Nat /\ K # {} OBVIOUS
  <1>2. \E x \in K : \A y \in K : x <= y
    <2>. HIDE DEF K
    <2>. QED BY <1>1, LeastNumber
  <1>. QED BY <1>2

LEMMA KeysDiffer ==
  ASSUME NEW p \in Paths, NEW q \in Paths
  PROVE  /\ DirKey[p] \in Nat /\ LeafKey[p] \in Nat
         /\ p # q => DirKey[p] # DirKey[q] /\ LeafKey[p] # LeafKey[q] /\ LeafKey[p] # DirKey[q]
  BY TreeAssumption

LEMMA ChainedEquation ==
  Chained = [p \in Paths |-> IF p = Root THEN {} ELSE {Up[p]} \cup Chained[Up[p]]]
  <1>. SUFFICES ASSUME NEW p \in Paths \ {Root}
                PROVE  Chained[p] = {Up[p]} \cup Chained[Up[p]]
    BY DEF Chained
  <1>0. Up[p] \in Paths BY TreeAssumption
  <1>1. Chained[p] = {q \in Paths : \A S \in SUBSET Paths : Up[p] \in S /\ Closed(S) => q \in S}
    BY DEF Chained
  <1>2. CASE Up[p] = Root
    <2>1. Closed({Root}) BY TreeAssumption DEF Closed
    <2>2. Chained[Up[p]] = {} BY <1>2, TreeAssumption DEF Chained
    <2>. QED BY <1>0, <1>1, <1>2, <2>1, <2>2, TreeAssumption
  <1>3. CASE Up[p] # Root
    <2>. DEFINE u == Up[p]
    <2>1. Chained[u] = {q \in Paths : \A S \in SUBSET Paths : Up[u] \in S /\ Closed(S) => q \in S}
      BY <1>0, <1>3 DEF Chained
    <2>2. \A q \in Chained[u] : q \in Chained[p]
      BY <1>1, <2>1 DEF Closed
    <2>3. Closed({u} \cup Chained[u]) /\ {u} \cup Chained[u] \in SUBSET Paths
      <3>1. Up[u] \in Chained[u] BY <1>0, <2>1, TreeAssumption
      <3>2. \A q \in Chained[u] : Up[q] \in Chained[u]
        BY <2>1, TreeAssumption DEF Closed
      <3>. QED BY <1>0, <2>1, <3>1, <3>2 DEF Closed
    <2>. QED BY <1>0, <1>1, <2>2, <2>3
  <1>. QED BY <1>2, <1>3

\* Depth decreases towards the root, so Above is Chained.
LEMMA AboveChained == Above = Chained
  <1>. DEFINE F(f) == [p \in Paths |-> IF p = Root THEN {} ELSE {Up[p]} \cup f[Up[p]]]
  <1>1. Above = CHOOSE f : f = F(f) BY DEF Above
  <1>2. Above = F(Above)
    <2>1. \E f : f = F(f) BY ChainedEquation
    <2>. QED BY <1>1, <2>1
  <1>3. \A p \in Paths : Above[p] = Chained[p]
    <2>. DEFINE Bad == {p \in Paths : Above[p] # Chained[p]}
    <2>. SUFFICES ASSUME Bad # {} PROVE FALSE OBVIOUS
    <2>1. PICK p \in Bad : \A q \in Bad : DirKey[p] <= DirKey[q]
      BY LeastKey, TreeAssumption
    <2>2. p # Root BY <1>2, <2>1, ChainedEquation, TreeAssumption
    <2>3. Up[p] \in Paths /\ DirKey[Up[p]] < DirKey[p] BY <2>2, TreeAssumption
    <2>4. Up[p] \notin Bad BY <2>1, <2>3, TreeAssumption
    <2>. QED BY <1>2, <2>1, <2>2, <2>3, <2>4, ChainedEquation
  <1>. QED BY <1>2, <1>3 DEF Chained

LEMMA AboveLeast ==
  ASSUME NEW p \in Paths \ {Root}, NEW S \in SUBSET Paths, Up[p] \in S, Closed(S)
  PROVE  Above[p] \subseteq S
  BY AboveChained DEF Chained

LEMMA AboveTypes ==
  /\ Above[Root] = {}
  /\ \A p \in Paths : Above[p] \in SUBSET Paths /\ Closed(Above[p])
  /\ \A p \in Paths \ {Root} : Up[p] \in Above[p]
  BY AboveChained, TreeAssumption DEF Chained, Closed

\* A path sorts after what is above it, as a leaf too; so nothing is above itself.
LEMMA AboveKey ==
  ASSUME NEW p \in Paths, NEW q \in Above[p]
  PROVE  q \in Paths /\ p # Root /\ DirKey[q] < LeafKey[p] /\ DirKey[q] < DirKey[p] /\ q # p
  <1>. DEFINE S == {r \in Paths : DirKey[r] < LeafKey[p]}
  <1>1. p # Root BY AboveTypes
  <1>2. Closed(S)
    <2>. SUFFICES ASSUME NEW r \in S PROVE Up[r] \in S BY DEF Closed
    <2>. QED BY TreeAssumption
  <1>3. Up[p] \in S BY <1>1, TreeAssumption
  <1>. QED BY <1>1, <1>2, <1>3, AboveLeast, TreeAssumption

LEMMA AboveTrans ==
  ASSUME NEW p \in Paths, NEW q \in Above[p], NEW r \in Above[q]
  PROVE  r \in Above[p]
  BY AboveKey, AboveLeast, AboveTypes DEF Closed

LEMMA AboveUp ==
  ASSUME NEW p \in Paths \ {Root}
  PROVE  Above[p] = {Up[p]} \cup Above[Up[p]]
  BY AboveChained, ChainedEquation

\* Every path but the root is beneath the root.
LEMMA RootAbove ==
  ASSUME NEW p \in Paths \ {Root}
  PROVE  Root \in Above[p]
  <1>1. PICK q \in Above[p] : \A r \in Above[p] : DirKey[q] <= DirKey[r]
    BY AboveTypes, LeastKey, TreeAssumption
  <1>2. Up[q] \in Above[p] BY <1>1, AboveTypes DEF Closed
  <1>. QED BY <1>1, <1>2, AboveTypes, TreeAssumption

-----------------------------------------------------------------------------
(* What making and removing leave of a tree l.                             *)

Stands(l, p) == l[p] # None /\ l[p].kind = "dir"
Treelike(l) ==
  /\ l \in [Paths -> Slot]
  /\ l[Root] # None => l[Root].kind = "dir"
  /\ \A p \in Paths \ {Root} : l[p] # None => Stands(l, Up[p])

\* y is x, or the directory x after an entry was made or removed in it.
Alike(x, y) == y = x \/ (x.kind = "dir" /\ y = [x EXCEPT !.mtime = Now])
\* Whatever stands outside S still does, and nothing appears outside T.
Keeps(l, m, S) == \A q \in Paths \ S : l[q] # None => Alike(l[q], m[q])
Adds(l, m, T) == \A q \in Paths \ T : l[q] = None => m[q] = None
Bare(l, p) == \A c \in Paths \ {Root} : Up[c] = p => l[c] = None
Clear(l, p) == \A q \in Above[p] : l[q] # None => l[q].kind = "dir"

LEMMA NoneIsNoItem == None \notin Items /\ None \notin Modes /\ None \notin Paths
  BY ItemAssumption

LEMMA SlotItem == ASSUME NEW x \in Slot, x # None PROVE x \in Items
  BY DEF Slot

LEMMA AlikeItem ==
  ASSUME NEW x \in Items, NEW y, Alike(x, y)
  PROVE  y \in Items /\ y # None /\ y.kind = x.kind /\ y.data = x.data /\ y.mode = x.mode
         /\ (x.kind # "dir" => y = x) /\ y.mtime \in {x.mtime, Now}
  BY ItemAssumption DEF Alike, Items

LEMMA AlikeTrans ==
  ASSUME NEW x \in Items, NEW y, NEW z, Alike(x, y), Alike(y, z)
  PROVE  Alike(x, z)
  BY ItemAssumption DEF Alike, Items

LEMMA NewDirItem == NewDir \in Items /\ NewDir.kind = "dir" /\ NewDir # None
  BY ItemAssumption DEF NewDir, Items, Kinds

\* Everything above what stands is a directory.
LEMMA AncestorsStand ==
  ASSUME NEW l, Treelike(l), NEW p \in Paths, l[p] # None, NEW q \in Above[p]
  PROVE  Stands(l, q)
  <1>. DEFINE S == {r \in Paths : Stands(l, r)}
  <1>1. p # Root BY AboveTypes
  <1>2. Up[p] \in S BY <1>1, TreeAssumption DEF Treelike
  <1>3. Closed(S) BY TreeAssumption DEF Closed, Treelike, Stands
  <1>. QED BY <1>1, <1>2, <1>3, AboveLeast

\* Nothing stands beneath a path with no entries.
LEMMA NothingIn ==
  ASSUME NEW l, Treelike(l), NEW p \in Paths \ {Root}, Bare(l, p), NEW q \in Paths, p \in Above[q]
  PROVE  l[q] = None
  <1>. SUFFICES ASSUME l[q] # None PROVE FALSE OBVIOUS
  <1>. DEFINE S == {r \in Paths : Stands(l, r) /\ r # p}
  <1>1. q # Root BY AboveTypes
  <1>2. Up[q] \in S BY <1>1, TreeAssumption DEF Treelike, Bare
  <1>3. Closed(S) BY TreeAssumption DEF Closed, Treelike, Stands, Bare
  <1>. QED BY <1>1, <1>2, <1>3, AboveLeast

LEMMA LeafIsBare ==
  ASSUME NEW l, Treelike(l), NEW p \in Paths, ~Stands(l, p)
  PROVE  Bare(l, p)
  BY TreeAssumption DEF Treelike, Bare

\* What stands, and what is missing beside it, has nothing in its way.
LEMMA ClearAbove ==
  ASSUME NEW l, Treelike(l), NEW p \in Paths, NEW q \in Paths, l[q] # None, Up[q] = Up[p], p # Root, q # Root
  PROVE  Clear(l, p)
  <1>1. Above[p] = Above[q] BY AboveUp
  <1>. QED BY <1>1, AncestorsStand DEF Clear, Stands

LEMMA MadeDirs ==
  ASSUME NEW l, Treelike(l), NEW p \in Paths, Clear(l, p), l[p] # None => l[p].kind = "dir",
         NEW m, m = MakeDirs(l, p)
  PROVE  /\ Treelike(m) /\ Stands(m, p)
         /\ Keeps(l, m, {}) /\ Adds(l, m, Above[p] \cup {p})
  <1>. DEFINE chain == Above[p] \cup {p}
              missing == {q \in chain : l[q] = None}
  <1>1. chain \in SUBSET Paths /\ Closed(chain)
    BY AboveTypes, AboveUp, TreeAssumption DEF Closed
  <1>2. m = [q \in Paths |->
           IF q \in missing THEN NewDir
           ELSE IF \E c \in missing : Up[c] = q THEN [l[q] EXCEPT !.mtime = Now] ELSE l[q]]
    BY DEF MakeDirs
  <1>3. \A q \in Paths : (\E c \in missing : Up[c] = q) /\ q \notin missing
          => Stands(l, q) /\ l[q] \in Items
    BY <1>1, SlotItem DEF Closed, Clear, Stands, Treelike
  <1>4. \A q \in Paths : l[q] # None => Alike(l[q], m[q])
    BY <1>2, <1>3 DEF Alike, Stands
  <1>5. \A q \in Paths : l[q] # None => l[q] \in Items
    BY SlotItem DEF Treelike
  <1>6. \A q \in Paths : l[q] = None => m[q] = IF q \in chain THEN NewDir ELSE None
    BY <1>2, <1>3, NewDirItem DEF Stands
  <1>7. \A q \in chain : Stands(m, q)
    <2>. SUFFICES ASSUME NEW q \in chain PROVE Stands(m, q) OBVIOUS
    <2>1. CASE l[q] = None BY <1>1, <1>6, <2>1, NewDirItem DEF Stands
    <2>2. CASE l[q] # None
      <3>1. l[q].kind = "dir" BY <2>2 DEF Clear
      <3>. QED BY <1>1, <1>4, <1>5, <2>2, <3>1, AlikeItem DEF Stands
    <2>. QED BY <2>1, <2>2
  <1>8. \A q \in Paths : Stands(l, q) => Stands(m, q)
    BY <1>4, <1>5, AlikeItem DEF Stands
  <1>9. m \in [Paths -> Slot]
    <2>. SUFFICES ASSUME NEW q \in Paths PROVE m[q] \in Slot BY <1>2
    <2>1. CASE l[q] = None BY <1>6, <2>1, NewDirItem DEF Slot
    <2>2. CASE l[q] # None BY <1>4, <1>5, <2>2, AlikeItem DEF Slot
    <2>. QED BY <2>1, <2>2
  <1>10. \A q \in Paths \ {Root} : m[q] # None => Stands(m, Up[q])
    <2>. SUFFICES ASSUME NEW q \in Paths \ {Root}, m[q] # None PROVE Stands(m, Up[q]) OBVIOUS
    <2>1. CASE q \in chain BY <1>1, <1>7, <2>1 DEF Closed
    <2>2. CASE q \notin chain
      <3>1. l[q] # None BY <1>6, <2>2
      <3>. QED BY <1>8, <3>1, TreeAssumption DEF Treelike
    <2>. QED BY <2>1, <2>2
  <1>11. m[Root] # None => m[Root].kind = "dir"
    <2>1. CASE l[Root] = None BY <1>6, <2>1, NewDirItem, TreeAssumption
    <2>2. CASE l[Root] # None
      <3>1. Stands(l, Root) BY <2>2 DEF Treelike, Stands
      <3>. QED BY <1>8, <3>1, TreeAssumption DEF Stands
    <2>. QED BY <2>1, <2>2
  <1>. QED BY <1>4, <1>6, <1>7, <1>9, <1>10, <1>11 DEF Treelike, Keeps, Adds

LEMMA PutMakes ==
  ASSUME NEW l, Treelike(l), NEW p \in Paths \ {Root}, Clear(l, p),
         NEW item \in Items, item.kind = "dir" \/ Bare(l, p),
         NEW m, m = Put(l, p, item)
  PROVE  /\ Treelike(m) /\ m[p] = item
         /\ Keeps(l, m, {p}) /\ Adds(l, m, Above[p] \cup {p})
  <1>. DEFINE u == Up[p]
              n == MakeDirs(l, u)
  <1>0. u \in Paths /\ u # p /\ Above[p] = Above[u] \cup {u}
    BY AboveUp, TreeAssumption
  <1>1. /\ Treelike(n) /\ Stands(n, u)
        /\ Keeps(l, n, {}) /\ Adds(l, n, Above[u] \cup {u})
    <2>1. Clear(l, u) /\ (l[u] # None => l[u].kind = "dir") BY <1>0 DEF Clear
    <2>. HIDE DEF u
    <2>. QED BY <1>0, <2>1, MadeDirs
  <1>2. m = [n EXCEPT ![p] = item, ![u].mtime = Now] BY DEF Put
  <1>. HIDE DEF n, u
  <1>3. n[u] \in Items /\ n[u].kind = "dir"
    BY <1>0, <1>1, SlotItem DEF Treelike, Stands
  <1>4. /\ m \in [Paths -> Slot] /\ m[p] = item
        /\ m[u] = [n[u] EXCEPT !.mtime = Now]
        /\ \A q \in Paths \ {p, u} : m[q] = n[q]
    <2>1. [n[u] EXCEPT !.mtime = Now] \in Items BY <1>3, ItemAssumption DEF Items
    <2>. QED BY <1>0, <1>1, <1>2, <2>1 DEF Treelike, Slot
  <1>5. \A q \in Paths \ {p} : n[q] # None => Alike(n[q], m[q])
    BY <1>3, <1>4 DEF Alike
  <1>6. \A q \in Paths : n[q] # None => n[q] \in Items
    BY <1>1, SlotItem DEF Treelike
  <1>7. Keeps(l, m, {p})
    <2>. SUFFICES ASSUME NEW q \in Paths \ {p}, l[q] # None PROVE Alike(l[q], m[q])
      BY DEF Keeps
    <2>1. l[q] \in Items BY SlotItem DEF Treelike
    <2>2. Alike(l[q], n[q]) BY <1>1 DEF Keeps
    <2>3. n[q] # None BY <2>1, <2>2, AlikeItem
    <2>. QED BY <1>5, <2>1, <2>2, <2>3, AlikeTrans
  <1>8. Adds(l, m, Above[p] \cup {p})
    BY <1>0, <1>1, <1>4 DEF Adds
  <1>9. \A q \in Paths \ {p} : Stands(n, q) => Stands(m, q)
    BY <1>5, <1>6, AlikeItem DEF Stands
  <1>10. m[Root] # None => m[Root].kind = "dir"
    <2>1. m[Root] # None => n[Root] # None BY <1>0, <1>3, <1>4, NoneIsNoItem, TreeAssumption
    <2>2. n[Root] # None => Stands(n, Root) BY <1>1 DEF Treelike, Stands
    <2>. QED BY <1>9, <2>1, <2>2, TreeAssumption DEF Stands
  <1>11. \A q \in Paths \ {Root} : m[q] # None => Stands(m, Up[q])
    <2>. SUFFICES ASSUME NEW q \in Paths \ {Root}, m[q] # None PROVE Stands(m, Up[q]) OBVIOUS
    <2>1. CASE q = p BY <1>0, <1>1, <1>9, <2>1 DEF u
    <2>2. CASE q # p
      <3>1. n[q] # None BY <1>0, <1>3, <1>4, <2>2, NoneIsNoItem
      <3>2. Stands(n, Up[q]) BY <1>1, <3>1 DEF Treelike
      <3>3. CASE Up[q] # p BY <1>9, <3>2, <3>3, TreeAssumption
      <3>4. CASE Up[q] = p
        <4>1. q \notin Above[p] BY <3>4, AboveKey, TreeAssumption
        <4>2. l[q] # None BY <1>0, <1>1, <3>1, <4>1 DEF Adds
        <4>3. item.kind = "dir" BY <3>4, <4>2 DEF Bare
        <4>. QED BY <1>4, <3>4, <4>3, NoneIsNoItem DEF Stands
      <3>. QED BY <3>3, <3>4
    <2>. QED BY <2>1, <2>2
  <1>. QED BY <1>4, <1>7, <1>8, <1>10, <1>11 DEF Treelike

LEMMA RemovedLeaves ==
  ASSUME NEW l, Treelike(l), NEW p \in Paths \ {Root}, l[p] # None,
         NEW m, m = Removed(l, p), NEW S, S = {q \in Paths : InSubtree(p, q)}
  PROVE  /\ Treelike(m) /\ \A q \in S : m[q] = None
         /\ Keeps(l, m, S) /\ Adds(l, m, {})
  <1>. DEFINE u == Up[p]
              n == [q \in Paths |-> IF q \in S THEN None ELSE l[q]]
  <1>0. u \in Paths /\ u \notin S
    <2>1. p \notin Above[u] BY AboveKey, TreeAssumption
    <2>. QED BY <2>1, TreeAssumption DEF InSubtree
  <1>1. m = [n EXCEPT ![u].mtime = Now]
    BY DEF Removed
  <1>2. l[u] \in Items /\ l[u].kind = "dir"
    BY <1>0, SlotItem DEF Treelike, Stands
  <1>3. [l[u] EXCEPT !.mtime = Now] \in Items
    BY <1>2, ItemAssumption DEF Items
  <1>4. n[u] = l[u] BY <1>0
  <1>5. /\ m \in [Paths -> Slot]
        /\ m[u] = [l[u] EXCEPT !.mtime = Now]
        /\ \A q \in Paths \ {u} : m[q] = IF q \in S THEN None ELSE l[q]
    <2>1. m = [q \in Paths |-> IF q = u THEN [l[u] EXCEPT !.mtime = Now] ELSE n[q]]
      BY <1>1, <1>4
    <2>. QED BY <1>0, <1>3, <2>1 DEF Treelike, Slot
  <1>. HIDE DEF n, u
  <1>6. Keeps(l, m, S) BY <1>0, <1>2, <1>5 DEF Keeps, Alike
  <1>7. Adds(l, m, {}) BY <1>0, <1>2, <1>5, NoneIsNoItem DEF Adds
  <1>8. \A q \in S : m[q] = None BY <1>0, <1>5
  <1>9. \A q \in Paths \ S : Stands(l, q) => Stands(m, q)
    <2>. SUFFICES ASSUME NEW q \in Paths \ S, Stands(l, q) PROVE Stands(m, q) OBVIOUS
    <2>1. l[q] \in Items /\ l[q].kind = "dir" BY SlotItem DEF Treelike, Stands
    <2>2. Alike(l[q], m[q]) BY <1>6 DEF Keeps, Stands
    <2>. QED BY <2>1, <2>2, AlikeItem DEF Stands
  <1>10. \A q \in Paths : m[q] # None => l[q] # None /\ q \notin S
    BY <1>7, <1>8 DEF Adds
  <1>11. m[Root] # None => m[Root].kind = "dir"
    BY <1>9, <1>10, TreeAssumption DEF Treelike, Stands
  <1>12. \A q \in Paths \ {Root} : m[q] # None => Stands(m, Up[q])
    <2>. SUFFICES ASSUME NEW q \in Paths \ {Root}, m[q] # None PROVE Stands(m, Up[q]) OBVIOUS
    <2>1. l[q] # None /\ q \notin S BY <1>10
    <2>2. Stands(l, Up[q]) /\ Up[q] \in Paths BY <2>1, TreeAssumption DEF Treelike
    <2>3. Up[q] \notin S
      BY <2>1, AboveUp DEF InSubtree
    <2>. QED BY <1>9, <2>2, <2>3
  <1>. QED BY <1>5, <1>6, <1>7, <1>8, <1>11, <1>12 DEF Treelike

\* The root, made where there is none.
LEMMA PutRoot ==
  ASSUME NEW l, Treelike(l), NEW m, m = Put(l, Root, NewDir)
  PROVE  Treelike(m) /\ Stands(m, Root) /\ Keeps(l, m, {Root}) /\ Adds(l, m, {Root})
  <1>. DEFINE n == MakeDirs(l, Root)
  <1>1. Treelike(n) /\ Stands(n, Root) /\ Keeps(l, n, {}) /\ Adds(l, n, {Root})
    <2>1. Clear(l, Root) /\ (l[Root] # None => l[Root].kind = "dir")
      BY AboveTypes DEF Clear, Treelike
    <2>2. Above[Root] \cup {Root} = {Root} BY AboveTypes
    <2>. HIDE DEF n
    <2>3. \A k : k = MakeDirs(l, Root) =>
            Treelike(k) /\ Stands(k, Root) /\ Keeps(l, k, {}) /\ Adds(l, k, Above[Root] \cup {Root})
      BY <2>1, MadeDirs, TreeAssumption
    <2>. QED BY <2>2, <2>3 DEF n
  <1>2. m = [n EXCEPT ![Root] = NewDir, ![Root].mtime = Now]
    BY TreeAssumption DEF Put
  <1>. HIDE DEF n
  <1>3. [NewDir EXCEPT !.mtime = Now] = NewDir
    BY DEF NewDir
  <1>4. m = [n EXCEPT ![Root] = NewDir]
    BY <1>1, <1>2, <1>3, TreeAssumption DEF Treelike
  <1>5. \A q \in Paths : Stands(n, q) => Stands(m, q)
    BY <1>1, <1>4, NewDirItem DEF Stands, Treelike
  <1>6. m \in [Paths -> Slot] /\ Stands(m, Root)
    BY <1>1, <1>4, NewDirItem, TreeAssumption DEF Treelike, Slot, Stands
  <1>7. \A q \in Paths \ {Root} : m[q] = n[q]
    BY <1>1, <1>4 DEF Treelike
  <1>8. \A q \in Paths \ {Root} : m[q] # None => Stands(m, Up[q])
    BY <1>1, <1>5, <1>7, TreeAssumption DEF Treelike
  <1>. QED BY <1>1, <1>6, <1>7, <1>8 DEF Treelike, Stands, Keeps, Adds

\* A tree whose items changed in place: none came, none went, each kept its kind.
LEMMA ChangedInPlace ==
  ASSUME NEW l, Treelike(l), NEW m \in [Paths -> Slot],
         \A p \in Paths : IF l[p] = None THEN m[p] = None
                          ELSE m[p] # None /\ m[p].kind = l[p].kind
  PROVE  Treelike(m) /\ Adds(l, m, {})
  BY TreeAssumption DEF Treelike, Stands, Adds

LEMMA ChangedAt ==
  ASSUME NEW l, Treelike(l), NEW p \in Paths, l[p] # None,
         NEW y \in Items, y.kind = l[p].kind, NEW m, m = [l EXCEPT ![p] = y]
  PROVE  Treelike(m) /\ Keeps(l, m, {p}) /\ Adds(l, m, {}) /\ m[p] = y
  <1>1. m \in [Paths -> Slot] /\ m[p] = y /\ \A q \in Paths \ {p} : m[q] = l[q]
    BY DEF Treelike, Slot
  <1>2. y # None BY NoneIsNoItem
  <1>3. \A q \in Paths : IF l[q] = None THEN m[q] = None ELSE m[q] # None /\ m[q].kind = l[q].kind
    BY <1>1, <1>2
  <1>4. Treelike(m) /\ Adds(l, m, {}) BY <1>1, <1>3, ChangedInPlace
  <1>. QED BY <1>1, <1>4 DEF Keeps, Alike

LEMMA EmptyTree ==
  ASSUME NEW l, Treelike(l), l[Root] = None, NEW p \in Paths
  PROVE  l[p] = None
  BY RootAbove, AncestorsStand DEF Stands

LEMMA DiskIs ==
  ASSUME NEW l, NEW p \in Paths, NEW d, d = DiskIn(l, p)
  PROVE  /\ d \in Paths
         /\ d # p => /\ d = Twin[p] /\ l[p] = None /\ l[d] # None
                     /\ p # Root /\ d # Root /\ Up[d] = Up[p]
  BY TreeAssumption, NoneIsNoItem DEF DiskIn

\* The chain of directories a download needs, in order.
LEMMA AscendingIs ==
  ASSUME NEW S \in SUBSET Paths
  PROVE  /\ Cardinality(S) \in Nat /\ Ascending(S) \in [1..Cardinality(S) -> S]
         /\ \A m, n \in 1..Cardinality(S) : m < n => DirKey[Ascending(S)[m]] < DirKey[Ascending(S)[n]]
  <1>. DEFINE InOrder(T, s) == /\ s \in [1..Cardinality(T) -> T]
                               /\ \A m, n \in 1..Cardinality(T) : m < n => DirKey[s[m]] < DirKey[s[n]]
  <1>1. \A T \in SUBSET Paths : IsFiniteSet(T) /\ Cardinality(T) \in Nat
    BY FS_Subset, FS_CardinalityType, TreeAssumption
  <1>2. \A T \in SUBSET Paths : \E s : InOrder(T, s)
    <2>. DEFINE Bad == {T \in SUBSET Paths : ~\E s : InOrder(T, s)}
                K == {Cardinality(T) : T \in Bad}
    <2>. SUFFICES ASSUME Bad # {} PROVE FALSE OBVIOUS
    <2>1. \E x \in K : \A y \in K : x <= y
      <3>1. K \in SUBSET Nat /\ K # {} BY <1>1
      <3>. HIDE DEF K
      <3>. QED BY <3>1, LeastNumber
    <2>2. PICK T \in Bad : \A U \in Bad : Cardinality(T) <= Cardinality(U)
      BY <2>1
    <2>3. T # {}
      <3>. SUFFICES ASSUME T = {} PROVE FALSE OBVIOUS
      <3>1. Cardinality(T) = 0 BY FS_EmptySet
      <3>2. InOrder(T, [n \in 1..0 |-> Root]) BY <3>1
      <3>. QED BY <2>2, <3>2
    <2>4. PICK p \in T : \A q \in T : DirKey[p] <= DirKey[q]
      BY <2>3, LeastKey, TreeAssumption
    <2>. DEFINE U == T \ {p}
                n == Cardinality(U)
    <2>5. n \in Nat /\ Cardinality(T) = n + 1 /\ U \in SUBSET Paths
      <3>1. T \in SUBSET Paths /\ U \in SUBSET Paths BY <2>2
      <3>2. Cardinality(U) = Cardinality(T) - 1 BY <1>1, <2>4, <3>1, FS_RemoveElement
      <3>3. Cardinality(U) \in Nat /\ Cardinality(T) \in Nat BY <1>1, <3>1
      <3>. QED BY <3>1, <3>2, <3>3
    <2>6. U \notin Bad
      <3>1. ~(n + 1 <= n)
        <4>1. n \in Nat BY <2>5
        <4>. HIDE DEF n
        <4>. QED BY <4>1
      <3>2. ~(Cardinality(T) <= Cardinality(U)) BY <2>5, <3>1, Zenon
      <3>. QED BY <2>2, <3>2
    <2>7. PICK s : InOrder(U, s) BY <2>5, <2>6
    <2>. DEFINE t == [i \in 1..n + 1 |-> IF i = 1 THEN p ELSE s[i - 1]]
    <2>. HIDE DEF n
    <2>8. s \in [1..n -> U] /\ \A i, j \in 1..n : i < j => DirKey[s[i]] < DirKey[s[j]]
      BY <2>7 DEF n
    <2>9. t \in [1..n + 1 -> T]
      <3>. SUFFICES ASSUME NEW i \in 1..n + 1 PROVE t[i] \in T OBVIOUS
      <3>1. CASE i = 1 BY <2>4, <3>1
      <3>2. CASE i # 1
        <4>1. i - 1 \in 1..n BY <2>5, <3>2
        <4>. QED BY <2>8, <3>2, <4>1
      <3>. QED BY <3>1, <3>2
    <2>10. ASSUME NEW i \in 1..n + 1, NEW j \in 1..n + 1, i < j
           PROVE  DirKey[t[i]] < DirKey[t[j]]
      <3>1. j # 1 /\ j - 1 \in 1..n BY <2>5, <2>10
      <3>2. t[j] = s[j - 1] /\ s[j - 1] \in T \ {p} BY <2>8, <3>1
      <3>3. CASE i = 1
        <4>1. t[i] = p BY <3>3
        <4>2. p \in Paths /\ s[j - 1] \in Paths /\ s[j - 1] # p BY <2>4, <3>2
        <4>. QED BY <2>4, <3>2, <4>1, <4>2, KeysDiffer
      <3>4. CASE i # 1
        <4>1. i - 1 \in 1..n /\ i - 1 < j - 1 BY <2>5, <2>10, <3>4
        <4>. QED BY <2>8, <3>1, <3>2, <3>4, <4>1
      <3>. QED BY <3>3, <3>4
    <2>11. InOrder(T, t) BY <2>5, <2>9, <2>10
    <2>. QED BY <2>2, <2>11
  <1>3. \E s \in [1..Cardinality(S) -> S] :
          \A m, n \in 1..Cardinality(S) : m < n => DirKey[s[m]] < DirKey[s[n]]
    BY <1>2
  <1>. QED BY <1>1, <1>3 DEF Ascending

LEMMA GreatestKey ==
  ASSUME NEW S \in SUBSET Paths, S # {}
  PROVE  \E p \in S : \A q \in S : DirKey[q] <= DirKey[p]
  <1>. DEFINE HasGreatest(T) == \E p \in T : \A q \in T : DirKey[q] <= DirKey[p]
              Bad == {T \in SUBSET Paths : T # {} /\ ~HasGreatest(T)}
              K == {Cardinality(T) : T \in Bad}
  <1>1. \A T \in SUBSET Paths : IsFiniteSet(T) /\ Cardinality(T) \in Nat
    BY FS_Subset, FS_CardinalityType, TreeAssumption
  <1>. SUFFICES ASSUME Bad # {} PROVE FALSE OBVIOUS
  <1>2. \E x \in K : \A y \in K : x <= y
    <2>1. K \in SUBSET Nat /\ K # {} BY <1>1
    <2>. HIDE DEF K
    <2>. QED BY <2>1, LeastNumber
  <1>3. PICK T \in Bad : \A U \in Bad : Cardinality(T) <= Cardinality(U)
    BY <1>2
  <1>4. PICK p \in T : TRUE BY <1>3
  <1>5. Cardinality(T \ {p}) < Cardinality(T)
    <2>1. Cardinality(T \ {p}) = Cardinality(T) - 1 BY <1>1, <1>4, FS_RemoveElement
    <2>. QED BY <1>1, <2>1
  <1>6. T \ {p} \notin Bad
    <2>1. Cardinality(T) \in Nat /\ Cardinality(T \ {p}) \in Nat BY <1>1, <1>3
    <2>2. ~(Cardinality(T) <= Cardinality(T \ {p})) BY <1>5, <2>1
    <2>. QED BY <1>3, <2>2
  <1>7. CASE T \ {p} = {}
    <2>1. T \in SUBSET Paths /\ \A q \in T : q = p
      <3>1. T \in SUBSET Paths BY <1>3
      <3>. HIDE DEF Bad
      <3>. QED BY <1>7, <3>1
    <2>2. DirKey[p] <= DirKey[p] BY <1>4, <2>1, KeysDiffer
    <2>. QED BY <1>3, <1>4, <2>1, <2>2
  <1>8. CASE T \ {p} # {}
    <2>1. PICK q \in T \ {p} : \A r \in T \ {p} : DirKey[r] <= DirKey[q]
      BY <1>6, <1>8
    <2>2. CASE DirKey[p] <= DirKey[q] BY <1>3, <2>1, <2>2, TreeAssumption
    <2>3. CASE ~(DirKey[p] <= DirKey[q])
      BY <1>3, <1>4, <2>1, <2>3, TreeAssumption
    <2>. QED BY <2>2, <2>3
  <1>. QED BY <1>7, <1>8

-----------------------------------------------------------------------------
(* The inductive invariant of the types and of the two stacks.             *)

Frames  == [path : Paths, resettle : BOOLEAN, dirty : BOOLEAN]
Entries == [path : Paths, kept : BOOLEAN]
Lines   == [say : {"D", "K", "G"}, key : Nat]
Given   == \E w \in Worlds : rec = w.rec /\ obj = w.obj /\ opts = w.opts

Typed ==
  /\ Given /\ Treelike(loc) /\ Treelike(orig)
  /\ phase \in {"start", "vet", "make", "prep", "sync", "apply", "place", "settle", "extras", "done"}
  /\ at \in Nat /\ cur \in Nat \ {0} /\ pass \in {1, 2} /\ mishaps \in Nat
  /\ todo \in SUBSET {p \in Paths \ {Root} : obj[p] # None}
  /\ spool \in Seq(Lines) /\ prep \in [Paths -> Modes \cup {None}]
  /\ frames \in Seq(Frames) /\ deferred \in Seq(Paths) /\ post \in SUBSET Paths
  /\ open \in Seq(Entries) /\ gone \in SUBSET Paths /\ asked \in SUBSET Paths
  /\ told \in SUBSET Paths /\ bad \in BOOLEAN /\ status \in {None, "ok", "failed", "cut"}

DirRec(p)  == rec[p] # None /\ rec[p].kind = "dir"
LinkRec(p) == rec[p] # None /\ rec[p].kind = "link"

\* The open directories of the apply are recorded, one in another, and behind
\* the stream; so are those of remove_extras, where no leaf is recorded.
FramesFit ==
  /\ \A n \in 1..Len(frames) :
       DirRec(frames[n].path) /\ (phase = "apply" => DirKey[frames[n].path] < at)
  /\ \A m, n \in 1..Len(frames) : m < n => frames[m].path \in Above[frames[n].path]
  /\ phase \notin {"apply", "done"} => frames = <<>>
OpenFits ==
  /\ \A n \in 1..Len(open) :
       /\ open[n].path # Root /\ open[n].path \notin Nondirs
       /\ phase = "extras" => DirKey[open[n].path] < at /\ Stands(loc, open[n].path)
  /\ \A m, n \in 1..Len(open) : m < n => open[m].path \in Above[open[n].path]
  /\ phase \notin {"extras", "done"} \/ opts.delete = "no" => open = <<>>
LastFits ==
  /\ \A n \in 1..Len(deferred) : LinkRec(deferred[n])
  /\ \A p \in post : DirRec(p)
  /\ phase \notin {"apply", "place", "done"} => deferred = <<>> /\ post = {}
PrepFits == phase \in {"start", "vet", "make", "prep", "extras", "done"} => prep = NoPrep
Refused  == phase \notin {"start", "done"} => ~Unrestorable

\* Where the vetting has just removed a link, nothing stands, in directories.
MakeFits ==
  phase = "make" =>
    \E q \in Positions : DirKey[q] = at /\ loc[q] = None /\ \A a \in Above[q] : Stands(loc, a)

Inv == Typed /\ FramesFit /\ OpenFits /\ LastFits /\ PrepFits /\ Refused /\ MakeFits

USE DEF world, syncing, applying, pruning

\* The worlds' types, of the record, the bucket and the options.
LEMMA GivenFacts ==
  ASSUME Given
  PROVE  /\ obj \in [Paths -> Data \cup {None}]
         /\ opts \in [update : BOOLEAN, checksum : BOOLEAN, excluded : SUBSET Nat,
                       delete : {"off", "no", "ask", "yes"}]
         /\ \A p \in Paths : rec[p] # None =>
              /\ rec[p].kind \in Kinds /\ rec[p].mode \in Modes
              /\ rec[p].mtime \in Nat \cup {NoMtime}
              /\ rec[p].kind = "link" => rec[p].what \in Data
         /\ rec[Root] # None => rec[Root].kind = "dir"
  BY WorldAssumption DEF Given

LEMMA FrontIs ==
  ASSUME NEW S, NEW s \in Seq(S), s # <<>>, NEW f, f = Front(s)
  PROVE  /\ Len(s) \in Nat \ {0} /\ s[Len(s)] \in S
         /\ f \in Seq(S) /\ Len(f) = Len(s) - 1 /\ \A n \in 1..Len(s) - 1 : f[n] = s[n]
  <1>1. Len(s) \in Nat \ {0} /\ \A i \in 1..Len(s) : s[i] \in S
    BY EmptySeq, ElementOfSeq
  <1>. DEFINE n == Len(s) - 1
  <1>2. n \in Int /\ 1 \in Int /\ \A i \in 1..n : s[i] \in S
    BY <1>1
  <1>3. /\ SubSeq(s, 1, n) \in Seq(S)
        /\ Len(SubSeq(s, 1, n)) = IF 1 <= n THEN n-1+1 ELSE 0
        /\ \A i \in 1..(n-1+1) : SubSeq(s, 1, n)[i] = s[1+i-1]
    <2>. HIDE DEF n
    <2>. QED BY <1>2, SubSeqProperties
  <1>4. f = SubSeq(s, 1, n)
    BY DEF Front
  <1>5. n \in Nat /\ n = Len(s) - 1 /\ Len(s) \in 1..Len(s)
    BY <1>1
  <1>. HIDE DEF n
  <1>6. Len(f) = n /\ \A i \in 1..n : f[i] = s[i]
    BY <1>1, <1>3, <1>4, <1>5
  <1>. QED BY <1>1, <1>3, <1>4, <1>5, <1>6

LEMMA KeepsTrans ==
  ASSUME NEW l, Treelike(l), NEW n, Treelike(n), NEW m, NEW S, NEW T,
         Keeps(l, n, S), Keeps(n, m, T)
  PROVE  Keeps(l, m, S \cup T)
  <1>. SUFFICES ASSUME NEW q \in Paths \ (S \cup T), l[q] # None PROVE Alike(l[q], m[q])
    BY DEF Keeps
  <1>1. l[q] \in Items /\ Alike(l[q], n[q]) BY SlotItem DEF Treelike, Keeps
  <1>2. n[q] # None BY <1>1, AlikeItem
  <1>3. Alike(n[q], m[q]) BY <1>2 DEF Keeps
  <1>. QED BY <1>1, <1>3, AlikeTrans

-----------------------------------------------------------------------------
(* The writes of a pull, as changes of the tree.                           *)

LEMMA FoundIs ==
  ASSUME Treelike(loc), NEW p \in Paths, NEW d, d = Disk(p)
  PROVE  /\ d \in Paths /\ Found(p) = loc[d] /\ (Found(p) # None => Found(p) \in Items)
         /\ d # p => /\ d = Twin[p] /\ loc[p] = None /\ loc[d] # None
                     /\ p # Root /\ d # Root /\ Up[d] = Up[p]
         /\ Above[d] = Above[p]
  <1>1. /\ d \in Paths
        /\ d # p => /\ d = Twin[p] /\ loc[p] = None /\ loc[d] # None
                    /\ p # Root /\ d # Root /\ Up[d] = Up[p]
    BY DiskIs DEF Disk
  <1>2. Found(p) = loc[d] BY DEF Found
  <1>3. Above[d] = Above[p] BY <1>1, AboveUp
  <1>. QED BY <1>1, <1>2, <1>3, SlotItem DEF Treelike

Swept(p) == {q \in Paths : InSubtree(Disk(p), q)}

LEMMA ClearedIs ==
  ASSUME Treelike(loc), NEW p \in Paths \ {Root}, ~Blocked(p), NEW c, c = Cleared(p)
  PROVE  /\ Treelike(c) /\ c[p] = None /\ Clear(c, p)
         /\ Keeps(loc, c, Swept(p)) /\ Adds(loc, c, {})
  <1>. DEFINE d == Disk(p)
  <1>0. d \in Paths \ {Root} /\ Found(p) = loc[d] /\ (d # p => loc[p] = None)
    BY FoundIs
  <1>. HIDE DEF d
  <1>1. /\ Treelike(c) /\ Keeps(loc, c, Swept(p)) /\ Adds(loc, c, {}) /\ c[p] = None
    <2>1. CASE loc[d] = None
      <3>1. c = loc BY <1>0, <2>1 DEF Cleared
      <3>2. loc[p] = None BY <1>0, <2>1
      <3>. QED BY <3>1, <3>2 DEF Keeps, Adds, Alike
    <2>2. CASE loc[d] # None
      <3>1. c = Removed(loc, d) BY <1>0, <2>2 DEF Cleared, d
      <3>2. Swept(p) = {q \in Paths : InSubtree(d, q)} BY DEF Swept, d
      <3>3. /\ Treelike(c) /\ \A q \in Swept(p) : c[q] = None
            /\ Keeps(loc, c, Swept(p)) /\ Adds(loc, c, {})
        BY <1>0, <2>2, <3>1, <3>2, RemovedLeaves
      <3>4. d = p => p \in Swept(p) BY <3>2 DEF InSubtree
      <3>. QED BY <1>0, <3>3, <3>4 DEF Adds
    <2>. QED BY <2>1, <2>2
  <1>2. Clear(c, p)
    <2>. SUFFICES ASSUME NEW q \in Above[p], c[q] # None PROVE c[q].kind = "dir"
      BY DEF Clear
    <2>1. q \in Paths BY AboveTypes
    <2>2. loc[q] # None BY <1>1, <2>1 DEF Adds
    <2>3. loc[q] \in Items /\ loc[q].kind = "dir" BY <2>1, <2>2, SlotItem DEF Treelike, Blocked
    <2>4. q \notin Swept(p)
      <3>. SUFFICES ASSUME q \in Swept(p) PROVE FALSE OBVIOUS
      <3>1. Above[d] = Above[p] BY FoundIs DEF d
      <3>2. q = d \/ d \in Above[q] BY DEF Swept, InSubtree, d
      <3>3. d \in Above[d] BY <1>0, <2>1, <3>1, <3>2, AboveTrans
      <3>. QED BY <1>0, <3>3, AboveKey
    <2>5. Alike(loc[q], c[q]) BY <1>1, <2>1, <2>2, <2>4 DEF Keeps
    <2>. QED BY <2>3, <2>5, AlikeItem
  <1>. QED BY <1>1, <1>2

LEMMA Placed ==
  ASSUME Treelike(loc), NEW p \in Paths \ {Root}, ~Blocked(p),
         NEW item \in Items, NEW m, m = Put(Cleared(p), p, item)
  PROVE  /\ Treelike(m) /\ m[p] = item
         /\ Keeps(loc, m, {p} \cup Swept(p)) /\ Adds(loc, m, Above[p] \cup {p})
  <1>1. PICK c : c = Cleared(p) OBVIOUS
  <1>2. /\ Treelike(c) /\ c[p] = None /\ Clear(c, p)
        /\ Keeps(loc, c, Swept(p)) /\ Adds(loc, c, {})
    BY <1>1, ClearedIs
  <1>3. Bare(c, p) BY <1>2, LeafIsBare DEF Stands
  <1>4. m = Put(c, p, item) BY <1>1
  <1>5. /\ Treelike(m) /\ m[p] = item
        /\ Keeps(c, m, {p}) /\ Adds(c, m, Above[p] \cup {p})
    BY <1>2, <1>3, <1>4, PutMakes
  <1>6. Keeps(loc, m, Swept(p) \cup {p}) BY <1>2, <1>5, KeepsTrans
  <1>7. Swept(p) \cup {p} = {p} \cup Swept(p) OBVIOUS
  <1>. QED BY <1>2, <1>5, <1>6, <1>7 DEF Adds

\* Nothing but the item itself goes where no directory is in the way.
LEMMA SweptLeaf ==
  ASSUME Treelike(loc), NEW p \in Paths \ {Root}, ~IsDir(p), NEW m, Keeps(loc, m, {p} \cup Swept(p))
  PROVE  Keeps(loc, m, {p, Disk(p)})
  <1>. PICK k : k = Disk(p) OBVIOUS
  <1>1. k \in Paths \ {Root} /\ Found(p) = loc[k] BY FoundIs
  <1>2. ~Stands(loc, k) BY <1>1 DEF IsDir, Stands
  <1>3. \A q \in Swept(p) : q # k => loc[q] = None
    <2>1. Bare(loc, k) BY <1>1, <1>2, LeafIsBare
    <2>. QED BY <1>1, <2>1, NothingIn DEF Swept, InSubtree
  <1>. QED BY <1>3 DEF Keeps

\* Removing what is no directory removes nothing else.
LEMMA RemovedAlone ==
  ASSUME Treelike(loc), NEW p \in Paths \ {Root}, Found(p) # None, ~IsDir(p),
         NEW m, m = Removed(loc, Disk(p))
  PROVE  /\ Treelike(m) /\ m[p] = None /\ m[Disk(p)] = None
         /\ Keeps(loc, m, {Disk(p)}) /\ Adds(loc, m, {})
  <1>. PICK d : d = Disk(p) OBVIOUS
  <1>1. d \in Paths \ {Root} /\ Found(p) = loc[d] /\ (d # p => loc[p] = None)
    BY FoundIs
  <1>2. PICK S : S = {q \in Paths : InSubtree(d, q)} OBVIOUS
  <1>3. Treelike(m) /\ Keeps(loc, m, S) /\ Adds(loc, m, {}) /\ \A q \in S : m[q] = None
    BY <1>1, <1>2, RemovedLeaves
  <1>4. d \in S BY <1>1, <1>2 DEF InSubtree
  <1>5. \A q \in S : q # d => loc[q] = None
    <2>1. ~Stands(loc, d) BY <1>1 DEF Stands, IsDir
    <2>2. Bare(loc, d) BY <1>1, <2>1, LeafIsBare
    <2>. QED BY <1>1, <1>2, <2>2, NothingIn DEF InSubtree
  <1>6. Keeps(loc, m, {d}) BY <1>3, <1>5 DEF Keeps
  <1>7. m[p] = None
    <2>1. CASE d = p BY <1>3, <1>4, <2>1
    <2>2. CASE d # p BY <1>1, <1>3, <2>2 DEF Adds
    <2>. QED BY <2>1, <2>2
  <1>. QED BY <1>3, <1>4, <1>6, <1>7

LEMMA FirstIs ==
  ASSUME NEW S \in SUBSET Paths, S # {}, NEW key \in [Paths -> Nat], NEW p, p = First(S, key)
  PROVE  p \in S /\ \A q \in S : key[p] <= key[q]
  BY LeastKey DEF First

LEMMA StampedItem ==
  ASSUME NEW r, r.mode \in Modes, r.mtime \in Nat \cup {NoMtime}, NEW i \in Items
  PROVE  Stamped(r, i) \in Items /\ Stamped(r, i).kind = i.kind /\ Stamped(r, i).data = i.data
         /\ Stamped(r, i).mode = r.mode
         /\ Stamped(r, i).mtime = IF r.mtime = NoMtime THEN i.mtime ELSE r.mtime
  BY DEF Stamped, Items

LEMMA LinkItem ==
  ASSUME NEW r, r.mtime \in Nat \cup {NoMtime}, r.what \in Data
  PROVE  LinkAt(r) \in Items /\ LinkAt(r).kind = "link"
  BY ItemAssumption DEF LinkAt, Items, Kinds

LEMMA RemodedItem ==
  ASSUME NEW i \in Items, NEW w \in Modes
  PROVE  LET j == [i EXCEPT !.mode = w] IN
         j \in Items /\ j.kind = i.kind /\ j.data = i.data /\ j.mtime = i.mtime
  BY DEF Items

\* The item the -u rule judges is the one found, but for the mode.
LEMMA UnpreppedIs ==
  ASSUME Typed, NEW p \in Paths
  PROVE  /\ Found(p) = None => Unprepped(p) = None
         /\ Found(p) # None => /\ Unprepped(p) \in Items /\ Unprepped(p) # None
                              /\ Unprepped(p).kind = Found(p).kind
                              /\ Unprepped(p).data = Found(p).data
                              /\ Unprepped(p).mtime = Found(p).mtime
  <1>1. CASE Found(p) = None BY <1>1 DEF Unprepped
  <1>2. CASE Found(p) # None /\ prep[p] = None
    BY <1>2, FoundIs DEF Unprepped, Typed
  <1>3. CASE Found(p) # None /\ prep[p] # None
    <2>1. Found(p) \in Items /\ prep[p] \in Modes BY <1>3, FoundIs DEF Typed
    <2>2. Unprepped(p) = [Found(p) EXCEPT !.mode = prep[p]] BY <1>3 DEF Unprepped
    <2>. QED BY <1>3, <2>1, <2>2, RemodedItem, NoneIsNoItem
  <1>. QED BY <1>1, <1>2, <1>3

\* The verdicts that write, and what they are reached on.
LEMMA VerdictWrites ==
  ASSUME NEW r, r.kind \in Kinds, NEW i, NEW d, NEW update \in BOOLEAN, NEW dangling,
         NEW v, v = ApplyVerdict(r, i, d, update, dangling)
  PROVE  /\ v \in {"place", "defer"} => r.kind = "link"
         /\ v = "dir" => r.kind = "dir"
         /\ v = "stamp" => i # None /\ i.kind = r.kind /\ r.kind \notin {"dir", "link"}
  BY DEF ApplyVerdict, ApplyLink, ApplyOther, Ordered, Repair, Kept, Kinds

\* What one record's verdict writes.
LEMMA EffectIs ==
  ASSUME Typed, NEW p \in Recorded, NEW d, NEW v, v = VerdictOn(p, d),
         Writes(p, v) => ~Blocked(p), v = "dir" /\ ~IsDir(p) => Found(p) = None,
         NEW m, m = Effect(p, v, d)
  PROVE  /\ Treelike(m) /\ Keeps(loc, m, {p} \cup Swept(p))
         /\ v \in {"place", "defer"} => LinkRec(p)
         /\ v = "dir" => DirRec(p)
         /\ v = "stamp" => /\ ~DirRec(p) /\ ~LinkRec(p) /\ Found(p) # None
                          /\ Found(p).kind = rec[p].kind
                          /\ m = [loc EXCEPT ![Disk(p)] = Stamped(rec[p], Found(p))]
         /\ v \notin {"stamp", "place", "dir"} /\ prep[p] = None => m = loc
         /\ v = "dir" => Keeps(loc, m, {p, Disk(p)})
  <1>0. p \in Paths /\ rec[p] # None BY DEF Recorded
  <1>1. /\ rec[p].kind \in Kinds /\ rec[p].mode \in Modes
        /\ rec[p].mtime \in Nat \cup {NoMtime}
        /\ rec[p].kind = "link" => rec[p].what \in Data
        /\ rec[Root] # None => rec[Root].kind = "dir"
        /\ opts.update \in BOOLEAN
    BY <1>0, GivenFacts DEF Typed
  <1>2. PICK i : i = IF opts.update /\ d # "D" THEN Unprepped(p) ELSE Found(p) OBVIOUS
  <1>3. Treelike(loc) BY DEF Typed
  <1>4. /\ v \in {"place", "defer"} => LinkRec(p)
        /\ v = "dir" => DirRec(p)
        /\ v = "stamp" => i # None /\ i.kind = rec[p].kind /\ ~DirRec(p) /\ ~LinkRec(p)
    <2>1. v = ApplyVerdict(rec[p], i, d, opts.update, Dangling(rec[p])) BY <1>2 DEF VerdictOn
    <2>. QED BY <1>0, <1>1, <2>1, VerdictWrites DEF LinkRec, DirRec
  <1>5. i # None => Found(p) # None /\ Found(p).kind = i.kind
    BY <1>0, <1>2, UnpreppedIs
  <1>6. PICK k : k = Disk(p) OBVIOUS
  <1>7. k \in Paths /\ Found(p) = loc[k] /\ (Found(p) # None => Found(p) \in Items) /\ k \in Swept(p)
    <2>1. k \in Swept(p) BY <1>0, <1>3, <1>6, FoundIs DEF Swept, InSubtree
    <2>. QED BY <1>0, <1>3, <1>6, <2>1, FoundIs
  <1>8. ASSUME m = loc
        PROVE  Treelike(m) /\ \A S : Keeps(loc, m, S)
    BY <1>3, <1>8 DEF Keeps, Alike
  <1>9. ASSUME NEW y \in Items, loc[k] # None, y.kind = loc[k].kind, m = [loc EXCEPT ![k] = y]
        PROVE  Treelike(m) /\ Keeps(loc, m, {p} \cup Swept(p))
    <2>. PICK n : n = [loc EXCEPT ![k] = y] OBVIOUS
    <2>0. Treelike(n) /\ Keeps(loc, n, {k}) BY <1>3, <1>7, <1>9, ChangedAt
    <2>1. Treelike(m) /\ Keeps(loc, m, {k}) BY <1>9, <2>0
    <2>. QED BY <1>7, <2>1 DEF Keeps
  <1>10. CASE v = "stamp"
    <2>1. Found(p) # None /\ Found(p).kind = rec[p].kind BY <1>4, <1>5, <1>10
    <2>2. m = [loc EXCEPT ![k] = Stamped(rec[p], Found(p))] BY <1>6, <1>10 DEF Effect
    <2>3. Stamped(rec[p], Found(p)) \in Items /\ Stamped(rec[p], Found(p)).kind = loc[k].kind
      BY <1>1, <1>7, <2>1, StampedItem
    <2>4. Treelike(m) /\ Keeps(loc, m, {p} \cup Swept(p)) BY <1>7, <1>9, <2>1, <2>2, <2>3
    <2>. QED BY <1>4, <1>6, <1>10, <2>1, <2>2, <2>4
  <1>11. CASE v = "place"
    <2>1. p # Root /\ LinkRec(p) BY <1>1, <1>4, <1>11 DEF LinkRec
    <2>2. ~Blocked(p) BY <1>11 DEF Writes
    <2>3. LinkAt(rec[p]) \in Items BY <1>1, <2>1, LinkItem DEF LinkRec
    <2>4. m = Put(Cleared(p), p, LinkAt(rec[p])) BY <1>11 DEF Effect
    <2>5. Treelike(m) /\ Keeps(loc, m, {p} \cup Swept(p)) BY <1>0, <1>3, <2>1, <2>2, <2>3, <2>4, Placed
    <2>. QED BY <1>11, <2>1, <2>5
  <1>12. CASE v = "dir" /\ IsDir(p)
    <2>1. m = loc BY <1>12 DEF Effect
    <2>. QED BY <1>4, <1>8, <1>12, <2>1
  <1>13. CASE v = "dir" /\ ~IsDir(p)
    <2>1. m = Put(Cleared(p), p, NewDir) BY <1>13 DEF Effect, Cleared
    <2>2. ~Blocked(p) BY <1>13 DEF Writes
    <2>3. CASE p = Root
      <3>1. Found(p) = None BY <1>13
      <3>2. m = Put(loc, Root, NewDir) BY <2>1, <2>3, <3>1 DEF Cleared
      <3>3. Treelike(m) /\ Keeps(loc, m, {Root}) BY <1>3, <3>2, PutRoot
      <3>. QED BY <1>4, <1>13, <2>3, <3>3 DEF Keeps
    <2>4. CASE p # Root
      <3>1. Treelike(m) /\ Keeps(loc, m, {p} \cup Swept(p))
        BY <1>0, <1>3, <2>1, <2>2, <2>4, NewDirItem, Placed
      <3>2. Keeps(loc, m, {p, k}) BY <1>0, <1>3, <1>6, <1>13, <2>4, <3>1, SweptLeaf
      <3>. QED BY <1>4, <1>6, <1>13, <3>1, <3>2
    <2>. QED BY <2>3, <2>4
  <1>14. CASE v \notin {"stamp", "place", "dir"}
    <2>1. CASE m = Repermitted(p) /\ Found(p) # None /\ prep[p] # None
      <3>1. prep[p] \in Modes BY <1>0, <2>1 DEF Typed
      <3>2. PICK y : y = [loc[k] EXCEPT !.mode = prep[p]] OBVIOUS
      <3>3. y \in Items /\ y.kind = loc[k].kind BY <1>7, <2>1, <3>1, <3>2, RemodedItem
      <3>4. m = [loc EXCEPT ![k] = y] BY <1>6, <2>1, <3>2 DEF Repermitted
      <3>5. Treelike(m) /\ Keeps(loc, m, {p} \cup Swept(p)) BY <1>7, <1>9, <2>1, <3>3, <3>4
      <3>. QED BY <1>4, <1>14, <2>1, <3>5
    <2>2. CASE m = loc
      BY <1>4, <1>8, <1>14, <2>2
    <2>3. m = loc \/ m = Repermitted(p) BY <1>14 DEF Effect
    <2>4. Found(p) = None \/ prep[p] = None => Repermitted(p) = loc BY DEF Repermitted
    <2>. QED BY <2>1, <2>2, <2>3, <2>4
  <1>. QED BY <1>10, <1>11, <1>12, <1>13, <1>14

LEMMA EffectKinds ==
  ASSUME Typed, NEW p \in Recorded, NEW d, NEW v, v = VerdictOn(p, d),
         Writes(p, v) => ~Blocked(p), v = "dir" /\ ~IsDir(p) => Found(p) = None
  PROVE  /\ v \in {"place", "defer"} => LinkRec(p)
         /\ v = "dir" => DirRec(p)
         /\ v = "stamp" => /\ Found(p) # None
                          /\ Effect(p, v, d) = [loc EXCEPT ![Disk(p)] = Stamped(rec[p], Found(p))]
  <1>1. PICK m : m = Effect(p, v, d) OBVIOUS
  <1>2. /\ Treelike(m) /\ Keeps(loc, m, {p} \cup Swept(p))
        /\ v \in {"place", "defer"} => LinkRec(p)
        /\ v = "dir" => DirRec(p)
        /\ v = "stamp" => /\ ~DirRec(p) /\ ~LinkRec(p) /\ Found(p) # None
                         /\ Found(p).kind = rec[p].kind
                         /\ m = [loc EXCEPT ![Disk(p)] = Stamped(rec[p], Found(p))]
        /\ v \notin {"stamp", "place", "dir"} /\ prep[p] = None => m = loc
        /\ v = "dir" => Keeps(loc, m, {p, Disk(p)})
    BY <1>1, EffectIs
  <1>. QED BY <1>1, <1>2

\* The mode of what stands changes, and nothing else.
LEMMA GivenBackIs ==
  ASSUME Typed, NEW m, m = GivenBack(loc)
  PROVE  Treelike(m) /\ Adds(loc, m, {}) /\ (prep = NoPrep => m = loc)
  <1>1. Treelike(loc) BY DEF Typed
  <1>2. m = [p \in Paths |->
           IF \E q \in Paths : prep[q] # None /\ Disk(q) = p /\ loc[p] # None /\ loc[p].kind # "link"
           THEN [loc[p] EXCEPT !.mode = prep[CHOOSE q \in Paths : prep[q] # None /\ Disk(q) = p]]
           ELSE loc[p]]
    BY DEF GivenBack
  <1>3. \A p \in Paths : m[p] \in Slot /\ IF loc[p] = None THEN m[p] = None
                                       ELSE m[p] # None /\ m[p].kind = loc[p].kind
    <2>. SUFFICES ASSUME NEW p \in Paths
                  PROVE  m[p] \in Slot /\ IF loc[p] = None THEN m[p] = None
                                          ELSE m[p] # None /\ m[p].kind = loc[p].kind
      OBVIOUS
    <2>1. CASE \E q \in Paths : prep[q] # None /\ Disk(q) = p /\ loc[p] # None /\ loc[p].kind # "link"
      <3>1. PICK q : q = CHOOSE x \in Paths : prep[x] # None /\ Disk(x) = p OBVIOUS
      <3>2. q \in Paths /\ prep[q] # None BY <2>1, <3>1
      <3>3. prep[q] \in Modes /\ loc[p] \in Items /\ loc[p] # None
        BY <1>1, <2>1, <3>2, SlotItem DEF Typed, Treelike
      <3>4. m[p] = [loc[p] EXCEPT !.mode = prep[q]] BY <1>2, <2>1, <3>1
      <3>. QED BY <3>3, <3>4, RemodedItem, NoneIsNoItem DEF Slot
    <2>2. CASE ~\E q \in Paths : prep[q] # None /\ Disk(q) = p /\ loc[p] # None /\ loc[p].kind # "link"
      <3>1. m[p] = loc[p] BY <1>2, <2>2
      <3>. QED BY <1>1, <3>1 DEF Treelike
    <2>. QED BY <2>1, <2>2
  <1>4. m \in [Paths -> Slot] BY <1>2, <1>3
  <1>5. prep = NoPrep => m = loc
    <2>. SUFFICES ASSUME prep = NoPrep PROVE m = loc OBVIOUS
    <2>1. \A q \in Paths : prep[q] = None BY DEF NoPrep
    <2>2. m = [p \in Paths |-> loc[p]] BY <1>2, <2>1
    <2>. QED BY <1>1, <2>2 DEF Treelike
  <1>. QED BY <1>1, <1>3, <1>4, <1>5, ChangedInPlace

\* A link at a directory's position goes first ...
LEMMA VetWrites ==
  ASSUME Typed, Vet
  PROVE  \/ loc' = loc /\ phase' # "make"
         \/ \E q \in Positions :
              /\ Found(q) # None /\ Found(q).kind = "link"
              /\ Treelike(loc') /\ loc'[q] = None /\ loc'[Disk(q)] = None
              /\ Keeps(loc, loc', {Disk(q)}) /\ Adds(loc, loc', {})
              /\ phase' = "make" /\ at' = DirKey[q]
              /\ \A a \in Above[q] : Stands(loc', a)
  <1>. DEFINE left == {q \in Positions : DirKey[q] >= at /\ Found(q) # None /\ Found(q).kind = "link"}
  <1>1. PICK q : q = First(left, DirKey) OBVIOUS
  <1>2. CASE left = {} BY <1>2 DEF Vet
  <1>3. CASE left # {} /\ loc' = Removed(loc, Disk(q)) /\ phase' = "make" /\ at' = DirKey[q]
    <2>1. left \in SUBSET Paths BY DEF Positions
    <2>2. q \in left
      <3>. HIDE DEF left
      <3>. QED BY <1>1, <1>3, <2>1, FirstIs, TreeAssumption
    <2>3. q \in Paths \ {Root} /\ Found(q) # None /\ Found(q).kind = "link" BY <2>2 DEF Positions
    <2>4. Treelike(loc) BY DEF Typed
    <2>5. ~IsDir(q) BY <2>3 DEF IsDir
    <2>6. PICK m : m = loc' OBVIOUS
    <2>7. /\ Treelike(m) /\ m[q] = None /\ m[Disk(q)] = None
          /\ Keeps(loc, m, {Disk(q)}) /\ Adds(loc, m, {})
      BY <1>3, <2>3, <2>4, <2>5, <2>6, RemovedAlone
    <2>8. ASSUME NEW a \in Above[q] PROVE Stands(m, a)
      <3>1. PICK d \in Paths : d = Disk(q) /\ loc[d] # None /\ Above[d] = Above[q]
        BY <2>3, <2>4, FoundIs
      <3>2. a \in Paths /\ a # d BY <2>8, <3>1, AboveKey
      <3>3. Stands(loc, a) /\ loc[a] \in Items
        BY <2>4, <2>8, <3>1, <3>2, AncestorsStand, SlotItem DEF Stands, Treelike
      <3>4. Alike(loc[a], m[a]) BY <2>7, <3>1, <3>2, <3>3 DEF Keeps, Stands
      <3>. QED BY <3>3, <3>4, AlikeItem DEF Stands
    <2>. QED BY <1>3, <2>2, <2>3, <2>6, <2>7, <2>8
  <1>4. CASE left # {} /\ loc' = loc /\ phase' = phase BY <1>4 DEF Vet
  <1>. QED BY <1>1, <1>2, <1>3, <1>4 DEF Vet

LEMMA DirMade ==
  ASSUME NEW l, Treelike(l), NEW p \in Paths \ {Root}, Clear(l, p), l[p] = None,
         NEW m, m = Put(l, p, NewDir)
  PROVE  /\ Treelike(m) /\ m[p] = NewDir
         /\ Keeps(l, m, {p}) /\ Adds(l, m, Above[p] \cup {p})
  <1>1. Bare(l, p) BY LeafIsBare DEF Stands
  <1>2. PICK item : item = NewDir OBVIOUS
  <1>3. item \in Items /\ m = Put(l, p, item) BY <1>2, NewDirItem
  <1>4. Treelike(m) /\ m[p] = item /\ Keeps(l, m, {p}) /\ Adds(l, m, Above[p] \cup {p})
    BY <1>1, <1>3, PutMakes
  <1>. QED BY <1>2, <1>4

\* ... and then the directory is made, alone: what is above it stands.
LEMMA MakeWrites ==
  ASSUME Typed, MakeFits, Make
  PROVE  \/ loc' = loc /\ bad'
         \/ \E q \in Positions :
              /\ DirKey[q] = at /\ loc[q] = None /\ bad' = bad
              /\ Treelike(loc') /\ loc'[q] = NewDir
              /\ Keeps(loc, loc', {q}) /\ Adds(loc, loc', {q})
  <1>1. CASE loc' = loc /\ bad' = TRUE BY <1>1
  <1>2. CASE (\E q \in Positions : DirKey[q] = at /\ loc' = Put(loc, q, NewDir)) /\ bad' = bad
    <2>1. PICK q \in Positions : DirKey[q] = at /\ loc' = Put(loc, q, NewDir) BY <1>2
    <2>2. PICK r \in Positions : DirKey[r] = at /\ loc[r] = None /\ \A a \in Above[r] : Stands(loc, a)
      BY DEF Make, MakeFits
    <2>3. q \in Paths \ {Root} /\ r \in Paths BY DEF Positions
    <2>4. q = r BY <2>1, <2>2, <2>3, KeysDiffer
    <2>5. Treelike(loc) /\ Clear(loc, q) BY <2>2, <2>4 DEF Typed, Clear, Stands
    <2>6. PICK m : m = loc' OBVIOUS
    <2>7. /\ Treelike(m) /\ m[q] = NewDir
          /\ Keeps(loc, m, {q}) /\ Adds(loc, m, Above[q] \cup {q})
      <3>1. loc[q] = None /\ m = Put(loc, q, NewDir) BY <2>1, <2>2, <2>4, <2>6
      <3>. QED BY <2>3, <2>5, <3>1, DirMade
    <2>8. Adds(loc, m, {q}) BY <2>2, <2>4, <2>7 DEF Adds, Stands
    <2>. QED BY <1>2, <2>1, <2>2, <2>4, <2>6, <2>7, <2>8
  <1>. QED BY <1>1, <1>2 DEF Make

\* The prep changes modes, and makes a missing destination.
LEMMA PrepWrites ==
  ASSUME Typed, Prep
  PROVE  /\ Treelike(loc') /\ Adds(loc, loc', {Root})
         /\ prep' \in [Paths -> Modes \cup {None}]
         /\ ~Windows => prep' = NoPrep /\ \A p \in Paths : p # Root => loc'[p] = loc[p]
  <1>1. Treelike(loc) BY DEF Typed
  <1>2. \A q \in Paths : Preppable(q) => Found(q) \in Items
    BY <1>1, FoundIs DEF Preppable
  <1>3. prep' = [p \in Paths |-> IF Preppable(p) THEN Found(p).mode ELSE None]
    BY DEF Prep
  <1>4. \A p \in Paths : loc'[p] = IF p = Root /\ loc[Root] = None THEN NewDir
                       ELSE IF \E q \in Paths : Preppable(q) /\ Disk(q) = p
                       THEN [loc[p] EXCEPT !.mode = Opened[loc[p].mode]] ELSE loc[p]
    BY DEF Prep
  <1>5. DOMAIN loc' = Paths /\ loc' = [p \in Paths |-> loc'[p]] BY DEF Prep
  <1>6. prep' \in [Paths -> Modes \cup {None}]
    BY <1>2, <1>3 DEF Items
  <1>7. CASE loc[Root] = None
    <2>1. \A p \in Paths : loc[p] = None BY <1>1, <1>7, EmptyTree
    <2>2. \A q \in Paths : ~Preppable(q)
      <3>. SUFFICES ASSUME NEW q \in Paths PROVE Found(q) = None BY DEF Preppable
      <3>. QED BY <1>1, <2>1, FoundIs
    <2>3. \A p \in Paths : loc'[p] = IF p = Root THEN NewDir ELSE None
      BY <1>4, <1>7, <2>1, <2>2
    <2>4. loc' \in [Paths -> Slot]
      <3>1. \A p \in Paths : loc'[p] \in Slot BY <2>3, NewDirItem DEF Slot
      <3>. QED BY <1>5, <3>1
    <2>5. Stands(loc', Root) BY <2>3, NewDirItem, TreeAssumption DEF Stands
    <2>6. Treelike(loc') BY <2>3, <2>4, <2>5 DEF Treelike, Stands
    <2>. QED BY <1>6, <2>1, <2>2, <2>3, <2>6, <1>3 DEF Adds, NoPrep
  <1>8. CASE loc[Root] # None
    <2>1. \A p \in Paths : loc'[p] \in Slot /\ IF loc[p] = None THEN loc'[p] = None
                                            ELSE loc'[p] # None /\ loc'[p].kind = loc[p].kind
      <3>. SUFFICES ASSUME NEW p \in Paths
                    PROVE  loc'[p] \in Slot /\ IF loc[p] = None THEN loc'[p] = None
                                               ELSE loc'[p] # None /\ loc'[p].kind = loc[p].kind
        OBVIOUS
      <3>1. CASE \E q \in Paths : Preppable(q) /\ Disk(q) = p
        <4>1. loc[p] # None /\ loc[p] \in Items
          <5>1. PICK q \in Paths : Preppable(q) /\ Disk(q) = p BY <3>1
          <5>. QED BY <1>1, <5>1, FoundIs DEF Preppable
        <4>2. Opened[loc[p].mode] \in Modes BY <4>1, ItemAssumption DEF Items
        <4>3. loc'[p] = [loc[p] EXCEPT !.mode = Opened[loc[p].mode]] BY <1>4, <1>8, <3>1
        <4>. QED BY <4>1, <4>2, <4>3, RemodedItem, NoneIsNoItem DEF Slot
      <3>2. CASE ~\E q \in Paths : Preppable(q) /\ Disk(q) = p
        <4>1. loc'[p] = loc[p] BY <1>4, <1>8, <3>2
        <4>. QED BY <1>1, <4>1 DEF Treelike
      <3>. QED BY <3>1, <3>2
    <2>2. loc' \in [Paths -> Slot] BY <1>5, <2>1
    <2>3. Treelike(loc') /\ Adds(loc, loc', {}) BY <1>1, <2>1, <2>2, ChangedInPlace
    <2>4. ~Windows => prep' = NoPrep /\ \A p \in Paths : p # Root => loc'[p] = loc[p]
      BY <1>3, <1>4 DEF Preppable, NoPrep
    <2>. QED BY <1>6, <2>3, <2>4 DEF Adds
  <1>. QED BY <1>7, <1>8

\* One decision of the sync: the verdict, and what it may clear away.
Decision1(p) ==
  IF LeafKey[p] \in opts.excluded THEN Leave
  ELSE SyncVerdict(LeafRec(p), Unprepped(p), obj[p], Listed(loc[p]), opts)

LEMMA DecideWrites ==
  ASSUME Typed, Decide
  PROVE  \E p \in Unseen :
           /\ \A q \in Unseen : LeafKey[p] <= LeafKey[q]
           /\ LET v == Decision1(p) IN
              /\ at' = LeafKey[p] + 1 /\ spool' = spool \o Decided(p, v)
              /\ todo' = IF v.get THEN todo \cup {p} ELSE todo
              /\ told' = IF v.warn THEN told \cup {p} ELSE told
              /\ \/ loc' = loc
                 \/ /\ v.say = "D" /\ Found(p) # None /\ Found(p).kind = "special"
                    /\ Treelike(loc') /\ Keeps(loc, loc', {Disk(p)}) /\ Adds(loc, loc', {})
  <1>1. PICK p : p = First(Unseen, LeafKey) OBVIOUS
  <1>2. Unseen \in SUBSET Paths BY DEF Unseen
  <1>3. p \in Unseen /\ \A q \in Unseen : LeafKey[p] <= LeafKey[q]
    BY <1>1, <1>2, FirstIs, TreeAssumption DEF Decide
  <1>4. PICK v : v = Decision1(p) OBVIOUS
  <1>5. /\ at' = LeafKey[p] + 1 /\ spool' = spool \o Decided(p, v)
        /\ todo' = IF v.get THEN todo \cup {p} ELSE todo
        /\ told' = IF v.warn THEN told \cup {p} ELSE told
        /\ loc' = IF v.say = "D" /\ Found(p) # None /\ Found(p).kind = "special"
                  THEN Removed(loc, Disk(p)) ELSE loc
    BY <1>1, <1>4 DEF Decide, Decision1
  <1>6. ASSUME v.say = "D", Found(p) # None, Found(p).kind = "special"
        PROVE  Treelike(loc') /\ Keeps(loc, loc', {Disk(p)}) /\ Adds(loc, loc', {})
    <2>1. Treelike(loc) /\ p \in Paths \ {Root} BY <1>3 DEF Typed, Unseen
    <2>2. PICK d \in Paths \ {Root} : d = Disk(p) /\ loc[d] = Found(p) BY <2>1, FoundIs
    <2>3. loc' = Removed(loc, d) BY <1>5, <1>6, <2>2
    <2>4. PICK S : S = {q \in Paths : InSubtree(d, q)} OBVIOUS
    <2>5. Treelike(loc') /\ Keeps(loc, loc', S) /\ Adds(loc, loc', {})
      BY <1>6, <2>1, <2>2, <2>3, <2>4, RemovedLeaves
    <2>6. \A q \in S : q # d => loc[q] = None
      <3>1. ~Stands(loc, d) BY <1>6, <2>2 DEF Stands
      <3>2. Bare(loc, d) BY <2>1, <2>2, <3>1, LeafIsBare
      <3>. QED BY <2>1, <2>2, <2>4, <3>2, NothingIn DEF InSubtree
    <2>7. Keeps(loc, loc', {d}) BY <2>5, <2>6 DEF Keeps
    <2>. QED BY <2>2, <2>5, <2>7
  <1>. QED BY <1>3, <1>4, <1>5, <1>6

\* A download lands as the object, in the directories it needs.
LEMMA LandWrites ==
  ASSUME Typed, NEW p \in Paths, Land(p)
  PROVE  \/ loc' = loc
         \/ /\ Treelike(loc') /\ Keeps(loc, loc', {Disk(p)}) /\ Adds(loc, loc', Above[p] \cup {Disk(p)})
            /\ ~IsDir(p) /\ obj[p] # None
            /\ loc'[Disk(p)] = [kind |-> "file", data |-> obj[p], mtime |-> Uploaded, mode |-> Umask]
  <1>0. SUFFICES ASSUME ~Blocked(p), ~IsDir(p),
                       loc' = Put(loc, Disk(p), [kind |-> "file", data |-> obj[p],
                                                 mtime |-> Uploaded, mode |-> Umask])
                PROVE  /\ Treelike(loc') /\ Keeps(loc, loc', {Disk(p)})
                       /\ Adds(loc, loc', Above[p] \cup {Disk(p)}) /\ obj[p] # None
                       /\ loc'[Disk(p)] = [kind |-> "file", data |-> obj[p],
                                           mtime |-> Uploaded, mode |-> Umask]
    BY DEF Land
  <1>1. Treelike(loc) /\ p # Root /\ obj[p] # None BY DEF Typed, Land
  <1>2. PICK d \in Paths \ {Root} : d = Disk(p) /\ loc[d] = Found(p) /\ Above[d] = Above[p]
    BY <1>1, FoundIs
  <1>3. PICK item : item = [kind |-> "file", data |-> obj[p], mtime |-> Uploaded, mode |-> Umask]
    OBVIOUS
  <1>4. item \in Items
    <2>1. obj[p] \in Data BY <1>1, GivenFacts DEF Typed
    <2>. QED BY <1>3, <2>1, ItemAssumption DEF Items, Kinds
  <1>5. Clear(loc, d) BY <1>0, <1>2 DEF Clear, Blocked
  <1>6. Bare(loc, d) BY <1>0, <1>1, <1>2, LeafIsBare DEF IsDir, Stands
  <1>7. PICK m : m = Put(loc, d, item) OBVIOUS
  <1>8. /\ Treelike(m) /\ m[d] = item
        /\ Keeps(loc, m, {d}) /\ Adds(loc, m, Above[d] \cup {d})
    <2>1. Treelike(loc) /\ d \in Paths \ {Root} /\ (item.kind = "dir" \/ Bare(loc, d))
      BY <1>1, <1>2, <1>6
    <2>. QED BY <1>4, <1>5, <1>7, <2>1, PutMakes
  <1>9. loc' = m BY <1>0, <1>2, <1>3, <1>7
  <1>. QED BY <1>1, <1>2, <1>3, <1>8, <1>9
-----------------------------------------------------------------------------
(* The steps of the invariant.                                             *)

\* What only the manifest and the options say, while they stay.
LEMMA SameGiven ==
  ASSUME UNCHANGED <<rec, obj, opts>>
  PROVE  /\ Given' <=> Given
         /\ Unrestorable' <=> Unrestorable
         /\ Nondirs' = Nondirs /\ Recorded' = Recorded
         /\ \A p \in Paths : DirRec(p)' <=> DirRec(p)
         /\ \A p \in Paths : LinkRec(p)' <=> LinkRec(p)
  BY DEF Given, Unrestorable, Nondirs, Recorded, Beneath, DirRec, LinkRec

\* A step that leaves the stacks and the spool alone.
LEMMA StacksAlone ==
  ASSUME Inv, UNCHANGED <<rec, obj, opts, orig, frames, deferred, post, open, gone, asked>>,
         Treelike(loc'), at' \in Nat, cur' \in Nat \ {0}, pass' \in {1, 2}, mishaps' \in Nat,
         todo' \in SUBSET {p \in Paths \ {Root} : obj[p] # None}, spool' \in Seq(Lines),
         prep' \in [Paths -> Modes \cup {None}], told' \in SUBSET Paths, bad' \in BOOLEAN,
         status' \in {None, "ok", "failed", "cut"},
         phase' \in {"start", "vet", "make", "prep", "sync", "apply", "place", "settle", "extras", "done"},
         phase' \in {"start", "vet", "make", "prep", "extras", "done"} => prep' = NoPrep,
         phase' = "make" => MakeFits',
         \/ phase' = "done"
         \/ /\ frames = <<>> \/ (phase' = "apply" /\ phase = "apply" /\ at <= at')
            /\ open = <<>>
            /\ (deferred = <<>> /\ post = {}) \/ phase' \in {"apply", "place"},
         phase' \notin {"start", "done"} => phase # "done" /\ ~Unrestorable
  PROVE  Inv'
  <1>1. Given /\ Given' BY SameGiven DEF Inv, Typed
  <1>2. Typed'
    BY <1>1 DEF Inv, Typed, Treelike, Stands
  <1>3. \A p \in Paths : DirRec(p)' <=> DirRec(p) BY SameGiven
  <1>4. \A p \in Paths : LinkRec(p)' <=> LinkRec(p) BY SameGiven
  <1>5. /\ frames \in Seq(Frames) /\ \A n \in 1..Len(frames) : frames[n].path \in Paths
        /\ open \in Seq(Entries) /\ \A n \in 1..Len(open) : open[n].path \in Paths
    <2>1. frames \in Seq(Frames) /\ open \in Seq(Entries) BY DEF Inv, Typed
    <2>2. \A n \in 1..Len(frames) : frames[n] \in Frames BY <2>1, ElementOfSeq
    <2>3. \A n \in 1..Len(open) : open[n] \in Entries BY <2>1, ElementOfSeq
    <2>. QED BY <2>1, <2>2, <2>3 DEF Frames, Entries
  <1>6. FramesFit'
    <2>1. \A n \in 1..Len(frames) :
            /\ DirRec(frames[n].path)'
            /\ phase' = "apply" => DirKey[frames[n].path] < at'
      <3>. SUFFICES ASSUME NEW n \in 1..Len(frames)
                    PROVE  DirRec(frames[n].path)' /\ (phase' = "apply" => DirKey[frames[n].path] < at')
        OBVIOUS
      <3>1. DirRec(frames[n].path)' BY <1>3, <1>5 DEF Inv, FramesFit
      <3>2. ASSUME phase' = "apply" PROVE DirKey[frames[n].path] < at'
        <4>1. frames # <<>> BY <1>5, EmptySeq
        <4>2. phase = "apply" /\ at <= at' BY <3>2, <4>1
        <4>3. DirKey[frames[n].path] < at BY <4>2 DEF Inv, FramesFit
        <4>. QED BY <1>5, <4>2, <4>3, KeysDiffer DEF Inv, Typed
      <3>. QED BY <3>1, <3>2
    <2>2. phase' \notin {"apply", "done"} => frames = <<>> OBVIOUS
    <2>. QED BY <2>1, <2>2 DEF Inv, FramesFit
  <1>7. OpenFits'
    <2>1. open # <<>> => phase' = "done" OBVIOUS
    <2>2. \A n \in 1..Len(open) : phase' = "done" BY <1>5, <2>1, EmptySeq
    <2>3. \A n \in 1..Len(open) : open[n].path # Root /\ open[n].path \notin Nondirs'
      BY SameGiven DEF Inv, OpenFits
    <2>4. opts'.delete = "no" => open = <<>> BY DEF Inv, OpenFits
    <2>. QED BY <2>1, <2>2, <2>3, <2>4 DEF Inv, OpenFits
  <1>8. LastFits'
    <2>1. \A n \in 1..Len(deferred) : deferred[n] \in Paths
      BY ElementOfSeq DEF Inv, Typed
    <2>2. post \in SUBSET Paths BY DEF Inv, Typed
    <2>3. phase' \notin {"apply", "place", "done"} => deferred = <<>> /\ post = {} OBVIOUS
    <2>. QED BY <1>3, <1>4, <2>1, <2>2, <2>3 DEF Inv, LastFits
  <1>9. PrepFits' BY DEF PrepFits, NoPrep
  <1>10. Refused' BY SameGiven DEF Refused
  <1>11. MakeFits' BY DEF MakeFits
  <1>. QED BY <1>2, <1>6, <1>7, <1>8, <1>9, <1>10, <1>11 DEF Inv

LEMMA InitInv == Init => Inv
  <1>. SUFFICES ASSUME Init PROVE Inv OBVIOUS
  <1>1. PICK w \in Worlds : rec = w.rec /\ obj = w.obj /\ opts = w.opts /\ loc = w.loc /\ mishaps = w.mishaps
    BY DEF Init
  <1>2. Given BY <1>1 DEF Given
  <1>3. Treelike(loc)
    BY <1>1, WorldAssumption DEF Treelike, Stands
  <1>4. NoPrep \in [Paths -> Modes \cup {None}] BY DEF NoPrep
  <1>5. Typed
    <2>1. cur = 1 /\ 1 \in Nat \ {0} BY DEF Init, Fresh
    <2>2. cur \in Nat \ {0} BY <2>1
    <2>. QED BY <1>1, <1>2, <1>3, <1>4, <2>2, WorldAssumption, EmptySeq DEF Init, Fresh, Typed
  <1>. QED BY <1>5 DEF Inv, Init, Fresh, FramesFit, OpenFits, LastFits, PrepFits, Refused,
                MakeFits

\* The first steps: nothing is open, deferred or decided yet.
LEMMA StartStep == Inv /\ Start => Inv'
  <1>. SUFFICES ASSUME Inv, Start PROVE Inv' OBVIOUS
  <1>1. UNCHANGED <<rec, obj, opts, orig, frames, deferred, post, open, gone, asked>>
    BY DEF Start
  <1>2. /\ phase = "start" /\ phase' \in {"done", "extras", "vet"}
        /\ phase' # "done" => ~Unrestorable
        /\ status' \in {None, "ok", "failed", "cut"}
    BY DEF Start, Inv, Typed
  <1>3. frames = <<>> /\ open = <<>> /\ deferred = <<>> /\ post = {} /\ prep = NoPrep
    BY <1>2 DEF Inv, FramesFit, OpenFits, LastFits, PrepFits
  <1>4. UNCHANGED <<loc, at, cur, pass, mishaps, todo, spool, prep, told, bad>> BY DEF Start
  <1>5. Typed BY DEF Inv
  <1>. QED BY <1>1, <1>2, <1>3, <1>4, <1>5, StacksAlone DEF Typed

LEMMA VetStep == Inv /\ Vet => Inv'
  <1>. SUFFICES ASSUME Inv, Vet PROVE Inv' OBVIOUS
  <1>0. Typed BY DEF Inv
  <1>1. Treelike(loc') /\ (phase' = "make" => MakeFits')
    <2>1. CASE loc' = loc /\ phase' # "make" BY <1>0, <2>1 DEF Typed
    <2>2. CASE loc' # loc \/ phase' = "make"
      <3>1. PICK q \in Positions : /\ Treelike(loc') /\ loc'[q] = None /\ at' = DirKey[q]
                                 /\ \A a \in Above[q] : Stands(loc', a)
        BY <1>0, <2>2, VetWrites
      <3>2. Positions' = Positions BY DEF Vet, Positions, Recorded, Beneath
      <3>. QED BY <3>1, <3>2 DEF MakeFits, Stands
    <2>. QED BY <2>1, <2>2
  <1>2. /\ phase = "vet" /\ phase' \in {"done", "prep", "vet", "make"}
        /\ status' \in {None, "ok", "failed", "cut"} /\ bad' \in BOOLEAN /\ mishaps' \in Nat
    <2>1. phase = "vet" BY DEF Vet
    <2>2. phase' \in {"done", "prep", "vet", "make"} /\ (status' = status \/ status' = "failed") BY DEF Vet
    <2>3. bad' = bad \/ bad' = TRUE BY DEF Vet
    <2>4. mishaps' = mishaps \/ (mishaps > 0 /\ mishaps' = mishaps - 1) BY DEF Vet
    <2>5. mishaps \in Nat /\ bad \in BOOLEAN /\ status \in {None, "ok", "failed", "cut"}
      BY <1>0 DEF Typed
    <2>6. mishaps' \in Nat BY <2>4, <2>5
    <2>. QED BY <2>1, <2>2, <2>3, <2>5, <2>6
  <1>3. at' \in Nat
    <2>. DEFINE left == {q \in Positions : DirKey[q] >= at /\ Found(q) # None /\ Found(q).kind = "link"}
    <2>1. CASE left = {} BY <2>1 DEF Vet
    <2>2. CASE left # {}
      <3>1. PICK q : q = First(left, DirKey) OBVIOUS
      <3>2. q \in Paths
        <4>1. left \in SUBSET Paths BY DEF Positions
        <4>. HIDE DEF left
        <4>. QED BY <2>2, <3>1, <4>1, FirstIs, TreeAssumption
      <3>3. at' = DirKey[q] + 1 \/ at' = DirKey[q] BY <2>2, <3>1 DEF Vet
      <3>. QED BY <3>2, <3>3, KeysDiffer
    <2>. QED BY <2>1, <2>2
  <1>4. /\ UNCHANGED <<rec, obj, opts, orig, frames, deferred, post, open, gone, asked>>
        /\ UNCHANGED <<cur, pass, todo, spool, prep, told>>
    BY DEF Vet
  <1>5. frames = <<>> /\ open = <<>> /\ deferred = <<>> /\ post = {} /\ prep = NoPrep /\ ~Unrestorable
    BY <1>2 DEF Inv, FramesFit, OpenFits, LastFits, PrepFits, Refused
  <1>. QED BY <1>0, <1>1, <1>2, <1>3, <1>4, <1>5, StacksAlone DEF Typed

LEMMA MakeStep == Inv /\ Make => Inv'
  <1>. SUFFICES ASSUME Inv, Make PROVE Inv' OBVIOUS
  <1>0. Typed /\ MakeFits BY DEF Inv
  <1>1. Treelike(loc') BY <1>0, MakeWrites DEF Typed
  <1>2. phase = "make" /\ phase' = "vet" BY DEF Make
  <1>3. at' \in Nat /\ bad' \in BOOLEAN /\ mishaps' \in Nat
    <2>1. bad' = bad \/ bad' = TRUE BY DEF Make
    <2>2. mishaps' = mishaps \/ (mishaps > 0 /\ mishaps' = mishaps - 1) BY DEF Make
    <2>3. mishaps \in Nat /\ bad \in BOOLEAN /\ at \in Nat BY <1>0 DEF Typed
    <2>4. mishaps' \in Nat BY <2>2, <2>3
    <2>5. at' = at + 1 BY DEF Make
    <2>6. at' \in Nat BY <2>3, <2>5
    <2>. QED BY <2>1, <2>3, <2>4, <2>6
  <1>4. /\ UNCHANGED <<rec, obj, opts, orig, frames, deferred, post, open, gone, asked>>
        /\ UNCHANGED <<cur, pass, todo, spool, prep, told, status>>
    BY DEF Make
  <1>5. frames = <<>> /\ open = <<>> /\ deferred = <<>> /\ post = {} /\ prep = NoPrep /\ ~Unrestorable
    BY <1>2 DEF Inv, FramesFit, OpenFits, LastFits, PrepFits, Refused
  <1>. QED BY <1>0, <1>1, <1>2, <1>3, <1>4, <1>5, StacksAlone DEF Typed

LEMMA PrepStep == Inv /\ Prep => Inv'
  <1>. SUFFICES ASSUME Inv, Prep PROVE Inv' OBVIOUS
  <1>0. Typed BY DEF Inv
  <1>1. Treelike(loc') /\ prep' \in [Paths -> Modes \cup {None}]
    BY <1>0, PrepWrites
  <1>2. phase = "prep" /\ phase' = "sync" BY DEF Prep
  <1>4. /\ UNCHANGED <<rec, obj, opts, orig, frames, deferred, post, open, gone, asked>>
        /\ UNCHANGED <<at, cur, pass, todo, spool, told, bad, status, mishaps>>
    BY DEF Prep
  <1>5. frames = <<>> /\ open = <<>> /\ deferred = <<>> /\ post = {} /\ ~Unrestorable
    BY <1>2 DEF Inv, FramesFit, OpenFits, LastFits, Refused
  <1>. QED BY <1>0, <1>1, <1>2, <1>4, <1>5, StacksAlone DEF Typed
LEMMA SideIs == ASSUME NEW r, NEW i PROVE OrderedSide(r, i) \in {"tie", "local", "record"}
  BY DEF OrderedSide, NewerSide

\* The verdicts of the sync, and what is spooled of them.
Verdicts == [get : BOOLEAN, say : {None, "D", "K", "G"}, warn : BOOLEAN]

LEMMA SyncVerdictIs ==
  ASSUME Typed, NEW p \in Paths, NEW v, v = Decision1(p)
  PROVE  v \in Verdicts /\ (v.get => obj[p] # None)
         /\ (v.say = "G" => obj[p] = None /\ LeafRec(p) # None /\ LeafRec(p).kind = "file")
  <1>1. opts.update \in BOOLEAN BY GivenFacts DEF Typed
  <1>2. None \notin {"D", "K", "G"} BY ItemAssumption
  <1>3. PICK r, i, o : r = LeafRec(p) /\ i = Unprepped(p) /\ o = obj[p] OBVIOUS
  <1>4. Leave \in Verdicts /\ ~Leave.get /\ Leave.say # "G"
    BY <1>2 DEF Verdicts, Leave, Says
  <1>5. CASE LeafKey[p] \in opts.excluded BY <1>4, <1>5 DEF Decision1
  <1>6. CASE LeafKey[p] \notin opts.excluded /\ o = None
    <2>1. v = Orphan(r) BY <1>3, <1>6 DEF Decision1, SyncVerdict
    <2>2. CASE r # None /\ r.kind = "file" BY <1>3, <1>6, <2>1, <2>2 DEF Orphan, Says, Verdicts
    <2>3. CASE ~(r # None /\ r.kind = "file") BY <1>4, <2>1, <2>3 DEF Orphan
    <2>. QED BY <2>2, <2>3
  <1>7. CASE LeafKey[p] \notin opts.excluded /\ o # None
    <2>1. v \in {Leave, Fetch, Download, Keep, Conflict, Residue}
      <3>1. v = SyncVerdict(r, i, o, Listed(loc[p]), opts) BY <1>3, <1>7 DEF Decision1
      <3>2. CASE opts.update
        <4>0. OrderedSide(r, i) \in {"tie", "local", "record"} BY SideIs
        <4>1. UpdatePair(r, i, o, opts.checksum) \in {Leave, Download, Keep, Conflict}
          BY <4>0 DEF UpdatePair
        <4>2. UpdateCreate(r, i) \in {Leave, Download, Keep, Conflict}
          BY <4>0 DEF UpdateCreate
        <4>. QED BY <1>7, <3>1, <3>2, <4>1, <4>2 DEF SyncVerdict
      <3>3. CASE ~opts.update
        <4>1. PlainPair(r, i, o, opts.checksum) \in {Leave, Fetch} BY DEF PlainPair
        <4>2. PlainCreate(r, i) \in {Leave, Fetch, Download, Residue} BY DEF PlainCreate
        <4>. QED BY <1>7, <3>1, <3>3, <4>1, <4>2 DEF SyncVerdict
      <3>. QED BY <1>1, <3>2, <3>3
    <2>2. \A x \in {Leave, Fetch, Download, Keep, Conflict, Residue} : x \in Verdicts /\ x.say # "G"
      <3>1. \A g, w \in BOOLEAN : \A say \in {None, "D", "K"} :
              Says(g, say, w) \in Verdicts /\ Says(g, say, w).say # "G"
        BY <1>2 DEF Verdicts, Says
      <3>. QED BY <3>1 DEF Leave, Fetch, Download, Keep, Conflict, Residue
    <2>. QED BY <1>3, <1>7, <2>1, <2>2
  <1>. QED BY <1>5, <1>6, <1>7

LEMMA ChainIs ==
  ASSUME NEW p \in Paths
  PROVE  /\ Chain(p) \in Seq(Paths)
         /\ \A n \in 1..Len(Chain(p)) : Chain(p)[n] \in Above[p] /\ ~IsDir(Chain(p)[n])
  <1>1. CASE opts.update /\ walked # Up[p]
    <2>1. PICK S : S = {q \in Above[p] : ~IsDir(q)} OBVIOUS
    <2>2. S \in SUBSET Paths BY <2>1, AboveTypes
    <2>3. Cardinality(S) \in Nat /\ Ascending(S) \in [1..Cardinality(S) -> S]
      BY <2>2, AscendingIs
    <2>4. Ascending(S) \in Seq(S) /\ Len(Ascending(S)) = Cardinality(S)
      BY <2>3, IsASeq
    <2>5. Chain(p) = Ascending(S) BY <1>1, <2>1 DEF Chain
    <2>6. Ascending(S) \in Seq(Paths) BY <2>2, <2>3, IsASeq
    <2>. QED BY <2>1, <2>3, <2>4, <2>5, <2>6
  <1>2. CASE ~(opts.update /\ walked # Up[p])
    BY <1>2, EmptySeq DEF Chain
  <1>. QED BY <1>1, <1>2

LEMMA DecidedIs ==
  ASSUME NEW p \in Paths, NEW v \in Verdicts
  PROVE  /\ Decided(p, v) \in Seq(Lines)
         /\ \A n \in 1..Len(Decided(p, v)) :
              \/ /\ v.get /\ Decided(p, v)[n].say = "D"
                 /\ \E q \in Above[p] : ~IsDir(q) /\ Decided(p, v)[n].key = DirKey[q]
              \/ v.say # None /\ Decided(p, v)[n] = Line(v.say, LeafKey[p])
         /\ v.say # None => \E n \in 1..Len(Decided(p, v)) : Decided(p, v)[n] = Line(v.say, LeafKey[p])
  <1>. PICK c : c = Chain(p) OBVIOUS
  <1>1. c \in Seq(Paths) /\ \A n \in 1..Len(c) : c[n] \in Above[p] /\ ~IsDir(c[n])
    BY ChainIs
  <1>2. PICK s : s = IF v.get THEN [n \in 1..Len(c) |-> Line("D", DirKey[c[n]])] ELSE <<>>
    OBVIOUS
  <1>3. PICK t : t = IF v.say # None THEN <<Line(v.say, LeafKey[p])>> ELSE <<>>
    OBVIOUS
  <1>4. s \in Seq(Lines) /\ \A n \in 1..Len(s) : /\ v.get /\ s[n].say = "D"
                                               /\ \E q \in Above[p] : ~IsDir(q) /\ s[n].key = DirKey[q]
    <2>1. CASE v.get
      <3>0. Len(c) \in Nat BY <1>1
      <3>1. \A n \in 1..Len(c) : Line("D", DirKey[c[n]]) \in Lines
        BY <1>1, AboveTypes, KeysDiffer DEF Line, Lines
      <3>2. s \in [1..Len(c) -> Lines] BY <1>2, <2>1, <3>1
      <3>3. s \in Seq(Lines) /\ Len(s) = Len(c) BY <3>0, <3>2, IsASeq
      <3>4. \A n \in 1..Len(s) : s[n] = Line("D", DirKey[c[n]]) BY <1>2, <2>1, <3>3
      <3>5. \A key : Line("D", key).say = "D" /\ Line("D", key).key = key BY DEF Line
      <3>6. \A n \in 1..Len(s) : s[n].say = "D" /\ s[n].key = DirKey[c[n]] BY <3>4, <3>5
      <3>. QED BY <1>1, <2>1, <3>3, <3>6
    <2>2. CASE ~v.get BY <1>2, <2>2, EmptySeq
    <2>. QED BY <2>1, <2>2
  <1>5. /\ t \in Seq(Lines)
        /\ IF v.say # None THEN Len(t) = 1 /\ t[1] = Line(v.say, LeafKey[p]) ELSE Len(t) = 0
    <2>1. v.say # None => Line(v.say, LeafKey[p]) \in Lines
      BY KeysDiffer DEF Line, Lines, Verdicts
    <2>. QED BY <1>3, <2>1, EmptySeq
  <1>6. Decided(p, v) = s \o t BY <1>2, <1>3 DEF Decided
  <1>7. /\ s \o t \in Seq(Lines) /\ Len(s \o t) = Len(s) + Len(t) /\ Len(s) \in Nat /\ Len(t) \in Nat
        /\ \A i \in 1..Len(s) + Len(t) : (s \o t)[i] = IF i <= Len(s) THEN s[i] ELSE t[i - Len(s)]
    BY <1>4, <1>5, ConcatProperties
  <1>8. \A i \in 1..Len(s) + Len(t) :
          \/ i \in 1..Len(s) /\ (s \o t)[i] = s[i]
          \/ i - Len(s) = 1 /\ v.say # None /\ (s \o t)[i] = t[1]
    BY <1>5, <1>7
  <1>9. v.say # None => Len(s) + 1 \in 1..Len(s) + Len(t) /\ (s \o t)[Len(s) + 1] = Line(v.say, LeafKey[p])
    <2>. SUFFICES ASSUME v.say # None
                  PROVE  Len(s) + 1 \in 1..Len(s) + Len(t) /\ (s \o t)[Len(s) + 1] = Line(v.say, LeafKey[p])
      OBVIOUS
    <2>1. Len(t) = 1 /\ Len(s) + 1 \in 1..Len(s) + Len(t) /\ ~(Len(s) + 1 <= Len(s))
          /\ Len(s) + 1 - Len(s) = 1
      <3>1. Len(t) = 1 BY <1>5
      <3>2. PICK k \in Nat : k = Len(s) BY <1>7
      <3>3. k + 1 \in 1..k + 1 /\ ~(k + 1 <= k) /\ k + 1 - k = 1 OBVIOUS
      <3>. QED BY <3>1, <3>2, <3>3
    <2>2. (s \o t)[Len(s) + 1] = t[Len(s) + 1 - Len(s)] BY <1>7, <2>1
    <2>. QED BY <1>5, <2>1, <2>2
  <1>10. \A i \in 1..Len(s) + Len(t) :
           \/ /\ v.get /\ (s \o t)[i].say = "D"
              /\ \E q \in Above[p] : ~IsDir(q) /\ (s \o t)[i].key = DirKey[q]
           \/ v.say # None /\ (s \o t)[i] = Line(v.say, LeafKey[p])
    <2>. SUFFICES ASSUME NEW i \in 1..Len(s) + Len(t)
                  PROVE  \/ /\ v.get /\ (s \o t)[i].say = "D"
                            /\ \E q \in Above[p] : ~IsDir(q) /\ (s \o t)[i].key = DirKey[q]
                         \/ v.say # None /\ (s \o t)[i] = Line(v.say, LeafKey[p])
      OBVIOUS
    <2>1. CASE i \in 1..Len(s) /\ (s \o t)[i] = s[i] BY <1>4, <2>1
    <2>2. CASE i - Len(s) = 1 /\ v.say # None /\ (s \o t)[i] = t[1] BY <1>5, <2>2
    <2>. QED BY <1>8, <2>1, <2>2
  <1>. QED BY <1>6, <1>7, <1>9, <1>10

LEMMA DecideStep == Inv /\ Decide => Inv'
  <1>. SUFFICES ASSUME Inv, Decide PROVE Inv' OBVIOUS
  <1>0. Typed BY DEF Inv
  <1>1. PICK p \in Unseen :
          LET v == Decision1(p) IN
          /\ at' = LeafKey[p] + 1 /\ spool' = spool \o Decided(p, v)
          /\ todo' = IF v.get THEN todo \cup {p} ELSE todo
          /\ told' = IF v.warn THEN told \cup {p} ELSE told
          /\ loc' = loc \/ Treelike(loc')
    BY <1>0, DecideWrites
  <1>2. PICK v : v = Decision1(p) OBVIOUS
  <1>3. p \in Paths \ {Root} BY DEF Unseen
  <1>4. v \in Verdicts /\ (v.get => obj[p] # None) BY <1>0, <1>2, <1>3, SyncVerdictIs
  <1>5. Decided(p, v) \in Seq(Lines) BY <1>3, <1>4, DecidedIs
  <1>6. Treelike(loc') /\ at' \in Nat /\ spool' \in Seq(Lines)
        /\ todo' \in SUBSET {q \in Paths \ {Root} : obj[q] # None} /\ told' \in SUBSET Paths
    <2>1. Treelike(loc') BY <1>0, <1>1 DEF Typed
    <2>2. at' \in Nat BY <1>1, <1>3, KeysDiffer
    <2>3. spool' \in Seq(Lines) BY <1>0, <1>1, <1>2, <1>5, ConcatProperties DEF Typed
    <2>. QED BY <1>0, <1>1, <1>2, <1>3, <1>4, <2>1, <2>2, <2>3 DEF Typed
  <1>7. /\ phase = "sync" /\ phase' = phase
        /\ UNCHANGED <<rec, obj, opts, orig, frames, deferred, post, open, gone, asked>>
        /\ UNCHANGED <<cur, pass, prep, bad, status, mishaps>>
    BY DEF Decide
  <1>8. frames = <<>> /\ open = <<>> /\ deferred = <<>> /\ post = {} /\ ~Unrestorable
    BY <1>7 DEF Inv, FramesFit, OpenFits, LastFits, Refused
  <1>. QED BY <1>0, <1>6, <1>7, <1>8, StacksAlone DEF Typed

LEMMA LandStep == ASSUME NEW p \in Paths PROVE Inv /\ Land(p) => Inv'
  <1>. SUFFICES ASSUME Inv, Land(p) PROVE Inv' OBVIOUS
  <1>0. Typed BY DEF Inv
  <1>1. Treelike(loc')
    BY <1>0, LandWrites DEF Typed
  <1>2. phase = "sync" /\ phase' = phase /\ todo' = todo \ {p} BY DEF Land
  <1>3. bad' \in BOOLEAN /\ mishaps' \in Nat
    <2>1. bad' = bad \/ bad' = TRUE BY DEF Land
    <2>2. mishaps' = mishaps \/ (mishaps > 0 /\ mishaps' = mishaps - 1) BY DEF Land
    <2>3. mishaps \in Nat /\ bad \in BOOLEAN BY <1>0 DEF Typed
    <2>4. mishaps' \in Nat BY <2>2, <2>3
    <2>. QED BY <2>1, <2>3, <2>4
  <1>4. /\ UNCHANGED <<rec, obj, opts, orig, frames, deferred, post, open, gone, asked>>
        /\ UNCHANGED <<at, spool, cur, pass, prep, told, status>>
    BY DEF Land
  <1>5. frames = <<>> /\ open = <<>> /\ deferred = <<>> /\ post = {} /\ ~Unrestorable
    BY <1>2 DEF Inv, FramesFit, OpenFits, LastFits, Refused
  <1>6. todo' \in SUBSET {q \in Paths \ {Root} : obj[q] # None} BY <1>0, <1>2 DEF Typed
  <1>. QED BY <1>0, <1>1, <1>2, <1>3, <1>4, <1>5, <1>6, StacksAlone DEF Typed

LEMMA GivenBackTree ==
  ASSUME Typed, loc' = GivenBack(loc)
  PROVE  Treelike(loc')
  BY GivenBackIs

LEMMA NoPrepIs == NoPrep \in [Paths -> Modes \cup {None}]
  BY DEF NoPrep

LEMMA SyncedStep == Inv /\ Synced => Inv'
  <1>. SUFFICES ASSUME Inv, Synced PROVE Inv' OBVIOUS
  <1>0. Typed BY DEF Inv
  <1>2. phase = "sync" /\ at' = 0 BY DEF Synced
  <1>3. /\ Treelike(loc') /\ prep' \in [Paths -> Modes \cup {None}] 
        /\ (phase' = "done" /\ prep' = NoPrep) \/ phase' = "apply"
        /\ status' \in {None, "ok", "failed", "cut"}
    <2>1. CASE bad
      <3>1. loc' = GivenBack(loc) /\ prep' = NoPrep /\ phase' = "done" /\ status' = "failed"
        BY <2>1 DEF Synced, Finish
      <3>. QED BY <1>0, <3>1, GivenBackTree, NoPrepIs
    <2>2. CASE ~bad BY <1>0, <2>2 DEF Synced, Typed
    <2>. QED BY <2>1, <2>2
  <1>4. /\ UNCHANGED <<rec, obj, opts, orig, frames, deferred, post, open, gone, asked>>
        /\ UNCHANGED <<todo, spool, cur, pass, told, bad, mishaps>>
    BY DEF Synced
  <1>5. frames = <<>> /\ open = <<>> /\ deferred = <<>> /\ post = {} /\ ~Unrestorable
    BY <1>2 DEF Inv, FramesFit, OpenFits, LastFits, Refused
  <1>. QED BY <1>0, <1>2, <1>3, <1>4, <1>5, StacksAlone DEF Typed
\* A step of the apply, which works on its own stacks.
LEMMA ApplyStacks ==
  ASSUME Inv, phase \in {"apply", "place"}, phase' = phase,
         UNCHANGED <<rec, obj, opts, orig, todo, spool, prep, open, gone, asked, pass, status>>,
         Treelike(loc'), at' \in Nat, cur' \in Nat \ {0}, mishaps' \in Nat,
         told' \in SUBSET Paths, bad' \in BOOLEAN,
         frames' \in Seq(Frames), phase = "place" => frames' = <<>>,
         \A n \in 1..Len(frames') : DirRec(frames'[n].path) /\ DirKey[frames'[n].path] < at',
         \A m, n \in 1..Len(frames') : m < n => frames'[m].path \in Above[frames'[n].path],
         deferred' \in Seq(Paths), \A n \in 1..Len(deferred') : LinkRec(deferred'[n]),
         post' \in SUBSET Paths, \A p \in post' : DirRec(p)
  PROVE  Inv'
  <1>0. Typed BY DEF Inv
  <1>1. Given /\ Given' BY <1>0, SameGiven DEF Typed
  <1>2. Typed'
    BY <1>0, <1>1 DEF Typed, Treelike, Stands
  <1>3. \A p \in Paths : DirRec(p)' <=> DirRec(p) BY SameGiven
  <1>4. \A p \in Paths : LinkRec(p)' <=> LinkRec(p) BY SameGiven
  <1>5. \A n \in 1..Len(frames') : frames'[n].path \in Paths
    <2>1. \A n \in 1..Len(frames') : frames'[n] \in Frames BY ElementOfSeq
    <2>. QED BY <2>1 DEF Frames
  <1>6. FramesFit' BY <1>3, <1>5 DEF FramesFit
  <1>7. OpenFits'
    <2>1. open = <<>> BY DEF Inv, OpenFits
    <2>2. Len(open) = 0 BY <2>1, EmptySeq
    <2>. QED BY <2>1, <2>2 DEF OpenFits
  <1>8. \A n \in 1..Len(deferred') : deferred'[n] \in Paths BY ElementOfSeq
  <1>9. LastFits' BY <1>3, <1>4, <1>8 DEF LastFits
  <1>10. PrepFits' BY DEF PrepFits
  <1>11. Refused' BY SameGiven DEF Inv, Refused
  <1>12. MakeFits' BY DEF MakeFits
  <1>. QED BY <1>2, <1>6, <1>7, <1>9, <1>10, <1>11, <1>12 DEF Inv

\* Where an apply stands: the innermost frame, and the record it has come to.
LEMMA TopIs ==
  ASSUME Inv, frames # <<>>
  PROVE  /\ Len(frames) \in Nat \ {0} /\ Top \in Frames /\ Top.path \in Paths
         /\ DirRec(Top.path) /\ (phase = "apply" => DirKey[Top.path] < at)
         /\ \A n \in 1..Len(frames) : n # Len(frames) => frames[n].path \in Above[Top.path]
  <1>1. frames \in Seq(Frames) BY DEF Inv, Typed
  <1>2. Len(frames) \in Nat \ {0} /\ Top \in Frames /\ Len(frames) \in 1..Len(frames)
    BY <1>1, EmptySeq, ElementOfSeq DEF Top
  <1>3. \A n \in 1..Len(frames) : n # Len(frames) => n < Len(frames) BY <1>2
  <1>. QED BY <1>2, <1>3 DEF Inv, FramesFit, Top, Frames

LEMMA NextRecordIs ==
  ASSUME Inv, ToApply # {}, NEW p, p = NextRecord
  PROVE  /\ p \in Recorded /\ p \in Paths /\ RecKey(p) \in Nat /\ RecKey(p) >= at
         /\ \A q \in ToApply : RecKey(p) <= RecKey(q)
  <1>. DEFINE k == [q \in Paths |-> RecKey(q)]
  <1>1. k \in [Paths -> Nat] BY KeysDiffer DEF RecKey, KeyAs
  <1>2. ToApply \in SUBSET Paths BY DEF ToApply, Recorded
  <1>3. \E q \in ToApply : \A r \in ToApply : k[q] <= k[r]
    <2>. HIDE DEF k
    <2>. QED BY <1>1, <1>2, LeastKey
  <1>4. \E q \in ToApply : \A r \in ToApply : RecKey(q) <= RecKey(r)
    BY <1>2, <1>3
  <1>5. p \in ToApply /\ \A q \in ToApply : RecKey(p) <= RecKey(q)
    BY <1>4 DEF NextRecord
  <1>. QED BY <1>1, <1>2, <1>5 DEF ToApply

LEMMA AtRecordIs ==
  ASSUME Inv, AtRecord, NEW p, p = NextRecord
  PROVE  /\ phase = "apply" /\ p \in Recorded /\ p \in Paths /\ RecKey(p) \in Nat /\ at <= RecKey(p)
         /\ frames # <<>> => InSubtree(Top.path, p) /\ (DirRec(p) => Top.path \in Above[p])
  <1>1. /\ p \in Recorded /\ p \in Paths /\ RecKey(p) \in Nat /\ RecKey(p) >= at
    BY NextRecordIs DEF AtRecord
  <1>2. frames # <<>> => InSubtree(Top.path, p)
    BY DEF AtRecord, Leaves
  <1>3. at \in Nat /\ phase = "apply" BY DEF Inv, Typed, AtRecord
  <1>4. frames # <<>> /\ DirRec(p) => Top.path # p
    <2>. SUFFICES ASSUME frames # <<>>, DirRec(p), Top.path = p PROVE FALSE OBVIOUS
    <2>1. DirKey[p] < at BY <1>3, TopIs
    <2>2. RecKey(p) = DirKey[p] BY DEF RecKey, KeyAs, DirRec
    <2>. QED BY <1>1, <1>3, <2>1, <2>2
  <1>. QED BY <1>1, <1>2, <1>3, <1>4 DEF InSubtree

LEMMA FlaggedIs ==
  ASSUME Inv, NEW S, NEW f, f = Flagged(S)
  PROVE  f \in Seq(Frames) /\ Len(f) = Len(frames) /\ \A n \in 1..Len(frames) : f[n].path = frames[n].path
  <1>1. frames \in Seq(Frames) BY DEF Inv, Typed
  <1>2. CASE frames = <<>> BY <1>1, <1>2 DEF Flagged
  <1>3. CASE frames # <<>>
    <2>1. PICK g : g = Front(frames) OBVIOUS
    <2>2. PICK t : t = [Top EXCEPT !.dirty = @ \/ "dirty" \in S, !.resettle = @ \/ "resettle" \in S]
      OBVIOUS
    <2>3. Top \in Frames /\ Top = frames[Len(frames)] BY <1>3, TopIs DEF Top
    <2>4. t \in Frames /\ t.path = Top.path BY <2>2, <2>3 DEF Frames
    <2>5. /\ Len(frames) \in Nat \ {0} /\ g \in Seq(Frames) /\ Len(g) = Len(frames) - 1
          /\ \A n \in 1..Len(frames) - 1 : g[n] = frames[n]
      BY <1>1, <1>3, <2>1, FrontIs
    <2>6. f = Append(g, t) BY <1>3, <2>1, <2>2 DEF Flagged
    <2>7. /\ f \in Seq(Frames) /\ Len(f) = Len(g) + 1
          /\ \A i \in 1..Len(g) : f[i] = g[i]
          /\ f[Len(g) + 1] = t
      BY <2>4, <2>5, <2>6, AppendProperties
    <2>8. \A n \in 1..Len(frames) : n = Len(g) + 1 \/ n \in 1..Len(g) BY <2>5
    <2>9. Len(f) = Len(frames) /\ Len(g) + 1 = Len(frames) BY <2>5, <2>7
    <2>10. \A n \in 1..Len(g) : f[n].path = frames[n].path BY <2>5, <2>7
    <2>. QED BY <2>3, <2>4, <2>7, <2>8, <2>9, <2>10
  <1>. QED BY <1>2, <1>3

\* Beyond the innermost frame lies the record's.
LEMMA OpensIs ==
  ASSUME Inv, AtRecord, NEW p, p = NextRecord, DirRec(p), NEW S, NEW d,
         NEW f, f = Append(Flagged(S), Opens(p, d))
  PROVE  /\ f \in Seq(Frames)
         /\ \A n \in 1..Len(f) : DirRec(f[n].path) /\ DirKey[f[n].path] < RecKey(p) + 1
         /\ \A m, n \in 1..Len(f) : m < n => f[m].path \in Above[f[n].path]
  <1>1. /\ phase = "apply" /\ p \in Paths /\ RecKey(p) \in Nat /\ at <= RecKey(p)
        /\ frames # <<>> => Top.path \in Above[p]
    BY AtRecordIs
  <1>2. PICK g : g = Flagged(S) OBVIOUS
  <1>3. g \in Seq(Frames) /\ Len(g) = Len(frames) /\ \A n \in 1..Len(frames) : g[n].path = frames[n].path
    BY <1>2, FlaggedIs
  <1>4. Opens(p, d) \in Frames /\ Opens(p, d).path = p BY <1>1 DEF Opens, Frames
  <1>5. /\ f \in Seq(Frames) /\ Len(f) = Len(g) + 1 /\ Len(g) \in Nat
        /\ \A i \in 1..Len(g) : f[i] = g[i]
        /\ f[Len(g) + 1] = Opens(p, d)
    BY <1>2, <1>3, <1>4, AppendProperties
  <1>6. \A n \in 1..Len(f) : \/ n \in 1..Len(frames) /\ f[n].path = frames[n].path
                             \/ n = Len(frames) + 1 /\ f[n].path = p
    <2>1. \A n \in 1..Len(f) : n \in 1..Len(g) \/ n = Len(g) + 1 BY <1>5
    <2>. QED BY <1>3, <1>4, <1>5, <2>1
  <1>7. \A n \in 1..Len(frames) : /\ DirRec(frames[n].path) /\ frames[n].path \in Paths
                                 /\ DirKey[frames[n].path] < at /\ frames[n].path \in Above[p]
    <2>. SUFFICES ASSUME NEW n \in 1..Len(frames)
                  PROVE  /\ DirRec(frames[n].path) /\ frames[n].path \in Paths
                         /\ DirKey[frames[n].path] < at /\ frames[n].path \in Above[p]
      OBVIOUS
    <2>1. frames \in Seq(Frames) BY DEF Inv, Typed
    <2>2. frames[n] \in Frames /\ frames # <<>> BY <2>1, ElementOfSeq, EmptySeq
    <2>3. n = Len(frames) \/ frames[n].path \in Above[Top.path] BY <2>2, TopIs
    <2>4. frames[n].path \in Above[p]
      BY <1>1, <2>2, <2>3, AboveTrans DEF Top
    <2>. QED BY <1>1, <2>2, <2>4 DEF Inv, FramesFit, Frames
  <1>8. \A n \in 1..Len(f) : DirRec(f[n].path) /\ DirKey[f[n].path] < RecKey(p) + 1
    <2>1. RecKey(p) = DirKey[p] BY DEF RecKey, KeyAs, DirRec
    <2>2. at \in Nat BY DEF Inv, Typed
    <2>3. \A n \in 1..Len(frames) : DirKey[frames[n].path] < RecKey(p) + 1
      BY <1>1, <1>7, <2>2, KeysDiffer
    <2>4. DirKey[p] < RecKey(p) + 1 BY <1>1, <2>1
    <2>. QED BY <1>6, <1>7, <2>3, <2>4
  <1>9. ASSUME NEW m \in 1..Len(f), NEW n \in 1..Len(f), m < n
        PROVE  f[m].path \in Above[f[n].path]
    <2>0. Len(frames) \in Nat BY <1>3, <1>5
    <2>1. m \in 1..Len(frames) /\ f[m].path = frames[m].path BY <1>6, <1>9, <2>0
    <2>2. CASE n \in 1..Len(frames) /\ f[n].path = frames[n].path
      BY <1>9, <2>1, <2>2 DEF Inv, FramesFit
    <2>3. CASE n = Len(frames) + 1 /\ f[n].path = p
      BY <1>7, <2>1, <2>3
    <2>. QED BY <1>6, <2>2, <2>3
  <1>. QED BY <1>5, <1>8, <1>9

LEMMA AheadIs ==
  ASSUME Typed, NEW key \in Nat
  PROVE  /\ Ahead(key) \in Nat \ {0}
         /\ \/ LinesFrom(key) = {} /\ Ahead(key) = Len(spool) + 1
            \/ Ahead(key) \in LinesFrom(key) /\ \A m \in LinesFrom(key) : Ahead(key) <= m
  <1>1. cur \in Nat \ {0} /\ Len(spool) \in Nat BY DEF Typed
  <1>2. CASE LinesFrom(key) = {} BY <1>1, <1>2 DEF Ahead
  <1>3. CASE LinesFrom(key) # {}
    <2>1. LinesFrom(key) \in SUBSET Nat /\ \A n \in LinesFrom(key) : n \in Nat \ {0}
      BY <1>1 DEF LinesFrom
    <2>2. \E n \in LinesFrom(key) : \A m \in LinesFrom(key) : n <= m
      BY <1>3, <2>1, LeastNumber
    <2>3. Ahead(key) = CHOOSE n \in LinesFrom(key) : \A m \in LinesFrom(key) : n <= m
      BY <1>3 DEF Ahead
    <2>. QED BY <2>1, <2>2, <2>3
  <1>. QED BY <1>2, <1>3

LEMMA NextLineIs ==
  ASSUME Typed, NEW p \in Paths, NextLine(p)
  PROVE  /\ RecKey(p) \in Nat /\ at' = RecKey(p) + 1 /\ at' \in Nat /\ cur' \in Nat \ {0}
         /\ UNCHANGED <<rec, obj, opts, orig, phase, todo, spool, post, prep, open, gone, asked,
                        pass, status>>
  <1>1. RecKey(p) \in Nat BY KeysDiffer DEF RecKey, KeyAs
  <1>2. Ahead(RecKey(p)) \in Nat \ {0} BY <1>1, AheadIs
  <1>. QED BY <1>1, <1>2 DEF NextLine
\* Settling stamps a directory that is found, or leaves the tree.
LEMMA SettleWrites ==
  ASSUME Typed, NEW p \in Paths, DirRec(p), NEW ordered, Settle(p, ordered)
  PROVE  /\ Treelike(loc') /\ told' \in SUBSET Paths /\ bad' \in BOOLEAN
         /\ \/ loc' = loc
            \/ IsDir(p) /\ loc' = [loc EXCEPT ![Disk(p)] = Stamped(rec[p], Found(p))]
         /\ Keeps(loc, loc', {Disk(p)}) /\ Adds(loc, loc', {})
  <1>1. PICK v : v = Settled(loc, p, ordered) OBVIOUS
  <1>2. told' \in SUBSET Paths /\ bad' \in BOOLEAN
    BY <1>1 DEF Settle, Typed
  <1>3. Treelike(loc) BY DEF Typed
  <1>4. CASE v = "stamp"
    <2>1. IsDir(p) BY <1>1, <1>4 DEF Settled, SettleVerdict, IsDir, Found, Disk
    <2>2. PICK k : k = Disk(p) OBVIOUS
    <2>3. k \in Paths /\ loc[k] = Found(p) /\ Found(p) \in Items /\ loc[k] # None
      BY <1>3, <2>1, <2>2, FoundIs DEF IsDir
    <2>4. PICK y : y = Stamped(rec[p], Found(p)) OBVIOUS
    <2>5. y \in Items /\ y.kind = loc[k].kind
      <3>1. rec[p].mode \in Modes /\ rec[p].mtime \in Nat \cup {NoMtime}
        BY GivenFacts DEF Typed, DirRec
      <3>. QED BY <2>3, <2>4, <3>1, StampedItem
    <2>6. loc' = [loc EXCEPT ![k] = y] BY <1>1, <1>4, <2>2, <2>4 DEF Settle
    <2>7. Treelike(loc') /\ Keeps(loc, loc', {k}) /\ Adds(loc, loc', {})
      <3>1. PICK m : m = [loc EXCEPT ![k] = y] OBVIOUS
      <3>2. Treelike(m) /\ Keeps(loc, m, {k}) /\ Adds(loc, m, {})
        BY <1>3, <2>3, <2>5, <3>1, ChangedAt
      <3>. QED BY <2>6, <3>1, <3>2
    <2>. QED BY <1>2, <2>1, <2>2, <2>4, <2>6, <2>7
  <1>5. CASE v # "stamp"
    <2>1. loc' = loc BY <1>1, <1>5 DEF Settle
    <2>. QED BY <1>2, <1>3, <2>1 DEF Keeps, Adds, Alike
  <1>. QED BY <1>4, <1>5

LEMMA PopFrameStep == Inv /\ PopFrame => Inv'
  <1>. SUFFICES ASSUME Inv, PopFrame PROVE Inv' OBVIOUS
  <1>0. Typed BY DEF Inv
  <1>1. phase = "apply" /\ frames # <<>> /\ frames' = Front(frames) BY DEF PopFrame
  <1>2. Top.path \in Paths /\ DirRec(Top.path) BY <1>1, TopIs
  <1>3. /\ Treelike(loc') /\ told' \in SUBSET Paths /\ bad' \in BOOLEAN
        /\ post' \in SUBSET Paths /\ \A p \in post' : DirRec(p)
    <2>1. post \in SUBSET Paths /\ \A p \in post : DirRec(p) BY <1>0 DEF Inv, LastFits, Typed
    <2>2. CASE Top.resettle
      <3>1. post' = post \cup {Top.path} /\ UNCHANGED <<loc, bad, told>> BY <2>2 DEF PopFrame
      <3>. QED BY <1>0, <1>2, <2>1, <3>1 DEF Typed
    <2>3. CASE ~Top.resettle
      <3>1. Settle(Top.path, opts.update /\ ~Top.dirty) /\ post' = post BY <2>3 DEF PopFrame
      <3>. QED BY <1>0, <1>2, <2>1, <3>1, SettleWrites
    <2>. QED BY <2>2, <2>3
  <1>4. /\ frames' \in Seq(Frames)
        /\ \A n \in 1..Len(frames') : n \in 1..Len(frames) /\ frames'[n] = frames[n]
    <2>1. frames \in Seq(Frames) BY <1>0 DEF Typed
    <2>2. PICK f : f = Front(frames) OBVIOUS
    <2>3. /\ Len(frames) \in Nat \ {0} /\ f \in Seq(Frames) /\ Len(f) = Len(frames) - 1
          /\ \A n \in 1..Len(frames) - 1 : f[n] = frames[n]
      BY <1>1, <2>1, <2>2, FrontIs
    <2>4. \A n \in 1..Len(f) : n \in 1..Len(frames) /\ n \in 1..Len(frames) - 1 BY <2>3
    <2>. QED BY <1>1, <2>2, <2>3, <2>4
  <1>5. /\ UNCHANGED <<rec, obj, opts, orig, todo, spool, prep, open, gone, asked, pass, status>>
        /\ UNCHANGED <<phase, at, cur, deferred, mishaps>>
    BY DEF PopFrame
  <1>6. \A n \in 1..Len(frames') : DirRec(frames'[n].path) /\ DirKey[frames'[n].path] < at'
    BY <1>1, <1>4, <1>5 DEF Inv, FramesFit
  <1>7. \A m, n \in 1..Len(frames') : m < n => frames'[m].path \in Above[frames'[n].path]
    BY <1>4 DEF Inv, FramesFit
  <1>8. deferred \in Seq(Paths) /\ \A n \in 1..Len(deferred) : LinkRec(deferred[n])
    BY <1>0 DEF Inv, Typed, LastFits
  <1>. QED BY <1>0, <1>1, <1>3, <1>4, <1>5, <1>6, <1>7, <1>8, ApplyStacks DEF Typed

\* A directory is made for its record only where nothing stands any more.
LEMMA ApplyMakes ==
  ASSUME Apply, NEW p, p = NextRecord, NEW d, d = Decision(RecKey(p)), NEW v, v = VerdictOn(p, d)
  PROVE  v = "dir" /\ ~IsDir(p) => Found(p) = None
  <1>1. AtRecord /\ Judged(p) /\ (Making(p) => Found(p) = None) BY DEF Apply
  <1>. QED BY <1>1 DEF Making

LEMMA MakingIs ==
  ASSUME Inv, NEW p \in Paths, Making(p)
  PROVE  AtRecord /\ phase = "apply" /\ p = NextRecord /\ p \in Recorded /\ DirRec(p) /\ ~IsDir(p)
  <1>1. /\ AtRecord /\ p = NextRecord /\ ~IsDir(p)
        /\ VerdictOn(p, Decision(RecKey(p))) = "dir"
    BY DEF Making
  <1>2. p \in Recorded /\ phase = "apply" BY <1>1, AtRecordIs
  <1>3. PICK d, i : /\ d = Decision(RecKey(p))
                   /\ i = IF opts.update /\ d # "D" THEN Unprepped(p) ELSE Found(p)
    OBVIOUS
  <1>4. ApplyVerdict(rec[p], i, d, opts.update, Dangling(rec[p])) = "dir"
    BY <1>1, <1>3 DEF VerdictOn
  <1>5. rec[p] # None /\ rec[p].kind \in Kinds /\ opts.update \in BOOLEAN
    BY <1>2, GivenFacts DEF Inv, Recorded, Typed
  <1>6. DirRec(p) BY <1>4, <1>5, VerdictWrites DEF DirRec
  <1>. QED BY <1>1, <1>2, <1>6

\* The place of a directory's record is cleared of what is no directory.
LEMMA ClearConflictWrites ==
  ASSUME Inv, ClearConflict
  PROVE  \E p \in Paths \ {Root} :
           /\ Making(p) /\ DirRec(p) /\ Found(p) # None /\ ~IsDir(p)
           /\ loc' = Removed(loc, Disk(p))
           /\ Treelike(loc') /\ loc'[p] = None /\ loc'[Disk(p)] = None
           /\ Keeps(loc, loc', {Disk(p)}) /\ Adds(loc, loc', {})
  <1>0. Typed /\ Treelike(loc) BY DEF Inv, Typed
  <1>1. PICK p \in Paths : Making(p) /\ Found(p) # None /\ loc' = Removed(loc, Disk(p))
    BY DEF ClearConflict
  <1>2. DirRec(p) /\ ~IsDir(p) BY <1>1, MakingIs
  <1>5. p # Root
    <2>1. loc[Root] # None => loc[Root].kind = "dir" BY <1>0 DEF Treelike
    <2>2. Found(Root) = loc[Root] BY <1>0, FoundIs, TreeAssumption
    <2>. QED BY <1>1, <1>2, <2>1, <2>2 DEF IsDir
  <1>6. PICK m : m = loc' OBVIOUS
  <1>7. /\ Treelike(m) /\ m[p] = None /\ m[Disk(p)] = None
        /\ Keeps(loc, m, {Disk(p)}) /\ Adds(loc, m, {})
    BY <1>0, <1>1, <1>2, <1>5, <1>6, RemovedAlone
  <1>. QED BY <1>1, <1>2, <1>5, <1>6, <1>7

LEMMA ClearConflictStep == Inv /\ ClearConflict => Inv'
  <1>. SUFFICES ASSUME Inv, ClearConflict PROVE Inv' OBVIOUS
  <1>0. Typed BY DEF Inv
  <1>1. Treelike(loc') /\ AtRecord BY ClearConflictWrites DEF Making
  <1>2. /\ phase = "apply"
        /\ UNCHANGED <<rec, obj, opts, orig, frames, deferred, post, open, gone, asked>>
        /\ UNCHANGED <<phase, at, cur, pass, mishaps, todo, spool, prep, told, bad, status>>
    BY <1>1 DEF AtRecord, ClearConflict
  <1>3. open = <<>> /\ ~Unrestorable BY <1>2 DEF Inv, OpenFits, Refused
  <1>4. at <= at' /\ at' \in Nat BY <1>0, <1>2 DEF Typed
  <1>. QED BY <1>0, <1>1, <1>2, <1>3, <1>4, StacksAlone DEF Typed

LEMMA ApplyStep == Inv /\ Apply => Inv'
  <1>. SUFFICES ASSUME Inv, Apply PROVE Inv' OBVIOUS
  <1>0. Typed BY DEF Inv
  <1>1. AtRecord BY DEF Apply
  <1>2. PICK p, d, v : p = NextRecord /\ d = Decision(RecKey(p)) /\ v = VerdictOn(p, d)
    OBVIOUS
  <1>3. /\ Writes(p, v) => ~Blocked(p)
        /\ loc' = Effect(p, v, d)
        /\ frames' = IF v = "dir" THEN Append(Flagged(Flags(p, v, d)), Opens(p, d))
                                  ELSE Flagged(Flags(p, v, d))
        /\ deferred' = IF v = "defer" THEN Append(deferred, p) ELSE deferred
        /\ bad' = (bad \/ v = "error")
        /\ told' = IF v \in {"conflict", "stale", "missing"} /\ pass = 1
                   THEN told \cup {p} ELSE told
        /\ NextLine(p) /\ mishaps' = mishaps
        /\ v = "dir" /\ ~IsDir(p) => Found(p) = None
    BY <1>2, ApplyMakes DEF Apply
  <1>4. phase = "apply" /\ p \in Recorded /\ p \in Paths /\ at <= RecKey(p)
    BY <1>1, <1>2, AtRecordIs
  <1>5. /\ RecKey(p) \in Nat /\ at' = RecKey(p) + 1 /\ at' \in Nat /\ cur' \in Nat \ {0}
        /\ UNCHANGED <<rec, obj, opts, orig, phase, todo, spool, post, prep, open, gone, asked,
                       pass, status>>
    BY <1>0, <1>3, <1>4, NextLineIs
  <1>6. PICK m : m = Effect(p, v, d) OBVIOUS
  <1>7. /\ Treelike(m)
        /\ v \in {"place", "defer"} => LinkRec(p)
        /\ v = "dir" => DirRec(p)
    BY <1>0, <1>2, <1>3, <1>4, <1>6, EffectIs
  <1>8. Treelike(loc') BY <1>3, <1>6, <1>7
  <1>9. told' \in SUBSET Paths /\ bad' \in BOOLEAN BY <1>0, <1>3, <1>4 DEF Typed
  <1>10. /\ deferred' \in Seq(Paths) /\ \A n \in 1..Len(deferred') : LinkRec(deferred'[n])
    <2>1. deferred \in Seq(Paths) /\ \A n \in 1..Len(deferred) : LinkRec(deferred[n])
      BY <1>0 DEF Inv, Typed, LastFits
    <2>2. CASE v = "defer"
      <3>1. /\ Append(deferred, p) \in Seq(Paths)
            /\ Len(Append(deferred, p)) = Len(deferred) + 1
            /\ \A i \in 1..Len(deferred) : Append(deferred, p)[i] = deferred[i]
            /\ Append(deferred, p)[Len(deferred) + 1] = p
        BY <1>4, <2>1, AppendProperties
      <3>2. \A n \in 1..Len(deferred) + 1 : n \in 1..Len(deferred) \/ n = Len(deferred) + 1
        BY <2>1
      <3>3. deferred' = Append(deferred, p) BY <1>3, <2>2
      <3>4. LinkRec(p) BY <1>7, <2>2
      <3>. QED BY <2>1, <3>1, <3>2, <3>3, <3>4
    <2>3. CASE v # "defer" BY <1>3, <2>1, <2>3
    <2>. QED BY <2>2, <2>3
  <1>11. /\ frames' \in Seq(Frames)
         /\ \A n \in 1..Len(frames') : DirRec(frames'[n].path) /\ DirKey[frames'[n].path] < at'
         /\ \A i, n \in 1..Len(frames') : i < n => frames'[i].path \in Above[frames'[n].path]
    <2>1. PICK S : S = Flags(p, v, d) OBVIOUS
    <2>2. CASE v = "dir"
      <3>1. PICK f : f = Append(Flagged(S), Opens(p, d)) OBVIOUS
      <3>2. DirRec(p) BY <1>7, <2>2
      <3>3. /\ f \in Seq(Frames)
            /\ \A n \in 1..Len(f) : DirRec(f[n].path) /\ DirKey[f[n].path] < RecKey(p) + 1
            /\ \A i, n \in 1..Len(f) : i < n => f[i].path \in Above[f[n].path]
        <4>1. Inv /\ AtRecord /\ p = NextRecord BY <1>1, <1>2
        <4>. QED BY <3>1, <3>2, <4>1, OpensIs
      <3>4. frames' = f BY <1>3, <2>1, <2>2, <3>1
      <3>5. at' = RecKey(p) + 1 BY <1>5
      <3>. QED BY <3>3, <3>4, <3>5
    <2>3. CASE v # "dir"
      <3>1. PICK f : f = Flagged(S) OBVIOUS
      <3>2. f \in Seq(Frames) /\ Len(f) = Len(frames) /\ \A n \in 1..Len(frames) : f[n].path = frames[n].path
        BY <3>1, FlaggedIs
      <3>3. \A n \in 1..Len(frames) : DirRec(frames[n].path) /\ DirKey[frames[n].path] < at'
        <4>1. frames \in Seq(Frames) BY <1>0 DEF Typed
        <4>2. \A n \in 1..Len(frames) : frames[n].path \in Paths
          <5>1. \A n \in 1..Len(frames) : frames[n] \in Frames BY <4>1, ElementOfSeq
          <5>. QED BY <5>1 DEF Frames
        <4>3. \A n \in 1..Len(frames) : DirRec(frames[n].path) /\ DirKey[frames[n].path] < at
          BY <1>4 DEF Inv, FramesFit
        <4>4. at \in Nat BY <1>0 DEF Typed
        <4>. QED BY <1>4, <1>5, <4>2, <4>3, <4>4, KeysDiffer
      <3>4. \A i, n \in 1..Len(frames) : i < n => frames[i].path \in Above[frames[n].path]
        BY DEF Inv, FramesFit
      <3>. QED BY <1>3, <2>1, <2>3, <3>1, <3>2, <3>3, <3>4
    <2>. QED BY <2>2, <2>3
  <1>12. mishaps' \in Nat BY <1>0, <1>3 DEF Typed
  <1>13. post' \in SUBSET Paths /\ \A q \in post' : DirRec(q) BY <1>0, <1>5 DEF Inv, Typed, LastFits
  <1>. QED BY <1>4, <1>5, <1>8, <1>9, <1>10, <1>11, <1>12, <1>13, ApplyStacks
\* A pull that ends here gives the prepped modes back.
LEMMA EndsStep ==
  ASSUME Inv, UNCHANGED <<rec, obj, opts, orig, frames, deferred, post, open, gone>>,
         UNCHANGED <<todo, spool, cur, pass>>,
         loc' = GivenBack(loc) \/ loc' = loc, prep' = NoPrep, phase' = "done",
         status' \in {"ok", "failed", "cut"}, at' \in Nat, mishaps' \in Nat,
         told' \in SUBSET Paths, bad' \in BOOLEAN, asked' \in SUBSET Paths
  PROVE  Inv'
  <1>0. Typed BY DEF Inv
  <1>1. Treelike(loc') BY <1>0, GivenBackTree DEF Typed
  <1>2. Given /\ Given' BY <1>0, SameGiven DEF Typed
  <1>3. Typed' BY <1>0, <1>1, <1>2, NoPrepIs DEF Typed, Treelike, Stands
  <1>4. /\ \A p \in Paths : DirRec(p)' <=> DirRec(p)
        /\ \A p \in Paths : LinkRec(p)' <=> LinkRec(p)
        /\ Nondirs' = Nondirs
    BY SameGiven
  <1>5. /\ frames \in Seq(Frames) /\ \A n \in 1..Len(frames) : frames[n].path \in Paths
        /\ \A n \in 1..Len(deferred) : deferred[n] \in Paths
        /\ post \in SUBSET Paths
    <2>1. frames \in Seq(Frames) /\ deferred \in Seq(Paths) BY <1>0 DEF Typed
    <2>2. \A n \in 1..Len(frames) : frames[n] \in Frames BY <2>1, ElementOfSeq
    <2>. QED BY <1>0, <2>1, <2>2, ElementOfSeq DEF Typed, Frames
  <1>6. FramesFit' BY <1>4, <1>5 DEF Inv, FramesFit
  <1>7. OpenFits'
    <2>1. /\ \A n \in 1..Len(open) : open[n].path # Root /\ open[n].path \notin Nondirs'
          /\ \A m, n \in 1..Len(open) : m < n => open[m].path \in Above[open[n].path]
          /\ opts.delete = "no" => open = <<>>
      BY <1>4 DEF Inv, OpenFits
    <2>. QED BY <2>1 DEF OpenFits
  <1>8. LastFits' BY <1>4, <1>5 DEF Inv, LastFits
  <1>9. PrepFits' BY DEF PrepFits, NoPrep
  <1>. QED BY <1>3, <1>6, <1>7, <1>8, <1>9 DEF Inv, Refused, MakeFits

LEMMA SkipExcludedStep == Inv /\ SkipExcluded => Inv'
  <1>. SUFFICES ASSUME Inv, SkipExcluded PROVE Inv' OBVIOUS
  <1>0. Typed BY DEF Inv
  <1>1. AtRecord /\ NextLine(NextRecord) BY DEF SkipExcluded
  <1>2. PICK p : p = NextRecord OBVIOUS
  <1>3. phase = "apply" /\ p \in Paths /\ at <= RecKey(p) BY <1>1, <1>2, AtRecordIs
  <1>4. NextLine(p) BY <1>1, <1>2
  <1>5. /\ RecKey(p) \in Nat /\ at' = RecKey(p) + 1 /\ at' \in Nat /\ cur' \in Nat \ {0}
        /\ UNCHANGED <<rec, obj, opts, orig, phase, todo, spool, post, prep, open, gone, asked,
                       pass, status>>
    BY <1>0, <1>3, <1>4, NextLineIs
  <1>6. UNCHANGED <<loc, frames, deferred, bad, told, mishaps>> BY DEF SkipExcluded
  <1>7. open = <<>> /\ ~Unrestorable BY <1>3 DEF Inv, OpenFits, Refused
  <1>8. at <= at' BY <1>0, <1>3, <1>5 DEF Typed
  <1>. QED BY <1>0, <1>3, <1>5, <1>6, <1>7, <1>8, StacksAlone DEF Typed

LEMMA AbortStep ==
  ASSUME Inv, Abort, mishaps' \in Nat, UNCHANGED <<cur, frames, deferred, post>>
  PROVE  Inv'
  <1>0. Typed BY DEF Inv
  <1>1. loc' = GivenBack(loc) /\ prep' = NoPrep /\ phase' = "done" /\ status' = "failed"
    BY DEF Abort, Finish
  <1>2. UNCHANGED <<rec, obj, opts, orig, open, gone, asked, todo, spool, pass, at, told, bad>>
    BY DEF Abort
  <1>. QED BY <1>0, <1>1, <1>2, EndsStep DEF Typed

LEMMA ApplyFailsStep == Inv /\ ApplyFails => Inv'
  <1>. SUFFICES ASSUME Inv, ApplyFails PROVE Inv' OBVIOUS
  <1>0. Typed /\ mishaps \in Nat BY DEF Inv, Typed
  <1>1. AtRecord BY DEF ApplyFails
  <1>2. PICK p : p = NextRecord OBVIOUS
  <1>3. phase = "apply" /\ p \in Paths /\ at <= RecKey(p) BY <1>1, <1>2, AtRecordIs
  <1>4. \/ Abort /\ (mishaps' = mishaps \/ (mishaps > 0 /\ mishaps' = mishaps - 1))
        \/ /\ mishaps > 0 /\ mishaps' = mishaps - 1 /\ bad' = TRUE /\ NextLine(p)
           /\ UNCHANGED <<loc, frames, deferred, told>>
    BY <1>2 DEF ApplyFails
  <1>5. mishaps' \in Nat
    <2>1. mishaps' = mishaps \/ (mishaps > 0 /\ mishaps' = mishaps - 1) BY <1>4
    <2>. QED BY <1>0, <2>1
  <1>6. CASE Abort
    <2>1. UNCHANGED <<cur, frames, deferred, post>> BY <1>6 DEF Abort
    <2>. QED BY <1>5, <1>6, <2>1, AbortStep
  <1>7. CASE bad' = TRUE /\ NextLine(p) /\ UNCHANGED <<loc, frames, deferred, told>>
    <2>1. /\ RecKey(p) \in Nat /\ at' = RecKey(p) + 1 /\ at' \in Nat /\ cur' \in Nat \ {0}
          /\ UNCHANGED <<rec, obj, opts, orig, phase, todo, spool, post, prep, open, gone, asked,
                         pass, status>>
      BY <1>0, <1>3, <1>7, NextLineIs
    <2>2. open = <<>> /\ ~Unrestorable BY <1>3 DEF Inv, OpenFits, Refused
    <2>3. at <= at' BY <1>0, <1>3, <2>1 DEF Typed
    <2>. QED BY <1>0, <1>3, <1>5, <1>7, <2>1, <2>2, <2>3, StacksAlone DEF Typed
  <1>. QED BY <1>4, <1>6, <1>7

LEMMA StreamedStep == Inv /\ Streamed => Inv'
  <1>. SUFFICES ASSUME Inv, Streamed PROVE Inv' OBVIOUS
  <1>0. Typed BY DEF Inv
  <1>1. /\ phase = "apply" /\ frames = <<>> /\ phase' = "place"
        /\ UNCHANGED <<rec, obj, opts, orig, frames, deferred, post, open, gone, asked>>
        /\ UNCHANGED <<loc, at, cur, pass, mishaps, todo, spool, prep, told, bad, status>>
    BY DEF Streamed
  <1>2. open = <<>> /\ ~Unrestorable BY <1>1 DEF Inv, OpenFits, Refused
  <1>. QED BY <1>0, <1>1, <1>2, StacksAlone DEF Typed

LEMMA PlaceStep == Inv /\ Place => Inv'
  <1>. SUFFICES ASSUME Inv, Place PROVE Inv' OBVIOUS
  <1>0. Typed /\ mishaps \in Nat BY DEF Inv, Typed
  <1>1. phase = "place" /\ deferred # <<>> BY DEF Place
  <1>2. PICK p : p = Head(deferred) OBVIOUS
  <1>3. deferred \in Seq(Paths) /\ \A n \in 1..Len(deferred) : LinkRec(deferred[n])
    BY <1>0 DEF Inv, Typed, LastFits
  <1>4. /\ p \in Paths /\ LinkRec(p) /\ Len(deferred) \in Nat \ {0}
        /\ Tail(deferred) \in Seq(Paths) /\ Len(Tail(deferred)) = Len(deferred) - 1
        /\ \A n \in 1..Len(Tail(deferred)) : Tail(deferred)[n] = deferred[n + 1]
    <2>1. Len(deferred) \in Nat \ {0} BY <1>1, <1>3, EmptySeq
    <2>2. 1 \in 1..Len(deferred) BY <2>1
    <2>3. deferred[1] \in Paths /\ LinkRec(deferred[1]) BY <1>3, <2>2, ElementOfSeq
    <2>. QED BY <1>1, <1>2, <1>3, <2>1, <2>3, HeadTailProperties
  <1>5. \/ Abort /\ (mishaps' = mishaps \/ (mishaps > 0 /\ mishaps' = mishaps - 1))
        \/ /\ ~Blocked(p) /\ loc' = Put(Cleared(p), p, LinkAt(rec[p]))
           /\ deferred' = Tail(deferred)
           /\ UNCHANGED <<phase, status, prep, mishaps, rec, obj, opts, orig, at, todo, spool, walked,
                          cur, frames, post, open, gone, asked, told, bad, pass>>
    BY <1>2 DEF Place
  <1>6. CASE Abort /\ (mishaps' = mishaps \/ (mishaps > 0 /\ mishaps' = mishaps - 1))
    <2>1. mishaps' \in Nat BY <1>0, <1>6
    <2>2. UNCHANGED <<cur, frames, deferred, post>> BY <1>6 DEF Abort
    <2>. QED BY <1>6, <2>1, <2>2, AbortStep
  <1>7. CASE /\ ~Blocked(p) /\ loc' = Put(Cleared(p), p, LinkAt(rec[p]))
             /\ deferred' = Tail(deferred)
             /\ UNCHANGED <<phase, status, prep, mishaps, rec, obj, opts, orig, at, todo, spool, walked,
                            cur, frames, post, open, gone, asked, told, bad, pass>>
    <2>1. Treelike(loc')
      <3>1. /\ rec[p].mtime \in Nat \cup {NoMtime} /\ rec[p].what \in Data
            /\ (rec[Root] # None => rec[Root].kind = "dir")
        BY <1>0, <1>4, GivenFacts DEF Typed, LinkRec
      <3>2. p # Root BY <1>4, <3>1 DEF LinkRec
      <3>3. LinkAt(rec[p]) \in Items BY <3>1, LinkItem
      <3>4. PICK m : m = Put(Cleared(p), p, LinkAt(rec[p])) OBVIOUS
      <3>5. Treelike(loc) BY <1>0 DEF Typed
      <3>6. Treelike(m) BY <1>4, <1>7, <3>2, <3>3, <3>4, <3>5, Placed
      <3>. QED BY <1>7, <3>4, <3>6
    <2>2. \A n \in 1..Len(deferred') : LinkRec(deferred'[n])
      <3>1. \A n \in 1..Len(Tail(deferred)) : n + 1 \in 1..Len(deferred) BY <1>4
      <3>. QED BY <1>3, <1>4, <1>7, <3>1
    <2>3. frames = <<>> /\ post \in SUBSET Paths /\ \A q \in post : DirRec(q)
      BY <1>0, <1>1 DEF Inv, FramesFit, LastFits, Typed
    <2>4. Len(frames) = 0 BY <2>3, EmptySeq
    <2>5. /\ at' \in Nat /\ cur' \in Nat \ {0} /\ mishaps' \in Nat /\ told' \in SUBSET Paths
          /\ bad' \in BOOLEAN /\ deferred' \in Seq(Paths) /\ frames' = <<>> /\ frames' \in Seq(Frames)
      BY <1>0, <1>4, <1>7, <2>3 DEF Typed
    <2>. QED BY <1>1, <1>7, <2>1, <2>2, <2>3, <2>4, <2>5, ApplyStacks
  <1>. QED BY <1>5, <1>6, <1>7

LEMMA ResettleStep == Inv /\ Resettle => Inv'
  <1>. SUFFICES ASSUME Inv, Resettle PROVE Inv' OBVIOUS
  <1>0. Typed BY DEF Inv
  <1>1. phase = "place" /\ post # {} BY DEF Resettle
  <1>2. PICK p : p = CHOOSE x \in post : \A y \in post : DirKey[y] <= DirKey[x] OBVIOUS
  <1>3. post \in SUBSET Paths /\ \A q \in post : DirRec(q) BY <1>0 DEF Inv, Typed, LastFits
  <1>4. p \in post
    <2>1. \E q \in post : \A r \in post : DirKey[r] <= DirKey[q] BY <1>1, <1>3, GreatestKey
    <2>. QED BY <1>2, <2>1
  <1>5. Settle(p, FALSE) /\ post' = post \ {p} BY <1>2 DEF Resettle
  <1>6. Treelike(loc') /\ told' \in SUBSET Paths /\ bad' \in BOOLEAN
    BY <1>0, <1>3, <1>4, <1>5, SettleWrites
  <1>7. /\ UNCHANGED <<rec, obj, opts, orig, todo, spool, prep, open, gone, asked, pass, status>>
        /\ UNCHANGED <<phase, at, cur, frames, deferred, mishaps>>
    BY DEF Resettle
  <1>8. frames = <<>> /\ deferred \in Seq(Paths) /\ \A n \in 1..Len(deferred) : LinkRec(deferred[n])
    BY <1>0, <1>1 DEF Inv, FramesFit, LastFits, Typed
  <1>9. Len(frames) = 0 BY <1>8, EmptySeq
  <1>. QED BY <1>0, <1>1, <1>3, <1>5, <1>6, <1>7, <1>8, <1>9, ApplyStacks DEF Typed

LEMMA AppliedStep == Inv /\ Applied => Inv'
  <1>. SUFFICES ASSUME Inv, Applied PROVE Inv' OBVIOUS
  <1>0. Typed BY DEF Inv
  <1>1. /\ phase = "place" /\ deferred = <<>> /\ post = {} /\ at' = 0
        /\ UNCHANGED <<rec, obj, opts, orig, frames, deferred, post, open, gone, asked>>
        /\ UNCHANGED <<todo, spool, cur, pass, told, bad, mishaps>>
    BY DEF Applied
  <1>2. \/ loc' = GivenBack(loc) /\ prep' = NoPrep /\ phase' = "done" /\ status' = "failed"
        \/ loc' = loc /\ prep' = NoPrep /\ phase' = "done" /\ status' = "ok"
        \/ loc' = loc /\ prep' = NoPrep /\ phase' = "extras" /\ status' = status
    BY DEF Applied, Finish
  <1>3. CASE phase' = "done"
    BY <1>0, <1>1, <1>2, <1>3, EndsStep DEF Typed
  <1>4. CASE loc' = loc /\ prep' = NoPrep /\ phase' = "extras" /\ status' = status
    <2>1. frames = <<>> /\ open = <<>> /\ ~Unrestorable
      BY <1>1 DEF Inv, FramesFit, OpenFits, Refused
    <2>. QED BY <1>0, <1>1, <1>4, <2>1, NoPrepIs, StacksAlone DEF Typed
  <1>. QED BY <1>2, <1>3, <1>4
\* A step of the removal of extras, over the directories it has open.
LEMMA ExtrasStacks ==
  ASSUME Inv, phase = "extras", phase' = "extras", opts.delete # "no",
         UNCHANGED <<rec, obj, opts, orig, todo, spool, cur, frames, deferred, post, prep, pass, status>>,
         Treelike(loc'), at' \in Nat, mishaps' \in Nat, told' \in SUBSET Paths, bad' \in BOOLEAN,
         gone' \in SUBSET Paths, asked' \in SUBSET Paths, open' \in Seq(Entries),
         \A n \in 1..Len(open') : /\ open'[n].path # Root /\ open'[n].path \notin Nondirs
                                  /\ DirKey[open'[n].path] < at' /\ Stands(loc', open'[n].path),
         \A m, n \in 1..Len(open') : m < n => open'[m].path \in Above[open'[n].path]
  PROVE  Inv'
  <1>0. Typed BY DEF Inv
  <1>1. Given /\ Given' BY <1>0, SameGiven DEF Typed
  <1>2. Typed' BY <1>0, <1>1 DEF Typed, Treelike, Stands
  <1>3. Nondirs' = Nondirs BY SameGiven
  <1>4. frames = <<>> /\ deferred = <<>> /\ post = {} /\ prep = NoPrep
    BY DEF Inv, FramesFit, LastFits, PrepFits
  <1>5. Len(frames) = 0 /\ Len(deferred) = 0 BY <1>4, EmptySeq
  <1>6. FramesFit' BY <1>4, <1>5 DEF FramesFit
  <1>7. OpenFits' BY <1>3 DEF OpenFits, Stands
  <1>8. LastFits' BY <1>4, <1>5 DEF LastFits
  <1>9. PrepFits' BY <1>4 DEF PrepFits, NoPrep
  <1>10. Refused' BY SameGiven DEF Inv, Refused
  <1>11. MakeFits' BY DEF MakeFits
  <1>. QED BY <1>2, <1>6, <1>7, <1>8, <1>9, <1>10, <1>11 DEF Inv

LEMMA OpenIs ==
  ASSUME Inv, phase = "extras"
  PROVE  /\ open \in Seq(Entries) /\ Len(open) \in Nat
         /\ \A n \in 1..Len(open) : /\ open[n] \in Entries /\ open[n].path \in Paths \ {Root}
                                    /\ open[n].path \notin Nondirs
                                    /\ DirKey[open[n].path] < at /\ Stands(loc, open[n].path)
         /\ \A m, n \in 1..Len(open) : m < n => open[m].path \in Above[open[n].path]
         /\ open # <<>> => Len(open) \in 1..Len(open) /\ opts.delete # "no"
  <1>1. open \in Seq(Entries) BY DEF Inv, Typed
  <1>2. \A n \in 1..Len(open) : open[n] \in Entries BY <1>1, ElementOfSeq
  <1>3. \A n \in 1..Len(open) : open[n].path \in Paths BY <1>2 DEF Entries
  <1>4. open # <<>> => Len(open) \in Nat \ {0} BY <1>1, EmptySeq
  <1>5. open # <<>> => opts.delete # "no" BY DEF Inv, OpenFits
  <1>. QED BY <1>1, <1>2, <1>3, <1>4, <1>5 DEF Inv, OpenFits

\* The stack s fits the tree l.
Fitting(s, l, key) ==
  /\ s \in Seq(Entries)
  /\ \A n \in 1..Len(s) : /\ s[n].path \in Paths \ {Root} /\ s[n].path \notin Nondirs
                          /\ DirKey[s[n].path] < key /\ Stands(l, s[n].path)
  /\ \A m, n \in 1..Len(s) : m < n => s[m].path \in Above[s[n].path]

LEMMA PinnedIs ==
  ASSUME NEW s \in Seq(Entries), NEW t, t = Pinned(s)
  PROVE  t \in Seq(Entries) /\ Len(t) = Len(s) /\ \A n \in 1..Len(s) : t[n].path = s[n].path
  <1>1. Len(s) \in Nat /\ \A n \in 1..Len(s) : s[n] \in Entries BY ElementOfSeq
  <1>2. t = [n \in 1..Len(s) |-> [s[n] EXCEPT !.kept = TRUE]] BY DEF Pinned
  <1>3. \A n \in 1..Len(s) : [s[n] EXCEPT !.kept = TRUE] \in Entries BY <1>1 DEF Entries
  <1>4. t \in [1..Len(s) -> Entries] BY <1>2, <1>3
  <1>5. t \in Seq(Entries) /\ Len(t) = Len(s) BY <1>1, <1>4, IsASeq
  <1>6. \A n \in 1..Len(s) : t[n].path = s[n].path BY <1>1, <1>2 DEF Entries
  <1>. QED BY <1>5, <1>6

LEMMA PinnedFits ==
  ASSUME NEW s, NEW l, NEW key, Fitting(s, l, key), NEW t, t = Pinned(s)
  PROVE  Fitting(t, l, key)
  BY PinnedIs DEF Fitting

LEMMA FittingLater ==
  ASSUME NEW s, NEW l, NEW key \in Nat, NEW later \in Nat, key <= later, Fitting(s, l, key)
  PROVE  Fitting(s, l, later)
  <1>1. \A n \in 1..Len(s) : DirKey[s[n].path] < later BY KeysDiffer DEF Fitting
  <1>. QED BY <1>1 DEF Fitting

LEMMA JudgeStep ==
  ASSUME Inv, phase = "extras", opts.delete # "no",
         NEW p \in Paths \ {Root}, loc[p] # None, NEW rest, Fitting(rest, loc, at'),
         \A n \in 1..Len(rest) : rest[n].path # p,
         Judge(p, rest), at' \in Nat,
         UNCHANGED <<rec, obj, opts, orig, todo, spool, cur, frames, deferred, post, pass>>
  PROVE  Inv'
  <1>0. Typed BY DEF Inv
  <1>1. /\ gone' \in SUBSET Paths /\ asked' \in SUBSET Paths /\ told' \in SUBSET Paths
        /\ bad' \in BOOLEAN /\ mishaps' \in Nat
    <2>1. /\ gone' = gone \/ gone' = gone \cup {p}
          /\ asked' = asked \/ asked' = asked \cup {p}
          /\ told' = told \/ told' = told \cup {p}
          /\ bad' = bad \/ bad' = TRUE
          /\ mishaps' = mishaps \/ (mishaps > 0 /\ mishaps' = mishaps - 1)
      BY DEF Judge
    <2>2. mishaps \in Nat BY <1>0 DEF Typed
    <2>3. mishaps' \in Nat BY <2>1, <2>2
    <2>. QED BY <1>0, <2>1, <2>3 DEF Typed
  <1>2. \/ /\ open' = Pinned(rest) \/ open' = rest
           /\ \/ loc' = loc
              \/ /\ \A c \in Paths \ {p} : Up[c] = p => loc[c] = None
                 /\ loc' = Removed(loc, p)
           /\ UNCHANGED <<phase, status, prep>>
        \/ Finish("failed") /\ open' = open /\ gone' = gone
    BY DEF Judge
  <1>3. CASE Finish("failed") /\ open' = open /\ gone' = gone
    BY <1>0, <1>1, <1>3, EndsStep DEF Finish
  <1>4. CASE /\ open' = Pinned(rest) \/ open' = rest
             /\ \/ loc' = loc
                \/ /\ \A c \in Paths \ {p} : Up[c] = p => loc[c] = None
                   /\ loc' = Removed(loc, p)
             /\ UNCHANGED <<phase, status, prep>>
    <2>1. Treelike(loc) BY <1>0 DEF Typed
    <2>2. Treelike(loc') /\ Fitting(rest, loc', at')
      <3>1. CASE loc' = loc BY <2>1, <3>1
      <3>2. CASE (\A c \in Paths \ {p} : Up[c] = p => loc[c] = None) /\ loc' = Removed(loc, p)
        <4>1. PICK S, m : S = {q \in Paths : InSubtree(p, q)} /\ m = Removed(loc, p) OBVIOUS
        <4>2. Treelike(m) /\ Keeps(loc, m, S) BY <2>1, <4>1, RemovedLeaves
        <4>3. Bare(loc, p)
          <5>1. \A c \in Paths \ {Root} : Up[c] = p => c # p BY AboveTypes, AboveKey
          <5>. QED BY <3>2, <5>1 DEF Bare
        <4>4. \A n \in 1..Len(rest) : Stands(m, rest[n].path)
          <5>. SUFFICES ASSUME NEW n \in 1..Len(rest) PROVE Stands(m, rest[n].path) OBVIOUS
          <5>1. PICK q \in Paths : q = rest[n].path /\ Stands(loc, q) /\ q # p BY DEF Fitting
          <5>2. q \notin S
            <6>1. p \notin Above[q] BY <2>1, <4>3, <5>1, NothingIn DEF Stands
            <6>. QED BY <4>1, <5>1, <6>1 DEF InSubtree
          <5>3. Alike(loc[q], m[q]) BY <4>2, <5>1, <5>2 DEF Keeps, Stands
          <5>4. loc[q] \in Items BY <2>1, <5>1, SlotItem DEF Treelike, Stands
          <5>. QED BY <5>1, <5>3, <5>4, AlikeItem DEF Stands
        <4>5. loc' = m BY <3>2, <4>1
        <4>. QED BY <4>2, <4>4, <4>5 DEF Fitting
      <3>. QED BY <1>4, <3>1, <3>2
    <2>3. Fitting(open', loc', at')
      <3>1. CASE open' = rest BY <2>2, <3>1
      <3>2. CASE open' = Pinned(rest)
        <4>1. \A l, k : Fitting(rest, l, k) => Fitting(Pinned(rest), l, k) BY PinnedFits
        <4>. QED BY <2>2, <3>2, <4>1
      <3>. QED BY <1>4, <3>1, <3>2
    <2>. QED BY <1>1, <1>4, <2>2, <2>3, ExtrasStacks DEF Fitting
  <1>. QED BY <1>2, <1>3, <1>4

LEMMA CloseExtraStep == Inv /\ CloseExtra => Inv'
  <1>. SUFFICES ASSUME Inv, CloseExtra PROVE Inv' OBVIOUS
  <1>0. Typed BY DEF Inv
  <1>1. phase = "extras" /\ open # <<>> BY DEF CloseExtra
  <1>2. /\ open \in Seq(Entries) /\ Len(open) \in 1..Len(open) /\ Len(open) \in Nat
        /\ opts.delete # "no"
        /\ \A n \in 1..Len(open) : /\ open[n] \in Entries /\ open[n].path \in Paths \ {Root}
                                   /\ open[n].path \notin Nondirs
                                   /\ DirKey[open[n].path] < at /\ Stands(loc, open[n].path)
        /\ \A m, n \in 1..Len(open) : m < n => open[m].path \in Above[open[n].path]
    BY <1>1, OpenIs
  <1>3. PICK p, rest : p = Innermost.path /\ rest = Front(open) OBVIOUS
  <1>4. p \in Paths \ {Root} /\ loc[p] # None /\ p = open[Len(open)].path
    BY <1>2, <1>3 DEF Innermost, Stands
  <1>5. /\ rest \in Seq(Entries) /\ Len(rest) = Len(open) - 1
        /\ \A n \in 1..Len(open) - 1 : rest[n] = open[n]
    BY <1>1, <1>2, <1>3, FrontIs
  <1>6. \A n \in 1..Len(rest) : n \in 1..Len(open) /\ rest[n] = open[n] /\ n < Len(open)
    <2>1. \A n \in 1..Len(rest) : n \in 1..Len(open) - 1 /\ n \in 1..Len(open) /\ n < Len(open)
      BY <1>2, <1>5
    <2>. QED BY <1>5, <2>1
  <1>7. UNCHANGED <<rec, obj, opts, orig, todo, spool, cur, frames, deferred, post, pass, at>>
    BY DEF CloseExtra
  <1>8. Fitting(rest, loc, at')
    BY <1>2, <1>5, <1>6, <1>7 DEF Fitting
  <1>9. \A n \in 1..Len(rest) : rest[n].path # p
    <2>1. \A n \in 1..Len(rest) : open[n].path \in Above[p] BY <1>2, <1>4, <1>6
    <2>. QED BY <1>4, <1>6, <2>1, AboveKey
  <1>10. CASE Innermost.kept
    <2>1. open' = rest /\ UNCHANGED <<loc, gone, asked, told, bad, mishaps, phase, status, prep>>
      BY <1>3, <1>10 DEF CloseExtra
    <2>. QED BY <1>0, <1>1, <1>2, <1>7, <1>8, <2>1, ExtrasStacks DEF Fitting, Typed
  <1>11. CASE ~Innermost.kept
    <2>1. Judge(p, rest) BY <1>3, <1>11 DEF CloseExtra
    <2>2. at' \in Nat BY <1>0, <1>7 DEF Typed
    <2>. QED BY <1>1, <1>2, <1>4, <1>7, <1>8, <1>9, <2>1, <2>2, JudgeStep
  <1>. QED BY <1>10, <1>11

LEMMA NextLocalIs ==
  ASSUME Inv, ToPrune # {}, NEW p, p = NextLocal
  PROVE  /\ p \in Paths \ {Root} /\ loc[p] # None /\ Shown(p) /\ LocalKey(p) \in Nat /\ LocalKey(p) >= at
         /\ \A q \in ToPrune : LocalKey(p) <= LocalKey(q)
  <1>. DEFINE k == [q \in Paths |-> LocalKey(q)]
  <1>1. k \in [Paths -> Nat] BY KeysDiffer DEF LocalKey, KeyAs
  <1>2. ToPrune \in SUBSET Paths BY DEF ToPrune
  <1>3. \E q \in ToPrune : \A r \in ToPrune : k[q] <= k[r]
    <2>. HIDE DEF k
    <2>. QED BY <1>1, <1>2, LeastKey
  <1>4. \E q \in ToPrune : \A r \in ToPrune : LocalKey(q) <= LocalKey(r)
    BY <1>2, <1>3
  <1>5. p \in ToPrune /\ \A q \in ToPrune : LocalKey(p) <= LocalKey(q)
    BY <1>4 DEF NextLocal
  <1>. QED BY <1>1, <1>2, <1>5 DEF ToPrune, Shown

LEMMA PruneStep == Inv /\ Prune => Inv'
  <1>. SUFFICES ASSUME Inv, Prune PROVE Inv' OBVIOUS
  <1>0. Typed /\ at \in Nat BY DEF Inv, Typed
  <1>1. /\ phase = "extras" /\ opts.delete # "no" /\ ToPrune # {}
        /\ UNCHANGED <<rec, obj, opts, orig, todo, spool, cur, frames, deferred, post, pass>>
    BY DEF Prune
  <1>2. PICK p : p = NextLocal OBVIOUS
  <1>3. p \in Paths \ {Root} /\ loc[p] # None /\ LocalKey(p) \in Nat /\ LocalKey(p) >= at
    BY <1>1, <1>2, NextLocalIs
  <1>4. at' = LocalKey(p) + 1 /\ at' \in Nat /\ at <= at'
    BY <1>0, <1>2, <1>3 DEF Prune
  <1>5. Fitting(open, loc, at) BY <1>1, OpenIs DEF Fitting
  <1>6. Fitting(open, loc, at') BY <1>0, <1>4, <1>5, FittingLater
  <1>7. CASE ~Extra(p) \/ loc[p].kind = "dir"
    <2>1. /\ open' = IF Extra(p) THEN Append(open, [path |-> p, kept |-> FALSE]) ELSE Pinned(open)
          /\ UNCHANGED <<loc, gone, asked, told, bad, mishaps, phase, status, prep>>
      BY <1>2, <1>7 DEF Prune
    <2>2. Fitting(open', loc, at')
      <3>1. CASE ~Extra(p)
        <4>1. open' = Pinned(open) BY <2>1, <3>1
        <4>2. \A l, k : Fitting(open, l, k) => Fitting(Pinned(open), l, k) BY PinnedFits
        <4>. QED BY <1>6, <4>1, <4>2
      <3>2. CASE Extra(p)
        <4>0. Stands(loc, p) BY <1>3, <1>7, <3>2 DEF Stands
        <4>1. p \notin Nondirs BY <3>2 DEF Extra, Covered, InSubtree
        <4>2. LocalKey(p) = DirKey[p] BY <4>0 DEF LocalKey, KeyAs, Stands
        <4>3. PICK x : x = [path |-> p, kept |-> FALSE] OBVIOUS
        <4>4. x \in Entries /\ x.path = p BY <1>3, <4>3 DEF Entries
        <4>5. PICK s : s = Append(open, x) OBVIOUS
        <4>6. open \in Seq(Entries) BY <1>5 DEF Fitting
        <4>7. /\ s \in Seq(Entries) /\ Len(s) = Len(open) + 1 /\ Len(open) \in Nat
              /\ \A i \in 1..Len(open) : s[i] = open[i]
              /\ s[Len(open) + 1] = x
          BY <4>4, <4>5, <4>6, AppendProperties
        <4>8. \A n \in 1..Len(s) : (n \in 1..Len(open) /\ s[n] = open[n]) \/ (n = Len(open) + 1 /\ s[n] = x)
          <5>. SUFFICES ASSUME NEW n \in 1..Len(s)
                        PROVE  (n \in 1..Len(open) /\ s[n] = open[n]) \/ (n = Len(open) + 1 /\ s[n] = x)
            OBVIOUS
          <5>1. CASE n \in 1..Len(open) BY <4>7, <5>1
          <5>2. CASE n = Len(open) + 1 BY <4>7, <5>2
          <5>3. n \in 1..Len(open) \/ n = Len(open) + 1
            <6>1. Len(open) \in Nat /\ Len(s) = Len(open) + 1 BY <4>7
            <6>. QED BY <6>1
          <5>. QED BY <5>1, <5>2, <5>3
        <4>9. \A n \in 1..Len(s) : /\ s[n].path \in Paths \ {Root} /\ s[n].path \notin Nondirs
                                   /\ DirKey[s[n].path] < at' /\ Stands(loc, s[n].path)
          <5>1. DirKey[p] < at' BY <1>3, <1>4, <4>2
          <5>. QED BY <1>3, <1>6, <4>0, <4>1, <4>4, <4>8, <5>1 DEF Fitting
        <4>10. \A n \in 1..Len(open) : open[n].path \in Above[p]
          <5>. SUFFICES ASSUME NEW n \in 1..Len(open) PROVE open[n].path \in Above[p] OBVIOUS
          <5>1. open # <<>> BY <4>6, EmptySeq
          <5>2. Innermost.path # p
            <6>1. DirKey[Innermost.path] < at BY <1>1, <5>1, OpenIs DEF Innermost
            <6>. QED BY <1>0, <1>3, <4>2, <6>1
          <5>3. InSubtree(Innermost.path, p) BY <1>2, <5>1 DEF Prune, PastOpen
          <5>4. Innermost.path \in Above[p] /\ Innermost = open[Len(open)]
            BY <5>2, <5>3 DEF InSubtree, Innermost
          <5>5. CASE n = Len(open) BY <5>4, <5>5
          <5>6. CASE n # Len(open)
            <6>1. n < Len(open) /\ Len(open) \in 1..Len(open) BY <4>7, <5>6
            <6>2. open[n].path \in Above[Innermost.path] BY <1>5, <5>4, <6>1 DEF Fitting
            <6>. QED BY <1>3, <5>4, <6>2, AboveTrans
          <5>. QED BY <5>5, <5>6
        <4>11. ASSUME NEW m \in 1..Len(s), NEW n \in 1..Len(s), m < n
               PROVE  s[m].path \in Above[s[n].path]
          <5>1. m \in 1..Len(open) /\ s[m] = open[m] BY <4>7, <4>8, <4>11
          <5>2. CASE n \in 1..Len(open) /\ s[n] = open[n] BY <1>5, <4>11, <5>1, <5>2 DEF Fitting
          <5>3. CASE n = Len(open) + 1 /\ s[n] = x BY <4>4, <4>10, <5>1, <5>3
          <5>. QED BY <4>8, <5>2, <5>3
        <4>12. Fitting(s, loc, at') BY <4>7, <4>9, <4>11 DEF Fitting
        <4>13. open' = s BY <2>1, <3>2, <4>3, <4>5
        <4>. QED BY <4>12, <4>13
      <3>. QED BY <3>1, <3>2
    <2>. QED BY <1>0, <1>1, <1>4, <2>1, <2>2, ExtrasStacks DEF Fitting, Typed
  <1>8. CASE ~(~Extra(p) \/ loc[p].kind = "dir")
    <2>1. Judge(p, open) BY <1>2, <1>8 DEF Prune
    <2>2. \A n \in 1..Len(open) : open[n].path # p
      BY <1>5, <1>8 DEF Fitting, Stands
    <2>. QED BY <1>1, <1>3, <1>4, <1>6, <2>1, <2>2, JudgeStep
  <1>. QED BY <1>7, <1>8

LEMMA PrunedStep == Inv /\ Pruned => Inv'
  <1>. SUFFICES ASSUME Inv, Pruned PROVE Inv' OBVIOUS
  <1>0. Typed BY DEF Inv
  <1>1. /\ phase = "extras" /\ (opts.delete = "no" \/ open = <<>>) /\ at' = 0
        /\ UNCHANGED <<rec, obj, opts, orig, todo, spool, frames, deferred, post, open, gone, asked>>
        /\ UNCHANGED <<told, bad, mishaps>>
    BY DEF Pruned
  <1>2. \/ phase' = "apply" /\ pass' = 2 /\ cur' = 1 /\ UNCHANGED <<status, loc, prep>>
        \/ /\ loc' = GivenBack(loc) /\ prep' = NoPrep /\ phase' = "done" /\ status' \in {"failed", "ok"}
           /\ UNCHANGED <<pass, cur>>
    BY DEF Pruned, Finish
  <1>3. CASE phase' = "apply" /\ pass' = 2 /\ cur' = 1 /\ UNCHANGED <<status, loc, prep>>
    <2>1. frames = <<>> /\ open = <<>> /\ deferred = <<>> /\ post = {} /\ ~Unrestorable
      BY <1>1 DEF Inv, FramesFit, OpenFits, LastFits, Refused
    <2>. QED BY <1>0, <1>1, <1>3, <2>1, StacksAlone DEF Typed
  <1>4. CASE /\ loc' = GivenBack(loc) /\ prep' = NoPrep /\ phase' = "done" /\ status' \in {"failed", "ok"}
             /\ UNCHANGED <<pass, cur>>
    BY <1>0, <1>1, <1>4, EndsStep DEF Typed
  <1>. QED BY <1>2, <1>3, <1>4

LEMMA CutStep == Inv /\ Cut => Inv'
  <1>. SUFFICES ASSUME Inv, Cut PROVE Inv' OBVIOUS
  <1>0. Typed /\ mishaps \in Nat BY DEF Inv, Typed
  <1>1. mishaps > 0 /\ mishaps' = mishaps - 1 BY DEF Cut
  <1>2. mishaps' \in Nat BY <1>0, <1>1
  <1>3. /\ UNCHANGED <<rec, obj, opts, orig, frames, deferred, post, open, gone>>
        /\ UNCHANGED <<todo, spool, cur, pass, at, told, bad, asked>>
        /\ loc' = GivenBack(loc) \/ loc' = loc
        /\ prep' = NoPrep /\ phase' = "done" /\ status' = "cut"
    BY DEF Cut
  <1>. QED BY <1>0, <1>2, <1>3, EndsStep DEF Typed

LEMMA AgainStep == Inv /\ Again => Inv'
  <1>. SUFFICES ASSUME Inv, Again PROVE Inv' OBVIOUS
  <1>0. Typed BY DEF Inv
  <1>1. /\ phase = "done" /\ phase' = "start" /\ status' = None
        /\ at' = 0 /\ todo' = {} /\ spool' = <<>> /\ cur' = 1 /\ frames' = <<>> /\ deferred' = <<>>
        /\ post' = {} /\ open' = <<>> /\ gone' = {} /\ asked' = {} /\ told' = {} /\ bad' = FALSE /\ pass' = 1
        /\ orig' = loc /\ UNCHANGED <<rec, obj, opts, loc, prep, mishaps>>
    BY DEF Again
  <1>2. Given /\ Given' BY <1>0, <1>1, SameGiven DEF Typed
  <1>3. Typed'
    <2>1. cur' \in Nat \ {0} BY <1>1
    <2>. QED BY <1>0, <1>1, <1>2, <2>1, EmptySeq DEF Typed, Treelike, Stands
  <1>4. prep' = NoPrep BY <1>1 DEF Inv, PrepFits
  <1>. QED BY <1>1, <1>3, <1>4 DEF Inv, FramesFit, OpenFits, LastFits, PrepFits, Refused, NoPrep,
                            MakeFits

\* Every step keeps the invariant.
LEMMA InvStep == Inv /\ [Next]_vars => Inv'
  <1>. SUFFICES ASSUME Inv, [Next]_vars PROVE Inv' OBVIOUS
  <1>1. CASE Next
    BY <1>1, StartStep, VetStep, MakeStep, PrepStep, DecideStep, LandStep, SyncedStep, PopFrameStep,
       ClearConflictStep, ApplyStep, SkipExcludedStep, ApplyFailsStep, StreamedStep, PlaceStep, ResettleStep, AppliedStep,
       CloseExtraStep, PruneStep, PrunedStep, CutStep, AgainStep DEF Next
  <1>2. CASE UNCHANGED vars
    <2>1. UNCHANGED <<rec, obj, opts, orig, loc, phase, at, todo, spool, walked, cur, frames, deferred,
                      post, prep, open, gone, asked, told, bad, pass, status, mishaps>>
      BY <1>2 DEF vars
    <2>2. (Given' <=> Given) /\ (Unrestorable' <=> Unrestorable) /\ Nondirs' = Nondirs BY <2>1, SameGiven
    <2>3. Typed' BY <2>1, <2>2 DEF Inv, Typed, Treelike, Stands
    <2>4. FramesFit' /\ OpenFits' /\ LastFits'
      BY <2>1, <2>2 DEF Inv, FramesFit, OpenFits, LastFits, DirRec, LinkRec, Stands
    <2>5. PrepFits' /\ Refused' BY <2>1, <2>2 DEF Inv, PrepFits, Refused, NoPrep
    <2>6. MakeFits' BY <2>1 DEF Inv, MakeFits, Positions, Recorded, Beneath, Stands
    <2>. QED BY <2>3, <2>4, <2>5, <2>6 DEF Inv
  <1>. QED BY <1>1, <1>2

LEMMA InvHolds == Spec => []Inv
  <1>. QED BY InitInv, InvStep, PTL DEF Spec

LEMMA InvTypes == Inv => TypeOK
  <1>. SUFFICES ASSUME Inv PROVE TypeOK OBVIOUS
  <1>1. Typed /\ Treelike(loc) BY DEF Inv, Typed
  <1>2. \A p \in Paths : loc[p] # None => p = Root \/ (loc[Up[p]] # None /\ loc[Up[p]].kind = "dir")
    BY <1>1 DEF Treelike, Stands
  <1>3. \A n \in 1..Len(frames) - 1 : frames[n].path \in Above[frames[n + 1].path]
    <2>1. Len(frames) \in Nat BY <1>1 DEF Typed
    <2>2. \A n \in 1..Len(frames) - 1 : n \in 1..Len(frames) /\ n + 1 \in 1..Len(frames) /\ n < n + 1
      BY <2>1
    <2>. QED BY <2>2 DEF Inv, FramesFit
  <1>4. \A n \in 1..Len(open) - 1 : open[n].path \in Above[open[n + 1].path]
    <2>1. Len(open) \in Nat BY <1>1 DEF Typed
    <2>2. \A n \in 1..Len(open) - 1 : n \in 1..Len(open) /\ n + 1 \in 1..Len(open) /\ n < n + 1
      BY <2>1
    <2>. QED BY <2>2 DEF Inv, OpenFits
  <1>5. /\ phase \in {"start", "vet", "make", "prep", "sync", "apply", "place", "settle", "extras", "done"}
        /\ todo \subseteq Paths /\ gone \subseteq Paths
    BY <1>1 DEF Typed
  <1>6. phase = "done" => prep = NoPrep BY DEF Inv, PrepFits
  <1>. QED BY <1>2, <1>3, <1>4, <1>5, <1>6 DEF TypeOK

\* What is in a directory has it, the apply's and the removal's open
\* directories lie one in another, and no pull returns with a prepped mode
\* still to give back (Pull.TypeOK).
THEOREM TreesHold == Spec => []TypeOK
  <1>. QED BY InvHolds, InvTypes, PTL
-----------------------------------------------------------------------------
(* What a pull must not touch, on POSIX, among names the filesystem keeps  *)
(* apart: a file whose record has no object and, under -u, what is newer   *)
(* than the record of a leaf.                                              *)

Stale(p) == rec[p].kind = "file" /\ obj[p] = None /\ orig[p] # None /\ orig[p].kind = "file"
Newer(p) == NewerHere(p) /\ (orig[p].kind = "dir" => rec[p].mtime <= Now)
Guarded  == {p \in Nondirs : Stale(p) \/ Newer(p)}

\* The line that says the record of p is stale comes before any other that a
\* lookup of p could stop at.
Leads(p, n) ==
  /\ n \in 1..Len(spool) /\ spool[n] = Line("G", LeafKey[p])
  /\ \A k \in 1..Len(spool) : k < n => spool[k].key < LeafKey[p]
\* The apply will leave p alone: p is as recorded, or no lookup of it can hit,
\* or the cursor has its line ahead.
Answered(p) ==
  \/ Matches(rec[p], orig[p])
  \/ orig[p].mode \notin Readable
  \/ \E n \in 1..Len(spool) : Leads(p, n) /\ (phase = "apply" /\ at <= LeafKey[p] => cur <= n)

AsMet  == \A p \in Guarded : Alike(orig[p], loc[p])
Begun  ==
  /\ phase \in {"start", "vet", "make", "prep"} => todo = {} /\ spool = <<>>
  /\ phase \in {"start", "vet", "make", "prep", "sync"} => cur = 1
  /\ phase = "prep" => at = 0
  /\ phase = "start" => orig = loc
Behind == phase = "sync" => \A n \in 1..Len(spool) : spool[n].key < at
Silent ==
  /\ \A n \in 1..Len(spool) : \A p \in Paths \ {Root} :
       spool[n].key = LeafKey[p] /\ obj[p] = None => spool[n].say = "G"
  /\ \A p \in Guarded :
       /\ p \notin todo /\ \A n \in 1..Len(deferred) : deferred[n] # p
       /\ \A n \in 1..Len(spool) : spool[n].key = LeafKey[p] => spool[n].say # "D"
Answers ==
  \A p \in Guarded :
    Stale(p) /\ Judged(p) /\ ((phase = "sync" /\ LeafKey[p] < at) \/ phase \in {"apply", "place", "extras"})
    => Answered(p)

Sheltered == AsMet /\ Begun /\ Behind /\ Silent /\ Answers /\ prep = NoPrep

LEMMA SameGuard ==
  ASSUME UNCHANGED <<rec, obj, opts, orig>>
  PROVE  /\ Guarded' = Guarded
         /\ \A p \in Paths : Stale(p)' <=> Stale(p)
         /\ \A p \in Paths : Judged(p)' <=> Judged(p)
  <1>1. Nondirs' = Nondirs BY SameGiven
  <1>2. \A p \in Paths : (Stale(p)' <=> Stale(p)) /\ (Newer(p)' <=> Newer(p)) /\ (Judged(p)' <=> Judged(p))
    BY DEF Stale, Newer, NewerHere, Judged, RecKey, KeyAs
  <1>3. \A p \in Nondirs : p \in Paths BY DEF Nondirs, Recorded
  <1>. QED BY <1>1, <1>2, <1>3 DEF Guarded

LEMMA GuardedIs ==
  ASSUME Inv, AsMet, NEW p \in Guarded
  PROVE  /\ p \in Paths \ {Root} /\ p \in Recorded /\ p \in Nondirs /\ ~DirRec(p) /\ rec[p] # None
         /\ RecKey(p) = LeafKey[p] /\ LeafKey[p] \in Nat
         /\ orig[p] \in Items /\ orig[p] # None
         /\ loc[p] \in Items /\ loc[p] # None /\ loc[p].kind = orig[p].kind
         /\ (orig[p].kind # "dir" => loc[p] = orig[p])
         /\ loc[p].mtime \in {orig[p].mtime, Now}
         /\ Disk(p) = p /\ Found(p) = loc[p]
  <1>1. p \in Nondirs /\ p \in Paths /\ rec[p] # None /\ rec[p].kind # "dir" /\ p \in Recorded
    BY DEF Guarded, Nondirs, Recorded
  <1>2. p # Root BY <1>1, GivenFacts DEF Inv, Typed
  <1>3. RecKey(p) = LeafKey[p] /\ LeafKey[p] \in Nat BY <1>1, KeysDiffer DEF RecKey, KeyAs
  <1>4. orig[p] # None BY DEF Guarded, Stale, Newer, NewerHere
  <1>5. orig[p] \in Items BY <1>1, <1>4, SlotItem DEF Inv, Typed, Treelike
  <1>6. Alike(orig[p], loc[p]) BY DEF AsMet
  <1>7. /\ loc[p] \in Items /\ loc[p] # None /\ loc[p].kind = orig[p].kind
        /\ (orig[p].kind # "dir" => loc[p] = orig[p]) /\ loc[p].mtime \in {orig[p].mtime, Now}
    BY <1>5, <1>6, AlikeItem
  <1>8. Disk(p) = p BY <1>7 DEF Disk, DiskIn
  <1>9. Found(p) = loc[p] BY <1>8 DEF Found
  <1>. QED BY <1>1, <1>2, <1>3, <1>4, <1>5, <1>7, <1>8, <1>9 DEF DirRec

\* A newer item is newer still after an entry was made in it, or as new.
LEMMA NewerStill ==
  ASSUME Inv, AsMet, NEW p \in Guarded, Newer(p)
  PROVE  /\ opts.update
         /\ \/ OrderedSide(rec[p], loc[p]) = "local"
            \/ OrderedSide(rec[p], loc[p]) = "tie" /\ loc[p].kind = "dir"
  <1>1. OrderedSide(rec[p], orig[p]) = "local" /\ opts.update BY DEF Newer, NewerHere
  <1>2. CASE loc[p] = orig[p] BY <1>1, <1>2
  <1>3. CASE loc[p] # orig[p]
    <2>1. loc[p].kind = "dir" /\ orig[p].kind = "dir" BY <1>3, GuardedIs
    <2>2. rec[p].mtime <= Now BY <2>1 DEF Newer
    <2>3. loc[p].mtime \in {orig[p].mtime, Now} /\ orig[p] \in Items BY GuardedIs
    <2>4. orig[p].mtime \in Nat /\ Now \in Nat /\ Window \in Nat BY <2>3, ItemAssumption DEF Items
    <2>5. rec[p].mtime \in Nat \cup {NoMtime}
      BY GuardedIs, GivenFacts DEF Inv, Typed
    <2>6. NewerSide(rec[p], orig[p]) = "local" BY <1>1, <2>1 DEF OrderedSide
    <2>7. /\ rec[p].mtime # NoMtime /\ ~(Drift(rec[p].mtime, orig[p].mtime) <= Window)
          /\ orig[p].mtime > rec[p].mtime
      BY <2>6 DEF NewerSide
    <2>8. PICK a, b, c, w \in Nat : a = rec[p].mtime /\ b = orig[p].mtime /\ c = loc[p].mtime /\ w = Window
      BY <2>3, <2>4, <2>5, <2>7
    <2>9. a <= c
      <3>1. a <= b BY <2>7, <2>8
      <3>. QED BY <2>2, <2>3, <2>8, <3>1
    <2>10. Drift(a, c) <= w \/ c > a BY <2>8, <2>9 DEF Drift
    <2>11. NewerSide(rec[p], loc[p]) \in {"local", "tie"} BY <2>7, <2>8, <2>10 DEF NewerSide
    <2>. QED BY <1>1, <2>1, <2>11 DEF OrderedSide
  <1>. QED BY <1>2, <1>3

\* No name confused with q's stands for a record, where q's own is claimed.
LEMMA Apart ==
  ASSUME NamesApart, Inv, NEW q \in Paths, Disk(q) # q,
         NEW x \in Paths, InSubtree(q, x), rec[x] # None \/ obj[x] # None,
         NEW p \in Paths, InSubtree(Disk(q), p), rec[p] # None
  PROVE  FALSE
  <1>1. PICK w \in Worlds : rec = w.rec /\ obj = w.obj BY DEF Inv, Typed, Given
  <1>2. Disk(q) = Twin[q] /\ Disk(q) \in Paths BY FoundIs DEF Inv, Typed
  <1>3. Twin[q] # None BY <1>2, NoneIsNoItem
  <1>. QED BY <1>1, <1>2, <1>3 DEF NamesApart

LEMMA NotThere ==
  ASSUME NamesApart, Inv, AsMet, NEW p \in Guarded, NEW q \in Paths, q # p,
         rec[q] # None \/ obj[q] # None
  PROVE  Disk(q) # p
  <1>. SUFFICES ASSUME Disk(q) = p PROVE FALSE OBVIOUS
  <1>1. p \in Paths /\ rec[p] # None BY GuardedIs
  <1>2. InSubtree(q, q) /\ InSubtree(Disk(q), p) BY DEF InSubtree
  <1>. QED BY <1>1, <1>2, Apart

\* A recorded link takes the place of nothing that is recorded.
LEMMA NotSwept ==
  ASSUME NamesApart, Inv, AsMet, phase \notin {"start", "done"},
         NEW p \in Guarded, NEW q \in Paths, q # p, LinkRec(q)
  PROVE  p \notin {q} \cup Swept(q)
  <1>. SUFFICES ASSUME p \in Swept(q) PROVE FALSE OBVIOUS
  <1>1. p \in Paths /\ rec[p] # None /\ p \in Recorded BY GuardedIs
  <1>2. InSubtree(Disk(q), p) BY DEF Swept
  <1>3. CASE Disk(q) = q
    <2>1. q \in Above[p] BY <1>2, <1>3 DEF InSubtree
    <2>2. q \in Nondirs BY DEF Nondirs, Recorded, LinkRec
    <2>3. Unrestorable BY <1>1, <2>1, <2>2 DEF Unrestorable, Beneath
    <2>. QED BY <2>3 DEF Inv, Refused
  <1>4. CASE Disk(q) # q
    <2>1. InSubtree(q, q) /\ rec[q] # None BY DEF InSubtree, LinkRec
    <2>. QED BY <1>1, <1>2, <1>4, <2>1, Apart
  <1>. QED BY <1>3, <1>4

LEMMA MetAfter ==
  ASSUME Inv, AsMet, UNCHANGED <<rec, obj, opts, orig>>,
         NEW S, Keeps(loc, loc', S), \A p \in Guarded : p \notin S
  PROVE  AsMet'
  <1>1. Guarded' = Guarded BY SameGuard
  <1>2. \A p \in Guarded : Alike(orig[p], loc'[p])
    <2>. SUFFICES ASSUME NEW p \in Guarded PROVE Alike(orig[p], loc'[p]) OBVIOUS
    <2>1. p \in Paths /\ loc[p] # None /\ orig[p] \in Items BY GuardedIs
    <2>2. Alike(orig[p], loc[p]) BY DEF AsMet
    <2>3. Alike(loc[p], loc'[p]) BY <2>1 DEF Keeps
    <2>. QED BY <2>1, <2>2, <2>3, AlikeTrans
  <1>. QED BY <1>1, <1>2 DEF AsMet, Alike

LEMMA MetSame ==
  ASSUME AsMet, UNCHANGED <<rec, obj, opts, orig, loc>>
  PROVE  AsMet'
  BY SameGuard DEF AsMet, Alike
\* A step after the sync: what it may do to the cursor and the tree.
LEMMA LaterShelter ==
  ASSUME Sheltered, phase \in {"apply", "place", "extras"}, phase' \in {"apply", "place", "extras", "done"},
         UNCHANGED <<rec, obj, opts, orig, spool, todo>>, prep' = NoPrep, AsMet',
         \A p \in Guarded : \A n \in 1..Len(deferred') : deferred'[n] # p,
         \A p \in Guarded : \A n \in 1..Len(spool) :
           /\ phase' = "apply" /\ Leads(p, n) /\ at' <= LeafKey[p]
           /\ phase = "apply" /\ at <= LeafKey[p] => cur <= n
           => cur' <= n
  PROVE  Sheltered'
  <1>1. Guarded' = Guarded /\ Guarded \in SUBSET Paths
    BY SameGuard DEF Guarded, Nondirs, Recorded
  <1>2. Begun' /\ Behind' BY DEF Begun, Behind
  <1>3. Silent' BY <1>1 DEF Sheltered, Silent
  <1>4. ASSUME NEW p \in Guarded, Stale(p), Judged(p)
        PROVE  Answered(p)'
    <2>1. Answered(p) BY <1>4 DEF Sheltered, Answers
    <2>2. CASE Matches(rec[p], orig[p]) \/ orig[p].mode \notin Readable
      BY <2>2 DEF Answered, Matches, StatusShows
    <2>3. CASE \E n \in 1..Len(spool) : Leads(p, n) /\ (phase = "apply" /\ at <= LeafKey[p] => cur <= n)
      <3>1. PICK n \in 1..Len(spool) : Leads(p, n) /\ (phase = "apply" /\ at <= LeafKey[p] => cur <= n)
        BY <2>3
      <3>2. phase' = "apply" /\ at' <= LeafKey[p] => cur' <= n BY <3>1
      <3>3. Leads(p, n)' BY <3>1 DEF Leads, Line
      <3>. QED BY <3>2, <3>3 DEF Answered
    <2>. QED BY <2>1, <2>2, <2>3 DEF Answered
  <1>5. \A p \in Guarded : Stale(p)' /\ Judged(p)' => Answered(p)'
    BY <1>1, <1>4, SameGuard
  <1>6. Answers' BY <1>1, <1>5 DEF Answers
  <1>7. (prep = NoPrep)' BY DEF NoPrep
  <1>. QED BY <1>2, <1>3, <1>6, <1>7 DEF Sheltered

\* ... and one that reads nothing of the spool.
LEMMA LaterSame ==
  ASSUME Sheltered, phase \in {"apply", "place", "extras"},
         phase' \in {"place", "extras", "done"} \/ (phase' = phase /\ UNCHANGED <<at, cur>>),
         UNCHANGED <<rec, obj, opts, orig, spool, todo>>, prep' = NoPrep, AsMet',
         \A p \in Guarded : \A n \in 1..Len(deferred') : deferred'[n] # p
  PROVE  Sheltered'
  <1>1. \A p \in Guarded : \A n \in 1..Len(spool) :
           /\ phase' = "apply" /\ Leads(p, n) /\ at' <= LeafKey[p]
           /\ phase = "apply" /\ at <= LeafKey[p] => cur <= n
           => cur' <= n
    OBVIOUS
  <1>. QED BY <1>1, LaterShelter

\* The modes of what was prepped: none, on POSIX.
LEMMA GivesNothing ==
  ASSUME Inv, prep = NoPrep, loc' = GivenBack(loc)
  PROVE  loc' = loc
  BY GivenBackIs DEF Inv

\* A lookup of an earlier record leaves the line of p ahead of the cursor.
LEMMA CursorBefore ==
  ASSUME Inv, AtRecord, NEW q, q = NextRecord, NextLine(q), NEW p \in Paths \ {Root}, q # p,
         NEW n \in 1..Len(spool), Leads(p, n), at <= LeafKey[p] => cur <= n, at' <= LeafKey[p]
  PROVE  cur' <= n
  <1>1. q \in Paths /\ RecKey(q) \in Nat /\ at <= RecKey(q) /\ at \in Nat
    BY AtRecordIs DEF Inv, Typed
  <1>2. LeafKey[p] \in Nat /\ RecKey(q) # LeafKey[p]
    BY <1>1, TreeAssumption DEF RecKey, KeyAs
  <1>3. at' = RecKey(q) + 1 /\ cur' = Ahead(RecKey(q)) + (IF Hit(RecKey(q)) THEN 1 ELSE 0)
    BY DEF NextLine
  <1>4. RecKey(q) < LeafKey[p] /\ cur <= n BY <1>1, <1>2, <1>3
  <1>5. cur \in Nat \ {0} /\ n \in Nat /\ Len(spool) \in Nat BY DEF Inv, Typed
  <1>6. spool[n].key = LeafKey[p] BY DEF Leads, Line
  <1>7. n \in LinesFrom(RecKey(q)) BY <1>1, <1>2, <1>4, <1>5, <1>6 DEF LinesFrom
  <1>8. /\ Ahead(RecKey(q)) \in Nat \ {0} /\ Ahead(RecKey(q)) <= n
    BY <1>1, <1>7, AheadIs DEF Inv
  <1>9. Hit(RecKey(q)) => Ahead(RecKey(q)) # n BY <1>2, <1>6 DEF Hit
  <1>. QED BY <1>3, <1>5, <1>8, <1>9

\* What a lookup of p finds.
LEMMA DecisionIs ==
  ASSUME Inv, Sheltered, phase = "apply", NEW p \in Guarded, at <= LeafKey[p], Judged(p),
         NEW d, d = Decision(LeafKey[p])
  PROVE  /\ d \in {None, "K", "G"} /\ (obj[p] = None => d \in {None, "G"})
         /\ Stale(p) => d = "G" \/ Matches(rec[p], loc[p]) \/ loc[p].mode \notin Readable
  <1>0. Inv /\ AsMet BY DEF Sheltered
  <1>1. p \in Paths \ {Root} /\ LeafKey[p] \in Nat BY <1>0, GuardedIs
  <1>2. Typed /\ cur \in Nat \ {0} /\ Len(spool) \in Nat /\ spool \in Seq(Lines) BY DEF Inv, Typed
  <1>3. PICK k : k = Ahead(LeafKey[p]) OBVIOUS
  <1>4. /\ k \in Nat \ {0}
        /\ \/ LinesFrom(LeafKey[p]) = {} /\ k = Len(spool) + 1
           \/ k \in LinesFrom(LeafKey[p]) /\ \A m \in LinesFrom(LeafKey[p]) : k <= m
    BY <1>1, <1>2, <1>3, AheadIs
  <1>5. d \in {None, "K", "G"} /\ (obj[p] = None => d \in {None, "G"})
    <2>1. CASE Hit(LeafKey[p])
      <3>1. d = spool[k].say /\ spool[k].key = LeafKey[p] /\ k <= Len(spool) BY <1>3, <2>1 DEF Decision, Hit
      <3>2. k \in 1..Len(spool) BY <1>2, <1>4, <3>1 DEF LinesFrom
      <3>3. spool[k] \in Lines BY <1>2, <3>2, ElementOfSeq
      <3>4. spool[k].say # "D" BY <3>1, <3>2 DEF Sheltered, Silent
      <3>5. obj[p] = None => spool[k].say = "G" BY <1>1, <3>1, <3>2 DEF Sheltered, Silent
      <3>. QED BY <3>1, <3>3, <3>4, <3>5 DEF Lines
    <2>2. CASE ~Hit(LeafKey[p]) BY <2>2 DEF Decision
    <2>. QED BY <2>1, <2>2
  <1>6. ASSUME NEW n \in 1..Len(spool), Leads(p, n), cur <= n PROVE d = "G"
    <2>1. spool[n].key = LeafKey[p] /\ spool[n].say = "G" BY <1>6 DEF Leads, Line
    <2>2. n \in LinesFrom(LeafKey[p]) BY <1>1, <1>2, <1>6, <2>1 DEF LinesFrom
    <2>3. k \in LinesFrom(LeafKey[p]) /\ k <= n BY <1>4, <2>2
    <2>4. k \in 1..Len(spool) /\ spool[k].key >= LeafKey[p]
      BY <1>2, <1>4, <2>3 DEF LinesFrom
    <2>5. spool[k] \in Lines BY <1>2, <2>4, ElementOfSeq
    <2>6. spool[k].key \in Nat BY <2>5 DEF Lines
    <2>7. ~(k < n) BY <1>1, <1>6, <2>4, <2>6 DEF Leads
    <2>8. k = n BY <1>2, <1>4, <2>3, <2>7
    <2>. QED BY <1>2, <1>3, <2>1, <2>8 DEF Decision, Hit
  <1>7. Stale(p) => d = "G" \/ Matches(rec[p], loc[p]) \/ loc[p].mode \notin Readable
    <2>. SUFFICES ASSUME Stale(p) PROVE d = "G" \/ Matches(rec[p], loc[p]) \/ loc[p].mode \notin Readable
      OBVIOUS
    <2>1. Answered(p) BY DEF Sheltered, Answers
    <2>2. loc[p] = orig[p] BY <1>0, GuardedIs DEF Stale
    <2>. QED BY <1>6, <2>1, <2>2 DEF Answered
  <1>. QED BY <1>5, <1>7

\* The verdict on a sheltered path writes nothing of its own.
LEMMA VerdictSpares ==
  ASSUME Inv, Sheltered, phase = "apply", NEW p \in Guarded, at <= LeafKey[p], Judged(p),
         NEW d, d = Decision(LeafKey[p]), NEW v, v = VerdictOn(p, d)
  PROVE  v \notin {"stamp", "place", "dir", "defer"}
  <1>0. Inv /\ AsMet /\ prep = NoPrep BY DEF Sheltered
  <1>1. /\ p \in Paths /\ rec[p] # None /\ rec[p].kind \in Kinds /\ rec[p].kind # "dir"
        /\ loc[p] \in Items /\ loc[p] # None /\ Found(p) = loc[p]
    BY <1>0, GuardedIs, GivenFacts DEF Inv, Typed, DirRec
  <1>2. Unprepped(p) = loc[p] BY <1>0, <1>1 DEF Unprepped, NoPrep
  <1>3. PICK i, r : i = loc[p] /\ r = rec[p] OBVIOUS
  <1>4. v = ApplyVerdict(r, i, d, opts.update, Dangling(r)) BY <1>1, <1>2, <1>3 DEF VerdictOn
  <1>5. /\ d \in {None, "K", "G"} /\ (obj[p] = None => d \in {None, "G"})
        /\ Stale(p) => d = "G" \/ Matches(r, i) \/ i.mode \notin Readable
    BY <1>3, DecisionIs
  <1>6. None \notin {"D", "K", "G"} BY ItemAssumption
  <1>7. CASE d = "G"
    BY <1>4, <1>7 DEF ApplyVerdict
  <1>8. CASE d = "K" /\ opts.update
    BY <1>4, <1>8 DEF ApplyVerdict
  <1>9. CASE d # "G" /\ Stale(p)
    <2>1. d = None BY <1>5, <1>9 DEF Stale
    <2>2. r.kind = "file" /\ i.kind = "file" BY <1>0, <1>3, <1>9, GuardedIs DEF Stale
    <2>3. v = ApplyOther(r, i, d, opts.update) BY <1>4, <1>6, <2>1, <2>2 DEF ApplyVerdict
    <2>4. v \in {"keep", "stale"}
      <3>1. i # None BY <1>1, <1>3
      <3>. QED BY <1>5, <1>9, <2>1, <2>2, <2>3, <3>1 DEF ApplyOther
    <2>. QED BY <2>4
  <1>10. CASE d = None /\ Newer(p)
    <2>1. /\ opts.update
          /\ OrderedSide(r, i) = "local" \/ (OrderedSide(r, i) = "tie" /\ i.kind = "dir")
      BY <1>0, <1>3, <1>10, NewerStill
    <2>2. i # None BY <1>1, <1>3
    <2>3. CASE r.kind = "link"
      <3>1. v = ApplyLink(r, i, TRUE, Dangling(r)) BY <1>4, <1>6, <1>10, <2>1, <2>3 DEF ApplyVerdict
      <3>. QED BY <2>1, <2>2, <3>1 DEF ApplyLink, KeepsLocal, Kept
    <2>4. CASE r.kind # "link"
      <3>1. v = ApplyOther(r, i, d, opts.update) BY <1>1, <1>3, <1>4, <1>6, <1>10, <2>4 DEF ApplyVerdict
      <3>2. i.kind # r.kind => Repair(r, i) = "error" BY <2>2 DEF Repair
      <3>3. Ordered(r, i) \in {"keep", "conflict", "error"}
        <4>1. CASE OrderedSide(r, i) = "local" BY <4>1 DEF Ordered
        <4>2. CASE OrderedSide(r, i) = "tie" /\ i.kind = "dir"
          <5>1. r.kind # "dir" /\ i.kind # r.kind BY <1>1, <1>3, <4>2
          <5>. QED BY <2>2, <3>2, <4>2, <5>1 DEF Ordered, Kept
        <4>. QED BY <2>1, <4>1, <4>2
      <3>4. v \in {"keep", "stale", "error", "conflict"}
        BY <1>10, <2>1, <2>2, <3>1, <3>2, <3>3 DEF ApplyOther
      <3>. QED BY <3>4
    <2>. QED BY <2>3, <2>4
  <1>11. Newer(p) => opts.update BY DEF Newer, NewerHere
  <1>. QED BY <1>5, <1>7, <1>8, <1>9, <1>10, <1>11 DEF Guarded
Posix == ~Windows /\ NamesApart

LEMMA StartShelter ==
  ASSUME Inv, Sheltered, Start PROVE Sheltered'
  <1>1. /\ phase = "start" /\ phase' \in {"done", "extras", "vet"}
        /\ phase' = "extras" => MatchesLocal
        /\ UNCHANGED <<rec, obj, opts, orig, loc, at, cur, todo, spool, deferred, prep>>
    BY DEF Start
  <1>2. Guarded' = Guarded /\ Guarded \in SUBSET Paths /\ AsMet
    BY <1>1, SameGuard DEF Guarded, Nondirs, Recorded, Sheltered
  <1>3. AsMet' BY <1>1, <1>2, MetSame
  <1>4. Begun' /\ Behind' BY <1>1 DEF Sheltered, Begun, Behind
  <1>5. Silent' BY <1>1, <1>2 DEF Sheltered, Silent
  <1>6. ASSUME NEW p \in Guarded, Judged(p), phase' = "extras" PROVE Answered(p)'
    <2>1. p \in Recorded /\ Found(p) = loc[p] BY <1>2, GuardedIs
    <2>2. Matches(rec[p], loc[p]) BY <1>1, <1>6, <2>1 DEF MatchesLocal
    <2>3. orig = loc BY <1>1 DEF Sheltered, Begun
    <2>4. Matches(rec[p], orig[p])' BY <1>1, <2>2, <2>3 DEF Matches, StatusShows
    <2>. QED BY <2>4 DEF Answered
  <1>7. Answers'
    <2>1. \A p \in Guarded : Judged(p)' => Judged(p) BY <1>1, <1>2, SameGuard
    <2>. QED BY <1>1, <1>2, <1>6, <2>1 DEF Answers
  <1>8. (prep = NoPrep)' BY <1>1 DEF Sheltered, NoPrep
  <1>. QED BY <1>3, <1>4, <1>5, <1>7, <1>8 DEF Sheltered

\* No guarded leaf is, or is found at, a directory's position.
LEMMA NoPosition ==
  ASSUME Posix, Inv, AsMet, phase \notin {"start", "done"}, NEW q \in Positions, NEW p \in Guarded
  PROVE  p \notin {q, Disk(q)}
  <1>. SUFFICES ASSUME p \in {q, Disk(q)} PROVE FALSE OBVIOUS
  <1>0. q \in Paths BY DEF Positions
  <1>1. /\ p \in Nondirs /\ p \in Recorded /\ p \in Paths /\ rec[p] # None /\ ~DirRec(p)
        /\ Disk(p) = p /\ Found(p) = loc[p]
    BY GuardedIs
  <1>2. \/ DirRec(q)
        \/ \E x \in Recorded : q \in Above[x]
    <2>1. (q \in Recorded /\ rec[q].kind = "dir") \/ Beneath(q) \cap Recorded # {}
      BY DEF Positions
    <2>2. CASE q \in Recorded /\ rec[q].kind = "dir" BY <2>2 DEF Recorded, DirRec
    <2>3. CASE Beneath(q) \cap Recorded # {}
      <3>1. PICK x \in Beneath(q) \cap Recorded : TRUE BY <2>3
      <3>. QED BY <3>1 DEF Beneath
    <2>. QED BY <2>1, <2>2, <2>3
  <1>3. CASE p = q
    <2>1. PICK x \in Recorded : p \in Above[x] BY <1>1, <1>2, <1>3
    <2>2. x \in Beneath(p) BY <2>1 DEF Beneath, Recorded
    <2>3. Unrestorable BY <1>1, <2>2 DEF Unrestorable
    <2>. QED BY <2>3 DEF Inv, Refused
  <1>4. CASE p # q
    <2>1. \E x \in Paths : InSubtree(q, x) /\ rec[x] # None
      BY <1>0, <1>2 DEF DirRec, InSubtree, Recorded
    <2>2. Disk(q) = p /\ Disk(q) # q /\ InSubtree(Disk(q), p) BY <1>4 DEF InSubtree
    <2>. QED BY <1>0, <1>1, <2>1, <2>2, Apart DEF Posix
  <1>. QED BY <1>3, <1>4

LEMMA VetShelter ==
  ASSUME Posix, Inv, Sheltered, Vet \/ Make PROVE Sheltered'
  <1>1. /\ phase \in {"vet", "make"} /\ phase' \in {"done", "vet", "make", "prep"}
        /\ (phase' = "prep" => at' = 0)
        /\ UNCHANGED <<rec, obj, opts, orig, cur, todo, spool, deferred, prep>>
    BY DEF Vet, Make
  <1>2. Guarded' = Guarded /\ Guarded \in SUBSET Paths /\ AsMet
    BY <1>1, SameGuard DEF Guarded, Nondirs, Recorded, Sheltered
  <1>3. AsMet'
    <2>1. CASE loc' = loc BY <1>1, <1>2, <2>1, MetSame
    <2>2. CASE loc' # loc
      <3>1. PICK q \in Positions : Keeps(loc, loc', {q}) \/ Keeps(loc, loc', {Disk(q)})
        BY <2>2, VetWrites, MakeWrites DEF Inv
      <3>2. \A p \in Guarded : p \notin {q, Disk(q)}
        BY <1>1, <1>2, NoPosition
      <3>3. Keeps(loc, loc', {q, Disk(q)}) BY <3>1 DEF Keeps
      <3>. QED BY <1>1, <1>2, <3>2, <3>3, MetAfter
    <2>. QED BY <2>1, <2>2
  <1>4. Begun' /\ Behind' BY <1>1 DEF Sheltered, Begun, Behind
  <1>5. Silent' BY <1>1, <1>2 DEF Sheltered, Silent
  <1>7. Answers' BY <1>1 DEF Answers
  <1>8. (prep = NoPrep)' BY <1>1 DEF Sheltered, NoPrep
  <1>. QED BY <1>3, <1>4, <1>5, <1>7, <1>8 DEF Sheltered

LEMMA PrepShelter ==
  ASSUME Posix, Inv, Sheltered, Prep PROVE Sheltered'
  <1>1. /\ phase = "prep" /\ phase' = "sync"
        /\ UNCHANGED <<rec, obj, opts, orig, at, cur, todo, spool, deferred>>
    BY DEF Prep
  <1>2. Guarded' = Guarded /\ Guarded \in SUBSET Paths /\ AsMet
    BY <1>1, SameGuard DEF Guarded, Nondirs, Recorded, Sheltered
  <1>3. prep' = NoPrep /\ \A p \in Paths : p # Root => loc'[p] = loc[p]
    BY PrepWrites DEF Posix, Inv
  <1>4. AsMet'
    <2>1. Keeps(loc, loc', {Root}) BY <1>3 DEF Keeps, Alike
    <2>2. \A p \in Guarded : p \notin {Root} BY <1>2, GuardedIs
    <2>. QED BY <1>1, <1>2, <2>1, <2>2, MetAfter
  <1>5. at = 0 /\ spool = <<>> /\ todo = {} /\ cur = 1 /\ Len(spool) = 0
    BY <1>1, EmptySeq DEF Sheltered, Begun
  <1>6. Begun' /\ Behind' BY <1>1, <1>5 DEF Begun, Behind
  <1>7. Silent' BY <1>1, <1>2 DEF Sheltered, Silent
  <1>8. \A p \in Guarded : ~(LeafKey[p] < at) BY <1>2, <1>5, GuardedIs
  <1>9. Answers' BY <1>1, <1>2, <1>8 DEF Answers
  <1>10. (prep = NoPrep)' BY <1>3 DEF NoPrep
  <1>. QED BY <1>4, <1>6, <1>7, <1>9, <1>10 DEF Sheltered

LEMMA LandShelter ==
  ASSUME Posix, Inv, Sheltered, NEW q \in Paths, Land(q) PROVE Sheltered'
  <1>1. /\ phase = "sync" /\ phase' = "sync" /\ q \in todo /\ todo' = todo \ {q}
        /\ UNCHANGED <<rec, obj, opts, orig, at, cur, spool, deferred, prep>>
    BY DEF Land
  <1>2. Guarded' = Guarded /\ Guarded \in SUBSET Paths /\ AsMet
    BY <1>1, SameGuard DEF Guarded, Nondirs, Recorded, Sheltered
  <1>3. AsMet'
    <2>1. CASE loc' = loc BY <1>1, <1>2, <2>1, MetSame
    <2>2. CASE loc' # loc
      <3>1. Keeps(loc, loc', {Disk(q)}) /\ obj[q] # None BY <2>2, LandWrites DEF Inv
      <3>2. \A p \in Guarded : p \notin {Disk(q)}
        <4>. SUFFICES ASSUME NEW p \in Guarded PROVE Disk(q) # p OBVIOUS
        <4>1. q # p BY <1>1 DEF Sheltered, Silent
        <4>. QED BY <1>2, <3>1, <4>1, NotThere DEF Posix
      <3>. QED BY <1>1, <1>2, <3>1, <3>2, MetAfter
    <2>. QED BY <2>1, <2>2
  <1>4. Begun' /\ Behind' BY <1>1 DEF Sheltered, Begun, Behind
  <1>5. Silent' BY <1>1, <1>2 DEF Sheltered, Silent
  <1>6. ASSUME NEW p \in Guarded, Stale(p), Judged(p), LeafKey[p] < at PROVE Answered(p)'
    <2>1. Answered(p) BY <1>1, <1>6 DEF Sheltered, Answers
    <2>. QED BY <1>1, <2>1 DEF Answered, Leads, Line, Matches, StatusShows
  <1>7. Answers'
    <2>1. \A p \in Guarded : (Judged(p)' => Judged(p)) /\ (Stale(p)' => Stale(p)) BY <1>1, <1>2, SameGuard
    <2>. QED BY <1>1, <1>2, <1>6, <2>1 DEF Answers
  <1>8. (prep = NoPrep)' BY <1>1 DEF Sheltered, NoPrep
  <1>. QED BY <1>3, <1>4, <1>5, <1>7, <1>8 DEF Sheltered

LEMMA SyncedShelter ==
  ASSUME Posix, Inv, Sheltered, Synced PROVE Sheltered'
  <1>0. AsMet /\ prep = NoPrep BY DEF Sheltered
  <1>1. /\ phase = "sync" /\ phase' \in {"apply", "done"} /\ at' = 0 /\ Unseen = {} /\ todo = {}
        /\ UNCHANGED <<rec, obj, opts, orig, cur, todo, spool, deferred>>
        /\ (loc' = loc \/ loc' = GivenBack(loc)) /\ (prep' = prep \/ prep' = NoPrep)
    BY DEF Synced, Finish
  <1>2. Guarded' = Guarded /\ Guarded \in SUBSET Paths
    BY <1>1, SameGuard DEF Guarded, Nondirs, Recorded
  <1>3. AsMet'
    <2>1. loc' = loc BY <1>0, <1>1, GivesNothing
    <2>. QED BY <1>0, <1>1, <2>1, MetSame
  <1>4. Begun' /\ Behind' BY <1>1 DEF Begun, Behind
  <1>5. Silent' BY <1>1, <1>2 DEF Sheltered, Silent
  <1>6. cur = 1 BY <1>1 DEF Sheltered, Begun
  <1>7. ASSUME NEW p \in Guarded, Stale(p), Judged(p) PROVE Answered(p)'
    <2>1. /\ p \in Paths \ {Root} /\ loc[p] = orig[p] /\ loc[p] # None /\ loc[p].kind = "file"
          /\ LeafKey[p] \in Nat
      BY <1>0, <1>7, GuardedIs DEF Stale
    <2>2. at \in Nat BY DEF Inv, Typed
    <2>3. LeafKey[p] < at \/ orig[p].mode \notin Readable
      <3>1. ~(LeafKey[p] >= at) \/ ~Listed(loc[p]) BY <1>1, <2>1 DEF Unseen
      <3>. QED BY <2>1, <2>2, <3>1 DEF Listed
    <2>4. Answered(p) BY <1>1, <1>7, <2>3 DEF Sheltered, Answers, Answered
    <2>5. CASE Matches(rec[p], orig[p]) \/ orig[p].mode \notin Readable
      BY <1>1, <2>5 DEF Answered, Matches, StatusShows
    <2>6. CASE \E n \in 1..Len(spool) : Leads(p, n)
      <3>1. PICK n \in 1..Len(spool) : Leads(p, n) BY <2>6
      <3>2. Leads(p, n)' BY <1>1, <3>1 DEF Leads, Line
      <3>3. cur' <= n BY <1>1, <1>6
      <3>. QED BY <1>1, <3>2, <3>3 DEF Answered
    <2>. QED BY <2>4, <2>5, <2>6 DEF Answered
  <1>8. Answers'
    <2>1. \A p \in Guarded : (Judged(p)' => Judged(p)) /\ (Stale(p)' => Stale(p)) BY <1>1, <1>2, SameGuard
    <2>. QED BY <1>2, <1>7, <2>1 DEF Answers
  <1>9. (prep = NoPrep)' BY <1>0, <1>1 DEF NoPrep
  <1>. QED BY <1>3, <1>4, <1>5, <1>8, <1>9 DEF Sheltered

\* A sheltered leaf is not fetched, and its lines do not say it was made.
LEMMA VerdictHere ==
  ASSUME Inv, AsMet, prep = NoPrep, NEW p \in Guarded, NEW v, v = Decision1(p)
  PROVE  /\ ~v.get /\ v.say # "D"
         /\ Stale(p) /\ Judged(p) => v.say = "G"
  <1>1. /\ p \in Paths /\ p \in Nondirs /\ rec[p] # None /\ RecKey(p) = LeafKey[p] /\ p # Root
        /\ loc[p] \in Items /\ loc[p] # None /\ Found(p) = loc[p] /\ loc[p].kind = orig[p].kind
        /\ (orig[p].kind # "dir" => loc[p] = orig[p])
    BY GuardedIs
  <1>2. Unprepped(p) = loc[p] /\ LeafRec(p) = rec[p] BY <1>1 DEF Unprepped, NoPrep, LeafRec
  <1>3. PICK r, i, o : r = rec[p] /\ i = loc[p] /\ o = obj[p] OBVIOUS
  <1>4. v = IF LeafKey[p] \in opts.excluded THEN Leave ELSE SyncVerdict(r, i, o, Listed(i), opts)
    BY <1>2, <1>3 DEF Decision1
  <1>5. None \notin {"D", "K", "G"} BY ItemAssumption
  <1>6. /\ ~Leave.get /\ Leave.say # "D" /\ ~Keep.get /\ Keep.say # "D"
        /\ ~Conflict.get /\ Conflict.say # "D"
    BY <1>5 DEF Leave, Keep, Conflict, Says
  <1>7. CASE LeafKey[p] \in opts.excluded
    BY <1>1, <1>4, <1>6, <1>7 DEF Judged
  <1>8. CASE LeafKey[p] \notin opts.excluded /\ Stale(p)
    <2>1. o = None /\ r # None /\ r.kind = "file" BY <1>1, <1>3, <1>8 DEF Stale
    <2>2. v = Says(FALSE, "G", FALSE) BY <1>4, <1>8, <2>1 DEF SyncVerdict, Orphan
    <2>. QED BY <2>2 DEF Says
  <1>9. CASE LeafKey[p] \notin opts.excluded /\ ~Stale(p) /\ o = None
    <2>1. v \in {Says(FALSE, "G", FALSE), Leave} BY <1>4, <1>9 DEF SyncVerdict, Orphan
    <2>. QED BY <1>6, <1>9, <2>1 DEF Says
  <1>10. CASE LeafKey[p] \notin opts.excluded /\ ~Stale(p) /\ o # None
    <2>1. Newer(p) BY <1>10 DEF Guarded
    <2>2. /\ opts.update
          /\ OrderedSide(r, i) = "local" \/ (OrderedSide(r, i) = "tie" /\ i.kind = "dir")
      BY <1>3, <2>1, NewerStill
    <2>3. i # None /\ r # None BY <1>1, <1>3
    <2>4. CASE Listed(i)
      <3>0. OrderedSide(r, i) = "local" BY <2>2, <2>4 DEF Listed
      <3>1. v = UpdatePair(r, i, o, opts.checksum) BY <1>4, <1>10, <2>2, <2>4 DEF SyncVerdict
      <3>2. v \in {Leave, Keep, Conflict} BY <2>3, <3>0, <3>1 DEF UpdatePair
      <3>. QED BY <1>6, <1>10, <3>2
    <2>5. CASE ~Listed(i)
      <3>1. v = UpdateCreate(r, i) BY <1>4, <1>10, <2>2, <2>5 DEF SyncVerdict
      <3>2. i.kind # "file"
        <4>1. i = orig[p] \/ i.kind = "dir" BY <1>1, <1>3
        <4>2. i.kind = "file" /\ i = orig[p] => i.mode \in Readable BY <2>1 DEF Newer, NewerHere
        <4>. QED BY <2>3, <2>5, <4>1, <4>2 DEF Listed
      <3>3. v \in {Leave, Keep, Conflict} BY <2>2, <2>3, <3>1, <3>2 DEF UpdateCreate
      <3>. QED BY <1>6, <1>10, <3>3
    <2>. QED BY <2>4, <2>5
  <1>. QED BY <1>3, <1>7, <1>8, <1>9, <1>10

LEMMA DecideShelter ==
  ASSUME Posix, Inv, Sheltered, Decide PROVE Sheltered'
  <1>0. AsMet /\ prep = NoPrep /\ Typed BY DEF Sheltered, Inv
  <1>1. /\ phase = "sync" /\ phase' = "sync"
        /\ UNCHANGED <<rec, obj, opts, orig, cur, deferred, prep>>
    BY DEF Decide
  <1>2. Guarded' = Guarded /\ Guarded \in SUBSET Paths
    BY <1>1, SameGuard DEF Guarded, Nondirs, Recorded
  <1>3. PICK p \in Unseen :
          /\ \A q \in Unseen : LeafKey[p] <= LeafKey[q]
          /\ LET v == Decision1(p) IN
             /\ at' = LeafKey[p] + 1 /\ spool' = spool \o Decided(p, v)
             /\ todo' = IF v.get THEN todo \cup {p} ELSE todo
             /\ told' = IF v.warn THEN told \cup {p} ELSE told
             /\ \/ loc' = loc
                \/ /\ v.say = "D" /\ Found(p) # None /\ Found(p).kind = "special"
                   /\ Treelike(loc') /\ Keeps(loc, loc', {Disk(p)}) /\ Adds(loc, loc', {})
    BY <1>0, DecideWrites
  <1>4. PICK v : v = Decision1(p) OBVIOUS
  <1>5. PICK s : s = Decided(p, v) OBVIOUS
  <1>6. /\ at' = LeafKey[p] + 1 /\ spool' = spool \o s
        /\ todo' = IF v.get THEN todo \cup {p} ELSE todo
        /\ loc' = loc \/ (v.say = "D" /\ Keeps(loc, loc', {Disk(p)}))
    BY <1>3, <1>4, <1>5
  <1>7. /\ p \in Paths \ {Root} /\ LeafKey[p] \in Nat /\ at \in Nat /\ at <= LeafKey[p]
    BY <1>0, TreeAssumption DEF Unseen, Typed
  <1>8. v \in Verdicts BY <1>0, <1>4, <1>7, SyncVerdictIs
  <1>9. obj[p] = None => v.say \in {None, "G"}
    <2>1. obj[p] = None => v = Leave \/ v = Orphan(LeafRec(p)) BY <1>4 DEF Decision1, SyncVerdict
    <2>. QED BY <2>1 DEF Orphan, Leave, Says
  <1>10. \A g \in Guarded : g = p => ~v.get /\ v.say # "D" /\ (Stale(g) /\ Judged(g) => v.say = "G")
    BY <1>0, <1>4, VerdictHere
  <1>11. /\ s \in Seq(Lines)
         /\ \A n \in 1..Len(s) :
              \/ v.get /\ s[n].say = "D" /\ \E q \in Above[p] : s[n].key = DirKey[q]
              \/ v.say # None /\ s[n].say = v.say /\ s[n].key = LeafKey[p]
    <2>1. \A say, key : Line(say, key).say = say /\ Line(say, key).key = key BY DEF Line
    <2>2. /\ s \in Seq(Lines)
          /\ \A n \in 1..Len(s) :
              \/ v.get /\ s[n].say = "D" /\ \E q \in Above[p] : ~IsDir(q) /\ s[n].key = DirKey[q]
              \/ v.say # None /\ s[n] = Line(v.say, LeafKey[p])
      BY <1>5, <1>7, <1>8, DecidedIs
    <2>. QED BY <2>1, <2>2
  <1>12. /\ Len(spool) \in Nat /\ Len(s) \in Nat /\ Len(spool') = Len(spool) + Len(s)
         /\ \A i \in 1..Len(spool) : spool'[i] = spool[i]
         /\ \A i \in 1..Len(spool') : i \in 1..Len(spool) \/ (i - Len(spool) \in 1..Len(s) /\ spool'[i] = s[i - Len(spool)])
    BY <1>0, <1>6, <1>11, ConcatProperties DEF Typed
  <1>13. \A i \in 1..Len(spool') :
           \/ i \in 1..Len(spool) /\ spool'[i] = spool[i]
           \/ v.get /\ spool'[i].say = "D" /\ \E q \in Above[p] : spool'[i].key = DirKey[q]
           \/ v.say # None /\ spool'[i].say = v.say /\ spool'[i].key = LeafKey[p]
    BY <1>11, <1>12
  <1>14. AsMet'
    <2>1. CASE loc' = loc BY <1>0, <1>1, <2>1, MetSame
    <2>2. CASE loc' # loc
      <3>1. v.say = "D" /\ Keeps(loc, loc', {Disk(p)}) BY <1>6, <2>2
      <3>2. obj[p] # None BY <1>9, <3>1, ItemAssumption
      <3>3. \A g \in Guarded : g \notin {Disk(p)}
        BY <1>0, <1>7, <1>10, <3>1, <3>2, NotThere DEF Posix
      <3>. QED BY <1>0, <1>1, <3>1, <3>3, MetAfter
    <2>. QED BY <2>1, <2>2
  <1>15. Begun' BY <1>1 DEF Sheltered, Begun
  <1>16. Behind'
    <2>1. \A n \in 1..Len(spool) : spool[n].key < at BY <1>1 DEF Sheltered, Behind
    <2>2. \A q \in Above[p] : q \in Paths /\ DirKey[q] \in Nat /\ DirKey[q] < LeafKey[p]
      BY <1>7, AboveTypes, AboveKey, TreeAssumption
    <2>3. \A n \in 1..Len(spool') : spool'[n].key < at'
      <3>. SUFFICES ASSUME NEW n \in 1..Len(spool') PROVE spool'[n].key < at' OBVIOUS
      <3>1. CASE n \in 1..Len(spool) /\ spool'[n] = spool[n]
        <4>1. spool[n] \in Lines BY <1>0, <3>1, ElementOfSeq DEF Typed
        <4>2. spool[n].key \in Nat /\ spool[n].key < at BY <2>1, <3>1, <4>1 DEF Lines
        <4>. QED BY <1>6, <1>7, <3>1, <4>2
      <3>2. CASE \E q \in Above[p] : spool'[n].key = DirKey[q] BY <1>6, <1>7, <2>2, <3>2
      <3>3. CASE spool'[n].key = LeafKey[p] BY <1>6, <1>7, <3>3
      <3>. QED BY <1>13, <3>1, <3>2, <3>3
    <2>. QED BY <2>3 DEF Behind
  <1>17. Silent'
    <2>1. \A q \in Above[p], x \in Paths \ {Root} : q \in Paths /\ DirKey[q] # LeafKey[x]
      <3>. SUFFICES ASSUME NEW q \in Above[p], NEW x \in Paths \ {Root}
                    PROVE  q \in Paths /\ DirKey[q] # LeafKey[x]
        OBVIOUS
      <3>1. q \in Paths BY <1>7, AboveTypes
      <3>2. CASE q # x BY <3>1, <3>2, KeysDiffer
      <3>3. CASE q = x
        <4>1. LeafKey[x] < DirKey[x] /\ LeafKey[x] \in Nat /\ DirKey[x] \in Nat BY TreeAssumption
        <4>. QED BY <3>1, <3>3, <4>1
      <3>. QED BY <3>2, <3>3
    <2>2. \A x \in Paths \ {Root} : LeafKey[p] = LeafKey[x] => x = p BY <1>7, TreeAssumption
    <2>3. ASSUME NEW n \in 1..Len(spool'), NEW x \in Paths \ {Root}, spool'[n].key = LeafKey[x], obj[x] = None
          PROVE  spool'[n].say = "G"
      <3>1. CASE n \in 1..Len(spool) /\ spool'[n] = spool[n]
        BY <2>3, <3>1 DEF Sheltered, Silent
      <3>2. CASE \E q \in Above[p] : spool'[n].key = DirKey[q] BY <2>1, <2>3, <3>2
      <3>3. CASE v.say # None /\ spool'[n].say = v.say /\ spool'[n].key = LeafKey[p]
        BY <1>9, <2>2, <2>3, <3>3
      <3>. QED BY <1>13, <3>1, <3>2, <3>3
    <2>4. ASSUME NEW g \in Guarded
          PROVE  /\ g \notin todo' /\ \A n \in 1..Len(deferred') : deferred'[n] # g
                 /\ \A n \in 1..Len(spool') : spool'[n].key = LeafKey[g] => spool'[n].say # "D"
      <3>1. g \notin todo' BY <1>6, <1>10 DEF Sheltered, Silent
      <3>2. \A n \in 1..Len(deferred') : deferred'[n] # g BY <1>1 DEF Sheltered, Silent
      <3>3. ASSUME NEW n \in 1..Len(spool'), spool'[n].key = LeafKey[g] PROVE spool'[n].say # "D"
        <4>0. g \in Paths \ {Root} BY <1>0, GuardedIs
        <4>1. CASE n \in 1..Len(spool) /\ spool'[n] = spool[n]
          BY <3>3, <4>1 DEF Sheltered, Silent
        <4>2. CASE \E q \in Above[p] : spool'[n].key = DirKey[q] BY <2>1, <3>3, <4>0, <4>2
        <4>3. CASE v.say # None /\ spool'[n].say = v.say /\ spool'[n].key = LeafKey[p]
          BY <1>10, <2>2, <3>3, <4>0, <4>3
        <4>. QED BY <1>13, <4>1, <4>2, <4>3
      <3>. QED BY <3>1, <3>2, <3>3
    <2>. QED BY <1>1, <1>2, <2>3, <2>4 DEF Silent
  <1>18. ASSUME NEW g \in Guarded, Stale(g), Judged(g), LeafKey[g] < at' PROVE Answered(g)'
    <2>0. /\ g \in Paths \ {Root} /\ LeafKey[g] \in Nat /\ loc[g] = orig[g] /\ loc[g] # None
          /\ loc[g].kind = "file"
      BY <1>0, <1>18, GuardedIs DEF Stale
    <2>1. CASE LeafKey[g] < at
      <3>1. Answered(g) BY <1>1, <1>18, <2>1 DEF Sheltered, Answers
      <3>2. CASE Matches(rec[g], orig[g]) \/ orig[g].mode \notin Readable
        BY <1>1, <3>2 DEF Answered, Matches, StatusShows
      <3>3. CASE \E n \in 1..Len(spool) : Leads(g, n)
        <4>1. PICK n \in 1..Len(spool) : Leads(g, n) BY <3>3
        <4>2. n \in 1..Len(spool') BY <1>12
        <4>3. Leads(g, n)'
          <5>1. \A k \in 1..Len(spool') : k < n => k \in 1..Len(spool) BY <1>12
          <5>2. spool'[n] = Line("G", LeafKey[g]) BY <1>12, <4>1 DEF Leads
          <5>3. \A k \in 1..Len(spool') : k < n => spool'[k].key < LeafKey[g]
            BY <1>12, <4>1, <5>1 DEF Leads
          <5>. QED BY <4>2, <5>2, <5>3 DEF Leads, Line
        <4>. QED BY <1>1, <4>2, <4>3 DEF Answered
      <3>. QED BY <3>1, <3>2, <3>3 DEF Answered
    <2>2. CASE ~(LeafKey[g] < at) /\ g # p
      <3>1. LeafKey[g] >= at /\ ~(LeafKey[p] <= LeafKey[g])
        <4>1. LeafKey[g] # LeafKey[p] BY <1>7, <2>0, <2>2, KeysDiffer
        <4>. QED BY <1>6, <1>7, <1>18, <2>0, <2>2, <4>1
      <3>2. g \notin Unseen BY <1>3, <3>1
      <3>3. ~Listed(loc[g]) BY <2>0, <3>1, <3>2 DEF Unseen
      <3>4. orig[g].mode \notin Readable BY <2>0, <3>3 DEF Listed
      <3>. QED BY <1>1, <3>4 DEF Answered
    <2>3. CASE ~(LeafKey[g] < at) /\ g = p
      <3>1. ~v.get /\ v.say = "G" BY <1>10, <1>18, <2>3
      <3>2. s = <<Line("G", LeafKey[g])>>
        <4>1. None # "G" BY ItemAssumption
        <4>2. s = <<>> \o <<Line("G", LeafKey[g])>> BY <1>5, <2>3, <3>1, <4>1 DEF Decided
        <4>. QED BY <4>2
      <3>3. PICK n \in Nat : n = Len(spool) + 1 BY <1>12
      <3>4. Len(spool') = n /\ n \in 1..Len(spool') /\ spool'[n] = Line("G", LeafKey[g])
        <4>1. Len(s) = 1 /\ s[1] = Line("G", LeafKey[g]) BY <3>2
        <4>2. Len(spool') = n /\ n \in 1..Len(spool') /\ n \notin 1..Len(spool) /\ n - Len(spool) = 1
          BY <1>12, <3>3, <4>1
        <4>. QED BY <1>12, <4>1, <4>2
      <3>5. \A k \in 1..Len(spool') : k < n => spool'[k].key < LeafKey[g]
        <4>. SUFFICES ASSUME NEW k \in 1..Len(spool'), k < n PROVE spool'[k].key < LeafKey[g] OBVIOUS
        <4>1. k \in 1..Len(spool) /\ spool'[k] = spool[k] BY <1>12, <3>3
        <4>2. spool[k].key < at BY <1>1, <4>1 DEF Sheltered, Behind
        <4>3. spool[k] \in Lines BY <1>0, <4>1, ElementOfSeq DEF Typed
        <4>4. spool[k].key \in Nat BY <4>3 DEF Lines
        <4>. QED BY <1>7, <2>3, <4>1, <4>2, <4>4
      <3>6. Leads(g, n)' BY <3>4, <3>5 DEF Leads, Line
      <3>. QED BY <1>1, <3>4, <3>6 DEF Answered
    <2>. QED BY <2>1, <2>2, <2>3
  <1>19. Answers'
    <2>1. \A g \in Guarded : (Judged(g)' => Judged(g)) /\ (Stale(g)' => Stale(g))
      BY <1>1, <1>2, SameGuard
    <2>. QED BY <1>1, <1>2, <1>18, <2>1 DEF Answers
  <1>20. (prep = NoPrep)' BY <1>0, <1>1 DEF NoPrep
  <1>. QED BY <1>14, <1>15, <1>16, <1>17, <1>19, <1>20 DEF Sheltered

\* Settling a directory touches no sheltered leaf.
LEMMA SettlingMet ==
  ASSUME Posix, Inv, AsMet, UNCHANGED <<rec, obj, opts, orig>>, NEW q \in Paths, DirRec(q),
         loc' = loc \/ (\E ordered : Settle(q, ordered))
  PROVE  AsMet'
  <1>1. CASE loc' = loc BY <1>1, MetSame
  <1>2. CASE \E ordered : Settle(q, ordered)
    <2>1. Keeps(loc, loc', {Disk(q)}) BY <1>2, SettleWrites DEF Inv
    <2>2. \A p \in Guarded : p \notin {Disk(q)}
      <3>. SUFFICES ASSUME NEW p \in Guarded PROVE Disk(q) # p OBVIOUS
      <3>1. q # p /\ rec[q] # None BY GuardedIs DEF DirRec
      <3>. QED BY <3>1, NotThere DEF Posix
    <2>. QED BY <2>1, <2>2, MetAfter
  <1>. QED BY <1>1, <1>2

LEMMA PopFrameShelter ==
  ASSUME Posix, Inv, Sheltered, PopFrame PROVE Sheltered'
  <1>0. AsMet /\ prep = NoPrep BY DEF Sheltered
  <1>1. /\ phase = "apply" /\ phase' = phase /\ frames # <<>>
        /\ UNCHANGED <<rec, obj, opts, orig, at, cur, todo, spool, deferred, prep>>
        /\ loc' = loc \/ (\E ordered : Settle(Top.path, ordered))
    BY DEF PopFrame
  <1>2. Top.path \in Paths /\ DirRec(Top.path) BY <1>1, TopIs
  <1>3. AsMet' BY <1>0, <1>1, <1>2, SettlingMet
  <1>4. \A p \in Guarded : \A n \in 1..Len(deferred') : deferred'[n] # p
    BY <1>1 DEF Sheltered, Silent
  <1>. QED BY <1>0, <1>1, <1>3, <1>4, LaterSame

LEMMA ResettleShelter ==
  ASSUME Posix, Inv, Sheltered, Resettle PROVE Sheltered'
  <1>0. AsMet /\ prep = NoPrep BY DEF Sheltered
  <1>1. /\ phase = "place" /\ phase' = phase /\ post # {}
        /\ UNCHANGED <<rec, obj, opts, orig, at, cur, todo, spool, deferred, prep>>
    BY DEF Resettle
  <1>2. PICK q : q = CHOOSE x \in post : \A y \in post : DirKey[y] <= DirKey[x] OBVIOUS
  <1>3. post \in SUBSET Paths /\ \A x \in post : DirRec(x) BY DEF Inv, Typed, LastFits
  <1>4. q \in post
    <2>1. \E x \in post : \A y \in post : DirKey[y] <= DirKey[x] BY <1>1, <1>3, GreatestKey
    <2>. QED BY <1>2, <2>1
  <1>5. Settle(q, FALSE) BY <1>2 DEF Resettle
  <1>6. AsMet' BY <1>0, <1>1, <1>3, <1>4, <1>5, SettlingMet
  <1>7. \A p \in Guarded : \A n \in 1..Len(deferred') : deferred'[n] # p
    BY <1>1 DEF Sheltered, Silent
  <1>. QED BY <1>0, <1>1, <1>6, <1>7, LaterSame

\* What one record's verdict writes touches no sheltered leaf.
LEMMA ApplyMet ==
  ASSUME Posix, Inv, Sheltered, phase = "apply", UNCHANGED <<rec, obj, opts, orig>>,
         NEW q \in Recorded, at <= RecKey(q), Judged(q),
         NEW d, d = Decision(RecKey(q)), NEW v, v = VerdictOn(q, d),
         Writes(q, v) => ~Blocked(q), v = "dir" /\ ~IsDir(q) => Found(q) = None,
         loc' = Effect(q, v, d)
  PROVE  AsMet' /\ (v = "defer" => q \notin Guarded)
  <1>0. AsMet /\ prep = NoPrep /\ Typed /\ q \in Paths /\ rec[q] # None
    BY DEF Sheltered, Inv, Recorded
  <1>1. PICK m : m = Effect(q, v, d) OBVIOUS
  <1>2. /\ Keeps(loc, m, {q} \cup Swept(q))
        /\ v \in {"place", "defer"} => LinkRec(q)
        /\ v = "dir" => DirRec(q)
        /\ v = "stamp" => /\ Found(q) # None /\ Found(q).kind = rec[q].kind
                         /\ m = [loc EXCEPT ![Disk(q)] = Stamped(rec[q], Found(q))]
        /\ v \notin {"stamp", "place", "dir"} /\ prep[q] = None => m = loc
        /\ v = "dir" => Keeps(loc, m, {q, Disk(q)})
    BY <1>0, <1>1, EffectIs
  <1>3. prep[q] = None BY <1>0 DEF NoPrep
  <1>4. q \in Guarded => v \notin {"stamp", "place", "dir", "defer"}
    <2>. SUFFICES ASSUME q \in Guarded PROVE v \notin {"stamp", "place", "dir", "defer"} OBVIOUS
    <2>1. RecKey(q) = LeafKey[q] BY <1>0, GuardedIs
    <2>. QED BY <2>1, VerdictSpares
  <1>5. \A p \in Guarded : p # q => Disk(q) # p BY <1>0, NotThere DEF Posix
  <1>6. CASE v \notin {"stamp", "place", "dir"}
    <2>1. loc' = loc BY <1>1, <1>2, <1>3, <1>6
    <2>. QED BY <1>0, <1>4, <2>1, MetSame
  <1>7. CASE v = "stamp"
    <2>1. loc' = [loc EXCEPT ![Disk(q)] = Stamped(rec[q], Found(q))] BY <1>1, <1>2, <1>7
    <2>2. Keeps(loc, loc', {Disk(q)})
      <3>. SUFFICES ASSUME NEW x \in Paths, x # Disk(q) PROVE loc'[x] = loc[x]
        BY DEF Keeps, Alike
      <3>. QED BY <1>0, <2>1 DEF Typed, Treelike
    <2>3. Disk(q) = q \/ Disk(q) # q OBVIOUS
    <2>4. \A p \in Guarded : p \notin {Disk(q)} BY <1>4, <1>5, <1>7, GuardedIs, <1>0
    <2>. QED BY <1>0, <1>7, <2>2, <2>4, MetAfter
  <1>8. CASE v = "place"
    <2>1. LinkRec(q) /\ q \notin Guarded BY <1>2, <1>4, <1>8
    <2>2. \A p \in Guarded : p \notin {q} \cup Swept(q) BY <1>0, <2>1, NotSwept DEF Posix
    <2>. QED BY <1>0, <1>1, <1>2, <1>8, <2>2, MetAfter
  <1>9. CASE v = "dir"
    <2>1. \A p \in Guarded : p \notin {q, Disk(q)} BY <1>4, <1>5, <1>9
    <2>. QED BY <1>0, <1>1, <1>2, <1>9, <2>1, MetAfter
  <1>. QED BY <1>6, <1>7, <1>8, <1>9

\* The cursor, past one more record.
LEMMA NextLineKeeps ==
  ASSUME Inv, Sheltered, AtRecord, NEW q, q = NextRecord, NextLine(q)
  PROVE  \A p \in Guarded : \A n \in 1..Len(spool) :
           /\ phase' = "apply" /\ Leads(p, n) /\ at' <= LeafKey[p]
           /\ phase = "apply" /\ at <= LeafKey[p] => cur <= n
           => cur' <= n
  <1>. SUFFICES ASSUME NEW p \in Guarded, NEW n \in 1..Len(spool), Leads(p, n), at' <= LeafKey[p],
                       at <= LeafKey[p] => cur <= n
                PROVE  cur' <= n
    BY DEF AtRecord
  <1>1. p \in Paths \ {Root} /\ RecKey(p) = LeafKey[p] /\ LeafKey[p] \in Nat
    BY GuardedIs DEF Sheltered
  <1>2. RecKey(q) \in Nat /\ at' = RecKey(q) + 1 BY AtRecordIs DEF NextLine
  <1>3. q # p BY <1>1, <1>2
  <1>. QED BY <1>1, <1>3, CursorBefore

LEMMA ClearConflictShelter ==
  ASSUME Posix, Inv, Sheltered, ClearConflict PROVE Sheltered'
  <1>0. AsMet /\ prep = NoPrep BY DEF Sheltered
  <1>1. PICK q \in Paths : Making(q) /\ DirRec(q) /\ Keeps(loc, loc', {Disk(q)})
    BY ClearConflictWrites
  <1>2. /\ phase = "apply" /\ phase' = phase
        /\ UNCHANGED <<rec, obj, opts, orig, at, cur, todo, spool, deferred, prep>>
    BY <1>1 DEF ClearConflict, Making, AtRecord
  <1>3. \A p \in Guarded : p \notin {Disk(q)}
    <2>. SUFFICES ASSUME NEW p \in Guarded PROVE Disk(q) # p OBVIOUS
    <2>1. q # p /\ rec[q] # None BY <1>0, <1>1, GuardedIs DEF DirRec
    <2>. QED BY <1>0, <2>1, NotThere DEF Posix
  <1>4. AsMet' BY <1>0, <1>1, <1>2, <1>3, MetAfter
  <1>5. \A p \in Guarded : \A n \in 1..Len(deferred') : deferred'[n] # p
    BY <1>2 DEF Sheltered, Silent
  <1>. QED BY <1>0, <1>2, <1>4, <1>5, LaterSame

LEMMA ApplyShelter ==
  ASSUME Posix, Inv, Sheltered, Apply PROVE Sheltered'
  <1>0. prep = NoPrep /\ Typed BY DEF Sheltered, Inv
  <1>1. AtRecord BY DEF Apply
  <1>2. PICK q, d, v : q = NextRecord /\ d = Decision(RecKey(q)) /\ v = VerdictOn(q, d)
    OBVIOUS
  <1>3. /\ Judged(q) /\ (Writes(q, v) => ~Blocked(q)) /\ loc' = Effect(q, v, d)
        /\ deferred' = IF v = "defer" THEN Append(deferred, q) ELSE deferred
        /\ NextLine(q)
    BY <1>2 DEF Apply
  <1>10. v = "dir" /\ ~IsDir(q) => Found(q) = None BY <1>2, ApplyMakes
  <1>4. phase = "apply" /\ q \in Recorded /\ q \in Paths /\ at <= RecKey(q)
    BY <1>1, <1>2, AtRecordIs
  <1>5. UNCHANGED <<rec, obj, opts, orig, phase, todo, spool, prep>> BY <1>3 DEF NextLine
  <1>6. AsMet' /\ (v = "defer" => q \notin Guarded) BY <1>2, <1>3, <1>4, <1>5, <1>10, ApplyMet
  <1>7. \A p \in Guarded : \A n \in 1..Len(deferred') : deferred'[n] # p
    <2>1. \A p \in Guarded : \A n \in 1..Len(deferred) : deferred[n] # p
      BY DEF Sheltered, Silent
    <2>2. CASE v # "defer" BY <1>3, <2>1, <2>2
    <2>3. CASE v = "defer"
      <3>1. deferred \in Seq(Paths) BY <1>0 DEF Typed
      <3>2. /\ Len(Append(deferred, q)) = Len(deferred) + 1 /\ Len(deferred) \in Nat
            /\ \A i \in 1..Len(deferred) : Append(deferred, q)[i] = deferred[i]
            /\ Append(deferred, q)[Len(deferred) + 1] = q
        BY <1>4, <3>1, AppendProperties
      <3>3. \A n \in 1..Len(deferred) + 1 : n \in 1..Len(deferred) \/ n = Len(deferred) + 1
        BY <3>2
      <3>4. deferred' = Append(deferred, q) BY <1>3, <2>3
      <3>. QED BY <1>6, <2>1, <2>3, <3>2, <3>3, <3>4
    <2>. QED BY <2>2, <2>3
  <1>8. \A p \in Guarded : \A n \in 1..Len(spool) :
           /\ phase' = "apply" /\ Leads(p, n) /\ at' <= LeafKey[p]
           /\ phase = "apply" /\ at <= LeafKey[p] => cur <= n
           => cur' <= n
    BY <1>1, <1>2, <1>3, NextLineKeeps
  <1>9. phase \in {"apply", "place", "extras"} /\ phase' \in {"apply", "place", "extras", "done"}
        /\ prep' = NoPrep
    BY <1>0, <1>4, <1>5
  <1>. QED BY <1>5, <1>6, <1>7, <1>8, <1>9, LaterShelter

\* A record passed over: nothing is written, and the cursor goes by its line.
LEMMA PassedOver ==
  ASSUME Inv, Sheltered, AtRecord, NextLine(NextRecord), UNCHANGED <<loc, deferred>>
  PROVE  Sheltered'
  <1>1. phase = "apply" /\ prep = NoPrep /\ AsMet BY DEF Sheltered, AtRecord
  <1>2. UNCHANGED <<rec, obj, opts, orig, phase, todo, spool, prep>> BY DEF NextLine
  <1>3. AsMet' BY <1>1, <1>2, MetSame
  <1>4. \A p \in Guarded : \A n \in 1..Len(deferred') : deferred'[n] # p
    BY DEF Sheltered, Silent
  <1>5. \A p \in Guarded : \A n \in 1..Len(spool) :
           /\ phase' = "apply" /\ Leads(p, n) /\ at' <= LeafKey[p]
           /\ phase = "apply" /\ at <= LeafKey[p] => cur <= n
           => cur' <= n
    BY NextLineKeeps
  <1>6. phase \in {"apply", "place", "extras"} /\ phase' \in {"apply", "place", "extras", "done"}
        /\ prep' = NoPrep
    BY <1>1, <1>2
  <1>. QED BY <1>2, <1>3, <1>4, <1>5, <1>6, LaterShelter

LEMMA SkipExcludedShelter ==
  ASSUME Inv, Sheltered, SkipExcluded PROVE Sheltered'
  BY PassedOver DEF SkipExcluded

\* A pull that ends, giving the modes it prepped back.
LEMMA EndShelter ==
  ASSUME Inv, Sheltered, UNCHANGED <<rec, obj, opts, orig, todo, spool, deferred>>,
         loc' = GivenBack(loc) \/ loc' = loc, prep' = NoPrep, phase' = "done"
  PROVE  Sheltered'
  <1>0. AsMet /\ prep = NoPrep BY DEF Sheltered
  <1>1. loc' = loc BY <1>0, GivesNothing
  <1>2. AsMet' BY <1>0, <1>1, MetSame
  <1>3. Guarded' = Guarded /\ Guarded \in SUBSET Paths BY SameGuard DEF Guarded, Nondirs, Recorded
  <1>4. Begun' /\ Behind' /\ Answers' BY DEF Begun, Behind, Answers
  <1>5. Silent' BY <1>3 DEF Sheltered, Silent
  <1>6. (prep = NoPrep)' BY DEF NoPrep
  <1>. QED BY <1>2, <1>4, <1>5, <1>6 DEF Sheltered

LEMMA AbortShelter == ASSUME Inv, Sheltered, Abort PROVE Sheltered'
  BY EndShelter DEF Abort, Finish

LEMMA ApplyFailsShelter ==
  ASSUME Inv, Sheltered, ApplyFails PROVE Sheltered'
  <1>1. AtRecord BY DEF ApplyFails
  <1>2. Abort \/ (NextLine(NextRecord) /\ UNCHANGED <<loc, frames, deferred, told>>) BY DEF ApplyFails
  <1>. QED BY <1>1, <1>2, AbortShelter, PassedOver

LEMMA StreamedShelter ==
  ASSUME Inv, Sheltered, Streamed PROVE Sheltered'
  <1>1. /\ phase = "apply" /\ phase' = "place"
        /\ UNCHANGED <<rec, obj, opts, orig, loc, todo, spool, deferred, prep>>
    BY DEF Streamed
  <1>2. AsMet' /\ prep' = NoPrep BY <1>1, MetSame DEF Sheltered
  <1>3. \A p \in Guarded : \A n \in 1..Len(deferred') : deferred'[n] # p
    BY <1>1 DEF Sheltered, Silent
  <1>. QED BY <1>1, <1>2, <1>3, LaterSame

LEMMA PlaceShelter ==
  ASSUME Posix, Inv, Sheltered, Place PROVE Sheltered'
  <1>0. AsMet /\ prep = NoPrep /\ Typed BY DEF Sheltered, Inv
  <1>1. phase = "place" /\ deferred # <<>> BY DEF Place
  <1>2. PICK q : q = Head(deferred) OBVIOUS
  <1>3. deferred \in Seq(Paths) /\ \A n \in 1..Len(deferred) : LinkRec(deferred[n]) /\ deferred[n] \notin Guarded
    BY <1>0 DEF Inv, Typed, LastFits, Sheltered, Silent
  <1>4. /\ q \in Paths /\ LinkRec(q) /\ q \notin Guarded /\ Len(deferred) \in Nat \ {0}
        /\ Len(Tail(deferred)) = Len(deferred) - 1
        /\ \A n \in 1..Len(Tail(deferred)) : Tail(deferred)[n] = deferred[n + 1]
    <2>1. Len(deferred) \in Nat \ {0} BY <1>1, <1>3, EmptySeq
    <2>2. 1 \in 1..Len(deferred) BY <2>1
    <2>3. deferred[1] \in Paths /\ LinkRec(deferred[1]) /\ deferred[1] \notin Guarded
      BY <1>3, <2>2, ElementOfSeq
    <2>. QED BY <1>1, <1>2, <1>3, <2>1, <2>3, HeadTailProperties
  <1>5. \/ Abort
        \/ /\ ~Blocked(q) /\ loc' = Put(Cleared(q), q, LinkAt(rec[q])) /\ deferred' = Tail(deferred)
           /\ UNCHANGED <<phase, prep, rec, obj, opts, orig, at, todo, spool, cur>>
    BY <1>2 DEF Place
  <1>6. CASE Abort BY <1>6, AbortShelter
  <1>7. CASE /\ ~Blocked(q) /\ loc' = Put(Cleared(q), q, LinkAt(rec[q])) /\ deferred' = Tail(deferred)
             /\ UNCHANGED <<phase, prep, rec, obj, opts, orig, at, todo, spool, cur>>
    <2>1. Keeps(loc, loc', {q} \cup Swept(q))
      <3>1. /\ rec[q].mtime \in Nat \cup {NoMtime} /\ rec[q].what \in Data
            /\ (rec[Root] # None => rec[Root].kind = "dir")
        BY <1>0, <1>4, GivenFacts DEF Typed, LinkRec
      <3>2. q # Root BY <1>4, <3>1 DEF LinkRec
      <3>3. LinkAt(rec[q]) \in Items BY <3>1, LinkItem
      <3>4. PICK m : m = Put(Cleared(q), q, LinkAt(rec[q])) OBVIOUS
      <3>5. Keeps(loc, m, {q} \cup Swept(q))
        BY <1>0, <1>4, <1>7, <3>2, <3>3, <3>4, Placed DEF Typed
      <3>. QED BY <1>7, <3>4, <3>5
    <2>2. \A p \in Guarded : p \notin {q} \cup Swept(q)
      <3>1. phase \notin {"start", "done"} BY <1>1
      <3>. QED BY <1>0, <1>4, <3>1, NotSwept DEF Posix
    <2>3. AsMet' BY <1>0, <1>7, <2>1, <2>2, MetAfter
    <2>4. \A p \in Guarded : \A n \in 1..Len(deferred') : deferred'[n] # p
      <3>1. \A n \in 1..Len(Tail(deferred)) : n + 1 \in 1..Len(deferred) BY <1>4
      <3>. QED BY <1>3, <1>4, <1>7, <3>1
    <2>. QED BY <1>0, <1>1, <1>7, <2>3, <2>4, LaterSame
  <1>. QED BY <1>5, <1>6, <1>7

LEMMA AppliedShelter ==
  ASSUME Inv, Sheltered, Applied PROVE Sheltered'
  <1>0. AsMet /\ prep = NoPrep BY DEF Sheltered
  <1>1. /\ phase = "place" /\ phase' \in {"done", "extras"} /\ prep' = NoPrep
        /\ UNCHANGED <<rec, obj, opts, orig, todo, spool, deferred>>
        /\ loc' = GivenBack(loc) \/ loc' = loc
    BY DEF Applied, Finish
  <1>2. loc' = loc BY <1>0, <1>1, GivesNothing
  <1>3. AsMet' BY <1>0, <1>1, <1>2, MetSame
  <1>4. \A p \in Guarded : \A n \in 1..Len(deferred') : deferred'[n] # p
    BY <1>1 DEF Sheltered, Silent
  <1>. QED BY <1>1, <1>3, <1>4, LaterSame

\* Removing an extra, which is no recorded leaf and has nothing in it.
LEMMA JudgeShelter ==
  ASSUME Inv, Sheltered, phase = "extras", NEW p \in Paths \ {Root}, loc[p] # None, p \notin Nondirs,
         NEW rest, Judge(p, rest),
         UNCHANGED <<rec, obj, opts, orig, todo, spool, cur, deferred>>
  PROVE  Sheltered'
  <1>0. AsMet /\ prep = NoPrep /\ Typed BY DEF Sheltered, Inv
  <1>1. \/ /\ UNCHANGED <<phase, prep>>
           /\ \/ loc' = loc
              \/ /\ \A c \in Paths \ {p} : Up[c] = p => loc[c] = None
                 /\ loc' = Removed(loc, p)
        \/ Finish("failed")
    BY DEF Judge
  <1>2. CASE Finish("failed") BY <1>2, EndShelter DEF Finish
  <1>3. CASE /\ UNCHANGED <<phase, prep>>
             /\ \/ loc' = loc
                \/ /\ \A c \in Paths \ {p} : Up[c] = p => loc[c] = None
                   /\ loc' = Removed(loc, p)
    <2>1. AsMet'
      <3>1. CASE loc' = loc BY <1>0, <3>1, MetSame
      <3>2. CASE (\A c \in Paths \ {p} : Up[c] = p => loc[c] = None) /\ loc' = Removed(loc, p)
        <4>1. PICK S, m : S = {q \in Paths : InSubtree(p, q)} /\ m = Removed(loc, p) OBVIOUS
        <4>2. Treelike(loc) /\ Keeps(loc, m, S) BY <1>0, <4>1, RemovedLeaves DEF Typed
        <4>3. Bare(loc, p)
          <5>1. \A c \in Paths \ {Root} : Up[c] = p => c # p BY AboveTypes, AboveKey
          <5>. QED BY <3>2, <5>1 DEF Bare
        <4>4. \A g \in Guarded : g \notin S
          <5>. SUFFICES ASSUME NEW g \in Guarded, g \in S PROVE FALSE OBVIOUS
          <5>1. g \in Paths /\ loc[g] # None /\ g \in Nondirs BY <1>0, GuardedIs
          <5>2. p \in Above[g] BY <4>1, <5>1 DEF InSubtree
          <5>. QED BY <4>2, <4>3, <5>1, <5>2, NothingIn
        <4>. QED BY <1>0, <3>2, <4>1, <4>2, <4>4, MetAfter
      <3>. QED BY <1>3, <3>1, <3>2
    <2>2. \A g \in Guarded : \A n \in 1..Len(deferred') : deferred'[n] # g
      BY DEF Sheltered, Silent
    <2>. QED BY <1>0, <1>3, <2>1, <2>2, LaterShelter
  <1>. QED BY <1>1, <1>2, <1>3

\* A step of the removal that removes nothing.
LEMMA ExtrasSame ==
  ASSUME Sheltered, phase = "extras",
         UNCHANGED <<phase, rec, obj, opts, orig, todo, spool, cur, deferred, loc, prep>>
  PROVE  Sheltered'
  <1>1. AsMet' /\ prep' = NoPrep BY MetSame DEF Sheltered
  <1>2. \A g \in Guarded : \A n \in 1..Len(deferred') : deferred'[n] # g
    BY DEF Sheltered, Silent
  <1>. QED BY <1>1, <1>2, LaterShelter

LEMMA CloseExtraShelter ==
  ASSUME Inv, Sheltered, CloseExtra PROVE Sheltered'
  <1>1. /\ phase = "extras" /\ open # <<>>
        /\ UNCHANGED <<rec, obj, opts, orig, todo, spool, cur, deferred>>
    BY DEF CloseExtra
  <1>2. PICK p, rest : p = Innermost.path /\ rest = Front(open) OBVIOUS
  <1>3. p \in Paths \ {Root} /\ loc[p] # None /\ p \notin Nondirs
    BY <1>1, <1>2, OpenIs DEF Innermost, Stands
  <1>4. CASE Innermost.kept
    <2>1. UNCHANGED <<loc, phase, prep>> BY <1>4 DEF CloseExtra
    <2>. QED BY <1>1, <2>1, ExtrasSame
  <1>5. CASE ~Innermost.kept
    <2>1. Judge(p, rest) BY <1>2, <1>5 DEF CloseExtra
    <2>. QED BY <1>1, <1>3, <2>1, JudgeShelter
  <1>. QED BY <1>4, <1>5

LEMMA PruneShelter ==
  ASSUME Inv, Sheltered, Prune PROVE Sheltered'
  <1>1. /\ phase = "extras" /\ ToPrune # {}
        /\ UNCHANGED <<rec, obj, opts, orig, todo, spool, cur, deferred>>
    BY DEF Prune
  <1>2. PICK p : p = NextLocal OBVIOUS
  <1>3. p \in Paths \ {Root} /\ loc[p] # None BY <1>1, <1>2, NextLocalIs
  <1>4. CASE ~Extra(p) \/ loc[p].kind = "dir"
    <2>1. UNCHANGED <<loc, phase, prep>> BY <1>2, <1>4 DEF Prune
    <2>. QED BY <1>1, <2>1, ExtrasSame
  <1>5. CASE ~(~Extra(p) \/ loc[p].kind = "dir")
    <2>1. Judge(p, open) BY <1>2, <1>5 DEF Prune
    <2>2. p \notin Nondirs BY <1>5 DEF Extra, Covered, InSubtree
    <2>. QED BY <1>1, <1>3, <2>1, <2>2, JudgeShelter
  <1>. QED BY <1>4, <1>5

\* The second pass reads the spool from its first line.
LEMMA PrunedShelter ==
  ASSUME Inv, Sheltered, Pruned PROVE Sheltered'
  <1>0. AsMet /\ prep = NoPrep BY DEF Sheltered
  <1>1. /\ phase = "extras" /\ UNCHANGED <<rec, obj, opts, orig, todo, spool, deferred>>
        /\ \/ phase' = "apply" /\ cur' = 1 /\ UNCHANGED <<loc, prep>>
           \/ loc' = GivenBack(loc) /\ prep' = NoPrep /\ phase' = "done"
    BY DEF Pruned, Finish
  <1>2. CASE phase' = "apply" /\ cur' = 1 /\ UNCHANGED <<loc, prep>>
    <2>1. AsMet' /\ prep' = NoPrep BY <1>0, <1>1, <1>2, MetSame
    <2>2. \A p \in Guarded : \A n \in 1..Len(deferred') : deferred'[n] # p
      BY <1>1 DEF Sheltered, Silent
    <2>3. \A n \in 1..Len(spool) : 1 <= n OBVIOUS
    <2>. QED BY <1>1, <1>2, <2>1, <2>2, <2>3, LaterShelter
  <1>3. CASE loc' = GivenBack(loc) /\ prep' = NoPrep /\ phase' = "done" BY <1>1, <1>3, EndShelter
  <1>. QED BY <1>1, <1>2, <1>3

LEMMA CutShelter == ASSUME Inv, Sheltered, Cut PROVE Sheltered'
  BY EndShelter DEF Cut

\* The next pull meets the tree the last one left.
LEMMA AgainShelter ==
  ASSUME Inv, Sheltered, Again PROVE Sheltered'
  <1>1. /\ phase' = "start" /\ todo' = {} /\ spool' = <<>> /\ cur' = 1 /\ deferred' = <<>>
        /\ orig' = loc /\ loc' = loc /\ prep' = prep
    BY DEF Again
  <1>2. Len(spool') = 0 /\ Len(deferred') = 0 BY <1>1, EmptySeq
  <1>3. AsMet' BY <1>1 DEF AsMet, Alike
  <1>4. Begun' /\ Behind' /\ Silent' /\ Answers' BY <1>1, <1>2 DEF Begun, Behind, Silent, Answers
  <1>5. (prep = NoPrep)' BY <1>1 DEF Sheltered, NoPrep
  <1>. QED BY <1>3, <1>4, <1>5 DEF Sheltered

LEMMA InitShelter == Init => Sheltered
  <1>. SUFFICES ASSUME Init PROVE Sheltered OBVIOUS
  <1>1. /\ phase = "start" /\ todo = {} /\ spool = <<>> /\ cur = 1 /\ deferred = <<>>
        /\ orig = loc /\ prep = NoPrep
    BY DEF Init, Fresh
  <1>2. Len(spool) = 0 /\ Len(deferred) = 0 BY <1>1, EmptySeq
  <1>. QED BY <1>1, <1>2 DEF Sheltered, AsMet, Alike, Begun, Behind, Silent, Answers

LEMMA ShelterStep == Posix /\ Inv /\ Sheltered /\ [Next]_vars => Sheltered'
  <1>. SUFFICES ASSUME Posix, Inv, Sheltered, [Next]_vars PROVE Sheltered' OBVIOUS
  <1>1. CASE Next
    BY <1>1, StartShelter, VetShelter, PrepShelter, DecideShelter, LandShelter, SyncedShelter,
       PopFrameShelter, ClearConflictShelter, ApplyShelter, SkipExcludedShelter, ApplyFailsShelter, StreamedShelter,
       PlaceShelter, ResettleShelter, AppliedShelter, CloseExtraShelter, PruneShelter,
       PrunedShelter, CutShelter, AgainShelter DEF Next
  <1>2. CASE UNCHANGED vars
    <2>1. UNCHANGED <<rec, obj, opts, orig, loc, phase, at, todo, spool, cur, deferred, prep>>
      BY <1>2 DEF vars
    <2>2. Guarded' = Guarded /\ Guarded \in SUBSET Paths BY <2>1, SameGuard DEF Guarded, Nondirs, Recorded
    <2>3. AsMet' BY <2>1, MetSame DEF Sheltered
    <2>4. Begun' /\ Behind' BY <2>1 DEF Sheltered, Begun, Behind
    <2>5. Silent' BY <2>1, <2>2 DEF Sheltered, Silent
    <2>6. \A p \in Guarded : /\ Answered(p) => Answered(p)'
                             /\ (Stale(p)' => Stale(p)) /\ (Judged(p)' => Judged(p))
      BY <2>1, <2>2, SameGuard DEF Answered, Leads, Line, Matches, StatusShows
    <2>7. Answers' BY <2>1, <2>2, <2>6 DEF Sheltered, Answers
    <2>8. (prep = NoPrep)' BY <2>1 DEF Sheltered, NoPrep
    <2>. QED BY <2>3, <2>4, <2>5, <2>7, <2>8 DEF Sheltered
  <1>. QED BY <1>1, <1>2

LEMMA ShelterHolds == ASSUME Posix PROVE Spec => [](Inv /\ Sheltered)
  <1>1. Init => Inv /\ Sheltered BY InitInv, InitShelter
  <1>2. Inv /\ Sheltered /\ [Next]_vars => (Inv /\ Sheltered)'
    BY InvStep, ShelterStep
  <1>. QED BY <1>1, <1>2, PTL DEF Spec

\* On POSIX, among names the filesystem keeps apart, a local file whose record
\* has no object ends the pull as it was, however the pull ends
\* (Pull.StaleUntouched).
THEOREM StaleIsUntouched ==
  ASSUME ~Windows, NamesApart
  PROVE  Spec => []StaleUntouched
  <1>1. Posix BY DEF Posix
  <1>2. Inv /\ Sheltered => StaleUntouched
    <2>. SUFFICES ASSUME Inv, Sheltered, Ended, NEW p \in Recorded, Stale(p) PROVE loc[p] = orig[p]
      BY DEF StaleUntouched, Stale
    <2>1. p \in Guarded BY DEF Guarded, Nondirs, Stale
    <2>. QED BY <2>1, GuardedIs DEF Sheltered, Stale
  <1>. QED BY <1>1, <1>2, ShelterHolds, PTL
\* On POSIX, among names the filesystem keeps apart, where no leaf is recorded
\* with a time still to come, pull -u leaves what is newer than the record of a
\* leaf alone, a directory in place (Pull.NewerLeafKept).
THEOREM NewerIsKept ==
  ASSUME ~Windows, NamesApart, NoneToCome
  PROVE  Spec => []NewerLeafKept
  <1>1. Posix BY DEF Posix
  <1>2. Inv /\ Sheltered => NewerLeafKept
    <2>. SUFFICES ASSUME Inv, Sheltered, Ended, NEW p \in Nondirs, NewerHere(p) PROVE Untouched(p)
      BY DEF NewerLeafKept
    <2>1. p \in Paths /\ rec[p] # None /\ rec[p].kind # "dir" BY DEF Nondirs, Recorded
    <2>2. orig[p].kind = "dir" => rec[p].mtime <= Now
      <3>1. PICK w \in Worlds : rec = w.rec BY DEF Inv, Typed, Given
      <3>2. orig[p].kind = "dir" => rec[p].mtime # NoMtime
        BY DEF NewerHere, OrderedSide, NewerSide
      <3>. QED BY <2>1, <3>1, <3>2 DEF NoneToCome
    <2>3. p \in Guarded BY <2>2 DEF Guarded, Newer
    <2>. QED BY <2>3, GuardedIs DEF Sheltered, Untouched
  <1>. QED BY <1>1, <1>2, ShelterHolds, PTL

-----------------------------------------------------------------------------
(* What a pull costs, where the filesystem folds no names: each step that  *)
(* changes what stands at a path accounts for it.                          *)

Unfolded == \A p \in Paths : Twin[p] = None

\* The same thing stands there, whatever its time and mode.
Same(x, y) == IF x = None THEN y = None ELSE y # None /\ y.kind = x.kind /\ y.data = x.data

Free(p) == \A b \in Nondirs : ~InSubtree(b, p)
ByRemoval(p) ==
  p \in gone /\ p \in asked /\ ~Vouched(p) /\ KeyAs(p, orig[p].kind) \notin opts.excluded
ByLink(p) == \E b \in Nondirs : InSubtree(b, p) /\ rec[b].kind = "link"
ByDir(p) == p \in Positions /\ (Stands(loc, p) \/ p \in gone)
ByUnmade(p) == p \in Positions /\ orig[p].kind # "dir" /\ Unmade(p)
ByObject(p) ==
  /\ orig[p].kind # "dir" /\ obj[p] # None
  /\ \/ loc[p] = None /\ (orig[p].kind = "special" \/ p \in gone)
     \/ loc[p] # None /\ loc[p].kind = "file" /\ loc[p].data = obj[p]
     \/ Stands(loc, p) /\ \E x \in Beneath(p) : obj[x] # None
Explained(p) ==
  \/ orig[p] = None \/ ~Replaced(p)
  \/ ByRemoval(p) \/ ByLink(p) \/ ByDir(p) \/ ByUnmade(p) \/ ByObject(p)

\* What a step may do at p: nothing; leave it to a recorded link; make the
\* directory of a record or an object beneath; land or clear the way for an
\* object, or for a directory to be made; remove an extra.
Accounts(p) ==
  \/ Same(loc[p], loc'[p])
  \/ ByLink(p)
  \/ p \in Positions /\ Stands(loc', p)
  \/ loc[p] = None /\ Stands(loc', p) /\ (p = Root \/ \E x \in Beneath(p) : obj[x] # None)
  \/ /\ ~Stands(loc, p) /\ obj[p] # None
     /\ loc'[p] # None /\ loc'[p].kind = "file" /\ loc'[p].data = obj[p]
  \/ loc[p] # None /\ loc[p].kind = "special" /\ obj[p] # None /\ loc'[p] = None
  \/ /\ p \in Positions /\ loc[p] # None /\ loc[p].kind # "dir"
     /\ loc'[p] = None /\ Unmade(p)'
  \/ /\ loc[p] # None /\ loc'[p] = None /\ p \in gone' /\ p \in asked'
     /\ KeyAs(p, loc[p].kind) \notin opts.excluded /\ Free(p)
     /\ p \in Recorded => loc[p].kind # "dir"

\* No record vouches for an open directory of remove_extras.
Loose(p) == p \notin Recorded /\ Free(p) /\ DirKey[p] \notin opts.excluded
OpenLoose == \A n \in 1..Len(open) : Loose(open[n].path)

Weighed == \A p \in Paths : Explained(p)

\* A directory's record gives way to a line of the spool only.
LEMMA DirVerdict ==
  ASSUME NEW r, r.kind = "dir", NEW i, NEW d, NEW u \in BOOLEAN, NEW g
  PROVE  ApplyVerdict(r, i, d, u, g) = "dir" <=> ~(u /\ d = "K") /\ d # "G"
  BY DEF ApplyVerdict

\* Making reads the record, the cursor's line and the place of the stream.
LEMMA MakingSame ==
  ASSUME Inv, UNCHANGED <<rec, opts, phase, at, frames, cur, spool>>,
         NEW p \in Paths, Making(p), DirRec(p), ~IsDir(p)'
  PROVE  Making(p)'
  <1>0. /\ AtRecord /\ p = NextRecord /\ Judged(p) /\ opts.update \in BOOLEAN
        /\ VerdictOn(p, Decision(RecKey(p))) = "dir"
    BY GivenFacts DEF Making, Inv, Typed
  <1>1. \A q \in Paths : RecKey(q)' = RecKey(q) BY DEF RecKey, KeyAs
  <1>2. Recorded' = Recorded /\ Recorded \subseteq Paths BY DEF Recorded
  <1>3. ToApply' = ToApply BY <1>1, <1>2 DEF ToApply
  <1>4. NextRecord' = NextRecord BY <1>3 DEF NextRecord, RecKey, KeyAs
  <1>5. Top' = Top BY DEF Top
  <1>6. AtRecord' BY <1>0, <1>3, <1>4, <1>5 DEF AtRecord, Leaves
  <1>7. Judged(p)' BY <1>0 DEF Judged, RecKey, KeyAs
  <1>8. Decision(RecKey(p))' = Decision(RecKey(p))
    BY DEF Decision, Hit, Ahead, LinesFrom, RecKey, KeyAs
  <1>9. PICK d : d = Decision(RecKey(p)) OBVIOUS
  <1>10. ~(opts.update /\ d = "K") /\ d # "G"
    BY <1>0, <1>9, DirVerdict DEF VerdictOn, DirRec
  <1>11. VerdictOn(p, d)' = "dir"
    BY <1>0, <1>10, DirVerdict DEF VerdictOn, DirRec
  <1>12. (VerdictOn(p, Decision(RecKey(p))) = "dir")' BY <1>8, <1>9, <1>11
  <1>. QED BY <1>0, <1>4, <1>6, <1>7, <1>12 DEF Making

LEMMA UnfoldedIs ==
  ASSUME Unfolded, NEW p \in Paths
  PROVE  Disk(p) = p /\ Found(p) = loc[p] /\ Named(p) = {p} /\ \A q \in Paths : Twin[q] # p
  <1>1. Disk(p) = p BY DEF Disk, DiskIn, Unfolded
  <1>2. \A q \in Paths : Twin[q] # p BY NoneIsNoItem DEF Unfolded
  <1>. QED BY <1>1, <1>2 DEF Found, Named

LEMMA UnfoldedLater ==
  ASSUME Unfolded, NEW p \in Paths
  PROVE  Found(p)' = loc'[p]
  BY DEF Found, Disk, DiskIn, Unfolded

\* What a pull may do next in the phases in which a directory is unmade.
LEMMA TurnOf ==
  ASSUME Next
  PROVE  /\ phase = "vet" => Vet \/ Cut
         /\ phase = "make" => Make \/ Cut
         /\ phase = "apply" => \/ PopFrame \/ ClearConflict \/ Apply \/ SkipExcluded
                               \/ ApplyFails \/ Streamed \/ Cut
         /\ phase = "done" => Again
  <1>1. /\ Start => phase = "start"
        /\ Vet => phase = "vet"
        /\ Make => phase = "make"
        /\ Prep => phase = "prep"
        /\ Decide \/ (\E p \in Paths : Land(p)) \/ Synced => phase = "sync"
    BY DEF Start, Vet, Make, Prep, Decide, Land, Synced
  <1>2. PopFrame \/ ClearConflict \/ Apply \/ SkipExcluded \/ ApplyFails \/ Streamed => phase = "apply"
    BY DEF PopFrame, ClearConflict, Making, Apply, SkipExcluded, ApplyFails, AtRecord, Streamed
  <1>3. /\ Place \/ Resettle \/ Applied => phase = "place"
        /\ CloseExtra \/ Prune \/ Pruned => phase = "extras"
        /\ Cut => phase \notin {"start", "done"}
        /\ Again => phase = "done"
    BY DEF Place, Resettle, Applied, CloseExtra, Prune, Pruned, Cut, Again
  <1>. QED BY <1>1, <1>2, <1>3 DEF Next

\* A directory that was to be made is made, or the pull fails or is cut.
LEMMA UnmadeStays ==
  ASSUME Unfolded, Inv, [Next]_vars, ~Again, NEW p \in Positions, Unmade(p), loc'[p] = None
  PROVE  Unmade(p)'
  <1>0. p \in Paths \ {Root} /\ Found(p) = None /\ loc[p] = None /\ ~IsDir(p)
    BY UnfoldedIs DEF Positions, Unmade, IsDir
  <1>1. Found(p)' = None /\ ~IsDir(p)' BY <1>0, UnfoldedLater DEF IsDir
  <1>2. CASE UNCHANGED vars
    <2>1. UNCHANGED <<rec, opts, phase, at, frames, cur, spool, bad, status>> BY <1>2 DEF vars
    <2>2. Making(p) => Making(p)' BY <1>0, <1>1, <2>1, MakingIs, MakingSame
    <2>. QED BY <1>1, <2>1, <2>2 DEF Unmade, Done
  <1>3. CASE Next /\ Cut
    <2>1. phase' = "done" /\ status' = "cut" BY <1>3 DEF Cut
    <2>. QED BY <1>1, <2>1 DEF Unmade, Done
  <1>4. CASE Next /\ ~Cut /\ phase = "vet" /\ bad
    <2>1. Vet BY <1>4, TurnOf
    <2>2. /\ (phase' = "done" /\ status' = "failed") \/ phase' = "make" \/ phase' = "vet"
          /\ bad' = bad \/ bad' = TRUE
      BY <1>4, <2>1 DEF Vet
    <2>3. bad' BY <1>4, <2>2
    <2>. QED BY <1>1, <2>2, <2>3 DEF Unmade, Done
  <1>5. CASE Next /\ ~Cut /\ phase = "make" /\ (at = DirKey[p] \/ bad)
    <2>1. Make /\ phase' = "vet" BY <1>5, TurnOf DEF Make
    <2>2. CASE bad' BY <1>1, <2>1, <2>2 DEF Unmade
    <2>3. CASE ~bad'
      <3>1. PICK q \in Positions : DirKey[q] = at /\ loc'[q] = NewDir /\ bad' = bad
        BY <2>1, <2>3, MakeWrites DEF Inv
      <3>2. q \in Paths /\ DirKey[q] = DirKey[p] BY <1>5, <2>3, <3>1 DEF Positions
      <3>3. q = p BY <1>0, <3>2, KeysDiffer
      <3>. QED BY <3>1, <3>3, NewDirItem
    <2>. QED BY <2>2, <2>3
  <1>6. CASE Next /\ ~Cut /\ Making(p)
    <2>1. AtRecord /\ phase = "apply" /\ p = NextRecord /\ p \in Recorded /\ ~IsDir(p)
      BY <1>0, <1>6, MakingIs
    <2>2. PICK d, v : d = Decision(RecKey(p)) /\ v = VerdictOn(p, d) OBVIOUS
    <2>3. v = "dir" /\ Judged(p) BY <1>6, <2>2 DEF Making
    <2>4. ~PopFrame /\ ~Streamed /\ ~SkipExcluded
      BY <2>1, <2>3 DEF PopFrame, Streamed, SkipExcluded, AtRecord
    <2>5. ~ClearConflict BY <1>0, <2>1 DEF ClearConflict, Making
    <2>6. CASE ApplyFails
      <3>1. phase' = "done" /\ status' = "failed"
        BY <2>1, <2>2, <2>3, <2>6 DEF ApplyFails, Abort, Finish
      <3>. QED BY <1>1, <3>1 DEF Unmade, Done
    <2>7. CASE Apply
      <3>1. loc' = Put(Cleared(p), p, NewDir) /\ ~Blocked(p)
        BY <1>0, <2>1, <2>2, <2>3, <2>7 DEF Apply, Effect, Cleared, Writes
      <3>2. PICK m, item : m = Put(Cleared(p), p, item) /\ item = NewDir OBVIOUS
      <3>3. Treelike(loc) /\ item \in Items BY <3>2, NewDirItem DEF Inv, Typed
      <3>4. m[p] = item BY <1>0, <3>1, <3>2, <3>3, Placed
      <3>. QED BY <3>1, <3>2, <3>4, NewDirItem
    <2>. QED BY <1>6, <2>1, <2>4, <2>5, <2>6, <2>7, TurnOf
  <1>7. Next => phase # "done" BY TurnOf
  <1>. QED BY <1>2, <1>3, <1>4, <1>5, <1>6, <1>7 DEF Unmade, Done

LEMMA SameWorld ==
  ASSUME UNCHANGED <<rec, obj, opts, orig>>
  PROVE  /\ Nondirs' = Nondirs /\ Recorded' = Recorded /\ Positions' = Positions
         /\ \A p \in Paths : (Vouched(p)' <=> Vouched(p)) /\ (ByLink(p)' <=> ByLink(p))
                             /\ (Loose(p)' <=> Loose(p))
  <1>1. Nondirs' = Nondirs /\ Recorded' = Recorded BY SameGiven
  <1>2. Positions' = Positions BY <1>1 DEF Positions, Beneath
  <1>. QED BY <1>1, <1>2 DEF Vouched, ByLink, Loose, Free

\* A loss that was explained stays explained.
LEMMA Carried ==
  ASSUME Unfolded, Inv, NEW p \in Paths, Explained(p), Accounts(p),
         UNCHANGED <<rec, obj, opts, orig>>, gone \subseteq gone', asked \subseteq asked',
         p \in Positions /\ Unmade(p) /\ loc'[p] = None => Unmade(p)'
  PROVE  Explained(p)'
  <1>. SUFFICES ASSUME orig[p] # None, Replaced(p)'
                PROVE  ByRemoval(p)' \/ ByLink(p)' \/ ByDir(p)' \/ ByUnmade(p)' \/ ByObject(p)'
    BY DEF Explained
  <1>0. /\ (Vouched(p)' <=> Vouched(p)) /\ (ByLink(p)' <=> ByLink(p)) /\ Positions' = Positions
        /\ Beneath(p)' = Beneath(p)
    BY SameWorld DEF Beneath
  <1>1. ByRemoval(p) => ByRemoval(p)' BY <1>0 DEF ByRemoval, KeyAs
  <1>2. p \in Positions /\ p \in gone => ByDir(p)' BY <1>0 DEF ByDir
  <1>3. Replaced(p)' <=> (loc'[p] = None \/ loc'[p].kind # orig[p].kind \/ loc'[p].data # orig[p].data)
    BY DEF Replaced
  <1>4. Stands(loc, p)' <=> Stands(loc', p) BY DEF Stands
  <1>5. ByDir(p)' <=> p \in Positions /\ (Stands(loc', p) \/ p \in gone')
    BY <1>0, <1>4 DEF ByDir
  <1>6. ByObject(p)' <=> /\ orig[p].kind # "dir" /\ obj[p] # None
                         /\ \/ loc'[p] = None /\ (orig[p].kind = "special" \/ p \in gone')
                            \/ loc'[p] # None /\ loc'[p].kind = "file" /\ loc'[p].data = obj[p]
                            \/ Stands(loc', p) /\ \E x \in Beneath(p) : obj[x] # None
    BY <1>0, <1>4 DEF ByObject
  <1>16. ByUnmade(p)' <=> p \in Positions /\ orig[p].kind # "dir" /\ Unmade(p)'
    BY <1>0 DEF ByUnmade
  <1>17. ByUnmade(p) => loc[p] = None BY UnfoldedIs DEF ByUnmade, Unmade
  <1>7. CASE Same(loc[p], loc'[p])
    <2>1. Replaced(p) BY <1>3, <1>7 DEF Same, Replaced
    <2>2. Stands(loc', p) <=> Stands(loc, p) BY <1>7 DEF Same, Stands
    <2>3. ByObject(p) => ByObject(p)' BY <1>6, <1>7, <2>2 DEF ByObject, Same
    <2>4. ByDir(p) => ByDir(p)' BY <1>5, <2>2 DEF ByDir
    <2>5. ByUnmade(p) => ByUnmade(p)' BY <1>7, <1>16, <1>17 DEF ByUnmade, Same
    <2>. QED BY <1>0, <1>1, <2>1, <2>3, <2>4, <2>5 DEF Explained
  <1>8. CASE ByLink(p) BY <1>0, <1>8
  <1>9. CASE p \in Positions /\ Stands(loc', p) BY <1>5, <1>9
  <1>10. CASE loc[p] = None /\ Stands(loc', p) /\ (p = Root \/ \E x \in Beneath(p) : obj[x] # None)
    <2>1. Replaced(p) BY <1>10 DEF Replaced
    <2>2. ByDir(p) => ByDir(p)' BY <1>2, <1>10 DEF ByDir, Stands
    <2>3. p = Root => orig[p].kind = "dir" BY DEF Inv, Typed, Treelike
    <2>4. ByObject(p) => ByObject(p)' BY <1>6, <1>10, <2>3 DEF ByObject
    <2>5. ByUnmade(p) => ByDir(p)' BY <1>5, <1>10 DEF ByUnmade
    <2>. QED BY <1>0, <1>1, <2>1, <2>2, <2>4, <2>5 DEF Explained
  <1>11. CASE /\ ~Stands(loc, p) /\ obj[p] # None
              /\ loc'[p] # None /\ loc'[p].kind = "file" /\ loc'[p].data = obj[p]
    <2>1. CASE orig[p].kind # "dir" BY <1>6, <1>11, <2>1
    <2>2. CASE orig[p].kind = "dir"
      <3>1. Replaced(p) /\ ~ByObject(p) /\ ~ByUnmade(p)
        BY <1>11, <2>2 DEF Replaced, Stands, ByObject, ByUnmade
      <3>2. ByDir(p) => ByDir(p)' BY <1>2, <1>11 DEF ByDir
      <3>. QED BY <1>0, <1>1, <3>1, <3>2 DEF Explained
    <2>. QED BY <2>1, <2>2
  <1>13. CASE loc[p] # None /\ loc[p].kind = "special" /\ obj[p] # None /\ loc'[p] = None
    <2>1. CASE ~Replaced(p) BY <1>6, <1>13, <2>1 DEF Replaced
    <2>2. CASE Replaced(p)
      <3>1. ~ByObject(p) /\ ~ByUnmade(p) BY <1>13, <1>17 DEF Stands, ByObject
      <3>2. ByDir(p) => ByDir(p)' BY <1>2, <1>13 DEF ByDir, Stands
      <3>. QED BY <1>0, <1>1, <2>2, <3>1, <3>2 DEF Explained
    <2>. QED BY <2>1, <2>2
  <1>14. CASE /\ p \in Positions /\ loc[p] # None /\ loc[p].kind # "dir"
              /\ loc'[p] = None /\ Unmade(p)'
    <2>1. CASE orig[p].kind # "dir" BY <1>14, <1>16, <2>1
    <2>2. CASE orig[p].kind = "dir"
      <3>1. Replaced(p) /\ ~ByObject(p) /\ ~ByUnmade(p)
        BY <1>14, <2>2 DEF Replaced, ByObject, ByUnmade
      <3>2. ByDir(p) => ByDir(p)' BY <1>2, <1>14 DEF ByDir, Stands
      <3>. QED BY <1>0, <1>1, <3>1, <3>2 DEF Explained
    <2>. QED BY <2>1, <2>2
  <1>12. CASE /\ loc[p] # None /\ loc'[p] = None /\ p \in gone' /\ p \in asked'
              /\ KeyAs(p, loc[p].kind) \notin opts.excluded /\ Free(p)
              /\ p \in Recorded => loc[p].kind # "dir"
    <2>1. CASE Replaced(p)
      <3>1. ByDir(p) => ByDir(p)' BY <1>5, <1>12 DEF ByDir
      <3>2. ByObject(p) => ByObject(p)' BY <1>6, <1>12 DEF ByObject
      <3>3. ~ByUnmade(p) BY <1>12, <1>17
      <3>. QED BY <1>0, <1>1, <2>1, <3>1, <3>2, <3>3 DEF Explained
    <2>2. CASE ~Replaced(p)
      <3>1. loc[p].kind = orig[p].kind BY <2>2 DEF Replaced
      <3>2. \A q \in Recorded : Twin[q] # p BY UnfoldedIs DEF Recorded
      <3>3. ~Vouched(p) BY <1>12, <3>1, <3>2 DEF Vouched, Free
      <3>4. KeyAs(p, orig[p].kind) \notin opts'.excluded BY <1>12, <3>1
      <3>. QED BY <1>0, <1>12, <3>3, <3>4 DEF ByRemoval, KeyAs
    <2>. QED BY <2>1, <2>2
  <1>. QED BY <1>7, <1>8, <1>9, <1>10, <1>11, <1>12, <1>13, <1>14 DEF Accounts

\* A tree in which p was made: others are as they were, or directories above it.
LEMMA MadeAbove ==
  ASSUME NEW l, Treelike(l), NEW m, Treelike(m), NEW p \in Paths, m[p] # None, NEW S,
         Keeps(l, m, S), Adds(l, m, Above[p] \cup {p}), NEW q \in Paths \ (S \cup {p})
  PROVE  Same(l[q], m[q]) \/ (q \in Above[p] /\ l[q] = None /\ Stands(m, q))
  <1>1. CASE l[q] # None
    <2>1. l[q] \in Items /\ Alike(l[q], m[q]) BY <1>1, SlotItem DEF Treelike, Keeps
    <2>. QED BY <1>1, <2>1, AlikeItem DEF Same
  <1>2. CASE l[q] = None /\ m[q] = None BY <1>2 DEF Same
  <1>3. CASE l[q] = None /\ m[q] # None
    <2>1. q \in Above[p] BY <1>3 DEF Adds
    <2>. QED BY <1>3, <2>1, AncestorsStand
  <1>. QED BY <1>1, <1>2, <1>3

\* Nothing but p changed, and nothing came.
LEMMA KeptSame ==
  ASSUME NEW l, Treelike(l), NEW m, NEW S, Keeps(l, m, S), Adds(l, m, {}), NEW q \in Paths \ S
  PROVE  Same(l[q], m[q])
  <1>1. CASE l[q] # None
    <2>1. l[q] \in Items /\ Alike(l[q], m[q]) BY <1>1, SlotItem DEF Treelike, Keeps
    <2>. QED BY <1>1, <2>1, AlikeItem DEF Same
  <1>2. CASE l[q] = None BY <1>2 DEF Same, Adds
  <1>. QED BY <1>1, <1>2

\* The item at p was replaced by one of its kind and content.
LEMMA ChangedSame ==
  ASSUME Treelike(loc), NEW p \in Paths, loc[p] # None, NEW y \in Items,
         y.kind = loc[p].kind, y.data = loc[p].data, loc' = [loc EXCEPT ![p] = y]
  PROVE  \A q \in Paths : Accounts(q)
  <1>1. \A q \in Paths : loc'[q] = IF q = p THEN y ELSE loc[q] BY DEF Treelike
  <1>2. y # None BY NoneIsNoItem
  <1>3. \A q \in Paths : Same(loc[q], loc'[q]) BY <1>1, <1>2 DEF Same
  <1>. QED BY <1>3 DEF Accounts

LEMMA UnchangedSame == ASSUME loc' = loc PROVE \A q \in Paths : Accounts(q)
  BY DEF Accounts, Same

LEMMA GivenBackSame ==
  ASSUME Typed, loc' = GivenBack(loc)
  PROVE  \A q \in Paths : Accounts(q)
  <1>. SUFFICES ASSUME NEW p \in Paths PROVE Same(loc[p], loc'[p]) BY DEF Accounts
  <1>1. loc[p] # None => loc[p] \in Items BY SlotItem DEF Typed, Treelike
  <1>2. loc'[p] = IF \E q \in Paths : prep[q] # None /\ Disk(q) = p /\ loc[p] # None /\ loc[p].kind # "link"
                  THEN [loc[p] EXCEPT !.mode = prep[CHOOSE q \in Paths : prep[q] # None /\ Disk(q) = p]]
                  ELSE loc[p]
    BY DEF GivenBack
  <1>3. CASE \E q \in Paths : prep[q] # None /\ Disk(q) = p /\ loc[p] # None /\ loc[p].kind # "link"
    <2>1. PICK q : q = CHOOSE x \in Paths : prep[x] # None /\ Disk(x) = p OBVIOUS
    <2>2. q \in Paths /\ prep[q] # None BY <1>3, <2>1
    <2>3. prep[q] \in Modes /\ loc[p] \in Items /\ loc[p] # None BY <1>1, <1>3, <2>2 DEF Typed
    <2>4. loc'[p] = [loc[p] EXCEPT !.mode = prep[q]] BY <1>2, <1>3, <2>1
    <2>. QED BY <2>3, <2>4, RemodedItem, NoneIsNoItem DEF Same
  <1>4. CASE ~\E q \in Paths : prep[q] # None /\ Disk(q) = p /\ loc[p] # None /\ loc[p].kind # "link"
    <2>1. loc'[p] = loc[p] BY <1>2, <1>4
    <2>. QED BY <2>1 DEF Same
  <1>. QED BY <1>3, <1>4

\* The way is cleared and an item made at the place of the record of p.
LEMMA PlacedAccounts ==
  ASSUME Unfolded, Treelike(loc), NEW p \in Recorded \ {Root}, ~Blocked(p), NEW item \in Items,
         loc' = Put(Cleared(p), p, item), LinkRec(p) \/ (DirRec(p) /\ item.kind = "dir" /\ ~IsDir(p))
  PROVE  \A q \in Paths : Accounts(q)
  <1>0. p \in Paths \ {Root} /\ Disk(p) = p BY UnfoldedIs DEF Recorded
  <1>1. PICK m : m = Put(Cleared(p), p, item) OBVIOUS
  <1>2. /\ Treelike(m) /\ m[p] = item
        /\ Keeps(loc, m, {p} \cup Swept(p)) /\ Adds(loc, m, Above[p] \cup {p})
    BY <1>0, <1>1, Placed
  <1>3. item # None /\ m = loc' BY <1>1, NoneIsNoItem
  <1>4. ASSUME NEW S, p \in S, Keeps(loc, m, S), NEW q \in Paths \ S
        PROVE  Accounts(q)
    <2>1. Same(loc[q], m[q]) \/ (q \in Above[p] /\ loc[q] = None /\ Stands(m, q))
      <3>1. q \in Paths \ (S \cup {p}) BY <1>4
      <3>. QED BY <1>0, <1>2, <1>3, <1>4, <3>1, MadeAbove
    <2>2. q \in Above[p] /\ q # Root => q \in Positions
      BY <1>0 DEF Positions, Beneath
    <2>. QED BY <1>3, <2>1, <2>2 DEF Accounts
  <1>5. CASE LinkRec(p)
    <2>1. p \in Nondirs BY <1>5 DEF LinkRec, Nondirs
    <2>2. \A q \in {p} \cup Swept(p) : ByLink(q)
      BY <1>0, <1>5, <2>1 DEF Swept, InSubtree, ByLink, LinkRec
    <2>3. \A q \in Paths \ ({p} \cup Swept(p)) : Accounts(q) BY <1>2, <1>4
    <2>. QED BY <2>2, <2>3 DEF Accounts
  <1>6. CASE DirRec(p) /\ item.kind = "dir" /\ ~IsDir(p)
    <2>1. Keeps(loc, m, {p}) BY <1>0, <1>2, <1>6, SweptLeaf
    <2>2. p \in Positions BY <1>0, <1>6 DEF Positions, DirRec
    <2>3. Stands(loc', p) BY <1>2, <1>3, <1>6 DEF Stands
    <2>4. Accounts(p) BY <2>2, <2>3 DEF Accounts
    <2>5. \A q \in Paths \ {p} : Accounts(q) BY <1>4, <2>1
    <2>. QED BY <2>4, <2>5
  <1>. QED BY <1>5, <1>6

LEMMA EffectAccounts ==
  ASSUME Unfolded, Typed, NEW p \in Recorded, NEW d, NEW v, v = VerdictOn(p, d),
         Writes(p, v) => ~Blocked(p), v = "dir" /\ ~IsDir(p) => Found(p) = None,
         loc' = Effect(p, v, d)
  PROVE  \A q \in Paths : Accounts(q)
  <1>0. p \in Paths /\ Treelike(loc) /\ Disk(p) = p /\ Found(p) = loc[p]
    BY UnfoldedIs DEF Recorded, Typed
  <1>1. /\ v \in {"place", "defer"} => LinkRec(p)
        /\ v = "dir" => DirRec(p)
        /\ v = "stamp" => /\ Found(p) # None
                          /\ Effect(p, v, d) = [loc EXCEPT ![Disk(p)] = Stamped(rec[p], Found(p))]
    BY EffectKinds
  <1>2. loc[p] # None => loc[p] \in Items BY <1>0, SlotItem DEF Treelike
  <1>3. /\ rec[p].mode \in Modes /\ rec[p].mtime \in Nat \cup {NoMtime}
        /\ rec[p].kind = "link" => rec[p].what \in Data
        /\ rec[Root] # None => rec[Root].kind = "dir"
    BY GivenFacts DEF Typed, Recorded
  <1>4. CASE v = "stamp"
    <2>1. PICK y : y = Stamped(rec[p], loc[p]) OBVIOUS
    <2>2. loc[p] # None /\ loc' = [loc EXCEPT ![p] = y] BY <1>0, <1>1, <1>4, <2>1
    <2>3. y \in Items /\ y.kind = loc[p].kind /\ y.data = loc[p].data
      BY <1>2, <1>3, <2>1, <2>2, StampedItem
    <2>. QED BY <1>0, <2>2, <2>3, ChangedSame
  <1>5. CASE v = "place"
    <2>1. LinkRec(p) /\ p # Root BY <1>1, <1>3, <1>5 DEF LinkRec
    <2>2. LinkAt(rec[p]) \in Items BY <1>3, <2>1, LinkItem DEF LinkRec
    <2>3. ~Blocked(p) /\ loc' = Put(Cleared(p), p, LinkAt(rec[p])) BY <1>5 DEF Writes, Effect
    <2>. QED BY <1>0, <2>1, <2>2, <2>3, PlacedAccounts
  <1>6. CASE v = "dir" /\ IsDir(p)
    <2>1. loc' = loc BY <1>6 DEF Effect
    <2>. QED BY <2>1, UnchangedSame
  <1>7. CASE v = "dir" /\ ~IsDir(p) /\ p # Root
    <2>1. ~Blocked(p) /\ loc' = Put(Cleared(p), p, NewDir) BY <1>7 DEF Writes, Effect, Cleared
    <2>. QED BY <1>0, <1>1, <1>7, <2>1, NewDirItem, PlacedAccounts
  <1>8. CASE v = "dir" /\ ~IsDir(p) /\ p = Root
    <2>1. loc[Root] = None BY <1>0, <1>8 DEF IsDir, Treelike
    <2>2. loc' = Put(loc, Root, NewDir) BY <1>0, <1>8, <2>1 DEF Effect, Cleared
    <2>3. PICK m : m = Put(loc, Root, NewDir) OBVIOUS
    <2>4. Stands(m, Root) /\ Keeps(loc, m, {Root}) /\ Adds(loc, m, {Root})
      BY <1>0, <2>3, PutRoot
    <2>5. \A q \in Paths \ {Root} : loc[q] = None /\ m[q] = None
      BY <1>0, <2>1, <2>4, EmptyTree DEF Adds
    <2>. QED BY <2>1, <2>2, <2>3, <2>4, <2>5 DEF Accounts, Same
  <1>9. CASE v \notin {"stamp", "place", "dir"}
    <2>1. CASE loc' = Repermitted(p) /\ Found(p) # None /\ prep[p] # None
      <3>1. prep[p] \in Modes BY <1>0, <2>1 DEF Typed
      <3>2. PICK y : y = [loc[p] EXCEPT !.mode = prep[p]] OBVIOUS
      <3>3. y \in Items /\ y.kind = loc[p].kind /\ y.data = loc[p].data
        BY <1>0, <1>2, <2>1, <3>1, <3>2, RemodedItem
      <3>4. loc' = [loc EXCEPT ![p] = y] BY <1>0, <2>1, <3>2 DEF Repermitted
      <3>. QED BY <1>0, <2>1, <3>3, <3>4, ChangedSame
    <2>2. CASE loc' = loc BY <2>2, UnchangedSame
    <2>3. loc' = loc \/ loc' = Repermitted(p) BY <1>9 DEF Effect
    <2>4. Found(p) = None \/ prep[p] = None => Repermitted(p) = loc BY DEF Repermitted
    <2>. QED BY <2>1, <2>2, <2>3, <2>4
  <1>. QED BY <1>4, <1>5, <1>6, <1>7, <1>8, <1>9

\* One path's item is removed, and nothing else.
LEMMA VacatedAccounts ==
  ASSUME Treelike(loc), NEW p \in Positions, loc[p] # None, loc[p].kind # "dir",
         NEW m, m = loc', m[p] = None, Keeps(loc, m, {p}), Adds(loc, m, {}), Unmade(p)'
  PROVE  \A q \in Paths : Accounts(q)
  <1>1. \A q \in Paths \ {p} : Same(loc[q], m[q]) BY KeptSame
  <1>. QED BY <1>1 DEF Accounts

LEMMA VetAccounts ==
  ASSUME Unfolded, Inv, Vet
  PROVE  \A q \in Paths : Accounts(q)
  <1>1. CASE loc' = loc BY <1>1, UnchangedSame
  <1>2. CASE \E q \in Positions :
               /\ Found(q) # None /\ Found(q).kind = "link"
               /\ loc'[Disk(q)] = None /\ Keeps(loc, loc', {Disk(q)}) /\ Adds(loc, loc', {})
               /\ phase' = "make" /\ at' = DirKey[q]
    <2>1. PICK p \in Positions :
             /\ Found(p) # None /\ Found(p).kind = "link"
             /\ loc'[Disk(p)] = None /\ Keeps(loc, loc', {Disk(p)}) /\ Adds(loc, loc', {})
             /\ phase' = "make" /\ at' = DirKey[p]
      BY <1>2
    <2>2. p \in Paths /\ Disk(p) = p /\ loc[p] # None /\ loc[p].kind # "dir"
      BY <2>1, UnfoldedIs DEF Positions
    <2>3. Unmade(p)' BY <2>1, <2>2, UnfoldedLater DEF Unmade
    <2>4. Treelike(loc) BY DEF Inv, Typed
    <2>. QED BY <2>1, <2>2, <2>3, <2>4, VacatedAccounts
  <1>. QED BY <1>1, <1>2, VetWrites DEF Inv

LEMMA MakeAccounts ==
  ASSUME Unfolded, Inv, Make
  PROVE  \A q \in Paths : Accounts(q)
  <1>0. Treelike(loc) BY DEF Inv, Typed
  <1>1. CASE loc' = loc BY <1>1, UnchangedSame
  <1>2. CASE loc' # loc
    <2>1. PICK p \in Positions : /\ loc[p] = None /\ Treelike(loc') /\ loc'[p] = NewDir
                                 /\ Keeps(loc, loc', {p}) /\ Adds(loc, loc', {p})
      BY <1>2, MakeWrites DEF Inv
    <2>2. p \in Paths BY DEF Positions
    <2>3. Accounts(p) BY <2>1, NewDirItem DEF Accounts, Stands
    <2>4. ASSUME NEW q \in Paths \ {p} PROVE Accounts(q)
      <3>1. CASE loc[q] = None BY <2>1, <2>4, <3>1 DEF Accounts, Same, Adds
      <3>2. CASE loc[q] # None
        <4>1. loc[q] \in Items /\ Alike(loc[q], loc'[q])
          BY <1>0, <2>1, <2>4, <3>2, SlotItem DEF Treelike, Keeps
        <4>. QED BY <3>2, <4>1, AlikeItem DEF Accounts, Same
      <3>. QED BY <3>1, <3>2
    <2>. QED BY <2>3, <2>4
  <1>. QED BY <1>1, <1>2

LEMMA ClearConflictAccounts ==
  ASSUME Unfolded, Inv, ClearConflict
  PROVE  \A q \in Paths : Accounts(q)
  <1>1. PICK p \in Paths \ {Root} :
           /\ Making(p) /\ DirRec(p) /\ Found(p) # None /\ ~IsDir(p)
           /\ loc'[Disk(p)] = None /\ Keeps(loc, loc', {Disk(p)}) /\ Adds(loc, loc', {})
    BY ClearConflictWrites
  <1>2. Disk(p) = p /\ loc[p] # None /\ loc[p].kind # "dir" /\ loc'[p] = None
    BY <1>1, UnfoldedIs DEF IsDir
  <1>3. p \in Positions BY <1>1 DEF Positions, DirRec, Recorded
  <1>4. Found(p)' = None /\ ~IsDir(p)' BY <1>2, UnfoldedLater DEF IsDir
  <1>5. UNCHANGED <<rec, opts, phase, at, frames, cur, spool>> BY DEF ClearConflict
  <1>6. Making(p)' BY <1>1, <1>4, <1>5, MakingSame
  <1>7. Unmade(p)' BY <1>4, <1>6 DEF Unmade
  <1>8. Treelike(loc) BY DEF Inv, Typed
  <1>. QED BY <1>1, <1>2, <1>3, <1>7, <1>8, VacatedAccounts

LEMMA PrepAccounts ==
  ASSUME Unfolded, Inv, Prep
  PROVE  \A q \in Paths : Accounts(q)
  <1>0. Typed /\ Treelike(loc) BY DEF Inv, Typed
  <1>. SUFFICES ASSUME NEW p \in Paths PROVE Accounts(p) OBVIOUS
  <1>1. loc'[p] = IF p = Root /\ loc[Root] = None THEN NewDir
                  ELSE IF \E q \in Paths : Preppable(q) /\ Disk(q) = p
                  THEN [loc[p] EXCEPT !.mode = Opened[loc[p].mode]] ELSE loc[p]
    BY DEF Prep
  <1>2. CASE p = Root /\ loc[Root] = None
    BY <1>1, <1>2, NewDirItem DEF Accounts, Stands
  <1>3. CASE ~(p = Root /\ loc[Root] = None) /\ \E q \in Paths : Preppable(q) /\ Disk(q) = p
    <2>1. loc[p] # None BY <1>3, UnfoldedIs DEF Preppable
    <2>2. loc[p] \in Items BY <1>0, <2>1, SlotItem DEF Treelike
    <2>3. Opened[loc[p].mode] \in Modes BY <2>2, ItemAssumption DEF Items
    <2>4. loc'[p] = [loc[p] EXCEPT !.mode = Opened[loc[p].mode]] BY <1>1, <1>3
    <2>5. Same(loc[p], loc'[p]) BY <2>1, <2>2, <2>3, <2>4, RemodedItem, NoneIsNoItem DEF Same
    <2>. QED BY <2>5 DEF Accounts
  <1>4. CASE ~(p = Root /\ loc[Root] = None) /\ ~\E q \in Paths : Preppable(q) /\ Disk(q) = p
    BY <1>1, <1>4 DEF Accounts, Same
  <1>. QED BY <1>2, <1>3, <1>4

LEMMA DecideAccounts ==
  ASSUME Unfolded, Inv, Decide
  PROVE  \A q \in Paths : Accounts(q)
  <1>0. Typed /\ Treelike(loc) BY DEF Inv, Typed
  <1>1. PICK p : p = First(Unseen, LeafKey) OBVIOUS
  <1>2. Unseen \in SUBSET (Paths \ {Root}) /\ Unseen # {} BY DEF Unseen, Decide
  <1>3. p \in Unseen /\ p \in Paths \ {Root} BY <1>1, <1>2, FirstIs, TreeAssumption
  <1>4. PICK v : v = Decision1(p) OBVIOUS
  <1>5. loc' = IF v.say = "D" /\ Found(p) # None /\ Found(p).kind = "special"
               THEN Removed(loc, Disk(p)) ELSE loc
    BY <1>1, <1>4 DEF Decide, Decision1
  <1>6. v.say = "D" => obj[p] # None
    <2>. SUFFICES ASSUME obj[p] = None PROVE v.say # "D" OBVIOUS
    <2>1. v = Leave \/ v = Orphan(LeafRec(p)) BY <1>4 DEF Decision1, SyncVerdict
    <2>2. None # "D" BY ItemAssumption
    <2>. QED BY <2>1, <2>2 DEF Orphan, Leave, Says
  <1>7. CASE v.say = "D" /\ Found(p) # None /\ Found(p).kind = "special"
    <2>1. loc[p] # None /\ loc[p].kind = "special" /\ loc' = Removed(loc, p)
      BY <1>3, <1>5, <1>7, UnfoldedIs
    <2>2. PICK m, S : m = Removed(loc, p) /\ S = {q \in Paths : InSubtree(p, q)} OBVIOUS
    <2>3. (\A q \in S : m[q] = None) /\ Keeps(loc, m, S) /\ Adds(loc, m, {})
      BY <1>0, <1>3, <2>1, <2>2, RemovedLeaves
    <2>4. \A q \in S : q # p => loc[q] = None
      <3>1. ~Stands(loc, p) BY <2>1 DEF Stands
      <3>2. Bare(loc, p) BY <1>0, <1>3, <3>1, LeafIsBare
      <3>. QED BY <1>0, <1>3, <2>2, <3>2, NothingIn DEF InSubtree
    <2>5. \A q \in Paths \ {p} : Same(loc[q], m[q])
      <3>1. Keeps(loc, m, {p}) BY <2>3, <2>4 DEF Keeps
      <3>. QED BY <1>0, <2>3, <3>1, KeptSame
    <2>6. p \in S BY <1>3, <2>2 DEF InSubtree
    <2>7. Accounts(p) BY <1>6, <1>7, <2>1, <2>2, <2>3, <2>6 DEF Accounts, Stands
    <2>. QED BY <2>1, <2>2, <2>5, <2>7 DEF Accounts
  <1>8. CASE ~(v.say = "D" /\ Found(p) # None /\ Found(p).kind = "special")
    BY <1>5, <1>8, UnchangedSame
  <1>. QED BY <1>7, <1>8

LEMMA LandAccounts ==
  ASSUME Unfolded, Inv, NEW p \in Paths, Land(p)
  PROVE  \A q \in Paths : Accounts(q)
  <1>0. Typed /\ Treelike(loc) /\ Disk(p) = p /\ Found(p) = loc[p] BY UnfoldedIs DEF Inv, Typed
  <1>1. CASE loc' = loc BY <1>1, UnchangedSame
  <1>2. CASE /\ Treelike(loc') /\ Keeps(loc, loc', {Disk(p)}) /\ Adds(loc, loc', Above[p] \cup {Disk(p)})
             /\ ~IsDir(p) /\ obj[p] # None
             /\ loc'[Disk(p)] = [kind |-> "file", data |-> obj[p], mtime |-> Uploaded, mode |-> Umask]
    <2>1. loc'[p].data = obj[p] /\ ~Stands(loc, p) BY <1>0, <1>2 DEF IsDir, Stands
    <2>2. loc'[p] # None
      <3>1. obj[p] \in Data BY <1>0, <1>2, GivenFacts DEF Typed
      <3>2. loc'[p] \in Items BY <1>0, <1>2, <3>1, ItemAssumption DEF Items, Kinds
      <3>. QED BY <3>2, NoneIsNoItem
    <2>3. Accounts(p) BY <1>0, <1>2, <2>1, <2>2 DEF Accounts
    <2>4. ASSUME NEW q \in Paths \ {p} PROVE Accounts(q)
      <3>1. q \in Paths \ ({p} \cup {p}) OBVIOUS
      <3>2. Same(loc[q], loc'[q]) \/ (q \in Above[p] /\ loc[q] = None /\ Stands(loc', q))
        BY <1>0, <1>2, <2>2, <3>1, MadeAbove
      <3>. QED BY <1>2, <3>2 DEF Accounts, Beneath
    <2>. QED BY <2>3, <2>4
  <1>. QED BY <1>0, <1>1, <1>2, LandWrites

LEMMA SettleAccounts ==
  ASSUME Unfolded, Typed, NEW p \in Paths, DirRec(p), NEW ordered, Settle(p, ordered)
  PROVE  \A q \in Paths : Accounts(q)
  <1>1. CASE loc' = loc BY <1>1, UnchangedSame
  <1>2. CASE Stands(loc, p) /\ loc' = [loc EXCEPT ![p] = Stamped(rec[p], loc[p])]
    <2>1. loc[p] \in Items /\ loc[p] # None BY <1>2, SlotItem DEF Typed, Treelike, Stands
    <2>2. rec[p].mode \in Modes /\ rec[p].mtime \in Nat \cup {NoMtime}
      BY GivenFacts DEF Typed, DirRec
    <2>3. PICK y : y = Stamped(rec[p], loc[p]) OBVIOUS
    <2>4. y \in Items /\ y.kind = loc[p].kind /\ y.data = loc[p].data
      BY <2>1, <2>2, <2>3, StampedItem
    <2>. QED BY <1>2, <2>1, <2>3, <2>4, ChangedSame DEF Typed
  <1>3. Disk(p) = p /\ Found(p) = loc[p] /\ (IsDir(p) <=> Stands(loc, p))
    BY UnfoldedIs DEF IsDir, Stands
  <1>. QED BY <1>1, <1>2, <1>3, SettleWrites

LEMMA RemovedBare ==
  ASSUME Treelike(loc), NEW p \in Paths \ {Root}, loc[p] # None,
         \A c \in Paths \ {p} : Up[c] = p => loc[c] = None, NEW m, m = Removed(loc, p)
  PROVE  m[p] = None /\ Keeps(loc, m, {p}) /\ Adds(loc, m, {})
  <1>1. PICK S : S = {q \in Paths : InSubtree(p, q)} OBVIOUS
  <1>2. (\A q \in S : m[q] = None) /\ Keeps(loc, m, S) /\ Adds(loc, m, {})
    BY <1>1, RemovedLeaves
  <1>3. Bare(loc, p)
    <2>1. \A c \in Paths \ {Root} : Up[c] = p => c # p BY AboveTypes, AboveKey
    <2>. QED BY <2>1 DEF Bare
  <1>4. \A q \in S : q # p => loc[q] = None BY <1>1, <1>3, NothingIn DEF InSubtree
  <1>. QED BY <1>1, <1>2, <1>4 DEF Keeps, InSubtree

\* What remove_extras may ask about: no record vouches for it.
Removable(p) ==
  /\ KeyAs(p, loc[p].kind) \notin opts.excluded /\ Free(p)
  /\ p \in Recorded => loc[p].kind # "dir"

LEMMA JudgeAccounts ==
  ASSUME Unfolded, Inv, NEW p \in Paths \ {Root}, loc[p] # None, Removable(p), NEW rest, Judge(p, rest)
  PROVE  (\A q \in Paths : Accounts(q)) /\ gone \subseteq gone' /\ asked \subseteq asked'
  <1>0. Typed /\ Treelike(loc) BY DEF Inv, Typed
  <1>1. gone \subseteq gone' /\ asked \subseteq asked' BY DEF Judge
  <1>2. CASE loc' = loc BY <1>1, <1>2, UnchangedSame
  <1>3. CASE loc' = GivenBack(loc) BY <1>0, <1>1, <1>3, GivenBackSame
  <1>4. CASE /\ \A c \in Paths \ {p} : Up[c] = p => loc[c] = None
             /\ loc' = Removed(loc, p) /\ gone' = gone \cup {p} /\ asked' = asked \cup {p}
    <2>1. PICK m : m = Removed(loc, p) OBVIOUS
    <2>2. m[p] = None /\ Keeps(loc, m, {p}) /\ Adds(loc, m, {}) BY <1>0, <1>4, <2>1, RemovedBare
    <2>3. \A q \in Paths \ {p} : Same(loc[q], m[q]) BY <1>0, <2>2, KeptSame
    <2>4. Accounts(p) BY <1>4, <2>1, <2>2 DEF Accounts, Removable
    <2>. QED BY <1>1, <1>4, <2>1, <2>3, <2>4 DEF Accounts
  <1>5. \/ loc' = loc \/ loc' = GivenBack(loc)
        \/ /\ \A c \in Paths \ {p} : Up[c] = p => loc[c] = None
           /\ loc' = Removed(loc, p) /\ gone' = gone \cup {p} /\ asked' = asked \cup {p}
    BY DEF Judge, Finish
  <1>. QED BY <1>2, <1>3, <1>4, <1>5

LEMMA EntryPaths ==
  ASSUME NEW s \in Seq(Entries), NEW n \in 1..Len(s)
  PROVE  s[n].path \in Paths
  <1>1. s[n] \in Entries OBVIOUS
  <1>. QED BY <1>1 DEF Entries

LEMMA OpenEntries == Inv => open \in Seq(Entries)
  BY DEF Inv, Typed

LEMMA LooseSame ==
  ASSUME UNCHANGED <<rec, obj, opts, orig>>, NEW s \in Seq(Entries), open' = s, \A n \in 1..Len(s) : Loose(s[n].path)
  PROVE  OpenLoose'
  <1>1. \A n \in 1..Len(s) : Loose(s[n].path)' BY EntryPaths, SameWorld
  <1>. QED BY <1>1 DEF OpenLoose

\* What remove_extras closes: the innermost of its directories, which no record
\* vouches for; the others stay open.
LEMMA ClosingIs ==
  ASSUME Inv, OpenLoose, CloseExtra, NEW p, p = Innermost.path, NEW f, f = Front(open)
  PROVE  /\ phase = "extras" /\ opts.delete # "no" /\ UNCHANGED <<rec, obj, opts, orig>>
         /\ p \in Paths \ {Root} /\ Stands(loc, p) /\ Loose(p) /\ loc[p] # None /\ Removable(p)
         /\ f \in Seq(Entries)
         /\ \A n \in 1..Len(f) : /\ n \in 1..Len(open) /\ f[n] = open[n] /\ f[n].path \in Above[p]
                                  /\ f[n].path \in Paths /\ Loose(f[n].path)
         /\ \A n \in 1..Len(open) : n \in 1..Len(f) \/ open[n] = Innermost
  <1>1. phase = "extras" /\ open # <<>> /\ UNCHANGED <<rec, obj, opts, orig>> BY DEF CloseExtra, world
  <1>2. /\ open \in Seq(Entries) /\ Len(open) \in 1..Len(open) /\ opts.delete # "no"
        /\ \A n \in 1..Len(open) : open[n].path \in Paths \ {Root} /\ Stands(loc, open[n].path)
        /\ \A m, n \in 1..Len(open) : m < n => open[m].path \in Above[open[n].path]
    BY <1>1, OpenIs
  <1>3. f \in Seq(Entries) /\ Len(f) = Len(open) - 1 /\ \A n \in 1..Len(open) - 1 : f[n] = open[n]
    BY <1>1, <1>2, FrontIs
  <1>4. \A n \in 1..Len(f) : n \in 1..Len(open) /\ n < Len(open) /\ f[n] = open[n]
    BY <1>2, <1>3
  <1>5. p \in Paths \ {Root} /\ Stands(loc, p) /\ Loose(p)
    BY <1>2 DEF Innermost, OpenLoose
  <1>6. loc[p] # None /\ Removable(p) BY <1>5 DEF Stands, Loose, Removable, KeyAs
  <1>7. \A n \in 1..Len(f) : f[n].path \in Above[p] /\ f[n].path \in Paths /\ Loose(f[n].path)
    BY <1>2, <1>4 DEF Innermost, OpenLoose
  <1>8. \A n \in 1..Len(open) : n \in 1..Len(f) \/ n = Len(open) BY <1>2, <1>3
  <1>. QED BY <1>1, <1>2, <1>3, <1>4, <1>5, <1>6, <1>7, <1>8 DEF Innermost

LEMMA JudgeLoose ==
  ASSUME Inv, OpenLoose, UNCHANGED <<rec, obj, opts, orig>>, NEW p, NEW rest \in Seq(Entries),
         \A n \in 1..Len(rest) : Loose(rest[n].path), Judge(p, rest)
  PROVE  OpenLoose'
  <1>1. PICK t : t = Pinned(rest) OBVIOUS
  <1>2. t \in Seq(Entries) /\ Len(t) = Len(rest) /\ \A n \in 1..Len(rest) : t[n].path = rest[n].path
    BY <1>1, PinnedIs
  <1>3. CASE open' = rest BY <1>3, LooseSame
  <1>4. CASE open' = t BY <1>2, <1>4, LooseSame
  <1>5. CASE open' = open BY <1>5, OpenEntries, LooseSame DEF OpenLoose
  <1>6. open' = rest \/ open' = Pinned(rest) \/ open' = open BY DEF Judge
  <1>. QED BY <1>1, <1>3, <1>4, <1>5, <1>6

\* No record vouches for what remove_extras takes for an extra.
LEMMA ExtraFree ==
  ASSUME Inv, NEW p \in Paths, Shown(p), Extra(p)
  PROVE  Removable(p) /\ (loc[p].kind = "dir" => Loose(p))
  <1>1. Treelike(loc) /\ loc[p] # None /\ KeyAs(p, loc[p].kind) \notin opts.excluded
    BY DEF Inv, Typed, Shown
  <1>2. ASSUME NEW b \in Nondirs, InSubtree(b, p) PROVE FALSE
    <2>1. Paired(b) BY <1>2 DEF Extra, Covered
    <2>2. b # p BY <2>1 DEF Extra
    <2>3. b \in Above[p] BY <1>2, <2>2 DEF InSubtree
    <2>4. Stands(loc, b) BY <1>1, <2>3, AncestorsStand
    <2>. QED BY <2>1, <2>4 DEF Paired, Stands, Nondirs
  <1>3. p \in Recorded => loc[p].kind # "dir"
    <2>. SUFFICES ASSUME p \in Recorded, loc[p].kind = "dir" PROVE FALSE OBVIOUS
    <2>1. p \notin Nondirs BY <1>2 DEF InSubtree
    <2>2. rec[p].kind = "dir" BY <2>1 DEF Nondirs
    <2>. QED BY <2>2 DEF Extra, Paired
  <1>. QED BY <1>1, <1>2, <1>3 DEF Removable, Loose, Free, KeyAs

LEMMA PruneLoose ==
  ASSUME Inv, OpenLoose, Prune
  PROVE  OpenLoose'
  <1>1. PICK p : p = NextLocal OBVIOUS
  <1>2. p \in Paths /\ Shown(p) BY <1>1, NextLocalIs DEF Prune
  <1>3. UNCHANGED <<rec, obj, opts, orig>> /\ open \in Seq(Entries) BY OpenEntries DEF Prune, world
  <1>4. CASE (~Extra(p) \/ loc[p].kind = "dir") /\ Extra(p)
    <2>1. PICK e : e = [path |-> p, kept |-> FALSE] OBVIOUS
    <2>2. PICK t : t = Append(open, e) OBVIOUS
    <2>3. open' = t BY <1>1, <1>4, <2>1, <2>2 DEF Prune
    <2>4. Loose(p) /\ e.path = p BY <1>2, <1>4, <2>1, ExtraFree
    <2>5. \A n \in 1..Len(t) : t[n] = e \/ (n \in 1..Len(open) /\ t[n] = open[n])
      BY <1>2, <1>3, <2>1, <2>2 DEF Entries
    <2>6. t \in Seq(Entries) BY <1>2, <1>3, <2>1, <2>2 DEF Entries
    <2>7. \A n \in 1..Len(t) : Loose(t[n].path) BY <2>4, <2>5 DEF OpenLoose
    <2>. QED BY <1>3, <2>3, <2>6, <2>7, LooseSame
  <1>5. CASE (~Extra(p) \/ loc[p].kind = "dir") /\ ~Extra(p)
    <2>1. PICK t : t = Pinned(open) OBVIOUS
    <2>2. t \in Seq(Entries) /\ Len(t) = Len(open) /\ \A n \in 1..Len(open) : t[n].path = open[n].path
      BY <1>3, <2>1, PinnedIs
    <2>3. open' = t BY <1>1, <1>5, <2>1 DEF Prune
    <2>. QED BY <1>3, <2>2, <2>3, LooseSame DEF OpenLoose
  <1>6. CASE ~(~Extra(p) \/ loc[p].kind = "dir")
    <2>1. Judge(p, open) BY <1>1, <1>6 DEF Prune
    <2>. QED BY <1>3, <2>1, JudgeLoose DEF OpenLoose
  <1>. QED BY <1>4, <1>5, <1>6

LEMMA CloseExtraLoose ==
  ASSUME Inv, OpenLoose, CloseExtra
  PROVE  OpenLoose'
  <1>1. PICK p, f : p = Innermost.path /\ f = Front(open) OBVIOUS
  <1>2. /\ UNCHANGED <<rec, obj, opts, orig>> /\ f \in Seq(Entries)
        /\ \A n \in 1..Len(f) : Loose(f[n].path)
    BY <1>1, ClosingIs
  <1>3. open' = f \/ Judge(p, f) BY <1>1 DEF CloseExtra
  <1>. QED BY <1>2, <1>3, LooseSame, JudgeLoose

LEMMA LooseStep == Inv /\ OpenLoose /\ [Next]_vars => OpenLoose'
  <1>. SUFFICES ASSUME Inv, OpenLoose, [Next]_vars PROVE OpenLoose' OBVIOUS
  <1>1. CASE UNCHANGED <<rec, obj, opts, orig, open>> BY <1>1, OpenEntries, LooseSame DEF OpenLoose
  <1>2. CASE CloseExtra BY <1>2, CloseExtraLoose
  <1>3. CASE Prune BY <1>3, PruneLoose
  <1>4. CASE Again BY <1>4 DEF Again, OpenLoose
  <1>5. CASE \/ Start \/ Vet \/ Make \/ Prep \/ Decide \/ (\E p \in Paths : Land(p)) \/ Synced
    BY <1>1, <1>5 DEF Start, Vet, Make, Prep, Decide, Land, Synced, world, pruning
  <1>6. CASE PopFrame \/ ClearConflict \/ Apply \/ SkipExcluded \/ ApplyFails
    BY <1>1, <1>6 DEF PopFrame, ClearConflict, Apply, SkipExcluded, ApplyFails, Abort, NextLine, world, pruning
  <1>7. CASE Streamed \/ Place \/ Resettle \/ Applied \/ Pruned \/ Cut
    BY <1>1, <1>7 DEF Streamed, Place, Abort, Resettle, Applied, Pruned, Cut, world, pruning
  <1>8. CASE UNCHANGED vars BY <1>1, <1>8 DEF vars, world, pruning
  <1>. QED BY <1>2, <1>3, <1>4, <1>5, <1>6, <1>7, <1>8 DEF Next

LEMMA WeighedAfter ==
  ASSUME Unfolded, Inv, Weighed, [Next]_vars, ~Again, UNCHANGED <<rec, obj, opts, orig>>,
         \A p \in Paths : Accounts(p), gone \subseteq gone', asked \subseteq asked'
  PROVE  Weighed'
  <1>1. ASSUME NEW p \in Paths PROVE Explained(p)'
    <2>1. Explained(p) /\ Accounts(p) BY DEF Weighed
    <2>2. p \in Positions /\ Unmade(p) /\ loc'[p] = None => Unmade(p)' BY UnmadeStays
    <2>. QED BY <2>1, <2>2, Carried
  <1>. QED BY <1>1 DEF Weighed

LEMMA PlainWeighed ==
  ASSUME Unfolded, Inv, Weighed, [Next]_vars, ~Again,
         Start \/ Synced \/ SkipExcluded \/ ApplyFails \/ Streamed \/ Applied \/ Pruned \/ Cut
  PROVE  Weighed'
  <1>1. UNCHANGED <<rec, obj, opts, orig, gone, asked>>
    <2>1. Start \/ Synced \/ SkipExcluded => UNCHANGED <<rec, obj, opts, orig, gone, asked>>
      BY DEF Start, Synced, SkipExcluded, NextLine, world, pruning
    <2>2. ApplyFails => UNCHANGED <<rec, obj, opts, orig, gone, asked>>
      BY DEF ApplyFails, Abort, NextLine, world, pruning
    <2>3. Streamed \/ Applied \/ Pruned \/ Cut => UNCHANGED <<rec, obj, opts, orig, gone, asked>>
      BY DEF Streamed, Applied, Pruned, Cut, world, pruning
    <2>. QED BY <2>1, <2>2, <2>3
  <1>2. loc' = loc \/ loc' = GivenBack(loc)
    <2>1. Start \/ Synced \/ SkipExcluded => loc' = loc \/ loc' = GivenBack(loc)
      BY DEF Start, Synced, SkipExcluded, Finish
    <2>2. ApplyFails => loc' = loc \/ loc' = GivenBack(loc) BY DEF ApplyFails, Abort, Finish
    <2>3. Streamed \/ Applied \/ Pruned \/ Cut => loc' = loc \/ loc' = GivenBack(loc)
      BY DEF Streamed, Applied, Pruned, Cut, Finish
    <2>. QED BY <2>1, <2>2, <2>3
  <1>3. \A q \in Paths : Accounts(q) BY <1>2, UnchangedSame, GivenBackSame DEF Inv
  <1>. QED BY <1>1, <1>3, WeighedAfter

LEMMA SyncWeighed ==
  ASSUME Unfolded, Inv, Weighed, [Next]_vars, ~Again,
         Vet \/ Make \/ Prep \/ Decide \/ (\E p \in Paths : Land(p)) \/ ClearConflict
  PROVE  Weighed'
  <1>1. \A q \in Paths : Accounts(q)
    BY VetAccounts, MakeAccounts, PrepAccounts, DecideAccounts, LandAccounts, ClearConflictAccounts
  <1>2. UNCHANGED <<rec, obj, opts, orig, gone, asked>>
    BY DEF Vet, Make, Prep, Decide, Land, ClearConflict, world, pruning
  <1>. QED BY <1>1, <1>2, WeighedAfter

LEMMA ApplyWeighed ==
  ASSUME Unfolded, Inv, Weighed, [Next]_vars, ~Again, Apply
  PROVE  Weighed'
  <1>1. PICK p : p = NextRecord OBVIOUS
  <1>2. AtRecord /\ p \in Recorded /\ p \in Paths BY <1>1, AtRecordIs DEF Apply
  <1>3. PICK d : d = Decision(RecKey(p)) OBVIOUS
  <1>4. PICK v : v = VerdictOn(p, d) OBVIOUS
  <1>5. (Writes(p, v) => ~Blocked(p)) /\ loc' = Effect(p, v, d) BY <1>1, <1>3, <1>4 DEF Apply
  <1>8. v = "dir" /\ ~IsDir(p) => Found(p) = None BY <1>1, <1>3, <1>4, ApplyMakes
  <1>6. \A q \in Paths : Accounts(q) BY <1>2, <1>4, <1>5, <1>8, EffectAccounts DEF Inv
  <1>7. UNCHANGED <<rec, obj, opts, orig, gone, asked>> BY DEF Apply, NextLine, world, pruning
  <1>. QED BY <1>6, <1>7, WeighedAfter

LEMMA PopFrameWeighed ==
  ASSUME Unfolded, Inv, Weighed, [Next]_vars, ~Again, PopFrame
  PROVE  Weighed'
  <1>1. Top.path \in Paths /\ DirRec(Top.path) BY TopIs DEF PopFrame
  <1>2. UNCHANGED <<rec, obj, opts, orig, gone, asked>> BY DEF PopFrame, world, pruning
  <1>3. loc' = loc \/ Settle(Top.path, opts.update /\ ~Top.dirty) BY DEF PopFrame
  <1>4. \A q \in Paths : Accounts(q) BY <1>1, <1>3, UnchangedSame, SettleAccounts DEF Inv
  <1>. QED BY <1>2, <1>4, WeighedAfter

LEMMA PlaceWeighed ==
  ASSUME Unfolded, Inv, Weighed, [Next]_vars, ~Again, Place
  PROVE  Weighed'
  <1>1. UNCHANGED <<rec, obj, opts, orig, gone, asked>> BY DEF Place, Abort, world, pruning
  <1>2. PICK p : p = Head(deferred) OBVIOUS
  <1>3. p \in Paths /\ LinkRec(p)
    <2>1. deferred \in Seq(Paths) /\ deferred # <<>> BY DEF Inv, Typed, Place
    <2>2. 1 \in 1..Len(deferred) /\ Head(deferred) = deferred[1] /\ deferred[1] \in Paths BY <2>1
    <2>. QED BY <1>2, <2>2 DEF Inv, LastFits
  <1>4. \/ loc' = GivenBack(loc)
        \/ ~Blocked(p) /\ loc' = Put(Cleared(p), p, LinkAt(rec[p]))
    BY <1>2 DEF Place, Abort, Finish
  <1>5. p \in Recorded \ {Root} /\ LinkAt(rec[p]) \in Items
    <2>1. /\ rec[p].mtime \in Nat \cup {NoMtime} /\ rec[p].what \in Data
          /\ rec[Root] # None => rec[Root].kind = "dir"
      BY <1>3, GivenFacts DEF Inv, Typed, LinkRec
    <2>. QED BY <1>3, <2>1, LinkItem DEF LinkRec, Recorded
  <1>6. \A q \in Paths : Accounts(q) BY <1>3, <1>4, <1>5, GivenBackSame, PlacedAccounts DEF Inv, Typed
  <1>. QED BY <1>1, <1>6, WeighedAfter

LEMMA ResettleWeighed ==
  ASSUME Unfolded, Inv, Weighed, [Next]_vars, ~Again, Resettle
  PROVE  Weighed'
  <1>1. UNCHANGED <<rec, obj, opts, orig, gone, asked>> BY DEF Resettle, world, pruning
  <1>2. post \in SUBSET Paths /\ post # {} /\ \A p \in post : DirRec(p)
    BY DEF Resettle, Inv, Typed, LastFits
  <1>3. PICK p : p = CHOOSE x \in post : \A q \in post : DirKey[q] <= DirKey[x] OBVIOUS
  <1>4. p \in post BY <1>2, <1>3, GreatestKey
  <1>5. Settle(p, FALSE) BY <1>3 DEF Resettle
  <1>6. \A q \in Paths : Accounts(q) BY <1>2, <1>4, <1>5, SettleAccounts DEF Inv
  <1>. QED BY <1>1, <1>6, WeighedAfter

LEMMA ExtrasWeighed ==
  ASSUME Unfolded, Inv, OpenLoose, Weighed, [Next]_vars, ~Again, CloseExtra \/ Prune
  PROVE  Weighed'
  <1>1. CASE CloseExtra
    <2>1. PICK p, f : p = Innermost.path /\ f = Front(open) OBVIOUS
    <2>2. /\ UNCHANGED <<rec, obj, opts, orig>> /\ p \in Paths \ {Root}
          /\ loc[p] # None /\ Removable(p)
      BY <1>1, <2>1, ClosingIs
    <2>3. UNCHANGED <<loc, gone, asked>> \/ Judge(p, f) BY <1>1, <2>1 DEF CloseExtra
    <2>. QED BY <2>2, <2>3, UnchangedSame, JudgeAccounts, WeighedAfter
  <1>2. CASE Prune
    <2>1. PICK p : p = NextLocal OBVIOUS
    <2>2. p \in Paths \ {Root} /\ loc[p] # None /\ Shown(p) BY <1>2, <2>1, NextLocalIs DEF Prune
    <2>3. UNCHANGED <<rec, obj, opts, orig>> BY <1>2 DEF Prune, world
    <2>4. UNCHANGED <<loc, gone, asked>> \/ (Extra(p) /\ Judge(p, open)) BY <1>2, <2>1 DEF Prune
    <2>5. Extra(p) => Removable(p) BY <2>2, ExtraFree
    <2>. QED BY <2>2, <2>3, <2>4, <2>5, UnchangedSame, JudgeAccounts, WeighedAfter
  <1>. QED BY <1>1, <1>2

LEMMA FreshWeighed ==
  ASSUME loc = orig
  PROVE  Weighed
  BY DEF Weighed, Explained, Replaced

LEMMA AgainWeighed == Again => Weighed'
  <1>. SUFFICES ASSUME Again PROVE Weighed' OBVIOUS
  <1>1. loc' = orig' BY DEF Again
  <1>. QED BY <1>1 DEF Weighed, Explained, Replaced

LEMMA WeighedStep == Unfolded /\ Inv /\ OpenLoose /\ Weighed /\ [Next]_vars => Weighed'
  <1>. SUFFICES ASSUME Unfolded, Inv, OpenLoose, Weighed, [Next]_vars PROVE Weighed' OBVIOUS
  <1>6. CASE Again BY <1>6, AgainWeighed
  <1>. SUFFICES ASSUME ~Again PROVE Weighed' BY <1>6
  <1>1. CASE UNCHANGED vars
    <2>1. UNCHANGED <<rec, obj, opts, orig, loc, gone, asked>>
      BY <1>1 DEF vars, world, pruning
    <2>. QED BY <2>1, UnchangedSame, WeighedAfter
  <1>2. CASE Start \/ Synced \/ SkipExcluded \/ ApplyFails \/ Streamed \/ Applied \/ Pruned \/ Cut
    BY <1>2, PlainWeighed
  <1>3. CASE Vet \/ Make \/ Prep \/ Decide \/ (\E p \in Paths : Land(p)) \/ ClearConflict
    BY <1>3, SyncWeighed
  <1>4. CASE PopFrame \/ Apply \/ Place \/ Resettle
    BY <1>4, PopFrameWeighed, ApplyWeighed, PlaceWeighed, ResettleWeighed
  <1>5. CASE CloseExtra \/ Prune BY <1>5, ExtrasWeighed
  <1>. QED BY <1>1, <1>2, <1>3, <1>4, <1>5 DEF Next

LEMMA LooseHolds == Spec => [](Inv /\ OpenLoose)
  <1>1. Init => Inv /\ OpenLoose
    <2>1. Init => open = <<>> BY DEF Init, Fresh
    <2>. QED BY <2>1, InitInv DEF OpenLoose
  <1>2. (Inv /\ OpenLoose) /\ [Next]_vars => (Inv /\ OpenLoose)' BY InvStep, LooseStep
  <1>. QED BY <1>1, <1>2, PTL DEF Spec

LEMMA WeighedHolds == ASSUME Unfolded PROVE Spec => [](Inv /\ Weighed)
  <1>1. Init => Weighed
    <2>1. Init => loc = orig BY DEF Init
    <2>. QED BY <2>1, FreshWeighed
  <1>2. Unfolded /\ (Inv /\ OpenLoose) /\ Weighed /\ [Next]_vars => Weighed' BY WeighedStep
  <1>3. Unfolded OBVIOUS
  <1>. QED BY <1>1, <1>2, <1>3, LooseHolds, PTL DEF Spec

LEMMA WeighedExplains ==
  ASSUME Unfolded, Inv, Weighed
  PROVE  LossesExplained
  <1>. SUFFICES ASSUME NEW p \in Paths, orig[p] # None, Replaced(p)
                PROVE  \/ p \in gone /\ p \in asked /\ ~Vouched(p) /\ KeyAs(p, orig[p].kind) \notin opts.excluded
                       \/ \E q \in Named(p), b \in Nondirs : InSubtree(b, q) /\ rec[b].kind = "link"
                       \/ \E q \in Named(p) :
                            /\ q \in Positions
                            /\ IsDir(q) \/ q \in gone \/ (orig[p].kind # "dir" /\ Unmade(q))
                       \/ \E q \in Named(p) :
                            /\ orig[p].kind # "dir" /\ obj[q] # None
                            /\ \/ Found(q) = None /\ (orig[p].kind = "special" \/ q \in gone)
                               \/ Found(q) # None /\ Found(q).kind = "file" /\ Found(q).data = obj[q]
                               \/ IsDir(q) /\ \E x \in Beneath(q) : obj[x] # None
    BY DEF LossesExplained
  <1>1. p \in Named(p) /\ Found(p) = loc[p] /\ (IsDir(p) <=> Stands(loc, p))
    BY UnfoldedIs DEF IsDir, Stands
  <1>2. ByRemoval(p) \/ ByLink(p) \/ ByDir(p) \/ ByUnmade(p) \/ ByObject(p)
    BY DEF Weighed, Explained
  <1>. QED BY <1>1, <1>2 DEF ByRemoval, ByLink, ByDir, ByUnmade, ByObject

\* Where the filesystem folds no names, whatever the local tree lost to a pull
\* - at any moment of it, cut off and run again, with any option - was replaced
\* by a record or an object, or was an extra nothing vouched for (vet, sync,
\* apply, remove_extras).
THEOREM LossesAreExplained ==
  ASSUME Unfolded
  PROVE  Spec => []LossesExplained
  <1>1. Unfolded /\ (Inv /\ Weighed) => LossesExplained BY WeighedExplains
  <1>2. Unfolded OBVIOUS
  <1>. QED BY <1>1, <1>2, WeighedHolds, PTL

-----------------------------------------------------------------------------
(* What a mirroring pull leaves behind.                                    *)

SparedIn(l, q) ==
  \/ q \in Recorded \/ KeyAs(q, l[q].kind) \in opts.excluded
  \/ \E b \in Nondirs : InSubtree(b, q)
  \/ \E x \in Recorded : Twin[x] = q
Held(l, p) == p = Root \/ \E q \in Paths : InSubtree(p, q) /\ l[q] # None /\ SparedIn(l, q)
AllHeld(l) == \A p \in Paths : l[p] # None => Held(l, p)
\* ... apart from the directory to be made at p, and those above it.
HeldBut(l, p) == \A x \in Paths : l[x] # None => Held(l, x) \/ InSubtree(x, p)

\* Over the tree l, with s open and the stream at k: what remove_extras has
\* left standing is spared, or holds such a thing, or is still open.
Sifted(l, s, k) ==
  /\ \A p \in Paths : l[p] # None =>
       Held(l, p) \/ KeyAs(p, l[p].kind) >= k \/ \E n \in 1..Len(s) : s[n].path = p
  /\ \A n \in 1..Len(s) : s[n].kept => Held(l, s[n].path)

Mirrored ==
  /\ phase = "start" => at = 0
  /\ phase \in {"start", "vet", "make", "prep", "sync"} => pass = 1
  /\ opts.delete = "yes" =>
       /\ phase = "extras" /\ ~bad => Sifted(loc, open, at)
       /\ phase \in {"apply", "place"} /\ pass = 2 /\ ~bad =>
            AllHeld(loc) \/ \E p \in Paths : Making(p) /\ HeldBut(loc, p)
       /\ phase = "done" /\ status = "ok" => AllHeld(loc)

\* Of two directories above one path, one lies in the other.
LEMMA Related ==
  ASSUME NEW p \in Paths, NEW a \in Above[p], NEW b \in Above[p]
  PROVE  a = b \/ a \in Above[b] \/ b \in Above[a]
  <1>1. p \in Paths \ {Root} /\ a \in Paths /\ b \in Paths BY AboveKey
  <1>2. PICK S : S = {x \in Paths : x = b \/ x \in Above[b] \/ b \in Above[x]} OBVIOUS
  <1>3. Up[p] \in S
    <2>1. Up[p] \in Paths /\ Above[p] = {Up[p]} \cup Above[Up[p]] BY <1>1, AboveUp, TreeAssumption
    <2>. QED BY <1>2, <2>1
  <1>4. Closed(S)
    <2>. SUFFICES ASSUME NEW x \in S PROVE Up[x] \in S BY DEF Closed
    <2>1. x \in Paths /\ Up[x] \in Paths BY <1>2, TreeAssumption
    <2>2. CASE x = b /\ b = Root BY <1>2, <2>1, <2>2, TreeAssumption
    <2>3. CASE x = b /\ b # Root BY <1>1, <1>2, <2>1, <2>3, AboveTypes
    <2>4. CASE x \in Above[b] BY <1>1, <1>2, <2>1, <2>4, AboveTypes DEF Closed
    <2>5. CASE b \in Above[x]
      <3>1. Above[x] = {Up[x]} \cup Above[Up[x]] BY <2>1, <2>5, AboveKey, AboveUp
      <3>. QED BY <1>2, <2>1, <2>5, <3>1
    <2>. QED BY <1>2, <2>2, <2>3, <2>4, <2>5
  <1>5. S \in SUBSET Paths BY <1>2
  <1>6. Above[p] \subseteq S BY <1>1, <1>3, <1>4, <1>5, AboveLeast
  <1>. QED BY <1>2, <1>6

LEMMA StillHeld ==
  ASSUME NEW l, NEW m, NEW p \in Paths, Held(l, p),
         \A q \in Paths : InSubtree(p, q) /\ l[q] # None /\ SparedIn(l, q)
                          => m[q] # None /\ m[q].kind = l[q].kind
  PROVE  Held(m, p)
  <1>1. CASE p = Root BY <1>1 DEF Held
  <1>2. CASE p # Root
    <2>1. PICK q \in Paths : InSubtree(p, q) /\ l[q] # None /\ SparedIn(l, q) BY <1>2 DEF Held
    <2>2. m[q] # None /\ m[q].kind = l[q].kind BY <2>1
    <2>3. SparedIn(m, q) BY <2>1, <2>2 DEF SparedIn
    <2>. QED BY <2>1, <2>2, <2>3 DEF Held
  <1>. QED BY <1>1, <1>2

LEMMA KindsHeld ==
  ASSUME NEW l, NEW m, AllHeld(l),
         \A p \in Paths : IF l[p] = None THEN m[p] = None ELSE m[p] # None /\ m[p].kind = l[p].kind
  PROVE  AllHeld(m)
  <1>. SUFFICES ASSUME NEW p \in Paths, m[p] # None PROVE Held(m, p) BY DEF AllHeld
  <1>1. l[p] # None /\ Held(l, p) BY DEF AllHeld
  <1>2. \A q \in Paths : l[q] # None => m[q] # None /\ m[q].kind = l[q].kind OBVIOUS
  <1>. QED BY <1>1, <1>2, StillHeld

LEMMA ChangedHeld ==
  ASSUME NEW l, Treelike(l), AllHeld(l), NEW p \in Paths, l[p] # None,
         NEW y \in Items, y.kind = l[p].kind, NEW m, m = [l EXCEPT ![p] = y]
  PROVE  AllHeld(m)
  <1>1. \A q \in Paths : m[q] = IF q = p THEN y ELSE l[q] BY DEF Treelike
  <1>2. \A q \in Paths : IF l[q] = None THEN m[q] = None ELSE m[q] # None /\ m[q].kind = l[q].kind
    BY <1>1, NoneIsNoItem
  <1>. QED BY <1>2, KindsHeld

LEMMA PlacedHeld ==
  ASSUME Treelike(loc), NEW p \in Recorded \ {Root}, HeldBut(loc, p), ~Blocked(p),
         NEW item \in Items, NEW m, m = Put(Cleared(p), p, item)
  PROVE  AllHeld(m)
  <1>0. p \in Paths \ {Root} BY DEF Recorded
  <1>1. PICK c, d : c = Cleared(p) /\ d = Disk(p) OBVIOUS
  <1>2. Treelike(c) /\ c[p] = None /\ Clear(c, p) /\ Keeps(loc, c, Swept(p)) /\ Adds(loc, c, {})
    BY <1>0, <1>1, ClearedIs
  <1>3. m[p] = item /\ Keeps(c, m, {p}) /\ Adds(c, m, Above[p] \cup {p})
    <2>1. Bare(c, p) BY <1>0, <1>2, LeafIsBare DEF Stands
    <2>. QED BY <1>0, <1>1, <1>2, <2>1, PutMakes
  <1>4. /\ d \in Paths \ {Root} /\ Above[d] = Above[p] /\ Found(p) = loc[d]
        /\ d # p => loc[d] # None
    BY <1>0, <1>1, FoundIs
  <1>5. Swept(p) = {q \in Paths : InSubtree(d, q)} BY <1>1 DEF Swept
  <1>6. \A q \in Swept(p) : c[q] = None
    <2>1. CASE Found(p) = None
      <3>1. c = loc /\ d = p /\ loc[p] = None BY <1>1, <1>4, <2>1 DEF Cleared
      <3>2. Bare(loc, p) BY <1>0, <3>1, LeafIsBare DEF Stands
      <3>. QED BY <1>0, <1>5, <3>1, <3>2, NothingIn DEF InSubtree
    <2>2. CASE Found(p) # None
      <3>1. c = Removed(loc, d) /\ loc[d] # None BY <1>1, <1>4, <2>2 DEF Cleared
      <3>. QED BY <1>4, <1>5, <3>1, RemovedLeaves
    <2>. QED BY <2>1, <2>2
  <1>7. ASSUME NEW q \in Paths \ (Swept(p) \cup {p}), loc[q] # None
        PROVE  m[q] # None /\ m[q].kind = loc[q].kind
    <2>1. loc[q] \in Items BY <1>7, SlotItem DEF Treelike
    <2>2. c[q] \in Items /\ c[q] # None /\ c[q].kind = loc[q].kind
      BY <1>2, <1>7, <2>1, AlikeItem DEF Keeps
    <2>3. Alike(c[q], m[q]) BY <1>3, <1>7, <2>2 DEF Keeps
    <2>. QED BY <2>2, <2>3, AlikeItem
  <1>. SUFFICES ASSUME NEW x \in Paths, m[x] # None PROVE Held(m, x) BY DEF AllHeld
  <1>8. CASE InSubtree(x, p)
    <2>1. m[p] # None /\ SparedIn(m, p) BY <1>3, NoneIsNoItem DEF SparedIn
    <2>. QED BY <1>0, <1>8, <2>1 DEF Held
  <1>9. CASE ~InSubtree(x, p)
    <2>1. x # p /\ x \notin Above[p] BY <1>9 DEF InSubtree
    <2>2. c[x] # None BY <1>3, <2>1 DEF Adds
    <2>3. x \notin Swept(p) /\ loc[x] # None BY <1>2, <1>6, <2>2 DEF Adds
    <2>4. x # d /\ d \notin Above[x] BY <1>5, <2>3 DEF InSubtree
    <2>5. ASSUME NEW q \in Paths, InSubtree(x, q) PROVE q \notin Swept(p) \cup {p}
      <3>1. q # p BY <2>1, <2>5 DEF InSubtree
      <3>2. ASSUME InSubtree(d, q) PROVE FALSE
        <4>1. q # x BY <2>4, <3>2 DEF InSubtree
        <4>2. x \in Above[q] BY <2>5, <4>1 DEF InSubtree
        <4>3. q # d BY <1>4, <2>1, <4>2
        <4>4. d \in Above[q] BY <3>2, <4>3 DEF InSubtree
        <4>5. x \in Above[d] BY <2>4, <4>2, <4>4, Related
        <4>. QED BY <1>4, <2>1, <4>5
      <3>. QED BY <1>5, <3>1, <3>2
    <2>6. Held(loc, x) BY <1>9, <2>3 DEF HeldBut
    <2>. QED BY <1>7, <2>5, <2>6, StillHeld
  <1>. QED BY <1>8, <1>9

LEMMA EffectHeld ==
  ASSUME Typed, NEW p \in Recorded, NEW d, NEW v, v = VerdictOn(p, d),
         Writes(p, v) => ~Blocked(p), v = "dir" /\ ~IsDir(p) => Found(p) = None,
         HeldBut(loc, p), (v = "dir" /\ ~IsDir(p)) \/ AllHeld(loc), NEW m, m = Effect(p, v, d)
  PROVE  AllHeld(m)
  <1>0. p \in Paths /\ Treelike(loc) BY DEF Recorded, Typed
  <1>1. /\ v \in {"place", "defer"} => LinkRec(p)
        /\ v = "dir" => DirRec(p)
        /\ v = "stamp" => /\ Found(p) # None
                          /\ Effect(p, v, d) = [loc EXCEPT ![Disk(p)] = Stamped(rec[p], Found(p))]
    BY EffectKinds
  <1>2. PICK k : k = Disk(p) OBVIOUS
  <1>3. k \in Paths /\ Found(p) = loc[k] /\ (Found(p) # None => Found(p) \in Items) /\ (k # p => p # Root)
    BY <1>0, <1>2, FoundIs
  <1>4. /\ rec[p].mode \in Modes /\ rec[p].mtime \in Nat \cup {NoMtime}
        /\ rec[p].kind = "link" => rec[p].what \in Data
        /\ rec[Root] # None => rec[Root].kind = "dir"
    BY GivenFacts DEF Typed, Recorded
  <1>5. CASE v = "stamp"
    <2>1. PICK y : y = Stamped(rec[p], loc[k]) OBVIOUS
    <2>2. loc[k] # None /\ m = [loc EXCEPT ![k] = y] BY <1>1, <1>2, <1>3, <1>5, <2>1
    <2>3. y \in Items /\ y.kind = loc[k].kind BY <1>3, <1>4, <2>1, <2>2, StampedItem
    <2>. QED BY <1>0, <1>3, <2>2, <2>3, ChangedHeld
  <1>6. CASE v = "place"
    <2>1. LinkRec(p) /\ p # Root BY <1>1, <1>4, <1>6 DEF LinkRec
    <2>2. LinkAt(rec[p]) \in Items BY <1>4, <2>1, LinkItem DEF LinkRec
    <2>3. ~Blocked(p) /\ m = Put(Cleared(p), p, LinkAt(rec[p])) BY <1>6 DEF Writes, Effect
    <2>. QED BY <1>0, <2>1, <2>2, <2>3, PlacedHeld
  <1>7. CASE v = "dir" /\ IsDir(p) BY <1>7 DEF Effect
  <1>8. CASE v = "dir" /\ ~IsDir(p) /\ p # Root
    <2>1. ~Blocked(p) /\ m = Put(Cleared(p), p, NewDir) BY <1>8 DEF Writes, Effect, Cleared
    <2>. QED BY <1>0, <1>8, <2>1, NewDirItem, PlacedHeld
  <1>9. CASE v = "dir" /\ ~IsDir(p) /\ p = Root
    <2>1. loc[Root] = None BY <1>0, <1>3, <1>9 DEF IsDir, Treelike
    <2>2. m = Put(loc, Root, NewDir) BY <1>3, <1>9, <2>1 DEF Effect, Cleared
    <2>3. Adds(loc, m, {Root}) BY <1>0, <2>2, PutRoot
    <2>4. \A q \in Paths \ {Root} : m[q] = None BY <1>0, <2>1, <2>3, EmptyTree DEF Adds
    <2>. QED BY <2>4 DEF AllHeld, Held
  <1>10. CASE v \notin {"stamp", "place", "dir"}
    <2>1. CASE m = Repermitted(p) /\ Found(p) # None /\ prep[p] # None
      <3>1. prep[p] \in Modes BY <1>0, <2>1 DEF Typed
      <3>2. PICK y : y = [loc[k] EXCEPT !.mode = prep[p]] OBVIOUS
      <3>3. y \in Items /\ y.kind = loc[k].kind BY <1>3, <2>1, <3>1, <3>2, RemodedItem
      <3>4. m = [loc EXCEPT ![k] = y] BY <1>2, <2>1, <3>2 DEF Repermitted
      <3>. QED BY <1>0, <1>3, <2>1, <3>3, <3>4, ChangedHeld
    <2>2. m = loc \/ m = Repermitted(p) BY <1>10 DEF Effect
    <2>3. Found(p) = None \/ prep[p] = None => Repermitted(p) = loc BY DEF Repermitted
    <2>4. AllHeld(loc) BY <1>10
    <2>. QED BY <2>1, <2>2, <2>3, <2>4
  <1>. QED BY <1>5, <1>6, <1>7, <1>8, <1>9, <1>10

LEMMA SettleHeld ==
  ASSUME Typed, AllHeld(loc), NEW p \in Paths, DirRec(p), NEW ordered, Settle(p, ordered),
         NEW m, m = loc'
  PROVE  AllHeld(m)
  <1>0. PICK k : k = Disk(p) OBVIOUS
  <1>1. CASE IsDir(p) /\ m = [loc EXCEPT ![k] = Stamped(rec[p], Found(p))]
    <2>1. k \in Paths /\ Found(p) = loc[k] /\ loc[k] \in Items /\ loc[k] # None
      BY <1>0, <1>1, FoundIs, SlotItem DEF Typed, Treelike, IsDir
    <2>2. rec[p].mode \in Modes /\ rec[p].mtime \in Nat \cup {NoMtime}
      BY GivenFacts DEF Typed, DirRec
    <2>3. PICK y : y = Stamped(rec[p], loc[k]) OBVIOUS
    <2>4. y \in Items /\ y.kind = loc[k].kind BY <2>1, <2>2, <2>3, StampedItem
    <2>5. Treelike(loc) BY DEF Typed
    <2>. QED BY <1>1, <2>1, <2>3, <2>4, <2>5, ChangedHeld
  <1>2. m = loc \/ (IsDir(p) /\ m = [loc EXCEPT ![k] = Stamped(rec[p], Found(p))])
    BY <1>0, SettleWrites
  <1>. QED BY <1>1, <1>2

\* Mirrored after a step, over the tree, stack and place it leads to.
LEMMA MirrorAfter ==
  ASSUME UNCHANGED <<rec, obj, opts, orig>>, NEW m, m = loc', NEW s, s = open', NEW k, k = at',
         phase' = "start" => k = 0,
         phase' \in {"start", "vet", "make", "prep", "sync"} => pass' = 1,
         opts.delete = "yes" =>
           /\ phase' = "extras" /\ ~bad' => Sifted(m, s, k)
           /\ phase' \in {"apply", "place"} /\ pass' = 2 /\ ~bad' =>
                AllHeld(m) \/ \E p \in Paths : Making(p)' /\ HeldBut(m, p)
           /\ phase' = "done" /\ status' = "ok" => AllHeld(m)
  PROVE  Mirrored'
  <1>1. Nondirs' = Nondirs /\ Recorded' = Recorded BY SameGiven
  <1>2. \A p \in Paths : Held(loc, p)' <=> Held(m, p)
    BY <1>1 DEF Held, SparedIn, KeyAs
  <1>3. AllHeld(loc)' <=> AllHeld(m) BY <1>2 DEF AllHeld
  <1>4. \A p \in Paths : HeldBut(loc, p)' <=> HeldBut(m, p) BY <1>2 DEF HeldBut
  <1>. QED BY <1>1, <1>3, <1>4 DEF Mirrored, Sifted, Held, SparedIn, KeyAs

\* A step of the apply that leaves held what was held.
LEMMA MirrorStays ==
  ASSUME UNCHANGED <<rec, obj, opts, orig>>, Mirrored, phase \in {"apply", "place"}, \A p \in Paths : ~Making(p),
         NEW m, m = loc', AllHeld(loc) => AllHeld(m),
         phase' \in {"apply", "place"} \/ (phase' = "done" /\ status' \in {"failed", "cut"}),
         pass' = pass, bad => bad'
  PROVE  Mirrored'
  <1>1. PICK s, k : s = open' /\ k = at' OBVIOUS
  <1>2. opts.delete = "yes" /\ phase' \in {"apply", "place"} /\ pass' = 2 /\ ~bad' => AllHeld(m)
    BY DEF Mirrored
  <1>. QED BY <1>1, <1>2, MirrorAfter

LEMMA ShownOrHeld ==
  ASSUME NEW p \in Paths, loc[p] # None, ~Shown(p)
  PROVE  Held(loc, p)
  BY DEF Held, Shown, InSubtree, SparedIn

LEMMA KeyIs ==
  ASSUME Treelike(loc), NEW p \in Paths
  PROVE  LocalKey(p) \in Nat
  BY KeysDiffer DEF LocalKey, KeyAs

LEMMA EarlyMirror ==
  ASSUME Inv, Mirrored,
         Start \/ Vet \/ Make \/ Prep \/ Decide \/ (\E p \in Paths : Land(p)) \/ Synced
  PROVE  Mirrored'
  <1>1. UNCHANGED <<rec, obj, opts, orig, pass>>
    BY DEF Start, Vet, Make, Prep, Decide, Land, Synced, world
  <1>2. pass = 1 /\ (phase = "start" => at = 0)
    BY DEF Start, Vet, Make, Prep, Decide, Land, Synced, Mirrored
  <1>3. PICK m, s, k : m = loc' /\ s = open' /\ k = at' OBVIOUS
  <1>4. phase' # "start" BY DEF Start, Vet, Make, Prep, Decide, Land, Synced, Finish
  <1>5. CASE Start
    <2>1. m = loc /\ k = 0 /\ s = open BY <1>2, <1>3, <1>5 DEF Start, pruning
    <2>2. phase' = "extras" => Sifted(m, s, k)
      <3>1. open = <<>> BY <1>5 DEF Start, Inv, OpenFits
      <3>2. \A p \in Paths : LocalKey(p) \in Nat BY KeyIs DEF Inv, Typed
      <3>. QED BY <2>1, <3>1, <3>2 DEF Sifted, LocalKey
    <2>3. phase' = "done" /\ status' = "ok" => opts.delete = "off"
      BY <1>5, ItemAssumption DEF Start
    <2>4. phase' \notin {"apply", "place"} BY <1>5 DEF Start
    <2>. QED BY <1>1, <1>2, <1>3, <1>4, <2>2, <2>3, <2>4, MirrorAfter
  <1>6. CASE Vet \/ Make \/ Prep \/ Decide \/ (\E p \in Paths : Land(p)) \/ Synced
    <2>1. phase' \in {"vet", "make", "prep", "sync", "apply"} \/ (phase' = "done" /\ status' = "failed")
      BY <1>6 DEF Vet, Make, Prep, Decide, Land, Synced, Finish
    <2>. QED BY <1>1, <1>2, <1>3, <1>4, <2>1, MirrorAfter
  <1>. QED BY <1>5, <1>6

LEMMA ApplyMirror ==
  ASSUME Inv, Mirrored, PopFrame \/ Apply \/ SkipExcluded \/ ApplyFails
  PROVE  Mirrored'
  <1>1. Typed BY DEF Inv
  <1>2. PICK m : m = loc' OBVIOUS
  <1>3. CASE PopFrame
    <2>1. Top.path \in Paths /\ DirRec(Top.path) BY <1>3, TopIs DEF PopFrame
    <2>2. UNCHANGED <<loc, bad>> \/ Settle(Top.path, opts.update /\ ~Top.dirty) BY <1>3 DEF PopFrame
    <2>3. AllHeld(loc) => AllHeld(m) BY <1>1, <1>2, <2>1, <2>2, SettleHeld
    <2>4. bad => bad' BY <2>2 DEF Settle
    <2>5. UNCHANGED <<rec, obj, opts, orig, phase, pass>> /\ phase = "apply"
      BY <1>3 DEF PopFrame, world
    <2>6. \A p \in Paths : ~Making(p) BY <1>3 DEF PopFrame, Making, AtRecord
    <2>. QED BY <1>2, <2>3, <2>4, <2>5, <2>6, MirrorStays
  <1>4. CASE Apply
    <2>1. PICK p : p = NextRecord OBVIOUS
    <2>2. p \in Recorded BY <1>4, <2>1, AtRecordIs DEF Apply
    <2>3. PICK d : d = Decision(RecKey(p)) OBVIOUS
    <2>4. PICK v : v = VerdictOn(p, d) OBVIOUS
    <2>5. (Writes(p, v) => ~Blocked(p)) /\ m = Effect(p, v, d) /\ (bad => bad')
      BY <1>2, <1>4, <2>1, <2>3, <2>4 DEF Apply
    <2>6. UNCHANGED <<rec, obj, opts, orig, phase, pass>> /\ phase = "apply"
      BY <1>4 DEF Apply, AtRecord, NextLine, world
    <2>7. v = "dir" /\ ~IsDir(p) => Found(p) = None BY <1>4, <2>1, <2>3, <2>4, ApplyMakes
    <2>8. ASSUME opts.delete = "yes", pass = 2, ~bad PROVE AllHeld(m)
      <3>1. AllHeld(loc) \/ \E q \in Paths : Making(q) /\ HeldBut(loc, q)
        BY <2>6, <2>8 DEF Mirrored
      <3>2. CASE AllHeld(loc)
        <4>1. HeldBut(loc, p) BY <3>2 DEF AllHeld, HeldBut
        <4>. QED BY <1>1, <2>2, <2>4, <2>5, <2>7, <3>2, <4>1, EffectHeld
      <3>3. CASE \E q \in Paths : Making(q) /\ HeldBut(loc, q)
        <4>1. HeldBut(loc, p) /\ v = "dir" /\ ~IsDir(p) BY <2>1, <2>3, <2>4, <3>3 DEF Making
        <4>. QED BY <1>1, <2>2, <2>4, <2>5, <2>7, <4>1, EffectHeld
      <3>. QED BY <3>1, <3>2, <3>3
    <2>9. PICK s, k : s = open' /\ k = at' OBVIOUS
    <2>. QED BY <1>2, <2>5, <2>6, <2>8, <2>9, MirrorAfter
  <1>5. CASE SkipExcluded
    <2>1. UNCHANGED <<rec, obj, opts, orig, phase, pass, loc, bad>> /\ phase = "apply"
      BY <1>5 DEF SkipExcluded, AtRecord, NextLine, world
    <2>2. \A p \in Paths : ~Making(p) BY <1>5 DEF SkipExcluded, Making
    <2>. QED BY <2>1, <2>2, MirrorStays
  <1>6. CASE ApplyFails
    <2>1. /\ phase = "apply" /\ UNCHANGED <<rec, obj, opts, orig, pass>>
          /\ \/ phase' = "done" /\ status' = "failed"
             \/ phase' = "apply" /\ loc' = loc /\ bad' = TRUE
      BY <1>6 DEF ApplyFails, AtRecord, Abort, Finish, NextLine, world
    <2>2. CASE phase' = "done" /\ status' = "failed"
      <3>1. PICK s, k : s = open' /\ k = at' OBVIOUS
      <3>. QED BY <1>2, <2>1, <2>2, <3>1, ItemAssumption, MirrorAfter
    <2>3. CASE phase' = "apply" /\ loc' = loc /\ bad' = TRUE
      <3>1. PICK s, k : s = open' /\ k = at' OBVIOUS
      <3>. QED BY <1>2, <2>1, <2>3, <3>1, MirrorAfter
    <2>. QED BY <2>1, <2>2, <2>3
  <1>. QED BY <1>3, <1>4, <1>5, <1>6

LEMMA ClearConflictMirror ==
  ASSUME Inv, Mirrored, ClearConflict
  PROVE  Mirrored'
  <1>0. Treelike(loc) BY DEF Inv, Typed
  <1>1. PICK p \in Paths \ {Root} :
           /\ Making(p) /\ DirRec(p) /\ Found(p) # None /\ ~IsDir(p)
           /\ loc'[p] = None /\ loc'[Disk(p)] = None
           /\ Keeps(loc, loc', {Disk(p)}) /\ Adds(loc, loc', {})
    BY ClearConflictWrites
  <1>2. PICK m, d, s, k : m = loc' /\ d = Disk(p) /\ s = open' /\ k = at' OBVIOUS
  <1>3. /\ UNCHANGED <<rec, obj, opts, orig, phase, at, pass, bad, frames, cur, spool>>
        /\ phase = "apply" /\ p = NextRecord
    BY <1>1, MakingIs DEF ClearConflict, world
  <1>4. d \in Paths \ {Root} /\ Above[d] = Above[p] BY <1>0, <1>1, <1>2, FoundIs
  <1>5. ASSUME opts.delete = "yes", pass = 2, ~bad PROVE HeldBut(m, p)
    <2>1. HeldBut(loc, p)
      <3>1. AllHeld(loc) \/ \E q \in Paths : Making(q) /\ HeldBut(loc, q)
        BY <1>3, <1>5 DEF Mirrored
      <3>. QED BY <1>3, <3>1 DEF Making, AllHeld, HeldBut
    <2>2. ASSUME NEW x \in Paths, m[x] # None, ~InSubtree(x, p) PROVE Held(m, x)
      <3>1. loc[x] # None BY <1>1, <1>2, <2>2 DEF Adds
      <3>2. Held(loc, x) BY <2>1, <2>2, <3>1 DEF HeldBut
      <3>3. ASSUME NEW q \in Paths, InSubtree(x, q), loc[q] # None
            PROVE  m[q] # None /\ m[q].kind = loc[q].kind
        <4>1. q # d BY <1>1, <1>2, <1>4, <2>2, <3>3 DEF InSubtree
        <4>2. loc[q] \in Items /\ Alike(loc[q], m[q])
          BY <1>0, <1>1, <1>2, <3>3, <4>1, SlotItem DEF Treelike, Keeps
        <4>. QED BY <4>2, AlikeItem
      <3>. QED BY <3>2, <3>3, StillHeld
    <2>. QED BY <2>2 DEF HeldBut
  <1>6. CASE ~IsDir(p)'
    <2>1. Making(p)' BY <1>1, <1>3, <1>6, MakingSame
    <2>. QED BY <1>2, <1>3, <1>5, <2>1, MirrorAfter
  <1>7. CASE IsDir(p)'
    <2>1. Twin[p] # None /\ m[Twin[p]] # None
      BY <1>1, <1>2, <1>7 DEF IsDir, Found, Disk, DiskIn
    <2>2. /\ Twin[p] \in Paths \ {Root} /\ p \in Recorded /\ Above[Twin[p]] = Above[p]
      <3>1. /\ Twin[p] \in Paths /\ Twin[p] # Root /\ Up[Twin[p]] = Up[p]
            /\ p \in Paths /\ p # Root
        BY <1>1, <2>1, TreeAssumption
      <3>2. Above[Twin[p]] = Above[p] BY <3>1, AboveUp
      <3>3. p \in Recorded BY <1>1 DEF DirRec, Recorded
      <3>. QED BY <3>1, <3>2, <3>3
    <2>3. SparedIn(m, Twin[p]) BY <2>2 DEF SparedIn
    <2>4. \A x \in Paths : m[x] # None /\ InSubtree(x, p) => Held(m, x)
      BY <1>1, <1>2, <2>1, <2>2, <2>3 DEF InSubtree, Held
    <2>5. opts.delete = "yes" /\ pass = 2 /\ ~bad => AllHeld(m)
      BY <1>5, <2>4 DEF HeldBut, AllHeld
    <2>. QED BY <1>2, <1>3, <2>5, MirrorAfter
  <1>. QED BY <1>6, <1>7

LEMMA PlaceMirror ==
  ASSUME Inv, Mirrored, Streamed \/ Place \/ Resettle
  PROVE  Mirrored'
  <1>1. Typed /\ Treelike(loc) BY DEF Inv, Typed
  <1>2. PICK m : m = loc' OBVIOUS
  <1>6. \A p \in Paths : ~Making(p)
    BY DEF Streamed, Place, Resettle, Making, AtRecord
  <1>3. CASE Streamed
    <2>1. UNCHANGED <<rec, obj, opts, orig, pass, loc, bad>> /\ phase = "apply" /\ phase' = "place"
      BY <1>3 DEF Streamed, world
    <2>. QED BY <1>6, <2>1, MirrorStays
  <1>4. CASE Resettle
    <2>1. PICK p : p = CHOOSE x \in post : \A q \in post : DirKey[q] <= DirKey[x] OBVIOUS
    <2>2. post \in SUBSET Paths /\ post # {} /\ \A q \in post : DirRec(q)
      BY <1>4 DEF Resettle, Inv, Typed, LastFits
    <2>3. p \in post BY <2>1, <2>2, GreatestKey
    <2>4. Settle(p, FALSE) /\ UNCHANGED <<rec, obj, opts, orig, phase, pass>> /\ phase = "place"
      BY <1>4, <2>1 DEF Resettle, world
    <2>5. (AllHeld(loc) => AllHeld(m)) /\ (bad => bad')
      BY <1>1, <1>2, <2>2, <2>3, <2>4, SettleHeld DEF Settle
    <2>. QED BY <1>2, <1>6, <2>4, <2>5, MirrorStays
  <1>5. CASE Place
    <2>1. PICK p : p = Head(deferred) OBVIOUS
    <2>2. p \in Paths /\ LinkRec(p)
      <3>1. deferred \in Seq(Paths) /\ deferred # <<>> BY <1>5 DEF Inv, Typed, Place
      <3>2. 1 \in 1..Len(deferred) /\ Head(deferred) = deferred[1] /\ deferred[1] \in Paths BY <3>1
      <3>. QED BY <2>1, <3>2 DEF Inv, LastFits
    <2>3. p \in Recorded \ {Root} /\ LinkAt(rec[p]) \in Items
      <3>1. /\ rec[p].mtime \in Nat \cup {NoMtime} /\ rec[p].what \in Data
            /\ rec[Root] # None => rec[Root].kind = "dir"
        BY <1>1, <2>2, GivenFacts DEF Typed, LinkRec
      <3>. QED BY <2>2, <3>1, LinkItem DEF LinkRec, Recorded
    <2>4. UNCHANGED <<rec, obj, opts, orig, pass, bad>> /\ phase = "place"
      BY <1>5 DEF Place, Abort, world
    <2>5. \/ phase' = "done" /\ status' = "failed"
          \/ phase' = phase /\ ~Blocked(p) /\ m = Put(Cleared(p), p, LinkAt(rec[p]))
      BY <1>2, <1>5, <2>1 DEF Place, Abort, Finish
    <2>6. CASE phase' = "done" /\ status' = "failed"
      <3>1. PICK s, k : s = open' /\ k = at' OBVIOUS
      <3>. QED BY <1>2, <2>4, <2>6, <3>1, ItemAssumption, MirrorAfter
    <2>7. CASE phase' = phase /\ ~Blocked(p) /\ m = Put(Cleared(p), p, LinkAt(rec[p]))
      <3>1. AllHeld(loc) => HeldBut(loc, p) BY DEF AllHeld, HeldBut
      <3>2. AllHeld(loc) => AllHeld(m) BY <1>1, <2>3, <2>7, <3>1, PlacedHeld
      <3>. QED BY <1>2, <1>6, <2>4, <2>7, <3>2, MirrorStays
    <2>. QED BY <2>5, <2>6, <2>7
  <1>. QED BY <1>3, <1>4, <1>5

LEMMA AppliedMirror ==
  ASSUME Inv, Mirrored, Applied
  PROVE  Mirrored'
  <1>1. PICK m, s, k : m = loc' /\ s = open' /\ k = at' OBVIOUS
  <1>2. UNCHANGED <<rec, obj, opts, orig, pass, open, bad>> /\ k = 0 /\ phase = "place"
    BY <1>1 DEF Applied, world, pruning
  <1>3. CASE phase' = "done" /\ status' = "failed" BY <1>1, <1>2, <1>3, ItemAssumption, MirrorAfter
  <1>4. CASE phase' = "done" /\ ~bad /\ (pass = 2 \/ opts.delete = "off") /\ m = loc
    <2>1. opts.delete = "yes" => AllHeld(m) BY <1>2, <1>4 DEF Mirrored, Making, AtRecord
    <2>. QED BY <1>1, <1>2, <1>4, <2>1, MirrorAfter
  <1>5. CASE phase' = "extras" /\ m = loc
    <2>1. open = <<>> BY <1>2 DEF Inv, OpenFits
    <2>2. \A p \in Paths : LocalKey(p) \in Nat BY KeyIs DEF Inv, Typed
    <2>3. Sifted(m, s, k) BY <1>1, <1>2, <1>5, <2>1, <2>2 DEF Sifted, LocalKey
    <2>. QED BY <1>1, <1>2, <1>5, <2>3, MirrorAfter
  <1>6. \/ phase' = "done" /\ status' = "failed"
        \/ phase' = "done" /\ ~bad /\ (pass = 2 \/ opts.delete = "off") /\ m = loc
        \/ phase' = "extras" /\ m = loc
    BY <1>1 DEF Applied, Finish
  <1>. QED BY <1>3, <1>4, <1>5, <1>6

\* What is removed was not spared, or a sibling of its name is there.
LEMMA RemovedHeld ==
  ASSUME Treelike(loc), NEW p \in Paths \ {Root}, loc[p] # None, Removable(p), p \notin Recorded, ~Alias(p),
         NEW m, Keeps(loc, m, {p}), NEW x \in Paths \ {p}, Held(loc, x)
  PROVE  Held(m, x)
  <1>1. ASSUME NEW q \in Paths \ {p}, loc[q] # None PROVE m[q] # None /\ m[q].kind = loc[q].kind
    <2>1. loc[q] \in Items /\ Alike(loc[q], m[q]) BY <1>1, SlotItem DEF Treelike, Keeps
    <2>. QED BY <2>1, AlikeItem
  <1>2. CASE x = Root \/ \E q \in Paths \ {p} : InSubtree(x, q) /\ loc[q] # None /\ SparedIn(loc, q)
    <2>. SUFFICES ASSUME NEW q \in Paths \ {p}, InSubtree(x, q), loc[q] # None, SparedIn(loc, q)
                  PROVE  Held(m, x)
      BY <1>2 DEF Held
    <2>1. m[q] # None /\ m[q].kind = loc[q].kind BY <1>1
    <2>2. SparedIn(m, q) BY <2>1 DEF SparedIn
    <2>. QED BY <2>1, <2>2 DEF Held
  <1>3. CASE InSubtree(x, p) /\ SparedIn(loc, p)
    <2>1. PICK y \in Recorded : Twin[y] = p BY <1>3 DEF SparedIn, Removable, Free
    <2>2. y \in Paths /\ Twin[y] # None BY <2>1, NoneIsNoItem DEF Recorded
    <2>3. y # p /\ y # Root /\ Up[p] = Up[y] BY <2>1, <2>2, TreeAssumption
    <2>4. loc[y] # None
      <3>. SUFFICES ASSUME loc[y] = None PROVE FALSE OBVIOUS
      <3>1. Found(y) # None BY <2>1, <2>2 DEF Found, Disk, DiskIn
      <3>2. ~Paired(y) BY DEF Paired, Shown
      <3>. QED BY <2>1, <2>3, <3>1, <3>2 DEF Alias
    <2>5. Above[y] = Above[p] BY <2>2, <2>3, AboveUp
    <2>6. InSubtree(x, y) BY <1>3, <2>5 DEF InSubtree
    <2>7. m[y] # None BY <1>1, <2>2, <2>3, <2>4
    <2>. QED BY <2>1, <2>2, <2>6, <2>7 DEF Held, SparedIn
  <1>. QED BY <1>2, <1>3 DEF Held

\* One answer of remove_extras about p, with rest the directories open above it.
LEMMA JudgeMirror ==
  ASSUME Inv, opts.delete = "yes", ~bad', UNCHANGED <<rec, obj, opts, orig>>,
         NEW p \in Paths \ {Root}, loc[p] # None, Removable(p), p \in Recorded => ~Paired(p),
         NEW rest \in Seq(Entries), \A n \in 1..Len(rest) : rest[n].path \in Above[p],
         NEW k,
         \A x \in Paths \ {p} : loc[x] # None =>
           Held(loc, x) \/ KeyAs(x, loc[x].kind) >= k \/ \E n \in 1..Len(rest) : rest[n].path = x,
         \A n \in 1..Len(rest) : rest[n].kept => Held(loc, rest[n].path),
         Judge(p, rest), NEW m, m = loc', NEW s, s = open'
  PROVE  phase' = phase /\ Sifted(m, s, k)
  <1>0. Treelike(loc) BY DEF Inv, Typed
  <1>3. phase' = phase BY DEF Judge
  <1>1. CASE Alias(p) /\ s = Pinned(rest) /\ m = loc
    <2>1. SparedIn(loc, p) BY <1>1 DEF Alias, SparedIn
    <2>2. Held(loc, p) /\ \A n \in 1..Len(rest) : Held(loc, rest[n].path)
      BY <2>1 DEF Held, InSubtree
    <2>3. Len(s) = Len(rest) /\ \A n \in 1..Len(rest) : s[n].path = rest[n].path
      BY <1>1, PinnedIs
    <2>4. \A x \in Paths : m[x] # None =>
            Held(m, x) \/ KeyAs(x, m[x].kind) >= k \/ \E n \in 1..Len(s) : s[n].path = x
      <3>. TAKE x \in Paths
      <3>. HAVE m[x] # None
      <3>1. CASE x = p BY <1>1, <2>2, <3>1
      <3>2. CASE x # p
        <4>1. Held(loc, x) \/ KeyAs(x, loc[x].kind) >= k \/ \E n \in 1..Len(rest) : rest[n].path = x
          BY <1>1, <3>2
        <4>. QED BY <1>1, <2>3, <4>1
      <3>. QED BY <3>1, <3>2
    <2>. QED BY <1>1, <1>3, <2>2, <2>3, <2>4 DEF Sifted
  <1>2. CASE /\ ~Alias(p) /\ s = rest /\ m = Removed(loc, p)
             /\ \A c \in Paths \ {p} : Up[c] = p => loc[c] = None
    <2>1. p \notin Recorded
      <3>1. Found(p) # None BY DEF Found, Disk, DiskIn
      <3>. QED BY <1>2, <3>1 DEF Alias
    <2>2. m[p] = None /\ Keeps(loc, m, {p}) /\ Adds(loc, m, {}) BY <1>0, <1>2, RemovedBare
    <2>3. \A x \in Paths \ {p} : Held(loc, x) => Held(m, x)
      BY <1>0, <1>2, <2>1, <2>2, RemovedHeld
    <2>4. ASSUME NEW x \in Paths, m[x] # None
          PROVE  x # p /\ loc[x] # None /\ m[x].kind = loc[x].kind
      <3>1. x # p /\ loc[x] # None BY <2>2, <2>4 DEF Adds
      <3>2. loc[x] \in Items /\ Alike(loc[x], m[x]) BY <1>0, <2>2, <3>1, SlotItem DEF Treelike, Keeps
      <3>. QED BY <3>1, <3>2, AlikeItem
    <2>5. ASSUME NEW n \in 1..Len(rest) PROVE rest[n].path \in Paths \ {p}
      <3>1. rest[n].path \in Above[p] OBVIOUS
      <3>. QED BY <3>1, AboveKey
    <2>6. \A n \in 1..Len(rest) : rest[n].kept => Held(m, rest[n].path) BY <2>3, <2>5
    <2>7. \A x \in Paths : m[x] # None =>
             Held(m, x) \/ KeyAs(x, m[x].kind) >= k \/ \E n \in 1..Len(rest) : rest[n].path = x
      <3>. TAKE x \in Paths
      <3>. HAVE m[x] # None
      <3>1. x \in Paths \ {p} /\ loc[x] # None /\ m[x].kind = loc[x].kind BY <2>4
      <3>2. Held(loc, x) \/ KeyAs(x, loc[x].kind) >= k \/ \E n \in 1..Len(rest) : rest[n].path = x
        BY <3>1
      <3>. QED BY <2>3, <3>1, <3>2
    <2>. QED BY <1>2, <1>3, <2>6, <2>7 DEF Sifted
  <1>4. \/ Alias(p) /\ s = Pinned(rest) /\ m = loc
        \/ /\ ~Alias(p) /\ s = rest /\ m = Removed(loc, p)
           /\ \A c \in Paths \ {p} : Up[c] = p => loc[c] = None
    BY DEF Judge
  <1>. QED BY <1>1, <1>2, <1>4

LEMMA CloseExtraMirror ==
  ASSUME Inv, OpenLoose, Mirrored, CloseExtra
  PROVE  Mirrored'
  <1>1. PICK p, f : p = Innermost.path /\ f = Front(open) OBVIOUS
  <1>2. /\ phase = "extras" /\ UNCHANGED <<rec, obj, opts, orig>>
        /\ p \in Paths \ {Root} /\ Loose(p) /\ loc[p] # None /\ Removable(p)
        /\ f \in Seq(Entries)
        /\ \A n \in 1..Len(f) : n \in 1..Len(open) /\ f[n] = open[n] /\ f[n].path \in Above[p]
        /\ \A n \in 1..Len(open) : n \in 1..Len(f) \/ open[n] = Innermost
    BY <1>1, ClosingIs
  <1>3. PICK m, s, k : m = loc' /\ s = open' /\ k = at' OBVIOUS
  <1>4. k = at /\ phase' \in {"extras", "done"} /\ (phase' = "done" => status' = "failed") /\ (bad => bad')
    BY <1>2, <1>3 DEF CloseExtra, Judge, Finish
  <1>5. ASSUME opts.delete = "yes", ~bad', phase' = "extras" PROVE Sifted(m, s, k)
    <2>1. Sifted(loc, open, at) BY <1>2, <1>4, <1>5 DEF Mirrored
    <2>2. \A x \in Paths \ {p} : loc[x] # None =>
            Held(loc, x) \/ KeyAs(x, loc[x].kind) >= k \/ \E n \in 1..Len(f) : f[n].path = x
      BY <1>1, <1>2, <1>4, <2>1 DEF Sifted
    <2>3. \A n \in 1..Len(f) : f[n].kept => Held(loc, f[n].path) BY <1>2, <2>1 DEF Sifted
    <2>4. CASE Innermost.kept
      <3>1. m = loc /\ s = f BY <1>1, <1>3, <2>4 DEF CloseExtra
      <3>2. Len(open) \in 1..Len(open) BY <1>2, OpenIs DEF CloseExtra
      <3>3. Held(loc, p) BY <1>1, <2>1, <2>4, <3>2 DEF Sifted, Innermost
      <3>. QED BY <2>2, <2>3, <3>1, <3>3 DEF Sifted
    <2>5. CASE ~Innermost.kept
      <3>1. Judge(p, f) BY <1>1, <2>5 DEF CloseExtra
      <3>2. p \notin Recorded BY <1>2 DEF Loose
      <3>. QED BY <1>2, <1>3, <1>5, <2>2, <2>3, <3>1, <3>2, JudgeMirror
    <2>. QED BY <2>4, <2>5
  <1>. QED BY <1>2, <1>3, <1>4, <1>5, ItemAssumption, MirrorAfter

LEMMA PruneMirror ==
  ASSUME Inv, OpenLoose, Mirrored, Prune
  PROVE  Mirrored'
  <1>1. PICK p : p = NextLocal OBVIOUS
  <1>2. /\ p \in Paths \ {Root} /\ loc[p] # None /\ Shown(p) /\ LocalKey(p) \in Nat
        /\ \A q \in ToPrune : LocalKey(p) <= LocalKey(q)
    BY <1>1, NextLocalIs DEF Prune
  <1>3. phase = "extras" /\ UNCHANGED <<rec, obj, opts, orig>> /\ open \in Seq(Entries) /\ Treelike(loc)
    BY OpenEntries DEF Prune, world, Inv, Typed
  <1>4. PICK m, s, k : m = loc' /\ s = open' /\ k = at' OBVIOUS
  <1>5. k = LocalKey(p) + 1 BY <1>1, <1>4 DEF Prune
  <1>6. phase' \in {"extras", "done"} /\ (phase' = "done" => status' = "failed") /\ (bad => bad')
    BY <1>3 DEF Prune, Judge, Finish
  <1>7. \A n \in 1..Len(open) : InSubtree(open[n].path, p)
    <2>1. CASE open = <<>> BY <2>1
    <2>2. CASE open # <<>>
      <3>1. /\ Len(open) \in 1..Len(open)
            /\ \A i, j \in 1..Len(open) : i < j => open[i].path \in Above[open[j].path]
            /\ \A n \in 1..Len(open) : open[n].path \in Paths
        BY <1>3, <2>2, OpenIs
      <3>2. InSubtree(Innermost.path, p) BY <1>1, <2>2 DEF Prune, PastOpen
      <3>3. ASSUME NEW n \in 1..Len(open), n # Len(open) PROVE open[n].path \in Above[Innermost.path]
        <4>1. n < Len(open) BY <3>1, <3>3
        <4>. QED BY <3>1, <4>1 DEF Innermost
      <3>4. Innermost.path \in Above[p] => \A q \in Above[Innermost.path] : q \in Above[p]
        BY <1>2, AboveTrans
      <3>. QED BY <3>2, <3>3, <3>4 DEF InSubtree, Innermost
    <2>. QED BY <2>1, <2>2
  <1>8. ASSUME opts.delete = "yes", ~bad', phase' = "extras" PROVE Sifted(m, s, k)
    <2>1. Sifted(loc, open, at) BY <1>3, <1>6, <1>8 DEF Mirrored
    <2>2. ASSUME NEW x \in Paths \ {p}, loc[x] # None, KeyAs(x, loc[x].kind) >= at
          PROVE  Held(loc, x) \/ KeyAs(x, loc[x].kind) >= k
      <3>1. CASE ~Shown(x) BY <2>2, <3>1, ShownOrHeld
      <3>2. CASE Shown(x)
        <4>1. x \in ToPrune BY <2>2, <3>2 DEF ToPrune, LocalKey
        <4>2. LocalKey(p) <= LocalKey(x) BY <1>2, <4>1
        <4>3. LocalKey(x) \in Nat BY <1>3, KeyIs
        <4>4. LocalKey(x) # LocalKey(p)
          <5>1. /\ DirKey[p] # DirKey[x] /\ LeafKey[p] # LeafKey[x]
                /\ LeafKey[p] # DirKey[x] /\ LeafKey[x] # DirKey[p]
            BY <1>2, KeysDiffer
          <5>. QED BY <5>1 DEF LocalKey, KeyAs
        <4>5. LocalKey(x) >= k BY <1>2, <1>5, <4>2, <4>3, <4>4
        <4>. QED BY <4>5 DEF LocalKey
      <3>. QED BY <3>1, <3>2
    <2>3. \A x \in Paths \ {p} : loc[x] # None =>
            Held(loc, x) \/ KeyAs(x, loc[x].kind) >= k \/ \E n \in 1..Len(open) : open[n].path = x
      BY <2>1, <2>2 DEF Sifted
    <2>4. \A n \in 1..Len(open) : open[n].kept => Held(loc, open[n].path) BY <2>1 DEF Sifted
    <2>5. CASE ~Extra(p)
      <3>1. m = loc /\ s = Pinned(open) BY <1>1, <1>4, <2>5 DEF Prune
      <3>2. SparedIn(loc, p) BY <2>5 DEF Extra, Paired, Covered, SparedIn
      <3>3. Held(loc, p) /\ \A n \in 1..Len(open) : Held(loc, open[n].path)
        BY <1>2, <1>7, <3>2 DEF Held, InSubtree
      <3>4. Len(s) = Len(open) /\ \A n \in 1..Len(open) : s[n].path = open[n].path
        BY <1>3, <3>1, PinnedIs
      <3>. QED BY <2>3, <3>1, <3>3, <3>4 DEF Sifted
    <2>6. CASE Extra(p) /\ loc[p].kind = "dir"
      <3>1. PICK e : e = [path |-> p, kept |-> FALSE] OBVIOUS
      <3>2. m = loc /\ s = Append(open, e) BY <1>1, <1>4, <2>6, <3>1 DEF Prune
      <3>3. e \in Entries /\ e.path = p /\ e.kept = FALSE BY <1>2, <3>1 DEF Entries
      <3>4. Len(open) \in Nat /\ Len(s) = Len(open) + 1 /\ s[Len(open) + 1] = e
            /\ \A n \in 1..Len(open) : s[n] = open[n]
        BY <1>3, <3>2, <3>3
      <3>5. Len(s) \in 1..Len(s) /\ (\A n \in 1..Len(open) : n \in 1..Len(s))
            /\ \A n \in 1..Len(s) : n \in 1..Len(open) \/ n = Len(s)
        BY <3>4
      <3>6. \A n \in 1..Len(s) : s[n].kept => Held(loc, s[n].path) BY <2>4, <3>3, <3>4, <3>5
      <3>7. \A x \in Paths : loc[x] # None =>
              Held(loc, x) \/ KeyAs(x, loc[x].kind) >= k \/ \E n \in 1..Len(s) : s[n].path = x
        BY <2>3, <3>3, <3>4, <3>5
      <3>. QED BY <3>2, <3>6, <3>7 DEF Sifted
    <2>7. CASE Extra(p) /\ loc[p].kind # "dir"
      <3>1. Judge(p, open) BY <1>1, <2>7 DEF Prune
      <3>2. Removable(p) /\ ~Paired(p) BY <1>2, <2>7, ExtraFree DEF Extra
      <3>3. ASSUME NEW n \in 1..Len(open) PROVE open[n].path \in Above[p]
        <4>1. Stands(loc, open[n].path) BY <1>3, OpenIs
        <4>2. open[n].path # p BY <2>7, <4>1 DEF Stands
        <4>. QED BY <1>7, <4>2 DEF InSubtree
      <3>. QED BY <1>2, <1>3, <1>4, <1>8, <2>3, <2>4, <3>1, <3>2, <3>3, JudgeMirror
    <2>. QED BY <2>5, <2>6, <2>7
  <1>. QED BY <1>3, <1>4, <1>6, <1>8, ItemAssumption, MirrorAfter

LEMMA PrunedMirror ==
  ASSUME Inv, Mirrored, Pruned
  PROVE  Mirrored'
  <1>1. PICK m, s, k : m = loc' /\ s = open' /\ k = at' OBVIOUS
  <1>2. phase = "extras" /\ UNCHANGED <<rec, obj, opts, orig, open, bad>>
    BY DEF Pruned, world, pruning
  <1>3. m = loc
    <2>1. prep = NoPrep BY <1>2 DEF Inv, PrepFits
    <2>2. loc' = loc \/ loc' = GivenBack(loc) BY DEF Pruned, Finish
    <2>. QED BY <1>1, <2>1, <2>2, GivesNothing
  <1>4. ASSUME opts.delete = "yes", ~bad PROVE AllHeld(loc)
    <2>1. Sifted(loc, open, at) /\ ToPrune = {} /\ open = <<>>
      BY <1>2, <1>4 DEF Mirrored, Pruned
    <2>2. ASSUME NEW p \in Paths, loc[p] # None PROVE Held(loc, p)
      <3>1. Held(loc, p) \/ KeyAs(p, loc[p].kind) >= at BY <2>1, <2>2 DEF Sifted
      <3>2. ~(Shown(p) /\ KeyAs(p, loc[p].kind) >= at) BY <2>1 DEF ToPrune, LocalKey
      <3>. QED BY <2>2, <3>1, <3>2, ShownOrHeld
    <2>. QED BY <2>2 DEF AllHeld
  <1>5. \/ phase' = "apply"
        \/ phase' = "done" /\ (status' = "ok" => ~bad)
    BY DEF Pruned, Finish
  <1>. QED BY <1>1, <1>2, <1>3, <1>4, <1>5, ItemAssumption, MirrorAfter

LEMMA MirrorStep == Inv /\ OpenLoose /\ Mirrored /\ [Next]_vars => Mirrored'
  <1>. SUFFICES ASSUME Inv, OpenLoose, Mirrored, [Next]_vars PROVE Mirrored' OBVIOUS
  <1>1. PICK m, s, k : m = loc' /\ s = open' /\ k = at' OBVIOUS
  <1>2. CASE UNCHANGED vars
    <2>1. UNCHANGED <<rec, obj, opts, orig, loc, open, at, phase, pass, bad, status>>
      BY <1>2 DEF vars, world, pruning
    <2>2. UNCHANGED <<frames, cur, spool>> BY <1>2 DEF vars, applying, syncing
    <2>3. ASSUME NEW p \in Paths, Making(p) PROVE Making(p)'
      <3>1. DirRec(p) /\ ~IsDir(p) BY <2>3, MakingIs
      <3>2. ~IsDir(p)' BY <2>1, <3>1 DEF IsDir, Found, Disk, DiskIn
      <3>. QED BY <2>1, <2>2, <2>3, <3>1, <3>2, MakingSame
    <2>. QED BY <1>1, <2>1, <2>3, MirrorAfter DEF Mirrored
  <1>3. CASE Start \/ Vet \/ Make \/ Prep \/ Decide \/ (\E p \in Paths : Land(p)) \/ Synced
    BY <1>3, EarlyMirror
  <1>4. CASE PopFrame \/ Apply \/ SkipExcluded \/ ApplyFails BY <1>4, ApplyMirror
  <1>10. CASE ClearConflict BY <1>10, ClearConflictMirror
  <1>5. CASE Streamed \/ Place \/ Resettle BY <1>5, PlaceMirror
  <1>6. CASE Applied BY <1>6, AppliedMirror
  <1>7. CASE CloseExtra \/ Prune \/ Pruned BY <1>7, CloseExtraMirror, PruneMirror, PrunedMirror
  <1>8. CASE Cut
    <2>1. UNCHANGED <<rec, obj, opts, orig>> /\ phase' = "done" /\ status' = "cut"
      BY <1>8 DEF Cut, world
    <2>. QED BY <1>1, <2>1, MirrorAfter
  <1>9. CASE Again
    <2>1. phase' = "start" /\ at' = 0 /\ pass' = 1 BY <1>9 DEF Again
    <2>. QED BY <2>1 DEF Mirrored
  <1>. QED BY <1>2, <1>3, <1>4, <1>5, <1>6, <1>7, <1>8, <1>9, <1>10 DEF Next

\* A pull --delete --yes that ends well leaves nothing that is its own to remove,
\* in any tree and on any filesystem, also after the apply that follows the
\* removals (remove_extras, _mirror_extras).
THEOREM MirrorIsComplete == Spec => []MirrorComplete
  <1>1. Init => Mirrored BY DEF Init, Fresh, Mirrored
  <1>2. (Inv /\ OpenLoose) /\ Mirrored /\ [Next]_vars => Mirrored' BY MirrorStep
  <1>3. Mirrored => MirrorComplete
    <2>. SUFFICES ASSUME Mirrored, Done, status = "ok", opts.delete = "yes",
                         NEW p \in Paths \ {Root}, loc[p] # None
                  PROVE  \E q \in Paths : InSubtree(p, q) /\ loc[q] # None /\ Spared(q)
      BY DEF MirrorComplete
    <2>1. Held(loc, p) BY DEF Mirrored, Done, AllHeld
    <2>2. \A q \in Paths : SparedIn(loc, q) => Spared(q) BY DEF SparedIn, Spared
    <2>. QED BY <2>1, <2>2 DEF Held
  <1>. QED BY <1>1, <1>2, <1>3, LooseHolds, PTL DEF Spec

=============================================================================
