---------------------------- MODULE PullRoot_proofs ----------------------------
(***************************************************************************)
(* Proofs about PullRoot, for every set of worlds, any record, object and  *)
(* options, and any number of failures, interruptions and kills.           *)
(***************************************************************************)
EXTENDS PullRoot, TLAPS

\* The record, the options and what the first pull met never change.
Fixed == /\ rec.kind \in Kinds /\ rec.mode \in Modes /\ rec.mtime \in Nat \cup {NoMtime}
         /\ rec.kind = "link" => rec.what \in Data

\* Every old item is the first pull's, and one in the way of a recorded file or
\* directory is somewhere until a pull has ended well.
Owned == \A slot \in {out, old, aside} : Theirs(slot) => orig # None /\ slot.kind = orig.kind
Somewhere == Theirs(out) \/ old # None \/ left
Safe == HasData /\ orig # None /\ orig.kind # rec.kind /\ status # "ok" => Somewhere

Inv == Fixed /\ IInv /\ Owned /\ Safe

USE DEF Goto, Stays, world, stage

-----------------------------------------------------------------------------
(* What the verdicts and the writes return.                                *)

\* None is no item, and an item is the old one or this pull's.
LEMMA NoneNoItem == ASSUME NEW x \in Items PROVE x # None
  BY RootAssumption

LEMMA Owners == ASSUME NEW x \in Items PROVE x.by \in {"old", "new"}
  BY DEF Items

\* What a download makes, and a placed link, is an item of this pull's, of the
\* recorded kind.
LEMMA MadeItem ==
  ASSUME NEW k \in Kinds, NEW d \in Data, NEW m \in Modes
  PROVE  Made(k, d, m) \in Items /\ Mine(Made(k, d, m)) /\ Made(k, d, m).kind = k
  <1>1. Made(k, d, m) \in Items
    BY RootAssumption DEF Made, Items
  <1>. QED BY <1>1, NoneNoItem DEF Made, Mine

LEMMA LinkItem ==
  ASSUME Fixed, rec.kind = "link", NEW t \in Nat
  PROVE  /\ LinkAt \in Items /\ Mine(LinkAt) /\ LinkAt.kind = "link"
         /\ LET l == [LinkAt EXCEPT !.mtime = t] IN l \in Items /\ Mine(l) /\ l.kind = "link"
  <1>1. LinkAt \in Items /\ [LinkAt EXCEPT !.mtime = t] \in Items
    BY RootAssumption DEF LinkAt, Items, Fixed, Kinds
  <1>. QED BY <1>1, NoneNoItem DEF LinkAt, Mine

\* A changed mode or time leaves an item an item, of the same kind and owner.
Like(x, y) == x \in Items /\ x.kind = y.kind /\ x.by = y.by
Similar == out' = out \/ (out # None /\ Like(out', out))
LEMMA RemodedLike ==
  ASSUME NEW x \in Items, NEW m \in Modes
  PROVE  Like([x EXCEPT !.mode = m], x)
  BY DEF Like, Items
LEMMA StampedLike ==
  ASSUME Fixed, NEW x \in Items
  PROVE  /\ Like(Stamped(rec, x), x)
         /\ Like([Stamped(rec, x) EXCEPT !.mode = x.mode], x)
         /\ Like([Stamped(rec, x) EXCEPT !.mtime = x.mtime], x)
  BY DEF Like, Items, Stamped, Fixed

\* Only a link is placed, and only a directory moved aside for one.
LEMMA RepairKinds ==
  ASSUME NEW r, NEW i
  PROVE  Repair(r, i) \in {"missing", "error", "stamp"} /\ (Repair(r, i) = "stamp" => i # None)
  BY DEF Repair
LEMMA OrderedKinds ==
  ASSUME NEW r, NEW i
  PROVE  /\ Ordered(r, i) \in {"missing", "error", "stamp", "keep", "conflict"}
         /\ Ordered(r, i) = "stamp" => i # None
  BY RepairKinds DEF Ordered, Kept
LEMMA OtherKinds ==
  ASSUME NEW r, NEW i, NEW d, NEW u
  PROVE  /\ ApplyOther(r, i, d, u) \in {"missing", "error", "stamp", "stale", "keep", "conflict"}
         /\ ApplyOther(r, i, d, u) = "stamp" => i # None
  BY RepairKinds, OrderedKinds DEF ApplyOther
LEMMA SettleKinds ==
  ASSUME NEW r, NEW i
  PROVE  /\ SettleVerdict(r, i, FALSE) \in {"keep", "error", "stamp"}
         /\ SettleVerdict(r, i, FALSE) = "stamp" => i # None
  BY DEF SettleVerdict
LEMMA VerdictKinds ==
  /\ RootVerdict \in {"place", "defer"} => rec.kind = "link"
  /\ RootVerdict = "defer" => out # None /\ out.kind = "dir"
  /\ RootVerdict = "stamp" => out # None
  <1>1. CASE rec.kind = "dir"
    BY <1>1, SettleKinds DEF RootVerdict
  <1>2. CASE rec.kind = "link"
    BY <1>2 DEF RootVerdict, ApplyVerdict, ApplyLink, Kept
  <1>3. CASE rec.kind \notin {"dir", "link"}
    <2>. DEFINE d == IF rec.kind = "file" THEN "D" ELSE None
    <2>1. RootVerdict = ApplyVerdict(rec, out, d, ApplyUpdate, FALSE)
      BY <1>3 DEF RootVerdict
    <2>2. \/ RootVerdict \in {"keep", "stale"}
          \/ RootVerdict = ApplyOther(rec, out, d, ApplyUpdate)
      BY <1>3, <2>1 DEF ApplyVerdict
    <2>. QED BY <2>2, OtherKinds
  <1>. QED BY <1>1, <1>2, <1>3

-----------------------------------------------------------------------------
(* The initial states, and one lemma per action: XDoes is what X does to    *)
(* what the invariant is about, XKeeps that it keeps it.                    *)

LEMMA Initially == Init => Inv
  <1>. SUFFICES ASSUME Init PROVE Inv
    OBVIOUS
  <1>1. PICK w \in Worlds : rec = w.rec /\ obj = w.obj /\ out = w.loc
    BY DEF Init
  <1>2. Fixed /\ orig = out /\ out \in Slot /\ (out # None => out.by = "old") /\ obj \in Data \cup {None}
    BY <1>1, RootAssumption, NoneNoItem DEF Init, Fixed, Slot
  <1>3. TypeOK
    BY <1>2 DEF Init, Unstaged, TypeOK, Slot
  <1>4. OneCopy /\ StepsFind
    BY <1>2, RootAssumption DEF Init, Unstaged, OneCopy, StepsFind, Theirs, Mine, TypeOK
  <1>5. Owned /\ Safe
    BY <1>2 DEF Init, Unstaged, Owned, Safe, Somewhere, Theirs
  <1>. QED BY <1>2, <1>3, <1>4, <1>5 DEF Inv, IInv

LEMMA GateKeeps == ASSUME Inv, Gate PROVE Inv'
  <1>1. Fixed' /\ TypeOK'
    BY DEF Inv, IInv, Fixed, TypeOK, StepsFind, OneCopy, Gate, Slot
  <1>2. OneCopy'
    BY DEF Inv, IInv, OneCopy, StepsFind, Theirs, Mine, HasData, RootConflict, Gate,
           Slot
  <1>3. StepsFind'
    BY DEF Inv, IInv, TypeOK, OneCopy, StepsFind, Theirs, Mine, HasData, RootConflict,
           Gate, Slot
  <1>4. Owned' /\ Safe'
    BY DEF Inv, IInv, OneCopy, StepsFind, Owned, Safe, Somewhere, Theirs, Mine, HasData,
           Gate, Slot
  <1>. QED BY <1>1, <1>2, <1>3, <1>4 DEF Inv, IInv

LEMMA MakeStageKeeps == ASSUME Inv, MakeStage PROVE Inv'
  <1>1. Fixed' /\ TypeOK'
    BY DEF Inv, IInv, Fixed, TypeOK, StepsFind, OneCopy, MakeStage, Slot
  <1>2. OneCopy'
    BY DEF Inv, IInv, OneCopy, StepsFind, Theirs, Mine, HasData, RootConflict,
           MakeStage, Slot
  <1>3. StepsFind'
    BY DEF Inv, IInv, TypeOK, OneCopy, StepsFind, Theirs, Mine, HasData, RootConflict,
           MakeStage, Slot
  <1>4. Owned' /\ Safe'
    BY DEF Inv, IInv, OneCopy, StepsFind, Owned, Safe, Somewhere, Theirs, Mine, HasData,
           MakeStage, Slot
  <1>. QED BY <1>1, <1>2, <1>3, <1>4 DEF Inv, IInv

LEMMA JudgeKeeps == ASSUME Inv, Judge PROVE Inv'
  <1>1. Fixed' /\ TypeOK'
    BY DEF Inv, IInv, Fixed, TypeOK, StepsFind, OneCopy, Judge, Slot
  <1>2. OneCopy'
    BY DEF Inv, IInv, OneCopy, StepsFind, Theirs, Mine, HasData, RootConflict, Judge,
           Slot
  <1>3. StepsFind'
    BY DEF Inv, IInv, TypeOK, OneCopy, StepsFind, Theirs, Mine, HasData, RootConflict,
           Judge, Slot
  <1>4. Owned' /\ Safe'
    BY DEF Inv, IInv, OneCopy, StepsFind, Owned, Safe, Somewhere, Theirs, Mine, HasData,
           Judge, Slot
  <1>. QED BY <1>1, <1>2, <1>3, <1>4 DEF Inv, IInv

LEMMA PrepDoes ==
  ASSUME Inv, Prep
  PROVE  /\ pc = "prep" /\ pc' = verdict /\ Similar /\ prep' \in Modes \cup {None}
        
         /\ UNCHANGED <<rec, obj, orig, left, aside, new, old, staged, moved, swapped>>
         /\ UNCHANGED status
  BY RemodedLike, NoneNoItem, RootAssumption
     DEF Inv, IInv, TypeOK, Slot, Items, Prep, Similar

LEMMA PrepKeeps == ASSUME Inv, Prep PROVE Inv'
  <1>1. Fixed' /\ TypeOK'
    BY PrepDoes, NoneNoItem
       DEF Inv, IInv, Fixed, TypeOK, StepsFind, OneCopy, Similar, Like, Slot
  <1>2. OneCopy'
    BY PrepDoes, NoneNoItem
       DEF Inv, IInv, OneCopy, StepsFind, Theirs, Mine, HasData, RootConflict, Similar,
           Like, Slot
  <1>3. StepsFind'
    BY PrepDoes, NoneNoItem
       DEF Inv, IInv, TypeOK, OneCopy, StepsFind, Theirs, Mine, HasData, RootConflict,
           Similar, Like, Slot
  <1>4. Owned' /\ Safe'
    BY PrepDoes, NoneNoItem
       DEF Inv, IInv, OneCopy, StepsFind, Owned, Safe, Somewhere, Theirs, Mine, HasData,
           Similar, Like, Slot
  <1>. QED BY <1>1, <1>2, <1>3, <1>4 DEF Inv, IInv

LEMMA GetObjectDoes ==
  ASSUME Inv, GetObject
  PROVE  /\ pc = "download"
         /\ UNCHANGED <<rec, orig, left, aside, old, staged, moved, swapped, obj, prep, status>>
         /\ \/ pc' = "finally" /\ UNCHANGED <<out, new>>
            \/ staged /\ pc' = "out" /\ UNCHANGED out /\ new' \in Items /\ Mine(new')
               /\ new'.kind = rec.kind
            \/ ~staged /\ pc' = "apply" /\ UNCHANGED new /\ out' \in Items /\ Mine(out')
               /\ out'.kind = rec.kind
  <1>1. CASE rec.kind = "file" /\ obj = None
    BY <1>1 DEF GetObject
  <1>2. CASE ~(rec.kind = "file" /\ obj = None)
    <2>. DEFINE d == IF rec.kind = "file" THEN obj ELSE Blank
    <2>1. d \in Data
      BY <1>2, RootAssumption DEF Inv, IInv, TypeOK
    <2>2. PICK mode \in {Umask} \cup (IF ~staged /\ out # None THEN {out.mode} ELSE {}) :
            IF staged THEN new' = Made(rec.kind, d, mode) /\ pc' = "out" /\ UNCHANGED out
                      ELSE out' = Made(rec.kind, d, mode) /\ pc' = "apply" /\ UNCHANGED new
      BY <1>2 DEF GetObject
    <2>3. mode \in Modes
      BY <2>2, RootAssumption DEF Inv, IInv, TypeOK, Slot, Items
    <2>4. Made(rec.kind, d, mode) \in Items /\ Mine(Made(rec.kind, d, mode))
          /\ Made(rec.kind, d, mode).kind = rec.kind
      BY <2>1, <2>3, MadeItem DEF Inv, Fixed
    <2>. QED BY <1>2, <2>2, <2>4 DEF GetObject
  <1>. QED BY <1>1, <1>2

LEMMA GetObjectKeeps == ASSUME Inv, GetObject PROVE Inv'
  <1>1. Fixed' /\ TypeOK'
    BY GetObjectDoes, NoneNoItem DEF Inv, IInv, Fixed, TypeOK, StepsFind, OneCopy, Slot
  <1>2. OneCopy'
    BY GetObjectDoes, NoneNoItem
       DEF Inv, IInv, OneCopy, StepsFind, Theirs, Mine, HasData, RootConflict, Slot
  <1>3. StepsFind'
    BY GetObjectDoes, NoneNoItem
       DEF Inv, IInv, TypeOK, OneCopy, StepsFind, Theirs, Mine, HasData, RootConflict,
           Slot
  <1>4. Owned' /\ Safe'
    BY GetObjectDoes, NoneNoItem
       DEF Inv, IInv, Fixed, TypeOK, OneCopy, StepsFind, Owned, Safe, Somewhere, Theirs,
           Mine, HasData, RootConflict, Slot
  <1>. QED BY <1>1, <1>2, <1>3, <1>4 DEF Inv, IInv

LEMMA SwapOutKeeps == ASSUME Inv, SwapOut PROVE Inv'
  <1>1. Fixed' /\ TypeOK'
    BY DEF Inv, IInv, Fixed, TypeOK, StepsFind, OneCopy, SwapOut, Slot
  <1>2. OneCopy'
    BY Owners
       DEF Inv, IInv, Fixed, TypeOK, OneCopy, StepsFind, Owned, Safe, Somewhere, Theirs,
           Mine, HasData, RootConflict, SwapOut, Slot
  <1>3. StepsFind'
    BY DEF Inv, IInv, TypeOK, OneCopy, StepsFind, Theirs, Mine, HasData, RootConflict,
           SwapOut, Slot
  <1>4. Owned' /\ Safe'
    BY DEF Inv, IInv, OneCopy, StepsFind, Owned, Safe, Somewhere, Theirs, Mine, HasData,
           SwapOut, Slot
  <1>. QED BY <1>1, <1>2, <1>3, <1>4 DEF Inv, IInv

LEMMA SwapInKeeps == ASSUME Inv, SwapIn PROVE Inv'
  <1>1. Fixed' /\ TypeOK'
    BY DEF Inv, IInv, Fixed, TypeOK, StepsFind, OneCopy, SwapIn, Slot
  <1>2. OneCopy'
    BY DEF Inv, IInv, OneCopy, StepsFind, Theirs, Mine, HasData, RootConflict, SwapIn,
           Slot
  <1>3. StepsFind'
    BY DEF Inv, IInv, TypeOK, OneCopy, StepsFind, Theirs, Mine, HasData, RootConflict,
           SwapIn, Slot
  <1>4. Owned' /\ Safe'
    BY DEF Inv, IInv, OneCopy, StepsFind, Owned, Safe, Somewhere, Theirs, Mine, HasData,
           SwapIn, Slot
  <1>. QED BY <1>1, <1>2, <1>3, <1>4 DEF Inv, IInv

LEMMA SwapFailsDoes ==
  ASSUME Inv, SwapFails
  PROVE  /\ pc = "in" /\ pc' = "except"
         /\ UNCHANGED <<rec, obj, orig, left, staged, swapped, aside, prep, status>>
         /\ new' \in {new, None}
         /\ \/ out' = old /\ old' = None /\ moved' = FALSE
            \/ out' \in {new, None} /\ UNCHANGED <<old, moved>>
  BY DEF SwapFails

LEMMA SwapFailsKeeps == ASSUME Inv, SwapFails PROVE Inv'
  <1>1. Fixed' /\ TypeOK'
    BY SwapFailsDoes, NoneNoItem DEF Inv, IInv, Fixed, TypeOK, StepsFind, OneCopy, Slot
  <1>2. OneCopy'
    <2>1. /\ old # None /\ Theirs(old) /\ aside = None /\ ~left
          /\ new # None /\ Mine(new) /\ new.kind = rec.kind /\ HasData
      BY SwapFailsDoes DEF Inv, IInv, OneCopy, StepsFind
    <2>2. Theirs(old) => ~Mine(old)
      BY DEF Theirs, Mine
    <2>3. Mine(new) => ~Theirs(new)
      BY DEF Theirs, Mine
    <2>4. CASE out' = old /\ old' = None
      BY <2>1, <2>2, <2>4, SwapFailsDoes DEF OneCopy, Theirs, Mine, HasData
    <2>5. CASE out' \in {new, None} /\ old' = old
      BY <2>1, <2>3, <2>5, SwapFailsDoes DEF OneCopy, Theirs, Mine, HasData
    <2>. QED BY SwapFailsDoes, <2>4, <2>5
  <1>3. StepsFind'
    <2>1. old' # None => moved'
      <3>1. moved = TRUE
        BY SwapFailsDoes DEF Inv, IInv, TypeOK, StepsFind
      <3>2. CASE old' = None
        BY <3>2
      <3>3. CASE UNCHANGED <<old, moved>>
        BY <3>1, <3>3
      <3>. QED BY SwapFailsDoes, <3>2, <3>3
    <2>2. status' # "ok"
      BY SwapFailsDoes DEF Inv, IInv, StepsFind
    <2>. QED BY SwapFailsDoes, <2>1, <2>2 DEF StepsFind
  <1>4. Owned' /\ Safe'
    BY SwapFailsDoes, NoneNoItem
       DEF Inv, IInv, OneCopy, StepsFind, Owned, Safe, Somewhere, Theirs, Mine, HasData,
           Slot
  <1>. QED BY <1>1, <1>2, <1>3, <1>4 DEF Inv, IInv

LEMMA ApplyDoes ==
  ASSUME Inv, Apply
  PROVE  /\ pc = "apply" /\ Similar
         /\ UNCHANGED <<rec, obj, orig, left, aside, new, old, staged, moved, swapped>>
         /\ UNCHANGED <<prep, status>>
         /\ \/ pc' = "aside" /\ rec.kind = "link" /\ out # None /\ out.kind = "dir" /\ UNCHANGED out
            \/ pc' = "link" /\ rec.kind = "link"
            \/ pc' = "end"
  <1>1. pc = "apply" /\ out \in Slot
    BY DEF Inv, IInv, TypeOK, Apply
  <1>2. Similar
    <2>1. CASE RootVerdict = "stamp"
      <3>1. out # None /\ out \in Items /\ out' = Stamped(rec, out)
        BY <1>1, <2>1, VerdictKinds DEF Apply, Slot
      <3>. QED BY <3>1, StampedLike DEF Inv, Similar
    <2>2. CASE RootVerdict # "stamp"
      BY <2>2 DEF Apply, Similar
    <2>. QED BY <2>1, <2>2
  <1>. QED BY <1>1, <1>2, VerdictKinds DEF Apply

LEMMA ApplyKeeps == ASSUME Inv, Apply PROVE Inv'
  <1>1. Fixed' /\ TypeOK'
    BY ApplyDoes, NoneNoItem
       DEF Inv, IInv, Fixed, TypeOK, StepsFind, OneCopy, Similar, Like, Slot
  <1>2. OneCopy'
    BY ApplyDoes, NoneNoItem
       DEF Inv, IInv, OneCopy, StepsFind, Theirs, Mine, HasData, RootConflict, Similar,
           Like, Slot
  <1>3. StepsFind'
    BY Owners, ApplyDoes, NoneNoItem
       DEF Inv, IInv, TypeOK, OneCopy, StepsFind, Theirs, Mine, HasData, RootConflict,
           Similar, Like, Slot
  <1>4. Owned' /\ Safe'
    BY ApplyDoes, NoneNoItem
       DEF Inv, IInv, OneCopy, StepsFind, Owned, Safe, Somewhere, Theirs, Mine, HasData,
           Similar, Like, Slot
  <1>. QED BY <1>1, <1>2, <1>3, <1>4 DEF Inv, IInv

LEMMA StampFailsDoes ==
  ASSUME Inv, StampFails
  PROVE  /\ pc = "apply" /\ pc' = "end" /\ Similar
         /\ UNCHANGED <<rec, obj, orig, left, aside, new, old, staged, moved, swapped>>
         /\ UNCHANGED <<prep, status>>
  BY VerdictKinds, StampedLike DEF Inv, IInv, TypeOK, Slot, StampFails, Similar

LEMMA StampFailsKeeps == ASSUME Inv, StampFails PROVE Inv'
  <1>1. Fixed' /\ TypeOK'
    BY StampFailsDoes, NoneNoItem
       DEF Inv, IInv, Fixed, TypeOK, StepsFind, OneCopy, Similar, Like, Slot
  <1>2. OneCopy'
    BY StampFailsDoes, NoneNoItem
       DEF Inv, IInv, OneCopy, StepsFind, Theirs, Mine, HasData, RootConflict, Similar,
           Like, Slot
  <1>3. StepsFind'
    BY StampFailsDoes, NoneNoItem
       DEF Inv, IInv, TypeOK, OneCopy, StepsFind, Theirs, Mine, HasData, RootConflict,
           Similar, Like, Slot
  <1>4. Owned' /\ Safe'
    BY StampFailsDoes, NoneNoItem
       DEF Inv, IInv, OneCopy, StepsFind, Owned, Safe, Somewhere, Theirs, Mine, HasData,
           Similar, Like, Slot
  <1>. QED BY <1>1, <1>2, <1>3, <1>4 DEF Inv, IInv

LEMMA LinkAsideKeeps == ASSUME Inv, LinkAside PROVE Inv'
  <1>1. Fixed' /\ TypeOK'
    BY DEF Inv, IInv, Fixed, TypeOK, StepsFind, OneCopy, LinkAside, Slot
  <1>2. OneCopy'
    BY DEF Inv, IInv, OneCopy, StepsFind, Theirs, Mine, HasData, RootConflict,
           LinkAside, Slot
  <1>3. StepsFind'
    BY DEF Inv, IInv, TypeOK, OneCopy, StepsFind, Theirs, Mine, HasData, RootConflict,
           LinkAside, Slot
  <1>4. Owned' /\ Safe'
    BY DEF Inv, IInv, OneCopy, StepsFind, Owned, Safe, Somewhere, Theirs, Mine, HasData,
           LinkAside, Slot
  <1>. QED BY <1>1, <1>2, <1>3, <1>4 DEF Inv, IInv

LEMMA LinkDoes ==
  ASSUME Inv, Link
  PROVE  /\ pc = "link" /\ rec.kind = "link"
         /\ pc' = (IF aside # None THEN "retire" ELSE "end")
         /\ out' \in Items /\ Mine(out') /\ out'.kind = "link"
         /\ UNCHANGED <<rec, obj, orig, left, aside, new, old, staged, moved, swapped>>
         /\ UNCHANGED <<prep, status>>
  BY LinkItem, RootAssumption DEF Inv, IInv, StepsFind, Link

LEMMA LinkKeeps == ASSUME Inv, Link PROVE Inv'
  <1>1. Fixed' /\ TypeOK'
    BY LinkDoes, NoneNoItem DEF Inv, IInv, Fixed, TypeOK, StepsFind, OneCopy, Slot
  <1>2. OneCopy'
    BY LinkDoes, NoneNoItem
       DEF Inv, IInv, OneCopy, StepsFind, Theirs, Mine, HasData, RootConflict, Slot
  <1>3. StepsFind'
    BY LinkDoes, NoneNoItem
       DEF Inv, IInv, TypeOK, OneCopy, StepsFind, Theirs, Mine, HasData, RootConflict,
           Slot
  <1>4. Owned' /\ Safe'
    BY LinkDoes, NoneNoItem
       DEF Inv, IInv, OneCopy, StepsFind, Owned, Safe, Somewhere, Theirs, Mine, HasData,
           Slot
  <1>. QED BY <1>1, <1>2, <1>3, <1>4 DEF Inv, IInv

LEMMA LinkUnstampedDoes ==
  ASSUME Inv, LinkUnstamped
  PROVE  /\ pc = "link" /\ rec.kind = "link"
         /\ pc' = (IF aside # None THEN "retire" ELSE "end")
         /\ out' \in Items /\ Mine(out') /\ out'.kind = "link"
         /\ UNCHANGED <<rec, obj, orig, left, aside, new, old, staged, moved, swapped>>
         /\ UNCHANGED <<prep, status>>
  BY LinkItem, RootAssumption DEF Inv, IInv, StepsFind, LinkUnstamped

LEMMA LinkUnstampedKeeps == ASSUME Inv, LinkUnstamped PROVE Inv'
  <1>1. Fixed' /\ TypeOK'
    BY LinkUnstampedDoes, NoneNoItem
       DEF Inv, IInv, Fixed, TypeOK, StepsFind, OneCopy, Slot
  <1>2. OneCopy'
    BY LinkUnstampedDoes, NoneNoItem
       DEF Inv, IInv, OneCopy, StepsFind, Theirs, Mine, HasData, RootConflict, Slot
  <1>3. StepsFind'
    BY LinkUnstampedDoes, NoneNoItem
       DEF Inv, IInv, TypeOK, OneCopy, StepsFind, Theirs, Mine, HasData, RootConflict,
           Slot
  <1>4. Owned' /\ Safe'
    BY LinkUnstampedDoes, NoneNoItem
       DEF Inv, IInv, OneCopy, StepsFind, Owned, Safe, Somewhere, Theirs, Mine, HasData,
           Slot
  <1>. QED BY <1>1, <1>2, <1>3, <1>4 DEF Inv, IInv

LEMMA LinkFailsDoes ==
  ASSUME Inv, LinkFails
  PROVE  /\ pc = "link" /\ rec.kind = "link" /\ pc' = "except"
        
         /\ UNCHANGED <<rec, obj, orig, left, new, old, staged, moved, swapped, prep, status>>
         /\ \/ aside # None /\ out' = aside /\ aside' = None
            \/ UNCHANGED <<out, aside>>
            \/ out' \in Items /\ Mine(out') /\ out'.kind = "link" /\ UNCHANGED aside
  BY LinkItem, RootAssumption DEF Inv, IInv, StepsFind, LinkFails

LEMMA LinkFailsKeeps == ASSUME Inv, LinkFails PROVE Inv'
  <1>1. Fixed' /\ TypeOK'
    BY LinkFailsDoes, NoneNoItem DEF Inv, IInv, Fixed, TypeOK, StepsFind, OneCopy, Slot
  <1>2. OneCopy'
    BY LinkFailsDoes, NoneNoItem
       DEF Inv, IInv, OneCopy, StepsFind, Theirs, Mine, HasData, RootConflict, Slot
  <1>3. StepsFind'
    BY LinkFailsDoes, NoneNoItem
       DEF Inv, IInv, TypeOK, OneCopy, StepsFind, Theirs, Mine, HasData, RootConflict,
           Slot
  <1>4. Owned' /\ Safe'
    BY LinkFailsDoes, NoneNoItem
       DEF Inv, IInv, OneCopy, StepsFind, Owned, Safe, Somewhere, Theirs, Mine, HasData,
           Slot
  <1>. QED BY <1>1, <1>2, <1>3, <1>4 DEF Inv, IInv

LEMMA LinkRetireKeeps == ASSUME Inv, LinkRetire PROVE Inv'
  <1>1. Fixed' /\ TypeOK'
    BY DEF Inv, IInv, Fixed, TypeOK, StepsFind, OneCopy, LinkRetire, Slot
  <1>2. OneCopy'
    BY DEF Inv, IInv, OneCopy, StepsFind, Theirs, Mine, HasData, RootConflict,
           LinkRetire, Slot
  <1>3. StepsFind'
    BY DEF Inv, IInv, TypeOK, OneCopy, StepsFind, Theirs, Mine, HasData, RootConflict,
           LinkRetire, Slot
  <1>4. Owned' /\ Safe'
    BY DEF Inv, IInv, OneCopy, StepsFind, Owned, Safe, Somewhere, Theirs, Mine, HasData,
           LinkRetire, Slot
  <1>. QED BY <1>1, <1>2, <1>3, <1>4 DEF Inv, IInv

LEMMA EndsDoes ==
  ASSUME Inv, Ends
  PROVE  /\ pc \in {"finally", "end"} /\ pc' = "done" /\ prep' = None /\ Similar
         /\ UNCHANGED <<rec, obj, orig, left, aside, moved, swapped>>
         /\ new' \in {new, None} /\ old' \in {old, None} /\ staged' \in BOOLEAN
         /\ (old # None /\ Preserved) => old' = old
         /\ status' = "ok" => pc # "except" /\ st = 0
         /\ pc # "except" /\ st = 0 => status' = "ok"
  BY RemodedLike DEF Inv, IInv, TypeOK, Slot, Ends, Leaving, Similar

LEMMA EndsKeeps == ASSUME Inv, Ends PROVE Inv'
  <1>1. Fixed' /\ TypeOK'
    BY EndsDoes, NoneNoItem
       DEF Inv, IInv, Fixed, TypeOK, StepsFind, OneCopy, Similar, Like, Slot, Preserved
  <1>2. OneCopy'
    BY EndsDoes, NoneNoItem
       DEF Inv, IInv, OneCopy, StepsFind, Theirs, Mine, HasData, RootConflict, Similar,
           Like, Slot, Preserved
  <1>3. StepsFind'
    BY EndsDoes, NoneNoItem
       DEF Inv, IInv, TypeOK, OneCopy, StepsFind, Theirs, Mine, HasData, RootConflict,
           Similar, Like, Slot, Preserved
  <1>4. Owned' /\ Safe'
    BY EndsDoes, NoneNoItem
       DEF Inv, IInv, OneCopy, StepsFind, Owned, Safe, Somewhere, Theirs, Mine, HasData,
           Similar, Like, Slot, Preserved
  <1>. QED BY <1>1, <1>2, <1>3, <1>4 DEF Inv, IInv

LEMMA RaisedDoes ==
  ASSUME Inv, Raised
  PROVE  /\ pc = "except" /\ pc' = "done" /\ prep' = None /\ Similar
         /\ UNCHANGED <<rec, obj, orig, left, aside, moved, swapped>>
         /\ new' \in {new, None} /\ old' \in {old, None} /\ staged' \in BOOLEAN
         /\ (old # None /\ Preserved) => old' = old
         /\ status' = "ok" => pc # "except" /\ st = 0
         /\ pc # "except" /\ st = 0 => status' = "ok"
  BY RemodedLike DEF Inv, IInv, TypeOK, Slot, Raised, Leaving, Similar

LEMMA RaisedKeeps == ASSUME Inv, Raised PROVE Inv'
  <1>1. Fixed' /\ TypeOK'
    BY RaisedDoes, NoneNoItem
       DEF Inv, IInv, Fixed, TypeOK, StepsFind, OneCopy, Similar, Like, Slot, Preserved
  <1>2. OneCopy'
    BY RaisedDoes, NoneNoItem
       DEF Inv, IInv, OneCopy, StepsFind, Theirs, Mine, HasData, RootConflict, Similar,
           Like, Slot, Preserved
  <1>3. StepsFind'
    BY RaisedDoes, NoneNoItem
       DEF Inv, IInv, TypeOK, OneCopy, StepsFind, Theirs, Mine, HasData, RootConflict,
           Similar, Like, Slot, Preserved
  <1>4. Owned' /\ Safe'
    BY RaisedDoes, NoneNoItem
       DEF Inv, IInv, OneCopy, StepsFind, Owned, Safe, Somewhere, Theirs, Mine, HasData,
           Similar, Like, Slot, Preserved
  <1>. QED BY <1>1, <1>2, <1>3, <1>4 DEF Inv, IInv

LEMMA FailsKeeps == ASSUME Inv, Fails PROVE Inv'
  <1>1. Fixed' /\ TypeOK'
    BY DEF Inv, IInv, Fixed, TypeOK, StepsFind, OneCopy, Fails, Slot
  <1>2. OneCopy'
    BY DEF Inv, IInv, OneCopy, StepsFind, Theirs, Mine, HasData, RootConflict, Fails,
           Slot
  <1>3. StepsFind'
    BY DEF Inv, IInv, TypeOK, OneCopy, StepsFind, Theirs, Mine, HasData, RootConflict,
           Fails, Slot
  <1>4. Owned' /\ Safe'
    BY DEF Inv, IInv, OneCopy, StepsFind, Owned, Safe, Somewhere, Theirs, Mine, HasData,
           Fails, Slot
  <1>. QED BY <1>1, <1>2, <1>3, <1>4 DEF Inv, IInv

LEMMA VanishKeeps == ASSUME Inv, Vanish PROVE Inv'
  <1>1. Fixed' /\ TypeOK'
    BY DEF Inv, IInv, Fixed, TypeOK, StepsFind, OneCopy, Vanish, Slot
  <1>2. OneCopy'
    BY DEF Inv, IInv, OneCopy, StepsFind, Theirs, Mine, HasData, RootConflict, Vanish,
           Slot
  <1>3. StepsFind'
    BY DEF Inv, IInv, TypeOK, OneCopy, StepsFind, Theirs, Mine, HasData, RootConflict,
           Vanish, Slot
  <1>4. Owned' /\ Safe'
    BY DEF Inv, IInv, OneCopy, StepsFind, Owned, Safe, Somewhere, Theirs, Mine, HasData,
           Vanish, Slot
  <1>. QED BY <1>1, <1>2, <1>3, <1>4 DEF Inv, IInv

LEMMA KillKeeps == ASSUME Inv, Kill PROVE Inv'
  <1>1. Fixed' /\ TypeOK'
    BY DEF Inv, IInv, Fixed, TypeOK, StepsFind, OneCopy, Kill, Slot
  <1>2. OneCopy'
    BY DEF Inv, IInv, OneCopy, StepsFind, Theirs, Mine, HasData, RootConflict, Kill,
           Slot
  <1>3. StepsFind'
    BY DEF Inv, IInv, TypeOK, OneCopy, StepsFind, Theirs, Mine, HasData, RootConflict,
           Kill, Slot
  <1>4. Owned' /\ Safe'
    BY DEF Inv, IInv, OneCopy, StepsFind, Owned, Safe, Somewhere, Theirs, Mine, HasData,
           Kill, Slot
  <1>. QED BY <1>1, <1>2, <1>3, <1>4 DEF Inv, IInv

LEMMA AgainKeeps == ASSUME Inv, Again PROVE Inv'
  <1>1. Fixed' /\ TypeOK'
    BY DEF Inv, IInv, Fixed, TypeOK, StepsFind, OneCopy, Again, Slot
  <1>2. OneCopy'
    BY DEF Inv, IInv, OneCopy, StepsFind, Theirs, Mine, HasData, RootConflict, Again,
           Slot
  <1>3. StepsFind'
    BY RootAssumption
       DEF Inv, IInv, TypeOK, OneCopy, StepsFind, Theirs, Mine, HasData, RootConflict,
           Again, Slot
  <1>4. Owned' /\ Safe'
    BY DEF Inv, IInv, OneCopy, StepsFind, Owned, Safe, Somewhere, Theirs, Mine, HasData,
           Again, Slot
  <1>. QED BY <1>1, <1>2, <1>3, <1>4 DEF Inv, IInv

\* The invariant is inductive.
THEOREM Inductive == Spec => []Inv
  <1>1. Inv /\ [Next]_vars => Inv'
    <2>. SUFFICES ASSUME Inv, [Next]_vars PROVE Inv'
      OBVIOUS
    <2>1. CASE UNCHANGED vars
      BY <2>1
         DEF vars, Inv, IInv, Fixed, TypeOK, OneCopy, StepsFind, Owned, Safe, Somewhere,
                  Theirs, Mine, HasData, RootConflict
    <2>. QED BY <2>1, GateKeeps, MakeStageKeeps, JudgeKeeps, PrepKeeps, GetObjectKeeps, SwapOutKeeps,
                SwapInKeeps, SwapFailsKeeps, ApplyKeeps, StampFailsKeeps, LinkAsideKeeps, LinkKeeps,
                LinkUnstampedKeeps, LinkFailsKeeps, LinkRetireKeeps, EndsKeeps, RaisedKeeps, FailsKeeps,
                VanishKeeps, KillKeeps, AgainKeeps DEF Next
  <1>. QED BY Initially, <1>1, PTL DEF Spec

\* The variables of a pull keep their types.
THEOREM TypeCorrect == Spec => []TypeOK
  <1>1. Inv => TypeOK
    BY DEF Inv, IInv
  <1>. QED BY <1>1, Inductive, PTL

\* The old item is in one place, and every step finds what it needs.
THEOREM StepsAreSound == Spec => []IInv
  <1>1. Inv => IInv
    BY DEF Inv
  <1>. QED BY <1>1, Inductive, PTL

\* A pull over a root of another kind that fails or is killed costs nothing.
THEOREM NoFailureCostsTheRoot == Spec => []FailedKeepsRoot
  <1>1. Inv => FailedKeepsRoot
    BY DEF Inv, Safe, Somewhere, Theirs, FailedKeepsRoot
  <1>. QED BY <1>1, Inductive, PTL

-----------------------------------------------------------------------------
(* How what stands at the path relates to what this pull met there, and to *)
(* the record.                                                             *)

\* What was met is there, but for the writable prep, which the mode kept undoes.
Undone ==
  IF prep = None THEN out = met
  ELSE out # None /\ out.kind = "file" /\ [out EXCEPT !.mode = prep] = met

\* Under -u, what was met is newer than the record.
Newer == opts.update /\ met # None /\ met.kind = rec.kind /\ OrderedSide(rec, met) = "local"

\* The two ways a pull that warns about nothing ends.
Content(x) == opts.checksum /\ rec.kind = "file" /\ obj # None => x.data = obj
Ended == \/ Matches(rec, out) /\ Content(out)
         \/ opts.update /\ out = met /\ OrderedSide(rec, out) # "record"

\* Nothing is written before the download or the link, and nothing at all where
\* the local side is newer; a pull that has warned has written nothing.
Spares ==
  /\ rec.kind = "dir" => met # None /\ met.kind # "dir"
  /\ pc \in {"gate", "stage", "judge", "prep"} => prep = None
  /\ pc \in {"gate", "stage", "judge", "prep", "download", "out", "finally"} => Undone
  /\ pc = "apply" /\ ~HasData => Undone
  /\ pc = "judge" => rec.kind = "file"
  /\ pc \in {"stage", "download", "out", "in"} => HasData
  /\ pc = "prep" /\ ~HasData => verdict = "apply"
  /\ told => pc \in {"finally", "end", "except", "done"}
  /\ told /\ pc = "end" => out = met /\ prep = None
  /\ Newer => /\ out = met /\ prep = None
              /\ pc \in {"gate", "judge", "prep", "apply", "end", "finally", "except", "done"}
              /\ pc \in {"prep", "apply"} => ~HasData

\* The content is the object's before the record's mode and time are put on it.
Restores ==
  /\ pc \notin {"retire", "end", "except", "done"} => st = 0
  /\ pc = "prep" /\ verdict = "apply" /\ rec.kind = "file" => out # None /\ Content(out)
  /\ pc \in {"out", "in"} => Content(new)
  /\ pc = "apply" => Content(out) /\ (HasData => out # None)
  /\ pc = "finally" /\ ~told => prep = None /\ (opts.excluded \/ Ended)
  /\ pc \in {"retire", "end"} /\ st = 0 /\ ~told => Ended

Reached == Spares /\ Restores /\ LeftAlone /\ RootRestored

\* What the apply decides about each kind of record, and why.
LEMMA SideKinds ==
  ASSUME NEW r, NEW i
  PROVE  OrderedSide(r, i) \in {"local", "tie", "record"}
  BY DEF OrderedSide, NewerSide

LEMMA FileVerdict ==
  ASSUME rec.kind = "file", out # None
  PROVE  /\ RootVerdict \in {"keep", "stamp", "error"}
         /\ RootVerdict = "keep" => Matches(rec, out)
         /\ RootVerdict = "stamp" => out.kind = "file" /\ ~WrongSize(rec, out)
  <1>1. ApplyUpdate = FALSE
    BY DEF ApplyUpdate, HasData
  <1>2. RootVerdict = ApplyOther(rec, out, "D", FALSE)
    BY <1>1, RootAssumption DEF RootVerdict, ApplyVerdict
  <1>3. RootVerdict = IF Matches(rec, out) THEN "keep" ELSE Repair(rec, out)
    BY <1>2, RootAssumption DEF ApplyOther
  <1>. QED BY <1>3 DEF Repair

LEMMA DirVerdict ==
  ASSUME rec.kind = "dir"
  PROVE  /\ RootVerdict \in {"keep", "stamp", "error"}
         /\ RootVerdict = "keep" => Matches(rec, out)
         /\ RootVerdict = "stamp" => out.kind = "dir"
  BY DEF RootVerdict, SettleVerdict

\* A link or special record: the -u rule keeps its own kind alone.
Orders == opts.update /\ out # None /\ out.kind = rec.kind
LEMMA LinkVerdict ==
  ASSUME rec.kind = "link"
  PROVE  /\ RootVerdict \in {"keep", "conflict", "place", "defer"}
         /\ RootVerdict = "keep" => Matches(rec, out) \/ (Orders /\ OrderedSide(rec, out) # "record")
         /\ RootVerdict = "conflict" => Orders
         /\ RootVerdict \in {"place", "defer"} => ~(Orders /\ OrderedSide(rec, out) = "local")
  <1>1. ApplyUpdate = Orders
    BY DEF ApplyUpdate, UseUpdate, RootConflict, HasData, Orders
  <1>2. RootVerdict = ApplyLink(rec, out, ApplyUpdate, FALSE)
    BY RootAssumption DEF RootVerdict, ApplyVerdict, ApplyUpdate
  <1>3. CASE Matches(rec, out)
    BY <1>2, <1>3 DEF ApplyLink
  <1>4. CASE ~Matches(rec, out) /\ Orders /\ KeepsLocal(rec, out)
    <2>1. RootVerdict = Kept(rec, out)
      BY <1>1, <1>2, <1>4 DEF ApplyLink, Orders
    <2>. QED BY <1>4, <2>1 DEF Kept, KeepsLocal
  <1>5. CASE ~Matches(rec, out) /\ ~(Orders /\ KeepsLocal(rec, out))
    <2>1. RootVerdict \in {"place", "defer"}
      BY <1>1, <1>2, <1>5 DEF ApplyLink
    <2>. QED BY <1>5, <2>1 DEF KeepsLocal
  <1>. QED BY <1>3, <1>4, <1>5

LEMMA SpecialVerdict ==
  ASSUME rec.kind = "special"
  PROVE  /\ RootVerdict \in {"keep", "conflict", "stamp", "error"}
         /\ RootVerdict = "keep" => Matches(rec, out) \/ (Orders /\ OrderedSide(rec, out) # "record")
         /\ RootVerdict = "conflict" => Orders
         /\ RootVerdict = "stamp" =>
              out.kind = "special" /\ ~(Orders /\ OrderedSide(rec, out) = "local")
  <1>1. ApplyUpdate = Orders
    BY DEF ApplyUpdate, UseUpdate, RootConflict, HasData, Orders
  <1>2. RootVerdict = ApplyOther(rec, out, None, ApplyUpdate)
    BY RootAssumption DEF RootVerdict, ApplyVerdict
  <1>3. Repair(rec, out) \in {"error", "stamp"} /\ (Repair(rec, out) = "stamp" => out.kind = "special")
    BY DEF Repair, WrongSize
  <1>4. CASE Orders
    <2>1. RootVerdict = IF Matches(rec, out) THEN "keep" ELSE Ordered(rec, out)
      BY <1>1, <1>2, <1>4 DEF ApplyOther, Orders
    <2>. QED BY <1>3, <1>4, <2>1, SideKinds DEF Ordered, Kept, DirAtFile, WrongSize
  <1>5. CASE ~Orders
    <2>1. RootVerdict = IF Matches(rec, out) THEN "keep" ELSE Repair(rec, out)
      BY <1>1, <1>2, <1>5 DEF ApplyOther
    <2>. QED BY <1>3, <1>5, <2>1
  <1>. QED BY <1>4, <1>5

\* What the apply writes is as recorded.
LEMMA StampedMatches ==
  ASSUME Fixed, NEW x \in Items, x.kind = rec.kind, rec.kind # "link", ~WrongSize(rec, x)
  PROVE  Matches(rec, Stamped(rec, x)) /\ Stamped(rec, x).data = x.data
  <1>. DEFINE y == Stamped(rec, x)
  <1>1. /\ y \in Items /\ y.kind = rec.kind /\ y.data = x.data /\ y.mode = rec.mode
        /\ rec.mtime # NoMtime => y.mtime = rec.mtime /\ rec.mtime \in Nat
    BY DEF Fixed, Stamped, Items
  <1>2. y # None
    BY <1>1, NoneNoItem
  <1>3. ~MtimeShown(rec, y)
    BY <1>1, RootAssumption DEF MtimeShown, Within, Drift
  <1>4. y.kind = "file" => rec.what = RecordOf(y).what
    BY <1>1 DEF WrongSize, RecordOf
  <1>5. ~ModeDiffers(rec, y)
    BY <1>1 DEF ModeDiffers
  <1>. HIDE DEF y
  <1>6. ~StatusShows(rec, y)
    BY <1>1, <1>3, <1>4, <1>5 DEF StatusShows
  <1>. QED BY <1>1, <1>2, <1>6 DEF Matches, y

LEMMA LinkMatches ==
  ASSUME Fixed, rec.kind = "link"
  PROVE  Matches(rec, LinkAt)
  <1>1. LinkAt # None /\ LinkAt.kind = "link" /\ LinkAt.data = rec.what
    BY LinkItem, RootAssumption DEF LinkAt
  <1>2. LinkMtimes /\ rec.mtime # NoMtime => LinkAt.mtime = rec.mtime /\ rec.mtime \in Nat
    BY DEF LinkAt, Fixed
  <1>3. ~(LinkMtimes /\ MtimeShown(rec, LinkAt))
    BY <1>2, RootAssumption DEF MtimeShown, Within, Drift
  <1>. QED BY <1>1, <1>3 DEF Matches, StatusShows

\* What a file's own verdict says before the download.
LEMMA SingleVerdictTells ==
  ASSUME NEW i, NEW o
  PROVE  LET v == SingleVerdict(rec, i, o, opts) IN
         /\ v \in {"download", "apply", "keep", "conflict", "missing"}
         /\ v = "apply" => i # None /\ (opts.checksum => i.data = o)
         /\ v = "keep" => opts.update /\ i # None /\ OrderedSide(rec, i) # "record"
         /\ opts.update /\ i # None /\ OrderedSide(rec, i) = "local" => v \notin {"download", "apply"}
  BY SideKinds DEF SingleVerdict, SingleUpdate, SingleDiffers

-----------------------------------------------------------------------------
(* One lemma per action: what it leaves alone, and what it restores.       *)

LEMMA ReachedInitially == Init => Reached
  <1>. SUFFICES ASSUME Init PROVE Reached
    OBVIOUS
  <1>1. PICK w \in Worlds : rec = w.rec /\ out = w.loc
    BY DEF Init
  <1>2. rec.kind = "dir" => met # None /\ met.kind # "dir"
    BY <1>1, RootAssumption DEF Init
  <1>3. Spares
    BY <1>2 DEF Init, Spares, Undone, Newer
  <1>4. Restores /\ LeftAlone /\ RootRestored
    BY RootAssumption DEF Init, Restores, LeftAlone, RootRestored
  <1>. QED BY <1>3, <1>4 DEF Reached

LEMMA Ongoing ==
  ASSUME Spares', Restores', status' # "ok"
  PROVE  Reached'
  BY DEF Reached, Spares, LeftAlone, RootRestored, Newer

LEMMA GateReaches == ASSUME Inv, Reached, Gate PROVE Reached'
  <1>1. /\ pc = "gate" /\ out = met /\ prep = None /\ ~told /\ st = 0 /\ status # "ok"
        /\ UNCHANGED <<rec, obj, opts, met, out, prep, st, told, status>>
    BY DEF Inv, IInv, StepsFind, Reached, Spares, Restores, Undone, Gate
  <1>2. pc' \in {"finally", "stage", "judge", "prep"}
    BY DEF Gate
  <1>3. Spares'
    BY <1>1, <1>2 DEF Reached, Spares, Undone, Newer, Gate, HasData, RootConflict
  <1>4. Restores'
    BY <1>1, <1>2 DEF Reached, Restores, Ended, Content, Gate, HasData, RootConflict
  <1>. QED BY <1>1, <1>3, <1>4, Ongoing

LEMMA MakeStageReaches == ASSUME Inv, Reached, MakeStage PROVE Reached'
  <1>1. /\ pc = "stage" /\ pc' = "download" /\ ~told /\ status # "ok"
        /\ UNCHANGED <<rec, obj, opts, met, out, prep, st, told, status, verdict>>
    BY DEF Inv, IInv, StepsFind, Reached, Spares, MakeStage
  <1>2. Spares'
    BY <1>1 DEF Reached, Spares, Undone, Newer, HasData
  <1>3. Restores'
    BY <1>1 DEF Reached, Restores
  <1>. QED BY <1>1, <1>2, <1>3, Ongoing

LEMMA JudgeReaches == ASSUME Inv, Reached, Judge PROVE Reached'
  <1>. DEFINE v == SingleVerdict(rec, out, obj, opts)
  <1>1. /\ pc = "judge" /\ out = met /\ prep = None /\ ~told /\ st = 0 /\ status # "ok"
        /\ rec.kind = "file"
        /\ UNCHANGED <<rec, obj, opts, met, out, prep, st, status>>
    BY DEF Inv, IInv, StepsFind, Reached, Spares, Restores, Undone, Judge
  <1>2. /\ verdict' = v /\ told' = (v \in {"conflict", "missing"})
        /\ pc' = (IF v \in {"download", "apply"} THEN "prep" ELSE "finally")
    BY DEF Judge
  <1>3. /\ v \in {"download", "apply", "keep", "conflict", "missing"}
        /\ v = "apply" => out # None /\ (opts.checksum => out.data = obj)
        /\ v = "keep" => opts.update /\ out # None /\ OrderedSide(rec, out) # "record"
        /\ opts.update /\ out # None /\ OrderedSide(rec, out) = "local" =>
             v \notin {"download", "apply"}
    BY SingleVerdictTells
  <1>. HIDE DEF v
  <1>4. Spares'
    BY <1>1, <1>2, <1>3 DEF Reached, Spares, Undone, Newer, HasData
  <1>5. Restores'
    BY <1>1, <1>2, <1>3 DEF Reached, Restores, Ended, Content
  <1>. QED BY <1>1, <1>4, <1>5, Ongoing

LEMMA PrepReaches == ASSUME Inv, Reached, Prep PROVE Reached'
  <1>1. /\ pc = "prep" /\ out = met /\ prep = None /\ ~told /\ st = 0 /\ status # "ok"
        /\ verdict \in {"download", "apply"} /\ pc' = verdict
        /\ UNCHANGED <<rec, obj, opts, met, st, told, status, verdict>>
    BY DEF Inv, IInv, StepsFind, Reached, Spares, Restores, Undone, Prep
  <1>2. \/ UNCHANGED <<prep, out>>
        \/ /\ out # None /\ out.kind = "file" /\ out' # None /\ out'.kind = "file"
           /\ prep' # None /\ [out' EXCEPT !.mode = prep'] = met /\ out'.data = out.data
    <2>1. CASE opts.windows /\ out # None /\ out.kind = "file" /\ out.mode \notin Writable
      <3>1. out \in Items /\ prep' = out.mode /\ out' = [out EXCEPT !.mode = Opened[out.mode]]
        BY <2>1 DEF Prep, Inv, IInv, TypeOK, Slot
      <3>2. out.mode \in Modes /\ Opened[out.mode] \in Modes
        BY <3>1, RootAssumption DEF Items
      <3>3. out' \in Items /\ out'.kind = out.kind /\ out'.data = out.data
            /\ [out' EXCEPT !.mode = prep'] = out
        BY <3>1, <3>2 DEF Items
      <3>. QED BY <1>1, <2>1, <3>1, <3>2, <3>3, NoneNoItem, RootAssumption
    <2>. QED BY <2>1 DEF Prep
  <1>3. Spares'
    BY <1>1, <1>2 DEF Reached, Spares, Undone, Newer, HasData
  <1>4. Restores'
    BY <1>1, <1>2 DEF Reached, Spares, Restores, Content, HasData
  <1>. QED BY <1>1, <1>3, <1>4, Ongoing

LEMMA GetObjectReaches == ASSUME Inv, Reached, GetObject PROVE Reached'
  <1>1. /\ pc = "download" /\ ~told /\ st = 0 /\ status # "ok" /\ Undone /\ ~Newer
        /\ UNCHANGED <<rec, obj, opts, met, prep, st, status, verdict>>
    BY DEF Inv, IInv, StepsFind, Reached, Spares, Restores, GetObject
  <1>2. CASE rec.kind = "file" /\ obj = None
    <2>1. told' = TRUE /\ pc' = "finally" /\ UNCHANGED <<out, new>>
      BY <1>2 DEF GetObject
    <2>2. Spares' /\ Restores'
      BY <1>1, <2>1 DEF Reached, Spares, Restores, Undone, Newer
    <2>. QED BY <1>1, <2>2, Ongoing
  <1>3. CASE ~(rec.kind = "file" /\ obj = None)
    <2>1. /\ told' = told
          /\ \/ pc' = "out" /\ UNCHANGED out /\ (rec.kind = "file" => new'.data = obj)
             \/ pc' = "apply" /\ (rec.kind = "file" => out'.data = obj)
      <3>1. PICK mode \in {Umask} \cup (IF ~staged /\ out # None THEN {out.mode} ELSE {}) :
              LET item == Made(rec.kind, IF rec.kind = "file" THEN obj ELSE Blank, mode) IN
              IF staged THEN new' = item /\ pc' = "out" /\ UNCHANGED <<out, told>>
                        ELSE out' = item /\ pc' = "apply" /\ UNCHANGED <<new, told>>
        BY <1>3 DEF GetObject
      <3>. QED BY <1>3, <3>1 DEF GetObject, Made
    <2>2. pc' = "apply" => HasData /\ out' # None
      BY GetObjectDoes, <1>1, NoneNoItem DEF Reached, Spares
    <2>3. Spares' /\ Restores'
      BY <1>1, <2>1, <2>2 DEF Reached, Spares, Restores, Undone, Newer, HasData, Content
    <2>. QED BY <1>1, <2>3, Ongoing
  <1>. QED BY <1>2, <1>3

LEMMA SwapOutReaches == ASSUME Inv, Reached, SwapOut PROVE Reached'
  <1>1. /\ pc = "out" /\ pc' = "in" /\ ~told /\ st = 0 /\ status # "ok" /\ ~Newer
        /\ UNCHANGED <<rec, obj, opts, met, new, prep, st, told, status, verdict>>
    BY DEF Inv, IInv, StepsFind, Reached, Spares, Restores, SwapOut
  <1>2. Spares' /\ Restores'
    BY <1>1 DEF Reached, Spares, Restores, Newer, Content, HasData
  <1>. QED BY <1>1, <1>2, Ongoing

LEMMA SwapInReaches == ASSUME Inv, Reached, SwapIn PROVE Reached'
  <1>1. /\ pc = "in" /\ pc' = "apply" /\ ~told /\ st = 0 /\ status # "ok" /\ ~Newer
        /\ out' = new /\ new # None /\ HasData
        /\ UNCHANGED <<rec, obj, opts, met, prep, st, told, status, verdict>>
    BY DEF Inv, IInv, StepsFind, Reached, Spares, Restores, SwapIn
  <1>2. Spares' /\ Restores'
    BY <1>1 DEF Reached, Spares, Restores, Newer, Content, HasData
  <1>. QED BY <1>1, <1>2, Ongoing

\* A step that raises leaves what is newer alone: it is not one of those that
\* come after the first write.
LEMMA RaisedReaches ==
  ASSUME Inv, Reached, pc' = "except", pc # "done",
         UNCHANGED <<rec, opts, met, prep, told, status>>, Newer => UNCHANGED out
  PROVE  Reached'
  <1>1. status' # "ok"
    BY DEF Inv, IInv, StepsFind
  <1>2. Spares' /\ Restores'
    BY DEF Reached, Spares, Restores, Newer
  <1>. QED BY <1>1, <1>2, Ongoing

LEMMA SwapFailsReaches == ASSUME Inv, Reached, SwapFails PROVE Reached'
  <1>1. pc = "in" /\ pc' = "except" /\ UNCHANGED <<rec, opts, met, prep, told, status>>
    BY DEF SwapFails
  <1>. QED BY <1>1, RaisedReaches DEF Reached, Spares

LEMMA LinkFailsReaches == ASSUME Inv, Reached, LinkFails PROVE Reached'
  <1>1. pc = "link" /\ pc' = "except" /\ UNCHANGED <<rec, opts, met, prep, told, status>>
    BY DEF LinkFails
  <1>. QED BY <1>1, RaisedReaches DEF Reached, Spares

LEMMA FailsReaches == ASSUME Inv, Reached, Fails PROVE Reached'
  <1>1. pc # "done" /\ pc' = "except" /\ UNCHANGED <<out, rec, opts, met, prep, told, status>>
    BY DEF Fails
  <1>. QED BY <1>1, RaisedReaches

LEMMA ApplyReaches == ASSUME Inv, Reached, Apply PROVE Reached'
  <1>. DEFINE v == RootVerdict
  <1>1. /\ pc = "apply" /\ ~told /\ st = 0 /\ status # "ok" /\ Content(out)
        /\ HasData => out # None /\ ~Newer
        /\ ~HasData => Undone
        /\ out \in Slot
        /\ UNCHANGED <<rec, obj, opts, met, prep, status, verdict>>
    BY DEF Inv, IInv, TypeOK, StepsFind, Reached, Spares, Restores, Apply
  <1>2. /\ pc' = (CASE v = "defer" -> "aside" [] v = "place" -> "link" [] OTHER -> "end")
        /\ out' = (IF v = "stamp" THEN Stamped(rec, out) ELSE out)
        /\ st' = (IF v = "error" THEN 1 ELSE 0)
        /\ told' = (v \in {"conflict", "missing"})
    BY <1>1 DEF Apply
  <1>3. /\ v \in {"keep", "conflict", "place", "defer", "stamp", "error"}
        /\ v = "keep" => Matches(rec, out) \/ (~HasData /\ Orders /\ OrderedSide(rec, out) # "record")
        /\ v = "conflict" => ~HasData /\ Orders
        /\ v \in {"place", "defer"} => rec.kind = "link"
        /\ v = "stamp" => out # None /\ out.kind = rec.kind /\ rec.kind # "link" /\ ~WrongSize(rec, out)
        /\ v \in {"place", "defer", "stamp"} =>
             HasData \/ ~(Orders /\ OrderedSide(rec, out) = "local")
    <2>1. rec.kind \in Kinds
      BY DEF Inv, Fixed
    <2>2. CASE rec.kind = "file"
      BY <1>1, <2>2, FileVerdict DEF HasData
    <2>3. CASE rec.kind = "dir"
      BY <1>1, <2>3, DirVerdict DEF HasData, WrongSize
    <2>4. CASE rec.kind = "link"
      BY <2>4, LinkVerdict DEF HasData
    <2>5. CASE rec.kind = "special"
      BY <2>5, SpecialVerdict, VerdictKinds DEF HasData, WrongSize
    <2>. QED BY <2>1, <2>2, <2>3, <2>4, <2>5 DEF Kinds
  <1>4. v = "stamp" => Matches(rec, out') /\ out'.data = out.data
    BY <1>1, <1>2, <1>3, StampedMatches DEF Inv, Slot
  <1>5. ~HasData /\ Orders => out = met /\ prep = None
    BY <1>1 DEF Undone, Orders, HasData
  <1>6. Newer => Orders /\ OrderedSide(rec, out) = "local" /\ out = met /\ prep = None
    BY <1>1 DEF Reached, Spares, Newer, Orders
  <1>7. Newer => ~HasData /\ v \in {"keep", "conflict", "error"}
    BY <1>1, <1>3, <1>6
  <1>. HIDE DEF v
  <1>8. Spares'
    <2>1. told' => pc' = "end" /\ out' = met /\ prep' = None
      BY <1>1, <1>2, <1>3, <1>5
    <2>2. Newer => pc' = "end" /\ out' = met /\ prep' = None
      BY <1>1, <1>2, <1>6, <1>7
    <2>3. pc' \in {"aside", "link", "end"}
      BY <1>2
    <2>. QED BY <1>1, <2>1, <2>2, <2>3 DEF Reached, Spares, Newer
  <1>9. Restores'
    <2>1. pc' = "end" /\ st' = 0 /\ ~told' => Ended'
      <3>1. SUFFICES ASSUME pc' = "end", st' = 0, ~told' PROVE Ended'
        OBVIOUS
      <3>2. v \in {"keep", "stamp"}
        <4>1. v \notin {"defer", "place"}
          BY <1>2, <3>1
        <4>2. v # "error"
          BY <1>2, <3>1
        <4>3. v # "conflict"
          BY <1>2, <3>1
        <4>. QED BY <1>3, <4>1, <4>2, <4>3
      <3>3. CASE v = "stamp"
        BY <1>1, <1>4, <3>3 DEF Ended, Content
      <3>4. CASE v = "keep"
        BY <1>1, <1>2, <1>3, <1>5, <3>4 DEF Ended, Content, Orders
      <3>. QED BY <3>2, <3>3, <3>4
    <2>2. pc' \in {"aside", "link", "end"} /\ (pc' # "end" => st' = 0)
      BY <1>2
    <2>. QED BY <2>1, <2>2 DEF Restores
  <1>. QED BY <1>1, <1>8, <1>9, Ongoing

LEMMA StampFailsReaches == ASSUME Inv, Reached, StampFails PROVE Reached'
  <1>1. /\ pc = "apply" /\ RootVerdict = "stamp" /\ pc' = "end" /\ st' = 1 /\ ~told
        /\ status # "ok" /\ UNCHANGED <<rec, opts, met, told, status>>
    BY DEF Inv, IInv, StepsFind, Reached, Spares, StampFails
  <1>2. ~Newer
    <2>1. SUFFICES ASSUME Newer PROVE FALSE
      OBVIOUS
    <2>2. ~HasData /\ Orders /\ OrderedSide(rec, out) = "local" /\ rec.kind \in Kinds
      BY <1>1, <2>1 DEF Reached, Spares, Newer, Orders, Inv, Fixed
    <2>. QED BY <1>1, <2>2, LinkVerdict, SpecialVerdict DEF HasData, Kinds
  <1>3. Spares' /\ Restores'
    BY <1>1, <1>2 DEF Reached, Spares, Restores, Newer
  <1>. QED BY <1>1, <1>3, Ongoing

LEMMA LinkAsideReaches == ASSUME Inv, Reached, LinkAside PROVE Reached'
  <1>1. /\ pc = "aside" /\ pc' = "link" /\ ~told /\ st = 0 /\ status # "ok" /\ ~Newer
        /\ UNCHANGED <<rec, opts, met, st, told, status>>
    BY DEF Inv, IInv, StepsFind, Reached, Spares, Restores, LinkAside
  <1>2. Spares' /\ Restores'
    BY <1>1 DEF Reached, Spares, Restores, Newer
  <1>. QED BY <1>1, <1>2, Ongoing

LEMMA LinkReaches == ASSUME Inv, Reached, Link PROVE Reached'
  <1>1. /\ pc = "link" /\ pc' \in {"retire", "end"} /\ ~told /\ status # "ok" /\ ~Newer
        /\ rec.kind = "link" /\ out' = LinkAt
        /\ UNCHANGED <<rec, opts, met, told, status>>
    BY DEF Inv, IInv, StepsFind, Reached, Spares, Link
  <1>2. Ended'
    <2>1. Matches(rec, LinkAt)
      BY <1>1, LinkMatches DEF Inv
    <2>. QED BY <1>1, <2>1 DEF Ended, Content
  <1>3. Spares' /\ Restores'
    BY <1>1, <1>2 DEF Reached, Spares, Restores, Newer
  <1>. QED BY <1>1, <1>3, Ongoing

LEMMA LinkUnstampedReaches == ASSUME Inv, Reached, LinkUnstamped PROVE Reached'
  <1>1. /\ pc = "link" /\ pc' \in {"retire", "end"} /\ ~told /\ status # "ok" /\ ~Newer
        /\ st' = 1 /\ UNCHANGED <<rec, opts, met, told, status>>
    BY DEF Inv, IInv, StepsFind, Reached, Spares, LinkUnstamped
  <1>2. Spares' /\ Restores'
    BY <1>1 DEF Reached, Spares, Restores, Newer
  <1>. QED BY <1>1, <1>2, Ongoing

LEMMA LinkRetireReaches == ASSUME Inv, Reached, LinkRetire PROVE Reached'
  <1>1. /\ pc = "retire" /\ pc' = "end" /\ ~told /\ status # "ok" /\ ~Newer
        /\ UNCHANGED <<rec, obj, opts, met, out, st, told, status>>
    BY DEF Inv, IInv, StepsFind, Reached, Spares, LinkRetire
  <1>2. Spares' /\ Restores'
    BY <1>1 DEF Reached, Spares, Restores, Newer, Ended, Content
  <1>. QED BY <1>1, <1>2, Ongoing

LEMMA EndsReaches == ASSUME Inv, Reached, Ends PROVE Reached'
  <1>1. /\ pc \in {"finally", "end"} /\ pc' = "done" /\ prep' = None
        /\ status' = (IF st = 0 THEN "ok" ELSE "failed")
        /\ out' = (IF prep # None /\ out # None /\ out.kind = "file" /\ ~(pc = "end" /\ st = 0)
                   THEN [out EXCEPT !.mode = prep] ELSE out)
        /\ UNCHANGED <<rec, obj, opts, met, st, told>>
    BY DEF Ends, Leaving
  <1>2. Newer => out' = met
    BY <1>1 DEF Reached, Spares
  <1>3. told /\ st = 0 => out' = met
    BY <1>1 DEF Reached, Spares, Undone
  <1>4. st = 0 /\ ~told => opts.excluded \/ Ended'
    <2>1. SUFFICES ASSUME st = 0, ~told PROVE out' = out /\ (opts.excluded \/ Ended)
      BY <1>1 DEF Ended, Content
    <2>. QED BY <1>1, <2>1 DEF Reached, Restores
  <1>5. Spares' /\ Restores'
    BY <1>1, <1>2 DEF Reached, Spares, Restores, Newer
  <1>6. LeftAlone'
    BY <1>1, <1>2, <1>3 DEF LeftAlone, Newer
  <1>7. RootRestored'
    BY <1>1, <1>4 DEF RootRestored, Ended, Content
  <1>. QED BY <1>5, <1>6, <1>7 DEF Reached

LEMMA RaisedEnds == ASSUME Inv, Reached, Raised PROVE Reached'
  <1>1. /\ pc = "except" /\ pc' = "done" /\ prep' = None /\ status' = "failed"
        /\ Newer => out' = met
        /\ UNCHANGED <<rec, opts, met, told>>
    BY DEF Reached, Spares, Raised, Leaving
  <1>2. Spares' /\ Restores'
    BY <1>1 DEF Reached, Spares, Restores, Newer
  <1>. QED BY <1>1, <1>2, Ongoing

LEMMA VanishReaches == ASSUME Inv, Reached, Vanish PROVE Reached'
  <1>1. /\ pc \in {"judge", "prep", "download"} /\ obj' = None /\ status # "ok"
        /\ UNCHANGED <<rec, opts, met, out, new, prep, st, told, status, pc, verdict>>
    BY DEF Inv, IInv, StepsFind, Vanish
  <1>2. Spares' /\ Restores'
    BY <1>1 DEF Reached, Spares, Restores, Newer, Undone, Content, HasData
  <1>. QED BY <1>1, <1>2, Ongoing

LEMMA KillReaches == ASSUME Inv, Reached, Kill PROVE Reached'
  <1>1. /\ pc' = "done" /\ status' = "cut" /\ UNCHANGED <<rec, opts, met, out, prep, told>>
    BY DEF Kill
  <1>2. Spares' /\ Restores'
    BY <1>1 DEF Reached, Spares, Restores, Newer
  <1>. QED BY <1>1, <1>2, Ongoing

LEMMA AgainReaches == ASSUME Inv, Reached, Again PROVE Reached'
  <1>1. /\ pc' = "gate" /\ prep' = None /\ ~told' /\ st' = 0 /\ status' = None
        /\ out' = out /\ met' = out /\ UNCHANGED <<rec, opts>>
        /\ rec.kind = "dir" => out # None /\ out.kind # "dir"
    BY DEF Again, RootConflict
  <1>2. Spares' /\ Restores'
    BY <1>1 DEF Spares, Restores, Newer, Undone
  <1>3. status' # "ok"
    BY <1>1, RootAssumption
  <1>. QED BY <1>2, <1>3, Ongoing

LEMMA ReachedInductive == Inv /\ Reached /\ [Next]_vars => Reached'
  <1>. SUFFICES ASSUME Inv, Reached, [Next]_vars PROVE Reached'
    OBVIOUS
  <1>1. CASE UNCHANGED vars
    BY <1>1 DEF vars, Reached, Spares, Restores, LeftAlone, RootRestored, Undone, Newer, Ended,
                Content, HasData
  <1>. QED BY <1>1, GateReaches, MakeStageReaches, JudgeReaches, PrepReaches, GetObjectReaches,
              SwapOutReaches, SwapInReaches, SwapFailsReaches, ApplyReaches, StampFailsReaches,
              LinkAsideReaches, LinkReaches, LinkUnstampedReaches, LinkFailsReaches,
              LinkRetireReaches, EndsReaches, RaisedEnds, FailsReaches, VanishReaches, KillReaches,
              AgainReaches DEF Next

LEMMA AlwaysReached == Spec => []Reached
  BY ReachedInitially, ReachedInductive, Inductive, PTL DEF Spec

\* What a pull warns about and keeps, and under -u what is newer, is left alone,
\* whatever fails on the way.
THEOREM KeptIsLeftAlone == Spec => []LeftAlone
  <1>1. Reached => LeftAlone
    BY DEF Reached
  <1>. QED BY <1>1, AlwaysReached, PTL

\* A pull that ends well and warns about nothing leaves the path as recorded, or
\* under -u has kept a side that is not older, whatever was cut before it.
THEOREM EndedWellIsRestored == Spec => []RootRestored
  <1>1. Reached => RootRestored
    BY DEF Reached
  <1>. QED BY <1>1, AlwaysReached, PTL

-----------------------------------------------------------------------------
(* Every step of PullRoot is a step of Replace, or changes nothing there.  *)

Maps == [R!Next]_(R!vars)

LEMMA GateMaps == ASSUME Inv, Inv', Gate PROVE Maps
  BY NoneNoItem DEF Maps, R!Next, R!PutNew, R!MoveAside, R!PutBack, R!Retire, R!vars,
     Inv, IInv, OneCopy, StepsFind, Theirs, Mine, Gate

LEMMA MakeStageMaps == ASSUME Inv, Inv', MakeStage PROVE Maps
  BY NoneNoItem DEF Maps, R!Next, R!PutNew, R!MoveAside, R!PutBack, R!Retire, R!vars,
     Inv, IInv, OneCopy, StepsFind, Theirs, Mine, MakeStage

LEMMA JudgeMaps == ASSUME Inv, Inv', Judge PROVE Maps
  BY NoneNoItem DEF Maps, R!Next, R!PutNew, R!MoveAside, R!PutBack, R!Retire, R!vars,
     Inv, IInv, OneCopy, StepsFind, Theirs, Mine, Judge

LEMMA PrepMaps == ASSUME Inv, Inv', Prep PROVE Maps
  BY PrepDoes, NoneNoItem
     DEF Maps, R!Next, R!PutNew, R!MoveAside, R!PutBack, R!Retire, R!vars,
     Inv, IInv, OneCopy, StepsFind, Theirs, Mine, Similar, Like

LEMMA GetObjectMaps == ASSUME Inv, Inv', GetObject PROVE Maps
  BY GetObjectDoes, NoneNoItem
     DEF Maps, R!Next, R!PutNew, R!MoveAside, R!PutBack, R!Retire, R!vars,
     Inv, IInv, OneCopy, StepsFind, Theirs, Mine, Similar, Like

LEMMA SwapOutMaps == ASSUME Inv, Inv', SwapOut PROVE Maps
  BY NoneNoItem DEF Maps, R!Next, R!PutNew, R!MoveAside, R!PutBack, R!Retire, R!vars,
     Inv, IInv, OneCopy, StepsFind, Theirs, Mine, SwapOut

LEMMA SwapInMaps == ASSUME Inv, Inv', SwapIn PROVE Maps
  BY NoneNoItem DEF Maps, R!Next, R!PutNew, R!MoveAside, R!PutBack, R!Retire, R!vars,
     Inv, IInv, OneCopy, StepsFind, Theirs, Mine, SwapIn

LEMMA SwapFailsMaps == ASSUME Inv, Inv', SwapFails PROVE Maps
  BY SwapFailsDoes, NoneNoItem
     DEF Maps, R!Next, R!PutNew, R!MoveAside, R!PutBack, R!Retire, R!vars,
     Inv, IInv, OneCopy, StepsFind, Theirs, Mine, Similar, Like

LEMMA ApplyMaps == ASSUME Inv, Inv', Apply PROVE Maps
  BY ApplyDoes, NoneNoItem
     DEF Maps, R!Next, R!PutNew, R!MoveAside, R!PutBack, R!Retire, R!vars,
     Inv, IInv, OneCopy, StepsFind, Theirs, Mine, Similar, Like

LEMMA StampFailsMaps == ASSUME Inv, Inv', StampFails PROVE Maps
  BY StampFailsDoes, NoneNoItem
     DEF Maps, R!Next, R!PutNew, R!MoveAside, R!PutBack, R!Retire, R!vars,
     Inv, IInv, OneCopy, StepsFind, Theirs, Mine, Similar, Like

LEMMA LinkAsideMaps == ASSUME Inv, Inv', LinkAside PROVE Maps
  BY NoneNoItem DEF Maps, R!Next, R!PutNew, R!MoveAside, R!PutBack, R!Retire, R!vars,
     Inv, IInv, OneCopy, StepsFind, Theirs, Mine, LinkAside

LEMMA LinkMaps == ASSUME Inv, Inv', Link PROVE Maps
  BY LinkDoes, NoneNoItem
     DEF Maps, R!Next, R!PutNew, R!MoveAside, R!PutBack, R!Retire, R!vars,
     Inv, IInv, OneCopy, StepsFind, Theirs, Mine, Similar, Like

LEMMA LinkUnstampedMaps == ASSUME Inv, Inv', LinkUnstamped PROVE Maps
  BY LinkUnstampedDoes, NoneNoItem
     DEF Maps, R!Next, R!PutNew, R!MoveAside, R!PutBack, R!Retire, R!vars,
     Inv, IInv, OneCopy, StepsFind, Theirs, Mine, Similar, Like

LEMMA LinkFailsMaps == ASSUME Inv, Inv', LinkFails PROVE Maps
  BY LinkFailsDoes, NoneNoItem
     DEF Maps, R!Next, R!PutNew, R!MoveAside, R!PutBack, R!Retire, R!vars,
     Inv, IInv, OneCopy, StepsFind, Theirs, Mine, Similar, Like

LEMMA LinkRetireMaps == ASSUME Inv, Inv', LinkRetire PROVE Maps
  BY NoneNoItem DEF Maps, R!Next, R!PutNew, R!MoveAside, R!PutBack, R!Retire, R!vars,
     Inv, IInv, OneCopy, StepsFind, Theirs, Mine, LinkRetire

LEMMA EndsMaps == ASSUME Inv, Inv', Ends PROVE Maps
  BY EndsDoes, NoneNoItem
     DEF Maps, R!Next, R!PutNew, R!MoveAside, R!PutBack, R!Retire, R!vars,
     Inv, IInv, OneCopy, StepsFind, Theirs, Mine, Similar, Like

LEMMA RaisedMaps == ASSUME Inv, Inv', Raised PROVE Maps
  <1>1. old' = old
    BY RaisedDoes DEF Inv, IInv, StepsFind, Preserved
  <1>. QED BY RaisedDoes, <1>1, NoneNoItem
     DEF Maps, R!Next, R!PutNew, R!MoveAside, R!PutBack, R!Retire, R!vars,
     Inv, IInv, OneCopy, StepsFind, Theirs, Mine, Similar, Like

LEMMA FailsMaps == ASSUME Inv, Inv', Fails PROVE Maps
  BY NoneNoItem DEF Maps, R!Next, R!PutNew, R!MoveAside, R!PutBack, R!Retire, R!vars,
     Inv, IInv, OneCopy, StepsFind, Theirs, Mine, Fails

LEMMA VanishMaps == ASSUME Inv, Inv', Vanish PROVE Maps
  BY NoneNoItem DEF Maps, R!Next, R!PutNew, R!MoveAside, R!PutBack, R!Retire, R!vars,
     Inv, IInv, OneCopy, StepsFind, Theirs, Mine, Vanish

LEMMA KillMaps == ASSUME Inv, Inv', Kill PROVE Maps
  BY NoneNoItem DEF Maps, R!Next, R!PutNew, R!MoveAside, R!PutBack, R!Retire, R!vars,
     Inv, IInv, OneCopy, StepsFind, Theirs, Mine, Kill

LEMMA AgainMaps == ASSUME Inv, Inv', Again PROVE Maps
  BY NoneNoItem DEF Maps, R!Next, R!PutNew, R!MoveAside, R!PutBack, R!Retire, R!vars,
     Inv, IInv, OneCopy, StepsFind, Theirs, Mine, Again

\* Whatever stops it, a pull puts the new item in place as Replace promises.
THEOREM PullReplaces == Spec => Replaces
  <1>1. Init => R!Init
    <2>. SUFFICES ASSUME Init PROVE R!Init
      OBVIOUS
    <2>1. orig = out /\ (out # None => out.by = "old") /\ old = None /\ aside = None /\ left = FALSE
      BY RootAssumption DEF Init, Unstaged
    <2>. QED BY <2>1 DEF R!Init
  <1>2. Inv /\ Inv' /\ [Next]_vars => [R!Next]_(R!vars)
    <2>. SUFFICES ASSUME Inv, Inv', [Next]_vars PROVE Maps
      BY DEF Maps
    <2>1. CASE UNCHANGED vars
      BY <2>1 DEF vars, Maps, R!vars
    <2>. QED BY <2>1, GateMaps, MakeStageMaps, JudgeMaps, PrepMaps, GetObjectMaps, SwapOutMaps,
                SwapInMaps, SwapFailsMaps, ApplyMaps, StampFailsMaps, LinkAsideMaps, LinkMaps,
                LinkUnstampedMaps, LinkFailsMaps, LinkRetireMaps, EndsMaps, RaisedMaps, FailsMaps,
                VanishMaps, KillMaps, AgainMaps DEF Next
  <1>. QED BY <1>1, <1>2, Inductive, PTL DEF Spec, Replaces, R!Spec
=============================================================================
