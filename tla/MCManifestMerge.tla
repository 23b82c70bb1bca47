--------------------------- MODULE MCManifestMerge ---------------------------
(***************************************************************************)
(* The paths "."  "a"  "a-"  "a-/x"  "a/"  "a/b"  "a/b/", of which "a-"    *)
(* sorts between the two keys of "a"; some key may be where no record is.  *)
(***************************************************************************)
EXTENDS ManifestMerge, TLC

CONSTANTS was, now \* two texts

MCKeys    == {0, 1, 2, 4, 6, 7, 8}
MCDirKeys == {0, 6, 8}
\* "a" 1, "a-" 2, "a-/" 3, "a-/x" 4, "a-/x/" 5, "a/" 6, "a/b" 7, "a/b/" 8
MCFirst   == (1 :> 6) @@ (2 :> 3) @@ (4 :> 5) @@ (7 :> 8)
MCLast    == (1 :> 9) @@ (2 :> 5) @@ (4 :> 5) @@ (7 :> 9)

InOrder(s) ==
  LET ks == SelectSeq(<<0, 1, 2, 4, 6, 7, 8>>, LAMBDA k : \E x \in s : x.key = k) IN
  [n \in DOMAIN ks |-> CHOOSE x \in s : x.key = ks[n]]
OldOf(ks)  == InOrder({[key |-> k, entry |-> was] : k \in ks})
Rewrite(o, e, s) == [old |-> o, journal |-> e, sub |-> s]
Event(k, m, e) == [key |-> k, mark |-> m, entry |-> e]

\* Everything a journal with an event can say of five keys, in step with the old
\* manifest.
FewKeys == {1, 2, 6, 7, 8}
Says(k, recorded) ==
  {{}} \cup IF recorded THEN {{Event(k, "replace", now)}, {Event(k, "drop", was)}, {Event(k, "keep", was)}}
            ELSE {{Event(k, "add", now)}}
Journals(ks) ==
  {InOrder(a \cup b \cup c \cup d \cup e) :
     a \in Says(1, 1 \in ks), b \in Says(2, 2 \in ks), c \in Says(6, 6 \in ks),
     d \in Says(7, 7 \in ks), e \in Says(8, 8 \in ks)}
Eventful(e) == \E n \in DOMAIN e : e[n].mark # "keep"
Pushed ==
  UNION {{Rewrite(OldOf({0} \cup ks), e, None) : e \in {x \in Journals(ks) : Eventful(x)}} :
           ks \in SUBSET FewKeys}

\* A first push, journals whose lines are wrong in every way, which the merge is
\* there to refuse, and gone sub-paths.
First3 == {Rewrite(<<>>, InOrder({Event(k, "add", now) : k \in {0} \cup ks}), None) : ks \in SUBSET (MCKeys \ {0})}
AnyEvent == {Event(k, m, e) : k \in {0, 1, 6}, m \in Marks \cup {"bad"}, e \in {was, now}}
Wrong ==
  {Rewrite(OldOf(ks), <<a, b>>, None) : ks \in {{0}, {0, 1}, {0, 1, 2, 6, 7}}, a \in AnyEvent, b \in AnyEvent}
Subs == {Rewrite(OldOf(ks), <<>>, p) : ks \in {{}} \cup {{0} \cup s : s \in SUBSET (MCKeys \ {0})},
                                       p \in MCKeys \ MCDirKeys}

MCFiles == Pushed \cup First3 \cup Wrong \cup Subs
=============================================================================
