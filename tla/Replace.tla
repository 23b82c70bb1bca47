------------------------------- MODULE Replace -------------------------------
(***************************************************************************)
(* What putting something new where something old stands promises, however *)
(* it is done and wherever it stops: the old thing is at its place, or     *)
(* kept whole beside it, until the new one stands there.                   *)
(***************************************************************************)
EXTENDS Naturals

VARIABLES
  had,    \* was there anything to lose?
  at,     \* what stands at the place: "old", "new" or "none"
  kept    \* is the old thing kept beside it?

vars == <<had, at, kept>>

Init ==
  /\ had \in BOOLEAN /\ at = IF had THEN "old" ELSE "none"
  /\ kept = FALSE

\* One rename over it, or the new thing where there was none.
PutNew == at' = "new" /\ UNCHANGED <<had, kept>>

MoveAside == at = "old" /\ at' = "none" /\ kept' = TRUE /\ UNCHANGED had

\* The rollback, over whatever of the new thing was in place.
PutBack == kept /\ at' = "old" /\ kept' = FALSE /\ UNCHANGED had

\* The kept copy goes only once the new thing stands.
Retire == at = "new" /\ kept /\ kept' = FALSE /\ UNCHANGED <<had, at>>

Next == PutNew \/ MoveAside \/ PutBack \/ Retire

Spec == Init /\ [][Next]_vars

NeverLost == had => at # "none" \/ kept
=============================================================================
