------------------------------ MODULE MCPushRun ------------------------------
(***************************************************************************)
(* PushRun on two leaves: edits that keep a file's size and one that does  *)
(* not, and the pushes an operator may mix.                                *)
(***************************************************************************)
EXTENDS PushRun

MCSizeOf == <<1, 1, 2, 1>>

Plain   == [Mirror EXCEPT !.delete = FALSE]
Asking  == [Mirror EXCEPT !.asks = TRUE]
Hashing == [Plain EXCEPT !.checksum = TRUE]
Newer   == [Plain EXCEPT !.update = TRUE]
Sorting == [Asking EXCEPT !.update = TRUE]

\* push and push --checksum, push --delete with and without --yes, and -u
MCMixed == {Plain, Hashing, Mirror, Asking, Sorting}
\* push -u alone
MCNewer == {Newer}
=============================================================================
