----------------------------- MODULE MCEntryRuns -----------------------------
(***************************************************************************)
(* Commands over one to three entries on two pool threads, with batches of *)
(* two: an entry with three candidates fills one batch and leaves one key, *)
(* and one entry has nothing to ask about.                                 *)
(***************************************************************************)
EXTENDS EntryRuns, TLC

Request(cmd, mode, ask, n) == [cmd |-> cmd, mode |-> mode, ask |-> ask, mishaps |-> n]
Modes == {"ASK", "YES", "NO"}
MCRequests ==
  {Request(c, m, <<3>>, 2) : c \in {"pull", "push"}, m \in Modes}
  \cup {Request("push", m, <<3, 0, 1>>, 2) : m \in Modes}
  \cup {Request("exchange", m, <<3, 0>>, 1) : m \in Modes}
  \cup {Request("pull", m, <<1, 0, 1>>, 1) : m \in Modes}
=============================================================================
