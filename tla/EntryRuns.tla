------------------------------- MODULE EntryRuns -------------------------------
(***************************************************************************)
(* One s3bak command over several entries: the runner (run_entries, main,  *)
(* run), the threads the entries run on, the deletion questions            *)
(* (DeleteConfirmer, Console.prompt), the delete batches each entry sends  *)
(* and waits for, the answer q, and Ctrl-C.  What an entry's pull or push  *)
(* does between its deletions is one step here; PushRun and Pull are that. *)
(***************************************************************************)
EXTENDS Naturals, FiniteSets, Sequences

CONSTANTS
  Workers,    \* entry_concurrency
  Batch,      \* the keys of one delete request (1,000)
  Requests,   \* [cmd, mode, ask (an entry's deletion candidates, in order), mishaps]
  None

ASSUME RunsAssumption ==
  /\ Workers \in Nat \ {0} /\ Batch \in Nat \ {0} /\ None \notin Nat
  /\ \A r \in Requests :
       /\ r.cmd \in {"pull", "push", "exchange"} /\ r.mode \in {"ASK", "YES", "NO"}
       /\ r.mishaps \in Nat /\ r.ask \in Seq(Nat)

VARIABLES
  req,       \* the command
  half,      \* 1, and 2 for the push of an exchange
  at,        \* an entry's place: queued, run, leave (unwinding), ended, cancelled
  todo,      \* its candidates not decided yet
  answers,   \* its confirmer's mode: ASK until an "a" or a "d"
  yes, gone, \* its confirmed deletions, and those that have happened
  buf,       \* confirmed and not sent
  air,       \* the keys of the request in flight
  reply,     \* has that request been answered, and not reported yet?
  refused,   \* has a deletion failed?
  closed,    \* has a printed line met a closed pipe?
  res,       \* how its function ended: ok, error or hook; raise, pipe or cut
  held,      \* the store it borrowed
  free,      \* the stores in the queue
  lock,      \* the entry whose question holds the terminal
  abort,     \* confirm._abort
  pc,        \* the main thread: "run", "stop" (unwinding), "done"
  why,       \* what it unwinds with
  status,    \* the statuses collected
  warned, ints, mishaps,
  rc

entry == <<at, todo, answers, yes, gone, buf, air, reply, refused, closed, res, held>>
main  == <<half, abort, pc, why, status, rc>>
vars  == <<req, entry, main, free, lock, warned, ints, mishaps>>

Es == DOMAIN req.ask
Last == IF req.cmd = "exchange" THEN 2 ELSE 1
Pulling == req.cmd = "pull" \/ (req.cmd = "exchange" /\ half = 1)
\* One entry, or an interactive --delete: on the main thread, in order.
Serial == Cardinality(Es) = 1 \/ req.mode = "ASK"
Slots == IF Serial THEN 1 ELSE IF Cardinality(Es) < Workers THEN Cardinality(Es) ELSE Workers

ToEach(v) == [e \in Es |-> v]
\* A half's fresh state.
Fresh ==
  /\ at' = ToEach("queued") /\ todo' = req.ask /\ answers' = ToEach(req.mode)
  /\ yes' = ToEach(0) /\ gone' = ToEach(0) /\ buf' = ToEach(0) /\ air' = ToEach(0)
  /\ reply' = ToEach(FALSE) /\ refused' = ToEach(FALSE) /\ closed' = ToEach(FALSE)
  /\ res' = ToEach(None) /\ held' = ToEach(None) /\ status' = ToEach(None)

Init ==
  /\ req \in Requests /\ half = 1
  /\ at = ToEach("queued") /\ todo = req.ask /\ answers = ToEach(req.mode)
  /\ yes = ToEach(0) /\ gone = ToEach(0) /\ buf = ToEach(0) /\ air = ToEach(0)
  /\ reply = ToEach(FALSE) /\ refused = ToEach(FALSE) /\ closed = ToEach(FALSE)
  /\ res = ToEach(None) /\ held = ToEach(None) /\ status = ToEach(None)
  /\ free = 1 .. Slots /\ lock = None /\ abort = FALSE
  /\ pc = "run" /\ why = None /\ rc = None
  /\ warned = FALSE /\ ints = 0 /\ mishaps = req.mishaps

Mishap == mishaps > 0 /\ mishaps' = mishaps - 1

-----------------------------------------------------------------------------
(* The runner hands out the entries.                                       *)

\* Mutant of MayStart: the serial runner does not look at the abort.
MayStartAborted(e) ==
  /\ pc = "run" /\ at[e] = "queued" /\ \A f \in Es : f < e => at[f] # "queued"
  /\ IF Serial THEN \A f \in Es : f < e => status[f] # None
     ELSE Cardinality({f \in Es : at[f] \in {"run", "leave"}}) < Slots

\* In order: serially once the one before has returned and no q was answered,
\* else whenever a pool thread is idle.
MayStart(e) ==
  /\ pc = "run" /\ at[e] = "queued" /\ \A f \in Es : f < e => at[f] # "queued"
  /\ IF Serial THEN ~abort /\ \A f \in Es : f < e => status[f] # None
     ELSE Cardinality({f \in Es : at[f] \in {"run", "leave"}}) < Slots

Start(e) ==
  /\ MayStart(e)
  /\ \E s \in free : held' = [held EXCEPT ![e] = s] /\ free' = free \ {s}
  /\ at' = [at EXCEPT ![e] = "run"]
  /\ UNCHANGED <<req, todo, answers, yes, gone, buf, air, reply, refused, closed, res>>
  /\ UNCHANGED <<main, lock, warned, ints, mishaps>>

\* Mutants of GivesBack: the command's own store is put back, not the borrowed
\* one; only a task that returned gives its store back.
GivesBackFirst(e, r) == free \cup {1}
GivesBackReturned(e, r) == IF r = "raise" THEN free ELSE free \cup {held[e]}

\* run_one's finally.
GivesBack(e, r) == free \cup {held[e]}

-----------------------------------------------------------------------------
(* An entry decides its deletion candidates.                               *)

\* One more confirmed: a pull removes the extra, a push gives the key to the
\* deleter, which sends a full batch before it takes the next.
Confirmed(e) ==
  /\ yes' = [yes EXCEPT ![e] = @ + 1]
  /\ IF Pulling THEN gone' = [gone EXCEPT ![e] = @ + 1] /\ UNCHANGED buf
                ELSE buf' = [buf EXCEPT ![e] = @ + 1] /\ UNCHANGED gone
Declined(e) == UNCHANGED <<yes, gone, buf>>

Deciding(e) == at[e] = "run" /\ lock # e /\ todo[e] > 0 /\ buf[e] < Batch

Decide(e) ==
  /\ Deciding(e) /\ answers[e] # "ASK"
  /\ todo' = [todo EXCEPT ![e] = @ - 1]
  /\ IF answers[e] = "YES" THEN Confirmed(e) ELSE Declined(e)
  /\ UNCHANGED <<req, at, answers, air, reply, refused, closed, res, held>>
  /\ UNCHANGED <<main, free, lock, warned, ints, mishaps>>

\* The prompt session takes the terminal.  (confirm's own look at the abort flag
\* finds it clear: a run that asks is serial, and the asked entry's thread is
\* the one that sets it.)
Ask(e) ==
  /\ Deciding(e) /\ answers[e] = "ASK" /\ lock = None
  /\ lock' = e
  /\ UNCHANGED <<req, entry, main, free, warned, ints, mishaps>>

\* y, n, a, d; anything not understood is asked again in the same session.
Answer(e) ==
  /\ lock = e /\ lock' = None
  /\ todo' = [todo EXCEPT ![e] = @ - 1]
  /\ \E a \in {"y", "n", "a", "d"} :
       /\ IF a \in {"y", "a"} THEN Confirmed(e) ELSE Declined(e)
       /\ answers' = [answers EXCEPT ![e] = CASE a = "a" -> "YES" [] a = "d" -> "NO" [] OTHER -> @]
  /\ UNCHANGED <<req, at, air, reply, refused, closed, res, held>>
  /\ UNCHANGED <<main, free, warned, ints, mishaps>>

\* An entry's function unwinds: what is not sent is abandoned.
Unwind(e, r) ==
  /\ at' = [at EXCEPT ![e] = "leave"] /\ res' = [res EXCEPT ![e] = r]
  /\ buf' = [buf EXCEPT ![e] = 0]
  /\ UNCHANGED <<todo, answers, yes, gone, air, reply, refused, closed, held>>

\* q, or the end of the input.
Quit(e) ==
  /\ lock = e /\ lock' = None /\ abort' = TRUE /\ Unwind(e, "error")
  /\ UNCHANGED <<req, half, pc, why, status, rc, free, warned, ints, mishaps>>

-----------------------------------------------------------------------------
(* The delete requests, on the deleter's own thread.                       *)

\* A full batch, or what is left at the end, once the one before has landed.
Send(e) ==
  /\ at[e] = "run" /\ lock # e /\ air[e] = 0
  /\ buf[e] = Batch \/ (buf[e] > 0 /\ todo[e] = 0)
  /\ air' = [air EXCEPT ![e] = buf[e]] /\ buf' = [buf EXCEPT ![e] = 0]
  /\ UNCHANGED <<req, at, todo, answers, yes, gone, reply, refused, closed, res, held>>
  /\ UNCHANGED <<main, free, lock, warned, ints, mishaps>>

Land(e) ==
  /\ air[e] > 0 /\ ~reply[e] /\ rc = None /\ reply' = [reply EXCEPT ![e] = TRUE]
  /\ \/ gone' = [gone EXCEPT ![e] = @ + air[e]] /\ UNCHANGED <<refused, mishaps>>
     \/ Mishap /\ refused' = [refused EXCEPT ![e] = TRUE] /\ UNCHANGED gone
  /\ UNCHANGED <<req, at, todo, answers, yes, buf, air, closed, res, held>>
  /\ UNCHANGED <<main, free, lock, warned, ints>>

\* The batch is over when its lines are printed, which waits for the terminal.
\* A closed pipe is remembered.
Report(e) ==
  /\ reply[e] /\ lock = None /\ rc = None
  /\ air' = [air EXCEPT ![e] = 0] /\ reply' = [reply EXCEPT ![e] = FALSE]
  /\ \/ UNCHANGED <<closed, mishaps>>
     \/ Mishap /\ closed' = [closed EXCEPT ![e] = TRUE]
  /\ UNCHANGED <<req, at, todo, answers, yes, gone, buf, refused, res, held>>
  /\ UNCHANGED <<main, free, lock, warned, ints>>

\* A transfer thread prints a warning.
Warn(e) ==
  /\ at[e] = "run" /\ lock = None /\ Mishap /\ warned' = TRUE
  /\ UNCHANGED <<req, entry, main, free, lock, ints>>

-----------------------------------------------------------------------------
(* An entry ends.                                                          *)

\* A closed pipe is raised once the work is done; a refused deletion is an error.
Outcome(e) == IF closed[e] THEN "pipe" ELSE IF refused[e] THEN "error" ELSE "ok"

Ends(e, r) ==
  /\ at' = [at EXCEPT ![e] = "ended"] /\ res' = [res EXCEPT ![e] = r]
  /\ free' = GivesBack(e, r) /\ held' = [held EXCEPT ![e] = None]
  /\ UNCHANGED <<todo, answers, yes, gone, buf, air, reply, refused, closed>>

Finish(e) ==
  /\ at[e] = "run" /\ lock # e /\ todo[e] = 0 /\ buf[e] = 0 /\ air[e] = 0
  /\ Ends(e, Outcome(e))
  /\ UNCHANGED <<req, main, lock, warned, ints, mishaps>>

\* An error status, a failing hook's, or an exception, anywhere on the way.
Fail(e) ==
  /\ at[e] = "run" /\ lock # e /\ Mishap /\ \E r \in {"error", "hook", "raise"} : Unwind(e, r)
  /\ UNCHANGED <<req, main, free, lock, warned, ints>>

\* The unwinding joins the request in flight.
Leave(e) ==
  /\ at[e] = "leave" /\ air[e] = 0 /\ Ends(e, res[e])
  /\ UNCHANGED <<req, main, lock, warned, ints, mishaps>>

-----------------------------------------------------------------------------
(* The main thread.                                                        *)

\* The finally of run_entries: no entry that has not started will.
Cancelled == [e \in Es |-> IF at[e] = "queued" THEN "cancelled" ELSE at[e]]

\* A hook's own status, and 1 for every other failure.
Status(r) == CASE r = "ok" -> 0 [] r = "hook" -> 3 [] OTHER -> 1

\* A result, in the order the entries end.  A closed pipe is raised on; another
\* exception is the entry's status 1 if it ran on a pool thread.
Collect(e) ==
  /\ pc = "run" /\ at[e] = "ended" /\ status[e] = None
  /\ IF res[e] = "pipe" \/ (res[e] = "raise" /\ Serial)
     THEN pc' = "stop" /\ why' = res[e] /\ at' = Cancelled /\ UNCHANGED status
     ELSE /\ status' = [status EXCEPT ![e] = Status(res[e])]
          /\ UNCHANGED <<pc, why, at>>
  /\ UNCHANGED <<req, half, abort, rc, todo, answers, yes, gone, buf, air, reply, refused, closed>>
  /\ UNCHANGED <<res, held, free, lock, warned, ints, mishaps>>

\* Mutant of FirstFailure: the last entry's failure wins.
LastFailure ==
  LET bad == {e \in Es : status[e] \notin {0, None}} IN
  IF bad = {} THEN 0 ELSE status[CHOOSE e \in bad : \A f \in bad : f <= e]

\* The first non-zero status in the configured order.
FirstFailure ==
  LET bad == {e \in Es : status[e] \notin {0, None}} IN
  IF bad = {} THEN 0 ELSE status[CHOOSE e \in bad : \A f \in bad : e <= f]

\* Every entry has returned, or a q keeps the rest from starting.
HalfOver ==
  \A e \in Es : status[e] # None \/ (Serial /\ abort /\ at[e] = "queued")

\* The push of an exchange, after a pull that did not fail.
NextHalf ==
  /\ pc = "run" /\ HalfOver /\ half < Last /\ FirstFailure = 0 /\ ~abort
  /\ half' = half + 1 /\ Fresh
  /\ UNCHANGED <<req, abort, pc, why, rc, free, lock, warned, ints, mishaps>>

\* run: a warning makes a success a 2.
Return ==
  /\ pc = "run" /\ HalfOver /\ (half = Last \/ FirstFailure # 0 \/ abort)
  /\ pc' = "done"
  /\ rc' = IF FirstFailure # 0 THEN FirstFailure
           ELSE IF half < Last THEN 1 ELSE IF warned THEN 2 ELSE 0
  /\ UNCHANGED <<req, entry, half, abort, why, status, free, lock, warned, ints, mishaps>>

\* The first Ctrl-C, in the main thread: the entry it runs itself unwinds, its
\* question gives the terminal back, and a pool's running entries go on.
Interrupt ==
  /\ pc # "done" /\ ints = 0 /\ ints' = 1
  /\ pc' = "stop" /\ why' = "int" /\ lock' = None
  /\ IF Serial
     THEN LET mine == {e \in Es : at[e] = "run"} IN
          /\ at'  = [e \in Es |-> IF e \in mine THEN "leave" ELSE Cancelled[e]]
          /\ res' = [e \in Es |-> IF e \in mine THEN "cut" ELSE res[e]]
          /\ buf' = [e \in Es |-> IF e \in mine THEN 0 ELSE buf[e]]
     ELSE at' = Cancelled /\ UNCHANGED <<res, buf>>
  /\ UNCHANGED <<req, half, abort, status, rc, free, warned, mishaps>>
  /\ UNCHANGED <<todo, answers, yes, gone, air, reply, refused, closed, held>>

\* The second: os._exit.
ExitNow ==
  /\ pc = "stop" /\ ints = 1 /\ ints' = 2 /\ pc' = "done" /\ rc' = 130
  /\ UNCHANGED <<req, entry, half, abort, why, status, free, lock, warned, mishaps>>

\* shutdown(wait=True), and run's exit codes.
Exit ==
  /\ pc = "stop" /\ \A e \in Es : at[e] \in {"ended", "cancelled"}
  /\ pc' = "done" /\ rc' = CASE why = "int" -> 130 [] why = "pipe" -> 141 [] OTHER -> 1
  /\ UNCHANGED <<req, entry, half, abort, why, status, free, lock, warned, ints, mishaps>>

-----------------------------------------------------------------------------
Works(e) == Start(e) \/ Ask(e) \/ Decide(e) \/ Send(e) \/ Finish(e) \/ Leave(e)
Happens(e) == Fail(e) \/ Warn(e)
Entry(e) == Works(e) \/ Answer(e) \/ Quit(e) \/ Land(e) \/ Report(e) \/ Happens(e) \/ Collect(e)
Next ==
  \/ \E e \in Es : rc = None /\ Entry(e)
  \/ NextHalf \/ Return \/ Interrupt \/ ExitNow \/ Exit
Spec == Init /\ [][Next]_vars

\* Every thread runs on, S3 answers (the client's timeouts see to it) and the
\* operator answers; nothing makes anything fail, and nobody has to press Ctrl-C.
Fairness ==
  /\ \A e \in UNION {DOMAIN r.ask : r \in Requests} :
       /\ WF_vars(e \in Es /\ rc = None /\ Works(e))
       /\ WF_vars(e \in Es /\ rc = None /\ (Answer(e) \/ Quit(e)))
       /\ WF_vars(e \in Es /\ Land(e)) /\ WF_vars(e \in Es /\ Report(e))
       /\ WF_vars(e \in Es /\ Collect(e))
  /\ WF_vars(NextHalf) /\ WF_vars(Return) /\ WF_vars(Exit)
FairSpec == Spec /\ Fairness

-----------------------------------------------------------------------------
(* Properties.                                                             *)

Outcomes == {None, "ok", "error", "hook", "raise", "pipe", "cut"}
TypeOK ==
  /\ at \in [Es -> {"queued", "run", "leave", "ended", "cancelled"}]
  /\ todo \in [Es -> Nat] /\ answers \in [Es -> {"ASK", "YES", "NO"}]
  /\ yes \in [Es -> Nat] /\ gone \in [Es -> Nat]
  /\ buf \in [Es -> 0 .. Batch] /\ air \in [Es -> 0 .. Batch]
  /\ res \in [Es -> Outcomes] /\ held \in [Es -> 1 .. Slots \cup {None}]
  /\ free \subseteq 1 .. Slots /\ lock \in Es \cup {None}
  /\ reply \in [Es -> BOOLEAN] /\ refused \in [Es -> BOOLEAN] /\ closed \in [Es -> BOOLEAN]
  /\ status \in [Es -> {None, 0, 1, 3}] /\ half \in {1, 2} /\ abort \in BOOLEAN
  /\ pc \in {"run", "stop", "done"} /\ (pc = "done") = (rc # None)

\* How an entry's parts go together, and the entries of a serial run.
Linked ==
  /\ \A e \in Es :
       /\ (held[e] # None) = (at[e] \in {"run", "leave"})
       /\ status[e] # None => at[e] = "ended"
       /\ reply[e] => air[e] > 0
       /\ answers[e] = "ASK" => req.mode = "ASK"
  /\ Serial => \A e, f \in Es :
       f < e /\ at[e] \in {"run", "leave", "ended"} => status[f] # None
  /\ abort => Serial /\ \A e \in Es : at[e] # "run"
  /\ lock # None => todo[lock] > 0 /\ buf[lock] < Batch

\* No two entries that run at once borrow one store's client, only a run on the
\* main thread asks, and no deletion happens that was not confirmed.
Apart ==
  /\ \A e, f \in Es : e # f /\ held[e] # None => held[e] # held[f] /\ held[e] \notin free
  /\ lock # None => Serial /\ at[lock] = "run"
  /\ \A e \in Es : gone[e] + buf[e] + (IF reply[e] THEN 0 ELSE air[e]) <= yes[e]
IInv == TypeOK /\ Linked /\ Apart

\* Whatever is answered, fails or is interrupted, the command comes to an end: no
\* question, print, batch or store is waited for for ever.
CommandEnds == <>(pc = "done")

\* After a q no entry starts, no candidate is decided or confirmed, no request is
\* sent, and no push follows the pull.
AbortIsFinal ==
  [][abort => /\ half' = half /\ todo' = todo /\ yes' = yes
              /\ \A e \in Es : /\ at[e] = "queued" => at'[e] # "run"
                               /\ air'[e] <= air[e]]_vars

\* A 0 or a 2 says that every entry ran to its end, in both halves, and that
\* every confirmed deletion happened; 130 that there was a Ctrl-C; 141 a closed
\* pipe.  A pool's other statuses are those of the first entry in the configured
\* order that failed, whichever failed first, and every entry has run.
Clean(e) == res[e] = "ok" /\ gone[e] = yes[e] /\ todo[e] = 0
ExitTells ==
  pc = "done" =>
    /\ (rc = 130) = (ints > 0)
    /\ rc = 141 => \E e \in Es : res[e] = "pipe"
    /\ rc \in {0, 2} => half = Last /\ ~abort /\ ((rc = 2) = warned) /\ \A e \in Es : Clean(e)
    /\ rc \in {1, 3} /\ ~Serial =>
         \E e \in Es : /\ rc = Status(res[e])
                       /\ \A f \in Es : at[f] = "ended" /\ (f < e => Clean(f))
    /\ rc \in {1, 3} => abort \/ \E e \in Es : res[e] # "ok"
=============================================================================
