--------------------------- MODULE EntryRuns_proofs ---------------------------
(***************************************************************************)
(* Proofs about EntryRuns, for every number of entries, candidates, pool   *)
(* threads, keys to a batch and mishaps.                                   *)
(***************************************************************************)
EXTENDS EntryRuns, FiniteSetTheorems, WellFoundedInduction, TLAPS

Inv == req \in Requests /\ IInv

USE DEF entry, main

-----------------------------------------------------------------------------
(* The command does not change, and with it its entries and its threads.   *)

LEMMA NoneNoEntry ==
  ASSUME req \in Requests
  PROVE  /\ IsFiniteSet(Es) /\ Es \subseteq Nat /\ None \notin Es
         /\ Slots \in Nat /\ None \notin 1 .. Slots
  <1>1. PICK n \in Nat : Es = 1 .. n
    <2>1. req.ask \in Seq(Nat)
      BY RunsAssumption
    <2>. QED BY <2>1 DEF Es
  <1>2. IsFiniteSet(Es)
    BY <1>1, FS_Interval
  <1>3. Slots \in Nat
    BY <1>2, FS_CardinalityType, RunsAssumption DEF Slots
  <1>. QED BY <1>1, <1>2, <1>3, RunsAssumption

LEMMA SameCommand ==
  ASSUME req' = req
  PROVE  Es' = Es /\ Slots' = Slots /\ Serial' = Serial
  BY DEF Es, Slots, Serial

\* A run that asks is serial.
LEMMA AskingIsSerial ==
  ASSUME Inv, NEW e \in Es, answers[e] = "ASK"
  PROVE  Serial
  BY DEF Inv, IInv, Linked, Serial

\* In a serial run one entry at most is on its way.
LEMMA OneAtATime ==
  ASSUME Inv, Serial, NEW e \in Es, NEW f \in Es, at[e] \in {"run", "leave"}, at[f] = "run"
  PROVE  e = f
  <1>1. Es \subseteq Nat
    BY NoneNoEntry DEF Inv
  <1>2. status[e] = None /\ status[f] = None
    BY DEF Inv, IInv, Linked
  <1>3. ~(e < f) /\ ~(f < e)
    BY <1>2 DEF Inv, IInv, Linked
  <1>. QED BY <1>1, <1>3

\* The configured order has a first failure, when there is one.
LEMMA FirstFailureTells ==
  ASSUME Inv
  PROVE  \/ FirstFailure = 0 /\ \A e \in Es : status[e] \in {0, None}
         \/ \E e \in Es : /\ FirstFailure = status[e] /\ status[e] \notin {0, None}
                          /\ \A f \in Es : f < e => status[f] \in {0, None}
  <1>. DEFINE bad == {e \in Es : status[e] \notin {0, None}}
  <1>1. bad \subseteq Nat
    BY NoneNoEntry DEF Inv
  <1>2. CASE bad = {}
    BY <1>2 DEF FirstFailure
  <1>3. CASE bad # {}
    <2>. DEFINE R == {p \in Nat \X Nat : p[1] < p[2]}
    <2>1. IsWellFoundedOn(R, Nat)
      BY NatLessThanWellFounded, Zenon DEF OpToRel
    <2>2. \E x \in bad : \A y \in bad : ~(<<y, x>> \in R)
      <3>. HIDE DEF bad, R
      <3>. QED BY <1>1, <1>3, <2>1, WFMin
    <2>3. \E x \in bad : \A y \in bad : x <= y
      <3>1. PICK x \in bad : \A y \in bad : ~(<<y, x>> \in R)
        BY <2>2
      <3>2. ASSUME NEW y \in bad PROVE x <= y
        <4>1. x \in Nat /\ y \in Nat
          BY <1>1
        <4>2. ~(y < x)
          BY <3>1, <4>1
        <4>. QED BY <4>1, <4>2
      <3>. QED BY <3>2
    <2>4. PICK x \in bad : FirstFailure = status[x] /\ \A y \in bad : x <= y
      BY <1>3, <2>3 DEF FirstFailure
    <2>5. ASSUME NEW f \in Es, f < x PROVE status[f] \in {0, None}
      <3>1. f \in Nat /\ x \in Nat
        BY <1>1, NoneNoEntry DEF Inv
      <3>2. ~(x <= f)
        BY <2>5, <3>1
      <3>. QED BY <2>4, <3>2
    <2>. QED BY <2>4, <2>5
  <1>. QED BY <1>2, <1>3

LEMMA FirstFailureType ==
  ASSUME Inv
  PROVE  FirstFailure \in {0, 1, 3}
  BY FirstFailureTells DEF Inv, IInv, TypeOK

-----------------------------------------------------------------------------
(* The initial states, and one lemma per action.                           *)

LEMMA Initially == Init => Inv
  <1>. SUFFICES ASSUME Init PROVE Inv
    OBVIOUS
  <1>1. req \in Requests /\ req.mode \in {"ASK", "YES", "NO"} /\ req.ask \in Seq(Nat)
    BY RunsAssumption DEF Init
  <1>2. req.ask \in [Es -> Nat]
    BY <1>1 DEF Es
  <1>3. TypeOK
    <2>1. 0 \in 0 .. Batch /\ None \in Outcomes
      BY RunsAssumption DEF Outcomes
    <2>2. rc = None /\ pc = "run" /\ lock = None
      BY DEF Init
    <2>. QED BY <1>1, <1>2, <2>1, <2>2 DEF Init, TypeOK, ToEach
  <1>4. Linked
    BY <1>1 DEF Init, Linked, ToEach
  <1>5. Apart
    BY <1>1 DEF Init, Apart, ToEach
  <1>. QED BY <1>1, <1>3, <1>4, <1>5 DEF Inv, IInv

LEMMA StartKeeps == ASSUME Inv, NEW e \in Es, Start(e) PROVE Inv'
  <1>1. Es' = Es /\ Slots' = Slots /\ Serial' = Serial
    BY SameCommand DEF Start
  <1>2. PICK s \in free : held' = [held EXCEPT ![e] = s] /\ free' = free \ {s}
    BY DEF Start
  <1>3. TypeOK'
    BY <1>1, <1>2 DEF Inv, IInv, TypeOK, Start
  <1>4. Linked'
    BY <1>1, <1>2, NoneNoEntry DEF Inv, IInv, TypeOK, Linked, Start, MayStart
  <1>5. Apart'
    BY <1>1, <1>2, NoneNoEntry DEF Inv, IInv, TypeOK, Linked, Apart, Start, MayStart
  <1>. QED BY <1>3, <1>4, <1>5 DEF Inv, IInv, Start

LEMMA AskKeeps == ASSUME Inv, NEW e \in Es, Ask(e) PROVE Inv'
  <1>1. Es' = Es /\ Slots' = Slots /\ Serial' = Serial
    BY SameCommand DEF Ask
  <1>2. Serial
    BY AskingIsSerial DEF Ask
  <1>3. TypeOK' /\ Linked'
    BY <1>1 DEF Inv, IInv, TypeOK, Linked, Ask, Deciding
  <1>4. Apart'
    BY <1>1, <1>2 DEF Inv, IInv, TypeOK, Apart, Ask, Deciding
  <1>. QED BY <1>3, <1>4 DEF Inv, IInv, Ask

\* What an answered candidate changes: a yes is counted, and what it confirms is
\* gone or kept for the next request.
LEMMA DecidedKeeps ==
  ASSUME Inv, NEW e \in Es, todo[e] > 0, buf[e] < Batch, Confirmed(e) \/ Declined(e)
  PROVE  /\ yes' \in [Es -> Nat] /\ gone' \in [Es -> Nat] /\ buf' \in [Es -> 0 .. Batch]
         /\ [todo EXCEPT ![e] = @ - 1] \in [Es -> Nat]
         /\ \A f \in Es : gone'[f] + buf'[f] + (IF reply[f] THEN 0 ELSE air[f]) <= yes'[f]
  <1>1. Batch \in Nat
    BY RunsAssumption
  <1>2. CASE Declined(e)
    BY <1>1, <1>2 DEF Inv, IInv, TypeOK, Apart, Declined
  <1>3. CASE Confirmed(e) /\ Pulling
    BY <1>1, <1>3 DEF Inv, IInv, TypeOK, Apart, Confirmed
  <1>4. CASE Confirmed(e) /\ ~Pulling
    BY <1>1, <1>4 DEF Inv, IInv, TypeOK, Apart, Confirmed
  <1>. QED BY <1>2, <1>3, <1>4

LEMMA DecideKeeps == ASSUME Inv, NEW e \in Es, Decide(e) PROVE Inv'
  <1>1. Es' = Es /\ Slots' = Slots /\ Serial' = Serial
    BY SameCommand DEF Decide
  <1>2. /\ yes' \in [Es -> Nat] /\ gone' \in [Es -> Nat] /\ buf' \in [Es -> 0 .. Batch]
        /\ todo' \in [Es -> Nat]
        /\ \A f \in Es : gone'[f] + buf'[f] + (IF reply[f] THEN 0 ELSE air[f]) <= yes'[f]
    BY DecidedKeeps DEF Decide, Deciding
  <1>3. TypeOK'
    BY <1>1, <1>2 DEF Inv, IInv, TypeOK, Decide
  <1>4. lock # None => lock # e
    BY DEF Decide, Deciding
  <1>5. Linked'
    <2>1. ASSUME lock # None PROVE todo'[lock] > 0 /\ buf'[lock] < Batch
      BY <2>1, <1>4 DEF Inv, IInv, TypeOK, Linked, Decide, Confirmed, Declined
    <2>. QED BY <1>1, <2>1 DEF Inv, IInv, Linked, Decide
  <1>6. Apart'
    BY <1>1, <1>2 DEF Inv, IInv, Apart, Decide
  <1>. QED BY <1>3, <1>5, <1>6 DEF Inv, IInv, Decide

LEMMA AnswerKeeps == ASSUME Inv, NEW e \in Es, rc = None, Answer(e) PROVE Inv'
  <1>1. Es' = Es /\ Slots' = Slots /\ Serial' = Serial
    BY SameCommand DEF Answer
  <1>2. PICK a \in {"y", "n", "a", "d"} :
          /\ IF a \in {"y", "a"} THEN Confirmed(e) ELSE Declined(e)
          /\ answers' = [answers EXCEPT ![e] = CASE a = "a" -> "YES" [] a = "d" -> "NO" [] OTHER -> @]
    BY DEF Answer
  <1>3. lock # None /\ lock = e /\ lock' = None /\ todo' = [todo EXCEPT ![e] = @ - 1]
    BY NoneNoEntry DEF Answer, Inv
  <1>4. /\ yes' \in [Es -> Nat] /\ gone' \in [Es -> Nat] /\ buf' \in [Es -> 0 .. Batch]
        /\ todo' \in [Es -> Nat]
        /\ \A f \in Es : gone'[f] + buf'[f] + (IF reply[f] THEN 0 ELSE air[f]) <= yes'[f]
    BY <1>2, <1>3, DecidedKeeps DEF Inv, IInv, Linked
  <1>5. /\ answers' \in [Es -> {"ASK", "YES", "NO"}]
        /\ \A f \in Es : answers'[f] = "ASK" => answers[f] = "ASK"
    BY <1>2 DEF Inv, IInv, TypeOK
  <1>6. TypeOK' /\ Linked' /\ Apart'
    BY <1>1, <1>3, <1>4, <1>5 DEF Inv, IInv, TypeOK, Linked, Apart, Answer
  <1>. QED BY <1>6 DEF Inv, IInv, Answer

\* An entry that unwinds keeps its store and sends nothing more.
LEMMA UnwindKeeps ==
  ASSUME Inv, NEW e \in Es, NEW r \in {"error", "hook", "raise"}, Unwind(e, r), at[e] = "run"
  PROVE  /\ at' \in [Es -> {"queued", "run", "leave", "ended", "cancelled"}]
         /\ res' \in [Es -> Outcomes] /\ buf' \in [Es -> 0 .. Batch]
         /\ \A f \in Es : /\ (at'[f] \in {"run", "leave"}) = (at[f] \in {"run", "leave"})
                          /\ (at'[f] = "ended") = (at[f] = "ended")
                          /\ f # e => at'[f] = at[f] /\ buf'[f] = buf[f]
                          /\ at'[f] = "run" => at[f] = "run" /\ f # e
                          /\ buf'[f] <= buf[f]
  <1>1. /\ at \in [Es -> {"queued", "run", "leave", "ended", "cancelled"}]
        /\ res \in [Es -> Outcomes] /\ buf \in [Es -> 0 .. Batch] /\ Batch \in Nat
    BY RunsAssumption DEF Inv, IInv, TypeOK
  <1>2. at' = [at EXCEPT ![e] = "leave"] /\ res' = [res EXCEPT ![e] = r]
        /\ buf' = [buf EXCEPT ![e] = 0]
    BY DEF Unwind
  <1>. QED BY <1>1, <1>2 DEF Outcomes

LEMMA QuitKeeps == ASSUME Inv, NEW e \in Es, rc = None, Quit(e) PROVE Inv'
  <1>1. Es' = Es /\ Slots' = Slots /\ Serial' = Serial
    BY SameCommand DEF Quit
  <1>2. lock = e /\ lock # None /\ at[e] = "run" /\ Serial
    BY NoneNoEntry DEF Quit, Inv, IInv, Apart
  <1>3. /\ at' \in [Es -> {"queued", "run", "leave", "ended", "cancelled"}]
        /\ res' \in [Es -> Outcomes] /\ buf' \in [Es -> 0 .. Batch]
        /\ \A f \in Es : /\ (at'[f] \in {"run", "leave"}) = (at[f] \in {"run", "leave"})
                         /\ (at'[f] = "ended") = (at[f] = "ended")
                         /\ at'[f] = "run" => at[f] = "run" /\ f # e
                         /\ buf'[f] <= buf[f]
    BY <1>2, UnwindKeeps DEF Quit
  <1>4. \A f \in Es : at'[f] # "run"
    BY <1>2, <1>3, OneAtATime
  <1>5. TypeOK'
    BY <1>1, <1>3 DEF Inv, IInv, TypeOK, Quit, Unwind
  <1>6. Linked'
    BY <1>1, <1>2, <1>3, <1>4 DEF Inv, IInv, Linked, Quit, Unwind
  <1>7. Apart'
    BY <1>1, <1>3 DEF Inv, IInv, TypeOK, Apart, Quit, Unwind
  <1>. QED BY <1>5, <1>6, <1>7 DEF Inv, IInv, Quit

LEMMA SendKeeps == ASSUME Inv, NEW e \in Es, Send(e) PROVE Inv'
  <1>1. Es' = Es /\ Slots' = Slots /\ Serial' = Serial
    BY SameCommand DEF Send
  <1>2. TypeOK' /\ Linked' /\ Apart'
    BY <1>1, RunsAssumption DEF Inv, IInv, TypeOK, Linked, Apart, Send
  <1>. QED BY <1>2 DEF Inv, IInv, Send

LEMMA LandKeeps == ASSUME Inv, NEW e \in Es, Land(e) PROVE Inv'
  <1>1. Es' = Es /\ Slots' = Slots /\ Serial' = Serial
    BY SameCommand DEF Land
  <1>2. Batch \in Nat
    BY RunsAssumption
  <1>3. TypeOK'
    <2>1. gone' \in [Es -> Nat]
      BY <1>2 DEF Inv, IInv, TypeOK, Land
    <2>2. refused' \in [Es -> BOOLEAN] /\ reply' \in [Es -> BOOLEAN]
      BY DEF Inv, IInv, TypeOK, Land
    <2>. QED BY <1>1, <2>1, <2>2 DEF Inv, IInv, TypeOK, Land
  <1>4. Linked'
    BY <1>1, <1>2 DEF Inv, IInv, TypeOK, Linked, Land
  <1>5. Apart'
    BY <1>1, <1>2 DEF Inv, IInv, TypeOK, Apart, Land
  <1>. QED BY <1>3, <1>4, <1>5 DEF Inv, IInv, Land

LEMMA ReportKeeps == ASSUME Inv, NEW e \in Es, Report(e) PROVE Inv'
  <1>1. Es' = Es /\ Slots' = Slots /\ Serial' = Serial
    BY SameCommand DEF Report
  <1>2. Batch \in Nat
    BY RunsAssumption
  <1>3. TypeOK'
    <2>1. air' \in [Es -> 0 .. Batch]
      BY <1>2 DEF Inv, IInv, TypeOK, Report
    <2>2. closed' \in [Es -> BOOLEAN] /\ reply' \in [Es -> BOOLEAN]
      BY DEF Inv, IInv, TypeOK, Report
    <2>. QED BY <1>1, <2>1, <2>2 DEF Inv, IInv, TypeOK, Report
  <1>4. Linked'
    BY <1>1, <1>2 DEF Inv, IInv, TypeOK, Linked, Report
  <1>5. Apart'
    BY <1>1, <1>2 DEF Inv, IInv, TypeOK, Apart, Report
  <1>. QED BY <1>3, <1>4, <1>5 DEF Inv, IInv, Report

LEMMA WarnKeeps == ASSUME Inv, NEW e \in Es, Warn(e) PROVE Inv'
  <1>1. Es' = Es /\ Slots' = Slots /\ Serial' = Serial
    BY SameCommand DEF Warn
  <1>2. TypeOK' /\ Linked' /\ Apart'
    BY <1>1 DEF Inv, IInv, TypeOK, Linked, Apart, Warn
  <1>. QED BY <1>2 DEF Inv, IInv, Warn

\* An entry that ends puts back the store it borrowed, and no other.
LEMMA EndsKeeps ==
  ASSUME Inv, NEW e \in Es, NEW r \in Outcomes, Ends(e, r), at[e] \in {"run", "leave"}, lock # e,
         UNCHANGED <<req, main, lock>>
  PROVE  Inv'
  <1>1. Es' = Es /\ Slots' = Slots /\ Serial' = Serial
    BY SameCommand
  <1>2. held[e] \in 1 .. Slots /\ free' = free \cup {held[e]}
    BY DEF Inv, IInv, TypeOK, Linked, Ends, GivesBack
  <1>3. TypeOK'
    BY <1>1, <1>2 DEF Inv, IInv, TypeOK, Ends
  <1>4. Linked'
    BY <1>1 DEF Inv, IInv, TypeOK, Linked, Ends
  <1>5. Apart'
    BY <1>1, <1>2 DEF Inv, IInv, TypeOK, Apart, Ends
  <1>. QED BY <1>3, <1>4, <1>5 DEF Inv, IInv

LEMMA FinishKeeps == ASSUME Inv, NEW e \in Es, Finish(e) PROVE Inv'
  <1>1. Outcome(e) \in Outcomes
    BY DEF Outcome, Outcomes
  <1>. QED BY <1>1, EndsKeeps DEF Finish

LEMMA LeaveKeeps == ASSUME Inv, NEW e \in Es, Leave(e) PROVE Inv'
  <1>1. res[e] \in Outcomes
    BY DEF Inv, IInv, TypeOK
  <1>2. lock # e
    BY NoneNoEntry DEF Inv, IInv, Apart, Leave
  <1>. QED BY <1>1, <1>2, EndsKeeps DEF Leave

LEMMA FailKeeps == ASSUME Inv, NEW e \in Es, Fail(e) PROVE Inv'
  <1>1. Es' = Es /\ Slots' = Slots /\ Serial' = Serial
    BY SameCommand DEF Fail
  <1>2. PICK r \in {"error", "hook", "raise"} : Unwind(e, r)
    BY DEF Fail
  <1>3. /\ at' \in [Es -> {"queued", "run", "leave", "ended", "cancelled"}]
        /\ res' \in [Es -> Outcomes] /\ buf' \in [Es -> 0 .. Batch]
        /\ \A f \in Es : /\ (at'[f] \in {"run", "leave"}) = (at[f] \in {"run", "leave"})
                         /\ (at'[f] = "ended") = (at[f] = "ended")
                         /\ f # e => at'[f] = at[f] /\ buf'[f] = buf[f]
                         /\ at'[f] = "run" => at[f] = "run" /\ f # e
                         /\ buf'[f] <= buf[f]
    BY <1>2, UnwindKeeps DEF Fail
  <1>4. lock # e /\ UNCHANGED <<main, free, lock>>
    BY DEF Fail
  <1>5. TypeOK'
    BY <1>1, <1>2, <1>3, <1>4 DEF Inv, IInv, TypeOK, Unwind
  <1>6. Linked'
    <2>1. \A f \in Es : at'[f] \in {"run", "leave", "ended"} => at[f] \in {"run", "leave", "ended"}
      BY <1>3
    <2>2. lock # None => todo'[lock] > 0 /\ buf'[lock] < Batch
      <3>1. SUFFICES ASSUME lock # None PROVE todo[lock] > 0 /\ buf'[lock] < Batch
        BY <1>2, <1>4 DEF Unwind
      <3>2. lock \in Es /\ todo[lock] > 0 /\ buf[lock] < Batch
        BY <3>1 DEF Inv, IInv, TypeOK, Linked
      <3>3. buf'[lock] = buf[lock]
        BY <1>3, <1>4, <3>2, Zenon
      <3>. QED BY <3>2, <3>3
    <2>3. UNCHANGED <<req, held, status, reply, air, answers, abort>>
      BY <1>2, <1>4 DEF Unwind, Fail
    <2>4. \A f \in Es : /\ (held'[f] # None) = (at'[f] \in {"run", "leave"})
                        /\ status'[f] # None => at'[f] = "ended"
                        /\ reply'[f] => air'[f] > 0
                        /\ answers'[f] = "ASK" => req'.mode = "ASK"
      BY <1>3, <2>3 DEF Inv, IInv, Linked
    <2>5. Serial => \A f, g \in Es :
            f < g /\ at'[g] \in {"run", "leave", "ended"} => status'[f] # None
      BY <2>1, <2>3 DEF Inv, IInv, Linked
    <2>6. abort' => Serial /\ \A f \in Es : at'[f] # "run"
      BY <1>3, <2>3, Zenon DEF Inv, IInv, Linked
    <2>. QED BY <1>1, <1>4, <2>2, <2>4, <2>5, <2>6 DEF Linked
  <1>7. Apart'
    BY <1>1, <1>2, <1>3, <1>4 DEF Inv, IInv, TypeOK, Apart, Unwind
  <1>. QED BY <1>5, <1>6, <1>7 DEF Inv, IInv, Fail

\* Cancelling touches no entry that has started.
LEMMA CancelledType ==
  ASSUME Inv
  PROVE  /\ Cancelled \in [Es -> {"queued", "run", "leave", "ended", "cancelled"}]
         /\ \A f \in Es : /\ Cancelled[f] # at[f] => at[f] = "queued" /\ Cancelled[f] = "cancelled"
                          /\ at[f] \in {"run", "leave", "ended"} => Cancelled[f] = at[f]
  BY DEF Inv, IInv, TypeOK, Cancelled

LEMMA CollectKeeps == ASSUME Inv, NEW e \in Es, rc = None, Collect(e) PROVE Inv'
  <1>1. Es' = Es /\ Slots' = Slots /\ Serial' = Serial
    BY SameCommand DEF Collect
  <1>2. Status(res[e]) \in {0, 1, 3} /\ Status(res[e]) # None
    BY RunsAssumption DEF Status
  <1>3. CASE UNCHANGED <<pc, at>> /\ status' = [status EXCEPT ![e] = Status(res[e])]
    BY <1>1, <1>2, <1>3 DEF Inv, IInv, TypeOK, Linked, Apart, Collect
  <1>4. CASE pc' = "stop" /\ at' = Cancelled /\ UNCHANGED status
    BY <1>1, <1>4, CancelledType, NoneNoEntry DEF Inv, IInv, TypeOK, Linked, Apart, Collect
  <1>. QED BY <1>3, <1>4 DEF Collect

LEMMA NextHalfKeeps == ASSUME Inv, NextHalf PROVE Inv'
  <1>1. Es' = Es /\ Slots' = Slots /\ Serial' = Serial
    BY SameCommand DEF NextHalf
  <1>2. req.mode \in {"ASK", "YES", "NO"} /\ req.ask \in [Es -> Nat]
    BY RunsAssumption DEF Inv, Es
  <1>3. lock = None
    BY DEF NextHalf, HalfOver, Inv, IInv, TypeOK, Linked, Apart
  <1>4. half' \in {1, 2} /\ abort' = FALSE
    BY DEF NextHalf, Last, Inv, IInv, TypeOK
  <1>5. TypeOK'
    BY <1>1, <1>2, <1>3, <1>4, RunsAssumption
       DEF Inv, IInv, TypeOK, NextHalf, Fresh, ToEach, Outcomes
  <1>6. Linked' /\ Apart'
    BY <1>1, <1>2, <1>3, <1>4 DEF Inv, IInv, Linked, Apart, NextHalf, Fresh, ToEach
  <1>. QED BY <1>5, <1>6 DEF Inv, IInv, NextHalf

LEMMA ReturnKeeps == ASSUME Inv, Return PROVE Inv'
  <1>1. Es' = Es /\ Slots' = Slots /\ Serial' = Serial
    BY SameCommand DEF Return
  <1>2. pc' = "done" /\ rc' # None
    BY FirstFailureType, RunsAssumption DEF Return
  <1>3. TypeOK' /\ Linked' /\ Apart'
    BY <1>1, <1>2 DEF Inv, IInv, TypeOK, Linked, Apart, Return
  <1>. QED BY <1>3 DEF Inv, IInv, Return

LEMMA InterruptKeeps == ASSUME Inv, Interrupt PROVE Inv'
  <1>1. Es' = Es /\ Slots' = Slots /\ Serial' = Serial
    BY SameCommand DEF Interrupt
  <1>2. /\ at' \in [Es -> {"queued", "run", "leave", "ended", "cancelled"}]
        /\ res' \in [Es -> Outcomes] /\ buf' \in [Es -> 0 .. Batch]
        /\ \A f \in Es : /\ (at'[f] \in {"run", "leave"}) = (at[f] \in {"run", "leave"})
                         /\ (at'[f] = "ended") = (at[f] = "ended")
                         /\ at'[f] = "run" => at[f] = "run"
                         /\ buf'[f] <= buf[f]
    <2>1. Batch \in Nat /\ "cut" \in Outcomes
      BY RunsAssumption DEF Outcomes
    <2>2. CASE ~Serial
      BY <2>1, <2>2, CancelledType DEF Interrupt, Inv, IInv, TypeOK
    <2>3. CASE Serial
      <3>1. /\ at'  = [f \in Es |-> IF at[f] = "run" THEN "leave" ELSE Cancelled[f]]
            /\ res' = [f \in Es |-> IF at[f] = "run" THEN "cut" ELSE res[f]]
            /\ buf' = [f \in Es |-> IF at[f] = "run" THEN 0 ELSE buf[f]]
        BY <2>3 DEF Interrupt
      <3>. QED BY <2>1, <3>1, CancelledType DEF Inv, IInv, TypeOK
    <2>. QED BY <2>2, <2>3
  <1>3. lock' = None /\ pc' = "stop" /\ rc' = None
    BY DEF Interrupt, Inv, IInv, TypeOK
  <1>4. TypeOK'
    BY <1>1, <1>2, <1>3 DEF Inv, IInv, TypeOK, Interrupt
  <1>5. Linked'
    BY <1>1, <1>2, <1>3 DEF Inv, IInv, Linked, Interrupt
  <1>6. Apart'
    BY <1>1, <1>2, <1>3 DEF Inv, IInv, TypeOK, Apart, Interrupt
  <1>. QED BY <1>4, <1>5, <1>6 DEF Inv, IInv, Interrupt

LEMMA ExitNowKeeps == ASSUME Inv, ExitNow PROVE Inv'
  <1>1. Es' = Es /\ Slots' = Slots /\ Serial' = Serial
    BY SameCommand DEF ExitNow
  <1>2. TypeOK' /\ Linked' /\ Apart'
    BY <1>1, RunsAssumption DEF Inv, IInv, TypeOK, Linked, Apart, ExitNow
  <1>. QED BY <1>2 DEF Inv, IInv, ExitNow

LEMMA ExitKeeps == ASSUME Inv, Exit PROVE Inv'
  <1>1. Es' = Es /\ Slots' = Slots /\ Serial' = Serial
    BY SameCommand DEF Exit
  <1>2. pc' = "done" /\ rc' # None
    BY RunsAssumption DEF Exit
  <1>3. TypeOK' /\ Linked' /\ Apart'
    BY <1>1, <1>2 DEF Inv, IInv, TypeOK, Linked, Apart, Exit
  <1>. QED BY <1>3 DEF Inv, IInv, Exit

LEMMA Inductive == Inv /\ [Next]_vars => Inv'
  <1>. SUFFICES ASSUME Inv, [Next]_vars PROVE Inv'
    OBVIOUS
  <1>1. CASE UNCHANGED vars
    <2>1. Es' = Es /\ Slots' = Slots /\ Serial' = Serial
      BY <1>1, SameCommand DEF vars
    <2>. QED BY <1>1, <2>1 DEF vars, Inv, IInv, TypeOK, Linked, Apart
  <1>2. CASE \E e \in Es : rc = None /\ Entry(e)
    BY <1>2, StartKeeps, AskKeeps, DecideKeeps, AnswerKeeps, QuitKeeps, SendKeeps, LandKeeps,
       ReportKeeps, WarnKeeps, FinishKeeps, LeaveKeeps, FailKeeps, CollectKeeps
       DEF Entry, Works, Happens
  <1>. QED BY <1>1, <1>2, NextHalfKeeps, ReturnKeeps, InterruptKeeps, ExitNowKeeps, ExitKeeps DEF Next

-----------------------------------------------------------------------------
(* What the exit code is read from: what each entry has done when it ends, *)
(* and what the main thread unwinds with.                                  *)

\* While nothing of an entry was refused or abandoned, what it confirmed is gone,
\* kept or in flight; an entry that unwinds has not succeeded.
Accounted(e) ==
  /\ status[e] # None => status[e] = Status(res[e])
  /\ at[e] = "leave" => res[e] \in {"error", "hook", "raise", "cut"}
  /\ at[e] = "ended" => air[e] = 0 /\ (res[e] = "ok" => Clean(e))
  /\ at[e] \in {"queued", "run"} /\ ~refused[e] =>
       gone[e] + buf[e] + (IF reply[e] THEN 0 ELSE air[e]) = yes[e]

\* A reason to stop, or a q, has left its mark.
Reasons ==
  /\ warned \in BOOLEAN /\ ints \in Nat /\ (pc = "run" => ints = 0)
  /\ pc = "stop" =>
       /\ why \in {"int", "pipe", "raise"} /\ (why = "int") = (ints > 0)
       /\ why = "pipe" => \E e \in Es : at[e] = "ended" /\ res[e] = "pipe"
       /\ why = "raise" => Serial /\ \E e \in Es : at[e] = "ended" /\ res[e] = "raise"
  /\ abort => \E e \in Es : at[e] \in {"leave", "ended"} /\ res[e] = "error"

Told == (\A e \in Es : Accounted(e)) /\ Reasons /\ ExitTells

\* A status is 0 for a success and for nothing else.
LEMMA StatusTells ==
  ASSUME NEW r
  PROVE  Status(r) \in {0, 1, 3} /\ Status(r) # None /\ ((Status(r) = 0) = (r = "ok"))
  BY RunsAssumption DEF Status

LEMMA ToldInitially == Init => Told
  <1>. SUFFICES ASSUME Init PROVE Told
    OBVIOUS
  <1>1. \A e \in Es : Accounted(e)
    BY DEF Init, Accounted, ToEach
  <1>2. Reasons /\ ExitTells
    BY DEF Init, Reasons, ExitTells
  <1>. QED BY <1>1, <1>2 DEF Told

\* A step of an entry other than a result's collection keeps what has ended.
LEMMA EntryTold ==
  ASSUME Inv, Told, rc = None, UNCHANGED <<req, pc, rc, why, ints>>, warned' \in BOOLEAN,
         \A e \in Es : /\ at[e] = "ended" => at'[e] = "ended" /\ res'[e] = res[e]
                       /\ at[e] = "leave" => at'[e] \in {"leave", "ended"} /\ res'[e] = res[e],
         \A e \in Es : Accounted(e)',
         abort' => abort \/ \E e \in Es : at'[e] = "leave" /\ res'[e] = "error"
  PROVE  Told'
  <1>1. Es' = Es /\ Serial' = Serial
    BY SameCommand
  <1>2. pc # "done"
    BY DEF Inv, IInv, TypeOK
  <1>3. Reasons'
    <2>1. pc = "stop" =>
            /\ why = "pipe" => \E e \in Es : at'[e] = "ended" /\ res'[e] = "pipe"
            /\ why = "raise" => Serial /\ \E e \in Es : at'[e] = "ended" /\ res'[e] = "raise"
      BY DEF Told, Reasons
    <2>2. abort' => \E e \in Es : at'[e] \in {"leave", "ended"} /\ res'[e] = "error"
      BY DEF Told, Reasons
    <2>. QED BY <1>1, <2>1, <2>2 DEF Told, Reasons
  <1>4. ExitTells'
    BY <1>2 DEF ExitTells
  <1>. QED BY <1>1, <1>3, <1>4 DEF Told

LEMMA DecidedTells ==
  ASSUME Inv, Told, NEW e \in Es, at[e] = "run", Confirmed(e) \/ Declined(e),
         UNCHANGED <<at, air, reply, refused, res, status>>,
         todo' = [todo EXCEPT ![e] = @ - 1]
  PROVE  \A f \in Es : Accounted(f)'
  <1>1. /\ yes \in [Es -> Nat] /\ gone \in [Es -> Nat] /\ buf \in [Es -> 0 .. Batch]
        /\ todo \in [Es -> Nat] /\ air \in [Es -> 0 .. Batch] /\ Batch \in Nat
    BY RunsAssumption DEF Inv, IInv, TypeOK
  <1>. SUFFICES ASSUME NEW f \in Es PROVE Accounted(f)'
    OBVIOUS
  <1>2. Accounted(f)
    BY DEF Told
  <1>3. CASE f # e
    <2>1. yes'[f] = yes[f] /\ gone'[f] = gone[f] /\ buf'[f] = buf[f] /\ todo'[f] = todo[f]
      BY <1>1, <1>3 DEF Confirmed, Declined
    <2>. QED BY <1>2, <2>1 DEF Accounted, Clean
  <1>4. CASE f = e
    <2>1. \/ yes'[e] = yes[e] /\ gone'[e] = gone[e] /\ buf'[e] = buf[e]
          \/ yes'[e] = yes[e] + 1 /\ gone'[e] = gone[e] + 1 /\ buf'[e] = buf[e]
          \/ yes'[e] = yes[e] + 1 /\ gone'[e] = gone[e] /\ buf'[e] = buf[e] + 1
      BY <1>1 DEF Confirmed, Declined
    <2>2. status[e] = None
      BY DEF Inv, IInv, Linked
    <2>. QED BY <1>1, <1>2, <1>4, <2>1, <2>2 DEF Accounted, Clean
  <1>. QED BY <1>3, <1>4

LEMMA UnwindTells ==
  ASSUME Inv, Told, NEW e \in Es, NEW r \in {"error", "hook", "raise"}, Unwind(e, r), at[e] = "run",
         UNCHANGED status
  PROVE  \A f \in Es : Accounted(f)'
  <1>1. /\ at' = [at EXCEPT ![e] = "leave"] /\ res' = [res EXCEPT ![e] = r]
        /\ buf' = [buf EXCEPT ![e] = 0]
        /\ UNCHANGED <<todo, yes, gone, air, reply, refused>>
    BY DEF Unwind
  <1>2. /\ at \in [Es -> {"queued", "run", "leave", "ended", "cancelled"}]
        /\ res \in [Es -> Outcomes] /\ buf \in [Es -> 0 .. Batch]
    BY DEF Inv, IInv, TypeOK
  <1>. SUFFICES ASSUME NEW f \in Es PROVE Accounted(f)'
    OBVIOUS
  <1>3. CASE f # e
    <2>1. at'[f] = at[f] /\ res'[f] = res[f] /\ buf'[f] = buf[f]
      BY <1>1, <1>2, <1>3
    <2>. QED BY <1>1, <2>1 DEF Told, Accounted, Clean
  <1>4. CASE f = e
    <2>1. status[e] = None
      BY DEF Inv, IInv, Linked
    <2>2. at'[e] = "leave" /\ res'[e] = r
      BY <1>1, <1>2
    <2>. QED BY <1>4, <2>1, <2>2 DEF Accounted
  <1>. QED BY <1>3, <1>4

LEMMA EndsTells ==
  ASSUME Inv, Told, NEW e \in Es, NEW r \in Outcomes, Ends(e, r), at[e] \in {"run", "leave"},
         UNCHANGED status, air[e] = 0, r = "ok" => gone[e] = yes[e] /\ todo[e] = 0
  PROVE  \A f \in Es : Accounted(f)'
  <1>1. /\ at' = [at EXCEPT ![e] = "ended"] /\ res' = [res EXCEPT ![e] = r]
        /\ UNCHANGED <<todo, yes, gone, air, buf, reply, refused>>
    BY DEF Ends
  <1>2. /\ at \in [Es -> {"queued", "run", "leave", "ended", "cancelled"}]
        /\ res \in [Es -> Outcomes]
    BY DEF Inv, IInv, TypeOK
  <1>. SUFFICES ASSUME NEW f \in Es PROVE Accounted(f)'
    OBVIOUS
  <1>3. CASE f # e
    <2>1. at'[f] = at[f] /\ res'[f] = res[f]
      BY <1>1, <1>2, <1>3
    <2>. QED BY <1>1, <2>1 DEF Told, Accounted, Clean
  <1>4. CASE f = e
    <2>1. status[e] = None
      BY DEF Inv, IInv, Linked
    <2>2. at'[e] = "ended" /\ res'[e] = r
      BY <1>1, <1>2
    <2>. QED BY <1>1, <1>4, <2>1, <2>2 DEF Accounted, Clean
  <1>. QED BY <1>3, <1>4

\* An entry's own steps, its collection apart.
LEMMA StepTold ==
  ASSUME Inv, Told, NEW e \in Es, rc = None, Entry(e), ~Collect(e)
  PROVE  Told'
  <1>1. /\ yes \in [Es -> Nat] /\ gone \in [Es -> Nat] /\ buf \in [Es -> 0 .. Batch]
        /\ todo \in [Es -> Nat] /\ air \in [Es -> 0 .. Batch] /\ Batch \in Nat
        /\ at \in [Es -> {"queued", "run", "leave", "ended", "cancelled"}]
        /\ reply \in [Es -> BOOLEAN] /\ refused \in [Es -> BOOLEAN]
    BY RunsAssumption DEF Inv, IInv, TypeOK
  <1>2. lock = e => at[e] = "run" /\ lock # None
    BY NoneNoEntry DEF Inv, IInv, Apart
  <1>w. warned' \in BOOLEAN
    BY DEF Told, Reasons, Entry, Works, Happens, Start, Ask, Decide, Answer, Quit, Send, Land,
           Report, Warn, Finish, Fail, Leave, Collect
  <1>3. CASE Start(e)
    <2>1. /\ \A f \in Es : at'[f] = IF f = e THEN "run" ELSE at[f]
          /\ at[e] = "queued"
          /\ UNCHANGED <<req, main, ints, todo, yes, gone, buf, air, reply, refused, res>>
      BY <1>1, <1>3 DEF Start, MayStart
    <2>2. \A f \in Es : Accounted(f)'
      BY <2>1 DEF Told, Accounted, Clean
    <2>. QED BY <2>1, <2>2, <1>w, EntryTold
  <1>4. CASE Ask(e) \/ Warn(e)
    <2>1. UNCHANGED <<req, entry, main, ints>>
      BY <1>4 DEF Ask, Warn
    <2>2. \A f \in Es : Accounted(f)'
      BY <2>1 DEF Told, Accounted, Clean
    <2>. QED BY <2>1, <2>2, <1>w, EntryTold
  <1>5. CASE Decide(e) \/ Answer(e)
    <2>1. /\ UNCHANGED <<req, at, main, ints, res, air, reply, refused>>
          /\ at[e] = "run" /\ todo' = [todo EXCEPT ![e] = @ - 1]
          /\ Confirmed(e) \/ Declined(e)
      BY <1>2, <1>5 DEF Decide, Deciding, Answer
    <2>2. \A f \in Es : Accounted(f)'
      BY <2>1, DecidedTells
    <2>. QED BY <2>1, <2>2, <1>w, EntryTold
  <1>6. CASE Quit(e) \/ Fail(e)
    <2>1. PICK r \in {"error", "hook", "raise"} :
            /\ Unwind(e, r) /\ at[e] = "run" /\ UNCHANGED <<req, pc, rc, why, ints, status>>
            /\ abort' => abort \/ r = "error"
      BY <1>2, <1>6 DEF Quit, Fail
    <2>2. \A f \in Es : Accounted(f)'
      BY <2>1, UnwindTells
    <2>3. /\ at'[e] = "leave" /\ res'[e] = r
          /\ \A f \in Es : f # e => at'[f] = at[f] /\ res'[f] = res[f]
      BY <2>1 DEF Unwind, Inv, IInv, TypeOK
    <2>. QED BY <2>1, <2>2, <2>3, <1>w, EntryTold
  <1>7. CASE Send(e)
    <2>1. /\ UNCHANGED <<req, at, main, ints, res, todo, yes, gone, reply, refused>>
          /\ at[e] = "run" /\ air[e] = 0 /\ ~reply[e]
          /\ air' = [air EXCEPT ![e] = buf[e]] /\ buf' = [buf EXCEPT ![e] = 0]
      BY <1>7 DEF Send, Inv, IInv, Linked
    <2>2. ASSUME NEW f \in Es PROVE Accounted(f)'
      BY <1>1, <2>1 DEF Told, Accounted, Clean
    <2>. QED BY <2>1, <2>2, <1>w, EntryTold
  <1>8. CASE Land(e)
    <2>1. /\ UNCHANGED <<req, at, main, ints, res, todo, yes, air, buf>>
          /\ air[e] > 0 /\ ~reply[e] /\ reply' = [reply EXCEPT ![e] = TRUE]
          /\ \/ gone' = [gone EXCEPT ![e] = @ + air[e]] /\ UNCHANGED refused
             \/ refused' = [refused EXCEPT ![e] = TRUE] /\ UNCHANGED gone
      BY <1>8 DEF Land
    <2>2. ASSUME NEW f \in Es PROVE Accounted(f)'
      <3>1. CASE f # e
        BY <1>1, <2>1, <3>1 DEF Told, Accounted, Clean
      <3>2. CASE f = e
        <4>1. at[e] # "ended"
          BY <2>1 DEF Told, Accounted
        <4>. QED BY <1>1, <2>1, <3>2, <4>1 DEF Told, Accounted, Clean
      <3>. QED BY <3>1, <3>2
    <2>. QED BY <2>1, <2>2, <1>w, EntryTold
  <1>9. CASE Report(e)
    <2>1. /\ UNCHANGED <<req, at, main, ints, res, todo, yes, gone, buf, refused>>
          /\ reply[e] /\ air' = [air EXCEPT ![e] = 0] /\ reply' = [reply EXCEPT ![e] = FALSE]
      BY <1>9 DEF Report
    <2>2. ASSUME NEW f \in Es PROVE Accounted(f)'
      BY <1>1, <2>1 DEF Told, Accounted, Clean
    <2>. QED BY <2>1, <2>2, <1>w, EntryTold
  <1>10. CASE Finish(e)
    <2>1. /\ at[e] = "run" /\ todo[e] = 0 /\ buf[e] = 0 /\ air[e] = 0
          /\ Ends(e, Outcome(e)) /\ UNCHANGED <<req, main, ints>>
      BY <1>10 DEF Finish
    <2>2. Outcome(e) = "ok" => gone[e] = yes[e]
      BY <1>1, <2>1 DEF Told, Accounted, Outcome
    <2>3. \A f \in Es : at'[f] = (IF f = e THEN "ended" ELSE at[f]) /\ (f # e => res'[f] = res[f])
      BY <1>1, <2>1 DEF Ends, Inv, IInv, TypeOK
    <2>4. \A f \in Es : Accounted(f)'
      <3>1. Outcome(e) \in Outcomes
        BY DEF Outcome, Outcomes
      <3>. QED BY <2>1, <2>2, <3>1, EndsTells
    <2>. QED BY <2>1, <2>3, <2>4, <1>w, EntryTold
  <1>11. CASE Leave(e)
    <2>1. at[e] = "leave" /\ air[e] = 0 /\ Ends(e, res[e]) /\ UNCHANGED <<req, main, ints>>
      BY <1>11 DEF Leave
    <2>2. res[e] \in Outcomes /\ res[e] # "ok"
      BY <2>1 DEF Inv, IInv, TypeOK, Told, Accounted
    <2>3. \A f \in Es : /\ at'[f] = (IF f = e THEN "ended" ELSE at[f])
                        /\ res'[f] = res[f]
      BY <1>1, <2>1 DEF Ends, Inv, IInv, TypeOK
    <2>4. \A f \in Es : Accounted(f)'
      BY <2>1, <2>2, EndsTells
    <2>. QED BY <2>1, <2>3, <2>4, <1>w, EntryTold
  <1>. QED BY <1>3, <1>4, <1>5, <1>6, <1>7, <1>8, <1>9, <1>10, <1>11 DEF Entry, Works, Happens

\* A result: its status, or the exception the main thread unwinds with.
LEMMA CollectTold == ASSUME Inv, Told, NEW e \in Es, rc = None, Collect(e) PROVE Told'
  <1>1. /\ Es' = Es /\ Serial' = Serial /\ pc = "run" /\ pc' # "done"
        /\ at[e] = "ended" /\ status[e] = None
        /\ UNCHANGED <<abort, ints, warned, res, todo, yes, gone, buf, air, reply, refused>>
    BY SameCommand DEF Collect
  <1>2. CASE UNCHANGED <<pc, at>> /\ status' = [status EXCEPT ![e] = Status(res[e])]
    <2>1. \A f \in Es : Accounted(f)'
      BY <1>1, <1>2 DEF Told, Accounted, Clean, Inv, IInv, TypeOK
    <2>2. Reasons' /\ ExitTells'
      BY <1>1, <1>2 DEF Told, Reasons, ExitTells
    <2>. QED BY <1>1, <2>1, <2>2 DEF Told
  <1>3. CASE /\ pc' = "stop" /\ why' = res[e] /\ at' = Cancelled /\ UNCHANGED status
             /\ res[e] = "pipe" \/ (res[e] = "raise" /\ Serial)
    <2>1. \A f \in Es : at'[f] = at[f] \/ (at[f] = "queued" /\ at'[f] = "cancelled")
      BY <1>3, CancelledType
    <2>2. \A f \in Es : Accounted(f)'
      BY <1>1, <1>3, <2>1 DEF Told, Accounted, Clean
    <2>3. Reasons'
      <3>1. ints = 0 /\ warned \in BOOLEAN
        BY <1>1 DEF Told, Reasons
      <3>2. at'[e] = "ended" /\ res'[e] = res[e]
        BY <1>1, <2>1
      <3>3. abort' => \E f \in Es : at'[f] \in {"leave", "ended"} /\ res'[f] = "error"
        BY <1>1, <2>1 DEF Told, Reasons
      <3>. QED BY <1>1, <1>3, <3>1, <3>2, <3>3 DEF Reasons
    <2>. QED BY <1>1, <2>2, <2>3 DEF Told, ExitTells
  <1>. QED BY <1>2, <1>3 DEF Collect

LEMMA NextHalfTold == ASSUME Inv, Told, NextHalf PROVE Told'
  <1>1. /\ Es' = Es /\ pc' = "run" /\ ints' = 0 /\ ~abort'
        /\ at' = ToEach("queued") /\ yes' = ToEach(0) /\ gone' = ToEach(0) /\ buf' = ToEach(0)
        /\ air' = ToEach(0) /\ status' = ToEach(None) /\ warned' \in BOOLEAN
    BY SameCommand DEF NextHalf, Fresh, Told, Reasons
  <1>2. \A f \in Es : Accounted(f)'
    BY <1>1 DEF Accounted, ToEach
  <1>. QED BY <1>1, <1>2 DEF Told, Reasons, ExitTells

LEMMA ReturnTold == ASSUME Inv, Told, Return PROVE Told'
  <1>1. /\ Es' = Es /\ Serial' = Serial /\ Last' = Last /\ pc = "run" /\ pc' = "done" /\ HalfOver
        /\ UNCHANGED <<req, entry, half, abort, status, warned, ints>>
    BY SameCommand DEF Return, Last
  <1>2. (\A f \in Es : Accounted(f)') /\ Reasons'
    BY <1>1 DEF Told, Accounted, Clean, Reasons
  <1>3. FirstFailure \in {0, 1, 3}
    BY FirstFailureType
  <1>4. ints = 0 /\ half \in {1, 2} /\ Last \in {1, 2}
    BY <1>1 DEF Told, Reasons, Last, Inv, IInv, TypeOK
  <1>5. abort => FirstFailure # 0
    <2>1. SUFFICES ASSUME abort PROVE FirstFailure # 0
      OBVIOUS
    <2>2. PICK e \in Es : at[e] \in {"leave", "ended"} /\ res[e] = "error"
      BY <2>1 DEF Told, Reasons
    <2>3. status[e] # None /\ status[e] # 0
      BY <1>1, <2>2, StatusTells DEF HalfOver, Told, Accounted
    <2>. QED BY <2>3, FirstFailureTells
  <1>6. CASE FirstFailure = 0
    <2>1. half = Last /\ ~abort
      BY <1>5, <1>6 DEF Return
    <2>2. rc' \in {0, 2} /\ ((rc' = 2) = warned)
      BY <1>4, <1>6, <2>1 DEF Return, Told, Reasons
    <2>3. ASSUME NEW e \in Es PROVE Clean(e)'
      <3>1. status[e] # None /\ status[e] = 0
        BY <1>1, <1>6, <2>1, FirstFailureTells DEF HalfOver
      <3>2. at[e] = "ended" /\ Clean(e)
        BY <3>1, StatusTells DEF Told, Accounted, Inv, IInv, Linked
      <3>. QED BY <1>1, <3>2 DEF Clean
    <2>4. ExitTells'
      BY <1>1, <1>4, <2>1, <2>2, <2>3 DEF ExitTells
    <2>. QED BY <1>1, <1>2, <2>4 DEF Told
  <1>7. CASE FirstFailure # 0
    <2>1. rc' = FirstFailure /\ rc' \in {1, 3}
      BY <1>3, <1>7 DEF Return
    <2>2. PICK e \in Es : /\ FirstFailure = status[e] /\ status[e] \notin {0, None}
                          /\ \A f \in Es : f < e => status[f] \in {0, None}
      BY <1>7, FirstFailureTells
    <2>3. status[e] = Status(res[e]) /\ res[e] # "ok"
      BY <2>2, StatusTells DEF Told, Accounted
    <2>4. ASSUME ~Serial, NEW f \in Es PROVE at[f] = "ended" /\ (f < e => Clean(f))
      <3>1. status[f] # None
        BY <1>1, <2>4 DEF HalfOver
      <3>2. f < e => status[f] = 0
        BY <2>2, <3>1
      <3>. QED BY <3>1, <3>2, StatusTells DEF Told, Accounted, Inv, IInv, Linked
    <2>5. ~Serial => rc' = Status(res'[e]) /\ \A f \in Es : at'[f] = "ended" /\ (f < e => Clean(f)')
      BY <1>1, <2>1, <2>2, <2>3, <2>4 DEF Clean
    <2>6. ExitTells'
      BY <1>1, <1>4, <2>1, <2>3, <2>5 DEF ExitTells
    <2>. QED BY <1>1, <1>2, <2>6 DEF Told
  <1>. QED BY <1>6, <1>7

LEMMA InterruptTold == ASSUME Inv, Told, Interrupt PROVE Told'
  <1>1. /\ Es' = Es /\ Serial' = Serial /\ pc' = "stop" /\ why' = "int" /\ ints' = 1
        /\ UNCHANGED <<abort, warned, status, todo, yes, gone, air, reply, refused>>
    BY SameCommand DEF Interrupt
  <1>2. ASSUME NEW f \in Es
        PROVE  /\ at[f] = "ended" => at'[f] = "ended"
               /\ at[f] = "leave" => at'[f] = "leave"
               /\ at'[f] = "leave" /\ at[f] # "leave" => at[f] = "run" /\ res'[f] = "cut"
               /\ at[f] # "run" => res'[f] = res[f] /\ buf'[f] = buf[f]
               /\ at'[f] \in {"queued", "run"} => at[f] = at'[f] /\ res'[f] = res[f] /\ buf'[f] = buf[f]
               /\ at'[f] = "ended" => at[f] = "ended"
    BY CancelledType DEF Interrupt, Inv, IInv, TypeOK
  <1>3. ASSUME NEW f \in Es PROVE Accounted(f)'
    <2>1. Accounted(f) /\ (status[f] # None => at[f] = "ended")
      BY DEF Told, Inv, IInv, Linked
    <2>. QED BY <1>1, <1>2, <2>1 DEF Accounted, Clean
  <1>4. abort => \E e \in Es : at'[e] \in {"leave", "ended"} /\ res'[e] = "error"
    BY <1>2 DEF Told, Reasons
  <1>. QED BY <1>1, <1>3, <1>4 DEF Told, Reasons, ExitTells

LEMMA ExitNowTold == ASSUME Inv, Told, ExitNow PROVE Told'
  <1>1. /\ Es' = Es /\ pc' = "done" /\ rc' = 130 /\ ints' = 2
        /\ UNCHANGED <<req, entry, half, abort, status, why, warned>>
    BY SameCommand DEF ExitNow
  <1>2. (\A f \in Es : Accounted(f)') /\ Reasons'
    BY <1>1 DEF Told, Accounted, Clean, Reasons
  <1>. QED BY <1>1, <1>2 DEF Told, ExitTells

LEMMA ExitTold == ASSUME Inv, Told, Exit PROVE Told'
  <1>1. /\ Es' = Es /\ Serial' = Serial /\ pc = "stop" /\ pc' = "done"
        /\ UNCHANGED <<req, entry, half, abort, status, why, ints, warned>>
        /\ rc' = CASE why = "int" -> 130 [] why = "pipe" -> 141 [] OTHER -> 1
    BY SameCommand DEF Exit
  <1>2. (\A f \in Es : Accounted(f)') /\ Reasons'
    BY <1>1 DEF Told, Accounted, Clean, Reasons
  <1>3. /\ why \in {"int", "pipe", "raise"} /\ (why = "int") = (ints > 0)
        /\ why = "pipe" => \E e \in Es : res[e] = "pipe"
        /\ why = "raise" => Serial /\ \E e \in Es : res[e] = "raise"
    BY <1>1 DEF Told, Reasons
  <1>4. ExitTells'
    BY <1>1, <1>3 DEF ExitTells
  <1>. QED BY <1>1, <1>2, <1>4 DEF Told

LEMMA ToldInductive == Inv /\ Told /\ [Next]_vars => Told'
  <1>. SUFFICES ASSUME Inv, Told, [Next]_vars PROVE Told'
    OBVIOUS
  <1>1. CASE UNCHANGED vars
    <2>1. Es' = Es /\ Serial' = Serial /\ Last' = Last
      BY <1>1, SameCommand DEF vars, Last
    <2>. QED BY <1>1, <2>1 DEF vars, Told, Accounted, Clean, Reasons, ExitTells
  <1>2. ASSUME NEW e \in Es, rc = None, Entry(e) PROVE Told'
    BY <1>2, StepTold, CollectTold
  <1>. QED BY <1>1, <1>2, NextHalfTold, ReturnTold, InterruptTold, ExitNowTold, ExitTold DEF Next

-----------------------------------------------------------------------------
(* The theorems.                                                           *)

\* In every run, entries that run at once hold different stores, only a run on
\* the main thread asks, and what was deleted was confirmed.
THEOREM RunsApart == Spec => []IInv
  <1>1. Inv => IInv
    BY DEF Inv
  <1>. QED BY <1>1, Initially, Inductive, PTL DEF Spec

\* The exit code tells how the entries ended: what a 0, a 2, a 130 and a 141 say,
\* and whose status a pool's other codes are.
THEOREM ExitCodeTells == Spec => []ExitTells
  <1>1. Init => Inv /\ Told
    BY Initially, ToldInitially
  <1>2. (Inv /\ Told) /\ [Next]_vars => (Inv /\ Told)'
    BY Inductive, ToldInductive
  <1>3. Told => ExitTells
    BY DEF Told
  <1>. QED BY <1>1, <1>2, <1>3, PTL DEF Spec

\* After a q nothing starts, is decided, confirmed or sent, and no push follows.
THEOREM QuitIsFinal == Spec => AbortIsFinal
  <1>. DEFINE Still == /\ half' = half /\ todo' = todo /\ yes' = yes
                       /\ \A e \in Es : /\ at[e] = "queued" => at'[e] # "run"
                                        /\ air'[e] <= air[e]
  <1>1. Inv /\ abort /\ [Next]_vars => Still
    <2>. SUFFICES ASSUME Inv, abort, [Next]_vars PROVE Still
      OBVIOUS
    <2>1. Serial /\ \A e \in Es : at[e] # "run" /\ lock # e
      BY NoneNoEntry DEF Inv, IInv, Linked, Apart
    <2>2. air \in [Es -> 0 .. Batch] /\ Batch \in Nat
      BY RunsAssumption DEF Inv, IInv, TypeOK
    <2>3. CASE UNCHANGED vars
      BY <2>2, <2>3 DEF vars
    <2>4. ASSUME NEW e \in Es, Entry(e) PROVE Still
      <3>1. CASE Land(e)
        BY <2>2, <3>1 DEF Land
      <3>2. CASE Report(e)
        BY <2>2, <3>2 DEF Report
      <3>3. CASE Leave(e)
        BY <2>2, <3>3 DEF Leave, Ends, Inv, IInv, TypeOK
      <3>4. CASE Collect(e)
        BY <2>2, <3>4, CancelledType DEF Collect
      <3>. QED BY <2>1, <2>4, <3>1, <3>2, <3>3, <3>4
         DEF Entry, Works, Happens, Start, MayStart, Ask, Decide, Deciding, Send, Finish, Answer,
             Quit, Fail, Warn
    <2>5. CASE Interrupt
      BY <2>2, <2>5, CancelledType DEF Interrupt
    <2>6. CASE Return \/ ExitNow \/ Exit
      <3>1. UNCHANGED <<half, todo, yes, at, air>>
        BY <2>6 DEF Return, ExitNow, Exit
      <3>. QED BY <2>2, <3>1
    <2>7. ~NextHalf
      BY DEF NextHalf
    <2>. QED BY <2>3, <2>4, <2>5, <2>6, <2>7 DEF Next
  <1>. QED BY <1>1, Initially, Inductive, PTL DEF Spec, AbortIsFinal
=============================================================================
