----------------------------- MODULE PtsWaiter -----------------------------
(***************************************************************************)
(* PtsWaiter (data/data_pts_waiter.h, data/data_pts_waiter.cpp): the       *)
(* bookkeeping of one pts stream.  The account has one stream (Api::       *)
(* Updates::_ptsWaiter) and every channel has one (ChannelData::           *)
(* _ptsWaiter).  The server numbers the events of a stream; an update      *)
(* carries the number "pts" reached after it and the number "count" of     *)
(* events it stands for, so it occupies the slots pts-count+1 .. pts.      *)
(*                                                                         *)
(* The waiter is a record and every method is an operator on it, so that   *)
(* Updates.tla can keep one waiter per stream.                             *)
(*   good, last, count   _good, _last, _count                              *)
(*   requesting          _requesting: a difference is being requested      *)
(*   skipped, shortPoll  _waitingForSkipped, _waitingForShortPoll          *)
(*   queue               the updates held in _queue with their payload in  *)
(*                       _updateQueue / _updatesQueue                      *)
(*   armed               the owner holds a deadline for this waiter        *)
(*                       (_getDifferenceTimeByPts is not 0, or             *)
(*                       _whenGetDiffByPts has an entry for the channel)   *)
(* _applySkippedLevel is not 0 only inside applySkippedUpdates, which is   *)
(* one step here.  The queue is ordered by pts in the code; the properties *)
(* speak of what is applied, so a set is kept.  int32 does not wrap: the   *)
(* server's pts stay far below 2^31.                                       *)
(***************************************************************************)
EXTENDS Integers

(***************************************************************************)
(* An update as the waiter sees it.                                        *)
(***************************************************************************)
Update == [pts : Nat, count : Nat]

(***************************************************************************)
(* The slots an update stands for.                                         *)
(***************************************************************************)
Slots(u) == (u.pts - u.count + 1) .. u.pts

Waiter ==
  [good : Nat, last : Nat, count : Nat,
   requesting : BOOLEAN, skipped : BOOLEAN, shortPoll : BOOLEAN,
   queue : SUBSET Update, armed : BOOLEAN]

NewWaiter ==
  [good |-> 0, last |-> 0, count |-> 0,
   requesting |-> FALSE, skipped |-> FALSE, shortPoll |-> FALSE,
   queue |-> {}, armed |-> FALSE]

inited(w) == w.good > 0

init(w, pts) ==
  [w EXCEPT !.good = pts, !.last = pts, !.count = pts, !.queue = {}]

\* Mutant: the queue outlives the start of a request.
setRequesting_KeepsQueue(w, on) == [w EXCEPT !.requesting = on]

setRequesting(w, on) ==
  [w EXCEPT !.requesting = on, !.queue = IF on THEN {} ELSE @]

(***************************************************************************)
(* The owner drops its deadline once neither reason to wait is left.       *)
(***************************************************************************)
checkForWaiting(w) ==
  [w EXCEPT !.armed = @ /\ (w.skipped \/ w.shortPoll)]

setWaitingForSkipped(w, on) ==
  IF on THEN [w EXCEPT !.armed = TRUE, !.skipped = TRUE]
        ELSE checkForWaiting([w EXCEPT !.skipped = FALSE])

\* Mutant: the end of polling drops the deadline a gap still needs.
setWaitingForShortPoll_DropsDeadline(w, on) ==
  [w EXCEPT !.armed = on, !.shortPoll = on]

setWaitingForShortPoll(w, on) ==
  IF on THEN [w EXCEPT !.armed = TRUE, !.shortPoll = TRUE]
        ELSE checkForWaiting([w EXCEPT !.shortPoll = FALSE])

(***************************************************************************)
(* PtsWaiter::check: count the update in, and move _good when no slot is   *)
(* missing.  checkResult is what it returns: FALSE asks the caller to keep *)
(* the update for later.                                                   *)
(***************************************************************************)
\* Mutant: the events of an update are taken off the count.
CountIn_Down(w, u) ==
  [w EXCEPT !.last = IF u.pts > @ THEN u.pts ELSE @, !.count = @ - u.count]

CountIn(w, u) ==
  [w EXCEPT !.last = IF u.pts > @ THEN u.pts ELSE @, !.count = @ + u.count]

\* Mutant: an update that fills a part of the gap ends the wait for the rest.
check_PartEndsWait(w, u) ==
  LET v == CountIn(w, u) IN
  IF ~inited(w) THEN init(w, u.pts)
  ELSE IF v.last = v.count THEN [v EXCEPT !.good = v.last]
  ELSE setWaitingForSkipped(v, v.last > w.last)

check(w, u) ==
  LET v == CountIn(w, u) IN
  IF ~inited(w) THEN init(w, u.pts)
  ELSE IF v.last = v.count THEN [v EXCEPT !.good = v.last]
  ELSE setWaitingForSkipped(v, TRUE)

checkResult(w, u) ==
  \/ ~inited(w)
  \/ CountIn(w, u).last = CountIn(w, u).count
  \/ u.count = 0

(***************************************************************************)
(* PtsWaiter::updated.  bypassed: the waiter counts nothing while a        *)
(* difference is requested.  outdated: the update was seen before.         *)
(***************************************************************************)
\* Mutant: updates move the pts while a difference is requested.
bypassed_Never(w) == FALSE

bypassed(w) == w.requesting

\* Mutant: an update seen before is counted again.
outdated_Never(w, u) == FALSE

outdated(w, u) == ~bypassed(w) /\ u.pts <= w.good /\ u.count > 0

accepted(w, u) == bypassed(w) \/ (~outdated(w, u) /\ checkResult(w, u))

afterUpdated(w, u) ==
  IF bypassed(w) \/ outdated(w, u) THEN w ELSE check(w, u)

applySkippedUpdates(w) ==
  IF w.skipped THEN [setWaitingForSkipped(w, FALSE) EXCEPT !.queue = {}] ELSE w

(***************************************************************************)
(* PtsWaiter::updateAndApply with a payload: the waiter it leaves, and the *)
(* updates it has the owner apply.  An accepted update is applied at once  *)
(* when nothing waits; otherwise it joins the queue and all of it applies. *)
(***************************************************************************)
updateAndApply(w, u) ==
  LET v == afterUpdated(w, u) IN
  IF ~accepted(w, u)
  THEN IF outdated(w, u) THEN v ELSE [v EXCEPT !.queue = @ \cup {u}]
  ELSE IF ~v.skipped \/ v.queue = {} THEN v ELSE applySkippedUpdates(v)

\* Mutant: the queue is thrown away when the gap closes.
appliedBy_WithoutQueue(w, u) == IF accepted(w, u) THEN {u} ELSE {}

appliedBy(w, u) ==
  LET v == afterUpdated(w, u) IN
  IF ~accepted(w, u) THEN {}
  ELSE IF ~v.skipped \/ v.queue = {} THEN {u} ELSE v.queue \cup {u}

(***************************************************************************)
(* PtsWaiter::updateAndApply without a payload: pts and count of a request *)
(* whose effect the caller has applied itself (affectedMessages, and       *)
(* ChannelData::ptsReceived with count 0).                                 *)
(***************************************************************************)
updateAndApplyAffected(w, u) ==
  LET v == afterUpdated(w, u) IN
  IF accepted(w, u) THEN applySkippedUpdates(v) ELSE v

appliedByAffected(w, u) ==
  LET v == afterUpdated(w, u) IN
  IF accepted(w, u) /\ v.skipped THEN v.queue ELSE {}

-----------------------------------------------------------------------------
(***************************************************************************)
(* For the history of a stream, when update u takes waiter w to v: the     *)
(* slots beyond _good that _count includes (cnt before), and the pts the   *)
(* stream is followed from (b before).                                     *)
(***************************************************************************)
countedAfter(w, u, v, cnt) ==
  IF v.last = v.count THEN {}
  ELSE IF bypassed(w) \/ outdated(w, u) THEN cnt ELSE cnt \cup Slots(u)

baseAfter(w, v, b) == IF inited(w) THEN b ELSE v.good
=============================================================================
