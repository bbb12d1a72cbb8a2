-------------------------- MODULE PtsWaiterProofs --------------------------
(***************************************************************************)
(* Facts about the methods of PtsWaiter, for every waiter and update.      *)
(***************************************************************************)
EXTENDS PtsWaiter, FiniteSetTheorems, TLAPS

SlotSet(us) == UNION {Slots(u) : u \in us}

(***************************************************************************)
(* What holds of a waiter w and the set cnt of the slots beyond _good that *)
(* it has counted; ends are the pts at which some event ended.             *)
(***************************************************************************)
Sound(w, ends, cnt) ==
  /\ w.good \in ends \cup {0} /\ w.last \in ends \cup {0}
  /\ w.good <= w.last /\ (w.good = 0 => w.last = 0 /\ w.queue = {})
  /\ cnt \subseteq (w.good + 1) .. w.last
  /\ w.count = w.good + Cardinality(cnt)
  /\ w.last = w.count => w.good = w.last
  /\ w.queue # {} => w.skipped /\ w.armed
  /\ w.requesting => w.queue = {}

\* app are the slots whose effect is there, b the pts the client started at.
Covers(w, cnt, app, b) ==
  /\ ~w.requesting => cnt \subseteq app \cup SlotSet(w.queue)
  /\ (b + 1) .. w.good \subseteq app

\* The pts in ends are boundaries that update u does not reach across.
Whole(u, ends) == \A e \in ends : e <= u.pts - u.count \/ e >= u.pts

CountedBy(w, u, cnt) == countedAfter(w, u, afterUpdated(w, u), cnt)

-----------------------------------------------------------------------------
(***************************************************************************)
(* The methods keep a waiter a waiter.                                     *)
(***************************************************************************)
LEMMA InitType ==
  ASSUME NEW w \in Waiter, NEW p \in Nat
  PROVE  /\ init(w, p) \in Waiter
         /\ init(w, p).good = p /\ init(w, p).last = p /\ init(w, p).count = p
         /\ init(w, p).queue = {}
         /\ init(w, p).requesting = w.requesting
         /\ init(w, p).armed = w.armed /\ init(w, p).skipped = w.skipped
BY DEF Waiter, init

\* setRequesting changes _requesting only, and empties the queue when set.
LEMMA RequestingType ==
  ASSUME NEW w \in Waiter, NEW on \in BOOLEAN
  PROVE  LET v == setRequesting(w, on) IN
         /\ v \in Waiter
         /\ v.good = w.good /\ v.last = w.last /\ v.count = w.count
         /\ v.requesting = on
         /\ v.armed = w.armed /\ v.skipped = w.skipped
         /\ v.queue = IF on THEN {} ELSE w.queue
BY DEF Waiter, setRequesting

\* setWaitingForSkipped: a gap that is waited for has a deadline.
LEMMA SkippedType ==
  ASSUME NEW w \in Waiter, NEW on \in BOOLEAN
  PROVE  LET v == setWaitingForSkipped(w, on) IN
         /\ v \in Waiter
         /\ v.good = w.good /\ v.last = w.last /\ v.count = w.count
         /\ v.requesting = w.requesting /\ v.queue = w.queue
         /\ v.skipped = on /\ (on => v.armed)
BY DEF Waiter, setWaitingForSkipped, checkForWaiting

\* setWaitingForShortPoll leaves the pts and a gap's deadline alone.
LEMMA ShortPollType ==
  ASSUME NEW w \in Waiter, NEW on \in BOOLEAN
  PROVE  LET v == setWaitingForShortPoll(w, on) IN
         /\ v \in Waiter
         /\ v.good = w.good /\ v.last = w.last /\ v.count = w.count
         /\ v.requesting = w.requesting /\ v.queue = w.queue
         /\ v.skipped = w.skipped /\ (w.armed /\ w.skipped => v.armed)
BY DEF Waiter, setWaitingForShortPoll, checkForWaiting

(***************************************************************************)
(* The four ways PtsWaiter::updated ends: it ignores the update, starts    *)
(* from it, closes the gap with it, or counts it in and waits.             *)
(***************************************************************************)
Ignored(w, u) == bypassed(w) \/ outdated(w, u)
Closes(w, u) == CountIn(w, u).last = CountIn(w, u).count

\* What PtsWaiter::check adds up before it compares _last and _count.
LEMMA CountInType ==
  ASSUME NEW w \in Waiter, NEW u \in Update, NEW x, x = CountIn(w, u)
  PROVE  /\ x \in Waiter /\ x.requesting = w.requesting /\ x.queue = w.queue
         /\ x.last = (IF u.pts > w.last THEN u.pts ELSE w.last)
         /\ x.count = w.count + u.count /\ x.good = w.good
         /\ x.skipped = w.skipped /\ x.armed = w.armed
<1>1. x \in Waiter
  <2> DEFINE n == IF u.pts > w.last THEN u.pts ELSE w.last
             k == w.count + u.count
  <2>1. n \in Nat
    BY DEF Waiter, Update
  <2>2. k \in Nat
    BY DEF Waiter, Update
  <2>3. x = [w EXCEPT !.last = n, !.count = k]
    BY DEF CountIn
  <2> HIDE DEF n, k
  <2> QED BY <2>1, <2>2, <2>3 DEF Waiter
<1>2. x.last = (IF u.pts > w.last THEN u.pts ELSE w.last)
  BY DEF Waiter, Update, CountIn
<1>3. x.count = w.count + u.count
  BY DEF Waiter, Update, CountIn
<1>4. /\ x.requesting = w.requesting /\ x.queue = w.queue /\ x.good = w.good
      /\ x.skipped = w.skipped /\ x.armed = w.armed
  BY DEF Waiter, Update, CountIn
<1> QED BY <1>1, <1>2, <1>3, <1>4

\* PtsWaiter::updated while a request is out, or for an update seen before.
LEMMA UpdatedIgnored ==
  ASSUME NEW w \in Waiter, NEW u \in Update, Ignored(w, u)
  PROVE  afterUpdated(w, u) = w /\ (accepted(w, u) <=> bypassed(w))
BY DEF Ignored, afterUpdated, accepted, bypassed, outdated, Waiter

\* The first update of a stream whose pts was unknown.
LEMMA UpdatedStarts ==
  ASSUME NEW w \in Waiter, NEW u \in Update, NEW v, v = afterUpdated(w, u),
         ~Ignored(w, u), ~inited(w)
  PROVE  /\ v \in Waiter /\ v.good = u.pts /\ v.last = u.pts /\ v.count = u.pts
         /\ v.queue = {} /\ v.requesting = w.requesting /\ accepted(w, u)
<1>1. v = init(w, u.pts) /\ accepted(w, u) /\ u.pts \in Nat
  BY DEF Ignored, afterUpdated, accepted, bypassed, outdated, check,
         checkResult, Update
<1> QED BY <1>1, InitType

\* An update after which no slot is missing: _good moves to _last.
LEMMA UpdatedCloses ==
  ASSUME NEW w \in Waiter, NEW u \in Update, NEW v, v = afterUpdated(w, u),
         ~Ignored(w, u), inited(w), Closes(w, u)
  PROVE  /\ v \in Waiter
         /\ v.last = (IF u.pts > w.last THEN u.pts ELSE w.last)
         /\ v.count = w.count + u.count
         /\ v.good = v.last /\ v.last = v.count
         /\ v.queue = w.queue /\ v.requesting = w.requesting
         /\ v.skipped = w.skipped /\ v.armed = w.armed
         /\ accepted(w, u)
<1> DEFINE x == CountIn(w, u)
<1>1. v = [x EXCEPT !.good = x.last] /\ accepted(w, u)
  BY DEF Ignored, afterUpdated, accepted, check, checkResult, bypassed,
         outdated, Closes
<1>2. x.last = x.count
  BY DEF Closes
<1>3. /\ x \in Waiter /\ x.requesting = w.requesting /\ x.queue = w.queue
      /\ x.last = (IF u.pts > w.last THEN u.pts ELSE w.last)
      /\ x.count = w.count + u.count
      /\ x.skipped = w.skipped /\ x.armed = w.armed
  BY CountInType
<1> HIDE DEF x
<1>4. /\ v \in Waiter /\ v.good = x.last /\ v.last = x.last
      /\ v.count = x.count /\ v.queue = x.queue /\ v.skipped = x.skipped
      /\ v.armed = x.armed /\ v.requesting = x.requesting
  BY <1>1, <1>3 DEF Waiter
<1> QED BY <1>1, <1>2, <1>3, <1>4

\* An update that leaves a gap: the waiter waits, with a deadline.
LEMMA UpdatedWaits ==
  ASSUME NEW w \in Waiter, NEW u \in Update, NEW v, v = afterUpdated(w, u),
         ~Ignored(w, u), inited(w), ~Closes(w, u)
  PROVE  /\ v \in Waiter
         /\ v.last = (IF u.pts > w.last THEN u.pts ELSE w.last)
         /\ v.count = w.count + u.count
         /\ v.good = w.good /\ v.last # v.count
         /\ v.queue = w.queue /\ v.requesting = w.requesting
         /\ v.skipped /\ v.armed
         /\ accepted(w, u) <=> u.count = 0
<1> DEFINE x == CountIn(w, u)
<1>1. v = setWaitingForSkipped(x, TRUE) /\ (accepted(w, u) <=> u.count = 0)
  BY DEF Ignored, afterUpdated, accepted, check, checkResult, bypassed,
         outdated, Closes
<1>2. x.last # x.count
  BY DEF Closes
<1>3. /\ x \in Waiter /\ x.requesting = w.requesting /\ x.queue = w.queue
      /\ x.last = (IF u.pts > w.last THEN u.pts ELSE w.last)
      /\ x.count = w.count + u.count /\ x.good = w.good
  BY CountInType
<1> HIDE DEF x
<1> DEFINE y == setWaitingForSkipped(x, TRUE)
<1>4. /\ y \in Waiter /\ y.good = x.good /\ y.last = x.last
      /\ y.count = x.count /\ y.requesting = x.requesting
      /\ y.queue = x.queue /\ y.skipped /\ y.armed
  BY <1>3, SkippedType
<1> HIDE DEF y
<1>5. v = y /\ (accepted(w, u) <=> u.count = 0)
  BY <1>1 DEF y
<1> QED BY <1>2, <1>3, <1>4, <1>5
-----------------------------------------------------------------------------
(***************************************************************************)
(* Counting: the arithmetic behind _last = _count.                         *)
(***************************************************************************)
LEMMA SlotsCount ==
  ASSUME NEW u \in Update
  PROVE  IsFiniteSet(Slots(u)) /\ Cardinality(Slots(u)) = u.count
<1> DEFINE a == u.pts - u.count + 1
           b == u.pts
<1>1. a \in Int /\ b \in Int /\ (IF a > b THEN 0 ELSE b - a + 1) = u.count
  BY DEF Update
<1>2. Slots(u) = a .. b
  BY DEF Slots
<1> HIDE DEF a, b
<1> QED BY <1>1, <1>2, FS_Interval

\* Bounded sets of slots are finite.
LEMMA BoundedFinite ==
  ASSUME NEW good \in Nat, NEW last \in Nat,
         NEW cnt, cnt \subseteq (good + 1) .. last
  PROVE  IsFiniteSet(cnt) /\ Cardinality(cnt) \in Nat
<1>1. IsFiniteSet((good + 1) .. last)
  <2>1. good + 1 \in Int /\ last \in Int
    OBVIOUS
  <2> QED BY <2>1, FS_Interval
<1> QED BY <1>1, FS_Subset, FS_CardinalityType

\* As many slots as there are numbers between good and last are all of them.
LEMMA FullCount ==
  ASSUME NEW good \in Nat, NEW last \in Nat, good <= last,
         NEW cnt, cnt \subseteq (good + 1) .. last,
         last = good + Cardinality(cnt)
  PROVE  cnt = (good + 1) .. last
<1>1. IsFiniteSet((good + 1) .. last)
      /\ Cardinality((good + 1) .. last) = last - good
  <2>1. good + 1 \in Int /\ last \in Int
        /\ (IF good + 1 > last THEN 0 ELSE last - (good + 1) + 1) = last - good
    OBVIOUS
  <2> QED BY <2>1, FS_Interval
<1>2. IsFiniteSet(cnt) /\ Cardinality(cnt) \in Nat
  BY <1>1, FS_Subset, FS_CardinalityType
<1>3. Cardinality((good + 1) .. last) = Cardinality(cnt)
  BY <1>1, <1>2
<1> QED BY <1>1, <1>3, FS_Subset

\* Disjoint slots add up.
LEMMA CountAdds ==
  ASSUME NEW u \in Update, NEW cnt, IsFiniteSet(cnt), Slots(u) \cap cnt = {}
  PROVE  Cardinality(cnt \cup Slots(u)) = Cardinality(cnt) + u.count
<1>1. IsFiniteSet(cnt) /\ Cardinality(cnt) \in Nat
  BY FS_CardinalityType
<1>2. Cardinality(cnt \cap Slots(u)) = 0
  BY FS_EmptySet
<1>3. Cardinality(cnt \cup Slots(u))
        = Cardinality(cnt) + Cardinality(Slots(u)) - Cardinality(cnt \cap Slots(u))
  BY <1>1, SlotsCount, FS_Union
<1>4. u.count \in Nat
  BY DEF Update
<1> QED BY <1>1, <1>2, <1>3, <1>4, SlotsCount

\* A new update that is not outdated lies beyond _good.
LEMMA SlotsBeyond ==
  ASSUME NEW w \in Waiter, NEW u \in Update, NEW ends, w.good \in ends,
         Whole(u, ends), ~Ignored(w, u), NEW last \in Nat, u.pts <= last
  PROVE  Slots(u) \subseteq (w.good + 1) .. last
<1>1. w.good \in Nat /\ u.pts \in Nat /\ u.count \in Nat
  BY DEF Waiter, Update
<1>2. u.count = 0 \/ u.pts > w.good
  BY <1>1 DEF Ignored, bypassed, outdated
<1>3. w.good <= u.pts - u.count \/ w.good >= u.pts
  BY DEF Whole
<1>4. u.count = 0 \/ w.good <= u.pts - u.count
  BY <1>1, <1>2, <1>3
<1>5. ASSUME NEW k \in Slots(u)  PROVE k \in (w.good + 1) .. last
  <2>1. k \in Int /\ u.pts - u.count + 1 <= k /\ k <= u.pts
    BY <1>1, <1>5 DEF Slots
  <2>2. w.good + 1 <= k /\ k <= last
    BY <1>1, <1>4, <2>1
  <2> QED BY <1>1, <2>1, <2>2
<1> QED BY <1>5

-----------------------------------------------------------------------------
(***************************************************************************)
(* PtsWaiter::updated keeps the waiter sound, never moves _good back, and  *)
(* moves it only over slots that were counted.                             *)
(***************************************************************************)
LEMMA UpdatedSound ==
  ASSUME NEW w \in Waiter, NEW u \in Update, NEW ends \in SUBSET (Nat \ {0}), NEW cnt,
         Sound(w, ends, cnt), Whole(u, ends), u.pts \in ends,
         Slots(u) \cap cnt = {},
         NEW v, v = afterUpdated(w, u), NEW c, c = CountedBy(w, u, cnt)
  PROVE  /\ v \in Waiter
         /\ Sound(v, ends, c)
         /\ v.requesting = w.requesting
         /\ v.good >= w.good
         /\ v.good # w.good => inited(v)
         /\ inited(w) => v.queue = w.queue
         /\ ~bypassed(w) /\ ~inited(w) => v.queue = {}
         /\ inited(w) => (w.good + 1) .. v.good \subseteq cnt \cup Slots(u)
<1>t. /\ w.good \in Nat /\ w.last \in Nat /\ w.count \in Nat
      /\ u.pts \in Nat /\ u.count \in Nat
  BY DEF Waiter, Update
<1>s. /\ w.good \in ends \cup {0} /\ w.last \in ends \cup {0}
      /\ w.good <= w.last /\ (w.good = 0 => w.last = 0 /\ w.queue = {})
      /\ cnt \subseteq (w.good + 1) .. w.last
      /\ w.count = w.good + Cardinality(cnt)
      /\ w.last = w.count => w.good = w.last
      /\ w.queue # {} => w.skipped /\ w.armed
      /\ w.requesting => w.queue = {}
  BY DEF Sound
<1>1. CASE Ignored(w, u)
  <2>1. v = w
    BY <1>1, UpdatedIgnored
  <2>2. w.last = w.count => cnt = {}
    BY <1>t, <1>s
  <2>3. c = cnt
    BY <1>1, <2>1, <2>2 DEF CountedBy, countedAfter, Ignored
  <2>4. (w.good + 1) .. w.good = {}
    BY <1>t
  <2>5. Sound(v, ends, c)
    BY <2>1, <2>3
  <2>6. ~bypassed(w) => inited(w)
    BY <1>1, <1>t DEF Ignored, outdated, inited
  <2>7. v \in Waiter /\ v.requesting = w.requesting /\ v.good >= w.good
        /\ v.queue = w.queue /\ (w.good + 1) .. v.good = {}
    BY <1>t, <2>1, <2>4
  <2> QED BY <2>1, <2>5, <2>6, <2>7
<1>2. CASE ~Ignored(w, u) /\ ~inited(w)
  <2>1. /\ v \in Waiter /\ v.good = u.pts /\ v.last = u.pts /\ v.count = u.pts
        /\ v.queue = {} /\ v.requesting = w.requesting
    BY <1>2, UpdatedStarts
  <2>2. c = {}
    BY <2>1 DEF CountedBy, countedAfter
  <2>3. w.good = 0
    BY <1>2, <1>t DEF inited
  <2>4. Sound(v, ends, c)
    BY <1>t, <2>1, <2>2, FS_EmptySet DEF Sound
  <2> QED BY <1>2, <1>t, <2>1, <2>3, <2>4 DEF inited
<1>3. CASE ~Ignored(w, u) /\ inited(w)
  <2> DEFINE n == IF u.pts > w.last THEN u.pts ELSE w.last
  <2>n. n \in Nat /\ n >= w.last /\ n >= u.pts /\ n \in ends \cup {0}
    BY <1>t, <1>s
  <2> HIDE DEF n
  <2>g. w.good \in ends /\ w.good > 0
    BY <1>3, <1>s, <1>t DEF inited
  <2>1. Slots(u) \subseteq (w.good + 1) .. n
    BY <1>3, <2>n, <2>g, SlotsBeyond
  <2>2. cnt \cup Slots(u) \subseteq (w.good + 1) .. n
    <3>1. (w.good + 1) .. w.last \subseteq (w.good + 1) .. n
      BY <1>t, <2>n
    <3> QED BY <1>s, <2>1, <3>1
  <2>3. Cardinality(cnt) \in Nat
        /\ Cardinality(cnt \cup Slots(u)) = Cardinality(cnt) + u.count
    <3>1. IsFiniteSet(cnt) /\ Cardinality(cnt) \in Nat
      BY <1>t, <1>s, BoundedFinite
    <3> QED BY <3>1, CountAdds
  <2>4. CASE Closes(w, u)
    <3>1. /\ v \in Waiter /\ v.last = n /\ v.count = w.count + u.count
          /\ v.good = v.last /\ v.last = v.count
          /\ v.queue = w.queue /\ v.requesting = w.requesting
          /\ v.skipped = w.skipped /\ v.armed = w.armed
      BY <1>3, <2>4, UpdatedCloses DEF n
    <3>2. c = {}
      BY <3>1 DEF CountedBy, countedAfter
    <3>3. n = w.good + Cardinality(cnt \cup Slots(u))
      BY <1>t, <1>s, <2>3, <3>1
    <3>4. cnt \cup Slots(u) = (w.good + 1) .. n
      <4> DEFINE all == cnt \cup Slots(u)
                 good == w.good
      <4>1. /\ good \in Nat /\ n \in Nat /\ good <= n
            /\ all \subseteq (good + 1) .. n /\ n = good + Cardinality(all)
        <5>1. good <= n
          BY <1>t, <1>s, <2>n
        <5> QED BY <1>t, <2>n, <2>2, <3>3, <5>1
      <4> HIDE DEF all, good
      <4>2. all = (good + 1) .. n
        BY <4>1, FullCount
      <4> QED BY <4>2 DEF all, good
    <3>5. Sound(v, ends, c)
      BY <1>t, <1>s, <2>n, <3>1, <3>2, FS_EmptySet DEF Sound
    <3>6. v.good >= w.good /\ inited(v)
      BY <1>t, <1>s, <2>n, <2>g, <3>1 DEF inited
    <3> QED BY <1>3, <3>1, <3>4, <3>5, <3>6
  <2>5. CASE ~Closes(w, u)
    <3>1. /\ v \in Waiter /\ v.last = n /\ v.count = w.count + u.count
          /\ v.good = w.good /\ v.last # v.count
          /\ v.queue = w.queue /\ v.requesting = w.requesting
          /\ v.skipped /\ v.armed
      BY <1>3, <2>5, UpdatedWaits DEF n
    <3>2. c = cnt \cup Slots(u)
      BY <1>3, <3>1 DEF CountedBy, countedAfter, Ignored
    <3>3. Sound(v, ends, c)
      BY <1>t, <1>s, <2>n, <2>g, <2>2, <2>3, <3>1, <3>2 DEF Sound
    <3>4. (w.good + 1) .. w.good = {}
      BY <1>t
    <3> QED BY <1>3, <1>t, <3>1, <3>3, <3>4
  <2> QED BY <2>4, <2>5
<1> QED BY <1>1, <1>2, <1>3
-----------------------------------------------------------------------------
(***************************************************************************)
(* PtsWaiter::updateAndApply, with and without a payload, as one fact: v   *)
(* is the waiter it leaves, c and got what is counted and applied then.    *)
(***************************************************************************)
Applies(w, u, v, got) ==
  \/ v = updateAndApply(w, u) /\ got = SlotSet(appliedBy(w, u))
  \/ /\ v = updateAndApplyAffected(w, u)
     /\ got = Slots(u) \cup SlotSet(appliedByAffected(w, u))

\* What the waiter counts and applies are slots, that is numbers.
LEMMA AppliedAreSlots ==
  ASSUME NEW w \in Waiter, NEW u \in Update, NEW v, NEW got,
         Applies(w, u, v, got)
  PROVE  got \subseteq Int
<1> DEFINE x == afterUpdated(w, u)
<1>1. x.queue \subseteq Update
  BY UpdatedIgnored, UpdatedStarts, UpdatedCloses, UpdatedWaits DEF Waiter
<1>2. appliedBy(w, u) \subseteq Update /\ appliedByAffected(w, u) \subseteq Update
  BY <1>1 DEF appliedBy, appliedByAffected
<1>3. ASSUME NEW y \in Update PROVE Slots(y) \subseteq Int
  BY DEF Update, Slots
<1> QED BY <1>2, <1>3 DEF Applies, SlotSet

\* applySkippedUpdates touches only the queue and what waits for it.
LEMMA SkippedApplied ==
  ASSUME NEW w \in Waiter
  PROVE  LET v == applySkippedUpdates(w) IN
         /\ v \in Waiter
         /\ v.good = w.good /\ v.last = w.last /\ v.count = w.count
         /\ v.requesting = w.requesting
         /\ w.skipped => v.queue = {}
         /\ ~w.skipped => v = w
<1> DEFINE x == setWaitingForSkipped(w, FALSE)
<1>1. /\ x \in Waiter
      /\ x.good = w.good /\ x.last = w.last /\ x.count = w.count
      /\ x.requesting = w.requesting
  BY SkippedType
<1>2. applySkippedUpdates(w) = IF w.skipped THEN [x EXCEPT !.queue = {}] ELSE w
  BY DEF applySkippedUpdates
<1> HIDE DEF x
<1>3. [x EXCEPT !.queue = {}] \in Waiter
  BY <1>1 DEF Waiter
<1> QED BY <1>1, <1>2, <1>3 DEF Waiter

(***************************************************************************)
(* What the two forms of updateAndApply do after PtsWaiter::updated left   *)
(* the waiter x: apply the update alone, apply the whole queue with it,    *)
(* keep it, or drop it as seen before.                                     *)
(***************************************************************************)
LEMMA ApplyCases ==
  ASSUME NEW w \in Waiter, NEW u \in Update, NEW v, NEW got,
         Applies(w, u, v, got),
         NEW x \in Waiter, x = afterUpdated(w, u),
         x.queue # {} => x.skipped
  PROVE  \/ v = x /\ Slots(u) \subseteq got /\ x.queue = {}
         \/ v = applySkippedUpdates(x) /\ x.skipped
            /\ Slots(u) \cup SlotSet(x.queue) \subseteq got
         \/ ~accepted(w, u) /\ ~outdated(w, u) /\ v = [x EXCEPT !.queue = @ \cup {u}]
         \/ ~accepted(w, u) /\ ~outdated(w, u) /\ v = x /\ Slots(u) \subseteq got
         \/ outdated(w, u) /\ v = x
<1>1. CASE v = updateAndApply(w, u) /\ got = SlotSet(appliedBy(w, u))
  <2>1. CASE ~accepted(w, u)
    BY <1>1, <2>1 DEF updateAndApply
  <2>2. CASE accepted(w, u) /\ (~x.skipped \/ x.queue = {})
    BY <1>1, <2>2 DEF updateAndApply, appliedBy, SlotSet
  <2>3. CASE accepted(w, u) /\ ~(~x.skipped \/ x.queue = {})
    <3>1. v = applySkippedUpdates(x) /\ got = SlotSet(x.queue \cup {u})
      BY <1>1, <2>3 DEF updateAndApply, appliedBy
    <3> QED BY <2>3, <3>1 DEF SlotSet
  <2> QED BY <2>1, <2>2, <2>3
<1>2. CASE /\ v = updateAndApplyAffected(w, u)
           /\ got = Slots(u) \cup SlotSet(appliedByAffected(w, u))
  <2>1. CASE ~accepted(w, u)
    BY <1>2, <2>1 DEF updateAndApplyAffected
  <2>2. CASE accepted(w, u) /\ x.skipped
    <3>1. v = applySkippedUpdates(x) /\ got = Slots(u) \cup SlotSet(x.queue)
      BY <1>2, <2>2 DEF updateAndApplyAffected, appliedByAffected
    <3> QED BY <2>2, <3>1
  <2>3. CASE accepted(w, u) /\ ~x.skipped
    BY <1>2, <2>3 DEF updateAndApplyAffected, applySkippedUpdates
  <2> QED BY <2>1, <2>2, <2>3
<1> QED BY <1>1, <1>2 DEF Applies

(***************************************************************************)
(* The step of the invariant: whatever update reaches the waiter, in any   *)
(* order, it stays sound, and _good moves only over applied slots.         *)
(***************************************************************************)
LEMMA ApplySound ==
  ASSUME NEW w \in Waiter, NEW u \in Update,
         NEW ends \in SUBSET (Nat \ {0}), NEW cnt, NEW app, NEW b \in Nat,
         Sound(w, ends, cnt), Covers(w, cnt, app, b),
         Whole(u, ends), u.pts \in ends, Slots(u) \cap cnt = {},
         NEW v, NEW got, Applies(w, u, v, got),
         NEW c, c = countedAfter(w, u, v, cnt), NEW b2, b2 = baseAfter(w, v, b)
  PROVE  /\ v \in Waiter
         /\ Sound(v, ends, c)
         /\ Covers(v, c, app \cup got, b2)
         /\ v.requesting = w.requesting
         /\ v.good >= w.good
<1> DEFINE x == afterUpdated(w, u)
           cx == CountedBy(w, u, cnt)
<1>1. /\ x \in Waiter
      /\ Sound(x, ends, cx)
      /\ x.requesting = w.requesting
      /\ x.good >= w.good
      /\ inited(w) => x.queue = w.queue
      /\ inited(w) => (w.good + 1) .. x.good \subseteq cnt \cup Slots(u)
  BY UpdatedSound
<1>2. x.queue # {} => x.skipped /\ x.armed
  BY <1>1 DEF Sound
<1>3. \/ v = x /\ Slots(u) \subseteq got /\ x.queue = {}
      \/ v = applySkippedUpdates(x) /\ x.skipped
         /\ Slots(u) \cup SlotSet(x.queue) \subseteq got
      \/ ~accepted(w, u) /\ ~outdated(w, u) /\ v = [x EXCEPT !.queue = @ \cup {u}]
      \/ ~accepted(w, u) /\ ~outdated(w, u) /\ v = x /\ Slots(u) \subseteq got
      \/ outdated(w, u) /\ v = x
  BY <1>1, <1>2, ApplyCases
<1>4. ~accepted(w, u) /\ ~outdated(w, u) =>
        ~w.requesting /\ inited(w) /\ x.skipped /\ x.armed
  <2>1. SUFFICES ASSUME ~accepted(w, u), ~outdated(w, u)
                 PROVE  ~w.requesting /\ inited(w) /\ x.skipped /\ x.armed
    OBVIOUS
  <2>2. ~Ignored(w, u) /\ ~w.requesting
    BY <2>1 DEF accepted, Ignored, bypassed
  <2>3. inited(w) /\ ~Closes(w, u)
    BY <2>1, <2>2 DEF accepted, checkResult, Closes
  <2> QED BY <2>2, <2>3, UpdatedWaits
<1>5. /\ v \in Waiter
      /\ v.good = x.good /\ v.last = x.last /\ v.count = x.count
      /\ v.requesting = x.requesting
      /\ v.queue # {} => v.skipped /\ v.armed
      /\ v.requesting => v.queue = {}
      /\ v.good = 0 => v.queue = {}
      /\ SlotSet(x.queue) \subseteq got \cup SlotSet(v.queue)
  <2>r. (x.requesting => x.queue = {}) /\ (x.good = 0 => x.queue = {})
    BY <1>1 DEF Sound
  <2>1. CASE v = x
    BY <1>1, <1>2, <2>1, <2>r
  <2>2. CASE /\ v = applySkippedUpdates(x) /\ x.skipped
             /\ Slots(u) \cup SlotSet(x.queue) \subseteq got
    <3>1. /\ v \in Waiter
          /\ v.good = x.good /\ v.last = x.last /\ v.count = x.count
          /\ v.requesting = x.requesting /\ v.queue = {}
      BY <1>1, <2>2, SkippedApplied
    <3> QED BY <2>2, <3>1
  <2>3. CASE /\ ~accepted(w, u) /\ ~outdated(w, u)
             /\ v = [x EXCEPT !.queue = @ \cup {u}]
    <3> HIDE DEF x
    <3>1. /\ v \in Waiter
          /\ v.good = x.good /\ v.last = x.last /\ v.count = x.count
          /\ v.requesting = x.requesting /\ v.queue = x.queue \cup {u}
          /\ v.skipped = x.skipped /\ v.armed = x.armed
      BY <1>1, <2>3 DEF Waiter
    <3>2. SlotSet(x.queue) \subseteq SlotSet(v.queue)
      BY <3>1 DEF SlotSet
    <3>3. x.good # 0
      BY <1>1, <1>4, <2>3 DEF inited, Waiter
    <3> QED BY <1>1, <1>4, <2>3, <3>1, <3>2, <3>3
  <2> QED BY <1>3, <2>1, <2>2, <2>3
<1>6. ~Ignored(w, u) => Slots(u) \subseteq got \cup SlotSet(v.queue)
  <2>1. CASE v = [x EXCEPT !.queue = @ \cup {u}]
    <3> HIDE DEF x
    <3>1. u \in v.queue
      BY <1>1, <2>1 DEF Waiter
    <3> QED BY <3>1 DEF SlotSet
  <2> QED BY <1>3, <2>1 DEF Ignored
<1>7. c = cx
  BY <1>5 DEF CountedBy, countedAfter, Ignored
<1> HIDE DEF x, cx
<1>8. Sound(v, ends, c)
  BY <1>1, <1>5, <1>7 DEF Sound
<1>9. ~v.requesting => c \subseteq (app \cup got) \cup SlotSet(v.queue)
  <2>1. SUFFICES ASSUME ~v.requesting, v.last # v.count
                 PROVE  c \subseteq (app \cup got) \cup SlotSet(v.queue)
    BY DEF countedAfter
  <2>2. inited(w)
    <3>1. CASE ~Ignored(w, u) /\ ~inited(w)
      BY <1>5, <2>1, <3>1, UpdatedStarts DEF x
    <3>2. CASE Ignored(w, u) /\ ~inited(w)
      <4>1. x = w
        BY <3>2, UpdatedIgnored DEF x
      <4>2. w.good \in Nat /\ w.last \in Nat /\ w.count \in Nat
        BY DEF Waiter
      <4>3. w.good = 0 /\ w.last = 0 /\ cnt \subseteq 1 .. 0
            /\ w.count = w.good + Cardinality(cnt)
        BY <3>2, <4>2 DEF inited, Sound
      <4>4. cnt = {}
        BY <4>3
      <4> QED BY <1>5, <2>1, <4>1, <4>2, <4>3, <4>4, FS_EmptySet
    <3> QED BY <3>1, <3>2
  <2>3. cnt \subseteq app \cup SlotSet(x.queue)
    BY <1>1, <1>5, <2>1, <2>2 DEF Covers
  <2> QED BY <1>5, <1>6, <2>1, <2>3 DEF countedAfter, Ignored
<1>10. (b2 + 1) .. v.good \subseteq app \cup got
  <2>t. w.good \in Nat /\ v.good \in Nat
    BY <1>5 DEF Waiter
  <2>1. CASE ~inited(w)
    <3>1. (v.good + 1) .. v.good = {}
      BY <2>t
    <3> QED BY <2>1, <3>1 DEF baseAfter
  <2>2. CASE inited(w) /\ v.good = w.good
    BY <2>2 DEF Covers, baseAfter
  <2>3. CASE inited(w) /\ v.good # w.good
    <3>1. ~Ignored(w, u) /\ Closes(w, u)
      <4>1. ~Ignored(w, u)
        BY <1>5, <2>3, UpdatedIgnored DEF x
      <4> QED BY <1>5, <2>3, <4>1, UpdatedWaits DEF x
    <3>2. accepted(w, u) /\ ~w.requesting /\ ~outdated(w, u)
      BY <2>3, <3>1, UpdatedCloses DEF Ignored, bypassed
    <3>3. cnt \subseteq app \cup SlotSet(w.queue)
      BY <3>2 DEF Covers
    <3>4. cnt \cup Slots(u) \subseteq app \cup got
      <4>1. CASE Slots(u) \subseteq got /\ x.queue = {}
        BY <1>1, <2>3, <3>3, <4>1 DEF SlotSet
      <4>2. CASE Slots(u) \cup SlotSet(x.queue) \subseteq got
        BY <1>1, <2>3, <3>3, <4>2
      <4> QED BY <1>3, <3>2, <4>1, <4>2
    <3>5. (b + 1) .. w.good \subseteq app
      BY DEF Covers
    <3>6. (b + 1) .. v.good \subseteq ((b + 1) .. w.good) \cup ((w.good + 1) .. v.good)
      BY <2>t
    <3> QED BY <1>1, <1>5, <2>3, <3>4, <3>5, <3>6 DEF baseAfter
  <2> QED BY <2>1, <2>2, <2>3
<1> QED BY <1>1, <1>5, <1>8, <1>9, <1>10 DEF Covers

\* Both forms of updateAndApply keep a waiter sound, and lose no slot.
LEMMA ApplyStep ==
  ASSUME NEW w \in Waiter, NEW u \in Update,
         NEW ends \in SUBSET (Nat \ {0}), NEW cnt, NEW app, NEW b \in Nat,
         Sound(w, ends, cnt), Covers(w, cnt, app, b),
         Whole(u, ends), u.pts \in ends, Slots(u) \cap cnt = {},
         NEW v, NEW got, Applies(w, u, v, got)
  PROVE  /\ v \in Waiter
         /\ Sound(v, ends, countedAfter(w, u, v, cnt))
         /\ Covers(v, countedAfter(w, u, v, cnt), app \cup got, baseAfter(w, v, b))
         /\ v.requesting = w.requesting
         /\ v.good >= w.good
BY ApplySound
=============================================================================
