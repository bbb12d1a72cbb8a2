--------------------------- MODULE UpdatesProofs ---------------------------
(***************************************************************************)
(* Theorems about Updates, for every set of channels and windows, every    *)
(* pts_count and any number of events and messages.                        *)
(***************************************************************************)
EXTENDS Updates, PtsWaiterProofs

(***************************************************************************)
(* The inductive invariant.  NoSkippedUpdate alone is not inductive: what  *)
(* makes _last = _count prove that nothing is missing is that _count       *)
(* exceeds _good by exactly the number of distinct slots counted, all of   *)
(* them between _good and _last (Sound), that these were applied or are in *)
(* the queue (Covers), and that no update under way repeats a slot already *)
(* counted or reaches across a pts an answer may end at (NetOK).           *)
(***************************************************************************)
Pending(d) == d.flying + (IF d.afterFail THEN 1 ELSE 0)

Backed(w, d) ==
  /\ Pending(d) <= (IF w.requesting THEN 1 ELSE 0)
  /\ Unhandled = {} => Pending(d) = (IF w.requesting THEN 1 ELSE 0)
  /\ w.requesting => d.from = w.good
  /\ d.afterFail => inited(w)

ServerOK(sv) == sv.ends \subseteq 1 .. sv.pts /\ sv.pts \in sv.ends

OK(w, d, sv, cnt, app, b) ==
  /\ ServerOK(sv)
  /\ Sound(w, sv.ends, cnt)
  /\ Covers(w, cnt, app, b)
  /\ Backed(w, d)

StreamOK(s) ==
  OK(waiter[s], diff[s], server[s], counted[s], applied[s], base[s])

NetOK ==
  /\ \A m \in net :
       LET ends == server[m.stream].ends IN
       m.pts \in ends /\ Whole(m, ends) /\ Slots(m) \cap counted[m.stream] = {}
  /\ \A m, k \in net :
       m.stream = k.stream /\ m # k => Slots(m) \cap Slots(k) = {}

IInv == TypeOK /\ (\A s \in Streams : StreamOK(s)) /\ NetOK

(***************************************************************************)
(* What every step must do: keep the invariant, and move no _good back.    *)
(***************************************************************************)
Kept == IInv' /\ \A s \in Streams : waiter'[s].good >= waiter[s].good

-----------------------------------------------------------------------------
(***************************************************************************)
(* The start.                                                              *)
(***************************************************************************)
LEMMA NewWaiterType ==
  /\ NewWaiter \in Waiter /\ NewWaiter.good = 0 /\ NewWaiter.last = 0
  /\ NewWaiter.count = 0 /\ NewWaiter.queue = {} /\ ~NewWaiter.requesting
  /\ ~NewWaiter.armed /\ ~NewWaiter.skipped
BY DEF NewWaiter, Waiter

\* The constructor's state satisfies the invariant.
LEMMA InitInv == Init => IInv
<1> SUFFICES ASSUME Init PROVE IInv
  OBVIOUS
<1>1. ASSUME NEW s \in Streams
      PROVE  /\ waiter[s] \in Waiter /\ waiter[s].queue = {}
             /\ waiter[s].good \in {0, 1} /\ waiter[s].last = waiter[s].good
             /\ waiter[s].count = waiter[s].good
             /\ waiter[s].requesting <=> s = Common
             /\ s = Common => waiter[s].good = 0
             /\ base[s] = waiter[s].good
  <2>1. waiter[s] = InitWaiter(s) /\ base[s] = (IF s \in KnownChannels THEN 1 ELSE 0)
    BY DEF Init
  <2>2. CASE s = Common
    <3>1. s \notin KnownChannels
      BY <2>2, StreamsAssumption, KnownAssumption
    <3>2. waiter[s] = setRequesting(NewWaiter, TRUE)
      BY <2>1, <2>2 DEF InitWaiter
    <3>3. /\ setRequesting(NewWaiter, TRUE) \in Waiter
          /\ setRequesting(NewWaiter, TRUE).good = 0
          /\ setRequesting(NewWaiter, TRUE).last = 0
          /\ setRequesting(NewWaiter, TRUE).count = 0
          /\ setRequesting(NewWaiter, TRUE).queue = {}
          /\ setRequesting(NewWaiter, TRUE).requesting
      BY NewWaiterType, RequestingType
    <3> QED BY <2>1, <2>2, <3>1, <3>2, <3>3
  <2>3. CASE s # Common /\ s \in KnownChannels
    BY <2>1, <2>3, NewWaiterType, InitType DEF InitWaiter
  <2>4. CASE s # Common /\ s \notin KnownChannels
    BY <2>1, <2>4, NewWaiterType DEF InitWaiter
  <2> QED BY <2>2, <2>3, <2>4
<1>2. ASSUME NEW s \in Streams
      PROVE  /\ diff[s] \in Difference
             /\ Pending(diff[s]) = IF s = Common THEN 1 ELSE 0
             /\ diff[s].from = 0 /\ ~diff[s].afterFail
  <2>1. diff[s] = [flying |-> IF s = Common THEN 1 ELSE 0, from |-> 0,
                   seen |-> IF s = Common THEN 1 ELSE 0, afterFail |-> FALSE]
    BY DEF Init, NoDifference
  <2> QED BY <2>1 DEF Difference, Pending
<1>3. TypeOK
  <2>1. waiter \in [Streams -> Waiter]
    BY <1>1 DEF Init
  <2>2. diff \in [Streams -> Difference]
    BY <1>2 DEF Init
  <2>3. server \in [Streams -> [pts : Nat, ends : SUBSET Nat]]
    BY DEF Init
  <2> QED BY <2>1, <2>2, <2>3 DEF Init, TypeOK
<1>4. ASSUME NEW s \in Streams PROVE StreamOK(s)
  <2>1. server[s].pts = 1 /\ server[s].ends = {1} /\ counted[s] = {}
    BY DEF Init
  <2>2. ServerOK(server[s])
    BY <2>1 DEF ServerOK
  <2>3. Sound(waiter[s], server[s].ends, counted[s])
    BY <1>1, <2>1, FS_EmptySet DEF Sound
  <2>4. (base[s] + 1) .. waiter[s].good = {}
    BY <1>1
  <2>5. Covers(waiter[s], counted[s], applied[s], base[s])
    BY <2>1, <2>4 DEF Covers
  <2>6. Backed(waiter[s], diff[s])
    BY <1>1, <1>2 DEF Backed
  <2> QED BY <2>2, <2>3, <2>5, <2>6 DEF StreamOK, OK
<1>5. NetOK
  BY DEF Init, NetOK
<1> QED BY <1>3, <1>4, <1>5 DEF IInv

-----------------------------------------------------------------------------
(***************************************************************************)
(* A step that changes one stream keeps the invariant when that stream's   *)
(* part holds again and the server and the messages left are untouched.    *)
(***************************************************************************)
LEMMA Frame ==
  ASSUME IInv, NEW s \in Streams,
         NEW v \in Waiter, NEW d \in Difference,
         NEW c \in SUBSET Int, NEW a \in SUBSET Int, NEW b \in Nat,
         waiter' = [waiter EXCEPT ![s] = v],
         diff' = [diff EXCEPT ![s] = d],
         counted' = [counted EXCEPT ![s] = c],
         applied' = [applied EXCEPT ![s] = a],
         base' = [base EXCEPT ![s] = b],
         server' = server, net' \subseteq net, view' = view,
         OK(v, d, server[s], c, a, b), v.good >= waiter[s].good,
         \A m \in net' : m.stream = s => Slots(m) \cap c = {}
  PROVE  Kept
<1>1. TypeOK'
  BY DEF IInv, TypeOK
<1>2. ASSUME NEW t \in Streams
      PROVE  StreamOK(t)' /\ waiter'[t].good >= waiter[t].good
  <2>1. CASE t = s
    <3>1. /\ waiter'[t] = v /\ diff'[t] = d /\ counted'[t] = c
          /\ applied'[t] = a /\ base'[t] = b
      BY <2>1 DEF IInv, TypeOK
    <3> QED BY <2>1, <3>1 DEF StreamOK
  <2>2. CASE t # s
    <3>1. /\ waiter'[t] = waiter[t] /\ diff'[t] = diff[t]
          /\ counted'[t] = counted[t] /\ applied'[t] = applied[t]
          /\ base'[t] = base[t]
      BY <2>2 DEF IInv, TypeOK
    <3>2. waiter[t].good \in Nat
      BY DEF IInv, TypeOK, Waiter
    <3> QED BY <3>1, <3>2 DEF IInv, StreamOK
  <2> QED BY <2>1, <2>2
<1>3. NetOK'
  <2>1. ASSUME NEW m \in net'
        PROVE  Slots(m) \cap counted'[m.stream] = {}
    <3>1. m \in net /\ m.stream \in Streams
      BY DEF IInv, TypeOK, Message
    <3>2. CASE m.stream = s
      BY <3>2 DEF IInv, TypeOK
    <3>3. CASE m.stream # s
      BY <3>1, <3>3 DEF IInv, TypeOK, NetOK
    <3> QED BY <3>2, <3>3
  <2> QED BY <2>1 DEF IInv, NetOK
<1> QED BY <1>1, <1>2, <1>3 DEF IInv, Kept

-----------------------------------------------------------------------------
(***************************************************************************)
(* Facts about one stream: asking for a difference, finishing one, and     *)
(* polling keep its part of the invariant.                                 *)
(***************************************************************************)
ServerType == [pts : Nat, ends : SUBSET Nat]

\* getDifference: fine for a sound waiter, also for one whose retry is due.
LEMMA AskOK ==
  ASSUME NEW s \in Streams, NEW w \in Waiter, NEW d \in Difference,
         server[s] \in ServerType,
         ServerOK(server[s]),
         NEW c, NEW a, NEW b,
         Sound(w, server[s].ends, c), Backed(w, d),
         Covers(w, c, a, b) \/ (sends(s, w) /\ (b + 1) .. w.good \subseteq a),
         NEW v, v = waiterAsking(s, w), NEW e, e = diffAsking(s, w, d)
  PROVE  /\ v \in Waiter /\ e \in Difference
         /\ OK(v, e, server[s], c, a, b) /\ v.good = w.good
<1> DEFINE x == [w EXCEPT !.armed = FALSE]
<1>1. /\ x \in Waiter /\ x.good = w.good /\ x.last = w.last
      /\ x.count = w.count /\ x.queue = w.queue
      /\ x.requesting = w.requesting /\ x.skipped = w.skipped
  BY DEF Waiter
<1>2. CASE sends(s, w)
  <2> DEFINE y == setRequesting(x, TRUE)
  <2>1. v = y
    BY <1>2 DEF waiterAsking
  <2>2. e = [flying |-> d.flying + 1, from |-> w.good, seen |-> server[s].pts,
             afterFail |-> FALSE]
    BY <1>2 DEF diffAsking
  <2> HIDE DEF x
  <2>r. /\ y \in Waiter /\ y.good = x.good /\ y.last = x.last
        /\ y.count = x.count /\ y.requesting /\ y.queue = {}
    BY <1>1, RequestingType
  <2> HIDE DEF y
  <2>3. /\ v \in Waiter /\ v.good = w.good /\ v.last = w.last
        /\ v.count = w.count /\ v.requesting /\ v.queue = {}
    BY <1>1, <2>1, <2>r
  <2>4. d.flying = 0
    BY <1>2 DEF sends, Backed, Pending, Difference
  <2>5. e \in Difference /\ Pending(e) = 1 /\ e.from = v.good /\ ~e.afterFail
    BY <2>2, <2>3, <2>4 DEF Difference, Pending, Waiter, ServerType
  <2>6. Sound(v, server[s].ends, c)
    BY <2>3 DEF Sound
  <2>7. Covers(v, c, a, b)
    BY <2>3 DEF Covers
  <2>8. Backed(v, e)
    BY <2>3, <2>5 DEF Backed
  <2> QED BY <2>3, <2>5, <2>6, <2>7, <2>8 DEF OK
<1>3. CASE ~sends(s, w)
  <2>1. v = x /\ e = d
    BY <1>3 DEF waiterAsking, diffAsking
  <2> HIDE DEF x
  <2>2. w.queue = {}
    BY <1>3 DEF sends, inited, Sound, Waiter
  <2>3. Sound(v, server[s].ends, c)
    BY <1>1, <2>1, <2>2 DEF Sound
  <2>4. Covers(v, c, a, b) /\ Backed(v, e)
    BY <1>1, <1>3, <2>1 DEF Covers, Backed, inited
  <2> QED BY <1>1, <2>1, <2>3, <2>4 DEF OK
<1> QED BY <1>2, <1>3

\* The request once it is answered.
Ended(d) == [d EXCEPT !.flying = @ - 1]

\* Only the number of unanswered requests changes with an answer.
LEMMA EndedType ==
  ASSUME NEW d \in Difference, d.flying > 0
  PROVE  /\ Ended(d) \in Difference
         /\ Ended(d).flying = d.flying - 1 /\ Ended(d).from = d.from
         /\ Ended(d).afterFail = d.afterFail
BY DEF Ended, Difference

\* A retry deadline is all that the end of a request may leave.
LEMMA RetryType ==
  ASSUME NEW d \in Difference, NEW retry \in BOOLEAN
  PROVE  LET e == [d EXCEPT !.afterFail = retry] IN
         /\ e \in Difference /\ e.flying = d.flying /\ e.from = d.from
         /\ e.afterFail = retry /\ (d.afterFail = retry => e = d)
BY DEF Difference

\* An answer that ends at p: the client has all up to p, or starts from p.
LEMMA ResetOK ==
  ASSUME NEW w \in Waiter, NEW d \in Difference, NEW sv \in ServerType,
         NEW c, NEW a, NEW b \in Nat,
         OK(w, d, sv, c, a, b), d.flying > 0,
         NEW p \in sv.ends, p >= d.from
  PROVE  /\ reset(w, p) \in Waiter /\ Ended(d) \in Difference
         /\ p \in Nat /\ reset(w, p).good = p /\ reset(w, p).good >= w.good
         /\ OK(reset(w, p), Ended(d), sv, {}, a \cup ((d.from + 1) .. p), b)
         /\ OK(reset(w, p), Ended(d), sv, {}, a, p)
<1> DEFINE v == reset(w, p)
           e == Ended(d)
<1>1. p \in Nat /\ p > 0
  BY DEF OK, ServerOK, ServerType
<1>2. /\ v \in Waiter /\ v.good = p /\ v.last = p /\ v.count = p
      /\ ~v.requesting /\ v.queue = {}
  <2>1. init(w, p) \in Waiter /\ init(w, p).good = p /\ init(w, p).last = p
        /\ init(w, p).count = p /\ init(w, p).queue = {}
    BY <1>1, InitType
  <2> QED BY <2>1, RequestingType DEF reset
<1>3. w.requesting /\ d.flying = 1 /\ ~d.afterFail /\ d.from = w.good
  BY DEF OK, Backed, Pending, Difference
<1>4. e \in Difference /\ Pending(e) = 0 /\ ~e.afterFail
  BY <1>3, EndedType DEF Pending
<1> HIDE DEF v, e
<1>5. Sound(v, sv.ends, {})
  BY <1>1, <1>2, FS_EmptySet DEF Sound
<1>6. Backed(v, e)
  BY <1>2, <1>4 DEF Backed
<1>7. w.good \in Nat /\ v.good >= w.good
  BY <1>2, <1>3 DEF Waiter
<1>8. (b + 1) .. p \subseteq ((b + 1) .. w.good) \cup ((d.from + 1) .. p)
  BY <1>1, <1>3, <1>7
<1>9. Covers(v, {}, a \cup ((d.from + 1) .. p), b)
  BY <1>2, <1>8 DEF OK, Covers
<1>10. (p + 1) .. p = {}
  BY <1>1
<1>11. Covers(v, {}, a, p)
  BY <1>2, <1>10 DEF Covers
<1>12. OK(v, e, sv, {}, a \cup ((d.from + 1) .. p), b) /\ OK(v, e, sv, {}, a, p)
  BY <1>5, <1>6, <1>9, <1>11 DEF OK
<1> QED BY <1>1, <1>2, <1>4, <1>7, <1>12 DEF v, e

\* What an answer that ends at p leaves of the waiter w and the request d,
\* and of the slots o applied and the pts from the client started at.
AnsweredBy(s, w, d, p, on, v, e) ==
  \/ v = reset(w, p) /\ e = Ended(d)
  \/ on \in BOOLEAN /\ v = setWaitingForShortPoll(reset(w, p), on) /\ e = Ended(d)
  \/ v = waiterAsking(s, reset(w, p)) /\ e = diffAsking(s, reset(w, p), Ended(d))

CaughtUpTo(d, p, o, from, a, b) ==
  \/ a = o \cup ((d.from + 1) .. p) /\ b = from
  \/ a = o /\ b = p

\* Polling does not disturb the waiter.
LEMMA ShortPollOK ==
  ASSUME NEW w \in Waiter, NEW d \in Difference, NEW sv, NEW c, NEW a, NEW b,
         OK(w, d, sv, c, a, b), NEW on \in BOOLEAN,
         NEW v, v = setWaitingForShortPoll(w, on)
  PROVE  v \in Waiter /\ OK(v, d, sv, c, a, b) /\ v.good = w.good
<1>1. /\ v \in Waiter
      /\ v.good = w.good /\ v.last = w.last /\ v.count = w.count
      /\ v.requesting = w.requesting /\ v.queue = w.queue
      /\ v.skipped = w.skipped /\ (w.armed /\ w.skipped => v.armed)
  BY ShortPollType
<1>2. Sound(v, sv.ends, c)
  BY <1>1 DEF OK, Sound
<1>3. Covers(v, c, a, b) /\ Backed(v, d)
  BY <1>1 DEF OK, Covers, Backed, inited
<1> QED BY <1>1, <1>2, <1>3 DEF OK

-----------------------------------------------------------------------------
(***************************************************************************)
(* One lemma per action, or per group of actions that disturb the same     *)
(* conjuncts.                                                              *)
(***************************************************************************)
LEMMA StreamTypes ==
  ASSUME IInv, NEW s \in Streams
  PROVE  /\ waiter[s] \in Waiter /\ diff[s] \in Difference
         /\ server[s] \in ServerType
         /\ applied[s] \in SUBSET Int /\ counted[s] \in SUBSET Int
         /\ base[s] \in Nat
         /\ waiter = [waiter EXCEPT ![s] = waiter[s]]
         /\ diff = [diff EXCEPT ![s] = diff[s]]
         /\ applied = [applied EXCEPT ![s] = applied[s]]
         /\ counted = [counted EXCEPT ![s] = counted[s]]
         /\ base = [base EXCEPT ![s] = base[s]]
         /\ OK(waiter[s], diff[s], server[s], counted[s], applied[s], base[s])
         /\ server[s].ends \in SUBSET (Nat \ {0})
<1>1. /\ waiter \in [Streams -> Waiter] /\ diff \in [Streams -> Difference]
      /\ server \in [Streams -> ServerType]
      /\ applied \in [Streams -> SUBSET Int]
      /\ counted \in [Streams -> SUBSET Int] /\ base \in [Streams -> Nat]
  BY DEF IInv, TypeOK, ServerType
<1>2. OK(waiter[s], diff[s], server[s], counted[s], applied[s], base[s])
  BY DEF IInv, StreamOK
<1>3. server[s].ends \in SUBSET (Nat \ {0})
  BY <1>1, <1>2 DEF OK, ServerOK, ServerType
<1> QED BY <1>1, <1>2, <1>3

\* Frame, for a step that leaves the history alone.
LEMMA FrameWaiter ==
  ASSUME IInv, NEW s \in Streams,
         NEW v \in Waiter, NEW d \in Difference,
         waiter' = [waiter EXCEPT ![s] = v],
         diff' = [diff EXCEPT ![s] = d],
         counted' = counted, applied' = applied, base' = base,
         server' = server, net' \subseteq net, view' = view,
         OK(v, d, server[s], counted[s], applied[s], base[s]),
         v.good >= waiter[s].good
  PROVE  Kept
<1>1. TypeOK' /\ NetOK'
  BY DEF IInv, TypeOK, NetOK
<1>2. ASSUME NEW t \in Streams
      PROVE  StreamOK(t)' /\ waiter'[t].good >= waiter[t].good
  <2>1. CASE t = s
    <3>1. waiter'[t] = v /\ diff'[t] = d
      BY <2>1 DEF IInv, TypeOK
    <3> QED BY <2>1, <3>1 DEF StreamOK
  <2>2. CASE t # s
    <3>1. waiter'[t] = waiter[t] /\ diff'[t] = diff[t]
      BY <2>2 DEF IInv, TypeOK
    <3>2. waiter[t].good \in Nat
      BY DEF IInv, TypeOK, Waiter
    <3> QED BY <3>1, <3>2 DEF IInv, StreamOK
  <2> QED BY <2>1, <2>2
<1> QED BY <1>1, <1>2 DEF IInv, Kept

\* Nothing is counted twice: the messages left share no slot with stream s.
LEMMA NetApart ==
  ASSUME IInv, NEW m \in net, net' \subseteq net \ {m}
  PROVE  /\ m.stream \in Streams /\ m.via \in {"push", "rpc", "affected"}
         /\ UpdateOf(m) \in Update /\ Slots(UpdateOf(m)) = Slots(m)
         /\ Whole(UpdateOf(m), server[m.stream].ends)
         /\ UpdateOf(m).pts \in server[m.stream].ends
         /\ Slots(UpdateOf(m)) \cap counted[m.stream] = {}
         /\ \A k \in net' : k.stream = m.stream =>
              Slots(k) \cap (counted[m.stream] \cup Slots(UpdateOf(m))) = {}
<1>1. m \in Message
  BY DEF IInv, TypeOK
<1>2. /\ m.stream \in Streams /\ m.via \in {"push", "rpc", "affected"}
      /\ m.pts \in Nat /\ m.count \in Nat
  BY <1>1 DEF Message
<1>3. UpdateOf(m) \in Update /\ UpdateOf(m).pts = m.pts /\ UpdateOf(m).count = m.count
  BY <1>2 DEF UpdateOf, Update
<1>4. Slots(UpdateOf(m)) = Slots(m)
  BY <1>3 DEF Slots
<1>5. /\ m.pts \in server[m.stream].ends /\ Whole(m, server[m.stream].ends)
      /\ Slots(m) \cap counted[m.stream] = {}
  BY DEF IInv, NetOK
<1>6. ASSUME NEW k \in net', k.stream = m.stream
      PROVE  Slots(k) \cap (counted[m.stream] \cup Slots(m)) = {}
  <2>1. k \in net /\ k # m
    OBVIOUS
  <2>2. Slots(k) \cap counted[m.stream] = {}
    BY <1>6, <2>1 DEF IInv, NetOK
  <2>3. Slots(k) \cap Slots(m) = {}
    BY <1>6, <2>1 DEF IInv, NetOK
  <2> QED BY <2>2, <2>3
<1> QED BY <1>2, <1>3, <1>4, <1>5, <1>6 DEF Whole

\* An event takes fresh slots, beyond every slot known or under way.
LEMMA ServerEventKeeps ==
  ASSUME IInv, NEW s \in Eventful, NEW via \in {"push", "rpc", "affected"},
         NEW n \in Counts, ServerEvent(s, via, n)
  PROVE  Kept
<1> DEFINE p == server[s].pts + n
           new == [stream |-> s, via |-> via, pts |-> p, count |-> n]
           sv == [pts |-> p, ends |-> server[s].ends \cup {p}]
<1>1. s \in Streams /\ n \in Nat
  BY KnownAssumption, CountsAssumption DEF Streams
<1>2. /\ server[s] \in ServerType /\ server[s].ends \subseteq 1 .. server[s].pts
      /\ server[s].pts \in server[s].ends /\ server[s].pts \in Nat
  BY <1>1, StreamTypes DEF OK, ServerOK, ServerType
<1>3. /\ server' = [server EXCEPT ![s] = sv] /\ net' = net \cup {new}
      /\ UNCHANGED <<waiter, diff, view, applied, counted, base>>
  BY <1>2 DEF ServerEvent, history
<1>p. p \in Nat /\ p >= server[s].pts /\ p - n = server[s].pts
  BY <1>1, <1>2
<1>4. sv \in ServerType /\ ServerOK(sv) /\ server[s].ends \subseteq sv.ends
      /\ new \in Message
  BY <1>1, <1>2, <1>p DEF ServerType, ServerOK, Message
<1>n. new.stream = s /\ new.pts = p /\ new.count = n
  OBVIOUS
<1>e. sv.ends = server[s].ends \cup {p}
  OBVIOUS
<1> HIDE DEF sv, new, p
<1>5. \A t \in Streams : server'[t] = IF t = s THEN sv ELSE server[t]
  BY <1>3 DEF IInv, TypeOK
<1>6. TypeOK'
  <2>1. server \in [Streams -> ServerType]
    BY DEF IInv, TypeOK, ServerType
  <2>2. server' \in [Streams -> ServerType]
    BY <1>1, <1>3, <1>4, <2>1
  <2> QED BY <1>3, <1>4, <2>2 DEF IInv, TypeOK, ServerType
<1>7. ASSUME NEW t \in Streams
      PROVE  StreamOK(t)' /\ waiter'[t].good >= waiter[t].good
  <2>1. OK(waiter[t], diff[t], server[t], counted[t], applied[t], base[t])
        /\ waiter[t].good \in Nat
    BY StreamTypes DEF Waiter
  <2>2. ServerOK(server'[t]) /\ server[t].ends \subseteq server'[t].ends
    BY <1>4, <1>5, <2>1 DEF OK
  <2>3. Sound(waiter[t], server'[t].ends, counted[t])
    BY <2>1, <2>2 DEF OK, Sound
  <2> QED BY <1>3, <2>1, <2>2, <2>3 DEF StreamOK, OK
<1>8. \A k \in Slots(new) : k \in Int /\ k > server[s].pts
  BY <1>1, <1>2, <1>p, <1>n DEF Slots
<1>9. ASSUME NEW m \in net, m.stream = s
      PROVE  \A k \in Slots(m) : k <= server[s].pts
  <2>1. m.pts \in Nat /\ m.count \in Nat
    BY DEF IInv, TypeOK, Message
  <2>2. m.pts \in server[s].ends
    BY <1>9 DEF IInv, NetOK
  <2>3. m.pts <= server[s].pts
    BY <1>2, <2>2
  <2> QED BY <1>2, <2>1, <2>3 DEF Slots
<1>10. \A k \in counted[s] : k <= server[s].pts
  <2>1. /\ counted[s] \subseteq (waiter[s].good + 1) .. waiter[s].last
        /\ waiter[s].last \in server[s].ends \cup {0}
        /\ waiter[s].good \in Nat /\ waiter[s].last \in Nat
    BY <1>1, StreamTypes DEF OK, Sound, Waiter
  <2>2. waiter[s].last <= server[s].pts
    BY <1>2, <2>1
  <2> QED BY <1>2, <2>1, <2>2
<1>11. ASSUME NEW m \in net'
       PROVE  LET ends == server'[m.stream].ends IN
              /\ m.pts \in ends /\ Whole(m, ends)
              /\ Slots(m) \cap counted'[m.stream] = {}
  <2>1. CASE m \in net
    <3>1. m.stream \in Streams /\ m.pts \in Nat /\ m.count \in Nat
      BY <2>1 DEF IInv, TypeOK, Message
    <3>2. /\ m.pts \in server[m.stream].ends /\ Whole(m, server[m.stream].ends)
          /\ Slots(m) \cap counted[m.stream] = {}
      BY <2>1 DEF IInv, NetOK
    <3>3. CASE m.stream # s
      BY <1>3, <1>5, <3>1, <3>2, <3>3
    <3>4. CASE m.stream = s
      <4>1. m.pts <= p
        BY <1>2, <1>p, <3>2, <3>4
      <4>2. Whole(m, sv.ends)
        BY <1>e, <3>2, <3>4, <4>1 DEF Whole
      <4> QED BY <1>3, <1>4, <1>5, <3>1, <3>2, <3>4, <4>2
    <3> QED BY <3>3, <3>4
  <2>2. CASE m = new
    <3>1. Whole(m, sv.ends)
      BY <1>1, <1>2, <1>e, <1>n, <1>p, <2>2 DEF Whole
    <3>2. Slots(m) \cap counted[s] = {}
      BY <1>2, <1>8, <1>10, <2>2
    <3>3. m.pts \in sv.ends /\ server'[m.stream] = sv /\ m.stream = s
      BY <1>1, <1>5, <1>e, <1>n, <2>2
    <3> QED BY <1>3, <3>1, <3>2, <3>3
  <2> QED BY <1>3, <2>1, <2>2
<1>12. ASSUME NEW m \in net', NEW k \in net', m.stream = k.stream, m # k
       PROVE  Slots(m) \cap Slots(k) = {}
  <2>1. CASE m \in net /\ k \in net
    BY <1>12, <2>1 DEF IInv, NetOK
  <2>2. CASE m = new /\ k \in net
    BY <1>2, <1>8, <1>9, <1>12, <1>n, <2>2
  <2>3. CASE k = new /\ m \in net
    BY <1>2, <1>8, <1>9, <1>12, <1>n, <2>3
  <2> QED BY <1>3, <1>12, <2>1, <2>2, <2>3
<1> QED BY <1>6, <1>7, <1>11, <1>12 DEF Kept, IInv, NetOK

\* Steps that only take a message away, or leave every stream as it is.
LEMMA QuietKeeps ==
  ASSUME IInv, net' \subseteq net, view' \in [Windows -> Channels \cup {NoChat}],
         UNCHANGED <<waiter, diff, server, history>>
  PROVE  Kept
<1>1. TypeOK'
  BY DEF IInv, TypeOK, history
<1>2. ASSUME NEW s \in Streams
      PROVE  StreamOK(s)' /\ waiter'[s].good >= waiter[s].good
  <2>1. waiter[s].good \in Nat /\ StreamOK(s)
    BY DEF IInv, TypeOK, Waiter
  <2> QED BY <2>1 DEF StreamOK, history
<1>3. NetOK'
  BY DEF IInv, NetOK, history
<1> QED BY <1>1, <1>2, <1>3 DEF IInv, Kept

\* A lost update, and one dropped during a request.
LEMMA LoseKeeps ==
  ASSUME IInv, NEW m \in net, Lose(m) \/ Discard(m)
  PROVE  Kept
<1>1. net' \subseteq net /\ UNCHANGED <<waiter, diff, view, server, history>>
  BY DEF Lose, Discard
<1>2. view' \in [Windows -> Channels \cup {NoChat}]
  BY <1>1 DEF IInv, TypeOK
<1> QED BY <1>1, <1>2, QuietKeeps

\* An update, an affected pts or a bare pts reaches a waiter.
LEMMA ApplyOK ==
  ASSUME NEW w \in Waiter, NEW d \in Difference, NEW sv \in ServerType,
         NEW c, NEW a, NEW b \in Nat, OK(w, d, sv, c, a, b),
         NEW u \in Update,
         Whole(u, sv.ends), u.pts \in sv.ends, Slots(u) \cap c = {},
         NEW v, NEW got, Applies(w, u, v, got)
  PROVE  /\ v \in Waiter /\ v.good >= w.good
         /\ OK(v, d, sv, countedAfter(w, u, v, c), a \cup got,
               baseAfter(w, v, b))
<1> DEFINE c2 == countedAfter(w, u, v, c)
           b2 == baseAfter(w, v, b)
           ends == sv.ends
<1>1. Sound(w, ends, c) /\ Covers(w, c, a, b) /\ ServerOK(sv)
  BY DEF OK
<1>2. ends \in SUBSET (Nat \ {0}) /\ Whole(u, ends) /\ u.pts \in ends
  BY <1>1 DEF ServerOK, ServerType
<1> HIDE DEF ends
<1>3. /\ v \in Waiter /\ Sound(v, ends, c2) /\ Covers(v, c2, a \cup got, b2)
      /\ v.requesting = w.requesting /\ v.good >= w.good
  BY <1>1, <1>2, ApplyStep
<1>4. v.requesting => v.good = w.good
  <2>1. CASE w.requesting
    <3>1. afterUpdated(w, u) = w /\ bypassed(w)
      BY <2>1, UpdatedIgnored DEF Ignored, bypassed
    <3>2. w.queue = {}
      BY <1>1, <2>1 DEF Sound
    <3>3. \/ v = w \/ v = applySkippedUpdates(w)
          \/ v = [w EXCEPT !.queue = @ \cup {u}]
      BY <3>1, <3>2, ApplyCases
    <3> QED BY <3>3, SkippedApplied DEF Waiter
  <2> QED BY <1>3, <2>1
<1> HIDE DEF c2, b2
<1>5. Backed(v, d)
  <2>1. Backed(w, d) /\ w.good \in Nat /\ v.good \in Nat
    BY <1>3 DEF OK, Waiter
  <2> QED BY <1>3, <1>4, <2>1 DEF Backed, inited
<1>6. OK(v, d, sv, c2, a \cup got, b2)
  BY <1>1, <1>3, <1>5 DEF OK, ends
<1> QED BY <1>3, <1>6 DEF c2, b2

\* An update that reaches a waiter, with what Recorded notes of it.
LEMMA ApplyKeeps ==
  ASSUME IInv, NEW s \in Streams, NEW u \in Update,
         Whole(u, server[s].ends), u.pts \in server[s].ends,
         Slots(u) \cap counted[s] = {},
         NEW v, NEW got, Applies(waiter[s], u, v, got),
         waiter' = [waiter EXCEPT ![s] = v],
         Recorded(s, u, got),
         net' \subseteq net,
         \A k \in net' : k.stream = s => Slots(k) \cap (counted[s] \cup Slots(u)) = {},
         UNCHANGED <<diff, view, server>>
  PROVE  Kept
<1> DEFINE w == waiter[s]
           a == applied[s] \cup got
           b == baseAfter(w, v, base[s])
           c == countedAfter(w, u, v, counted[s])
<1>1. waiter'[s] = v
  BY DEF IInv, TypeOK
<1>2. /\ applied' = [applied EXCEPT ![s] = a]
      /\ counted' = [counted EXCEPT ![s] = c]
      /\ base' = [base EXCEPT ![s] = b]
  BY <1>1 DEF Recorded
<1>3. /\ w \in Waiter /\ diff[s] \in Difference /\ server[s] \in ServerType
      /\ applied[s] \in SUBSET Int /\ counted[s] \in SUBSET Int
      /\ base[s] \in Nat
      /\ diff = [diff EXCEPT ![s] = diff[s]]
      /\ OK(w, diff[s], server[s], counted[s], applied[s], base[s])
  BY StreamTypes
<1>4. v \in Waiter /\ v.good >= w.good /\ OK(v, diff[s], server[s], c, a, b)
  BY <1>3, ApplyOK
<1>5. b \in Nat /\ a \in SUBSET Int
  <2>1. got \subseteq Int
    BY <1>3, AppliedAreSlots
  <2> QED BY <1>3, <1>4, <2>1 DEF Waiter, baseAfter
<1>6. c \in SUBSET Int
  <2>1. c \subseteq (v.good + 1) .. v.last
    BY <1>4 DEF OK, Sound
  <2> QED BY <1>4, <2>1 DEF Waiter
<1>7. \A k \in net' : k.stream = s => Slots(k) \cap c = {}
  BY DEF countedAfter
<1> HIDE DEF a, b, c
<1> QED BY <1>2, <1>3, <1>4, <1>5, <1>6, <1>7, Frame

\* Every way in which an update or a pts is received.
LEMMA ReceiveKeeps ==
  ASSUME IInv, Receive
  PROVE  Kept
<1>1. ASSUME NEW m \in net, Discard(m) PROVE Kept
  BY <1>1, LoseKeeps
<1>2. ASSUME NEW m \in net, FeedUpdate(m) PROVE Kept
  <2> DEFINE s == m.stream
             u == UpdateOf(m)
             v == updateAndApply(waiter[s], u)
             got == SlotsOf(appliedBy(waiter[s], u))
  <2>1. /\ net' = net \ {m} /\ waiter' = [waiter EXCEPT ![s] = v]
        /\ Recorded(s, u, got) /\ UNCHANGED <<diff, view, server>>
    BY <1>2 DEF FeedUpdate
  <2>2. Applies(waiter[s], u, v, got)
    BY DEF Applies, SlotsOf, SlotSet
  <2>3. /\ s \in Streams /\ u \in Update
        /\ Whole(u, server[s].ends) /\ u.pts \in server[s].ends
        /\ Slots(u) \cap counted[s] = {} /\ net' \subseteq net
        /\ \A k \in net' :
             k.stream = s => Slots(k) \cap (counted[s] \cup Slots(u)) = {}
    BY <2>1, NetApart
  <2> HIDE DEF s, u, v, got
  <2> QED BY <2>1, <2>2, <2>3, ApplyKeeps
<1>3. ASSUME NEW m \in net, FeedUpdateOfUnknownPeer(m) PROVE Kept
  <2> DEFINE v == waiterAsking(Common, waiter[Common])
             e == diffAsking(Common, waiter[Common], diff[Common])
  <2>1. /\ net' \subseteq net
        /\ waiter' = [waiter EXCEPT ![Common] = v]
        /\ diff' = [diff EXCEPT ![Common] = e]
        /\ UNCHANGED <<view, server, applied, counted, base>>
    BY <1>3 DEF FeedUpdateOfUnknownPeer, getDifference, history
  <2> HIDE DEF v, e
  <2>2. Common \in Streams
    BY DEF Streams
  <2>3. /\ waiter[Common] \in Waiter /\ diff[Common] \in Difference
        /\ server[Common] \in ServerType /\ ServerOK(server[Common])
        /\ Sound(waiter[Common], server[Common].ends, counted[Common])
        /\ Covers(waiter[Common], counted[Common], applied[Common], base[Common])
        /\ Backed(waiter[Common], diff[Common])
    BY <2>2, StreamTypes DEF OK
  <2>4. /\ v \in Waiter /\ e \in Difference /\ v.good = waiter[Common].good
        /\ OK(v, e, server[Common], counted[Common], applied[Common], base[Common])
    BY <2>2, <2>3, AskOK DEF v, e
  <2>5. v.good >= waiter[Common].good
    BY <2>4 DEF Waiter
  <2> QED BY <2>1, <2>2, <2>4, <2>5, FrameWaiter
<1>4. ASSUME NEW m \in net, ApplyAffected(m) PROVE Kept
  <2> DEFINE s == m.stream
             u == UpdateOf(m)
             v == updateAndApplyAffected(waiter[s], u)
             got == Slots(u) \cup SlotsOf(appliedByAffected(waiter[s], u))
  <2>1. /\ net' = net \ {m} /\ waiter' = [waiter EXCEPT ![s] = v]
        /\ Recorded(s, u, got) /\ UNCHANGED <<diff, view, server>>
    BY <1>4 DEF ApplyAffected
  <2>2. Applies(waiter[s], u, v, got)
    BY DEF Applies, SlotsOf, SlotSet
  <2>3. /\ s \in Streams /\ u \in Update
        /\ Whole(u, server[s].ends) /\ u.pts \in server[s].ends
        /\ Slots(u) \cap counted[s] = {} /\ net' \subseteq net
        /\ \A k \in net' :
             k.stream = s => Slots(k) \cap (counted[s] \cup Slots(u)) = {}
    BY <2>1, NetApart
  <2> HIDE DEF s, u, v, got
  <2> QED BY <2>1, <2>2, <2>3, ApplyKeeps
<1>5. ASSUME NEW c \in Channels, NEW p \in 1 .. MaxPts, PtsReceived(c, p)
      PROVE  Kept
  <2> DEFINE u == [pts |-> p, count |-> 0]
             v == updateAndApplyAffected(waiter[c], u)
             got == SlotsOf(appliedByAffected(waiter[c], u))
  <2>1. /\ p \in server[c].ends
        /\ net' = net /\ waiter' = [waiter EXCEPT ![c] = v]
        /\ Recorded(c, u, got) /\ UNCHANGED <<diff, view, server>>
    BY <1>5 DEF PtsReceived
  <2>2. c \in Streams /\ p \in Nat
    BY BoundsAssumption DEF Streams
  <2>3. u \in Update /\ u.pts = p /\ u.count = 0 /\ Slots(u) = {}
    BY <2>2 DEF Update, Slots
  <2>4. Applies(waiter[c], u, v, got)
    BY <2>3 DEF Applies, SlotsOf, SlotSet
  <2>5. server[c].ends \in SUBSET (Nat \ {0})
    BY <2>2, StreamTypes
  <2> HIDE DEF u, v, got
  <2>6. Whole(u, server[c].ends)
    BY <2>2, <2>3, <2>5 DEF Whole
  <2>7. \A k \in net' : k.stream = c =>
          Slots(k) \cap (counted[c] \cup Slots(u)) = {}
    BY <2>1, <2>3 DEF IInv, NetOK
  <2> QED BY <2>1, <2>2, <2>3, <2>4, <2>6, <2>7, ApplyKeeps
<1> QED BY <1>1, <1>2, <1>3, <1>4, <1>5 DEF Receive

\* Every way in which a difference comes to be requested.
LEMMA AskKeeps ==
  ASSUME IInv, Ask
  PROVE  Kept
<1>1. PICK s \in Streams :
        GetDifferenceByPts(s) \/ GetDifferenceAfterFail(s) \/ TooLong(s)
  BY DEF Ask
<1> DEFINE retry == GetDifferenceAfterFail(s)
           w == IF retry THEN setRequesting(waiter[s], FALSE) ELSE waiter[s]
           d == IF retry THEN [diff[s] EXCEPT !.afterFail = FALSE] ELSE diff[s]
<1>2. /\ getDifference(s, w, d)
      /\ UNCHANGED <<view, server, net, applied, counted, base>>
  BY <1>1 DEF GetDifferenceByPts, GetDifferenceAfterFail, TooLong, history
<1>3. /\ waiter[s] \in Waiter /\ diff[s] \in Difference
      /\ server[s] \in ServerType /\ ServerOK(server[s])
      /\ Sound(waiter[s], server[s].ends, counted[s])
      /\ Covers(waiter[s], counted[s], applied[s], base[s])
      /\ Backed(waiter[s], diff[s])
  BY StreamTypes DEF OK
<1>4. /\ w \in Waiter /\ d \in Difference /\ w.good = waiter[s].good
      /\ Sound(w, server[s].ends, counted[s]) /\ Backed(w, d)
      /\ \/ Covers(w, counted[s], applied[s], base[s])
         \/ sends(s, w) /\ (base[s] + 1) .. w.good \subseteq applied[s]
  <2>1. CASE ~retry
    BY <1>3, <2>1
  <2>2. CASE retry
    <3>1. diff[s].afterFail
      BY <2>2 DEF GetDifferenceAfterFail
    <3>2. waiter[s].requesting /\ inited(waiter[s]) /\ diff[s].flying = 0
      BY <1>3, <3>1 DEF Backed, Pending, Difference, Waiter
    <3>3. /\ w \in Waiter /\ w.good = waiter[s].good /\ w.last = waiter[s].last
          /\ w.count = waiter[s].count /\ ~w.requesting
          /\ w.queue = waiter[s].queue /\ w.skipped = waiter[s].skipped
          /\ w.armed = waiter[s].armed
      BY <1>3, <2>2, RequestingType
    <3>4. d \in Difference /\ d.flying = 0 /\ ~d.afterFail
      BY <1>3, <2>2, <3>2 DEF Difference
    <3> HIDE DEF w, d, retry
    <3>5. Sound(w, server[s].ends, counted[s])
      BY <1>3, <3>3 DEF Sound
    <3>6. Backed(w, d)
      BY <3>3, <3>4 DEF Backed, Pending
    <3>7. sends(s, w) /\ (base[s] + 1) .. w.good \subseteq applied[s]
      BY <1>3, <3>2, <3>3 DEF sends, inited, Covers
    <3> QED BY <3>3, <3>4, <3>5, <3>6, <3>7
  <2> QED BY <2>1, <2>2
<1> HIDE DEF w, d, retry
<1> DEFINE v == waiterAsking(s, w)
           e == diffAsking(s, w, d)
<1>5. waiter' = [waiter EXCEPT ![s] = v] /\ diff' = [diff EXCEPT ![s] = e]
  BY <1>2 DEF getDifference
<1>6. /\ v \in Waiter /\ e \in Difference /\ v.good = w.good
      /\ OK(v, e, server[s], counted[s], applied[s], base[s])
  BY <1>3, <1>4, AskOK
<1> HIDE DEF v, e
<1>7. v.good >= waiter[s].good
  BY <1>4, <1>6 DEF Waiter
<1> QED BY <1>2, <1>5, <1>6, <1>7, FrameWaiter

\* An answer ends the request; the channel may be polled or asked again.
LEMMA AnsweredOK ==
  ASSUME NEW s \in Streams, NEW w \in Waiter, NEW d \in Difference,
         server[s] \in ServerType,
         NEW c, NEW o \in SUBSET Int, NEW from \in Nat,
         OK(w, d, server[s], c, o, from),
         d.flying > 0, NEW p \in server[s].ends, p >= d.from,
         NEW a, NEW b, CaughtUpTo(d, p, o, from, a, b),
         NEW v, NEW e, NEW on, AnsweredBy(s, w, d, p, on, v, e)
  PROVE  /\ v \in Waiter /\ e \in Difference /\ v.good >= w.good
         /\ OK(v, e, server[s], {}, a, b) /\ a \in SUBSET Int /\ b \in Nat
<1> DEFINE x == reset(w, p)
           y == Ended(d)
           sv == server[s]
<1>1. sv \in ServerType /\ OK(w, d, sv, c, o, from) /\ p \in sv.ends
  OBVIOUS
<1> HIDE DEF sv
<1>3. /\ x \in Waiter /\ y \in Difference /\ p \in Nat
      /\ x.good = p /\ x.good >= w.good
      /\ OK(x, y, sv, {}, o \cup ((d.from + 1) .. p), from)
      /\ OK(x, y, sv, {}, o, p)
  BY <1>1, ResetOK
<1>a. \/ v = x /\ e = y
      \/ on \in BOOLEAN /\ v = setWaitingForShortPoll(x, on) /\ e = y
      \/ v = waiterAsking(s, x) /\ e = diffAsking(s, x, y)
  BY DEF AnsweredBy
<1> HIDE DEF x, y
<1>4. OK(x, y, sv, {}, a, b) /\ a \in SUBSET Int /\ b \in Nat
  <2>1. CASE a = o \cup ((d.from + 1) .. p) /\ b = from
    <3>1. ((d.from + 1) .. p) \subseteq Int
      OBVIOUS
    <3>2. a \subseteq Int
      BY <2>1, <3>1
    <3>3. OK(x, y, sv, {}, a, b)
      BY <1>3, <2>1, Zenon
    <3> QED BY <2>1, <3>2, <3>3
  <2>2. CASE a = o /\ b = p
    BY <1>3, <2>2
  <2> QED BY <2>1, <2>2 DEF CaughtUpTo
<1>5. CASE v = x /\ e = y
  BY <1>3, <1>4, <1>5 DEF sv
<1>6. CASE on \in BOOLEAN /\ v = setWaitingForShortPoll(x, on) /\ e = y
  <2>1. v \in Waiter /\ OK(v, y, sv, {}, a, b) /\ v.good = x.good
    BY <1>3, <1>4, <1>6, ShortPollOK
  <2> QED BY <1>3, <1>4, <1>6, <2>1 DEF sv
<1>7. CASE v = waiterAsking(s, x) /\ e = diffAsking(s, x, y)
  <2>1. /\ server[s] \in ServerType /\ ServerOK(server[s])
        /\ Sound(x, server[s].ends, {}) /\ Covers(x, {}, a, b) /\ Backed(x, y)
    BY <1>1, <1>4 DEF OK, sv
  <2>2. /\ v \in Waiter /\ e \in Difference
        /\ OK(v, e, server[s], {}, a, b) /\ v.good = x.good
    BY <1>3, <1>7, <2>1, AskOK
  <2> QED BY <1>3, <1>4, <2>2
<1> QED BY <1>5, <1>6, <1>7, <1>a

\* An answer to a stream's request.
LEMMA DoneKeeps ==
  ASSUME IInv, NEW s \in Streams, Done(s)
  PROVE  Kept
<1>1. PICK p \in 1 .. MaxPts :
        IF s = Common THEN StateDone(p) \/ DifferenceDone(p) \/ DifferenceSlice(p)
        ELSE ChannelDifferenceDone(s, p) \/ ChannelDifferenceTooLong(s, p)
  BY DEF Done
<1> DEFINE w == waiter[s]
           d == diff[s]
           on == inActiveChats(s)
           o == applied[s]
           from == base[s]
           c == counted[s]
<1>2. p \in Nat /\ on \in BOOLEAN
  BY BoundsAssumption DEF inActiveChats
<1>3. /\ w \in Waiter /\ d \in Difference /\ from \in Nat
      /\ server[s] \in ServerType /\ o \in SUBSET Int
      /\ OK(w, d, server[s], c, o, from)
      /\ base = [base EXCEPT ![s] = from]
      /\ applied = [applied EXCEPT ![s] = o]
  BY StreamTypes
<1>4. /\ d.flying > 0 /\ p \in server[s].ends /\ p >= d.from
      /\ server' = server /\ net' \subseteq net /\ view' = view
  <2>1. ~inited(w) /\ d.flying > 0 => d.from = 0
    BY <1>3 DEF inited, OK, Backed, Pending, Difference, Waiter
  <2> QED BY <1>1, <1>2, <2>1, <1>3
          DEF StateDone, DifferenceDone, DifferenceSlice,
              ChannelAnswered, ChannelDifferenceDone, ChannelDifferenceTooLong, Difference
<1>5. PICK v, e :
        /\ waiter' = [waiter EXCEPT ![s] = v] /\ diff' = [diff EXCEPT ![s] = e]
        /\ AnsweredBy(s, w, d, p, on, v, e)
  <2>1. Answered(s) = Ended(d)
    BY DEF Answered, Ended
  <2> QED BY <1>1, <1>2, <2>1
          DEF StateDone, DifferenceDone, DifferenceSlice,
              ChannelAnswered, ChannelDifferenceDone, ChannelDifferenceTooLong,
              finished, getDifference, AnsweredBy
<1>6. CaughtUp(s, p) \/ Restarted(s, p)
  BY <1>1 DEF StateDone, DifferenceDone, DifferenceSlice,
              ChannelAnswered, ChannelDifferenceDone, ChannelDifferenceTooLong
<1>7. PICK a, b :
        /\ applied' = [applied EXCEPT ![s] = a] /\ base' = [base EXCEPT ![s] = b]
        /\ counted' = [counted EXCEPT ![s] = {}]
        /\ CaughtUpTo(d, p, o, from, a, b)
  <2>1. CASE CaughtUp(s, p)
    BY <1>3, <2>1 DEF CaughtUp, CaughtUpTo
  <2>2. CASE Restarted(s, p)
    BY <1>3, <2>2 DEF Restarted, CaughtUpTo
  <2> QED BY <1>6, <2>1, <2>2
<1> HIDE DEF w, d, o, from, c, on
<1>8. /\ v \in Waiter /\ e \in Difference /\ v.good >= w.good
      /\ OK(v, e, server[s], {}, a, b) /\ a \in SUBSET Int /\ b \in Nat
  BY <1>3, <1>4, <1>5, <1>7, AnsweredOK
<1>9. /\ \A m \in net' : m.stream = s => Slots(m) \cap {} = {}
      /\ {} \in SUBSET Int /\ v.good >= waiter[s].good
  BY <1>8 DEF w
<1> QED BY <1>4, <1>5, <1>7, <1>8, <1>9, Frame

\* A request that ends without an answer the code uses.
LEMMA AnswerKeeps ==
  ASSUME IInv, Answer
  PROVE  Kept
<1>1. ASSUME NEW s \in Streams, Done(s) PROVE Kept
  BY <1>1, DoneKeeps
<1>2. ASSUME NEW s \in Streams, diff[s].flying > 0, NEW retry \in BOOLEAN,
             retry => inited(waiter[s]),
             retry \/ Unhandled # {},
             NEW e, e = [Ended(diff[s]) EXCEPT !.afterFail = retry],
             diff' = [diff EXCEPT ![s] = e],
             UNCHANGED <<waiter, view, server, net, history>>
      PROVE  Kept
  <2> DEFINE v == waiter[s]
             d == diff[s]
  <2>1. /\ v \in Waiter /\ d \in Difference /\ d.flying > 0
        /\ OK(v, d, server[s], counted[s], applied[s], base[s])
        /\ waiter' = [waiter EXCEPT ![s] = v]
    BY <1>2, StreamTypes
  <2>n. inited(v) \/ ~retry
    BY <1>2
  <2>e. e = [Ended(d) EXCEPT !.afterFail = retry]
    BY <1>2
  <2>g. v.good >= waiter[s].good
    BY <2>1 DEF Waiter
  <2> HIDE DEF v, d
  <2>2. v.requesting /\ d.flying = 1 /\ ~d.afterFail /\ d.from = v.good
    BY <2>1 DEF OK, Backed, Pending, Difference
  <2>3. /\ e \in Difference /\ e.flying = 0 /\ e.from = v.good
        /\ e.afterFail = retry
    BY <2>1, <2>2, <2>e, EndedType, RetryType
  <2>4. Backed(v, e)
    BY <1>2, <2>2, <2>3, <2>n DEF Backed, Pending
  <2>5. OK(v, e, server[s], counted[s], applied[s], base[s])
    BY <2>1, <2>4 DEF OK
  <2>6. /\ counted' = counted
        /\ applied' = applied /\ base' = base /\ server' = server
        /\ net' \subseteq net /\ view' = view
    BY <1>2 DEF history
  <2> QED BY <1>2, <2>1, <2>3, <2>5, <2>6, <2>g, FrameWaiter
<1>3. ASSUME NEW s \in Streams, DifferenceFail(s) PROVE Kept
  <2>1. Answered(s) = Ended(diff[s])
    BY DEF Answered, Ended
  <2> QED BY <1>2, <1>3, <2>1 DEF DifferenceFail
<1>4. CASE StateFail \/ DifferenceTooLong
  <2>1. Common \in Streams /\ diff[Common].flying > 0 /\ Unhandled # {}
        /\ diff' = [diff EXCEPT ![Common] = Ended(diff[Common])]
        /\ UNCHANGED <<waiter, view, server, net, history>>
    BY <1>4 DEF StateFail, DifferenceTooLong, Streams, Answered, Ended
  <2>2. diff[Common] \in Difference /\ ~diff[Common].afterFail
    BY <2>1, StreamTypes DEF OK, Backed, Pending, Difference
  <2>3. Ended(diff[Common]) = [Ended(diff[Common]) EXCEPT !.afterFail = FALSE]
    <3> DEFINE y == Ended(diff[Common])
    <3>1. y \in Difference /\ y.afterFail = FALSE
      BY <2>1, <2>2, EndedType
    <3> HIDE DEF y
    <3>2. y = [y EXCEPT !.afterFail = FALSE]
      BY <3>1 DEF Difference
    <3> QED BY <3>2 DEF y
  <2> QED BY <1>2, <2>1, <2>3
<1> QED BY <1>1, <1>3, <1>4 DEF Answer

\* Polling starts and stops.
LEMMA ShowKeeps ==
  ASSUME IInv, Show
  PROVE  Kept
<1>1. ASSUME NEW x \in Windows, CloseWindow(x) PROVE Kept
  <2>1. view' \in [Windows -> Channels \cup {NoChat}] /\ net' \subseteq net
    BY <1>1 DEF CloseWindow, IInv, TypeOK
  <2> QED BY <1>1, <2>1, QuietKeeps DEF CloseWindow
<1>2. ASSUME /\ \E x \in Windows, c \in Channels \cup {NoChat} : ShowChat(x, c)
             \/ \E c \in Channels : LeaveChannel(c)
      PROVE  Kept
  <2>1. /\ waiter' \in [Streams -> Waiter]
        /\ \A t \in Streams :
             \/ waiter'[t] = waiter[t]
             \/ waiter'[t] = setWaitingForShortPoll(waiter[t], TRUE)
             \/ waiter'[t] = setWaitingForShortPoll(waiter[t], FALSE)
    <3>1. waiter \in [Streams -> Waiter]
      BY DEF IInv, TypeOK
    <3>2. \A t \in Streams, on \in BOOLEAN :
            setWaitingForShortPoll(waiter[t], on) \in Waiter
      BY <3>1, ShortPollType
    <3>3. ASSUME NEW x \in Windows, NEW c \in Channels \cup {NoChat},
                 ShowChat(x, c)
          PROVE  \A t \in Streams :
                   \/ waiter'[t] = waiter[t]
                   \/ waiter'[t] = setWaitingForShortPoll(waiter[t], TRUE)
                   \/ waiter'[t] = setWaitingForShortPoll(waiter[t], FALSE)
      BY <3>3 DEF ShowChat
    <3>4. ASSUME NEW x \in Windows, NEW c \in Channels \cup {NoChat},
                 ShowChat(x, c)
          PROVE  waiter' \in [Streams -> Waiter]
      <4> DEFINE f(t) == IF t = c THEN setWaitingForShortPoll(waiter[t], TRUE)
                         ELSE IF t = view[x]
                                 /\ \A y \in Windows \ {x} : view[y] # view[x]
                              THEN setWaitingForShortPoll(waiter[t], FALSE)
                              ELSE waiter[t]
      <4>1. waiter' = [t \in Streams |-> f(t)]
        BY <3>4 DEF ShowChat
      <4>2. \A t \in Streams : f(t) \in Waiter
        BY <3>1, <3>2
      <4> HIDE DEF f
      <4> QED BY <4>1, <4>2
    <3>5. ASSUME NEW c \in Channels, LeaveChannel(c)
          PROVE  /\ waiter' \in [Streams -> Waiter]
                 /\ \A t \in Streams :
                      \/ waiter'[t] = waiter[t]
                      \/ waiter'[t] = setWaitingForShortPoll(waiter[t], FALSE)
      <4>1. c \in Streams
        BY DEF Streams
      <4>2. waiter' = [waiter EXCEPT
                        ![c] = setWaitingForShortPoll(waiter[c], FALSE)]
        BY <3>5 DEF LeaveChannel
      <4>3. setWaitingForShortPoll(waiter[c], FALSE) \in Waiter
        BY <3>2, <4>1
      <4> QED BY <3>1, <4>1, <4>2, <4>3
    <3> QED BY <1>2, <3>3, <3>4, <3>5
  <2>2. /\ UNCHANGED <<diff, server, net, history>>
        /\ view' \in [Windows -> Channels \cup {NoChat}]
    <3>1. view \in [Windows -> Channels \cup {NoChat}]
      BY DEF IInv, TypeOK
    <3>2. ASSUME NEW x \in Windows, NEW c \in Channels \cup {NoChat},
                 ShowChat(x, c)
          PROVE  /\ UNCHANGED <<diff, server, net, history>>
                 /\ view' \in [Windows -> Channels \cup {NoChat}]
      BY <3>1, <3>2 DEF ShowChat
    <3>3. ASSUME NEW c \in Channels, LeaveChannel(c)
          PROVE  UNCHANGED <<diff, view, server, net, history>>
      BY <3>3 DEF LeaveChannel
    <3> QED BY <1>2, <3>1, <3>2, <3>3
  <2>3. TypeOK' /\ NetOK'
    BY <2>1, <2>2 DEF IInv, TypeOK, NetOK, history
  <2>4. ASSUME NEW t \in Streams
        PROVE  StreamOK(t)' /\ waiter'[t].good >= waiter[t].good
    <3> DEFINE w == waiter[t]
               v == waiter'[t]
               d == diff[t]
               sv == server[t]
               c == counted[t]
               a == applied[t]
               b == base[t]
    <3>1. w \in Waiter /\ d \in Difference /\ OK(w, d, sv, c, a, b)
      BY StreamTypes
    <3>2. \/ v = w
          \/ \E on \in BOOLEAN : v = setWaitingForShortPoll(w, on)
      BY <2>1
    <3> HIDE DEF w, v, d, sv, c, a, b
    <3>3. OK(v, d, sv, c, a, b) /\ v.good = w.good
      <4>1. CASE v = w
        BY <3>1, <4>1
      <4>2. ASSUME NEW on \in BOOLEAN, v = setWaitingForShortPoll(w, on)
            PROVE  OK(v, d, sv, c, a, b) /\ v.good = w.good
        BY <3>1, <4>2, ShortPollOK
      <4> QED BY <3>2, <4>1, <4>2
    <3>4. v.good >= w.good
      BY <3>1, <3>3 DEF Waiter
    <3>5. StreamOK(t)'
      BY <2>2, <3>3 DEF v, w, d, sv, c, a, b, StreamOK, history
    <3> QED BY <3>4, <3>5 DEF v, w
  <2> QED BY <2>3, <2>4 DEF IInv, Kept
<1> QED BY <1>1, <1>2 DEF Show

-----------------------------------------------------------------------------
(***************************************************************************)
(* The step, and the theorems.                                             *)
(***************************************************************************)
LEMMA NextKeeps == IInv /\ [Next]_vars => Kept
<1> SUFFICES ASSUME IInv, [Next]_vars PROVE Kept
  OBVIOUS
<1>1. CASE Environment
  BY <1>1, ServerEventKeeps, LoseKeeps DEF Environment
<1>2. CASE Receive
  BY <1>2, ReceiveKeeps
<1>3. CASE Ask
  BY <1>3, AskKeeps
<1>4. CASE Answer
  BY <1>4, AnswerKeeps
<1>5. CASE Show
  BY <1>5, ShowKeeps
<1>6. CASE UNCHANGED vars
  <2>1. net' \subseteq net /\ view' \in [Windows -> Channels \cup {NoChat}]
        /\ UNCHANGED <<waiter, diff, server, history>>
    BY <1>6 DEF vars, history, IInv, TypeOK
  <2> QED BY <2>1, QuietKeeps
<1> QED BY <1>1, <1>2, <1>3, <1>4, <1>5, <1>6 DEF Next

(***************************************************************************)
(* The inductive invariant holds of every behaviour.                       *)
(***************************************************************************)
THEOREM Inductive == Spec => []IInv
<1>1. Init => IInv
  BY InitInv
<1>2. IInv /\ [Next]_vars => IInv'
  BY NextKeeps DEF Kept
<1> QED BY <1>1, <1>2, PTL DEF Spec

(***************************************************************************)
(* The state of Api::Updates and of its waiters keeps its types.           *)
(***************************************************************************)
THEOREM TypeCorrect == Spec => []TypeOK
<1>1. IInv => TypeOK
  BY DEF IInv
<1> QED BY <1>1, Inductive, PTL

(***************************************************************************)
(* The client never believes it is past an event it has not applied.       *)
(***************************************************************************)
THEOREM NothingSkipped == Spec => []NoSkippedUpdate
<1>1. IInv => NoSkippedUpdate
  BY DEF IInv, StreamOK, OK, Covers, NoSkippedUpdate
<1> QED BY <1>1, Inductive, PTL

(***************************************************************************)
(* No step moves a stream's known pts back.                                *)
(***************************************************************************)
THEOREM NoRewind == Spec => PtsNeverRewinds
<1>1. IInv /\ [Next]_vars => [\A s \in Streams : waiter'[s].good >= waiter[s].good]_vars
  BY NextKeeps DEF Kept
<1> QED BY <1>1, Inductive, PTL DEF Spec, PtsNeverRewinds

(***************************************************************************)
(* Updates kept for later always have a deadline that ends the wait.       *)
(***************************************************************************)
THEOREM QueueWatched == Spec => []QueueIsWatched
<1>1. IInv => QueueIsWatched
  BY DEF IInv, StreamOK, OK, Sound, QueueIsWatched
<1> QED BY <1>1, Inductive, PTL

(***************************************************************************)
(* While the server sends neither answer that the code only logs,          *)
(* _requesting is set exactly while a request or its retry is pending.     *)
(***************************************************************************)
THEOREM RequestBacked ==
  ASSUME Unhandled = {}
  PROVE  Spec => []RequestingIsBacked
<1>1. IInv => RequestingIsBacked
  BY DEF IInv, StreamOK, OK, Backed, Pending, RequestingIsBacked
<1> QED BY <1>1, Inductive, PTL

-----------------------------------------------------------------------------
(***************************************************************************)
(* What a step does to the waiter of one stream: w becomes v, where the    *)
(* stream was in an active chat or not, and is now.                        *)
(***************************************************************************)
Asks(s, w, v) ==
  \/ v = waiterAsking(s, w)
  \/ v = waiterAsking(s, setRequesting(w, FALSE))
  \/ \E p \in 1 .. MaxPts : v = waiterAsking(s, reset(w, p))

Takes(w, v) ==
  \E u \in Update :
    /\ u.count = 0 => u.count \in Counts \/ DialogReload \/ ~inited(w)
    /\ v = updateAndApply(w, u) \/ v = updateAndApplyAffected(w, u)

Polls(w, v, is) ==
  \E on \in BOOLEAN :
    /\ is => on
    /\ \/ v = setWaitingForShortPoll(w, on)
       \/ \E p \in 1 .. MaxPts : v = setWaitingForShortPoll(reset(w, p), on)

Moves(s, w, v, was, is) ==
  \/ /\ is => was
     /\ \/ v = w
        \/ Takes(w, v)
        \/ Asks(s, w, v)
        \/ s = Common /\ \E p \in 1 .. MaxPts : v = reset(w, p)
  \/ Polls(w, v, is)

\* What is under way stands for as many events as updates do.
NetCounts == \A m \in net : m.count \in Counts

Shown(s) == s \in Channels /\ inActiveChats(s)

MovesTo(s) == Moves(s, waiter[s], waiter'[s], Shown(s), Shown(s)')

\* Nothing that the waiters are is changed.
LEMMA Still ==
  ASSUME waiter' = waiter, view' = view, NEW s \in Streams
  PROVE  MovesTo(s)
BY DEF MovesTo, Moves, Shown, inActiveChats

\* One waiter is changed, and the chats shown stay.
LEMMA OneMoves ==
  ASSUME TypeOK, NEW t \in Streams, NEW v, waiter' = [waiter EXCEPT ![t] = v], view' = view,
         \/ Takes(waiter[t], v) \/ Asks(t, waiter[t], v) \/ Polls(waiter[t], v, inActiveChats(t))
         \/ t = Common /\ \E p \in 1 .. MaxPts : v = reset(waiter[t], p),
         NEW s \in Streams
  PROVE  MovesTo(s)
<1>1. Shown(s)' = Shown(s)
  BY DEF Shown, inActiveChats
<1>2. CASE s = t
  <2>1. waiter'[s] = v
    BY <1>2 DEF TypeOK
  <2>2. CASE Polls(waiter[t], v, inActiveChats(t))
    <3>1. Polls(waiter[t], v, Shown(t))
      BY <2>2 DEF Polls, Shown
    <3> QED BY <1>1, <1>2, <2>1, <3>1 DEF MovesTo, Moves
  <2>3. CASE Takes(waiter[t], v) \/ Asks(t, waiter[t], v)
    BY <1>1, <1>2, <2>1, <2>3 DEF MovesTo, Moves
  <2>4. CASE t = Common /\ \E p \in 1 .. MaxPts : v = reset(waiter[t], p)
    BY <1>1, <1>2, <2>1, <2>4 DEF MovesTo, Moves
  <2> QED BY <2>2, <2>3, <2>4
<1>3. CASE s # t
  <2>1. waiter'[s] = waiter[s]
    BY <1>3 DEF TypeOK
  <2> QED BY <1>1, <2>1 DEF MovesTo, Moves
<1> QED BY <1>2, <1>3

\* Each action is such a step of each waiter.
LEMMA NextMoves ==
  ASSUME TypeOK, NetCounts, [Next]_vars, NEW s \in Streams
  PROVE  MovesTo(s)
<1>t. \A m \in net : m.stream \in Streams /\ UpdateOf(m) \in Update /\ m.count \in Counts
  BY DEF TypeOK, Message, Update, UpdateOf, NetCounts
<1>1. CASE Environment
  BY <1>1, Still DEF Environment, ServerEvent, Lose
<1>2. CASE Receive
  <2>1. CASE \E m \in net : Discard(m)
    BY <2>1, Still DEF Discard
  <2>2. CASE \E m \in net : FeedUpdate(m)
    <3>1. PICK m \in net : FeedUpdate(m)
      BY <2>2
    <3> DEFINE v == updateAndApply(waiter[m.stream], UpdateOf(m))
    <3>2. waiter' = [waiter EXCEPT ![m.stream] = v] /\ view' = view
      BY <3>1 DEF FeedUpdate
    <3>3. UpdateOf(m) \in Update /\ UpdateOf(m).count \in Counts
      BY <1>t DEF UpdateOf
    <3>4. Takes(waiter[m.stream], v)
      BY <3>3 DEF Takes
    <3> HIDE DEF v
    <3> QED BY <1>t, <3>2, <3>4, OneMoves
  <2>3. CASE \E m \in net : FeedUpdateOfUnknownPeer(m)
    <3> DEFINE v == waiterAsking(Common, waiter[Common])
    <3>1. waiter' = [waiter EXCEPT ![Common] = v] /\ view' = view
      BY <2>3 DEF FeedUpdateOfUnknownPeer, getDifference
    <3>2. Asks(Common, waiter[Common], v) /\ Common \in Streams
      BY DEF Asks, Streams
    <3> HIDE DEF v
    <3> QED BY <3>1, <3>2, OneMoves
  <2>4. CASE \E m \in net : ApplyAffected(m)
    <3>1. PICK m \in net : ApplyAffected(m)
      BY <2>4
    <3> DEFINE v == updateAndApplyAffected(waiter[m.stream], UpdateOf(m))
    <3>2. waiter' = [waiter EXCEPT ![m.stream] = v] /\ view' = view
      BY <3>1 DEF ApplyAffected
    <3>3. UpdateOf(m) \in Update /\ UpdateOf(m).count \in Counts
      BY <1>t DEF UpdateOf
    <3>4. Takes(waiter[m.stream], v)
      BY <3>3 DEF Takes
    <3> HIDE DEF v
    <3> QED BY <1>t, <3>2, <3>4, OneMoves
  <2>5. CASE \E c \in Channels, p \in 1 .. MaxPts : PtsReceived(c, p)
    <3>1. PICK c \in Channels, p \in 1 .. MaxPts : PtsReceived(c, p)
      BY <2>5
    <3> DEFINE u == [pts |-> p, count |-> 0]
               v == updateAndApplyAffected(waiter[c], u)
    <3>2. waiter' = [waiter EXCEPT ![c] = v] /\ view' = view
          /\ (inited(waiter[c]) => DialogReload)
      BY <3>1 DEF PtsReceived
    <3>3. u \in Update /\ c \in Streams
      BY BoundsAssumption DEF Update, Streams
    <3>4. Takes(waiter[c], v)
      BY <3>2, <3>3 DEF Takes
    <3> HIDE DEF v
    <3> QED BY <3>2, <3>3, <3>4, OneMoves
  <2> QED BY <1>2, <2>1, <2>2, <2>3, <2>4, <2>5 DEF Receive
<1>3. CASE Ask
  <2>1. PICK t \in Streams : GetDifferenceByPts(t) \/ GetDifferenceAfterFail(t) \/ TooLong(t)
    BY <1>3 DEF Ask
  <2>2. CASE GetDifferenceByPts(t) \/ TooLong(t)
    <3> DEFINE v == waiterAsking(t, waiter[t])
    <3>1. waiter' = [waiter EXCEPT ![t] = v] /\ view' = view
      BY <2>2 DEF GetDifferenceByPts, TooLong, getDifference
    <3>2. Asks(t, waiter[t], v)
      BY DEF Asks
    <3> HIDE DEF v
    <3> QED BY <3>1, <3>2, OneMoves
  <2>3. CASE GetDifferenceAfterFail(t)
    <3> DEFINE v == waiterAsking(t, setRequesting(waiter[t], FALSE))
    <3>1. waiter' = [waiter EXCEPT ![t] = v] /\ view' = view
      BY <2>3 DEF GetDifferenceAfterFail, getDifference
    <3>2. Asks(t, waiter[t], v)
      BY DEF Asks
    <3> HIDE DEF v
    <3> QED BY <3>1, <3>2, OneMoves
  <2> QED BY <2>1, <2>2, <2>3
<1>4. CASE Answer
  <2>1. CASE StateFail \/ DifferenceTooLong \/ \E t \in Streams : DifferenceFail(t)
    BY <2>1, Still DEF StateFail, DifferenceTooLong, DifferenceFail
  <2>2. CASE \E p \in 1 .. MaxPts : StateDone(p) \/ DifferenceDone(p) \/ DifferenceSlice(p)
    <3>1. PICK p \in 1 .. MaxPts : StateDone(p) \/ DifferenceDone(p) \/ DifferenceSlice(p)
      BY <2>2
    <3>2. Common \in Streams
      BY DEF Streams
    <3>3. CASE StateDone(p) \/ DifferenceDone(p)
      <4> DEFINE v == reset(waiter[Common], p)
      <4>1. waiter' = [waiter EXCEPT ![Common] = v] /\ view' = view
        BY <3>3 DEF StateDone, DifferenceDone
      <4>2. \E q \in 1 .. MaxPts : v = reset(waiter[Common], q)
        OBVIOUS
      <4> HIDE DEF v
      <4> QED BY <3>2, <4>1, <4>2, OneMoves
    <3>4. CASE DifferenceSlice(p)
      <4> DEFINE v == waiterAsking(Common, reset(waiter[Common], p))
      <4>1. waiter' = [waiter EXCEPT ![Common] = v] /\ view' = view
        BY <3>4 DEF DifferenceSlice, getDifference
      <4>2. Asks(Common, waiter[Common], v)
        BY DEF Asks
      <4> HIDE DEF v
      <4> QED BY <3>2, <4>1, <4>2, OneMoves
    <3> QED BY <3>1, <3>3, <3>4
  <2>3. CASE \E t \in Channels, p \in 1 .. MaxPts :
               ChannelDifferenceDone(t, p) \/ ChannelDifferenceTooLong(t, p)
    <3>1. PICK t \in Channels, p \in 1 .. MaxPts :
                 ChannelDifferenceDone(t, p) \/ ChannelDifferenceTooLong(t, p)
      BY <2>3
    <3>2. t \in Streams
      BY DEF Streams
    <3>3. CASE waiter' = [waiter EXCEPT ![t] = finished(t, p)]
      <4>1. Polls(waiter[t], finished(t, p), inActiveChats(t))
        BY DEF Polls, finished, inActiveChats
      <4>2. view' = view
        BY <3>1 DEF ChannelAnswered, ChannelDifferenceDone, ChannelDifferenceTooLong
      <4> QED BY <3>2, <3>3, <4>1, <4>2, OneMoves
    <3>4. CASE waiter' = [waiter EXCEPT ![t] = waiterAsking(t, reset(waiter[t], p))]
      <4>1. Asks(t, waiter[t], waiterAsking(t, reset(waiter[t], p)))
        BY DEF Asks
      <4>2. view' = view
        BY <3>1 DEF ChannelAnswered, ChannelDifferenceDone, ChannelDifferenceTooLong
      <4> QED BY <3>2, <3>4, <4>1, <4>2, OneMoves
    <3> QED BY <3>1, <3>3, <3>4
            DEF ChannelAnswered, ChannelDifferenceDone, ChannelDifferenceTooLong, getDifference
  <2>4. CASE \E t \in Streams : Done(t)
    BY <2>2, <2>3, <2>4 DEF Done, Streams
  <2> QED BY <1>4, <2>1, <2>4 DEF Answer
<1>5. CASE Show
  <2>1. CASE \E x \in Windows, c \in Channels \cup {NoChat} : ShowChat(x, c)
    <3>1. PICK x \in Windows, c \in Channels \cup {NoChat} : ShowChat(x, c)
      BY <2>1
    <3>2. /\ waiter'[s] = IF s = c THEN setWaitingForShortPoll(waiter[s], TRUE)
                          ELSE IF s = view[x] /\ \A y \in Windows \ {x} : view[y] # view[x]
                               THEN setWaitingForShortPoll(waiter[s], FALSE)
                               ELSE waiter[s]
          /\ view' = [view EXCEPT ![x] = c]
      BY <3>1 DEF ShowChat
    <3>3. \A y \in Windows : view'[y] = IF y = x THEN c ELSE view[y]
      BY <3>2 DEF TypeOK
    <3>4. CASE s = c
      BY <3>2, <3>4 DEF MovesTo, Moves, Polls
    <3>5. CASE s # c /\ s = view[x] /\ \A y \in Windows \ {x} : view[y] # view[x]
      <4>1. ~Shown(s)'
        BY <3>3, <3>5 DEF Shown, inActiveChats
      <4> QED BY <3>2, <3>5, <4>1 DEF MovesTo, Moves, Polls
    <3>6. CASE s # c /\ ~(s = view[x] /\ \A y \in Windows \ {x} : view[y] # view[x])
      <4>1. Shown(s)' => Shown(s)
        BY <3>3, <3>6 DEF Shown, inActiveChats
      <4> QED BY <3>2, <3>6, <4>1 DEF MovesTo, Moves
    <3> QED BY <3>4, <3>5, <3>6
  <2>2. CASE \E x \in Windows : CloseWindow(x)
    <3>1. PICK x \in Windows : CloseWindow(x)
      BY <2>2
    <3>2. /\ waiter' = waiter
          /\ \A y \in Windows : view'[y] = IF y = x THEN NoChat ELSE view[y]
      BY <3>1 DEF CloseWindow, TypeOK
    <3>3. Shown(s)' => Shown(s)
      BY <3>2, StreamsAssumption DEF Shown, inActiveChats
    <3> QED BY <3>2, <3>3 DEF MovesTo, Moves
  <2>3. CASE \E c \in Channels : LeaveChannel(c)
    <3>1. PICK c \in Channels : LeaveChannel(c)
      BY <2>3
    <3> DEFINE v == setWaitingForShortPoll(waiter[c], FALSE)
    <3>2. waiter' = [waiter EXCEPT ![c] = v] /\ view' = view /\ ~inActiveChats(c)
      BY <3>1 DEF LeaveChannel
    <3>3. Polls(waiter[c], v, inActiveChats(c)) /\ c \in Streams
      BY <3>2 DEF Polls, Streams
    <3> HIDE DEF v
    <3> QED BY <3>2, <3>3, OneMoves
  <2> QED BY <1>5, <2>1, <2>2, <2>3 DEF Show
<1>6. CASE UNCHANGED vars
  BY <1>6, Still DEF vars
<1> QED BY <1>1, <1>2, <1>3, <1>4, <1>5, <1>6 DEF Next

\* What is under way keeps its counts.
LEMMA NextCounts == NetCounts /\ [Next]_vars => NetCounts'
<1> SUFFICES ASSUME NetCounts, [Next]_vars PROVE NetCounts'
  OBVIOUS
<1>1. CASE \E s \in Eventful, via \in {"push", "rpc", "affected"}, n \in Counts :
             ServerEvent(s, via, n)
  BY <1>1 DEF ServerEvent, NetCounts
<1>2. net' \subseteq net => NetCounts'
  BY DEF NetCounts
<1>3. CASE \E m \in net : Lose(m)
  BY <1>2, <1>3 DEF Lose
<1>4. CASE Receive
  BY <1>2, <1>4 DEF Receive, Discard, FeedUpdate, FeedUpdateOfUnknownPeer, ApplyAffected, PtsReceived
<1>5. CASE Ask
  BY <1>2, <1>5 DEF Ask, GetDifferenceByPts, GetDifferenceAfterFail, TooLong
<1>6. CASE Answer
  BY <1>2, <1>6 DEF Answer, Done, StateDone, DifferenceDone, DifferenceSlice,
       ChannelAnswered, ChannelDifferenceDone, ChannelDifferenceTooLong, StateFail,
       DifferenceTooLong, DifferenceFail
<1>7. CASE Show
  BY <1>2, <1>7 DEF Show, ShowChat, CloseWindow, LeaveChannel
<1>8. CASE UNCHANGED vars
  BY <1>2, <1>8 DEF vars
<1> QED BY <1>1, <1>3, <1>4, <1>5, <1>6, <1>7, <1>8 DEF Next, Environment

-----------------------------------------------------------------------------
(***************************************************************************)
(* A gap keeps its deadline, as long as updates stand for something: one   *)
(* with no events in it makes the code forget the gap (UpdatesGapZero).    *)
(***************************************************************************)
GapOK(w) ==
  /\ w.good = 0 => w.last = w.count
  /\ w.last # w.count /\ ~w.requesting => w.skipped /\ w.armed

\* A waiter that counts an update in keeps the gap watched, or has none.
LEMMA TakenGap ==
  ASSUME NEW w \in Waiter, GapOK(w), NEW u \in Update, u.count = 0 => ~inited(w),
         NEW v, v = updateAndApply(w, u) \/ v = updateAndApplyAffected(w, u)
  PROVE  GapOK(v)
<1> DEFINE x == afterUpdated(w, u)
<1>1. CASE bypassed(w)
  <2>1. x = w /\ accepted(w, u) /\ w.requesting
    BY <1>1 DEF afterUpdated, accepted, bypassed
  <2>2. v = w \/ v = applySkippedUpdates(w)
    BY <2>1 DEF updateAndApply, updateAndApplyAffected
  <2>3. /\ applySkippedUpdates(w).good = w.good /\ applySkippedUpdates(w).last = w.last
        /\ applySkippedUpdates(w).count = w.count /\ applySkippedUpdates(w).requesting
    BY <2>1 DEF applySkippedUpdates, setWaitingForSkipped, checkForWaiting, Waiter
  <2> QED BY <2>1, <2>2, <2>3 DEF GapOK
<1>2. CASE outdated(w, u)
  <2>1. x = w /\ ~accepted(w, u)
    BY <1>2 DEF afterUpdated, accepted, outdated
  <2> QED BY <1>2, <2>1 DEF updateAndApply, updateAndApplyAffected
<1>3. CASE ~bypassed(w) /\ ~outdated(w, u) /\ checkResult(w, u)
  <2>1. x = check(w, u) /\ accepted(w, u)
    BY <1>3 DEF afterUpdated, accepted
  <2>2. x.last = x.count /\ x \in Waiter
    <3>1. CASE ~inited(w)
      BY <2>1, <3>1 DEF check, init, Waiter, Update
    <3>2. CASE inited(w)
      <4>1. CountIn(w, u).last = CountIn(w, u).count
        BY <1>3, <3>2 DEF checkResult
      <4> QED BY <2>1, <3>2, <4>1, CountInType DEF check, Waiter
    <3> QED BY <3>1, <3>2
  <2>3. v = x \/ v = applySkippedUpdates(x)
    BY <2>1 DEF updateAndApply, updateAndApplyAffected
  <2>4. applySkippedUpdates(x).last = x.last /\ applySkippedUpdates(x).count = x.count
    BY <2>2 DEF applySkippedUpdates, setWaitingForSkipped, checkForWaiting, Waiter
  <2> QED BY <2>2, <2>3, <2>4 DEF GapOK
<1>4. CASE ~bypassed(w) /\ ~outdated(w, u) /\ ~checkResult(w, u)
  <2>1. x = setWaitingForSkipped(CountIn(w, u), TRUE) /\ ~accepted(w, u) /\ inited(w)
    BY <1>4 DEF afterUpdated, accepted, checkResult, check
  <2>2. x \in Waiter /\ x.skipped /\ x.armed /\ x.good = w.good /\ w.good > 0
    <3> DEFINE y == CountIn(w, u)
    <3>1. y \in Waiter /\ y.good = w.good /\ x = setWaitingForSkipped(y, TRUE)
      BY <2>1, CountInType
    <3> HIDE DEF x, y
    <3> QED BY <2>1, <3>1 DEF inited, setWaitingForSkipped, Waiter
  <2>3. v = x \/ v = [x EXCEPT !.queue = @ \cup {u}]
    BY <2>1 DEF updateAndApply, updateAndApplyAffected
  <2> QED BY <2>2, <2>3 DEF GapOK, Waiter
<1> QED BY <1>1, <1>2, <1>3, <1>4

\* A request is sent, or was, or there is nothing that it would be for.
LEMMA AskingGap ==
  ASSUME NEW s \in Streams, NEW x \in Waiter, x.good = 0 => x.last = x.count,
         s = Common => x.requesting \/ sends(s, x)
  PROVE  GapOK(waiterAsking(s, x))
<1> DEFINE v == waiterAsking(s, x)
<1>1. v.good = x.good /\ v.last = x.last /\ v.count = x.count
  BY DEF waiterAsking, setRequesting, Waiter
<1>2. CASE sends(s, x) \/ x.requesting
  <2>1. v.requesting
    BY <1>2 DEF waiterAsking, setRequesting, Waiter
  <2> QED BY <1>1, <2>1 DEF GapOK
<1>3. CASE ~sends(s, x) /\ ~x.requesting
  <2>1. x.good = 0
    BY <1>3 DEF sends, inited, Waiter
  <2> QED BY <1>1, <2>1 DEF GapOK
<1> QED BY <1>2, <1>3

\* A step of a waiter, then.
LEMMA MovesGap ==
  ASSUME NEW s \in Streams, NEW w \in Waiter, GapOK(w), NEW v, NEW was, NEW is,
         Moves(s, w, v, was, is), 0 \notin Counts, ~DialogReload
  PROVE  GapOK(v)
<1>1. CASE v = w
  BY <1>1
<1>2. CASE Takes(w, v)
  BY <1>2, TakenGap DEF Takes
<1>3. ASSUME NEW p \in 1 .. MaxPts
      PROVE  /\ reset(w, p) \in Waiter /\ reset(w, p).last = reset(w, p).count
             /\ reset(w, p).good > 0 /\ ~reset(w, p).requesting
  <2>1. p \in Nat /\ p > 0
    BY BoundsAssumption
  <2>2. init(w, p) \in Waiter /\ init(w, p).last = init(w, p).count /\ init(w, p).good = p
    BY <2>1, InitType
  <2> QED BY <2>1, <2>2 DEF reset, setRequesting, Waiter
<1>4. CASE Asks(s, w, v)
  <2>1. CASE v = waiterAsking(s, w)
    <3>1. s = Common => w.requesting \/ sends(s, w)
      BY DEF sends
    <3> QED BY <2>1, <3>1, AskingGap DEF GapOK
  <2>2. CASE v = waiterAsking(s, setRequesting(w, FALSE))
    <3> DEFINE x == setRequesting(w, FALSE)
    <3>1. x \in Waiter /\ x.good = w.good /\ x.last = w.last /\ x.count = w.count
      BY RequestingType
    <3>2. s = Common => x.requesting \/ sends(s, x)
      BY DEF sends
    <3> HIDE DEF x
    <3>3. v = waiterAsking(s, x)
      BY <2>2 DEF x
    <3> QED BY <3>1, <3>2, <3>3, AskingGap DEF GapOK
  <2>3. CASE \E p \in 1 .. MaxPts : v = waiterAsking(s, reset(w, p))
    <3>1. PICK p \in 1 .. MaxPts : v = waiterAsking(s, reset(w, p))
      BY <2>3
    <3>2. s = Common => reset(w, p).requesting \/ sends(s, reset(w, p))
      BY DEF sends
    <3> QED BY <1>3, <3>1, <3>2, AskingGap
  <2> QED BY <1>4, <2>1, <2>2, <2>3 DEF Asks
<1>5. CASE \E p \in 1 .. MaxPts : v = reset(w, p)
  BY <1>3, <1>5 DEF GapOK
<1>6. CASE Polls(w, v, is)
  <2>1. PICK x \in Waiter, on \in BOOLEAN : GapOK(x) /\ v = setWaitingForShortPoll(x, on)
    BY <1>3, <1>6 DEF Polls, GapOK
  <2>2. /\ v.good = x.good /\ v.last = x.last /\ v.count = x.count
        /\ v.requesting = x.requesting /\ v.skipped = x.skipped
        /\ x.armed /\ x.skipped => v.armed
    BY <2>1, ShortPollType
  <2> QED BY <2>1, <2>2 DEF GapOK
<1> QED BY <1>1, <1>2, <1>4, <1>5, <1>6 DEF Moves

(***************************************************************************)
(* "1s wait for skipped seq or pts in updates": while a gap is open and no *)
(* difference is requested, a deadline is set, for any number of streams,  *)
(* updates and answers; if no update has a pts_count of 0, and no pts      *)
(* reaches a channel by itself once the channel knows its own.             *)
(***************************************************************************)
THEOREM GapWatched ==
  ASSUME 0 \notin Counts, ~DialogReload
  PROVE  Spec => []GapIsWatched
<1> DEFINE GInv == NetCounts /\ \A s \in Streams : GapOK(waiter[s])
<1>1. Init => GInv
  <2> SUFFICES ASSUME Init PROVE GInv
    OBVIOUS
  <2>1. ASSUME NEW s \in Streams PROVE GapOK(waiter[s])
    <3>1. waiter[s] = InitWaiter(s)
      BY DEF Init
    <3>2. InitWaiter(s).last = InitWaiter(s).count
      BY DEF InitWaiter, NewWaiter, init, setRequesting
    <3> QED BY <3>1, <3>2 DEF GapOK
  <2> QED BY <2>1 DEF Init, NetCounts
<1>2. TypeOK /\ GInv /\ [Next]_vars => GInv'
  <2> SUFFICES ASSUME TypeOK, GInv, [Next]_vars PROVE GInv'
    OBVIOUS
  <2>1. ASSUME NEW s \in Streams PROVE GapOK(waiter[s])'
    <3>1. waiter[s] \in Waiter
      BY DEF TypeOK
    <3>2. MovesTo(s)
      BY NextMoves
    <3>3. GapOK(waiter'[s])
      BY <3>1, <3>2, MovesGap DEF MovesTo
    <3> QED BY <3>3
  <2>2. NetCounts'
    BY NextCounts
  <2> QED BY <2>1, <2>2
<1>3. GInv => GapIsWatched
  BY DEF GapOK, GapIsWatched
<1> QED BY <1>1, <1>2, <1>3, TypeCorrect, PTL DEF Spec

-----------------------------------------------------------------------------
(***************************************************************************)
(* A channel that is shown is polled.                                      *)
(***************************************************************************)
PollOK(w) == w.shortPoll /\ (w.requesting \/ w.armed)

\* Taking an update leaves the reason to poll, and its deadline.
LEMMA TakenPoll ==
  ASSUME NEW w \in Waiter, PollOK(w), NEW u \in Update,
         NEW v, v = updateAndApply(w, u) \/ v = updateAndApplyAffected(w, u)
  PROVE  PollOK(v)
<1> DEFINE x == afterUpdated(w, u)
<1>1. x \in Waiter /\ PollOK(x)
  <2>1. CASE bypassed(w) \/ outdated(w, u)
    BY <2>1 DEF afterUpdated
  <2>2. CASE ~(bypassed(w) \/ outdated(w, u))
    <3> DEFINE y == CountIn(w, u)
    <3>1. y \in Waiter /\ PollOK(y)
      BY CountInType DEF CountIn, PollOK, Waiter
    <3>2. x = check(w, u)
      BY <2>2 DEF afterUpdated
    <3>3. CASE ~inited(w)
      BY <3>2, <3>3 DEF check, init, PollOK, Waiter, Update
    <3>4. CASE inited(w)
      <4>1. x = [y EXCEPT !.good = y.last] \/ x = setWaitingForSkipped(y, TRUE)
        BY <3>2, <3>4 DEF check
      <4> HIDE DEF y
      <4> QED BY <3>1, <4>1 DEF setWaitingForSkipped, PollOK, Waiter
    <3> QED BY <3>3, <3>4
  <2> QED BY <2>1, <2>2
<1>2. PollOK(applySkippedUpdates(x))
  <2> HIDE DEF x
  <2> QED BY <1>1 DEF applySkippedUpdates, setWaitingForSkipped, checkForWaiting, PollOK, Waiter
<1>3. v \in {x, [x EXCEPT !.queue = @ \cup {u}], applySkippedUpdates(x)}
  BY DEF updateAndApply, updateAndApplyAffected
<1>4. PollOK([x EXCEPT !.queue = @ \cup {u}])
  <2> HIDE DEF x
  <2> QED BY <1>1 DEF PollOK, Waiter
<1> QED BY <1>1, <1>2, <1>3, <1>4

\* A request takes the place of the deadline, once the pts is known.
LEMMA AskingPoll ==
  ASSUME NEW s, NEW x \in Waiter, x.shortPoll, inited(x)
  PROVE  PollOK(waiterAsking(s, x))
BY DEF waiterAsking, sends, setRequesting, PollOK, Waiter

\* A step of the waiter of a channel that is shown after it.
LEMMA MovesPoll ==
  ASSUME NEW c \in Channels, NEW w \in Waiter, inited(w), NEW v, NEW was \in BOOLEAN,
         was => PollOK(w), Moves(c, w, v, was, TRUE)
  PROVE  PollOK(v)
<1>1. ASSUME NEW p \in 1 .. MaxPts
      PROVE  /\ reset(w, p) \in Waiter /\ inited(reset(w, p))
             /\ reset(w, p).shortPoll = w.shortPoll
  <2>1. p \in Nat /\ p > 0
    BY BoundsAssumption
  <2> QED BY <2>1 DEF reset, init, inited, setRequesting, Waiter
<1>2. CASE Polls(w, v, TRUE)
  <2>1. PICK x \in Waiter : v = setWaitingForShortPoll(x, TRUE)
    BY <1>1, <1>2 DEF Polls
  <2> QED BY <2>1 DEF setWaitingForShortPoll, PollOK, Waiter
<1>3. CASE was /\ v = w
  BY <1>3
<1>4. CASE was /\ Takes(w, v)
  BY <1>4, TakenPoll DEF Takes
<1>5. CASE was /\ Asks(c, w, v)
  <2>1. PICK x \in Waiter : x.shortPoll /\ inited(x) /\ v = waiterAsking(c, x)
    <3>1. setRequesting(w, FALSE) \in Waiter /\ inited(setRequesting(w, FALSE))
          /\ setRequesting(w, FALSE).shortPoll = w.shortPoll
      BY DEF setRequesting, inited, Waiter
    <3> QED BY <1>1, <1>5, <3>1 DEF Asks, PollOK
  <2> QED BY <2>1, AskingPoll
<1>6. c # Common
  BY StreamsAssumption
<1> QED BY <1>2, <1>3, <1>4, <1>5, <1>6 DEF Moves

(***************************************************************************)
(* "1s wait after show channel history before sending                      *)
(* getChannelDifference": a channel a window shows is being asked about or *)
(* has a deadline for it, however many windows show it and come and go; if *)
(* the pts of each channel is known from the start.                        *)
(***************************************************************************)
THEOREM ActivePolled ==
  ASSUME KnownChannels = Channels
  PROVE  Spec => []ActiveChannelIsPolled
<1> DEFINE PInv == /\ NetCounts
                   /\ \A c \in Channels : inited(waiter[c])
                   /\ \A c \in Channels : Shown(c) => PollOK(waiter[c])
<1>1. Init => PInv
  <2> SUFFICES ASSUME Init PROVE PInv
    OBVIOUS
  <2>1. ASSUME NEW c \in Channels PROVE inited(waiter[c]) /\ ~Shown(c)
    <3>1. waiter[c] = init(NewWaiter, 1)
      BY StreamsAssumption DEF Init, InitWaiter, Streams
    <3>2. \A x \in Windows : view[x] = NoChat
      BY DEF Init
    <3>3. c # NoChat
      BY StreamsAssumption
    <3> QED BY <3>1, <3>2, <3>3 DEF Shown, inActiveChats, init, NewWaiter, inited
  <2> QED BY <2>1 DEF Init, NetCounts
<1>2. IInv /\ PInv /\ [Next]_vars => PInv'
  <2> SUFFICES ASSUME IInv, PInv, [Next]_vars PROVE PInv'
    OBVIOUS
  <2>1. TypeOK /\ Kept
    BY NextKeeps DEF IInv
  <2>2. ASSUME NEW c \in Channels PROVE inited(waiter[c])' /\ (Shown(c) => PollOK(waiter[c]))'
    <3>1. c \in Streams /\ waiter[c] \in Waiter /\ waiter'[c] \in Waiter
      BY <2>1 DEF TypeOK, Kept, IInv, Streams
    <3>2. waiter'[c].good >= waiter[c].good /\ inited(waiter[c])
      BY <2>1, <3>1 DEF Kept
    <3>3. inited(waiter[c])'
      BY <3>1, <3>2 DEF inited, Waiter
    <3>4. ASSUME Shown(c)' PROVE PollOK(waiter'[c])
      <4>1. Moves(c, waiter[c], waiter'[c], Shown(c), TRUE)
        BY <2>1, <3>1, <3>4, NextMoves DEF MovesTo
      <4>2. Shown(c) \in BOOLEAN
        BY DEF Shown
      <4> QED BY <3>1, <3>2, <4>1, <4>2, MovesPoll
    <3> QED BY <3>3, <3>4
  <2>3. NetCounts'
    BY <2>1, NextCounts
  <2> QED BY <2>2, <2>3
<1>3. PInv => ActiveChannelIsPolled
  BY DEF PollOK, Shown, ActiveChannelIsPolled
<1> QED BY <1>1, <1>2, <1>3, Inductive, PTL DEF Spec
=============================================================================
