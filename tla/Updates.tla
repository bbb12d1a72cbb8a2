------------------------------ MODULE Updates ------------------------------
(***************************************************************************)
(* Api::Updates (api/api_updates.cpp) with the PtsWaiter of the account    *)
(* and of every channel: how the client keeps up with the server's event   *)
(* streams.  A stream is the account's own (Common; a null channel in the  *)
(* code) or a loaded channel's.  Updates come in pushes, inside            *)
(* the results of requests, or as a bare pts/pts_count ("affected"); they  *)
(* may be lost and reordered.  A gap in the numbering starts a timer and   *)
(* then updates.getDifference / getChannelDifference; a channel open in a  *)
(* window is polled the same way.                                          *)
(*                                                                         *)
(* All handlers run on the main thread, so each is one step; the server's  *)
(* state, the messages under way and the answers are what interleaves.     *)
(* Sequence numbers of update containers (_updatesSeq) are in              *)
(* UpdatesSeq.tla.  Deadlines are kept without their length.               *)
(***************************************************************************)
EXTENDS PtsWaiter, FiniteSets

CONSTANTS
  Channels,        \* the loaded channels
  Common,          \* the account's own stream
  Windows,         \* keys of _activeChats
  NoChat,          \* a window that shows no channel
  Counts,          \* the values pts_count takes
  Eventful,        \* the streams events happen in
  MaxPts,          \* bound on the server's pts in a stream
  MaxEvents,       \* bound on the pts events have ended at in all streams
  MaxNet,          \* bound on the updates under way at once
  KnownChannels,   \* the channels whose pts is known from the start
  DialogReload,    \* may a pts without events reach a channel already inited?
  Unhandled        \* which of the answers the code only logs may come

ASSUME StreamsAssumption == Common \notin Channels /\ NoChat \notin Channels
ASSUME CountsAssumption == Counts \subseteq Nat
ASSUME BoundsAssumption == MaxPts \in Nat /\ MaxNet \in Nat /\ MaxEvents \in Nat
ASSUME KnownAssumption ==
  KnownChannels \subseteq Channels /\ Eventful \subseteq Channels \cup {Common}
ASSUME FlagsAssumption ==
  DialogReload \in BOOLEAN /\ Unhandled \subseteq {"tooLong", "stateFailed"}

VARIABLES
  waiter,   \* stream -> its PtsWaiter
  diff,     \* stream -> its difference request
  view,     \* window -> the channel it shows (_activeChats)
  server,   \* stream -> the server's pts, and every pts an event ended at
  net,      \* the updates under way
  applied,  \* history: stream -> slots whose effect the client has
  counted,  \* history: stream -> slots beyond _good that _count includes
  base      \* history: stream -> the pts the client started to follow at

vars == <<waiter, diff, view, server, net, applied, counted, base>>
history == <<applied, counted, base>>

Streams == Channels \cup {Common}

(***************************************************************************)
(* The requests of a stream: how many are unanswered, the pts the last one *)
(* carried, the server's pts when it was sent, and whether a deadline of   *)
(* _getDifferenceTimeAfterFail / _whenGetDiffAfterFail is set.             *)
(***************************************************************************)
Difference ==
  [flying : Nat, from : Nat, seen : Nat, afterFail : BOOLEAN]

NoDifference == [flying |-> 0, from |-> 0, seen |-> 0, afterFail |-> FALSE]

Message ==
  [stream : Streams, via : {"push", "rpc", "affected"}, pts : Nat, count : Nat]

UpdateOf(m) == [pts |-> m.pts, count |-> m.count]

inActiveChats(c) == \E x \in Windows : view[x] = c

(***************************************************************************)
(* The constructor: nothing is known of the account's stream, and          *)
(* updates.getState is under way with _requesting set.  A channel loaded   *)
(* with its dialog knows its pts.                                          *)
(***************************************************************************)
InitWaiter(s) ==
  IF s = Common THEN setRequesting(NewWaiter, TRUE)
  ELSE IF s \in KnownChannels THEN init(NewWaiter, 1) ELSE NewWaiter

Init ==
  /\ waiter = [s \in Streams |-> InitWaiter(s)]
  /\ diff = [s \in Streams |->
       IF s = Common THEN [NoDifference EXCEPT !.flying = 1, !.seen = 1]
                     ELSE NoDifference]
  /\ view = [x \in Windows |-> NoChat]
  /\ server = [s \in Streams |-> [pts |-> 1, ends |-> {1}]]
  /\ net = {}
  /\ applied = [s \in Streams |-> {}]
  /\ counted = [s \in Streams |-> {}]
  /\ base = [s \in Streams |-> IF s \in KnownChannels THEN 1 ELSE 0]

-----------------------------------------------------------------------------
(***************************************************************************)
(* The server and the network.                                             *)
(***************************************************************************)

\* n events of stream s happen and one update tells this client of them.
ServerEvent(s, via, n) ==
  LET p == server[s].pts + n IN
  /\ p <= MaxPts /\ Cardinality(net) < MaxNet
  /\ server' = [server EXCEPT ![s] = [pts |-> p, ends |-> @.ends \cup {p}]]
  /\ Cardinality(UNION {{t} \X server'[t].ends : t \in Streams}) <= MaxEvents
  /\ net' = net \cup {[stream |-> s, via |-> via, pts |-> p, count |-> n]}
  /\ UNCHANGED <<waiter, diff, view, history>>

Lose(m) ==
  /\ net' = net \ {m}
  /\ UNCHANGED <<waiter, diff, view, server, history>>

-----------------------------------------------------------------------------
(***************************************************************************)
(* getDifference (s = Common) and getChannelDifference, called with the    *)
(* stream's waiter w and request d: drop the deadline; when no request is  *)
(* pending, and the channel's pts is known, send one with the current pts. *)
(***************************************************************************)
\* Mutant: a request under way does not stop another.
sends_Regardless(s, w) == s = Common \/ inited(w)

sends(s, w) == ~w.requesting /\ (s = Common \/ inited(w))

waiterAsking(s, w) ==
  LET v == [w EXCEPT !.armed = FALSE] IN
  IF sends(s, w) THEN setRequesting(v, TRUE) ELSE v

diffAsking(s, w, d) ==
  IF sends(s, w)
  THEN [flying |-> d.flying + 1, from |-> w.good, seen |-> server[s].pts,
        afterFail |-> FALSE]
  ELSE d

getDifference(s, w, d) ==
  /\ waiter' = [waiter EXCEPT ![s] = waiterAsking(s, w)]
  /\ diff' = [diff EXCEPT ![s] = diffAsking(s, w, d)]

-----------------------------------------------------------------------------
(***************************************************************************)
(* Receiving updates.  mtpUpdateReceived drops every push while the        *)
(* account's difference is requested, and feedUpdate drops a channel's     *)
(* update while the channel's difference is.                               *)
(***************************************************************************)
discarded(m) ==
  \/ m.via = "push" /\ waiter[Common].requesting
  \/ m.via # "affected" /\ m.stream # Common /\ waiter[m.stream].requesting

Discard(m) ==
  /\ discarded(m)
  /\ net' = net \ {m}
  /\ UNCHANGED <<waiter, diff, view, server, history>>

(***************************************************************************)
(* What a step that hands update u to waiter s leaves in the history.      *)
(***************************************************************************)
Recorded(s, u, slots) ==
  /\ applied' = [applied EXCEPT ![s] = @ \cup slots]
  /\ counted' = [counted EXCEPT ![s] = countedAfter(waiter[s], u, waiter'[s], @)]
  /\ base' = [base EXCEPT ![s] = baseAfter(waiter[s], waiter'[s], @)]

SlotsOf(us) == UNION {Slots(u) : u \in us}

\* feedUpdate / applyUpdates with an update that carries pts and pts_count.
FeedUpdate(m) ==
  LET u == UpdateOf(m)
      w == waiter[m.stream]
  IN  /\ m.via # "affected"
      /\ ~discarded(m)
      /\ net' = net \ {m}
      /\ waiter' = [waiter EXCEPT ![m.stream] = updateAndApply(w, u)]
      /\ Recorded(m.stream, u, SlotsOf(appliedBy(w, u)))
      /\ UNCHANGED <<diff, view, server>>

\* The peer of a new message, or a user it names, is not loaded: the update
\* is given up for a difference.
FeedUpdateOfUnknownPeer(m) ==
  /\ m.via # "affected" /\ m.stream = Common
  /\ ~discarded(m)
  /\ net' = net \ {m}
  /\ getDifference(Common, waiter[Common], diff[Common])
  /\ UNCHANGED <<view, server, history>>

\* applyAffectedHistory / applyAffectedMessages: the caller has applied the
\* effect itself, the waiter counts it.
ApplyAffected(m) ==
  LET u == UpdateOf(m)
      w == waiter[m.stream]
  IN  /\ m.via = "affected"
      /\ net' = net \ {m}
      /\ waiter' = [waiter EXCEPT ![m.stream] = updateAndApplyAffected(w, u)]
      /\ Recorded(m.stream, u, Slots(u) \cup SlotsOf(appliedByAffected(w, u)))
      /\ UNCHANGED <<diff, view, server>>

\* ChannelData::ptsReceived: a dialog, history slice or search result tells
\* the channel's pts as it was when the server answered.
PtsReceived(c, p) ==
  LET u == [pts |-> p, count |-> 0]
      w == waiter[c]
  IN  /\ p \in server[c].ends
      /\ inited(w) => DialogReload
      /\ waiter' = [waiter EXCEPT ![c] = updateAndApplyAffected(w, u)]
      /\ Recorded(c, u, SlotsOf(appliedByAffected(w, u)))
      /\ UNCHANGED <<diff, view, server, net>>

-----------------------------------------------------------------------------
(***************************************************************************)
(* Timers and the server's requests to catch up.                           *)
(***************************************************************************)

\* getDifferenceByPts: the deadline of stream s has passed.
GetDifferenceByPts(s) ==
  /\ waiter[s].armed
  /\ getDifference(s, waiter[s], diff[s])
  /\ UNCHANGED <<view, server, net, history>>

\* getDifferenceAfterFail.
GetDifferenceAfterFail(s) ==
  /\ diff[s].afterFail
  /\ getDifference(s, setRequesting(waiter[s], FALSE),
                   [diff[s] EXCEPT !.afterFail = FALSE])
  /\ UNCHANGED <<view, server, net, history>>

\* new_session_created, updatesTooLong, a session reset; updateChannelTooLong.
TooLong(s) ==
  /\ s # Common => ~waiter[Common].requesting
  /\ getDifference(s, waiter[s], diff[s])
  /\ UNCHANGED <<view, server, net, history>>

-----------------------------------------------------------------------------
(***************************************************************************)
(* Answers.  The server's part: an answer ends at a pts where an event     *)
(* ended, not before the pts the request carried; a final one is not older *)
(* than the request.                                                       *)
(***************************************************************************)
Answered(s) == [diff[s] EXCEPT !.flying = @ - 1]

final(s, p) == p >= diff[s].seen

reset(w, p) == setRequesting(init(w, p), FALSE)

CaughtUp(s, p) ==
  /\ applied' = [applied EXCEPT ![s] = @ \cup ((diff[s].from + 1) .. p)]
  /\ counted' = [counted EXCEPT ![s] = {}]
  /\ UNCHANGED base

Restarted(s, p) ==
  /\ base' = [base EXCEPT ![s] = p]
  /\ counted' = [counted EXCEPT ![s] = {}]
  /\ UNCHANGED applied

\* The answer to updates.getState (stateDone).
StateDone(p) ==
  /\ diff[Common].flying > 0 /\ ~inited(waiter[Common])
  /\ p \in server[Common].ends /\ final(Common, p)
  /\ waiter' = [waiter EXCEPT ![Common] = reset(@, p)]
  /\ diff' = [diff EXCEPT ![Common] = Answered(Common)]
  /\ Restarted(Common, p)
  /\ UNCHANGED <<view, server, net>>

\* updates.getState has no fail handler.
StateFail ==
  /\ "stateFailed" \in Unhandled
  /\ diff[Common].flying > 0 /\ ~inited(waiter[Common])
  /\ diff' = [diff EXCEPT ![Common] = Answered(Common)]
  /\ UNCHANGED <<waiter, view, server, net, history>>

\* differenceDone with difference or differenceEmpty (p is then the pts
\* already known).
DifferenceDone(p) ==
  /\ diff[Common].flying > 0 /\ inited(waiter[Common])
  /\ p \in server[Common].ends /\ p >= diff[Common].from /\ final(Common, p)
  /\ waiter' = [waiter EXCEPT ![Common] = reset(@, p)]
  /\ diff' = [diff EXCEPT ![Common] = Answered(Common)]
  /\ CaughtUp(Common, p)
  /\ UNCHANGED <<view, server, net>>

\* differenceDone with differenceSlice: ask again at once.
DifferenceSlice(p) ==
  /\ diff[Common].flying > 0 /\ inited(waiter[Common])
  /\ p \in server[Common].ends /\ p > diff[Common].from
  /\ getDifference(Common, reset(waiter[Common], p), Answered(Common))
  /\ CaughtUp(Common, p)
  /\ UNCHANGED <<view, server, net>>

\* differenceDone with differenceTooLong only logs.
DifferenceTooLong ==
  /\ "tooLong" \in Unhandled
  /\ diff[Common].flying > 0 /\ inited(waiter[Common])
  /\ diff' = [diff EXCEPT ![Common] = Answered(Common)]
  /\ UNCHANGED <<waiter, view, server, net, history>>

(***************************************************************************)
(* channelDifferenceDone: after a final answer the channel is polled again *)
(* when a window shows it.                                                 *)
(***************************************************************************)
\* Mutant: polling is not resumed after an answer.
finished_Once(c, p) == reset(waiter[c], p)

finished(c, p) == setWaitingForShortPoll(reset(waiter[c], p), inActiveChats(c))

\* After one that is not final it asks again at once.
ChannelAnswered(c, p) ==
  /\ diff[c].flying > 0
  /\ p \in server[c].ends /\ p >= diff[c].from
  /\ IF final(c, p)
     THEN /\ waiter' = [waiter EXCEPT ![c] = finished(c, p)]
          /\ diff' = [diff EXCEPT ![c] = Answered(c)]
     ELSE /\ p > diff[c].from
          /\ getDifference(c, reset(waiter[c], p), Answered(c))
  /\ UNCHANGED <<view, server, net>>

\* channelDifference or channelDifferenceEmpty.
ChannelDifferenceDone(c, p) == ChannelAnswered(c, p) /\ CaughtUp(c, p)

\* channelDifferenceTooLong: the history is reloaded from the dialog, which
\* carries the pts to go on from.
ChannelDifferenceTooLong(c, p) == ChannelAnswered(c, p) /\ Restarted(c, p)

\* differenceFail / channelDifferenceFail: _requesting stays set until the
\* retry.
\* Mutant: a failed request is not retried.
DifferenceFail_NoRetry(s) ==
  /\ diff[s].flying > 0 /\ inited(waiter[s])
  /\ diff' = [diff EXCEPT ![s] = Answered(s)]
  /\ UNCHANGED <<waiter, view, server, net, history>>

DifferenceFail(s) ==
  /\ diff[s].flying > 0 /\ inited(waiter[s])
  /\ diff' = [diff EXCEPT ![s] = [Answered(s) EXCEPT !.afterFail = TRUE]]
  /\ UNCHANGED <<waiter, view, server, net, history>>

-----------------------------------------------------------------------------
(***************************************************************************)
(* Windows.                                                                *)
(***************************************************************************)

\* Mutant: polling of the old channel ends though another window shows it.
ShowChat_EndsPolling(x, c) ==
  LET was == view[x] IN
  /\ was # c
  /\ view' = [view EXCEPT ![x] = c]
  /\ waiter' = [s \in Streams |->
       IF s = c THEN setWaitingForShortPoll(waiter[s], TRUE)
       ELSE IF s = was THEN setWaitingForShortPoll(waiter[s], FALSE)
            ELSE waiter[s]]
  /\ UNCHANGED <<diff, server, net, history>>

\* addActiveChat, next: window x turns to another channel, or to none.
ShowChat(x, c) ==
  LET was == view[x] IN
  /\ was # c
  /\ view' = [view EXCEPT ![x] = c]
  /\ waiter' = [s \in Streams |->
       IF s = c THEN setWaitingForShortPoll(waiter[s], TRUE)
       ELSE IF s = was /\ \A y \in Windows \ {x} : view[y] # was
            THEN setWaitingForShortPoll(waiter[s], FALSE)
            ELSE waiter[s]]
  /\ UNCHANGED <<diff, server, net, history>>

\* addActiveChat, done: the window is gone.
CloseWindow(x) ==
  /\ view[x] # NoChat
  /\ view' = [view EXCEPT ![x] = NoChat]
  /\ UNCHANGED <<waiter, diff, server, net, history>>

\* ApiWrap::deleteHistory of a channel the user leaves; its callers show the
\* list of chats first.
LeaveChannel(c) ==
  /\ ~inActiveChats(c)
  /\ waiter[c].shortPoll
  /\ waiter' = [waiter EXCEPT ![c] = setWaitingForShortPoll(@, FALSE)]
  /\ UNCHANGED <<diff, view, server, net, history>>

-----------------------------------------------------------------------------
Environment ==
  \/ \E s \in Eventful, via \in {"push", "rpc", "affected"}, n \in Counts :
       ServerEvent(s, via, n)
  \/ \E m \in net : Lose(m)

Receive ==
  \/ \E m \in net : Discard(m)
  \/ \E m \in net : FeedUpdate(m)
  \/ \E m \in net : FeedUpdateOfUnknownPeer(m)
  \/ \E m \in net : ApplyAffected(m)
  \/ \E c \in Channels, p \in 1 .. MaxPts : PtsReceived(c, p)

Ask ==
  \/ \E s \in Streams : GetDifferenceByPts(s)
  \/ \E s \in Streams : GetDifferenceAfterFail(s)
  \/ \E s \in Streams : TooLong(s)

Done(s) ==
  \E p \in 1 .. MaxPts :
    IF s = Common THEN StateDone(p) \/ DifferenceDone(p) \/ DifferenceSlice(p)
    ELSE ChannelDifferenceDone(s, p) \/ ChannelDifferenceTooLong(s, p)

Answer ==
  \/ \E s \in Streams : Done(s)
  \/ StateFail
  \/ DifferenceTooLong
  \/ \E s \in Streams : DifferenceFail(s)

Show ==
  \/ \E x \in Windows, c \in Channels \cup {NoChat} : ShowChat(x, c)
  \/ \E x \in Windows : CloseWindow(x)
  \/ \E c \in Channels : LeaveChannel(c)

Next == Environment \/ Receive \/ Ask \/ Answer \/ Show

Spec == Init /\ [][Next]_vars

(***************************************************************************)
(* Fairness: the event loop fires timers that are due, and a request that  *)
(* is retried for ever is answered in the end.                             *)
(***************************************************************************)
Fairness ==
  \A s \in Streams :
    /\ WF_vars(GetDifferenceByPts(s))
    /\ WF_vars(GetDifferenceAfterFail(s))
    /\ SF_vars(Done(s))

FairSpec == Spec /\ Fairness

-----------------------------------------------------------------------------
TypeOK ==
  /\ waiter \in [Streams -> Waiter]
  /\ diff \in [Streams -> Difference]
  /\ view \in [Windows -> Channels \cup {NoChat}]
  /\ server \in [Streams -> [pts : Nat, ends : SUBSET Nat]]
  /\ net \subseteq Message
  /\ applied \in [Streams -> SUBSET Int]
  /\ counted \in [Streams -> SUBSET Int]
  /\ base \in [Streams -> Nat]

(***************************************************************************)
(* The client never believes it is past an event it has not applied: every *)
(* slot between the pts it started from and _good has taken effect,        *)
(* whatever was lost, reordered, queued or dropped during a request.       *)
(***************************************************************************)
NoSkippedUpdate ==
  \A s \in Streams : (base[s] + 1) .. waiter[s].good \subseteq applied[s]

(***************************************************************************)
(* The known pts never goes back, so no update is applied a second time    *)
(* because of an answer that was overtaken.                                *)
(***************************************************************************)
PtsNeverRewinds ==
  [][\A s \in Streams : waiter'[s].good >= waiter[s].good]_vars

(***************************************************************************)
(* A stream has at most one request in flight or waiting for its retry, it *)
(* asks from the current pts, and _requesting (which makes the client drop *)
(* updates) is set exactly as long.  A leaked _requesting would silence    *)
(* the stream for ever.                                                    *)
(***************************************************************************)
RequestingIsBacked ==
  \A s \in Streams :
    LET d == diff[s] IN
    /\ d.flying + (IF d.afterFail THEN 1 ELSE 0)
         = (IF waiter[s].requesting THEN 1 ELSE 0)
    /\ waiter[s].requesting => d.from = waiter[s].good

(***************************************************************************)
(* Updates kept for later are never forgotten: while the queue holds any,  *)
(* the deadline that ends the wait is set.                                 *)
(***************************************************************************)
QueueIsWatched ==
  \A s \in Streams :
    waiter[s].queue # {} => waiter[s].skipped /\ waiter[s].armed

(***************************************************************************)
(* "1s wait for skipped seq or pts in updates" (data_pts_waiter.h): while  *)
(* a gap is open and no difference is requested, the deadline is set.      *)
(***************************************************************************)
GapIsWatched ==
  \A s \in Streams :
    LET w == waiter[s] IN
    w.last # w.count /\ ~w.requesting => w.skipped /\ w.armed

(***************************************************************************)
(* "1s wait after show channel history before sending                      *)
(* getChannelDifference" (api_updates.cpp): a channel a window shows is    *)
(* being asked about or has a deadline for it.                             *)
(***************************************************************************)
ActiveChannelIsPolled ==
  \A c \in Channels :
    inActiveChats(c) /\ inited(waiter[c]) =>
      waiter[c].requesting \/ waiter[c].armed

(***************************************************************************)
(* A gap does not stay open.                                               *)
(***************************************************************************)
GapIsClosed ==
  \A s \in Streams :
    (waiter[s].last # waiter[s].count) ~> (waiter[s].last = waiter[s].count)

(***************************************************************************)
(* A channel kept on screen catches up with the server, though every       *)
(* update of it may be lost.                                               *)
(***************************************************************************)
ActiveChannelCatchesUp ==
  \A c \in Channels, p \in 1 .. MaxPts :
    (inActiveChats(c) /\ server[c].pts >= p)
      ~> (waiter[c].good >= p \/ ~inActiveChats(c))
=============================================================================
