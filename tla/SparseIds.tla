----------------------------- MODULE SparseIds -----------------------------
(***************************************************************************)
(* The media of one type in one chat: what is known of it, and a window    *)
(* into it.  Storage::SparseIdsList (storage/storage_sparse_ids_list.cpp)  *)
(* keeps slices: the media with ids in a range, all of them.  It learns    *)
(* them from new messages, from parts of the history that are loaded and   *)
(* from searches.  SparseIdsSliceBuilder (data/data_sparse_ids.cpp) holds  *)
(* the media nearest to a message, as many as it was asked for on either   *)
(* side, and has the rest searched (apiwrap.cpp).                          *)
(*                                                                         *)
(* All of it is on the main thread: an event with all it leads to is a     *)
(* step.  The server keeps the media, and the client is told of them and   *)
(* gets answers in the order the server wrote them in.  The lists rely on  *)
(* it: nothing in them tells a result that overtook an update that is held *)
(* back behind a gap.                                                      *)
(***************************************************************************)
EXTENDS Integers, FiniteSets, SequencesExt

CONSTANTS
  Initial,     \* how many media there are at first
  MaxId,       \* bound on message ids
  News,        \* messages the client may be told of as they come
  Deletable,   \* messages that may be deleted
  Keys,        \* messages windows open at; at 0 only the count is shown
  LimitBefore, \* _limitBefore and _limitAfter of a window at a message
  LimitAfter,
  Limit,       \* kSharedMediaLimit
  MaxNet,      \* bound on what is on its way to the client
  MayFail,     \* do requests fail?
  None         \* what an std::optional is without a value

ASSUME BoundsAssumption ==
  /\ {MaxId, LimitBefore, LimitAfter, MaxNet} \subseteq Nat
  /\ Initial \in 0 .. MaxId
  /\ Limit \in Nat /\ Limit >= 2
  /\ MayFail \in BOOLEAN
ASSUME SetsAssumption == Keys \subseteq 0 .. MaxId /\ News \cup Deletable \subseteq 1 .. MaxId
ASSUME NoneAssumption == None \notin Int

VARIABLES
  media,  \* the server's: ids of the media
  next,   \* the server's: id of the next message
  net,    \* what is on its way to the client, in the order of the server
  slices, \* _slices: records of messages, range.from and range.till
  count,  \* _count
  viewer, \* the builder of the open window, None when there is none
  asked   \* _sharedMediaRequests

vars == <<media, next, net, slices, count, viewer, asked>>

Ids == 1 .. MaxId
Top == MaxId + 1    \* ServerMaxMsgId
Optional(S) == S \cup {None}

Slice  == [ids : SUBSET Ids, from : 0 .. Top, till : 0 .. Top]
Ask    == [id : 0 .. MaxId, dir : {"Around", "Before", "After"}]
Viewer == [key : Keys, ids : SUBSET Ids, full : Optional(Nat),
           before : Optional(Int), after : Optional(Int)]

\* New messages, deletions, gaps too long to be filled (ids: what was missed),
\* found media (ask: the request that is answered, None for loaded history).
New(id)      == [kind |-> "new", id |-> id]
Deleted(id)  == [kind |-> "delete", id |-> id]
TooLong(ids) == [kind |-> "tooLong", ids |-> ids]
Found(ask, ids, from, till, total) ==
  [kind |-> "found", ask |-> ask, ids |-> ids, from |-> from, till |-> till, total |-> total]

Least(S, n)    == {i \in S : Cardinality({j \in S : j < i}) < n}
Greatest(S, n) == {i \in S : Cardinality({j \in S : j > i}) < n}
Below(S, id)   == {i \in S : i < id}
Above(S, id)   == {i \in S : i > id}
Given(a, b)    == IF a = None THEN b ELSE a

-----------------------------------------------------------------------------
(* SparseIdsList *)

\* addRangeItemsAndCountNew and uniteAndAdd: the slices the range touches become
\* one with it; what is new is counted against the first of them.
\* Mutant: ranges that only touch stay apart.
Touched_Across(from, till) == {s \in slices : from < s.till /\ s.from < till}
Touched(from, till) == {s \in slices : from <= s.till /\ s.from <= till}
United(ids, from, till) ==
  LET them == Touched(from, till)
  IN [ids  |-> ids \cup UNION {s.ids : s \in them},
      from |-> Min({from} \cup {s.from : s \in them}),
      till |-> Max({till} \cup {s.till : s \in them})]
\* Mutant: what is new in a slice is not counted.
Added_None(ids, from, till) == 0
Added(ids, from, till) ==
  LET them  == Touched(from, till)
      first == {s \in them : \A o \in them : s.from <= o.from}
  IN Cardinality(United(ids, from, till).ids) - Cardinality(UNION {s.ids : s \in first})

\* addRange: the slices and the count after it, and the update that is fired.
AddRange(ids, from, till, total, isNew) ==
  LET nothing == ids = {} /\ from = till
      united  == United(ids, from, till)
      size    == Cardinality(united.ids)
      now     == IF nothing THEN slices ELSE (slices \ Touched(from, till)) \cup {united}
      counted == IF total # None THEN total
                 ELSE IF isNew /\ count # None THEN count + Added(ids, from, till)
                 ELSE count
      single  == Cardinality(now) = 1
      ranged  == IF single /\ counted # None
                 THEN {IF Cardinality(s.ids) >= counted THEN [s EXCEPT !.from = 0, !.till = Top]
                       ELSE s : s \in now}
                 ELSE now
      whole   == {s \in ranged : single /\ s.from = 0 /\ s.till = Top}
      sized   == IF whole = {} THEN counted ELSE Cardinality(UNION {s.ids : s \in whole})
      final   == IF sized # None /\ ~nothing THEN Max({sized, size}) ELSE sized
  IN [slices |-> ranged, count |-> final,
      update |-> [ids   |-> IF nothing THEN None ELSE united.ids,
                  from  |-> united.from, till |-> united.till, count |-> final]]

\* removeOne
\* Mutant: not at the ends of the range.
SlicesWithout_Inside(id) ==
  {IF s.from < id /\ id < s.till THEN [s EXCEPT !.ids = @ \ {id}] ELSE s : s \in slices}
SlicesWithout(id) ==
  {IF s.from <= id /\ id <= s.till THEN [s EXCEPT !.ids = @ \ {id}] ELSE s : s \in slices}

CountWithout == IF count = None THEN None ELSE count - 1

\* invalidateBottom: the last slice goes only as far as its last message.
\* Mutant: it still reaches the bottom.
SlicesToLast_Kept == slices
SlicesToLast ==
  {IF s.till = Top THEN [s EXCEPT !.till = Max({s.from} \cup s.ids)] ELSE s : s \in slices}

\* snapshot and queryFromSlice, which leave unknown what is beyond the slice.
Snapshot(key) ==
  LET around == {s \in slices : key # 0 /\ s.from <= key /\ key <= s.till}
      s      == CHOOSE s \in around : TRUE
      lower  == Below(s.ids, key)
      upper  == s.ids \ lower
      ids    == Greatest(lower, LimitBefore) \cup Least(upper, LimitAfter + 1)
      before == IF s.from = 0 THEN Cardinality(lower) - Cardinality(ids \cap lower) ELSE None
      after  == IF s.till = Top THEN Cardinality(upper) - Cardinality(ids \cap upper) ELSE None
      rest(skipped) == IF skipped = None \/ count = None THEN None
                       ELSE count - skipped - Cardinality(ids)
  IN IF around = {} THEN [ids |-> {}, before |-> None, after |-> None]
     ELSE [ids |-> ids, before |-> Given(before, rest(after)), after |-> Given(after, rest(before))]

-----------------------------------------------------------------------------
(* SparseIdsSliceBuilder: a window after a step of it, with what it asks for *)

CountAsk == [id |-> 0, dir |-> "Around"]

\* sliceToLimits, with requestMessages and requestMessagesCount
ToLimits(v) ==
  LET lower == Below(v.ids, v.key)
      upper == v.ids \ lower
      kept  == Greatest(lower, LimitBefore) \cup Least(upper, LimitAfter + 1)
      unsure(skipped) == skipped = None \/ skipped > 0
      ask(id, dir)    == [id |-> id, dir |-> dir]
      before == IF Cardinality(lower) < LimitBefore /\ unsure(v.before)
                THEN {IF kept = {} THEN ask(v.key, "Around") ELSE ask(Min(kept), "Before")} ELSE {}
      after  == IF Cardinality(upper) < LimitAfter + 1 /\ unsure(v.after)
                THEN {IF kept = {} THEN ask(v.key, "Around") ELSE ask(Max(kept), "After")} ELSE {}
      cut(skipped, S) == IF skipped = None THEN None ELSE skipped + Cardinality(S \ kept)
      asks   == before \cup after
  IN IF v.key = 0 THEN [viewer |-> v, asks |-> IF v.full = None THEN {CountAsk} ELSE {}]
     ELSE [viewer |-> [v EXCEPT !.ids = kept, !.before = cut(@, lower), !.after = cut(@, upper)],
           asks   |-> IF v.full = None /\ asks = {} THEN {CountAsk} ELSE asks]

\* fillSkippedAndSliceToLimits
Filled(v) ==
  LET rest(skipped) == IF skipped = None \/ v.full = None THEN None
                       ELSE v.full - skipped - Cardinality(v.ids)
  IN ToLimits([v EXCEPT !.before = Given(@, rest(v.after)), !.after = Given(@, rest(v.before))])

\* mergeSliceData: what was skipped is counted from the new messages when it is
\* known of them, from the old ones otherwise.
Merged(v, total, ids, before, after) ==
  LET all  == v.ids \cup ids
      less(skipped, S)  == Max({0, skipped - Cardinality(S)})
      whole == total # None /\ v.full # total /\ total <= Cardinality(v.ids)
  IN IF ids = {}
     THEN Filled(IF whole
                 THEN [v EXCEPT !.full = Cardinality(v.ids), !.before = 0, !.after = 0]
                 ELSE [v EXCEPT !.full = Given(total, @)])
     ELSE Filled([v EXCEPT
            !.ids    = all,
            !.full   = Given(total, @),
            !.before = IF before # None THEN less(before, Below(all, Min(ids)))
                       ELSE IF v.ids = {} \/ @ = None THEN None
                       ELSE less(@, Below(all, Min(v.ids))),
            !.after  = IF after # None THEN less(after, Above(all, Max(ids)))
                       ELSE IF v.ids = {} \/ @ = None THEN None
                       ELSE less(@, Above(all, Max(v.ids)))])

\* applyUpdate
\* Mutant: slices that are elsewhere are merged, too.
Meets_Always(v, update) == TRUE
Meets(v, update) ==
  LET held == IF v.ids = {} THEN {v.key} ELSE v.ids
  IN update.from <= Max(held) /\ Min(held) <= update.till
Updated(v, update) ==
  LET merges == update.ids # None /\ Meets(v, update)
  IN IF ~merges /\ update.count = None THEN [viewer |-> v, asks |-> {}]
     ELSE Merged(v, update.count, IF merges THEN update.ids ELSE {},
                 IF update.from = 0 THEN 0 ELSE None,
                 IF update.till = Top THEN 0 ELSE None)

\* removeOne
Removed(v, id) ==
  LET fewer(n)  == n # None /\ n > 0
      isBefore == v.ids # {} /\ id < Min(v.ids) /\ fewer(v.before)
      isAfter  == v.ids # {} /\ id > Max(v.ids) /\ fewer(v.after)
      less(n, when) == IF when THEN n - 1 ELSE n
  IN IF fewer(v.full) \/ id \in v.ids \/ isBefore \/ isAfter
     THEN ToLimits([v EXCEPT !.full = less(@, fewer(@)), !.ids = @ \ {id},
                             !.before = less(@, isBefore), !.after = less(@, isAfter)])
     ELSE [viewer |-> v, asks |-> {}]

\* invalidateBottom
Invalidated(v) == [v EXCEPT !.full = None, !.after = None]

\* The window, if there is one, takes a step; requestSharedMedia asks for what
\* is not being asked for yet.
ViewerTakes(step, pending) ==
  IF viewer = None THEN viewer' = viewer /\ asked' = pending
  ELSE viewer' = step.viewer /\ asked' = pending \cup step.asks

-----------------------------------------------------------------------------
(* The server *)

CanSend == Len(net) < MaxNet

Create ==
  /\ CanSend /\ next \in News
  /\ media' = media \cup {next}
  /\ next' = next + 1
  /\ net' = Append(net, New(next))
  /\ UNCHANGED <<slices, count, viewer, asked>>

Delete(id) ==
  /\ CanSend /\ id \in media \cap Deletable
  /\ media' = media \ {id}
  /\ net' = Append(net, Deleted(id))
  /\ UNCHANGED <<next, slices, count, viewer, asked>>

\* So much has happened that the difference is too long: the client is told only that.
Miss(till) ==
  /\ CanSend /\ till \in next .. MaxId
  /\ media' = media \cup next .. till
  /\ next' = till + 1
  /\ net' = Append(net, TooLong(next .. till))
  /\ UNCHANGED <<slices, count, viewer, asked>>

Answered(ask) == \E i \in 1 .. Len(net) : net[i].kind = "found" /\ net[i].ask = ask

\* messages.search as PrepareSearchRequest asks for it, and what ParseSearchResult
\* makes of the answer: no message before, after or around means there is none.
AnswerTo(ask) ==
  LET lower == Below(media, ask.id)
      half  == Limit \div 2
      ids   == CASE ask.dir = "Before" -> Greatest(lower, Limit)
                 [] ask.dir = "After"  -> Least(Above(media, ask.id), Limit)
                 [] ask.dir = "Around" ->
                      IF ask = CountAsk THEN {}
                      ELSE Greatest(lower, half) \cup Least(media \ lower, half)
      none  == ask.id # 0 /\ ids = {}
      from  == IF none /\ ask.dir # "After" THEN 0 ELSE Min({ask.id} \cup ids)
      till  == IF none /\ ask.dir # "Before" THEN Top ELSE Max({ask.id} \cup ids)
  IN Found(ask, ids, from, till, Cardinality(media))

Answer(ask) ==
  /\ CanSend /\ ask \in asked /\ ~Answered(ask)
  /\ net' = Append(net, AnswerTo(ask))
  /\ UNCHANGED <<media, next, slices, count, viewer, asked>>

\* A part of the history that is loaded for another reason, from the top or to
\* the bottom maybe, and with media: History::addToSharedMedia. One at a time.
Load(from, till) ==
  LET ids == {i \in media : from <= i /\ i <= till}
  IN /\ CanSend /\ ids # {} /\ ~Answered(None)
     /\ from < next /\ (till < next \/ till = Top)
     /\ net' = Append(net, Found(None, ids, from, till, None))
     /\ UNCHANGED <<media, next, slices, count, viewer, asked>>

\* An error is forgotten about.
Fail(ask) ==
  /\ MayFail
  /\ ask \in asked /\ ~Answered(ask)
  /\ asked' = asked \ {ask}
  /\ UNCHANGED <<media, next, net, slices, count, viewer>>

-----------------------------------------------------------------------------
(* The client *)

\* addRange of the list, its update applied by the window.
TakeRange(ids, from, till, total, isNew, pending) ==
  LET result == AddRange(ids, from, till, total, isNew)
  IN /\ slices' = result.slices
     /\ count' = result.count
     /\ ViewerTakes(Updated(viewer, result.update), pending)

\* addToSharedMediaIndex, addNew
TakeNew ==
  /\ net # <<>> /\ Head(net).kind = "new"
  /\ net' = Tail(net)
  /\ TakeRange({Head(net).id}, Head(net).id, Top, None, TRUE, asked)
  /\ UNCHANGED <<media, next>>

\* destroyMessage of a message that is loaded, as those in slices are.  (Of one that is
\* not loaded, or while the fork's MelowGramSaveDeleted is on, nothing is removed.)
TakeDeleted(isLoaded) ==
  LET id == Head(net).id
  IN /\ net # <<>> /\ Head(net).kind = "delete"
     /\ (\E s \in slices : id \in s.ids) => isLoaded
     /\ net' = Tail(net)
     /\ IF isLoaded
        THEN /\ slices' = SlicesWithout(id)
             /\ count' = CountWithout
             /\ ViewerTakes(Removed(viewer, id), asked)
        ELSE UNCHANGED <<slices, count, viewer, asked>>
     /\ UNCHANGED <<media, next>>

\* channelDifferenceTooLong, setNotLoadedAtBottom
TakeTooLong ==
  /\ net # <<>> /\ Head(net).kind = "tooLong"
  /\ net' = Tail(net)
  /\ slices' = SlicesToLast
  /\ count' = None
  /\ ViewerTakes(ToLimits(Invalidated(viewer)), asked)
  /\ UNCHANGED <<media, next>>

\* sharedMediaDone, addSlice; the answer may be asked for again at once.
TakeFound ==
  LET m == Head(net)
  IN /\ net # <<>> /\ m.kind = "found"
     /\ net' = Tail(net)
     /\ TakeRange(m.ids, m.from, m.till, m.total, FALSE, asked \ {m.ask})
     /\ UNCHANGED <<media, next>>

\* What the client is not told of yet.
InNet(kind) == {net[i] : i \in {j \in 1 .. Len(net) : net[j].kind = kind}}
Untold      == {m.id : m \in InNet("new")} \cup UNION {m.ids : m \in InNet("tooLong")}

\* SharedMediaViewer, at a message the client has: what is in the list, then what is
\* not enough of it.  The result of a query is not applied when it says nothing.
Open(key) ==
  LET empty  == [key |-> key, ids |-> {}, full |-> None, before |-> None, after |-> None]
      s      == Snapshot(key)
      first  == IF s.ids = {} /\ count = None THEN [viewer |-> empty, asks |-> {}]
                ELSE Merged(empty, count, s.ids, s.before, s.after)
      second == ToLimits(first.viewer)
  IN /\ viewer = None
     /\ key < next /\ key \notin Untold
     /\ viewer' = second.viewer
     /\ asked' = asked \cup first.asks \cup second.asks
     /\ UNCHANGED <<media, next, net, slices, count>>

Close ==
  /\ viewer # None
  /\ viewer' = None
  /\ UNCHANGED <<media, next, net, slices, count, asked>>

Init ==
  /\ media = 1 .. Initial
  /\ next = Initial + 1
  /\ net = <<>>
  /\ slices = {}
  /\ count = None
  /\ viewer = None
  /\ asked = {}

Take == \/ TakeNew
        \/ \E isLoaded \in BOOLEAN : TakeDeleted(isLoaded)
        \/ TakeTooLong
        \/ TakeFound

Next ==
  \/ Create
  \/ \E id \in Ids : Delete(id)
  \/ \E till \in Ids : Miss(till)
  \/ \E ask \in asked : Answer(ask) \/ Fail(ask)
  \/ \E from, till \in 0 .. Top : Load(from, till)
  \/ Take
  \/ \E key \in Keys : Open(key)
  \/ Close

Spec == Init /\ [][Next]_vars

-----------------------------------------------------------------------------
(* Properties *)

\* uniteAndAdd and the erasing of what it united leave slices apart, as the binary
\* searches for the slice at a message rely on, with every message in its range.
SlicesApart ==
  \A s, t \in slices : /\ s.from <= s.till
                       /\ \A id \in s.ids : s.from <= id /\ id <= s.till
                       /\ s # t => s.till < t.from \/ t.till < s.from

\* The types; slices are apart, and no count, moved on by messages and results that
\* cross, goes below zero.
TypeOK ==
  /\ media \subseteq Ids /\ next \in 1 .. MaxId + 1
  /\ Len(net) <= MaxNet
  /\ slices \subseteq Slice /\ SlicesApart
  /\ count \in Optional(Nat)
  /\ viewer = None \/ viewer \in Viewer
  /\ asked \subseteq Ask

\* Whose deletion it is not told of yet, and what it was told of and is there.
Undeleted == {m.id : m \in InNet("delete")}
Told      == media \ Untold

\* A slice has every media the client was told of in its range: addRange never
\* widens a range over what it does not know, neither when it unites slices nor
\* when the count says that one of them has everything.
NothingSkipped ==
  \A s \in slices : {id \in Told : s.from <= id /\ id <= s.till} \subseteq s.ids

\* What is deleted does not stay in a slice (removeOne), nor does a result that
\* comes later bring it back.
NothingKept == \A s \in slices : s.ids \subseteq media \cup Undeleted

\* The count of the list, added to and taken from by addRange and removeOne between
\* the counts of results, is never below the number of media the client was told of:
\* a slice of that size is taken for all there is.
CountCovers == count # None => count >= Cardinality(Told)

\* Between its ends the window has all the media the client was told of.
WindowHasNoHoles ==
  viewer.key # 0 /\ viewer.ids # {} =>
    LET held == {viewer.key} \cup viewer.ids
    IN {id \in Told : Min(held) <= id /\ id <= Max(held)} \subseteq viewer.ids

\* A window is told of changes only, but agrees with what there is: applyUpdate and
\* mergeSliceData never put together what does not meet, and its count is the list's.
WindowWhole == viewer # None => WindowHasNoHoles /\ viewer.full = count

=============================================================================
