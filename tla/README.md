# A verification development for MelowGram

MelowGram is a fork of Telegram Desktop. This directory holds TLA+ models of
the parts of it where the order of events matters, the TLC configurations that
check them, and proofs about them for the TLA+ proof system. Paths below are
relative to `src/Telegram/SourceFiles/` unless they start with `src/`.

## The system and its parts

The main thread runs everything a user sees: `Main::Domain` holds accounts, an
account holds a `Main::Session`, and a session holds the data (`Data::Session`),
the API (`ApiWrap`, `Api::*`) and local storage (`Storage::Account`). Each MTP
session has a `SessionPrivate` on a thread of its own; storage, streaming and
decoding have further threads. Parts talk through posted closures
(`crl::on_main`, `object_on_thread`), callbacks of requests, `rpl` streams and
timers.

| part | state it keeps | operations | what is hard | what makes it right |
|---|---|---|---|---|
| Update streams: `data/data_pts_waiter`, `api/api_updates` | per stream `_good`, `_last`, `_count`, queue, reasons to wait, one deadline, `_requesting`; per window the channel it shows | pushes, updates in results, affected pts, bare pts, gap and poll timers, getState, getDifference, getChannelDifference with slices, too-long and failure | lost and reordered updates, two reasons for one deadline, answers that are overtaken, retries | nothing skipped, nothing applied twice through a rewind, gaps watched and closed, `_requesting` never leaked, open channels polled |
| MTProto session: `mtproto/session_private`, `session`, `details/mtproto_received_ids_manager` | requests to send, sent, acked; containers; received ids; salt and session id | send, ack, resend, bad notifications, session reset | two threads, lost and repeated messages, new ids for old requests | one answer per request, no request lost, no message handled twice |
| MTProto instance: `mtproto/mtp_instance`, `dc_options` | requests by data center, delayed and waiting ones | send, cancel, migrate, flood waits | migration during cancel, errors that race | each request ends once |
| Local files: `storage/details/storage_file_utilities` | scheduled writes, three files per name | write, writeSync, sync, read, clear | a crash at any step, a failed step, two threads | a file once written can be read, and is not older than what was finished |
| Account storage: `storage/storage_account`, `storage_domain` | keys of files, the map | delayed map writes, drafts, settings | file and map written apart | what the map names can be read |
| Histories: `data/data_histories`, `history/history` | per chat: requests sent and postponed, how far it is read, will be and was told to be; entries pending and asked | read, send, delete, cancel, dialog entries | requests that exclude or overtake one another, one timer for all chats | no read or entry forgotten, nothing beside a deletion |
| Message lists: `storage/storage_sparse_ids_list`, `data/data_sparse_ids`, `data_shared_media`, `data_messages` | slices of known ids, their count; per window the ids near a message and how many are beyond them; requests that are pending | add new, existing and slices, remove, invalidate, query; merge, cut, ask | slices that join, counts that are moved on from several sides, windows that are told of changes only | no hole in a slice or a window, nothing claimed that is not known, windows get filled |
| Streaming: `media/streaming/*` | parts loaded, requested, cached | fill, drop, cache | reader thread sleeping and woken | a wait always ends |
| Downloads and uploads: `storage/download_manager_mtproto`, `file_upload` | queues, per-session amounts | enqueue, done, timeout, kill | redirects, removed sessions | amounts add up, limits hold |
| Calls: `calls/*` | call state | accept, confirm, hang up, discard | both sides act at once | a call ends once |
| Accounts: `main/*` | accounts, the active one | add, activate, log out | log out during work | one active account |
| Local server of the fork: `melow/local_server` | one JSON file | edit, save, load | crash in save | the state survives |
| Plugin engine of the fork: `melow/plugin_engine` | plugins, hooks | load, enable, remove | scripts that call back | hooks of removed plugins are gone |
| Messages: `apiwrap`, `api/api_sending`, `api/api_editing` | requests of the user's actions | send, edit, delete, forward | mostly plumbing around histories and streams | the pts of a result reaches its waiter |
| Export: `export/*` | position in a pipeline | next request, next file, cancel | little: it is sequential | not modelled |
| User interface | layout, input | paint, click, type | no protocol | not modelled |

How they meet: a push or a result arrives on the MTP thread, is unpacked by
`SessionPrivate`, and is posted to the main thread, where `Api::Updates` feeds it
through the seq of its container and the pts of its stream into `Data::Session`
and its histories. The user's actions go the other way, from the histories
through `ApiWrap` and `MTP::Instance` into `SessionPrivate`. What has to outlive
the process goes from `Storage::Account` and `Storage::Domain` to the storage
thread of the local files.

## Modules

| module | models | code |
|---|---|---|
| `PtsWaiter.tla` | one stream's waiter as operators from a record to a record: counting, the queue, the two reasons to wait | `data/data_pts_waiter` |
| `Updates.tla` | the account's stream and the channels' streams with their requests, timers and windows; the server and the network | `api/api_updates`, the callers in `apiwrap`, `data/data_channel` |
| `UpdatesSeq.tla` | the numbering and the date of update containers, the containers held, two timers | `api/api_updates` |
| `ReceivedIds.tla` | the window of message ids as operators: `registerMsgId`, `shrink` | `mtproto/details/mtproto_received_ids_manager` |
| `MtpSession.tla` | one session: the main thread and the thread that sends and receives, the maps of requests between them; the connection and the server; extends `ReceivedIds` | `mtproto/session_private`, `mtproto/session` |
| `Histories.tla` | requests about chats, the read state and dialog entries | `data/data_histories`, parts of `history/history` |
| `SparseIds.tla` | the list of the media of one type in a chat, a window into it and the requests that fill it; the server | `storage/storage_sparse_ids_list`, `data/data_sparse_ids`, `data/data_shared_media`, `data/data_search_controller`, parts of `apiwrap` |
| `LocalFiles.tla` | the main thread, the storage thread and the disk, one operation on the disk per step, failures and crashes | `storage/details/storage_file_utilities` |
| `DurableStore.tla` | abstract: what a caller of the local files may rely on; `LocalFiles` implements it | |
| `PtsWaiterProofs.tla`, `UpdatesProofs.tla` | theorems about `Updates` | |
| `UpdatesSeqProofs.tla` | theorems about `UpdatesSeq` | |
| `HistoriesProofs.tla` | theorems about `Histories` | |
| `SparseIdsProofs.tla` | theorems about `SparseIds` | |
| `Induction.tla` | lemmas: induction on numbers and finite sets, and recursion on the subsets of a set | |
| `MtpSessionProofs.tla` | theorems about `MtpSession` and its window of ids | |
| `LocalFilesProofs.tla` | theorems about `LocalFiles`; that it implements `DurableStore` | |
| `MCUpdates.tla`, `MCLocalFiles.tla` | values and symmetry for TLC | |

### Streams of updates

A stream is the account's (`Common`) or a loaded channel's. `waiter[s]` is its
`PtsWaiter` with, as `armed`, whether `_whenGetDiffByPts` has an entry for it;
`diff[s]` stands for its difference request: how many are unanswered, the pts the
last one carried, the server's pts when it was sent, and whether the retry timer
of a failure is set. `view` is `_activeChats`. All of this lives on the main
thread, so each handler is one step, from the branch taken in the code to the
last of the calls it makes: `ChannelDifferenceDone` sets the pts, clears
`_requesting`, and either asks for the next slice or resumes polling.

The server keeps its pts and every pts an event ended at (`ends`). An update
tells of `n` events that end at a pts, and is a push, part of a request's result,
or the bare pts and pts_count of an affected result. `net` is a set: messages
arrive in any order or are lost. `applied`, `counted` and `base` are history.

What is assumed of the server and of the code around:

- Each message is delivered at most once, which is what `ReceivedIdsManager` is
  for, and what `HandledOnce` states and `NoneTwice` proves of `MtpSession`. (The
  same update twice in the queue would be counted twice.)
- A difference ends where an event ended, not before the pts it was asked for;
  a final one is not older than the request.
- A bare pts (`ptsReceived`) is a pts the server had. Whether it may reach a
  channel that knows its pts is the constant `DialogReload`.
- `channelDifferenceTooLong` carries a dialog with the pts to go on from (the code takes
  the dialog's pts where it has one, and otherwise keeps its own).
- The callers of `ApiWrap::deleteHistory` have shown the list of chats before.
- Deadlines have no length: they may pass at any time once they are set.

### Containers

`UpdatesSeq` has the account's request again, with what of it matters to seq and
date; whatever asks for a difference on account of pts is `AskForOtherReasons`.
`client` is a record because the handlers call one another: `drained` is the loop
of `setState` and `applyUpdates`, a recursive function that releases one held
container at a time, until none fits. `_bySeqTimer` and `_byMinChannelTimer` have
a length, counted down by `Tick`, since each container ahead of a gap restarts the
former.

Assumed: a difference tells the updates of every container up to its seq, and
those later than the date it was asked from; dates number the server's events
(the program's are seconds, in which two events may fall together); the results of
requests carry no seq.

Left out: an `updateShortMessage` or `updateShortChatMessage` whose peers are not loaded asks
for a difference and returns before the date is set (api_updates.cpp:1538); such requests
are among `AskForOtherReasons`. `updateChannelReadMessagesContents` of a channel that is not
loaded sets `_byMinChannelTimer` while a difference is requested, too (line 1709), where
updates with a new message do not; it carries no pts, and `missed` does not count it.

### The session

`made`, `waiting`, `cancelling` and `replies` are the main thread's: the requests
there were, those whose callback is to be called (`_parserMap`), the one that
`Session::cancel` is at, the answers that were posted. `q` holds the maps that the
two threads share (`_toSend`, `_haveSent`) and those of the session's thread
(`_resendingIds`, `_ackedIds`, `_sentContainers`); a request's message id and the
session it was numbered for are in `mark`. `link` is what `SessionPrivate` knows of
its connection and still has to say on it. A handler is one step, but for three
places where the code lets go of one lock before it takes another: `resend` and
`resendAll` have requests in `hand` between `_haveSent` and `_toSend`, and `cancel`
is two steps. Two more such gaps are part of `cancel`, which may find a request that was
sent in neither map: `Instance::cancel` reads the message id before it takes a lock, so that
`tryToSend` may change it, and `tryToSend` lets go of `_toSend` before it locks `_haveSent`
when a request goes alone. (The model lets this happen for as long as the request is in
`_haveSent`, the code only while it is being sent.) `tryToSend` is the whole of it, from the messages of service to the
container with its ids and what goes to `_haveSent`; `handleReceived` takes one packet,
registers its ids, acts on each message in it, shrinks the window, and does what
the result asks for (a new session, a restart).

The server remembers the ids of its session's messages, runs each once, and may tell
an answer again, acknowledge, ask about a state, refuse a message in any of the ways
`bad_msg_notification` has, change its salt, or forget the session.

Assumed: a connection keeps the order of what it carries and loses all of it when it
breaks; clocks are right, so that ids grow; an answer is told again until it is
acknowledged; a message with a wrong salt or session is not run. Time has no length:
timers that are set may fire, but `sendPingByTimer` and `checkSentRequests`, which wait for
seconds, fire only when nothing is on its way (`down = <<>>`); a late answer meets their
questions nevertheless, since the server may answer after them. A request ends with the
first answer that reaches the main thread: `processCallback` may keep the callback after an
error that is handled by default (FLOOD_WAIT, MIGRATE, a code of 500 and above) and send the
request again, as the MTProto instance's business. `Cut` says whether requests are too many for one
container.

### Histories

`chat[c]` is a chat's `Histories::State` and what of its `History` the protocols read:
up to where it is read, and whether the unread count is known. Message ids number
the messages of the chat. What `countStillUnreadLocal` finds depends on the loaded messages
and is an input. `dialogs` are `_dialogRequestsPending`, `_dialogRequests`, which of
them carry the callback of `readInbox`, and whether `sendDialogRequests` is posted.
Everything is on the main thread. A handler computes a record from a record (`client`,
`Becomes`), since the handlers call one another: the answer to a reading marks it done,
asks for the entry, sends what else is due, releases what waited and asks again for the
entry that was held (`AnswerRead`).

Assumed: each request is answered or fails, and its handler calls `finish` (not so for
`MTPchannels_DeleteChannel`, see below); the user is in the chat; a dialog the server
sends may be of any age, so it may tell any place the chat is read up to. The chats are no
communities, for which `requestDialogEntry` returns at once (data_histories.cpp:383). The
call that `sendDialogRequests` is posted with may be posted several times in the code; the
first sends all there is, so `posted` is a flag. What a dialog says of the unread mark and what
`setUnreadCount` does to a count that is known are simplified in `Finds`: a mark goes
though some messages remain unread, a value the next `ReadElsewhere` leads to as well.

### Message lists

`slices` and `count` are `_slices` and `_count` of a `SparseIdsList`; a slice is a set
of ids with the range of which it has all. `viewer` is the `SparseIdsSliceBuilder` of an
open window: its key, the ids it holds, `_fullCount`, `_skippedBefore` and
`_skippedAfter`. `asked` is `_sharedMediaRequests`. Everything is on the main thread:
an event, the change of the list, the update the list fires, what the window makes of it
and what it asks for are one step. `AddRange`, `Merged`, `ToLimits` and the others are
the functions of the two classes, from a record to a record.

The environment is the server's set of media and `net`, what is on its way: new
messages, deletions, that a gap is too long to be filled (it is told of at once, as `Miss`),
parts of the history loaded for other reasons (`Load`, one at a time), and results.
`AnswerTo` is `messages.search` as `PrepareSearchRequest` asks for it and
`ParseSearchResult` reads it: up to `Limit` ids on one side, or half of it on either; none
and the total alone for a window without a message. Left out: messages of another type
in an answer, which would widen the range it covers, and `messagesNotModified`, which
the code logs as an error.

Assumed: what the server sends arrives in its order, results among updates. The lists
rely on it without saying so; updates held behind a gap break it (see below).
A window opens at a message the client has been told of. `MelowGramSaveDeleted` is off.

### Local files

A file is three names on disk: `s`, and `0` and `1` of older versions of the program.
Contents are versions, numbered by the requests to write, or torn: the
signature of the file does not hold. `inbox` is the queue of the storage
thread's object, whose first task runs, `job` is how far `writeNow` is,
`scheduled` is `_scheduled`. The main thread waits in `writeSync`, `sync` and
`stop` (`main`), and clears files one name at a time, while the thread goes on.

Assumed of the disk: `QSaveFile::commit`, a rename and a removal are atomic; what
has been flushed is not lost; opening for writing truncates. Assumed of the
callers: files are read at the start or before they are written, and a cleared
file's key is forgotten. With `Failures` a save, an open or a rename may fail,
and a write may be short (nobody looks at the result of `write`).

`Store` maps this to `DurableStore`: `found` is what `ReadFile` would return.
Every step of the program or a crash is a step of the store or leaves it alone.

## Runs

Passing runs, with the question each answers:

| run | question | bounds |
|---|---|---|
| `UpdatesChannel` | The account and a channel whose pts is learnt late, with two events in either or one in each, told in up to two messages at once, with pts_count 0, 1 or 2: is anything skipped or rewound, is a queue left without a deadline, is `_requesting` ever leaked? | `MaxPts` 3, `MaxEvents` 4, `MaxNet` 2, no window |
| `UpdatesLive` | Two windows, gaps and polling on one deadline: does any reason to wait lose it, do gaps close, does a channel on screen catch up? | `MaxPts` 3, `MaxNet` 2, two windows |
| `UpdatesSeq` | Containers with one, two or no numbers, pushed or in results: is one skipped, fed twice, or held without a timer? | `MaxDate` 4, `MaxNet` 3, `Wait` 1 |
| `UpdatesSeqLive` | Is an update that had to be left out asked for from a date before it, and told; is every held container released? | `MaxDate` 3, `MaxNet` 2, pushes |
| `MtpSession` | Two requests, one of which may be cancelled, and one thing that goes wrong (a broken connection, another salt, a forgotten session, a message refused in one of three ways, a late one): is a request lost, sent from two places, run or handled twice, numbered for another session, or left unanswered? | `MaxFaults` 1, `MaxDown` 2, `MaxId` 10, windows of 4 ids |
| `Histories` | A chat read up to two places, at once or later, and two things sent, deleted, shown, or ghost mode turned on and off: does a deletion have a part of the history beside it, is a reading, an entry or a waiting part forgotten, and is each sent or answered in the end? | `MaxTill` 2, `MaxMade` 2, `MaxEntries` 2, `Timeout` 1, one chat |
| `SparseIds` | Two media and a third that is sent or missed, deletions, loaded history, a window at one of them or at none, and requests that may fail: does a slice or the window ever have a hole, does a slice keep what was deleted, is a count below what is there, do list and window disagree? | `MaxId` 3, `MaxNet` 2, windows of one id before and two from the key |
| `LocalFiles` | After two failures and any crashes, is the newest version written to the end still found; may a scheduled write bring back an older version; does the main thread wait for a task that is not there? | two new files, `MaxVersion` 4, `MaxInbox` 2, no clearing |
| `LocalFilesStore` | With crashes, old files and clearing, are the files the abstract store? | no failures |
| `LocalFilesRunning` | When `sync` or a synchronous write returns, is it on disk; does each other write get there? | no crash, `MaxVersion` 4, `MaxInbox` 3 |

Runs that show a disagreement between a comment and the code:

- `UpdatesGapZero`: `check` returns `!count`, so a pts with pts_count 0 in an open
  gap counts as accepted, and `applySkippedUpdates` drops the deadline "1s wait
  for skipped seq or pts in updates" is about. The gap stays until some later
  update is skipped too. `GapIsWatched` is therefore checked with counts above 0
  elsewhere, and without `DialogReload`.
- `MtpAcked`: the id of an answered request is put among the 400 newest
  acknowledged ids and may be the one that is dropped from them, before `wasSent`
  looks it up there. Then the answer is dropped too. The run has room for one id;
  in the program the request must be older than 400 others that were acknowledged.
  `NoRequestLost` is otherwise checked with room for all, and proved while no waiting
  request is overtaken like that (`NothingLost` below).

Why the bounds are enough: three slots are the least in which a gap is filled in
parts while something waits behind it, two messages the least that can be
swapped. One channel and the account
have every interaction of streams there is, since channels meet only through the
account's `_requesting`; an event in each and two in one are what it takes; two windows are what `inActiveChats` tells apart from one. Four
dates let a held container, the one it waits for and a difference come in every
order with an update of an unknown channel among them. In the session two requests
make a container, and cross one another; one fault changes the connection, the salt or the
session under both. Its ids are enough that no run ends for want of one. Two places let a
reading overtake another, two requests let a deletion meet a part, a sending or a second
deletion, two requests for entries let an old answer meet a new question. (With two
chats, one place, one request and one request for entries under way the safety properties
of `Histories` hold as well, on 156745 states.) Three media are one before a window's
message, one at it and one after; two things on their way let a request be answered before
or after what changes the list, and slices of one id touch, overlap or stay apart. Two files are needed for `_scheduled` to hold an
entry that is not the one in work; three versions make one on disk, one in
work and one scheduled. Two failures are what a fallback of the
fallback takes. Numbers that only grow (pts, dates, versions) are bounded in
the guards of the environment (`ServerEvent`, `Asks`), so that behaviours end and runs
say `CHECK_DEADLOCK FALSE`: an idle client really stops.

Fairness. `Updates!FairSpec` and `UpdatesSeq!FairSpec`: timers fire when they are
due (weak fairness; the event loop runs them), and a request is answered in
the end however often it fails or is re-sent (strong fairness of the final
answer; `failDifferenceStartTimerFor` retries without limit). Updates may all be lost:
nothing is assumed of their delivery. In `UpdatesLive` `getState` may fail and the account's
stream be silenced for ever; the channel's properties hold all the same.
`MtpSession!FairSpec`: both threads run, a connection that is broken is made anew and
while it is up packets come, the server answers, and the timers of pings and of state
requests fire. Two of the conditions are about variables rather than actions, to be cheap to
evaluate: `WF_down(Consumes)` says that the first packet is taken, by `handleReceived` or by what
drops all of them; `WF_link(SaysAll)` that `tryToSend` says all it has. Nothing is assumed of
cancelling, of faults or of what the server may do beyond answering.
`Histories!FairSpec`: time passes, the timer fires, the posted call comes, and what is asked
for is answered or fails; the user's actions and other devices are free.
`LocalFiles!RunningSpec`: the storage thread runs (weak fairness); no crash, no
failure.

Each property of a passing run has a mutant in `PROJECT.json`: an operator beside
the original, marked "Mutant", which stands for a plausible mistake in the code and
which makes TLC find the property violated.

## Theorems

`UpdatesProofs` proves for every set of channels and windows, every pts_count and
any number of events and messages:

| theorem | says |
|---|---|
| `Inductive`, `TypeCorrect` | the invariant below, and with it the types |
| `NothingSkipped` | `NoSkippedUpdate` |
| `NoRewind` | `PtsNeverRewinds` |
| `QueueWatched` | `QueueIsWatched` |
| `RequestBacked` | `RequestingIsBacked`, if `Unhandled = {}` |
| `GapWatched` | `GapIsWatched`, if no event counts 0 and no reload moves pts forward (`0 \notin Counts`, `~DialogReload`) |
| `ActivePolled` | `ActiveChannelIsPolled`, if the pts of every channel is known at the start (`KnownChannels = Channels`) |

The argument. The waiter keeps no set of what it has: it takes `_last = _count`
for "nothing is missing". That this is right rests on an invariant the code
never writes down: `_count - _good` is the number of distinct slots counted
since `_good`, all of them between `_good` and `_last` (`Sound`); each of them
has been applied or is in the queue (`Covers`). Then `_last = _count` leaves no slot
out (lemma `FullCount`, by cardinality). It stays true because no message under
way repeats a counted slot or another's, and none reaches across a pts where an
answer may end (`NetOK`). `Backed` says that at most one request is
pending, carries the current `_good`, and exists exactly while `_requesting` is
set. `IInv` is the conjunction of these with `TypeOK`. `PtsWaiterProofs` proves
what one update does to a waiter, case by case (ignored, starts, closes, waits);
`Frame` says that a step of one stream leaves the others' part alone; then there
is one lemma per group of actions, and `NextKeeps` puts them together.

The last two are about timers, and need no more of the network than that it counts as `Counts`
says. A waiter changes in few ways, whatever the action that changes it: it takes an update, a
request is asked for it, its deadline to poll comes, an answer or a new pts resets it (`Moves`); `NextMoves` proves that
of every action, once, and each property is then kept by each of these. For the gap that is
`GapOK`: what is counted without being adjacent has `_waitingForSkipped` or a request
behind it. Both conditions are needed: a count of 0 leaves a gap no timer watches
(`UpdatesGapZero`), and a channel whose pts is not known has no deadline.

`MtpSessionProofs` proves for any number of requests, faults, ids and packets, and
windows of any size:

| theorem | says | from |
|---|---|---|
| `TypeCorrect` | the types | `TypeInv`: what was sent has a message id; the server's answers are finitely many, so that it can choose some, and each is to one message |
| `OnePlace` | `SentFromOnePlace` | `PlaceInv`: also, what is in a map was made |
| `OneRun` | `RunsOnce` | `RunInv`: the server's session is the client's or an older one, and in the client's a request keeps the id it was run with |
| `NoneTwice` | `HandledOnce` | `HandledInv`: an id that was handled is in the window, or the window is full of larger ones; then `registerMsgId` refuses it |
| `Renumbered` | `NumberedInSession`, if `~Cut` | `NumberInv`: once the session is started, what has an id has one of this session, wherever it is; before that nothing is sent |
| `NothingLost` | `NoRequestLost`, in the behaviours with `[]NotOvertaken` | `IdsInv`: ids are of one request each and below the next one; what `_ackedIds` and the map of resent ids say of an id is the request that has it; the id kept by `cancel` is of no other request |
| `NothingLostInRoom` | `NoRequestLost`, if `Cardinality(Requests) <= AckedSize` | `FewOvertake`: then `NotOvertaken` always holds |

Each has one step per action, and shares lemmas on what sending, resending and
settling do to the maps (`PlacesKept`, `Registers`, `Shrinks`, `Moves`). `NoneTwice`
does not depend on the order of delivery: that the loss of the smallest ids is harmless follows
from the refusal of what is below a full window alone.

`NothingLost` is the theorem behind the main promise of the session. A request leaves
the maps for good only in `settled`, and a waiting one only by an answer (`AckedWaits`
has the acknowledgements and the containers). The answer is handed on only if `wasSent`
finds the request by its message id *after* that, in `_ackedIds` (`AnswerFinds`): so ids
must be right, which is `IdsInv`, through renumbering too, where `replaceMsgId` moves
them (`IdsSend`); and the id must survive `trimmed`. `NotOvertaken` says just that: no
waiting request has an id below `AckedSize` acknowledged ones. It is the negation of
what the run `MtpAcked` finds, and the theorem says that there is no other way to lose a
request.

`UpdatesSeqProofs` proves for any number of containers, dates and lengths of the timers:

| theorem | says |
|---|---|
| `TypeCorrect` | the types |
| `NothingIsSkipped` | `NoSkippedSeq` |
| `HeldAreWatched` | `HeldIsWatched` |
| `NoneIsFedTwice` | `NothingFedTwice` |
| `MissedAreAsked` | `MissedIsAsked`, if containers come as pushes only (`"result" \notin Vias`); with results it is false, see below |

`IInv` says of the client that what it holds has numbers the server gave out (`Holds`), and
nothing is held while a difference is requested; that what it took is `1 .. seq`, and nothing
else unless a request is pending, whose answer covers it (`Counts`); that what it left out is after
the date of the request that is sent, or to be sent (`Misses`). `NoSkippedSeq` alone is not
inductive: an answer moves `_updatesSeq` to what the server had when it answered, so the proof
keeps the number `k` of events there were then, and that the server's seq never goes back
(`Ascends`). `drained` is a recursive function on clients. Two facts replace its induction:
that it unfolds (`Drained`), and that, of clients for which it might break an
invariant that `feed` keeps, one with the fewest containers held cannot exist, since
`feed` takes one of them.

`HistoriesProofs` proves for any number of chats, parts, requests and places:

| theorem | says |
|---|---|
| `TypeCorrect` | the types |
| `DeletionsAreAlone` | `DeletionAlone` |
| `EntriesAreBacked` | `EntryIsBacked` and `AgainIsDue` |
| `ReadsAreTracked` | `ReadsTracked`, that is `ReadsAscend`, `SentIsBacked` and `ReadIsWatched` |

The code has one rule for each field of `State` and none that relates them. `IInv` does, of the
record the handlers work on: `Alone`, that postponing is for deletions only; `Ordered`, that
`willReadTill` is ahead of `sentReadTill`, which is ahead of, or is, what every reading under way carries, or what
was read before; `Flies`, that what was sent and is not done is under way; `Again`, that an
entry postponed has what it waits for; `Comes`, that what is done waits for its entry;
`Awaited`, that an entry is asked for by somebody. Two of them are broken inside of a handler:
the timer (`Watches`), which `sendReadRequests` sets only at its end, so that `Paced` is what it
relies on; and `Comes`, which `finishSentRequest` breaks between marking a reading as done and
asking for its entry. Hence the lemmas are about functions rather than actions: `Led` is what
reading may do to a client, `Good` what requests for entries keep, `Fit` what a handler has to
leave. The answer for entries goes over all chats it tells of, and then over all that were
asked for; each is a fold over a set, and `FoldApplied` and `FoldFinalize` say that a fold
keeps what one step of it keeps. The prover cannot instantiate a theorem of induction, so
`Induction` builds the function that the fold recurs on (`RecursionOnSets`) and
takes the smallest set where it would fail.

`SparseIdsProofs` proves for any number of messages, things on their way to the client and
limits of a window:

| theorem | says |
|---|---|
| `TypeCorrect` | the types; slices stay apart; the count is not below zero |
| `NoneSkipped` | `NothingSkipped` |
| `NoneKept` | `NothingKept` |
| `CountIsEnough` | `CountCovers` |
| `WindowIsWhole` | `WindowWhole` |

The properties speak of what the server has and of what is on its way, and none is inductive:
whether an answer may be added depends on the messages and deletions ahead of it. `IInv` says that there is a
list `P` of states of the server, one for each thing on its way and one more (`Past`): the
client is at the first, the server at the last, and each thing tells of one step (`Tells`).
What the client has is right of the first state without any allowance (`Knows`):
a slice has exactly the media in its range (`Lists`), the count is at least their number, a window is
whole. What was found is right of the state it was found in, but for one message: a search before or
after a message does not return that one, and it is only asked for beside messages of slices
(`Asks`, `Finds`). The server's steps add a state at the end (`Sends`), and the client's take one from the
front (`Hears`). Ids that are never used again make the rest hold (`Later`): what the client has of an id below
`next` can only go. Two facts that the code relies on are lemmas: `UnitedJoins`, that
ranges which only touch can be united, since each has all in its range; and `MeetsWhole`, that a window may take what
`applyUpdate` lets it, with only its messages or, if it has none, its key compared with the range.
All of it assumes that the client is told things in the order of the server, as `SparseIds` says.

`LocalFilesProofs` proves for any files, versions and lengths of the queues:

| theorem | says | from |
|---|---|---|
| `TypeCorrect` | the types; the main thread waits exactly while a task it awaits is there | `TypeOK`, `InOrder` |
| `NoOlderVersion` | `ScheduledIsNewer`, whatever fails or crashes | `InOrder` |
| `NothingIsLost` | `NothingLost`, if files are not cleared and either nothing fails, or files are new and only saving and opening fail | `AllKept` |
| `WaitingIsForDisk` | `SyncWaitsForDisk`, if nothing is cleared and nothing fails | `OnItsWay` |
| `ImplementsTheStore` | `ImplementsStore`, if nothing fails and no old file `0` is newer than a `1` beside it | `StoreInv` |

`InOrder` is what makes the storage thread right, though no line of it says so: for
each file the tasks, what is scheduled and what is being written are in the order
asked for, and all of them are newer than the disk. `ScheduledIsNewer` alone is not
inductive, since a task that is still in the queue is what gets scheduled next.
`AllKept` adds where the good copy is at each step of `writeNow`: until `0` is full
the safe file stands, and then `0` holds the version that is renamed over it.
`OnItsWay` says that the latest version is on disk, being written, scheduled or in the
queue, and that behind a task that is awaited nothing new comes. `StoreInv` says which
file a clearing may still find: of two old ones the older goes first, and a file
saved in the middle of it goes last.

What the assumptions leave out is real. A rename that fails with a full `0`
makes the code drop the safe file, and the next write that fails truncates `0`; a
short write is renamed over a good file; both are hazards in `PROJECT.json`. With `0`
newer than `1`, clearing shows the older version between two removals.

The assumptions are those named in the modules (`StreamsAssumption`,
`CountsAssumption`, `BoundsAssumption`, `KnownAssumption`, `FlagsAssumption`;
`WaitAssumption`, `KindsAssumption`, `ViasAssumption`; `SetsAssumption`, `TimeoutAssumption`; `RequestsAssumption`,
`SizesAssumption`, `FaultsAssumption`; `OldAssumption`,
`FailuresAssumption`; `NoneAssumption`, and `BoundsAssumption` and `SetsAssumption` again),
which TLC evaluates in every run, and those on the server written above, which
are guards of the actions. The bounds of the model are constants of the theorems too, so
they hold for any bound.

Only model-checked: `NothingLost` of `LocalFiles` when a rename may fail, and all
liveness (`GapIsClosed`, `ActiveChannelCatchesUp`, `HeldIsReleased`, `MissedIsTold`, `WritesLand`,
`RequestsAreAnswered`, `ReadIsSent`, `EntryIsAnswered`, `PartIsSent`), which is out of the
prover's reach: it needs fairness, and with it ENABLED. Every safety property a passing
run checks is a theorem too.

## What is known not to hold

- `RequestingIsBacked` when the server answers `differenceTooLong`, or `getState`
  fails: the code logs the first and has no handler for the second, and
  `_requesting` stays set. Nothing is skipped even then, but the account's stream is
  silent.
- `MissedIsTold` when the result of a request moves the date while the request
  for a missed update has failed and waits for its retry, or for an update that
  comes behind the date.
- `ActiveChannelIsPolled` when a channel is shown before its pts is known (`KnownChannels`
  leaves that out): the poll deadline passes without a request at api_updates.cpp:729, and
  nothing sets another when the pts arrives.
- A steady flow of containers ahead of a gap restarts `_bySeqTimer` (api_updates.cpp:1497,
  1517), so that the difference is put off for as long as the flow lasts.
- `NoRequestLost` with a small `_ackedIds` (the run `MtpAcked`).
- `NumberedInSession` with `Cut`: when a new session is made for requests that need two
  containers, the second keeps the old ids.
- An error code of `bad_msg_notification` that is not known (session_private.cpp:1645) queues
  an error for the request but leaves it in `_haveSent`; the requests in a refused container get
  no error. They wait for the next connection.
- `_checkSentRequestsTimer` is set only when a container was sent (session_private.cpp:980), and
  `msg_detailed_info` asks for an answer again only with the next thing that is sent. The pings
  of an open connection make up for the second.
- What is read in ghost mode stays in `willReadTill` without a timer: it is sent by the first
  `sendReadRequests` after ghost mode is off, whatever that is for, and by none otherwise
  (`stalled`).
- `PartIsSent` when `MTPchannels_DeleteChannel` fails (data_histories.cpp:830): it never calls
  `finish`, and all later requests for the channel's history are postponed for ever.
- An entry asked for before a message was sent may serve those who asked for it again after it
  (data_histories.cpp:471): `EntryIsAnswered` says nothing of freshness.
- That a window is filled in the end. A window that holds the last two of three media has
  one before it and none after. A fourth comes that does not meet it: only `_fullCount` becomes
  4 (data_sparse_ids.cpp:252). A result for what is before it then fills the window to that
  side, and since `_skippedAfter` is still 0 the fourth is not asked for. `_skippedAfter` is
  counted from the others at times and may then be wrong by the messages between, below zero
  after a deletion. Nor is a window filled when requests fail: nobody asks again before the
  next change of the list.
- `CountCovers` when a result overtakes updates that are held behind a gap: a deletion it
  has counted is counted again. Of an edited message `addNew` says that nothing
  lies between it and the bottom (history_item.cpp:3044), so that `NothingSkipped` does not hold
  of edits. With `MelowGramSaveDeleted` deleted ids stay in slices and are held against
  counts that leave them out (history.cpp:677).
- A failed release of a key's creation leaves `_creatingKeys` set (mtproto_dcenter.cpp:141), and
  a failed export drops the requests that wait for an authorization (mtp_instance.cpp:1367);
  neither part is modelled.
- `NothingLost` when `0` holds the only good copy (left by an older version, or
  after a failed rename) and a save fails, since `0` is then truncated in place; and when a short
  write on a full disk goes unnoticed and a torn `0` is renamed over a good `s`.
- A file written by a task still scheduled is back after `ClearKey`. Its key is
  forgotten, so it is an orphan.
- Where `0` is newer than `1`, clearing removes `0` first and an interrupted clear
  leaves the older one; `LocalFilesStore` leaves that start out.

## Not modelled

Of the modelled parts: in the streams, the no-updates ping (`noUpdatesTimeout`),
`requestChannelRangeDifference`, online status; the payload of updates. In the session,
encryption, padding, HTTP waits, the choice among test connections and the binding of
temporary keys. In the histories, messages held until a topic is created, fake chat list
messages, delivery reports, folders, and all of `History` but its read marks. In the message lists, edits and
pinned messages, topics and the merged lists of a migrated chat, removal and unloading of a
whole list, and `data_messages.cpp`, which keeps the list of all messages by the same
rules.

Parts without a module, and why:

- `MTP::Instance`, data centers and key creation: a model would be the routing of errors between
  tables, each case of which is plain in the code.
- Account and domain storage: serialization, on top of the local files.
- Calls: driven by libraries that are not here.
- Streaming, downloads and uploads: bounded by measured times and sizes, and waiting on
  primitives of submodules whose directories are empty.
- Accounts, export, sending and editing, the local server and the plugin engine of the fork:
  sequential, or plumbing around the parts above; the local server's save is a hazard that two
  adjacent lines show.
- The user interface, encryption, and the libraries in submodules.
