----------------------------- MODULE Histories -----------------------------
(***************************************************************************)
(* Requests about chats and how far each is read: Data::Histories          *)
(* (data/data_histories.cpp), with what of History (history/history.cpp)   *)
(* it reads and moves.                                                     *)
(*                                                                         *)
(* Three protocols share one state per chat.  Requests for parts of the    *)
(* history wait while messages are deleted, and are sent again when a      *)
(* deletion begins.  The place a chat is read up to is sent at once or     *)
(* some time later, one request overtaking another.  The dialog entry is   *)
(* asked for in batches, and again when something was sent, read or        *)
(* deleted in the meantime.                                                *)
(*                                                                         *)
(* All of it is on the main thread: a handler with all its calls is a      *)
(* step.  Answers come in any order.  Message ids number the incoming      *)
(* messages of a chat; loaded messages are not modelled, so what           *)
(* countStillUnreadLocal finds is an input.                                *)
(***************************************************************************)
EXTENDS Integers, FiniteSets, SequencesExt

CONSTANTS
  Chats,
  Parts,      \* what parts of a history are asked for by: the callers' keys
  Keys,       \* tell apart what is sent and deleted at the same time
  MaxTill,    \* bound on message ids
  Timeout,    \* kReadRequestTimeout, in ticks
  MaxMade,    \* bound on requests of the user and turns of ghost mode
  MaxEntries  \* bound on requests for dialog entries under way

ASSUME SetsAssumption == IsFiniteSet(Chats) /\ IsFiniteSet(Parts) /\ IsFiniteSet(Keys)
ASSUME TimeoutAssumption == Timeout \in Nat \ {0}
ASSUME BoundsAssumption == MaxTill \in Nat /\ MaxMade \in Nat /\ MaxEntries \in Nat

VARIABLES
  chat,     \* by chat: Histories::State and how far the History is read
  timer,    \* _readRequestsTimer: ticks that are left
  dialogs,  \* the requests for dialog entries that are not under way yet, or are
  entries,  \* MTPmessages_GetPeerDialogs under way
  ghost,    \* the fork's ghost mode
  stalled,  \* has it left reads without a timer since sendReadRequests worked?
  made      \* how many of these there were

vars == <<chat, timer, dialogs, entries, ghost, stalled, made>>

None == 0
Off  == -1
Tills == 0 .. MaxTill

\* A part of the history has its key, a reading its till.
Types   == {"History", "ReadInbox", "Delete", "Send"}
Request == [type : Types, key : Parts \cup Keys \cup {None}, till : Tills]

(***************************************************************************)
(* before: _inboxReadBefore, 0 when not known; counted: is the unread      *)
(* count known?  will, when: willReadTill, and the ticks until             *)
(* willReadWhen, Off when it is 0; sentTill, done: sentReadTill and        *)
(* sentReadDone (FALSE when sentTill is 0, where nobody reads it);         *)
(* entry: postponedRequestEntry.  No State is one that is as at first.     *)
(***************************************************************************)
Chat == [before : 0 .. MaxTill + 1, counted : BOOLEAN, will : Tills,
         when : Off .. Timeout, sentTill : Tills, done : BOOLEAN, entry : BOOLEAN,
         postponed : SUBSET Parts, sent : SUBSET Request]

\* _dialogRequestsPending, _dialogRequests, which of them have the callback of
\* readInbox, and whether sendDialogRequests is to be called.
Dialogs == [pending : SUBSET Chats, asked : SUBSET Chats, wants : SUBSET Chats,
            posted : BOOLEAN]

Init ==
  /\ chat = [c \in Chats |->
       [before |-> 0, counted |-> FALSE, will |-> 0, when |-> Off, sentTill |-> 0,
        done |-> FALSE, entry |-> FALSE, postponed |-> {}, sent |-> {}]]
  /\ timer = Off /\ entries = <<>>
  /\ dialogs = [pending |-> {}, asked |-> {}, wants |-> {}, posted |-> FALSE]
  /\ ghost = FALSE /\ stalled = FALSE /\ made = 0

\* The client, for what is done in one handler (of one value: n is computed once).
client == [chat |-> chat, timer |-> timer, dialogs |-> dialogs, stalled |-> stalled]
Becomes(m) ==
  \E n \in {m} :
    chat' = n.chat /\ timer' = n.timer /\ dialogs' = n.dialogs /\ stalled' = n.stalled

----------------------------------------------------------------------------
\* Requests.

postponeHistoryRequest(s) == \E r \in s.sent : r.type = "Delete"
postponeEntryRequest(s)   == \E r \in s.sent : r.type # "History"

Part(key) == [type |-> "History", key |-> key, till |-> 0]

\* Mutant: parts that are under way when a deletion begins stay under way.
takenBack_Not(s) == {}

\* What a deletion that begins takes back.
takenBack(s) ==
  IF postponeHistoryRequest(s) THEN {r \in s.sent : r.type = "History"} ELSE {}

\* Is an entry that is asked for to be asked for again?
heldBack(s, isAsked) == postponeEntryRequest(s) /\ isAsked

\* sendRequest, for a chat whose entry is asked for or not.
sendRequest(s, r, isAsked) ==
  IF r.type = "History" /\ postponeHistoryRequest(s)
  THEN [s EXCEPT !.postponed = @ \cup {r.key}]
  ELSE LET n == [s EXCEPT !.sent = @ \cup {r}]
       IN [n EXCEPT !.entry = @ \/ heldBack(n, isAsked),
                    !.postponed = @ \cup {x.key : x \in takenBack(n)},
                    !.sent = @ \ takenBack(n)]

Sends(m, c, r) == [m EXCEPT !.chat[c] = sendRequest(@, r, c \in m.dialogs.asked)]

\* Mutant: counts the chat that was just added.
postponeRequestDialogEntries_Late(d) ==
  [d EXCEPT !.posted = @ \/ Cardinality(d.pending) < 1]

\* postponeRequestDialogEntries: the call is posted for the first only.
postponeRequestDialogEntries(d) ==
  [d EXCEPT !.posted = @ \/ Cardinality(d.pending) <= 1]

\* requestDialogEntry.
requestDialogEntry(m, c, callback) ==
  LET d == [m.dialogs EXCEPT !.wants = IF callback THEN @ \cup {c} ELSE @]
  IN [m EXCEPT !.dialogs =
        IF c \in d.asked \cup d.pending THEN d
        ELSE postponeRequestDialogEntries([d EXCEPT !.pending = @ \cup {c}])]

\* Mutant: nothing is sent again.
released_Never(s) == {}

\* The parts that have not to wait any more.
released(s) == IF postponeHistoryRequest(s) THEN {} ELSE s.postponed

\* Mutant: the entry is not asked for again.
again_Never(s) == FALSE

\* Is the entry to be asked for again now?
again(s) == s.entry /\ ~postponeEntryRequest(s)

\* A chat whose request r is answered: the parts that had to wait for it are sent.
answered(s, r) ==
  LET left == [s EXCEPT !.sent = @ \ {r}]
  IN [left EXCEPT !.sent = @ \cup {Part(k) : k \in released(left)},
                  !.postponed = @ \ released(left)]

\* An entry that was asked for is pending.
pendsAgain(d, c) ==
  postponeRequestDialogEntries([d EXCEPT !.asked = @ \ {c}, !.pending = @ \cup {c}])

\* finishSentRequest: what had to wait for it goes on.
finishSentRequest(m, c, r) ==
  LET s == answered(m.chat[c], r)
      n == [m EXCEPT !.chat[c] = [s EXCEPT !.entry = @ /\ ~again(s)]]
  IN IF again(s) THEN [n EXCEPT !.dialogs = pendsAgain(@, c)] ELSE n

----------------------------------------------------------------------------
\* Reading.

setInboxReadTill(s, till) == [s EXCEPT !.before = Max({@, till + 1})]

\* sendReadRequest.
sendReadRequest(s, isAsked) ==
  sendRequest([s EXCEPT !.sentTill = s.will, !.will = 0, !.when = Off, !.done = FALSE],
              [type |-> "ReadInbox", key |-> None, till |-> s.will], isAsked)

\* Mutant: what is due just now is not sent.
due_After(s) == s.will # 0 /\ s.when < 0

due(s) == s.will # 0 /\ s.when <= 0

\* What is left to wait, for all that waits longer.
rest(m) ==
  LET later == {c \in Chats : m.chat[c].will # 0 /\ ~due(m.chat[c])}
  IN IF later = {} THEN Off ELSE Min({m.chat[c].when : c \in later})

\* sendReadRequests.  (When there is no State, the timer is off already.)
sendReadRequests(m) ==
  LET waits == \E c \in Chats : m.chat[c].will # 0
      sent(c) == IF due(m.chat[c]) THEN sendReadRequest(m.chat[c], c \in m.dialogs.asked)
                 ELSE m.chat[c]
  IN IF ghost THEN [m EXCEPT !.stalled = @ \/ (m.timer = Off /\ waits)]
     ELSE [m EXCEPT !.chat = [c \in Chats |-> sent(c)], !.timer = rest(m),
                    !.stalled = FALSE]

\* sendPendingReadInbox.
sendPendingReadInbox(m, c) ==
  IF m.chat[c].will # 0 /\ m.chat[c].when # Off
  THEN sendReadRequests([m EXCEPT !.chat[c].when = Off])
  ELSE m

\* What readInboxTill may find.  still: countStillUnreadLocal knows nothing, or
\* that there are no unread messages, as many as the chat has, or fewer.  mark:
\* how far setUnreadCount moves the mark, to the last message when no message is
\* left unread; 0 when there are some.  (Further pairs, and the numbers when
\* force is set, would make no other step.)
Finds(till, force) ==
  [still : {"unknown"}, mark : {0, till}]
    \cup [still : {"none"}, mark : till .. MaxTill]
    \cup [still : IF force THEN {} ELSE {"fewer", "same"}, mark : {0}]

alreadySent(s, till) == s.sentTill >= till

\* The chat is read that far, and how much is unread is known.
marked(m, c, till) ==
  [m EXCEPT !.chat[c] = [setInboxReadTill(@, till) EXCEPT !.counted = TRUE]]

\* The place till is what is to be sent next.
wanted(m, c, till, when) == [m EXCEPT !.chat[c] = [@ EXCEPT !.will = till, !.when = when]]

\* What readInboxTill sends or has sent later, and what it finds read.
readsTill(m, c, till, force, found) ==
  LET s     == m.chat[c]
      needs == till # 0 /\ s.before <= till
      sent  == sendReadRequests(wanted(m, c, till, Off))
  IN IF (~needs /\ ~force) \/ alreadySent(s, till) THEN m
     ELSE IF s.will >= till THEN IF force THEN sendPendingReadInbox(m, c) ELSE m
     ELSE IF ~needs /\ s.will = 0 THEN m
     ELSE IF ~force /\ s.counted /\ found.still = "same"
          THEN [m EXCEPT !.chat[c] = setInboxReadTill(@, till)]
     ELSE IF found.still = "unknown" THEN sent
     ELSE IF force \/ found.still = "none" THEN marked(sent, c, till)
     ELSE IF s.when = Off
          THEN marked([wanted(m, c, till, Timeout) EXCEPT !.timer = IF @ = Off THEN Timeout ELSE @],
                      c, till)
     ELSE marked(wanted(m, c, till, s.when), c, till)

\* readInboxTill, for a chat the user is in.
readInboxTill(m, c, till, force, found) ==
  LET n == readsTill(m, c, till, force, found)
  IN IF found.mark # 0 /\ n.chat[c].counted
     THEN [n EXCEPT !.chat[c] = setInboxReadTill(@, found.mark)] ELSE n

\* Mutant: what was sent is not forgotten when nothing is to be asked for.
finished_Kept(m, c, till) ==
  LET s == m.chat[c]
      n == [m EXCEPT !.chat[c].done = TRUE]
  IN IF s.sentTill # till THEN m
     ELSE IF s.counted /\ till + 1 <= s.before THEN n
     ELSE requestDialogEntry(n, c, FALSE)

\* finished, of sendReadRequest: with unreadCountRefreshNeeded the entry tells
\* how much is unread.
finished(m, c, till) ==
  LET s == m.chat[c]
  IN IF s.sentTill # till THEN m
     ELSE IF s.counted /\ till + 1 <= s.before
     THEN [m EXCEPT !.chat[c].sentTill = 0, !.chat[c].done = FALSE]
     ELSE requestDialogEntry([m EXCEPT !.chat[c].done = TRUE], c, FALSE)

\* History::inboxRead.
inboxRead(m, c, upTo, isKnown) ==
  LET n == IF isKnown THEN [m EXCEPT !.chat[c].counted = TRUE]
           ELSE requestDialogEntry(m, c, FALSE)
  IN [n EXCEPT !.chat[c] = setInboxReadTill(@, upTo)]

----------------------------------------------------------------------------
\* Dialog entries.

\* applyDialogFields.
applyDialogFields(s, read) ==
  IF read + 1 >= s.before THEN [setInboxReadTill(s, read) EXCEPT !.counted = TRUE] ELSE s

\* The last message that the callback of readInbox finds where one waits, and
\* what its readInboxTill does.
Calls(cs) ==
  IF cs \cap dialogs.wants = {} THEN {<<0, [still |-> "none", mark |-> 0]>>}
  ELSE UNION {{last} \X Finds(last, FALSE) : last \in Tills}

\* dialogEntryApplied.
dialogEntryApplied(m, c, call) ==
  LET d    == m.dialogs
      took == [m EXCEPT !.dialogs = [d EXCEPT !.pending = @ \ {c}, !.asked = @ \ {c},
                                              !.wants = @ \ {c}]]
      n    == IF c \in d.wants THEN readInboxTill(took, c, call[1], FALSE, call[2])
              ELSE took
      s    == n.chat[c]
  IN IF m.chat[c].entry THEN m
     ELSE IF s.sentTill # 0 /\ s.done
     THEN [n EXCEPT !.chat[c] = [setInboxReadTill(s, s.sentTill) EXCEPT !.sentTill = 0,
                                                                       !.done = FALSE]]
     ELSE n

\* applyDialog, for an entry that the server sent.
applyDialog(m, c, read, call) ==
  dialogEntryApplied([m EXCEPT !.chat[c] = applyDialogFields(@, read)], c, call)

\* applyPeerDialogs: for each chat that the answer has, read by chat.
applyPeerDialogs(m, read, call) ==
  LET applied(c, n) == applyDialog(n, c, read[c], call)
  IN FoldSet(applied, m, DOMAIN read)

\* finalize, of sendDialogRequests: for each chat that was asked for.
finalize(m, cs, call) ==
  LET applied(c, n) == dialogEntryApplied(n, c, call)
  IN FoldSet(applied, m, cs)

----------------------------------------------------------------------------
\* Actions.

\* The user reads a message; a message comes to a chat that is shown (force).
Read(c) ==
  \E till \in Tills \ {0}, force \in BOOLEAN :
    \E found \in Finds(till, force) :
      /\ Becomes(readInboxTill(client, c, till, force, found))
      /\ UNCHANGED <<entries, ghost, made>>

\* The entry is asked for; by readInbox, when the last message is not known, with
\* a callback.
AskEntry(c) ==
  \E callback \in BOOLEAN :
    /\ Becomes(requestDialogEntry(client, c, callback))
    /\ UNCHANGED <<entries, ghost, made>>

\* The chat is left: sendPendingReadInbox.
Leave(c) ==
  /\ Becomes(sendPendingReadInbox(client, c)) /\ UNCHANGED <<entries, ghost, made>>

\* applyInboxReadUpdate: the chat was read on another device, where it may have
\* moved to another folder.
ReadElsewhere(c) ==
  \E upTo \in Tills \ {0}, isKnown, isMoved \in BOOLEAN :
    LET m == IF isMoved THEN requestDialogEntry(client, c, FALSE) ELSE client
    IN /\ Becomes(IF chat[c].before <= upTo THEN inboxRead(m, c, upTo, isKnown) ELSE m)
       /\ UNCHANGED <<entries, ghost, made>>

\* Mutant: what does not wait is counted down, too.
Tick_All ==
  /\ timer > 0 /\ timer' = timer - 1
  /\ chat' = [c \in Chats |-> [chat[c] EXCEPT !.when = @ - 1]]
  /\ UNCHANGED <<dialogs, entries, ghost, stalled, made>>

\* Time passes.
Tick ==
  LET less(n) == IF n > 0 THEN n - 1 ELSE n
  IN /\ timer > 0 /\ timer' = timer - 1
     /\ chat' = [c \in Chats |-> [chat[c] EXCEPT !.when = less(@)]]
     /\ UNCHANGED <<dialogs, entries, ghost, stalled, made>>

Fire ==
  /\ timer = 0
  /\ Becomes(sendReadRequests([client EXCEPT !.timer = Off]))
  /\ UNCHANGED <<entries, ghost, made>>

Ghost ==
  /\ made < MaxMade /\ made' = made + 1 /\ ghost' = ~ghost
  /\ UNCHANGED <<chat, timer, dialogs, entries, stalled>>

\* sendDialogRequests.  What something is under way for is asked for after it.
sendDialogRequests ==
  LET held == {c \in dialogs.pending : postponeEntryRequest(chat[c])}
  IN /\ dialogs.posted /\ Len(entries) < MaxEntries
     /\ dialogs' = [dialogs EXCEPT !.pending = {}, !.asked = @ \cup dialogs.pending,
                                   !.posted = FALSE]
     /\ chat' = [c \in Chats |-> [chat[c] EXCEPT !.entry = @ \/ c \in held]]
     /\ entries' = IF dialogs.pending = {} THEN entries
                   ELSE Append(entries, dialogs.pending \ held)
     /\ UNCHANGED <<timer, ghost, stalled, made>>

\* The answer for the entries comes, or fails.
AnswerEntries(i) ==
  /\ entries' = RemoveAt(entries, i)
  /\ UNCHANGED <<ghost, made>>
  /\ \E got \in SUBSET entries[i], call \in Calls(entries[i]) :
       \E read \in [got -> Tills] :
         Becomes(finalize(applyPeerDialogs(client, read, call), entries[i], call))

\* A list of dialogs is loaded that has the chat.
LoadDialogs(c) ==
  \E read \in Tills, call \in Calls({c}) :
    /\ Becomes(applyDialog(client, c, read, call))
    /\ UNCHANGED <<entries, ghost, made>>

\* The user has a part of the history shown, sends or deletes.
Make(c) ==
  \E r \in {Part(k) : k \in Parts}
           \cup [type : {"Delete", "Send"}, key : Keys, till : {0}] :
    /\ made < MaxMade /\ made' = made + 1
    /\ \A x \in chat[c].sent : x.key # r.key
    /\ r.key \notin chat[c].postponed
    /\ Becomes(Sends(client, c, r))
    /\ UNCHANGED <<entries, ghost>>

\* cancelRequest, for a part.
Cancel(c) ==
  \E k \in Parts :
    /\ k \in chat[c].postponed \/ Part(k) \in chat[c].sent
    /\ Becomes(finishSentRequest([client EXCEPT !.chat[c].postponed = @ \ {k}], c, Part(k)))
    /\ UNCHANGED <<entries, ghost, made>>

\* What the user asked for is answered, or fails.
Answer(c) ==
  /\ UNCHANGED <<entries, ghost, made>>
  /\ \E r \in chat[c].sent :
       r.type # "ReadInbox" /\ Becomes(finishSentRequest(client, c, r))

\* There is more to delete: the next deletion begins before this one is finished.
DeleteMore(c) ==
  \E r, n \in [type : {"Delete"}, key : Keys, till : {0}] :
    /\ made < MaxMade /\ made' = made + 1
    /\ r \in chat[c].sent /\ \A x \in chat[c].sent : x.key # n.key
    /\ Becomes(finishSentRequest(Sends(client, c, n), c, r))
    /\ UNCHANGED <<entries, ghost>>

\* A reading is answered, or fails.
AnswerRead(c) ==
  /\ UNCHANGED <<entries, ghost, made>>
  /\ \E r \in chat[c].sent :
       /\ r.type = "ReadInbox"
       /\ Becomes(finishSentRequest(sendReadRequests(finished(client, c, r.till)), c, r))

Next ==
  \/ \E c \in Chats : \/ Read(c) \/ AskEntry(c) \/ Leave(c) \/ ReadElsewhere(c)
                      \/ LoadDialogs(c) \/ Make(c) \/ Cancel(c) \/ Answer(c)
                      \/ DeleteMore(c) \/ AnswerRead(c)
  \/ Tick \/ Fire \/ Ghost \/ sendDialogRequests
  \/ \E i \in 1 .. Len(entries) : AnswerEntries(i)

Spec == Init /\ [][Next]_vars

\* Time passes, the timer and the posted call come, and what is asked for is
\* answered or fails in the end.
Fairness ==
  /\ WF_vars(Tick \/ Fire) /\ WF_vars(sendDialogRequests)
  /\ WF_vars(entries # <<>> /\ AnswerEntries(1))
  /\ WF_vars(\E c \in Chats : Answer(c) \/ AnswerRead(c))

FairSpec == Spec /\ Fairness

----------------------------------------------------------------------------
\* Properties.

TypeOK ==
  /\ chat \in [Chats -> Chat] /\ timer \in Off .. Timeout /\ dialogs \in Dialogs
  /\ entries \in Seq(SUBSET Chats) /\ Len(entries) <= MaxEntries
  /\ ghost \in BOOLEAN /\ stalled \in BOOLEAN /\ made \in 0 .. MaxMade

\* While a deletion is under way no part of the history is (its answer might
\* bring back what is deleted), and without one no part has to wait: whichever
\* of several deletions ends last sends them.
DeletionAlone ==
  \A c \in Chats :
    /\ postponeHistoryRequest(chat[c]) => \A r \in chat[c].sent : r.type # "History"
    /\ chat[c].postponed # {} => postponeHistoryRequest(chat[c])

\* An entry that has to be asked for again is one that was asked for, is not
\* asked for yet, and waits for something that is under way (the assertions of
\* finishSentRequest).
AgainIsDue ==
  \A c \in Chats : chat[c].entry =>
    c \in dialogs.asked \ dialogs.pending /\ postponeEntryRequest(chat[c])

\* Somebody will answer for each entry: the posted call for those that are
\* pending; for those asked for a request under way, or they are asked for again.
EntryIsBacked ==
  /\ AgainIsDue
  /\ dialogs.pending # {} => dialogs.posted
  /\ \A c \in dialogs.asked :
       chat[c].entry \/ \E i \in 1 .. Len(entries) : c \in entries[i]

\* The places a chat is sent as read up to ascend (the assertions of
\* sendReadRequest): no request under way is ahead of the last, and what is sent
\* next is ahead of it.
ReadsAscend ==
  \A c \in Chats :
    LET s == chat[c]
    IN /\ s.will # 0 => s.will > s.sentTill
       /\ \A r \in s.sent : r.type = "ReadInbox" => s.sentTill = 0 \/ s.sentTill >= r.till

\* sentReadTill, which keeps from sending what is not ahead of it, is not left
\* behind: the request is under way, or done and the entry asked for.
SentIsBacked ==
  \A c \in Chats :
    LET s == chat[c]
    IN s.sentTill # 0 =>
         IF s.done THEN c \in dialogs.pending \cup dialogs.asked
         ELSE \E r \in s.sent : r.type = "ReadInbox" /\ r.till = s.sentTill

\* A chat that is to be sent as read has the timer running for it, one timer for
\* all and in time for each, unless ghost mode kept it from being set.
ReadIsWatched ==
  stalled \/ \A c \in Chats : chat[c].will # 0 =>
    timer # Off /\ (chat[c].when = Off \/ timer <= chat[c].when)

\* What will be sent as read and what was sent agree with the requests under way
\* and with the timer, through readings, answers and entries in any order.
ReadsTracked == ReadsAscend /\ SentIsBacked /\ ReadIsWatched

\* What is to be sent as read is sent, ghost mode apart.
ReadIsSent ==
  \A c \in Chats : chat[c].will # 0 ~> (chat[c].will = 0 \/ ghost \/ stalled)

\* An entry that is asked for is answered, however often it is asked for again.
EntryIsAnswered ==
  \A c \in Chats : c \in dialogs.pending \cup dialogs.asked
                   ~> c \notin dialogs.pending \cup dialogs.asked

\* A part of the history that waits for deletions is sent, or not wanted any more.
PartIsSent ==
  \A c \in Chats, k \in Parts : k \in chat[c].postponed ~> k \notin chat[c].postponed
=============================================================================
