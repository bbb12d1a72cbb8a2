----------------------------- MODULE MtpSession -----------------------------
(***************************************************************************)
(* One MTP session: the requests of the main thread (Session, SessionData, *)
(* mtproto/session.cpp) and the thread that sends them and handles what    *)
(* the server says (SessionPrivate, mtproto/session_private.cpp).          *)
(*                                                                         *)
(* A request waits in _toSend until it gets a message id and goes into     *)
(* _haveSent, where it stays until its answer comes; it goes back from     *)
(* there when the connection is new, the server lost it or refused it.  It *)
(* keeps its message id, by which the server knows it again, unless the    *)
(* session is a new one.                                                   *)
(*                                                                         *)
(* A handler of either thread is a step, except where it lets go of one    *)
(* lock before it takes another: resend and resendAll take requests out of *)
(* _haveSent and then put them into _toSend, cancel removes a request from *)
(* the one and then from the other, and may miss one that is being sent.   *)
(*                                                                         *)
(* The connection keeps the order of messages and loses all that are under *)
(* way when it breaks.  The server is external.  Time is not modelled: a   *)
(* timer that is set may fire.  Every clock is right, so message ids grow. *)
(***************************************************************************)
EXTENDS ReceivedIds, Sequences, SequencesExt

CONSTANTS
  Requests,   \* the requests, by their ids
  AckedSize,  \* kIdsBufferSize, for the ids of acknowledged requests
  WindowSize, \* kIdsBufferSize, for the ids of received messages
  Cut,        \* may requests be too long for one container?
  Acks,       \* may the server acknowledge what it takes, may it not?
  Cancels,    \* the requests that may be cancelled
  FaultKinds, \* what may go wrong
  MaxFaults,  \* bound on how often it does
  MaxId,      \* bound on the client's message ids
  MaxDown     \* bound on the messages under way from the server

ASSUME RequestsAssumption == Requests \subseteq Nat \ {0} /\ IsFiniteSet(Requests)
ASSUME SizesAssumption ==
  AckedSize \in Nat \ {0} /\ WindowSize \in Nat \ {0} /\ Cut \in BOOLEAN
ASSUME FaultsAssumption ==
  /\ Cancels \subseteq Requests /\ Acks \subseteq BOOLEAN
  /\ FaultKinds \subseteq
       {"break", "salt", "forget", "resend", "reset", "fatal", "old"}
ASSUME BoundsAssumption == MaxFaults \in Nat /\ MaxId \in Nat /\ MaxDown \in Nat

VARIABLES
  made,       \* the requests sendPrepared was called for
  waiting,    \* the requests whose callback is to be called (_parserMap)
  cancelling, \* the request being cancelled, if any, and the message id it had
  replies,    \* _haveReceived: the requests whose answer waits for the main thread
  mark,       \* in each request: its message id, and whose seq_no it has
  forced,     \* the requests with forceSendInContainer
  q,          \* the maps of requests and of message ids
  hand,       \* requests taken from _haveSent and not yet put into _toSend
  todo,       \* message ids still to be resent by the present handler
  link,       \* the connection and what SessionPrivate has to say on it
  received,   \* _receivedMessageIds
  nextId,     \* the client's next message id
  down,       \* the messages under way from the server
  server,     \* the server's side of the session
  faults,     \* how much went wrong
  handled,    \* history: the server's messages handled in this session, and
              \* whether one of them was handled twice
  ran         \* history: what the server ran in its session: ids and requests

main    == <<made, waiting, cancelling, replies>>
private == <<mark, forced, q, hand, todo, link, received, nextId>>
history == <<handled, ran>>
vars == <<main, private, down, server, faults, history>>

None == 0
Ids  == 1 .. MaxId

(***************************************************************************)
(* toSend, haveSent: the requests in those maps; the latter is by message  *)
(* id, which is the one in the request.  resending, acked: message id to   *)
(* request.  containers: message id to the ids of the messages in it.      *)
(***************************************************************************)
Maps == [toSend : SUBSET Requests, haveSent : SUBSET Requests,
         resending : [Ids -> Requests \cup {None}],
         acked : [Ids -> Requests \cup {None}],
         containers : [Ids -> SUBSET Ids]]

(***************************************************************************)
(* state: Off, or Waiting for the first salt, or On (ConnectedState);      *)
(* broken: nothing comes through any more; session: _sessionId; started:   *)
(* _sessionMarkedAsStarted; salt: whether the server's salt was ever       *)
(* learnt, and which; sendDue: tryToSend is on its way through             *)
(* sendAnything and needToResumeAndSend; checkDue:                         *)
(* _checkSentRequestsTimer; toAck, askAgain, askState: _ackRequestData,    *)
(* _resendRequestData, _stateRequestData.                                  *)
(***************************************************************************)
Link == [state : {"Off", "Waiting", "On"}, broken : BOOLEAN, session : Nat,
         started : BOOLEAN, salt : Nat, sendDue : BOOLEAN, checkDue : BOOLEAN,
         toAck : SUBSET Nat, askAgain : SUBSET Nat, askState : SUBSET Ids]

NotCancelling == [request |-> None, id |-> None]

\* An answer is the id of what it is for, and its own.
Answer == Ids \X Nat

Server == [session : Nat, salt : Nat, seen : SUBSET Ids, pending : SUBSET Ids,
           answers : SUBSET Answer, nextMid : Nat]

\* A message from the server: its id and that of the container it is in, what
\* it is, the client's messages and the server's own that it is about.
Kinds == {"result", "ack", "detailed", "states", "newSession", "badSalt",
          "resend", "reset", "fatal"}
Packet == [outer : Nat, mid : Nat, kind : Kinds, ids : SUBSET Ids,
           got : SUBSET Nat, salt : Nat]

Init ==
  /\ made = {} /\ waiting = {} /\ cancelling = NotCancelling /\ replies = <<>>
  /\ mark = [r \in Requests |-> [id |-> None, session |-> None]]
  /\ forced = {} /\ hand = {} /\ todo = {}
  /\ q = [toSend |-> {}, haveSent |-> {}, resending |-> [i \in Ids |-> None],
          acked |-> [i \in Ids |-> None], containers |-> [i \in Ids |-> {}]]
  /\ link = [state |-> "Off", broken |-> FALSE, session |-> 1, started |-> FALSE, salt |-> 0,
             sendDue |-> FALSE, checkDue |-> FALSE,
             toAck |-> {}, askAgain |-> {}, askState |-> {}]
  /\ received = {} /\ nextId = 1
  /\ down = <<>>
  /\ server = [session |-> 0, salt |-> 1, seen |-> {}, pending |-> {},
               answers |-> {}, nextMid |-> 1]
  /\ faults = 0 /\ handled = [ids |-> {}, twice |-> FALSE] /\ ran = {}

----------------------------------------------------------------------------
\* The maps.

Idle == hand = {} /\ todo = {}

Known(map) == {i \in Ids : map[i] # None}

\* The requests of m.haveSent that have one of these message ids.
sentAs(m, ids) == {r \in m.haveSent : mark[r].id \in ids}

\* Whose message it was, as far as it is remembered.
wasSent(m, id) ==
  IF m.resending[id] # None THEN m.resending[id]
  ELSE IF m.acked[id] # None THEN m.acked[id]
  ELSE IF sentAs(m, {id}) # {} THEN CHOOSE r \in sentAs(m, {id}) : TRUE
  ELSE None
\* Requests and containers count as sent.
known(m, id) == wasSent(m, id) # None \/ m.containers[id] # {}

\* _ackedIds loses its smallest ids when there are too many.
trimmed(map) == [i \in Ids |-> IF i \in Newest(Known(map), AckedSize)
                               THEN map[i] ELSE None]

\* Mutant: an acknowledgement is as good as an answer.
settled_ByAck(m, ids, byResponse) ==
  LET sent  == sentAs(m, ids)
      again == {i \in ids : sentAs(m, {i}) = {} /\ m.resending[i] # None}
      taken == {i \in again : m.resending[i] \in m.toSend}
  IN [toSend |-> m.toSend \ {m.resending[i] : i \in again},
      haveSent |-> m.haveSent \ sent,
      resending |-> [i \in Ids |-> IF i \in again THEN None ELSE m.resending[i]],
      acked |-> trimmed([i \in Ids |->
        IF m.acked[i] # None THEN m.acked[i]
        ELSE IF \E r \in sent : mark[r].id = i
             THEN CHOOSE r \in sent : mark[r].id = i
        ELSE IF i \in taken THEN m.resending[i] ELSE None]),
      containers |-> m.containers]

\* requestsAcked for messages that are no containers.  A request that waits
\* for its answer does not go at a mere acknowledgement.
settled(m, ids, byResponse) ==
  LET May(r) == byResponse \/ r \notin waiting
      sent   == {r \in sentAs(m, ids) : May(r)}
      again  == {i \in ids : /\ sentAs(m, {i}) = {} /\ m.resending[i] # None
                             /\ May(m.resending[i])}
      taken  == {i \in again : m.resending[i] \in m.toSend}
  IN [toSend |-> m.toSend \ {m.resending[i] : i \in again},
      haveSent |-> m.haveSent \ sent,
      resending |-> [i \in Ids |-> IF i \in again THEN None ELSE m.resending[i]],
      acked |-> trimmed([i \in Ids |->
        IF m.acked[i] # None THEN m.acked[i]
        ELSE IF \E r \in sent : mark[r].id = i
             THEN CHOOSE r \in sent : mark[r].id = i
        ELSE IF i \in taken THEN m.resending[i] ELSE None]),
      containers |-> m.containers]

\* A container's acknowledgement is one of each message in it.
requestsAcked(m, ids, byResponse) ==
  LET boxes == {i \in ids : m.containers[i] # {}}
      inner == UNION {m.containers[i] : i \in boxes}
      outer == settled([m EXCEPT !.containers =
                          [i \in Ids |-> IF i \in boxes THEN {} ELSE @[i]]],
                       ids \ boxes, byResponse)
  IN IF inner = {} THEN outer ELSE settled(outer, inner, FALSE)

----------------------------------------------------------------------------
\* The main thread.

\* Session::sendPrepared for a new request.
sendPrepared(r) ==
  /\ r \notin made /\ \A s \in Requests : s < r => s \in made
  /\ made' = made \cup {r}
  /\ waiting' = waiting \cup {r}
  /\ q' = [q EXCEPT !.toSend = @ \cup {r}]
  /\ link' = [link EXCEPT !.sendDue = TRUE]
  /\ UNCHANGED <<cancelling, replies, mark, forced, hand, todo, received, nextId,
                 down, server, faults, history>>

\* Instance::cancel, and Session::cancel up to its second lock.  The message id
\* is read before the first lock, and tryToSend lets go of _toSend before it
\* locks _haveSent: a request that is being sent meanwhile is found nowhere.
cancel(r) ==
  /\ r \in waiting \cap Cancels /\ cancelling = NotCancelling
  /\ \E id \in {mark[r].id} \cup (IF r \in q.haveSent THEN {None} ELSE {}) :
       cancelling' = [request |-> r, id |-> id]
  /\ q' = [q EXCEPT !.toSend = @ \ {r}]
  /\ UNCHANGED <<made, waiting, replies, mark, forced, hand, todo, link, received, nextId,
                 down, server, faults, history>>

\* The rest of both.
CancelSent ==
  /\ cancelling # NotCancelling
  /\ q' = [q EXCEPT !.haveSent = @ \ sentAs(q, {cancelling.id})]
  /\ waiting' = waiting \ {cancelling.request}
  /\ cancelling' = NotCancelling
  /\ UNCHANGED <<made, replies, mark, forced, hand, todo, link, received,
                 nextId, down, server, faults, history>>

\* Session::tryToReceive and Instance::processCallback, for one answer.
tryToReceive ==
  /\ replies # <<>> /\ cancelling = NotCancelling
  /\ replies' = Tail(replies)
  /\ waiting' = waiting \ {Head(replies)}
  /\ UNCHANGED <<made, cancelling, private, down, server, faults, history>>

----------------------------------------------------------------------------
\* Sending.

\* What of _toSend goes now: all of it, or as much as one container takes.
Batches == IF Cut /\ q.toSend # {}
           THEN {b \in SUBSET q.toSend :
                  b # {} /\ \A r \in b, s \in q.toSend : s < r => s \in b}
           ELSE {q.toSend}

\* Mutants: a new session keeps the old ids; every sending makes a new id.
renumbered_Once(batch)   == {r \in batch : mark[r].id = None}
renumbered_Always(batch) == batch

\* prepareToSend and replaceMsgId: a request gets a message id when it has
\* none, and another one when the session is new.
renumbered(batch) == {r \in batch : mark[r].id = None \/ ~link.started}
newId(batch, r)   == nextId + Cardinality({s \in renumbered(batch) : s < r})
marked(batch) ==
  [r \in Requests |-> IF r \in renumbered(batch)
                      THEN [id |-> newId(batch, r), session |-> link.session]
                      ELSE mark[r]]

\* Old message ids give way to new ones wherever they are remembered.
Moved(batch, id) ==
  IF \E r \in renumbered(batch) : mark[r].id = id
  THEN LET r == CHOOSE r \in renumbered(batch) : mark[r].id = id
       IN newId(batch, r)
  ELSE id
replacedIds(batch) ==
  [resending |-> [i \in Ids |-> IF \E r \in batch : mark[r].id = i THEN None
                                ELSE q.resending[i]],
   acked |-> [i \in Ids |->
     IF \E j \in Known(q.acked) : Moved(batch, j) = i
     THEN q.acked[CHOOSE j \in Known(q.acked) : Moved(batch, j) = i] ELSE None],
   containers |-> [i \in Ids |-> {Moved(batch, j) : j \in q.containers[i]}]]

\* Does it take a container: several messages, or one that must be in one?
\* (What has no request in it may as well; its id is never asked for.)
InContainer(batch) ==
  LET services == (IF link.toAck # {} THEN 1 ELSE 0)
                  + (IF link.askAgain # {} THEN 1 ELSE 0)
                  + (IF link.askState # {} THEN 1 ELSE 0)
  IN batch = {} \/ Cardinality(batch) + services > 1 \/ batch \cap forced # {}

\* The message tryToSend makes of a batch and of what else is to be said.
\* One with nothing in it is a ping.
Message(batch) ==
  [outer |-> IF InContainer(batch)
             THEN nextId + Cardinality(renumbered(batch))
             ELSE marked(batch)[CHOOSE r \in batch : TRUE].id,
   items |-> {<<marked(batch)[r].id, r>> : r \in batch},
   session |-> link.session, salt |-> link.salt,
   acks |-> link.toAck, again |-> link.askAgain, states |-> link.askState]

\* The link after it: what there was to say has been said.
said(batch) ==
  [link EXCEPT !.started = TRUE, !.sendDue = batch # q.toSend,
               !.checkDue = @ \/ (InContainer(batch) /\ batch # {}),
               !.toAck = {}, !.askAgain = {}, !.askState = {}]

\* tryToSend, when connected.
Send(batch) ==
  LET box   == nextId + Cardinality(renumbered(batch))
      boxed == InContainer(batch)
      moved == replacedIds(batch)
  IN /\ box <= MaxId
     /\ mark' = marked(batch)
     /\ q' = [toSend |-> q.toSend \ batch, haveSent |-> q.haveSent \cup batch,
              resending |-> moved.resending, acked |-> moved.acked,
              containers |->
                IF boxed
                THEN [moved.containers EXCEPT ![box] = {mark'[r].id : r \in batch}]
                ELSE moved.containers]
     /\ nextId' = IF boxed /\ batch # {} THEN box + 1 ELSE box
     /\ link' = said(batch)
     /\ UNCHANGED <<main, forced, hand, todo, received>>

\* sendPingByTimer, when nothing has been said for long.
sendPingByTimer ==
  /\ Idle /\ link.state = "On" /\ ~link.broken /\ ~link.sendDue /\ down = <<>>
  /\ link' = [link EXCEPT !.sendDue = TRUE]
  /\ UNCHANGED <<main, mark, forced, q, hand, todo, received, nextId,
                 down, server, faults, history>>

\* checkSentRequests: what has become of the requests sent some time ago?
checkSentRequests ==
  /\ Idle /\ link.checkDue /\ ~link.broken /\ down = <<>>
  /\ link' = [link EXCEPT !.checkDue = FALSE,
                          !.askState = @ \cup {mark[r].id : r \in q.haveSent},
                          !.sendDue = @ \/ q.haveSent # {}]
  /\ UNCHANGED <<main, mark, forced, q, hand, todo, received, nextId,
                 down, server, faults, history>>

\* Mutant: a request to be resent stays where it was, too.
ResendPut_Shared ==
  /\ hand # {}
  /\ q' = [q EXCEPT !.toSend = @ \cup hand, !.haveSent = @ \cup hand]
  /\ forced' = forced \cup hand
  /\ hand' = {}
  /\ link' = [link EXCEPT !.sendDue = TRUE]
  /\ UNCHANGED <<main, mark, todo, received, nextId, down, server, faults, history>>

\* resend: a request is taken out of _haveSent, or the container opened...
ResendTake ==
  /\ hand = {}
  /\ \E id \in todo :
       IF q.containers[id] # {}
       THEN /\ todo' = (todo \ {id}) \cup q.containers[id]
            /\ q' = [q EXCEPT !.containers[id] = {}]
            /\ UNCHANGED hand
       ELSE /\ todo' = todo \ {id}
            /\ hand' = sentAs(q, {id})
            /\ q' = [q EXCEPT !.haveSent = @ \ hand']
  /\ link' = [link EXCEPT !.sendDue = TRUE]
  /\ UNCHANGED <<main, mark, forced, received, nextId, down, server, faults, history>>

\* ...and put into _toSend, here and in resendAll.
ResendPut ==
  /\ hand # {}
  /\ q' = [q EXCEPT !.toSend = @ \cup hand,
                    !.resending = [i \in Ids |->
                      IF \E r \in hand : mark[r].id = i
                      THEN CHOOSE r \in hand : mark[r].id = i ELSE @[i]]]
  /\ forced' = forced \cup hand
  /\ hand' = {}
  /\ link' = [link EXCEPT !.sendDue = TRUE]
  /\ UNCHANGED <<main, mark, todo, received, nextId, down, server, faults, history>>

\* clearOldContainers, for one that is not acknowledged in ten minutes.
clearOldContainers ==
  /\ Idle /\ "old" \in FaultKinds /\ faults < MaxFaults
  /\ \E id \in Ids :
       /\ q.containers[id] # {}
       /\ todo' = q.containers[id]
       /\ q' = [q EXCEPT !.containers[id] = {}]
  /\ faults' = faults + 1
  /\ UNCHANGED <<main, mark, forced, hand, link, received, nextId, down, server, history>>

----------------------------------------------------------------------------
\* Receiving.

\* restart, with resetSession when the session is to be a new one: the
\* connection is gone, and with it what is under way.
closed(l) == [l EXCEPT !.state = "Off", !.broken = FALSE]
changeSessionId(l) ==
  [l EXCEPT !.session = @ + 1, !.started = FALSE,
            !.toAck = {}, !.askAgain = {}, !.askState = {}]

\* What msg_id and message id tell before the message is looked into: the
\* packet may be a container, with one message that has an older id.
Register(m) ==
  LET first == registerMsgId(received, m.outer, WindowSize)
      ids   == registered(received, m.outer, WindowSize)
  IN IF first # Success \/ m.mid = m.outer
     THEN [result |-> first, ids |-> ids]
     ELSE [result |-> registerMsgId(ids, m.mid, WindowSize),
           ids |-> registered(ids, m.mid, WindowSize)]

\* handleOneReceived: what a message does to the maps, ...
acted(m) ==
  CASE m.kind = "result" -> requestsAcked(q, m.ids, TRUE)
    [] m.kind \in {"ack", "detailed"} -> requestsAcked(q, m.ids, FALSE)
    [] m.kind = "states" ->
         requestsAcked(q, {i \in m.ids \cap m.got : sentAs(q, {i}) # {}
                                                    \/ q.resending[i] # None}, FALSE)
    [] OTHER -> q
\* ...which messages it makes the client resend, ...
resent(m) ==
  CASE m.kind \in {"resend", "badSalt"} -> {i \in m.ids : known(q, i)}
    [] m.kind = "states" -> {i \in m.ids \ m.got : sentAs(q, {i}) # {}}
    [] m.kind = "newSession" ->
         {mark[r].id : r \in {s \in q.haveSent : \A i \in m.ids : mark[s].id < i}}
    [] OTHER -> {}
\* Mutant: an answer to a message that is not known is passed on.
answered_Unknown(m) ==
  CASE m.kind = "result" -> {wasSent(acted(m), i) : i \in m.ids}
    [] m.kind = "fatal" -> {wasSent(q, i) : i \in m.ids} \ {None}
    [] OTHER -> {}
\* ...and for which requests it is an answer.
answered(m) ==
  CASE m.kind = "result" -> {wasSent(acted(m), i) : i \in m.ids} \ {None}
    [] m.kind = "fatal" -> {wasSent(q, i) : i \in m.ids} \ {None}
    [] OTHER -> {}
\* Must the session be a new one after it?
resets(m) == m.kind = "reset" /\ \E i \in m.ids : known(q, i)

\* The link after a message has been handled.
heard(m) ==
  [link EXCEPT
    !.salt = m.salt,
    !.toAck = IF m.kind = "result" THEN @ \cup {m.mid}
              ELSE IF m.kind = "detailed" THEN @ \cup (m.got \cap received)
              ELSE @,
    !.askAgain = IF m.kind = "detailed" THEN @ \cup (m.got \ received) ELSE @,
    !.sendDue = @ \/ link.toAck # {} \/ m.kind = "result"
                  \/ (m.kind = "detailed" /\ m.got \cap received # {})]

\* handleReceived for the next packet.  Its salt is taken whatever its id is.
handleReceived ==
  /\ Idle /\ link.state = "On" /\ down # <<>>
  /\ LET m == Head(down)
         r == Register(m)
         reset == r.result = TooOld \/ (r.result = Success /\ resets(m))
         salted == [link EXCEPT !.salt = m.salt]
     IN /\ IF r.result = Success
           THEN /\ q' = acted(m)
                /\ replies' = replies \o SetToSeq(answered(m))
                /\ todo' = IF reset THEN {} ELSE resent(m)
           ELSE UNCHANGED <<q, replies, todo>>
        /\ IF reset
           THEN /\ link' = changeSessionId(closed(salted))
                /\ received' = {} /\ handled' = [handled EXCEPT !.ids = {}]
                /\ down' = <<>>
           ELSE /\ received' \in shrink(r.ids, WindowSize)
                /\ link' = IF r.result = Success THEN heard(m)
                           ELSE [salted EXCEPT !.toAck = IF m.kind = "result"
                                                         THEN @ \cup {m.mid} ELSE @,
                                               !.sendDue = @ \/ m.kind = "result"]
                /\ handled' = IF r.result = Success
                              THEN [ids |-> handled.ids \cup {m.mid},
                                    twice |-> handled.twice \/ m.mid \in handled.ids]
                              ELSE handled
                /\ down' = Tail(down)
  /\ UNCHANGED <<made, waiting, cancelling, mark, forced, hand, nextId, server, faults, ran>>

\* Mutant: what was sent on the last connection is not sent again.
Connect_Fresh ==
  /\ Idle /\ link.state = "Off"
  /\ link' = [link EXCEPT !.state = IF link.salt = 0 THEN "Waiting" ELSE "On",
                          !.sendDue = link.salt # 0]
  /\ UNCHANGED <<main, mark, forced, q, hand, todo, received, nextId, down,
                 server, faults, history>>

\* The connection is made (authKeyChecked).  Until the first salt is known
\* nothing but a ping is sent.
Connect ==
  /\ Idle /\ link.state = "Off"
  /\ IF link.salt = 0
     THEN /\ link' = [link EXCEPT !.state = "Waiting"]
          /\ UNCHANGED <<q, hand>>
     ELSE /\ link' = [link EXCEPT !.state = "On", !.sendDue = TRUE]
          /\ hand' = q.haveSent
          /\ q' = [q EXCEPT !.haveSent = {}]
  /\ UNCHANGED <<main, mark, forced, todo, received, nextId, down, server, faults, history>>

\* The answer to that ping brings the salt.
LearnSalt ==
  /\ Idle /\ link.state = "Waiting"
  /\ link' = [link EXCEPT !.state = "On", !.salt = server.salt, !.sendDue = TRUE]
  /\ hand' = q.haveSent
  /\ q' = [q EXCEPT !.haveSent = {}]
  /\ UNCHANGED <<main, mark, forced, todo, received, nextId, down, server, faults, history>>

\* The connection breaks...
Break ==
  /\ "break" \in FaultKinds /\ faults < MaxFaults
  /\ link.state = "On" /\ ~link.broken
  /\ link' = [link EXCEPT !.broken = TRUE]
  /\ down' = <<>>
  /\ faults' = faults + 1
  /\ UNCHANGED <<main, mark, forced, q, hand, todo, received, nextId, server, history>>

\* ...and the client finds out (onDisconnected, waitReceivedFailed).
Disconnect ==
  /\ Idle /\ link.broken
  /\ link' = closed(link)
  /\ UNCHANGED <<main, mark, forced, q, hand, todo, received, nextId, down, server,
                 faults, history>>

----------------------------------------------------------------------------
(***************************************************************************)
(* The server (external).  It runs a request once per message id, keeps    *)
(* the answer until it is acknowledged, tells it again when the message    *)
(* comes again, and speaks of a new session when it knows the client's no  *)
(* more.  Each of its messages has an id; what it tells again comes in a   *)
(* container with an id of its own.                                        *)
(***************************************************************************)

Body(kind, ids, got, mid) == [kind |-> kind, ids |-> ids, got |-> got, mid |-> mid]

\* The bodies as messages, with the next ids.
Packets(bodies) ==
  [i \in DOMAIN bodies |->
    LET outer == server.nextMid + i - 1
    IN [outer |-> outer, mid |-> IF bodies[i].mid = 0 THEN outer ELSE bodies[i].mid,
        kind |-> bodies[i].kind, ids |-> bodies[i].ids, got |-> bodies[i].got,
        salt |-> server.salt]]

Says(s, bodies) ==
  /\ Len(down) < MaxDown
  /\ down' = down \o Packets(bodies)
  /\ server' = [s EXCEPT !.nextMid = @ + Len(bodies)]

\* What the server tells of an answer it has told before: all, or where to
\* find it.
Retold(a, large) ==
  IF large THEN Body("detailed", {a[1]}, {a[2]}, 0) ELSE Body("result", {a[1]}, {}, a[2])

\* A message arrives and is taken.
Takes(m) ==
  LET new   == m.session # server.session
      ids   == {item[1] : item \in m.items}
  IN \E ack \in Acks \cup {FALSE}, large \in BOOLEAN,
        first \in {m.outer} \cup {i \in ids : \A j \in ids : i <= j} :
    LET s     == IF new THEN [server EXCEPT !.session = m.session, !.seen = {},
                                            !.pending = {}, !.answers = {}]
                 ELSE server
        kept  == {a \in s.answers : a[2] \notin m.acks}
        again == {a \in kept : a[1] \in ids}
        asked == {a \in kept : a[2] \in m.again}
    IN /\ m.salt = server.salt
       /\ ids # {} => ack \in Acks
       /\ ack => ids # {}
       /\ large => again # {}
       /\ ~new => first = m.outer
       /\ Says([s EXCEPT !.seen = @ \cup ids,
                         !.pending = @ \cup (ids \ s.seen),
                         !.answers = kept],
               (IF new THEN <<Body("newSession", {first}, {}, 0)>> ELSE <<>>)
               \o (IF ack THEN <<Body("ack", {m.outer}, {}, 0)>> ELSE <<>>)
               \o SetToSeq({Retold(a, large) : a \in again \ asked}
                           \cup {Retold(a, FALSE) : a \in asked})
               \o (IF m.states # {}
                   THEN <<Body("states", m.states, m.states \cap (s.seen \cup ids), 0)>>
                   ELSE <<>>))
       /\ ran' = (IF new THEN {} ELSE ran) \cup {i \in m.items : i[1] \notin s.seen}
       /\ UNCHANGED <<faults, handled>>

\* It has a salt the server does not use any more.
WantsSalt(m) ==
  /\ m.salt # server.salt
  /\ Says(server, <<Body("badSalt", IF m.items = {} THEN {} ELSE {m.outer}, {}, 0)>>)
  /\ UNCHANGED <<faults, history>>

\* It is refused: bad_msg_notification, by what the client makes of its
\* error_code.
Refuses(m) ==
  /\ m.items # {} /\ faults < MaxFaults
  /\ \E kind \in FaultKinds \cap {"resend", "reset", "fatal"} :
       Says(server, <<Body(kind, {m.outer}, {}, 0)>>)
  /\ faults' = faults + 1
  /\ UNCHANGED history

\* The client sends, and the message arrives before anything else happens,
\* or the connection is broken and the client does not know it yet.
tryToSend ==
  /\ Idle /\ link.state = "On" /\ link.sendDue
  /\ \E batch \in Batches :
       /\ Send(batch)
       /\ IF link.broken THEN UNCHANGED <<down, server, faults, history>>
          ELSE LET m == Message(batch)
               IN Takes(m) \/ WantsSalt(m) \/ Refuses(m)

ServerAnswers ==
  /\ \E id \in server.pending :
       Says([server EXCEPT !.pending = @ \ {id},
                           !.answers = @ \cup {<<id, server.nextMid>>}],
            <<Body("result", {id}, {}, 0)>>)
  /\ link.state = "On" /\ ~link.broken
  /\ UNCHANGED <<main, private, faults, history>>

\* Another salt, and the server forgets the session.
ServerChangesSalt ==
  /\ "salt" \in FaultKinds /\ faults < MaxFaults
  /\ server' = [server EXCEPT !.salt = @ + 1]
  /\ faults' = faults + 1
  /\ UNCHANGED <<main, private, down, history>>
ServerForgets ==
  /\ "forget" \in FaultKinds /\ faults < MaxFaults /\ server.session # 0
  /\ server' = [server EXCEPT !.session = 0, !.pending = {}, !.answers = {}]
  /\ faults' = faults + 1
  /\ UNCHANGED <<main, private, down, history>>
----------------------------------------------------------------------------

Next ==
  \/ \E r \in Requests : sendPrepared(r) \/ cancel(r)
  \/ CancelSent \/ tryToReceive
  \/ tryToSend \/ sendPingByTimer \/ checkSentRequests
  \/ ResendTake \/ ResendPut \/ clearOldContainers
  \/ handleReceived \/ Connect \/ LearnSalt \/ Break \/ Disconnect
  \/ ServerAnswers
  \/ ServerChangesSalt \/ ServerForgets

Spec == Init /\ [][Next]_vars

(***************************************************************************)
(* Both threads run and their timers fire, a broken connection is made     *)
(* anew, the network delivers while it is up, and the server answers in    *)
(* the end.  No fault need happen.  The sending of all there is to send    *)
(* and the handling of a packet are named by what they alone do.           *)
(***************************************************************************)
SaysAll  == /\ Idle /\ link.state = "On" /\ link.sendDue /\ Len(down) < MaxDown
            /\ link' = said(q.toSend)
Consumes == Idle /\ link.state = "On" /\ down # <<>> /\ down' \in {Tail(down), <<>>}

FairSpec ==
  /\ Spec
  /\ WF_vars(CancelSent \/ tryToReceive)
  /\ WF_vars(ResendTake \/ ResendPut \/ Connect \/ LearnSalt \/ Disconnect)
  /\ WF_down(Consumes)
  /\ WF_link(SaysAll)
  /\ WF_vars(sendPingByTimer)
  /\ WF_vars(checkSentRequests)
  /\ WF_vars(ServerAnswers)

----------------------------------------------------------------------------
TypeOK ==
  /\ made \subseteq Requests /\ waiting \subseteq Requests
  /\ cancelling \in [request : Requests \cup {None}, id : Ids \cup {None}]
  /\ replies \in Seq(Requests)
  /\ mark \in [Requests -> [id : Ids \cup {None}, session : Nat]]
  /\ forced \subseteq Requests /\ hand \subseteq Requests /\ todo \subseteq Ids
  /\ q \in Maps /\ link \in Link /\ server \in Server
  /\ received \subseteq Nat /\ nextId \in Nat \ {0} /\ faults \in Nat
  /\ down \in Seq(Packet)
  /\ handled \in [ids : SUBSET Nat, twice : BOOLEAN] /\ ran \subseteq Ids \X Requests

(***************************************************************************)
(* A request whose callback is still to be called is somewhere: it waits   *)
(* to be sent, a handler that resends has it in hand, it has been sent, or *)
(* its answer waits for the main thread.  Acknowledgements, answers that   *)
(* cross a resend, refusals, new sessions and broken connections lose none *)
(* (as long as _ackedIds is not full, see MtpAcked.cfg).                   *)
(***************************************************************************)
NoRequestLost ==
  \A r \in waiting \ {cancelling.request} :
    r \in q.toSend \cup hand \cup q.haveSent \cup {replies[i] : i \in DOMAIN replies}

(***************************************************************************)
(* A request is in one of the two maps at most, however resend, resendAll  *)
(* and Session::cancel interleave between their locks: one that is in both *)
(* would be sent again after its answer.                                   *)
(***************************************************************************)
SentFromOnePlace ==
  /\ q.toSend \cap q.haveSent = {}
  /\ hand \cap (q.toSend \cup q.haveSent) = {}

(***************************************************************************)
(* In one session of the server a request has one message id, so that the  *)
(* server, which knows messages by their ids, runs it once however often   *)
(* it is resent.                                                           *)
(***************************************************************************)
RunsOnce ==
  \A a, b \in ran : a[2] = b[2] => a[1] = b[1]

(***************************************************************************)
(* "must create new session, because msg_id and msg_seqno are              *)
(* inconsistent" (session_private.cpp): what has been sent on a connection *)
(* has a message id and a seq_no made for the session it was sent in.      *)
(***************************************************************************)
NumberedInSession ==
  link.state = "On" => \A r \in q.haveSent : mark[r].session = link.session

(***************************************************************************)
(* In a session no message of the server is handled twice, though the      *)
(* window of known ids is bounded, containers come with older messages in  *)
(* them, and the server tells again what it takes for lost.                *)
(***************************************************************************)
HandledOnce == ~handled.twice

(***************************************************************************)
(* All requests are answered in the end, or cancelled, through whatever    *)
(* goes wrong a bounded number of times.                                   *)
(***************************************************************************)
RequestsAreAnswered == (waiting # {}) ~> (waiting = {})
=============================================================================
