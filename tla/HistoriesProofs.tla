-------------------------- MODULE HistoriesProofs --------------------------
(***************************************************************************)
(* What the specification of Histories keeps, for any number of chats,     *)
(* parts, keys and places. Each function of the code is shown to keep what *)
(* it is about: Good, that requests, places to send and entries agree, and *)
(* Fit, that what was sent has its entry coming besides. A handler is a    *)
(* few of those functions, one after another; where the code goes over a   *)
(* set of chats the fold keeps what one step of it keeps, by recursion on  *)
(* finite sets (Induction).                                                *)
(*                                                                         *)
(* The timer is not in time inside of a handler: Paced is what holds there *)
(* and Watches what holds again when it ends.                              *)
(***************************************************************************)
EXTENDS Histories, Induction, SequenceTheorems

-----------------------------------------------------------------------------
\* What dialogEntryApplied keeps for one chat after another, finalize keeps for all.
LEMMA FoldFinalize ==
  ASSUME NEW S, IsFiniteSet(S), NEW call, NEW M, NEW m, m \in M[{}],
         \A s \in SUBSET S : \A c \in s :
           \A x \in M[s \ {c}] : dialogEntryApplied(x, c, call) \in M[s]
  PROVE  finalize(m, S, call) \in M[S]
<1> DEFINE F == [s \in SUBSET S |-> [x \in M[Rest(s)] |-> dialogEntryApplied(x, Taken(s), call)]]
           Def(g) == g = [s \in SUBSET S |->
                            IF s = {} THEN m ELSE dialogEntryApplied(g[Rest(s)], Taken(s), call)]
           iter == CHOOSE g : Def(g)
           step(c, x) == dialogEntryApplied(x, c, call)
<1>1. FoldSet(step, m, S) = iter[S]
  BY DEF FoldSet, MapThenFoldSet, Rest, Taken
<1>2. ASSUME NEW s \in SUBSET S, s # {}
      PROVE  /\ Taken(s) \in s /\ Rest(s) \in SUBSET S /\ Rest(s) \subseteq s /\ Rest(s) # s
             /\ \A x \in M[Rest(s)] : dialogEntryApplied(x, Taken(s), call) \in M[s]
  <2>1. Taken(s) \in s
    BY <1>2 DEF Taken
  <2> QED BY <2>1 DEF Rest
<1>3. Stays(S, M, F, m)
  BY <1>2 DEF Stays
<1>4. PICK g : g = [s \in SUBSET S |-> g[s]] /\ Solved(g, SUBSET S, M, F, m)
  <2> HIDE DEF F
  <2> QED BY <1>3, RecursionOnSets
<1>5. ASSUME NEW s \in SUBSET S
      PROVE  g[s] = IF s = {} THEN m ELSE dialogEntryApplied(g[Rest(s)], Taken(s), call)
  <2>1. CASE s = {}
    BY <1>4, <2>1 DEF Solved
  <2>2. CASE s # {}
    <3>1. g[Rest(s)] \in M[Rest(s)]
      BY <1>2, <1>4, <2>2 DEF Solved
    <3>2. g[s] = F[s][g[Rest(s)]]
      BY <1>4, <2>2 DEF Solved
    <3> QED BY <2>2, <3>1, <3>2
  <2> QED BY <2>1, <2>2
<1>6. Def(g)
  BY <1>4, <1>5, Zenon
<1>7. Def(iter)
  <2> HIDE DEF Def
  <2> QED BY <1>6
<1> HIDE DEF iter
<1>8. ASSUME NEW s \in SUBSET S
      PROVE  iter[s] = IF s = {} THEN m ELSE dialogEntryApplied(iter[Rest(s)], Taken(s), call)
  BY <1>7
<1> DEFINE B == {s \in SUBSET S : iter[s] \notin M[s]}
<1>9. ASSUME NEW s \in B, \A t \in B : t \subseteq s => t = s
      PROVE  FALSE
  <2>1. s # {}
    BY <1>8, <1>3 DEF Stays
  <2>2. iter[Rest(s)] \in M[Rest(s)]
    BY <1>2, <1>9, <2>1
  <2>3. dialogEntryApplied(iter[Rest(s)], Taken(s), call) \in M[s]
    BY <1>2, <2>1, <2>2
  <2> QED BY <1>8, <2>1, <2>3
<1>10. B = {}
  <2>1. B \subseteq SUBSET S
    OBVIOUS
  <2> HIDE DEF B
  <2> QED BY <1>9, <2>1, SmallestSet
<1>11. iter[S] \in M[S]
  BY <1>10
<1> HIDE DEF step
<1>12. FoldSet(step, m, S) \in M[S]
  BY <1>1, <1>11
<1> QED BY <1>12 DEF step, finalize

\* What applyDialog keeps, applyPeerDialogs keeps.
LEMMA FoldApplied ==
  ASSUME NEW S, IsFiniteSet(S), NEW read, S = DOMAIN read, NEW call, NEW M, NEW m, m \in M[{}],
         \A s \in SUBSET S : \A c \in s :
           \A x \in M[s \ {c}] : applyDialog(x, c, read[c], call) \in M[s]
  PROVE  applyPeerDialogs(m, read, call) \in M[S]
<1> DEFINE F == [s \in SUBSET S |-> [x \in M[Rest(s)] |-> applyDialog(x, Taken(s), read[Taken(s)], call)]]
           Def(g) == g = [s \in SUBSET S |->
                            IF s = {} THEN m ELSE applyDialog(g[Rest(s)], Taken(s), read[Taken(s)], call)]
           iter == CHOOSE g : Def(g)
           step(c, x) == applyDialog(x, c, read[c], call)
<1>1. FoldSet(step, m, S) = iter[S]
  BY DEF FoldSet, MapThenFoldSet, Rest, Taken
<1>2. ASSUME NEW s \in SUBSET S, s # {}
      PROVE  /\ Taken(s) \in s /\ Rest(s) \in SUBSET S /\ Rest(s) \subseteq s /\ Rest(s) # s
             /\ \A x \in M[Rest(s)] : applyDialog(x, Taken(s), read[Taken(s)], call) \in M[s]
  <2>1. Taken(s) \in s
    BY <1>2 DEF Taken
  <2> QED BY <2>1 DEF Rest
<1>3. Stays(S, M, F, m)
  BY <1>2 DEF Stays
<1>4. PICK g : g = [s \in SUBSET S |-> g[s]] /\ Solved(g, SUBSET S, M, F, m)
  <2> HIDE DEF F
  <2> QED BY <1>3, RecursionOnSets
<1>5. ASSUME NEW s \in SUBSET S
      PROVE  g[s] = IF s = {} THEN m ELSE applyDialog(g[Rest(s)], Taken(s), read[Taken(s)], call)
  <2>1. CASE s = {}
    BY <1>4, <2>1 DEF Solved
  <2>2. CASE s # {}
    <3>1. g[Rest(s)] \in M[Rest(s)]
      BY <1>2, <1>4, <2>2 DEF Solved
    <3>2. g[s] = F[s][g[Rest(s)]]
      BY <1>4, <2>2 DEF Solved
    <3> QED BY <2>2, <3>1, <3>2
  <2> QED BY <2>1, <2>2
<1>6. Def(g)
  BY <1>4, <1>5, Zenon
<1>7. Def(iter)
  <2> HIDE DEF Def
  <2> QED BY <1>6
<1> HIDE DEF iter
<1>8. ASSUME NEW s \in SUBSET S
      PROVE  iter[s] = IF s = {} THEN m ELSE applyDialog(iter[Rest(s)], Taken(s), read[Taken(s)], call)
  BY <1>7
<1> DEFINE B == {s \in SUBSET S : iter[s] \notin M[s]}
<1>9. ASSUME NEW s \in B, \A t \in B : t \subseteq s => t = s
      PROVE  FALSE
  <2>1. s # {}
    BY <1>8, <1>3 DEF Stays
  <2>2. iter[Rest(s)] \in M[Rest(s)]
    BY <1>2, <1>9, <2>1
  <2>3. applyDialog(iter[Rest(s)], Taken(s), read[Taken(s)], call) \in M[s]
    BY <1>2, <2>1, <2>2
  <2> QED BY <1>8, <2>1, <2>3
<1>10. B = {}
  <2>1. B \subseteq SUBSET S
    OBVIOUS
  <2> HIDE DEF B
  <2> QED BY <1>9, <2>1, SmallestSet
<1>11. iter[S] \in M[S]
  BY <1>10
<1> HIDE DEF step
<1>12. FoldSet(step, m, S) \in M[S]
  BY <1>1, <1>11
<1> QED BY <1>12 DEF step, applyPeerDialogs

-----------------------------------------------------------------------------
(***************************************************************************)
(* The inductive invariant, of what a handler works on: it is kept by each *)
(* function of the code, not only from one handler to the next.            *)
(***************************************************************************)
Client == [chat : [Chats -> Chat], timer : Off .. Timeout, dialogs : Dialogs,
           stalled : BOOLEAN]

Readings(s) == {r \in s.sent : r.type = "ReadInbox"}

\* A deletion is alone with what is not a part of the history; only parts are.
Alone(s) ==
  /\ \A r \in s.sent : r.type = "History" => r.key \in Parts
  /\ postponeHistoryRequest(s) => \A r \in s.sent : r.type # "History"
  /\ s.postponed # {} => postponeHistoryRequest(s)

\* What is to be sent is ahead of what was, and what was sent is behind sentTill, or
\* read.
Ordered(s) ==
  /\ s.will = 0 => s.when = Off
  /\ s.will # 0 => s.will > s.sentTill
  /\ \A r \in Readings(s) :
       /\ s.will # 0 => s.will > r.till
       /\ IF s.sentTill = 0 THEN r.till < s.before ELSE r.till <= s.sentTill

\* What was sent and is not done is under way.
Flies(s) == s.sentTill # 0 /\ ~s.done => \E r \in Readings(s) : r.till = s.sentTill

\* An entry is pending or asked for; to be asked for again when what it waits for
\* is answered.
Again(m, c) ==
  /\ ~(c \in m.dialogs.pending /\ c \in m.dialogs.asked)
  /\ m.chat[c].entry => c \in m.dialogs.asked /\ postponeEntryRequest(m.chat[c])

\* What was sent and is done has its entry asked for.
Comes(m, c) ==
  m.chat[c].sentTill # 0 /\ m.chat[c].done => c \in m.dialogs.pending \cup m.dialogs.asked

Kept(m, c) ==
  Alone(m.chat[c]) /\ Ordered(m.chat[c]) /\ Flies(m.chat[c]) /\ Again(m, c)

\* Somebody answers for each entry.
Awaited(m, E) ==
  /\ m.dialogs.pending # {} => m.dialogs.posted
  /\ \A c \in m.dialogs.asked : m.chat[c].entry \/ \E i \in 1 .. Len(E) : c \in E[i]

\* The timer, where it runs, is in time.
Paced(m) ==
  m.stalled \/ m.timer = Off \/
    \A c \in Chats : m.chat[c].will # 0 => m.chat[c].when = Off \/ m.timer <= m.chat[c].when

Watches(m) ==
  m.stalled \/
    \A c \in Chats : m.chat[c].will # 0 =>
      m.timer # Off /\ (m.chat[c].when = Off \/ m.timer <= m.chat[c].when)

Sound(m, E) ==
  /\ m \in Client
  /\ \A c \in Chats : Kept(m, c)
  /\ Awaited(m, E)

IInv ==
  /\ TypeOK
  /\ Sound(client, entries) /\ Watches(client)
  /\ \A c \in Chats : Comes(client, c)

-----------------------------------------------------------------------------
\* What the functions of the code do, chat by chat.

\* The larger of two numbers.
LEMMA Larger ==
  ASSUME NEW a \in Int, NEW b \in Int
  PROVE  Max({a, b}) = IF a >= b THEN a ELSE b
<1> DEFINE m == IF a >= b THEN a ELSE b
<1>1. m \in {a, b} /\ \A y \in {a, b} : m >= y
  OBVIOUS
<1>2. \A x \in {a, b} : (\A y \in {a, b} : x >= y) => x = m
  OBVIOUS
<1> HIDE DEF m
<1> QED BY <1>1, <1>2 DEF Max, m

\* The fields of a chat.
LEMMA Fields ==
  ASSUME NEW s \in Chat
  PROVE  /\ s.before \in 0 .. MaxTill + 1 /\ s.counted \in BOOLEAN /\ s.will \in Tills
         /\ s.when \in Off .. Timeout /\ s.sentTill \in Tills /\ s.done \in BOOLEAN
         /\ s.entry \in BOOLEAN /\ s.postponed \subseteq Parts /\ s.sent \subseteq Request
BY DEF Chat

\* The fields of the client.
LEMMA ClientFields ==
  ASSUME NEW m \in Client
  PROVE  /\ m.chat \in [Chats -> Chat] /\ m.timer \in Off .. Timeout
         /\ m.dialogs \in Dialogs /\ m.stalled \in BOOLEAN
BY DEF Client

\* The fields of what is known of dialog entries.
LEMMA DialogFields ==
  ASSUME NEW d \in Dialogs
  PROVE  /\ d.pending \subseteq Chats /\ d.asked \subseteq Chats /\ d.wants \subseteq Chats
         /\ d.posted \in BOOLEAN
         /\ IsFiniteSet(d.pending)
BY SetsAssumption, FS_Subset DEF Dialogs

\* A till and a place after it.
LEMMA TillType ==
  /\ 0 \in Tills /\ Tills \subseteq Nat /\ Off \in Off .. Timeout /\ Timeout \in Off .. Timeout
  /\ \A t \in Tills : t + 1 \in 0 .. MaxTill + 1
BY BoundsAssumption, TimeoutAssumption DEF Tills, Off

\* A chat is read further.
LEMMA SetInbox ==
  ASSUME NEW s \in Chat, NEW till \in Tills
  PROVE  LET n == setInboxReadTill(s, till)
         IN  /\ n \in Chat /\ n = [s EXCEPT !.before = n.before]
             /\ n.before >= s.before /\ n.before >= till + 1
<1> DEFINE b == Max({s.before, till + 1})
<1>1. s.before \in 0 .. MaxTill + 1 /\ till + 1 \in 0 .. MaxTill + 1
  BY Fields, TillType
<1>2. b = IF s.before >= till + 1 THEN s.before ELSE till + 1
  BY <1>1, Larger
<1>3. b \in 0 .. MaxTill + 1 /\ b >= s.before /\ b >= till + 1
  <2> HIDE DEF b
  <2> QED BY <1>1, <1>2, BoundsAssumption
<1>4. setInboxReadTill(s, till) = [s EXCEPT !.before = b]
  BY DEF setInboxReadTill
<1> HIDE DEF b
<1> QED BY <1>3, <1>4 DEF Chat

\* It stays as it should be.
LEMMA InboxKept ==
  ASSUME NEW s \in Chat, NEW n \in Chat, n = [s EXCEPT !.before = n.before],
         n.before >= s.before, Ordered(s)
  PROVE  /\ Ordered(n) /\ (Alone(s) => Alone(n)) /\ (Flies(s) => Flies(n))
         /\ postponeEntryRequest(s) => postponeEntryRequest(n)
         /\ n.entry = s.entry /\ n.sentTill = s.sentTill /\ n.done = s.done
         /\ n.will = s.will /\ n.when = s.when /\ n.counted = s.counted
         /\ n.sent = s.sent /\ n.postponed = s.postponed
<1>1. /\ n.entry = s.entry /\ n.sentTill = s.sentTill /\ n.done = s.done
      /\ n.will = s.will /\ n.when = s.when /\ n.counted = s.counted
      /\ n.sent = s.sent /\ n.postponed = s.postponed
  BY DEF Chat
<1>2. s.before \in Int /\ n.before \in Int /\ \A r \in Readings(s) : r.till \in Int
  BY Fields, TillType, BoundsAssumption DEF Readings, Request
<1>3. Ordered(n)
  BY <1>1, <1>2 DEF Ordered, Readings
<1> QED BY <1>1, <1>3 DEF Alone, Flies, Readings, postponeEntryRequest, postponeHistoryRequest

\* How sendRequest leaves t of s: what is not a part of the history goes; a part
\* may have to wait.
Went(s, r, isAsked, t) ==
  /\ t \in Chat /\ Alone(t)
  /\ t = [s EXCEPT !.sent = t.sent, !.entry = t.entry, !.postponed = t.postponed]
  /\ \A x \in Request : x.type # "History" => (x \in t.sent <=> x \in s.sent \/ x = r)
  /\ t.entry => s.entry \/ (isAsked /\ postponeEntryRequest(t))
  /\ s.entry => t.entry

\* It leaves it so.
LEMMA SendRequest ==
  ASSUME NEW s \in Chat, NEW r \in Request, NEW isAsked \in BOOLEAN, Alone(s),
         r.type = "History" => r.key \in Parts
  PROVE  Went(s, r, isAsked, sendRequest(s, r, isAsked))
<1> DEFINE t == sendRequest(s, r, isAsked)
           n == [s EXCEPT !.sent = @ \cup {r}]
           B == takenBack(n)
<1>0. s.sent \subseteq Request /\ s.postponed \subseteq Parts /\ s.entry \in BOOLEAN
  BY Fields
<1>1. CASE r.type = "History" /\ postponeHistoryRequest(s)
  <2>1. t = [s EXCEPT !.postponed = @ \cup {r.key}]
    BY <1>1 DEF sendRequest
  <2>2. t \in Chat
    <3>1. s.postponed \cup {r.key} \subseteq Parts
      BY <1>0, <1>1
    <3> HIDE DEF t
    <3> QED BY <2>1, <3>1 DEF Chat
  <2>3. t.sent = s.sent /\ t.entry = s.entry /\ t.postponed = s.postponed \cup {r.key}
    BY <2>1 DEF Chat
  <2> HIDE DEF t
  <2>4. Alone(t)
    BY <1>1, <2>3 DEF Alone, postponeHistoryRequest
  <2>5. t = [s EXCEPT !.sent = t.sent, !.entry = t.entry, !.postponed = t.postponed]
    BY <2>1 DEF Chat
  <2> QED BY <1>1, <2>2, <2>3, <2>4, <2>5 DEF t, Went
<1>2. CASE ~(r.type = "History" /\ postponeHistoryRequest(s))
  <2>1. t = [n EXCEPT !.entry = @ \/ heldBack(n, isAsked),
                      !.postponed = @ \cup {x.key : x \in B},
                      !.sent = @ \ B]
    BY <1>2 DEF sendRequest
  <2>2. n \in Chat /\ n.sent = s.sent \cup {r} /\ n.entry = s.entry
        /\ n.postponed = s.postponed
    BY <1>0 DEF Chat
  <2>3. B \subseteq n.sent /\ (\A x \in B : x.type = "History" /\ x.key \in Parts)
        /\ (postponeHistoryRequest(n) => B = {x \in n.sent : x.type = "History"})
        /\ (~postponeHistoryRequest(n) => B = {})
    BY <2>2 DEF takenBack, Alone
  <2> HIDE DEF B
  <2>4. {x.key : x \in B} \subseteq Parts
    BY <2>3
  <2>5. n = [s EXCEPT !.sent = n.sent]
    BY <2>2 DEF Chat
  <2> HIDE DEF n
  <2>6. (n.entry \/ heldBack(n, isAsked)) \in BOOLEAN
    BY <1>0, <2>2 DEF heldBack
  <2> DEFINE b == n.entry \/ heldBack(n, isAsked)
             P == n.postponed \cup {x.key : x \in B}
             R == n.sent \ B
  <2>7. P \subseteq Parts /\ R \subseteq Request /\ b \in BOOLEAN
    BY <1>0, <2>2, <2>4, <2>6
  <2>8. t = [n EXCEPT !.entry = b, !.postponed = P, !.sent = R]
    BY <2>1
  <2> HIDE DEF b, P, R, t
  <2>9. t \in Chat /\ t.entry = b /\ t.postponed = P /\ t.sent = R
    BY <2>2, <2>7, <2>8 DEF Chat
  <2>10. t = [s EXCEPT !.sent = t.sent, !.entry = t.entry, !.postponed = t.postponed]
    BY <2>2, <2>5, <2>8, <2>9 DEF Chat
  <2>11. \A x \in Request : x.type # "History" => (x \in t.sent <=> x \in s.sent \/ x = r)
    BY <2>2, <2>3, <2>9 DEF R
  <2>12. postponeEntryRequest(n) => postponeEntryRequest(t)
    BY <2>3, <2>9 DEF R, postponeEntryRequest
  <2>13. (s.entry => t.entry) /\ (t.entry => s.entry \/ (isAsked /\ postponeEntryRequest(t)))
    BY <2>2, <2>9, <2>12 DEF b, heldBack
  <2>14. Alone(t)
    <3>1. \A x \in t.sent : x.type = "History" => x.key \in Parts
      BY <1>2, <2>2, <2>9 DEF R, Alone
    <3>2. postponeHistoryRequest(t) => postponeHistoryRequest(n)
      BY <2>9 DEF R, postponeHistoryRequest
    <3>3. postponeHistoryRequest(t) => \A x \in t.sent : x.type # "History"
      BY <2>3, <2>9, <3>2 DEF R
    <3>4. postponeHistoryRequest(n) => postponeHistoryRequest(t)
      BY <2>3, <2>9 DEF R, postponeHistoryRequest
    <3>5. postponeHistoryRequest(s) => postponeHistoryRequest(n)
      BY <2>2 DEF postponeHistoryRequest
    <3>6. t.postponed # {} => postponeHistoryRequest(t)
      <4>1. t.postponed # {} => s.postponed # {} \/ B # {}
        BY <2>2, <2>9 DEF P
      <4> QED BY <2>3, <3>4, <3>5, <4>1 DEF Alone
    <3> QED BY <3>1, <3>3, <3>6 DEF Alone
  <2> QED BY <2>9, <2>10, <2>11, <2>13, <2>14 DEF t, Went
<1> QED BY <1>1, <1>2

\* How sendReadRequest leaves t of s: the place that waited is sent, with a request.
ReadWent(s, isAsked, t) ==
  /\ t \in Chat /\ Alone(t) /\ Ordered(t) /\ Flies(t)
  /\ t.will = 0 /\ t.sentTill = s.will /\ t.sentTill > s.sentTill /\ ~t.done
  /\ t.counted = s.counted /\ t.before = s.before
  /\ s.entry => t.entry
  /\ t.entry => s.entry \/ (isAsked /\ postponeEntryRequest(t))
  /\ postponeEntryRequest(s) => postponeEntryRequest(t)
  /\ \A r \in Readings(s) : t.sentTill > r.till /\ r \in Readings(t)

\* It does so where a place waits that is ahead of what was sent.
LEMMA SendReadRequest ==
  ASSUME NEW s \in Chat, NEW isAsked \in BOOLEAN, Alone(s), Ordered(s), s.will # 0
  PROVE  ReadWent(s, isAsked, sendReadRequest(s, isAsked))
<1> DEFINE r == [type |-> "ReadInbox", key |-> None, till |-> s.will]
           n == [s EXCEPT !.sentTill = s.will, !.will = 0, !.when = Off, !.done = FALSE]
           t == sendReadRequest(s, isAsked)
<1>1. r \in Request /\ r.type = "ReadInbox" /\ r.till = s.will
  BY Fields DEF Request, Types
<1>2. /\ n \in Chat /\ n.sentTill = s.will /\ n.will = 0 /\ n.when = Off /\ n.done = FALSE
      /\ n.counted = s.counted /\ n.before = s.before /\ n.sent = s.sent
      /\ n.postponed = s.postponed /\ n.entry = s.entry
  BY Fields, TillType DEF Chat
<1>3. t = sendRequest(n, r, isAsked)
  BY DEF sendReadRequest
<1> HIDE DEF r, n, t
<1>4. Alone(n)
  BY <1>2 DEF Alone, postponeHistoryRequest
<1>5. /\ t \in Chat /\ Alone(t)
      /\ t = [n EXCEPT !.sent = t.sent, !.entry = t.entry, !.postponed = t.postponed]
      /\ \A x \in Request : x.type # "History" => (x \in t.sent <=> x \in n.sent \/ x = r)
      /\ t.entry => n.entry \/ (isAsked /\ postponeEntryRequest(t))
      /\ n.entry => t.entry
  <2>1. r.type = "History" => r.key \in Parts
    BY <1>1
  <2>2. Went(n, r, isAsked, t)
    BY <1>1, <1>2, <1>3, <1>4, <2>1, SendRequest
  <2> QED BY <2>2 DEF Went
<1>6. /\ t.sentTill = n.sentTill /\ t.will = 0 /\ t.when = Off /\ t.done = FALSE
      /\ t.counted = n.counted /\ t.before = n.before
  BY <1>2, <1>5 DEF Chat
<1>7. /\ \A x \in Readings(t) : x \in Readings(s) \/ x = r
      /\ \A x \in Readings(s) : x \in Readings(t)
      /\ r \in Readings(t)
  BY <1>1, <1>2, <1>5, Fields DEF Readings
<1>8. Ordered(t)
  <2>1. s.will \in Nat /\ \A x \in Readings(s) : x.till \in Nat
    BY Fields, TillType DEF Readings, Request
  <2>2. \A x \in Readings(t) : x.till <= s.will
    BY <1>1, <1>7, <2>1 DEF Ordered
  <2> QED BY <1>2, <1>6, <2>2 DEF Ordered
<1>9. Flies(t)
  BY <1>1, <1>2, <1>6, <1>7 DEF Flies
<1>10. postponeEntryRequest(s) => postponeEntryRequest(t)
  BY <1>2, <1>5, Fields DEF postponeEntryRequest
<1>11. s.will > s.sentTill /\ \A x \in Readings(s) : s.will > x.till
  BY DEF Ordered
<1> QED BY <1>2, <1>5, <1>6, <1>7, <1>8, <1>9, <1>10, <1>11 DEF t, ReadWent

-----------------------------------------------------------------------------
\* What the functions about reading do to the client.

\* n is m with another state of one chat.
Changed(m, c, t, n) ==
  /\ n \in Client /\ n.chat[c] = t
  /\ \A d \in Chats \ {c} : n.chat[d] = m.chat[d]
  /\ n.timer = m.timer /\ n.dialogs = m.dialogs /\ n.stalled = m.stalled

\* An assignment to the state of a chat.
LEMMA ChangeChat ==
  ASSUME NEW m \in Client, NEW c \in Chats, NEW t \in Chat
  PROVE  Changed(m, c, t, [m EXCEPT !.chat[c] = t])
BY DEF Changed, Client

\* How a chat may change by reading: an entry is still asked for again, what is under
\* way stays so, and what is sent is new.
ChatLed(s, t) ==
  /\ s.entry => t.entry
  /\ \A r \in Readings(s) : r \in Readings(t)
  /\ \/ t.sentTill = s.sentTill /\ t.done = s.done
     \/ ~t.done /\ \A r \in Readings(s) : t.sentTill > r.till

Led(m, n) ==
  /\ n \in Client /\ n.dialogs = m.dialogs
  /\ \A c \in Chats : Kept(n, c) /\ ChatLed(m.chat[c], n.chat[c])

\* The least of the places in time that are left.
LEMMA RestType ==
  ASSUME NEW m \in Client
  PROVE  /\ rest(m) \in Off .. Timeout
         /\ \A c \in Chats : m.chat[c].will # 0 /\ ~due(m.chat[c]) =>
              rest(m) # Off /\ rest(m) <= m.chat[c].when
<1> DEFINE late == {c \in Chats : m.chat[c].will # 0 /\ ~due(m.chat[c])}
           W    == {m.chat[c].when : c \in late}
<1>1. \A c \in Chats : m.chat[c] \in Chat
  BY ClientFields
<1>2. \A c \in late : m.chat[c].when \in 1 .. Timeout
  BY <1>1, Fields DEF due, Off
<1>3. rest(m) = IF late = {} THEN Off ELSE Min(W)
  BY DEF rest
<1>4. CASE late = {}
  BY <1>3, <1>4, TillType
<1>5. CASE late # {}
  <2>1. W \subseteq Nat /\ W # {}
    BY <1>2, <1>5
  <2>2. PICK w \in W : \A x \in W : ~(x < w)
    <3> HIDE DEF W
    <3> QED BY <2>1, LeastNat
  <2>3. \A x \in W : w <= x
    <3> HIDE DEF W
    <3> QED BY <2>1, <2>2
  <2>4. Min(W) \in W /\ \A x \in W : Min(W) <= x
    <3> HIDE DEF W
    <3> QED BY <2>3 DEF Min
  <2>5. Min(W) \in 1 .. Timeout
    BY <1>2, <2>4
  <2>6. \A c \in late : Min(W) <= m.chat[c].when
    BY <2>4
  <2> HIDE DEF W
  <2>7. rest(m) = Min(W)
    BY <1>3, <1>5
  <2> QED BY <2>5, <2>6, <2>7, TimeoutAssumption DEF Off
<1> QED BY <1>4, <1>5

\* A chat that is sent as read, where it is one of the client's.
LEMMA SentKept ==
  ASSUME NEW m \in Client, NEW c \in Chats, Kept(m, c), m.chat[c].will # 0,
         NEW n, n.dialogs = m.dialogs,
         n.chat[c] = sendReadRequest(m.chat[c], c \in m.dialogs.asked)
  PROVE  /\ n.chat[c] \in Chat /\ Kept(n, c) /\ ChatLed(m.chat[c], n.chat[c])
         /\ n.chat[c].will = 0
<1> DEFINE s == m.chat[c]
           a == c \in m.dialogs.asked
           t == n.chat[c]
<1>1. s \in Chat /\ Alone(s) /\ Ordered(s) /\ a \in BOOLEAN
  BY ClientFields DEF Kept
<1>2. /\ t \in Chat /\ Alone(t) /\ Ordered(t) /\ Flies(t)
      /\ t.will = 0 /\ ~t.done
      /\ s.entry => t.entry
      /\ t.entry => s.entry \/ (a /\ postponeEntryRequest(t))
      /\ postponeEntryRequest(s) => postponeEntryRequest(t)
      /\ \A r \in Readings(s) : t.sentTill > r.till /\ r \in Readings(t)
  <2>1. ReadWent(s, a, t)
    BY <1>1, SendReadRequest
  <2> QED BY <2>1 DEF ReadWent
<1>3. Again(n, c)
  BY <1>2 DEF Kept, Again
<1> QED BY <1>2, <1>3 DEF Kept, ChatLed

\* sendReadRequests: all that is due is sent, and the timer is set for the rest.
LEMMA SendReads ==
  ASSUME NEW m \in Client, \A c \in Chats : Kept(m, c), Paced(m), ghost \in BOOLEAN
  PROVE  Led(m, sendReadRequests(m)) /\ Watches(sendReadRequests(m))
<1> DEFINE waits == \E c \in Chats : m.chat[c].will # 0
           sent(c) == IF due(m.chat[c])
                      THEN sendReadRequest(m.chat[c], c \in m.dialogs.asked)
                      ELSE m.chat[c]
           n == sendReadRequests(m)
<1>0. /\ m.chat \in [Chats -> Chat] /\ m.timer \in Off .. Timeout /\ m.stalled \in BOOLEAN
      /\ m.dialogs \in Dialogs
  BY ClientFields
<1>1. CASE ghost
  <2> DEFINE b == m.stalled \/ (m.timer = Off /\ waits)
  <2>1. n = [m EXCEPT !.stalled = b]
    BY <1>1 DEF sendReadRequests
  <2>2. b \in BOOLEAN
    BY <1>0
  <2> HIDE DEF b, n
  <2>3. n \in Client /\ n.chat = m.chat /\ n.dialogs = m.dialogs /\ n.timer = m.timer
        /\ n.stalled = b
    BY <2>1, <2>2 DEF Client
  <2>4. Led(m, n)
    BY <2>3 DEF Led, Kept, Again, ChatLed
  <2>5. Watches(n)
    BY <2>3 DEF Watches, Paced, b
  <2> QED BY <2>4, <2>5 DEF n
<1>2. CASE ~ghost
  <2>1. n = [m EXCEPT !.chat = [c \in Chats |-> sent(c)], !.timer = rest(m), !.stalled = FALSE]
    BY <1>2 DEF sendReadRequests
  <2>2. \A c \in Chats : due(m.chat[c]) => m.chat[c].will # 0
    BY DEF due
  <2>3. ASSUME NEW c \in Chats PROVE sent(c) \in Chat
    <3>1. CASE due(m.chat[c])
      <4> DEFINE x == [m EXCEPT !.chat[c] = sent(c)]
      <4>1. x.dialogs = m.dialogs /\ x.chat[c] = sent(c)
        BY DEF Client
      <4>2. sent(c) = sendReadRequest(m.chat[c], c \in m.dialogs.asked)
        BY <3>1
      <4> HIDE DEF x, sent
      <4> QED BY <2>2, <3>1, <4>1, <4>2, SentKept
    <3>2. CASE ~due(m.chat[c])
      BY <1>0, <3>2
    <3> QED BY <3>1, <3>2
  <2>4. rest(m) \in Off .. Timeout
    BY RestType
  <2> HIDE DEF n, sent
  <2>5. n \in Client /\ n.dialogs = m.dialogs /\ n.timer = rest(m)
        /\ \A c \in Chats : n.chat[c] = sent(c)
    BY <2>1, <2>3, <2>4 DEF Client
  <2>6. ASSUME NEW c \in Chats
        PROVE  Kept(n, c) /\ ChatLed(m.chat[c], n.chat[c])
               /\ (n.chat[c].will # 0 => ~due(m.chat[c]) /\ n.chat[c] = m.chat[c])
    <3>1. CASE due(m.chat[c])
      <4>1. n.chat[c] = sendReadRequest(m.chat[c], c \in m.dialogs.asked)
        BY <2>5, <3>1 DEF sent
      <4> QED BY <2>2, <2>5, <3>1, <4>1, SentKept
    <3>2. CASE ~due(m.chat[c])
      <4>1. n.chat[c] = m.chat[c]
        BY <2>5, <3>2 DEF sent
      <4> QED BY <2>5, <3>2, <4>1 DEF Kept, Again, ChatLed
    <3> QED BY <3>1, <3>2
  <2>7. Led(m, n)
    BY <2>5, <2>6 DEF Led
  <2>8. Watches(n)
    BY <2>5, <2>6, RestType DEF Watches
  <2> QED BY <2>7, <2>8 DEF n
<1> QED BY <1>1, <1>2

\* Where only what is to be sent and how far the chat is read differ.
Same(s, t) ==
  /\ t.sent = s.sent /\ t.postponed = s.postponed /\ t.entry = s.entry
  /\ t.sentTill = s.sentTill /\ t.done = s.done

\* Such a change is one by reading.
LEMMA SameLed ==
  ASSUME NEW m \in Client, \A d \in Chats : Kept(m, d), NEW c \in Chats,
         NEW t \in Chat, Same(m.chat[c], t), Ordered(t),
         NEW n, Changed(m, c, t, n)
  PROVE  Led(m, n)
<1>1. n.chat[c] = t /\ n.dialogs = m.dialogs /\ n \in Client
  BY DEF Changed
<1>2. Kept(n, c) /\ ChatLed(m.chat[c], n.chat[c])
  BY <1>1 DEF Kept, Same, Alone, Flies, Again, ChatLed, Readings,
              postponeHistoryRequest, postponeEntryRequest
<1>3. ASSUME NEW d \in Chats \ {c} PROVE Kept(n, d) /\ ChatLed(m.chat[d], n.chat[d])
  <2>1. n.chat[d] = m.chat[d]
    BY DEF Changed
  <2> QED BY <1>1, <2>1 DEF Kept, Again, ChatLed
<1> QED BY <1>1, <1>2, <1>3 DEF Led

\* No change is a change by reading.
LEMMA LedSelf ==
  ASSUME NEW m \in Client, \A d \in Chats : Kept(m, d)
  PROVE  Led(m, m)
BY DEF Led, ChatLed

\* One change by reading after another is one.
LEMMA LedOn ==
  ASSUME NEW m \in Client, NEW n, Led(m, n), NEW o, Led(n, o)
  PROVE  Led(m, o)
<1>1. ASSUME NEW c \in Chats PROVE ChatLed(m.chat[c], o.chat[c])
  BY DEF Led, ChatLed
<1> QED BY <1>1 DEF Led

\* Where no place is to be sent that was not, the timer still is in time.
LEMMA WatchesOn ==
  ASSUME NEW m, NEW c \in Chats, Watches(m), NEW t, NEW n, Changed(m, c, t, n),
         t.will # 0 => m.chat[c].will # 0,
         t.will # 0 => t.when = m.chat[c].when
  PROVE  Watches(n)
BY DEF Watches, Changed

\* sendPendingReadInbox: what waits is sent at once.
LEMMA SendPending ==
  ASSUME NEW m \in Client, \A d \in Chats : Kept(m, d), Watches(m), NEW c \in Chats,
         ghost \in BOOLEAN
  PROVE  Led(m, sendPendingReadInbox(m, c)) /\ Watches(sendPendingReadInbox(m, c))
<1> DEFINE s == m.chat[c]
           t == [s EXCEPT !.when = Off]
           x == [m EXCEPT !.chat[c].when = Off]
<1>1. CASE s.will # 0 /\ s.when # Off
  <2>1. s \in Chat
    BY ClientFields
  <2>2. t \in Chat /\ Same(s, t) /\ t.will = s.will /\ t.before = s.before /\ t.when = Off
    BY <2>1, TillType DEF Chat, Same
  <2>3. Ordered(t)
    BY <2>2 DEF Ordered, Same, Readings, Kept
  <2>4. x = [m EXCEPT !.chat[c] = t]
    OBVIOUS
  <2> HIDE DEF t, x
  <2>5. Changed(m, c, t, x)
    BY <2>2, <2>4, ChangeChat
  <2>6. Led(m, x)
    BY <2>2, <2>3, <2>5, SameLed DEF s
  <2>7. Paced(x)
    BY <2>2, <2>5 DEF Paced, Watches, Changed
  <2>8. sendPendingReadInbox(m, c) = sendReadRequests(x)
    BY <1>1 DEF sendPendingReadInbox, x
  <2>9. Led(x, sendReadRequests(x)) /\ Watches(sendReadRequests(x))
    <3>1. x \in Client /\ \A d \in Chats : Kept(x, d)
      BY <2>6 DEF Led
    <3> QED BY <2>7, <3>1, SendReads
  <2> QED BY <2>6, <2>8, <2>9, LedOn
<1>2. CASE ~(s.will # 0 /\ s.when # Off)
  <2>1. sendPendingReadInbox(m, c) = m
    BY <1>2 DEF sendPendingReadInbox
  <2> QED BY <2>1, LedSelf
<1> QED BY <1>1, <1>2

\* A chat is read further, in a client that is m with some reading done.
LEMMA MarkRead ==
  ASSUME NEW m \in Client, NEW n, Led(m, n), Watches(n), NEW c \in Chats, NEW till \in Tills
  PROVE  /\ Led(m, [n EXCEPT !.chat[c] = setInboxReadTill(@, till)])
         /\ Watches([n EXCEPT !.chat[c] = setInboxReadTill(@, till)])
<1> DEFINE s == n.chat[c]
           t == setInboxReadTill(s, till)
           x == [n EXCEPT !.chat[c] = setInboxReadTill(@, till)]
<1>1. n \in Client /\ s \in Chat /\ \A d \in Chats : Kept(n, d)
  BY ClientFields DEF Led
<1>2. t \in Chat /\ t = [s EXCEPT !.before = t.before] /\ t.before >= s.before
  BY <1>1, SetInbox
<1>x. x = [n EXCEPT !.chat[c] = t]
  OBVIOUS
<1> HIDE DEF t
<1>3. Ordered(t) /\ Same(s, t) /\ t.will = s.will /\ t.when = s.when
  <2> HIDE DEF s
  <2>1. Ordered(s)
    BY <1>1 DEF Kept, s
  <2> QED BY <1>1, <1>2, <2>1, InboxKept DEF Same
<1> HIDE DEF x
<1>4. Changed(n, c, t, x)
  BY <1>1, <1>2, <1>x, ChangeChat
<1>5. Led(n, x) /\ Watches(x)
  BY <1>1, <1>2, <1>3, <1>4, SameLed, WatchesOn
<1>6. Led(m, x)
  BY <1>5, LedOn
<1> QED BY <1>5, <1>6 DEF x

\* So where its unread count is known, too.
LEMMA MarkCounted ==
  ASSUME NEW m \in Client, NEW n, Led(m, n), Watches(n), NEW c \in Chats, NEW till \in Tills
  PROVE  Led(m, marked(n, c, till)) /\ Watches(marked(n, c, till))
<1> DEFINE s == n.chat[c]
           u == setInboxReadTill(s, till)
           t == [u EXCEPT !.counted = TRUE]
<1>1. n \in Client /\ s \in Chat /\ \A d \in Chats : Kept(n, d)
  BY ClientFields DEF Led
<1>2. u \in Chat /\ u = [s EXCEPT !.before = u.before] /\ u.before >= s.before
  BY <1>1, SetInbox
<1>x. marked(n, c, till) = [n EXCEPT !.chat[c] = t]
  BY DEF marked
<1> HIDE DEF u
<1>3. Ordered(u) /\ Same(s, u) /\ u.will = s.will /\ u.when = s.when
  <2> HIDE DEF s
  <2>1. Ordered(s)
    BY <1>1 DEF Kept, s
  <2> QED BY <1>1, <1>2, <2>1, InboxKept DEF Same
<1>4. t \in Chat /\ Ordered(t) /\ Same(s, t) /\ t.will = s.will /\ t.when = s.when
  <2>1. /\ t \in Chat /\ t.will = u.will /\ t.when = u.when /\ t.sentTill = u.sentTill
        /\ t.before = u.before /\ t.sent = u.sent /\ t.postponed = u.postponed
        /\ t.entry = u.entry /\ t.done = u.done
    BY <1>2 DEF Chat
  <2> QED BY <1>3, <2>1 DEF Ordered, Readings, Same
<1> HIDE DEF t
<1>5. Changed(n, c, t, marked(n, c, till))
  BY <1>1, <1>4, <1>x, ChangeChat
<1>6. Led(n, marked(n, c, till)) /\ Watches(marked(n, c, till))
  BY <1>1, <1>4, <1>5, SameLed, WatchesOn
<1> QED BY <1>6, LedOn

\* The place is one that is ahead of what was sent and of what is to be sent.
Ahead(s, till) ==
  ~alreadySent(s, till) /\ ~(s.will >= till) /\ (s.before <= till \/ s.will # 0)

\* Such a place may be the next to be sent.
LEMMA NextToSend ==
  ASSUME NEW m \in Client, \A d \in Chats : Kept(m, d), NEW c \in Chats,
         NEW till \in Tills, NEW when \in Off .. Timeout, Ahead(m.chat[c], till)
  PROVE  \E t \in Chat : /\ Changed(m, c, t, wanted(m, c, till, when))
                         /\ Led(m, wanted(m, c, till, when))
                         /\ t.will = till /\ till # 0 /\ t.when = when
<1> DEFINE s == m.chat[c]
           t == [s EXCEPT !.will = till, !.when = when]
<1>1. s \in Chat /\ Ordered(s)
  BY ClientFields DEF Kept
<1>2. wanted(m, c, till, when) = [m EXCEPT !.chat[c] = t]
  BY DEF wanted
<1>3. Ahead(s, till)
  OBVIOUS
<1> HIDE DEF s
<1>4. /\ t \in Chat /\ Same(s, t) /\ t.will = till /\ t.when = when /\ t.before = s.before
  BY <1>1 DEF Chat, Same
<1>5. /\ s.before \in Nat /\ s.will \in Nat /\ s.sentTill \in Nat /\ till \in Nat
      /\ \A r \in Readings(s) : r.till \in Nat
  <2>1. \A x \in 0 .. MaxTill + 1 : x \in Nat
    BY BoundsAssumption
  <2>2. \A r \in Readings(s) : r.till \in Tills
    BY <1>1, Fields DEF Readings, Request
  <2> QED BY <1>1, <2>1, <2>2, Fields, TillType
<1>6. till > s.sentTill /\ till > s.will /\ till # 0
  BY <1>3, <1>5 DEF Ahead, alreadySent
<1>7. ASSUME NEW r \in Readings(s) PROVE till > r.till
  BY <1>1, <1>3, <1>5, <1>6 DEF Ordered, Ahead
<1> HIDE DEF t
<1>8. Ordered(t)
  BY <1>1, <1>4, <1>5, <1>6, <1>7 DEF Ordered, Same, Readings
<1>9. Changed(m, c, t, wanted(m, c, till, when))
  BY <1>2, <1>4, ChangeChat
<1>10. Led(m, wanted(m, c, till, when))
  BY <1>4, <1>8, <1>9, SameLed DEF s
<1> QED BY <1>4, <1>6, <1>9, <1>10

\* Sent at once, with what is due.
LEMMA SentAtOnce ==
  ASSUME NEW m \in Client, \A d \in Chats : Kept(m, d), Watches(m), NEW c \in Chats,
         NEW till \in Tills, Ahead(m.chat[c], till), ghost \in BOOLEAN
  PROVE  /\ Led(m, sendReadRequests(wanted(m, c, till, Off)))
         /\ Watches(sendReadRequests(wanted(m, c, till, Off)))
<1> DEFINE x == wanted(m, c, till, Off)
<1>1. PICK t \in Chat : Changed(m, c, t, x) /\ Led(m, x) /\ t.when = Off
  BY NextToSend, TillType
<1> HIDE DEF x
<1>2. Paced(x)
  BY <1>1 DEF Paced, Watches, Changed
<1>3. x \in Client /\ \A d \in Chats : Kept(x, d)
  BY <1>1 DEF Led
<1>4. Led(x, sendReadRequests(x)) /\ Watches(sendReadRequests(x))
  BY <1>2, <1>3, SendReads
<1>5. Led(m, sendReadRequests(x))
  BY <1>1, <1>4, LedOn
<1> QED BY <1>4, <1>5 DEF x

\* Sent some time later, with a timer that may have been started for another chat.
LEMMA SentLater ==
  ASSUME NEW m \in Client, \A d \in Chats : Kept(m, d), Watches(m), NEW c \in Chats,
         NEW till \in Tills, Ahead(m.chat[c], till),
         NEW n, n = [wanted(m, c, till, Timeout) EXCEPT !.timer = IF @ = Off THEN Timeout ELSE @]
  PROVE  Led(m, n) /\ Watches(n)
<1> DEFINE y == wanted(m, c, till, Timeout)
           due2 == IF m.timer = Off THEN Timeout ELSE m.timer
<1>1. PICK t \in Chat : Changed(m, c, t, y) /\ Led(m, y) /\ t.when = Timeout
  BY NextToSend, TillType
<1>2. n = [y EXCEPT !.timer = IF @ = Off THEN Timeout ELSE @]
  OBVIOUS
<1> HIDE DEF y
<1>3. due2 \in Off .. Timeout /\ due2 # Off /\ due2 <= Timeout
  BY ClientFields, TillType, TimeoutAssumption DEF Off
<1>4. n = [y EXCEPT !.timer = due2]
  BY <1>1, <1>2 DEF Changed, Client
<1> HIDE DEF due2
<1>5. n \in Client /\ n.chat = y.chat /\ n.dialogs = y.dialogs /\ n.stalled = y.stalled
      /\ n.timer = due2
  BY <1>1, <1>3, <1>4 DEF Changed, Client
<1>6. Led(m, n)
  BY <1>1, <1>5 DEF Led, Kept, Again
<1>7. Watches(n)
  <2>1. CASE m.stalled
    BY <1>1, <1>5, <2>1 DEF Watches, Changed
  <2>2. ASSUME ~m.stalled, NEW d \in Chats, n.chat[d].will # 0
        PROVE  n.chat[d].when = Off \/ due2 <= n.chat[d].when
    <3>1. CASE d = c
      BY <1>1, <1>3, <1>5, <3>1 DEF Changed
    <3>2. CASE d # c
      <4>1. n.chat[d] = m.chat[d]
        BY <1>1, <1>5, <3>2 DEF Changed
      <4>2. m.timer # Off /\ (m.chat[d].when = Off \/ m.timer <= m.chat[d].when)
        BY <2>2, <4>1 DEF Watches
      <4> QED BY <4>1, <4>2 DEF due2
    <3> QED BY <3>1, <3>2
  <2> QED BY <1>3, <1>5, <2>1, <2>2 DEF Watches
<1> QED BY <1>6, <1>7

\* Another place is sent instead of the one that waits.
LEMMA SentInstead ==
  ASSUME NEW m \in Client, \A d \in Chats : Kept(m, d), Watches(m), NEW c \in Chats,
         NEW till \in Tills, Ahead(m.chat[c], till), m.chat[c].when # Off
  PROVE  /\ Led(m, wanted(m, c, till, m.chat[c].when))
         /\ Watches(wanted(m, c, till, m.chat[c].when))
<1> DEFINE when == m.chat[c].when
<1>1. when \in Off .. Timeout /\ m.chat[c].will # 0
  BY ClientFields, Fields DEF Kept, Ordered
<1> HIDE DEF when
<1>2. PICK t \in Chat : /\ Changed(m, c, t, wanted(m, c, till, when))
                        /\ Led(m, wanted(m, c, till, when)) /\ t.when = when
  BY <1>1, NextToSend
<1>3. Watches(wanted(m, c, till, when))
  BY <1>1, <1>2, WatchesOn DEF when
<1> QED BY <1>2, <1>3 DEF when

\* What readInboxTill sends, has sent later and marks is reading.
LEMMA ReadsTillLeads ==
  ASSUME NEW m \in Client, \A d \in Chats : Kept(m, d), Watches(m), NEW c \in Chats,
         NEW till \in Tills, NEW force \in BOOLEAN, NEW found, ghost \in BOOLEAN
  PROVE  /\ Led(m, readsTill(m, c, till, force, found))
         /\ Watches(readsTill(m, c, till, force, found))
<1> DEFINE s == m.chat[c]
           needs == till # 0 /\ s.before <= till
           n == readsTill(m, c, till, force, found)
           sent == sendReadRequests(wanted(m, c, till, Off))
           later == [wanted(m, c, till, Timeout) EXCEPT !.timer = IF @ = Off THEN Timeout ELSE @]
           goes == ~(~needs /\ ~force) /\ ~alreadySent(s, till)
           same == ~force /\ s.counted /\ found.still = "same"
<1>0. Led(m, m)
  BY LedSelf
<1>1. CASE ~goes
  <2>1. n = m
    BY <1>1 DEF readsTill
  <2> QED BY <1>0, <2>1
<1>2. CASE goes /\ s.will >= till
  <2>1. n = IF force THEN sendPendingReadInbox(m, c) ELSE m
    BY <1>2 DEF readsTill
  <2> QED BY <1>0, <2>1, SendPending
<1>3. CASE goes /\ ~(s.will >= till) /\ ~needs /\ s.will = 0
  <2>1. n = m
    BY <1>3 DEF readsTill
  <2> QED BY <1>0, <2>1
<1>4. CASE goes /\ ~(s.will >= till) /\ ~(~needs /\ s.will = 0)
  <2>1. Ahead(s, till)
    BY <1>4 DEF Ahead
  <2>2. n = IF same THEN [m EXCEPT !.chat[c] = setInboxReadTill(@, till)]
            ELSE IF found.still = "unknown" THEN sent
            ELSE IF force \/ found.still = "none" THEN marked(sent, c, till)
            ELSE IF s.when = Off THEN marked(later, c, till)
            ELSE marked(wanted(m, c, till, s.when), c, till)
    BY <1>4 DEF readsTill
  <2>3. /\ Led(m, [m EXCEPT !.chat[c] = setInboxReadTill(@, till)])
        /\ Watches([m EXCEPT !.chat[c] = setInboxReadTill(@, till)])
    BY <1>0, MarkRead
  <2> HIDE DEF same
  <2>4. Led(m, sent) /\ Watches(sent)
    BY <2>1, SentAtOnce
  <2>5. Led(m, later) /\ Watches(later)
    BY <2>1, SentLater
  <2>6. s.when # Off => Led(m, wanted(m, c, till, s.when)) /\ Watches(wanted(m, c, till, s.when))
    BY <2>1, SentInstead
  <2> HIDE DEF sent, later, n
  <2>7. Led(m, marked(sent, c, till)) /\ Watches(marked(sent, c, till))
    BY <2>4, MarkCounted
  <2>8. Led(m, marked(later, c, till)) /\ Watches(marked(later, c, till))
    BY <2>5, MarkCounted
  <2>9. s.when # Off => /\ Led(m, marked(wanted(m, c, till, s.when), c, till))
                        /\ Watches(marked(wanted(m, c, till, s.when), c, till))
    BY <2>6, MarkCounted
  <2>10. Led(m, n) /\ Watches(n)
    BY <2>2, <2>3, <2>4, <2>7, <2>8, <2>9
  <2> QED BY <2>10 DEF n
<1> QED BY <1>1, <1>2, <1>3, <1>4

\* So is what readInboxTill does.
LEMMA ReadInboxTill ==
  ASSUME NEW m \in Client, \A d \in Chats : Kept(m, d), Watches(m), NEW c \in Chats,
         NEW till \in Tills, NEW force \in BOOLEAN, NEW found, found.mark \in Tills,
         ghost \in BOOLEAN
  PROVE  /\ Led(m, readInboxTill(m, c, till, force, found))
         /\ Watches(readInboxTill(m, c, till, force, found))
<1> DEFINE n == readsTill(m, c, till, force, found)
           x == [n EXCEPT !.chat[c] = setInboxReadTill(@, found.mark)]
<1>1. Led(m, n) /\ Watches(n)
  BY ReadsTillLeads
<1>2. readInboxTill(m, c, till, force, found)
        = IF found.mark # 0 /\ n.chat[c].counted THEN x ELSE n
  BY DEF readInboxTill
<1> HIDE DEF n
<1>3. Led(m, x) /\ Watches(x)
  BY <1>1, MarkRead
<1> QED BY <1>1, <1>2, <1>3

-----------------------------------------------------------------------------
\* Entries that are asked for.

\* A chat that is pending has the call posted.
LEMMA Posted ==
  ASSUME NEW d \in Dialogs, NEW P \in SUBSET Chats, NEW c \in Chats,
         d.pending = P \cup {c}, P # {} => d.posted
  PROVE  LET n == postponeRequestDialogEntries(d)
         IN  /\ n \in Dialogs /\ n.posted /\ n.pending = d.pending /\ n.asked = d.asked
             /\ n.wants = d.wants
<1> DEFINE b == d.posted \/ Cardinality(d.pending) <= 1
           n == [d EXCEPT !.posted = b]
<1>1. postponeRequestDialogEntries(d) = n
  BY DEF postponeRequestDialogEntries
<1>2. d.pending \subseteq Chats /\ d.posted \in BOOLEAN
  BY DialogFields
<1>3. b = TRUE
  <2>1. CASE P = {}
    <3>1. Cardinality(d.pending) = 1
      BY <2>1, FS_Singleton
    <3> QED BY <3>1
  <2>2. CASE P # {}
    BY <1>2, <2>2
  <2> QED BY <2>1, <2>2
<1> HIDE DEF b
<1> QED BY <1>1, <1>3 DEF Dialogs

\* requestDialogEntry: the entry is pending or asked for, and nothing else changes.
Asks(m, c, n) ==
  /\ n \in Client /\ n.chat = m.chat /\ n.timer = m.timer /\ n.stalled = m.stalled
  /\ n.dialogs.asked = m.dialogs.asked
  /\ n.dialogs.pending = m.dialogs.pending \cup (IF c \in m.dialogs.asked THEN {} ELSE {c})
  /\ n.dialogs.pending # {} => n.dialogs.posted

\* It asks where the call is posted for what is pending.
LEMMA RequestEntry ==
  ASSUME NEW m \in Client, NEW c \in Chats, NEW callback \in BOOLEAN,
         m.dialogs.pending # {} => m.dialogs.posted
  PROVE  Asks(m, c, requestDialogEntry(m, c, callback))
<1> DEFINE W == IF callback THEN m.dialogs.wants \cup {c} ELSE m.dialogs.wants
           d == [m.dialogs EXCEPT !.wants = W]
           e == [d EXCEPT !.pending = @ \cup {c}]
           D == IF c \in d.asked \cup d.pending THEN d ELSE postponeRequestDialogEntries(e)
           n == requestDialogEntry(m, c, callback)
<1>1. n = [m EXCEPT !.dialogs = D]
  BY DEF requestDialogEntry
<1>2. m.dialogs \in Dialogs /\ W \subseteq Chats
  BY ClientFields, DialogFields
<1> HIDE DEF W
<1>3. d \in Dialogs /\ d.pending = m.dialogs.pending /\ d.asked = m.dialogs.asked
      /\ d.posted = m.dialogs.posted
  BY <1>2 DEF Dialogs
<1> HIDE DEF d
<1>4. e \in Dialogs /\ e.pending = d.pending \cup {c} /\ e.asked = d.asked /\ e.posted = d.posted
  BY <1>3, DialogFields DEF Dialogs
<1> HIDE DEF e
<1>5. /\ postponeRequestDialogEntries(e) \in Dialogs /\ postponeRequestDialogEntries(e).posted
      /\ postponeRequestDialogEntries(e).pending = e.pending
      /\ postponeRequestDialogEntries(e).asked = e.asked
  <2>1. d.pending \in SUBSET Chats /\ (d.pending # {} => e.posted)
    BY <1>3, <1>4, DialogFields
  <2> QED BY <1>4, <2>1, Posted
<1>6. /\ D \in Dialogs /\ D.asked = m.dialogs.asked
      /\ D.pending = m.dialogs.pending \cup (IF c \in m.dialogs.asked THEN {} ELSE {c})
      /\ D.pending # {} => D.posted
  <2>1. CASE c \in d.asked \cup d.pending
    BY <1>3, <2>1
  <2>2. CASE ~(c \in d.asked \cup d.pending)
    BY <1>3, <1>4, <1>5, <2>2
  <2> QED BY <2>1, <2>2
<1> HIDE DEF D, n
<1>7. n \in Client /\ n.dialogs = D /\ n.chat = m.chat /\ n.timer = m.timer
      /\ n.stalled = m.stalled
  BY <1>1, <1>6, ClientFields DEF Client
<1> QED BY <1>6, <1>7 DEF Asks, n

\* What a handler may leave behind, with the requests E for entries under way: all as
\* it should be, but for entries that are to come.
Good(m, E) == Sound(m, E) /\ Watches(m)

\* It leaves all so, and no entry that was to come does not.
Keeps(m, n, E) == Good(n, E) /\ \A d \in Chats : Comes(m, d) => Comes(n, d)

\* Asking for an entry leaves all as it should be.
LEMMA AsksGood ==
  ASSUME NEW m, NEW E, Good(m, E), NEW c \in Chats, NEW n, Asks(m, c, n)
  PROVE  Keeps(m, n, E) /\ c \in n.dialogs.pending \cup n.dialogs.asked
<1>1. n \in Client /\ n.chat = m.chat /\ n.timer = m.timer /\ n.stalled = m.stalled
  BY DEF Asks
<1>2. \A d \in Chats : Again(n, d)
  BY DEF Asks, Good, Sound, Kept, Again
<1>3. \A d \in Chats : Kept(n, d)
  BY <1>1, <1>2 DEF Good, Sound, Kept
<1>4. Awaited(n, E)
  BY DEF Asks, Good, Sound, Awaited
<1>5. Watches(n)
  BY <1>1 DEF Good, Watches
<1> QED BY <1>1, <1>3, <1>4, <1>5 DEF Keeps, Good, Sound, Asks, Comes

\* So does reading.
LEMMA LedGood ==
  ASSUME NEW m, NEW E, Sound(m, E), NEW n, Led(m, n), Watches(n)
  PROVE  Keeps(m, n, E)
<1>1. Awaited(n, E)
  <2>1. n.dialogs = m.dialogs /\ \A d \in Chats : m.chat[d].entry => n.chat[d].entry
    BY DEF Led, ChatLed
  <2>2. m.dialogs.asked \subseteq Chats
    BY ClientFields, DialogFields DEF Sound
  <2> QED BY <2>1, <2>2 DEF Sound, Awaited
<1>2. ASSUME NEW d \in Chats, Comes(m, d) PROVE Comes(n, d)
  BY <1>2 DEF Led, ChatLed, Comes
<1> QED BY <1>1, <1>2 DEF Led, Keeps, Good, Sound

\* requestDialogEntry, then.
LEMMA RequestEntryGood ==
  ASSUME NEW m, NEW E, Good(m, E), NEW c \in Chats, NEW callback \in BOOLEAN
  PROVE  /\ Asks(m, c, requestDialogEntry(m, c, callback))
         /\ Keeps(m, requestDialogEntry(m, c, callback), E)
<1>1. m \in Client /\ (m.dialogs.pending # {} => m.dialogs.posted)
  BY DEF Good, Sound, Awaited
<1>2. Asks(m, c, requestDialogEntry(m, c, callback))
  BY <1>1, RequestEntry
<1> QED BY <1>2, AsksGood

\* readInboxTill, sendReadRequests and sendPendingReadInbox, then.
LEMMA ReadInboxTillGood ==
  ASSUME NEW m, NEW E, Good(m, E), NEW c \in Chats, NEW till \in Tills,
         NEW force \in BOOLEAN, NEW found, found.mark \in Tills, ghost \in BOOLEAN
  PROVE  Led(m, readInboxTill(m, c, till, force, found)) /\ Keeps(m, readInboxTill(m, c, till, force, found), E)
<1>1. m \in Client /\ (\A d \in Chats : Kept(m, d)) /\ Watches(m) /\ Sound(m, E)
  BY DEF Good, Sound
<1> DEFINE n == readInboxTill(m, c, till, force, found)
<1>2. Led(m, n) /\ Watches(n)
  BY <1>1, ReadInboxTill
<1> HIDE DEF n
<1>3. Keeps(m, n, E)
  BY <1>1, <1>2, LedGood
<1> QED BY <1>2, <1>3 DEF n

\* sendReadRequests leaves all as it should be.
LEMMA SendReadsGood ==
  ASSUME NEW m, NEW E, Sound(m, E), Paced(m), ghost \in BOOLEAN
  PROVE  Led(m, sendReadRequests(m)) /\ Keeps(m, sendReadRequests(m), E)
<1>1. m \in Client /\ (\A d \in Chats : Kept(m, d))
  BY DEF Sound
<1> DEFINE n == sendReadRequests(m)
<1>2. Led(m, n) /\ Watches(n)
  BY <1>1, SendReads
<1> HIDE DEF n
<1>3. Keeps(m, n, E)
  BY <1>2, LedGood
<1> QED BY <1>2, <1>3 DEF n

\* So does sendPendingReadInbox.
LEMMA SendPendingGood ==
  ASSUME NEW m, NEW E, Good(m, E), NEW c \in Chats, ghost \in BOOLEAN
  PROVE  Keeps(m, sendPendingReadInbox(m, c), E)
<1>1. m \in Client /\ (\A d \in Chats : Kept(m, d)) /\ Watches(m) /\ Sound(m, E)
  BY DEF Good, Sound
<1> DEFINE n == sendPendingReadInbox(m, c)
<1>2. Led(m, n) /\ Watches(n)
  BY <1>1, SendPending
<1> HIDE DEF n
<1>3. Keeps(m, n, E)
  BY <1>1, <1>2, LedGood
<1> QED BY <1>3 DEF n

\* A timer that is in time for all is in time.
LEMMA WatchesPaced ==
  ASSUME NEW m, Watches(m)
  PROVE  Paced(m)
BY DEF Watches, Paced

-----------------------------------------------------------------------------
\* What is answered.

\* A reading that is answered is not the one that what was sent is known by.
Answerable(s, r) ==
  r.type = "ReadInbox" => ~(s.sentTill # 0 /\ ~s.done /\ s.sentTill = r.till)

\* finishSentRequest, for the chat: s is left as t, and the entry is asked for again or not.
Finished(s, t, goesOn) ==
  /\ t \in Chat /\ Alone(t) /\ Ordered(t) /\ Flies(t)
  /\ t.will = s.will /\ t.when = s.when /\ t.sentTill = s.sentTill /\ t.done = s.done
  /\ t.entry <=> s.entry /\ ~goesOn
  /\ t.entry => postponeEntryRequest(t)

\* What waits for r goes on when r is answered.
LEMMA FinishChat ==
  ASSUME NEW s \in Chat, Alone(s), Ordered(s), Flies(s), NEW r, Answerable(s, r)
  PROVE  Finished(s, [answered(s, r) EXCEPT !.entry = @ /\ ~again(answered(s, r))],
                  again(answered(s, r)))
<1> DEFINE left == [s EXCEPT !.sent = @ \ {r}]
           R    == released(left)
           G    == {Part(k) : k \in R}
           sent == answered(s, r)
           b    == sent.entry /\ ~again(sent)
           t    == [sent EXCEPT !.entry = @ /\ ~again(sent)]
<1>1. s.sent \subseteq Request /\ s.postponed \subseteq Parts /\ s.entry \in BOOLEAN
  BY Fields
<1>2. left \in Chat /\ left.sent = s.sent \ {r} /\ left.postponed = s.postponed
      /\ left = [s EXCEPT !.sent = left.sent]
  BY <1>1 DEF Chat
<1>4. sent = [left EXCEPT !.sent = @ \cup G, !.postponed = @ \ R]
  BY DEF answered
<1> HIDE DEF left
<1>3. R \subseteq s.postponed /\ (postponeHistoryRequest(left) => R = {})
      /\ (~postponeHistoryRequest(left) => R = s.postponed)
  BY <1>2 DEF released
<1> HIDE DEF R
<1>5. /\ G \subseteq Request
      /\ \A x \in G : x.type = "History" /\ x.key \in Parts
  BY <1>1, <1>3, TillType DEF G, Part, Request, Types
<1> HIDE DEF G, sent
<1>6. /\ sent \in Chat /\ sent.sent = (s.sent \ {r}) \cup G /\ sent.postponed = s.postponed \ R
      /\ sent = [s EXCEPT !.sent = sent.sent, !.postponed = sent.postponed]
  <2>1. left.sent \cup G \subseteq Request /\ left.postponed \ R \subseteq Parts
    BY <1>1, <1>2, <1>5
  <2> QED BY <1>2, <1>4, <2>1 DEF Chat
<1>7. b \in BOOLEAN
  BY <1>6, Fields DEF b
<1> HIDE DEF t, b
<1>8. t = [sent EXCEPT !.entry = b]
  BY DEF t, b
<1>9. /\ t \in Chat /\ t.sent = (s.sent \ {r}) \cup G /\ t.postponed = s.postponed \ R
      /\ t.entry = b /\ t.before = s.before /\ t.will = s.will /\ t.when = s.when
      /\ t.sentTill = s.sentTill /\ t.done = s.done /\ sent.entry = s.entry
  BY <1>6, <1>7, <1>8 DEF Chat
<1>10. Alone(t)
  <2>1. postponeHistoryRequest(t) => postponeHistoryRequest(left)
    BY <1>2, <1>5, <1>9 DEF postponeHistoryRequest
  <2>2. postponeHistoryRequest(left) => postponeHistoryRequest(s) /\ postponeHistoryRequest(t)
    BY <1>2, <1>9 DEF postponeHistoryRequest
  <2>3. postponeHistoryRequest(left) => G = {}
    BY <1>3 DEF G
  <2>4. \A x \in t.sent : x.type = "History" => x.key \in Parts
    BY <1>5, <1>9 DEF Alone
  <2>5. postponeHistoryRequest(t) => \A x \in t.sent : x.type # "History"
    BY <1>9, <2>1, <2>2, <2>3 DEF Alone
  <2>6. t.postponed # {} => postponeHistoryRequest(t)
    BY <1>3, <1>9, <2>2
  <2> QED BY <2>4, <2>5, <2>6 DEF Alone
<1>11. /\ \A x \in Readings(t) : x \in Readings(s)
       /\ \A x \in Readings(s) : x # r => x \in Readings(t)
  BY <1>5, <1>9 DEF Readings
<1>12. Ordered(t)
  BY <1>9, <1>11 DEF Ordered
<1>13. Flies(t)
  BY <1>9, <1>11 DEF Flies, Answerable, Readings
<1>14. t.entry <=> s.entry /\ ~again(sent)
  BY <1>9 DEF b
<1>15. t.entry => postponeEntryRequest(t)
  BY <1>6, <1>9 DEF b, again, postponeEntryRequest
<1>16. Finished(s, t, again(sent))
  BY <1>9, <1>10, <1>12, <1>13, <1>14, <1>15 DEF Finished
<1> QED BY <1>16 DEF t, sent

\* finishSentRequest leaves all as it should be.
LEMMA FinishGood ==
  ASSUME NEW m, NEW E, Good(m, E), NEW c \in Chats, NEW r, Answerable(m.chat[c], r)
  PROVE  Keeps(m, finishSentRequest(m, c, r), E)
<1> DEFINE s == m.chat[c]
           sent == answered(s, r)
           t == [sent EXCEPT !.entry = @ /\ ~again(sent)]
           goesOn == again(sent)
           n == [m EXCEPT !.chat[c] = t]
           d == [m.dialogs EXCEPT !.asked = @ \ {c}, !.pending = @ \cup {c}]
           o == [n EXCEPT !.dialogs = postponeRequestDialogEntries(d)]
<1>0. /\ m \in Client /\ s \in Chat /\ Alone(s) /\ Ordered(s) /\ Flies(s) /\ Again(m, c)
      /\ \A x \in Chats : Kept(m, x)
      /\ m.dialogs \in Dialogs /\ (m.dialogs.pending # {} => m.dialogs.posted)
  BY ClientFields DEF Good, Sound, Kept, Awaited
<1>1. Finished(s, t, goesOn)
  <2> HIDE DEF s
  <2> QED BY <1>0, FinishChat DEF s
<1>2. finishSentRequest(m, c, r) = IF goesOn THEN o ELSE n
  <2>1. finishSentRequest(m, c, r)
          = IF goesOn THEN [n EXCEPT !.dialogs = pendsAgain(n.dialogs, c)] ELSE n
    BY DEF finishSentRequest
  <2> HIDE DEF t
  <2>2. n.dialogs = m.dialogs
    BY <1>0 DEF Client
  <2>3. pendsAgain(m.dialogs, c) = postponeRequestDialogEntries(d)
    BY DEF pendsAgain
  <2> HIDE DEF n, d
  <2> QED BY <2>1, <2>2, <2>3
<1> HIDE DEF t, sent, goesOn
<1>3. Changed(m, c, t, n)
  BY <1>0, <1>1, ChangeChat DEF Finished
<1> HIDE DEF n
<1>4. /\ \A x \in Chats : x # c => n.chat[x] = m.chat[x]
      /\ n.chat[c] = t /\ n \in Client /\ n.timer = m.timer /\ n.dialogs = m.dialogs
      /\ n.stalled = m.stalled
  BY <1>3 DEF Changed
<1>5. Watches(n)
  BY <1>1, <1>3, WatchesOn DEF Good, Finished
<1>6. CASE ~goesOn
  <2>1. Again(n, c)
    BY <1>0, <1>1, <1>4, <1>6 DEF Again, Finished
  <2>2. \A x \in Chats : Kept(n, x)
    BY <1>0, <1>1, <1>4, <2>1 DEF Kept, Again, Finished
  <2>3. Awaited(n, E)
    <3>1. m.dialogs.asked \subseteq Chats
      BY <1>0, DialogFields
    <3>2. \A x \in Chats : n.chat[x].entry <=> m.chat[x].entry
      BY <1>1, <1>4, <1>6 DEF Finished
    <3> QED BY <1>4, <3>1, <3>2 DEF Good, Sound, Awaited
  <2>4. \A x \in Chats : Comes(m, x) => Comes(n, x)
    BY <1>1, <1>4 DEF Comes, Finished
  <2> QED BY <1>2, <1>4, <1>5, <1>6, <2>2, <2>3, <2>4 DEF Keeps, Good, Sound
<1>7. CASE goesOn
  <2>1. d \in Dialogs /\ d.asked = m.dialogs.asked \ {c} /\ d.pending = m.dialogs.pending \cup {c}
        /\ d.posted = m.dialogs.posted
    BY <1>0, DialogFields DEF Dialogs
  <2> HIDE DEF d
  <2>2. /\ postponeRequestDialogEntries(d) \in Dialogs /\ postponeRequestDialogEntries(d).posted
        /\ postponeRequestDialogEntries(d).pending = d.pending
        /\ postponeRequestDialogEntries(d).asked = d.asked
    <3>1. m.dialogs.pending \in SUBSET Chats /\ (m.dialogs.pending # {} => d.posted)
      BY <1>0, <2>1, DialogFields
    <3> QED BY <2>1, <3>1, Posted
  <2> HIDE DEF o
  <2>3. /\ o \in Client /\ o.chat = n.chat /\ o.timer = m.timer /\ o.stalled = m.stalled
        /\ o.dialogs.posted /\ o.dialogs.pending = m.dialogs.pending \cup {c}
        /\ o.dialogs.asked = m.dialogs.asked \ {c}
    BY <1>4, <2>1, <2>2 DEF o, Client
  <2>4. Again(o, c)
    BY <1>1, <1>4, <1>7, <2>3 DEF Again, Finished
  <2>5. ASSUME NEW x \in Chats PROVE Kept(o, x)
    <3>1. CASE x = c
      BY <1>1, <1>4, <2>3, <2>4, <3>1 DEF Kept, Finished
    <3>2. CASE x # c
      BY <1>0, <1>4, <2>3, <3>2 DEF Kept, Again
    <3> QED BY <3>1, <3>2
  <2>6. Awaited(o, E)
    <3>1. \A x \in m.dialogs.asked : m.chat[x].entry \/ \E i \in 1 .. Len(E) : x \in E[i]
      BY DEF Good, Sound, Awaited
    <3>2. m.dialogs.asked \subseteq Chats
      BY <1>0, DialogFields
    <3> QED BY <1>4, <2>3, <3>1, <3>2 DEF Awaited
  <2>7. Watches(o)
    BY <1>4, <1>5, <2>3 DEF Watches
  <2>8. \A x \in Chats : Comes(m, x) => Comes(o, x)
    BY <1>1, <1>4, <2>3 DEF Comes, Finished
  <2> QED BY <1>2, <1>7, <2>3, <2>5, <2>6, <2>7, <2>8 DEF Keeps, Good, Sound
<1> QED BY <1>6, <1>7

\* finished: what was sent is forgotten, or its entry asked for.
LEMMA FinishedGood ==
  ASSUME NEW m, NEW E, Good(m, E), \A d \in Chats : Comes(m, d), NEW c \in Chats,
         NEW r \in Readings(m.chat[c])
  PROVE  LET n == finished(m, c, r.till)
         IN  /\ Good(n, E) /\ \A d \in Chats : Comes(n, d)
             /\ Answerable(n.chat[c], r) /\ r \in Readings(n.chat[c])
<1> DEFINE s == m.chat[c]
           till == r.till
           n == finished(m, c, till)
           t == [s EXCEPT !.sentTill = 0, !.done = FALSE]
           u == [s EXCEPT !.done = TRUE]
           o == [m EXCEPT !.chat[c] = u]
<1>0. /\ m \in Client /\ s \in Chat /\ Alone(s) /\ Ordered(s) /\ Flies(s) /\ Again(m, c)
      /\ \A x \in Chats : Kept(m, x)
      /\ till \in Nat /\ s.before \in Nat /\ s.sentTill \in Nat
  <2>1. m \in Client /\ \A x \in Chats : Kept(m, x)
    BY DEF Good, Sound
  <2>2. s \in Chat
    BY <2>1, ClientFields
  <2>3. \A x \in 0 .. MaxTill + 1 : x \in Nat
    BY BoundsAssumption
  <2>4. till \in Tills
    BY <2>2, Fields DEF Readings, Request
  <2> QED BY <2>1, <2>2, <2>3, <2>4, Fields, TillType DEF Kept
<1>1. CASE s.sentTill # till
  <2>1. n = m
    BY <1>1 DEF finished
  <2> QED BY <1>1, <2>1 DEF Answerable
<1>2. CASE s.sentTill = till /\ s.counted /\ till + 1 <= s.before
  <2> DEFINE x == [m EXCEPT !.chat[c] = t]
  <2>1. n = x
    <3>1. n = [m EXCEPT !.chat[c].sentTill = 0, !.chat[c].done = FALSE]
      BY <1>2 DEF finished
    <3> QED BY <1>0, <3>1 DEF Client, Chat
  <2>2. /\ t \in Chat /\ t.sentTill = 0 /\ t.done = FALSE /\ t.will = s.will /\ t.when = s.when
        /\ t.sent = s.sent /\ t.postponed = s.postponed /\ t.entry = s.entry
        /\ t.before = s.before
    BY <1>0, TillType DEF Chat
  <2> HIDE DEF t
  <2>3. Changed(m, c, t, x)
    BY <1>0, <2>2, ChangeChat
  <2> HIDE DEF x
  <2>4. Ordered(t)
    <3>1. s.will # 0 => s.will > 0
      <4>1. s.will \in Nat
        BY <1>0, Fields, TillType
      <4> HIDE DEF s
      <4> QED BY <4>1
    <3>2. \A y \in Readings(s) : y.till \in Nat /\ (till # 0 => y.till < s.before)
                                /\ (till = 0 => y.till < s.before)
      <4>1. \A y \in Readings(s) : y.till \in Nat
        BY <1>0, Fields, TillType DEF Readings, Request
      <4> QED BY <1>0, <1>2, <4>1 DEF Ordered
    <3>3. \A y \in Readings(t) : y \in Readings(s)
      BY <2>2 DEF Readings
    <3> QED BY <1>0, <2>2, <3>1, <3>2, <3>3 DEF Ordered
  <2>5. Alone(t) /\ Flies(t)
    BY <1>0, <2>2 DEF Alone, Flies, postponeHistoryRequest
  <2>6. /\ \A d \in Chats : d # c => x.chat[d] = m.chat[d]
        /\ x \in Client /\ x.chat[c] = t /\ x.dialogs = m.dialogs
    BY <2>3 DEF Changed
  <2>7. \A d \in Chats : Kept(x, d)
    BY <1>0, <2>2, <2>4, <2>5, <2>6 DEF Kept, Again, postponeEntryRequest
  <2>8. Awaited(x, E)
    <3>1. \A d \in Chats : x.chat[d].entry = m.chat[d].entry
      BY <2>2, <2>6
    <3>2. m.dialogs.asked \subseteq Chats
      BY <1>0, ClientFields, DialogFields
    <3> QED BY <2>6, <3>1, <3>2 DEF Good, Sound, Awaited
  <2>9. Watches(x)
    BY <2>2, <2>3, WatchesOn DEF Good
  <2>10. \A d \in Chats : Comes(x, d)
    BY <2>2, <2>6 DEF Comes
  <2>11. Answerable(t, r) /\ r \in Readings(t)
    BY <2>2 DEF Answerable, Readings
  <2> QED BY <2>1, <2>6, <2>7, <2>8, <2>9, <2>10, <2>11 DEF Good, Sound
<1>3. CASE s.sentTill = till /\ ~(s.counted /\ till + 1 <= s.before)
  <2>1. n = requestDialogEntry(o, c, FALSE)
    BY <1>3 DEF finished
  <2>2. /\ u \in Chat /\ u.sentTill = s.sentTill /\ u.done = TRUE /\ u.will = s.will
        /\ u.when = s.when /\ u.sent = s.sent /\ u.postponed = s.postponed
        /\ u.entry = s.entry /\ u.before = s.before
    BY <1>0 DEF Chat
  <2> HIDE DEF u
  <2>3. Changed(m, c, u, o)
    BY <1>0, <2>2, ChangeChat
  <2> HIDE DEF o
  <2>4. Alone(u) /\ Flies(u) /\ Ordered(u)
    BY <1>0, <2>2 DEF Alone, Flies, Ordered, Readings, postponeHistoryRequest
  <2>6. /\ \A d \in Chats : d # c => o.chat[d] = m.chat[d]
        /\ o \in Client /\ o.chat[c] = u /\ o.dialogs = m.dialogs
    BY <2>3 DEF Changed
  <2>7. \A d \in Chats : Kept(o, d)
    BY <1>0, <2>2, <2>4, <2>6 DEF Kept, Again, postponeEntryRequest
  <2>8. Awaited(o, E)
    <3>1. \A d \in Chats : o.chat[d].entry = m.chat[d].entry
      BY <2>2, <2>6
    <3>2. m.dialogs.asked \subseteq Chats
      BY <1>0, ClientFields, DialogFields
    <3> QED BY <2>6, <3>1, <3>2 DEF Good, Sound, Awaited
  <2>9. Watches(o)
    BY <2>2, <2>3, WatchesOn DEF Good
  <2>10. Good(o, E)
    BY <2>6, <2>7, <2>8, <2>9 DEF Good, Sound
  <2> HIDE DEF n
  <2>11. Asks(o, c, n) /\ Keeps(o, n, E)
    BY <2>1, <2>10, RequestEntryGood
  <2>12. \A d \in Chats : Comes(n, d)
    <3>1. Comes(n, c)
      BY <2>11, <2>6 DEF Asks, Comes
    <3>2. \A d \in Chats : d # c => Comes(o, d)
      BY <2>6 DEF Comes
    <3> QED BY <2>11, <3>1, <3>2 DEF Keeps
  <2>13. Answerable(n.chat[c], r) /\ r \in Readings(n.chat[c])
    BY <2>2, <2>6, <2>11 DEF Asks, Answerable, Readings
  <2>14. Good(n, E)
    BY <2>11 DEF Keeps
  <2> QED BY <2>12, <2>13, <2>14 DEF n
<1> QED BY <1>1, <1>2, <1>3

\* Reading leaves a reading that is answered as it was.
LEMMA LedAnswerable ==
  ASSUME NEW m \in Client, NEW n, Led(m, n), NEW c \in Chats,
         NEW r \in Readings(m.chat[c]), Answerable(m.chat[c], r)
  PROVE  Answerable(n.chat[c], r)
<1>1. m.chat[c] \in Chat /\ n.chat[c] \in Chat
  BY ClientFields DEF Led
<1>2. r.till \in Nat /\ n.chat[c].sentTill \in Nat
  <2>1. r.till \in Tills
    BY <1>1, Fields DEF Readings, Request
  <2> QED BY <1>1, <2>1, Fields, TillType
<1> QED BY <1>2 DEF Led, ChatLed, Answerable
-----------------------------------------------------------------------------
\* Entries that come.

\* No entry of the chat is asked for, or it is to be asked for again.
Settled(m, c) == c \notin m.dialogs.asked \/ m.chat[c].entry

\* How dialogEntryApplied leaves x, for the entry of c.
Applied(m, c, n, E) ==
  /\ Good(n, E) /\ \A d \in Chats : Comes(n, d)
  /\ Settled(n, c)
  /\ \A d \in Chats : Settled(m, d) => Settled(n, d)

\* dialogEntryApplied: what was sent is forgotten, as its entry has come.
LEMMA EntryApplied ==
  ASSUME NEW m, NEW E, Good(m, E), \A d \in Chats : Comes(m, d), NEW c \in Chats,
         NEW call, call[1] \in Tills, call[2].mark \in Tills, ghost \in BOOLEAN
  PROVE  Applied(m, c, dialogEntryApplied(m, c, call), E)
<1> DEFINE d    == m.dialogs
           took == [m EXCEPT !.dialogs = [d EXCEPT !.pending = @ \ {c}, !.asked = @ \ {c},
                                                   !.wants = @ \ {c}]]
           n    == IF c \in d.wants THEN readInboxTill(took, c, call[1], FALSE, call[2])
                   ELSE took
           s    == n.chat[c]
           u    == setInboxReadTill(s, s.sentTill)
           t    == [u EXCEPT !.sentTill = 0, !.done = FALSE]
           o    == [n EXCEPT !.chat[c] = t]
<1>0. /\ m \in Client /\ (\A x \in Chats : Kept(m, x)) /\ d \in Dialogs
      /\ d.pending \subseteq Chats /\ d.asked \subseteq Chats /\ d.wants \subseteq Chats
      /\ Awaited(m, E) /\ Watches(m)
  BY ClientFields, DialogFields DEF Good, Sound
<1>1. CASE m.chat[c].entry
  <2>1. dialogEntryApplied(m, c, call) = m
    BY <1>1 DEF dialogEntryApplied
  <2> QED BY <1>1, <2>1 DEF Applied, Settled
<1>2. CASE ~m.chat[c].entry
  <2>1. dialogEntryApplied(m, c, call) = IF s.sentTill # 0 /\ s.done THEN o ELSE n
    BY <1>2 DEF dialogEntryApplied
  <2>2. /\ took \in Client /\ took.chat = m.chat /\ took.timer = m.timer
        /\ took.stalled = m.stalled /\ took.dialogs.pending = d.pending \ {c}
        /\ took.dialogs.asked = d.asked \ {c} /\ took.dialogs.posted = d.posted
    <3> DEFINE e == [d EXCEPT !.pending = @ \ {c}, !.asked = @ \ {c}, !.wants = @ \ {c}]
    <3>1. e \in Dialogs /\ e.pending = d.pending \ {c} /\ e.asked = d.asked \ {c}
          /\ e.posted = d.posted
      BY <1>0 DEF Dialogs
    <3>2. took = [m EXCEPT !.dialogs = e]
      OBVIOUS
    <3> HIDE DEF e, took
    <3> QED BY <1>0, <3>1, <3>2 DEF Client
  <2> HIDE DEF took
  <2>3. Good(took, E)
    <3>1. \A x \in Chats : Kept(took, x)
      BY <1>0, <1>2, <2>2 DEF Kept, Again
    <3>2. Awaited(took, E) /\ Watches(took)
      BY <1>0, <2>2 DEF Awaited, Watches
    <3> QED BY <2>2, <3>1, <3>2 DEF Good, Sound
  <2>4. Led(took, n) /\ Keeps(took, n, E)
    <3>1. CASE c \in d.wants
      <4>1. n = readInboxTill(took, c, call[1], FALSE, call[2])
        BY <3>1
      <4> HIDE DEF n
      <4> QED BY <2>3, <4>1, ReadInboxTillGood
    <3>2. CASE c \notin d.wants
      <4>1. n = took
        BY <3>2
      <4> HIDE DEF n
      <4>2. Led(took, took)
        BY <2>3, LedSelf DEF Good, Sound
      <4> QED BY <2>3, <4>1, <4>2 DEF Keeps
    <3> QED BY <3>1, <3>2
  <2> HIDE DEF n
  <2>5. /\ n \in Client /\ s \in Chat /\ (\A x \in Chats : Kept(n, x)) /\ Good(n, E)
        /\ n.dialogs = took.dialogs
        /\ \A x \in Chats : m.chat[x].entry => n.chat[x].entry
    BY <2>2, <2>4, ClientFields DEF Keeps, Good, Sound, Led, ChatLed
  <2>6. \A x \in Chats : x # c => Comes(n, x)
    <3>1. \A x \in Chats : x # c => Comes(took, x)
      BY <2>2 DEF Comes
    <3> QED BY <2>4, <3>1 DEF Keeps
  <2>7. Settled(n, c) /\ \A x \in Chats : Settled(m, x) => Settled(n, x)
    BY <2>2, <2>5 DEF Settled
  <2>8. CASE ~(s.sentTill # 0 /\ s.done)
    <3>1. Comes(n, c)
      BY <2>8 DEF Comes
    <3> QED BY <2>1, <2>5, <2>6, <2>7, <2>8, <3>1 DEF Applied
  <2>9. CASE s.sentTill # 0 /\ s.done
    <3> HIDE DEF s
    <3>1. /\ u \in Chat /\ u = [s EXCEPT !.before = u.before] /\ u.before >= s.before
          /\ u.before >= s.sentTill + 1 /\ Ordered(s) /\ Alone(s) /\ s.sentTill \in Tills
      <4>1. s.sentTill \in Tills /\ Ordered(s) /\ Alone(s)
        BY <2>5, Fields DEF Kept, s
      <4> QED BY <2>5, <4>1, SetInbox
    <3> HIDE DEF u
    <3>2. /\ t \in Chat /\ t.sentTill = 0 /\ t.done = FALSE /\ t.will = s.will
          /\ t.when = s.when /\ t.sent = s.sent /\ t.postponed = s.postponed
          /\ t.entry = s.entry /\ t.before = u.before
      <4>1. /\ u.will = s.will /\ u.when = s.when /\ u.sent = s.sent
            /\ u.postponed = s.postponed /\ u.entry = s.entry
        BY <2>5, <3>1, InboxKept
      <4> QED BY <3>1, <4>1, TillType DEF Chat
    <3> HIDE DEF t
    <3>3. Changed(n, c, t, o)
      BY <2>5, <3>2, ChangeChat
    <3> HIDE DEF o
    <3>4. Ordered(t)
      <4>1. /\ s.will \in Nat /\ s.sentTill \in Nat /\ u.before \in Nat
            /\ \A y \in Readings(s) : y.till \in Nat
        <5>1. \A x \in 0 .. MaxTill + 1 : x \in Nat
          BY BoundsAssumption
        <5>2. \A y \in Readings(s) : y.till \in Tills
          BY <2>5, Fields DEF Readings, Request
        <5> QED BY <2>5, <3>1, <5>1, <5>2, Fields, TillType
      <4>2. \A y \in Readings(t) : y \in Readings(s)
        BY <3>2 DEF Readings
      <4>3. \A y \in Readings(s) : y.till < u.before
        BY <2>9, <3>1, <4>1 DEF Ordered
      <4> QED BY <3>1, <3>2, <4>1, <4>2, <4>3 DEF Ordered
    <3>5. Alone(t) /\ Flies(t)
      BY <3>1, <3>2 DEF Alone, Flies, postponeHistoryRequest
    <3>6. /\ \A x \in Chats : x # c => o.chat[x] = n.chat[x]
          /\ o \in Client /\ o.chat[c] = t /\ o.dialogs = n.dialogs
      BY <3>3 DEF Changed
    <3>7. \A x \in Chats : Kept(o, x)
      BY <2>5, <3>2, <3>4, <3>5, <3>6 DEF Kept, Again, postponeEntryRequest, s
    <3>8. \A x \in Chats : o.chat[x].entry = n.chat[x].entry
      BY <3>2, <3>6 DEF s
    <3>9. Awaited(o, E)
      <4>1. n.dialogs.asked \subseteq Chats
        BY <2>5, ClientFields, DialogFields
      <4> QED BY <2>5, <3>6, <3>8, <4>1 DEF Good, Sound, Awaited
    <3>10. Watches(o)
      BY <2>5, <3>2, <3>3, WatchesOn DEF Good, s
    <3>11. \A x \in Chats : Comes(o, x)
      BY <2>6, <3>2, <3>6 DEF Comes
    <3>12. \A x \in Chats : Settled(n, x) => Settled(o, x)
      BY <3>6, <3>8 DEF Settled
    <3>13. Applied(m, c, o, E)
      BY <2>7, <3>6, <3>7, <3>9, <3>10, <3>11, <3>12 DEF Applied, Good, Sound
    <3> QED BY <2>1, <2>9, <3>13 DEF s
  <2> QED BY <2>8, <2>9
<1> QED BY <1>1, <1>2

-----------------------------------------------------------------------------
\* What the handlers find.

\* Where a mark is moved to is a place.
LEMMA FindsType ==
  ASSUME NEW till \in Tills, NEW force \in BOOLEAN, NEW found \in Finds(till, force)
  PROVE  found.mark \in Tills
<1>1. (till .. MaxTill) \subseteq Tills /\ 0 \in Tills
  BY BoundsAssumption DEF Tills
<1> QED BY <1>1 DEF Finds

\* So is what a callback finds.
LEMMA CallsType ==
  ASSUME NEW cs, NEW call \in Calls(cs)
  PROVE  call[1] \in Tills /\ call[2].mark \in Tills
<1>1. CASE cs \cap dialogs.wants = {}
  BY <1>1, TillType DEF Calls
<1>2. CASE cs \cap dialogs.wants # {}
  <2>1. PICK last \in Tills : call \in {last} \X Finds(last, FALSE)
    BY <1>2 DEF Calls
  <2>2. call[1] = last /\ call[2] \in Finds(last, FALSE)
    BY <2>1
  <2> QED BY <2>2, FindsType
<1> QED BY <1>1, <1>2

\* What a handler leaves, with the entries that are to come.
Fit(m, E) == Good(m, E) /\ \A d \in Chats : Comes(m, d)

\* Where no entry that was to come does not, they all do.
LEMMA KeepsFit ==
  ASSUME NEW m, NEW E, Fit(m, E), NEW n, Keeps(m, n, E)
  PROVE  Fit(n, E)
BY DEF Fit, Keeps

\* A step to it leaves the invariant.
LEMMA FitStep ==
  ASSUME IInv, NEW m, NEW E \in Seq(SUBSET Chats), Len(E) <= MaxEntries, Fit(m, E),
         Becomes(m), entries' = E, ghost' \in BOOLEAN, made' \in 0 .. MaxMade
  PROVE  IInv'
<1>1. chat' = m.chat /\ timer' = m.timer /\ dialogs' = m.dialogs /\ stalled' = m.stalled
  BY DEF Becomes
<1>2. m \in Client
  BY DEF Fit, Good, Sound
<1>3. client' = m
  BY <1>1, <1>2 DEF client, Client
<1>4. TypeOK'
  BY <1>1, <1>2, ClientFields DEF TypeOK
<1>5. Sound(m, E) /\ Watches(m) /\ \A c \in Chats : Comes(m, c)
  BY DEF Fit, Good
<1>6. Sound(client, entries)'
  BY <1>3, <1>5
<1>7. Watches(client)'
  BY <1>3, <1>5
<1>8. (\A c \in Chats : Comes(client, c))'
  BY <1>3, <1>5
<1> QED BY <1>4, <1>6, <1>7, <1>8 DEF IInv

\* The invariant, of the client.
LEMMA ClientFit ==
  ASSUME IInv
  PROVE  /\ Fit(client, entries) /\ client \in Client
         /\ client.chat = chat /\ client.timer = timer /\ client.dialogs = dialogs
         /\ client.stalled = stalled
         /\ entries \in Seq(SUBSET Chats) /\ Len(entries) <= MaxEntries /\ ghost \in BOOLEAN
         /\ made \in 0 .. MaxMade
BY DEF IInv, TypeOK, Fit, Good, Sound, client

\* A step that leaves the requests for entries alone.
LEMMA ClientStep ==
  ASSUME IInv, NEW m, Fit(m, entries), Becomes(m), entries' = entries, ghost' = ghost,
         made' \in 0 .. MaxMade
  PROVE  IInv'
BY ClientFit, FitStep

-----------------------------------------------------------------------------
\* The actions.

\* applyDialog applies an entry, as dialogEntryApplied does.
LEMMA DialogApplied ==
  ASSUME NEW m, NEW E, Fit(m, E), NEW c \in Chats, NEW read \in Tills,
         NEW call, call[1] \in Tills, call[2].mark \in Tills, ghost \in BOOLEAN
  PROVE  Applied(m, c, applyDialog(m, c, read, call), E)
<1> DEFINE s == m.chat[c]
           n == [m EXCEPT !.chat[c] = applyDialogFields(@, read)]
<1>1. m \in Client /\ (\A x \in Chats : Kept(m, x)) /\ Watches(m) /\ Sound(m, E)
  BY DEF Fit, Good, Sound
<1>2. n = IF read + 1 >= s.before THEN marked(m, c, read) ELSE m
  <2>1. CASE read + 1 >= s.before
    BY <2>1 DEF applyDialogFields, marked
  <2>2. CASE ~(read + 1 >= s.before)
    <3>1. n = [m EXCEPT !.chat[c] = s]
      BY <2>2 DEF applyDialogFields
    <3> QED BY <1>1, <2>2, <3>1 DEF Client
  <2> QED BY <2>1, <2>2
<1>3. Led(m, m)
  BY <1>1, LedSelf
<1>4. Led(m, marked(m, c, read)) /\ Watches(marked(m, c, read))
  BY <1>1, <1>3, MarkCounted
<1>5. applyDialog(m, c, read, call) = dialogEntryApplied(n, c, call)
  BY DEF applyDialog
<1> HIDE DEF n
<1>6. Led(m, n) /\ Watches(n)
  BY <1>1, <1>2, <1>3, <1>4
<1>7. Fit(n, E)
  <2>1. Keeps(m, n, E)
    BY <1>1, <1>6, LedGood
  <2> QED BY <2>1, KeepsFit
<1>8. Applied(n, c, dialogEntryApplied(n, c, call), E)
  BY <1>7, EntryApplied DEF Fit
<1>9. \A x \in Chats : Settled(m, x) => Settled(n, x)
  BY <1>6 DEF Led, ChatLed, Settled
<1> QED BY <1>5, <1>8, <1>9 DEF Applied

\* The user reads.
LEMMA ReadStep ==
  ASSUME IInv, NEW c \in Chats, Read(c)
  PROVE  IInv'
<1>1. PICK till \in Tills \ {0}, force \in BOOLEAN : \E found \in Finds(till, force) :
        /\ Becomes(readInboxTill(client, c, till, force, found))
        /\ UNCHANGED <<entries, ghost, made>>
  BY DEF Read
<1>2. PICK found \in Finds(till, force) :
        /\ Becomes(readInboxTill(client, c, till, force, found))
        /\ UNCHANGED <<entries, ghost, made>>
  BY <1>1
<1> DEFINE n == readInboxTill(client, c, till, force, found)
<1>3. Fit(client, entries) /\ ghost \in BOOLEAN /\ made \in 0 .. MaxMade
  BY ClientFit
<1>4. Keeps(client, n, entries)
  <2>1. found.mark \in Tills /\ till \in Tills
    BY FindsType
  <2> QED BY <1>3, <2>1, ReadInboxTillGood DEF Fit
<1>5. Becomes(n) /\ UNCHANGED <<entries, ghost, made>>
  BY <1>2
<1> HIDE DEF n
<1>6. Fit(n, entries)
  BY <1>3, <1>4, KeepsFit
<1> QED BY <1>3, <1>5, <1>6, ClientStep

\* The entry is asked for.
LEMMA AskEntryStep ==
  ASSUME IInv, NEW c \in Chats, AskEntry(c)
  PROVE  IInv'
<1>1. PICK callback \in BOOLEAN : /\ Becomes(requestDialogEntry(client, c, callback))
                                  /\ UNCHANGED <<entries, ghost, made>>
  BY DEF AskEntry
<1> DEFINE n == requestDialogEntry(client, c, callback)
<1>2. Fit(client, entries) /\ made \in 0 .. MaxMade
  BY ClientFit
<1>3. Keeps(client, n, entries)
  BY <1>2, RequestEntryGood DEF Fit
<1>4. Becomes(n) /\ UNCHANGED <<entries, ghost, made>>
  BY <1>1
<1> HIDE DEF n
<1> QED BY <1>2, <1>3, <1>4, KeepsFit, ClientStep

\* The chat is left.
LEMMA LeaveStep ==
  ASSUME IInv, NEW c \in Chats, Leave(c)
  PROVE  IInv'
<1> DEFINE n == sendPendingReadInbox(client, c)
<1>1. Becomes(n) /\ UNCHANGED <<entries, ghost, made>>
  BY DEF Leave
<1>2. Fit(client, entries) /\ made \in 0 .. MaxMade /\ ghost \in BOOLEAN
  BY ClientFit
<1>3. Keeps(client, n, entries)
  BY <1>2, SendPendingGood DEF Fit
<1> HIDE DEF n
<1> QED BY <1>1, <1>2, <1>3, KeepsFit, ClientStep

\* A list of dialogs is loaded.
LEMMA LoadDialogsStep ==
  ASSUME IInv, NEW c \in Chats, LoadDialogs(c)
  PROVE  IInv'
<1>1. PICK read \in Tills, call \in Calls({c}) :
        /\ Becomes(applyDialog(client, c, read, call)) /\ UNCHANGED <<entries, ghost, made>>
  BY DEF LoadDialogs
<1> DEFINE n == applyDialog(client, c, read, call)
<1>2. Fit(client, entries) /\ ghost \in BOOLEAN /\ made \in 0 .. MaxMade
  BY ClientFit
<1>3. Applied(client, c, n, entries)
  <2>1. call[1] \in Tills /\ call[2].mark \in Tills
    BY CallsType
  <2> QED BY <1>2, <2>1, DialogApplied
<1>4. Becomes(n) /\ UNCHANGED <<entries, ghost, made>>
  BY <1>1
<1> HIDE DEF n
<1>5. Fit(n, entries)
  BY <1>3 DEF Applied, Fit
<1> QED BY <1>2, <1>4, <1>5, ClientStep

\* It was read elsewhere: inboxRead.
LEMMA InboxReadFit ==
  ASSUME NEW m, NEW E, Fit(m, E), NEW c \in Chats, NEW upTo \in Tills,
         NEW isKnown \in BOOLEAN
  PROVE  Fit(inboxRead(m, c, upTo, isKnown), E)
<1> DEFINE s == m.chat[c]
           t == [s EXCEPT !.counted = TRUE]
           k == [m EXCEPT !.chat[c] = t]
           n == IF isKnown THEN k ELSE requestDialogEntry(m, c, FALSE)
           x == [n EXCEPT !.chat[c] = setInboxReadTill(@, upTo)]
<1>1. /\ m \in Client /\ (\A d \in Chats : Kept(m, d)) /\ Watches(m) /\ Sound(m, E)
      /\ Good(m, E) /\ s \in Chat
  BY ClientFields DEF Fit, Good, Sound
<1>2. Fit(k, E)
  <2>1. t \in Chat /\ t.will = s.will /\ t.when = s.when /\ t.before = s.before /\ Same(s, t)
    BY <1>1 DEF Chat, Same
  <2> HIDE DEF t
  <2>2. Ordered(t)
    BY <1>1, <2>1 DEF Kept, Ordered, Readings, Same
  <2>3. Changed(m, c, t, k)
    BY <1>1, <2>1, ChangeChat
  <2> HIDE DEF k
  <2>4. Led(m, k) /\ Watches(k)
    BY <1>1, <2>1, <2>2, <2>3, SameLed, WatchesOn
  <2> QED BY <1>1, <2>4, LedGood, KeepsFit
<1>3. Fit(requestDialogEntry(m, c, FALSE), E)
  BY <1>1, RequestEntryGood, KeepsFit
<1>4. Fit(n, E)
  BY <1>2, <1>3
<1>5. inboxRead(m, c, upTo, isKnown) = x
  <2>1. k = [m EXCEPT !.chat[c].counted = TRUE]
    OBVIOUS
  <2>2. n = IF isKnown THEN [m EXCEPT !.chat[c].counted = TRUE] ELSE requestDialogEntry(m, c, FALSE)
    BY <2>1
  <2> HIDE DEF k
  <2> QED BY <2>2 DEF inboxRead
<1> HIDE DEF n
<1>6. n \in Client /\ (\A d \in Chats : Kept(n, d)) /\ Watches(n) /\ Sound(n, E)
  BY <1>4 DEF Fit, Good, Sound
<1>7. Led(n, n)
  BY <1>6, LedSelf
<1>8. Led(n, x) /\ Watches(x)
  BY <1>6, <1>7, MarkRead
<1> HIDE DEF x
<1>9. Keeps(n, x, E)
  BY <1>6, <1>8, LedGood
<1> QED BY <1>4, <1>5, <1>9, KeepsFit

\* The chat was read on another device.
LEMMA ReadElsewhereStep ==
  ASSUME IInv, NEW c \in Chats, ReadElsewhere(c)
  PROVE  IInv'
<1>1. PICK upTo \in Tills \ {0}, isKnown \in BOOLEAN, isMoved \in BOOLEAN :
        LET m == IF isMoved THEN requestDialogEntry(client, c, FALSE) ELSE client
        IN  /\ Becomes(IF chat[c].before <= upTo THEN inboxRead(m, c, upTo, isKnown) ELSE m)
            /\ UNCHANGED <<entries, ghost, made>>
  BY DEF ReadElsewhere
<1> DEFINE m == IF isMoved THEN requestDialogEntry(client, c, FALSE) ELSE client
           n == IF chat[c].before <= upTo THEN inboxRead(m, c, upTo, isKnown) ELSE m
<1>2. Becomes(n) /\ UNCHANGED <<entries, ghost, made>>
  BY <1>1
<1>3. Fit(client, entries) /\ made \in 0 .. MaxMade
  BY ClientFit
<1>4. Fit(m, entries)
  <2>1. Keeps(client, requestDialogEntry(client, c, FALSE), entries)
    BY <1>3, RequestEntryGood DEF Fit
  <2> QED BY <1>3, <2>1, KeepsFit
<1> HIDE DEF m
<1>5. Fit(inboxRead(m, c, upTo, isKnown), entries)
  BY <1>4, InboxReadFit
<1>6. Fit(n, entries)
  BY <1>4, <1>5
<1> HIDE DEF n
<1> QED BY <1>2, <1>3, <1>6, ClientStep

\* Something that is not a reading is sent.
LEMMA SendsFit ==
  ASSUME NEW m, NEW E, Fit(m, E), NEW c \in Chats, NEW r \in Request,
         r.type # "ReadInbox", r.type = "History" => r.key \in Parts
  PROVE  Fit(Sends(m, c, r), E)
<1> DEFINE s == m.chat[c]
           a == c \in m.dialogs.asked
           t == sendRequest(s, r, a)
           n == Sends(m, c, r)
<1>1. /\ m \in Client /\ (\A d \in Chats : Kept(m, d)) /\ Watches(m) /\ Awaited(m, E)
      /\ s \in Chat /\ Alone(s) /\ Ordered(s) /\ Flies(s) /\ Again(m, c)
  BY ClientFields DEF Fit, Good, Sound, Kept
<1>2. a \in BOOLEAN
  OBVIOUS
<1>3. Went(s, r, a, t)
  <2> HIDE DEF s, a
  <2> QED BY <1>1, <1>2, SendRequest DEF s
<1>4. n = [m EXCEPT !.chat[c] = t]
  BY DEF Sends
<1> HIDE DEF t
<1>5. /\ t \in Chat /\ Alone(t) /\ t.will = s.will /\ t.when = s.when
      /\ t.sentTill = s.sentTill /\ t.done = s.done /\ t.before = s.before
      /\ \A x \in Request : x.type # "History" => (x \in t.sent <=> x \in s.sent \/ x = r)
      /\ t.entry => s.entry \/ (a /\ postponeEntryRequest(t))
      /\ s.entry => t.entry
  BY <1>1, <1>3 DEF Went, Chat
<1>6. s.sent \subseteq Request /\ t.sent \subseteq Request
  BY <1>1, <1>5, Fields
<1> HIDE DEF n
<1>7. Changed(m, c, t, n)
  BY <1>1, <1>4, <1>5, ChangeChat
<1>8. /\ \A d \in Chats : d # c => n.chat[d] = m.chat[d]
      /\ n \in Client /\ n.chat[c] = t /\ n.dialogs = m.dialogs
  BY <1>7 DEF Changed
<1>9. \A x \in Request : x \in Readings(t) <=> x \in Readings(s)
  BY <1>5 DEF Readings
<1>10. Ordered(t) /\ Flies(t)
  <2>1. Readings(t) = Readings(s)
    BY <1>6, <1>9 DEF Readings
  <2> QED BY <1>1, <1>5, <2>1 DEF Ordered, Flies
<1>11. Again(n, c)
  <2>1. postponeEntryRequest(s) => postponeEntryRequest(t)
    BY <1>5, <1>6 DEF postponeEntryRequest
  <2> QED BY <1>1, <1>5, <1>8, <2>1 DEF Again
<1>12. \A d \in Chats : Kept(n, d)
  BY <1>1, <1>5, <1>8, <1>10, <1>11 DEF Kept, Again
<1>13. Awaited(n, E)
  <2>1. m.dialogs.asked \subseteq Chats
    BY <1>1, ClientFields, DialogFields
  <2>2. \A d \in Chats : m.chat[d].entry => n.chat[d].entry
    BY <1>5, <1>8
  <2> QED BY <1>1, <1>8, <2>1, <2>2 DEF Awaited
<1>14. Watches(n)
  BY <1>1, <1>5, <1>7, WatchesOn
<1>15. \A d \in Chats : Comes(n, d)
  BY <1>5, <1>8 DEF Fit, Comes
<1>16. Fit(n, E)
  BY <1>8, <1>12, <1>13, <1>14, <1>15 DEF Fit, Good, Sound
<1> QED BY <1>16 DEF n

\* The user has a part shown, sends or deletes.
LEMMA MakeStep ==
  ASSUME IInv, NEW c \in Chats, Make(c)
  PROVE  IInv'
<1>1. PICK r \in {Part(k) : k \in Parts}
                 \cup [type : {"Delete", "Send"}, key : Keys, till : {0}] :
        /\ made < MaxMade /\ made' = made + 1
        /\ Becomes(Sends(client, c, r)) /\ UNCHANGED <<entries, ghost>>
  BY DEF Make
<1>2. r \in Request /\ r.type # "ReadInbox" /\ (r.type = "History" => r.key \in Parts)
  BY TillType DEF Part, Request, Types
<1>3. Fit(client, entries) /\ made \in 0 .. MaxMade
  BY ClientFit
<1>4. made' \in 0 .. MaxMade
  BY <1>1, <1>3, BoundsAssumption
<1> DEFINE n == Sends(client, c, r)
<1>5. Becomes(n) /\ UNCHANGED <<entries, ghost>>
  BY <1>1
<1>6. Fit(n, entries)
  BY <1>2, <1>3, SendsFit
<1> HIDE DEF n
<1> QED BY <1>4, <1>5, <1>6, ClientStep

\* What is not a reading is answered, or not wanted any more.
LEMMA FinishFit ==
  ASSUME NEW m, NEW E, Fit(m, E), NEW c \in Chats, NEW r, r.type # "ReadInbox"
  PROVE  Fit(finishSentRequest(m, c, r), E)
<1>1. Answerable(m.chat[c], r)
  BY DEF Answerable
<1>2. Keeps(m, finishSentRequest(m, c, r), E)
  BY <1>1, FinishGood DEF Fit
<1> QED BY <1>2, KeepsFit

\* A part is not wanted any more.
LEMMA CancelStep ==
  ASSUME IInv, NEW c \in Chats, Cancel(c)
  PROVE  IInv'
<1>1. PICK k \in Parts :
        /\ Becomes(finishSentRequest([client EXCEPT !.chat[c].postponed = @ \ {k}], c, Part(k)))
        /\ UNCHANGED <<entries, ghost, made>>
  BY DEF Cancel
<1> DEFINE s == client.chat[c]
           t == [s EXCEPT !.postponed = @ \ {k}]
           n == [client EXCEPT !.chat[c].postponed = @ \ {k}]
<1>2. Fit(client, entries) /\ made \in 0 .. MaxMade
  BY ClientFit
<1>3. /\ client \in Client /\ s \in Chat /\ (\A d \in Chats : Kept(client, d))
      /\ Watches(client) /\ Awaited(client, entries)
  BY <1>2, ClientFields DEF Fit, Good, Sound
<1>4. n = [client EXCEPT !.chat[c] = t]
  OBVIOUS
<1> HIDE DEF n
<1>5. /\ t \in Chat /\ t.postponed = s.postponed \ {k} /\ t.sent = s.sent /\ t.will = s.will
      /\ t.when = s.when /\ t.sentTill = s.sentTill /\ t.done = s.done /\ t.entry = s.entry
      /\ t.before = s.before
  BY <1>3, Fields DEF Chat
<1> HIDE DEF t
<1>6. Changed(client, c, t, n)
  BY <1>3, <1>4, <1>5, ChangeChat
<1>7. /\ \A d \in Chats : d # c => n.chat[d] = client.chat[d]
      /\ n \in Client /\ n.chat[c] = t /\ n.dialogs = client.dialogs
  BY <1>6 DEF Changed
<1>8. Alone(t) /\ Ordered(t) /\ Flies(t)
  <2>1. Alone(s) /\ Ordered(s) /\ Flies(s)
    BY <1>3 DEF Kept
  <2>2. Readings(t) = Readings(s)
    BY <1>5 DEF Readings
  <2>3. postponeHistoryRequest(t) <=> postponeHistoryRequest(s)
    BY <1>5 DEF postponeHistoryRequest
  <2> QED BY <1>5, <2>1, <2>2, <2>3 DEF Alone, Ordered, Flies
<1>9. \A d \in Chats : Kept(n, d)
  BY <1>3, <1>5, <1>7, <1>8 DEF Kept, Again, postponeEntryRequest
<1>10. Awaited(n, entries)
  <2>1. client.dialogs.asked \subseteq Chats
    BY <1>3, ClientFields, DialogFields
  <2>2. \A d \in Chats : n.chat[d].entry = client.chat[d].entry
    BY <1>5, <1>7
  <2> QED BY <1>3, <1>7, <2>1, <2>2 DEF Awaited
<1>11. Watches(n)
  BY <1>3, <1>5, <1>6, WatchesOn
<1>12. \A d \in Chats : Comes(n, d)
  BY <1>2, <1>5, <1>7 DEF Fit, Comes
<1>13. Fit(n, entries)
  BY <1>7, <1>9, <1>10, <1>11, <1>12 DEF Fit, Good, Sound
<1> DEFINE o == finishSentRequest(n, c, Part(k))
<1>14. Fit(o, entries)
  <2>1. Part(k).type # "ReadInbox"
    BY DEF Part
  <2> QED BY <1>13, <2>1, FinishFit
<1>15. Becomes(o) /\ UNCHANGED <<entries, ghost, made>>
  BY <1>1 DEF n
<1> HIDE DEF o
<1> QED BY <1>2, <1>14, <1>15, ClientStep

\* What the user asked for is answered.
LEMMA AnswerStep ==
  ASSUME IInv, NEW c \in Chats, Answer(c)
  PROVE  IInv'
<1>1. PICK r \in chat[c].sent :
        r.type # "ReadInbox" /\ Becomes(finishSentRequest(client, c, r))
  BY DEF Answer
<1> DEFINE n == finishSentRequest(client, c, r)
<1>2. Fit(client, entries) /\ made \in 0 .. MaxMade
  BY ClientFit
<1>3. Fit(n, entries)
  BY <1>1, <1>2, FinishFit
<1>4. Becomes(n) /\ UNCHANGED <<entries, ghost, made>>
  BY <1>1 DEF Answer
<1> HIDE DEF n
<1> QED BY <1>2, <1>3, <1>4, ClientStep

\* One deletion ends, and the next has begun.
LEMMA DeleteMoreStep ==
  ASSUME IInv, NEW c \in Chats, DeleteMore(c)
  PROVE  IInv'
<1>1. PICK r \in [type : {"Delete"}, key : Keys, till : {0}],
           n \in [type : {"Delete"}, key : Keys, till : {0}] :
        /\ made < MaxMade /\ made' = made + 1
        /\ Becomes(finishSentRequest(Sends(client, c, n), c, r)) /\ UNCHANGED <<entries, ghost>>
  BY DEF DeleteMore
<1>2. n \in Request /\ n.type = "Delete" /\ r.type = "Delete"
  BY TillType DEF Request, Types
<1>3. Fit(client, entries) /\ made \in 0 .. MaxMade
  BY ClientFit
<1>4. made' \in 0 .. MaxMade
  BY <1>1, <1>3, BoundsAssumption
<1> DEFINE m == Sends(client, c, n)
           o == finishSentRequest(m, c, r)
<1>5. Becomes(o) /\ UNCHANGED <<entries, ghost>>
  BY <1>1
<1>6. Fit(m, entries)
  BY <1>2, <1>3, SendsFit
<1> HIDE DEF m
<1>7. Fit(o, entries)
  BY <1>2, <1>6, FinishFit
<1> HIDE DEF o
<1> QED BY <1>4, <1>5, <1>7, ClientStep

\* A reading is answered.
LEMMA AnswerReadStep ==
  ASSUME IInv, NEW c \in Chats, AnswerRead(c)
  PROVE  IInv'
<1>1. PICK r \in chat[c].sent :
        /\ r.type = "ReadInbox"
        /\ Becomes(finishSentRequest(sendReadRequests(finished(client, c, r.till)), c, r))
  BY DEF AnswerRead
<1>2. Fit(client, entries) /\ made \in 0 .. MaxMade /\ ghost \in BOOLEAN /\ client.chat = chat
  BY ClientFit
<1> DEFINE m == finished(client, c, r.till)
           n == sendReadRequests(m)
           o == finishSentRequest(n, c, r)
<1>3. Becomes(o) /\ UNCHANGED <<entries, ghost, made>>
  BY <1>1 DEF AnswerRead
<1>4. /\ Fit(m, entries) /\ Answerable(m.chat[c], r) /\ r \in Readings(m.chat[c])
  <2>1. r \in Readings(client.chat[c])
    BY <1>1, <1>2 DEF Readings
  <2> QED BY <1>2, <2>1, FinishedGood DEF Fit
<1> HIDE DEF m
<1>5. m \in Client /\ Sound(m, entries) /\ Paced(m)
  BY <1>4, WatchesPaced DEF Fit, Good, Sound
<1>6. Led(m, n) /\ Keeps(m, n, entries)
  BY <1>2, <1>5, SendReadsGood
<1> HIDE DEF n
<1>7. Fit(n, entries) /\ Answerable(n.chat[c], r)
  BY <1>4, <1>5, <1>6, KeepsFit, LedAnswerable
<1>8. Keeps(n, o, entries)
  BY <1>7, FinishGood DEF Fit
<1> HIDE DEF o
<1>9. Fit(o, entries)
  BY <1>7, <1>8, KeepsFit
<1> QED BY <1>2, <1>3, <1>9, ClientStep

\* Time passes.
LEMMA TickStep ==
  ASSUME IInv, Tick
  PROVE  IInv'
<1> DEFINE less(x) == IF x > 0 THEN x - 1 ELSE x
           t(c) == [chat[c] EXCEPT !.when = less(@)]
           n == [client EXCEPT !.chat = [c \in Chats |-> t(c)], !.timer = timer - 1]
<1>1. /\ timer > 0 /\ timer' = timer - 1
      /\ chat' = [c \in Chats |-> t(c)]
      /\ UNCHANGED <<dialogs, entries, ghost, stalled, made>>
  BY DEF Tick
<1>2. Fit(client, entries) /\ made \in 0 .. MaxMade
  BY ClientFit
<1>3. /\ client \in Client /\ client.chat = chat /\ client.timer = timer
      /\ client.dialogs = dialogs /\ client.stalled = stalled
      /\ timer \in Off .. Timeout /\ (\A d \in Chats : Kept(client, d))
      /\ Watches(client) /\ Awaited(client, entries)
  BY <1>2, ClientFit, ClientFields DEF Fit, Good, Sound
<1>4. ASSUME NEW c \in Chats
      PROVE  /\ t(c) \in Chat /\ Same(chat[c], t(c)) /\ t(c).will = chat[c].will
             /\ t(c).before = chat[c].before
             /\ t(c).when \in Off .. Timeout /\ (t(c).when = Off <=> chat[c].when = Off)
             /\ chat[c].when > 0 => t(c).when = chat[c].when - 1
             /\ chat[c].when \in Off .. Timeout
  <2>1. chat[c] \in Chat /\ chat[c].when \in Off .. Timeout
    BY <1>3, ClientFields, Fields
  <2>2. less(chat[c].when) \in Off .. Timeout /\ (less(chat[c].when) = Off <=> chat[c].when = Off)
    BY <2>1, TimeoutAssumption DEF Off
  <2>3. t(c) = [chat[c] EXCEPT !.when = less(chat[c].when)]
    OBVIOUS
  <2>4. chat[c].when > 0 => less(chat[c].when) = chat[c].when - 1
    OBVIOUS
  <2> HIDE DEF less, t
  <2>5. t(c) \in Chat /\ t(c).when = less(chat[c].when) /\ t(c).will = chat[c].will
        /\ t(c).before = chat[c].before
    BY <2>1, <2>2, <2>3 DEF Chat
  <2>6. Same(chat[c], t(c))
    BY <2>1, <2>3 DEF Chat, Same
  <2> QED BY <2>1, <2>2, <2>4, <2>5, <2>6
<1>5. timer - 1 \in Off .. Timeout /\ timer - 1 # Off
  BY <1>1, <1>3, TimeoutAssumption DEF Off
<1> HIDE DEF t
<1>6. /\ n \in Client /\ n.timer = timer - 1 /\ n.dialogs = dialogs /\ n.stalled = stalled
      /\ \A c \in Chats : n.chat[c] = t(c)
      /\ n.chat = [c \in Chats |-> t(c)]
  BY <1>3, <1>4, <1>5 DEF Client
<1> HIDE DEF n
<1>7. ASSUME NEW c \in Chats PROVE Kept(n, c)
  <2>1. Same(chat[c], n.chat[c]) /\ n.chat[c].will = chat[c].will
        /\ n.chat[c].before = chat[c].before /\ (n.chat[c].when = Off <=> chat[c].when = Off)
    BY <1>4, <1>6
  <2>2. Readings(n.chat[c]) = Readings(chat[c])
    BY <2>1 DEF Readings, Same
  <2>3. Kept(client, c) /\ client.chat = chat
    BY <1>3
  <2>4. Ordered(n.chat[c])
    BY <2>1, <2>2, <2>3 DEF Kept, Ordered, Same
  <2>5. Alone(n.chat[c]) /\ Flies(n.chat[c])
    BY <2>1, <2>2, <2>3 DEF Kept, Alone, Flies, Same, postponeHistoryRequest
  <2>6. Again(n, c)
    BY <1>3, <1>6, <2>1, <2>3 DEF Kept, Again, Same, postponeEntryRequest
  <2> QED BY <2>4, <2>5, <2>6 DEF Kept
<1>8. Awaited(n, entries)
  <2>1. \A c \in Chats : n.chat[c].entry = chat[c].entry
    BY <1>4, <1>6 DEF Same
  <2>2. dialogs.asked \subseteq Chats
    BY <1>3, ClientFields, DialogFields
  <2> QED BY <1>3, <1>6, <2>1, <2>2 DEF Awaited
<1>9. Watches(n)
  <2>1. CASE stalled
    BY <1>6, <2>1 DEF Watches
  <2>2. ASSUME ~stalled, NEW c \in Chats, n.chat[c].will # 0
        PROVE  n.timer # Off /\ (n.chat[c].when = Off \/ n.timer <= n.chat[c].when)
    <3>1. timer # Off /\ (chat[c].when = Off \/ timer <= chat[c].when)
      BY <1>3, <1>4, <1>6, <2>2 DEF Watches
    <3>2. chat[c].when # Off => t(c).when = chat[c].when - 1
      BY <1>1, <1>3, <1>4, <3>1 DEF Off
    <3>3. chat[c].when \in Int /\ timer \in Int
      BY <1>3, <1>4, TimeoutAssumption DEF Off
    <3> QED BY <1>4, <1>5, <1>6, <3>1, <3>2, <3>3
  <2> QED BY <2>1, <2>2 DEF Watches
<1>10. \A c \in Chats : Comes(n, c)
  BY <1>2, <1>3, <1>4, <1>6 DEF Fit, Comes, Same
<1>11. Fit(n, entries)
  BY <1>6, <1>7, <1>8, <1>9, <1>10 DEF Fit, Good, Sound
<1>12. Becomes(n)
  BY <1>1, <1>6 DEF Becomes
<1> QED BY <1>1, <1>2, <1>11, <1>12, ClientStep

\* The timer comes.
LEMMA FireStep ==
  ASSUME IInv, Fire
  PROVE  IInv'
<1> DEFINE m == [client EXCEPT !.timer = Off]
           n == sendReadRequests(m)
<1>1. Becomes(n) /\ UNCHANGED <<entries, ghost, made>>
  BY DEF Fire
<1>2. Fit(client, entries) /\ made \in 0 .. MaxMade /\ ghost \in BOOLEAN
  BY ClientFit
<1>3. /\ m \in Client /\ m.chat = client.chat /\ m.dialogs = client.dialogs /\ m.timer = Off
      /\ m.stalled = client.stalled
  BY <1>2, TillType DEF Fit, Good, Sound, Client
<1> HIDE DEF m
<1>4. Sound(m, entries) /\ Paced(m) /\ \A c \in Chats : Comes(m, c)
  BY <1>2, <1>3 DEF Fit, Good, Sound, Kept, Again, Awaited, Paced, Comes
<1>5. Keeps(m, n, entries)
  BY <1>2, <1>4, SendReadsGood
<1> HIDE DEF n
<1>6. Fit(n, entries)
  BY <1>4, <1>5 DEF Fit, Keeps
<1> QED BY <1>1, <1>2, <1>6, ClientStep

\* Ghost mode is turned on or off.
LEMMA GhostStep ==
  ASSUME IInv, Ghost
  PROVE  IInv'
<1>1. Fit(client, entries) /\ made \in 0 .. MaxMade /\ ghost \in BOOLEAN
      /\ entries \in Seq(SUBSET Chats) /\ Len(entries) <= MaxEntries
      /\ client.chat = chat /\ client.timer = timer /\ client.dialogs = dialogs
      /\ client.stalled = stalled
  BY ClientFit
<1>2. made' \in 0 .. MaxMade /\ ghost' \in BOOLEAN /\ entries' = entries
  BY <1>1, BoundsAssumption DEF Ghost
<1>3. Becomes(client)
  BY <1>1 DEF Ghost, Becomes
<1> QED BY <1>1, <1>2, <1>3, FitStep

\* The entries that are pending are asked for.
LEMMA SendDialogRequestsStep ==
  ASSUME IInv, sendDialogRequests
  PROVE  IInv'
<1> DEFINE held == {c \in dialogs.pending : postponeEntryRequest(chat[c])}
           d == [dialogs EXCEPT !.pending = {}, !.asked = @ \cup dialogs.pending,
                                !.posted = FALSE]
           t(c) == [chat[c] EXCEPT !.entry = @ \/ c \in held]
           n == [client EXCEPT !.chat = [c \in Chats |-> t(c)], !.dialogs = d]
           E == IF dialogs.pending = {} THEN entries
                ELSE Append(entries, dialogs.pending \ held)
<1>1. /\ dialogs.posted /\ Len(entries) < MaxEntries
      /\ dialogs' = d /\ chat' = [c \in Chats |-> t(c)] /\ entries' = E
      /\ UNCHANGED <<timer, ghost, stalled, made>>
  BY DEF sendDialogRequests
<1>2. /\ Fit(client, entries) /\ client \in Client /\ client.chat = chat
      /\ client.timer = timer /\ client.dialogs = dialogs /\ client.stalled = stalled
      /\ entries \in Seq(SUBSET Chats) /\ ghost \in BOOLEAN /\ made \in 0 .. MaxMade
      /\ dialogs \in Dialogs /\ dialogs.pending \subseteq Chats /\ dialogs.asked \subseteq Chats
  BY ClientFit, ClientFields, DialogFields
<1>3. /\ \A c \in Chats : Kept(client, c) /\ Comes(client, c)
      /\ Awaited(client, entries) /\ Watches(client)
  BY <1>2 DEF Fit, Good, Sound
<1>4. ASSUME NEW c \in Chats
      PROVE  /\ t(c) \in Chat
             /\ t(c).entry <=> chat[c].entry \/ c \in held
             /\ t(c).sent = chat[c].sent /\ t(c).postponed = chat[c].postponed
             /\ t(c).will = chat[c].will /\ t(c).when = chat[c].when
             /\ t(c).before = chat[c].before /\ t(c).sentTill = chat[c].sentTill
             /\ t(c).done = chat[c].done
  <2> DEFINE b == chat[c].entry \/ c \in held
  <2>1. chat[c] \in Chat
    BY <1>2, ClientFields
  <2>2. b \in BOOLEAN
    OBVIOUS
  <2>3. t(c) = [chat[c] EXCEPT !.entry = b]
    OBVIOUS
  <2>4. b <=> chat[c].entry \/ c \in held
    OBVIOUS
  <2> HIDE DEF b, t, held
  <2> QED BY <2>1, <2>2, <2>3, <2>4 DEF Chat
<1>5. d \in Dialogs /\ d.pending = {} /\ d.asked = dialogs.asked \cup dialogs.pending
      /\ d.posted = FALSE
  BY <1>2 DEF Dialogs
<1> HIDE DEF t, d
<1>6. /\ n \in Client /\ n.timer = timer /\ n.dialogs = d /\ n.stalled = stalled
      /\ \A c \in Chats : n.chat[c] = t(c)
      /\ n.chat = [c \in Chats |-> t(c)]
  BY <1>2, <1>4, <1>5 DEF Client
<1> HIDE DEF n
<1>7. ASSUME NEW c \in Chats PROVE Kept(n, c)
  <2>1. /\ n.chat[c].sent = chat[c].sent /\ n.chat[c].postponed = chat[c].postponed
        /\ n.chat[c].will = chat[c].will /\ n.chat[c].when = chat[c].when
        /\ n.chat[c].before = chat[c].before /\ n.chat[c].sentTill = chat[c].sentTill
        /\ n.chat[c].done = chat[c].done /\ (n.chat[c].entry <=> chat[c].entry \/ c \in held)
    BY <1>4, <1>6
  <2>2. Readings(n.chat[c]) = Readings(chat[c])
    BY <2>1 DEF Readings
  <2>3. Kept(client, c)
    BY <1>3
  <2>4. Ordered(n.chat[c])
    BY <1>2, <2>1, <2>2, <2>3 DEF Kept, Ordered
  <2>5. Alone(n.chat[c]) /\ Flies(n.chat[c])
    BY <1>2, <2>1, <2>2, <2>3 DEF Kept, Alone, Flies, postponeHistoryRequest
  <2>6. Again(n, c)
    BY <1>2, <1>5, <1>6, <2>1, <2>3 DEF Kept, Again, postponeEntryRequest
  <2> QED BY <2>4, <2>5, <2>6 DEF Kept
<1>8. E \in Seq(SUBSET Chats) /\ Len(E) <= MaxEntries
  <2>1. dialogs.pending \ held \in SUBSET Chats
    BY <1>2
  <2> HIDE DEF held
  <2>2. /\ Append(entries, dialogs.pending \ held) \in Seq(SUBSET Chats)
        /\ Len(Append(entries, dialogs.pending \ held)) = Len(entries) + 1
    BY <1>2, <2>1
  <2>3. Len(entries) + 1 <= MaxEntries
    BY <1>1, <1>2, BoundsAssumption
  <2> QED BY <1>1, <1>2, <2>2, <2>3, BoundsAssumption
<1>9. Awaited(n, E)
  <2>1. ASSUME NEW c \in dialogs.asked \cup dialogs.pending
        PROVE  n.chat[c].entry \/ \E i \in 1 .. Len(E) : c \in E[i]
    <3>1. c \in Chats
      BY <1>2
    <3>2. CASE c \in dialogs.asked
      <4>1. chat[c].entry \/ \E i \in 1 .. Len(entries) : c \in entries[i]
        BY <1>2, <1>3, <3>2 DEF Awaited
      <4>2. CASE chat[c].entry
        BY <1>4, <1>6, <3>1, <4>2
      <4>3. CASE \E i \in 1 .. Len(entries) : c \in entries[i]
        <5>1. PICK i \in 1 .. Len(entries) : c \in entries[i]
          BY <4>3
        <5>2. i \in 1 .. Len(E) /\ E[i] = entries[i]
          BY <1>2
        <5> QED BY <5>1, <5>2
      <4> QED BY <4>1, <4>2, <4>3
    <3>3. CASE c \in dialogs.pending
      <4>1. CASE c \in held
        BY <1>4, <1>6, <3>1, <4>1
      <4>2. CASE c \notin held
        <5>1. E = Append(entries, dialogs.pending \ held)
          BY <3>3
        <5>2. Len(E) \in 1 .. Len(E) /\ E[Len(E)] = dialogs.pending \ held
          BY <1>2, <5>1
        <5> QED BY <3>3, <4>2, <5>2
      <4> QED BY <4>1, <4>2
    <3> QED BY <3>2, <3>3
  <2> HIDE DEF E
  <2> QED BY <1>5, <1>6, <2>1 DEF Awaited
<1>10. Watches(n)
  BY <1>2, <1>3, <1>4, <1>6 DEF Watches
<1>11. \A c \in Chats : Comes(n, c)
  BY <1>2, <1>3, <1>4, <1>5, <1>6 DEF Comes
<1>12. Fit(n, E)
  BY <1>6, <1>7, <1>9, <1>10, <1>11 DEF Fit, Good, Sound
<1>13. Becomes(n) /\ entries' = E /\ ghost' \in BOOLEAN /\ made' \in 0 .. MaxMade
  BY <1>1, <1>2, <1>6 DEF Becomes
<1> HIDE DEF E
<1> QED BY <1>8, <1>12, <1>13, FitStep

\* What the answer leaves of the requests for entries.
LEMMA Removed ==
  ASSUME NEW T, NEW s \in Seq(T), NEW i \in 1 .. Len(s)
  PROVE  /\ RemoveAt(s, i) \in Seq(T) /\ Len(RemoveAt(s, i)) = Len(s) - 1
         /\ \A j \in 1 .. Len(s) : j # i =>
              \E k \in 1 .. Len(RemoveAt(s, i)) : RemoveAt(s, i)[k] = s[j]
<1> DEFINE a == SubSeq(s, 1, i - 1)
           b == SubSeq(s, i + 1, Len(s))
<1>1. a \in Seq(T) /\ Len(a) = i - 1 /\ \A k \in 1 .. i - 1 : a[k] = s[k]
  OBVIOUS
<1>2. b \in Seq(T) /\ Len(b) = Len(s) - i /\ \A k \in 1 .. Len(s) - i : b[k] = s[i + k]
  OBVIOUS
<1>3. RemoveAt(s, i) = a \o b
  BY DEF RemoveAt
<1> HIDE DEF a, b
<1>4. /\ a \o b \in Seq(T) /\ Len(a \o b) = Len(s) - 1
      /\ \A k \in 1 .. Len(a) : (a \o b)[k] = a[k]
      /\ \A k \in 1 .. Len(b) : (a \o b)[Len(a) + k] = b[k]
  <2>1. /\ a \o b \in Seq(T) /\ Len(a \o b) = Len(a) + Len(b)
        /\ \A k \in 1 .. Len(a) + Len(b) :
             (a \o b)[k] = IF k <= Len(a) THEN a[k] ELSE b[k - Len(a)]
    BY <1>1, <1>2, ConcatProperties
  <2>2. Len(a) \in Nat /\ Len(b) \in Nat /\ Len(s) \in Nat /\ i \in Int
    BY <1>1, <1>2
  <2>3. ASSUME NEW k \in 1 .. Len(a) PROVE (a \o b)[k] = a[k]
    BY <2>1, <2>2
  <2>4. ASSUME NEW k \in 1 .. Len(b) PROVE (a \o b)[Len(a) + k] = b[k]
    <3>1. /\ Len(a) + k \in 1 .. Len(a) + Len(b) /\ ~(Len(a) + k <= Len(a))
          /\ Len(a) + k - Len(a) = k
      BY <2>2
    <3> QED BY <2>1, <3>1
  <2> QED BY <1>1, <1>2, <2>1, <2>2, <2>3, <2>4
<1>5. ASSUME NEW j \in 1 .. Len(s), j # i
      PROVE  \E k \in 1 .. Len(s) - 1 : (a \o b)[k] = s[j]
  <2>1. CASE j < i
    <3>1. j \in 1 .. Len(a) /\ a[j] = s[j] /\ j \in 1 .. Len(s) - 1
      BY <1>1, <2>1
    <3> QED BY <1>4, <3>1
  <2>2. CASE j > i
    <3>1. PICK k \in 1 .. Len(b) : k = j - i
      BY <1>2, <2>2
    <3>2. b[k] = s[j]
      <4>1. b[k] = s[i + k] /\ i + k = j
        BY <1>2, <3>1
      <4> QED BY <4>1
    <3>3. Len(a) + k \in 1 .. Len(s) - 1
      BY <1>1, <2>2, <3>1
    <3>4. (a \o b)[Len(a) + k] = b[k]
      BY <1>4
    <3>5. PICK q \in 1 .. Len(s) - 1 : q = Len(a) + k
      BY <3>3
    <3>6. (a \o b)[q] = s[j]
      BY <3>2, <3>4, <3>5
    <3> QED BY <3>6
  <2>3. j < i \/ j > i
    BY <1>5
  <2> QED BY <2>1, <2>2, <2>3, Zenon
<1> QED BY <1>3, <1>4, <1>5

\* The answer for entries comes, or fails: for all that it has, and for all that
\* were asked for with it.
LEMMA AnswerEntriesStep ==
  ASSUME IInv, NEW i \in 1 .. Len(entries), AnswerEntries(i)
  PROVE  IInv'
<1> DEFINE S == entries[i]
<1>0. PICK got \in SUBSET S, call \in Calls(S) : \E read \in [got -> Tills] :
        Becomes(finalize(applyPeerDialogs(client, read, call), S, call))
  BY DEF AnswerEntries
<1>1. PICK read \in [got -> Tills] :
        Becomes(finalize(applyPeerDialogs(client, read, call), S, call))
  BY <1>0
<1> DEFINE m1 == applyPeerDialogs(client, read, call)
           m2 == finalize(m1, S, call)
           M1 == [s \in SUBSET got |-> {x \in Client : Fit(x, entries)}]
           M2 == [s \in SUBSET S |->
                    {x \in Client : Fit(x, entries) /\ \A c \in s : Settled(x, c)}]
<1>2. Becomes(m2)
  BY <1>1
<1>3. /\ Fit(client, entries) /\ client \in Client /\ ghost \in BOOLEAN /\ made \in 0 .. MaxMade
      /\ entries \in Seq(SUBSET Chats) /\ Len(entries) <= MaxEntries
  BY ClientFit
<1>4. S \subseteq Chats /\ got \subseteq Chats /\ IsFiniteSet(S) /\ IsFiniteSet(got)
  <2>1. S \in SUBSET Chats
    BY <1>3
  <2> QED BY <2>1, SetsAssumption, FS_Subset
<1>5. call[1] \in Tills /\ call[2].mark \in Tills
  BY CallsType
<1>6. m1 \in M1[got]
  <2>1. client \in M1[{}]
    BY <1>3
  <2>2. ASSUME NEW s \in SUBSET got, NEW c \in s, NEW x \in M1[s \ {c}]
        PROVE  applyDialog(x, c, read[c], call) \in M1[s]
    <3>1. Fit(x, entries) /\ c \in Chats /\ read[c] \in Tills
      BY <1>4
    <3>2. Applied(x, c, applyDialog(x, c, read[c], call), entries)
      BY <1>3, <1>5, <3>1, DialogApplied
    <3> QED BY <3>2 DEF Applied, Fit, Good, Sound
  <2> HIDE DEF M1
  <2>3. \A s \in SUBSET got : \A c \in s :
          \A x \in M1[s \ {c}] : applyDialog(x, c, read[c], call) \in M1[s]
    BY <2>2
  <2>4. got = DOMAIN read
    OBVIOUS
  <2> QED BY <1>4, <2>1, <2>3, <2>4, FoldApplied
<1>7. m1 \in Client /\ Fit(m1, entries)
  BY <1>6
<1> HIDE DEF m1
<1>8. m2 \in M2[S]
  <2>1. m1 \in M2[{}]
    BY <1>7
  <2>2. ASSUME NEW s \in SUBSET S, NEW c \in s, NEW x \in M2[s \ {c}]
        PROVE  dialogEntryApplied(x, c, call) \in M2[s]
    <3>1. Fit(x, entries) /\ c \in Chats /\ \A y \in s \ {c} : Settled(x, y)
      BY <1>4
    <3>2. Applied(x, c, dialogEntryApplied(x, c, call), entries)
      BY <1>3, <1>5, <3>1, EntryApplied DEF Fit
    <3>3. \A y \in s : Settled(dialogEntryApplied(x, c, call), y)
      BY <1>4, <3>1, <3>2 DEF Applied
    <3> QED BY <3>2, <3>3 DEF Applied, Fit, Good, Sound
  <2> HIDE DEF M2
  <2>3. \A s \in SUBSET S : \A c \in s :
          \A x \in M2[s \ {c}] : dialogEntryApplied(x, c, call) \in M2[s]
    BY <2>2
  <2> QED BY <1>4, <2>1, <2>3, FoldFinalize
<1>9. m2 \in Client /\ Fit(m2, entries) /\ \A c \in S : Settled(m2, c)
  BY <1>8
<1> HIDE DEF m2
<1> DEFINE E == RemoveAt(entries, i)
<1>10. /\ E \in Seq(SUBSET Chats) /\ Len(E) = Len(entries) - 1
       /\ \A j \in 1 .. Len(entries) : j # i => \E k \in 1 .. Len(E) : E[k] = entries[j]
  BY <1>3, Removed
<1>11. Awaited(m2, E)
  <2>1. Awaited(m2, entries)
    BY <1>9 DEF Fit, Good, Sound
  <2>2. ASSUME NEW c \in m2.dialogs.asked, ~m2.chat[c].entry
        PROVE  \E k \in 1 .. Len(E) : c \in E[k]
    <3>1. PICK j \in 1 .. Len(entries) : c \in entries[j]
      BY <2>1, <2>2 DEF Awaited
    <3>2. j # i
      BY <1>9, <2>2, <3>1 DEF Settled
    <3> QED BY <1>10, <3>1, <3>2
  <2> HIDE DEF E
  <2> QED BY <2>1, <2>2 DEF Awaited
<1>12. Fit(m2, E)
  BY <1>9, <1>11 DEF Fit, Good, Sound
<1>13. entries' = E /\ UNCHANGED <<ghost, made>>
  BY DEF AnswerEntries
<1>14. Len(E) <= MaxEntries
  BY <1>3, <1>10, BoundsAssumption
<1> HIDE DEF E
<1> QED BY <1>2, <1>3, <1>10, <1>12, <1>13, <1>14, FitStep
-----------------------------------------------------------------------------
\* The invariant holds at first, and every step keeps it.

\* At first nothing is under way.
LEMMA Begins ==
  ASSUME Init
  PROVE  IInv
<1> DEFINE first == [before |-> 0, counted |-> FALSE, will |-> 0, when |-> Off, sentTill |-> 0,
                     done |-> FALSE, entry |-> FALSE, postponed |-> {}, sent |-> {}]
<1>1. /\ chat = [c \in Chats |-> first] /\ timer = Off /\ entries = <<>>
      /\ dialogs = [pending |-> {}, asked |-> {}, wants |-> {}, posted |-> FALSE]
      /\ ghost = FALSE /\ stalled = FALSE /\ made = 0
  BY DEF Init
<1>2. first \in Chat
  BY TillType, BoundsAssumption DEF Chat
<1>3. /\ first.before = 0 /\ first.will = 0 /\ first.when = Off /\ first.sentTill = 0
      /\ first.entry = FALSE /\ first.postponed = {} /\ first.sent = {}
  OBVIOUS
<1> HIDE DEF first
<1>4. dialogs \in Dialogs /\ dialogs.pending = {} /\ dialogs.asked = {}
  BY <1>1 DEF Dialogs
<1>5. TypeOK
  <2>1. chat \in [Chats -> Chat]
    BY <1>1, <1>2
  <2>2. entries \in Seq(SUBSET Chats) /\ Len(entries) = 0
    BY <1>1
  <2>3. 0 <= MaxEntries /\ 0 \in 0 .. MaxMade /\ Off \in Off .. Timeout
    BY TillType, BoundsAssumption
  <2> QED BY <1>1, <1>4, <2>1, <2>2, <2>3 DEF TypeOK
<1>6. client \in Client /\ client.dialogs = dialogs /\ client.stalled = FALSE
      /\ \A c \in Chats : client.chat[c] = first
  BY <1>1, <1>5 DEF client, Client, TypeOK
<1>7. \A c \in Chats : Kept(client, c) /\ Comes(client, c)
  BY <1>3, <1>4, <1>6 DEF Kept, Alone, Ordered, Flies, Again, Comes, Readings,
                         postponeHistoryRequest
<1>8. Awaited(client, entries) /\ Watches(client)
  BY <1>3, <1>4, <1>6 DEF Awaited, Watches
<1> QED BY <1>5, <1>6, <1>7, <1>8 DEF IInv, Sound

\* A step that changes nothing keeps it.
LEMMA StutterStep ==
  ASSUME IInv, UNCHANGED vars
  PROVE  IInv'
<1>1. Fit(client, entries) /\ made \in 0 .. MaxMade
      /\ client.chat = chat /\ client.timer = timer /\ client.dialogs = dialogs
      /\ client.stalled = stalled
  BY ClientFit
<1>2. Becomes(client) /\ entries' = entries /\ ghost' = ghost /\ made' \in 0 .. MaxMade
  BY <1>1 DEF vars, Becomes
<1> QED BY <1>1, <1>2, ClientStep

\* So does every step of a chat.
LEMMA ChatStep ==
  ASSUME IInv, NEW c \in Chats,
         \/ Read(c) \/ AskEntry(c) \/ Leave(c) \/ ReadElsewhere(c)
         \/ LoadDialogs(c) \/ Make(c) \/ Cancel(c) \/ Answer(c)
         \/ DeleteMore(c) \/ AnswerRead(c)
  PROVE  IInv'
BY ReadStep, AskEntryStep, LeaveStep, ReadElsewhereStep, LoadDialogsStep, MakeStep,
   CancelStep, AnswerStep, DeleteMoreStep, AnswerReadStep

\* The invariant is inductive: it holds in every reachable state.
THEOREM Invariant == Spec => []IInv
<1>1. Init => IInv
  BY Begins
<1>2. IInv /\ [Next]_vars => IInv'
  <2> SUFFICES ASSUME IInv, [Next]_vars PROVE IInv'
    OBVIOUS
  <2>1. CASE \E c \in Chats : \/ Read(c) \/ AskEntry(c) \/ Leave(c) \/ ReadElsewhere(c)
                              \/ LoadDialogs(c) \/ Make(c) \/ Cancel(c) \/ Answer(c)
                              \/ DeleteMore(c) \/ AnswerRead(c)
    BY <2>1, ChatStep
  <2>2. CASE Tick
    BY <2>2, TickStep
  <2>3. CASE Fire
    BY <2>3, FireStep
  <2>4. CASE Ghost
    BY <2>4, GhostStep
  <2>5. CASE sendDialogRequests
    BY <2>5, SendDialogRequestsStep
  <2>6. CASE \E i \in 1 .. Len(entries) : AnswerEntries(i)
    BY <2>6, AnswerEntriesStep
  <2>7. CASE UNCHANGED vars
    BY <2>7, StutterStep
  <2> QED BY <2>1, <2>2, <2>3, <2>4, <2>5, <2>6, <2>7 DEF Next
<1> QED BY <1>1, <1>2, PTL DEF Spec

\* Every variable has its type, whatever the handlers are called with and in whatever
\* order answers come.
THEOREM TypeCorrect == Spec => []TypeOK
<1>1. IInv => TypeOK
  BY DEF IInv
<1> QED BY <1>1, Invariant, PTL

\* While a deletion is under way no part of the history is, and no part waits without
\* one (sendRequest and finishSentRequest), for any number of chats and requests.
THEOREM DeletionsAreAlone == Spec => []DeletionAlone
<1>1. IInv => DeletionAlone
  <2> SUFFICES ASSUME IInv, NEW c \in Chats PROVE Alone(chat[c])
    BY DEF DeletionAlone, Alone
  <2> QED BY DEF IInv, Sound, Kept, client
<1> QED BY <1>1, Invariant, PTL

\* Somebody answers for each entry that is asked for, and one that is to be asked for
\* again waits for something that is under way (the assertions of finishSentRequest).
THEOREM EntriesAreBacked == Spec => [](EntryIsBacked /\ AgainIsDue)
<1>1. IInv => EntryIsBacked /\ AgainIsDue
  <2> SUFFICES ASSUME IInv PROVE EntryIsBacked /\ AgainIsDue
    OBVIOUS
  <2>1. Awaited(client, entries) /\ \A c \in Chats : Again(client, c)
    BY DEF IInv, Sound, Kept
  <2>2. client.dialogs = dialogs /\ client.chat = chat
    BY DEF client
  <2>3. AgainIsDue
    BY <2>1, <2>2 DEF Again, AgainIsDue
  <2> QED BY <2>1, <2>2, <2>3 DEF Awaited, EntryIsBacked
<1> QED BY <1>1, Invariant, PTL

\* What was sent and will be sent as read agrees with the requests under way, with the
\* entries that are to come and with the timer (the assertions of sendReadRequest).
THEOREM ReadsAreTracked == Spec => []ReadsTracked
<1>1. IInv => ReadsTracked
  <2> SUFFICES ASSUME IInv PROVE ReadsTracked
    OBVIOUS
  <2>1. /\ \A c \in Chats : Ordered(client.chat[c]) /\ Flies(client.chat[c]) /\ Comes(client, c)
        /\ Watches(client)
    BY DEF IInv, Sound, Kept
  <2>2. client.dialogs = dialogs /\ client.chat = chat /\ client.timer = timer
        /\ client.stalled = stalled
    BY DEF client
  <2>3. ReadIsWatched
    BY <2>1, <2>2 DEF Watches, ReadIsWatched
  <2>4. SentIsBacked
    BY <2>1, <2>2 DEF Flies, Comes, Readings, SentIsBacked
  <2>5. ReadsAscend
    BY <2>1, <2>2 DEF Ordered, Readings, ReadsAscend
  <2> QED BY <2>3, <2>4, <2>5 DEF ReadsTracked
<1> QED BY <1>1, Invariant, PTL
=============================================================================
