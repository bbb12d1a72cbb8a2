-------------------------- MODULE MtpSessionProofs --------------------------
(***************************************************************************)
(* Proofs about MtpSession, for all requests, sizes of the windows, faults *)
(* and bounds.  TypeInv is TypeOK with what its induction needs; each      *)
(* later part adds an invariant of its own, proved from TypeInv and from   *)
(* what the steps do to the maps, the link and the server's session.       *)
(***************************************************************************)
EXTENDS MtpSession, FiniteSetTheorems, TLAPS

\* restart and resetSession.
LEMMA Closed ==
  ASSUME NEW l \in Link
  PROVE  /\ closed(l) \in Link /\ closed(l).state = "Off"
         /\ closed(l).session = l.session /\ closed(l).started = l.started
BY DEF Link, closed

LEMMA Changed ==
  ASSUME NEW l \in Link
  PROVE  LET n == changeSessionId(l) IN
         /\ n \in Link /\ n.state = l.state
         /\ n.session = l.session + 1 /\ ~n.started
<1>1. l.session + 1 \in Nat
  BY DEF Link
<1>2. QED BY <1>1 DEF Link, changeSessionId

LEMMA TrimmedType ==
  ASSUME NEW map \in [Ids -> Requests \cup {None}]
  PROVE  trimmed(map) \in [Ids -> Requests \cup {None}]
BY DEF trimmed, Newest, Known

LEMMA SettledType ==
  ASSUME NEW m \in Maps, NEW ids \in SUBSET Ids, NEW byResponse
  PROVE  LET n == settled(m, ids, byResponse) IN
         /\ n \in Maps
         /\ n.toSend \subseteq m.toSend /\ n.haveSent \subseteq m.haveSent
<1>1. \E T, S, R, A :
        /\ R \in [Ids -> Requests \cup {None}] /\ A \in [Ids -> Requests \cup {None}]
        /\ settled(m, ids, byResponse)
             = [toSend |-> m.toSend \ T, haveSent |-> m.haveSent \ S,
                resending |-> R, acked |-> A, containers |-> m.containers]
  <2> DEFINE
       May(r) == byResponse \/ r \notin waiting
       sent   == {r \in sentAs(m, ids) : May(r)}
       again  == {i \in ids : /\ sentAs(m, {i}) = {} /\ m.resending[i] # None
                              /\ May(m.resending[i])}
       taken  == {i \in again : m.resending[i] \in m.toSend}
       R == [i \in Ids |-> IF i \in again THEN None ELSE m.resending[i]]
       B == [i \in Ids |->
                 IF m.acked[i] # None THEN m.acked[i]
                 ELSE IF \E r \in sent : mark[r].id = i
                      THEN CHOOSE r \in sent : mark[r].id = i
                 ELSE IF i \in taken THEN m.resending[i] ELSE None]
  <2>1. R \in [Ids -> Requests \cup {None}]
    BY DEF Maps
  <2>2. B \in [Ids -> Requests \cup {None}]
    <3>1. sent \subseteq Requests
      BY DEF Maps, sentAs
    <3>2. \A i \in Ids : (\E r \in sent : mark[r].id = i)
                           => (CHOOSE r \in sent : mark[r].id = i) \in Requests
      <4> HIDE DEF sent
      <4> QED BY <3>1
    <3> HIDE DEF sent, taken
    <3> QED BY <3>2 DEF Maps
  <2>3. trimmed(B) \in [Ids -> Requests \cup {None}]
    BY <2>2, TrimmedType
  <2>4. settled(m, ids, byResponse)
        = [toSend |-> m.toSend \ {m.resending[i] : i \in again}, haveSent |-> m.haveSent \ sent,
           resending |-> R, acked |-> trimmed(B), containers |-> m.containers]
    BY Zenon DEF settled
  <2> HIDE DEF R, B, sent, again, taken
  <2> QED BY <2>1, <2>3, <2>4
<1>2. QED BY <1>1 DEF Maps

LEMMA AckedType ==
  ASSUME NEW m \in Maps, NEW ids \in SUBSET Ids, NEW byResponse
  PROVE  LET n == requestsAcked(m, ids, byResponse) IN
         /\ n \in Maps
         /\ n.toSend \subseteq m.toSend /\ n.haveSent \subseteq m.haveSent
<1> DEFINE boxes == {i \in ids : m.containers[i] # {}}
           inner == UNION {m.containers[i] : i \in boxes}
           opened == [m EXCEPT !.containers =
                          [i \in Ids |-> IF i \in boxes THEN {} ELSE @[i]]]
           outer == settled(opened, ids \ boxes, byResponse)
<1>1. opened \in Maps /\ opened.toSend = m.toSend /\ opened.haveSent = m.haveSent
  <2>1. [i \in Ids |-> IF i \in boxes THEN {} ELSE m.containers[i]] \in [Ids -> SUBSET Ids]
    BY DEF Maps
  <2> QED BY <2>1 DEF Maps
<1>2. /\ outer \in Maps
      /\ outer.toSend \subseteq m.toSend /\ outer.haveSent \subseteq m.haveSent
  <2> HIDE DEF opened
  <2> QED BY <1>1, SettledType
<1>3. /\ settled(outer, inner, FALSE) \in Maps
      /\ settled(outer, inner, FALSE).toSend \subseteq outer.toSend
      /\ settled(outer, inner, FALSE).haveSent \subseteq outer.haveSent
  <2>1. inner \subseteq Ids BY DEF Maps
  <2> HIDE DEF outer, inner
  <2> QED BY <1>2, <2>1, SettledType
<1>4. requestsAcked(m, ids, byResponse)
        = IF inner = {} THEN outer ELSE settled(outer, inner, FALSE)
  BY DEF requestsAcked
<1> HIDE DEF outer, inner
<1> QED BY <1>2, <1>3, <1>4

----------------------------------------------------------------------------
LEMMA SeqOfSet ==
  ASSUME NEW S, IsFiniteSet(S)
  PROVE  SetToSeq(S) \in Seq(S)
<1>1. PICK f : f \in [1 .. Cardinality(S) -> S] /\ IsInjective(f)
  BY FS_CardinalityType DEF ExistsBijection, Bijection, Injection, IsInjective
<1>2. SetToSeq(S) \in [1 .. Cardinality(S) -> S]
  BY <1>1 DEF SetToSeq
<1>3. QED BY <1>2, FS_CardinalityType

LEMMA SeqOfSubset ==
  ASSUME NEW S, NEW T, IsFiniteSet(S), S \subseteq T
  PROVE  SetToSeq(S) \in Seq(T)
BY SeqOfSet

\* An answer is one to a single message.
Told == {p \in Packet : p.kind = "result" => \E i \in Ids : p.ids = {i}}

TypeInv ==
  /\ TypeOK
  /\ down \in Seq(Told)
  /\ IsFiniteSet(server.answers)
  /\ \A r \in q.haveSent : mark[r].id # None

LEMMA ToldType == Seq(Told) \subseteq Seq(Packet)
<1>1. Told \subseteq Packet
  BY DEF Told
<1>2. QED BY <1>1

LEMMA TypeInit == Init => TypeInv
BY FS_EmptySet, BoundsAssumption, RequestsAssumption
   DEF Init, TypeInv, TypeOK, Maps, Link, Server, NotCancelling, None, Ids


\* A container is opened.
LEMMA OpenedType ==
  ASSUME NEW m \in Maps, NEW id \in Ids
  PROVE  LET n == [m EXCEPT !.containers[id] = {}] IN
         n \in Maps /\ n.toSend = m.toSend /\ n.haveSent = m.haveSent
<1>1. [m.containers EXCEPT ![id] = {}] \in [Ids -> SUBSET Ids]
  BY DEF Maps
<1>2. QED BY <1>1 DEF Maps

\* The main thread, the timers and the resending.
LEMMA TypeMain ==
  ASSUME TypeInv,
         \/ \E r \in Requests : sendPrepared(r) \/ cancel(r)
         \/ CancelSent \/ tryToReceive
  PROVE  TypeInv'
<1> USE DEF TypeInv, TypeOK
<1>1. ASSUME NEW r \in Requests, sendPrepared(r) PROVE TypeInv'
  BY <1>1 DEF sendPrepared, Maps, Link, history
<1>2. ASSUME NEW r \in Requests, cancel(r) PROVE TypeInv'
  <2>1. cancelling' \in [request : Requests \cup {None}, id : Ids \cup {None}]
    <3>1. mark[r].id \in Ids \cup {None}
      OBVIOUS
    <3>2. PICK id \in {mark[r].id} \cup (IF r \in q.haveSent THEN {None} ELSE {}) :
            cancelling' = [request |-> r, id |-> id]
      BY <1>2 DEF cancel
    <3>3. QED BY <3>1, <3>2
  <2>2. q' \in Maps /\ q'.haveSent = q.haveSent
    BY <1>2 DEF cancel, Maps
  <2>3. UNCHANGED <<made, waiting, replies, mark, forced, hand, todo, link, received, nextId,
                    down, server, faults, handled, ran>>
    BY <1>2 DEF cancel, history
  <2>4. QED BY <2>1, <2>2, <2>3
<1>3. ASSUME CancelSent PROVE TypeInv'
  BY <1>3 DEF CancelSent, NotCancelling, None, Maps, history
<1>4. ASSUME tryToReceive PROVE TypeInv'
  BY <1>4 DEF tryToReceive, private, history
<1>5. QED BY <1>1, <1>2, <1>3, <1>4

LEMMA TypeTimers ==
  ASSUME TypeInv,
         sendPingByTimer \/ checkSentRequests \/ clearOldContainers
  PROVE  TypeInv'
<1> USE DEF TypeInv, TypeOK
<1>1. ASSUME sendPingByTimer PROVE TypeInv'
  BY <1>1 DEF sendPingByTimer, main, Link, history
<1>2. ASSUME checkSentRequests PROVE TypeInv'
  <2>1. {mark[r].id : r \in q.haveSent} \subseteq Ids
    BY DEF Maps
  <2>2. link' \in Link
    BY <1>2, <2>1 DEF checkSentRequests, Link
  <2>3. QED BY <1>2, <2>2 DEF checkSentRequests, main, history
<1>3. ASSUME clearOldContainers PROVE TypeInv'
  <2>1. PICK id \in Ids : /\ todo' = q.containers[id]
                          /\ q' = [q EXCEPT !.containers[id] = {}]
    BY <1>3 DEF clearOldContainers
  <2>2. todo' \subseteq Ids
    BY <2>1 DEF Maps
  <2>3. q' \in Maps /\ q'.haveSent = q.haveSent
    BY <2>1, OpenedType
  <2>4. faults' \in Nat
    BY <1>3 DEF clearOldContainers
  <2>5. QED BY <1>3, <2>2, <2>3, <2>4 DEF clearOldContainers, main, history
<1>4. QED BY <1>1, <1>2, <1>3

LEMMA TypeResend ==
  ASSUME TypeInv, ResendTake \/ ResendPut
  PROVE  TypeInv'
<1>0. /\ q \in Maps /\ link \in Link
      /\ hand \subseteq Requests /\ todo \subseteq Ids /\ forced \subseteq Requests
  BY DEF TypeInv, TypeOK
<1>1. ASSUME ResendTake PROVE TypeInv'
  <2>1. link' \in Link
    BY <1>0, <1>1 DEF ResendTake, Link
  <2>2. PICK id \in todo :
          IF q.containers[id] # {}
          THEN /\ todo' = (todo \ {id}) \cup q.containers[id]
               /\ q' = [q EXCEPT !.containers[id] = {}]
               /\ UNCHANGED hand
          ELSE /\ todo' = todo \ {id}
               /\ hand' = sentAs(q, {id})
               /\ q' = [q EXCEPT !.haveSent = @ \ hand']
    BY <1>1 DEF ResendTake
  <2>3. /\ q' \in Maps /\ q'.haveSent \subseteq q.haveSent
        /\ hand' \subseteq Requests /\ todo' \subseteq Ids
    <3>1. CASE q.containers[id] # {}
      <4>1. q.containers[id] \subseteq Ids
        BY <1>0 DEF Maps
      <4>2. /\ todo' = (todo \ {id}) \cup q.containers[id]
            /\ q' = [q EXCEPT !.containers[id] = {}] /\ hand' = hand
        BY <2>2, <3>1
      <4>3. q' \in Maps /\ q'.haveSent = q.haveSent
        BY <1>0, <4>2, OpenedType
      <4>4. QED BY <1>0, <4>1, <4>2, <4>3
    <3>2. CASE q.containers[id] = {}
      <4>1. sentAs(q, {id}) \subseteq Requests
        BY <1>0 DEF sentAs, Maps
      <4>2. /\ todo' = todo \ {id} /\ hand' = sentAs(q, {id})
            /\ q' = [q EXCEPT !.haveSent = @ \ hand']
        BY <2>2, <3>2
      <4>3. q' \in Maps /\ q'.haveSent \subseteq q.haveSent
        BY <1>0, <4>2 DEF Maps
      <4>4. QED BY <1>0, <4>1, <4>2, <4>3
    <3>3. QED BY <3>1, <3>2
  <2>4. QED BY <1>1, <2>1, <2>3 DEF ResendTake, main, history, TypeInv, TypeOK
<1>2. ASSUME ResendPut PROVE TypeInv'
  <2>1. link' \in Link
    BY <1>0, <1>2 DEF ResendPut, Link
  <2> DEFINE back == [i \in Ids |->
                       IF \E r \in hand : mark[r].id = i
                       THEN CHOOSE r \in hand : mark[r].id = i ELSE q.resending[i]]
  <2>2. back \in [Ids -> Requests \cup {None}]
    <3>1. \A i \in Ids : (\E r \in hand : mark[r].id = i)
                           => (CHOOSE r \in hand : mark[r].id = i) \in hand
      OBVIOUS
    <3>2. QED BY <1>0, <3>1 DEF Maps
  <2>3. q' \in Maps /\ q'.haveSent = q.haveSent
    <3>1. q' = [q EXCEPT !.toSend = @ \cup hand, !.resending = back]
      BY <1>2 DEF ResendPut
    <3> HIDE DEF back
    <3>2. QED BY <1>0, <2>2, <3>1 DEF Maps
  <2>4. QED BY <1>0, <1>2, <2>1, <2>3 DEF ResendPut, main, history, TypeInv, TypeOK
<1>3. QED BY <1>1, <1>2

LEMMA TypeConnection ==
  ASSUME TypeInv, Connect \/ LearnSalt \/ Break \/ Disconnect
  PROVE  TypeInv'
<1> USE DEF TypeInv, TypeOK
<1>1. ASSUME Connect PROVE TypeInv'
  <2>1. CASE link.salt = 0
    <3>1. link' \in Link
      BY <1>1, <2>1 DEF Connect, Link
    <3>2. QED BY <1>1, <2>1, <3>1 DEF Connect, main, history
  <2>2. CASE link.salt # 0
    <3>1. link' \in Link
      <4>1. link \in Link
        OBVIOUS
      <4>2. link' = [link EXCEPT !.state = "On", !.sendDue = TRUE]
        BY <1>1, <2>2 DEF Connect
      <4> HIDE DEF TypeInv, TypeOK
      <4>3. QED BY <4>1, <4>2 DEF Link
    <3>2. q' \in Maps /\ q'.haveSent = {} /\ hand' \subseteq Requests
      BY <1>1, <2>2 DEF Connect, Maps
    <3>3. QED BY <1>1, <2>2, <3>1, <3>2 DEF Connect, main, history
  <2>3. QED BY <2>1, <2>2
<1>2. ASSUME LearnSalt PROVE TypeInv'
  <2>1. link' \in Link
    <3>1. link \in Link /\ server.salt \in Nat
      BY DEF Server
    <3>2. QED BY <1>2, <3>1 DEF LearnSalt, Link
  <2>2. q' \in Maps /\ q'.haveSent = {} /\ hand' \subseteq Requests
    BY <1>2 DEF LearnSalt, Maps
  <2>3. QED BY <1>2, <2>1, <2>2 DEF LearnSalt, main, history
<1>3. ASSUME Break PROVE TypeInv'
  <2>1. link' \in Link
    BY <1>3 DEF Break, Link
  <2>2. down' \in Seq(Packet) /\ faults' \in Nat
    BY <1>3 DEF Break
  <2>3. QED BY <1>3, <2>1, <2>2 DEF Break, main, history
<1>4. ASSUME Disconnect PROVE TypeInv'
  BY <1>4, Closed DEF Disconnect, main, history
<1>5. QED BY <1>1, <1>2, <1>3, <1>4

LEMMA TypeSalt ==
  ASSUME TypeInv, ServerChangesSalt \/ ServerForgets
  PROVE  TypeInv'
<1>0. server \in Server /\ faults \in Nat
  BY DEF TypeInv, TypeOK
<1>1. ASSUME ServerChangesSalt PROVE TypeInv'
  <2>1. server' \in Server /\ server'.answers = server.answers /\ faults' \in Nat
    BY <1>0, <1>1 DEF ServerChangesSalt, Server
  <2>2. QED BY <1>1, <2>1 DEF ServerChangesSalt, main, private, history, TypeInv, TypeOK
<1>2. ASSUME ServerForgets PROVE TypeInv'
  <2>1. server' \in Server /\ server'.answers = {} /\ faults' \in Nat
    <3>1. server' = [server EXCEPT !.session = 0, !.pending = {}, !.answers = {}]
      BY <1>2 DEF ServerForgets
    <3>2. server' \in Server /\ server'.answers = {}
      BY <1>0, <3>1 DEF Server
    <3>3. faults' \in Nat
      BY <1>0, <1>2 DEF ServerForgets
    <3>4. QED BY <3>2, <3>3
  <2>2. QED BY <1>2, <2>1, FS_EmptySet
            DEF ServerForgets, main, private, history, TypeInv, TypeOK
<1>3. QED BY <1>1, <1>2

----------------------------------------------------------------------------
\* What a message from the server does.
LEMMA WasSentType ==
  ASSUME NEW m \in Maps, NEW id \in Ids
  PROVE  wasSent(m, id) \in Requests \cup {None}
<1>1. sentAs(m, {id}) \subseteq Requests
  BY DEF sentAs, Maps
<1>2. sentAs(m, {id}) # {} => (CHOOSE r \in sentAs(m, {id}) : TRUE) \in Requests
  BY <1>1
<1>3. QED BY <1>2 DEF wasSent, Maps

LEMMA ActedType ==
  ASSUME q \in Maps, NEW m \in Packet
  PROVE  /\ acted(m) \in Maps
         /\ acted(m).toSend \subseteq q.toSend /\ acted(m).haveSent \subseteq q.haveSent
<1>1. m.ids \in SUBSET Ids
  BY DEF Packet
<1> DEFINE got == {i \in m.ids \cap m.got : sentAs(q, {i}) # {} \/ q.resending[i] # None}
<1>2. got \in SUBSET Ids
  BY <1>1
<1>3. \/ acted(m) = q
      \/ \E ids \in SUBSET Ids, byResponse \in BOOLEAN :
           acted(m) = requestsAcked(q, ids, byResponse)
  <2> HIDE DEF got
  <2>1. acted(m) = CASE m.kind = "result" -> requestsAcked(q, m.ids, TRUE)
                     [] m.kind \in {"ack", "detailed"} -> requestsAcked(q, m.ids, FALSE)
                     [] m.kind = "states" -> requestsAcked(q, got, FALSE)
                     [] OTHER -> q
    BY DEF acted, got
  <2>2. CASE m.kind = "result"
    BY <1>1, <2>1, <2>2
  <2>3. CASE m.kind \in {"ack", "detailed"}
    BY <1>1, <2>1, <2>3
  <2>4. CASE m.kind = "states"
    BY <1>2, <2>1, <2>4
  <2>5. CASE m.kind \notin {"result", "ack", "detailed", "states"}
    BY <2>1, <2>5
  <2>6. QED BY <2>2, <2>3, <2>4, <2>5
<1>4. QED BY <1>3, AckedType

LEMMA ResentType ==
  ASSUME TypeInv, NEW m \in Packet
  PROVE  resent(m) \subseteq Ids
<1>1. m.ids \subseteq Ids
  BY DEF Packet
<1>2. \A r \in q.haveSent : mark[r].id \in Ids
  BY DEF TypeInv, TypeOK, Maps
<1>3. QED BY <1>1, <1>2 DEF resent

LEMMA AnsweredType ==
  ASSUME q \in Maps, NEW m \in Packet
  PROVE  answered(m) \subseteq Requests /\ IsFiniteSet(answered(m))
<1>1. m.ids \subseteq Ids /\ acted(m) \in Maps
  BY ActedType DEF Packet
<1>2. answered(m) \subseteq Requests
  BY <1>1, WasSentType DEF answered
<1>3. QED BY <1>2, RequestsAssumption, FS_Subset

LEMMA HeardType ==
  ASSUME link \in Link, received \subseteq Nat, NEW m \in Packet
  PROVE  /\ heard(m) \in Link
         /\ heard(m).state = link.state /\ heard(m).session = link.session
         /\ heard(m).started = link.started
<1>1. m.mid \in Nat /\ m.got \subseteq Nat /\ m.salt \in Nat
  BY DEF Packet
<1> DEFINE A == IF m.kind = "result" THEN link.toAck \cup {m.mid}
                ELSE IF m.kind = "detailed" THEN link.toAck \cup (m.got \cap received)
                ELSE link.toAck
           B == IF m.kind = "detailed" THEN link.askAgain \cup (m.got \ received)
                ELSE link.askAgain
           C == link.sendDue \/ link.toAck # {} \/ m.kind = "result"
                  \/ (m.kind = "detailed" /\ m.got \cap received # {})
<1>2. A \subseteq Nat /\ B \subseteq Nat
  BY <1>1 DEF Link
<1>3. C \in BOOLEAN
  BY DEF Link
<1>4. heard(m) = [link EXCEPT !.salt = m.salt, !.toAck = A, !.askAgain = B, !.sendDue = C]
  BY DEF heard
<1> HIDE DEF A, B, C
<1>5. heard(m) \in Link
  BY <1>1, <1>2, <1>3, <1>4 DEF Link
<1>6. heard(m).state = link.state /\ heard(m).session = link.session
  BY <1>4 DEF Link
<1>7. heard(m).started = link.started
  BY <1>4 DEF Link
<1>8. QED BY <1>5, <1>6, <1>7

LEMMA RegisterType ==
  ASSUME received \subseteq Nat, NEW m \in Packet
  PROVE  Register(m).ids \subseteq received \cup {m.outer, m.mid}
BY DEF Register, registered

LEMMA TypeReceive ==
  ASSUME TypeInv, handleReceived
  PROVE  TypeInv'
<1>0. /\ q \in Maps /\ link \in Link /\ received \subseteq Nat
      /\ down \in Seq(Packet) /\ down \in Seq(Told)
      /\ handled \in [ids : SUBSET Nat, twice : BOOLEAN] /\ replies \in Seq(Requests)
      /\ todo \subseteq Ids
  BY DEF TypeInv, TypeOK
<1> DEFINE m == Head(down)
           r == Register(m)
           reset == r.result = TooOld \/ (r.result = Success /\ resets(m))
           salted == [link EXCEPT !.salt = m.salt]
<1>1. /\ m \in Packet /\ Tail(down) \in Seq(Packet) /\ <<>> \in Seq(Packet)
      /\ Tail(down) \in Seq(Told) /\ <<>> \in Seq(Told)
  BY <1>0 DEF handleReceived
<1>2. IF r.result = Success
      THEN /\ q' = acted(m)
           /\ replies' = replies \o SetToSeq(answered(m))
           /\ todo' = IF reset THEN {} ELSE resent(m)
      ELSE UNCHANGED <<q, replies, todo>>
  BY DEF handleReceived
<1>3. IF reset
      THEN /\ link' = changeSessionId(closed(salted))
           /\ received' = {} /\ handled' = [handled EXCEPT !.ids = {}]
           /\ down' = <<>>
      ELSE /\ received' \in shrink(r.ids, WindowSize)
           /\ link' = IF r.result = Success THEN heard(m)
                      ELSE [salted EXCEPT !.toAck = IF m.kind = "result"
                                                    THEN @ \cup {m.mid} ELSE @,
                                          !.sendDue = @ \/ m.kind = "result"]
           /\ handled' = IF r.result = Success
                         THEN [ids |-> handled.ids \cup {m.mid},
                               twice |-> handled.twice \/ m.mid \in handled.ids]
                         ELSE handled
           /\ down' = Tail(down)
  BY DEF handleReceived
<1> HIDE DEF m
<1>4. r.ids \subseteq Nat
  BY <1>0, <1>1, RegisterType DEF Packet
<1> HIDE DEF r
<1>5. /\ q' \in Maps /\ q'.haveSent \subseteq q.haveSent
      /\ replies' \in Seq(Requests) /\ todo' \subseteq Ids
  <2>1. CASE r.result = Success
    <3>1. SetToSeq(answered(m)) \in Seq(Requests)
      BY <1>0, <1>1, AnsweredType, SeqOfSubset
    <3>2. replies' \in Seq(Requests)
      <4>1. replies' = replies \o SetToSeq(answered(m))
        BY <1>2, <2>1
      <4>2. QED BY <1>0, <3>1, <4>1
    <3>3. QED BY <1>0, <1>1, <1>2, <2>1, <3>2, ActedType, ResentType
  <2>2. CASE r.result # Success
    BY <1>0, <1>2, <2>2
  <2>3. QED BY <2>1, <2>2
<1>6. link' \in Link
  <2>0. /\ salted \in Link
        /\ salted.toAck = link.toAck /\ salted.sendDue = link.sendDue
    BY <1>0, <1>1 DEF Link, Packet
  <2> HIDE DEF salted
  <2>1. CASE reset
    <3>1. link' = changeSessionId(closed(salted))
      BY <1>3, <2>1
    <3>2. QED BY <2>0, <3>1, Closed, Changed
  <2>2. CASE ~reset /\ r.result = Success
    BY <1>0, <1>1, <1>3, <2>2, HeardType
  <2>3. CASE ~reset /\ r.result # Success
    <3> DEFINE A == IF m.kind = "result" THEN link.toAck \cup {m.mid} ELSE link.toAck
               C == link.sendDue \/ m.kind = "result"
    <3>1. A \subseteq Nat /\ C \in BOOLEAN
      BY <1>0, <1>1 DEF Link, Packet
    <3>2. link' = [salted EXCEPT !.toAck = A, !.sendDue = C]
      BY <1>3, <2>0, <2>3
    <3> HIDE DEF A, C
    <3>3. QED BY <2>0, <3>1, <3>2 DEF Link
  <2>4. QED BY <2>1, <2>2, <2>3
<1>7. received' \subseteq Nat
  BY <1>3, <1>4 DEF shrink
<1>8. /\ handled' \in [ids : SUBSET Nat, twice : BOOLEAN]
      /\ down' \in Seq(Packet) /\ down' \in Seq(Told)
  <2>1. CASE reset
    <3>1. handled' = [handled EXCEPT !.ids = {}] /\ down' = <<>>
      BY <1>3, <2>1
    <3>2. QED BY <1>0, <1>1, <3>1
  <2>2. CASE ~reset /\ r.result = Success
    <3> DEFINE I == handled.ids \cup {m.mid}
               B == handled.twice \/ m.mid \in handled.ids
    <3>1. handled' = [ids |-> I, twice |-> B] /\ down' = Tail(down)
      BY <1>3, <2>2 DEF m
    <3>2. I \in SUBSET Nat /\ B \in BOOLEAN
      BY <1>0, <1>1 DEF Packet
    <3> HIDE DEF I, B
    <3>3. QED BY <1>1, <3>1, <3>2
  <2>3. CASE ~reset /\ r.result # Success
    BY <1>0, <1>1, <1>3, <2>3
  <2>4. QED BY <2>1, <2>2, <2>3
<1>9. QED BY <1>5, <1>6, <1>7, <1>8 DEF handleReceived, TypeInv, TypeOK

----------------------------------------------------------------------------
\* Sending.

LEMMA NewIdType ==
  ASSUME TypeInv, NEW batch \in SUBSET Requests
  PROVE  /\ nextId + Cardinality(renumbered(batch)) \in Nat \ {0}
         /\ nextId + Cardinality(renumbered(batch)) >= nextId
         /\ \A r \in renumbered(batch) :
              /\ newId(batch, r) \in Nat \ {0} /\ newId(batch, r) >= nextId
              /\ newId(batch, r) < nextId + Cardinality(renumbered(batch))
<1>1. IsFiniteSet(renumbered(batch)) /\ renumbered(batch) \subseteq Requests
  BY RequestsAssumption, FS_Subset DEF renumbered
<1>2. Cardinality(renumbered(batch)) \in Nat
  BY <1>1, FS_CardinalityType
<1>3. ASSUME NEW r \in renumbered(batch)
      PROVE  /\ Cardinality({s \in renumbered(batch) : s < r}) \in Nat
             /\ Cardinality({s \in renumbered(batch) : s < r})
                  < Cardinality(renumbered(batch))
  <2> DEFINE S == {s \in renumbered(batch) : s < r}
  <2>1. S \subseteq renumbered(batch) /\ r \notin S
    <3>1. r \in Nat
      BY <1>1, RequestsAssumption
    <3>2. ~(r < r)
      BY <3>1
    <3>3. QED BY <3>2
  <2> HIDE DEF S
  <2>2. IsFiniteSet(S) /\ Cardinality(S) <= Cardinality(renumbered(batch))
        /\ Cardinality(S) # Cardinality(renumbered(batch))
    BY <1>1, <2>1, FS_Subset
  <2>3. Cardinality(S) \in Nat
    BY <2>2, FS_CardinalityType
  <2>4. QED BY <1>2, <2>2, <2>3 DEF S
<1>4. nextId \in Nat \ {0}
  BY DEF TypeInv, TypeOK
<1>5. QED BY <1>2, <1>3, <1>4 DEF newId

LEMMA MarkedType ==
  ASSUME TypeInv, NEW batch \in SUBSET Requests,
         nextId + Cardinality(renumbered(batch)) <= MaxId
  PROVE  /\ marked(batch) \in [Requests -> [id : Ids \cup {None}, session : Nat]]
         /\ \A r \in renumbered(batch) : newId(batch, r) \in Ids
         /\ \A r \in batch : marked(batch)[r].id \in Ids
         /\ \A r \in Requests : mark[r].id # None => marked(batch)[r].id # None
         /\ \A r \in Requests \ batch : marked(batch)[r] = mark[r]
<1>1. \A r \in renumbered(batch) : newId(batch, r) \in Ids
  BY NewIdType, BoundsAssumption DEF Ids
<1>2. /\ mark \in [Requests -> [id : Ids \cup {None}, session : Nat]]
      /\ link.session \in Nat
  BY DEF TypeInv, TypeOK, Link
<1>3. \A r \in Requests : marked(batch)[r] \in [id : Ids \cup {None}, session : Nat]
  BY <1>1, <1>2 DEF marked
<1>4. marked(batch) \in [Requests -> [id : Ids \cup {None}, session : Nat]]
  BY <1>3 DEF marked
<1>5. \A r \in renumbered(batch) : marked(batch)[r].id = newId(batch, r)
  BY DEF marked, renumbered
<1>6. \A r \in Requests \ renumbered(batch) : marked(batch)[r] = mark[r]
  BY DEF marked
<1>7. \A r \in batch \ renumbered(batch) : mark[r].id # None
  BY DEF renumbered
<1>8. \A r \in batch : marked(batch)[r].id \in Ids
  BY <1>1, <1>2, <1>5, <1>6, <1>7
<1>9. renumbered(batch) \subseteq batch
  BY DEF renumbered
<1>10. None \notin Ids
  BY BoundsAssumption DEF Ids, None
<1>11. \A r \in Requests : mark[r].id # None => marked(batch)[r].id # None
  BY <1>1, <1>5, <1>6, <1>10
<1>12. QED BY <1>1, <1>4, <1>6, <1>8, <1>9, <1>11

LEMMA ReplacedType ==
  ASSUME TypeInv, NEW batch \in SUBSET Requests,
         nextId + Cardinality(renumbered(batch)) <= MaxId
  PROVE  /\ replacedIds(batch).resending \in [Ids -> Requests \cup {None}]
         /\ replacedIds(batch).acked \in [Ids -> Requests \cup {None}]
         /\ replacedIds(batch).containers \in [Ids -> SUBSET Ids]
<1>1. q \in Maps
  BY DEF TypeInv, TypeOK
<1>2. \A j \in Ids : Moved(batch, j) \in Ids
  <2> TAKE j \in Ids
  <2>1. (\E r \in renumbered(batch) : mark[r].id = j)
          => (CHOOSE r \in renumbered(batch) : mark[r].id = j) \in renumbered(batch)
    OBVIOUS
  <2>2. QED BY <2>1, MarkedType DEF Moved
<1>3. \A i \in Ids : (\E j \in Known(q.acked) : Moved(batch, j) = i)
                       => (CHOOSE j \in Known(q.acked) : Moved(batch, j) = i) \in Ids
  BY DEF Known
<1>4. [i \in Ids |-> IF \E r \in batch : mark[r].id = i THEN None ELSE q.resending[i]]
        \in [Ids -> Requests \cup {None}]
  BY <1>1 DEF Maps
<1>5. [i \in Ids |-> IF \E j \in Known(q.acked) : Moved(batch, j) = i
                     THEN q.acked[CHOOSE j \in Known(q.acked) : Moved(batch, j) = i]
                     ELSE None]
        \in [Ids -> Requests \cup {None}]
  BY <1>1, <1>3 DEF Maps
<1>6. [i \in Ids |-> {Moved(batch, j) : j \in q.containers[i]}] \in [Ids -> SUBSET Ids]
  BY <1>1, <1>2 DEF Maps
<1>7. QED BY <1>4, <1>5, <1>6 DEF replacedIds

\* A message of the client.
Sent == [outer : Ids, items : SUBSET (Ids \X Requests), session : Nat, salt : Nat,
         acks : SUBSET Nat, again : SUBSET Nat, states : SUBSET Ids]

LEMMA MessageType ==
  ASSUME TypeInv, NEW batch \in SUBSET Requests,
         nextId + Cardinality(renumbered(batch)) <= MaxId
  PROVE  Message(batch) \in Sent
<1>1. link \in Link
  BY DEF TypeInv, TypeOK
<1>2. nextId + Cardinality(renumbered(batch)) \in Ids
  BY NewIdType, BoundsAssumption DEF Ids
<1>3. batch = {} => InContainer(batch)
  BY DEF InContainer
<1>4. batch # {} => (CHOOSE r \in batch : TRUE) \in batch
  OBVIOUS
<1> DEFINE outer == IF InContainer(batch)
                    THEN nextId + Cardinality(renumbered(batch))
                    ELSE marked(batch)[CHOOSE r \in batch : TRUE].id
           items == {<<marked(batch)[r].id, r>> : r \in batch}
<1>5. outer \in Ids
  BY <1>2, <1>3, <1>4, MarkedType
<1>6. items \in SUBSET (Ids \X Requests)
  BY MarkedType
<1>7. Message(batch) = [outer |-> outer, items |-> items,
        session |-> link.session, salt |-> link.salt,
        acks |-> link.toAck, again |-> link.askAgain, states |-> link.askState]
  BY DEF Message
<1> HIDE DEF outer, items
<1>8. QED BY <1>1, <1>5, <1>6, <1>7 DEF Sent, Link

LEMMA SendType ==
  ASSUME TypeInv, NEW batch \in SUBSET Requests, Send(batch)
  PROVE  /\ nextId + Cardinality(renumbered(batch)) <= MaxId
         /\ mark' = marked(batch) /\ link' = said(batch)
         /\ mark' \in [Requests -> [id : Ids \cup {None}, session : Nat]]
         /\ q' \in Maps /\ link' \in Link /\ nextId' \in Nat \ {0}
         /\ q'.toSend = q.toSend \ batch /\ q'.haveSent = q.haveSent \cup batch
         /\ \A r \in q'.haveSent : mark'[r].id # None
<1> DEFINE box   == nextId + Cardinality(renumbered(batch))
           boxed == InContainer(batch)
           moved == replacedIds(batch)
           C == IF boxed
                THEN [moved.containers EXCEPT ![box] = {mark'[r].id : r \in batch}]
                ELSE moved.containers
<1>1. q \in Maps /\ link \in Link
  BY DEF TypeInv, TypeOK
<1>2. box <= MaxId /\ mark' = marked(batch) /\ link' = said(batch)
  BY DEF Send
<1>3. \A r \in batch : mark'[r].id \in Ids
  BY <1>2, MarkedType
<1>4. C \in [Ids -> SUBSET Ids]
  <2>1. moved.containers \in [Ids -> SUBSET Ids]
    BY <1>2, ReplacedType
  <2> HIDE DEF moved, box, boxed
  <2>2. QED BY <1>3, <2>1
<1>5. q' = [toSend |-> q.toSend \ batch, haveSent |-> q.haveSent \cup batch,
            resending |-> moved.resending, acked |-> moved.acked, containers |-> C]
  BY Zenon DEF Send
<1>6. moved.resending \in [Ids -> Requests \cup {None}]
      /\ moved.acked \in [Ids -> Requests \cup {None}]
  BY <1>2, ReplacedType
<1> HIDE DEF moved, C, boxed
<1>7. /\ q' \in Maps
      /\ q'.toSend = q.toSend \ batch /\ q'.haveSent = q.haveSent \cup batch
  BY <1>1, <1>4, <1>5, <1>6 DEF Maps
<1>8. link' \in Link
  <2> DEFINE D == link.checkDue \/ (InContainer(batch) /\ batch # {})
             E == batch # q.toSend
  <2>1. D \in BOOLEAN /\ E \in BOOLEAN
    BY <1>1 DEF Link
  <2>2. link' = [link EXCEPT !.started = TRUE, !.sendDue = E, !.checkDue = D,
                             !.toAck = {}, !.askAgain = {}, !.askState = {}]
    BY <1>2 DEF said
  <2> HIDE DEF D, E
  <2>3. QED BY <1>1, <2>1, <2>2 DEF Link
<1>9. nextId' \in Nat \ {0}
  <2>1. box \in Nat \ {0}
    BY NewIdType
  <2>2. nextId' = box \/ nextId' = box + 1
    BY DEF Send
  <2> HIDE DEF box
  <2>3. QED BY <2>1, <2>2
<1>10. \A r \in q'.haveSent : mark'[r].id # None
  <2>1. \A r \in q.haveSent : r \in Requests /\ mark[r].id # None
    BY <1>1 DEF Maps, TypeInv
  <2>2. \A r \in batch : mark'[r].id # None
    BY <1>3, BoundsAssumption DEF Ids, None
  <2>3. \A r \in q.haveSent : mark'[r].id # None
    BY <1>2, <2>1, MarkedType
  <2>4. QED BY <1>7, <2>2, <2>3
<1>11. QED BY <1>2, <1>7, <1>8, <1>9, <1>10, MarkedType

\* What the server says.
Bodies == {b \in [kind : Kinds, ids : SUBSET Ids, got : SUBSET Nat, mid : Nat] :
             b.kind = "result" => \E i \in Ids : b.ids = {i}}

LEMMA BodyType ==
  ASSUME NEW kind \in Kinds, NEW ids \in SUBSET Ids, NEW got \in SUBSET Nat, NEW mid \in Nat,
         kind = "result" => \E i \in Ids : ids = {i}
  PROVE  Body(kind, ids, got, mid) \in Bodies
BY DEF Body, Bodies, Kinds

LEMMA SaysType ==
  ASSUME TypeInv, NEW s \in Server, NEW bodies \in Seq(Bodies), Says(s, bodies)
  PROVE  /\ down' \in Seq(Told)
         /\ server' \in Server /\ server'.answers = s.answers
         /\ server'.session = s.session /\ server'.nextMid >= s.nextMid
<1>1. down \in Seq(Told) /\ server \in Server
  BY DEF TypeInv, TypeOK
<1>2. \A i \in DOMAIN bodies :
        /\ bodies[i] \in Bodies /\ server.nextMid + i - 1 \in Nat
  BY <1>1 DEF Server
<1>3. Packets(bodies) \in [1 .. Len(bodies) -> Told]
  <2>1. ASSUME NEW i \in DOMAIN bodies, NEW outer \in Nat
        PROVE  [outer |-> outer, mid |-> IF bodies[i].mid = 0 THEN outer ELSE bodies[i].mid,
                kind |-> bodies[i].kind, ids |-> bodies[i].ids, got |-> bodies[i].got,
                salt |-> server.salt] \in Told
    BY <1>1, <1>2 DEF Bodies, Packet, Told, Server
  <2>2. QED BY <1>2, <2>1 DEF Packets
<1>4. Packets(bodies) \in Seq(Told)
  BY <1>3
<1>5. down' \in Seq(Told)
  BY <1>1, <1>4 DEF Says
<1>6. Len(bodies) \in Nat
  OBVIOUS
<1>7. server' = [s EXCEPT !.nextMid = @ + Len(bodies)]
  BY DEF Says
<1>8. /\ server' \in Server /\ server'.answers = s.answers
      /\ server'.session = s.session /\ server'.nextMid >= s.nextMid
  BY <1>6, <1>7 DEF Server
<1>9. QED BY <1>5, <1>8

LEMMA TypeAnswers ==
  ASSUME TypeInv, ServerAnswers
  PROVE  TypeInv'
<1>0. server \in Server /\ IsFiniteSet(server.answers)
  BY DEF TypeInv, TypeOK
<1>1. PICK id \in server.pending :
        Says([server EXCEPT !.pending = @ \ {id},
                            !.answers = @ \cup {<<id, server.nextMid>>}],
             <<Body("result", {id}, {}, 0)>>)
  BY DEF ServerAnswers
<1> DEFINE s == [server EXCEPT !.pending = @ \ {id},
                               !.answers = @ \cup {<<id, server.nextMid>>}]
<1>2. id \in Ids /\ <<id, server.nextMid>> \in Answer
  BY <1>0 DEF Server, Answer
<1>3. s \in Server /\ s.answers = server.answers \cup {<<id, server.nextMid>>}
  BY <1>0, <1>2 DEF Server
<1>4. <<Body("result", {id}, {}, 0)>> \in Seq(Bodies)
  <2>1. Body("result", {id}, {}, 0) \in Bodies
    <3>1. {id} \in SUBSET Ids /\ {} \in SUBSET Nat
      BY <1>2
    <3>2. QED BY <3>1, BodyType DEF Kinds
  <2>2. QED BY <2>1
<1> HIDE DEF s
<1>5. down' \in Seq(Told) /\ server' \in Server /\ server'.answers = s.answers
  BY <1>1, <1>3, <1>4, SaysType DEF s
<1>6. down' \in Seq(Packet)
  BY <1>5, ToldType
<1>7. IsFiniteSet(server'.answers)
  BY <1>0, <1>3, <1>5, FS_AddElement
<1>8. QED BY <1>5, <1>7, <1>6
          DEF ServerAnswers, main, private, history, TypeInv, TypeOK

LEMMA RetoldType ==
  ASSUME NEW a \in Answer, NEW large
  PROVE  Retold(a, large) \in Bodies
<1>1. a[1] \in Ids /\ a[2] \in Nat
  BY DEF Answer
<1>2. {a[1]} \in SUBSET Ids /\ {a[2]} \in SUBSET Nat /\ {} \in SUBSET Nat
  BY <1>1
<1>3. Body("detailed", {a[1]}, {a[2]}, 0) \in Bodies
  BY <1>2, BodyType DEF Kinds
<1>4. Body("result", {a[1]}, {}, a[2]) \in Bodies
  BY <1>1, <1>2, BodyType DEF Kinds
<1>5. QED BY <1>3, <1>4 DEF Retold

LEMMA RetoldFinite ==
  ASSUME NEW S, NEW large, IsFiniteSet(S)
  PROVE  IsFiniteSet({Retold(a, large) : a \in S})
<1> DEFINE g == [a \in S |-> Retold(a, large)]
           T == {Retold(a, large) : a \in S}
<1>1. g \in Surjection(S, T)
  BY DEF Surjection
<1> HIDE DEF g, T
<1>2. IsFiniteSet(T)
  BY <1>1, FS_Surjection
<1>3. QED BY <1>2 DEF T

LEMMA TypeTakes ==
  ASSUME TypeInv, NEW m \in Sent, Takes(m)
  PROVE  /\ down' \in Seq(Told) /\ server' \in Server
         /\ IsFiniteSet(server'.answers)
         /\ ran' \subseteq Ids \X Requests
         /\ server'.session = m.session
         /\ ran' \subseteq (IF m.session # server.session THEN {} ELSE ran) \cup m.items
         /\ UNCHANGED <<faults, handled>>
<1>0. /\ server \in Server /\ IsFiniteSet(server.answers) /\ ran \subseteq Ids \X Requests
      /\ m.outer \in Ids /\ m.items \subseteq Ids \X Requests /\ m.session \in Nat
      /\ m.states \subseteq Ids
  BY DEF TypeInv, TypeOK, Sent
<1> DEFINE new == m.session # server.session
           ids == {item[1] : item \in m.items}
           s   == IF new THEN [server EXCEPT !.session = m.session, !.seen = {},
                                             !.pending = {}, !.answers = {}]
                  ELSE server
           kept  == {a \in s.answers : a[2] \notin m.acks}
           again == {a \in kept : a[1] \in ids}
           asked == {a \in kept : a[2] \in m.again}
           next  == [s EXCEPT !.seen = @ \cup ids, !.pending = @ \cup (ids \ s.seen),
                              !.answers = kept]
           told(large) == {Retold(a, large) : a \in again \ asked}
                            \cup {Retold(a, FALSE) : a \in asked}
           opening(first) == IF new THEN <<Body("newSession", {first}, {}, 0)>> ELSE <<>>
           acking(ack) == IF ack THEN <<Body("ack", {m.outer}, {}, 0)>> ELSE <<>>
           states == IF m.states # {}
                     THEN <<Body("states", m.states, m.states \cap (s.seen \cup ids), 0)>>
                     ELSE <<>>
<1>1. PICK ack \in Acks \cup {FALSE}, large \in BOOLEAN,
           first \in {m.outer} \cup {i \in ids : \A j \in ids : i <= j} :
        /\ Says(next, opening(first) \o acking(ack) \o SetToSeq(told(large)) \o states)
        /\ ran' = (IF new THEN {} ELSE ran) \cup {i \in m.items : i[1] \notin s.seen}
        /\ UNCHANGED <<faults, handled>>
  BY Zenon DEF Takes
<1>2. ids \subseteq Ids /\ first \in Ids
  BY <1>0
<1>3. s \in Server /\ IsFiniteSet(s.answers) /\ s.session = m.session
  BY <1>0, FS_EmptySet DEF Server
<1>4. IsFiniteSet(kept) /\ kept \subseteq Answer /\ s.seen \subseteq Ids
  BY <1>3, FS_Subset DEF Server
<1>13. ran' \subseteq (IF m.session # server.session THEN {} ELSE ran) \cup m.items
  BY <1>1
<1> HIDE DEF s, ids, new
<1>5. next \in Server /\ next.answers = kept /\ next.session = m.session
  BY <1>2, <1>3, <1>4 DEF Server
<1>6. opening(first) \in Seq(Bodies) /\ acking(ack) \in Seq(Bodies)
  <2>1. {first} \in SUBSET Ids /\ {m.outer} \in SUBSET Ids /\ {} \in SUBSET Nat
    BY <1>0, <1>2
  <2>2. /\ Body("newSession", {first}, {}, 0) \in Bodies
        /\ Body("ack", {m.outer}, {}, 0) \in Bodies
    BY <2>1 DEF Body, Bodies, Kinds
  <2>3. QED BY <2>2
<1>7. states \in Seq(Bodies)
  <2>1. m.states \cap (s.seen \cup ids) \in SUBSET Nat /\ m.states \in SUBSET Ids
    BY <1>0, BoundsAssumption DEF Ids
  <2>2. Body("states", m.states, m.states \cap (s.seen \cup ids), 0) \in Bodies
    BY <2>1 DEF Body, Bodies, Kinds
  <2>3. QED BY <2>2
<1>8. SetToSeq(told(large)) \in Seq(Bodies)
  <2>1. told(large) \subseteq Bodies
    <3>1. again \subseteq Answer /\ asked \subseteq Answer
      BY <1>4
    <3> HIDE DEF again, asked
    <3>2. QED BY <3>1, RetoldType
  <2>2. IsFiniteSet(again \ asked) /\ IsFiniteSet(asked)
    <3>1. again \ asked \in SUBSET kept /\ asked \in SUBSET kept
      OBVIOUS
    <3> HIDE DEF again, asked, kept
    <3>2. QED BY <1>4, <3>1, FS_Subset
  <2> HIDE DEF again, asked
  <2>3. IsFiniteSet({Retold(a, large) : a \in again \ asked})
    BY <2>2, RetoldFinite
  <2>4. IsFiniteSet({Retold(a, FALSE) : a \in asked})
    BY <2>2, RetoldFinite
  <2>5. IsFiniteSet(told(large))
    <3> DEFINE A == {Retold(a, large) : a \in again \ asked}
               B == {Retold(a, FALSE) : a \in asked}
    <3> HIDE DEF A, B
    <3>1. IsFiniteSet(A \cup B)
      BY <2>3, <2>4, FS_Union DEF A, B
    <3>2. QED BY <3>1 DEF A, B
  <2> HIDE DEF told
  <2>6. QED BY <2>1, <2>5, SeqOfSubset
<1> HIDE DEF told, opening, acking, states, kept, next
<1>9. opening(first) \o acking(ack) \o SetToSeq(told(large)) \o states \in Seq(Bodies)
  <2> DEFINE middle == SetToSeq(told(large))
  <2> HIDE DEF middle
  <2>1. middle \in Seq(Bodies)
    BY <1>8 DEF middle
  <2>2. opening(first) \o acking(ack) \o middle \o states \in Seq(Bodies)
    BY <1>6, <1>7, <2>1
  <2>3. QED BY <2>2 DEF middle
<1>10. down' \in Seq(Told) /\ server' \in Server /\ server'.answers = kept
       /\ server'.session = m.session
  BY <1>1, <1>5, <1>9, SaysType
<1>11. ran' \subseteq Ids \X Requests
  BY <1>0, <1>1
<1>12. QED BY <1>1, <1>4, <1>10, <1>11, <1>13

LEMMA BatchType ==
  ASSUME q \in Maps, NEW batch \in Batches
  PROVE  batch \in SUBSET q.toSend /\ batch \in SUBSET Requests
BY DEF Batches, Maps

LEMMA TypeSend ==
  ASSUME TypeInv, tryToSend
  PROVE  TypeInv'
<1>0. q \in Maps /\ server \in Server /\ faults \in Nat
  BY DEF TypeInv, TypeOK
<1>1. PICK batch \in Batches :
        /\ Send(batch)
        /\ IF link.broken THEN UNCHANGED <<down, server, faults, history>>
           ELSE \/ Takes(Message(batch)) \/ WantsSalt(Message(batch))
                \/ Refuses(Message(batch))
  BY DEF tryToSend
<1>2. batch \in SUBSET Requests
  BY <1>0, BatchType
<1>3. /\ mark' \in [Requests -> [id : Ids \cup {None}, session : Nat]]
      /\ q' \in Maps /\ link' \in Link /\ nextId' \in Nat \ {0}
      /\ \A r \in q'.haveSent : mark'[r].id # None
      /\ Message(batch) \in Sent
  BY <1>1, <1>2, SendType, MessageType
<1>4. UNCHANGED <<main, forced, hand, todo, received>>
  BY <1>1 DEF Send
<1> DEFINE m == Message(batch)
<1> HIDE DEF m
<1>5. /\ down' \in Seq(Told) /\ server' \in Server /\ IsFiniteSet(server'.answers)
      /\ ran' \subseteq Ids \X Requests /\ faults' \in Nat
      /\ handled' \in [ids : SUBSET Nat, twice : BOOLEAN]
  <2>0. /\ down \in Seq(Told) /\ IsFiniteSet(server.answers)
        /\ ran \subseteq Ids \X Requests /\ handled \in [ids : SUBSET Nat, twice : BOOLEAN]
    BY DEF TypeInv, TypeOK
  <2>1. CASE link.broken
    BY <1>0, <1>1, <2>0, <2>1 DEF history
  <2>2. CASE Takes(m) /\ ~link.broken
    <3>1. m \in Sent
      BY <1>3 DEF m
    <3>2. QED BY <1>0, <2>0, <2>2, <3>1, TypeTakes
  <2>3. CASE WantsSalt(m) /\ ~link.broken
    <3> DEFINE ids == IF m.items = {} THEN {} ELSE {m.outer}
    <3>1. ids \in SUBSET Ids /\ {} \in SUBSET Nat
      BY <1>3 DEF Sent, m
    <3>2. Says(server, <<Body("badSalt", ids, {}, 0)>>) /\ UNCHANGED <<faults, history>>
      BY <2>3 DEF WantsSalt
    <3> HIDE DEF ids
    <3>3. Body("badSalt", ids, {}, 0) \in Bodies
      BY <3>1 DEF Body, Bodies, Kinds
    <3>4. <<Body("badSalt", ids, {}, 0)>> \in Seq(Bodies)
      BY <3>3
    <3>5. down' \in Seq(Told) /\ server' \in Server /\ server'.answers = server.answers
      BY <1>0, <3>2, <3>4, SaysType
    <3>6. QED BY <1>0, <2>0, <3>2, <3>5 DEF history
  <2>4. CASE Refuses(m) /\ ~link.broken
    <3>1. {m.outer} \in SUBSET Ids /\ {} \in SUBSET Nat
      BY <1>3 DEF Sent, m
    <3>2. PICK kind \in FaultKinds \cap {"resend", "reset", "fatal"} :
            Says(server, <<Body(kind, {m.outer}, {}, 0)>>)
      BY <2>4 DEF Refuses
    <3>3. Body(kind, {m.outer}, {}, 0) \in Bodies
      BY <3>1 DEF Body, Bodies, Kinds
    <3>4. <<Body(kind, {m.outer}, {}, 0)>> \in Seq(Bodies)
      BY <3>3
    <3>5. down' \in Seq(Told) /\ server' \in Server /\ server'.answers = server.answers
      BY <1>0, <3>2, <3>4, SaysType
    <3>6. faults' \in Nat /\ UNCHANGED history
      BY <1>0, <2>4 DEF Refuses
    <3>7. QED BY <2>0, <3>5, <3>6 DEF history
  <2>5. QED BY <1>1, <2>1, <2>2, <2>3, <2>4 DEF m
<1>6. down' \in Seq(Packet)
  BY <1>5, ToldType
<1>7. QED BY <1>3, <1>4, <1>5, <1>6 DEF main, TypeInv, TypeOK

LEMMA TypeStep ==
  ASSUME TypeInv, [Next]_vars
  PROVE  TypeInv'
<1>1. CASE Next
  BY <1>1, TypeMain, TypeTimers, TypeResend, TypeConnection, TypeSalt, TypeReceive,
     TypeAnswers, TypeSend DEF Next
<1>2. CASE UNCHANGED vars
  BY <1>2 DEF vars, main, private, history, TypeInv, TypeOK
<1>3. QED BY <1>1, <1>2

LEMMA TypeAlways == Spec => []TypeInv
<1>1. TypeInv /\ [Next]_vars => TypeInv'
  BY TypeStep
<1>2. QED BY TypeInit, <1>1, PTL DEF Spec

(***************************************************************************)
(* The state keeps its types.                                              *)
(***************************************************************************)
THEOREM TypeCorrect == Spec => []TypeOK
<1>1. TypeInv => TypeOK
  BY DEF TypeInv
<1>2. QED BY <1>1, TypeAlways, PTL

----------------------------------------------------------------------------
(***************************************************************************)
(* Where requests are.                                                     *)
(***************************************************************************)
PlaceInv ==
  /\ SentFromOnePlace
  /\ q.toSend \cup q.haveSent \cup hand \subseteq made

\* What the steps that are no sending do to the three places.
LEMMA PlacesKept ==
  ASSUME TypeInv, PlaceInv, made \subseteq made',
         q'.toSend \subseteq q.toSend, q'.haveSent \subseteq q.haveSent,
         hand' \subseteq hand
  PROVE  PlaceInv'
BY DEF PlaceInv, SentFromOnePlace

LEMMA ReceiveMaps ==
  ASSUME TypeInv, handleReceived
  PROVE  q'.toSend \subseteq q.toSend /\ q'.haveSent \subseteq q.haveSent
<1> DEFINE m == Head(down)
<1>1. q \in Maps /\ m \in Packet
  BY DEF TypeInv, TypeOK, handleReceived
<1>2. q' = acted(m) \/ q' = q
  BY DEF handleReceived
<1> HIDE DEF m
<1>3. QED BY <1>1, <1>2, ActedType

LEMMA PlaceStep ==
  ASSUME TypeInv, PlaceInv, [Next]_vars
  PROVE  PlaceInv'
<1>0. q \in Maps
  BY DEF TypeInv, TypeOK
<1>1. ASSUME NEW r \in Requests, sendPrepared(r) PROVE PlaceInv'
  <2>1. q'.toSend = q.toSend \cup {r} /\ q'.haveSent = q.haveSent /\ hand' = hand
    BY <1>0, <1>1 DEF sendPrepared, Maps
  <2>2. r \notin made /\ made' = made \cup {r}
    BY <1>1 DEF sendPrepared
  <2>3. QED BY <2>1, <2>2 DEF PlaceInv, SentFromOnePlace
<1>2. ASSUME NEW r \in Requests, cancel(r) PROVE PlaceInv'
  BY <1>0, <1>2, PlacesKept DEF cancel, Maps
<1>3. ASSUME CancelSent PROVE PlaceInv'
  BY <1>0, <1>3, PlacesKept DEF CancelSent, Maps
<1>4. ASSUME tryToSend PROVE PlaceInv'
  <2>1. PICK batch \in Batches : Send(batch)
    BY <1>4 DEF tryToSend
  <2>2. batch \subseteq q.toSend /\ batch \in SUBSET Requests
    BY <1>0, BatchType
  <2>3. q'.toSend = q.toSend \ batch /\ q'.haveSent = q.haveSent \cup batch
    BY <2>1, <2>2, SendType
  <2>4. hand = {} /\ hand' = hand /\ made' = made
    BY <1>4, <2>1 DEF tryToSend, Idle, Send, main
  <2>5. QED BY <2>2, <2>3, <2>4 DEF PlaceInv, SentFromOnePlace
<1>5. ASSUME ResendTake PROVE PlaceInv'
  <2>1. hand = {} /\ made' = made
    BY <1>5 DEF ResendTake, main
  <2>2. PICK id \in todo :
          \/ q' = [q EXCEPT !.containers[id] = {}] /\ hand' = hand
          \/ hand' = sentAs(q, {id}) /\ q' = [q EXCEPT !.haveSent = @ \ hand']
    BY <1>5 DEF ResendTake
  <2>3. \/ q'.toSend = q.toSend /\ q'.haveSent = q.haveSent /\ hand' = hand
        \/ /\ q'.toSend = q.toSend /\ q'.haveSent = q.haveSent \ hand'
           /\ hand' \subseteq q.haveSent
    BY <1>0, <2>2 DEF Maps, sentAs
  <2>4. QED BY <2>1, <2>3 DEF PlaceInv, SentFromOnePlace
<1>6. ASSUME ResendPut PROVE PlaceInv'
  <2>1. q'.toSend = q.toSend \cup hand /\ q'.haveSent = q.haveSent
    BY <1>0, <1>6 DEF ResendPut, Maps
  <2>2. hand' = {} /\ made' = made
    BY <1>6 DEF ResendPut, main
  <2>3. QED BY <2>1, <2>2 DEF PlaceInv, SentFromOnePlace
<1>7. ASSUME clearOldContainers PROVE PlaceInv'
  <2>1. PICK id \in Ids : q' = [q EXCEPT !.containers[id] = {}]
    BY <1>7 DEF clearOldContainers
  <2>2. q'.toSend = q.toSend /\ q'.haveSent = q.haveSent
    BY <1>0, <2>1, OpenedType
  <2>3. QED BY <1>7, <2>2, PlacesKept DEF clearOldContainers, main
<1>8. ASSUME handleReceived PROVE PlaceInv'
  BY <1>8, ReceiveMaps, PlacesKept DEF handleReceived
<1>9. ASSUME Connect \/ LearnSalt PROVE PlaceInv'
  <2>1. hand = {} /\ made' = made
    BY <1>9 DEF Connect, LearnSalt, Idle, main
  <2>2. \/ q' = q /\ hand' = hand
        \/ hand' = q.haveSent /\ q' = [q EXCEPT !.haveSent = {}]
    BY <1>9 DEF Connect, LearnSalt
  <2>3. \/ q' = q /\ hand' = hand
        \/ hand' = q.haveSent /\ q'.haveSent = {} /\ q'.toSend = q.toSend
    BY <1>0, <2>2 DEF Maps
  <2>4. QED BY <2>1, <2>3 DEF PlaceInv, SentFromOnePlace
<1>10. ASSUME \/ tryToReceive \/ sendPingByTimer \/ checkSentRequests \/ Break
              \/ Disconnect \/ ServerAnswers \/ ServerChangesSalt \/ ServerForgets
              \/ UNCHANGED vars
       PROVE  PlaceInv'
  <2>1. q' = q /\ hand' = hand /\ made' = made
    BY <1>10 DEF tryToReceive, sendPingByTimer, checkSentRequests, Break, Disconnect,
       ServerAnswers, ServerChangesSalt, ServerForgets, vars, main, private
  <2>2. QED BY <2>1 DEF PlaceInv, SentFromOnePlace
<1>11. QED BY <1>1, <1>2, <1>3, <1>4, <1>5, <1>6, <1>7, <1>8, <1>9, <1>10 DEF Next

(***************************************************************************)
(* However the locks of the two threads interleave, a request is in one of *)
(* the two maps at most.                                                   *)
(***************************************************************************)
THEOREM OnePlace == Spec => []SentFromOnePlace
<1>1. Init => PlaceInv
  BY DEF Init, PlaceInv, SentFromOnePlace
<1>2. TypeInv /\ PlaceInv /\ [Next]_vars => PlaceInv'
  BY PlaceStep
<1>3. PlaceInv => SentFromOnePlace
  BY DEF PlaceInv
<1>4. QED BY <1>1, <1>2, <1>3, TypeAlways, PTL DEF Spec

----------------------------------------------------------------------------
(***************************************************************************)
(* What the server ran in the client's session has the message id that is  *)
(* in the request.                                                         *)
(***************************************************************************)
RunInv ==
  /\ RunsOnce
  /\ link.session >= 1 /\ server.session <= link.session
  /\ server.session = link.session =>
       link.started /\ \A i \in ran : mark[i[2]].id = i[1]

\* What a step does to the link.
LEMMA ReceiveLink ==
  ASSUME TypeInv, handleReceived
  PROVE  \/ link'.session = link.session /\ link'.started = link.started
              /\ link'.state = link.state
         \/ link'.session = link.session + 1 /\ ~link'.started /\ link'.state = "Off"
<1>0. link \in Link /\ received \subseteq Nat /\ Head(down) \in Packet
  BY DEF TypeInv, TypeOK, handleReceived
<1> DEFINE m == Head(down)
<1> DEFINE A == IF m.kind = "result" THEN link.toAck \cup {m.mid} ELSE link.toAck
           C == link.sendDue \/ m.kind = "result"
           salted == [link EXCEPT !.salt = m.salt]
<1>7. /\ salted \in Link /\ salted.toAck = link.toAck /\ salted.sendDue = link.sendDue
      /\ salted.session = link.session /\ salted.started = link.started
      /\ salted.state = link.state
  BY <1>0 DEF Link, Packet
<1>6. C \in BOOLEAN
  BY <1>0 DEF Link
<1>1. \/ link' = changeSessionId(closed(salted))
      \/ link' = heard(m)
      \/ link' = [salted EXCEPT !.toAck = A, !.sendDue = C]
  BY <1>7 DEF handleReceived
<1> HIDE DEF A, C, salted
<1> HIDE DEF m
<1>2. CASE link' = changeSessionId(closed(salted))
  <2>1. closed(salted) \in Link /\ closed(salted).session = link.session
        /\ closed(salted).state = "Off"
    BY <1>7, Closed
  <2>2. QED BY <1>2, <2>1, Changed
<1>3. CASE link' = heard(m)
  BY <1>0, <1>3, HeardType DEF m
<1>4. CASE link' = [salted EXCEPT !.toAck = A, !.sendDue = C]
  BY <1>4, <1>6, <1>7 DEF Link
<1>5. QED BY <1>1, <1>2, <1>3, <1>4

LEMMA OtherLink ==
  ASSUME TypeInv, Next, ~tryToSend, ~handleReceived
  PROVE  /\ link'.session = link.session /\ link'.started = link.started
         /\ mark' = mark /\ ran' = ran /\ received' = received /\ handled' = handled
<1>0. link \in Link
  BY DEF TypeInv, TypeOK
<1>1. CASE \/ \E r \in Requests : sendPrepared(r) \/ cancel(r)
           \/ CancelSent \/ tryToReceive
  BY <1>0, <1>1 DEF sendPrepared, cancel, CancelSent, tryToReceive, private, history, Link
<1>2. CASE sendPingByTimer \/ checkSentRequests \/ clearOldContainers
  BY <1>0, <1>2 DEF sendPingByTimer, checkSentRequests, clearOldContainers, history, Link
<1>3. CASE ResendTake \/ ResendPut
  BY <1>0, <1>3 DEF ResendTake, ResendPut, history, Link
<1>4. CASE Connect \/ LearnSalt \/ Break \/ Disconnect
  BY <1>0, <1>4, Closed DEF Connect, LearnSalt, Break, Disconnect, history, Link
<1>5. CASE ServerAnswers \/ ServerChangesSalt \/ ServerForgets
  <2>1. UNCHANGED private /\ UNCHANGED history
    BY <1>5, Zenon DEF ServerAnswers, ServerChangesSalt, ServerForgets
  <2>2. QED BY <2>1 DEF private, history
<1>6. QED BY <1>1, <1>2, <1>3, <1>4, <1>5 DEF Next

\* What the server's own steps do to its session.
LEMMA OtherServer ==
  ASSUME TypeInv, Next, ~tryToSend
  PROVE  server'.session \in {0, server.session}
<1>0. server \in Server
  BY DEF TypeInv, TypeOK
<1>1. CASE ServerAnswers
  <2>1. PICK id \in server.pending :
          Says([server EXCEPT !.pending = @ \ {id},
                              !.answers = @ \cup {<<id, server.nextMid>>}],
               <<Body("result", {id}, {}, 0)>>)
    BY <1>1, Zenon DEF ServerAnswers
  <2> DEFINE s == [server EXCEPT !.pending = @ \ {id},
                                 !.answers = @ \cup {<<id, server.nextMid>>}]
             n == s.nextMid + Len(<<Body("result", {id}, {}, 0)>>)
  <2>2. server' = [s EXCEPT !.nextMid = n]
    BY <2>1 DEF Says
  <2> HIDE DEF n
  <2>3. QED BY <1>0, <2>2 DEF Server
<1>2. CASE ServerChangesSalt \/ ServerForgets
  BY <1>0, <1>2 DEF ServerChangesSalt, ServerForgets, Server
<1>3. CASE ~(ServerAnswers \/ ServerChangesSalt \/ ServerForgets)
  BY <1>3 DEF Next, sendPrepared, cancel, CancelSent, tryToReceive, sendPingByTimer,
     checkSentRequests, ResendTake, ResendPut, clearOldContainers, handleReceived,
     Connect, LearnSalt, Break, Disconnect
<1>4. QED BY <1>1, <1>2, <1>3

\* What tryToSend does, as far as ids and sessions go.
LEMMA SendRuns ==
  ASSUME TypeInv, tryToSend
  PROVE  /\ link'.session = link.session /\ link'.started = TRUE
         /\ \A r \in Requests :
              link.started /\ mark[r].id # None => mark'[r] = mark[r]
         /\ \/ /\ server'.session = link.session
               /\ \A i \in ran' :
                    \/ i \in ran /\ server.session = link.session
                    \/ mark'[i[2]].id = i[1]
            \/ server'.session = server.session /\ ran' = ran
<1>0. q \in Maps /\ server \in Server /\ link \in Link
      /\ mark \in [Requests -> [id : Ids \cup {None}, session : Nat]]
  BY DEF TypeInv, TypeOK
<1>1. PICK batch \in Batches :
        /\ Send(batch)
        /\ IF link.broken THEN UNCHANGED <<down, server, faults, history>>
           ELSE \/ Takes(Message(batch)) \/ WantsSalt(Message(batch))
                \/ Refuses(Message(batch))
  BY DEF tryToSend
<1>2. batch \in SUBSET Requests
  BY <1>0, BatchType
<1>3. mark' = marked(batch) /\ link' = said(batch)
  BY <1>1 DEF Send
<1>4. link'.session = link.session /\ link'.started = TRUE
  BY <1>0, <1>3 DEF said, Link
<1>5. \A r \in Requests : link.started /\ mark[r].id # None => mark'[r] = mark[r]
  BY <1>0, <1>3 DEF marked, renumbered
<1> DEFINE m == Message(batch)
<1>6. m \in Sent /\ m.session = link.session
      /\ m.items = {<<marked(batch)[r].id, r>> : r \in batch}
  BY <1>1, <1>2, SendType, MessageType DEF Message
<1> HIDE DEF m
<1>7. \A i \in m.items : mark'[i[2]].id = i[1]
  BY <1>3, <1>6
<1>8. \/ server'.session = link.session
           /\ \A i \in ran' : \/ i \in ran /\ server.session = link.session
                              \/ mark'[i[2]].id = i[1]
      \/ server'.session = server.session /\ ran' = ran
  <2>1. CASE link.broken
    BY <1>1, <2>1 DEF history
  <2>2. CASE Takes(m) /\ ~link.broken
    <3>1. /\ server'.session = m.session
          /\ ran' \subseteq (IF m.session # server.session THEN {} ELSE ran) \cup m.items
      BY <1>6, <2>2, TypeTakes
    <3>2. QED BY <1>6, <1>7, <3>1
  <2>3. CASE (WantsSalt(m) \/ Refuses(m)) /\ ~link.broken
    <3>1. ran' = ran
      BY <2>3 DEF WantsSalt, Refuses, history
    <3>2. \E n : server' = [server EXCEPT !.nextMid = n]
      BY <2>3 DEF WantsSalt, Refuses, Says
    <3>3. server'.session = server.session
      BY <1>0, <3>2 DEF Server
    <3>4. QED BY <3>1, <3>3
  <2>4. QED BY <1>1, <2>1, <2>2, <2>3 DEF m
<1>9. QED BY <1>4, <1>5, <1>8

LEMMA RunStep ==
  ASSUME TypeInv, RunInv, [Next]_vars
  PROVE  RunInv'
<1>0. /\ link \in Link /\ server \in Server /\ ran \subseteq Ids \X Requests
      /\ link.session \in Nat /\ server.session \in Nat
  BY DEF TypeInv, TypeOK, Link, Server
<1>1. CASE tryToSend
  <2>1. \A i \in ran : i[2] \in Requests /\ i[1] # None
    BY <1>0, BoundsAssumption DEF Ids, None
  <2>2. link'.session = link.session /\ link'.started = TRUE
    BY <1>1, SendRuns
  <2>3. link.started => \A i \in ran : mark[i[2]].id = i[1] => mark'[i[2]].id = i[1]
    BY <1>1, <2>1, SendRuns
  <2>4. CASE /\ server'.session = link.session
             /\ \A i \in ran' : \/ i \in ran /\ server.session = link.session
                                \/ mark'[i[2]].id = i[1]
    <3>1. \A i \in ran' : mark'[i[2]].id = i[1]
      BY <2>3, <2>4 DEF RunInv
    <3>2. QED BY <1>0, <2>2, <2>4, <3>1 DEF RunInv, RunsOnce
  <2>5. CASE server'.session = server.session /\ ran' = ran
    BY <2>2, <2>3, <2>5 DEF RunInv, RunsOnce
  <2>6. QED BY <1>1, <2>4, <2>5, SendRuns
<1>2. CASE handleReceived
  <2>1. mark' = mark /\ ran' = ran /\ server' = server
    BY <1>2 DEF handleReceived
  <2>2. \/ link'.session = link.session /\ link'.started = link.started
        \/ link'.session = link.session + 1
    BY <1>2, ReceiveLink
  <2>3. QED BY <1>0, <2>1, <2>2 DEF RunInv, RunsOnce
<1>3. CASE Next /\ ~tryToSend /\ ~handleReceived
  <2>1. /\ link'.session = link.session /\ link'.started = link.started
        /\ mark' = mark /\ ran' = ran /\ server'.session \in {0, server.session}
    BY <1>3, OtherLink, OtherServer
  <2>2. QED BY <1>0, <2>1 DEF RunInv, RunsOnce
<1>4. CASE UNCHANGED vars
  BY <1>4 DEF vars, private, history, RunInv, RunsOnce
<1>5. QED BY <1>1, <1>2, <1>3, <1>4

(***************************************************************************)
(* A request has one message id in a session of the server, so the server  *)
(* runs it once, whatever is resent, refused or lost.                      *)
(***************************************************************************)
THEOREM OneRun == Spec => []RunsOnce
<1>1. Init => RunInv
  BY DEF Init, RunInv, RunsOnce
<1>2. TypeInv /\ RunInv /\ [Next]_vars => RunInv'
  BY RunStep
<1>3. RunInv => RunsOnce
  BY DEF RunInv
<1>4. QED BY <1>1, <1>2, <1>3, TypeAlways, PTL DEF Spec

----------------------------------------------------------------------------
(***************************************************************************)
(* What has been handled would not be taken for new: it is in the window,  *)
(* or the window is full and all of it is newer.                           *)
(***************************************************************************)
Kept(ids, h) == registerMsgId(ids, h, WindowSize) # Success

HandledInv ==
  /\ IsFiniteSet(received) /\ ~handled.twice
  /\ \A h \in handled.ids : Kept(received, h)

\* A message that is registered is known from then on, and what was known
\* before still is.
LEMMA Registers ==
  ASSUME NEW ids \in SUBSET Nat, IsFiniteSet(ids), NEW id \in Nat
  PROVE  LET n == registered(ids, id, WindowSize) IN
         /\ n \in SUBSET Nat /\ IsFiniteSet(n)
         /\ registerMsgId(ids, id, WindowSize) = Success => Kept(n, id)
         /\ \A h \in Nat : Kept(ids, h) => Kept(n, h)
<1> DEFINE n == registered(ids, id, WindowSize)
<1>1. n = ids \/ n = ids \cup {id}
  BY DEF registered
<1>2. n \in SUBSET Nat /\ IsFiniteSet(n)
  BY <1>1, FS_AddElement
<1>3. registerMsgId(ids, id, WindowSize) = Success => Kept(n, id)
  BY DEF registered, Kept, registerMsgId, Success, Duplicate
<1>4. ASSUME NEW h \in Nat, Kept(ids, h), registerMsgId(ids, id, WindowSize) = Success
      PROVE  Kept(n, h)
  <2>1. n = ids \cup {id}
    BY <1>4 DEF registered
  <2>2. CASE h \in ids
    BY <2>1, <2>2 DEF Kept, registerMsgId, Success, Duplicate
  <2>3. CASE h \notin ids
    <3>1. /\ ~(Cardinality(ids) < WindowSize)
          /\ \A other \in ids : ~(other < h)
      BY <1>4, <2>3 DEF Kept, registerMsgId, Success, Duplicate, TooOld
    <3>2. PICK other \in ids : other < id
      BY <1>4, <3>1 DEF registerMsgId, Success, Duplicate, TooOld
    <3>3. \A i \in n : ~(i < h)
      <4>1. ids \subseteq Nat /\ other \in Nat /\ ~(other < h)
        BY <3>1
      <4>2. ~(id < h)
        BY <3>2, <4>1
      <4> HIDE DEF n
      <4>3. QED BY <2>1, <3>1, <4>2
    <3>4. /\ Cardinality(ids) \in Nat /\ Cardinality(n) \in Nat
          /\ Cardinality(n) >= Cardinality(ids)
      BY <1>2, <2>1, FS_CardinalityType, FS_Subset
    <3> HIDE DEF n
    <3>5. ~(Cardinality(n) < WindowSize)
      BY <3>1, <3>4, SizesAssumption
    <3>6. QED BY <3>3, <3>5 DEF Kept, registerMsgId, Success, Duplicate, TooOld
  <2>4. QED BY <2>2, <2>3
<1>5. registerMsgId(ids, id, WindowSize) # Success => n = ids
  BY DEF registered
<1>6. QED BY <1>2, <1>3, <1>4, <1>5

\* What is erased from the window is below all that is left of it.
LEMMA Shrinks ==
  ASSUME NEW ids \in SUBSET Nat, IsFiniteSet(ids), NEW kept \in shrink(ids, WindowSize)
  PROVE  /\ kept \in SUBSET Nat /\ IsFiniteSet(kept)
         /\ \A h \in Nat : Kept(ids, h) => Kept(kept, h)
<1>1. CASE Cardinality(ids) <= WindowSize
  BY <1>1 DEF shrink
<1>2. CASE ~(Cardinality(ids) <= WindowSize)
  <2>1. /\ kept \subseteq ids /\ Cardinality(kept) = WindowSize
        /\ \A erased \in ids \ kept, id \in kept : erased < id
    BY <1>2 DEF shrink
  <2>2. kept \in SUBSET Nat /\ IsFiniteSet(kept)
    BY <2>1, FS_Subset
  <2>3. ASSUME NEW h \in Nat, Kept(ids, h)
        PROVE  Kept(kept, h)
    <3>1. CASE h \in kept
      BY <3>1 DEF Kept, registerMsgId, Success, Duplicate
    <3>2. CASE h \in ids \ kept
      <4>1. \A id \in kept : ~(id < h)
        BY <2>1, <2>2, <3>2
      <4>2. ~(Cardinality(kept) < WindowSize)
        BY <2>1, SizesAssumption
      <4>3. QED BY <3>2, <4>1, <4>2 DEF Kept, registerMsgId, Success, TooOld
    <3>3. CASE h \notin ids
      <4>1. \A id \in ids : ~(id < h)
        BY <2>3, <3>3 DEF Kept, registerMsgId, Success, TooOld
      <4>2. ~(Cardinality(kept) < WindowSize)
        BY <2>1, SizesAssumption
      <4>3. QED BY <2>1, <3>3, <4>1, <4>2 DEF Kept, registerMsgId, Success, TooOld
    <3>4. QED BY <2>1, <3>1, <3>2, <3>3
  <2>4. QED BY <2>2, <2>3
<1>3. QED BY <1>1, <1>2

\* The two registrations of a packet together.
LEMMA RegistersAll ==
  ASSUME received \in SUBSET Nat, IsFiniteSet(received), NEW m \in Packet
  PROVE  LET r == Register(m) IN
         /\ r.ids \in SUBSET Nat /\ IsFiniteSet(r.ids)
         /\ r.result = Success => Kept(r.ids, m.mid) /\ ~Kept(received, m.mid)
         /\ \A h \in Nat : Kept(received, h) => Kept(r.ids, h)
<1>0. m.outer \in Nat /\ m.mid \in Nat
  BY DEF Packet
<1> DEFINE first == registerMsgId(received, m.outer, WindowSize)
           ids   == registered(received, m.outer, WindowSize)
           last  == registered(ids, m.mid, WindowSize)
<1>1. /\ ids \in SUBSET Nat /\ IsFiniteSet(ids)
      /\ first = Success => Kept(ids, m.outer)
      /\ \A h \in Nat : Kept(received, h) => Kept(ids, h)
  BY <1>0, Registers
<1>2. CASE first # Success \/ m.mid = m.outer
  <2>1. Register(m).result = first /\ Register(m).ids = ids
    BY <1>2 DEF Register
  <2>2. first = Success => ~Kept(received, m.outer)
    BY DEF Kept
  <2> HIDE DEF first, ids
  <2>3. QED BY <1>1, <1>2, <2>1, <2>2
<1>3. CASE ~(first # Success \/ m.mid = m.outer)
  <2>1. Register(m).result = registerMsgId(ids, m.mid, WindowSize) /\ Register(m).ids = last
    BY <1>3 DEF Register
  <2> HIDE DEF ids
  <2>2. /\ last \in SUBSET Nat /\ IsFiniteSet(last)
        /\ registerMsgId(ids, m.mid, WindowSize) = Success => Kept(last, m.mid)
        /\ \A h \in Nat : Kept(ids, h) => Kept(last, h)
    BY <1>0, <1>1, Registers
  <2>3. registerMsgId(ids, m.mid, WindowSize) = Success => ~Kept(received, m.mid)
    BY <1>0, <1>1 DEF Kept
  <2> HIDE DEF last
  <2>4. QED BY <1>1, <2>1, <2>2, <2>3
<1>4. QED BY <1>2, <1>3

LEMMA HandledReceive ==
  ASSUME TypeInv, HandledInv, handleReceived
  PROVE  HandledInv'
<1>0. /\ received \in SUBSET Nat /\ IsFiniteSet(received)
      /\ handled \in [ids : SUBSET Nat, twice : BOOLEAN]
      /\ ~handled.twice /\ \A h \in handled.ids : Kept(received, h)
      /\ Head(down) \in Packet
  BY DEF HandledInv, TypeInv, TypeOK, handleReceived
<1> DEFINE m == Head(down)
           r == Register(m)
           reset == r.result = TooOld \/ (r.result = Success /\ resets(m))
<1>1. CASE reset
  <2>1. received' = {} /\ handled' = [handled EXCEPT !.ids = {}]
    BY <1>1 DEF handleReceived
  <2>2. QED BY <1>0, <2>1, FS_EmptySet DEF HandledInv
<1>2. CASE ~reset
  <2>1. /\ received' \in shrink(r.ids, WindowSize)
        /\ handled' = IF r.result = Success
                      THEN [ids |-> handled.ids \cup {m.mid},
                            twice |-> handled.twice \/ m.mid \in handled.ids]
                      ELSE handled
    BY <1>2 DEF handleReceived
  <2> HIDE DEF reset, r, m
  <2>2. /\ r.ids \in SUBSET Nat /\ IsFiniteSet(r.ids)
        /\ r.result = Success => Kept(r.ids, m.mid) /\ ~Kept(received, m.mid)
        /\ \A h \in Nat : Kept(received, h) => Kept(r.ids, h)
    BY <1>0, RegistersAll DEF r, m
  <2>3. /\ IsFiniteSet(received')
        /\ \A h \in Nat : Kept(r.ids, h) => Kept(received', h)
    BY <2>1, <2>2, Shrinks
  <2>4. m.mid \in Nat
    BY <1>0 DEF m, Packet
  <2>5. \A h \in handled.ids : Kept(received', h)
    BY <1>0, <2>2, <2>3
  <2>6. CASE r.result = Success
    <3>1. m.mid \notin handled.ids /\ Kept(received', m.mid)
      BY <1>0, <2>2, <2>3, <2>4, <2>6
    <3>2. handled'.ids = handled.ids \cup {m.mid} /\ ~handled'.twice
      BY <1>0, <2>1, <2>6, <3>1
    <3>3. QED BY <2>3, <2>5, <3>1, <3>2 DEF HandledInv, Kept
  <2>7. CASE r.result # Success
    BY <1>0, <2>1, <2>3, <2>5, <2>7 DEF HandledInv, Kept
  <2>8. QED BY <2>6, <2>7
<1>3. QED BY <1>1, <1>2

LEMMA SendKeeps ==
  ASSUME TypeInv, tryToSend
  PROVE  UNCHANGED <<received, handled>>
<1>0. q \in Maps
  BY DEF TypeInv, TypeOK
<1>1. PICK batch \in Batches :
        /\ Send(batch)
        /\ IF link.broken THEN UNCHANGED <<down, server, faults, history>>
           ELSE \/ Takes(Message(batch)) \/ WantsSalt(Message(batch))
                \/ Refuses(Message(batch))
  BY DEF tryToSend
<1>2. received' = received
  BY <1>1 DEF Send
<1> DEFINE m == Message(batch)
<1>3. m \in Sent
  BY <1>0, <1>1, BatchType, SendType, MessageType
<1> HIDE DEF m
<1>4. CASE Takes(m) \/ UNCHANGED history
  BY <1>2, <1>3, <1>4, TypeTakes DEF history
<1>5. CASE WantsSalt(m) \/ Refuses(m)
  <2>1. UNCHANGED history
    BY <1>5, Zenon DEF WantsSalt, Refuses, history
  <2>2. QED BY <1>2, <2>1 DEF history
<1>6. QED
  <2>1. UNCHANGED history \/ Takes(m) \/ WantsSalt(m) \/ Refuses(m)
    BY <1>1, Zenon DEF m, history
  <2>2. QED BY <1>4, <1>5, <2>1

(***************************************************************************)
(* No message of the server is handled twice in a session, however many    *)
(* ids the window holds and in whatever order messages come.               *)
(***************************************************************************)
THEOREM NoneTwice == Spec => []HandledOnce
<1>1. Init => HandledInv
  BY FS_EmptySet DEF Init, HandledInv
<1>2. TypeInv /\ HandledInv /\ [Next]_vars => HandledInv'
  <2> SUFFICES ASSUME TypeInv, HandledInv, [Next]_vars PROVE HandledInv'
    OBVIOUS
  <2>1. CASE handleReceived
    BY <2>1, HandledReceive
  <2>2. CASE tryToSend
    <3>1. UNCHANGED <<received, handled>>
      BY <2>2, SendKeeps
    <3>2. QED BY <3>1 DEF HandledInv, Kept
  <2>3. CASE Next /\ ~tryToSend /\ ~handleReceived
    <3>1. UNCHANGED <<received, handled>>
      BY <2>3, OtherLink
    <3>2. QED BY <3>1 DEF HandledInv, Kept
  <2>4. CASE UNCHANGED vars
    BY <2>4 DEF vars, private, history, HandledInv, Kept
  <2>5. QED BY <2>1, <2>2, <2>3, <2>4
<1>3. HandledInv => HandledOnce
  BY DEF HandledInv, HandledOnce
<1>4. QED BY <1>1, <1>2, <1>3, TypeAlways, PTL DEF Spec

----------------------------------------------------------------------------
(***************************************************************************)
(* Message ids of an old session are only in a session that has not been   *)
(* started, and when it is, by the first sending, that renumbers all there *)
(* is.                                                                     *)
(***************************************************************************)
NumberInv ==
  /\ link.state = "On" /\ ~link.started => q.haveSent = {}
  /\ link.started =>
       \A r \in q.toSend \cup hand \cup q.haveSent :
         mark[r].id = None \/ mark[r].session = link.session
  /\ \A r \in Requests \ made : mark[r].id = None

\* How requests move when nothing is sent.
LEMMA Moves ==
  ASSUME TypeInv, Next, ~tryToSend
  PROVE  /\ q'.toSend \subseteq q.toSend \cup hand \cup (made' \ made)
         /\ q'.haveSent \subseteq q.haveSent /\ hand' \subseteq hand \cup q.haveSent
         /\ made \subseteq made'
         /\ link'.state = "On" => link.state = "On" \/ q'.haveSent = {}
<1>0. q \in Maps /\ link \in Link
  BY DEF TypeInv, TypeOK
<1>1. ASSUME NEW r \in Requests, sendPrepared(r) \/ cancel(r)
      PROVE  /\ q'.toSend \subseteq q.toSend \cup (made' \ made)
             /\ q'.haveSent = q.haveSent /\ hand' = hand
             /\ made \subseteq made' /\ link'.state = link.state
  BY <1>0, <1>1 DEF sendPrepared, cancel, Maps, Link
<1>2. CASE CancelSent \/ tryToReceive
  BY <1>0, <1>2 DEF CancelSent, tryToReceive, private, Maps
<1>3. CASE sendPingByTimer \/ checkSentRequests
  BY <1>0, <1>3 DEF sendPingByTimer, checkSentRequests, main, Link
<1>4. CASE clearOldContainers
  <2>1. PICK id \in Ids : q' = [q EXCEPT !.containers[id] = {}]
    BY <1>4 DEF clearOldContainers
  <2>2. q'.toSend = q.toSend /\ q'.haveSent = q.haveSent
    BY <1>0, <2>1, OpenedType
  <2>3. QED BY <1>4, <2>2 DEF clearOldContainers, main
<1>5. CASE ResendTake
  <2>1. made' = made /\ link'.state = link.state /\ hand = {}
    BY <1>0, <1>5 DEF ResendTake, main, Link
  <2>2. PICK id \in todo :
          \/ hand' = hand /\ q' = [q EXCEPT !.containers[id] = {}]
          \/ hand' = sentAs(q, {id}) /\ q' = [q EXCEPT !.haveSent = @ \ hand']
    BY <1>5 DEF ResendTake
  <2>3. id \in Ids
    BY DEF TypeInv, TypeOK
  <2>4. CASE hand' = hand /\ q' = [q EXCEPT !.containers[id] = {}]
    BY <1>0, <2>1, <2>3, <2>4, OpenedType
  <2>5. CASE hand' = sentAs(q, {id}) /\ q' = [q EXCEPT !.haveSent = @ \ hand']
    BY <1>0, <2>1, <2>5 DEF sentAs, Maps
  <2>6. QED BY <2>2, <2>4, <2>5
<1>6. CASE ResendPut
  <2>1. made' = made /\ link'.state = link.state /\ hand' = {}
    BY <1>0, <1>6 DEF ResendPut, main, Link
  <2>2. PICK R : q' = [q EXCEPT !.toSend = @ \cup hand, !.resending = R]
    BY <1>6, Zenon DEF ResendPut
  <2>3. QED BY <1>0, <2>1, <2>2 DEF Maps
<1>7. CASE handleReceived
  <2>1. made' = made /\ hand' = hand
    BY <1>7 DEF handleReceived
  <2>2. link'.state = "On" => link.state = "On"
    BY <1>7 DEF handleReceived
  <2>3. QED BY <1>7, <2>1, <2>2, ReceiveMaps
<1>8. CASE Connect \/ LearnSalt
  <2>1. made' = made
    BY <1>8 DEF Connect, LearnSalt, main
  <2>2. \/ q' = q /\ hand' = hand /\ link'.state = "Waiting"
        \/ hand' = q.haveSent /\ q' = [q EXCEPT !.haveSent = {}]
    BY <1>0, <1>8 DEF Connect, LearnSalt, Link
  <2>3. \/ q' = q /\ hand' = hand /\ link'.state = "Waiting"
        \/ hand' = q.haveSent /\ q'.haveSent = {} /\ q'.toSend = q.toSend
    BY <1>0, <2>2 DEF Maps
  <2>4. QED BY <2>1, <2>3
<1>9. CASE Break \/ Disconnect
  BY <1>0, <1>9, Closed DEF Break, Disconnect, main, Link
<1>10. CASE ServerAnswers \/ ServerChangesSalt \/ ServerForgets
  <2>1. UNCHANGED main /\ UNCHANGED private
    BY <1>10, Zenon DEF ServerAnswers, ServerChangesSalt, ServerForgets
  <2>2. QED BY <2>1 DEF main, private
<1>11. QED BY <1>1, <1>2, <1>3, <1>4, <1>5, <1>6, <1>7, <1>8, <1>9, <1>10 DEF Next

LEMMA NumberSend ==
  ASSUME ~Cut, TypeInv, PlaceInv, NumberInv, tryToSend
  PROVE  NumberInv'
<1>0. /\ q \in Maps /\ link \in Link
      /\ mark \in [Requests -> [id : Ids \cup {None}, session : Nat]]
  BY DEF TypeInv, TypeOK
<1>1. hand = {} /\ link.state = "On" /\ Send(q.toSend)
  BY DEF tryToSend, Idle, Batches
<1> DEFINE batch == q.toSend
<1>2. batch \in SUBSET Requests
  BY <1>0 DEF Maps
<1>3. /\ mark' = marked(batch) /\ link' = said(batch)
      /\ q'.toSend = {} /\ q'.haveSent = q.haveSent \cup batch
  BY <1>1, <1>2, SendType
<1>4. link'.session = link.session /\ link'.started = TRUE
  BY <1>0, <1>3 DEF said, Link
<1>5. hand' = {} /\ made' = made
  BY <1>1 DEF Send, main
<1>6. \A r \in Requests : \/ /\ r \in batch
                              /\ mark'[r].session = link.session
                           \/ /\ mark'[r] = mark[r]
                              /\ r \notin batch \/ (link.started /\ mark[r].id # None)
  BY <1>0, <1>3 DEF marked, renumbered
<1>7. \A r \in q.haveSent \cup batch :
        mark'[r].id = None \/ mark'[r].session = link.session
  <2>1. ASSUME NEW r \in batch
        PROVE  mark'[r].session = link.session
    BY <1>2, <1>6 DEF NumberInv
  <2>2. ASSUME NEW r \in q.haveSent, r \notin batch
        PROVE  mark'[r].id = None \/ mark'[r].session = link.session
    <3>1. r \in Requests /\ mark'[r] = mark[r]
      BY <1>0, <1>6, <2>2 DEF Maps
    <3>2. link.started
      BY <1>1, <2>2 DEF NumberInv
    <3>3. QED BY <3>1, <3>2 DEF NumberInv
  <2>3. QED BY <2>1, <2>2
<1>8. \A r \in Requests \ made : mark'[r].id = None
  BY <1>6 DEF NumberInv, PlaceInv
<1>9. QED BY <1>3, <1>4, <1>5, <1>7, <1>8 DEF NumberInv

(***************************************************************************)
(* When no container is cut, all that has been sent on a connection has    *)
(* ids made for its session.                                               *)
(***************************************************************************)
THEOREM Renumbered ==
  ASSUME ~Cut
  PROVE  Spec => []NumberedInSession
<1>0. TypeInv /\ PlaceInv /\ NumberInv /\ [Next]_vars => NumberInv'
  <2> SUFFICES ASSUME TypeInv, PlaceInv, NumberInv, [Next]_vars PROVE NumberInv'
    OBVIOUS
  <2>1. CASE tryToSend
    BY <2>1, NumberSend
  <2>2. CASE Next /\ ~tryToSend
    <3>1. /\ q'.toSend \subseteq q.toSend \cup hand \cup (made' \ made)
          /\ q'.haveSent \subseteq q.haveSent /\ hand' \subseteq hand \cup q.haveSent
          /\ made \subseteq made'
          /\ link'.state = "On" => link.state = "On" \/ q'.haveSent = {}
      BY <2>2, Moves
    <3>2. mark' = mark
      <4>1. CASE handleReceived
        BY <4>1 DEF handleReceived
      <4>2. CASE ~handleReceived
        BY <2>2, <4>2, OtherLink
      <4>3. QED BY <4>1, <4>2
    <3>3. \/ link'.session = link.session /\ link'.started = link.started
          \/ ~link'.started /\ link'.state = "Off"
      BY <2>2, OtherLink, ReceiveLink
    <3>4. made' \subseteq Requests
      BY TypeStep DEF TypeInv, TypeOK
    <3>5. QED BY <3>1, <3>2, <3>3, <3>4 DEF NumberInv
  <2>3. CASE UNCHANGED vars
    BY <2>3 DEF vars, main, private, NumberInv
  <2>4. QED BY <2>1, <2>2, <2>3
<1>1. Init => PlaceInv /\ NumberInv
  BY DEF Init, PlaceInv, SentFromOnePlace, NumberInv
<1>2. TypeInv /\ NumberInv => NumberedInSession
  BY DEF TypeInv, NumberInv, NumberedInSession
<1>3. TypeInv /\ PlaceInv /\ [Next]_vars => PlaceInv'
  BY PlaceStep
<1>4. QED BY <1>0, <1>1, <1>2, <1>3, TypeAlways, PTL DEF Spec
----------------------------------------------------------------------------
(***************************************************************************)
(* Every message id is some request's own and smaller than the next one;   *)
(* what is remembered of an id is the request that has it.                 *)
(***************************************************************************)
Distinct ==
  \A r, s \in Requests : mark[r].id = mark[s].id /\ mark[r].id # None => r = s

Truthful(m) ==
  /\ \A i \in Ids : m.resending[i] # None => mark[m.resending[i]].id = i
  /\ \A i \in Ids : m.acked[i] # None => mark[m.acked[i]].id = i

IdsInv ==
  /\ \A r \in Requests : mark[r].id < nextId
  /\ Distinct
  /\ Truthful(q)
  /\ cancelling.id < nextId
  /\ \A r \in Requests \ {cancelling.request} :
       mark[r].id = cancelling.id => mark[r].id = None

LEMMA TrimmedKeeps ==
  ASSUME NEW map, NEW i \in Ids
  PROVE  trimmed(map)[i] = map[i] \/ trimmed(map)[i] = None
BY DEF trimmed

\* The parts of requestsAcked for messages that are no containers.
SentNow(m, ids, byResponse) ==
  {r \in sentAs(m, ids) : byResponse \/ r \notin waiting}
AgainNow(m, ids, byResponse) ==
  {i \in ids : /\ sentAs(m, {i}) = {} /\ m.resending[i] # None
               /\ (byResponse \/ m.resending[i] \notin waiting)}
AckedNow(m, ids, byResponse) ==
  LET sent  == SentNow(m, ids, byResponse)
      taken == {i \in AgainNow(m, ids, byResponse) : m.resending[i] \in m.toSend}
  IN [i \in Ids |->
        IF m.acked[i] # None THEN m.acked[i]
        ELSE IF \E r \in sent : mark[r].id = i
             THEN CHOOSE r \in sent : mark[r].id = i
        ELSE IF i \in taken THEN m.resending[i] ELSE None]

LEMMA SettledParts ==
  ASSUME NEW m, NEW ids, NEW byResponse
  PROVE  settled(m, ids, byResponse)
           = [toSend |-> m.toSend \ {m.resending[i] : i \in AgainNow(m, ids, byResponse)},
              haveSent |-> m.haveSent \ SentNow(m, ids, byResponse),
              resending |-> [i \in Ids |-> IF i \in AgainNow(m, ids, byResponse)
                                           THEN None ELSE m.resending[i]],
              acked |-> trimmed(AckedNow(m, ids, byResponse)),
              containers |-> m.containers]
BY Zenon DEF settled, SentNow, AgainNow, AckedNow

\* What is acknowledged after it, for one id.
AckedAs(m, sent, again, acked, i) ==
  /\ m.acked[i] # None => acked[i] = m.acked[i]
  /\ m.acked[i] = None =>
       \/ acked[i] \in sent /\ mark[acked[i]].id = i
       \/ /\ ~ \E r \in sent : mark[r].id = i
          /\ IF i \in again /\ m.resending[i] \in m.toSend
             THEN acked[i] = m.resending[i] ELSE acked[i] = None

LEMMA AckedParts ==
  ASSUME NEW m, NEW ids, NEW byResponse, NEW i \in Ids
  PROVE  AckedAs(m, SentNow(m, ids, byResponse), AgainNow(m, ids, byResponse),
                 AckedNow(m, ids, byResponse), i)
<1> DEFINE sent == SentNow(m, ids, byResponse)
           again == AgainNow(m, ids, byResponse)
<1>1. AckedNow(m, ids, byResponse)[i]
        = IF m.acked[i] # None THEN m.acked[i]
          ELSE IF \E r \in sent : mark[r].id = i
               THEN CHOOSE r \in sent : mark[r].id = i
          ELSE IF i \in again /\ m.resending[i] \in m.toSend THEN m.resending[i] ELSE None
  BY DEF AckedNow
<1> HIDE DEF sent, again
<1>2. (\E r \in sent : mark[r].id = i)
        => /\ (CHOOSE r \in sent : mark[r].id = i) \in sent
           /\ mark[CHOOSE r \in sent : mark[r].id = i].id = i
  OBVIOUS
<1>3. QED BY <1>1, <1>2 DEF sent, again, AckedAs

LEMMA SettledTruthful ==
  ASSUME NEW m, NEW ids, NEW byResponse, Truthful(m)
  PROVE  Truthful(settled(m, ids, byResponse))
<1> DEFINE A == AckedNow(m, ids, byResponse)
           n == settled(m, ids, byResponse)
<1>1. \A i \in Ids : n.resending[i] # None => n.resending[i] = m.resending[i]
  BY SettledParts
<1>2. n.acked = trimmed(A)
  BY SettledParts
<1>3. ASSUME NEW i \in Ids, A[i] # None
      PROVE  mark[A[i]].id = i
  BY <1>3, AckedParts DEF Truthful, AckedAs
<1> HIDE DEF A, n
<1>4. \A i \in Ids : n.acked[i] # None => mark[n.acked[i]].id = i
  BY <1>2, <1>3, TrimmedKeeps
<1>5. QED BY <1>1, <1>4 DEF Truthful, n

\* The containers among ids give way to what is in them.
Boxes(m, ids) == {i \in ids : m.containers[i] # {}}
Inner(m, ids) == UNION {m.containers[i] : i \in Boxes(m, ids)}
Opened(m, ids) ==
  [m EXCEPT !.containers = [i \in Ids |-> IF i \in Boxes(m, ids) THEN {} ELSE @[i]]]

LEMMA AckedTwice ==
  ASSUME NEW m, NEW ids, NEW byResponse
  PROVE  LET outer == settled(Opened(m, ids), ids \ Boxes(m, ids), byResponse) IN
         requestsAcked(m, ids, byResponse)
           = IF Inner(m, ids) = {} THEN outer
             ELSE settled(outer, Inner(m, ids), FALSE)
BY Zenon DEF requestsAcked, Boxes, Inner, Opened

LEMMA OpenedSame ==
  ASSUME NEW m \in Maps, NEW ids
  PROVE  /\ Opened(m, ids).toSend = m.toSend /\ Opened(m, ids).haveSent = m.haveSent
         /\ Opened(m, ids).resending = m.resending /\ Opened(m, ids).acked = m.acked
<1> DEFINE C == [i \in Ids |-> IF i \in Boxes(m, ids) THEN {} ELSE m.containers[i]]
<1>1. Opened(m, ids) = [m EXCEPT !.containers = C]
  BY DEF Opened
<1> HIDE DEF C
<1>2. QED BY <1>1 DEF Maps

LEMMA AckedTruthful ==
  ASSUME NEW m \in Maps, NEW ids, NEW byResponse, Truthful(m)
  PROVE  Truthful(requestsAcked(m, ids, byResponse))
<1> DEFINE outer == settled(Opened(m, ids), ids \ Boxes(m, ids), byResponse)
<1>1. Truthful(Opened(m, ids))
  BY OpenedSame DEF Truthful
<1>2. Truthful(outer)
  BY <1>1, SettledTruthful
<1> HIDE DEF outer
<1>3. Truthful(settled(outer, Inner(m, ids), FALSE))
  BY <1>2, SettledTruthful
<1>4. QED BY <1>2, <1>3, AckedTwice DEF outer

\* acted is q or what requestsAcked makes of it.
LEMMA ActedCases ==
  ASSUME NEW m \in Told
  PROVE  \/ acted(m) = q
         \/ \E ids : acted(m) = requestsAcked(q, ids, FALSE)
         \/ /\ m.kind = "result"
            /\ \E i \in Ids : m.ids = {i} /\ acted(m) = requestsAcked(q, {i}, TRUE)
<1> DEFINE got == {i \in m.ids \cap m.got : sentAs(q, {i}) # {} \/ q.resending[i] # None}
<1>1. acted(m) = CASE m.kind = "result" -> requestsAcked(q, m.ids, TRUE)
                   [] m.kind \in {"ack", "detailed"} -> requestsAcked(q, m.ids, FALSE)
                   [] m.kind = "states" -> requestsAcked(q, got, FALSE)
                   [] OTHER -> q
  BY DEF acted
<1> HIDE DEF got
<1>2. CASE m.kind = "result"
  <2>1. PICK i \in Ids : m.ids = {i}
    BY <1>2 DEF Told
  <2>2. acted(m) = requestsAcked(q, m.ids, TRUE)
    BY <1>1, <1>2
  <2>3. QED BY <1>2, <2>1, <2>2
<1>3. CASE m.kind \in {"ack", "detailed"}
  BY <1>1, <1>3
<1>4. CASE m.kind = "states"
  BY <1>1, <1>4
<1>5. CASE m.kind \notin {"result", "ack", "detailed", "states"}
  BY <1>1, <1>5
<1>6. QED BY <1>2, <1>3, <1>4, <1>5

LEMMA IdsReceive ==
  ASSUME TypeInv, IdsInv, handleReceived
  PROVE  IdsInv'
<1>1. q \in Maps /\ Head(down) \in Told
  BY DEF TypeInv, TypeOK, handleReceived
<1>2. /\ q' = q \/ q' = acted(Head(down))
      /\ mark' = mark /\ nextId' = nextId /\ cancelling' = cancelling
  BY DEF handleReceived
<1>3. Truthful(q) /\ Truthful(acted(Head(down)))
  <2>1. Truthful(q)
    BY DEF IdsInv
  <2>2. \A ids : Truthful(requestsAcked(q, ids, FALSE))
    BY <1>1, <2>1, AckedTruthful
  <2>3. \A ids : Truthful(requestsAcked(q, ids, TRUE))
    BY <1>1, <2>1, AckedTruthful
  <2> DEFINE a == acted(Head(down))
  <2>4. a = q \/ \E ids : a = requestsAcked(q, ids, FALSE) \/ a = requestsAcked(q, ids, TRUE)
    BY <1>1, ActedCases
  <2> HIDE DEF a
  <2>5. Truthful(a)
    BY <2>1, <2>2, <2>3, <2>4
  <2>6. QED BY <2>1, <2>5 DEF a
<1>4. Truthful(q')
  BY <1>2, <1>3
<1>5. QED BY <1>2, <1>4 DEF IdsInv, Distinct, Truthful

----------------------------------------------------------------------------
\* New message ids differ.
LEMMA NewIdsDiffer ==
  ASSUME TypeInv, NEW batch \in SUBSET Requests,
         NEW r \in renumbered(batch), NEW s \in renumbered(batch), r < s
  PROVE  newId(batch, r) # newId(batch, s)
<1> DEFINE R == {t \in renumbered(batch) : t < r}
           S == {t \in renumbered(batch) : t < s}
<1>1. IsFiniteSet(renumbered(batch)) /\ renumbered(batch) \subseteq Nat
  BY RequestsAssumption, FS_Subset DEF renumbered
<1>2. R \subseteq S /\ r \in S /\ r \notin R /\ S \in SUBSET renumbered(batch)
  BY <1>1
<1> HIDE DEF R, S
<1>3. IsFiniteSet(S)
  BY <1>1, <1>2, FS_Subset
<1>4. IsFiniteSet(R) /\ Cardinality(R) <= Cardinality(S) /\ Cardinality(R) # Cardinality(S)
  BY <1>2, <1>3, FS_Subset
<1>5. Cardinality(R) \in Nat /\ Cardinality(S) \in Nat /\ nextId \in Nat
  BY <1>3, <1>4, FS_CardinalityType DEF TypeInv, TypeOK
<1>6. newId(batch, r) = nextId + Cardinality(R) /\ newId(batch, s) = nextId + Cardinality(S)
  BY DEF newId, R, S
<1>7. QED BY <1>4, <1>5, <1>6

LEMMA IdsSend ==
  ASSUME TypeInv, IdsInv, tryToSend
  PROVE  IdsInv'
<1>0. /\ q \in Maps /\ nextId \in Nat
      /\ mark \in [Requests -> [id : Ids \cup {None}, session : Nat]]
      /\ cancelling \in [request : Requests \cup {None}, id : Ids \cup {None}]
  BY DEF TypeInv, TypeOK
<1>1. PICK batch \in Batches : Send(batch)
  BY DEF tryToSend
<1>2. batch \in SUBSET Requests
  BY <1>0, BatchType
<1> DEFINE N == renumbered(batch)
           box == nextId + Cardinality(N)
<1>3. /\ box <= MaxId /\ mark' = marked(batch) /\ cancelling' = cancelling
      /\ nextId' = box \/ nextId' = box + 1
      /\ q'.resending = replacedIds(batch).resending
      /\ q'.acked = replacedIds(batch).acked
  BY <1>1 DEF Send, main
<1>4. /\ box \in Nat /\ box >= nextId /\ N \subseteq batch
      /\ \A r \in N : /\ newId(batch, r) \in Nat \ {0} /\ newId(batch, r) >= nextId
                      /\ newId(batch, r) < box
  BY <1>2, NewIdType DEF renumbered
<1>5. \A r \in Requests : IF r \in N THEN mark'[r].id = newId(batch, r)
                                     ELSE mark'[r] = mark[r]
  BY <1>3 DEF marked
<1>6. \A r, s \in N : r # s => newId(batch, r) # newId(batch, s)
  <2> SUFFICES ASSUME NEW r \in N, NEW s \in N, r # s
               PROVE  newId(batch, r) # newId(batch, s)
    OBVIOUS
  <2>1. r \in Nat /\ s \in Nat
    BY <1>2, <1>4, RequestsAssumption
  <2>2. r < s \/ s < r
    BY <2>1
  <2>3. QED BY <1>2, <2>2, NewIdsDiffer
<1>7. \A r \in Requests : mark[r].id \in Nat /\ mark[r].id < nextId
  BY <1>0, BoundsAssumption DEF IdsInv, Ids, None
<1> HIDE DEF N, box
<1>8. nextId' \in Nat /\ nextId' >= box
  BY <1>3, <1>4
<1>9. \A r \in Requests : mark'[r].id < nextId'
  BY <1>0, <1>4, <1>5, <1>7, <1>8
<1>10. Distinct'
  <2> SUFFICES ASSUME NEW r \in Requests, NEW s \in Requests,
                      mark'[r].id = mark'[s].id, mark'[r].id # None
               PROVE  r = s
    BY DEF Distinct
  <2>1. CASE r \in N /\ s \in N
    BY <1>5, <1>6, <2>1
  <2>2. CASE r \in N /\ s \notin N
    BY <1>0, <1>4, <1>5, <1>7, <2>2
  <2>3. CASE r \notin N /\ s \in N
    BY <1>0, <1>4, <1>5, <1>7, <2>3
  <2>4. CASE r \notin N /\ s \notin N
    BY <1>5, <2>4 DEF IdsInv, Distinct
  <2>5. QED BY <2>1, <2>2, <2>3, <2>4
<1>11. \A i \in Ids : q'.resending[i] # None => mark'[q'.resending[i]].id = i
  <2> SUFFICES ASSUME NEW i \in Ids, q'.resending[i] # None
               PROVE  mark'[q'.resending[i]].id = i
    OBVIOUS
  <2>1. q'.resending[i] = q.resending[i] /\ ~ \E r \in batch : mark[r].id = i
    BY <1>3 DEF replacedIds
  <2>2. mark[q.resending[i]].id = i /\ q.resending[i] \in Requests
    BY <1>0, <2>1 DEF IdsInv, Truthful, Maps
  <2>3. QED BY <1>4, <1>5, <2>1, <2>2
<1>12. \A i \in Ids : q'.acked[i] # None => mark'[q'.acked[i]].id = i
  <2> SUFFICES ASSUME NEW i \in Ids, q'.acked[i] # None
               PROVE  mark'[q'.acked[i]].id = i
    OBVIOUS
  <2>1. PICK j \in Known(q.acked) : Moved(batch, j) = i /\ q'.acked[i] = q.acked[j]
    <3>1. q'.acked[i] = IF \E j \in Known(q.acked) : Moved(batch, j) = i
              THEN q.acked[CHOOSE j \in Known(q.acked) : Moved(batch, j) = i] ELSE None
      BY <1>3 DEF replacedIds
    <3>2. \E j \in Known(q.acked) : Moved(batch, j) = i
      BY <3>1
    <3> DEFINE j == CHOOSE j \in Known(q.acked) : Moved(batch, j) = i
    <3>3. j \in Known(q.acked) /\ Moved(batch, j) = i
      BY <3>2
    <3>4. q'.acked[i] = q.acked[j]
      BY <3>1, <3>2
    <3> HIDE DEF j
    <3>5. QED BY <3>3, <3>4
  <2> DEFINE r == q.acked[j]
  <2>2. j \in Ids /\ r \in Requests /\ mark[r].id = j
    BY <1>0 DEF IdsInv, Truthful, Maps, Known
  <2>3. j # None
    BY <2>2, BoundsAssumption DEF Ids, None
  <2> HIDE DEF r
  <2>4. CASE r \in N
    <3>1. \A s \in N : mark[s].id = j => s = r
      BY <1>2, <1>4, <2>2, <2>3 DEF IdsInv, Distinct
    <3>2. Moved(batch, j) = newId(batch, r)
      BY <2>2, <2>4, <3>1 DEF Moved, N
    <3>3. QED BY <1>5, <2>1, <2>2, <2>4, <3>2 DEF r
  <2>5. CASE r \notin N
    <3>1. \A s \in N : mark[s].id # j
      BY <1>2, <1>4, <2>2, <2>3, <2>5 DEF IdsInv, Distinct
    <3>2. Moved(batch, j) = j
      BY <3>1 DEF Moved, N
    <3>3. QED BY <1>5, <2>1, <2>2, <2>5, <3>2 DEF r
  <2>6. QED BY <2>4, <2>5
<1>13. Truthful(q)'
  BY <1>11, <1>12 DEF Truthful
<1>14. /\ cancelling.id < nextId'
       /\ \A r \in Requests \ {cancelling.request} :
            mark'[r].id = cancelling.id => mark'[r].id = None
  <2>1. cancelling.id \in Nat /\ cancelling.id < nextId
    BY <1>0, BoundsAssumption DEF IdsInv, Ids, None
  <2>2. cancelling.id < nextId'
    BY <1>0, <1>4, <1>8, <2>1
  <2>3. ASSUME NEW r \in Requests \ {cancelling.request}, mark'[r].id = cancelling.id
        PROVE  mark'[r].id = None
    <3>1. r \notin N
      <4> SUFFICES ASSUME r \in N PROVE FALSE
        OBVIOUS
      <4>1. mark'[r].id = newId(batch, r) /\ newId(batch, r) \in Nat
            /\ newId(batch, r) >= nextId
        BY <1>4, <1>5
      <4>2. QED BY <1>0, <2>1, <2>3, <4>1
    <3>2. mark'[r] = mark[r]
      BY <1>5, <3>1
    <3>3. QED BY <2>3, <3>2 DEF IdsInv
  <2>4. QED BY <2>2, <2>3
<1>15. QED BY <1>3, <1>9, <1>10, <1>13, <1>14 DEF IdsInv

LEMMA IdsStep ==
  ASSUME TypeInv, IdsInv, [Next]_vars
  PROVE  IdsInv'
<1>0. /\ q \in Maps /\ nextId \in Nat
      /\ mark \in [Requests -> [id : Ids \cup {None}, session : Nat]]
      /\ cancelling \in [request : Requests \cup {None}, id : Ids \cup {None}]
  BY DEF TypeInv, TypeOK
<1>1. ASSUME NEW r \in Requests, sendPrepared(r) PROVE IdsInv'
  <2>1. /\ mark' = mark /\ nextId' = nextId /\ cancelling' = cancelling
        /\ q'.resending = q.resending /\ q'.acked = q.acked
    BY <1>0, <1>1 DEF sendPrepared, Maps
  <2>2. QED BY <2>1 DEF IdsInv, Distinct, Truthful
<1>2. ASSUME NEW r \in Requests, cancel(r) PROVE IdsInv'
  <2>1. /\ mark' = mark /\ nextId' = nextId
        /\ q'.resending = q.resending /\ q'.acked = q.acked
    BY <1>0, <1>2 DEF cancel, Maps
  <2>2. cancelling'.request = r /\ cancelling'.id \in {mark[r].id, None}
    BY <1>2 DEF cancel
  <2>3. Distinct' /\ Truthful(q)'
    BY <2>1 DEF IdsInv, Distinct, Truthful
  <2>4. \A s \in Requests \ {r} : mark[s].id = mark[r].id => mark[s].id = None
    BY DEF IdsInv, Distinct
  <2>5. None < nextId
    BY <1>0 DEF TypeInv, TypeOK, None
  <2>6. QED BY <2>1, <2>2, <2>3, <2>4, <2>5 DEF IdsInv
<1>3. ASSUME CancelSent PROVE IdsInv'
  <2>1. /\ mark' = mark /\ nextId' = nextId
        /\ cancelling'.request = None /\ cancelling'.id = None
        /\ q'.resending = q.resending /\ q'.acked = q.acked
    BY <1>0, <1>3 DEF CancelSent, NotCancelling, Maps
  <2>2. nextId > None
    BY <1>0 DEF TypeInv, TypeOK, None
  <2>3. Distinct' /\ Truthful(q)'
    BY <2>1 DEF IdsInv, Distinct, Truthful
  <2>4. QED BY <2>1, <2>2, <2>3 DEF IdsInv, None
<1>4. ASSUME tryToSend PROVE IdsInv'
  BY <1>4, IdsSend
<1>5. ASSUME ResendTake PROVE IdsInv'
  <2>1. /\ mark' = mark /\ nextId' = nextId /\ cancelling' = cancelling
    BY <1>5 DEF ResendTake, main
  <2>2. \E id : \/ q' = [q EXCEPT !.containers[id] = {}]
                \/ q' = [q EXCEPT !.haveSent = @ \ hand']
    BY <1>5 DEF ResendTake
  <2>3. q'.resending = q.resending /\ q'.acked = q.acked
    BY <1>0, <2>2 DEF Maps
  <2>4. QED BY <2>1, <2>3 DEF IdsInv, Distinct, Truthful
<1>6. ASSUME ResendPut PROVE IdsInv'
  <2>1. /\ mark' = mark /\ nextId' = nextId /\ cancelling' = cancelling
    BY <1>6 DEF ResendPut, main
  <2> DEFINE back == [i \in Ids |->
                       IF \E r \in hand : mark[r].id = i
                       THEN CHOOSE r \in hand : mark[r].id = i ELSE q.resending[i]]
  <2>2. \A i \in Ids : \/ back[i] = q.resending[i]
                       \/ mark[back[i]].id = i
    <3>1. \A i \in Ids : (\E r \in hand : mark[r].id = i)
                           => mark[CHOOSE r \in hand : mark[r].id = i].id = i
      OBVIOUS
    <3>2. QED BY <3>1
  <2>3. q' = [q EXCEPT !.toSend = @ \cup hand, !.resending = back]
    BY <1>6 DEF ResendPut
  <2> HIDE DEF back
  <2>4. q'.resending = back /\ q'.acked = q.acked
    BY <1>0, <2>3 DEF Maps
  <2>5. Truthful(q)'
    BY <2>1, <2>2, <2>4 DEF IdsInv, Truthful
  <2>6. QED BY <2>1, <2>5 DEF IdsInv, Distinct
<1>7. ASSUME clearOldContainers PROVE IdsInv'
  <2>1. mark' = mark /\ nextId' = nextId /\ cancelling' = cancelling
    BY <1>7 DEF clearOldContainers, main
  <2>2. \E id : q' = [q EXCEPT !.containers[id] = {}]
    BY <1>7 DEF clearOldContainers
  <2>3. q'.resending = q.resending /\ q'.acked = q.acked
    BY <1>0, <2>2 DEF Maps
  <2>4. QED BY <2>1, <2>3 DEF IdsInv, Distinct, Truthful
<1>8. ASSUME handleReceived PROVE IdsInv'
  BY <1>8, IdsReceive
<1>9. ASSUME Connect \/ LearnSalt PROVE IdsInv'
  <2>1. mark' = mark /\ nextId' = nextId /\ cancelling' = cancelling
    BY <1>9 DEF Connect, LearnSalt, main
  <2>2. q' = q \/ q' = [q EXCEPT !.haveSent = {}]
    BY <1>9 DEF Connect, LearnSalt
  <2>3. q'.resending = q.resending /\ q'.acked = q.acked
    BY <1>0, <2>2 DEF Maps
  <2>4. QED BY <2>1, <2>3 DEF IdsInv, Distinct, Truthful
<1>10. ASSUME \/ tryToReceive \/ sendPingByTimer \/ checkSentRequests \/ Break
              \/ Disconnect \/ ServerAnswers \/ ServerChangesSalt \/ ServerForgets
              \/ UNCHANGED vars
       PROVE  IdsInv'
  <2>1. q' = q /\ mark' = mark /\ nextId' = nextId /\ cancelling' = cancelling
    BY <1>10 DEF tryToReceive, sendPingByTimer, checkSentRequests, Break, Disconnect,
       ServerAnswers, ServerChangesSalt, ServerForgets, vars, main, private
  <2>2. QED BY <2>1 DEF IdsInv, Distinct, Truthful
<1>11. QED BY <1>1, <1>2, <1>3, <1>4, <1>5, <1>6, <1>7, <1>8, <1>9, <1>10 DEF Next

LEMMA IdsAlways == Spec => []IdsInv
<1>1. Init => IdsInv
  BY RequestsAssumption DEF Init, IdsInv, Distinct, Truthful, NotCancelling, None
<1>2. TypeInv /\ IdsInv /\ [Next]_vars => IdsInv'
  BY IdsStep
<1>3. QED BY <1>1, <1>2, TypeAlways, PTL DEF Spec

----------------------------------------------------------------------------
(***************************************************************************)
(* No request is lost.  An answer finds its request by its message id in   *)
(* what has just been acknowledged, so what has to hold is that _ackedIds  *)
(* does not lose that id at once: that it is not full of later ones.       *)
(***************************************************************************)
NotOvertaken ==
  \A r \in waiting \cap (q.toSend \cup q.haveSent) :
    mark[r].id # None =>
      Cardinality({j \in Known(q.acked) : j > mark[r].id}) < AckedSize

\* The members of a set are all in the sequence made of it.
LEMMA SeqHasAll ==
  ASSUME NEW S, IsFiniteSet(S), NEW x \in S
  PROVE  \E i \in DOMAIN SetToSeq(S) : SetToSeq(S)[i] = x
<1> DEFINE D == 1 .. Cardinality(S)
           f == SetToSeq(S)
<1>1. PICK g : g \in [D -> S] /\ IsInjective(g)
  BY FS_CardinalityType DEF ExistsBijection, Bijection, Injection, IsInjective
<1>2. f \in [D -> S] /\ IsInjective(f)
  BY <1>1 DEF SetToSeq
<1> HIDE DEF f
<1>3. f \in Injection(D, S)
  BY <1>2 DEF Injection, IsInjective
<1>4. Cardinality(S) \in Nat
  BY FS_CardinalityType
<1>5. Cardinality(D) = Cardinality(S)
  BY <1>4, FS_Interval
<1>6. f \in Surjection(D, S)
  BY <1>3, <1>5, FS_Injection
<1>7. \E i \in D : f[i] = x
  BY <1>6 DEF Surjection
<1>8. DOMAIN f = D
  BY <1>2
<1>9. QED BY <1>7, <1>8 DEF f

\* A request that waits for its answer does not go at an acknowledgement.
LEMMA SettledWaits ==
  ASSUME NEW m, NEW ids, NEW byResponse, ~byResponse \/ ids = {}, NEW r \in waiting
  PROVE  LET n == settled(m, ids, byResponse) IN
         /\ r \in m.toSend => r \in n.toSend
         /\ r \in m.haveSent => r \in n.haveSent
<1>1. r \notin SentNow(m, ids, byResponse)
  BY DEF SentNow, sentAs
<1>2. \A i \in AgainNow(m, ids, byResponse) : m.resending[i] # r
  BY DEF AgainNow
<1>3. QED BY <1>1, <1>2, SettledParts

LEMMA AckedWaits ==
  ASSUME NEW m \in Maps, NEW ids, NEW byResponse,
         ~byResponse \/ ids \subseteq Boxes(m, ids), NEW r \in waiting
  PROVE  LET n == requestsAcked(m, ids, byResponse) IN
         /\ r \in m.toSend => r \in n.toSend
         /\ r \in m.haveSent => r \in n.haveSent
<1> DEFINE outer == settled(Opened(m, ids), ids \ Boxes(m, ids), byResponse)
           inner == settled(outer, Inner(m, ids), FALSE)
<1>1. /\ r \in m.toSend => r \in Opened(m, ids).toSend
      /\ r \in m.haveSent => r \in Opened(m, ids).haveSent
  BY OpenedSame
<1>2. ~byResponse \/ ids \ Boxes(m, ids) = {}
  OBVIOUS
<1>3. /\ r \in m.toSend => r \in outer.toSend
      /\ r \in m.haveSent => r \in outer.haveSent
  BY <1>1, <1>2, SettledWaits
<1> HIDE DEF outer
<1>4. /\ r \in outer.toSend => r \in inner.toSend
      /\ r \in outer.haveSent => r \in inner.haveSent
  BY SettledWaits
<1> HIDE DEF inner
<1>5. requestsAcked(m, ids, byResponse) \in {outer, inner}
  BY AckedTwice DEF outer, inner
<1>6. QED BY <1>3, <1>4, <1>5

\* The answer to a message that is no container.
LEMMA Unboxed ==
  ASSUME NEW m \in Maps, NEW i \in Ids, m.containers[i] = {}, NEW byResponse
  PROVE  requestsAcked(m, {i}, byResponse) = settled(m, {i}, byResponse)
<1>1. Boxes(m, {i}) = {}
  BY DEF Boxes
<1>2. Inner(m, {i}) = {}
  BY <1>1 DEF Inner
<1>3. Opened(m, {i}) = m
  <2> DEFINE C == [k \in Ids |-> IF k \in Boxes(m, {i}) THEN {} ELSE m.containers[k]]
  <2>1. Opened(m, {i}) = [m EXCEPT !.containers = C]
    BY DEF Opened
  <2>2. C = m.containers
    BY <1>1 DEF Maps
  <2> HIDE DEF C
  <2>3. QED BY <2>1, <2>2 DEF Maps
<1>4. {i} \ Boxes(m, {i}) = {i}
  BY <1>1
<1>5. QED BY <1>2, <1>3, <1>4, AckedTwice

\* The newest ids remain.
LEMMA TrimmedRoom ==
  ASSUME NEW map, NEW i \in Ids, map[i] # None, NEW S, IsFiniteSet(S),
         Known(map) \subseteq S \cup {i},
         Cardinality({j \in S : j > i}) < AckedSize
  PROVE  trimmed(map)[i] = map[i]
<1> DEFINE later == {j \in Known(map) : j > i}
           T == {j \in S : j > i}
<1>1. i \in Known(map) /\ ~(i > i)
  BY BoundsAssumption DEF Known, Ids
<1>2. later \subseteq T
  BY <1>1
<1>3. IsFiniteSet(T)
  <2>1. T \in SUBSET S
    OBVIOUS
  <2>2. QED BY <2>1, FS_Subset
<1>4. Cardinality(T) < AckedSize
  OBVIOUS
<1> HIDE DEF T
<1>5. IsFiniteSet(later) /\ Cardinality(later) <= Cardinality(T)
  BY <1>2, <1>3, FS_Subset
<1>6. Cardinality(later) \in Nat /\ Cardinality(T) \in Nat
  BY <1>3, <1>5, FS_CardinalityType
<1>7. Cardinality(later) < AckedSize
  BY <1>4, <1>5, <1>6, SizesAssumption
<1>8. i \in Newest(Known(map), AckedSize)
  BY <1>1, <1>7 DEF Newest
<1>9. QED BY <1>8 DEF trimmed

\* A request that an answer takes away is the one it is for.
LEMMA AnswerFinds ==
  ASSUME TypeInv, IdsInv, NotOvertaken, NEW i \in Ids,
         NEW r \in waiting, r \in q.toSend \cup q.haveSent,
         LET n == settled(q, {i}, TRUE) IN r \notin n.toSend \cup n.haveSent
  PROVE  wasSent(settled(q, {i}, TRUE), i) = r
<1>0. /\ q \in Maps /\ waiting \subseteq Requests /\ None \notin Ids /\ None \notin Requests
      /\ q.haveSent \subseteq Requests
  BY BoundsAssumption, RequestsAssumption DEF TypeInv, TypeOK, Ids, None, Maps
<1> DEFINE n == settled(q, {i}, TRUE)
           sent == SentNow(q, {i}, TRUE)
           again == AgainNow(q, {i}, TRUE)
           A == AckedNow(q, {i}, TRUE)
<1>1. /\ n.toSend = q.toSend \ {q.resending[j] : j \in again}
      /\ n.haveSent = q.haveSent \ sent
      /\ n.resending[i] = IF i \in again THEN None ELSE q.resending[i]
      /\ n.acked = trimmed(A)
  BY SettledParts
<1>2. again \subseteq {i} /\ \A s \in sent : s \in Requests /\ mark[s].id = i
  BY <1>0 DEF AgainNow, SentNow, sentAs
<1>3. i \in again => sentAs(q, {i}) = {} /\ q.resending[i] # None
  BY DEF AgainNow
<1>4. \A s \in Requests : mark[s].id = i => s = r \/ mark[r].id # i
  BY <1>0 DEF IdsInv, Distinct
<1>5. sent = sentAs(q, {i})
  BY DEF SentNow
<1>6. \A j \in Ids : AckedAs(q, sent, again, A, j)
  BY AckedParts
<1> HIDE DEF n, sent, again, A
<1>7. mark[r].id = i
  <2>1. CASE r \in sent
    BY <1>2, <2>1
  <2>2. CASE r \notin sent
    <3>1. r \in {q.resending[j] : j \in again}
      BY <1>1, <2>2 DEF n
    <3>2. i \in again /\ r = q.resending[i]
      BY <1>2, <3>1
    <3>3. QED BY <1>3, <3>2 DEF IdsInv, Truthful
  <2>3. QED BY <2>1, <2>2
<1>8. A[i] = r /\ (n.resending[i] = None \/ n.resending[i] = r)
  <2>1. q.acked[i] # None => q.acked[i] = r
    BY <1>0, <1>4, <1>7 DEF IdsInv, Truthful, Maps
  <2>2. q.resending[i] # None => q.resending[i] = r
    BY <1>0, <1>4, <1>7 DEF IdsInv, Truthful, Maps
  <2>3. q.acked[i] # None => A[i] = q.acked[i]
    BY <1>6 DEF AckedAs
  <2>4. q.acked[i] = None =>
          \/ A[i] \in sent /\ mark[A[i]].id = i
          \/ /\ ~ \E s \in sent : mark[s].id = i
             /\ IF i \in again /\ q.resending[i] \in q.toSend
                THEN A[i] = q.resending[i] ELSE A[i] = None
    BY <1>6 DEF AckedAs
  <2>5. CASE r \in sent
    <3>1. A[i] = r
      BY <1>2, <1>4, <1>7, <2>1, <2>3, <2>4, <2>5
    <3>2. i \notin again
      BY <1>3, <1>5, <2>5
    <3>3. QED BY <1>1, <2>2, <3>1, <3>2
  <2>6. CASE r \notin sent
    <3>1. r \in {q.resending[j] : j \in again} /\ r \in q.toSend
      BY <1>1, <2>6 DEF n
    <3>2. i \in again /\ r = q.resending[i]
      BY <1>2, <3>1
    <3>3. n.resending[i] = None
      BY <1>1, <3>2
    <3>4. sent = {}
      BY <1>3, <1>5, <3>2
    <3>5. A[i] = r
      BY <2>1, <2>3, <2>4, <3>1, <3>2, <3>4
    <3>6. QED BY <3>3, <3>5
  <2>7. QED BY <2>5, <2>6
<1>9. A[i] = r => n.acked[i] = r
  <2> SUFFICES ASSUME A[i] = r PROVE trimmed(A)[i] = A[i]
    BY <1>1
  <2>1. Known(A) \subseteq Known(q.acked) \cup {i}
    <3> SUFFICES ASSUME NEW j \in Ids, A[j] # None, q.acked[j] = None PROVE j = i
      BY DEF Known
    <3>1. \/ A[j] \in sent /\ mark[A[j]].id = j
          \/ j \in again
      BY <1>6 DEF AckedAs
    <3>2. QED BY <1>2, <3>1
  <2>2. IsFiniteSet(Known(q.acked))
    <3>1. IsFiniteSet(Ids)
      BY FS_Interval, BoundsAssumption DEF Ids
    <3>2. Known(q.acked) \in SUBSET Ids
      BY DEF Known
    <3>3. QED BY <3>1, <3>2, FS_Subset
  <2>3. Cardinality({j \in Known(q.acked) : j > i}) < AckedSize
    BY <1>0, <1>7 DEF NotOvertaken
  <2>4. A[i] # None
    BY <1>0
  <2>5. QED BY <2>1, <2>2, <2>3, <2>4, TrimmedRoom
<1>10. r # None
  BY <1>0
<1>11. wasSent(n, i) = r
  BY <1>8, <1>9, <1>10 DEF wasSent
<1>12. QED BY <1>11 DEF n

\* A request that a message takes out of the maps has its answer.
LEMMA AnswerKept ==
  ASSUME TypeInv, IdsInv, NotOvertaken, handleReceived, NEW r \in waiting,
         r \in q.toSend \cup q.haveSent, r \notin q'.toSend \cup q'.haveSent
  PROVE  \E i \in DOMAIN replies' : replies'[i] = r
<1> DEFINE m == Head(down)
<1>0. /\ q \in Maps /\ m \in Told /\ m \in Packet /\ replies \in Seq(Requests)
      /\ r \in Requests /\ None \notin Requests
  BY RequestsAssumption DEF TypeInv, TypeOK, handleReceived, None
<1>1. \/ q' = q
      \/ q' = acted(m) /\ replies' = replies \o SetToSeq(answered(m))
  BY DEF handleReceived
<1> HIDE DEF m
<1>2. q' = acted(m) /\ replies' = replies \o SetToSeq(answered(m))
  BY <1>1
<1>3. r \in answered(m)
  <2>1. CASE acted(m) = q
    BY <1>2, <2>1
  <2>2. ASSUME NEW ids, acted(m) = requestsAcked(q, ids, FALSE)
        PROVE  FALSE
    BY <1>0, <1>2, <2>2, AckedWaits
  <2>3. ASSUME m.kind = "result", NEW i \in Ids, m.ids = {i},
               acted(m) = requestsAcked(q, {i}, TRUE)
        PROVE  r \in answered(m)
    <3>1. CASE q.containers[i] # {}
      <4>1. {i} \subseteq Boxes(q, {i})
        BY <3>1 DEF Boxes
      <4>2. QED BY <1>0, <1>2, <2>3, <4>1, AckedWaits
    <3>2. CASE q.containers[i] = {}
      <4>1. acted(m) = settled(q, {i}, TRUE)
        BY <1>0, <2>3, <3>2, Unboxed
      <4>2. wasSent(acted(m), i) = r
        BY <1>2, <4>1, AnswerFinds
      <4>3. answered(m) = {wasSent(acted(m), j) : j \in m.ids} \ {None}
        BY <2>3 DEF answered
      <4>4. QED BY <1>0, <2>3, <4>2, <4>3
    <3>3. QED BY <3>1, <3>2
  <2>4. QED BY <1>0, <2>1, <2>2, <2>3, ActedCases
<1>4. answered(m) \subseteq Requests /\ IsFiniteSet(answered(m))
  BY <1>0, AnsweredType
<1> DEFINE told == SetToSeq(answered(m))
<1>5. told \in Seq(Requests)
  BY <1>4, SeqOfSubset
<1>6. PICK i \in DOMAIN told : told[i] = r
  BY <1>3, <1>4, SeqHasAll
<1>7. replies' = replies \o told
  BY <1>2
<1> HIDE DEF told
<1>8. /\ Len(replies) + i \in DOMAIN replies'
      /\ replies'[Len(replies) + i] = told[i]
  BY <1>0, <1>5, <1>6, <1>7
<1>9. QED BY <1>6, <1>8

Replied(r) == \E i \in DOMAIN replies : replies[i] = r

LEMMA LostReceive ==
  ASSUME TypeInv, IdsInv, NotOvertaken, NoRequestLost, handleReceived
  PROVE  NoRequestLost'
<1>1. hand = {} /\ waiting' = waiting /\ cancelling' = cancelling
  BY DEF handleReceived, Idle
<1>2. ASSUME NEW r \in Requests, Replied(r)
      PROVE  Replied(r)'
  <2> DEFINE s == SetToSeq(answered(Head(down)))
  <2>1. replies' = replies \/ replies' = replies \o s
    BY DEF handleReceived
  <2>2. replies \in Seq(Requests) /\ s \in Seq(Requests)
    BY AnsweredType, SeqOfSubset DEF handleReceived, TypeInv, TypeOK
  <2> HIDE DEF s
  <2>3. PICK i \in DOMAIN replies : replies[i] = r
    BY <1>2 DEF Replied
  <2>4. i \in DOMAIN replies' /\ replies'[i] = r
    BY <2>1, <2>2, <2>3
  <2>5. QED BY <2>4 DEF Replied
<1>3. ASSUME NEW r \in waiting \ {cancelling.request}
      PROVE  r \in q'.toSend \cup q'.haveSent \/ Replied(r)'
  <2>1. r \in q.toSend \cup q.haveSent \/ Replied(r)
    BY <1>1 DEF NoRequestLost, Replied
  <2>2. r \in Requests
    BY DEF TypeInv, TypeOK
  <2>3. QED BY <1>2, <2>1, <2>2, AnswerKept DEF Replied
<1>4. QED BY <1>1, <1>3 DEF NoRequestLost, Replied

LEMMA LostStep ==
  ASSUME TypeInv, IdsInv, NotOvertaken, NoRequestLost, [Next]_vars
  PROVE  NoRequestLost'
<1>0. /\ q \in Maps /\ replies \in Seq(Requests) /\ waiting \subseteq Requests
      /\ cancelling \in [request : Requests \cup {None}, id : Ids \cup {None}]
      /\ \A r \in q.haveSent : mark[r].id # None
  BY DEF TypeInv, TypeOK
<1>1. ASSUME NEW r \in Requests, sendPrepared(r) PROVE NoRequestLost'
  <2>1. q'.toSend = q.toSend \cup {r} /\ q'.haveSent = q.haveSent
    BY <1>0, <1>1 DEF sendPrepared, Maps
  <2>2. /\ waiting' = waiting \cup {r} /\ hand' = hand /\ replies' = replies
        /\ cancelling' = cancelling
    BY <1>1 DEF sendPrepared
  <2>3. QED BY <2>1, <2>2 DEF NoRequestLost
<1>2. ASSUME NEW r \in Requests, cancel(r) PROVE NoRequestLost'
  <2>1. q'.toSend = q.toSend \ {r} /\ q'.haveSent = q.haveSent
    BY <1>0, <1>2 DEF cancel, Maps
  <2>2. /\ waiting' = waiting /\ hand' = hand /\ replies' = replies
        /\ cancelling'.request = r /\ cancelling = NotCancelling
    BY <1>2 DEF cancel
  <2>3. \A s \in waiting' \ {cancelling'.request} : s \in waiting \ {cancelling.request}
    BY <1>0, <2>2, RequestsAssumption DEF NotCancelling, None
  <2>4. QED BY <2>1, <2>2, <2>3 DEF NoRequestLost
<1>3. ASSUME CancelSent PROVE NoRequestLost'
  <2>1. q'.toSend = q.toSend /\ q'.haveSent = q.haveSent \ sentAs(q, {cancelling.id})
    BY <1>0, <1>3 DEF CancelSent, Maps
  <2>2. waiting' = waiting \ {cancelling.request} /\ hand' = hand /\ replies' = replies
    BY <1>3 DEF CancelSent
  <2>3. \A r \in waiting' : r \in q.haveSent => r \in q'.haveSent
    BY <1>0, <2>1, <2>2 DEF sentAs, IdsInv
  <2>4. QED BY <2>1, <2>2, <2>3 DEF NoRequestLost
<1>4. ASSUME tryToReceive PROVE NoRequestLost'
  <2>1. /\ replies # <<>> /\ replies' = Tail(replies) /\ waiting' = waiting \ {Head(replies)}
        /\ q' = q /\ hand' = hand /\ cancelling' = cancelling
    BY <1>4 DEF tryToReceive, private
  <2>2. ASSUME NEW i \in DOMAIN replies, replies[i] # Head(replies)
        PROVE  i - 1 \in DOMAIN replies' /\ replies'[i - 1] = replies[i]
    BY <1>0, <2>1, <2>2
  <2>3. ASSUME NEW r \in waiting', r # cancelling.request
        PROVE  \/ r \in q.toSend \cup hand \cup q.haveSent
               \/ \E i \in DOMAIN replies' : replies'[i] = r
    BY <2>1, <2>2, <2>3 DEF NoRequestLost
  <2>4. QED BY <2>1, <2>3 DEF NoRequestLost
<1>5. ASSUME tryToSend PROVE NoRequestLost'
  <2>1. PICK batch \in Batches : Send(batch)
    BY <1>5 DEF tryToSend
  <2>2. batch \subseteq q.toSend /\ batch \in SUBSET Requests
    BY <1>0, BatchType
  <2>3. q'.toSend = q.toSend \ batch /\ q'.haveSent = q.haveSent \cup batch
    BY <2>1, <2>2, SendType
  <2>4. UNCHANGED <<waiting, cancelling, replies, hand>>
    BY <2>1 DEF Send, main
  <2>5. QED BY <2>3, <2>4 DEF NoRequestLost
<1>6. ASSUME ResendTake PROVE NoRequestLost'
  <2>1. hand = {} /\ UNCHANGED <<waiting, cancelling, replies>>
    BY <1>6 DEF ResendTake, main
  <2>2. PICK id \in todo :
          \/ q' = [q EXCEPT !.containers[id] = {}] /\ hand' = hand
          \/ hand' = sentAs(q, {id}) /\ q' = [q EXCEPT !.haveSent = @ \ hand']
    BY <1>6 DEF ResendTake
  <2>3. \/ q'.toSend = q.toSend /\ q'.haveSent = q.haveSent
        \/ q'.toSend = q.toSend /\ q'.haveSent = q.haveSent \ hand'
    BY <1>0, <2>2 DEF Maps
  <2>4. QED BY <2>1, <2>3 DEF NoRequestLost
<1>7. ASSUME ResendPut PROVE NoRequestLost'
  <2>1. q'.toSend = q.toSend \cup hand /\ q'.haveSent = q.haveSent
    BY <1>0, <1>7 DEF ResendPut, Maps
  <2>2. UNCHANGED <<waiting, cancelling, replies>>
    BY <1>7 DEF ResendPut, main
  <2>3. QED BY <2>1, <2>2 DEF NoRequestLost
<1>8. ASSUME clearOldContainers PROVE NoRequestLost'
  <2>1. PICK id \in Ids : q' = [q EXCEPT !.containers[id] = {}]
    BY <1>8 DEF clearOldContainers
  <2>2. q'.toSend = q.toSend /\ q'.haveSent = q.haveSent
    BY <1>0, <2>1, OpenedType
  <2>3. UNCHANGED <<waiting, cancelling, replies, hand>>
    BY <1>8 DEF clearOldContainers, main
  <2>4. QED BY <2>2, <2>3 DEF NoRequestLost
<1>9. ASSUME handleReceived PROVE NoRequestLost'
  BY <1>9, LostReceive
<1>10. ASSUME Connect \/ LearnSalt PROVE NoRequestLost'
  <2>1. hand = {} /\ UNCHANGED <<waiting, cancelling, replies>>
    BY <1>10 DEF Connect, LearnSalt, Idle, main
  <2>2. \/ q' = q /\ hand' = hand
        \/ hand' = q.haveSent /\ q' = [q EXCEPT !.haveSent = {}]
    BY <1>10 DEF Connect, LearnSalt
  <2>3. \/ q' = q /\ hand' = hand
        \/ hand' = q.haveSent /\ q'.toSend = q.toSend
    BY <1>0, <2>2 DEF Maps
  <2>4. QED BY <2>1, <2>3 DEF NoRequestLost
<1>11. ASSUME \/ sendPingByTimer \/ checkSentRequests \/ Break
              \/ Disconnect \/ ServerAnswers \/ ServerChangesSalt \/ ServerForgets
              \/ UNCHANGED vars
       PROVE  NoRequestLost'
  <2>1. UNCHANGED <<q, hand, waiting, cancelling, replies>>
    BY <1>11 DEF sendPingByTimer, checkSentRequests, Break, Disconnect,
       ServerAnswers, ServerChangesSalt, ServerForgets, vars, main, private
  <2>2. QED BY <2>1 DEF NoRequestLost
<1>12. QED BY <1>1, <1>2, <1>3, <1>4, <1>5, <1>6, <1>7, <1>8, <1>9, <1>10, <1>11 DEF Next

(***************************************************************************)
(* A request whose callback is to be called is never lost, in any          *)
(* behaviour in which no such request is overtaken by the answers to so    *)
(* many later ones that _ackedIds is full of them when its own comes.      *)
(***************************************************************************)
THEOREM NothingLost == Spec /\ []NotOvertaken => []NoRequestLost
<1>1. Init => NoRequestLost
  BY DEF Init, NoRequestLost
<1>2. TypeInv /\ IdsInv /\ NotOvertaken /\ NoRequestLost /\ [Next]_vars => NoRequestLost'
  BY LostStep
<1>3. QED BY <1>1, <1>2, TypeAlways, IdsAlways, PTL DEF Spec

\* Different ids are of different requests, so the answered ones are no more
\* than there are other requests.
LEMMA FewOvertake ==
  ASSUME TypeInv, IdsInv, Cardinality(Requests) <= AckedSize
  PROVE  NotOvertaken
<1> SUFFICES ASSUME NEW r \in waiting, mark[r].id # None
             PROVE  Cardinality({j \in Known(q.acked) : j > mark[r].id}) < AckedSize
  BY DEF NotOvertaken
<1>0. r \in Requests /\ mark[r].id \in Ids /\ q.acked \in [Ids -> Requests \cup {None}]
  BY DEF TypeInv, TypeOK, Maps
<1> DEFINE S == {j \in Known(q.acked) : j > mark[r].id}
           T == Requests \ {r}
           f == [j \in S |-> q.acked[j]]
<1>1. \A j \in S : j \in Ids /\ q.acked[j] \in Requests /\ mark[q.acked[j]].id = j
                   /\ j # mark[r].id
  <2> SUFFICES ASSUME NEW j \in S
               PROVE  j \in Ids /\ q.acked[j] \in Requests /\ mark[q.acked[j]].id = j
                      /\ j # mark[r].id
    OBVIOUS
  <2>1. j \in Ids /\ q.acked[j] # None /\ j > mark[r].id
    BY DEF Known
  <2>2. q.acked[j] \in Requests
    BY <1>0, <2>1
  <2>3. mark[q.acked[j]].id = j
    BY <2>1 DEF IdsInv, Truthful
  <2>4. j # mark[r].id
    BY <1>0, <2>1, BoundsAssumption DEF Ids
  <2>5. QED BY <2>1, <2>2, <2>3, <2>4
<1>2. f \in Injection(S, T)
  <2>1. f \in [S -> T]
    BY <1>1
  <2>2. \A j, k \in S : f[j] = f[k] => j = k
    BY <1>1
  <2> HIDE DEF f, S, T
  <2>3. QED BY <2>1, <2>2 DEF Injection, IsInjective
<1>3. IsFiniteSet(T) /\ Cardinality(T) = Cardinality(Requests) - 1
  BY <1>0, RequestsAssumption, FS_RemoveElement
<1> HIDE DEF f, S, T
<1>4. IsFiniteSet(S) /\ Cardinality(S) <= Cardinality(T)
  BY <1>2, <1>3, FS_Injection
<1>5. Cardinality(S) \in Nat /\ Cardinality(T) \in Nat /\ Cardinality(Requests) \in Nat
  BY <1>3, <1>4, RequestsAssumption, FS_CardinalityType
<1>6. Cardinality(S) < AckedSize
  BY <1>3, <1>4, <1>5, SizesAssumption
<1>7. QED BY <1>6 DEF S

(***************************************************************************)
(* With room for all requests in _ackedIds none is lost, whatever goes     *)
(* wrong on the way.                                                       *)
(***************************************************************************)
THEOREM NothingLostInRoom ==
  ASSUME Cardinality(Requests) <= AckedSize
  PROVE  Spec => []NoRequestLost
<1>1. TypeInv /\ IdsInv => NotOvertaken
  BY FewOvertake
<1>2. QED BY <1>1, TypeAlways, IdsAlways, NothingLost, PTL
=============================================================================
