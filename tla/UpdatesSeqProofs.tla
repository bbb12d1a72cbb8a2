-------------------------- MODULE UpdatesSeqProofs --------------------------
(***************************************************************************)
(* Theorems about UpdatesSeq: the recursion of drained, unfolded and used  *)
(* for induction, then the inductive invariant, one lemma for each action, *)
(* and what follows from it.                                               *)
(***************************************************************************)
EXTENDS UpdatesSeq, Induction

-----------------------------------------------------------------------------
(* What is drained: the function is defined by recursion on what is held.  *)

Fits(c) == {h \in c.held : h.start = c.seq + 1}
Fed(c)  == feed([c EXCEPT !.held = later(c)], CHOOSE h \in Fits(c) : TRUE)

\* A timer that is off, and one that has been started.
LEMMA TimerType == Off \in Timer /\ Wait \in Timer
BY WaitAssumption DEF Timer, Off

\* What is kept of what is held.
LEMMA LaterType ==
  ASSUME NEW c \in Client
  PROVE  later(c) \subseteq c.held /\ later(c) \in SUBSET Container
BY DEF later, Client

\* The fields of a client that is a Client.
LEMMA Fields ==
  ASSUME NEW c \in Client
  PROVE  /\ c.seq \in Nat /\ c.date \in Nat /\ c.held \subseteq Container
         /\ c.bySeq \in Timer /\ c.byMin \in Timer
         /\ c.requesting \in BOOLEAN /\ c.flying \in BOOLEAN /\ c.from \in Nat
         /\ c.taken \subseteq Nat /\ c.missed \subseteq Nat
BY DEF Client

\* A request is sent, with the date, unless one is pending.
LEMMA GetDifference ==
  ASSUME NEW c \in Client
  PROVE  /\ getDifference(c) \in Client
         /\ getDifference(c).requesting
         /\ c.requesting => getDifference(c) = c
         /\ ~c.requesting => /\ getDifference(c).held = {}
                             /\ getDifference(c).flying
                             /\ getDifference(c).from = c.date
         /\ getDifference(c).seq = c.seq /\ getDifference(c).date = c.date
         /\ getDifference(c).byMin = c.byMin
         /\ getDifference(c).taken = c.taken /\ getDifference(c).missed = c.missed
<1>1. CASE c.requesting
  BY <1>1 DEF getDifference
<1>2. CASE ~c.requesting
  <2>1. getDifference(c) = [c EXCEPT !.held = {}, !.bySeq = Off, !.requesting = TRUE,
                                     !.flying = TRUE, !.from = c.date]
    BY <1>2 DEF getDifference
  <2> QED BY <1>2, <2>1, TimerType DEF Client
<1> QED BY <1>1, <1>2

\* Whether what a container tells makes for a request, is left to one, or neither.
LEMMA FeedVector ==
  ASSUME NEW c \in Client, NEW u \in Container, NEW v, v = feedUpdateVector(c, u)
  PROVE  /\ v \in Client
         /\ v.seq = c.seq /\ v.date = c.date /\ v.taken = c.taken
         /\ \/ v = c
            \/ /\ ~c.requesting /\ v.requesting /\ v.held = {} /\ v.flying
               /\ v.from = c.date /\ v.byMin = c.byMin /\ v.missed = c.missed
            \/ /\ ~c.requesting /\ ~v.requesting /\ v.held = c.held /\ v.bySeq = c.bySeq
               /\ v.flying = c.flying /\ v.from = c.from /\ v.byMin # Off
               /\ v.missed \subseteq c.missed \cup {e \in {u.date} : e > c.date}
<1>1. CASE u.kind = "unknownUser"
  <2>1. v = getDifference(c)
    BY <1>1 DEF feedUpdateVector
  <2>2. CASE c.requesting
    BY <2>1, <2>2, GetDifference
  <2>3. CASE ~c.requesting
    BY <2>1, <2>3, GetDifference
  <2>4. c.requesting \/ ~c.requesting
    OBVIOUS
  <2> HIDE DEF getDifference
  <2> QED BY <2>2, <2>3, <2>4
<1>2. CASE u.kind = "unknownChannel" /\ ~c.requesting
  <2>1. v = [c EXCEPT !.byMin = IF @ = Off THEN Wait ELSE @,
                      !.missed = IF u.date > c.date THEN @ \cup {u.date} ELSE @]
    BY <1>2 DEF feedUpdateVector
  <2>2. Wait # Off
    BY WaitAssumption DEF Off
  <2>3. v \in Client
    <3>1. /\ (IF c.byMin = Off THEN Wait ELSE c.byMin) \in Timer
          /\ (IF u.date > c.date THEN c.missed \cup {u.date} ELSE c.missed) \in SUBSET Nat
      BY TimerType DEF Client, Container
    <3> QED BY <2>1, <3>1 DEF Client
  <2>4. v.byMin # Off /\ v.missed \subseteq c.missed \cup {e \in {u.date} : e > c.date}
    BY <2>1, <2>2 DEF Client
  <2> QED BY <1>2, <2>1, <2>3, <2>4 DEF Client
<1>3. CASE u.kind # "unknownUser" /\ ~(u.kind = "unknownChannel" /\ ~c.requesting)
  <2>1. v = c
    BY <1>3 DEF feedUpdateVector
  <2> QED BY <2>1
<1> QED BY <1>1, <1>2, <1>3

\* The date moves forward or stays, and nothing else changes.
LEMMA SetDate ==
  ASSUME NEW c \in Client, NEW date \in Nat
  PROVE  LET d == setDate(c, date)
         IN /\ d \in Client
            /\ d = [c EXCEPT !.date = d.date]
            /\ d.date = c.date \/ (c.byMin = Off /\ d.date = date /\ c.date < date)
<1>1. setDate(c, date) = [c EXCEPT !.date = IF @ < date /\ c.byMin = Off THEN date ELSE @]
  BY DEF setDate
<1> QED BY <1>1 DEF Client

\* A fed container changes the seq and what was taken, if it has numbers.
LEMMA Feed ==
  ASSUME NEW c \in Client, NEW u \in Container
  PROVE  LET v == feedUpdateVector(c, u)
             d == setDate(v, u.date)
             f == feed(c, u)
         IN /\ f \in Client
            /\ f = [d EXCEPT !.seq = f.seq, !.taken = f.taken]
            /\ u.end = 0 => f.seq = c.seq /\ f.taken = c.taken
            /\ u.end # 0 => f.seq = u.end /\ f.taken = c.taken \cup (u.start .. u.end)
            /\ f.held = v.held /\ f.bySeq = v.bySeq /\ f.requesting = v.requesting
<1> DEFINE v == feedUpdateVector(c, u)
           d == setDate(v, u.date)
<1>0. u.end \in Nat /\ u.start \in Nat /\ u.date \in Nat
  BY DEF Container
<1>1. v \in Client /\ v.seq = c.seq /\ v.taken = c.taken
  BY FeedVector
<1>2. d \in Client /\ d = [v EXCEPT !.date = d.date]
  BY <1>0, <1>1, SetDate
<1>3. /\ d.seq = v.seq /\ d.taken = v.taken /\ d.held = v.held /\ d.bySeq = v.bySeq
      /\ d.requesting = v.requesting
  BY <1>1, <1>2 DEF Client
<1>4. u.start .. u.end \subseteq Nat
  BY <1>0
<1>5. feed(c, u) = IF u.end = 0 THEN d
                   ELSE [d EXCEPT !.seq = u.end, !.taken = @ \cup (u.start .. u.end)]
  BY DEF feed
<1> HIDE DEF v, d
<1>6. CASE u.end = 0
  <2>1. feed(c, u) = d
    BY <1>5, <1>6
  <2>2. d = [d EXCEPT !.seq = d.seq, !.taken = d.taken]
    BY <1>2 DEF Client
  <2> QED BY <1>1, <1>2, <1>3, <1>6, <2>1, <2>2 DEF v, d
<1>7. CASE u.end # 0
  <2>1. feed(c, u) = [d EXCEPT !.seq = u.end, !.taken = @ \cup (u.start .. u.end)]
    BY <1>5, <1>7
  <2>2. feed(c, u) \in Client
    BY <1>0, <1>2, <1>4, <2>1 DEF Client
  <2>3. feed(c, u).seq = u.end /\ feed(c, u).taken = c.taken \cup (u.start .. u.end)
    BY <1>1, <1>2, <1>3, <2>1 DEF Client
  <2>4. feed(c, u) = [d EXCEPT !.seq = feed(c, u).seq, !.taken = feed(c, u).taken]
    BY <1>2, <2>1 DEF Client
  <2>5. /\ feed(c, u).held = d.held /\ feed(c, u).bySeq = d.bySeq
        /\ feed(c, u).requesting = d.requesting
    BY <1>2, <2>1 DEF Client
  <2> QED BY <1>3, <1>7, <2>2, <2>3, <2>4, <2>5 DEF v, d
<1> QED BY <1>6, <1>7

\* Feeding a held container gives a client again.
LEMMA FedType ==
  ASSUME NEW c \in Client, Fits(c) # {}
  PROVE  Fed(c) \in Client
<1> DEFINE d == [c EXCEPT !.held = later(c)]
           h == CHOOSE h \in Fits(c) : TRUE
<1>1. h \in Container
  BY DEF Fits, Client
<1>2. d \in Client
  BY LaterType DEF Client
<1> QED BY <1>1, <1>2, Feed DEF Fed

\* Feeding a held container leaves only containers further ahead.
LEMMA FedHeld ==
  ASSUME NEW c \in Client, Fits(c) # {}
  PROVE  Fed(c).held \subseteq later(c)
<1> DEFINE d == [c EXCEPT !.held = later(c)]
           h == CHOOSE h \in Fits(c) : TRUE
<1>1. h \in Container
  BY DEF Fits, Client
<1>2. d \in Client /\ d.held = later(c)
  BY LaterType DEF Client
<1>3. Fed(c).held = feedUpdateVector(d, h).held
  BY <1>1, <1>2, Feed DEF Fed
<1>4. feedUpdateVector(d, h).held \subseteq d.held
  <2> HIDE DEF d, h
  <2> QED BY <1>1, <1>2, FeedVector
<1> QED BY <1>2, <1>3, <1>4

\* So does the end of feeding.
LEMMA RearmedType ==
  ASSUME NEW c \in Client
  PROVE  rearmed(c) \in Client
BY LaterType, TimerType DEF rearmed, Client

\* A way from c until nothing fits, and what is left at its end.
Ways(c, n) ==
  {p \in [0 .. n -> Client] :
     /\ p[0] = c
     /\ Fits(p[n]) = {}
     /\ \A i \in 0 .. n - 1 : Fits(p[i]) # {} /\ p[i + 1] = Fed(p[i])}
Ends(c) == {r \in Client : \E n \in Nat : \E p \in Ways(c, n) : r = rearmed(p[n])}

\* The way from a client that nothing fits has one end, at once.
LEMMA EndsHere ==
  ASSUME NEW c \in Client, Fits(c) = {}
  PROVE  Ends(c) = {rearmed(c)}
<1>1. rearmed(c) \in Ends(c)
  <2> DEFINE p == [i \in 0 .. 0 |-> c]
  <2>1. p \in Ways(c, 0)
    BY DEF Ways
  <2> QED BY <2>1, RearmedType DEF Ends
<1>2. ASSUME NEW n \in Nat, NEW p \in Ways(c, n)
      PROVE  n = 0 /\ p[n] = c
  <2>1. n # 0 => Fits(p[0]) # {}
    BY DEF Ways
  <2> QED BY <2>1 DEF Ways
<1> QED BY <1>1, <1>2 DEF Ends

\* The ways from a client that something fits go through the next one.
LEMMA EndsThere ==
  ASSUME NEW c \in Client, Fits(c) # {}
  PROVE  Ends(c) = Ends(Fed(c))
<1> DEFINE d == Fed(c)
<1>0. d \in Client
  BY FedType
<1>1. ASSUME NEW n \in Nat, NEW p \in Ways(c, n)
      PROVE  \E m \in Nat : \E q \in Ways(d, m) : q[m] = p[n]
  <2>1. n # 0
    BY DEF Ways
  <2> DEFINE m == n - 1
             q == [i \in 0 .. m |-> p[i + 1]]
  <2>2. m \in Nat /\ q[m] = p[n] /\ q[0] = p[1]
    BY <2>1
  <2>3. p \in [0 .. n -> Client] /\ p[0] = c /\ Fits(p[n]) = {}
    BY DEF Ways
  <2>4. \A i \in 0 .. n - 1 : Fits(p[i]) # {} /\ p[i + 1] = Fed(p[i])
    BY DEF Ways
  <2>5. q \in [0 .. m -> Client]
    BY <2>1, <2>3
  <2>6. q[0] = d
    BY <2>1, <2>2, <2>3, <2>4
  <2>7. ASSUME NEW i \in 0 .. m - 1
        PROVE  Fits(q[i]) # {} /\ q[i + 1] = Fed(q[i])
    <3>1. i + 1 \in 0 .. n - 1 /\ q[i] = p[i + 1] /\ q[i + 1] = p[(i + 1) + 1]
      BY <2>1
    <3> QED BY <2>4, <3>1
  <2>8. q \in Ways(d, m)
    <3> HIDE DEF m, q, d
    <3> QED BY <2>2, <2>3, <2>5, <2>6, <2>7 DEF Ways
  <2> QED BY <2>2, <2>8
<1>2. ASSUME NEW m \in Nat, NEW q \in Ways(d, m)
      PROVE  \E n \in Nat : \E p \in Ways(c, n) : q[m] = p[n]
  <2> DEFINE n == m + 1
             p == [i \in 0 .. n |-> IF i = 0 THEN c ELSE q[i - 1]]
  <2>1. q \in [0 .. m -> Client] /\ q[0] = d /\ Fits(q[m]) = {}
    BY DEF Ways
  <2>2. \A i \in 0 .. m - 1 : Fits(q[i]) # {} /\ q[i + 1] = Fed(q[i])
    BY DEF Ways
  <2>3. n \in Nat /\ p[n] = q[m] /\ p[0] = c /\ p \in [0 .. n -> Client]
    BY <2>1
  <2>4. ASSUME NEW i \in 0 .. n - 1
        PROVE  Fits(p[i]) # {} /\ p[i + 1] = Fed(p[i])
    <3>1. CASE i = 0
      <4>1. p[i] = c /\ p[i + 1] = q[0]
        BY <2>1, <3>1
      <4> QED BY <2>1, <4>1
    <3>2. CASE i # 0
      <4>1. i - 1 \in 0 .. m - 1 /\ p[i] = q[i - 1] /\ p[i + 1] = q[(i - 1) + 1]
        BY <3>2
      <4> QED BY <2>2, <4>1
    <3> QED BY <3>1, <3>2
  <2>5. p \in Ways(c, n)
    <3> HIDE DEF n, p
    <3> QED BY <2>1, <2>3, <2>4 DEF Ways
  <2> QED BY <2>3, <2>5
<1> QED BY <1>1, <1>2 DEF Ends

\* The recursive definition of drained is one: a function as it says exists.
LEMMA Drained ==
  \A c \in Client : drained[c] = IF Fits(c) = {} THEN rearmed(c) ELSE drained[Fed(c)]
<1> DEFINE f == [c \in Client |-> CHOOSE r : r \in Ends(c)]
           Def(g) == g = [c \in Client |-> IF Fits(c) = {} THEN rearmed(c) ELSE g[Fed(c)]]
<1>1. ASSUME NEW c \in Client
      PROVE  f[c] = IF Fits(c) = {} THEN rearmed(c) ELSE f[Fed(c)]
  BY EndsHere, EndsThere, FedType
<1>2. Def(f)
  BY <1>1
<1>3. drained = CHOOSE g : Def(g)
  BY DEF drained, Fits, Fed
<1>4. Def(drained)
  <2> HIDE DEF f, Def
  <2> QED BY <1>2, <1>3
<1> QED BY <1>4

\* Induction: what holds of c and stays while something fits holds until nothing does.
LEMMA DrainedEndsIn ==
  ASSUME NEW P, P \subseteq Client, NEW Q,
         \A c \in P : IsFiniteSet(c.held),
         \A c \in P : Fits(c) # {} => Fed(c) \in P,
         \A c \in P : Fits(c) = {} => rearmed(c) \in Q
  PROVE  \A c \in P : drained[c] \in Q
<1> DEFINE Bad == {c \in P : drained[c] \notin Q}
           T   == {Cardinality(c.held) : c \in Bad}
<1>1. SUFFICES ASSUME Bad # {} PROVE FALSE
  OBVIOUS
<1>2. T \subseteq Nat /\ T # {}
  BY <1>1, FS_CardinalityType
<1>3. PICK n \in T : \A m \in T : ~(m < n)
  BY <1>2, LeastNat
<1>4. PICK c \in Bad : n = Cardinality(c.held)
  OBVIOUS
<1>5. Fits(c) # {} /\ Fed(c) \in P /\ drained[Fed(c)] \notin Q
  BY Drained
<1>6. Fed(c) \in Bad
  BY <1>5
<1>7. Fed(c).held \subseteq c.held /\ Fed(c).held # c.held
  <2> DEFINE h == CHOOSE h \in Fits(c) : TRUE
  <2>1. h \in c.held /\ h.start = c.seq + 1 /\ c.seq \in Nat
    BY <1>5 DEF Fits, Client
  <2>2. Fed(c).held \subseteq later(c)
    BY <1>5, FedHeld
  <2>3. h \notin later(c)
    BY <2>1 DEF later
  <2> QED BY <2>1, <2>2, <2>3 DEF later
<1>8. Cardinality(Fed(c).held) < Cardinality(c.held)
  <2>1. IsFiniteSet(c.held) /\ IsFiniteSet(Fed(c).held)
    BY <1>5
  <2>2. Cardinality(Fed(c).held) \in Nat /\ Cardinality(c.held) \in Nat
    BY <2>1, FS_CardinalityType
  <2>3. /\ Cardinality(Fed(c).held) <= Cardinality(c.held)
        /\ Cardinality(Fed(c).held) = Cardinality(c.held) => Fed(c).held = c.held
    BY <1>7, <2>1, FS_Subset
  <2> QED BY <1>7, <2>2, <2>3
<1>9. Cardinality(Fed(c).held) \in T
  BY <1>6
<1> QED BY <1>3, <1>4, <1>8, <1>9

-----------------------------------------------------------------------------
(***************************************************************************)
(* The inductive invariant.                                                *)
(***************************************************************************)

\* The server's seq never goes back.
Ascends == \A i, j \in 0 .. Len(log) : i <= j => seqAt(i) <= seqAt(j)

\* What a container says of the server is so.
Issued(u) ==
  /\ u.date <= Len(log) /\ u.end <= seqAt(Len(log))
  /\ u.end # 0 => 1 <= u.start /\ u.start <= u.end /\ u.via = "push"

\* What is held has numbers, and nothing is held while a difference is requested.
Holds(c) ==
  /\ IsFiniteSet(c.held)
  /\ \A h \in c.held : Issued(h) /\ h.end # 0
  /\ c.requesting => c.held = {}
  /\ c.flying => c.requesting

\* What was taken is covered by the seq, or else by the request that was sent at k.
Counts(c, k) ==
  /\ 1 .. c.seq \subseteq c.taken
  /\ c.seq <= seqAt(Len(log))
  /\ \A n \in c.taken : n <= IF c.requesting THEN seqAt(k) ELSE c.seq

\* What was missed is asked for, or will be.
Misses(c, k) ==
  \A e \in c.missed :
    /\ c.date < e /\ e <= Len(log)
    /\ c.byMin # Off \/ c.requesting
    /\ c.requesting => c.from < e /\ e <= k

Sound(c, k) ==
  Holds(c) /\ Counts(c, k) /\ ("result" \notin Vias => Misses(c, k))

Watched(c) == \A h \in c.held : h.start > c.seq + 1 /\ c.bySeq # Off

IInv ==
  /\ TypeOK
  /\ Ascends
  /\ seen <= Len(log)
  /\ \A u \in net : Issued(u)
  /\ Sound(client, seen)
  /\ Watched(client)

-----------------------------------------------------------------------------
\* The server's seq is a number.
LEMMA SeqAtType ==
  ASSUME log \in Seq(Nat)
  PROVE  \A d \in 0 .. Len(log) : seqAt(d) \in Nat
BY DEF seqAt

\* A step of the client that keeps what the invariant says of it.
LEMMA ClientStep ==
  ASSUME IInv, NEW c \in Client, NEW sent, Becomes(c, sent),
         net' \subseteq net, Watched(c), Sound(c, IF sent THEN Len(log) ELSE seen)
  PROVE  IInv'
<1> DEFINE k == IF sent THEN Len(log) ELSE seen
<1>1. client' = c /\ seen' = k /\ log' = log
  BY DEF Becomes
<1>2. k \in Nat /\ k <= Len(log)
  BY DEF IInv, TypeOK
<1>3. TypeOK'
  BY <1>1, <1>2 DEF IInv, TypeOK
<1>4. Ascends'
  BY <1>1 DEF IInv, Ascends, seqAt
<1>5. ASSUME NEW u \in net' PROVE Issued(u)'
  BY <1>1 DEF IInv, Issued, seqAt
<1>6. Sound(client, seen)'
  <2> HIDE DEF k
  <2>1. Sound(c, k)
    BY DEF k
  <2>2. Holds(client)'
    BY <1>1, <2>1 DEF Sound, Holds, Issued, seqAt
  <2>3. Counts(client, seen)'
    BY <1>1, <2>1 DEF Sound, Counts, seqAt
  <2>4. ("result" \notin Vias => Misses(client, seen))'
    BY <1>1, <2>1 DEF Sound, Misses
  <2> QED BY <2>2, <2>3, <2>4 DEF Sound
<1>7. Watched(client)'
  BY <1>1 DEF Watched
<1> QED BY <1>1, <1>2, <1>3, <1>4, <1>5, <1>6, <1>7 DEF IInv

\* What getDifference needs, to send a request that the invariant holds of.
Askable(c, k) ==
  LET n == IF c.requesting THEN k ELSE Len(log) IN
  /\ Holds(c)
  /\ 1 .. c.seq \subseteq c.taken /\ c.seq <= seqAt(Len(log))
  /\ \A m \in c.taken : m <= seqAt(n)
  /\ "result" \notin Vias =>
       \A e \in c.missed : c.date < e /\ e <= n /\ (c.requesting => c.from < e)

\* The request that getDifference sends covers what was taken and what was missed.
LEMMA Asks ==
  ASSUME TypeOK, NEW c \in Client, NEW k \in Nat, k <= Len(log), Askable(c, k)
  PROVE  LET g == getDifference(c)
             n == IF c.requesting THEN k ELSE Len(log)
         IN  g \in Client /\ Sound(g, n) /\ Watched(g)
<1>1. CASE c.requesting
  <2>1. getDifference(c) = c
    BY <1>1, GetDifference
  <2>2. Len(log) \in Nat /\ c.missed \subseteq Nat
    BY Fields DEF TypeOK
  <2>3. Sound(c, k)
    <3>1. "result" \notin Vias => Misses(c, k)
      BY <1>1, <2>2 DEF Askable, Misses
    <3> QED BY <1>1, <3>1 DEF Askable, Sound, Counts
  <2>4. Watched(c)
    BY <1>1 DEF Askable, Holds, Watched
  <2> QED BY <1>1, <2>1, <2>3, <2>4
<1>2. CASE ~c.requesting
  <2> DEFINE g == getDifference(c)
  <2>1. /\ g \in Client /\ g.requesting /\ g.held = {} /\ g.flying /\ g.from = c.date
        /\ g.seq = c.seq /\ g.date = c.date /\ g.byMin = c.byMin
        /\ g.taken = c.taken /\ g.missed = c.missed
    BY <1>2, GetDifference
  <2> HIDE DEF g
  <2>2. Holds(g) /\ Watched(g)
    BY <2>1, FS_EmptySet DEF Holds, Watched
  <2>3. Counts(g, Len(log))
    BY <1>2, <2>1 DEF Askable, Counts
  <2>4. "result" \notin Vias => Misses(g, Len(log))
    BY <1>2, <2>1 DEF Askable, Misses
  <2> QED BY <1>2, <2>1, <2>2, <2>3, <2>4 DEF Sound, g
<1> QED BY <1>1, <1>2

\* Asking, from a client that a request can be sent from.
LEMMA AskingStep ==
  ASSUME IInv, NEW c \in Client, Asking(c), net' \subseteq net, Askable(c, seen)
  PROVE  IInv'
<1> DEFINE g == getDifference(c)
           sent == ~c.requesting
<1>1. TypeOK /\ seen \in Nat /\ seen <= Len(log)
  BY DEF IInv, TypeOK
<1>2. g \in Client /\ Watched(g) /\ Sound(g, IF c.requesting THEN seen ELSE Len(log))
  BY <1>1, Asks
<1>3. Sound(g, IF sent THEN Len(log) ELSE seen)
  <2> HIDE DEF g
  <2> QED BY <1>2
<1>4. Becomes(g, sent)
  BY DEF Asking
<1> HIDE DEF g, sent
<1> QED BY <1>2, <1>3, <1>4, ClientStep

\* The top of what the server has numbered.
LEMMA Top ==
  ASSUME IInv
  PROVE  /\ seqAt(Len(log)) \in Nat /\ Len(log) \in Nat /\ seen \in 0 .. Len(log)
         /\ \A i, j \in 0 .. Len(log) : /\ seqAt(i) \in Nat /\ seqAt(j) \in Nat
                                        /\ i <= j => seqAt(i) <= seqAt(j)
BY SeqAtType DEF IInv, TypeOK, Ascends

\* A request can be sent whenever none is pending.
LEMMA ClientAskable ==
  ASSUME IInv
  PROVE  Askable(client, seen)
<1>1. /\ client \in Client /\ client.seq \in Nat /\ client.taken \subseteq Nat
      /\ client.missed \subseteq Nat /\ Sound(client, seen)
  BY Fields DEF IInv, TypeOK
<1>2. Holds(client) /\ Counts(client, seen) /\ ("result" \notin Vias => Misses(client, seen))
  BY <1>1 DEF Sound
<1>3. \A m \in client.taken : m <= seqAt(IF client.requesting THEN seen ELSE Len(log))
  BY <1>1, <1>2, Top DEF Counts
<1>4. "result" \notin Vias =>
        \A e \in client.missed :
          /\ client.date < e /\ e <= IF client.requesting THEN seen ELSE Len(log)
          /\ client.requesting => client.from < e
  BY <1>1, <1>2, Top DEF Misses
<1> QED BY <1>2, <1>3, <1>4 DEF Askable, Counts

\* What a container changes when it is fed while no difference is requested.
LEMMA FeedSound ==
  ASSUME TypeOK, NEW c \in Client, NEW k \in Nat, ~c.requesting, Sound(c, k),
         NEW u \in Container, Issued(u), u.end # 0 => u.start = c.seq + 1
  PROVE  /\ feed(c, u) \in Client /\ Sound(feed(c, u), Len(log))
         /\ u.end = 0 /\ Watched(c) => Watched(feed(c, u))
<1> DEFINE v == feedUpdateVector(c, u)
           d == setDate(v, u.date)
           f == feed(c, u)
<1>0. /\ u.end \in Nat /\ u.start \in Nat /\ u.date \in Nat
      /\ c.seq \in Nat /\ c.taken \subseteq Nat /\ c.missed \subseteq Nat /\ c.date \in Nat
      /\ Len(log) \in Nat /\ seqAt(Len(log)) \in Nat
  BY Fields, SeqAtType DEF Container, TypeOK
<1>1. /\ v \in Client
      /\ v.seq = c.seq /\ v.date = c.date /\ v.taken = c.taken
      /\ \/ v = c
         \/ /\ ~c.requesting /\ v.requesting /\ v.held = {} /\ v.flying
            /\ v.from = c.date /\ v.byMin = c.byMin /\ v.missed = c.missed
         \/ /\ ~c.requesting /\ ~v.requesting /\ v.held = c.held /\ v.bySeq = c.bySeq
            /\ v.flying = c.flying /\ v.from = c.from /\ v.byMin # Off
            /\ v.missed \subseteq c.missed \cup {e \in {u.date} : e > c.date}
  BY FeedVector
<1>2. /\ d \in Client
      /\ d = [v EXCEPT !.date = d.date]
      /\ d.date = v.date \/ (v.byMin = Off /\ d.date = u.date /\ v.date < u.date)
  BY <1>0, <1>1, SetDate
<1>3. /\ f \in Client
      /\ f = [d EXCEPT !.seq = f.seq, !.taken = f.taken]
      /\ u.end = 0 => f.seq = c.seq /\ f.taken = c.taken
      /\ u.end # 0 => f.seq = u.end /\ f.taken = c.taken \cup (u.start .. u.end)
      /\ f.held = v.held /\ f.bySeq = v.bySeq /\ f.requesting = v.requesting
  BY Feed
<1> HIDE DEF v, d, f
<1>4. /\ d.byMin = v.byMin /\ d.missed = v.missed /\ d.from = v.from /\ d.flying = v.flying
  BY <1>1, <1>2 DEF Client
<1>5. /\ f.byMin = v.byMin /\ f.missed = v.missed /\ f.from = v.from /\ f.flying = v.flying
      /\ f.date = d.date
  BY <1>2, <1>3, <1>4 DEF Client
<1>6. Holds(f)
  BY <1>1, <1>3, <1>5, FS_EmptySet DEF Sound, Holds
<1>7. Counts(f, Len(log))
  <2>1. CASE u.end = 0
    BY <1>0, <1>3, <2>1 DEF Sound, Counts
  <2>2. CASE u.end # 0
    <3>1. f.seq = u.end /\ f.taken = c.taken \cup (u.start .. u.end) /\ u.start = c.seq + 1
      BY <1>3, <2>2
    <3>2. u.end <= seqAt(Len(log)) /\ u.start <= u.end
      BY <2>2 DEF Issued
    <3> QED BY <1>0, <3>1, <3>2 DEF Sound, Counts
  <2> QED BY <2>1, <2>2
<1>8. ASSUME Misses(c, k) PROVE Misses(f, Len(log))
  <2> SUFFICES ASSUME NEW e \in f.missed
               PROVE  /\ f.date < e /\ e <= Len(log)
                      /\ f.byMin # Off \/ f.requesting
                      /\ f.requesting => f.from < e /\ e <= Len(log)
    BY DEF Misses
  <2>1. CASE v = c
    <3>1. e \in c.missed /\ c.byMin # Off
      BY <1>5, <1>8, <2>1 DEF Misses
    <3>2. f.date = c.date /\ f.byMin = c.byMin /\ f.requesting = c.requesting
      BY <1>2, <1>3, <1>5, <2>1, <3>1
    <3> QED BY <1>8, <3>1, <3>2 DEF Misses
  <2>2. CASE /\ v.requesting /\ v.from = c.date /\ v.byMin = c.byMin /\ v.missed = c.missed
    <3>1. e \in c.missed /\ c.byMin # Off /\ c.date < e /\ e <= Len(log)
      BY <1>5, <1>8, <2>2 DEF Misses
    <3>2. f.date = c.date /\ f.from = c.date /\ f.byMin = c.byMin /\ f.requesting
      BY <1>1, <1>2, <1>3, <1>5, <2>2, <3>1
    <3> QED BY <3>1, <3>2
  <2>3. CASE /\ ~v.requesting /\ v.byMin # Off
             /\ v.missed \subseteq c.missed \cup {x \in {u.date} : x > c.date}
    <3>1. c.date < e /\ e <= Len(log)
      BY <1>0, <1>5, <1>8, <2>3 DEF Misses, Issued
    <3>2. f.date = c.date /\ f.byMin # Off /\ ~f.requesting
      BY <1>1, <1>2, <1>3, <1>5, <2>3
    <3> QED BY <3>1, <3>2
  <2> QED BY <1>1, <2>1, <2>2, <2>3
<1>9. ASSUME u.end = 0, Watched(c) PROVE Watched(f)
  BY <1>1, <1>3, <1>9 DEF Watched
<1> QED BY <1>3, <1>6, <1>7, <1>8, <1>9 DEF Sound, f

\* However many of the held containers are fed in turn, the invariant comes back.
LEMMA DrainedSound ==
  ASSUME TypeOK, NEW c \in Client, Sound(c, Len(log))
  PROVE  /\ drained[c] \in Client /\ Sound(drained[c], Len(log))
         /\ Watched(drained[c])
<1> DEFINE P == {x \in Client : Sound(x, Len(log))}
           Q == {x \in Client : Sound(x, Len(log)) /\ Watched(x)}
<1>1. ASSUME NEW x \in P PROVE IsFiniteSet(x.held)
  BY DEF Sound, Holds
<1>2. ASSUME NEW x \in P, Fits(x) # {} PROVE Fed(x) \in P
  <2> DEFINE y == [x EXCEPT !.held = later(x)]
             h == CHOOSE h \in Fits(x) : TRUE
  <2>1. h \in Fits(x)
    BY <1>2
  <2>2. /\ h \in x.held /\ h \in Container /\ Issued(h) /\ h.end # 0
        /\ h.start = x.seq + 1 /\ ~x.requesting
    BY <2>1 DEF Fits, Client, Sound, Holds
  <2>3. /\ y \in Client /\ y.held = later(x) /\ later(x) \subseteq x.held
        /\ y = [x EXCEPT !.held = y.held]
    BY LaterType DEF Client
  <2> HIDE DEF y
  <2>4. /\ y.seq = x.seq /\ y.taken = x.taken /\ y.requesting = x.requesting
        /\ y.flying = x.flying /\ y.missed = x.missed /\ y.date = x.date
        /\ y.byMin = x.byMin /\ y.from = x.from
    BY <2>3 DEF Client
  <2>5. IsFiniteSet(y.held)
    BY <1>1, <2>3, FS_Subset
  <2>6. Sound(y, Len(log))
    BY <2>2, <2>3, <2>4, <2>5 DEF Sound, Holds, Counts, Misses
  <2>7. Fed(x) = feed(y, h)
    BY DEF Fed, y
  <2> HIDE DEF h
  <2>8. Len(log) \in Nat
    BY DEF TypeOK
  <2>9. feed(y, h) \in Client /\ Sound(feed(y, h), Len(log))
    BY <2>2, <2>3, <2>4, <2>6, <2>8, FeedSound
  <2> QED BY <2>7, <2>9
<1>3. ASSUME NEW x \in P, Fits(x) = {} PROVE rearmed(x) \in Q
  <2> DEFINE r == rearmed(x)
  <2>1. r = [x EXCEPT !.held = later(x), !.bySeq = IF later(x) = {} THEN Off ELSE Wait]
    BY DEF rearmed
  <2>2. r \in Client
    BY RearmedType
  <2>3. /\ r.held = later(x) /\ r.seq = x.seq /\ r.taken = x.taken
        /\ r.requesting = x.requesting /\ r.bySeq = IF later(x) = {} THEN Off ELSE Wait
        /\ r.flying = x.flying /\ r.missed = x.missed /\ r.date = x.date
        /\ r.byMin = x.byMin /\ r.from = x.from
    BY <2>1 DEF Client
  <2> HIDE DEF r
  <2>4. IsFiniteSet(r.held) /\ r.held \subseteq x.held
    BY <1>1, <2>3, LaterType, FS_Subset
  <2>5. Wait # Off
    BY WaitAssumption DEF Off
  <2>6. Watched(r)
    BY <2>3, <2>5 DEF Watched, later
  <2>7. Sound(r, Len(log))
    BY <2>3, <2>4 DEF Sound, Holds, Counts, Misses
  <2> QED BY <2>2, <2>6, <2>7 DEF r
<1>4. \A x \in P : drained[x] \in Q
  <2> HIDE DEF P, Q
  <2>1. P \subseteq Client
    BY DEF P
  <2> QED BY <1>1, <1>2, <1>3, <2>1, DrainedEndsIn
<1> QED BY <1>4

\* While nothing is requested it does not matter when the last request was.
LEMMA SoundIdle ==
  ASSUME NEW c, NEW k, NEW n, ~c.requesting, Sound(c, k)
  PROVE  Sound(c, n)
BY DEF Sound, Holds, Counts, Misses

\* A container that comes too early is held.
LEMMA HeldSound ==
  ASSUME NEW c \in Client, NEW k, ~c.requesting, Sound(c, k), Watched(c),
         NEW u \in Container, Issued(u), u.end # 0, tooEarly(c, u),
         NEW H, H = c.held \/ H = c.held \cup {u}
  PROVE  LET d == [c EXCEPT !.held = H, !.bySeq = Wait]
         IN  d \in Client /\ Sound(d, k) /\ Watched(d)
<1> DEFINE d == [c EXCEPT !.held = H, !.bySeq = Wait]
<1>1. H \subseteq Container
  BY Fields
<1>2. /\ d \in Client /\ d.held = H /\ d.bySeq = Wait /\ d.seq = c.seq /\ d.taken = c.taken
      /\ d.requesting = c.requesting /\ d.flying = c.flying /\ d.missed = c.missed
      /\ d.date = c.date /\ d.byMin = c.byMin /\ d.from = c.from
  BY <1>1, TimerType DEF Client
<1> HIDE DEF d
<1>3. Wait # Off
  BY WaitAssumption DEF Off
<1>4. IsFiniteSet(H)
  BY FS_AddElement DEF Sound, Holds
<1>5. Holds(d)
  BY <1>2, <1>4 DEF Sound, Holds
<1>6. Counts(d, k) /\ (Misses(c, k) => Misses(d, k))
  BY <1>2 DEF Sound, Counts, Misses
<1>7. Watched(d)
  BY <1>2, <1>3 DEF Watched, tooEarly
<1> QED BY <1>2, <1>5, <1>6, <1>7 DEF Sound, d

\* applyUpdates, with its container and while no difference is requested.
LEMMA AppliedIdle ==
  ASSUME IInv, ~client.requesting, NEW u \in Container, Issued(u)
  PROVE  LET c == applied(client, u)
         IN  c \in Client /\ Sound(c, Len(log)) /\ Watched(c)
<1> DEFINE c == applied(client, u)
<1>1. /\ TypeOK /\ client \in Client /\ seen \in Nat /\ Len(log) \in Nat
      /\ Sound(client, seen) /\ Watched(client)
  BY DEF IInv, TypeOK
<1>2. Sound(client, Len(log))
  BY <1>1, SoundIdle
<1>3. CASE u.end = 0
  <2>1. c = feed(client, u)
    BY <1>3 DEF applied
  <2> HIDE DEF c
  <2> QED BY <1>1, <1>2, <1>3, <2>1, FeedSound DEF c
<1>4. CASE u.end # 0 /\ outdated(client, u)
  <2>1. c = client
    BY <1>4 DEF applied
  <2> QED BY <1>1, <1>2, <2>1
<1>5. CASE u.end # 0 /\ ~outdated(client, u) /\ tooEarly(client, u)
  <2> DEFINE H == IF \E h \in client.held : h.start = u.start THEN client.held
                  ELSE client.held \cup {u}
  <2>1. c = [client EXCEPT !.held = H, !.bySeq = Wait]
    BY <1>5 DEF applied
  <2>2. H = client.held \/ H = client.held \cup {u}
    OBVIOUS
  <2> HIDE DEF H, c
  <2> DEFINE e == [client EXCEPT !.held = H, !.bySeq = Wait]
  <2>3. e \in Client /\ Sound(e, Len(log)) /\ Watched(e)
    BY <1>1, <1>2, <1>5, <2>2, HeldSound
  <2> HIDE DEF e
  <2>4. c = e
    BY <2>1 DEF e
  <2> QED BY <2>3, <2>4 DEF c
<1>6. CASE u.end # 0 /\ ~outdated(client, u) /\ ~tooEarly(client, u)
  <2>1. c = drained[feed(client, u)]
    BY <1>6 DEF applied
  <2>2. u.start = client.seq + 1
    BY <1>1, <1>6, Fields DEF outdated, tooEarly, Container
  <2>3. feed(client, u) \in Client /\ Sound(feed(client, u), Len(log))
    BY <1>1, <1>2, <2>2, FeedSound
  <2> HIDE DEF c
  <2> QED BY <1>1, <2>1, <2>3, DrainedSound DEF c
<1> QED BY <1>3, <1>4, <1>5, <1>6

\* The result of a request, which has no seq, while a difference is requested.
LEMMA AppliedBusy ==
  ASSUME IInv, client.requesting, NEW u \in Container, Issued(u), u.via # "push"
  PROVE  LET c == applied(client, u)
         IN  c \in Client /\ Sound(c, seen) /\ Watched(c) /\ c.requesting
<1> DEFINE c == applied(client, u)
           v == feedUpdateVector(client, u)
           d == setDate(v, u.date)
<1>1. /\ TypeOK /\ client \in Client /\ seen \in Nat /\ u.date \in Nat
      /\ Sound(client, seen) /\ Watched(client)
  BY DEF IInv, TypeOK, Container
<1>2. u.end = 0
  BY DEF Issued
<1>3. v = client
  BY <1>1, FeedVector
<1>4. c = d
  BY <1>2 DEF applied, feed
<1>5. /\ d \in Client
      /\ d = [client EXCEPT !.date = d.date]
  BY <1>1, <1>3, SetDate
<1> HIDE DEF c, d
<1>6. /\ d.held = client.held /\ d.bySeq = client.bySeq /\ d.seq = client.seq
      /\ d.taken = client.taken /\ d.requesting = client.requesting
      /\ d.flying = client.flying
  BY <1>1, <1>5 DEF Client
<1>7. Holds(d) /\ Counts(d, seen) /\ Watched(d)
  BY <1>1, <1>6 DEF Sound, Holds, Counts, Watched
<1>8. "result" \in Vias
  BY ViasAssumption DEF Container
<1> QED BY <1>4, <1>5, <1>6, <1>7, <1>8 DEF Sound, c

\* A container arrives.
LEMMA ApplyUpdatesStep ==
  ASSUME IInv, NEW u \in net, ApplyUpdates(u)
  PROVE  IInv'
<1> DEFINE c == applied(client, u)
           sent == c.requesting /\ ~client.requesting
<1>1. u \in Container /\ Issued(u) /\ client.requesting \in BOOLEAN
  BY Fields DEF IInv, TypeOK
<1>2. Becomes(c, sent) /\ net' \subseteq net /\ (u.via = "push" => ~client.requesting)
  BY DEF ApplyUpdates
<1>3. CASE client.requesting
  <2>1. c \in Client /\ Sound(c, seen) /\ Watched(c)
    BY <1>1, <1>2, <1>3, AppliedBusy
  <2> HIDE DEF c
  <2>2. sent = FALSE
    BY <1>3
  <2> QED BY <1>2, <2>1, <2>2, ClientStep
<1>4. CASE ~client.requesting
  <2>1. c \in Client /\ Sound(c, Len(log)) /\ Watched(c)
    BY <1>1, <1>4, AppliedIdle
  <2> HIDE DEF c
  <2>2. Sound(c, IF sent THEN Len(log) ELSE seen)
    <3>1. CASE c.requesting
      BY <1>4, <2>1, <3>1
    <3>2. CASE ~c.requesting
      BY <2>1, <3>2, SoundIdle
    <3> QED BY <3>1, <3>2
  <2> HIDE DEF sent
  <2> QED BY <1>2, <2>1, <2>2, ClientStep
<1> QED BY <1>3, <1>4

\* A step of the server: a container in which the numbers are its own.
LEMMA ServerStep ==
  ASSUME IInv, NEW w \in 0 .. 2, NEW kind \in Kinds, NEW via \in Vias,
         ServerEvent(w, kind, via)
  PROVE  IInv'
<1> DEFINE d == Len(log) + 1
           s == seqAt(Len(log))
           r == [start |-> IF w = 0 THEN 0 ELSE s + 1, end |-> IF w = 0 THEN 0 ELSE s + w,
                 date |-> d, kind |-> kind, via |-> via]
<1>1. /\ log \in Seq(Nat) /\ Len(log) \in Nat /\ s \in Nat
      /\ client \in Client /\ net \subseteq Container /\ seen \in Nat
  BY SeqAtType DEF IInv, TypeOK
<1>r. r \in Container
  BY <1>1 DEF Container
<1>u. PICK u \in Container : u = r
  BY <1>r
<1>2. /\ log' = Append(log, s + w) /\ net' = net \cup {u}
      /\ client' = client /\ seen' = seen /\ (via = "result" => w = 0)
  <2>1. CASE w = 0
    BY <1>u, <2>1 DEF ServerEvent
  <2>2. CASE w # 0
    BY <1>u, <2>2 DEF ServerEvent
  <2> QED BY <2>1, <2>2
<1>3. /\ u.date = Len(log) + 1
      /\ u.end = (IF w = 0 THEN 0 ELSE s + w) /\ u.start = (IF w = 0 THEN 0 ELSE s + 1)
      /\ u.via = via
  BY <1>u
<1>s. s + w \in Nat /\ s = seqAt(Len(log))
  BY <1>1
<1> HIDE DEF s, d, r
<1>4. /\ log' \in Seq(Nat) /\ Len(log)' = Len(log) + 1
      /\ \A i \in 1 .. Len(log) : log'[i] = log[i]
      /\ log'[Len(log) + 1] = s + w
  BY <1>1, <1>2, <1>s
<1>5. TypeOK'
  BY <1>1, <1>2, <1>4 DEF TypeOK
<1>6. \A i \in 0 .. Len(log) : seqAt(i) \in Nat /\ seqAt(i) <= s
  BY <1>1, <1>s, SeqAtType DEF IInv, Ascends
<1>a. /\ \A i \in 0 .. Len(log) : seqAt(i) = IF i = 0 THEN 0 ELSE log'[i]
      /\ seen \in 0 .. Len(log)
  BY <1>1, <1>4 DEF seqAt, IInv
<1>7. Ascends'
  <2> SUFFICES ASSUME NEW i \in 0 .. Len(log) + 1, NEW j \in 0 .. Len(log) + 1, i <= j
               PROVE  (IF i = 0 THEN 0 ELSE log'[i]) <= (IF j = 0 THEN 0 ELSE log'[j])
    BY <1>1, <1>4 DEF Ascends, seqAt
  <2>1. CASE j \in 0 .. Len(log)
    <3>1. i \in 0 .. Len(log)
      BY <1>1, <2>1
    <3>2. seqAt(i) <= seqAt(j)
      BY <2>1, <3>1 DEF IInv, Ascends
    <3> HIDE DEF IInv
    <3> QED BY <1>a, <2>1, <3>1, <3>2
  <2>2. CASE j = Len(log) + 1 /\ i \in 0 .. Len(log)
    BY <1>1, <1>4, <1>6, <1>a, <2>2
  <2>3. CASE i = Len(log) + 1
    BY <1>1, <1>s, <1>4, <2>3
  <2> QED BY <1>1, <2>1, <2>2, <2>3
<1>8. seqAt(Len(log))' = s + w
  BY <1>1, <1>4 DEF seqAt
<1>9. ASSUME NEW x \in Container, Issued(x) PROVE Issued(x)'
  <2>1. x.end \in Nat /\ x.date \in Nat /\ x.end <= s
    BY <1>s, <1>9 DEF Issued, Container
  <2>2. x.end <= s + w /\ x.date <= Len(log) + 1
    BY <1>1, <1>9, <2>1 DEF Issued
  <2> QED BY <1>4, <1>8, <1>9, <2>2 DEF Issued
<1>10. Issued(u)'
  <2>1. w # 0 => via = "push"
    BY <1>2, ViasAssumption
  <2>3. u.end <= s + w /\ (u.end # 0 => 1 <= u.start /\ u.start <= u.end /\ u.via = "push")
    BY <1>1, <1>3, <2>1
  <2> QED BY <1>1, <1>3, <1>4, <1>8, <2>3 DEF Issued
<1>11. ASSUME NEW x \in net' PROVE Issued(x)'
  <2>1. CASE x = u
    BY <1>10, <2>1
  <2>2. CASE x \in net
    <3>1. x \in Container /\ Issued(x)
      BY <1>1, <2>2 DEF IInv
    <3> QED BY <1>9, <3>1
  <2> QED BY <1>2, <2>1, <2>2
<1>12. Holds(client)'
  <2>1. ASSUME NEW x \in client.held PROVE Issued(x)'
    <3>1. x \in Container /\ Issued(x)
      BY <1>1, Fields DEF IInv, Sound, Holds
    <3> QED BY <1>9, <3>1
  <2> QED BY <1>2, <2>1 DEF IInv, Sound, Holds
<1>13. Counts(client, seen)'
  <2>1. seqAt(seen)' = seqAt(seen)
    BY <1>2, <1>a DEF seqAt
  <2>2. client.seq \in Nat /\ client.seq <= s
    BY <1>1, <1>s, Fields DEF IInv, Sound, Counts
  <2>3. client'.seq <= seqAt(Len(log))'
    BY <1>1, <1>2, <1>8, <2>2
  <2> QED BY <1>2, <2>1, <2>3 DEF IInv, Sound, Counts
<1>14. "result" \notin Vias => Misses(client, seen)'
  <2>1. ASSUME NEW e \in Nat, e <= Len(log) PROVE e <= Len(log)'
    BY <1>1, <1>4, <2>1
  <2>2. client.missed \subseteq Nat
    BY <1>1, Fields
  <2> QED BY <1>2, <2>1, <2>2 DEF IInv, Sound, Misses
<1>15. Watched(client)' /\ seen' <= Len(log)'
  BY <1>1, <1>2, <1>4 DEF IInv, Watched
<1> QED BY <1>5, <1>7, <1>11, <1>12, <1>13, <1>14, <1>15 DEF IInv, Sound

\* A container is lost or dropped.
LEMMA NetStep ==
  ASSUME IInv, net' \subseteq net, UNCHANGED <<client, seen, log>>
  PROVE  IInv'
<1>1. TypeOK'
  BY DEF IInv, TypeOK
<1>2. Ascends' /\ (\A u \in net' : Issued(u)')
  BY DEF IInv, Ascends, Issued, seqAt
<1>3. Holds(client)' /\ Counts(client, seen)' /\ ("result" \notin Vias => Misses(client, seen)')
  BY DEF IInv, Sound, Holds, Counts, Misses, Issued, seqAt
<1> QED BY <1>1, <1>2, <1>3 DEF IInv, Sound, Watched

\* Time passes: a timer that runs goes on running.
LEMMA TickStep ==
  ASSUME IInv, Tick
  PROVE  IInv'
<1> DEFINE c == [client EXCEPT !.bySeq = IF @ = Off THEN @ ELSE @ - 1,
                               !.byMin = IF @ = Off THEN @ ELSE @ - 1]
<1>1. client \in Client /\ client.bySeq \in Timer /\ client.byMin \in Timer
  BY Fields DEF IInv, TypeOK
<1>2. client.bySeq # 0 /\ client.byMin # 0
  BY DEF Tick
<1>3. ASSUME NEW t \in Timer, t # 0
      PROVE  (IF t = Off THEN t ELSE t - 1) \in Timer
             /\ ((IF t = Off THEN t ELSE t - 1) = Off => t = Off)
  BY <1>3, WaitAssumption DEF Timer, Off
<1>4. /\ c \in Client /\ c.held = client.held /\ c.seq = client.seq
      /\ c.taken = client.taken /\ c.requesting = client.requesting
      /\ c.flying = client.flying /\ c.missed = client.missed /\ c.date = client.date
      /\ c.from = client.from
      /\ c.bySeq = (IF client.bySeq = Off THEN client.bySeq ELSE client.bySeq - 1)
      /\ c.byMin = (IF client.byMin = Off THEN client.byMin ELSE client.byMin - 1)
  BY <1>1, <1>2, <1>3 DEF Client
<1>5. (c.bySeq = Off => client.bySeq = Off) /\ (c.byMin = Off => client.byMin = Off)
  BY <1>1, <1>2, <1>3, <1>4
<1>6. Becomes(c, FALSE) /\ net' \subseteq net
  BY DEF Tick, Becomes
<1> HIDE DEF c
<1>7. Sound(c, seen)
  BY <1>4, <1>5 DEF IInv, Sound, Holds, Counts, Misses
<1>8. Watched(c)
  BY <1>4, <1>5 DEF IInv, Watched
<1> QED BY <1>4, <1>6, <1>7, <1>8, ClientStep

\* _bySeqTimer: what was held is dropped for what the difference tells.
LEMMA BySeqStep ==
  ASSUME IInv, BySeqTimer
  PROVE  IInv'
<1> DEFINE c == [client EXCEPT !.bySeq = Off]
<1>1. client \in Client
  BY DEF IInv, TypeOK
<1>2. /\ c \in Client /\ c.held = client.held /\ c.requesting = client.requesting
      /\ c.flying = client.flying /\ c.seq = client.seq /\ c.taken = client.taken
      /\ c.missed = client.missed /\ c.date = client.date /\ c.from = client.from
  BY <1>1, TimerType DEF Client
<1>3. Asking(c) /\ net' \subseteq net
  BY DEF BySeqTimer
<1> HIDE DEF c
<1>4. Askable(c, seen)
  BY <1>2, ClientAskable DEF Askable, Holds
<1> QED BY <1>2, <1>3, <1>4, AskingStep

\* _byMinChannelTimer: the request it makes for asks for all that was missed.
LEMMA ByMinStep ==
  ASSUME IInv, ByMinChannelTimer
  PROVE  IInv'
<1> DEFINE c == [client EXCEPT !.byMin = Off]
<1>1. client \in Client
  BY DEF IInv, TypeOK
<1>2. /\ c \in Client /\ c.held = client.held /\ c.requesting = client.requesting
      /\ c.flying = client.flying /\ c.seq = client.seq /\ c.taken = client.taken
      /\ c.missed = client.missed /\ c.date = client.date /\ c.from = client.from
  BY <1>1, TimerType DEF Client
<1>3. Asking(c) /\ net' \subseteq net
  BY DEF ByMinChannelTimer
<1> HIDE DEF c
<1>4. Askable(c, seen)
  BY <1>2, ClientAskable DEF Askable, Holds
<1> QED BY <1>2, <1>3, <1>4, AskingStep

\* A request that nothing here asks for.
LEMMA OtherReasonsStep ==
  ASSUME IInv, AskForOtherReasons
  PROVE  IInv'
<1>1. client \in Client /\ Asking(client) /\ net' \subseteq net
  BY DEF IInv, TypeOK, AskForOtherReasons
<1> QED BY <1>1, ClientAskable, AskingStep

\* A new session: the seq starts again, below what was taken, and a difference tells it.
LEMMA NewSessionStep ==
  ASSUME IInv, NewSession
  PROVE  IInv'
<1> DEFINE c == [client EXCEPT !.seq = 0]
<1>1. client \in Client
  BY DEF IInv, TypeOK
<1>2. /\ c \in Client /\ c.held = client.held /\ c.requesting = client.requesting
      /\ c.flying = client.flying /\ c.seq = 0 /\ c.taken = client.taken
      /\ c.missed = client.missed /\ c.date = client.date /\ c.from = client.from
  BY <1>1 DEF Client
<1>3. Asking(c) /\ net' \subseteq net
  BY DEF NewSession
<1> HIDE DEF c
<1>4. Holds(c)
  BY <1>2, ClientAskable DEF Askable, Holds
<1>5. 1 .. c.seq \subseteq c.taken /\ c.seq <= seqAt(Len(log))
  BY <1>2, Top
<1>6. Askable(c, seen)
  BY <1>2, <1>4, <1>5, ClientAskable DEF Askable
<1> QED BY <1>2, <1>3, <1>6, AskingStep

\* The retry of a request that failed asks for at least as much.
LEMMA RetryStep ==
  ASSUME IInv, getDifferenceAfterFail
  PROVE  IInv'
<1> DEFINE c == [client EXCEPT !.requesting = FALSE]
<1>1. /\ client \in Client /\ client.requesting /\ ~client.flying
      /\ client.taken \subseteq Nat /\ client.missed \subseteq Nat
  BY Fields DEF IInv, TypeOK, getDifferenceAfterFail
<1>2. /\ c \in Client /\ c.held = client.held /\ ~c.requesting
      /\ c.flying = client.flying /\ c.seq = client.seq /\ c.taken = client.taken
      /\ c.missed = client.missed /\ c.date = client.date /\ c.from = client.from
  BY <1>1 DEF Client
<1>3. Asking(c) /\ net' \subseteq net
  BY DEF getDifferenceAfterFail
<1> HIDE DEF c
<1>4. Holds(c)
  BY <1>1, <1>2, ClientAskable DEF Askable, Holds
<1>5. \A m \in c.taken : m <= seqAt(Len(log))
  BY <1>1, <1>2, ClientAskable, Top DEF Askable
<1>6. "result" \notin Vias => \A e \in c.missed : c.date < e /\ e <= Len(log)
  BY <1>1, <1>2, ClientAskable, Top DEF Askable
<1>7. Askable(c, seen)
  BY <1>2, <1>4, <1>5, <1>6, ClientAskable DEF Askable
<1> QED BY <1>2, <1>3, <1>7, AskingStep

\* A request fails, and waits for its retry.
LEMMA FailStep ==
  ASSUME IInv, DifferenceFail
  PROVE  IInv'
<1> DEFINE c == [client EXCEPT !.flying = FALSE]
<1>1. client \in Client /\ Sound(client, seen) /\ Watched(client)
  BY DEF IInv, TypeOK
<1>2. /\ c \in Client /\ c.held = client.held /\ c.requesting = client.requesting
      /\ ~c.flying /\ c.seq = client.seq /\ c.taken = client.taken
      /\ c.missed = client.missed /\ c.date = client.date /\ c.from = client.from
      /\ c.byMin = client.byMin /\ c.bySeq = client.bySeq
  BY <1>1 DEF Client
<1>3. Becomes(c, FALSE) /\ net' \subseteq net
  BY DEF DifferenceFail
<1> HIDE DEF c
<1>4. Sound(c, seen) /\ Watched(c)
  BY <1>1, <1>2 DEF Sound, Holds, Counts, Misses, Watched
<1> QED BY <1>2, <1>3, <1>4, ClientStep

\* setState with nothing held: the date and the seq, and no container is fed.
LEMMA SetStateEmpty ==
  ASSUME NEW c \in Client, c.held = {}, NEW date \in Nat, NEW seq \in Nat
  PROVE  LET a == setState(c, date, seq)
         IN  /\ a \in Client /\ a.held = {} /\ a.taken = c.taken /\ a.missed = c.missed
             /\ a.byMin = c.byMin /\ a.from = c.from
             /\ a.date = c.date \/ (c.byMin = Off /\ a.date = date)
             /\ a.seq = c.seq \/ a.seq = seq
             /\ seq # 0 => a.seq = seq
<1> DEFINE a == setState(c, date, seq)
           d == setDate(c, date)
           x == [d EXCEPT !.seq = seq]
<1>1. /\ d \in Client /\ d = [c EXCEPT !.date = d.date]
      /\ d.date = c.date \/ (c.byMin = Off /\ d.date = date)
  BY SetDate
<1>2. a = IF seq \in {0, d.seq} THEN d ELSE drained[x]
  BY DEF setState
<1> HIDE DEF a, d
<1>3. /\ d.held = {} /\ d.taken = c.taken /\ d.missed = c.missed /\ d.byMin = c.byMin
      /\ d.from = c.from /\ d.seq = c.seq
  BY <1>1 DEF Client
<1>4. CASE seq \in {0, d.seq}
  BY <1>1, <1>2, <1>3, <1>4 DEF a
<1>5. CASE seq \notin {0, d.seq}
  <2>1. /\ x \in Client /\ x.held = {} /\ x.taken = d.taken /\ x.missed = d.missed
        /\ x.byMin = d.byMin /\ x.from = d.from /\ x.date = d.date /\ x.seq = seq
    BY <1>1, <1>3 DEF Client
  <2> HIDE DEF x
  <2>2. Fits(x) = {} /\ later(x) = {}
    BY <2>1 DEF Fits, later
  <2>3. a = rearmed(x)
    BY <1>2, <1>5, <2>1, <2>2, Drained
  <2>4. rearmed(x) = [x EXCEPT !.held = {}, !.bySeq = Off]
    BY <2>2 DEF rearmed
  <2>5. /\ a \in Client /\ a.held = {} /\ a.taken = x.taken /\ a.missed = x.missed
        /\ a.byMin = x.byMin /\ a.from = x.from /\ a.date = x.date /\ a.seq = x.seq
    BY <2>1, <2>3, <2>4, TimerType DEF Client
  <2> QED BY <1>1, <1>3, <2>1, <2>5 DEF a
<1> QED BY <1>4, <1>5

\* What an answer leaves: the seq and what it covers, and what is still missed.
LEMMA Answered ==
  ASSUME IInv, client.flying, NEW k \in 0 .. Len(log)
  PROVE  LET a == answered(k)
         IN  /\ a \in Client /\ a.held = {} /\ ~a.requesting /\ ~a.flying
             /\ a.taken = client.taken \cup (1 .. seqAt(k))
             /\ a.missed = client.missed \ (client.from + 1 .. k)
             /\ a.date = client.date \/ (client.byMin = Off /\ a.date = k)
             /\ a.seq = client.seq \/ a.seq = seqAt(k)
             /\ seqAt(k) # 0 => a.seq = seqAt(k)
<1> DEFINE a == answered(k)
           t == told(client, k)
           d == setState(t, k, seqAt(k))
<1>1. /\ client \in Client /\ client.held = {} /\ client.taken \subseteq Nat
      /\ client.from \in Nat /\ client.missed \subseteq Nat
      /\ k \in Nat /\ seqAt(k) \in Nat
  BY Top, Fields DEF IInv, TypeOK, Sound, Holds
<1>2. t = [client EXCEPT !.taken = @ \cup (1 .. seqAt(k)),
                         !.missed = @ \ (client.from + 1 .. k)]
  BY DEF told
<1>3. /\ t \in Client /\ t.held = {} /\ t.taken = client.taken \cup (1 .. seqAt(k))
      /\ t.missed = client.missed \ (client.from + 1 .. k)
      /\ t.byMin = client.byMin /\ t.date = client.date /\ t.seq = client.seq
  <2>1. 1 .. seqAt(k) \subseteq Nat
    BY <1>1
  <2> HIDE DEF t
  <2> QED BY <1>1, <1>2, <2>1 DEF Client
<1> HIDE DEF t
<1>4. /\ d \in Client /\ d.held = {} /\ d.taken = t.taken /\ d.missed = t.missed
      /\ d.byMin = t.byMin
      /\ d.date = t.date \/ (t.byMin = Off /\ d.date = k)
      /\ d.seq = t.seq \/ d.seq = seqAt(k)
      /\ seqAt(k) # 0 => d.seq = seqAt(k)
  BY <1>1, <1>3, SetStateEmpty
<1>5. a = [d EXCEPT !.requesting = FALSE, !.flying = FALSE]
  BY DEF answered, t
<1> HIDE DEF a, d
<1>6. /\ a \in Client /\ a.held = d.held /\ ~a.requesting /\ ~a.flying /\ a.taken = d.taken
      /\ a.missed = d.missed /\ a.date = d.date /\ a.seq = d.seq
  BY <1>4, <1>5 DEF Client
<1> QED BY <1>3, <1>4, <1>6 DEF a

\* The last answer covers all that was taken and all that was missed.
LEMMA DoneStep ==
  ASSUME IInv, DifferenceDone
  PROVE  IInv'
<1>1. PICK k \in seen .. Len(log) : Becomes(answered(k), FALSE)
  BY DEF DifferenceDone
<1>2. net' \subseteq net /\ client.flying
  BY DEF DifferenceDone
<1>3. k \in 0 .. Len(log) /\ seen <= k /\ seqAt(seen) <= seqAt(k)
      /\ seqAt(k) \in Nat /\ seqAt(k) <= seqAt(Len(log)) /\ seqAt(seen) \in Nat
  BY Top
<1>4. /\ client \in Client /\ client.seq \in Nat /\ client.taken \subseteq Nat
      /\ client.missed \subseteq Nat /\ Sound(client, seen)
  BY Fields DEF IInv, TypeOK
<1>5. client.requesting
  BY <1>2, <1>4 DEF Sound, Holds
<1> DEFINE a == answered(k)
<1>6. /\ a \in Client /\ a.held = {} /\ ~a.requesting /\ ~a.flying
      /\ a.taken = client.taken \cup (1 .. seqAt(k))
      /\ a.missed = client.missed \ (client.from + 1 .. k)
      /\ a.date = client.date \/ (client.byMin = Off /\ a.date = k)
      /\ a.seq = client.seq \/ a.seq = seqAt(k)
      /\ seqAt(k) # 0 => a.seq = seqAt(k)
  BY <1>2, <1>3, Answered
<1> HIDE DEF a
<1>7. Holds(a) /\ Watched(a)
  BY <1>6, FS_EmptySet DEF Holds, Watched
<1>8. Counts(a, seen)
  <2>1. /\ 1 .. client.seq \subseteq client.taken /\ client.seq <= seqAt(Len(log))
        /\ \A n \in client.taken : n <= seqAt(seen)
    BY <1>4, <1>5 DEF Sound, Counts
  <2>2. \A n \in a.taken : n <= a.seq
    <3>1. \A n \in a.taken : n \in Nat /\ n <= seqAt(k)
      BY <1>3, <1>4, <1>6, <2>1
    <3> QED BY <1>3, <1>4, <1>6, <3>1
  <2> QED BY <1>3, <1>6, <2>1, <2>2 DEF Counts
<1>9. "result" \notin Vias => Misses(a, seen)
  <2>1. ASSUME "result" \notin Vias, NEW e \in a.missed PROVE FALSE
    <3>1. e \in client.missed /\ e \in Nat /\ client.from < e /\ e <= seen
      BY <1>4, <1>5, <1>6, <2>1 DEF Sound, Misses
    <3>2. e \in client.from + 1 .. k
      BY <1>3, <3>1, <1>4, Fields, Top
    <3> QED BY <1>6, <3>2
  <2> QED BY <2>1 DEF Misses
<1>10. Sound(a, seen)
  BY <1>7, <1>8, <1>9 DEF Sound
<1>11. Becomes(a, FALSE)
  BY <1>1 DEF a
<1> QED BY <1>2, <1>6, <1>7, <1>10, <1>11, ClientStep

\* A part of the answer, and the request for the next.
LEMMA SliceStep ==
  ASSUME IInv, DifferenceSlice
  PROVE  IInv'
<1>1. PICK k \in client.from + 1 .. seen - 1 : Asking(answered(k))
  BY DEF DifferenceSlice
<1>2. net' \subseteq net /\ client.flying
  BY DEF DifferenceSlice
<1>3. /\ client \in Client /\ client.seq \in Nat /\ client.taken \subseteq Nat
      /\ client.missed \subseteq Nat /\ client.from \in Nat /\ client.date \in Nat
      /\ Sound(client, seen)
  BY Fields DEF IInv, TypeOK
<1>4. /\ k \in 0 .. Len(log) /\ client.from < k /\ k < seen /\ seen <= Len(log)
      /\ seqAt(seen) \in Nat /\ seqAt(seen) <= seqAt(Len(log))
      /\ seqAt(k) \in Nat /\ seqAt(k) <= seqAt(Len(log)) /\ seqAt(Len(log)) \in Nat
  BY <1>3, Top
<1>5. client.requesting
  BY <1>2, <1>3 DEF Sound, Holds
<1> DEFINE a == answered(k)
<1>6. /\ a \in Client /\ a.held = {} /\ ~a.requesting /\ ~a.flying
      /\ a.taken = client.taken \cup (1 .. seqAt(k))
      /\ a.missed = client.missed \ (client.from + 1 .. k)
      /\ a.date = client.date \/ (client.byMin = Off /\ a.date = k)
      /\ a.seq = client.seq \/ a.seq = seqAt(k)
  BY <1>2, <1>4, Answered
<1> HIDE DEF a
<1>7. Holds(a)
  BY <1>6, FS_EmptySet DEF Holds
<1>8. /\ 1 .. a.seq \subseteq a.taken /\ a.seq <= seqAt(Len(log))
      /\ \A n \in a.taken : n <= seqAt(Len(log))
  <2>1. /\ 1 .. client.seq \subseteq client.taken /\ client.seq <= seqAt(Len(log))
        /\ \A n \in client.taken : n <= seqAt(seen)
    BY <1>3, <1>5 DEF Sound, Counts
  <2> QED BY <1>3, <1>4, <1>6, <2>1
<1>9. ASSUME "result" \notin Vias, NEW e \in a.missed
      PROVE  a.date < e /\ e <= Len(log)
  <2>1. /\ e \in client.missed /\ e \in Nat /\ client.from < e /\ e <= seen
        /\ client.date < e
    BY <1>3, <1>5, <1>6, <1>9 DEF Sound, Misses
  <2>2. k < e
    BY <1>3, <1>4, <1>6, <1>9, <2>1
  <2> QED BY <1>4, <1>6, <2>1, <2>2, Top
<1>10. Askable(a, seen)
  BY <1>6, <1>7, <1>8, <1>9 DEF Askable
<1>11. Asking(a)
  BY <1>1 DEF a
<1> QED BY <1>2, <1>6, <1>10, <1>11, AskingStep

-----------------------------------------------------------------------------
\* The invariant holds in the beginning.
LEMMA InitInv == Init => IInv
<1> SUFFICES ASSUME Init PROVE IInv
  OBVIOUS
<1>1. /\ client = [seq |-> 0, date |-> 0, held |-> {}, bySeq |-> Off,
                   byMin |-> Off, requesting |-> FALSE, flying |-> FALSE, from |-> 0,
                   taken |-> {}, missed |-> {}]
      /\ seen = 0 /\ log = <<>> /\ net = {} /\ Len(log) = 0 /\ seqAt(0) = 0
  BY DEF Init, seqAt
<1>2. TypeOK
  BY <1>1, TimerType DEF TypeOK, Client
<1>3. Ascends
  BY <1>1 DEF Ascends
<1>4. Holds(client) /\ Counts(client, seen) /\ Misses(client, seen) /\ Watched(client)
  BY <1>1, FS_EmptySet DEF Holds, Counts, Misses, Watched
<1> QED BY <1>1, <1>2, <1>3, <1>4 DEF IInv, Sound

\* Every step keeps it.
LEMMA NextInv == IInv /\ [Next]_vars => IInv'
<1> SUFFICES ASSUME IInv, [Next]_vars PROVE IInv'
  OBVIOUS
<1>1. CASE Environment
  <2>1. ASSUME NEW u \in net, Lose(u) PROVE IInv'
    BY <2>1, NetStep DEF Lose
  <2> QED BY <1>1, <2>1, ServerStep DEF Environment
<1>2. CASE Receive
  <2>1. ASSUME NEW u \in net, Discard(u) PROVE IInv'
    BY <2>1, NetStep DEF Discard
  <2> QED BY <1>2, <2>1, ApplyUpdatesStep DEF Receive
<1>3. CASE Timers
  BY <1>3, TickStep, BySeqStep, ByMinStep DEF Timers
<1>4. CASE Ask
  BY <1>4, OtherReasonsStep, NewSessionStep, RetryStep DEF Ask
<1>5. CASE Answer
  BY <1>5, DoneStep, SliceStep, FailStep DEF Answer
<1>6. CASE UNCHANGED vars
  BY <1>6, NetStep DEF vars
<1> QED BY <1>1, <1>2, <1>3, <1>4, <1>5, <1>6 DEF Next

\* So it always holds.
LEMMA Invariant == Spec => []IInv
BY InitInv, NextInv, PTL DEF Spec

\* Every value the client's numbers, timers and containers take is of its kind.
THEOREM TypeCorrect == Spec => []TypeOK
<1>1. IInv => TypeOK
  BY DEF IInv
<1> QED BY <1>1, Invariant, PTL

(***************************************************************************)
(* The client's seq covers only what was fed or told by a difference.      *)
(***************************************************************************)
THEOREM NothingIsSkipped == Spec => []NoSkippedSeq
<1>1. IInv => NoSkippedSeq
  BY DEF IInv, Sound, Counts, NoSkippedSeq
<1> QED BY <1>1, Invariant, PTL

(***************************************************************************)
(* Containers are held only ahead of a gap, with _bySeqTimer running, and  *)
(* none while a difference is requested.                                   *)
(***************************************************************************)
THEOREM HeldAreWatched == Spec => []HeldIsWatched
<1>1. IInv => HeldIsWatched
  BY DEF IInv, Sound, Holds, Watched, HeldIsWatched
<1> QED BY <1>1, Invariant, PTL

(***************************************************************************)
(* While pushes are listened to, no container comes that was fed before.   *)
(***************************************************************************)
THEOREM NoneIsFedTwice == Spec => []NothingFedTwice
<1>1. IInv => NothingFedTwice
  BY DEF IInv, Sound, Counts, NothingFedTwice
<1> QED BY <1>1, Invariant, PTL

(***************************************************************************)
(* If containers come only as pushes, an update that was left out because  *)
(* of its channel is before the date of the next request, which is pending *)
(* or for which _byMinChannelTimer runs.                                   *)
(***************************************************************************)
THEOREM MissedAreAsked ==
  ASSUME "result" \notin Vias
  PROVE  Spec => []MissedIsAsked
<1>1. IInv => MissedIsAsked
  BY DEF IInv, Sound, Misses, MissedIsAsked
<1> QED BY <1>1, Invariant, PTL
=============================================================================
